---------------------------- MODULE MCModelCalls -----------------------------
(* A call of a turn, over two models of one provider or over one model, and *)
(* a call of a summary beside it.                                           *)
EXTENDS ModelCalls, TLC

CONSTANTS t1, s1, big, small

MCProvider == big :> "p" @@ small :> "p"
MCFamily == big :> "b" @@ small :> "s"
TwoModels == t1 :> <<big, small>> @@ s1 :> <<big>>
OneModel == t1 :> <<big>> @@ s1 :> <<big>>
=============================================================================
