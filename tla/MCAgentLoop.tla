---------------------------- MODULE MCAgentLoop -----------------------------
(* A message of the user and a job of cron, on a session that was saved     *)
(* while the results of a call turn were still missing.                     *)
EXTENDS AgentLoop, TLC

CONSTANTS u1, k1, old

Earlier(n) == [turn |-> old, iteration |-> 1, n |-> n]
HalfTurn == {<<User(old), Assistant(old, {Earlier(1), Earlier(2)}), Result(old, Earlier(1))>>}
=============================================================================
