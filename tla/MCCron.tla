------------------------------- MODULE MCCron -------------------------------
(* Jobs of every kind, on instances that share a file: a gateway and the     *)
(* next one, or a gateway and a command.                                     *)
EXTENDS Cron

CONSTANTS j1, clock

\* An expression with two ticks left.
TwoTicks(e, t) == IF e = clock /\ t < 2 THEN t + 1 ELSE None
=============================================================================
