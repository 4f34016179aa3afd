------------------------------- MODULE RunPool -------------------------------
(***************************************************************************)
(* What AsyncRunManager promises about executions, with no threads, store  *)
(* or requests: a run id is claimed once, begins at most once, in one of   *)
(* the processes, and no process executes more than Limit runs at a time.  *)
(***************************************************************************)
EXTENDS Integers, FiniteSets

CONSTANTS
  Workers,  \* gateway processes
  Jobs,     \* run ids
  Limit     \* executions per process; 0 is no limit

VARIABLES
  claimed,  \* ids that have a durable row
  begun,    \* ids whose starter was invoked
  busy      \* per process, the ids whose starter has not returned

poolVars == <<claimed, begun, busy>>

PoolInit == claimed = {} /\ begun = {} /\ busy = [w \in Workers |-> {}]

Claim(j) ==
  /\ j \notin claimed
  /\ claimed' = claimed \cup {j}
  /\ UNCHANGED <<begun, busy>>

Begin(w, j) ==
  /\ j \in claimed \ begun
  /\ Limit = 0 \/ Cardinality(busy[w]) < Limit
  /\ begun' = begun \cup {j}
  /\ busy' = [busy EXCEPT ![w] = @ \cup {j}]
  /\ UNCHANGED claimed

End(w, j) ==
  /\ j \in busy[w]
  /\ busy' = [busy EXCEPT ![w] = @ \ {j}]
  /\ UNCHANGED <<claimed, begun>>

\* The process dies with everything it was executing.
Halt(w) ==
  /\ busy' = [busy EXCEPT ![w] = {}]
  /\ UNCHANGED <<claimed, begun>>

PoolNext ==
  \/ \E j \in Jobs : Claim(j)
  \/ \E w \in Workers, j \in Jobs : Begin(w, j) \/ End(w, j)
  \/ \E w \in Workers : Halt(w)

PoolSpec == PoolInit /\ [][PoolNext]_poolVars
=============================================================================
