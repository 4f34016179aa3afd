---------------------------- MODULE MCRunManager ----------------------------
(***************************************************************************)
(* Finite instances of RunManager.  The configurations give Gateways, Runs *)
(* and requests small sets of model values.  Requests of a kind are        *)
(* interchangeable, and so are run ids that are all keyed, in the runs     *)
(* that check no liveness.                                                 *)
(***************************************************************************)
EXTENDS RunManager, TLC

CallSymmetry == Permutations(Starts) \cup Permutations(Cancels)
RunSymmetry  == CallSymmetry \cup Permutations(Runs)
=============================================================================
