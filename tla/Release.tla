------------------------------ MODULE Release -------------------------------
(***************************************************************************)
(* What a sequencer with counting semaphores promises its services: a      *)
(* service runs once for every release and never without one, and neither  *)
(* releases nor runs are ever taken back.                                  *)
(***************************************************************************)
EXTENDS Naturals

CONSTANT Services

VARIABLES
  released,   \* releases of each service so far
  served      \* runs of each service so far

Init ==
  /\ released = [s \in Services |-> 0]
  /\ served = [s \in Services |-> 0]

\* a cycle releases a set of services at once
ReleaseAll(P) ==
  /\ released' = [s \in Services |-> IF s \in P THEN released[s] + 1 ELSE released[s]]
  /\ UNCHANGED served

Serve(s) ==
  /\ served[s] < released[s]
  /\ served' = [served EXCEPT ![s] = @ + 1]
  /\ UNCHANGED released

Next ==
  \/ \E P \in SUBSET Services : ReleaseAll(P)
  \/ \E s \in Services : Serve(s)

Spec == Init /\ [][Next]_<<released, served>>

=============================================================================
