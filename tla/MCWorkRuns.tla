---------------------------- MODULE MCWorkRuns -----------------------------
(* WorkRuns on small instances. *)
EXTENDS WorkRuns, TLC

(* Task ids and instances are only ever compared. *)
Symmetry == Permutations(Tasks) \cup Permutations(Instances)

(* A Work in which a plan ran long ago: its cards and the two roles are on  *)
(* the board, its run is in no table of this instance.  The bound on Runs   *)
(* is then spent on what happens to the cards.                              *)
PlannedBoard ==
    /\ taskStatus \in [Tasks -> {"todo"}]
    /\ scope \in [Tasks -> {sc \in Scope : sc.src = 1}]
    /\ reason = [t \in Tasks |-> "planned"]
    /\ WellFounded(taskStatus, scope)
    /\ \E e \in Instances :
         /\ agents \in {[i \in Instances |-> IF i = e THEN "expert"
                                         ELSE "coordinator"]}
         /\ \A t \in Tasks : scope[t].owner = e
    /\ members = {Owner}
    /\ latest = 1

PlannedInit == PlannedBoard /\ NothingRan
PlannedSpec == PlannedInit /\ [][Next]_vars
PlannedFairSpec == PlannedSpec /\ Fairness
=============================================================================
