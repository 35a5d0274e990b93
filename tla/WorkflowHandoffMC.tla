-------------------------- MODULE WorkflowHandoffMC --------------------------
(* Instances of WorkflowHandoff for TLC. *)
EXTENDS WorkflowHandoff, TLC

CONSTANTS plan, build, review, fix, ship, a1, a2, h1, b1, b2, c1, c2, ok, again

\* A plan, a stage with two branches, a review that may ask for a repair, itself
\* a stage in which one of two branches is enough, and the last step of the
\* other agent.
MCActorOf == plan :> a1 @@ build :> a1 @@ review :> h1 @@ fix :> a1 @@ ship :> a2

MCEdge ==
  plan :> (ok :> build @@ again :> fix) @@
  build :> (ok :> review @@ again :> NoMatch) @@
  fix :> (ok :> review @@ again :> ship) @@
  review :> (ok :> End @@ again :> ship) @@
  ship :> (ok :> review @@ again :> End)

MCSymmetry == Permutations(Requests)

MCStageOf == b1 :> build @@ b2 :> build @@ c1 :> fix @@ c2 :> fix
=============================================================================
