--------------------------- MODULE RuntimeQueueMC ---------------------------
(* Instances of RuntimeQueue for TLC. *)
EXTENDS RuntimeQueue, TLC

CONSTANTS n1, n2, w1, w2, w3, r1, r2, r3, a1, a2, t1

\* Handover: two nodes with a worker each compete for one run, the step of a
\* workflow task
HandoverNodeOf == w1 :> n1 @@ w2 :> n2
OneAgentOf == r1 :> a1
OneTaskOf == r1 :> t1
OneRank == r1 :> 1
OneDesired == r1 :> NoNode

\* Busy: one node with two workers; two runs of an agent, the second of higher
\* priority, for the same task
BusyNodeOf == w1 :> n1 @@ w2 :> n1
BusyAgentOf == r1 :> a1 @@ r2 :> a1
BusyTaskOf == r1 :> t1 @@ r2 :> t1
BusyRank == r1 :> 2 @@ r2 :> 1
BusyDesired == r1 :> NoNode @@ r2 :> n1

\* Forks: two main runs of an agent and a fork session of it
ForksAgentOf == r1 :> a1 @@ r2 :> a1 @@ r3 :> a1
ForksTaskOf == r1 :> NoTask @@ r2 :> NoTask @@ r3 :> NoTask
ForksRank == r1 :> 1 @@ r2 :> 2 @@ r3 :> 3
ForksDesired == r1 :> NoNode @@ r2 :> NoNode @@ r3 :> NoNode
=============================================================================
