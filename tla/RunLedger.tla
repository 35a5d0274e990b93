----------------------------- MODULE RunLedger -----------------------------
(***************************************************************************)
(* What the remote run queue promises of a run, whatever the requests,     *)
(* clocks and faults behind it: it is submitted once; at any time at most  *)
(* one node is entitled to it, one of those its row names; the entitlement *)
(* passes to another node only after it lapsed; and once the run is over   *)
(* nobody is ever entitled to it again.                                    *)
(***************************************************************************)
CONSTANTS Runs, Nodes, NoNode,
          Eligible          \* Eligible[r]: the nodes that may execute r

VARIABLE ledger             \* ledger[r]: phase of r and the node entitled to it

Nobody(phase) == [phase |-> phase, holder |-> NoNode]
HeldBy(n) == [phase |-> "held", holder |-> n]

TypeOK ==
  ledger \in [Runs -> {Nobody("none"), Nobody("waiting"), Nobody("over")}
                      \cup {HeldBy(n) : n \in Nodes}]

Init == ledger = [r \in Runs |-> Nobody("none")]

Submit(r) ==
  /\ ledger[r] = Nobody("none")
  /\ ledger' = [ledger EXCEPT ![r] = Nobody("waiting")]

Grant(r, n) ==
  /\ ledger[r] = Nobody("waiting")
  /\ n \in Eligible[r]
  /\ ledger' = [ledger EXCEPT ![r] = HeldBy(n)]

\* one moment ends the entitlement to several runs
Lapse(S) ==
  /\ \A r \in S : ledger[r].phase = "held"
  /\ ledger' = [r \in Runs |-> IF r \in S THEN Nobody("waiting") ELSE ledger[r]]

Finish(r) ==
  /\ ledger[r].phase \in {"waiting", "held"}
  /\ ledger' = [ledger EXCEPT ![r] = Nobody("over")]

Next ==
  \/ \E r \in Runs : Submit(r) \/ Finish(r)
  \/ \E r \in Runs, n \in Nodes : Grant(r, n)
  \/ \E S \in SUBSET Runs : Lapse(S)

Spec == Init /\ [][Next]_ledger

=============================================================================
