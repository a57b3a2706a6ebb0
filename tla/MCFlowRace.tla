----------------------------- MODULE MCFlowRace -----------------------------
(* Two handlers on one flow: locks, unlocks, replacements and edits that     *)
(* overlap, on a table whose lagging copy may answer reads, with a write     *)
(* that outlives its request.                                                *)
EXTENDS FlowStore, TLC

CONSTANTS f1, h1, h2, v1, undef, t1

MCTags == {"colour"}

Unset == [a \in Attrs |-> Undefined]

MCBodies == [sameId : {TRUE}, readOnly : {"true", "undefined"}, attrs : {Unset}]

MCRequests ==
       [op : {"putFlow"}, flow : Flows, body : MCBodies]
  \cup [op : {"put"}, flow : Flows, attr : {"colour"}, value : {v1}]
  \cup [op : {"putReadOnly"}, flow : Flows, readOnly : BOOLEAN]

MCWorkload == [h \in Handlers |-> MCRequests]

Symmetry == Permutations(Handlers)
=============================================================================
