------------------------------ MODULE FlowData ------------------------------
(* The data the flow routes of the TAMS service handle: flows, the requests  *)
(* the routes accept, and the predicates on them.  A flow is abstracted to   *)
(* its read_only flag, its dates and the attributes that have a route of     *)
(* their own; every other field of the document travels with them.           *)

CONSTANTS
  Flows,      \* flow identifiers
  Handlers,   \* requests in flight at once, over all the service's replicas
  Tags,       \* tag names
  Values,     \* values an attribute can be given
  Empty,      \* the value that stands for an empty list
  Undefined,  \* an attribute that is not set
  NoFlow,     \* what the repository answers for an unknown identifier
  NoRequest,  \* a handler that serves nothing
  Times,      \* dates read from the clocks of the replicas
  Workload    \* the requests each handler may be given

Props == {"label", "description", "flow_collection", "avg_bit_rate", "max_bit_rate"}
Attrs == Props \cup Tags

Attributes == [Attrs -> Values \cup {Undefined}]

(* read_only is true, false or left out: the routes test "=== true".         *)
Flags == {"true", "false", "undefined"}

Items == [readOnly : Flags, attrs : Attributes, created : Times, metadataUpdated : Times]

(* PUT /flows/:flowId carries a whole flow, whose id may not be the URL's.   *)
Bodies == [sameId : BOOLEAN, readOnly : Flags, attrs : Attributes]

Requests ==
       [op : {"putFlow"}, flow : Flows, body : Bodies]
  \cup [op : {"put"}, flow : Flows, attr : Attrs, value : Values]
  \cup [op : {"delete"}, flow : Flows, attr : Attrs]
  \cup [op : {"putReadOnly"}, flow : Flows, readOnly : BOOLEAN]
  \cup [op : {"get"}, flow : Flows, attr : Attrs \cup {"flow", "read_only", "tags"}]

Locked(item) == item # NoFlow /\ item.readOnly = "true"

(* The requests that may write to a read-only flow: they lift the lock.      *)
Unlocks(r) ==
  \/ r.op = "putFlow" /\ r.body.readOnly = "false"
  \/ r.op = "putReadOnly" /\ ~r.readOnly

(* The requests that ask for the lock.                                       *)
Locks(r) ==
  \/ r.op = "putFlow" /\ r.body.readOnly = "true"
  \/ r.op = "putReadOnly" /\ r.readOnly

(* The flow in the body of a PUT is not the one of the URL.                  *)
Mismatched(r) == r.op = "putFlow" /\ ~r.body.sameId

(* No two handlers ever serve requests about the same flow.                  *)
Partitioned ==
  \A g, h \in Handlers : g # h =>
    \A r \in Workload[g], s \in Workload[h] : r.flow # s.flow

ASSUME SentinelAssumption ==
  /\ NoFlow \notin Items
  /\ NoRequest \notin Requests
  /\ Undefined \notin Values
  /\ Empty \in Values
  /\ Tags \cap (Props \cup {"flow", "read_only", "tags", "created", "readOnly"}) = {}

ASSUME WorkloadAssumption == Workload \in [Handlers -> SUBSET Requests]
=============================================================================
