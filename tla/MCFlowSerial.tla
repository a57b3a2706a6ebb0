---------------------------- MODULE MCFlowSerial ----------------------------
(* One handler and every kind of request: the flow routes served one at a    *)
(* time, over a table whose reads are strong.                                *)
EXTENDS FlowStore

CONSTANTS f1, h1, v1, v2, undef

MCTags == {"colour"}

Unset == [a \in Attrs |-> Undefined]
Sample == { Unset, [Unset EXCEPT !["label"] = v1, !["colour"] = v1] }

MCBodies ==
  [sameId : {TRUE}, readOnly : Flags, attrs : Sample]
    \cup [sameId : {FALSE}, readOnly : {"undefined"}, attrs : {Unset}]

MCRequests ==
       [op : {"putFlow"}, flow : Flows, body : MCBodies]
  \cup [op : {"put"}, flow : Flows, attr : Attrs, value : {v1}]
  \cup [op : {"put"}, flow : Flows, attr : {"flow_collection"}, value : {v2}]
  \cup [op : {"delete"}, flow : Flows, attr : Attrs]
  \cup [op : {"putReadOnly"}, flow : Flows, readOnly : BOOLEAN]
  \cup [op : {"get"}, flow : Flows, attr : {"flow", "label", "colour", "tags", "read_only"}]

MCWorkload == [h \in Handlers |-> MCRequests]

=============================================================================
