--------------------------- MODULE FlowStoreProofs ---------------------------
(* Proofs about FlowStore, for any flows, handlers, tags, values, clocks and *)
(* workload.                                                                 *)
EXTENDS FlowStore, FiniteSetTheorems, TLAPS

------------------------------------------------------------------------------
(* The data.                                                                 *)

(* What a request carries, by its kind.                                      *)
LEMMA RequestShape ==
  ASSUME NEW r \in Requests
  PROVE  /\ r # NoRequest
         /\ r.flow \in Flows
         /\ r.op \in {"putFlow", "put", "delete", "putReadOnly", "get"}
         /\ r.op = "putFlow" => r.body \in Bodies
         /\ r.op = "put" => r.attr \in Attrs /\ r.value \in Values
         /\ r.op = "delete" => r.attr \in Attrs
         /\ r.op = "putReadOnly" => r.readOnly \in BOOLEAN
BY SentinelAssumption DEF Requests

(* A handler that waits for something serves a request of its workload.      *)
LEMMA Serving ==
  ASSUME TypeOK, NEW h \in Handlers, pc[h] # "idle"
  PROVE  req[h] \in Requests /\ req[h] \in Workload[h]
BY WorkloadAssumption DEF TypeOK

(* An edit of an item changes one attribute and keeps the rest, but for the  *)
(* date of the change.                                                       *)
LEMMA EditedItem ==
  ASSUME NEW item \in Items, NEW attr \in Attrs, NEW value \in Values \cup {Undefined},
         NEW now \in Times
  PROVE  LET new == Edited(item, attr, value, now)
         IN /\ new \in Items
            /\ new.readOnly = item.readOnly
            /\ new.created = item.created
            /\ new.attrs[attr] = value
            /\ \A a \in Attrs \ {attr} : new.attrs[a] = item.attrs[a]
BY DEF Items, Attributes, Edited

(* So does a lock or an unlock with the flag.                                *)
LEMMA FlaggedItem ==
  ASSUME NEW item \in Items, NEW flag \in Flags, NEW now \in Times
  PROVE  LET new == Flagged(item, flag, now)
         IN /\ new \in Items
            /\ new.readOnly = flag
            /\ new.created = item.created
            /\ new.attrs = item.attrs
BY DEF Items, Flagged

(* FlowApi speaks of the same data.                                          *)
LEMMA SameData ==
  /\ Api!Items = Items /\ Api!Attrs = Attrs
  /\ \A item : Api!Locked(item) <=> Locked(item)
  /\ \A r : Api!Unlocks(r) <=> Unlocks(r)
  /\ \A r : Api!Mismatched(r) <=> Mismatched(r)
BY DEF Api!Items, Items, Api!Attributes, Attributes, Api!Flags, Flags, Api!Attrs, Attrs,
       Api!Props, Props, Api!Locked, Locked, Api!Unlocks, Unlocks,
       Api!Mismatched, Mismatched

(* The handlers of the routes below a flow are one edit, of the attribute    *)
(* that the request names; that of a tag also refuses to remove what is not  *)
(* there.                                                                    *)
PlainEdit(h) ==
  \E op \in {"put", "delete"} :
    /\ Edit(h, op, req[h].attr, Api!Wanted(req[h]))
    /\ local[h] = NoFlow \/ Locked(local[h]) \/ ~Api!Missing(local[h], req[h])

AbsentTag(h) ==
  /\ Checks(h, "delete")
  /\ local[h] # NoFlow
  /\ Api!Missing(local[h], req[h])
  /\ Respond(h, 404)

LEMMA EditForm ==
  ASSUME TypeOK, NEW h \in Handlers, EditHandler(h)
  PROVE  PlainEdit(h) \/ AbsentTag(h)
<1>. USE DEF PlainEdit, Api!Wanted, Api!Missing
<1>1. "label" \notin Tags /\ "description" \notin Tags /\ "avg_bit_rate" \notin Tags
      /\ "max_bit_rate" \notin Tags /\ "flow_collection" \notin Tags
  BY SentinelAssumption DEF Props
<1>2. CASE PutFlowLabel(h) \/ DeleteFlowLabel(h)
  BY <1>1, <1>2 DEF PutFlowLabel, DeleteFlowLabel, Edit, Checks
<1>3. CASE PutFlowDescription(h) \/ DeleteFlowDescription(h)
  BY <1>1, <1>3 DEF PutFlowDescription, DeleteFlowDescription, Edit, Checks
<1>4. CASE PutFlowAvgBitRate(h) \/ DeleteFlowAvgBitRate(h)
  BY <1>1, <1>4 DEF PutFlowAvgBitRate, DeleteFlowAvgBitRate, Edit, Checks
<1>5. CASE PutFlowMaxBitRate(h) \/ DeleteFlowMaxBitRate(h)
  BY <1>1, <1>5 DEF PutFlowMaxBitRate, DeleteFlowMaxBitRate, Edit, Checks
<1>6. CASE PutFlowFlowCollection(h) \/ DeleteFlowFlowCollection(h)
  BY <1>1, <1>6 DEF PutFlowFlowCollection, DeleteFlowFlowCollection, Edit, Checks
<1>7. CASE PutFlowTag(h)
  BY <1>1, <1>7 DEF PutFlowTag, Edit, Checks
<1>8. CASE DeleteFlowTag(h)
  BY <1>1, <1>8 DEF DeleteFlowTag, AbsentTag, Edit, Checks
<1>9. QED
  BY <1>2, <1>3, <1>4, <1>5, <1>6, <1>7, <1>8 DEF EditHandler

(* The verdicts of FlowApi on request r where it finds item: the item it may *)
(* leave behind, and the answers that leave the flow alone.                  *)
Accepted(r, item, new) ==
  /\ r.op # "get"
  /\ item = NoFlow => r.op = "putFlow"
  /\ ~Api!Protected(item, r) /\ ~Api!Missing(item, r)
  /\ Api!Outcome(r, item, new)

Answers(r, item, code) ==
  \/ Api!Protected(item, r) /\ code = 403
  \/ item = NoFlow /\ r.op # "putFlow" /\ code = 404
  \/ item # NoFlow /\ Api!Missing(item, r) /\ code = 404
  \/ r.op = "get" /\ item # NoFlow /\ ~Api!Missing(item, r) /\ code = 200
  \/ code = 500

(* Between its read and its next await a handler either answers, or sends an *)
(* item, as FlowApi demands of the flow it has read.                         *)
LEMMA CheckVerdict ==
  ASSUME TypeOK, NEW h \in Handlers, Check(h)
  PROVE  /\ pc[h] = "check"
         /\ \/ \E code \in Codes : Respond(h, code) /\ Answers(req[h], local[h], code)
            \/ \E item \in Items : Send(h, item) /\ Accepted(req[h], local[h], item)
<1>. DEFINE r == req[h]
<1>1. CASE EditHandler(h)
  <2>1. CASE AbsentTag(h)
    BY <2>1 DEF AbsentTag, Checks, Codes, Answers
  <2>2. CASE PlainEdit(h)
    <3>1. pc[h] = "check" /\ r.op \in {"put", "delete"}
      BY <2>2 DEF PlainEdit, Edit, Checks
    <3>2. r.attr \in Attrs /\ Api!Wanted(r) \in Values \cup {Undefined}
      BY <3>1, Serving, RequestShape DEF Api!Wanted
    <3>3. CASE local[h] = NoFlow /\ Respond(h, 404)
      BY <3>1, <3>3 DEF Codes, Answers
    <3>4. CASE Locked(local[h]) /\ Respond(h, 403)
      BY <3>1, <3>4, SameData DEF Codes, Answers, Api!Protected, Api!Edits
    <3>5. CASE local[h] # NoFlow /\ ~Locked(local[h]) /\ SendEdited(h, r.attr, Api!Wanted(r))
      <4>1. PICK now \in Times :
              Send(h, Edited(local[h], r.attr, Api!Wanted(r), now))
        BY <3>5 DEF SendEdited
      <4>. DEFINE new == Edited(local[h], r.attr, Api!Wanted(r), now)
      <4>2. local[h] \in Items
        BY <3>5 DEF TypeOK
      <4>3. /\ new \in Items
            /\ new.readOnly = local[h].readOnly
            /\ new.created = local[h].created
            /\ new.attrs[r.attr] = Api!Wanted(r)
            /\ \A a \in Attrs \ {r.attr} : new.attrs[a] = local[h].attrs[a]
        BY <3>2, <4>1, <4>2, EditedItem
      <4>4. Api!Outcome(r, local[h], new)
        BY <3>1, <4>3, SameData DEF Api!Outcome, Api!Edits
      <4>5. ~Api!Missing(local[h], r)
        BY <2>2, <3>5 DEF PlainEdit
      <4>6. Accepted(r, local[h], new)
        BY <3>1, <3>5, <4>4, <4>5, SameData DEF Accepted, Api!Protected
      <4>7. QED
        BY <3>1, <4>1, <4>3, <4>6
    <3>6. QED
      BY <2>2, <3>3, <3>4, <3>5 DEF PlainEdit, Edit
  <2>3. QED
    BY <1>1, <2>1, <2>2, EditForm
<1>2. CASE PutFlowReadOnly(h)
  <2>1. CASE local[h] = NoFlow
    BY <1>2, <2>1 DEF PutFlowReadOnly, Checks, Codes, Answers
  <2>2. CASE local[h] # NoFlow
    <3>. DEFINE flag == IF r.readOnly THEN "true" ELSE "undefined"
    <3>1. pc[h] = "check" /\ r.op = "putReadOnly"
      BY <1>2 DEF PutFlowReadOnly, Checks
    <3>2. PICK now \in Times :
            Send(h, Flagged(local[h], flag, now))
      BY <1>2, <2>2 DEF PutFlowReadOnly
    <3>. DEFINE new == Flagged(local[h], flag, now)
    <3>3. /\ new \in Items
          /\ new.readOnly = flag
          /\ new.created = local[h].created
          /\ new.attrs = local[h].attrs
      <4>1. local[h] \in Items /\ flag \in Flags
        BY <2>2 DEF TypeOK, Flags
      <4>2. QED
        BY <3>2, <4>1, FlaggedItem
    <3>4. Locked(new) <=> r.readOnly
      <4>1. new # NoFlow
        BY <3>3, SentinelAssumption
      <4>2. r.readOnly \in BOOLEAN
        BY <3>1, Serving, RequestShape
      <4>3. QED
        BY <3>3, <4>1, <4>2 DEF Locked
    <3>5. Accepted(r, local[h], new)
      BY <2>2, <3>1, <3>3, <3>4, SameData
         DEF Accepted, Api!Protected, Api!Missing, Api!Outcome, Api!Edits
    <3>6. QED
      BY <3>1, <3>2, <3>3, <3>5
  <2>3. QED
    BY <2>1, <2>2
<1>3. CASE PutFlow(h)
  <2>1. pc[h] = "check" /\ r.op = "putFlow" /\ r.body \in Bodies
    BY <1>3, Serving, RequestShape DEF PutFlow, Checks
  <2>2. CASE Locked(local[h]) /\ r.body.readOnly \in {"true", "undefined"}
    <3>1. Respond(h, 403)
      BY <1>3, <2>2 DEF PutFlow
    <3>2. Api!Protected(local[h], r)
      BY <2>1, <2>2, SameData DEF Api!Protected, Unlocks
    <3>3. QED
      BY <2>1, <3>1, <3>2 DEF Codes, Answers
  <2>3. CASE ~(Locked(local[h]) /\ r.body.readOnly \in {"true", "undefined"})
    <3>1. PICK now \in Times :
            Send(h, [readOnly |-> r.body.readOnly, attrs |-> r.body.attrs,
                     metadataUpdated |-> now,
                     created |-> IF local[h] = NoFlow THEN now ELSE local[h].created])
      BY <1>3, <2>3 DEF PutFlow
    <3>. DEFINE new == [readOnly |-> r.body.readOnly, attrs |-> r.body.attrs,
                        metadataUpdated |-> now,
                        created |-> IF local[h] = NoFlow THEN now ELSE local[h].created]
    <3>2. new \in Items
      BY <2>1 DEF TypeOK, Items, Bodies
    <3>3. ~Api!Protected(local[h], r)
      BY <2>1, <2>3, SameData DEF Api!Protected, Api!Edits, Unlocks, Bodies, Flags
    <3>4. Accepted(r, local[h], new)
      BY <2>1, <3>2, <3>3, SameData DEF Accepted, Api!Missing, Api!Outcome, Api!Edits
    <3>5. QED
      BY <2>1, <3>1, <3>2, <3>4
  <2>4. QED
    BY <2>2, <2>3
<1>4. CASE GetFlow(h)
  BY <1>4 DEF GetFlow, Checks, Codes, Answers, Api!Missing
<1>5. QED
  BY <1>1, <1>2, <1>3, <1>4 DEF Check

(* What an accepted request may change of the flow it found: the fields it   *)
(* sets, and nothing but the date of the change where it finds the flow      *)
(* locked and does not lift the lock.  A flow it leaves locked is one it was *)
(* asked to lock.                                                            *)
LEMMA AcceptedChange ==
  ASSUME NEW r \in Requests, NEW item \in Items \cup {NoFlow}, NEW new \in Items,
         Accepted(r, item, new)
  PROVE  /\ item = NoFlow => r.op = "putFlow"
         /\ item # NoFlow => \A x \in Fields : Sets(r, x) \/ Field(new, x) = Field(item, x)
         /\ Locked(item) => Like(new, item) \/ Unlocks(r)
         /\ Locked(new) => Locks(r)
<1>1. item = NoFlow => r.op = "putFlow"
  BY DEF Accepted
<1>2. Attrs \cap {"created", "readOnly"} = {}
  BY SentinelAssumption DEF Attrs, Props
<1>3. r.op \in {"putFlow", "put", "delete", "putReadOnly"}
  BY RequestShape DEF Accepted
<1>4. item # NoFlow => \A x \in Fields : Sets(r, x) \/ Field(new, x) = Field(item, x)
  BY <1>2, <1>3, SameData DEF Accepted, Api!Outcome, Api!Edits, Sets, Field, Fields
<1>5. ASSUME Locked(item), ~Unlocks(r)
      PROVE  Like(new, item)
  <2>1. r.op = "putReadOnly" /\ r.readOnly
    BY <1>3, <1>5, RequestShape, SameData DEF Accepted, Api!Protected, Api!Edits, Unlocks
  <2>2. Locked(new)
    BY <2>1, SameData DEF Accepted, Api!Outcome
  <2>3. \A x \in Fields : Field(new, x) = Field(item, x)
    BY <1>4, <1>5, <2>1, <2>2 DEF Sets, Field, Locked
  <2>4. QED
    BY <1>5, <2>2, <2>3 DEF Like, Locked
<1>6. ASSUME Locked(new)
      PROVE  Locks(r)
  BY <1>1, <1>3, <1>6, SameData
     DEF Accepted, Api!Protected, Api!Outcome, Api!Edits, Locks, Locked
<1>7. QED
  BY <1>1, <1>4, <1>5, <1>6

------------------------------------------------------------------------------
(* Types.                                                                    *)

(* A handler that answers, or that holds a flow to store, stays in its type. *)
LEMMA RespondType ==
  ASSUME TypeOK, NEW h \in Handlers, pc[h] # "idle", NEW code \in Codes, Reply(h, code),
         strays' \subseteq [req : Requests, item : Items]
  PROVE  TypeOK'
BY DEF TypeOK, Reply, Stages

LEMMA SendType ==
  ASSUME TypeOK, NEW h \in Handlers, pc[h] = "check", NEW item \in Items, Send(h, item)
  PROVE  TypeOK'
BY SentinelAssumption DEF TypeOK, Send, Stages

(* What is on its way is a request and an item, also of a request just over. *)
LEMMA StrayType ==
  ASSUME TypeOK, NEW h \in Handlers, Stray(h)
  PROVE  strays' \subseteq [req : Requests, item : Items]
<1>1. pc[h] = "put" => Write(h) \in [req : Requests, item : Items]
  BY Serving DEF TypeOK, Write
<1>2. QED
  BY <1>1 DEF TypeOK, Stray

(* The writes that are out are requests with complete items.                 *)
LEMMA WriteShape ==
  ASSUME TypeOK
  PROVE  \A w \in Writes : w.req \in Requests /\ w.req.flow \in Flows /\ w.item \in Items
<1>1. \A h \in Waiting : Write(h) \in [req : Requests, item : Items]
  BY Serving DEF TypeOK, Waiting, Write
<1>2. \A w \in Writes : w \in [req : Requests, item : Items]
  BY <1>1 DEF TypeOK, Writes
<1>3. QED
  BY <1>2, RequestShape

LEMMA TypeStep ==
  ASSUME TypeOK, [Next]_vars
  PROVE  TypeOK'
<1>1. CASE UNCHANGED vars
  BY <1>1 DEF TypeOK, vars, Own
<1>2. ASSUME NEW f \in Flows, Replicate(f)
      PROVE  TypeOK'
  BY <1>2 DEF TypeOK, Replicate, Own
<1>3. ASSUME NEW h \in Handlers, Receive(h)
      PROVE  TypeOK'
  BY <1>3, WorkloadAssumption DEF TypeOK, Receive, Stages
<1>4. ASSUME NEW h \in Handlers, pc[h] # "idle", NEW code \in Codes, Respond(h, code)
      PROVE  TypeOK'
  BY <1>4, RespondType DEF Respond, TypeOK
<1>5. ASSUME NEW h \in Handlers, RejectMismatch(h) \/ Acknowledge(h)
      PROVE  TypeOK'
  BY <1>4, <1>5 DEF RejectMismatch, Acknowledge, Codes
<1>6. ASSUME NEW h \in Handlers, Check(h)
      PROVE  TypeOK'
  BY <1>4, <1>6, CheckVerdict, SendType
<1>7. ASSUME NEW h \in Handlers, CallFails(h)
      PROVE  TypeOK'
  BY <1>7, RespondType, StrayType DEF CallFails, Codes
<1>8. ASSUME NEW h \in Handlers, GetFlowById(h)
      PROVE  TypeOK'
  <2>1. req[h].flow \in Flows
    BY <1>8, Serving, RequestShape DEF GetFlowById
  <2>2. QED
    BY <1>8, <2>1 DEF TypeOK, GetFlowById, Stages
<1>9. ASSUME NEW h \in Handlers, PutItem(h)
      PROVE  TypeOK'
  <2>1. req[h].flow \in Flows
    BY <1>9, Serving, RequestShape DEF PutItem
  <2>2. QED
    BY <1>9, <2>1 DEF TypeOK, PutItem, Store, Write
<1>10. ASSUME NEW w \in strays, StrayLands(w)
       PROVE  TypeOK'
  <2>1. w.req.flow \in Flows /\ w.item \in Items
    BY <1>10, WriteShape DEF Writes
  <2>2. QED
    BY <1>10, <2>1 DEF TypeOK, StrayLands, Store, Own
<1>11. ASSUME NEW w \in strays, StrayEnds(w)
       PROVE  TypeOK'
  BY <1>11 DEF TypeOK, StrayEnds, Own
<1>12. ASSUME NEW h \in Handlers, Answer(h) \/ Crash(h)
       PROVE  TypeOK'
  <2>1. Leave(h) /\ strays' \subseteq [req : Requests, item : Items]
    BY <1>12, StrayType DEF Answer, Crash, TypeOK
  <2>2. QED
    BY <2>1 DEF TypeOK, Leave, Stages, Codes
<1>13. QED
  BY <1>1, <1>2, <1>3, <1>5, <1>6, <1>7, <1>8, <1>9, <1>10, <1>11, <1>12 DEF Next, Database

(* Every variable keeps to its type: in particular no handler ever stores an *)
(* item that was not found, nor one that lost an attribute or its date.      *)
THEOREM TypeCorrect == Spec => []TypeOK
<1>1. Init => TypeOK
  BY DEF Init, TypeOK, Stages, Codes
<1>2. QED
  BY <1>1, TypeStep, PTL DEF Spec

------------------------------------------------------------------------------
(* What a step does to the table, to the lagging copies, to what requests    *)
(* hold and to the writes that are out.                                      *)
Moves ==
  \/ table' = table
  \/ \E w \in Writes : Lands(w) /\ table' = [table EXCEPT ![w.req.flow] = w.item]

Lags == \A f \in Flows : lagging'[f] \in {lagging[f], table'[f]}

(* A write is new where a handler past its read has just sent it.            *)
New(w) ==
  \E h \in Handlers :
    pc[h] = "check" /\ w.req = req[h] /\ w.item \in Items /\ Accepted(req[h], local[h], w.item)

Sent == \A w \in Writes' : w \in Writes \/ New(w)

Held(h) == pc[h] = "check" /\ req'[h] = req[h] /\ local'[h] = local[h]

Holds ==
  \A h \in Handlers : pc'[h] = "check" =>
    Held(h) \/ local'[h] \in {table'[req'[h].flow], lagging'[req'[h].flow]}

Frame == Moves /\ Lags /\ Sent /\ Holds

(* A step that leaves the tables alone, and at which no write is sent.       *)
Idles ==
  /\ UNCHANGED <<table, lagging>>
  /\ \A h \in Handlers : pc'[h] \in {"check", "put"} =>
       pc'[h] = pc[h] /\ req'[h] = req[h] /\ local'[h] = local[h]

LEMMA IdleFrame ==
  ASSUME Idles, \A w \in strays' : w \in Writes
  PROVE  Frame
BY DEF Idles, Frame, Moves, Lags, Sent, Holds, Held, Writes, Waiting, Write

(* So is one at which a write takes effect, but for the table.               *)
LEMMA LandFrame ==
  ASSUME TypeOK, NEW w \in Writes, Lands(w)
  PROVE  Frame
<1>1. Store(w) /\ UNCHANGED <<strays, pc, req, local>>
  BY DEF Lands, PutItem, StrayLands, Own
<1>2. w.req.flow \in Flows
  BY WriteShape
<1>3. Lags
  BY <1>1, <1>2 DEF TypeOK, Store, Lags
<1>4. Sent /\ Holds
  BY <1>1 DEF Sent, Holds, Held, Writes, Waiting, Write
<1>5. Moves
  BY <1>1 DEF Moves, Store
<1>6. QED
  BY <1>3, <1>4, <1>5 DEF Frame

LEMMA StepFrame ==
  ASSUME TypeOK, [Next]_vars
  PROVE  Frame
<1>1. CASE UNCHANGED vars
  BY <1>1, IdleFrame DEF Idles, Writes, vars, Own
<1>2. ASSUME NEW f \in Flows, Replicate(f)
      PROVE  Frame
  BY <1>2 DEF TypeOK, Replicate, Own, Frame, Moves, Lags, Sent, Holds, Held,
              Writes, Waiting, Write
<1>3. ASSUME NEW h \in Handlers, Receive(h)
      PROVE  Frame
  <2>1. Idles /\ strays' = strays
    BY <1>3 DEF TypeOK, Receive, Idles
  <2>2. QED
    BY <2>1, IdleFrame DEF Writes
<1>4. ASSUME NEW h \in Handlers, NEW code \in Codes, Respond(h, code)
      PROVE  Frame
  <2>1. Idles /\ strays' = strays
    BY <1>4 DEF TypeOK, Respond, Reply, Idles
  <2>2. QED
    BY <2>1, IdleFrame DEF Writes
<1>5. ASSUME NEW h \in Handlers, NEW item \in Items, pc[h] = "check", Send(h, item),
             Accepted(req[h], local[h], item)
      PROVE  Frame
  <2>1. Moves /\ Lags
    BY <1>5 DEF Send, Moves, Lags
  <2>2. Holds
    BY <1>5 DEF TypeOK, Send, Holds, Held
  <2>3. ASSUME NEW g \in Handlers, pc'[g] = "put"
        PROVE  Write(g)' \in Writes \/ New(Write(g)')
    <3>1. CASE g = h
      BY <1>5, <3>1 DEF TypeOK, Send, Write, New
    <3>2. CASE g # h
      BY <1>5, <2>3, <3>2 DEF TypeOK, Send, Write, Writes, Waiting
    <3>3. QED
      BY <3>1, <3>2
  <2>4. strays' = strays
    BY <1>5 DEF Send
  <2>5. Sent
    BY <2>3, <2>4 DEF Sent, Writes, Waiting
  <2>6. QED
    BY <2>1, <2>2, <2>5 DEF Frame
<1>6. ASSUME NEW h \in Handlers, GetFlowById(h)
      PROVE  Frame
  <2>1. Moves /\ Lags
    BY <1>6 DEF GetFlowById, Moves, Lags
  <2>2. Holds
    BY <1>6 DEF TypeOK, GetFlowById, Holds, Held
  <2>3. Sent
    BY <1>6 DEF TypeOK, GetFlowById, Sent, Writes, Waiting, Write
  <2>4. QED
    BY <2>1, <2>2, <2>3 DEF Frame
<1>7. ASSUME NEW h \in Handlers, PutItem(h)
      PROVE  Frame
  <2>1. Write(h) \in Writes /\ Lands(Write(h))
    BY <1>7 DEF PutItem, Writes, Waiting, Lands
  <2>2. QED
    BY <2>1, LandFrame
<1>8. ASSUME NEW w \in strays, StrayLands(w)
      PROVE  Frame
  <2>1. w \in Writes /\ Lands(w)
    BY <1>8 DEF Writes, Lands
  <2>2. QED
    BY <2>1, LandFrame
<1>9. ASSUME NEW w \in strays, StrayEnds(w)
      PROVE  Frame
  <2>1. Idles /\ strays' \subseteq strays
    BY <1>9 DEF StrayEnds, Own, Idles
  <2>2. QED
    BY <2>1, IdleFrame DEF Writes
<1>10. ASSUME NEW h \in Handlers, Stray(h)
       PROVE  \A w \in strays' : w \in Writes
  BY <1>10 DEF Stray, Writes, Waiting
<1>11. ASSUME NEW h \in Handlers, CallFails(h)
       PROVE  Frame
  <2>1. Idles
    BY <1>11 DEF TypeOK, CallFails, Reply, Idles
  <2>2. QED
    BY <1>10, <1>11, <2>1, IdleFrame DEF CallFails
<1>12. ASSUME NEW h \in Handlers, Answer(h) \/ Crash(h)
       PROVE  Frame
  <2>1. Leave(h) /\ \A w \in strays' : w \in Writes
    BY <1>10, <1>12 DEF Answer, Crash, Writes
  <2>2. Idles
    BY <2>1 DEF TypeOK, Leave, Idles
  <2>3. QED
    BY <2>1, <2>2, IdleFrame
<1>13. ASSUME NEW h \in Handlers, Check(h)
       PROVE  Frame
  BY <1>4, <1>5, <1>13, CheckVerdict
<1>14. ASSUME NEW h \in Handlers, RejectMismatch(h) \/ Acknowledge(h)
       PROVE  Frame
  BY <1>4, <1>14 DEF RejectMismatch, Acknowledge, Codes
<1>15. QED
  BY <1>1, <1>2, <1>3, <1>6, <1>7, <1>8, <1>9, <1>11, <1>12, <1>13, <1>14 DEF Next, Database

(* What a new write carries, next to the flow its handler holds.             *)
LEMMA NewWrite ==
  ASSUME TypeOK, NEW w, New(w)
  PROVE  \E h \in Handlers :
           /\ pc[h] = "check" /\ w.req = req[h]
           /\ h \in Holders(w.req.flow)
           /\ local[h] = NoFlow => w.req.op = "putFlow"
           /\ local[h] # NoFlow =>
                \A x \in Fields : Sets(w.req, x) \/ Field(w.item, x) = Field(local[h], x)
           /\ Locked(local[h]) => Like(w.item, local[h]) \/ Unlocks(w.req)
           /\ Locked(w.item) => Locks(w.req)
<1>1. PICK h \in Handlers : /\ pc[h] = "check" /\ w.req = req[h] /\ w.item \in Items
                            /\ Accepted(req[h], local[h], w.item)
  BY DEF New
<1>2. req[h] \in Requests /\ local[h] \in Items \cup {NoFlow}
  BY <1>1, Serving DEF TypeOK
<1>3. QED
  BY <1>1, <1>2, AcceptedChange DEF Holders

------------------------------------------------------------------------------
(* The seal.                                                                 *)

(* A write leaves a flow locked only where its request asks for the lock.    *)
LockAsked == \A w \in Writes : Locked(w.item) => Locks(w.req)

LEMMA LockAskedStep ==
  ASSUME TypeOK, LockAsked, [Next]_vars
  PROVE  LockAsked'
<1>1. \A w \in Writes' : w \in Writes \/ New(w)
  BY StepFrame DEF Frame, Sent
<1>2. \A w \in Writes' : Locked(w.item) => Locks(w.req)
  BY <1>1, NewWrite DEF LockAsked
<1>3. QED
  BY <1>2 DEF LockAsked

Kept(f) ==
  /\ Sealed(f)'
  /\ Like(table'[f], table[f])
  /\ table'[f] = table[f] \/ LockStored(f)

LEMMA SealStep ==
  ASSUME TypeOK, LockAsked, [Next]_vars, NEW f \in Flows, Sealed(f), ~UnlockStored(f)
  PROVE  Kept(f)
<1>1. Frame
  BY StepFrame
<1>2. Locked(table[f]) /\ table[f] \in Items
  BY DEF TypeOK, Sealed, Locked
<1>3. Like(table'[f], table[f]) /\ (table'[f] = table[f] \/ LockStored(f))
  <2>1. CASE table'[f] = table[f]
    BY <1>2, <2>1 DEF Like, Locked
  <2>2. CASE table'[f] # table[f]
    <3>1. PICK w \in Writes : Lands(w) /\ table' = [table EXCEPT ![w.req.flow] = w.item]
      BY <1>1, <2>2 DEF Frame, Moves
    <3>2. w.req.flow = f /\ table'[f] = w.item
      BY <2>2, <3>1, WriteShape DEF TypeOK
    <3>3. Like(w.item, table[f])
      BY <3>1, <3>2 DEF Sealed, UnlockStored
    <3>4. Field(w.item, "readOnly") = Field(table[f], "readOnly")
      BY <3>3 DEF Like, Fields
    <3>5. Locked(w.item)
      BY <1>2, <3>3, <3>4 DEF Like, Field, Locked
    <3>6. QED
      BY <3>1, <3>2, <3>3, <3>5 DEF LockAsked, LockStored
  <2>3. QED
    BY <2>1, <2>2
<1>4. Locked(table'[f])
  <2>1. Field(table'[f], "readOnly") = Field(table[f], "readOnly") /\ table'[f] # NoFlow
    BY <1>3 DEF Like, Fields
  <2>2. QED
    BY <1>2, <2>1 DEF Field, Locked
<1>5. ASSUME NEW item, item = table'[f] \/ Like(item, table[f])
      PROVE  Like(item, table'[f])
  BY <1>3, <1>5 DEF Like
<1>6. Like(lagging'[f], table'[f])
  BY <1>1, <1>5 DEF Frame, Lags, Sealed
<1>7. ASSUME NEW h \in Handlers, pc'[h] = "check", req'[h].flow = f
      PROVE  Like(local'[h], table'[f])
  <2>1. CASE Held(h)
    BY <1>5, <1>7, <2>1 DEF Held, Sealed, Holders
  <2>2. CASE ~Held(h)
    BY <1>1, <1>5, <1>6, <1>7, <2>2 DEF Frame, Holds
  <2>3. QED
    BY <2>1, <2>2
<1>8. ASSUME NEW w \in Writes', w.req.flow = f
      PROVE  Unlocks(w.req) \/ Like(w.item, table'[f])
  <2>1. CASE w \in Writes
    BY <1>5, <1>8, <2>1 DEF Sealed
  <2>2. CASE New(w)
    <3>1. PICK h \in Holders(f) :
            Locked(local[h]) => Like(w.item, local[h]) \/ Unlocks(w.req)
      BY <1>8, <2>2, NewWrite
    <3>2. Like(local[h], table[f])
      BY <3>1 DEF Sealed
    <3>3. Field(local[h], "readOnly") = Field(table[f], "readOnly")
      BY <3>2 DEF Like, Fields
    <3>4. Locked(local[h])
      BY <1>2, <3>2, <3>3 DEF Like, Field, Locked
    <3>5. Like(w.item, local[h]) => Like(w.item, table[f])
      BY <3>2 DEF Like
    <3>6. QED
      BY <1>5, <3>1, <3>4, <3>5
  <2>3. QED
    BY <1>1, <1>8, <2>1, <2>2 DEF Frame, Sent
<1>9. Sealed(f)'
  BY <1>4, <1>6, <1>7, <1>8 DEF Sealed, Holders
<1>10. QED
  BY <1>3, <1>9 DEF Kept

(* A sealed flow keeps everything but its metadata_updated, which only a     *)
(* second lock moves, until a request that lifts its lock is stored: for any *)
(* number of handlers, any delay of the copies and any writes that outlive   *)
(* their requests.                                                           *)
THEOREM SealCorrect == Spec => SealHolds
<1>1. Init => LockAsked
  BY DEF Init, LockAsked, Writes, Waiting
<1>2. TypeOK /\ LockAsked /\ [Next]_vars => LockAsked'
  BY LockAskedStep
<1>3. TypeOK /\ LockAsked /\ [Next]_vars =>
        [\A f \in Flows : Sealed(f) /\ ~UnlockStored(f) => Kept(f)]_vars
  BY SealStep
<1>4. Spec => [][\A f \in Flows : Sealed(f) /\ ~UnlockStored(f) => Kept(f)]_vars
  BY <1>1, <1>2, <1>3, TypeCorrect, PTL DEF Spec
<1>5. QED
  BY <1>4 DEF SealHolds, Kept

------------------------------------------------------------------------------
(* The fields.                                                               *)

LEMMA SettledStep ==
  ASSUME TypeOK, [Next]_vars, NEW f \in Flows, NEW x \in Fields,
         Settled(f, x), ~Overwritten(f, x)
  PROVE  Settled(f, x)' /\ Field(table'[f], x) = Field(table[f], x)
<1>. DEFINE Same(item) == item # NoFlow /\ Field(item, x) = Field(table[f], x)
<1>1. Frame
  BY StepFrame
<1>2. /\ Same(table[f]) /\ Same(lagging[f])
      /\ \A h \in Holders(f) : Same(local[h])
      /\ \A w \in Writes : w.req.flow = f => Sets(w.req, x) \/ Same(w.item)
  BY DEF Settled
<1>3. Same(table'[f])
  <2>1. CASE table'[f] = table[f]
    BY <1>2, <2>1
  <2>2. CASE table'[f] # table[f]
    <3>1. PICK w \in Writes : Lands(w) /\ table' = [table EXCEPT ![w.req.flow] = w.item]
      BY <1>1, <2>2 DEF Frame, Moves
    <3>2. w.req.flow = f /\ table'[f] = w.item
      BY <2>2, <3>1, WriteShape DEF TypeOK
    <3>3. QED
      BY <1>2, <3>1, <3>2 DEF Overwritten
  <2>3. QED
    BY <2>1, <2>2
<1>4. Same(lagging'[f])
  BY <1>1, <1>2, <1>3 DEF Frame, Lags
<1>5. ASSUME NEW h \in Handlers, pc'[h] = "check", req'[h].flow = f
      PROVE  Same(local'[h])
  <2>1. CASE Held(h)
    BY <1>2, <1>5, <2>1 DEF Held, Holders
  <2>2. CASE ~Held(h)
    BY <1>1, <1>3, <1>4, <1>5, <2>2 DEF Frame, Holds
  <2>3. QED
    BY <2>1, <2>2
<1>6. ASSUME NEW w \in Writes', w.req.flow = f
      PROVE  Sets(w.req, x) \/ Same(w.item)
  <2>1. CASE w \in Writes
    BY <1>2, <1>6, <2>1
  <2>2. CASE New(w)
    <3>1. PICK h \in Holders(f) : local[h] # NoFlow =>
            \A y \in Fields : Sets(w.req, y) \/ Field(w.item, y) = Field(local[h], y)
      BY <1>6, <2>2, NewWrite
    <3>2. w.item # NoFlow
      BY <2>2, SentinelAssumption DEF New
    <3>3. QED
      BY <1>2, <3>1, <3>2
  <2>3. QED
    BY <1>1, <1>6, <2>1, <2>2 DEF Frame, Sent
<1>7. QED
  BY <1>3, <1>4, <1>5, <1>6 DEF Settled, Holders

(* A field on which table, copies, requests and writes agree keeps its value *)
(* until a write that sets it takes effect, whatever else is overwritten.    *)
THEOREM FieldsSettle == Spec => SettledStays
<1>1. TypeOK /\ [Next]_vars =>
        [\A f \in Flows, x \in Fields :
           Settled(f, x) /\ ~Overwritten(f, x) =>
             Settled(f, x)' /\ Field(table'[f], x) = Field(table[f], x)]_vars
  BY SettledStep
<1>2. QED
  BY <1>1, TypeCorrect, PTL DEF Spec, SettledStays

------------------------------------------------------------------------------
(* Creation.                                                                 *)

(* What requests, writes and copies know of is in the table, which no flow   *)
(* leaves.                                                                   *)
Grounded ==
  /\ \A f \in Flows : lagging[f] # NoFlow => table[f] # NoFlow
  /\ \A f \in Flows : \A h \in Holders(f) : local[h] # NoFlow => table[f] # NoFlow
  /\ \A w \in Writes : w.req.op # "putFlow" => table[w.req.flow] # NoFlow

Creation ==
  \A f \in Flows :
    /\ table[f] # NoFlow => table'[f] # NoFlow
    /\ table[f] = NoFlow /\ table'[f] # NoFlow =>
         \E w \in Writes : w.req.flow = f /\ w.req.op = "putFlow" /\ Lands(w)

LEMMA GroundedStep ==
  ASSUME TypeOK, Grounded, [Next]_vars
  PROVE  Grounded' /\ Creation
<1>1. Frame /\ TypeOK'
  BY StepFrame, TypeStep
<1>2. Creation
  <2>1. CASE table' = table
    BY <2>1 DEF Creation
  <2>2. CASE table' # table
    <3>1. PICK w \in Writes : Lands(w) /\ table' = [table EXCEPT ![w.req.flow] = w.item]
      BY <1>1, <2>2 DEF Frame, Moves
    <3>2. w.req.flow \in Flows /\ w.item # NoFlow
      BY <3>1, WriteShape, SentinelAssumption
    <3>3. \A f \in Flows : table'[f] = IF f = w.req.flow THEN w.item ELSE table[f]
      BY <3>1 DEF TypeOK
    <3>4. w.req.op # "putFlow" => table[w.req.flow] # NoFlow
      BY DEF Grounded
    <3>5. QED
      BY <3>1, <3>2, <3>3, <3>4 DEF Creation
  <2>3. QED
    BY <2>1, <2>2
<1>3. \A f \in Flows : lagging'[f] # NoFlow => table'[f] # NoFlow
  BY <1>1, <1>2 DEF Frame, Lags, Grounded, Creation
<1>4. ASSUME NEW f \in Flows, NEW h \in Handlers, pc'[h] = "check", req'[h].flow = f,
             local'[h] # NoFlow
      PROVE  table'[f] # NoFlow
  <2>1. CASE Held(h)
    BY <1>2, <1>4, <2>1 DEF Held, Holders, Grounded, Creation
  <2>2. CASE ~Held(h)
    BY <1>1, <1>3, <1>4, <2>2 DEF Frame, Holds
  <2>3. QED
    BY <2>1, <2>2
<1>5. ASSUME NEW w \in Writes', w.req.op # "putFlow"
      PROVE  table'[w.req.flow] # NoFlow
  <2>1. CASE w \in Writes
    BY <1>2, <1>5, <2>1, WriteShape DEF Grounded, Creation
  <2>2. CASE New(w)
    <3>1. PICK h \in Handlers : /\ pc[h] = "check" /\ w.req = req[h]
                                /\ h \in Holders(w.req.flow)
                                /\ local[h] # NoFlow
      BY <1>5, <2>2, NewWrite
    <3>2. w.req.flow \in Flows
      BY <3>1, Serving, RequestShape
    <3>3. QED
      BY <1>2, <3>1, <3>2 DEF Grounded, Creation
  <2>3. QED
    BY <1>1, <1>5, <2>1, <2>2 DEF Frame, Sent
<1>6. Grounded'
  BY <1>3, <1>4, <1>5 DEF Grounded, Holders
<1>7. QED
  BY <1>2, <1>6

(* Only PUT /flows/:flowId brings a flow into being, and none disappears,    *)
(* whatever copy an edit read and however long ago.                          *)
THEOREM CreationCorrect == Spec => OnlyPutFlowCreates
<1>1. Init => Grounded
  BY DEF Init, Grounded, Writes, Waiting, Holders
<1>2. TypeOK /\ Grounded /\ [Next]_vars => Grounded'
  BY GroundedStep
<1>3. TypeOK /\ Grounded /\ [Next]_vars => [Creation]_vars
  BY GroundedStep
<1>4. Spec => [][Creation]_vars
  BY <1>1, <1>2, <1>3, TypeCorrect, PTL DEF Spec
<1>5. QED
  BY <1>4 DEF OnlyPutFlowCreates, Creation

------------------------------------------------------------------------------
(* Atomicity.                                                                *)

(* Where reads are strong, no two handlers share a flow and no write         *)
(* outlives its request, what a handler has read is still in the table when  *)
(* it checks it and when it stores, and what it stores is what FlowApi       *)
(* accepts for the flow as it then is.                                       *)
Atomic ==
  /\ lagging = table
  /\ strays = {}
  /\ \A h \in Handlers :
       /\ pc[h] \in {"check", "put"} => ~Mismatched(req[h])
       /\ pc[h] = "check" => local[h] = table[req[h].flow]
       /\ pc[h] = "put" /\ ~stored[h] => Accepted(req[h], table[req[h].flow], local[h])
       /\ pc[h] = "put" /\ stored[h] => local[h] = table[req[h].flow]

(* With no room for strays none comes about.                                 *)
LEMMA NoStray ==
  ASSUME MaxStrays = 0, strays = {}, NEW h \in Handlers, Stray(h)
  PROVE  strays' = {}
BY FS_EmptySet DEF Stray

(* Two requests in flight are about two flows.                               *)
LEMMA Apart ==
  ASSUME TypeOK, Partitioned, NEW g \in Handlers, NEW h \in Handlers, g # h,
         pc[g] # "idle", pc[h] # "idle"
  PROVE  req[g].flow # req[h].flow
BY Serving DEF Partitioned

LEMMA AtomicStep ==
  ASSUME StrongReads, Partitioned, MaxStrays = 0, TypeOK, Atomic, [Next]_vars
  PROVE  Atomic'
<1>1. CASE UNCHANGED vars
  BY <1>1 DEF Atomic, Accepted, vars, Own
<1>2. ASSUME NEW f \in Flows, Replicate(f)
      PROVE  Atomic'
  BY <1>2 DEF Atomic, Replicate
<1>3. ASSUME NEW h \in Handlers, Receive(h)
      PROVE  Atomic'
  BY <1>3 DEF TypeOK, Atomic, Receive
<1>4. ASSUME NEW h \in Handlers, NEW code \in Codes, Reply(h, code), strays' = {}
      PROVE  Atomic'
  BY <1>4 DEF TypeOK, Atomic, Reply
<1>5. ASSUME NEW h \in Handlers, NEW item \in Items, pc[h] = "check", Send(h, item),
             Accepted(req[h], local[h], item)
      PROVE  Atomic'
  <2>1. ~stored[h]
    BY <1>5 DEF TypeOK
  <2>2. QED
    BY <1>5, <2>1 DEF TypeOK, Atomic, Send
<1>6. ASSUME NEW h \in Handlers, GetFlowById(h)
      PROVE  Atomic'
  BY <1>6 DEF TypeOK, Atomic, GetFlowById
<1>7. ASSUME NEW h \in Handlers, PutItem(h)
      PROVE  Atomic'
  <2>1. pc[h] = "put" /\ req[h].flow \in Flows
    BY <1>7, Serving, RequestShape DEF PutItem
  <2>2. lagging' = table' /\ table'[req[h].flow] = local[h]
    BY <1>7, <2>1 DEF TypeOK, PutItem, Store, Write
  <2>3. \A g \in Handlers \ {h} :
          pc[g] # "idle" => table'[req[g].flow] = table[req[g].flow]
    BY <1>7, <2>1, Apart, Serving, RequestShape DEF TypeOK, PutItem, Store, Write
  <2>4. stored'[h] /\ \A g \in Handlers \ {h} : stored'[g] = stored[g]
    BY <1>7 DEF TypeOK, PutItem
  <2>5. QED
    BY <1>7, <2>1, <2>2, <2>3, <2>4 DEF Atomic, PutItem
<1>8. ASSUME NEW h \in Handlers, Leave(h), strays' = {}
      PROVE  Atomic'
  BY <1>8 DEF TypeOK, Atomic, Leave
<1>9. ASSUME NEW h \in Handlers, Check(h)
      PROVE  Atomic'
  BY <1>4, <1>5, <1>9, CheckVerdict DEF Respond, Atomic
<1>10. ASSUME NEW h \in Handlers, RejectMismatch(h) \/ Acknowledge(h)
       PROVE  Atomic'
  BY <1>4, <1>10 DEF RejectMismatch, Acknowledge, Respond, Codes, Atomic
<1>11. ASSUME NEW h \in Handlers, CallFails(h)
       PROVE  Atomic'
  BY <1>4, <1>11, NoStray DEF CallFails, Codes, Atomic
<1>12. ASSUME NEW h \in Handlers, Answer(h) \/ Crash(h)
       PROVE  Atomic'
  BY <1>8, <1>12, NoStray DEF Answer, Crash, Atomic
<1>13. ~\E w \in strays : StrayLands(w) \/ StrayEnds(w)
  BY DEF Atomic
<1>14. QED
  BY <1>1, <1>2, <1>3, <1>6, <1>7, <1>9, <1>10, <1>11, <1>12, <1>13 DEF Next, Database

(* A function of the handlers that changes at one of them is updated there.  *)
LEMMA Update ==
  ASSUME NEW F, NEW G, NEW h \in Handlers,
         F = [g \in Handlers |-> F[g]], G = [g \in Handlers |-> G[g]],
         \A g \in Handlers \ {h} : G[g] = F[g]
  PROVE  G = [F EXCEPT ![h] = G[h]]
OBVIOUS

(* A step of one handler changes the image of that handler alone.            *)
LEMMA OneHandler ==
  ASSUME NEW h \in Handlers,
         \A g \in Handlers \ {h} : /\ pc'[g] = pc[g] /\ req'[g] = req[g]
                                   /\ stored'[g] = stored[g] /\ status'[g] = status[g]
  PROVE  /\ Phase' = [Phase EXCEPT ![h] = Phase'[h]]
         /\ Answered' = [Answered EXCEPT ![h] = Answered'[h]]
<1>1. \A g \in Handlers \ {h} : Phase'[g] = Phase[g]
  BY DEF Phase
<1>2. \A g \in Handlers \ {h} : Answered'[g] = Answered[g]
  BY DEF Answered
<1>3. Phase' = [Phase EXCEPT ![h] = Phase'[h]]
  <2>1. /\ Phase = [g \in Handlers |-> Phase[g]]
        /\ Phase' = [g \in Handlers |-> Phase'[g]]
    BY DEF Phase
  <2>2. QED
    BY <1>1, <2>1, Update
<1>4. Answered' = [Answered EXCEPT ![h] = Answered'[h]]
  <2>1. /\ Answered = [g \in Handlers |-> Answered[g]]
        /\ Answered' = [g \in Handlers |-> Answered'[g]]
    BY DEF Answered
  <2>2. QED
    BY <1>2, <2>1, Update
<1>5. QED
  BY <1>3, <1>4

(* A handler that answers without having stored finishes in FlowApi.         *)
LEMMA RespondFinishes ==
  ASSUME TypeOK, NEW h \in Handlers, pc[h] # "idle", NEW code \in Codes, Reply(h, code)
  PROVE  Api!Finish(h, code) /\ UNCHANGED table
<1>1. Phase'[h] = "done" /\ Answered'[h] = code
  BY DEF TypeOK, Reply, Phase, Answered
<1>2. /\ Phase' = [Phase EXCEPT ![h] = Phase'[h]]
      /\ Answered' = [Answered EXCEPT ![h] = Answered'[h]]
  BY OneHandler DEF TypeOK, Reply
<1>3. QED
  BY <1>1, <1>2 DEF Api!Finish, Reply

LEMMA ApiStep ==
  ASSUME StrongReads, Partitioned, MaxStrays = 0, TypeOK, Atomic, [Next]_vars
  PROVE  [Api!Next]_(Api!vars)
<1>1. CASE UNCHANGED vars
  BY <1>1 DEF Api!vars, vars, Own, Phase, Answered
<1>2. ASSUME NEW f \in Flows, Replicate(f)
      PROVE  UNCHANGED Api!vars
  BY <1>2 DEF Api!vars, Replicate, Own, Phase, Answered
<1>3. ASSUME NEW h \in Handlers, Receive(h)
      PROVE  Api!Receive(h)
  <2>1. Phase[h] = "idle" /\ Phase'[h] = "pending" /\ Answered'[h] = Answered[h]
    BY <1>3 DEF TypeOK, Receive, Phase, Answered
  <2>2. /\ Phase' = [Phase EXCEPT ![h] = Phase'[h]]
        /\ Answered' = [Answered EXCEPT ![h] = Answered'[h]]
    BY <1>3, OneHandler DEF TypeOK, Receive
  <2>3. Answered' = Answered
    <3>1. Answered = [g \in Handlers |-> Answered[g]]
      BY DEF Answered
    <3>2. QED
      BY <2>1, <2>2, <3>1
  <2>4. QED
    BY <1>3, <2>1, <2>2, <2>3 DEF Receive, Api!Receive
<1>4. ASSUME NEW h \in Handlers, RejectMismatch(h)
      PROVE  Api!Refuse(h)
  BY <1>4, RespondFinishes, SameData
     DEF TypeOK, RejectMismatch, Respond, Api!Refuse, Phase, Codes
<1>5. ASSUME NEW h \in Handlers, Check(h)
      PROVE  Api!Refuse(h) \/ Api!Read(h) \/ Api!Fail(h) \/ UNCHANGED Api!vars
  <2>1. pc[h] = "check" /\ ~stored[h] /\ local[h] = table[req[h].flow]
    BY <1>5, CheckVerdict DEF TypeOK, Atomic
  <2>2. Phase[h] = "pending"
    BY <2>1 DEF Phase
  <2>3. ASSUME NEW code \in Codes, Respond(h, code), Answers(req[h], local[h], code)
        PROVE  Api!Refuse(h) \/ Api!Read(h) \/ Api!Fail(h)
    <3>1. Api!Finish(h, code) /\ UNCHANGED table
      BY <2>1, <2>3, RespondFinishes DEF Respond
    <3>2. QED
      BY <2>1, <2>2, <2>3, <3>1 DEF Answers, Api!Refuse, Api!Read, Api!Fail
  <2>4. ASSUME NEW item \in Items, Send(h, item)
        PROVE  UNCHANGED Api!vars
    BY <2>1, <2>4 DEF TypeOK, Send, Api!vars, Phase, Answered
  <2>5. QED
    BY <1>5, <2>3, <2>4, CheckVerdict
<1>6. ASSUME NEW h \in Handlers, GetFlowById(h)
      PROVE  UNCHANGED Api!vars
  BY <1>6 DEF TypeOK, GetFlowById, Api!vars, Phase, Answered
<1>7. ASSUME NEW h \in Handlers, PutItem(h)
      PROVE  Api!Execute(h) \/ UNCHANGED Api!vars
  <2>. DEFINE code == IF req[h].op = "putFlow" THEN 200 ELSE 204
  <2>1. pc[h] = "put" /\ req[h].flow \in Flows
    BY <1>7, Serving, RequestShape DEF PutItem
  <2>2. table'[req[h].flow] = local[h]
    BY <1>7, <2>1 DEF TypeOK, PutItem, Store, Write
  <2>3. stored'[h] /\ \A g \in Handlers \ {h} : stored'[g] = stored[g]
    BY <1>7 DEF TypeOK, PutItem
  <2>4. CASE stored[h]
    <3>1. local[h] = table[req[h].flow]
      BY <2>1, <2>4 DEF Atomic
    <3>2. UNCHANGED <<table, stored>>
      BY <1>7, <2>4, <3>1 DEF TypeOK, PutItem, Store, Write
    <3>3. QED
      BY <1>7, <3>2 DEF PutItem, Api!vars, Phase, Answered
  <2>5. CASE ~stored[h]
    <3>1. /\ Accepted(req[h], table[req[h].flow], local[h])
          /\ ~Api!Mismatched(req[h])
      BY <2>1, <2>5, SameData DEF Atomic
    <3>2. Phase[h] = "pending"
      BY <2>1, <2>5 DEF Phase
    <3>3. Phase'[h] = "done" /\ Answered'[h] = code
      BY <1>7, <2>1, <2>3 DEF PutItem, Phase, Answered
    <3>4. /\ Phase' = [Phase EXCEPT ![h] = Phase'[h]]
          /\ Answered' = [Answered EXCEPT ![h] = Answered'[h]]
      BY <1>7, <2>3, OneHandler DEF PutItem
    <3>5. Api!Finish(h, code)
      BY <1>7, <3>3, <3>4 DEF PutItem, Api!Finish
    <3>6. table' = [table EXCEPT ![req[h].flow] = table'[req[h].flow]]
      BY <1>7, <2>2 DEF PutItem, Store, Write
    <3>7. QED
      BY <2>2, <3>1, <3>2, <3>5, <3>6 DEF Accepted, Api!Execute
  <2>6. QED
    BY <2>4, <2>5
<1>8. ASSUME NEW h \in Handlers, Acknowledge(h)
      PROVE  UNCHANGED Api!vars
  BY <1>8 DEF TypeOK, Acknowledge, Respond, Reply, Api!vars, Phase, Answered
<1>9. ASSUME NEW h \in Handlers, CallFails(h)
      PROVE  Api!Fail(h)
  BY <1>9, RespondFinishes DEF CallFails, Api!Fail, Phase, Codes
<1>10. ASSUME NEW h \in Handlers, Answer(h) \/ Crash(h)
       PROVE  Api!Leave(h)
  <2>1. Leave(h) /\ pc[h] # "idle"
    BY <1>10 DEF Answer, Crash
  <2>2. Phase[h] # "idle" /\ Phase'[h] = "idle" /\ Answered'[h] = 0
    BY <2>1 DEF TypeOK, Leave, Phase, Answered
  <2>3. /\ Phase' = [Phase EXCEPT ![h] = Phase'[h]]
        /\ Answered' = [Answered EXCEPT ![h] = Answered'[h]]
    BY <2>1, OneHandler DEF TypeOK, Leave
  <2>4. QED
    BY <2>1, <2>2, <2>3 DEF Leave, Api!Leave
<1>11. ~\E w \in strays : StrayLands(w) \/ StrayEnds(w)
  BY DEF Atomic
<1>12. QED
  BY <1>1, <1>2, <1>3, <1>4, <1>5, <1>6, <1>7, <1>8, <1>9, <1>10, <1>11
     DEF Next, Database, Api!Next

(* Each handler's fetch, check and store are one atomic request of FlowApi,  *)
(* whatever its failures, retries and crashes, as long as reads are strong,  *)
(* requests about a flow do not overlap and no write outlives its request.   *)
THEOREM Refinement == StrongReads /\ Partitioned /\ MaxStrays = 0 => (Spec => ApiSpec)
<1>. SUFFICES ASSUME StrongReads, Partitioned, MaxStrays = 0
              PROVE  Spec => ApiSpec
  OBVIOUS
<1>1. Init => Atomic
  BY DEF Init, Atomic
<1>2. TypeOK /\ Atomic /\ [Next]_vars => Atomic'
  BY AtomicStep
<1>3. Init => Api!Init
  BY DEF Init, Api!Init, Phase, Answered
<1>4. TypeOK /\ Atomic /\ [Next]_vars => [Api!Next]_(Api!vars)
  BY ApiStep
<1>5. QED
  BY <1>1, <1>2, <1>3, <1>4, TypeCorrect, PTL DEF Spec, ApiSpec, Api!Spec
=============================================================================
