------------------------- MODULE MediaStorageProofs -------------------------
(* Proofs about MediaStorage, for any flows, handlers, objects, backends and *)
(* workload, and however many writes are astray.                             *)
EXTENDS MediaStorage, TLAPS

Waiting == {"exists", "flow", "put"}

------------------------------------------------------------------------------
(* A handler that waits for something serves a request of its workload.      *)
LEMMA Serving ==
  ASSUME TypeOK, NEW h \in Handlers, pc[h] # "idle"
  PROVE  req[h] \in Requests /\ req[h].flow \in Flows /\ req[h].ids \subseteq Names
BY RequestAssumption DEF TypeOK, Requests

(* What it writes is a record.                                               *)
LEMMA RecordType ==
  ASSUME TypeOK, NEW h \in Handlers, pc[h] \in Waiting
  PROVE  Record(h) \in Records /\ Record(h).flow = req[h].flow
<1>1. req[h].flow \in Flows /\ Backend(req[h]) \in Backends
  BY Serving DEF TypeOK, Waiting
<1>2. QED
  BY <1>1 DEF Record, Records

(* A backend that is looked up is one of the configuration, or none.        *)
LEMMA BackendOrNone ==
  ASSUME NEW r \in Requests
  PROVE  Backend(r) = NoRecord \/ Backend(r) \in Backends
BY StorageAssumption DEF Backend

(* The writes that go astray are those of a handler that waits for them.     *)
LEMMA StrayWrites ==
  ASSUME TypeOK, NEW h \in Handlers, Stray(h), pc[h] \in Waiting
  PROVE  /\ strays' \subseteq [object : Objects, record : Records]
         /\ \A w \in strays' : \/ w \in strays
                               \/ /\ pc[h] = "put" /\ w.object \in ids[h]
                                  /\ w.record = Record(h)
<1>1. PICK S \in SUBSET (IF pc[h] = "put" THEN ids[h] ELSE {}) :
        strays' = strays \cup {Write(h, o) : o \in S}
  BY DEF Stray
<1>2. Record(h) \in Records
  BY RecordType
<1>3. ids[h] \subseteq Objects /\ strays \subseteq [object : Objects, record : Records]
  BY DEF TypeOK
<1>4. S # {} => pc[h] = "put"
  OBVIOUS
<1>5. S \subseteq ids[h]
  OBVIOUS
<1>6. \A o \in S : /\ Write(h, o) \in [object : Objects, record : Records]
                   /\ Write(h, o).object = o /\ Write(h, o).record = Record(h)
  BY <1>2, <1>3, <1>5 DEF Write
<1>7. QED
  BY <1>1, <1>3, <1>4, <1>5, <1>6

------------------------------------------------------------------------------
(* Types.                                                                    *)

LEMMA InitType == Init => TypeOK
BY DEF Init, TypeOK, FlowStates

LEMMA LeaveType ==
  ASSUME TypeOK, NEW h \in Handlers, Leave(h),
         strays' \subseteq [object : Objects, record : Records]
  PROVE  TypeOK'
BY DEF TypeOK, Leave, tables

LEMMA StoreType ==
  ASSUME TypeOK, NEW o \in Objects, NEW record \in Records, Store(o, record)
  PROVE  /\ media' \in [Objects -> Records \cup {NoRecord}]
         /\ mediaSeen' \in [Objects -> Records \cup {NoRecord}]
         /\ flows' = flows /\ flowsSeen' = flowsSeen
BY DEF TypeOK, Store

LEMMA ReceiveType ==
  ASSUME TypeOK, NEW h \in Handlers, Receive(h)
  PROVE  TypeOK'
<1>1. PICK r \in Workload[h] :
        /\ req' = [req EXCEPT ![h] = r]
        /\ \/ Malformed(r) /\ Respond(h, 400)
           \/ /\ ~Malformed(r)
              /\ pc' = [pc EXCEPT ![h] = IF r.ids # {} THEN "exists" ELSE "flow"]
              /\ UNCHANGED status
  BY DEF Receive
<1>2. /\ pc[h] = "idle" /\ done[h] = {} /\ UNCHANGED <<tables, clash, ids, done, strays>>
  BY DEF Receive, TypeOK
<1>3. r \in Requests
  BY RequestAssumption
<1>4. ~Malformed(r) => Backend(r) \in Backends
  BY <1>3, BackendOrNone DEF Malformed
<1>5. CASE Respond(h, 400)
  BY <1>1, <1>2, <1>3, <1>5 DEF TypeOK, Respond, tables
<1>6. CASE /\ ~Malformed(r)
           /\ pc' = [pc EXCEPT ![h] = IF r.ids # {} THEN "exists" ELSE "flow"]
           /\ UNCHANGED status
  BY <1>1, <1>2, <1>3, <1>4, <1>6 DEF TypeOK, tables
<1>7. QED
  BY <1>1, <1>5, <1>6

LEMMA GetFlowByIdType ==
  ASSUME TypeOK, NEW h \in Handlers, GetFlowById(h)
  PROVE  TypeOK'
<1>1. pc[h] = "flow" /\ done[h] = {} /\ UNCHANGED <<tables, req, clash, done, strays>>
  BY DEF GetFlowById, TypeOK
<1>2. CASE \E code \in {403, 404, 400, 500} : Respond(h, code) /\ UNCHANGED ids
  BY <1>1, <1>2 DEF TypeOK, Respond, tables
<1>3. CASE /\ \E S \in SUBSET Objects : ids' = [ids EXCEPT ![h] = S]
           /\ pc' = [pc EXCEPT ![h] = "put"] /\ UNCHANGED status
  BY <1>1, <1>3 DEF TypeOK, tables
<1>4. QED
  BY <1>2, <1>3 DEF GetFlowById, Refusal

LEMMA NextType == TypeOK /\ [Next]_vars => TypeOK'
<1> SUFFICES ASSUME TypeOK, [Next]_vars PROVE TypeOK'
  OBVIOUS
<1>1. ASSUME NEW h \in Handlers, Handler(h) PROVE TypeOK'
  <2>1. CASE Receive(h)
    BY <2>1, ReceiveType
  <2>2. CASE \E o \in Names : LookUp(h, o)
    BY <2>2 DEF LookUp, TypeOK, tables, Objects
  <2>3. CASE ExistenceKnown(h)
    BY <2>3 DEF ExistenceKnown, TypeOK, Respond, tables
  <2>4. CASE GetFlowById(h)
    BY <2>4, GetFlowByIdType
  <2>5. CASE \E o \in Objects : PutMediaObject(h, o)
    <3>1. PICK o \in Objects : PutMediaObject(h, o)
      BY <2>5
    <3>2. Record(h) \in Records
      BY <3>1, RecordType DEF PutMediaObject, Waiting
    <3>3. QED
      BY <3>1, <3>2, StoreType DEF PutMediaObject, TypeOK
  <2>6. CASE Created(h)
    BY <2>6 DEF Created, Respond, TypeOK, tables
  <2>7. CASE CallFails(h)
    <3>1. strays' \subseteq [object : Objects, record : Records]
      BY <2>7, StrayWrites DEF CallFails, Waiting
    <3>2. QED
      BY <2>7, <3>1 DEF CallFails, Respond, TypeOK, tables
  <2>8. CASE Answer(h)
    BY <2>8, LeaveType DEF Answer, TypeOK
  <2>9. CASE Crash(h)
    BY <2>9, LeaveType, StrayWrites DEF Crash, Waiting
  <2>10. QED
    BY <1>1, <2>1, <2>2, <2>3, <2>4, <2>5, <2>6, <2>7, <2>8, <2>9 DEF Handler, Calls
<1>2. ASSUME NEW w \in strays, StrayLands(w) \/ StrayEnds(w) PROVE TypeOK'
  <2>1. w.object \in Objects /\ w.record \in Records
    BY DEF TypeOK
  <2>2. CASE StrayLands(w)
    BY <2>1, <2>2, StoreType DEF StrayLands, Own, TypeOK
  <2>3. CASE StrayEnds(w)
    BY <2>3 DEF StrayEnds, Own, tables, TypeOK
  <2>4. QED
    BY <1>2, <2>2, <2>3
<1>3. ASSUME NEW f \in Flows, ChangeFlow(f) \/ ReplicateFlow(f) PROVE TypeOK'
  BY <1>3 DEF ChangeFlow, ReplicateFlow, Own, TypeOK
<1>4. ASSUME NEW o \in Objects, ReplicateMedia(o) PROVE TypeOK'
  BY <1>4 DEF ReplicateMedia, Own, TypeOK
<1>5. CASE UNCHANGED vars
  BY <1>5 DEF vars, tables, TypeOK
<1>6. QED
  BY <1>1, <1>2, <1>3, <1>4, <1>5 DEF Next

(* Every reachable state has its type.                                       *)
THEOREM TypeCorrect == Spec => []TypeOK
BY InitType, NextType, PTL DEF Spec
------------------------------------------------------------------------------
(* No media object without its flow.  The invariant follows the flow from    *)
(* the read that found it to the last write for it: through the copies, the  *)
(* handlers about to write, and the writes astray.                           *)
Exists(f) == flows[f] # "absent"

Grounded ==
  /\ \A f \in Flows : flowsSeen[f] # "absent" => Exists(f)
  /\ \A h \in Handlers : pc[h] = "put" => Exists(req[h].flow)
  /\ \A w \in strays : Exists(w.record.flow)
  /\ NoOrphan

(* No flow is ever removed.                                                  *)
LEMMA FlowsStay ==
  ASSUME TypeOK, [Next]_vars, NEW f \in Flows, Exists(f)
  PROVE  Exists(f)'
<1>1. CASE \E g \in Flows : ChangeFlow(g)
  BY <1>1 DEF ChangeFlow, Exists, TypeOK
<1>2. CASE UNCHANGED flows
  BY <1>2 DEF Exists
<1>3. QED
  BY <1>1, <1>2 DEF Next, Handler, Calls, Receive, LookUp, ExistenceKnown, GetFlowById,
       PutMediaObject, Created, CallFails, Answer, Crash, Leave, Store, StrayLands,
       StrayEnds, ReplicateFlow, ReplicateMedia, vars, tables

LEMMA InitGrounded == Init => Grounded
BY DEF Init, Grounded, NoOrphan

LEMMA StoreGrounded ==
  ASSUME TypeOK, Grounded, NEW o \in Objects, NEW record \in Records,
         Store(o, record), Exists(record.flow), UNCHANGED <<pc, req, strays>>
  PROVE  Grounded'
BY DEF Grounded, NoOrphan, Exists, Store, TypeOK

LEMMA NextGrounded == TypeOK /\ Grounded /\ [Next]_vars => Grounded'
<1> SUFFICES ASSUME TypeOK, Grounded, [Next]_vars PROVE Grounded'
  OBVIOUS
<1> USE DEF Grounded, NoOrphan, Exists
<1>1. ASSUME NEW h \in Handlers, Handler(h) PROVE Grounded'
  <2>1. CASE Receive(h)
    BY <2>1 DEF Receive, Respond, tables, TypeOK
  <2>2. CASE (\E o \in Names : LookUp(h, o)) \/ ExistenceKnown(h) \/ Created(h) \/ Answer(h)
    BY <2>2 DEF LookUp, ExistenceKnown, Created, Answer, Leave, Respond, tables, TypeOK
  <2>3. CASE GetFlowById(h)
    <3>1. pc[h] = "flow" /\ req[h].flow \in Flows
      BY <2>3, Serving DEF GetFlowById
    <3>2. \/ pc' = [pc EXCEPT ![h] = "reply"]
          \/ pc' = [pc EXCEPT ![h] = "put"] /\ Exists(req[h].flow)
      BY <2>3, <3>1 DEF GetFlowById, Respond, Refusal
    <3>3. QED
      BY <2>3, <3>2 DEF GetFlowById, tables, TypeOK
  <2>4. CASE \E o \in Objects : PutMediaObject(h, o)
    <3>1. PICK o \in Objects : PutMediaObject(h, o)
      BY <2>4
    <3>2. Record(h) \in Records /\ Exists(Record(h).flow)
      BY <3>1, RecordType DEF PutMediaObject, Waiting
    <3>3. QED
      BY <3>1, <3>2, StoreGrounded DEF PutMediaObject
  <2>5. CASE CallFails(h) \/ Crash(h)
    <3>1. \A w \in strays' : w \in strays \/ (pc[h] = "put" /\ w.record = Record(h))
      BY <2>5, StrayWrites DEF CallFails, Crash, Waiting
    <3>2. pc[h] = "put" => Exists(Record(h).flow)
      BY RecordType DEF Waiting
    <3>3. \A w \in strays' : Exists(w.record.flow)
      BY <3>1, <3>2
    <3>4. QED
      BY <2>5, <3>3 DEF CallFails, Crash, Leave, Respond, tables, TypeOK
  <2>6. QED
    BY <1>1, <2>1, <2>2, <2>3, <2>4, <2>5 DEF Handler, Calls
<1>2. ASSUME NEW w \in strays, StrayLands(w) \/ StrayEnds(w) PROVE Grounded'
  <2>1. w.object \in Objects /\ w.record \in Records
    BY DEF TypeOK
  <2>2. CASE StrayLands(w)
    BY <2>1, <2>2, StoreGrounded DEF StrayLands, Own
  <2>3. CASE StrayEnds(w)
    BY <2>3 DEF StrayEnds, Own, tables
  <2>4. QED
    BY <1>2, <2>2, <2>3
<1>3. ASSUME NEW f \in Flows, ChangeFlow(f) \/ ReplicateFlow(f) PROVE Grounded'
  <2>1. \A g \in Flows : flowsSeen'[g] # "absent" => Exists(g)'
    BY <1>3 DEF ChangeFlow, ReplicateFlow, TypeOK
  <2>2. \A h \in Handlers : pc[h] = "put" => req[h].flow \in Flows
    BY Serving
  <2>3. \A w \in strays : w.record.flow \in Flows
    BY DEF TypeOK, Records
  <2>4. \A o \in Objects : media[o] # NoRecord => media[o].flow \in Flows
    BY DEF TypeOK, Records
  <2>5. UNCHANGED <<media, pc, req, strays>>
    BY <1>3 DEF ChangeFlow, ReplicateFlow, Own
  <2>6. QED
    BY <2>1, <2>2, <2>3, <2>4, <2>5, FlowsStay
<1>4. ASSUME NEW o \in Objects, ReplicateMedia(o) PROVE Grounded'
  BY <1>4 DEF ReplicateMedia, Own
<1>5. CASE UNCHANGED vars
  BY <1>5 DEF vars, tables
<1>6. QED
  BY <1>1, <1>2, <1>3, <1>4, <1>5 DEF Next

(* Every media object belongs to a flow that exists.                         *)
THEOREM Orphanless == Spec => []NoOrphan
<1>1. Grounded => NoOrphan
  BY DEF Grounded
<1>2. QED
  BY <1>1, TypeCorrect, InitGrounded, NextGrounded, PTL DEF Spec
------------------------------------------------------------------------------
(* What 201 promises.  A generated identifier has one owner, which no stray  *)
(* write reaches, and what has been written for a request stays recorded.    *)
Owned ==
  /\ \A g, h \in Handlers : g # h => ids[g] \cap ids[h] \cap Fresh = {}
  /\ \A w \in strays, h \in Handlers : w.object \in ids[h] => w.object \notin Fresh
  /\ \A h \in Handlers, o \in Objects :
       (pc[h] = "put" /\ o \in done[h]) \/ (status[h] = 201 /\ o \in ids[h]) =>
         media[o] # NoRecord /\ (o \in Fresh => media[o] = Record(h))

LEMMA InitOwned == Init => Owned
BY DEF Init, Owned

LEMMA RecordKept ==
  ASSUME TypeOK, UNCHANGED req, NEW h \in Handlers
  PROVE  Record(h)' = Record(h)
BY DEF Record, Backend

(* A write of the owner, or of an identifier that nobody owns.               *)
LEMMA StoreOwned ==
  ASSUME TypeOK, Owned, NEW o \in Objects, NEW record \in Records, Store(o, record),
         \A h \in Handlers : o \in ids[h] /\ o \in Fresh => record = Record(h),
         UNCHANGED <<pc, req, ids, strays, status>>,
         \A h \in Handlers : \A x \in done'[h] : x \in done[h] \/ (x = o /\ o \in ids[h])
  PROVE  Owned'
<1>1. \A h \in Handlers : Record(h)' = Record(h)
  BY RecordKept
<1>2. media' = [media EXCEPT ![o] = record] /\ record # NoRecord
  BY StorageAssumption DEF Store
<1>3. \A x \in Objects : media'[x] = IF x = o THEN record ELSE media[x]
  BY <1>2 DEF TypeOK
<1>4. ASSUME NEW h \in Handlers, NEW x \in Objects,
             (pc[h] = "put" /\ x \in done[h])' \/ (status[h] = 201 /\ x \in ids[h])'
      PROVE  (media[x] # NoRecord /\ (x \in Fresh => media[x] = Record(h)))'
  <2>1. CASE x = o
    <3>1. o \in ids[h]
      BY <1>4, <2>1 DEF TypeOK
    <3>2. QED
      BY <1>1, <1>2, <1>3, <2>1, <3>1
  <2>2. CASE x # o
    BY <1>1, <1>3, <1>4, <2>2 DEF Owned
  <2>3. QED
    BY <2>1, <2>2
<1>5. QED
  BY <1>4 DEF Owned

(* The request is over: it owns nothing any more.                            *)
LEMMA DroppedOwned ==
  ASSUME TypeOK, Owned, NEW h \in Handlers, ids' = [ids EXCEPT ![h] = {}],
         pc'[h] # "put", status'[h] # 201,
         \A w \in strays' : w \in strays \/ w.object \in ids[h],
         \A g \in Handlers \ {h} : /\ pc'[g] = pc[g] /\ done'[g] = done[g]
                                   /\ status'[g] = status[g] /\ req'[g] = req[g],
         UNCHANGED media
  PROVE  Owned'
<1>1. \A g \in Handlers \ {h} : Record(g)' = Record(g) /\ ids'[g] = ids[g]
  BY DEF Record, Backend, TypeOK
<1>2. ids'[h] = {}
  BY DEF TypeOK
<1>3. QED
  BY <1>1, <1>2 DEF Owned

LEMMA GetFlowByIdOwned ==
  ASSUME TypeOK, Owned, NEW h \in Handlers, GetFlowById(h)
  PROVE  Owned'
<1>1. /\ pc[h] = "flow" /\ done[h] = {} /\ status[h] = 0
      /\ UNCHANGED <<media, req, done, strays>>
  BY DEF GetFlowById, TypeOK, tables
<1>2. \A g \in Handlers : Record(g)' = Record(g)
  BY <1>1, RecordKept
<1>3. CASE \E code \in {403, 404, 400, 500} : Respond(h, code) /\ UNCHANGED ids
  BY <1>1, <1>2, <1>3 DEF Owned, Respond, TypeOK
<1>4. CASE /\ \E S \in SUBSET Objects : Chosen(h, S) /\ ids' = [ids EXCEPT ![h] = S]
           /\ pc' = [pc EXCEPT ![h] = "put"] /\ UNCHANGED status
  <2>1. PICK S \in SUBSET Objects : Chosen(h, S) /\ ids' = [ids EXCEPT ![h] = S]
    BY <1>4
  <2>2. \A o \in S \cap Fresh : /\ \A g \in Handlers : o \notin ids[g]
                                /\ \A w \in strays : w.object # o
    BY <1>1, <2>1, Serving, StorageAssumption DEF Chosen, Unused
  <2>3. /\ ids'[h] = S
        /\ \A g \in Handlers \ {h} : ids'[g] = ids[g] /\ pc'[g] = pc[g]
    BY <1>4, <2>1 DEF TypeOK
  <2>4. \A g, k \in Handlers : g # k => (ids[g] \cap ids[k] \cap Fresh = {})'
    BY <2>2, <2>3 DEF Owned
  <2>5. \A w \in strays', g \in Handlers : w.object \in ids'[g] => w.object \notin Fresh
    BY <1>1, <2>2, <2>3 DEF Owned
  <2>6. QED
    BY <1>1, <1>2, <1>4, <2>3, <2>4, <2>5 DEF Owned
<1>5. QED
  BY <1>3, <1>4 DEF GetFlowById, Refusal

LEMMA NextOwned == TypeOK /\ Owned /\ [Next]_vars => Owned'
<1> SUFFICES ASSUME TypeOK, Owned, [Next]_vars PROVE Owned'
  OBVIOUS
<1>1. ASSUME NEW h \in Handlers, Handler(h) PROVE Owned'
  <2>1. CASE Receive(h)
    <3>1. pc[h] = "idle" /\ status[h] = 0 /\ UNCHANGED <<media, ids, done, strays>>
      BY <2>1 DEF Receive, TypeOK, tables
    <3>2. /\ pc'[h] # "put" /\ status'[h] # 201
          /\ \A g \in Handlers \ {h} : /\ pc'[g] = pc[g] /\ status'[g] = status[g]
                                       /\ req'[g] = req[g]
      BY <2>1, <3>1 DEF Receive, Respond, TypeOK
    <3>3. \A g \in Handlers \ {h} : Record(g)' = Record(g)
      BY <3>2 DEF Record, Backend
    <3>4. QED
      BY <3>1, <3>2, <3>3 DEF Owned
  <2>2. CASE (\E o \in Names : LookUp(h, o)) \/ ExistenceKnown(h)
    <3>1. /\ pc[h] = "exists" /\ pc'[h] # "put" /\ status'[h] # 201
          /\ \A g \in Handlers \ {h} : pc'[g] = pc[g] /\ status'[g] = status[g] /\ done'[g] = done[g]
          /\ UNCHANGED <<media, req, ids, strays>>
      BY <2>2 DEF LookUp, ExistenceKnown, Respond, TypeOK, tables
    <3>2. \A g \in Handlers : Record(g)' = Record(g)
      BY <3>1, RecordKept
    <3>3. QED
      BY <3>1, <3>2 DEF Owned
  <2>3. CASE GetFlowById(h)
    BY <2>3, GetFlowByIdOwned
  <2>4. CASE \E o \in Objects : PutMediaObject(h, o)
    <3>1. PICK o \in Objects : PutMediaObject(h, o)
      BY <2>4
    <3>2. Record(h) \in Records
      BY <3>1, RecordType DEF PutMediaObject, Waiting
    <3>3. \A g \in Handlers : o \in ids[g] /\ o \in Fresh => Record(h) = Record(g)
      BY <3>1 DEF PutMediaObject, Owned
    <3>4. \A g \in Handlers : \A x \in done'[g] : x \in done[g] \/ (x = o /\ o \in ids[g])
      BY <3>1 DEF PutMediaObject, TypeOK
    <3>5. QED
      BY <3>1, <3>2, <3>3, <3>4, StoreOwned DEF PutMediaObject
  <2>5. CASE Created(h)
    <3>1. pc[h] = "put" /\ done[h] = ids[h] /\ UNCHANGED <<media, req, ids, strays>>
      BY <2>5 DEF Created, tables
    <3>2. /\ pc'[h] = "reply"
          /\ \A g \in Handlers \ {h} : pc'[g] = pc[g] /\ status'[g] = status[g] /\ done'[g] = done[g]
      BY <2>5 DEF Created, Respond, TypeOK
    <3>3. \A g \in Handlers : Record(g)' = Record(g)
      BY <3>1, RecordKept
    <3>4. QED
      BY <3>1, <3>2, <3>3 DEF Owned
  <2>6. CASE CallFails(h) \/ Answer(h) \/ Crash(h)
    <3>1. \A w \in strays' : w \in strays \/ w.object \in ids[h]
      BY <2>6, StrayWrites DEF CallFails, Answer, Crash, Waiting
    <3>2. /\ ids' = [ids EXCEPT ![h] = {}] /\ UNCHANGED media
          /\ pc'[h] # "put" /\ status'[h] # 201
          /\ \A g \in Handlers \ {h} : /\ pc'[g] = pc[g] /\ done'[g] = done[g]
                                       /\ status'[g] = status[g] /\ req'[g] = req[g]
      BY <2>6 DEF CallFails, Answer, Crash, Leave, Respond, TypeOK, tables
    <3>3. QED
      BY <3>1, <3>2, DroppedOwned
  <2>7. QED
    BY <1>1, <2>1, <2>2, <2>3, <2>4, <2>5, <2>6 DEF Handler, Calls
<1>2. ASSUME NEW w \in strays, StrayLands(w) PROVE Owned'
  <2>1. w.object \in Objects /\ w.record \in Records
    BY DEF TypeOK
  <2>2. \A h \in Handlers : ~(w.object \in ids[h] /\ w.object \in Fresh)
    BY DEF Owned
  <2>3. QED
    BY <1>2, <2>1, <2>2, StoreOwned DEF StrayLands, Own
<1>3. CASE \/ \E w \in strays : StrayEnds(w)
           \/ \E f \in Flows : ChangeFlow(f) \/ ReplicateFlow(f)
           \/ \E o \in Objects : ReplicateMedia(o)
           \/ UNCHANGED vars
  <2>1. UNCHANGED <<media, pc, req, ids, done, status>> /\ strays' \subseteq strays
    BY <1>3 DEF StrayEnds, ChangeFlow, ReplicateFlow, ReplicateMedia, Own, tables, vars
  <2>2. \A g \in Handlers : Record(g)' = Record(g)
    BY <2>1, RecordKept
  <2>3. QED
    BY <2>1, <2>2 DEF Owned
<1>4. QED
  BY <1>1, <1>2, <1>3 DEF Next

(* A client told 201 has all its objects recorded, the generated ones as its *)
(* own.                                                                      *)
THEOREM CreatedKept == Spec => []CreatedRecorded
<1>1. TypeOK /\ Owned => CreatedRecorded
  BY DEF TypeOK, Owned, CreatedRecorded
<1>2. QED
  BY <1>1, TypeCorrect, InitOwned, NextOwned, PTL DEF Spec
------------------------------------------------------------------------------
(* What no step may do.                                                      *)

(* A handler that does not contend for a recorded object never comes to.     *)
LEMMA NoNewContender ==
  ASSUME TypeOK, NEW o \in Objects, media[o] # NoRecord, mediaSeen[o] = media[o],
         NEW h \in Handlers, ~Contends(h, o), Handler(h)
  PROVE  ~Contends(h, o)'
<1>1. CASE Receive(h)
  <2>1. done[h] = {} /\ UNCHANGED done /\ pc[h] = "idle"
    BY <1>1 DEF Receive, TypeOK
  <2>2. PICK r \in Workload[h] :
          /\ req' = [req EXCEPT ![h] = r]
          /\ \/ pc' = [pc EXCEPT ![h] = "reply"]
             \/ pc' = [pc EXCEPT ![h] = IF r.ids # {} THEN "exists" ELSE "flow"]
    BY <1>1 DEF Receive, Respond
  <2>3. req'[h] = r /\ (pc'[h] = "reply" \/ pc'[h] = "exists" \/ (pc'[h] = "flow" /\ r.ids = {}))
    <3>1. r \in Requests
      BY RequestAssumption
    <3>2. QED
      BY <2>2, <3>1 DEF TypeOK
  <2>4. QED
    BY <2>1, <2>3 DEF Contends
<1>2. CASE \E x \in Names : LookUp(h, x)
  <2>1. PICK x \in Names : LookUp(h, x)
    BY <1>2
  <2>2. PICK found \in {media[x], mediaSeen[x]} : clash' = [clash EXCEPT ![h] = @ \/ found # NoRecord]
    BY <2>1 DEF LookUp
  <2>3. clash'[h] <=> (clash[h] \/ found # NoRecord)
    BY <2>2 DEF TypeOK
  <2>4. /\ pc[h] = "exists" /\ pc' = pc
        /\ done'[h] = done[h] \cup {x}
    BY <2>1 DEF LookUp, TypeOK
  <2>5. x = o => clash'[h]
    BY <2>2, <2>3
  <2>6. o \in done[h] => clash[h]
    BY <2>4 DEF Contends
  <2>7. QED
    BY <2>3, <2>4, <2>5, <2>6 DEF Contends
<1>3. CASE ExistenceKnown(h)
  <2>1. /\ pc[h] = "exists" /\ done[h] = req[h].ids /\ req' = req
        /\ \/ pc'[h] = "reply"
           \/ ~clash[h] /\ pc'[h] = "flow"
    BY <1>3 DEF ExistenceKnown, Respond, TypeOK
  <2>2. QED
    BY <2>1 DEF Contends
<1>4. CASE GetFlowById(h)
  <2>1. /\ pc[h] = "flow"
        /\ \/ pc'[h] = "reply"
           \/ /\ pc'[h] = "put"
              /\ \E S \in SUBSET Objects : Chosen(h, S) /\ ids' = [ids EXCEPT ![h] = S]
    BY <1>4 DEF GetFlowById, Respond, TypeOK
  <2>2. CASE pc'[h] = "reply"
    BY <2>2 DEF Contends
  <2>3. ASSUME NEW S \in SUBSET Objects, Chosen(h, S), ids' = [ids EXCEPT ![h] = S]
        PROVE  o \notin ids'[h]
    <3>1. ids'[h] = S
      BY <2>3 DEF TypeOK
    <3>2. o \notin req[h].ids
      BY <2>1 DEF Contends
    <3>3. QED
      BY <2>3, <3>1, <3>2 DEF Chosen, Unused
  <2>4. QED
    BY <2>1, <2>2, <2>3 DEF Contends
<1>5. CASE \E x \in Objects : PutMediaObject(h, x)
  BY <1>5 DEF PutMediaObject, Contends
<1>6. CASE Created(h) \/ CallFails(h) \/ Answer(h) \/ Crash(h)
  BY <1>6 DEF Created, CallFails, Answer, Crash, Leave, Respond, Contends, TypeOK
<1>7. QED
  BY <1>1, <1>2, <1>3, <1>4, <1>5, <1>6 DEF Handler, Calls

(* The other handlers are left alone.                                        *)
LEMMA OthersKept ==
  ASSUME TypeOK, NEW h \in Handlers, Handler(h), NEW g \in Handlers, g # h
  PROVE  /\ pc'[g] = pc[g] /\ req'[g] = req[g] /\ clash'[g] = clash[g]
         /\ ids'[g] = ids[g] /\ done'[g] = done[g]
BY DEF Handler, Calls, Receive, LookUp, ExistenceKnown, GetFlowById, PutMediaObject,
       Created, CallFails, Answer, Crash, Leave, Respond, TypeOK

(* What a handler does to the tables and the strays.                         *)
LEMMA HandlerWrites ==
  ASSUME TypeOK, NEW h \in Handlers, Handler(h)
  PROVE  /\ flows' = flows /\ flowsSeen' = flowsSeen
         /\ \/ UNCHANGED <<media, mediaSeen>>
            \/ /\ pc[h] = "put" /\ strays' = strays
               /\ \E x \in ids[h] : Store(x, Record(h))
         /\ \A w \in strays' : \/ w \in strays
                               \/ /\ pc[h] = "put" /\ w.object \in ids[h]
                                  /\ w.record = Record(h)
<1>1. CASE \E x \in Objects : PutMediaObject(h, x)
  BY <1>1 DEF PutMediaObject, Store
<1>2. CASE CallFails(h) \/ Crash(h)
  BY <1>2, StrayWrites DEF CallFails, Crash, Leave, Waiting, tables
<1>3. CASE Receive(h) \/ (\E x \in Names : LookUp(h, x)) \/ ExistenceKnown(h)
           \/ GetFlowById(h) \/ Created(h) \/ Answer(h)
  BY <1>3 DEF Receive, LookUp, ExistenceKnown, GetFlowById, Created, Answer, Leave, tables
<1>4. QED
  BY <1>1, <1>2, <1>3 DEF Handler, Calls

LEMMA StoreKeeps ==
  ASSUME TypeOK, NEW o \in Objects, NEW x, NEW record, Store(x, record), x # o
  PROVE  media'[o] = media[o] /\ (mediaSeen[o] = media[o] => mediaSeen'[o] = media[o])
BY DEF TypeOK, Store

LEMMA SettledStep ==
  ASSUME TypeOK, [Next]_vars, NEW o \in Objects, Settled(o)
  PROVE  Settled(o)' /\ media'[o] = media[o]
<1> USE DEF Settled
<1>1. ASSUME NEW h \in Handlers, Handler(h)
      PROVE  Settled(o)' /\ media'[o] = media[o]
  <2>1. \A g \in Handlers : ~Contends(g, o)'
    BY <1>1, NoNewContender, OthersKept DEF Contends
  <2>2. pc[h] = "put" => o \notin ids[h]
    BY DEF Contends
  <2>3. media'[o] = media[o] /\ mediaSeen'[o] = media[o]
    BY <1>1, <2>2, HandlerWrites, StoreKeeps
  <2>4. \A w \in strays' : w.object # o
    BY <1>1, <2>2, HandlerWrites
  <2>5. QED
    BY <2>1, <2>3, <2>4
<1>2. ASSUME NEW w \in strays, StrayLands(w) PROVE Settled(o)' /\ media'[o] = media[o]
  BY <1>2, StoreKeeps DEF StrayLands, Own, Contends
<1>3. ASSUME NEW x \in Objects, ReplicateMedia(x) PROVE Settled(o)' /\ media'[o] = media[o]
  BY <1>3 DEF ReplicateMedia, Own, Contends, TypeOK
<1>4. CASE \/ \E w \in strays : StrayEnds(w)
           \/ \E f \in Flows : ChangeFlow(f) \/ ReplicateFlow(f)
           \/ UNCHANGED vars
  <2>1. /\ UNCHANGED <<media, mediaSeen, pc, req, clash, ids, done>>
        /\ strays' \subseteq strays
    BY <1>4 DEF StrayEnds, ChangeFlow, ReplicateFlow, Own, tables, vars
  <2>2. QED
    BY <2>1 DEF Contends
<1>5. QED
  BY <1>1, <1>2, <1>3, <1>4 DEF Next

(* No request takes a settled object over.                                   *)
THEOREM RecordsFinal == Spec => RecordFinal
<1>1. TypeOK /\ [Next]_vars =>
        [\A o \in Objects : Settled(o) => Settled(o)' /\ media'[o] = media[o]]_vars
  BY SettledStep
<1>2. QED
  BY <1>1, TypeCorrect, PTL DEF Spec, RecordFinal

(* What is recorded stays recorded, and so is found by every later lookup.   *)
LEMMA RecordsStay ==
  ASSUME TypeOK, [Next]_vars, NEW o \in Objects, Recorded(o)
  PROVE  Recorded(o)'
<1> USE DEF Recorded
<1>1. ASSUME NEW x \in Objects, NEW record \in Records, Store(x, record)
      PROVE  Recorded(o)'
  BY <1>1, StorageAssumption DEF Store, TypeOK
<1>2. ASSUME NEW h \in Handlers, Handler(h) PROVE Recorded(o)'
  <2>1. CASE UNCHANGED <<media, mediaSeen>>
    BY <2>1
  <2>2. ASSUME pc[h] = "put", NEW x \in ids[h], Store(x, Record(h)) PROVE Recorded(o)'
    <3>1. Record(h) \in Records /\ x \in Objects
      BY <2>2, RecordType DEF Waiting, TypeOK
    <3>2. QED
      BY <1>1, <2>2, <3>1
  <2>3. QED
    BY <1>2, <2>1, <2>2, HandlerWrites
<1>3. ASSUME NEW w \in strays, StrayLands(w) PROVE Recorded(o)'
  BY <1>1, <1>3 DEF StrayLands, TypeOK
<1>4. CASE \E x \in Objects : ReplicateMedia(x)
  BY <1>4 DEF ReplicateMedia, TypeOK
<1>5. CASE \/ \E w \in strays : StrayEnds(w)
           \/ \E f \in Flows : ChangeFlow(f) \/ ReplicateFlow(f)
           \/ UNCHANGED vars
  BY <1>5 DEF StrayEnds, ChangeFlow, ReplicateFlow, tables, vars
<1>6. QED
  BY <1>2, <1>3, <1>4, <1>5 DEF Next

(* What a step may make of a request that is doomed.                         *)
Refused(h) ==
  \/ Doomed(h)' /\ req'[h] = req[h]
  \/ pc'[h] = "reply" /\ status'[h] \in {400, 500}
  \/ pc'[h] = "idle"

LEMMA DoomedStep ==
  ASSUME TypeOK, [Next]_vars, NEW h \in Handlers, Doomed(h)
  PROVE  Refused(h)
<1>1. /\ pc[h] = "exists" /\ req[h].ids \subseteq Objects
      /\ clash[h] \/ \E o \in req[h].ids \ done[h] : Recorded(o)
  BY Serving DEF Doomed, Objects
<1>2. ASSUME UNCHANGED <<pc, req, clash, done>>
      PROVE  Refused(h)
  BY <1>1, <1>2, RecordsStay DEF Refused, Doomed
<1>3. ASSUME NEW g \in Handlers \ {h}, Handler(g)
      PROVE  Refused(h)
  <2>1. pc'[h] = pc[h] /\ req'[h] = req[h] /\ clash'[h] = clash[h] /\ done'[h] = done[h]
    BY <1>3, OthersKept
  <2>2. QED
    BY <1>1, <2>1, RecordsStay DEF Refused, Doomed
<1>4. CASE Handler(h)
  <2>1. CASE \E x \in Names : LookUp(h, x)
    <3>1. PICK x \in Names : LookUp(h, x)
      BY <2>1
    <3>2. PICK found \in {media[x], mediaSeen[x]} :
            clash' = [clash EXCEPT ![h] = @ \/ found # NoRecord]
      BY <3>1 DEF LookUp
    <3>3. /\ clash'[h] <=> (clash[h] \/ found # NoRecord)
          /\ UNCHANGED <<pc, req>> /\ done'[h] = done[h] \cup {x}
      BY <3>1, <3>2 DEF LookUp, TypeOK
    <3>4. Recorded(x) => clash'[h]
      BY <3>2, <3>3 DEF Recorded
    <3>5. clash'[h] \/ \E o \in req[h].ids \ done'[h] : Recorded(o)
      BY <1>1, <3>3, <3>4
    <3>6. clash'[h] \/ \E o \in req[h].ids \ done'[h] : Recorded(o)'
      BY <1>1, <3>5, RecordsStay
    <3>7. QED
      BY <1>1, <3>3, <3>6 DEF Refused, Doomed
  <2>2. CASE ExistenceKnown(h)
    <3>1. clash[h]
      BY <1>1, <2>2 DEF ExistenceKnown
    <3>2. QED
      BY <2>2, <3>1 DEF ExistenceKnown, Respond, Refused, TypeOK
  <2>3. CASE CallFails(h) \/ Crash(h)
    BY <2>3 DEF CallFails, Crash, Leave, Respond, Refused, TypeOK
  <2>4. QED
    BY <1>1, <1>4, <2>1, <2>2, <2>3
    DEF Handler, Calls, Receive, GetFlowById, PutMediaObject, Created, Answer
<1>5. CASE \/ \E w \in strays : StrayLands(w) \/ StrayEnds(w)
           \/ \E f \in Flows : ChangeFlow(f) \/ ReplicateFlow(f)
           \/ \E o \in Objects : ReplicateMedia(o)
           \/ UNCHANGED vars
  BY <1>2, <1>5
  DEF StrayLands, StrayEnds, ChangeFlow, ReplicateFlow, ReplicateMedia, Own, vars
<1>6. QED
  BY <1>3, <1>4, <1>5 DEF Next

(* Whoever asks again for an object that a failed request has left recorded  *)
(* gets no upload URL, in whatever order the lookups come back.              *)
THEOREM RetriesRefused == Spec => RetryRefused
<1>1. TypeOK /\ [Next]_vars => [\A h \in Handlers : Doomed(h) => Refused(h)]_vars
  BY DoomedStep
<1>2. QED
  BY <1>1, TypeCorrect, PTL DEF Spec, RetryRefused, Refused

LEMMA ClosedStep ==
  ASSUME TypeOK, [Next]_vars, NEW f \in Flows, Closed(f), flows'[f] = "locked"
  PROVE  /\ Closed(f)'
         /\ \A o \in Objects : media'[o] # media[o] => media'[o].flow # f
<1> DEFINE Goal == /\ Closed(f)'
                   /\ \A o \in Objects : media'[o] # media[o] => media'[o].flow # f
<1> USE DEF Closed
<1>1. ASSUME NEW h \in Handlers, Handler(h) PROVE Goal
  <2>1. pc[h] = "put" => Record(h).flow # f
    BY RecordType DEF Waiting
  <2>2. \A w \in strays' : w.record.flow # f
    BY <1>1, <2>1, HandlerWrites
  <2>3. \A o \in Objects : media'[o] # media[o] => media'[o].flow # f
    <3>1. ASSUME NEW x \in Objects, Store(x, Record(h)), pc[h] = "put"
          PROVE  \A o \in Objects : media'[o] # media[o] => media'[o].flow # f
      BY <2>1, <3>1 DEF Store, TypeOK
    <3>2. ids[h] \subseteq Objects
      BY DEF TypeOK
    <3>3. QED
      BY <1>1, <3>1, <3>2, HandlerWrites
  <2>4. pc'[h] = "put" => req'[h].flow # f
    <3>1. CASE GetFlowById(h)
      <4>1. pc'[h] = "put" => \E state \in {flows[req[h].flow], flowsSeen[req[h].flow]} :
                                Refusal(state) = 0
        BY <3>1 DEF GetFlowById, Respond, TypeOK
      <4>2. req' = req
        BY <3>1 DEF GetFlowById
      <4>3. QED
        BY <4>1, <4>2 DEF Refusal
    <3>2. CASE \/ Receive(h) \/ ExistenceKnown(h) \/ Created(h) \/ Answer(h)
               \/ CallFails(h) \/ Crash(h)
      <4>1. pc'[h] # "put"
        BY <3>2 DEF Receive, ExistenceKnown, Created, Answer, CallFails, Crash, Leave,
             Respond, TypeOK
      <4>2. QED
        BY <4>1
    <3>3. CASE (\E x \in Names : LookUp(h, x)) \/ (\E x \in Objects : PutMediaObject(h, x))
      BY <3>3 DEF LookUp, PutMediaObject
    <3>4. QED
      BY <1>1, <3>1, <3>2, <3>3 DEF Handler, Calls
  <2>5. QED
    BY <1>1, <2>2, <2>3, <2>4, HandlerWrites, OthersKept
<1>2. ASSUME NEW w \in strays, StrayLands(w) PROVE Goal
  BY <1>2 DEF StrayLands, Own, Store, TypeOK
<1>3. CASE \/ \E w \in strays : StrayEnds(w)
           \/ \E x \in Objects : ReplicateMedia(x)
           \/ UNCHANGED vars
  BY <1>3 DEF StrayEnds, ReplicateMedia, Own, tables, vars
<1>4. ASSUME NEW g \in Flows, ChangeFlow(g) \/ ReplicateFlow(g) PROVE Goal
  BY <1>4 DEF ChangeFlow, ReplicateFlow, Own, TypeOK
<1>5. QED
  BY <1>1, <1>2, <1>3, <1>4 DEF Next

(* A flow closed to uploads gets none while it stays read-only.              *)
THEOREM LocksHold == Spec => LockHolds
<1>1. TypeOK /\ [Next]_vars =>
        [\A f \in Flows : Closed(f) /\ flows'[f] = "locked" =>
           /\ Closed(f)'
           /\ \A o \in Objects : media'[o] # media[o] => media'[o].flow # f]_vars
  BY ClosedStep
<1>2. QED
  BY <1>1, TypeCorrect, PTL DEF Spec, LockHolds
=============================================================================
