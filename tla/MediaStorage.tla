---------------------------- MODULE MediaStorage ----------------------------
(* POST /flows/:flowId/storage (service/src/routes/flows.mediaStorage.ts)    *)
(* over the flow and media object repositories.  A request names the objects *)
(* it wants or lets the service generate their identifiers; the handler      *)
(* looks the names up, fetches the flow, signs one upload URL per object and *)
(* writes one record per object.  The lookups, and the writes, are sent all  *)
(* at once (Promise.all) and come back in any order; the first failure       *)
(* answers the request while the other writes are still on their way.        *)
EXTENDS Naturals, FiniteSets

CONSTANTS
  Flows,       \* flow identifiers
  Handlers,    \* requests in flight at once, over all the replicas
  Names,       \* object identifiers clients choose
  Fresh,       \* object identifiers uuid() generates
  Backends,    \* the storage backends of the configuration
  Default,     \* the default one
  Unset,       \* a field the body leaves out, a backend nobody configured
  Fractional,  \* a limit that is not an integer: the validator lets it pass
  DefaultLimit, \* how many objects a body without limit and object_ids asks for
  NoRecord,    \* what the repository answers for an unknown object
  NoRequest,   \* a handler that serves nothing
  Workload,    \* the requests each handler may be given
  MaxStrays,   \* bound on the writes followed after their request is over
  StrongReads  \* TRUE where a write reaches every copy of the item at once

VARIABLES
  flows,   \* flow -> what the table says of it
  flowsSeen, \* flow -> what the copy says an eventually consistent read finds
  media,   \* object -> record or NoRecord
  mediaSeen, \* object -> the copy that lags
  pc,      \* handler -> where it waits
  req,     \* handler -> the request it serves
  clash,   \* handler -> whether a lookup has found one of its names
  ids,     \* handler -> the objects it writes
  done,    \* handler -> the objects whose lookup, or write, has taken effect
  strays,  \* writes on their way for requests that are over
  status   \* handler -> the HTTP status it answers with, 0 until it is known

tables == <<flows, flowsSeen, media, mediaSeen>>
vars == <<flows, flowsSeen, media, mediaSeen, pc, req, clash, ids, done, strays, status>>

Objects == Names \cup Fresh

(* All the handler tells apart of a flow: whether it exists, is read-only,   *)
(* and has a container.                                                      *)
FlowStates == {"absent", "open", "bare", "locked"}

Records == [flow : Flows, storage : Backends]
Limits == {Unset, Fractional} \cup (Nat \ {0})

(* object_ids is {} where the body leaves it out: the validator demands one. *)
Requests == [flow : Flows, ids : SUBSET Names, limit : Limits,
             storage : Backends \cup {Unset, NoRecord}]

ASSUME StorageAssumption ==
  /\ Default \in Backends
  /\ NoRecord \notin Records \cup Backends
  /\ NoRequest \notin Requests
  /\ Unset \notin Backends \cup Nat \cup {NoRecord}
  /\ Fractional \notin Nat \cup {Unset}
  /\ Names \cap Fresh = {}
  /\ DefaultLimit \in Nat \ {0}
  /\ StrongReads \in BOOLEAN

ASSUME RequestAssumption == Workload \in [Handlers -> SUBSET Requests]

Init ==
  /\ flows = [f \in Flows |-> "absent"]
  /\ flowsSeen = flows
  /\ media = [o \in Objects |-> NoRecord]
  /\ mediaSeen = media
  /\ pc = [h \in Handlers |-> "idle"]
  /\ req = [h \in Handlers |-> NoRequest]
  /\ clash = [h \in Handlers |-> FALSE]
  /\ ids = [h \in Handlers |-> {}]
  /\ done = [h \in Handlers |-> {}]
  /\ strays = {}
  /\ status = [h \in Handlers |-> 0]

------------------------------------------------------------------------------
(* BackendManager: the backend of an id, or none; without an id the default. *)
Backend(r) ==
  IF r.storage = Unset THEN Default
  ELSE IF r.storage \in Backends THEN r.storage ELSE NoRecord

Limit(r) == IF r.ids = {} /\ r.limit = Unset THEN DefaultLimit ELSE r.limit

(* What is refused before anything is looked up; the first form forgets that *)
(* getBackendById may answer null.                                           *)
MalformedLenient(r) == r.ids # {} /\ r.limit # Unset

Malformed(r) == (r.ids # {} /\ r.limit # Unset) \/ Backend(r) = NoRecord

Record(h) == [flow |-> req[h].flow, storage |-> Backend(req[h])]
Write(h, o) == [object |-> o, record |-> Record(h)]

(* Identifiers uuid() may still return.                                      *)
Unused ==
  {o \in Fresh : /\ media[o] = NoRecord
                 /\ \A h \in Handlers : o \notin ids[h]
                 /\ \A w \in strays : w.object # o}

(* The generated identifiers of the model are finite: a request that needs   *)
(* some waits outside while those before it could use them up.               *)
Awaited == {h \in Handlers : pc[h] = "flow" /\ req[h].ids = {}}
Enough(r) ==
  r.ids = {} => (Cardinality(Awaited) + 1) * DefaultLimit <= Cardinality(Unused)

Respond(h, code) ==
  /\ pc' = [pc EXCEPT ![h] = "reply"]
  /\ status' = [status EXCEPT ![h] = code]

(* The handler runs to its first await.                                      *)
Receive(h) ==
  /\ pc[h] = "idle"
  /\ \E r \in Workload[h] :
       /\ Enough(r)
       /\ req' = [req EXCEPT ![h] = r]
       /\ \/ Malformed(r) /\ Respond(h, 400)
          \/ /\ ~Malformed(r)
             /\ pc' = [pc EXCEPT ![h] = IF r.ids # {} THEN "exists" ELSE "flow"]
             /\ UNCHANGED status
  /\ UNCHANGED <<tables, clash, ids, done, strays>>

(* One of the lookups comes back; the first form keeps the last verdict only. *)
LookUpLast(h, o) ==
  /\ pc[h] = "exists"
  /\ o \in req[h].ids \ done[h]
  /\ \E found \in {media[o], mediaSeen[o]} :
       clash' = [clash EXCEPT ![h] = found # NoRecord]
  /\ done' = [done EXCEPT ![h] = @ \cup {o}]
  /\ UNCHANGED <<tables, pc, req, ids, strays, status>>

LookUp(h, o) ==
  /\ pc[h] = "exists"
  /\ o \in req[h].ids \ done[h]
  /\ \E found \in {media[o], mediaSeen[o]} :
       clash' = [clash EXCEPT ![h] = @ \/ found # NoRecord]
  /\ done' = [done EXCEPT ![h] = @ \cup {o}]
  /\ UNCHANGED <<tables, pc, req, ids, strays, status>>

ExistenceKnown(h) ==
  /\ pc[h] = "exists"
  /\ done[h] = req[h].ids
  /\ \/ clash[h] /\ Respond(h, 400)
     \/ ~clash[h] /\ pc' = [pc EXCEPT ![h] = "flow"] /\ UNCHANGED status
  /\ clash' = [clash EXCEPT ![h] = FALSE]
  /\ done' = [done EXCEPT ![h] = {}]
  /\ UNCHANGED <<tables, req, ids, strays>>

(* The objects a request will write, once its flow is found fit.             *)
Chosen(h, S) ==
  IF req[h].ids # {} THEN S = req[h].ids
  ELSE S \subseteq Unused /\ Cardinality(S) = Limit(req[h])

(* What is wrong with the flow, 0 for nothing; two ways to get it wrong.     *)
RefusalUnlocked(state) ==
  CASE state = "absent" -> 404
    [] state = "bare" -> 400
    [] OTHER -> 0

RefusalUnfound(state) ==
  CASE state = "locked" -> 403
    [] state = "bare" -> 400
    [] OTHER -> 0

Refusal(state) ==
  CASE state = "absent" -> 404
    [] state = "locked" -> 403
    [] state = "bare" -> 400
    [] OTHER -> 0

GetFlowById(h) ==
  /\ pc[h] = "flow"
  /\ \E state \in {flows[req[h].flow], flowsSeen[req[h].flow]} :
       \/ /\ Refusal(state) # 0
          /\ Respond(h, Refusal(state))
          /\ UNCHANGED ids
       \/ /\ Refusal(state) = 0 /\ Limit(req[h]) = Fractional
          /\ Respond(h, 500)   \* new Array(1.5) throws a RangeError
          /\ UNCHANGED ids
       \/ /\ Refusal(state) = 0 /\ Limit(req[h]) # Fractional
          /\ \E S \in SUBSET Objects :
               Chosen(h, S) /\ ids' = [ids EXCEPT ![h] = S]
          /\ pc' = [pc EXCEPT ![h] = "put"]
          /\ UNCHANGED status
  /\ UNCHANGED <<tables, req, clash, done, strays>>

Store(o, record) ==
  /\ media' = [media EXCEPT ![o] = record]
  /\ mediaSeen' = IF StrongReads THEN media' ELSE mediaSeen
  /\ UNCHANGED <<flows, flowsSeen>>

(* One write takes effect, for the first time or because the SDK repeats it. *)
PutMediaObject(h, o) ==
  /\ pc[h] = "put"
  /\ o \in ids[h]
  /\ Store(o, Record(h))
  /\ done' = [done EXCEPT ![h] = @ \cup {o}]
  /\ UNCHANGED <<pc, req, clash, ids, strays, status>>

(* Every write has come back; the first form waits for one of them.          *)
CreatedEarly(h) ==
  /\ pc[h] = "put"
  /\ done[h] # {}
  /\ Respond(h, 201)
  /\ done' = [done EXCEPT ![h] = {}]
  /\ UNCHANGED <<tables, req, clash, ids, strays>>

Created(h) ==
  /\ pc[h] = "put"
  /\ done[h] = ids[h]
  /\ Respond(h, 201)
  /\ done' = [done EXCEPT ![h] = {}]
  /\ UNCHANGED <<tables, req, clash, ids, strays>>

(* The writes of a request that is over may take effect later, or again; the *)
(* model follows at most MaxStrays of them.                                  *)
Stray(h) ==
  \E S \in SUBSET (IF pc[h] = "put" THEN ids[h] ELSE {}) :
    /\ strays' = strays \cup {Write(h, o) : o \in S}
    /\ S = {} \/ Cardinality(strays') <= MaxStrays

(* A call fails for good: its rejection is the answer, whatever the others do. *)
CallFails(h) ==
  /\ pc[h] \in {"exists", "flow", "put"}
  /\ Respond(h, 500)
  /\ Stray(h)
  /\ clash' = [clash EXCEPT ![h] = FALSE]
  /\ ids' = [ids EXCEPT ![h] = {}]
  /\ done' = [done EXCEPT ![h] = {}]
  /\ UNCHANGED <<tables, req>>

Leave(h) ==
  /\ pc' = [pc EXCEPT ![h] = "idle"]
  /\ req' = [req EXCEPT ![h] = NoRequest]
  /\ clash' = [clash EXCEPT ![h] = FALSE]
  /\ ids' = [ids EXCEPT ![h] = {}]
  /\ done' = [done EXCEPT ![h] = {}]
  /\ status' = [status EXCEPT ![h] = 0]
  /\ UNCHANGED tables

Answer(h) == pc[h] = "reply" /\ Leave(h) /\ UNCHANGED strays

(* The replica is stopped with the request in flight.                        *)
Crash(h) == pc[h] \in {"exists", "flow", "put"} /\ Leave(h) /\ Stray(h)

Own == <<pc, req, clash, ids, done, status>>

StrayLands(w) ==
  /\ Store(w.object, w.record)
  /\ UNCHANGED <<Own, strays>>

StrayEnds(w) ==
  /\ strays' = strays \ {w}
  /\ UNCHANGED <<tables, Own>>

(* The other routes: a flow comes, is locked, unlocked, or gets or loses its *)
(* container; no route removes one.                                          *)
ChangeFlow(f) ==
  /\ \E state \in FlowStates \ {"absent", flows[f]} :
       flows' = [flows EXCEPT ![f] = state]
  /\ flowsSeen' = IF StrongReads THEN flows' ELSE flowsSeen
  /\ UNCHANGED <<media, mediaSeen, Own, strays>>

ReplicateFlow(f) ==
  /\ flowsSeen[f] # flows[f]
  /\ flowsSeen' = [flowsSeen EXCEPT ![f] = flows[f]]
  /\ UNCHANGED <<flows, media, mediaSeen, Own, strays>>

ReplicateMedia(o) ==
  /\ mediaSeen[o] # media[o]
  /\ mediaSeen' = [mediaSeen EXCEPT ![o] = media[o]]
  /\ UNCHANGED <<flows, flowsSeen, media, Own, strays>>

------------------------------------------------------------------------------
Calls(h) ==
  \/ \E o \in Names : LookUp(h, o)
  \/ ExistenceKnown(h) \/ GetFlowById(h)
  \/ \E o \in Objects : PutMediaObject(h, o)
  \/ Created(h)

Handler(h) == Receive(h) \/ Calls(h) \/ CallFails(h) \/ Answer(h) \/ Crash(h)

Next ==
  \/ \E h \in Handlers : Handler(h)
  \/ \E w \in strays : StrayLands(w) \/ StrayEnds(w)
  \/ \E f \in Flows : ChangeFlow(f) \/ ReplicateFlow(f)
  \/ \E o \in Objects : ReplicateMedia(o)

Spec == Init /\ [][Next]_vars
------------------------------------------------------------------------------
TypeOK ==
  /\ flows \in [Flows -> FlowStates]
  /\ flowsSeen \in [Flows -> FlowStates]
  /\ media \in [Objects -> Records \cup {NoRecord}]
  /\ mediaSeen \in [Objects -> Records \cup {NoRecord}]
  /\ pc \in [Handlers -> {"idle", "exists", "flow", "put", "reply"}]
  /\ req \in [Handlers -> Requests \cup {NoRequest}]
  /\ clash \in [Handlers -> BOOLEAN]
  /\ ids \in [Handlers -> SUBSET Objects]
  /\ done \in [Handlers -> SUBSET Objects]
  /\ strays \subseteq [object : Objects, record : Records]
  /\ status \in [Handlers -> {0, 201, 400, 403, 404, 500}]
  /\ \A h \in Handlers :
       /\ pc[h] # "idle" => req[h] \in Workload[h]
       /\ pc[h] \in {"exists", "flow", "put"} => Backend(req[h]) \in Backends
       /\ pc[h] = "exists" => done[h] \subseteq req[h].ids
       /\ pc[h] \in {"idle", "flow", "reply"} => done[h] = {}
       /\ pc[h] = "put" => done[h] \subseteq ids[h]
       /\ status[h] # 0 <=> pc[h] = "reply"

(* Every media object belongs to a flow that exists: the flow is fetched     *)
(* long before the records are written, from a copy that may lag, by a       *)
(* handler that may be gone when they land.                                  *)
NoOrphan == \A o \in Objects : media[o] # NoRecord => flows[media[o].flow] # "absent"

(* A client told 201 has all its objects recorded, and those whose           *)
(* identifiers the service generated are recorded as its own, whatever other *)
(* requests and strays have written meanwhile.                               *)
CreatedRecorded ==
  \A h \in Handlers : status[h] = 201 =>
    \A o \in ids[h] :
      /\ media[o] # NoRecord
      /\ o \in Fresh => media[o] = Record(h)

(* Request h has got past the existence check of o, or may yet.              *)
Contends(h, o) ==
  \/ pc[h] = "exists" /\ o \in done[h] /\ ~clash[h]
  \/ pc[h] = "flow" /\ o \in req[h].ids
  \/ pc[h] = "put" /\ o \in ids[h]

Settled(o) ==
  /\ media[o] # NoRecord
  /\ mediaSeen[o] = media[o]
  /\ \A w \in strays : w.object # o
  /\ \A h \in Handlers : ~Contends(h, o)

(* "Some or all object ids already exists": the check and the writes are not *)
(* one step, and two requests for one name may both be told 201.  What the   *)
(* check does achieve: once the contenders and the strays of an object are   *)
(* gone and the copies agree, no request ever takes the object over.         *)
RecordFinal ==
  [][\A o \in Objects : Settled(o) => Settled(o)' /\ media'[o] = media[o]]_vars

Recorded(o) == media[o] # NoRecord /\ mediaSeen[o] # NoRecord

(* A lookup has found one of the names recorded, or is still to find it.     *)
Doomed(h) ==
  /\ pc[h] = "exists"
  /\ clash[h] \/ \E o \in req[h].ids \ done[h] : Recorded(o)

(* A request that has failed half way leaves some of its objects recorded.   *)
(* Whoever asks for one of them again, with whatever other names and however *)
(* the lookups come back, gets no upload URL: 400, or 500 if a call fails.   *)
RetryRefused ==
  [][\A h \in Handlers : Doomed(h) =>
       \/ Doomed(h)' /\ req'[h] = req[h]
       \/ pc'[h] = "reply" /\ status'[h] \in {400, 500}
       \/ pc'[h] = "idle"]_vars

Closed(f) ==
  /\ flows[f] = "locked"
  /\ flowsSeen[f] = "locked"
  /\ \A h \in Handlers : pc[h] = "put" => req[h].flow # f
  /\ \A w \in strays : w.record.flow # f

(* A read-only flow gets no new media object once the requests that found it *)
(* writable are over, their strays have landed and the copies agree, for as  *)
(* long as it stays read-only.                                               *)
LockHolds ==
  [][\A f \in Flows : Closed(f) /\ flows'[f] = "locked" =>
       /\ Closed(f)'
       /\ \A o \in Objects : media'[o] # media[o] => media'[o].flow # f]_vars
=============================================================================
