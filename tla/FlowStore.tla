------------------------------ MODULE FlowStore ------------------------------
(* The flow routes of the TAMS service (service/src/routes/flows*.ts) over   *)
(* the DynamoDB repository (service/src/repository/dynamodb/flows.ts).       *)
(*                                                                           *)
(* A handler is one HTTP request being served by one of the service's        *)
(* replicas.  It runs from one await to the next: it asks for the item,      *)
(* checks what came back and changes the object it holds, sends the whole    *)
(* object to the table, and answers.  Between two awaits any other handler   *)
(* may run.  The table is DynamoDB: GetItem without ConsistentRead may be    *)
(* answered from a copy that lags behind, PutItem carries no condition, and  *)
(* the SDK sends again a PutItem whose answer it did not get; one given up   *)
(* on may still take effect after its request is over.                       *)
EXTENDS FlowData, Integers, FiniteSets

CONSTANTS
  StrongReads, \* TRUE where a write reaches every copy of the item at once
  MaxStrays    \* bound on the writes followed after their request is over

VARIABLES
  table,   \* flow -> item or NoFlow: the items DynamoDB has accepted
  lagging, \* flow -> item or NoFlow: the copy an eventually consistent read finds
  pc,      \* handler -> where it waits
  req,     \* handler -> the request it serves
  local,   \* handler -> the flow object it holds
  stored,  \* handler -> whether its PutItem has reached the table
  strays,  \* PutItems on their way for requests that are over
  status   \* handler -> the HTTP status it answers with, 0 until it is known

Own == <<pc, req, local, stored, status>>
vars == <<table, lagging, strays, Own>>

ASSUME StoreAssumption == StrongReads \in BOOLEAN /\ MaxStrays \in Nat

Stages == {"idle", "get", "check", "put", "reply"}
Codes == {0, 200, 204, 400, 403, 404, 500}

Init ==
  /\ table = [f \in Flows |-> NoFlow]
  /\ lagging = [f \in Flows |-> NoFlow]
  /\ pc = [h \in Handlers |-> "idle"]
  /\ req = [h \in Handlers |-> NoRequest]
  /\ local = [h \in Handlers |-> NoFlow]
  /\ stored = [h \in Handlers |-> FALSE]
  /\ strays = {}
  /\ status = [h \in Handlers |-> 0]

------------------------------------------------------------------------------
(* The repository.                                                           *)

Receive(h) ==
  /\ pc[h] = "idle"
  /\ \E r \in Workload[h] : req' = [req EXCEPT ![h] = r]
  /\ pc' = [pc EXCEPT ![h] = "get"]
  /\ UNCHANGED <<table, lagging, strays, local, stored, status>>

Reply(h, code) ==
  /\ pc' = [pc EXCEPT ![h] = "reply"]
  /\ status' = [status EXCEPT ![h] = code]
  /\ UNCHANGED <<table, lagging, req, local, stored>>

Respond(h, code) == Reply(h, code) /\ UNCHANGED strays

(* GetItem without ConsistentRead is answered from either copy; putFlow has  *)
(* compared the two identifiers before it asks for anything.                 *)
GetFlowById(h) ==
  /\ pc[h] = "get"
  /\ ~Mismatched(req[h])
  /\ \E item \in {table[req[h].flow], lagging[req[h].flow]} :
        local' = [local EXCEPT ![h] = item]
  /\ pc' = [pc EXCEPT ![h] = "check"]
  /\ UNCHANGED <<table, lagging, strays, req, stored, status>>

(* A write is the request it is made for and the item it puts.               *)
Write(h) == [req |-> req[h], item |-> local[h]]

Store(w) ==
  /\ table' = [table EXCEPT ![w.req.flow] = w.item]
  /\ lagging' = IF StrongReads THEN table' ELSE lagging

(* PutItem takes effect, for the first time or because the SDK repeats it.   *)
PutItem(h) ==
  /\ pc[h] = "put"
  /\ Store(Write(h))
  /\ stored' = [stored EXCEPT ![h] = TRUE]
  /\ UNCHANGED <<strays, pc, req, local, status>>

Acknowledge(h) ==
  /\ pc[h] = "put"
  /\ stored[h]
  /\ Respond(h, IF req[h].op = "putFlow" THEN 200 ELSE 204)

(* The PutItem of a request that is over may take effect later, or again; at *)
(* most MaxStrays of them are followed.                                      *)
Stray(h) ==
  \/ UNCHANGED strays
  \/ /\ pc[h] = "put"
     /\ Cardinality(strays) < MaxStrays
     /\ strays' = strays \cup {Write(h)}

StrayLands(w) == Store(w) /\ UNCHANGED <<strays, Own>>
StrayEnds(w) == strays' = strays \ {w} /\ UNCHANGED <<table, lagging, Own>>

(* A call to DynamoDB that fails for good: a PutItem may have taken effect,  *)
(* or may yet.                                                               *)
CallFails(h) == pc[h] \in {"get", "put"} /\ Reply(h, 500) /\ Stray(h)

Replicate(f) ==
  /\ lagging[f] # table[f]
  /\ lagging' = [lagging EXCEPT ![f] = table[f]]
  /\ UNCHANGED <<table, strays, Own>>

(* The answer is sent, or the replica is stopped with the request in flight. *)
Leave(h) ==
  /\ pc' = [pc EXCEPT ![h] = "idle"]
  /\ req' = [req EXCEPT ![h] = NoRequest]
  /\ local' = [local EXCEPT ![h] = NoFlow]
  /\ stored' = [stored EXCEPT ![h] = FALSE]
  /\ status' = [status EXCEPT ![h] = 0]
  /\ UNCHANGED <<table, lagging>>

Answer(h) == pc[h] = "reply" /\ Leave(h) /\ UNCHANGED strays
Crash(h) == pc[h] \in {"get", "check", "put"} /\ Leave(h) /\ Stray(h)

------------------------------------------------------------------------------
(* The handlers, from the answer of getFlowById to their next await.         *)

Send(h, item) ==
  /\ local' = [local EXCEPT ![h] = item]
  /\ pc' = [pc EXCEPT ![h] = "put"]
  /\ UNCHANGED <<table, lagging, strays, req, stored, status>>

Checks(h, op) == pc[h] = "check" /\ req[h].op = op

(* Every handler that writes dates the change by the clock of its replica.   *)
Edited(item, attr, value, now) ==
  [item EXCEPT !.attrs[attr] = value, !.metadataUpdated = now]

Flagged(item, flag, now) == [item EXCEPT !.readOnly = flag, !.metadataUpdated = now]

SendEdited(h, attr, value) ==
  \E now \in Times : Send(h, Edited(local[h], attr, value, now))

(* Three ways to get the checks below wrong: to overlook the lock, to store  *)
(* a flow that was not found, and to return without an answer.               *)
EditUnlocked(h, op, attr, value) ==
  /\ Checks(h, op)
  /\ req[h].attr = attr
  /\ \/ local[h] = NoFlow /\ Respond(h, 404)
     \/ /\ local[h] # NoFlow
        /\ SendEdited(h, attr, value)

EditUpsert(h, op, attr, value) ==
  /\ Checks(h, op)
  /\ req[h].attr = attr
  /\ \/ Locked(local[h]) /\ Respond(h, 403)
     \/ \E now \in Times :
          /\ local[h] = NoFlow
          /\ Send(h, [readOnly |-> "undefined", created |-> now, metadataUpdated |-> now,
                      attrs |-> [[a \in Attrs |-> Undefined] EXCEPT ![attr] = value]])
     \/ /\ local[h] # NoFlow
        /\ ~Locked(local[h])
        /\ SendEdited(h, attr, value)

EditSilent(h, op, attr, value) ==
  /\ Checks(h, op)
  /\ req[h].attr = attr
  /\ \/ local[h] = NoFlow /\ Respond(h, 404)
     \/ /\ local[h] # NoFlow
        /\ ~Locked(local[h])
        /\ SendEdited(h, attr, value)

(* The handlers of the routes below a flow share their checks.               *)
Edit(h, op, attr, value) ==
  /\ Checks(h, op)
  /\ req[h].attr = attr
  /\ \/ local[h] = NoFlow /\ Respond(h, 404)
     \/ Locked(local[h]) /\ Respond(h, 403)
     \/ /\ local[h] # NoFlow
        /\ ~Locked(local[h])
        /\ SendEdited(h, attr, value)

PutFlowLabel(h) == Edit(h, "put", "label", req[h].value)
DeleteFlowLabel(h) == Edit(h, "delete", "label", Undefined)
PutFlowDescription(h) == Edit(h, "put", "description", req[h].value)
DeleteFlowDescription(h) == Edit(h, "delete", "description", Undefined)
PutFlowAvgBitRate(h) == Edit(h, "put", "avg_bit_rate", req[h].value)
DeleteFlowAvgBitRate(h) == Edit(h, "delete", "avg_bit_rate", Undefined)
PutFlowMaxBitRate(h) == Edit(h, "put", "max_bit_rate", req[h].value)
DeleteFlowMaxBitRate(h) == Edit(h, "delete", "max_bit_rate", Undefined)
PutFlowFlowCollection(h) ==
  Edit(h, "put", "flow_collection",
       IF req[h].value = Empty THEN Undefined ELSE req[h].value)
DeleteFlowFlowCollection(h) == Edit(h, "delete", "flow_collection", Undefined)
PutFlowTag(h) == \E t \in Tags : Edit(h, "put", t, req[h].value)

DeleteFlowTag(h) ==
  \E t \in Tags :
    IF local[h] # NoFlow /\ ~Locked(local[h]) /\ local[h].attrs[t] = Undefined
    THEN Checks(h, "delete") /\ req[h].attr = t /\ Respond(h, 404)
    ELSE Edit(h, "delete", t, Undefined)

PutFlowReadOnly(h) ==
  /\ Checks(h, "putReadOnly")
  /\ \/ local[h] = NoFlow /\ Respond(h, 404)
     \/ /\ local[h] # NoFlow
        /\ \E now \in Times :
             Send(h, Flagged(local[h], IF req[h].readOnly THEN "true" ELSE "undefined", now))

(* Two ways to get putFlow wrong: to let a body without read_only pass for   *)
(* one that lifts the lock, and to lose the date of a flow that exists.      *)
PutFlowLenient(h) ==
  /\ Checks(h, "putFlow")
  /\ LET body == req[h].body
     IN \/ Locked(local[h]) /\ body.readOnly = "true" /\ Respond(h, 403)
        \/ /\ ~(Locked(local[h]) /\ body.readOnly = "true")
           /\ \E now \in Times :
                Send(h, [readOnly |-> body.readOnly, attrs |-> body.attrs,
                         metadataUpdated |-> now,
                         created |-> IF local[h] = NoFlow THEN now
                                     ELSE local[h].created])

PutFlowUndated(h) ==
  /\ Checks(h, "putFlow")
  /\ LET body == req[h].body
     IN \/ /\ Locked(local[h]) /\ body.readOnly \in {"true", "undefined"}
           /\ Respond(h, 403)
        \/ /\ ~(Locked(local[h]) /\ body.readOnly \in {"true", "undefined"})
           /\ \E now \in Times :
                Send(h, [readOnly |-> body.readOnly, attrs |-> body.attrs,
                         metadataUpdated |-> now,
                         created |-> IF local[h] = NoFlow THEN now ELSE Undefined])

PutFlow(h) ==
  /\ Checks(h, "putFlow")
  /\ LET body == req[h].body
     IN \/ /\ Locked(local[h]) /\ body.readOnly \in {"true", "undefined"}
           /\ Respond(h, 403)
        \/ /\ ~(Locked(local[h]) /\ body.readOnly \in {"true", "undefined"})
           /\ \E now \in Times :
                Send(h, [readOnly |-> body.readOnly, attrs |-> body.attrs,
                         metadataUpdated |-> now,
                         created |-> IF local[h] = NoFlow THEN now
                                     ELSE local[h].created])

RejectMismatch(h) ==
  pc[h] = "get" /\ Mismatched(req[h]) /\ Respond(h, 400)

(* The read routes; the one of a tag also misses when the tag is not set.    *)
(* The document may have no tags member at all, which the response validator *)
(* of the route that reads them all refuses.                                 *)
GetFlow(h) ==
  /\ Checks(h, "get")
  /\ LET asked == req[h].attr
         unset(t) == local[h].attrs[t] = Undefined
         found == local[h] # NoFlow /\ (asked \in Tags => ~unset(asked))
     IN \/ Respond(h, IF found THEN 200 ELSE 404)
        \/ found /\ asked = "tags" /\ (\A t \in Tags : unset(t)) /\ Respond(h, 500)

------------------------------------------------------------------------------
EditHandler(h) ==
  \/ PutFlowLabel(h) \/ DeleteFlowLabel(h)
  \/ PutFlowDescription(h) \/ DeleteFlowDescription(h)
  \/ PutFlowAvgBitRate(h) \/ DeleteFlowAvgBitRate(h)
  \/ PutFlowMaxBitRate(h) \/ DeleteFlowMaxBitRate(h)
  \/ PutFlowFlowCollection(h) \/ DeleteFlowFlowCollection(h)
  \/ PutFlowTag(h) \/ DeleteFlowTag(h)

Check(h) == EditHandler(h) \/ PutFlowReadOnly(h) \/ PutFlow(h) \/ GetFlow(h)

Database(h) == GetFlowById(h) \/ PutItem(h) \/ Acknowledge(h) \/ CallFails(h)

Next ==
  \/ \E h \in Handlers :
       \/ Receive(h) \/ RejectMismatch(h) \/ Check(h) \/ Database(h)
       \/ Answer(h) \/ Crash(h)
  \/ \E w \in strays : StrayLands(w) \/ StrayEnds(w)
  \/ \E f \in Flows : Replicate(f)

Spec == Init /\ [][Next]_vars

(* Node resumes a handler whose await is over, the SDK gives up in the end,  *)
(* and a copy that lags catches up.                                          *)
Fairness ==
  /\ \A h \in Handlers :
       /\ WF_vars(RejectMismatch(h) \/ Check(h) \/ Answer(h))
       /\ WF_vars(GetFlowById(h))
       /\ WF_vars(PutItem(h))
       /\ WF_vars(Acknowledge(h))
  /\ \A f \in Flows : WF_vars(Replicate(f))

FairSpec == Spec /\ Fairness
------------------------------------------------------------------------------
TypeOK ==
  /\ table \in [Flows -> Items \cup {NoFlow}]
  /\ lagging \in [Flows -> Items \cup {NoFlow}]
  /\ pc \in [Handlers -> Stages]
  /\ req \in [Handlers -> Requests \cup {NoRequest}]
  /\ local \in [Handlers -> Items \cup {NoFlow}]
  /\ stored \in [Handlers -> BOOLEAN]
  /\ strays \subseteq [req : Requests, item : Items]
  /\ status \in [Handlers -> Codes]
  /\ \A h \in Handlers :
       /\ pc[h] # "idle" => req[h] \in Workload[h]
       /\ pc[h] = "put" => local[h] # NoFlow
       /\ stored[h] => pc[h] \in {"put", "reply"}

(* Every field of a flow but metadataUpdated, which each write sets anew.    *)
Fields == Attrs \cup {"created", "readOnly"}

Field(item, x) ==
  CASE x = "created" -> item.created
    [] x = "readOnly" -> item.readOnly
    [] OTHER -> item.attrs[x]

Like(a, b) == a # NoFlow /\ b # NoFlow /\ \A x \in Fields : Field(a, x) = Field(b, x)

(* The PutItems that are out, of handlers that wait for theirs and of        *)
(* requests that are over, and the step in which one takes effect.           *)
Waiting == {h \in Handlers : pc[h] = "put"}
Writes == {Write(h) : h \in Waiting} \cup strays

Lands(w) ==
  \/ \E h \in Waiting : w = Write(h) /\ PutItem(h)
  \/ w \in strays /\ StrayLands(w)

Holders(f) == {h \in Handlers : pc[h] = "check" /\ req[h].flow = f}

(* Flow f is sealed: it is read-only, the lagging copy agrees, and every     *)
(* request past its read holds that very flow, unless it lifts the lock.     *)
Sealed(f) ==
  /\ Locked(table[f])
  /\ Like(lagging[f], table[f])
  /\ \A h \in Holders(f) : Like(local[h], table[f])
  /\ \A w \in Writes : w.req.flow = f => Unlocks(w.req) \/ Like(w.item, table[f])

(* A write to f that lifts the lock takes effect, or one that asks for it.   *)
UnlockStored(f) == \E w \in Writes : w.req.flow = f /\ Unlocks(w.req) /\ Lands(w)
LockStored(f) == \E w \in Writes : w.req.flow = f /\ Locks(w.req) /\ Lands(w)

(* Once a read-only flow has no straggler left (no request that read it      *)
(* before it was locked, no write of one that is over, no copy that still    *)
(* lacks the lock), no edit, replacement, repeated PutItem, failure or crash *)
(* changes it, until a request that lifts the lock is stored; a second lock  *)
(* moves its metadata_updated and nothing else.  This is what the            *)
(* "readOnly === true" checks of all the handlers achieve together.          *)
SealHolds ==
  [][\A f \in Flows : Sealed(f) /\ ~UnlockStored(f) =>
       /\ Sealed(f)'
       /\ Like(table'[f], table[f])
       /\ table'[f] = table[f] \/ LockStored(f)]_vars

(* The fields a request may leave other than it found them in a flow that    *)
(* exists.                                                                   *)
Sets(r, x) ==
  \/ r.op = "putFlow" /\ x # "created"
  \/ r.op = "putReadOnly" /\ x = "readOnly"
  \/ r.op \in {"put", "delete"} /\ x = r.attr

(* Field x of flow f is settled: the copies, the requests past their read    *)
(* and the writes that are out agree on it, but for writes that set it.      *)
Settled(f, x) ==
  LET Same(item) == item # NoFlow /\ Field(item, x) = Field(table[f], x)
  IN /\ table[f] # NoFlow
     /\ Same(lagging[f])
     /\ \A h \in Holders(f) : Same(local[h])
     /\ \A w \in Writes : w.req.flow = f => Sets(w.req, x) \/ Same(w.item)

(* A write that sets field x of flow f takes effect.                         *)
Overwritten(f, x) == \E w \in Writes : w.req.flow = f /\ Sets(w.req, x) /\ Lands(w)

(* A handler writes the whole flow it has read, so a tag, a label, the lock  *)
(* or the creation date may be overwritten by a request about another field. *)
(* What the handlers do achieve: a settled field keeps its value, whatever   *)
(* requests about the others overlap, fail, repeat or land late, until a     *)
(* write that sets that field takes effect; and none ever sets the creation  *)
(* date again.                                                               *)
SettledStays ==
  [][\A f \in Flows, x \in Fields :
       Settled(f, x) /\ ~Overwritten(f, x) =>
         Settled(f, x)' /\ Field(table'[f], x) = Field(table[f], x)]_vars

(* A flow comes into being by PUT /flows/:flowId alone: whatever the copies  *)
(* and the interleaving, an edit never stores a flow that is not in the      *)
(* table, and no flow ever leaves it.                                        *)
OnlyPutFlowCreates ==
  [][\A f \in Flows :
       /\ table[f] # NoFlow => table'[f] # NoFlow
       /\ table[f] = NoFlow /\ table'[f] # NoFlow =>
            \E w \in Writes : w.req.flow = f /\ w.req.op = "putFlow" /\ Lands(w)]_vars

(* Every request that arrives is answered, or its replica stops: no check    *)
(* leaves a handler waiting, whatever it finds.                              *)
EveryRequestAnswered == \A h \in Handlers : pc[h] = "get" ~> pc[h] = "idle"

(* What the comment "protect readonly flow" of putFlow and the checks of the *)
(* other handlers say: a read-only flow is only changed by a request that    *)
(* lifts the lock.  Two requests in flight are enough to break it.           *)
ReadOnlyProtected ==
  [][\A f \in Flows :
       Locked(table[f]) /\ ~UnlockStored(f) => Like(table'[f], table[f])]_vars

(* The atomic routes of FlowApi: a request is done once its PutItem has      *)
(* taken effect, or once its answer is known.                                *)
Phase == [h \in Handlers |->
  CASE pc[h] = "idle" -> "idle"
    [] pc[h] = "reply" \/ stored[h] -> "done"
    [] OTHER -> "pending"]

Answered == [h \in Handlers |->
  IF pc[h] = "put" /\ stored[h]
  THEN IF req[h].op = "putFlow" THEN 200 ELSE 204
  ELSE status[h]]

Api == INSTANCE FlowApi WITH flows <- table, phase <- Phase, call <- req, answer <- Answered

(* Where reads are strong, no two requests about a flow overlap and no write *)
(* outlives its request, the fetch, the check and the store of a handler are *)
(* one atomic request: a refusal is for a reason that holds, an accepted     *)
(* write is the one asked for, on the flow as it was, and a repeated PutItem *)
(* is not seen.                                                              *)
ApiSpec == Api!Spec
=============================================================================
