------------------------------- MODULE FlowApi -------------------------------
(* What the flow routes promise their clients: every request takes effect at *)
(* one instant between its arrival and its answer, a read-only flow is left  *)
(* alone by all but the requests that lift the lock, and the creation date   *)
(* of a flow is fixed once and for all.  How the flow is fetched, checked    *)
(* and stored is not said here.                                              *)
EXTENDS FlowData, Integers

VARIABLES
  flows,   \* flow -> item or NoFlow
  phase,   \* handler -> "idle", "pending" or "done"
  call,    \* handler -> request or NoRequest
  answer   \* handler -> HTTP status, 0 while there is none

vars == <<flows, phase, call, answer>>

Init ==
  /\ flows = [f \in Flows |-> NoFlow]
  /\ phase = [h \in Handlers |-> "idle"]
  /\ call = [h \in Handlers |-> NoRequest]
  /\ answer = [h \in Handlers |-> 0]

Receive(h) ==
  /\ phase[h] = "idle"
  /\ \E r \in Workload[h] : call' = [call EXCEPT ![h] = r]
  /\ phase' = [phase EXCEPT ![h] = "pending"]
  /\ UNCHANGED <<flows, answer>>

(* The requests that ask for a change of the flow's contents.                *)
Edits(r) == r.op \in {"put", "delete"}

(* The value an edit asks for: an empty collection is no collection.         *)
Wanted(r) ==
  IF r.op = "delete" \/ (r.attr = "flow_collection" /\ r.value = Empty)
  THEN Undefined ELSE r.value

(* A read-only flow refuses edits, and replacements that keep it read-only.  *)
Protected(item, r) ==
  /\ Locked(item)
  /\ Edits(r) \/ (r.op = "putFlow" /\ ~Unlocks(r))

(* A tag that is not set can be neither read nor removed.                    *)
Missing(item, r) ==
  /\ r.op \in {"delete", "get"}
  /\ r.attr \in Tags
  /\ item.attrs[r.attr] = Undefined

(* Whether request r may leave new behind where it finds item.               *)
Outcome(r, item, new) ==
  /\ new \in Items
  /\ item # NoFlow => new.created = item.created
  /\ r.op = "putFlow" => new.attrs = r.body.attrs /\ new.readOnly = r.body.readOnly
  /\ r.op = "putReadOnly" => new.attrs = item.attrs /\ (Locked(new) <=> r.readOnly)
  /\ Edits(r) =>
       /\ new.readOnly = item.readOnly
       /\ \A a \in Attrs \ {r.attr} : new.attrs[a] = item.attrs[a]
       /\ new.attrs[r.attr] = Wanted(r)

Finish(h, code) ==
  /\ phase' = [phase EXCEPT ![h] = "done"]
  /\ answer' = [answer EXCEPT ![h] = code]
  /\ UNCHANGED call

Execute(h) ==
  /\ phase[h] = "pending"
  /\ LET r == call[h]
         item == flows[r.flow]
     IN /\ r.op # "get"
        /\ item = NoFlow => r.op = "putFlow"
        /\ ~Mismatched(r) /\ ~Protected(item, r) /\ ~Missing(item, r)
        /\ Outcome(r, item, flows'[r.flow])
        /\ flows' = [flows EXCEPT ![r.flow] = flows'[r.flow]]
        /\ Finish(h, IF r.op = "putFlow" THEN 200 ELSE 204)

Refuse(h) ==
  /\ phase[h] = "pending"
  /\ LET r == call[h]
         item == flows[r.flow]
     IN \/ Mismatched(r) /\ Finish(h, 400)
        \/ Protected(item, r) /\ Finish(h, 403)
        \/ item = NoFlow /\ r.op # "putFlow" /\ Finish(h, 404)
        \/ item # NoFlow /\ Missing(item, r) /\ Finish(h, 404)
  /\ UNCHANGED flows

Read(h) ==
  /\ phase[h] = "pending"
  /\ LET r == call[h]
         item == flows[r.flow]
     IN r.op = "get" /\ item # NoFlow /\ ~Missing(item, r)
  /\ Finish(h, 200)
  /\ UNCHANGED flows

(* The client of a failed request cannot tell whether it took effect.        *)
Fail(h) == phase[h] # "idle" /\ Finish(h, 500) /\ UNCHANGED flows

(* The answer is sent, or the replica goes away.                             *)
Leave(h) ==
  /\ phase[h] # "idle"
  /\ phase' = [phase EXCEPT ![h] = "idle"]
  /\ call' = [call EXCEPT ![h] = NoRequest]
  /\ answer' = [answer EXCEPT ![h] = 0]
  /\ UNCHANGED flows

Next == \E h \in Handlers :
  Receive(h) \/ Execute(h) \/ Refuse(h) \/ Read(h) \/ Fail(h) \/ Leave(h)

Spec == Init /\ [][Next]_vars
=============================================================================
