-------------------------- MODULE SourceStoreProofs --------------------------
(* Proofs about SourceStore, for any sources, handlers, tags, values, dates  *)
(* and workload.                                                             *)
EXTENDS SourceStore, TLAPS

------------------------------------------------------------------------------
(* The data.                                                                 *)

(* What a request carries, by its kind.                                      *)
LEMMA RequestShape ==
  ASSUME NEW r \in Requests
  PROVE  /\ r # NoRequest
         /\ r.source \in Sources
         /\ r.op \in {"put", "delete", "get"}
         /\ r.op = "put" => r.attr \in Attrs /\ r.value \in Values
         /\ r.op = "delete" => r.attr \in Attrs
BY SourceAssumption DEF Requests

(* A handler that waits for something serves a request of its workload.      *)
LEMMA Serving ==
  ASSUME TypeOK, NEW h \in Handlers, pc[h] # "idle"
  PROVE  req[h] \in Requests
BY SourceAssumption DEF TypeOK

(* An edit changes the attribute it names, and keeps the rest.               *)
LEMMA EditedItem ==
  ASSUME NEW item \in Items, NEW r \in Requests, r.op # "get"
  PROVE  /\ Edited(item, r) \in Items
         /\ Edited(item, r).rest = item.rest
         /\ Edited(item, r).created = item.created
         /\ \A a \in Attrs \ {r.attr} : Edited(item, r).attrs[a] = item.attrs[a]
<1>. DEFINE value == IF r.op = "put" THEN r.value ELSE Undefined
<1>1. r.attr \in Attrs /\ value \in Values \cup {Undefined}
  BY RequestShape
<1>2. Edited(item, r) = [item EXCEPT !.attrs[r.attr] = value]
  BY DEF Edited
<1>. HIDE DEF value
<1>3. QED
  BY <1>1, <1>2 DEF Items

(* The dates that whole seconds do not tell apart.                           *)
Whole(date) == IF date = Undefined THEN Undefined ELSE date - (date % 2)

LEMMA WholeDate ==
  ASSUME NEW date \in Times \cup {Undefined}
  PROVE  Whole(date) \in Times \cup {Undefined} /\ Whole(Whole(date)) = Whole(date)
<1>1. CASE date = Undefined
  BY <1>1 DEF Whole
<1>2. CASE date \in Times
  <2>1. date \in Int /\ date # Undefined /\ Whole(date) = date - (date % 2)
    BY <1>2, SourceAssumption DEF Whole
  <2>2. Whole(date) \in Times /\ Whole(date) # Undefined
    BY <1>2, <2>1, SourceAssumption
  <2>3. (date - (date % 2)) % 2 = 0
    BY <2>1
  <2>4. Whole(Whole(date)) = Whole(date) - (Whole(date) % 2)
    BY <2>2 DEF Whole
  <2>5. QED
    BY <2>1, <2>2, <2>3, <2>4
<1>3. QED
  BY <1>1, <1>2

LEMMA RecordItem ==
  ASSUME NEW item \in Items
  PROVE  /\ SourceToRecord(item) \in Items
         /\ SourceToRecord(item).attrs = item.attrs
         /\ SourceToRecord(item).rest = item.rest
         /\ SourceToRecord(item).created = Whole(item.created)
BY WholeDate DEF SourceToRecord, Items, Whole

------------------------------------------------------------------------------
(* Types.                                                                    *)

(* What a handler does once it has its answer.                               *)
LEMMA CheckForm ==
  ASSUME TypeOK, NEW h \in Handlers, Check(h)
  PROVE  /\ pc[h] = "check"
         /\ \/ \E code \in {200, 404} : Respond(h, code)
            \/ req[h].op # "get" /\ local[h] \in Items /\ Change(h)
BY DEF TypeOK, Check, Checks, PutSourceAttr, DeleteSourceField, DeleteSourceTag,
       GetSource, Missing

(* What is on its way is a request and a record, also of a request just over. *)
LEMMA WriteType ==
  ASSUME TypeOK, NEW h \in Handlers, pc[h] = "put"
  PROVE  Write(h) \in [req : Requests, item : Items]
BY Serving, RecordItem DEF TypeOK, Write

LEMMA WriteShape ==
  ASSUME TypeOK
  PROVE  \A w \in Writes : /\ w.req \in Requests /\ w.req.source \in Sources
                           /\ w.item \in Items /\ w.item # NoSource
<1>1. \A w \in Writes : w \in [req : Requests, item : Items]
  BY WriteType DEF TypeOK, Writes, Waiting
<1>2. QED
  BY <1>1, RequestShape, SourceAssumption

LEMMA InitType == Init => TypeOK
BY SourceAssumption DEF Init, TypeOK

LEMMA ReplyType ==
  ASSUME TypeOK, NEW h \in Handlers, pc[h] # "idle", NEW code \in {200, 204, 404, 500},
         Reply(h, code), strays' \subseteq [req : Requests, item : Items]
  PROVE  TypeOK'
BY DEF TypeOK, Reply

LEMMA NextType == TypeOK /\ [Next]_vars => TypeOK'
<1> SUFFICES ASSUME TypeOK, [Next]_vars PROVE TypeOK'
  OBVIOUS
<1>1. ASSUME NEW h \in Handlers, Receive(h) PROVE TypeOK'
  <2>1. PICK r \in Workload[h] : req' = [req EXCEPT ![h] = r]
    BY <1>1 DEF Receive
  <2>2. r \in Requests
    BY SourceAssumption
  <2>3. QED
    BY <1>1, <2>1, <2>2 DEF Receive, TypeOK
<1>2. ASSUME NEW h \in Handlers, GetSourceById(h) PROVE TypeOK'
  <2>1. req[h].source \in Sources
    BY <1>2, Serving, RequestShape DEF GetSourceById
  <2>2. PICK item \in {table[req[h].source], lagging[req[h].source]} :
          local' = [local EXCEPT ![h] = item]
    BY <1>2 DEF GetSourceById, RecordToSource
  <2>3. item \in Items \cup {NoSource}
    BY <2>1 DEF TypeOK
  <2>4. QED
    BY <1>2, <2>2, <2>3 DEF GetSourceById, TypeOK
<1>3. ASSUME NEW h \in Handlers, Check(h) PROVE TypeOK'
  <2>1. CASE \E code \in {200, 404} : Respond(h, code)
    <3>1. pc[h] # "idle"
      BY <1>3, CheckForm
    <3>2. QED
      BY <2>1, <3>1, ReplyType DEF Respond, TypeOK
  <2>2. CASE req[h].op # "get" /\ local[h] \in Items /\ Change(h)
    <3>1. pc[h] = "check" /\ req[h] \in Requests
      BY <1>3, CheckForm, Serving
    <3>2. Edited(local[h], req[h]) \in Items
      BY <2>2, <3>1, EditedItem
    <3>3. QED
      BY <2>2, <3>1, <3>2, SourceAssumption DEF Change, TypeOK
  <2>3. QED
    BY <1>3, <2>1, <2>2, CheckForm
<1>4. ASSUME NEW w \in Writes, Store(w)
      PROVE  table' \in [Sources -> Items \cup {NoSource}] /\ lagging' = lagging
  BY <1>4, WriteShape DEF Store, TypeOK
<1>5. ASSUME NEW h \in Handlers, PutSource(h) PROVE TypeOK'
  <2>1. Write(h) \in Writes /\ Store(Write(h))
    BY <1>5 DEF PutSource, Writes, Waiting
  <2>2. QED
    BY <1>4, <1>5, <2>1 DEF PutSource, TypeOK
<1>6. ASSUME NEW w \in strays, StrayLands(w) PROVE TypeOK'
  BY <1>4, <1>6 DEF StrayLands, Writes, Own, TypeOK
<1>7. ASSUME NEW w \in strays, StrayEnds(w) PROVE TypeOK'
  BY <1>7 DEF StrayEnds, Own, TypeOK
<1>8. ASSUME NEW h \in Handlers, Acknowledge(h) PROVE TypeOK'
  BY <1>8, ReplyType DEF Acknowledge, Respond, TypeOK
<1>9. ASSUME NEW h \in Handlers, Stray(h)
      PROVE  strays' \subseteq [req : Requests, item : Items]
  BY <1>9, WriteType DEF Stray, TypeOK
<1>10. ASSUME NEW h \in Handlers, CallFails(h) PROVE TypeOK'
  BY <1>9, <1>10, ReplyType DEF CallFails
<1>11. ASSUME NEW h \in Handlers, Answer(h) \/ Crash(h) PROVE TypeOK'
  <2>1. Leave(h) /\ strays' \subseteq [req : Requests, item : Items]
    BY <1>9, <1>11 DEF Answer, Crash, TypeOK
  <2>2. QED
    BY <2>1 DEF Leave, TypeOK
<1>12. ASSUME NEW s \in Sources, Replicate(s) PROVE TypeOK'
  BY <1>12 DEF Replicate, Own, TypeOK
<1>13. CASE UNCHANGED vars
  BY <1>13 DEF vars, Own, TypeOK
<1>14. QED
  BY <1>1, <1>2, <1>3, <1>5, <1>6, <1>7, <1>8, <1>10, <1>11, <1>12, <1>13 DEF Next

(* Every reachable state has its type.                                       *)
THEOREM TypeCorrect == Spec => []TypeOK
BY InitType, NextType, PTL DEF Spec
------------------------------------------------------------------------------
(* What a step does to the table, to the lagging copies, to what requests    *)
(* hold and to the writes that are out.                                      *)
Moves ==
  \/ table' = table
  \/ \E w \in Writes : Lands(w) /\ table' = [table EXCEPT ![w.req.source] = w.item]

Lags == \A s \in Sources : lagging'[s] \in {lagging[s], table'[s]}

(* A write is new where a handler past its read has just sent it.            *)
New(w) ==
  \E h \in Handlers :
    /\ pc[h] = "check" /\ w.req = req[h] /\ req[h].op # "get" /\ local[h] \in Items
    /\ w.item = SourceToRecord(Edited(local[h], req[h]))

Sent == \A w \in Writes' : w \in Writes \/ New(w)

Held(h) == pc[h] = "check" /\ req'[h] = req[h] /\ local'[h] = local[h]

Holds ==
  \A h \in Handlers : pc'[h] = "check" =>
    Held(h) \/ local'[h] \in {table'[req'[h].source], lagging'[req'[h].source]}

Frame == Moves /\ Lags /\ Sent /\ Holds

(* A step that leaves the tables alone, and at which no write is sent.       *)
Idles ==
  /\ UNCHANGED <<table, lagging>>
  /\ \A h \in Handlers : pc'[h] \in {"check", "put"} =>
       pc'[h] = pc[h] /\ req'[h] = req[h] /\ local'[h] = local[h]

LEMMA IdleFrame ==
  ASSUME Idles, \A w \in strays' : w \in Writes
  PROVE  Frame
<1>1. Moves /\ Lags /\ Holds
  BY DEF Idles, Moves, Lags, Holds, Held
<1>2. \A h \in Waiting' : h \in Waiting /\ Write(h)' = Write(h)
  BY DEF Idles, Waiting, Write
<1>3. Sent
  BY <1>2 DEF Sent, Writes
<1>4. QED
  BY <1>1, <1>3 DEF Frame

(* So is one at which a write takes effect, but for the table.               *)
LEMMA LandFrame ==
  ASSUME TypeOK, NEW w \in Writes, Lands(w)
  PROVE  Frame
<1>1. Store(w) /\ UNCHANGED <<strays, pc, req, local>>
  BY DEF Lands, PutSource, StrayLands, Own
<1>2. Moves /\ Lags
  BY <1>1 DEF Store, Moves, Lags
<1>3. Writes' = Writes
  BY <1>1 DEF Writes, Waiting, Write
<1>4. Sent /\ Holds
  BY <1>1, <1>3 DEF Sent, Holds, Held
<1>5. QED
  BY <1>2, <1>4 DEF Frame

LEMMA StepFrame ==
  ASSUME TypeOK, [Next]_vars
  PROVE  Frame
<1>1. CASE UNCHANGED vars
  BY <1>1, IdleFrame DEF Idles, Writes, vars, Own
<1>2. ASSUME NEW s \in Sources, Replicate(s) PROVE Frame
  <2>1. Moves /\ Lags
    BY <1>2 DEF TypeOK, Replicate, Moves, Lags
  <2>2. Writes' = Writes /\ Holds
    BY <1>2 DEF Replicate, Own, Writes, Waiting, Write, Holds, Held
  <2>3. QED
    BY <2>1, <2>2 DEF Frame, Sent
<1>3. ASSUME NEW h \in Handlers, Receive(h) PROVE Frame
  <2>1. Idles /\ strays' = strays
    BY <1>3 DEF TypeOK, Receive, Idles
  <2>2. QED
    BY <2>1, IdleFrame DEF Writes
<1>4. ASSUME NEW h \in Handlers, NEW code, Respond(h, code) PROVE Frame
  <2>1. Idles /\ strays' = strays
    BY <1>4 DEF TypeOK, Respond, Reply, Idles
  <2>2. QED
    BY <2>1, IdleFrame DEF Writes
<1>5. ASSUME NEW h \in Handlers, pc[h] = "check", req[h].op # "get", local[h] \in Items,
             Change(h)
      PROVE  Frame
  <2>1. Moves /\ Lags /\ strays' = strays
    BY <1>5 DEF Change, Moves, Lags
  <2>2. Holds
    BY <1>5 DEF TypeOK, Change, Holds, Held
  <2>3. ASSUME NEW g \in Handlers, pc'[g] = "put"
        PROVE  Write(g)' \in Writes \/ New(Write(g)')
    <3>1. CASE g = h
      <4>1. local'[h] = Edited(local[h], req[h]) /\ req'[h] = req[h]
        BY <1>5 DEF TypeOK, Change
      <4>2. Write(h)' = [req |-> req[h], item |-> SourceToRecord(Edited(local[h], req[h]))]
        BY <4>1 DEF Write
      <4>3. QED
        BY <1>5, <3>1, <4>2 DEF New
    <3>2. CASE g # h
      BY <1>5, <2>3, <3>2 DEF TypeOK, Change, Write, Writes, Waiting
    <3>3. QED
      BY <3>1, <3>2
  <2>4. Sent
    BY <2>1, <2>3 DEF Sent, Writes, Waiting
  <2>5. QED
    BY <2>1, <2>2, <2>4 DEF Frame
<1>6. ASSUME NEW h \in Handlers, GetSourceById(h) PROVE Frame
  <2>1. Moves /\ Lags
    BY <1>6 DEF GetSourceById, Moves, Lags
  <2>2. Holds
    BY <1>6 DEF TypeOK, GetSourceById, RecordToSource, Holds, Held
  <2>3. \A g \in Waiting' : g \in Waiting /\ Write(g)' = Write(g)
    BY <1>6 DEF TypeOK, GetSourceById, Waiting, Write
  <2>4. Sent
    BY <1>6, <2>3 DEF GetSourceById, Sent, Writes
  <2>5. QED
    BY <2>1, <2>2, <2>4 DEF Frame
<1>7. ASSUME NEW h \in Handlers, PutSource(h) PROVE Frame
  <2>1. Write(h) \in Writes /\ Lands(Write(h))
    BY <1>7 DEF PutSource, Writes, Waiting, Lands
  <2>2. QED
    BY <2>1, LandFrame
<1>8. ASSUME NEW w \in strays, StrayLands(w) PROVE Frame
  <2>1. w \in Writes /\ Lands(w)
    BY <1>8 DEF Writes, Lands
  <2>2. QED
    BY <2>1, LandFrame
<1>9. ASSUME NEW w \in strays, StrayEnds(w) PROVE Frame
  <2>1. Idles /\ strays' \subseteq strays
    BY <1>9 DEF StrayEnds, Own, Idles
  <2>2. QED
    BY <2>1, IdleFrame DEF Writes
<1>10. ASSUME NEW h \in Handlers, Stray(h) PROVE \A w \in strays' : w \in Writes
  BY <1>10 DEF Stray, Writes, Waiting
<1>11. ASSUME NEW h \in Handlers, CallFails(h) PROVE Frame
  <2>1. Idles
    BY <1>11 DEF TypeOK, CallFails, Reply, Idles
  <2>2. QED
    BY <1>10, <1>11, <2>1, IdleFrame DEF CallFails
<1>12. ASSUME NEW h \in Handlers, Answer(h) \/ Crash(h) PROVE Frame
  <2>1. Leave(h) /\ \A w \in strays' : w \in Writes
    BY <1>10, <1>12 DEF Answer, Crash, Writes
  <2>2. Idles
    BY <2>1 DEF TypeOK, Leave, Idles
  <2>3. QED
    BY <2>1, <2>2, IdleFrame
<1>13. ASSUME NEW h \in Handlers, Check(h) PROVE Frame
  BY <1>4, <1>5, <1>13, CheckForm
<1>14. QED
  BY <1>1, <1>2, <1>3, <1>4, <1>6, <1>7, <1>8, <1>9, <1>11, <1>12, <1>13 DEF Next, Acknowledge

(* What a new write carries, next to the source its handler holds.           *)
LEMMA NewWrite ==
  ASSUME TypeOK, NEW w, New(w)
  PROVE  \E h \in Handlers :
           /\ pc[h] = "check" /\ w.req = req[h]
           /\ local[h] # NoSource /\ local[h] \in Items /\ w.item \in Items /\ w.item # NoSource
           /\ w.item.rest = local[h].rest
           /\ Whole(w.item.created) = Whole(local[h].created)
           /\ \A a \in Attrs \ {w.req.attr} : w.item.attrs[a] = local[h].attrs[a]
<1>1. PICK h \in Handlers :
        /\ pc[h] = "check" /\ w.req = req[h] /\ req[h].op # "get" /\ local[h] \in Items
        /\ w.item = SourceToRecord(Edited(local[h], req[h]))
  BY DEF New
<1>. DEFINE new == Edited(local[h], req[h])
<1>2. /\ new \in Items /\ new.rest = local[h].rest /\ new.created = local[h].created
      /\ \A a \in Attrs \ {req[h].attr} : new.attrs[a] = local[h].attrs[a]
  BY <1>1, Serving, EditedItem
<1>. HIDE DEF new
<1>3. /\ w.item \in Items /\ w.item.attrs = new.attrs /\ w.item.rest = new.rest
      /\ w.item.created = Whole(new.created)
  BY <1>1, <1>2, RecordItem DEF new
<1>4. new.created \in Times \cup {Undefined}
  BY <1>2 DEF Items
<1>5. Whole(w.item.created) = Whole(local[h].created)
  BY <1>2, <1>3, <1>4, WholeDate
<1>6. QED
  BY <1>1, <1>2, <1>3, <1>5, SourceAssumption
------------------------------------------------------------------------------
(* What every handler knows.  Two copies of a source are alike where they    *)
(* may differ in nothing but what the routes edit.                           *)
Alike(x, y) ==
  /\ x = NoSource <=> y = NoSource
  /\ x # NoSource => x.rest = y.rest /\ Whole(x.created) = Whole(y.created)

Consistent ==
  /\ \A s \in Sources : Alike(lagging[s], table[s])
  /\ \A h \in Handlers : pc[h] = "check" => Alike(local[h], table[req[h].source])
  /\ \A w \in Writes : Alike(w.item, table[w.req.source])

(* What is stored is alike what was stored.                                  *)
AlikeStep == \A s \in Sources : Alike(table'[s], table[s])

LEMMA InitConsistent == Init => Consistent
BY DEF Init, Consistent, Alike, Writes, Waiting

LEMMA NextConsistent == TypeOK /\ Consistent /\ [Next]_vars => AlikeStep /\ Consistent'
<1> SUFFICES ASSUME TypeOK, Consistent, [Next]_vars PROVE AlikeStep /\ Consistent'
  OBVIOUS
<1>1. Frame
  BY StepFrame
<1>2. AlikeStep
  <2>1. CASE table' = table
    BY <2>1 DEF AlikeStep, Alike
  <2>2. CASE table' # table
    <3>1. PICK w \in Writes : table' = [table EXCEPT ![w.req.source] = w.item]
      BY <1>1, <2>2 DEF Frame, Moves
    <3>2. Alike(w.item, table[w.req.source])
      BY DEF Consistent
    <3>3. QED
      BY <3>1, <3>2 DEF AlikeStep, Alike, TypeOK
  <2>3. QED
    BY <2>1, <2>2
<1>3. ASSUME NEW x, NEW s \in Sources, Alike(x, table[s]) PROVE Alike(x, table'[s])
  BY <1>2, <1>3 DEF AlikeStep, Alike
<1>4. \A s \in Sources : Alike(lagging'[s], table'[s])
  <2>1. \A s \in Sources : Alike(lagging[s], table'[s]) /\ Alike(table'[s], table'[s])
    BY <1>3 DEF Consistent, Alike
  <2>2. QED
    BY <1>1, <2>1 DEF Frame, Lags
<1>5. ASSUME NEW h \in Handlers, pc'[h] = "check"
      PROVE  Alike(local'[h], table'[req'[h].source])
  <2>1. CASE Held(h)
    <3>1. req[h].source \in Sources
      BY <2>1, Serving, RequestShape DEF Held
    <3>2. QED
      BY <1>3, <2>1, <3>1 DEF Held, Consistent
  <2>2. CASE ~Held(h)
    <3>1. local'[h] \in {table'[req'[h].source], lagging'[req'[h].source]}
      BY <1>1, <1>5, <2>2 DEF Frame, Holds
    <3>2. TypeOK'
      BY NextType
    <3>3. req'[h] \in Requests
      BY <1>5, <3>2, SourceAssumption DEF TypeOK
    <3>4. req'[h].source \in Sources
      BY <3>3, RequestShape
    <3>5. QED
      BY <1>4, <3>1, <3>4 DEF Alike
  <2>3. QED
    BY <2>1, <2>2
<1>6. ASSUME NEW w \in Writes' PROVE Alike(w.item, table'[w.req.source])
  <2>1. CASE w \in Writes
    BY <1>3, <2>1, WriteShape DEF Consistent
  <2>2. CASE New(w)
    <3>1. PICK h \in Handlers :
            /\ pc[h] = "check" /\ w.req = req[h] /\ local[h] # NoSource /\ w.item # NoSource
            /\ w.item.rest = local[h].rest
            /\ Whole(w.item.created) = Whole(local[h].created)
      BY <2>2, NewWrite
    <3>2. Alike(w.item, table[w.req.source])
      BY <3>1 DEF Consistent, Alike
    <3>3. w.req.source \in Sources
      BY <3>1, Serving, RequestShape
    <3>4. QED
      BY <1>3, <3>2, <3>3
  <2>3. QED
    BY <1>1, <2>1, <2>2 DEF Frame, Sent
<1>7. Consistent'
  BY <1>4, <1>5, <1>6 DEF Consistent
<1>8. QED
  BY <1>2, <1>7

(* No request creates or removes a source, or changes what no route edits.   *)
THEOREM FieldsStay == Spec => FieldsKept
<1>1. TypeOK /\ TypeOK' /\ AlikeStep =>
        \A s \in Sources :
          /\ table[s] = NoSource <=> table'[s] = NoSource
          /\ table[s] # NoSource =>
               /\ table'[s].rest = table[s].rest
               /\ SourceToRecord(table'[s]).created = SourceToRecord(table[s]).created
  <2> SUFFICES ASSUME TypeOK, TypeOK', AlikeStep, NEW s \in Sources
               PROVE  /\ table[s] = NoSource <=> table'[s] = NoSource
                      /\ table[s] # NoSource =>
                           /\ table'[s].rest = table[s].rest
                           /\ SourceToRecord(table'[s]).created =
                                SourceToRecord(table[s]).created
    OBVIOUS
  <2>1. table[s] # NoSource /\ table'[s] # NoSource =>
          table[s] \in Items /\ table'[s] \in Items
    BY DEF TypeOK
  <2>2. QED
    BY <2>1, RecordItem DEF AlikeStep, Alike
<1>2. TypeOK /\ TypeOK' /\ Consistent /\ [Next]_vars =>
        [\A s \in Sources :
          /\ table[s] = NoSource <=> table'[s] = NoSource
          /\ table[s] # NoSource =>
               /\ table'[s].rest = table[s].rest
               /\ SourceToRecord(table'[s]).created = SourceToRecord(table[s]).created]_vars
  BY <1>1, NextConsistent
<1>3. QED
  BY <1>2, TypeCorrect, InitConsistent, NextConsistent, PTL DEF Spec, FieldsKept
------------------------------------------------------------------------------
(* Overlapping edits.                                                        *)

LEMMA SettledStep ==
  ASSUME TypeOK, [Next]_vars, NEW s \in Sources, NEW a \in Attrs,
         Settled(s, a), ~Overwritten(s, a)
  PROVE  Settled(s, a)' /\ table'[s].attrs[a] = table[s].attrs[a]
<1>. DEFINE Same(item) == item # NoSource /\ item.attrs[a] = table[s].attrs[a]
<1>1. Frame
  BY StepFrame
<1>2. /\ Same(table[s]) /\ Same(lagging[s])
      /\ \A h \in Handlers : pc[h] = "check" /\ req[h].source = s => Same(local[h])
      /\ \A w \in Writes : w.req.source = s => w.req.attr = a \/ Same(w.item)
  BY DEF Settled
<1>3. Same(table'[s])
  <2>1. CASE table'[s] = table[s]
    BY <1>2, <2>1
  <2>2. CASE table'[s] # table[s]
    <3>1. PICK w \in Writes : Lands(w) /\ table' = [table EXCEPT ![w.req.source] = w.item]
      BY <1>1, <2>2 DEF Frame, Moves
    <3>2. w.req.source = s /\ table'[s] = w.item
      BY <2>2, <3>1, WriteShape DEF TypeOK
    <3>3. QED
      BY <1>2, <3>1, <3>2 DEF Overwritten
  <2>3. QED
    BY <2>1, <2>2
<1>4. Same(lagging'[s])
  BY <1>1, <1>2, <1>3 DEF Frame, Lags
<1>5. ASSUME NEW h \in Handlers, pc'[h] = "check", req'[h].source = s
      PROVE  Same(local'[h])
  <2>1. CASE Held(h)
    BY <1>2, <1>5, <2>1 DEF Held
  <2>2. CASE ~Held(h)
    BY <1>1, <1>3, <1>4, <1>5, <2>2 DEF Frame, Holds
  <2>3. QED
    BY <2>1, <2>2
<1>6. ASSUME NEW w \in Writes', w.req.source = s
      PROVE  w.req.attr = a \/ Same(w.item)
  <2>1. CASE w \in Writes
    BY <1>2, <1>6, <2>1
  <2>2. CASE New(w)
    <3>1. PICK h \in Handlers :
            /\ pc[h] = "check" /\ w.req = req[h] /\ w.item # NoSource
            /\ \A b \in Attrs \ {w.req.attr} : w.item.attrs[b] = local[h].attrs[b]
      BY <2>2, NewWrite
    <3>2. QED
      BY <1>2, <1>6, <3>1
  <2>3. QED
    BY <1>1, <1>6, <2>1, <2>2 DEF Frame, Sent
<1>7. QED
  BY <1>3, <1>4, <1>5, <1>6 DEF Settled

(* A settled attribute stays until an edit of it reaches the table.          *)
THEOREM SettledRemains == Spec => SettledStays
<1>1. TypeOK /\ [Next]_vars =>
        [\A s \in Sources, a \in Attrs : Settled(s, a) /\ ~Overwritten(s, a) =>
           Settled(s, a)' /\ table'[s].attrs[a] = table[s].attrs[a]]_vars
  BY SettledStep
<1>2. QED
  BY <1>1, TypeCorrect, PTL DEF Spec, SettledStays
=============================================================================
