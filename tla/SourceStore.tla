----------------------------- MODULE SourceStore -----------------------------
(* The source routes of the TAMS service (service/src/routes/sources*.ts)    *)
(* over the DynamoDB repository.  They fetch, change and store whole sources *)
(* as the flow routes do, with no lock and no route that creates a source:   *)
(* other programs put the sources into the table.  (The repository in memory *)
(* starts empty and so stays: over it every one of these routes answers 404.) *)
EXTENDS Integers, FiniteSets

CONSTANTS
  Sources,    \* source identifiers
  Handlers,   \* requests in flight at once
  Tags,       \* tag names
  Values,     \* values of labels, descriptions and tags
  Undefined,  \* a field that is not set
  Rest,       \* values of the fields no route edits: format, authors, collection
  Times,      \* creation dates, in half seconds
  Initial,    \* the sources other programs have stored
  NoSource,   \* what the repository answers for an unknown identifier
  NoRequest,  \* a handler that serves nothing
  Workload,   \* the requests each handler may be given
  MaxStrays   \* bound on the writes followed after their request is over

VARIABLES
  table,      \* source -> item or NoSource
  lagging,    \* source -> the copy an eventually consistent read finds
  pc,         \* handler -> where it waits
  req,        \* handler -> the request it serves
  local,      \* handler -> the source it holds
  stored,     \* handler -> whether its PutItem has taken effect
  strays,     \* PutItems on their way for requests that are over
  status      \* handler -> the HTTP status it answers with, 0 until it is known

Own == <<pc, req, local, stored, status>>
vars == <<table, lagging, strays, Own>>

Attrs == {"label", "description"} \cup Tags

Items == [attrs : [Attrs -> Values \cup {Undefined}], rest : Rest,
          created : Times \cup {Undefined}]

Requests ==
       [op : {"put"}, source : Sources, attr : Attrs, value : Values]
  \cup [op : {"delete"}, source : Sources, attr : Attrs]
  \cup [op : {"get"}, source : Sources, attr : Attrs \cup {"source", "tags"}]

ASSUME SourceAssumption ==
  /\ Undefined \notin Values \cup Times
  /\ NoSource \notin Items /\ NoRequest \notin Requests
  /\ Tags \cap {"label", "description", "source", "tags"} = {}
  /\ Times \subseteq Int /\ \A t \in Times : t - (t % 2) \in Times
  /\ Initial \subseteq Items
  /\ Workload \in [Handlers -> SUBSET Requests]
  /\ MaxStrays \in Nat

Init ==
  /\ table \in [Sources -> Initial \cup {NoSource}]
  /\ lagging = table
  /\ pc = [h \in Handlers |-> "idle"]
  /\ req = [h \in Handlers |-> NoRequest]
  /\ local = [h \in Handlers |-> NoSource]
  /\ stored = [h \in Handlers |-> FALSE]
  /\ strays = {}
  /\ status = [h \in Handlers |-> 0]

------------------------------------------------------------------------------
(* The repository.                                                           *)

(* Date.toString() keeps whole seconds; the record has no undefined field.   *)
SourceToRecord(item) ==
  [item EXCEPT !.created = IF @ = Undefined THEN Undefined ELSE @ - (@ % 2)]

(* Every field is read back; the first form forgets the dates.               *)
RecordToSourceUndated(item) ==
  IF item = NoSource THEN NoSource ELSE [item EXCEPT !.created = Undefined]

RecordToSource(item) == item

Receive(h) ==
  /\ pc[h] = "idle"
  /\ \E r \in Workload[h] : req' = [req EXCEPT ![h] = r]
  /\ pc' = [pc EXCEPT ![h] = "get"]
  /\ UNCHANGED <<table, lagging, strays, local, stored, status>>

Reply(h, code) ==
  /\ pc' = [pc EXCEPT ![h] = "reply"]
  /\ status' = [status EXCEPT ![h] = code]
  /\ UNCHANGED <<table, lagging, req, local, stored>>

Respond(h, code) == Reply(h, code) /\ UNCHANGED strays

GetSourceById(h) ==
  /\ pc[h] = "get"
  /\ \E item \in {table[req[h].source], lagging[req[h].source]} :
       local' = [local EXCEPT ![h] = RecordToSource(item)]
  /\ pc' = [pc EXCEPT ![h] = "check"]
  /\ UNCHANGED <<table, lagging, strays, req, stored, status>>

(* A write is the request it is made for and the record it puts.             *)
Write(h) == [req |-> req[h], item |-> SourceToRecord(local[h])]

Store(w) == table' = [table EXCEPT ![w.req.source] = w.item] /\ UNCHANGED lagging

(* PutItem takes effect, for the first time or because the SDK repeats it.   *)
PutSource(h) ==
  /\ pc[h] = "put"
  /\ Store(Write(h))
  /\ stored' = [stored EXCEPT ![h] = TRUE]
  /\ UNCHANGED <<strays, pc, req, local, status>>

Acknowledge(h) == pc[h] = "put" /\ stored[h] /\ Respond(h, 204)

(* The PutItem of a request that is over may take effect later, or again.    *)
Stray(h) ==
  \/ UNCHANGED strays
  \/ /\ pc[h] = "put"
     /\ Cardinality(strays) < MaxStrays
     /\ strays' = strays \cup {Write(h)}

StrayLands(w) == Store(w) /\ UNCHANGED <<strays, Own>>
StrayEnds(w) == strays' = strays \ {w} /\ UNCHANGED <<table, lagging, Own>>

CallFails(h) == pc[h] \in {"get", "put"} /\ Reply(h, 500) /\ Stray(h)

Replicate(s) ==
  /\ lagging[s] # table[s]
  /\ lagging' = [lagging EXCEPT ![s] = table[s]]
  /\ UNCHANGED <<table, strays, Own>>

Leave(h) ==
  /\ pc' = [pc EXCEPT ![h] = "idle"]
  /\ req' = [req EXCEPT ![h] = NoRequest]
  /\ local' = [local EXCEPT ![h] = NoSource]
  /\ stored' = [stored EXCEPT ![h] = FALSE]
  /\ status' = [status EXCEPT ![h] = 0]
  /\ UNCHANGED <<table, lagging>>

Answer(h) == pc[h] = "reply" /\ Leave(h) /\ UNCHANGED strays

(* The replica is stopped with the request in flight.                        *)
Crash(h) == pc[h] \in {"get", "check", "put"} /\ Leave(h) /\ Stray(h)

------------------------------------------------------------------------------
(* The handlers, from the answer of getSourceById to their next await.       *)

Checks(h, op, attrs) == pc[h] = "check" /\ req[h].op = op /\ req[h].attr \in attrs
Missing(h) == local[h] = NoSource
Unset(h) == local[h] # NoSource /\ local[h].attrs[req[h].attr] = Undefined

(* The one change of each route.  Two ways to get it wrong: to replace the   *)
(* map of the tags whole, as `source.tags = {}` without the || would, and to *)
(* store the parsed body in place of its value.                              *)
EditedAlone(item, r) ==
  [item EXCEPT !.attrs = [a \in Attrs |->
     IF a = r.attr THEN (IF r.op = "put" THEN r.value ELSE Undefined)
     ELSE IF a \in Tags /\ r.attr \in Tags THEN Undefined ELSE item.attrs[a]]]

EditedRaw(item, r) ==
  [item EXCEPT !.attrs[r.attr] = IF r.op = "put" THEN r ELSE Undefined]

Edited(item, r) ==
  [item EXCEPT !.attrs[r.attr] = IF r.op = "put" THEN r.value ELSE Undefined]

Change(h) ==
  /\ pc' = [pc EXCEPT ![h] = "put"]
  /\ local' = [local EXCEPT ![h] = Edited(@, req[h])]
  /\ UNCHANGED <<table, lagging, strays, req, stored, status>>

PutSourceAttr(h) ==
  /\ Checks(h, "put", Attrs)
  /\ \/ Missing(h) /\ Respond(h, 404)
     \/ ~Missing(h) /\ Change(h)

DeleteSourceField(h) ==
  /\ Checks(h, "delete", {"label", "description"})
  /\ \/ Missing(h) /\ Respond(h, 404)
     \/ ~Missing(h) /\ Change(h)

DeleteSourceTag(h) ==
  /\ Checks(h, "delete", Tags)
  /\ \/ (Missing(h) \/ Unset(h)) /\ Respond(h, 404)
     \/ ~Missing(h) /\ ~Unset(h) /\ Change(h)

(* A label or a tag that is not set is not found; a description is.          *)
GetSource(h) ==
  /\ pc[h] = "check" /\ req[h].op = "get"
  /\ Respond(h, IF Missing(h) \/ (req[h].attr \in {"label"} \cup Tags /\ Unset(h))
                THEN 404 ELSE 200)

------------------------------------------------------------------------------
Check(h) == PutSourceAttr(h) \/ DeleteSourceField(h) \/ DeleteSourceTag(h) \/ GetSource(h)

Next ==
  \/ \E h \in Handlers :
       \/ Receive(h) \/ GetSourceById(h) \/ Check(h) \/ PutSource(h)
       \/ Acknowledge(h) \/ CallFails(h) \/ Answer(h) \/ Crash(h)
  \/ \E w \in strays : StrayLands(w) \/ StrayEnds(w)
  \/ \E s \in Sources : Replicate(s)

Spec == Init /\ [][Next]_vars
------------------------------------------------------------------------------
TypeOK ==
  /\ table \in [Sources -> Items \cup {NoSource}]
  /\ lagging \in [Sources -> Items \cup {NoSource}]
  /\ pc \in [Handlers -> {"idle", "get", "check", "put", "reply"}]
  /\ req \in [Handlers -> Requests \cup {NoRequest}]
  /\ local \in [Handlers -> Items \cup {NoSource}]
  /\ stored \in [Handlers -> BOOLEAN]
  /\ strays \subseteq [req : Requests, item : Items]
  /\ status \in [Handlers -> {0, 200, 204, 404, 500}]
  /\ \A h \in Handlers :
       /\ pc[h] # "idle" => req[h] \in Workload[h]
       /\ pc[h] = "put" => local[h] # NoSource /\ req[h].op # "get"

(* The PutItems that are out, and the step in which one takes effect.        *)
Waiting == {h \in Handlers : pc[h] = "put"}
Writes == {Write(h) : h \in Waiting} \cup strays

Lands(w) ==
  \/ \E h \in Waiting : w = Write(h) /\ PutSource(h)
  \/ w \in strays /\ StrayLands(w)

(* The lagging copy, the requests past their read and the writes that are    *)
(* out agree on attribute a of source s, but for edits of that attribute.    *)
Settled(s, a) ==
  LET Same(item) == item # NoSource /\ item.attrs[a] = table[s].attrs[a]
  IN /\ table[s] # NoSource
     /\ Same(lagging[s])
     /\ \A h \in Handlers : pc[h] = "check" /\ req[h].source = s => Same(local[h])
     /\ \A w \in Writes : w.req.source = s => w.req.attr = a \/ Same(w.item)

(* An edit of attribute a of source s reaches the table.                     *)
Overwritten(s, a) == \E w \in Writes : w.req.source = s /\ w.req.attr = a /\ Lands(w)

(* A label, a description or a tag that has settled stays as it is, whatever *)
(* overlapping edits of the other attributes store, repeat or leave behind,  *)
(* until an edit of that attribute reaches the table: an edit is only ever   *)
(* lost to one that overlaps with it, that read a copy from before it, or    *)
(* that was given up on and lands late.                                      *)
SettledStays ==
  [][\A s \in Sources, a \in Attrs : Settled(s, a) /\ ~Overwritten(s, a) =>
       Settled(s, a)' /\ table'[s].attrs[a] = table[s].attrs[a]]_vars

(* No request creates or removes a source, and the fields no route edits     *)
(* come back from every conversion as they were, dates to the second.        *)
FieldsKept ==
  [][\A s \in Sources :
       /\ table[s] = NoSource <=> table'[s] = NoSource
       /\ table[s] # NoSource =>
            /\ table'[s].rest = table[s].rest
            /\ SourceToRecord(table'[s]).created = SourceToRecord(table[s]).created]_vars
=============================================================================
