------------------------------ MODULE Catalogue ------------------------------
(* The catalogue of flows, or of sources: what PUT /flows/:flowId stores, in *)
(* which form it comes back, and how a client that follows the next-page     *)
(* tokens of GET /flows or GET /sources sees it while it changes             *)
(* (service/src/routes/{flows,sources}.ts over the two repositories).        *)
(*                                                                           *)
(* One client walks: walks change nothing, so several do not interact.  A    *)
(* PUT is one step here; what becomes of overlapping ones is in FlowStore.   *)
EXTENDS Documents, FiniteSets, SequencesExt

CONSTANTS
  Ids,        \* identifiers of flows, or of sources
  HashOrder,  \* the order in which DynamoDB scans them
  NoToken,    \* the first page is asked for
  BadToken,   \* a token no page has given
  Times,      \* what new Date() returns
  OddKeys,    \* tag names that are not letters, digits and underscores
  PartOf,     \* <<a, b>> where text a is part of text b
  MaxLagging, \* bound on the items whose copy lags at one time
  Scenarios   \* kinds of catalogue, and what is asked of each

VARIABLES
  scenario, \* the one of this behaviour
  items,    \* id -> the document its repository keeps, or Absent
  copy,     \* id -> what an eventually consistent read may find instead
  order,    \* the identifiers in the order of the repository
  asked,    \* id -> the body of the last PUT that was accepted, its own fields
  walk,     \* the walk of the client: stage, query, token, what it has seen
  began,    \* identifiers that matched when the walk began
  left      \* identifiers that have ceased to match since

vars == <<scenario, items, copy, order, asked, walk, began, left>>

(* No document, and no query: without any field.                             *)
Absent == <<>>

Dynamo == scenario.repository = "dynamodb"
OfFlows == scenario.kind = "flow"

(* A query has equalities on fields and tags, tags that must be and must not *)
(* be there, and the size of a page, which may be given with a half more.    *)
(* Only the validator for sources asks for an integer.                       *)
ListQueryValid(q) ==
  IF q.half THEN OfFlows /\ q.limit \in 1 .. 49 ELSE q.limit \in 1 .. 50

(* Flows come into the catalogue by PUT alone; in memory no source ever does.*)
ASSUME CatalogueAssumption ==
  /\ IsFiniteSet(Ids) /\ HashOrder \in SetToSeqs(Ids)
  /\ {NoToken, BadToken} \cap Ids = {} /\ NoToken # BadToken
  /\ Malformed \notin Times
  /\ MaxLagging \in Nat
  /\ \A s \in Scenarios :
       /\ \/ /\ s.kind = "flow" /\ s.initial = {}
             /\ s.repository \in {"dynamodb", "memory"}
          \/ /\ s.kind = "source" /\ Absent \notin s.initial
             /\ s.repository = "dynamodb"
       /\ s.ids \subseteq Ids

Unseen == [i \in Ids |-> 0]

NoWalk == [stage |-> "idle", query |-> Absent, token |-> NoToken, seen |-> Unseen]

Init ==
  /\ scenario \in Scenarios
  /\ items \in [Ids -> scenario.initial \cup {Absent}]
  /\ \A i \in Ids \ scenario.ids : items[i] = Absent
  /\ copy = items
  /\ IF Dynamo THEN order = HashOrder
               ELSE order \in SetToSeqs({i \in Ids : items[i] # Absent})
  /\ asked = [i \in Ids |-> Absent]
  /\ walk = NoWalk
  /\ began = {}
  /\ left = {}

------------------------------------------------------------------------------
(* The filters.                                                              *)

Has(doc, p, value) == p \in DOMAIN doc /\ doc[p] = value

(* The attributes a flow query is compared with; the one DynamoDB is given   *)
(* for the format is not the one a record has.                               *)
FlowAttribute(field) ==
  CASE field = "source_id" -> <<"sourceId">>
    [] field = "format" -> IF Dynamo THEN <<"flowFormat">> ELSE <<"format">>
    [] field = "frame_width" -> <<"essenceParameters", "frameWidth">>
    [] field = "frame_height" -> <<"essenceParameters", "frameHeight">>
    [] OTHER -> <<field>>

TagsMatch(doc, q) ==
  /\ \A k \in q.have : <<"tags", k>> \in DOMAIN doc
  /\ \A k \in q.lack : <<"tags", k>> \notin DOMAIN doc

FlowMatches(doc, q) ==
  /\ \A field \in DOMAIN q.fields : Has(doc, FlowAttribute(field), q.fields[field])
  /\ \A k \in DOMAIN q.tags : Has(doc, <<"tags", k>>, q.tags[k])
  /\ TagsMatch(doc, q)

(* The tag of a source is a text or an array of texts.                       *)
IsArray(value) == value[1] = "array"
InArray(text, value) == IsArray(value) /\ \E n \in 2 .. Len(value) : text = <<value[n]>>

SourceTagMatches(doc, k, text) ==
  /\ <<"tags", k>> \in DOMAIN doc
  /\ LET value == doc[<<"tags", k>>]
     IN \/ value = text
        \/ InArray(text, value)
        \/ <<text, value>> \in PartOf

SourceMatches(doc, q) ==
  /\ \A field \in DOMAIN q.fields : Has(doc, <<field>>, q.fields[field])
  /\ \A k \in DOMAIN q.tags : SourceTagMatches(doc, k, q.tags[k])
  /\ TagsMatch(doc, q)

Matches(doc, q) ==
  doc # Absent /\ IF OfFlows THEN FlowMatches(doc, q) ELSE SourceMatches(doc, q)

(* DynamoDB wants an integer for a limit, and for a key what is one; for     *)
(* flows the key of a tag is part of the placeholder of its value.           *)
ScanRejected(q, token) ==
  \/ OfFlows /\ (q.half \/ \E k \in DOMAIN q.tags : k \in OddKeys)
  \/ ~OfFlows /\ token = BadToken

------------------------------------------------------------------------------
(* One page: the identifiers it lists and the token of the next.             *)

Position(seq, i) == CHOOSE n \in DOMAIN seq : seq[n] = i

(* What a token leaves to be listed.  The first form starts at its element.  *)
AfterInclusive(token) ==
  {i \in Range(order) : token = NoToken \/ Position(order, token) <= Position(order, i)}

After(token) ==
  {i \in Range(order) : token = NoToken \/ Position(order, token) < Position(order, i)}

UpTo(i) == {j \in Range(order) : Position(order, j) <= Position(order, i)}

FinalOf(ids) == CHOOSE i \in ids : ids \subseteq UpTo(i)

(* Scan evaluates at most Limit items past the start key, fewer where they   *)
(* are large, and filters them afterwards; the key of the last one it has    *)
(* evaluated is the token.  view is what this read finds.  The first form    *)
(* takes the last one listed for the last one evaluated.                     *)
ScanPagesListed(q, token, view) ==
  LET there == {i \in After(token) : view[i] # Absent}
      Listed(evaluated) == {i \in evaluated : Matches(view[i], q)}
  IN {[ids |-> Listed(there \cap UpTo(last)),
       next |-> IF there \subseteq UpTo(last) \/ Listed(there \cap UpTo(last)) = {}
                THEN NoToken ELSE FinalOf(Listed(there \cap UpTo(last)))] :
        last \in {i \in there : Cardinality(there \cap UpTo(i)) <= q.limit}}

ScanPages(q, token, view) ==
  LET there == {i \in After(token) : view[i] # Absent}
      Listed(evaluated) == {i \in evaluated : Matches(view[i], q)}
      ToTheEnd == {[ids |-> Listed(there), next |-> NoToken]}
      UntilHere == {i \in there :
                      LET count == Cardinality(there \cap UpTo(i))
                      IN /\ count <= q.limit
                         /\ count = q.limit \/ ~(there \subseteq UpTo(i))}
  IN (IF Cardinality(there) <= q.limit THEN ToTheEnd ELSE {})
     \cup {[ids |-> Listed(there \cap UpTo(i)), next |-> i] : i \in UntilHere}

(* In memory the filter comes first, and a token is good only for an element *)
(* of what it leaves.                                                        *)
Remaining(q, token) == {i \in After(token) : Matches(items[i], q)}

(* There is no element at limit - 1 then to take a token from.               *)
ListRejected(q, token) == q.half /\ Cardinality(Remaining(q, token)) > q.limit

MemoryPage(q, token) ==
  LET rest == Remaining(q, token)
      ids == {i \in rest : Cardinality(rest \cap UpTo(i)) <= q.limit}
  IN [ids |-> ids, next |-> IF ids = rest THEN NoToken ELSE FinalOf(ids)]

(* A token is refused that is none, and in memory one whose element has left *)
(* the list.  The first form makes DynamoDB as strict.  A token of sources   *)
(* that is JSON, and no key, gets past this check.                           *)
InvalidPageTokenStrict(q, token) ==
  IF token \in Ids THEN ~Matches(items[token], q) ELSE token = BadToken

InvalidPageToken(q, token) ==
  IF token \in Ids THEN ~Dynamo /\ ~Matches(items[token], q) ELSE token = BadToken

MayPass(q, token) == ~InvalidPageToken(q, token) \/ (~OfFlows /\ token = BadToken)

(* What GET answers of a document.                                           *)
Shown(doc) ==
  IF OfFlows THEN ToApi(IF Dynamo THEN RecordToFlow(doc) ELSE doc)
  ELSE ToApiSource(RecordToSource(doc))

ResponseValid(doc) == IF OfFlows THEN FlowValid(Shown(doc)) ELSE SourceValid(Shown(doc))

------------------------------------------------------------------------------
(* The walk.                                                                 *)

(* What of the catalogue both the table and its copy say.                    *)
Certain(q, i) == Matches(items[i], q) /\ Matches(copy[i], q)

(* A walk may begin in the middle: over DynamoDB the token of any item, made *)
(* from its name, is good.                                                   *)
StartWalk ==
  /\ walk.stage = "idle"
  /\ \E q \in scenario.queries,
        token \in {NoToken, BadToken} \cup (IF Dynamo THEN Ids ELSE {}) :
       /\ walk' = [NoWalk EXCEPT !.stage = "walking", !.query = q, !.token = token]
       /\ began' = {i \in Ids : Certain(q, i) /\ (token \in Ids => i \in After(token))}
  /\ left' = {}
  /\ UNCHANGED <<scenario, items, copy, order, asked>>

Fail == walk' = [walk EXCEPT !.stage = "failed"]

Turn(page, view) ==
  IF \A i \in page.ids : ResponseValid(view[i])
  THEN walk' = [walk EXCEPT
         !.stage = IF page.next = NoToken THEN "ended" ELSE "walking",
         !.token = page.next,
         !.seen = [i \in Ids |-> walk.seen[i] + (IF i \in page.ids THEN 1 ELSE 0)]]
  ELSE Fail

(* listFlows, listSources: the checks of the query and of the token, and the *)
(* page.                                                                     *)
Refuse ==
  /\ ~ListQueryValid(walk.query) \/ InvalidPageToken(walk.query, walk.token)
  /\ walk' = [walk EXCEPT !.stage = "refused"]

Scan ==
  /\ Dynamo
  /\ \/ ScanRejected(walk.query, walk.token) /\ Fail
     \/ /\ ~ScanRejected(walk.query, walk.token)
        /\ \E stale \in SUBSET {i \in Ids : copy[i] # items[i]} :
             LET view == [i \in Ids |-> IF i \in stale THEN copy[i] ELSE items[i]]
             IN \E page \in ScanPages(walk.query, walk.token, view) : Turn(page, view)

ListInMemory ==
  /\ ~Dynamo
  /\ IF ListRejected(walk.query, walk.token) THEN Fail
     ELSE Turn(MemoryPage(walk.query, walk.token), items)

NextPage ==
  /\ walk.stage = "walking"
  /\ \/ Refuse
     \/ /\ ListQueryValid(walk.query)
        /\ MayPass(walk.query, walk.token)
        /\ Scan \/ ListInMemory
  /\ UNCHANGED <<scenario, items, copy, order, asked, began, left>>

Close ==
  /\ walk.stage \in {"ended", "refused", "failed"}
  /\ walk' = NoWalk
  /\ began' = {}
  /\ left' = {}
  /\ UNCHANGED <<scenario, items, copy, order, asked>>

------------------------------------------------------------------------------
(* What changes under it.                                                    *)

(* putFlow, putSource of the repository.  The first form appends what it     *)
(* should replace.                                                           *)
KeepAppending(i, doc) ==
  /\ items' = [items EXCEPT ![i] = doc]
  /\ copy' = items'
  /\ order' = Append(order, i)
  /\ left' = left
  /\ UNCHANGED <<scenario, walk, began>>

Keep(i, doc) ==
  /\ items' = [items EXCEPT ![i] = doc]
  /\ copy' \in {copy, [copy EXCEPT ![i] = doc]}
  /\ Cardinality({j \in Ids : copy'[j] # items'[j]}) <= IF Dynamo THEN MaxLagging ELSE 0
  /\ order' = IF i \in Range(order) THEN order ELSE Append(order, i)
  /\ left' = IF walk.stage = "walking" /\ ~Matches(doc, walk.query)
             THEN left \cup {i} ELSE left
  /\ UNCHANGED <<scenario, walk, began>>

Locked(doc) == doc # Absent /\ Has(doc, <<"readOnly">>, <<"true">>)

(* What putFlow makes of a body and the flow it has found.                   *)
Rewritten(current, body, now) ==
  LET flow == FromApi(body)
      kept == {<<"created">>, <<"segmentDuration">>, <<"generation">>} \cap DOMAIN current
      fields == (DOMAIN flow \ {<<"segmentDuration">>, <<"generation">>})
                \cup kept \cup {<<"created">>, <<"metadataUpdated">>}
      written == [p \in fields |->
        IF p \in kept THEN current[p]
        ELSE IF p \in {<<"created">>, <<"metadataUpdated">>} THEN now ELSE flow[p]]
  IN IF Dynamo THEN ToRecord(written) ELSE written

(* The fields putFlow takes from elsewhere; pixelAspectRatio is read from    *)
(* aspect_ratio.                                                             *)
Overwritten == {<<"created">>, <<"metadata_updated">>, <<"segment_duration">>,
                <<"generation">>, PixelAspectRatio}

(* A client stores a body of its own, or the one GET has just shown.         *)
Bodies(i) ==
  {[p \in DOMAIN b \cup {<<"id">>} |-> IF p = <<"id">> THEN <<i>> ELSE b[p]] :
     b \in scenario.bodies}
  \cup (IF items[i] = Absent THEN {} ELSE {Shown(items[i])})

PutFlow(i) ==
  /\ OfFlows
  /\ \E body \in Bodies(i), current \in {items[i], copy[i]}, now \in Times :
       /\ FlowValid(body)
       /\ ~(Locked(current) /\ ~Has(body, <<"read_only">>, <<"false">>))
       /\ Keep(i, Rewritten(current, body, now))
       /\ asked' = [asked EXCEPT ![i] = Restrict(body, DOMAIN body \ Overwritten)]

(* Sources are stored by other programs, and edited by the source routes.    *)
ChangeSource(i) ==
  /\ ~OfFlows
  /\ \E source \in scenario.initial :
       source # items[i] /\ Keep(i, source)
  /\ UNCHANGED asked

Replicate(i) ==
  /\ copy[i] # items[i]
  /\ copy' = [copy EXCEPT ![i] = items[i]]
  /\ UNCHANGED <<scenario, items, order, asked, walk, began, left>>

Next ==
  \/ StartWalk \/ NextPage \/ Close
  \/ \E i \in scenario.ids : PutFlow(i) \/ ChangeSource(i) \/ Replicate(i)

Spec == Init /\ [][Next]_vars
------------------------------------------------------------------------------
TypeOK ==
  /\ scenario \in Scenarios
  /\ DOMAIN items = Ids /\ DOMAIN copy = Ids /\ DOMAIN asked = Ids
  /\ order \in Seq(Ids) /\ IsInjective(order)
  /\ Range(order) = IF Dynamo THEN Ids ELSE {i \in Ids : items[i] # Absent}
  /\ ~Dynamo => \A i \in Ids : copy[i] = items[i]
  /\ walk \in [stage : {"idle", "walking", "ended", "refused", "failed"},
               query : scenario.queries \cup {Absent},
               token : Ids \cup {NoToken, BadToken},
               seen : [Ids -> Nat]]
  /\ began \subseteq Ids /\ left \subseteq Ids

(* What PUT has accepted GET can show: no way through the adapters and the   *)
(* table turns a valid body into a document that the response validator      *)
(* answers with 500, and that would fail every page it is on.                *)
Readable == OfFlows => \A i \in Ids : items[i] # Absent => ResponseValid(items[i])

(* Every field of the body, but the Overwritten ones, comes back from GET    *)
(* under its own name and with its own value, and nothing comes back that    *)
(* the body did not have; DynamoDB keeps dates to the second.                *)
FieldsReturned ==
  \A i \in Ids : asked[i] # Absent =>
    LET sent == asked[i]
        back == Shown(items[i])
    IN Restrict(back, DOMAIN back \ Overwritten) =
         [p \in DOMAIN sent |-> IF Dynamo /\ p = <<"segments_updated">>
                               THEN Seconds(sent[p]) ELSE sent[p]]

(* A flow that is stored as GET shows it is the same flow, but for the date  *)
(* of the change: a client may read, edit one field and put the rest back.   *)
PutBackStable ==
  OfFlows => \A i \in Ids, now \in Times :
    items[i] # Absent =>
      LET again == Rewritten(items[i], Shown(items[i]), now)
          Rest(doc) == Restrict(doc, DOMAIN doc \ {<<"metadataUpdated">>})
      IN Rest(again) = Rest(items[i])

(* A walk that ends has shown every item that matched its query, in the      *)
(* table and in its copy, for as long as it lasted.                          *)
WalkComplete == walk.stage = "ended" => \A i \in began \ left : walk.seen[i] > 0

(* And no item twice, whatever was stored between two pages.                 *)
SeenOnce == \A i \in Ids : walk.seen[i] <= 1

(* A walk is only refused for what happened during it: the item its token    *)
(* names has ceased to match.  In DynamoDB that never costs a walk its end.  *)
RefusedByChange ==
  walk.stage = "refused" =>
    \/ ~ListQueryValid(walk.query) \/ walk.token = BadToken
    \/ ~Dynamo /\ walk.token \in left

(* Every token is further down the order than the one it follows, so that a  *)
(* walk over a catalogue that has ceased to grow ends; an empty page in the  *)
(* middle of a walk, as Limit before the filter gives, is no exception.      *)
WalkAdvances ==
  [][walk.stage = "walking" /\ walk'.stage = "walking" /\ walk' # walk =>
       /\ walk'.token \in Ids
       /\ walk.token = NoToken
          \/ Position(order, walk.token) < Position(order, walk'.token)]_vars
=============================================================================
