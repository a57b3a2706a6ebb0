--------------------------- MODULE CatalogueProofs ---------------------------
(* Proofs about Catalogue, for any identifiers, catalogues, bodies, queries  *)
(* and times: what a walk over a catalogue that changes shows of it, and     *)
(* that a flow comes back as it was sent.                                    *)
EXTENDS Catalogue, FiniteSetTheorems, TLAPS

------------------------------------------------------------------------------
(* Positions in a sequence without repetitions.                              *)

LEMMA PositionOf ==
  ASSUME NEW S, NEW seq \in Seq(S), NEW i \in Range(seq)
  PROVE  /\ Position(seq, i) \in DOMAIN seq
         /\ Position(seq, i) \in 1 .. Len(seq)
         /\ seq[Position(seq, i)] = i
<1>1. \E n \in DOMAIN seq : seq[n] = i
  BY DEF Range
<1>2. /\ Position(seq, i) \in DOMAIN seq
      /\ seq[Position(seq, i)] = i
  BY <1>1 DEF Position
<1>3. QED
  BY <1>2

LEMMA PositionAppended ==
  ASSUME NEW S, NEW seq \in Seq(S), NEW j \in S \ Range(seq), IsInjective(seq)
  PROVE  /\ Append(seq, j) \in Seq(S)
         /\ IsInjective(Append(seq, j))
         /\ Range(Append(seq, j)) = Range(seq) \cup {j}
         /\ \A i \in Range(seq) : Position(Append(seq, j), i) = Position(seq, i)
         /\ Position(Append(seq, j), j) = Len(seq) + 1
<1> DEFINE longer == Append(seq, j)
<1>1. /\ longer \in Seq(S) /\ Len(longer) = Len(seq) + 1
      /\ DOMAIN longer = 1 .. Len(seq) + 1
      /\ longer[Len(seq) + 1] = j
      /\ \A n \in 1 .. Len(seq) : longer[n] = seq[n]
  OBVIOUS
<1>2. \A n \in 1 .. Len(seq) : seq[n] \in Range(seq) /\ seq[n] # j
  BY DEF Range
<1>3. IsInjective(longer)
  BY <1>1, <1>2 DEF IsInjective
<1>4. Range(longer) = Range(seq) \cup {j}
  BY <1>1, <1>2 DEF Range
<1>5. ASSUME NEW i \in Range(seq)
      PROVE  Position(longer, i) = Position(seq, i)
  <2>1. i \in Range(longer)
    BY <1>4
  <2>2. /\ Position(seq, i) \in 1 .. Len(seq) /\ seq[Position(seq, i)] = i
    BY PositionOf
  <2>3. /\ Position(longer, i) \in 1 .. Len(longer) /\ longer[Position(longer, i)] = i
    BY <1>1, <2>1, PositionOf
  <2>4. longer[Position(seq, i)] = i
    BY <1>1, <2>2
  <2>5. QED
    BY <1>1, <1>3, <2>2, <2>3, <2>4 DEF IsInjective
<1>6. Position(longer, j) = Len(seq) + 1
  <2>1. j \in Range(longer)
    BY <1>4
  <2>2. /\ Position(longer, j) \in 1 .. Len(longer) /\ longer[Position(longer, j)] = j
    BY <1>1, <2>1, PositionOf
  <2>3. QED
    BY <1>1, <1>2, <2>2
<1>7. QED
  BY <1>1, <1>3, <1>4, <1>5, <1>6

(* Every set of numbers that is not empty has a least one.                   *)
LEMMA LeastNumber ==
  ASSUME NEW T \in SUBSET Nat, T # {}
  PROVE  \E m \in T : \A n \in T : m <= n
<1> DEFINE R == {ss \in Nat \X Nat : ss[1] < ss[2]}
<1>1. IsWellFoundedOn(R, Nat)
  BY NatLessThanWellFounded DEF OpToRel
<1>2. \E m \in T : \A n \in T : ~(<<n, m>> \in R)
  <2> HIDE DEF R
  <2>1. QED
    BY <1>1, WFMin
<1>3. PICK m \in T : \A n \in T : ~(<<n, m>> \in R)
  BY <1>2
<1>4. ASSUME NEW n \in T
      PROVE  ~(n < m)
  <2>1. n \in Nat /\ m \in Nat
    OBVIOUS
  <2>2. n < m => <<n, m>> \in R
    BY <2>1
  <2>3. QED
    BY <1>3, <2>2
<1>5. QED
  BY <1>4

LEMMA FinalOfSet ==
  ASSUME NEW S, order \in Seq(S), IsInjective(order),
         NEW ids, ids \subseteq Range(order), ids # {}
  PROVE  FinalOf(ids) \in ids /\ ids \subseteq UpTo(FinalOf(ids))
<1> DEFINE Left(i) == Len(order) - Position(order, i)
           T == {Left(i) : i \in ids}
<1>1. \A i \in ids : Position(order, i) \in 1 .. Len(order)
  BY PositionOf
<1>2. T \in SUBSET Nat /\ T # {}
  BY <1>1
<1>3. PICK m \in T : \A n \in T : m <= n
  <2> HIDE DEF T
  <2>1. QED
    BY <1>2, LeastNumber
<1>4. PICK i \in ids : \A j \in ids : Left(i) <= Left(j)
  BY <1>3
<1>5. ids \subseteq UpTo(i)
  BY <1>1, <1>4 DEF UpTo
<1>6. QED
  BY <1>5 DEF FinalOf

LEMMA FirstOfSet ==
  ASSUME NEW S, order \in Seq(S), IsInjective(order),
         NEW ids, ids \subseteq Range(order), ids # {}
  PROVE  \E i \in ids : ids \cap UpTo(i) = {i}
<1> DEFINE T == {Position(order, i) : i \in ids}
<1>1. \A i \in ids : Position(order, i) \in 1 .. Len(order) /\ order[Position(order, i)] = i
  BY PositionOf
<1>2. T \in SUBSET Nat /\ T # {}
  BY <1>1
<1>3. PICK m \in T : \A n \in T : m <= n
  <2> HIDE DEF T
  <2>1. QED
    BY <1>2, LeastNumber
<1>4. PICK i \in ids : \A j \in ids : Position(order, i) <= Position(order, j)
  BY <1>3
<1>5. \A j \in ids : j \in UpTo(i) => j = i
  BY <1>1, <1>4 DEF UpTo
<1>6. i \in UpTo(i)
  BY <1>1 DEF UpTo
<1>7. QED
  BY <1>5, <1>6

------------------------------------------------------------------------------
(* Types.                                                                    *)

LEMMA OrderOfAll ==
  ASSUME NEW S, IsFiniteSet(S), NEW seq \in SetToSeqs(S)
  PROVE  seq \in Seq(S) /\ IsInjective(seq) /\ Range(seq) = S
<1> DEFINE D == 1 .. Cardinality(S)
<1>1. Cardinality(S) \in Nat /\ IsFiniteSet(D) /\ Cardinality(D) = Cardinality(S)
  BY FS_CardinalityType, FS_Interval
<1>2. seq \in [D -> S] /\ \A i, j \in D : i # j => seq[i] # seq[j]
  BY DEF SetToSeqs
<1>3. seq \in Injection(D, S)
  BY <1>2 DEF Injection, IsInjective
<1>4. seq \in Surjection(D, S)
  <2> HIDE DEF D
  <2>1. QED
    BY <1>1, <1>3, FS_Injection
<1>5. \A s \in S : \E d \in D : seq[d] = s
  BY <1>4 DEF Surjection
<1>6. QED
  BY <1>1, <1>2, <1>5 DEF Range, IsInjective

(* A document that PUT stores has a date of creation.                        *)
LEMMA RewrittenFields ==
  ASSUME NEW current, NEW body, NEW now
  PROVE  /\ <<"created">> \in DOMAIN Rewritten(current, body, now)
         /\ Rewritten(current, body, now) # Absent
<1>1. <<"created">> \in DOMAIN Rewritten(current, body, now)
  BY DEF Rewritten, ToRecord
<1>2. <<"created">> \notin DOMAIN Absent
  BY DEF Absent
<1>3. QED
  BY <1>1, <1>2

LEMMA InitType == Init => TypeOK
<1> SUFFICES ASSUME Init
             PROVE  TypeOK
  OBVIOUS
<1>1. order \in Seq(Ids) /\ IsInjective(order)
      /\ Range(order) = IF Dynamo THEN Ids ELSE {i \in Ids : items[i] # Absent}
  <2>1. CASE Dynamo
    BY <2>1, OrderOfAll, CatalogueAssumption DEF Init
  <2>2. CASE ~Dynamo
    <3> DEFINE there == {i \in Ids : items[i] # Absent}
    <3>1. IsFiniteSet(there) /\ order \in SetToSeqs(there)
      BY <2>2, FS_Subset, CatalogueAssumption DEF Init
    <3>2. order \in Seq(there) /\ IsInjective(order) /\ Range(order) = there
      <4> HIDE DEF there
      <4>1. QED
        BY <3>1, OrderOfAll
    <3>3. QED
      BY <2>2, <3>2
  <2>3. QED
    BY <2>1, <2>2
<1>2. walk \in [stage : {"idle", "walking", "ended", "refused", "failed"},
                query : scenario.queries \cup {Absent},
                token : Ids \cup {NoToken, BadToken},
                seen : [Ids -> Nat]]
  BY DEF Init, NoWalk, Unseen
<1>3. QED
  BY <1>1, <1>2 DEF Init, TypeOK

(* What is asked of a document depends on the scenario alone, which never    *)
(* changes.                                                                  *)
LEMMA SameMatches ==
  ASSUME UNCHANGED scenario, NEW CONSTANT doc, NEW CONSTANT q
  PROVE  Matches(doc, q)' <=> Matches(doc, q)
<1>1. Dynamo' = Dynamo /\ OfFlows' = OfFlows
  BY DEF Dynamo, OfFlows
<1>2. FlowMatches(doc, q)' <=> FlowMatches(doc, q)
  BY <1>1 DEF FlowMatches, FlowAttribute, Has, TagsMatch
<1>3. SourceMatches(doc, q)' <=> SourceMatches(doc, q)
  BY <1>1 DEF SourceMatches, SourceTagMatches, Has, TagsMatch, InArray, IsArray
<1>4. QED
  BY <1>1, <1>2, <1>3 DEF Matches

(* Pages.  What the two repositories give agrees on this much: a page lists  *)
(* what the token has left, up to the item that the next token names, and    *)
(* of that everything that matches.                                          *)
SoundPage(page, view) ==
  /\ page.ids \subseteq After(walk.token)
  /\ page.next # NoToken => /\ page.next \in After(walk.token)
                            /\ page.ids \subseteq UpTo(page.next)
                            /\ ~Dynamo => Matches(items[page.next], walk.query)
  /\ \A i \in After(walk.token) :
       Matches(view[i], walk.query) /\ (page.next # NoToken => i \in UpTo(page.next))
       => i \in page.ids

LEMMA ScanPageSound ==
  ASSUME NEW view, TypeOK, Dynamo, NEW page \in ScanPages(walk.query, walk.token, view)
  PROVE  SoundPage(page, view)
<1> DEFINE there == {i \in After(walk.token) : view[i] # Absent}
           Listed(evaluated) == {i \in evaluated : Matches(view[i], walk.query)}
<1>1. \A i \in After(walk.token) : Matches(view[i], walk.query) => i \in there
  BY DEF Matches
<1>2. CASE page = [ids |-> Listed(there), next |-> NoToken]
  BY <1>1, <1>2 DEF SoundPage
<1>3. ASSUME NEW last \in there, page = [ids |-> Listed(there \cap UpTo(last)), next |-> last]
      PROVE  SoundPage(page, view)
  <2>1. page.ids = Listed(there \cap UpTo(last)) /\ page.next = last
    BY <1>3
  <2>2. page.ids \subseteq After(walk.token) /\ page.ids \subseteq UpTo(last)
    BY <2>1
  <2>3. last \in After(walk.token)
    OBVIOUS
  <2>4. \A i \in After(walk.token) :
          Matches(view[i], walk.query) /\ i \in UpTo(last) => i \in page.ids
    BY <1>1, <2>1
  <2>5. last # NoToken
    BY <2>3, CatalogueAssumption DEF After, TypeOK
  <2> HIDE DEF there, Listed
  <2>6. QED
    BY <2>1, <2>2, <2>3, <2>4, <2>5 DEF SoundPage
<1>4. QED
  BY <1>2, <1>3 DEF ScanPages

LEMMA MemoryPageSound ==
  ASSUME TypeOK, ~Dynamo, walk.query.limit \in Nat \ {0}
  PROVE  SoundPage(MemoryPage(walk.query, walk.token), items)
<1> DEFINE limit == walk.query.limit
           rest == Remaining(walk.query, walk.token)
           ids == {i \in rest : Cardinality(rest \cap UpTo(i)) <= limit}
           page == MemoryPage(walk.query, walk.token)
<1>1. page.ids = ids /\ page.next = IF ids = rest THEN NoToken ELSE FinalOf(ids)
  BY DEF MemoryPage
<1> USE DEF Remaining
<1>2. rest \subseteq Range(order) /\ IsFiniteSet(rest)
  <2>1. Range(order) \subseteq Ids
    BY DEF TypeOK
  <2>2. rest \subseteq Range(order)
    BY DEF After
  <2>3. QED
    BY <2>1, <2>2, FS_Subset, CatalogueAssumption
<1>3. CASE ids = rest
  BY <1>1, <1>3 DEF SoundPage
<1>4. CASE ids # rest
  <2>1. rest # {}
    BY <1>4
  <2>2. PICK i \in rest : rest \cap UpTo(i) = {i}
    <3> HIDE DEF rest
    <3>1. QED
      BY <1>2, <2>1, FirstOfSet DEF TypeOK
  <2>3. i \in ids
    <3>1. Cardinality({i}) = 1
      BY FS_Singleton
    <3>2. QED
      BY <2>2, <3>1
  <2>4. FinalOf(ids) \in ids /\ ids \subseteq UpTo(FinalOf(ids))
    <3>1. ids \subseteq Range(order) /\ ids # {}
      BY <1>2, <2>3
    <3> HIDE DEF ids
    <3>2. QED
      BY <3>1, FinalOfSet DEF TypeOK
  <2>5. ASSUME NEW j \in rest, j \in UpTo(FinalOf(ids))
        PROVE  j \in ids
    <3> DEFINE f == FinalOf(ids)
    <3>1. f \in Range(order) /\ j \in Range(order) /\ order \in Seq(Ids)
      BY <1>2, <2>4 DEF TypeOK
    <3>2. Position(order, j) <= Position(order, f)
      BY <2>5 DEF UpTo
    <3>3. \A k \in Range(order) : Position(order, k) \in Nat
      BY <3>1, PositionOf
    <3>4. rest \cap UpTo(j) \subseteq rest \cap UpTo(f)
      <4> HIDE DEF rest, f
      <4>1. ASSUME NEW k \in UpTo(j)
            PROVE  k \in UpTo(f)
        BY <3>1, <3>2, <3>3, <4>1 DEF UpTo
      <4>2. QED
        BY <4>1
    <3>5. IsFiniteSet(rest \cap UpTo(f))
      BY <1>2, FS_Intersection
    <3>6. /\ Cardinality(rest \cap UpTo(j)) <= Cardinality(rest \cap UpTo(f))
          /\ IsFiniteSet(rest \cap UpTo(j))
      BY <3>4, <3>5, FS_Subset
    <3>7. /\ Cardinality(rest \cap UpTo(j)) \in Nat
          /\ Cardinality(rest \cap UpTo(f)) \in Nat
      BY <3>5, <3>6, FS_CardinalityType
    <3>8. Cardinality(rest \cap UpTo(f)) <= limit
      BY <2>4
    <3>9. Cardinality(rest \cap UpTo(j)) <= limit
      BY <3>6, <3>7, <3>8
    <3>10. QED
      BY <3>9
  <2>6. FinalOf(ids) # NoToken
    BY <1>2, <2>4, CatalogueAssumption DEF TypeOK
  <2>7. QED
    BY <1>1, <1>4, <2>4, <2>5, <2>6 DEF SoundPage
<1>5. QED
  BY <1>3, <1>4

(* What asking for a page comes to: an error, or a sound page.               *)
Listed(page, view) ==
  /\ SoundPage(page, view)
  /\ \A i \in Ids : view[i] \in {items[i], copy[i]}
  /\ walk.token # BadToken
  /\ walk' = [walk EXCEPT
       !.stage = IF page.next = NoToken THEN "ended" ELSE "walking",
       !.token = page.next,
       !.seen = [i \in Ids |-> walk.seen[i] + (IF i \in page.ids THEN 1 ELSE 0)]]

LEMMA PageStep ==
  ASSUME TypeOK, NextPage
  PROVE  Refuse \/ Fail \/ \E page, view : Listed(page, view)
<1> USE DEF NextPage
<1>1. CASE Refuse
  BY <1>1
<1>2. CASE /\ ListQueryValid(walk.query)
           /\ MayPass(walk.query, walk.token)
           /\ Scan \/ ListInMemory
  <2>1. walk.token # BadToken \/ (~OfFlows /\ walk.token = BadToken)
    BY <1>2, CatalogueAssumption DEF MayPass, InvalidPageToken
  <2>2. CASE Scan
    <3>2. ASSUME ~ScanRejected(walk.query, walk.token),
                 NEW stale \in SUBSET {i \in Ids : copy[i] # items[i]},
                 NEW page \in ScanPages(walk.query, walk.token,
                                [i \in Ids |-> IF i \in stale THEN copy[i] ELSE items[i]]),
                 Turn(page, [i \in Ids |-> IF i \in stale THEN copy[i] ELSE items[i]])
          PROVE  Fail \/ \E p, view : Listed(p, view)
      <4> DEFINE view == [i \in Ids |-> IF i \in stale THEN copy[i] ELSE items[i]]
      <4>1. \A i \in Ids : view[i] \in {items[i], copy[i]}
        OBVIOUS
      <4> HIDE DEF view
      <4>2. SoundPage(page, view)
        BY <2>2, <3>2, ScanPageSound DEF Scan, view
      <4>3. Fail \/ Listed(page, view)
        BY <2>1, <3>2, <4>1, <4>2 DEF ScanRejected, Turn, Listed, view
      <4>4. QED
        BY <4>3
    <3>3. QED
      BY <2>2, <3>2 DEF Scan
  <2>3. CASE ListInMemory
    <3>1. ~Dynamo /\ OfFlows /\ walk.query.limit \in Nat \ {0}
      <4>1. ~Dynamo => OfFlows
        BY CatalogueAssumption DEF TypeOK, Dynamo, OfFlows
      <4>2. QED
        BY <4>1, <1>2, <2>3 DEF ListInMemory, ListQueryValid
    <3>2. SoundPage(MemoryPage(walk.query, walk.token), items)
      BY <3>1, MemoryPageSound
    <3>3. Fail \/ Listed(MemoryPage(walk.query, walk.token), items)
      BY <2>1, <2>3, <3>1, <3>2 DEF ListInMemory, Turn, Listed
    <3>4. QED
      BY <3>3
  <2>4. QED
    BY <1>2, <2>2, <2>3
<1>3. QED
  BY <1>1, <1>2

(* What storing an item does to the items and to their order.                *)
Kept(i, doc) ==
  /\ items' = [items EXCEPT ![i] = doc]
  /\ copy' = copy \/ copy' = [copy EXCEPT ![i] = doc]
  /\ order' = order \/ (i \notin Range(order) /\ order' = Append(order, i))
  /\ left' = IF walk.stage = "walking" /\ ~Matches(doc, walk.query)
             THEN left \cup {i} ELSE left
  /\ UNCHANGED <<scenario, walk, began>>

LEMMA KeepType ==
  ASSUME TypeOK, NEW i \in Ids, NEW doc, doc # Absent, Keep(i, doc), DOMAIN asked' = Ids
  PROVE  TypeOK' /\ Kept(i, doc)
<1>1. Kept(i, doc)
  BY DEF Keep, Kept
<1>2. DOMAIN items' = Ids /\ DOMAIN copy' = Ids /\ items'[i] = doc
      /\ \A j \in Ids \ {i} : items'[j] = items[j]
  BY <1>1 DEF Kept, TypeOK
<1>3. order' \in Seq(Ids) /\ IsInjective(order') /\ Range(order') = Range(order) \cup {i}
  <2>1. CASE i \in Range(order)
    BY <2>1 DEF Keep, TypeOK
  <2>2. CASE i \notin Range(order)
    <3>1. order' = Append(order, i)
      BY <2>2 DEF Keep
    <3>2. QED
      BY <2>2, <3>1, PositionAppended DEF TypeOK
  <2>3. QED
    BY <2>1, <2>2
<1>4. Range(order') = IF Dynamo' THEN Ids ELSE {j \in Ids : items'[j] # Absent}
  BY <1>1, <1>2, <1>3 DEF TypeOK, Dynamo, Kept
<1>5. ~Dynamo => \A j \in Ids : copy'[j] = items'[j]
  <2> DEFINE behind == {j \in Ids : copy'[j] # items'[j]}
  <2>1. IsFiniteSet(behind)
    BY FS_Subset, CatalogueAssumption
  <2>2. ~Dynamo => Cardinality(behind) <= 0
    BY DEF Keep
  <2> HIDE DEF behind
  <2>3. ~Dynamo => behind = {}
    BY <2>1, <2>2, FS_CardinalityType, FS_EmptySet
  <2>4. QED
    BY <2>3 DEF behind
<1>6. left' \subseteq Ids
  BY <1>1 DEF Kept, TypeOK
<1>7. QED
  BY <1>1, <1>2, <1>3, <1>4, <1>5, <1>6 DEF TypeOK, Kept, Dynamo

(* PutFlow and ChangeSource store a document.                                *)
LEMMA StoreStep ==
  ASSUME TypeOK, NEW i \in scenario.ids, PutFlow(i) \/ ChangeSource(i)
  PROVE  i \in Ids /\ TypeOK' /\ \E doc : Kept(i, doc)
<1>1. i \in Ids
  BY CatalogueAssumption DEF TypeOK
<1>2. CASE PutFlow(i)
  <2>1. PICK body \in Bodies(i), current \in {items[i], copy[i]}, now \in Times :
          /\ Keep(i, Rewritten(current, body, now))
          /\ asked' = [asked EXCEPT ![i] = Restrict(body, DOMAIN body \ Overwritten)]
    BY <1>2 DEF PutFlow
  <2>2. Rewritten(current, body, now) # Absent
    BY RewrittenFields
  <2>3. DOMAIN asked' = Ids
    BY <2>1 DEF TypeOK
  <2>4. QED
    BY <1>1, <2>1, <2>2, <2>3, KeepType
<1>3. CASE ChangeSource(i)
  <2>1. PICK source \in scenario.initial : Keep(i, source)
    BY <1>3 DEF ChangeSource
  <2>2. source # Absent
    BY CatalogueAssumption DEF TypeOK
  <2>3. DOMAIN asked' = Ids
    BY <1>3 DEF ChangeSource, TypeOK
  <2>4. QED
    BY <1>1, <2>1, <2>2, <2>3, KeepType
<1>4. QED
  BY <1>2, <1>3

LEMMA NextType == TypeOK /\ [Next]_vars => TypeOK'
<1> SUFFICES ASSUME TypeOK, [Next]_vars
             PROVE  TypeOK'
  OBVIOUS
<1> DEFINE Stages == {"idle", "walking", "ended", "refused", "failed"}
           Walks == [stage : Stages, query : scenario.queries \cup {Absent},
                     token : Ids \cup {NoToken, BadToken}, seen : [Ids -> Nat]]
<1>1. ASSUME UNCHANGED <<scenario, items, copy, order, asked>>, walk' \in Walks,
             began' \subseteq Ids, left' \subseteq Ids
      PROVE  TypeOK'
  BY <1>1 DEF TypeOK, Dynamo
<1>2. walk \in Walks
  BY DEF TypeOK
<1>3. NoWalk \in Walks
  BY DEF NoWalk, Unseen
<1>4. CASE StartWalk
  <2>1. PICK q \in scenario.queries, token \in {NoToken, BadToken} \cup Ids :
          walk' = [NoWalk EXCEPT !.stage = "walking", !.query = q, !.token = token]
    BY <1>4 DEF StartWalk
  <2>2. walk' \in Walks
    BY <1>3, <2>1
  <2> HIDE DEF Walks
  <2>3. QED
    BY <1>1, <1>4, <2>2 DEF StartWalk
<1>5. CASE NextPage
  <2>1. CASE Refuse \/ Fail
    <3>1. walk' \in Walks
      BY <1>2, <2>1 DEF Refuse, Fail
    <3> HIDE DEF Walks
    <3>2. QED
      BY <1>1, <1>5, <3>1 DEF NextPage, TypeOK
  <2>2. ASSUME NEW page, NEW view, Listed(page, view)
        PROVE  walk' \in Walks
    <3>1. page.next \in Ids \cup {NoToken}
      BY <2>2 DEF Listed, SoundPage, After, TypeOK
    <3> DEFINE seen == [i \in Ids |-> walk.seen[i] + (IF i \in page.ids THEN 1 ELSE 0)]
               stage == IF page.next = NoToken THEN "ended" ELSE "walking"
    <3>2. seen \in [Ids -> Nat] /\ stage \in Stages
      BY <1>2
    <3>3. walk' = [walk EXCEPT !.stage = stage, !.token = page.next, !.seen = seen]
      BY <2>2 DEF Listed
    <3> HIDE DEF seen, stage
    <3>4. QED
      BY <1>2, <3>1, <3>2, <3>3
  <2> HIDE DEF Walks
  <2>3. QED
    BY <1>1, <1>5, <2>1, <2>2, PageStep DEF NextPage, TypeOK
<1>6. CASE Close
  <2> HIDE DEF Walks
  <2>1. QED
    BY <1>1, <1>3, <1>6 DEF Close
<1>7. ASSUME NEW i \in scenario.ids, Replicate(i)
      PROVE  TypeOK'
  BY <1>7 DEF Replicate, TypeOK, Dynamo
<1>8. CASE UNCHANGED vars
  BY <1>8 DEF vars, TypeOK, Dynamo
<1>9. QED
  BY <1>4, <1>5, <1>6, <1>7, <1>8, StoreStep DEF Next

(* Whatever is stored and listed, the order holds each identifier at most    *)
(* once, and in memory those of the items that are there and no other.       *)
THEOREM TypeCorrect == Spec => []TypeOK
BY InitType, NextType, PTL DEF Spec

------------------------------------------------------------------------------
(* The walk.                                                                 *)

(* What the token of a walk has passed.                                      *)
Passed(i) == walk.token \in Ids /\ i \in UpTo(walk.token)

(* The token of a walk in memory is the name of an item that matched when it *)
(* was given; only a change can have undone that.                            *)
TokenGiven ==
  walk.stage = "walking" /\ walk.token \in Ids =>
    /\ walk.token \in Range(order)
    /\ ~Dynamo => Matches(items[walk.token], walk.query) \/ walk.token \in left

SeenPassed ==
  walk.stage = "walking" => \A i \in Ids : walk.seen[i] > 0 => Passed(i)

PassedSeen ==
  walk.stage = "walking" => \A i \in began \ left : Passed(i) => walk.seen[i] > 0

CertainStays ==
  walk.stage = "walking" => \A i \in began \ left : Certain(walk.query, i)

Walked ==
  /\ TokenGiven /\ SeenPassed /\ PassedSeen /\ CertainStays
  /\ SeenOnce /\ WalkComplete /\ RefusedByChange

LEMMA InitWalked == Init => Walked
  BY DEF Init, Walked, TokenGiven, SeenPassed, PassedSeen, CertainStays, NoWalk, Unseen,
         SeenOnce, WalkComplete, RefusedByChange

(* An item that has matched all along is ahead of the token or behind it.    *)
LEMMA PassedOrAhead ==
  ASSUME TypeOK, Walked, walk.stage = "walking", walk.token # BadToken,
         NEW i \in began \ left
  PROVE  /\ i \in Ids
         /\ Matches(items[i], walk.query) /\ Matches(copy[i], walk.query)
         /\ Passed(i) \/ i \in After(walk.token)
<1>1. i \in Ids /\ Matches(items[i], walk.query) /\ Matches(copy[i], walk.query)
  BY DEF Walked, CertainStays, Certain, TypeOK
<1>2. i \in Range(order)
  <2>1. items[i] # Absent
    BY <1>1 DEF Matches
  <2>2. QED
    BY <1>1, <2>1 DEF TypeOK
<1>3. CASE walk.token = NoToken
  BY <1>1, <1>2, <1>3 DEF After
<1>4. CASE walk.token \in Ids
  <2>1. walk.token \in Range(order)
    BY <1>4 DEF Walked, TokenGiven
  <2>2. Position(order, i) \in Nat /\ Position(order, walk.token) \in Nat
    BY <1>2, <2>1, PositionOf DEF TypeOK
  <2>3. walk.token # NoToken
    BY <1>4, CatalogueAssumption
  <2>4. QED
    BY <1>1, <1>2, <1>4, <2>2, <2>3 DEF Passed, UpTo, After
<1>5. walk.token = NoToken \/ walk.token \in Ids
  BY DEF TypeOK
<1>6. QED
  BY <1>1, <1>3, <1>4, <1>5

(* Nothing that is still ahead of the token has been shown.                  *)
LEMMA AheadUnseen ==
  ASSUME TypeOK, Walked, walk.stage = "walking", NEW i \in After(walk.token)
  PROVE  i \in Ids /\ walk.seen[i] = 0
<1>1. i \in Ids /\ i \in Range(order)
  BY DEF After, TypeOK
<1>2. ~Passed(i)
  <2>1. CASE walk.token \in Ids
    <3>1. walk.token \in Range(order)
      BY <2>1 DEF Walked, TokenGiven
    <3>2. Position(order, i) \in Nat /\ Position(order, walk.token) \in Nat
      BY <1>1, <3>1, PositionOf DEF TypeOK
    <3>3. walk.token # NoToken
      BY <2>1, CatalogueAssumption
    <3>4. QED
      BY <1>1, <3>2, <3>3 DEF Passed, UpTo, After
  <2>2. CASE walk.token \notin Ids
    BY <2>2 DEF Passed
  <2>3. QED
    BY <2>1, <2>2
<1>3. walk.seen[i] \in Nat
  BY <1>1 DEF TypeOK
<1>4. QED
  BY <1>1, <1>2, <1>3 DEF Walked, SeenPassed

LEMMA ListedStep ==
  ASSUME TypeOK, Walked, walk.stage = "walking", NEW page, NEW view, Listed(page, view),
         UNCHANGED <<scenario, items, copy, order, began, left>>
  PROVE  Walked'
<1> DEFINE seen(i) == walk.seen[i] + (IF i \in page.ids THEN 1 ELSE 0)
<1>1. /\ walk'.stage = IF page.next = NoToken THEN "ended" ELSE "walking"
      /\ walk'.token = page.next /\ walk'.query = walk.query
      /\ \A i \in Ids : walk'.seen[i] = seen(i)
  BY DEF Listed, TypeOK
<1>2. /\ page.ids \subseteq After(walk.token) /\ SoundPage(page, view)
      /\ walk.token # BadToken
      /\ \A i \in Ids : view[i] \in {items[i], copy[i]}
  BY DEF Listed, SoundPage
<1>3. \A i \in Ids : walk.seen[i] \in Nat /\ walk.seen[i] <= 1 /\ seen(i) \in Nat
  BY DEF TypeOK, Walked, SeenOnce
<1>4. SeenOnce'
  <2>1. \A i \in page.ids : i \in Ids /\ walk.seen[i] = 0
    BY <1>2, AheadUnseen
  <2>2. \A i \in Ids : seen(i) <= 1
    BY <1>3, <2>1
  <2>3. QED
    BY <1>1, <2>2 DEF SeenOnce
<1>5. ASSUME NEW i \in began \ left, page.next # NoToken => i \in UpTo(page.next)
      PROVE  seen(i) > 0
  <2>1. i \in Ids /\ Matches(view[i], walk.query)
    BY <1>2, PassedOrAhead
  <2>2. CASE Passed(i)
    <3>1. walk.seen[i] > 0
      BY <2>2 DEF Walked, PassedSeen
    <3>2. QED
      BY <1>3, <2>1, <3>1
  <2>3. CASE i \in After(walk.token)
    <3>1. i \in page.ids
      BY <1>2, <1>5, <2>1, <2>3 DEF SoundPage
    <3>2. QED
      BY <1>3, <2>1, <3>1
  <2>4. QED
    BY <1>2, <2>2, <2>3, PassedOrAhead
<1>6. CASE page.next = NoToken
  <2>1. \A i \in began \ left : walk'.seen[i] > 0
    BY <1>1, <1>5, <1>6 DEF TypeOK
  <2>2. walk'.stage = "ended"
    BY <1>1, <1>6
  <2>3. QED
    BY <1>4, <2>1, <2>2
    DEF Walked, TokenGiven, SeenPassed, PassedSeen, CertainStays, WalkComplete, RefusedByChange
<1>7. CASE page.next # NoToken
  <2>1. walk'.stage = "walking" /\ page.next \in Range(order) /\ page.next \in Ids
    BY <1>1, <1>2, <1>7 DEF SoundPage, After, TypeOK
  <2>2. \A i \in Ids : Passed(i)' <=> i \in UpTo(page.next)
    BY <1>1, <2>1 DEF Passed, UpTo
  <2>3. TokenGiven'
    <3>1. ~Dynamo => Matches(items[page.next], walk.query)
      BY <1>2, <1>7 DEF SoundPage
    <3>2. QED
      BY <1>1, <2>1, <3>1, SameMatches DEF TokenGiven, Dynamo
  <2>4. SeenPassed'
    <3>1. ASSUME NEW i \in Ids, seen(i) > 0
          PROVE  i \in UpTo(page.next)
      <4>1. CASE i \in page.ids
        BY <1>2, <1>7, <4>1 DEF SoundPage
      <4>2. CASE i \notin page.ids
        <5>1. walk.seen[i] > 0
          BY <1>3, <3>1, <4>2
        <5>2. walk.token \in Ids /\ i \in UpTo(walk.token)
          BY <5>1 DEF Walked, SeenPassed, Passed
        <5>3. i \in Range(order) /\ walk.token \in Range(order)
          BY <5>2 DEF UpTo, Walked, TokenGiven
        <5>4. walk.token # NoToken /\ page.next \in After(walk.token)
          BY <1>2, <1>7, <5>2, CatalogueAssumption DEF SoundPage
        <5>5. /\ Position(order, i) <= Position(order, walk.token)
              /\ Position(order, walk.token) < Position(order, page.next)
          BY <5>2, <5>4 DEF UpTo, After
        <5>6. /\ Position(order, i) \in Nat /\ Position(order, walk.token) \in Nat
              /\ Position(order, page.next) \in Nat
          BY <2>1, <5>3, PositionOf DEF TypeOK
        <5>7. QED
          BY <5>3, <5>5, <5>6 DEF UpTo
      <4>3. QED
        BY <4>1, <4>2
    <3>2. QED
      BY <1>1, <2>1, <2>2, <3>1 DEF SeenPassed
  <2>5. PassedSeen'
    <3>1. \A i \in began \ left : i \in Ids
      BY DEF TypeOK
    <3>2. QED
      BY <1>1, <1>5, <2>2, <3>1 DEF PassedSeen
  <2>6. CertainStays'
    BY <1>1, SameMatches DEF Walked, CertainStays, Certain
  <2>7. QED
    BY <1>4, <2>1, <2>3, <2>4, <2>5, <2>6 DEF Walked, WalkComplete, RefusedByChange
<1>8. QED
  BY <1>6, <1>7

(* A new item is put behind all others: behind no token has it been passed.  *)
LEMMA KeptStep ==
  ASSUME TypeOK, Walked, NEW i \in Ids, NEW doc, Kept(i, doc)
  PROVE  Walked'
<1>1. UNCHANGED <<scenario, walk, began>>
  BY DEF Kept
<1>2. CASE walk.stage # "walking"
  BY <1>1, <1>2
  DEF Kept, Walked, TokenGiven, SeenPassed, PassedSeen, CertainStays, SeenOnce, WalkComplete,
      RefusedByChange, Dynamo, ListQueryValid, OfFlows
<1>3. CASE walk.stage = "walking"
  <2>1. /\ \A j \in Ids : items'[j] = IF j = i THEN doc ELSE items[j]
        /\ \A j \in Ids : copy'[j] = copy[j] \/ (j = i /\ copy'[j] = doc)
    BY DEF Kept, TypeOK
  <2>2. left \subseteq left' /\ (i \in left' \/ Matches(doc, walk.query))
    BY <1>3 DEF Kept
  <2>3. \A j \in Range(order) : j \in Range(order') /\ Position(order', j) = Position(order, j)
    <3>1. CASE order' = order
      BY <3>1
    <3>2. CASE i \notin Range(order) /\ order' = Append(order, i)
      <4>1. order \in Seq(Ids) /\ IsInjective(order) /\ i \in Ids \ Range(order)
        BY <3>2 DEF TypeOK
      <4>2. /\ Range(Append(order, i)) = Range(order) \cup {i}
            /\ \A j \in Range(order) : Position(Append(order, i), j) = Position(order, j)
        BY <4>1, PositionAppended
      <4>3. QED
        BY <3>2, <4>2
    <3>3. QED
      BY <3>1, <3>2 DEF Kept
  <2>4. ASSUME walk.token \in Ids, NEW j \in Ids
        PROVE  Passed(j)' <=> Passed(j)
    <3>1. walk.token \in Range(order)
      BY <1>3, <2>4 DEF Walked, TokenGiven
    <3>2. CASE order' = order
      BY <1>1, <3>2 DEF Passed, UpTo
    <3>3. CASE i \notin Range(order) /\ order' = Append(order, i)
      <4>1. /\ Range(order') = Range(order) \cup {i}
            /\ Position(order', i) = Len(order) + 1
        BY <3>3, PositionAppended DEF TypeOK
      <4>2. Position(order, walk.token) \in 1 .. Len(order) /\ Len(order) \in Nat
        BY <3>1, PositionOf DEF TypeOK
      <4>3. CASE j \in Range(order)
        BY <1>1, <2>3, <3>1, <4>1, <4>3 DEF Passed, UpTo
      <4>4. CASE j = i
        <5>1. ~(Position(order', i) <= Position(order', walk.token))
          BY <2>3, <3>1, <4>1, <4>2
        <5>2. QED
          BY <1>1, <3>3, <4>4, <5>1 DEF Passed, UpTo
      <4>5. CASE j \notin Range(order) /\ j # i
        BY <1>1, <4>1, <4>5 DEF Passed, UpTo
      <4>6. QED
        BY <4>3, <4>4, <4>5
    <3>4. QED
      BY <3>2, <3>3 DEF Kept
  <2>5. \A j \in Ids : Passed(j)' <=> Passed(j)
    BY <1>1, <2>4 DEF Passed
  <2>6. TokenGiven'
    <3>1. ASSUME walk.token \in Ids, ~Dynamo
          PROVE  Matches(items'[walk.token], walk.query) \/ walk.token \in left'
      <4>1. Matches(items[walk.token], walk.query) \/ walk.token \in left
        BY <1>3, <3>1 DEF Walked, TokenGiven
      <4>2. QED
        BY <2>1, <2>2, <3>1, <4>1
    <3>2. walk.token \in Ids => walk.token \in Range(order')
      BY <1>3, <2>3 DEF Walked, TokenGiven
    <3>3. QED
      BY <1>1, <3>1, <3>2, SameMatches DEF TokenGiven, Dynamo
  <2>7. SeenPassed'
    BY <1>1, <1>3, <2>5 DEF Walked, SeenPassed
  <2>8. PassedSeen'
    BY <1>1, <1>3, <2>2, <2>5 DEF Walked, PassedSeen, TypeOK
  <2>9. CertainStays'
    <3>1. ASSUME NEW j \in began \ left'
          PROVE  Matches(items'[j], walk.query) /\ Matches(copy'[j], walk.query)
      <4>1. /\ j \in Ids /\ j \in began \ left
            /\ Matches(items[j], walk.query) /\ Matches(copy[j], walk.query)
        BY <1>3, <2>2 DEF Walked, CertainStays, Certain, TypeOK
      <4>2. QED
        BY <2>1, <2>2, <3>1, <4>1
    <3>2. QED
      BY <1>1, <3>1, SameMatches DEF CertainStays, Certain
  <2>10. SeenOnce' /\ WalkComplete' /\ RefusedByChange'
    BY <1>1, <1>3 DEF Walked, SeenOnce, WalkComplete, RefusedByChange
  <2>11. QED
    BY <2>6, <2>7, <2>8, <2>9, <2>10 DEF Walked
<1>4. QED
  BY <1>2, <1>3

LEMMA NextWalked == TypeOK /\ Walked /\ [Next]_vars => Walked'
<1> SUFFICES ASSUME TypeOK, Walked, [Next]_vars
             PROVE  Walked'
  OBVIOUS
<1> USE DEF Walked
<1>1. CASE StartWalk
  <2>1. /\ walk'.stage = "walking" /\ walk'.seen = Unseen
        /\ walk'.token \in Ids => Dynamo
        /\ \A i \in began' : /\ Certain(walk'.query, i)
                             /\ walk'.token \in Ids => i \in After(walk'.token)
        /\ UNCHANGED <<scenario, items, copy, order>>
    BY <1>1, CatalogueAssumption DEF StartWalk, NoWalk
  <2>2. TokenGiven'
    <3>1. Dynamo => Range(order) = Ids
      BY DEF TypeOK
    <3>2. QED
      BY <2>1, <3>1 DEF TokenGiven, Dynamo
  <2>3. CertainStays'
    BY <2>1, SameMatches DEF CertainStays, Certain
  <2>4. SeenOnce' /\ SeenPassed'
    BY <2>1 DEF SeenOnce, SeenPassed, Unseen
  <2>5. PassedSeen'
    <3>1. ASSUME NEW i \in began', walk'.token \in Ids
          PROVE  ~(i \in UpTo(walk'.token))
      <4>1. /\ i \in Range(order) /\ walk'.token \in Range(order)
            /\ walk'.token # NoToken
            /\ walk'.token = NoToken \/ Position(order, walk'.token) < Position(order, i)
        BY <2>1, <3>1, CatalogueAssumption DEF After, TypeOK
      <4>2. Position(order, i) \in Nat /\ Position(order, walk'.token) \in Nat
        BY <4>1, PositionOf DEF TypeOK
      <4>3. QED
        BY <4>1, <4>2 DEF UpTo
    <3>2. QED
      BY <2>1, <3>1 DEF PassedSeen, Passed, UpTo
  <2>6. QED
    BY <2>1, <2>2, <2>3, <2>4, <2>5 DEF WalkComplete, RefusedByChange
<1>2. CASE NextPage
  <2>1. walk.stage = "walking" /\ UNCHANGED <<scenario, items, copy, order, began, left>>
    BY <1>2 DEF NextPage
  <2>2. CASE Refuse
    <3>1. /\ walk'.stage = "refused" /\ walk'.seen = walk.seen
          /\ walk'.query = walk.query /\ walk'.token = walk.token
      BY <2>2 DEF Refuse, TypeOK
    <3>2. CASE ~ListQueryValid(walk.query)
      BY <2>1, <3>1, <3>2
      DEF TokenGiven, SeenPassed, PassedSeen, CertainStays, SeenOnce, WalkComplete,
          RefusedByChange, ListQueryValid, OfFlows, Dynamo
    <3>3. CASE InvalidPageToken(walk.query, walk.token)
      <4>1. walk.token = BadToken \/ (~Dynamo /\ walk.token \in left)
        BY <2>1, <3>3 DEF InvalidPageToken, TokenGiven
      <4>2. QED
        BY <2>1, <3>1, <4>1
        DEF TokenGiven, SeenPassed, PassedSeen, CertainStays, SeenOnce, WalkComplete,
            RefusedByChange, Dynamo
    <3>4. QED
      BY <2>2, <3>2, <3>3 DEF Refuse
  <2>3. CASE Fail
    <3>1. walk'.stage = "failed" /\ walk'.seen = walk.seen
      BY <2>3 DEF Fail, TypeOK
    <3>2. QED
      BY <3>1
      DEF TokenGiven, SeenPassed, PassedSeen, CertainStays, SeenOnce, WalkComplete,
          RefusedByChange
  <2>4. QED
    BY <1>2, <2>1, <2>2, <2>3, PageStep, ListedStep
<1>3. CASE Close
  <2>1. walk'.stage = "idle" /\ walk'.seen = Unseen
    BY <1>3 DEF Close, NoWalk
  <2>2. QED
    BY <2>1
    DEF TokenGiven, SeenPassed, PassedSeen, CertainStays, SeenOnce, WalkComplete,
        RefusedByChange, Unseen
<1>4. ASSUME NEW i \in scenario.ids, PutFlow(i) \/ ChangeSource(i)
      PROVE  Walked'
  BY <1>4, StoreStep, KeptStep
<1>5. ASSUME NEW i \in scenario.ids, Replicate(i)
      PROVE  Walked'
  <2>1. UNCHANGED <<scenario, items, order, walk, began, left>>
    BY <1>5 DEF Replicate
  <2>2. \A j \in Ids : copy'[j] \in {copy[j], items[j]}
    BY <1>5 DEF Replicate, TypeOK
  <2>3. CertainStays'
    BY <2>1, <2>2, SameMatches DEF CertainStays, Certain, TypeOK
  <2>4. TokenGiven'
    BY <2>1, SameMatches DEF TokenGiven, Dynamo
  <2>5. QED
    BY <2>1, <2>3, <2>4
    DEF SeenPassed, PassedSeen, Passed, UpTo, SeenOnce, WalkComplete, RefusedByChange,
        ListQueryValid, OfFlows, Dynamo
<1>6. CASE UNCHANGED vars
  <2>1. UNCHANGED <<scenario, items, copy, order, walk, began, left>>
    BY <1>6 DEF vars
  <2>2. QED
    BY <2>1, SameMatches
    DEF TokenGiven, CertainStays, Certain, SeenPassed, PassedSeen, Passed, UpTo, SeenOnce,
        WalkComplete, RefusedByChange, ListQueryValid, OfFlows, Dynamo
<1>7. QED
  BY <1>1, <1>2, <1>3, <1>4, <1>5, <1>6 DEF Next

LEMMA WalkedHolds == Spec => []Walked
<1>1. TypeOK /\ Walked /\ [Next]_vars => Walked'
  BY NextWalked
<1>2. QED
  BY <1>1, InitWalked, TypeCorrect, PTL DEF Spec

(* Whoever follows the tokens to the end has seen every item that matched    *)
(* for as long as the walk took, in a table as in memory, whatever was       *)
(* stored meanwhile and however late the copies are.                         *)
THEOREM WalksComplete == Spec => []WalkComplete
<1>1. Walked => WalkComplete
  BY DEF Walked
<1>2. QED
  BY <1>1, WalkedHolds, PTL

(* And has seen none of them twice.                                          *)
THEOREM ShownOnce == Spec => []SeenOnce
<1>1. Walked => SeenOnce
  BY DEF Walked
<1>2. QED
  BY <1>1, WalkedHolds, PTL

(* Only the memory repository refuses a token that it has given, and only    *)
(* when the item it names has ceased to match since the walk began.          *)
THEOREM RefusalsExplained == Spec => []RefusedByChange
<1>1. Walked => RefusedByChange
  BY DEF Walked
<1>2. QED
  BY <1>1, WalkedHolds, PTL

(* Every page brings a walk further down the order, an empty one too.        *)
THEOREM WalksAdvance == Spec => WalkAdvances
<1> DEFINE Advance == walk.stage = "walking" /\ walk'.stage = "walking" /\ walk' # walk =>
             /\ walk'.token \in Ids
             /\ walk.token = NoToken
                \/ Position(order, walk.token) < Position(order, walk'.token)
<1>1. TypeOK /\ [Next]_vars => [Advance]_vars
  <2> SUFFICES ASSUME TypeOK, [Next]_vars, walk.stage = "walking", walk'.stage = "walking",
                      walk' # walk
               PROVE  /\ walk'.token \in Ids
                      /\ walk.token = NoToken
                         \/ Position(order, walk.token) < Position(order, walk'.token)
    OBVIOUS
  <2>1. NextPage
    BY StoreStep DEF Next, StartWalk, Close, NoWalk, Replicate, Kept, vars
  <2>2. ~Refuse /\ ~Fail
    BY DEF Refuse, Fail, TypeOK
  <2>3. PICK page, view : Listed(page, view)
    BY <2>1, <2>2, PageStep
  <2>4. page.next # NoToken /\ walk'.token = page.next
    BY <2>3 DEF Listed, TypeOK
  <2>5. page.next \in After(walk.token)
    BY <2>3, <2>4 DEF Listed, SoundPage
  <2>6. QED
    BY <2>4, <2>5 DEF After, TypeOK
<1>2. QED
  BY <1>1, TypeCorrect, PTL DEF Spec, WalkAdvances

=============================================================================
