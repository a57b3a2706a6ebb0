------------------------ MODULE FlowDocumentsProofs --------------------------
(* What a flow is after any number of PUTs, and that GET gives back what PUT *)
(* was given.                                                                *)
EXTENDS CatalogueProofs, DocumentsProofs

(* The fields of a flow that putFlow takes from elsewhere.                   *)
Taken == {<<"created">>, <<"metadataUpdated">>, <<"segmentDuration">>, <<"generation">>}

LEMMA Untouched ==
  ASSUME NEW format \in Formats, NEW pair \in FlowNames(format), pair[2] \notin Overwritten
  PROVE  /\ pair[1] \notin Taken /\ pair # PixelPair
         /\ pair[1] \in Dates <=> pair[2] = <<"segments_updated">>
<1>1. \A b \in CommonFlow : pair[1] = b[1] <=> pair[2] = b[2]
  BY FlowNamesTable DEF FlowTable, Table, Renaming, OneToOne
<1>2. /\ pair[1] = <<"created">> <=> pair[2] = <<"created">>
      /\ pair[1] = <<"metadataUpdated">> <=> pair[2] = <<"metadata_updated">>
      /\ pair[1] = <<"segmentsUpdated">> <=> pair[2] = <<"segments_updated">>
      /\ pair[1] = <<"segmentDuration">> <=> pair[2] = <<"segment_duration">>
      /\ pair[1] = <<"generation">> <=> pair[2] = <<"generation">>
  BY <1>1, NamedFields
<1>3. pair[1] # <<"updated">>
  BY FlowNamesTable DEF FlowTable
<1>4. pair[1] \notin Taken
  BY <1>2 DEF Overwritten, Taken
<1>5. pair # PixelPair
  BY DEF Overwritten, PixelPair
<1>6. pair[1] \in Dates <=> pair[1] = <<"segmentsUpdated">>
  BY <1>3, <1>4 DEF Dates, Taken
<1>7. QED
  BY <1>2, <1>4, <1>5, <1>6

(* What putFlow keeps of the flow it has found, and where the value of a     *)
(* field comes from.                                                         *)
KeptOf(current) ==
  {<<"created">>, <<"segmentDuration">>, <<"generation">>} \cap DOMAIN current

Origin(current, body, now, p) ==
  IF p \in KeptOf(current) THEN current[p]
  ELSE IF p \in {<<"created">>, <<"metadataUpdated">>} THEN now ELSE FromApi(body)[p]

LEMMA RewrittenValues ==
  ASSUME NEW current, NEW body, NEW now
  PROVE  /\ DOMAIN Rewritten(current, body, now) =
              (DOMAIN FromApi(body) \ {<<"segmentDuration">>, <<"generation">>})
              \cup KeptOf(current) \cup {<<"created">>, <<"metadataUpdated">>}
         /\ \A p \in DOMAIN Rewritten(current, body, now) :
              Rewritten(current, body, now)[p] =
                IF Dynamo /\ p \in Dates THEN Seconds(Origin(current, body, now, p))
                ELSE Origin(current, body, now, p)
<1> DEFINE fields == (DOMAIN FromApi(body) \ {<<"segmentDuration">>, <<"generation">>})
                     \cup KeptOf(current) \cup {<<"created">>, <<"metadataUpdated">>}
           written == [p \in fields |-> Origin(current, body, now, p)]
<1>1. Rewritten(current, body, now) = IF Dynamo THEN ToRecord(written) ELSE written
  BY DEF Rewritten, KeptOf, Origin
<1>2. DOMAIN written = fields /\ \A p \in fields : written[p] = Origin(current, body, now, p)
  OBVIOUS
<1> HIDE DEF fields, written
<1>3. CASE Dynamo
  <2>1. Rewritten(current, body, now) =
          [p \in fields |-> IF p \in Dates THEN Seconds(written[p]) ELSE written[p]]
    BY <1>1, <1>2, <1>3 DEF ToRecord
  <2>2. QED
    BY <1>2, <1>3, <2>1 DEF fields
<1>4. CASE ~Dynamo
  BY <1>1, <1>2, <1>4 DEF fields
<1>5. QED
  BY <1>3, <1>4

LEMMA NotTaken ==
  ASSUME NEW current, NEW body, NEW now, NEW p, p \notin Taken
  PROVE  /\ p \in DOMAIN Rewritten(current, body, now) <=> p \in DOMAIN FromApi(body)
         /\ p \in DOMAIN FromApi(body) =>
              Rewritten(current, body, now)[p] =
                IF Dynamo /\ p \in Dates THEN Seconds(FromApi(body)[p]) ELSE FromApi(body)[p]
<1>1. /\ p \notin {<<"created">>, <<"metadataUpdated">>}
      /\ p \notin {<<"segmentDuration">>, <<"generation">>}
      /\ p \notin KeptOf(current)
  BY DEF Taken, KeptOf
<1>2. p \in DOMAIN Rewritten(current, body, now) <=> p \in DOMAIN FromApi(body)
  BY <1>1, RewrittenValues
<1>3. Origin(current, body, now, p) = FromApi(body)[p]
  BY <1>1 DEF Origin
<1>4. p \in DOMAIN Rewritten(current, body, now) =>
        Rewritten(current, body, now)[p] =
          IF Dynamo /\ p \in Dates THEN Seconds(Origin(current, body, now, p))
          ELSE Origin(current, body, now, p)
  BY RewrittenValues
<1>5. QED
  BY <1>2, <1>3, <1>4

(* What every flow that is stored is.                                        *)
WellFormed(flow) ==
  /\ <<"format">> \in DOMAIN flow /\ FormatOf(flow) \in Formats
  /\ DOMAIN flow \subseteq Inner(FlowNames(FormatOf(flow)))
  /\ {<<"created">>, <<"metadataUpdated">>} \subseteq DOMAIN flow
  /\ \A p \in DOMAIN flow : flow[p] # Malformed
  /\ Dynamo => \A p \in DOMAIN flow \cap Dates : flow[p] = Seconds(flow[p])
  /\ FormatOf(flow) = "video" =>
       /\ InnerPixelAspectRatio \in DOMAIN flow <=> InnerAspectRatio \in DOMAIN flow
       /\ InnerAspectRatio \in DOMAIN flow =>
            flow[InnerPixelAspectRatio] = flow[InnerAspectRatio]

(* GET shows all of such a flow.                                             *)
LEMMA ShownFields ==
  ASSUME OfFlows, NEW flow,
         <<"format">> \in DOMAIN flow, FormatOf(flow) \in Formats,
         DOMAIN flow \subseteq Inner(FlowNames(FormatOf(flow)))
  PROVE  /\ DOMAIN Shown(flow) \subseteq Outer(FlowNames(FormatOf(flow)))
         /\ \A pair \in FlowNames(FormatOf(flow)) :
              /\ pair[2] \in DOMAIN Shown(flow) <=> pair[1] \in DOMAIN flow
              /\ pair[1] \in DOMAIN flow => Shown(flow)[pair[2]] = flow[pair[1]]
         /\ <<"format">> \in DOMAIN Shown(flow) /\ FormatOf(Shown(flow)) = FormatOf(flow)
<1> DEFINE read == IF Dynamo THEN RecordToFlow(flow) ELSE flow
<1>1. DOMAIN read = DOMAIN flow /\ \A p \in DOMAIN flow : read[p] = flow[p]
  BY RecordToFlowFields
<1>2. FormatOf(read) = FormatOf(flow)
  BY <1>1 DEF FormatOf
<1>3. Shown(flow) = ToApi(read)
  BY DEF Shown
<1> HIDE DEF read
<1>4. /\ DOMAIN Shown(flow) \subseteq Outer(FlowNames(FormatOf(flow)))
      /\ \A pair \in FlowNames(FormatOf(flow)) :
           /\ pair[2] \in DOMAIN Shown(flow) <=> pair[1] \in DOMAIN flow
           /\ pair[1] \in DOMAIN flow => Shown(flow)[pair[2]] = flow[pair[1]]
  BY <1>1, <1>2, <1>3, ToApiFields
<1>5. <<<<"format">>, <<"format">>>> \in FlowNames(FormatOf(flow))
  BY NamedFields, FlowNamesTable DEF FlowTable
<1>6. <<"format">> \in DOMAIN Shown(flow) /\ Shown(flow)[<<"format">>] = flow[<<"format">>]
  BY <1>4, <1>5
<1>7. QED
  BY <1>4, <1>6 DEF FormatOf

------------------------------------------------------------------------------
(* What the validator asks for is none of what putFlow takes from elsewhere. *)

LEMMA Appended ==
  ASSUME NEW n, NEW m, NEW k
  PROVE  /\ Append(<<>>, n) = <<n>> /\ Append(<<n>>, m) = <<n, m>>
         /\ Len(Append(<<n, m>>, k)) = 3
<1> DEFINE S == {n, m, k}
<1>1. /\ <<n>> \in Seq(S) /\ <<n, m>> \in Seq(S) /\ Len(<<n, m>>) = 2
      /\ m \in S /\ k \in S
  OBVIOUS
<1> HIDE DEF S
<1>2. Append(<<n>>, m) = <<n>> \o <<m>>
  BY <1>1, AppendIsConcat
<1>3. <<n>> \o <<m>> = <<n, m>>
  BY Pair
<1>4. Append(<<n>>, m) = <<n, m>>
  BY <1>2, <1>3
<1>5. Len(Append(<<n, m>>, k)) = 3
  BY <1>1, AppendProperties
<1>6. Append(<<>>, n) = <<n>>
  OBVIOUS
<1>7. QED
  BY <1>4, <1>5, <1>6

LEMMA OverwrittenShort == \A p \in Overwritten : Len(p) # 3
<1>1. /\ Len(<<"created">>) = 1 /\ Len(<<"metadata_updated">>) = 1
      /\ Len(<<"segment_duration">>) = 1 /\ Len(<<"generation">>) = 1
      /\ Len(PixelAspectRatio) = 2
  BY DEF PixelAspectRatio
<1>2. QED
  BY <1>1 DEF Overwritten

LEMMA RequiredApart ==
  ASSUME NEW format \in Formats, NEW required \in Required(format)
  PROVE  /\ required[1] \notin Overwritten
         /\ Append(required[1], required[2]) \notin Overwritten
<1> DEFINE name == required[2]
           Apart == /\ required[1] \notin Overwritten
                    /\ Append(required[1], required[2]) \notin Overwritten
<1>1. \/ required[1] = <<>> /\ name \in {"id", "source_id", "codec", "format",
                                        "essence_parameters"}
      \/ required[1] = <<"flow_collection", "item">>
      \/ required[1] = <<"essence_parameters">> /\ name \in RequiredEssence(format)
      \/ required[1] \in {Append(<<"essence_parameters">>, "unc_parameters"),
                          Append(<<"essence_parameters">>, "avc_parameters")}
  BY DEF Required
<1>2. CASE required[1] = <<>> /\ name \in {"id", "source_id", "codec", "format",
                                         "essence_parameters"}
  <2>1. Append(required[1], name) = <<name>>
    BY <1>2, Appended
  <2>2. <<name>> \notin Overwritten /\ <<>> \notin Overwritten
    BY <1>2 DEF Overwritten, PixelAspectRatio
  <2>3. QED
    BY <1>2, <2>1, <2>2
<1>3. CASE required[1] = <<"flow_collection", "item">>
  <2>1. Len(Append(required[1], name)) = 3
    BY <1>3, Appended
  <2>2. required[1] \notin Overwritten
    BY <1>3 DEF Overwritten, PixelAspectRatio
  <2>3. QED
    BY <2>1, <2>2, OverwrittenShort
<1>4. CASE required[1] = <<"essence_parameters">> /\ name \in RequiredEssence(format)
  <2>1. Append(required[1], name) = <<"essence_parameters", name>>
    BY <1>4, Appended
  <2>2. name # "pixel_aspect_ratio"
    BY <1>4 DEF RequiredEssence, Formats
  <2>3. <<"essence_parameters", name>> \notin Overwritten
    BY <2>2 DEF Overwritten, PixelAspectRatio
  <2>4. required[1] \notin Overwritten
    BY <1>4 DEF Overwritten, PixelAspectRatio
  <2>5. QED
    BY <2>1, <2>3, <2>4
<1>5. CASE required[1] \in {Append(<<"essence_parameters">>, "unc_parameters"),
                           Append(<<"essence_parameters">>, "avc_parameters")}
  <2>1. required[1] \in {<<"essence_parameters", "unc_parameters">>,
                        <<"essence_parameters", "avc_parameters">>}
    BY <1>5, Appended
  <2>2. Len(Append(required[1], name)) = 3
    BY <2>1, Appended
  <2>3. required[1] \notin Overwritten
    BY <2>1 DEF Overwritten, PixelAspectRatio
  <2>4. QED
    BY <2>2, <2>3, OverwrittenShort
<1>6. QED
  BY <1>1, <1>2, <1>3, <1>4, <1>5

------------------------------------------------------------------------------
(* What putFlow stores of a body.                                            *)

LEMMA ReadWell ==
  ASSUME NEW body, FlowValid(body)
  PROVE  /\ FormatOf(body) \in Formats
         /\ \A p \in DOMAIN FromApi(body) : FromApi(body)[p] # Malformed
<1> DEFINE names == FlowNames(FormatOf(body))
<1>1. /\ FormatOf(body) \in Formats
      /\ \A q \in DOMAIN body : body[q] # Malformed
  BY DEF FlowValid, Known, Range
<1>2. ASSUME NEW pair \in names, FormatOf(body) = "video" => pair # PixelPair,
             pair[1] \in DOMAIN FromApi(body)
      PROVE  FromApi(body)[pair[1]] # Malformed
  BY <1>1, <1>2, FromApiFields
<1>3. ASSUME FormatOf(body) = "video", InnerPixelAspectRatio \in DOMAIN FromApi(body)
      PROVE  FromApi(body)[InnerPixelAspectRatio] # Malformed
  <2>1. InnerAspectRatio \in DOMAIN FromApi(body)
        /\ FromApi(body)[InnerPixelAspectRatio] = FromApi(body)[InnerAspectRatio]
    BY <1>1, <1>3, FromApiFields
  <2>2. <<InnerAspectRatio, AspectRatio>> \in names
    BY <1>3, RatioFields DEF FlowNames
  <2>3. <<InnerAspectRatio, AspectRatio>> # PixelPair
    BY DEF PixelPair, InnerAspectRatio, InnerPixelAspectRatio
  <2>4. FromApi(body)[InnerAspectRatio] # Malformed
    BY <1>2, <2>1, <2>2, <2>3
  <2>5. QED
    BY <2>1, <2>4
<1>4. ASSUME NEW p \in DOMAIN FromApi(body)
      PROVE  FromApi(body)[p] # Malformed
  <2>1. PICK pair \in names : pair[1] = p
    BY <1>1, FromApiFields DEF Inner
  <2>2. CASE FormatOf(body) = "video" => pair # PixelPair
    BY <1>2, <2>1, <2>2
  <2>3. CASE FormatOf(body) = "video" /\ pair = PixelPair
    BY <1>3, <2>1, <2>3 DEF PixelPair
  <2>4. QED
    BY <2>2, <2>3
<1>5. QED
  BY <1>1, <1>4

LEMMA SecondsTwice ==
  ASSUME NEW value
  PROVE  Seconds(value) # Malformed /\ Seconds(Seconds(value)) = Seconds(value)
  BY DEF Seconds, Malformed

LEMMA RewrittenBody ==
  ASSUME NEW current, NEW body, FlowValid(body), NEW now,
         NEW pair \in FlowNames(FormatOf(body)), pair[2] \notin Overwritten
  PROVE  /\ pair[1] \in DOMAIN Rewritten(current, body, now) <=> pair[2] \in DOMAIN body
         /\ pair[2] \in DOMAIN body =>
              Rewritten(current, body, now)[pair[1]] =
                IF Dynamo /\ pair[2] = <<"segments_updated">>
                THEN Seconds(body[pair[2]]) ELSE body[pair[2]]
<1>1. FormatOf(body) \in Formats
  BY DEF FlowValid
<1>2. /\ pair[1] \notin Taken /\ pair # PixelPair
      /\ pair[1] \in Dates <=> pair[2] = <<"segments_updated">>
  BY <1>1, Untouched
<1>3. /\ pair[1] \in DOMAIN FromApi(body) <=> pair[2] \in DOMAIN body
      /\ pair[2] \in DOMAIN body => FromApi(body)[pair[1]] = body[pair[2]]
  BY <1>1, <1>2, FromApiFields
<1>4. QED
  BY <1>2, <1>3, NotTaken

LEMMA RewrittenWellFormed ==
  ASSUME NEW current, current = Absent \/ WellFormed(current),
         NEW body, FlowValid(body), NEW now \in Times
  PROVE  /\ WellFormed(Rewritten(current, body, now))
         /\ FormatOf(Rewritten(current, body, now)) = FormatOf(body)
<1> DEFINE flow == Rewritten(current, body, now)
           names == FlowNames(FormatOf(body))
<1>1. FormatOf(body) \in Formats /\ <<"format">> \in DOMAIN body
  BY DEF FlowValid
<1>2. CommonFlow \subseteq names
  BY <1>1, FlowNamesTable DEF FlowTable
<1>3. <<"format">> \in DOMAIN flow /\ FormatOf(flow) = FormatOf(body)
  <2>1. <<"format">> \notin Overwritten /\ <<"format">> # <<"segments_updated">>
    BY DEF Overwritten, PixelAspectRatio
  <2>2. <<<<"format">>, <<"format">>>> \in names
    BY <1>2, NamedFields
  <2>3. <<"format">> \in DOMAIN flow /\ flow[<<"format">>] = body[<<"format">>]
    BY <1>1, <2>1, <2>2, RewrittenBody
  <2>4. QED
    BY <2>3 DEF FormatOf
<1>4. \A p \in DOMAIN flow : p \in DOMAIN FromApi(body) \/ p \in Taken
  BY NotTaken
<1>5. DOMAIN flow \subseteq Inner(names)
  <2>1. Taken \subseteq Inner(names)
    BY <1>2, NamedFields DEF Taken, Inner
  <2>2. DOMAIN FromApi(body) \subseteq Inner(names)
    BY <1>1, FromApiFields
  <2>3. QED
    BY <1>4, <2>1, <2>2
<1>6. {<<"created">>, <<"metadataUpdated">>} \subseteq DOMAIN flow
  BY RewrittenValues
<1>7. ASSUME NEW p \in DOMAIN flow
      PROVE  Origin(current, body, now, p) # Malformed
  <2>1. CASE p \in KeptOf(current)
    <3>1. p \in DOMAIN current /\ current # Absent
      BY <2>1 DEF KeptOf, Absent
    <3>2. QED
      BY <2>1, <3>1 DEF WellFormed, Origin
  <2>2. CASE p \notin KeptOf(current) /\ p \in {<<"created">>, <<"metadataUpdated">>}
    BY <2>2, CatalogueAssumption DEF Origin
  <2>3. CASE p \notin KeptOf(current) /\ p \notin {<<"created">>, <<"metadataUpdated">>}
    <3>1. p \in DOMAIN FromApi(body)
      BY <2>3, RewrittenValues
    <3>2. QED
      BY <2>3, <3>1, ReadWell DEF Origin
  <2>4. QED
    BY <2>1, <2>2, <2>3
<1>8. ASSUME NEW p \in DOMAIN flow
      PROVE  flow[p] # Malformed /\ (Dynamo /\ p \in Dates => flow[p] = Seconds(flow[p]))
  <2>1. flow[p] = IF Dynamo /\ p \in Dates THEN Seconds(Origin(current, body, now, p))
                  ELSE Origin(current, body, now, p)
    BY RewrittenValues
  <2>2. QED
    BY <1>7, <2>1, SecondsTwice
<1>9. ASSUME FormatOf(body) = "video"
      PROVE  /\ InnerPixelAspectRatio \in DOMAIN flow <=> InnerAspectRatio \in DOMAIN flow
             /\ InnerAspectRatio \in DOMAIN flow =>
                  flow[InnerPixelAspectRatio] = flow[InnerAspectRatio]
  <2>1. /\ InnerPixelAspectRatio \notin Taken /\ InnerPixelAspectRatio \notin Dates
        /\ InnerAspectRatio \notin Taken /\ InnerAspectRatio \notin Dates
    BY DEF InnerPixelAspectRatio, InnerAspectRatio, Taken, Dates
  <2>2. \A p \in {InnerPixelAspectRatio, InnerAspectRatio} :
          /\ p \in DOMAIN flow <=> p \in DOMAIN FromApi(body)
          /\ p \in DOMAIN FromApi(body) => flow[p] = FromApi(body)[p]
    BY <2>1, NotTaken
  <2>3. QED
    BY <1>1, <1>9, <2>2, FromApiFields
<1> HIDE DEF flow, names
<1>10. WellFormed(flow)
  BY <1>1, <1>3, <1>5, <1>6, <1>8, <1>9 DEF WellFormed, names
<1>11. QED
  BY <1>3, <1>10 DEF flow

LEMMA ShownBody ==
  ASSUME OfFlows, NEW current, current = Absent \/ WellFormed(current),
         NEW body, FlowValid(body), NEW now \in Times, NEW q, q \notin Overwritten
  PROVE  /\ q \in DOMAIN Shown(Rewritten(current, body, now)) <=> q \in DOMAIN body
         /\ q \in DOMAIN body =>
              Shown(Rewritten(current, body, now))[q] =
                IF Dynamo /\ q = <<"segments_updated">> THEN Seconds(body[q]) ELSE body[q]
<1> DEFINE flow == Rewritten(current, body, now)
           names == FlowNames(FormatOf(body))
<1>1. WellFormed(flow) /\ FormatOf(flow) = FormatOf(body)
  BY RewrittenWellFormed
<1>2. /\ DOMAIN Shown(flow) \subseteq Outer(names)
      /\ \A pair \in names :
           /\ pair[2] \in DOMAIN Shown(flow) <=> pair[1] \in DOMAIN flow
           /\ pair[1] \in DOMAIN flow => Shown(flow)[pair[2]] = flow[pair[1]]
  BY <1>1, ShownFields DEF WellFormed
<1>3. DOMAIN body \subseteq Outer(names)
  BY DEF FlowValid, Known
<1>4. CASE q \in Outer(names)
  <2>1. PICK pair \in names : pair[2] = q
    BY <1>4 DEF Outer
  <2>2. /\ pair[1] \in DOMAIN flow <=> q \in DOMAIN body
        /\ q \in DOMAIN body =>
             flow[pair[1]] =
               IF Dynamo /\ q = <<"segments_updated">> THEN Seconds(body[q]) ELSE body[q]
    BY <2>1, RewrittenBody
  <2>3. QED
    BY <1>2, <2>1, <2>2
<1>5. CASE q \notin Outer(names)
  BY <1>2, <1>3, <1>5
<1>6. QED
  BY <1>4, <1>5

LEMMA ShownValid ==
  ASSUME OfFlows, NEW current, current = Absent \/ WellFormed(current),
         NEW body, FlowValid(body), NEW now \in Times
  PROVE  ResponseValid(Rewritten(current, body, now))
<1> DEFINE flow == Rewritten(current, body, now)
           shown == Shown(flow)
<1>1. WellFormed(flow) /\ FormatOf(flow) = FormatOf(body)
  BY RewrittenWellFormed
<1>2. /\ <<"format">> \in DOMAIN shown /\ FormatOf(shown) = FormatOf(body)
      /\ FormatOf(body) \in Formats
      /\ DOMAIN shown \subseteq Outer(FlowNames(FormatOf(body)))
  BY <1>1, ShownFields DEF WellFormed
<1>3. \A q : q \notin Overwritten => (q \in DOMAIN shown <=> q \in DOMAIN body)
  BY ShownBody
<1>4. Complete(shown, Required(FormatOf(body)))
  <2>1. ASSUME NEW required \in Required(FormatOf(body)),
               required[1] \in DOMAIN shown \cup {<<>>}
        PROVE  Append(required[1], required[2]) \in DOMAIN shown
    <3>1. /\ required[1] \notin Overwritten
          /\ Append(required[1], required[2]) \notin Overwritten
      BY <1>2, RequiredApart
    <3>2. required[1] \in DOMAIN body \cup {<<>>}
      BY <1>3, <2>1, <3>1
    <3>3. Append(required[1], required[2]) \in DOMAIN body
      BY <3>2 DEF FlowValid, Complete
    <3>4. QED
      BY <1>3, <3>1, <3>3
  <2>2. QED
    BY <2>1 DEF Complete
<1>5. Malformed \notin Range(shown)
  <2>1. ASSUME NEW q \in DOMAIN shown
        PROVE  shown[q] # Malformed
    <3>1. PICK pair \in FlowNames(FormatOf(body)) : pair[2] = q
      BY <1>2 DEF Outer
    <3>2. pair[1] \in DOMAIN flow /\ shown[q] = flow[pair[1]]
      BY <1>1, <3>1, ShownFields DEF WellFormed
    <3>3. QED
      BY <1>1, <3>2 DEF WellFormed
  <2>2. QED
    BY <2>1 DEF Range
<1>6. FlowValid(shown)
  BY <1>2, <1>4, <1>5 DEF FlowValid, Known
<1>7. QED
  BY <1>6 DEF ResponseValid

(* What a document that is stored gives back of the fields that were sent.   *)
Returns(sent, doc) ==
  Restrict(Shown(doc), DOMAIN Shown(doc) \ Overwritten) =
    [p \in DOMAIN sent |-> IF Dynamo /\ p = <<"segments_updated">>
                          THEN Seconds(sent[p]) ELSE sent[p]]

LEMMA BodyReturned ==
  ASSUME OfFlows, NEW current, current = Absent \/ WellFormed(current),
         NEW body, FlowValid(body), NEW now \in Times
  PROVE  Returns(Restrict(body, DOMAIN body \ Overwritten), Rewritten(current, body, now))
<1> DEFINE shown == Shown(Rewritten(current, body, now))
           sent == Restrict(body, DOMAIN body \ Overwritten)
           back == Restrict(shown, DOMAIN shown \ Overwritten)
           expected == [p \in DOMAIN sent |-> IF Dynamo /\ p = <<"segments_updated">>
                                             THEN Seconds(sent[p]) ELSE sent[p]]
<1>1. \A q : q \notin Overwritten =>
        /\ q \in DOMAIN shown <=> q \in DOMAIN body
        /\ q \in DOMAIN body =>
             shown[q] = IF Dynamo /\ q = <<"segments_updated">> THEN Seconds(body[q])
                        ELSE body[q]
  BY ShownBody
<1>2. /\ DOMAIN sent = DOMAIN body \ Overwritten
      /\ \A q \in DOMAIN sent : sent[q] = body[q]
  BY DEF Restrict
<1>3. /\ DOMAIN back = DOMAIN shown \ Overwritten
      /\ \A q \in DOMAIN back : back[q] = shown[q]
      /\ back = [q \in DOMAIN back |-> back[q]]
  BY DEF Restrict
<1> HIDE DEF shown, sent, back
<1>4. DOMAIN back = DOMAIN sent
  BY <1>1, <1>2, <1>3
<1>5. \A q \in DOMAIN sent : back[q] = expected[q]
  BY <1>1, <1>2, <1>3, <1>4
<1>6. back = expected
  BY <1>3, <1>4, <1>5
<1>7. QED
  BY <1>6 DEF Returns, back, sent, shown

(* A flow is read from what GET shows of it.                                 *)
LEMMA ReadBack ==
  ASSUME OfFlows, NEW flow, WellFormed(flow)
  PROVE  /\ DOMAIN FromApi(Shown(flow)) = DOMAIN flow
         /\ \A p \in DOMAIN flow : FromApi(Shown(flow))[p] = flow[p]
<1> DEFINE names == FlowNames(FormatOf(flow))
           read == FromApi(Shown(flow))
<1>1. /\ FormatOf(flow) \in Formats /\ FormatOf(Shown(flow)) = FormatOf(flow)
      /\ DOMAIN flow \subseteq Inner(names)
      /\ \A pair \in names :
           /\ pair[2] \in DOMAIN Shown(flow) <=> pair[1] \in DOMAIN flow
           /\ pair[1] \in DOMAIN flow => Shown(flow)[pair[2]] = flow[pair[1]]
  BY ShownFields DEF WellFormed
<1>2. ASSUME NEW pair \in names, FormatOf(flow) = "video" => pair # PixelPair
      PROVE  /\ pair[1] \in DOMAIN read <=> pair[1] \in DOMAIN flow
             /\ pair[1] \in DOMAIN flow => read[pair[1]] = flow[pair[1]]
  <2>1. /\ pair[1] \in DOMAIN read <=> pair[2] \in DOMAIN Shown(flow)
        /\ pair[2] \in DOMAIN Shown(flow) => read[pair[1]] = Shown(flow)[pair[2]]
    BY <1>1, <1>2, FromApiFields
  <2>2. QED
    BY <1>1, <2>1
<1>3. ASSUME FormatOf(flow) = "video"
      PROVE  /\ InnerPixelAspectRatio \in DOMAIN read <=> InnerPixelAspectRatio \in DOMAIN flow
             /\ InnerPixelAspectRatio \in DOMAIN flow =>
                  read[InnerPixelAspectRatio] = flow[InnerPixelAspectRatio]
  <2>1. <<InnerAspectRatio, AspectRatio>> \in names
    BY <1>3, RatioFields DEF FlowNames
  <2>2. <<InnerAspectRatio, AspectRatio>> # PixelPair
    BY DEF PixelPair, InnerAspectRatio, InnerPixelAspectRatio
  <2>3. /\ InnerAspectRatio \in DOMAIN read <=> InnerAspectRatio \in DOMAIN flow
        /\ InnerAspectRatio \in DOMAIN flow => read[InnerAspectRatio] = flow[InnerAspectRatio]
    BY <1>2, <2>1, <2>2
  <2>4. /\ InnerPixelAspectRatio \in DOMAIN read <=> InnerAspectRatio \in DOMAIN read
        /\ InnerAspectRatio \in DOMAIN read =>
             read[InnerPixelAspectRatio] = read[InnerAspectRatio]
    BY <1>1, <1>3, FromApiFields
  <2>5. QED
    BY <1>3, <2>3, <2>4 DEF WellFormed
<1>4. ASSUME NEW p \in Inner(names)
      PROVE  /\ p \in DOMAIN read <=> p \in DOMAIN flow
             /\ p \in DOMAIN flow => read[p] = flow[p]
  <2>1. PICK pair \in names : pair[1] = p
    BY DEF Inner
  <2>2. CASE FormatOf(flow) = "video" => pair # PixelPair
    BY <1>2, <2>1, <2>2
  <2>3. CASE FormatOf(flow) = "video" /\ pair = PixelPair
    BY <1>3, <2>1, <2>3 DEF PixelPair
  <2>4. QED
    BY <2>2, <2>3
<1>5. DOMAIN read \subseteq Inner(names)
  BY <1>1, FromApiFields
<1>6. QED
  BY <1>1, <1>4, <1>5

LEMMA PutBack ==
  ASSUME OfFlows, NEW flow, WellFormed(flow), NEW now
  PROVE  /\ DOMAIN Rewritten(flow, Shown(flow), now) = DOMAIN flow
         /\ \A p \in DOMAIN flow \ {<<"metadataUpdated">>} :
              Rewritten(flow, Shown(flow), now)[p] = flow[p]
<1> DEFINE again == Rewritten(flow, Shown(flow), now)
<1>1. /\ DOMAIN FromApi(Shown(flow)) = DOMAIN flow
      /\ \A p \in DOMAIN flow : FromApi(Shown(flow))[p] = flow[p]
  BY ReadBack
<1>2. {<<"created">>, <<"metadataUpdated">>} \subseteq DOMAIN flow
  BY DEF WellFormed
<1>3. DOMAIN again =
        (DOMAIN flow \ {<<"segmentDuration">>, <<"generation">>})
        \cup KeptOf(flow) \cup {<<"created">>, <<"metadataUpdated">>}
  BY <1>1, RewrittenValues
<1>4. DOMAIN again = DOMAIN flow
  BY <1>2, <1>3 DEF KeptOf
<1>5. ASSUME NEW p \in DOMAIN flow \ {<<"metadataUpdated">>}
      PROVE  again[p] = flow[p]
  <2>1. Origin(flow, Shown(flow), now, p) = flow[p]
    BY <1>1, <1>2, <1>5 DEF Origin, KeptOf
  <2>2. p \in DOMAIN again
    BY <1>4
  <2>3. again[p] = IF Dynamo /\ p \in Dates THEN Seconds(Origin(flow, Shown(flow), now, p))
                   ELSE Origin(flow, Shown(flow), now, p)
    BY <2>2, RewrittenValues
  <2>4. QED
    BY <2>1, <2>3 DEF WellFormed
<1>6. QED
  BY <1>4, <1>5

------------------------------------------------------------------------------
(* The invariant: every flow, and every copy of one, is well formed.         *)

Stored ==
  OfFlows => \A i \in Ids :
    /\ items[i] = Absent \/ (WellFormed(items[i]) /\ ResponseValid(items[i]))
    /\ copy[i] = Absent \/ WellFormed(copy[i])

Returned ==
  \A i \in Ids : asked[i] = Absent \/ (OfFlows /\ Returns(asked[i], items[i]))

LEMMA SameDocuments ==
  ASSUME UNCHANGED scenario, NEW CONSTANT doc, NEW CONSTANT sent
  PROVE  /\ OfFlows' <=> OfFlows
         /\ WellFormed(doc)' <=> WellFormed(doc)
         /\ ResponseValid(doc)' <=> ResponseValid(doc)
         /\ Returns(sent, doc)' <=> Returns(sent, doc)
<1>1. Dynamo' = Dynamo /\ OfFlows' = OfFlows
  BY DEF Dynamo, OfFlows
<1>2. Shown(doc)' = Shown(doc)
  BY <1>1 DEF Shown
<1>3. QED
  BY <1>1, <1>2 DEF WellFormed, ResponseValid, Returns

LEMMA InitStored == Init => Stored /\ Returned
<1> SUFFICES ASSUME Init
             PROVE  Stored /\ Returned
  OBVIOUS
<1>1. OfFlows => scenario.initial = {}
  BY CatalogueAssumption DEF Init, OfFlows
<1>2. OfFlows => \A i \in Ids : items[i] = Absent /\ copy[i] = Absent
  BY <1>1 DEF Init
<1>3. QED
  BY <1>2 DEF Stored, Returned, Init

LEMMA NextStored == TypeOK /\ Stored /\ Returned /\ [Next]_vars => Stored' /\ Returned'
<1> SUFFICES ASSUME TypeOK, Stored, Returned, [Next]_vars
             PROVE  Stored' /\ Returned'
  OBVIOUS
<1>1. CASE UNCHANGED <<scenario, items, copy, asked>>
  BY <1>1, SameDocuments DEF Stored, Returned
<1>2. ASSUME NEW i \in scenario.ids, PutFlow(i)
      PROVE  Stored' /\ Returned'
  <2>1. PICK body \in Bodies(i), current \in {items[i], copy[i]}, now \in Times :
          /\ FlowValid(body)
          /\ Keep(i, Rewritten(current, body, now))
          /\ asked' = [asked EXCEPT ![i] = Restrict(body, DOMAIN body \ Overwritten)]
    BY <1>2 DEF PutFlow
  <2>2. i \in Ids /\ OfFlows /\ UNCHANGED scenario
    BY <1>2, <2>1, CatalogueAssumption DEF TypeOK, PutFlow, Keep
  <2> DEFINE flow == Rewritten(current, body, now)
             sent == Restrict(body, DOMAIN body \ Overwritten)
  <2>3. current = Absent \/ WellFormed(current)
    BY <2>2 DEF Stored
  <2>4. WellFormed(flow) /\ ResponseValid(flow) /\ Returns(sent, flow)
    BY <2>1, <2>2, <2>3, RewrittenWellFormed, ShownValid, BodyReturned
  <2>5. /\ \A j \in Ids : items'[j] = IF j = i THEN flow ELSE items[j]
        /\ \A j \in Ids : copy'[j] = copy[j] \/ copy'[j] = flow
        /\ \A j \in Ids : asked'[j] = IF j = i THEN sent ELSE asked[j]
    BY <2>1, <2>2 DEF Keep, TypeOK
  <2> HIDE DEF flow, sent
  <2>6. ASSUME NEW j \in Ids
        PROVE  /\ items'[j] = Absent \/ (WellFormed(items'[j]) /\ ResponseValid(items'[j]))
               /\ copy'[j] = Absent \/ WellFormed(copy'[j])
               /\ asked'[j] = Absent \/ Returns(asked'[j], items'[j])
    BY <2>2, <2>4, <2>5 DEF Stored, Returned
  <2>7. QED
    BY <2>2, <2>6, SameDocuments DEF Stored, Returned
<1>3. ASSUME NEW i \in scenario.ids, ChangeSource(i)
      PROVE  Stored' /\ Returned'
  <2>1. ~OfFlows /\ UNCHANGED <<scenario, asked>>
    BY <1>3 DEF ChangeSource, Keep
  <2>2. QED
    BY <2>1 DEF Stored, Returned, OfFlows
<1>4. ASSUME NEW i \in scenario.ids, Replicate(i)
      PROVE  Stored' /\ Returned'
  <2>1. UNCHANGED <<scenario, items, asked>>
        /\ \A j \in Ids : copy'[j] = copy[j] \/ copy'[j] = items[j]
    BY <1>4 DEF Replicate, TypeOK
  <2>2. QED
    BY <2>1, SameDocuments DEF Stored, Returned
<1>5. CASE StartWalk \/ NextPage \/ Close
  BY <1>1, <1>5 DEF StartWalk, NextPage, Close
<1>6. CASE UNCHANGED vars
  BY <1>1, <1>6 DEF vars
<1>7. QED
  BY <1>2, <1>3, <1>4, <1>5, <1>6 DEF Next

LEMMA StoredHolds == Spec => [](Stored /\ Returned)
<1>1. TypeOK /\ (Stored /\ Returned) /\ [Next]_vars => (Stored /\ Returned)'
  BY NextStored
<1>2. QED
  BY <1>1, InitStored, TypeCorrect, PTL DEF Spec

(* Whatever bodies putFlow has accepted, one after the other, GET can show   *)
(* what it has made of them: no page fails for a flow that is stored.        *)
THEOREM FlowsReadable == Spec => []Readable
<1>1. Stored => Readable
  BY DEF Stored, Readable
<1>2. QED
  BY <1>1, StoredHolds, PTL

(* And shows every field that was sent, but those putFlow sets, and no other *)
(* field.                                                                    *)
THEOREM BodiesReturned == Spec => []FieldsReturned
<1>1. Returned => FieldsReturned
  BY DEF Returned, Returns, FieldsReturned
<1>2. QED
  BY <1>1, StoredHolds, PTL

(* What GET shows can be put back and changes nothing but the date.          *)
THEOREM PutBackHarmless == Spec => []PutBackStable
<1>1. Stored => PutBackStable
  <2> SUFFICES ASSUME Stored, OfFlows, NEW i \in Ids, NEW now \in Times, items[i] # Absent
               PROVE  LET again == Rewritten(items[i], Shown(items[i]), now)
                          Rest(doc) == Restrict(doc, DOMAIN doc \ {<<"metadataUpdated">>})
                      IN Rest(again) = Rest(items[i])
    BY DEF PutBackStable
  <2>1. WellFormed(items[i])
    BY DEF Stored
  <2>2. /\ DOMAIN Rewritten(items[i], Shown(items[i]), now) = DOMAIN items[i]
        /\ \A p \in DOMAIN items[i] \ {<<"metadataUpdated">>} :
             Rewritten(items[i], Shown(items[i]), now)[p] = items[i][p]
    BY <2>1, PutBack
  <2>3. QED
    BY <2>2 DEF Restrict
<1>2. QED
  BY <1>1, StoredHolds, PTL
=============================================================================
