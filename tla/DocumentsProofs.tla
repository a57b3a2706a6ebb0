--------------------------- MODULE DocumentsProofs ---------------------------
(* What the tables of Documents have in common, and what the adapters make   *)
(* of it: a body and the flow that is read from it say the same.             *)
EXTENDS Documents, SequenceTheorems, TLAPS

Paths(names) == Seq(names) \ {<<>>}

OneToOne(table) == \A a, b \in table : a[1] = b[1] <=> a[2] = b[2]

(* A table that names every field once on either side; inner and outer are   *)
(* the names its paths begin with.                                           *)
Renaming(table, inner, outer) ==
  /\ \E names : table \subseteq Paths(names) \X Paths(names)
  /\ OneToOne(table)
  /\ \A pair \in table : pair[1][1] \in inner /\ pair[2][1] \in outer

(* The same of the names of the fields of one object.                        *)
Naming(names, inner, outer) ==
  /\ DOMAIN names \subseteq inner
  /\ \A n \in DOMAIN names : names[n] \in outer
  /\ \A m, n \in DOMAIN names : names[m] = names[n] => m = n

Table(table) == \E inner, outer : Renaming(table, inner, outer)

------------------------------------------------------------------------------
(* Paths.                                                                    *)

LEMMA Single ==
  ASSUME NEW S, NEW n \in S
  PROVE  <<n>> \in Seq(S) /\ Len(<<n>>) = 1 /\ <<n>>[1] = n /\ <<n>> # <<>>
<1>1. <<n>> \in Seq(S) /\ <<n>>[1] = n
  OBVIOUS
<1>2. Len(<<n>>) = 1
  OBVIOUS
<1>3. <<n>> # <<>>
  BY <1>2, EmptySeq
<1>4. QED
  BY <1>1, <1>2, <1>3

LEMMA Pair ==
  ASSUME NEW n, NEW m
  PROVE  <<n>> \o <<m>> = <<n, m>>
<1> DEFINE S == {n, m}
<1> n \in S /\ m \in S
  OBVIOUS
<1> HIDE DEF S
<1>1. /\ <<n>> \in Seq(S) /\ Len(<<n>>) = 1 /\ <<n>>[1] = n
      /\ <<m>> \in Seq(S) /\ Len(<<m>>) = 1 /\ <<m>>[1] = m
  BY Single
<1>2. /\ <<n>> \o <<m>> \in Seq(S) /\ Len(<<n>> \o <<m>>) = 2
      /\ \A i \in 1 .. 2 : (<<n>> \o <<m>>)[i] = IF i <= 1 THEN <<n>>[i] ELSE <<m>>[i - 1]
  BY <1>1, ConcatProperties
<1>3. (<<n>> \o <<m>>)[1] = n /\ (<<n>> \o <<m>>)[2] = m
  BY <1>1, <1>2
<1>4. <<n, m>> \in Seq(S) /\ Len(<<n, m>>) = 2 /\ <<n, m>>[1] = n /\ <<n, m>>[2] = m
  OBVIOUS
<1>5. \A i \in 1 .. 2 : (<<n>> \o <<m>>)[i] = <<n, m>>[i]
  <2>1. \A i \in 1 .. 2 : i = 1 \/ i = 2
    OBVIOUS
  <2>2. QED
    BY <1>3, <1>4, <2>1
<1>6. QED
  BY <1>2, <1>4, <1>5, SeqEqual

LEMMA Prefixed ==
  ASSUME NEW S, NEW n \in S, NEW p \in Seq(S), p # <<>>
  PROVE  /\ <<n>> \o p \in Seq(S) /\ <<n>> \o p # <<>> /\ <<n>> \o p # <<n>>
         /\ (<<n>> \o p)[1] = n /\ (<<n>> \o p)[2] = p[1]
<1>1. <<n>> \in Seq(S) /\ Len(<<n>>) = 1 /\ <<n>>[1] = n
  BY Single
<1>2. Len(p) \in Nat \ {0}
  BY EmptySeq
<1>3. <<n>> \o p \in Seq(S) /\ Len(<<n>> \o p) = 1 + Len(p)
  BY <1>1, ConcatProperties
<1>4. \A i \in 1 .. 1 + Len(p) : (<<n>> \o p)[i] = IF i <= 1 THEN <<n>>[i] ELSE p[i - 1]
  BY <1>1, ConcatProperties
<1>5. (<<n>> \o p)[1] = n /\ (<<n>> \o p)[2] = p[1]
  <2>1. 1 \in 1 .. 1 + Len(p) /\ 2 \in 1 .. 1 + Len(p)
    BY <1>2
  <2>2. QED
    BY <1>1, <1>4, <2>1
<1>6. Len(<<n>> \o p) # 0 /\ Len(<<n>> \o p) # 1
  BY <1>2, <1>3
<1>7. <<n>> \o p # <<>> /\ <<n>> \o p # <<n>>
  BY <1>1, <1>6, EmptySeq
<1>8. QED
  BY <1>3, <1>5, <1>7

LEMMA SamePrefix ==
  ASSUME NEW S, NEW n \in S, NEW p \in Seq(S), NEW q \in Seq(S), <<n>> \o p = <<n>> \o q
  PROVE  p = q
<1>1. <<n>> \in Seq(S)
  BY Single
<1>2. QED
  BY <1>1, ConcatSimplifications

------------------------------------------------------------------------------
(* How tables are put together.                                              *)

LEMMA OneName ==
  ASSUME NEW S, NEW n \in S
  PROVE  <<n>> \in Paths(S) /\ <<n>>[1] = n
  BY Single DEF Paths

LEMMA Longer ==
  ASSUME NEW S, NEW n \in S, NEW p \in Paths(S)
  PROVE  /\ <<n>> \o p \in Paths(S) /\ <<n>> \o p # <<n>>
         /\ (<<n>> \o p)[1] = n
<1>1. p \in Seq(S) /\ p # <<>>
  BY DEF Paths
<1>2. QED
  BY <1>1, Prefixed DEF Paths

LEMMA Injected ==
  ASSUME NEW S, NEW n \in S, NEW p \in Paths(S), NEW q \in Paths(S)
  PROVE  <<n>> \o p = <<n>> \o q <=> p = q
<1>1. p \in Seq(S) /\ q \in Seq(S)
  BY DEF Paths
<1>2. QED
  BY <1>1, SamePrefix

LEMMA MorePaths ==
  ASSUME NEW S, NEW T, S \subseteq T
  PROVE  Paths(S) \subseteq Paths(T)
  BY SeqMonotonic DEF Paths

LEMMA FieldsRenaming ==
  ASSUME NEW names, NEW I, NEW O, Naming(names, I, O)
  PROVE  Renaming(Fields(names), I, O)
<1> USE DEF Naming
<1>1. ASSUME NEW n \in DOMAIN names
      PROVE  /\ <<n>> \in Paths(I \cup O) /\ <<names[n]>> \in Paths(I \cup O)
             /\ <<n>>[1] = n /\ <<names[n]>>[1] = names[n]
  <2>1. n \in I \cup O /\ names[n] \in I \cup O
    OBVIOUS
  <2>2. QED
    BY <2>1, OneName
<1>2. Fields(names) \subseteq Paths(I \cup O) \X Paths(I \cup O)
  BY <1>1 DEF Fields
<1>3. \A pair \in Fields(names) : pair[1][1] \in I /\ pair[2][1] \in O
  BY <1>1 DEF Fields
<1>4. ASSUME NEW a \in Fields(names), NEW b \in Fields(names)
      PROVE  a[1] = b[1] <=> a[2] = b[2]
  <2>1. PICK m \in DOMAIN names : a = <<<<m>>, <<names[m]>>>>
    BY DEF Fields
  <2>2. PICK n \in DOMAIN names : b = <<<<n>>, <<names[n]>>>>
    BY DEF Fields
  <2>3. <<m>> = <<n>> <=> m = n
    BY <1>1
  <2>4. <<names[m]>> = <<names[n]>> <=> names[m] = names[n]
    BY <1>1
  <2>5. QED
    BY <2>1, <2>2, <2>3, <2>4
<1>5. QED
  BY <1>2, <1>3, <1>4 DEF Renaming, OneToOne

LEMMA UnderRenaming ==
  ASSUME NEW inner, NEW name, NEW table, NEW I, NEW O, Renaming(table, I, O)
  PROVE  Renaming(Under(inner, name, table), {inner}, {name})
<1>1. PICK names : table \subseteq Paths(names) \X Paths(names)
  BY DEF Renaming
<1> DEFINE S == names \cup {inner, name}
<1>2. \A pair \in table : pair[1] \in Paths(S) /\ pair[2] \in Paths(S)
  BY <1>1, MorePaths
<1>3. inner \in S /\ name \in S
  OBVIOUS
<1> HIDE DEF S
<1>4. ASSUME NEW pair \in Under(inner, name, table)
      PROVE  \/ pair = <<<<inner>>, <<name>>>>
             \/ \E p \in table : pair = <<<<inner>> \o p[1], <<name>> \o p[2]>>
  BY DEF Under
<1>5. ASSUME NEW pair \in Under(inner, name, table)
      PROVE  pair \in Paths(S) \X Paths(S) /\ pair[1][1] = inner /\ pair[2][1] = name
  <2>1. CASE pair = <<<<inner>>, <<name>>>>
    BY <1>3, <2>1, OneName
  <2>2. ASSUME NEW p \in table, pair = <<<<inner>> \o p[1], <<name>> \o p[2]>>
        PROVE  pair \in Paths(S) \X Paths(S) /\ pair[1][1] = inner /\ pair[2][1] = name
    BY <1>2, <1>3, <2>2, Longer
  <2>3. QED
    BY <1>4, <2>1, <2>2
<1>6. ASSUME NEW a \in Under(inner, name, table), NEW b \in Under(inner, name, table)
      PROVE  a[1] = b[1] <=> a[2] = b[2]
  <2>1. CASE a = <<<<inner>>, <<name>>>> /\ b = <<<<inner>>, <<name>>>>
    BY <2>1
  <2>2. ASSUME a = <<<<inner>>, <<name>>>>,
               NEW q \in table, b = <<<<inner>> \o q[1], <<name>> \o q[2]>>
        PROVE  a[1] # b[1] /\ a[2] # b[2]
    <3>1. q[1] \in Paths(S) /\ q[2] \in Paths(S)
      BY <1>2
    <3>2. <<inner>> \o q[1] # <<inner>> /\ <<name>> \o q[2] # <<name>>
      BY <1>3, <3>1, Longer
    <3>3. QED
      BY <2>2, <3>2
  <2>3. ASSUME b = <<<<inner>>, <<name>>>>,
               NEW p \in table, a = <<<<inner>> \o p[1], <<name>> \o p[2]>>
        PROVE  a[1] # b[1] /\ a[2] # b[2]
    <3>1. p[1] \in Paths(S) /\ p[2] \in Paths(S)
      BY <1>2
    <3>2. <<inner>> \o p[1] # <<inner>> /\ <<name>> \o p[2] # <<name>>
      BY <1>3, <3>1, Longer
    <3>3. QED
      BY <2>3, <3>2
  <2>4. ASSUME NEW p \in table, a = <<<<inner>> \o p[1], <<name>> \o p[2]>>,
               NEW q \in table, b = <<<<inner>> \o q[1], <<name>> \o q[2]>>
        PROVE  a[1] = b[1] <=> a[2] = b[2]
    <3>1. p[1] = q[1] <=> p[2] = q[2]
      BY DEF Renaming, OneToOne
    <3>2. /\ p[1] \in Paths(S) /\ q[1] \in Paths(S)
          /\ p[2] \in Paths(S) /\ q[2] \in Paths(S)
      BY <1>2
    <3>3. \A x, y \in Paths(S) : <<inner>> \o x = <<inner>> \o y => x = y
      BY <1>3, Injected
    <3>4. \A x, y \in Paths(S) : <<name>> \o x = <<name>> \o y => x = y
      BY <1>3, Injected
    <3>5. QED
      BY <2>4, <3>1, <3>2, <3>3, <3>4
  <2>5. QED
    BY <1>4, <2>1, <2>2, <2>3, <2>4
<1>7. QED
  BY <1>5, <1>6 DEF Renaming, OneToOne

LEMMA JoinedRenaming ==
  ASSUME NEW S, NEW I, NEW O, Renaming(S, I, O),
         NEW T, NEW J, NEW P, Renaming(T, J, P),
         I \cap J = {}, O \cap P = {}
  PROVE  Renaming(S \cup T, I \cup J, O \cup P)
<1>1. PICK m : S \subseteq Paths(m) \X Paths(m)
  BY DEF Renaming
<1>2. PICK n : T \subseteq Paths(n) \X Paths(n)
  BY DEF Renaming
<1>3. Paths(m) \subseteq Paths(m \cup n) /\ Paths(n) \subseteq Paths(m \cup n)
  BY MorePaths
<1>4. S \cup T \subseteq Paths(m \cup n) \X Paths(m \cup n)
  BY <1>1, <1>2, <1>3
<1>5. \A a \in S, b \in T : a[1] # b[1] /\ a[2] # b[2]
  BY DEF Renaming
<1>6. OneToOne(S \cup T)
  BY <1>5 DEF OneToOne, Renaming
<1>7. QED
  BY <1>4, <1>6 DEF Renaming

LEMMA AddedRenaming ==
  ASSUME NEW S, NEW I, NEW O, Renaming(S, I, O),
         NEW T, NEW inner, NEW name, Renaming(T, {inner}, {name}),
         inner \notin I, name \notin O
  PROVE  Renaming(S \cup T, I \cup {inner}, O \cup {name})
  BY JoinedRenaming

------------------------------------------------------------------------------
(* The tables.                                                               *)

LEMMA ContainerMappingTable == Table(ContainerMapping)
<1> DEFINE top == [trackIndex |-> "track_index", formatTrackIndex |-> "format_track_index"]
           audio == [channelNumbers |-> "channel_numbers", channelRange |-> "channel_range"]
           mp2ts == [pid |-> "pid"]
           mxf == [packageUid |-> "package_uid", trackId |-> "track_id"]
           isobmff == [trackId |-> "track_id"]
           Top == Fields(top)
           Audio == Under("audioTrack", "audio_track", Fields(audio))
           Mp2ts == Under("mp2tsContainer", "mp2ts_container", Fields(mp2ts))
           Mxf == Under("mxfContainer", "mxf_container", Fields(mxf))
           Isobmff == Under("isobmffContainer", "isobmff_container", Fields(isobmff))
<1>1. /\ Naming(top, {"trackIndex", "formatTrackIndex"}, {"track_index", "format_track_index"})
      /\ Naming(audio, {"channelNumbers", "channelRange"}, {"channel_numbers", "channel_range"})
      /\ Naming(mp2ts, {"pid"}, {"pid"})
      /\ Naming(mxf, {"packageUid", "trackId"}, {"package_uid", "track_id"})
      /\ Naming(isobmff, {"trackId"}, {"track_id"})
  BY DEF Naming
<1> HIDE DEF top, audio, mp2ts, mxf, isobmff
<1>2. Renaming(Top, {"trackIndex", "formatTrackIndex"}, {"track_index", "format_track_index"})
  BY <1>1, FieldsRenaming
<1>3. Renaming(Audio, {"audioTrack"}, {"audio_track"})
  BY <1>1, FieldsRenaming, UnderRenaming
<1>4. Renaming(Mp2ts, {"mp2tsContainer"}, {"mp2ts_container"})
  BY <1>1, FieldsRenaming, UnderRenaming
<1>5. Renaming(Mxf, {"mxfContainer"}, {"mxf_container"})
  BY <1>1, FieldsRenaming, UnderRenaming
<1>6. Renaming(Isobmff, {"isobmffContainer"}, {"isobmff_container"})
  BY <1>1, FieldsRenaming, UnderRenaming
<1> HIDE DEF Top, Audio, Mp2ts, Mxf, Isobmff
<1>7. Renaming(Top \cup Audio, {"trackIndex", "formatTrackIndex", "audioTrack"},
                              {"track_index", "format_track_index", "audio_track"})
  BY <1>2, <1>3, AddedRenaming
<1>8. Renaming(Top \cup Audio \cup Mp2ts,
               {"trackIndex", "formatTrackIndex", "audioTrack", "mp2tsContainer"},
               {"track_index", "format_track_index", "audio_track", "mp2ts_container"})
  BY <1>4, <1>7, AddedRenaming
<1>9. Renaming(Top \cup Audio \cup Mp2ts \cup Mxf,
               {"trackIndex", "formatTrackIndex", "audioTrack", "mp2tsContainer",
                "mxfContainer"},
               {"track_index", "format_track_index", "audio_track", "mp2ts_container",
                "mxf_container"})
  BY <1>5, <1>8, AddedRenaming
<1>10. Table(Top \cup Audio \cup Mp2ts \cup Mxf \cup Isobmff)
  <2> DEFINE I == {"trackIndex", "formatTrackIndex", "audioTrack", "mp2tsContainer",
                   "mxfContainer"}
             O == {"track_index", "format_track_index", "audio_track", "mp2ts_container",
                   "mxf_container"}
  <2>1. "isobmffContainer" \notin I /\ "isobmff_container" \notin O
    OBVIOUS
  <2>2. Renaming(Top \cup Audio \cup Mp2ts \cup Mxf, I, O)
    BY <1>9
  <2> HIDE DEF I, O
  <2>3. Renaming(Top \cup Audio \cup Mp2ts \cup Mxf \cup Isobmff,
                 I \cup {"isobmffContainer"}, O \cup {"isobmff_container"})
    BY <1>6, <2>1, <2>2, AddedRenaming
  <2>4. QED
    BY <2>3 DEF Table
<1>11. QED
  BY <1>10 DEF ContainerMapping, Top, Audio, Mp2ts, Mxf, Isobmff, top, audio, mp2ts, mxf,
               isobmff

LEMMA FlowCollectionTable == Table(Under("item", "item", FlowCollectionItem))
<1> DEFINE top == [id |-> "id", role |-> "role"]
<1>1. Naming(top, {"id", "role"}, {"id", "role"})
  BY DEF Naming
<1> HIDE DEF top
<1>2. Renaming(Fields(top), {"id", "role"}, {"id", "role"})
  BY <1>1, FieldsRenaming
<1>3. Renaming(Under("containerMapping", "container_mapping", ContainerMapping),
               {"containerMapping"}, {"container_mapping"})
  BY ContainerMappingTable, UnderRenaming DEF Table
<1>4. Renaming(Fields(top)
                 \cup Under("containerMapping", "container_mapping", ContainerMapping),
               {"id", "role", "containerMapping"}, {"id", "role", "container_mapping"})
  BY <1>2, <1>3, AddedRenaming
<1>5. Table(FlowCollectionItem)
  BY <1>4 DEF FlowCollectionItem, top, Table
<1>6. QED
  BY <1>5, UnderRenaming DEF Table

LEMMA TagMapRenaming == Renaming(TagMap, {"tags"}, {"tags"})
<1> DEFINE tags == [k \in TagKeys |-> k]
<1>1. Naming(tags, TagKeys, TagKeys)
  BY DEF Naming
<1> HIDE DEF tags
<1>2. Renaming(Under("tags", "tags", Fields(tags)), {"tags"}, {"tags"})
  BY <1>1, FieldsRenaming, UnderRenaming
<1>3. QED
  BY <1>2 DEF TagMap, tags

(* The names the paths of a flow without its essence begin with.             *)
FlowInner == DOMAIN FlowFields \cup {"tags", "flowCollection", "containerMapping"}
FlowOuter == {FlowFields[n] : n \in DOMAIN FlowFields}
             \cup {"tags", "flow_collection", "container_mapping"}

LEMMA FlowFieldsNaming ==
  Naming(FlowFields, DOMAIN FlowFields, {FlowFields[n] : n \in DOMAIN FlowFields})
  BY DEF Naming, FlowFields

LEMMA FlowNamesApart ==
  /\ {"tags", "flowCollection", "containerMapping", "essenceParameters", "updated"}
       \cap DOMAIN FlowFields = {}
  /\ {"tags", "flow_collection", "container_mapping", "essence_parameters"}
       \cap {FlowFields[n] : n \in DOMAIN FlowFields} = {}
  BY DEF FlowFields

LEMMA CommonFlowRenaming == Renaming(CommonFlow, FlowInner, FlowOuter)
<1> DEFINE Collection == Under("flowCollection", "flow_collection",
                               Under("item", "item", FlowCollectionItem))
           Mapping == Under("containerMapping", "container_mapping", ContainerMapping)
           inner == DOMAIN FlowFields
           outer == {FlowFields[n] : n \in DOMAIN FlowFields}
<1>1. Renaming(Fields(FlowFields), inner, outer)
  BY FlowFieldsNaming, FieldsRenaming
<1>2. Renaming(Collection, {"flowCollection"}, {"flow_collection"})
  BY FlowCollectionTable, UnderRenaming DEF Table
<1>3. Renaming(Mapping, {"containerMapping"}, {"container_mapping"})
  BY ContainerMappingTable, UnderRenaming DEF Table
<1>4. /\ {"tags", "flowCollection", "containerMapping"} \cap inner = {}
      /\ {"tags", "flow_collection", "container_mapping"} \cap outer = {}
  BY FlowNamesApart
<1>5. FlowInner = inner \cup {"tags"} \cup {"flowCollection"} \cup {"containerMapping"}
      /\ FlowOuter = outer \cup {"tags"} \cup {"flow_collection"} \cup {"container_mapping"}
  BY DEF FlowInner, FlowOuter
<1> HIDE DEF Collection, Mapping, inner, outer
<1>6. Renaming(Fields(FlowFields) \cup TagMap, inner \cup {"tags"}, outer \cup {"tags"})
  BY <1>1, <1>4, TagMapRenaming, AddedRenaming
<1>7. Renaming(Fields(FlowFields) \cup TagMap \cup Collection,
               inner \cup {"tags"} \cup {"flowCollection"},
               outer \cup {"tags"} \cup {"flow_collection"})
  BY <1>2, <1>4, <1>6, AddedRenaming
<1>8. Renaming(Fields(FlowFields) \cup TagMap \cup Collection \cup Mapping,
               inner \cup {"tags"} \cup {"flowCollection"} \cup {"containerMapping"},
               outer \cup {"tags"} \cup {"flow_collection"} \cup {"container_mapping"})
  BY <1>3, <1>4, <1>7, AddedRenaming
<1>9. QED
  BY <1>5, <1>8 DEF CommonFlow, Collection, Mapping

LEMMA VideoEssenceTable == Table(VideoEssence)
<1> DEFINE outer == {VideoFields[n] : n \in DOMAIN VideoFields}
           unc == [uncType |-> "unc_type"]
           avc == [profile |-> "profile", level |-> "level", flags |-> "flags"]
           Unc == Under("uncParameters", "unc_parameters", Fields(unc))
           Avc == Under("avcParameters", "avc_parameters", Fields(avc))
<1>1. /\ Naming(VideoFields, DOMAIN VideoFields, outer)
      /\ {"uncParameters", "avcParameters"} \cap DOMAIN VideoFields = {}
      /\ {"unc_parameters", "avc_parameters"} \cap outer = {}
  BY DEF Naming, VideoFields
<1>2. /\ Naming(unc, {"uncType"}, {"unc_type"})
      /\ Naming(avc, {"profile", "level", "flags"}, {"profile", "level", "flags"})
  BY DEF Naming
<1> HIDE DEF outer, unc, avc
<1>3. Renaming(Fields(VideoFields), DOMAIN VideoFields, outer)
  BY <1>1, FieldsRenaming
<1>4. Renaming(Unc, {"uncParameters"}, {"unc_parameters"})
  BY <1>2, FieldsRenaming, UnderRenaming
<1>5. Renaming(Avc, {"avcParameters"}, {"avc_parameters"})
  BY <1>2, FieldsRenaming, UnderRenaming
<1> HIDE DEF Unc, Avc
<1>6. Renaming(Fields(VideoFields) \cup Unc, DOMAIN VideoFields \cup {"uncParameters"},
               outer \cup {"unc_parameters"})
  BY <1>1, <1>3, <1>4, AddedRenaming
<1>7. Renaming(Fields(VideoFields) \cup Unc \cup Avc,
               DOMAIN VideoFields \cup {"uncParameters"} \cup {"avcParameters"},
               outer \cup {"unc_parameters"} \cup {"avc_parameters"})
  BY <1>1, <1>5, <1>6, AddedRenaming
<1>8. QED
  BY <1>7 DEF VideoEssence, Unc, Avc, unc, avc, Table

LEMMA AudioEssenceTable == Table(AudioEssence)
<1> DEFINE top == [sampleRate |-> "sample_rate", channels |-> "channels",
                   bitDepth |-> "bit_depth"]
           codec == [codedFrameSize |-> "coded_frame_size", mp4Oti |-> "mp4_oti"]
           unc == [uncType |-> "unc_type"]
           Codec == Under("codecParameters", "codec_parameters", Fields(codec))
           Unc == Under("uncParameters", "unc_parameters", Fields(unc))
<1>1. /\ Naming(top, {"sampleRate", "channels", "bitDepth"},
                     {"sample_rate", "channels", "bit_depth"})
      /\ Naming(codec, {"codedFrameSize", "mp4Oti"}, {"coded_frame_size", "mp4_oti"})
      /\ Naming(unc, {"uncType"}, {"unc_type"})
  BY DEF Naming
<1> HIDE DEF top, codec, unc
<1>2. Renaming(Fields(top), {"sampleRate", "channels", "bitDepth"},
               {"sample_rate", "channels", "bit_depth"})
  BY <1>1, FieldsRenaming
<1>3. Renaming(Codec, {"codecParameters"}, {"codec_parameters"})
  BY <1>1, FieldsRenaming, UnderRenaming
<1>4. Renaming(Unc, {"uncParameters"}, {"unc_parameters"})
  BY <1>1, FieldsRenaming, UnderRenaming
<1> HIDE DEF Codec, Unc
<1>5. Renaming(Fields(top) \cup Codec,
               {"sampleRate", "channels", "bitDepth", "codecParameters"},
               {"sample_rate", "channels", "bit_depth", "codec_parameters"})
  BY <1>2, <1>3, AddedRenaming
<1>6. Renaming(Fields(top) \cup Codec \cup Unc,
               {"sampleRate", "channels", "bitDepth", "codecParameters", "uncParameters"},
               {"sample_rate", "channels", "bit_depth", "codec_parameters",
                "unc_parameters"})
  BY <1>4, <1>5, AddedRenaming
<1>7. QED
  BY <1>6 DEF AudioEssence, Codec, Unc, top, codec, unc, Table

LEMMA ImageEssenceTable == Table(ImageEssence)
<1> DEFINE top == [frameWidth |-> "frame_width", frameHeight |-> "frame_height",
                   aspectRatio |-> "aspect_ratio"]
<1>1. Naming(top, {"frameWidth", "frameHeight", "aspectRatio"},
             {"frame_width", "frame_height", "aspect_ratio"})
  BY DEF Naming
<1> HIDE DEF top
<1>2. Table(Fields(top))
  BY <1>1, FieldsRenaming DEF Table
<1>3. QED
  BY <1>2 DEF ImageEssence, top

LEMMA DataEssenceTable == Table(DataEssence)
<1> DEFINE top == [dataType |-> "data_type"]
<1>1. Naming(top, {"dataType"}, {"data_type"})
  BY DEF Naming
<1> HIDE DEF top
<1>2. Table(Fields(top))
  BY <1>1, FieldsRenaming DEF Table
<1>3. QED
  BY <1>2 DEF DataEssence, top

(* What the table of a flow is, whatever its format.                         *)
FlowTable(table) ==
  /\ Table(table)
  /\ CommonFlow \subseteq table
  /\ \A pair \in table : pair \in CommonFlow \/ pair[1][1] = "essenceParameters"
  /\ \A pair \in table : pair[1] # <<"updated">>

LEMMA CommonFlowTable == FlowTable(CommonFlow)
<1>1. "updated" \notin FlowInner
  BY FlowNamesApart DEF FlowInner
<1>2. \A pair \in CommonFlow : pair[1][1] \in FlowInner
  BY CommonFlowRenaming DEF Renaming
<1>3. <<"updated">>[1] = "updated"
  OBVIOUS
<1>4. \A pair \in CommonFlow : pair[1] # <<"updated">>
  BY <1>1, <1>2, <1>3
<1>5. QED
  BY <1>4, CommonFlowRenaming DEF FlowTable, Table

LEMMA EssenceTable ==
  ASSUME NEW essence, Table(essence)
  PROVE  FlowTable(Flow(essence))
<1> DEFINE Essence == Under("essenceParameters", "essence_parameters", essence)
<1>1. Renaming(Essence, {"essenceParameters"}, {"essence_parameters"})
  BY UnderRenaming DEF Table
<1>2. "essenceParameters" \notin FlowInner /\ "essence_parameters" \notin FlowOuter
  BY FlowNamesApart DEF FlowInner, FlowOuter
<1> HIDE DEF Essence
<1>3. Renaming(CommonFlow \cup Essence, FlowInner \cup {"essenceParameters"},
               FlowOuter \cup {"essence_parameters"})
  BY <1>1, <1>2, CommonFlowRenaming, AddedRenaming
<1>4. \A pair \in Essence : pair[1][1] = "essenceParameters"
  BY <1>1 DEF Renaming
<1>5. \A pair \in Essence : pair[1] # <<"updated">>
  BY <1>4
<1>6. Flow(essence) = CommonFlow \cup Essence
  BY DEF Flow, Essence
<1>7. QED
  BY <1>3, <1>4, <1>5, <1>6, CommonFlowTable DEF FlowTable, Table

LEMMA FlowNamesTable ==
  ASSUME NEW format \in Formats
  PROVE  FlowTable(FlowNames(format))
<1>1. FlowTable(VideoFlow)
  BY VideoEssenceTable, EssenceTable DEF VideoFlow
<1>2. FlowTable(AudioFlow)
  BY AudioEssenceTable, EssenceTable DEF AudioFlow
<1>3. FlowTable(ImageFlow)
  BY ImageEssenceTable, EssenceTable DEF ImageFlow
<1>4. FlowTable(DataFlow)
  BY DataEssenceTable, EssenceTable DEF DataFlow
<1>5. QED
  BY <1>1, <1>2, <1>3, <1>4, CommonFlowTable DEF Formats, FlowNames

(* The fields that are treated apart.                                        *)
LEMMA NamedFields ==
  /\ <<<<"format">>, <<"format">>>> \in CommonFlow
  /\ <<<<"created">>, <<"created">>>> \in CommonFlow
  /\ <<<<"metadataUpdated">>, <<"metadata_updated">>>> \in CommonFlow
  /\ <<<<"segmentsUpdated">>, <<"segments_updated">>>> \in CommonFlow
  /\ <<<<"segmentDuration">>, <<"segment_duration">>>> \in CommonFlow
  /\ <<<<"generation">>, <<"generation">>>> \in CommonFlow
<1>1. {"format", "created", "metadataUpdated", "segmentsUpdated", "segmentDuration",
       "generation"} \subseteq DOMAIN FlowFields
  BY DEF FlowFields
<1>2. /\ FlowFields["format"] = "format"
      /\ FlowFields["created"] = "created"
      /\ FlowFields["metadataUpdated"] = "metadata_updated"
      /\ FlowFields["segmentsUpdated"] = "segments_updated"
      /\ FlowFields["segmentDuration"] = "segment_duration"
      /\ FlowFields["generation"] = "generation"
  BY DEF FlowFields
<1>3. Fields(FlowFields) \subseteq CommonFlow
  BY DEF CommonFlow
<1>4. QED
  BY <1>1, <1>2, <1>3 DEF Fields

LEMMA RatioFields ==
  /\ <<InnerAspectRatio, AspectRatio>> \in VideoFlow
  /\ <<InnerPixelAspectRatio, PixelAspectRatio>> \in VideoFlow
<1>1. {"aspectRatio", "pixelAspectRatio"} \subseteq DOMAIN VideoFields
  BY DEF VideoFields
<1>2. /\ VideoFields["aspectRatio"] = "aspect_ratio"
      /\ VideoFields["pixelAspectRatio"] = "pixel_aspect_ratio"
  BY DEF VideoFields
<1>3. Fields(VideoFields) \subseteq VideoEssence
  BY DEF VideoEssence
<1>4. /\ <<<<"aspectRatio">>, <<"aspect_ratio">>>> \in VideoEssence
      /\ <<<<"pixelAspectRatio">>, <<"pixel_aspect_ratio">>>> \in VideoEssence
  BY <1>1, <1>2, <1>3 DEF Fields
<1>5. \A pair \in VideoEssence :
        <<<<"essenceParameters">> \o pair[1], <<"essence_parameters">> \o pair[2]>> \in VideoFlow
  BY DEF VideoFlow, Flow, Under
<1>6. /\ <<"essenceParameters">> \o <<"aspectRatio">> = InnerAspectRatio
      /\ <<"essenceParameters">> \o <<"pixelAspectRatio">> = InnerPixelAspectRatio
      /\ <<"essence_parameters">> \o <<"aspect_ratio">> = AspectRatio
      /\ <<"essence_parameters">> \o <<"pixel_aspect_ratio">> = PixelAspectRatio
  <2>1. \A n, m : <<n>> \o <<m>> = <<n, m>>
    BY Pair
  <2>2. QED
    BY <2>1, Zenon DEF InnerAspectRatio, InnerPixelAspectRatio, AspectRatio, PixelAspectRatio
<1>7. QED
  BY <1>4, <1>5, <1>6

------------------------------------------------------------------------------
(* Reading and writing by a table.                                           *)

LEMMA ReadFields ==
  ASSUME NEW doc, NEW table, \A a, b \in table : a[1] = b[1] => a[2] = b[2]
  PROVE  /\ DOMAIN Read(doc, table) \subseteq Inner(table)
         /\ \A pair \in table :
              /\ pair[1] \in DOMAIN Read(doc, table) <=> pair[2] \in DOMAIN doc
              /\ pair[2] \in DOMAIN doc => Read(doc, table)[pair[1]] = doc[pair[2]]
<1> DEFINE used == {pair \in table : pair[2] \in DOMAIN doc}
           For(p) == CHOOSE pair \in used : pair[1] = p
<1>1. Read(doc, table) = [p \in Inner(used) |-> doc[For(p)[2]]]
  BY DEF Read
<1>2. ASSUME NEW pair \in used
      PROVE  pair[1] \in Inner(used) /\ For(pair[1])[2] = pair[2]
  <2>1. For(pair[1]) \in used /\ For(pair[1])[1] = pair[1]
    OBVIOUS
  <2>2. QED
    BY <2>1 DEF Inner
<1>3. \A pair \in table : pair[1] \in Inner(used) => pair \in used
  BY DEF Inner
<1>4. Inner(used) \subseteq Inner(table)
  BY DEF Inner
<1>5. \A pair \in table : pair \in used <=> pair[2] \in DOMAIN doc
  OBVIOUS
<1> HIDE DEF used, For
<1>6. QED
  BY <1>1, <1>2, <1>3, <1>4, <1>5

LEMMA WriteFields ==
  ASSUME NEW doc, NEW table, \A a, b \in table : a[2] = b[2] => a[1] = b[1]
  PROVE  /\ DOMAIN Write(doc, table) \subseteq Outer(table)
         /\ \A pair \in table :
              /\ pair[2] \in DOMAIN Write(doc, table) <=> pair[1] \in DOMAIN doc
              /\ pair[1] \in DOMAIN doc => Write(doc, table)[pair[2]] = doc[pair[1]]
<1> DEFINE used == {pair \in table : pair[1] \in DOMAIN doc}
           For(p) == CHOOSE pair \in used : pair[2] = p
<1>1. Write(doc, table) = [p \in Outer(used) |-> doc[For(p)[1]]]
  BY DEF Write
<1>2. ASSUME NEW pair \in used
      PROVE  pair[2] \in Outer(used) /\ For(pair[2])[1] = pair[1]
  <2>1. For(pair[2]) \in used /\ For(pair[2])[2] = pair[2]
    OBVIOUS
  <2>2. QED
    BY <2>1 DEF Outer
<1>3. \A pair \in table : pair[2] \in Outer(used) => pair \in used
  BY DEF Outer
<1>4. Outer(used) \subseteq Outer(table)
  BY DEF Outer
<1>5. \A pair \in table : pair \in used <=> pair[1] \in DOMAIN doc
  OBVIOUS
<1> HIDE DEF used, For
<1>6. QED
  BY <1>1, <1>2, <1>3, <1>4, <1>5

(* The pair of names whose inner one is not read from the outer.             *)
PixelPair == <<InnerPixelAspectRatio, PixelAspectRatio>>

LEMMA FromApiFields ==
  ASSUME NEW doc, FormatOf(doc) \in Formats
  PROVE  /\ DOMAIN FromApi(doc) \subseteq Inner(FlowNames(FormatOf(doc)))
         /\ \A pair \in FlowNames(FormatOf(doc)) :
              (FormatOf(doc) = "video" => pair # PixelPair)
              => /\ pair[1] \in DOMAIN FromApi(doc) <=> pair[2] \in DOMAIN doc
                 /\ pair[2] \in DOMAIN doc => FromApi(doc)[pair[1]] = doc[pair[2]]
         /\ FormatOf(doc) = "video" =>
              /\ InnerPixelAspectRatio \in DOMAIN FromApi(doc)
                   <=> InnerAspectRatio \in DOMAIN FromApi(doc)
              /\ InnerAspectRatio \in DOMAIN FromApi(doc)
                   => FromApi(doc)[InnerPixelAspectRatio] = FromApi(doc)[InnerAspectRatio]
<1> DEFINE names == FlowNames(FormatOf(doc))
<1>1. OneToOne(names) /\ \A pair \in names : pair = <<pair[1], pair[2]>>
  BY FlowNamesTable DEF FlowTable, Table, Renaming
<1>2. CASE FormatOf(doc) # "video"
  <2>1. FromApi(doc) = Read(doc, names)
    BY <1>2 DEF FromApi
  <2>2. QED
    BY <1>1, <1>2, <2>1, ReadFields DEF OneToOne
<1>3. CASE FormatOf(doc) = "video"
  <2>1. FromApi(doc) = Read(doc, VideoFlowRead) /\ names = VideoFlow
    BY <1>3 DEF FromApi, FlowNames
  <2> HIDE DEF names
  <2> DEFINE new == <<InnerPixelAspectRatio, AspectRatio>>
             ratio == <<InnerAspectRatio, AspectRatio>>
  <2>2. \A pair \in VideoFlowRead : pair = new \/ (pair \in VideoFlow /\ pair # PixelPair)
    BY DEF VideoFlowRead, PixelPair
  <2>3. /\ new \in VideoFlowRead
        /\ \A pair \in VideoFlow : pair # PixelPair => pair \in VideoFlowRead
    BY DEF VideoFlowRead, PixelPair
  <2>4. \A pair \in VideoFlow : pair[1] = InnerPixelAspectRatio => pair = PixelPair
    BY <1>1, <2>1, RatioFields DEF OneToOne, PixelPair
  <2>5. \A a, b \in VideoFlowRead : a[1] = b[1] => a[2] = b[2]
    BY <1>1, <2>1, <2>2, <2>4 DEF OneToOne
  <2>6. InnerAspectRatio # InnerPixelAspectRatio
    BY DEF InnerAspectRatio, InnerPixelAspectRatio
  <2>7. ratio \in VideoFlow /\ ratio # PixelPair /\ ratio \in VideoFlowRead
    BY <2>3, <2>6, RatioFields DEF PixelPair
  <2>8. Inner(VideoFlowRead) \subseteq Inner(VideoFlow)
    BY <2>2, RatioFields DEF Inner
  <2>9. /\ DOMAIN FromApi(doc) \subseteq Inner(VideoFlowRead)
        /\ \A pair \in VideoFlowRead :
             /\ pair[1] \in DOMAIN FromApi(doc) <=> pair[2] \in DOMAIN doc
             /\ pair[2] \in DOMAIN doc => FromApi(doc)[pair[1]] = doc[pair[2]]
    BY <2>1, <2>5, ReadFields
  <2>10. /\ new[1] = InnerPixelAspectRatio /\ new[2] = AspectRatio
         /\ ratio[1] = InnerAspectRatio /\ ratio[2] = AspectRatio
    OBVIOUS
  <2>11. /\ InnerPixelAspectRatio \in DOMAIN FromApi(doc) <=> AspectRatio \in DOMAIN doc
         /\ InnerAspectRatio \in DOMAIN FromApi(doc) <=> AspectRatio \in DOMAIN doc
         /\ AspectRatio \in DOMAIN doc =>
              FromApi(doc)[InnerPixelAspectRatio] = FromApi(doc)[InnerAspectRatio]
    BY <2>3, <2>7, <2>9, <2>10
  <2>12. QED
    BY <1>3, <2>1, <2>3, <2>8, <2>9, <2>11 DEF names
<1>4. QED
  BY <1>2, <1>3

LEMMA ToApiFields ==
  ASSUME NEW flow, FormatOf(flow) \in Formats
  PROVE  /\ DOMAIN ToApi(flow) \subseteq Outer(FlowNames(FormatOf(flow)))
         /\ \A pair \in FlowNames(FormatOf(flow)) :
              /\ pair[2] \in DOMAIN ToApi(flow) <=> pair[1] \in DOMAIN flow
              /\ pair[1] \in DOMAIN flow => ToApi(flow)[pair[2]] = flow[pair[1]]
<1>1. OneToOne(FlowNames(FormatOf(flow)))
  BY FlowNamesTable DEF FlowTable, Table, Renaming
<1>2. QED
  BY <1>1, WriteFields DEF ToApi, OneToOne

LEMMA RecordToFlowFields ==
  ASSUME NEW record, NEW format \in Formats, DOMAIN record \subseteq Inner(FlowNames(format))
  PROVE  /\ DOMAIN RecordToFlow(record) = DOMAIN record
         /\ \A p \in DOMAIN record : RecordToFlow(record)[p] = record[p]
<1>1. \A p \in DOMAIN record : p[1] = "essenceParameters" \/ p \in Inner(CommonFlow)
  BY FlowNamesTable DEF FlowTable, Inner
<1>2. QED
  BY <1>1 DEF RecordToFlow, Restrict
=============================================================================
