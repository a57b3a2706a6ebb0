------------------------------ MODULE Documents ------------------------------
(* What a flow and a source look like on the two sides of the adapters       *)
(* (service/src/repository/adapters), in a DynamoDB record                   *)
(* (service/src/repository/dynamodb) and to the validators of the API        *)
(* (service/src/api/validators).                                             *)
(*                                                                           *)
(* A document is a function from paths to values; a path is a sequence of    *)
(* field names.  A field that is undefined is not in the domain, an object   *)
(* that is present is in it with its fields, and the elements of an array    *)
(* are alike: they stand under the name "item".                              *)
EXTENDS Naturals, Sequences, Functions

CONSTANT TagKeys \* tag names

(* A value that the rule of its field refuses.                               *)
Malformed == <<>>

Formats == {"video", "audio", "image", "data", "multi"}

------------------------------------------------------------------------------
(* Tables of names: pairs of a path in the document of a repository and the  *)
(* one of the API it is read from.                                           *)

Fields(names) == {<<<<n>>, <<names[n]>>>> : n \in DOMAIN names}

Under(inner, name, table) ==
  {<<<<inner>>, <<name>>>>} \cup
  {<<<<inner>> \o pair[1], <<name>> \o pair[2]>> : pair \in table}

Inner(table) == {pair[1] : pair \in table}
Outer(table) == {pair[2] : pair \in table}

ContainerMapping ==
  Fields([trackIndex |-> "track_index", formatTrackIndex |-> "format_track_index"])
  \cup Under("audioTrack", "audio_track",
           Fields([channelNumbers |-> "channel_numbers",
                   channelRange |-> "channel_range"]))
  \cup Under("mp2tsContainer", "mp2ts_container", Fields([pid |-> "pid"]))
  \cup Under("mxfContainer", "mxf_container",
           Fields([packageUid |-> "package_uid", trackId |-> "track_id"]))
  \cup Under("isobmffContainer", "isobmff_container", Fields([trackId |-> "track_id"]))

FlowCollectionItem ==
  Fields([id |-> "id", role |-> "role"])
  \cup Under("containerMapping", "container_mapping", ContainerMapping)

TagMap == Under("tags", "tags", Fields([k \in TagKeys |-> k]))

FlowFields ==
  [flowId |-> "id", sourceId |-> "source_id", label |-> "label",
   description |-> "description", createdBy |-> "created_by", updatedBy |-> "updated_by",
   metadataVersion |-> "metadata_version", generation |-> "generation",
   created |-> "created", metadataUpdated |-> "metadata_updated",
   segmentsUpdated |-> "segments_updated", readOnly |-> "read_only", codec |-> "codec",
   container |-> "container", avgBitRate |-> "avg_bit_rate",
   maxBitRate |-> "max_bit_rate", segmentDuration |-> "segment_duration",
   timerange |-> "timerange", collectedBy |-> "collected_by", format |-> "format"]

CommonFlow ==
  Fields(FlowFields)
  \cup TagMap
  \cup Under("flowCollection", "flow_collection", Under("item", "item", FlowCollectionItem))
  \cup Under("containerMapping", "container_mapping", ContainerMapping)

VideoFields ==
  [frameRate |-> "frame_rate", frameWidth |-> "frame_width",
   frameHeight |-> "frame_height", bitDepth |-> "bit_depth",
   interlaceMode |-> "interlace_mode", colorspace |-> "colorspace",
   transferCharacteristics |-> "transfer_characteristics",
   aspectRatio |-> "aspect_ratio", pixelAspectRatio |-> "pixel_aspect_ratio",
   componentType |-> "component_type", horizChromaSubs |-> "horiz_chroma_subs",
   vertChromaSubs |-> "vert_chroma_subs"]

VideoEssence ==
  Fields(VideoFields)
  \cup Under("uncParameters", "unc_parameters", Fields([uncType |-> "unc_type"]))
  \cup Under("avcParameters", "avc_parameters",
           Fields([profile |-> "profile", level |-> "level", flags |-> "flags"]))

AudioEssence ==
  Fields([sampleRate |-> "sample_rate", channels |-> "channels", bitDepth |-> "bit_depth"])
  \cup Under("codecParameters", "codec_parameters",
           Fields([codedFrameSize |-> "coded_frame_size", mp4Oti |-> "mp4_oti"]))
  \cup Under("uncParameters", "unc_parameters", Fields([uncType |-> "unc_type"]))

ImageEssence ==
  Fields([frameWidth |-> "frame_width", frameHeight |-> "frame_height",
          aspectRatio |-> "aspect_ratio"])

DataEssence == Fields([dataType |-> "data_type"])

Flow(essence) == CommonFlow \cup Under("essenceParameters", "essence_parameters", essence)
VideoFlow == Flow(VideoEssence)
AudioFlow == Flow(AudioEssence)
ImageFlow == Flow(ImageEssence)
DataFlow == Flow(DataEssence)

FlowNames(format) ==
  CASE format = "video" -> VideoFlow
    [] format = "audio" -> AudioFlow
    [] format = "image" -> ImageFlow
    [] format = "data" -> DataFlow
    [] format = "multi" -> CommonFlow

Source ==
  Fields([id |-> "id", format |-> "format", label |-> "label",
          description |-> "description", createdBy |-> "created_by",
          updatedBy |-> "updated_by", created |-> "created", updated |-> "updated",
          collectedBy |-> "collected_by"])
  \cup TagMap
  \cup Under("sourceCollection", "source_collection",
           Under("item", "item", Fields([id |-> "id", role |-> "role"])))

------------------------------------------------------------------------------
(* The adapters.                                                             *)

FormatOf(doc) == doc[<<"format">>][1]

AspectRatio == <<"essence_parameters", "aspect_ratio">>
PixelAspectRatio == <<"essence_parameters", "pixel_aspect_ratio">>

(* fromApi: each field of the document of the repository is read from one of *)
(* the body; pixelAspectRatio is read from aspect_ratio.  Two ways to get it *)
(* wrong: to take one format for another, and to swap the two ratios.        *)
Read(doc, names) ==
  LET used == {pair \in names : pair[2] \in DOMAIN doc}
  IN [p \in Inner(used) |-> doc[(CHOOSE pair \in used : pair[1] = p)[2]]]

InnerAspectRatio == <<"essenceParameters", "aspectRatio">>
InnerPixelAspectRatio == <<"essenceParameters", "pixelAspectRatio">>

VideoFlowRead ==
  (VideoFlow \ {<<InnerPixelAspectRatio, PixelAspectRatio>>})
  \cup {<<InnerPixelAspectRatio, AspectRatio>>}

FromApiMisread(doc) ==
  Read(doc, IF FormatOf(doc) = "video" THEN VideoFlowRead
            ELSE IF FormatOf(doc) = "audio" THEN DataFlow ELSE FlowNames(FormatOf(doc)))

FromApiCrossed(doc) ==
  Read(doc, IF FormatOf(doc) = "video"
            THEN (VideoFlowRead \ {<<InnerAspectRatio, AspectRatio>>})
                 \cup {<<InnerAspectRatio, PixelAspectRatio>>}
            ELSE FlowNames(FormatOf(doc)))

FromApi(doc) ==
  Read(doc, IF FormatOf(doc) = "video" THEN VideoFlowRead ELSE FlowNames(FormatOf(doc)))

(* toApi: the same fields the other way.                                     *)
Write(doc, names) ==
  LET used == {pair \in names : pair[1] \in DOMAIN doc}
  IN [p \in Outer(used) |-> doc[(CHOOSE pair \in used : pair[2] = p)[1]]]

ToApi(flow) == Write(flow, FlowNames(FormatOf(flow)))

ToApiSource(source) == Write(source, Source)

------------------------------------------------------------------------------
(* DynamoDB records.  A date is its second and the rest of it: toString()    *)
(* keeps the second, and new Date(...) reads it back.                        *)

Dates == {<<"created">>, <<"metadataUpdated">>, <<"segmentsUpdated">>, <<"updated">>}

Seconds(value) == <<value[1]>>

ToRecord(doc) == [p \in DOMAIN doc |-> IF p \in Dates THEN Seconds(doc[p]) ELSE doc[p]]

(* recordToFlow names the fields it reads, but takes the essence parameters  *)
(* whole.  The first form forgets the fields of the container mapping.       *)
RecordToFlowUnmapped(record) ==
  Restrict(record, {p \in DOMAIN record :
    \/ p[1] = "essenceParameters"
    \/ p[1] # "containerMapping" /\ p \in Inner(CommonFlow)})

RecordToFlow(record) ==
  Restrict(record, {p \in DOMAIN record :
    p[1] = "essenceParameters" \/ p \in Inner(CommonFlow)})

RecordToSource(record) == Restrict(record, DOMAIN record \cap Inner(Source))

------------------------------------------------------------------------------
(* The validators, of bodies and of responses.                               *)

(* For each object, the fields it cannot be without.                         *)
RequiredEssence(format) ==
  CASE format = "video" -> {"frame_width", "frame_height"}
    [] format = "audio" -> {"sample_rate", "channels"}
    [] format = "image" -> {"frame_width", "frame_height"}
    [] OTHER -> {}

Required(format) ==
  LET essence == <<"essence_parameters">>
  IN UNION {{<<>>} \X {"id", "source_id", "codec", "format"},
            IF format = "multi" THEN {} ELSE {<<<<>>, "essence_parameters">>},
            {<<"flow_collection", "item">>} \X {"id", "role"},
            {essence} \X RequiredEssence(format),
            {Append(essence, "unc_parameters")} \X {"unc_type"},
            {Append(essence, "avc_parameters")} \X {"profile", "level", "flags"}}

Complete(doc, required) ==
  \A pair \in required :
    pair[1] \in DOMAIN doc \cup {<<>>} => Append(pair[1], pair[2]) \in DOMAIN doc

Known(doc, names) ==
  DOMAIN doc \subseteq Outer(names) /\ Malformed \notin Range(doc)

FlowValid(doc) ==
  /\ <<"format">> \in DOMAIN doc
  /\ FormatOf(doc) \in Formats
  /\ Complete(doc, Required(FormatOf(doc)))
  /\ Known(doc, FlowNames(FormatOf(doc)))

SourceValid(doc) ==
  /\ <<"format">> \in DOMAIN doc
  /\ FormatOf(doc) \in Formats
  /\ Complete(doc, ({<<>>} \X {"id", "format"})
                   \cup ({<<"source_collection", "item">>} \X {"id", "role"}))
  /\ Known(doc, Source)
=============================================================================
