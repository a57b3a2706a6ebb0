----------------------------- MODULE MCCatalogue -----------------------------
(* Documents of every format for one flow, and walks over three flows, or    *)
(* sources, while they change.                                               *)
EXTENDS Catalogue

MCTagKeys == {"colour", "due-date"}
MCOddKeys == {"due-date"}
MCHashOrder == <<"i2", "i3", "i1">>
MCTimes == {<<"noon", "half">>}
MCPartOf == {<<<<"red">>, <<"redder">>>>}

(* Every field with a value of its own.                                      *)
Full(format) ==
  [p \in Outer(FlowNames(format)) |->
     CASE p = <<"format">> -> <<format>>
       [] p = <<"read_only">> -> <<"false">>
       [] p = <<"segments_updated">> -> <<"noon", "half">>
       [] OTHER -> p]

Without(doc, paths) == Restrict(doc, DOMAIN doc \ paths)

Minimal(format) ==
  LET required == {Append(pair[1], pair[2]) :
                     pair \in {r \in Required(format) :
                                 r[1] \in {<<>>, <<"essence_parameters">>}}}
  IN Restrict(Full(format), required)

MCBodies ==
  {Full(format) : format \in Formats} \cup {Minimal(format) : format \in Formats}
  \cup {Without(Full("video"), {AspectRatio}),
        Without(Full("audio"), {<<"flow_collection", "item">> \o p :
                                  p \in Outer(FlowCollectionItem)}
                               \cup {<<"flow_collection", "item">>}),
        [Full("image") EXCEPT ![<<"read_only">>] = <<"true">>],
        (* refused *)
        Without(Full("video"), {<<"essence_parameters", "frame_width">>}),
        (<<"essence_parameters">> :> <<"essence_parameters">>) @@ Minimal("multi"),
        [Minimal("data") EXCEPT ![<<"codec">>] = Malformed]}

Query(fields, tags, have, lack, limit) ==
  [fields |-> fields, tags |-> tags, have |-> have, lack |-> lack, limit |-> limit,
   half |-> FALSE]

AndHalf(q) == [q EXCEPT !.half = TRUE]

All(limit) == Query(<<>>, <<>>, {}, {}, limit)

(* Two flows that every filter tells apart.                                  *)
Tagged == (<<"label">> :> <<"news">>) @@ (<<"tags">> :> <<"tags">>)
          @@ (<<"tags", "colour">> :> <<"red">>) @@ Minimal("video")
Plain == Minimal("audio")

Paging == {All(2), Query("label" :> <<"news">>, <<>>, {}, {}, 1)}

Filtering ==
  {All(0), AndHalf(All(1)),
   Query(("frame_width" :> <<"essence_parameters", "frame_width">>)
         @@ ("source_id" :> <<"source_id">>), <<>>, {}, {}, 2),
   Query("format" :> <<"video">>, <<>>, {}, {}, 1),
   Query(<<>>, "colour" :> <<"red">>, {}, {}, 1),
   Query(<<>>, "due-date" :> <<"red">>, {}, {}, 1),
   Query(<<>>, <<>>, {}, {"colour"}, 1)}

MCSource(label, colour) ==
  (<<"id">> :> <<"id">>) @@ (<<"format">> :> <<"video">>) @@ (<<"label">> :> label)
  @@ (<<"tags">> :> <<"tags">>) @@ (<<"tags", "colour">> :> colour)

SourceQueries ==
  {AndHalf(All(1)),
   Query("label" :> <<"news">>, <<>>, {}, {}, 1),
   Query("format" :> <<"video">>, "colour" :> <<"red">>, {"colour"}, {}, 1)}

Scenario(kind, repository, ids, initial, bodies, queries) ==
  [kind |-> kind, repository |-> repository, ids |-> ids, initial |-> initial,
   bodies |-> bodies, queries |-> queries]

Two == {MCSource(<<"Newsroom">>, <<"array", "red", "blue">>),
        MCSource(<<"news">>, <<"redder">>)}

TwoIds == {"i1", "i2"}

MCScenarios ==
  {Scenario("flow", "dynamodb", {"i1"}, {}, MCBodies, {}),
   Scenario("flow", "memory", {"i1"}, {}, MCBodies, {}),
   Scenario("flow", "dynamodb", Ids, {}, {Tagged, Plain}, Paging),
   Scenario("flow", "dynamodb", TwoIds, {}, {Tagged, Plain}, Filtering),
   Scenario("flow", "memory", Ids, {}, {Tagged, Plain}, Paging),
   Scenario("flow", "memory", TwoIds, {}, {Tagged, Plain}, Filtering),
   Scenario("source", "dynamodb", TwoIds, Two, {}, SourceQueries)}
=============================================================================
