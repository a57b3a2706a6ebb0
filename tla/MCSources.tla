------------------------------ MODULE MCSources ------------------------------
(* One source, stored by another program, two overlapping requests and a     *)
(* write that outlives its request.                                          *)
EXTENDS SourceStore, TLC

CONSTANTS s1, h1, h2, v1, undef, r1

MCTags == {"tag1", "tag2"}

Bare == [a \in Attrs |-> Undefined]

MCInitial ==
  {[attrs |-> [Bare EXCEPT !["tag1"] = v1, !["label"] = v1], rest |-> r1, created |-> 1]}

Put(a) == [op |-> "put", source |-> s1, attr |-> a, value |-> v1]
Delete(a) == [op |-> "delete", source |-> s1, attr |-> a]
Get(a) == [op |-> "get", source |-> s1, attr |-> a]

MCWorkload ==
  (h1 :> {Delete("tag1"), Get("label")})
  @@ (h2 :> {Put("tag2"), Delete("label")})
=============================================================================
