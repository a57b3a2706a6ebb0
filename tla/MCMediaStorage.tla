--------------------------- MODULE MCMediaStorage ---------------------------
(* Two requests over one flow and two backends: both may name the same       *)
(* objects, one may let the service generate them.                           *)
EXTENDS MediaStorage, TLC

CONSTANTS f1, h1, h2, n1, n2, b1, b2

Ask(names, limit, storage) ==
  [flow |-> f1, ids |-> names, limit |-> limit, storage |-> storage]

MCWorkload ==
  (h1 :> {Ask({n1, n2}, Unset, Unset), Ask({n1}, 1, b2), Ask({n1}, Unset, NoRecord)})
  @@ (h2 :> {Ask({n1}, Unset, b2), Ask({}, Unset, b2), Ask({}, Fractional, b2)})
=============================================================================
