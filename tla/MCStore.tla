------------------------------- MODULE MCStore -------------------------------
(* One Store that users create, edit, delete and make again under the same   *)
(* name.  Its two specifications differ in the port, in the replicas, left   *)
(* out by one of them, and in the Secret the pods take their environment     *)
(* from.  The configurations choose who else interferes and what may fail.   *)
EXTENDS StoreController, TLC

CONSTANTS n1, w1, w2, c1, c2, gone, nil

MCSpecs ==
  { [config |-> c1, replicas |-> nil, secret |-> nil],
    [config |-> c2, replicas |-> 2, secret |-> "aws"] }

(* No Secret to wait for.                                                    *)
MCPlainSpecs ==
  { [config |-> c1, replicas |-> nil, secret |-> nil],
    [config |-> c2, replicas |-> 2, secret |-> nil] }

MCPort == [c \in Configs |-> IF c = c1 THEN 3000 ELSE 8080]

Symmetry == Permutations(Workers)
=============================================================================
