---------------------------- MODULE StartupProofs ----------------------------
(* Proofs about Startup, for any replicas, names, Stores and settings, and   *)
(* however often the Store is edited or a process fails.                     *)
EXTENDS Startup, FiniteSetTheorems, TLAPS

Running == {"describing", "creating", "serving"}

------------------------------------------------------------------------------
(* The roles, in the order their tables are made sure of.                    *)
LEMMA RoleOrder ==
  /\ Len(Roles) = 5
  /\ \A i \in 1..5 : Roles[i] \in RoleSet
  /\ \A role \in RoleSet : \E i \in 1..5 : role = Roles[i]
BY DEF Roles, RoleSet

------------------------------------------------------------------------------
(* What a configuration is read from.                                        *)

LEMMA ConfigMapType ==
  ASSUME NEW spec \in Stores
  PROVE  ConfigMap(spec) \in Layers
<1>1. spec \in Layers
  BY SettingsAssumption
<1>2. \A role \in RoleSet :
        (IF spec.type # "dynamodb" \/ role \notin Decoded THEN Absent
         ELSE IF spec.tables[role] = Absent THEN "" ELSE spec.tables[role]) \in Settings
  BY <1>1 DEF Layers, Settings
<1>3. QED
  BY <1>1, <1>2 DEF ConfigMap, Layers

LEMMA ParseKeyType ==
  ASSUME NEW S, NEW a \in S, NEW e \in S, NEW f \in S, Absent \in S
  PROVE  ParseKey(a, e, f) \in S
BY DEF ParseKey

LEMMA ParseArrayType ==
  ASSUME NEW a \in Seq(Backends) \cup {Absent},
         NEW e \in Seq(Backends) \cup {Absent, NotAList},
         NEW f \in Seq(Backends) \cup {Absent, NotAList}
  PROVE  ParseArray(a, e, f) \in Seq(Backends)
<1>1. <<>> \in Seq(Backends)
  OBVIOUS
<1>2. QED
  BY <1>1 DEF ParseArray

(* What an accepted configuration looks like.                                *)
LEMMA AcceptedType ==
  ASSUME given \in Invocations, NEW f \in Layers, Accepted(Parse(f))
  PROVE  /\ Parse(f) \in Configs
         /\ Parse(f).type = "dynamodb" => \A role \in RoleSet : Parse(f).tables[role] \in Names
<1>. DEFINE type == ParseKey(given.arguments.type, given.environment.type, f.type)
            list == ParseArray(given.arguments.backends, given.environment.backends, f.backends)
            names == [role \in RoleSet |->
                        IF type # "dynamodb" THEN Absent
                        ELSE ParseKey(given.arguments.tables[role],
                                      given.environment.tables[role], f.tables[role])]
            backends == [i \in DOMAIN list |-> ParseBackend(list[i])]
<1>1. given.arguments \in Layers /\ given.environment \in Layers /\ given.arguments.backends # NotAList
  BY SettingsAssumption
<1>2. list \in Seq(Backends)
  <2>1. /\ given.arguments.backends \in Seq(Backends) \cup {Absent}
        /\ given.environment.backends \in Seq(Backends) \cup {Absent, NotAList}
        /\ f.backends \in Seq(Backends) \cup {Absent, NotAList}
    BY <1>1 DEF Layers
  <2>2. QED
    BY <2>1, ParseArrayType
<1>3. backends \in Seq(Backends)
  <2>1. \A b \in Backends : ParseBackend(b) \in Backends
    BY DEF ParseBackend, Backends
  <2>. HIDE DEF list
  <2>2. QED
    BY <1>2, <2>1
<1>4. \A role \in RoleSet : names[role] \in Settings
  <2>1. ASSUME NEW role \in RoleSet
        PROVE  ParseKey(given.arguments.tables[role], given.environment.tables[role],
                        f.tables[role]) \in Settings
    <3>1. given.arguments.tables[role] \in Settings /\ given.environment.tables[role] \in Settings
          /\ f.tables[role] \in Settings
      BY <1>1 DEF Layers
    <3>2. QED
      BY <3>1, ParseKeyType DEF Settings
  <2>2. QED
    BY <2>1 DEF Settings
<1>5. Parse(f) = [type |-> type, tables |-> names, backends |-> backends]
  BY DEF Parse
<1>. HIDE DEF type, names, backends
<1>6. type \in {"dynamodb", "memory"}
  BY <1>5 DEF Accepted, DatabaseValid
<1>7. names \in [RoleSet -> Settings]
  BY <1>4 DEF names
<1>8. QED
  BY <1>3, <1>5, <1>6, <1>7 DEF Configs, Accepted, DatabaseValid

(* The environment of a replica does not change, nor what it makes of files. *)
LEMMA ParseKept ==
  ASSUME given' = given
  PROVE  /\ \A f : Parse(f)' = Parse(f)
         /\ \A t : SharedName(t)' = SharedName(t)
BY DEF Parse, SharedName, RolesOf

------------------------------------------------------------------------------
(* Types.  A replica past its configuration runs with one that was accepted. *)
Labels == {"exited", "reading", "describing", "creating", "serving"}

Typed ==
  /\ given \in Invocations
  /\ \E spec \in Stores : file = ConfigMap(spec)
  /\ pc \in [Replicas -> Labels]
  /\ config \in [Replicas -> Configs \cup {Absent}]
  /\ next \in [Replicas -> 1..6]
  /\ tables \in [Names -> TableStates \cup {Absent}]
  /\ info \in [Names -> Infos]
  /\ memory \in [Replicas -> Infos]
  /\ edits \in 0..MaxEdits
  /\ faults \in 0..MaxFaults

(* What replica r relies on, once it has read configuration c.               *)
Sound(c) ==
  /\ \E spec \in Stores : c = Parse(ConfigMap(spec))
  /\ Accepted(c)
  /\ c \in Configs
  /\ c.type = "dynamodb" => \A role \in RoleSet : c.tables[role] \in Names

Configured ==
  \A r \in Replicas :
    /\ pc[r] = "reading" => next[r] = 1
    /\ pc[r] \in Running => Sound(config[r])
    /\ pc[r] \in {"describing", "creating"} => config[r].type = "dynamodb" /\ next[r] \in 1..5
    /\ pc[r] = "serving" /\ config[r].type = "dynamodb" => next[r] = 6

LEMMA TypeFromParts == Typed /\ Configured => TypeOK
<1> SUFFICES ASSUME Typed, Configured PROVE TypeOK
  OBVIOUS
<1>1. Len(Roles) = 5 /\ \A i \in 1..5 : Roles[i] \in RoleSet
  BY RoleOrder
<1>2. ASSUME NEW r \in Replicas, pc[r] \in {"describing", "creating"}
      PROVE  next[r] <= Len(Roles) /\ NextTable(r) \in Names
  BY <1>1, <1>2 DEF Configured, Running, Sound, NextTable, Table
<1>3. \A r \in Replicas : pc[r] \in Running => config[r] \in Configs
  BY DEF Configured, Sound
<1>4. QED
  BY <1>1, <1>2, <1>3 DEF Typed, TypeOK, Labels, Running

LEMMA InitType == Init => Typed /\ Configured
<1>. SUFFICES ASSUME Init PROVE Typed /\ Configured
  OBVIOUS
<1>1. "" \in Infos
  BY BoundAssumption
<1>2. Configured
  BY DEF Init, Configured, Running
<1>3. Typed
  <2>. /\ pc = [r \in Replicas |-> "exited"] /\ next = [r \in Replicas |-> 1]
       /\ edits = 0 /\ faults = 0
    BY DEF Init
  <2>1. pc \in [Replicas -> Labels]
    BY DEF Labels
  <2>2. next \in [Replicas -> 1..6]
    OBVIOUS
  <2>3. config \in [Replicas -> Configs \cup {Absent}]
    BY DEF Init
  <2>4. tables \in [Names -> TableStates \cup {Absent}]
    BY DEF Init
  <2>5. info \in [Names -> Infos] /\ memory \in [Replicas -> Infos]
    BY <1>1 DEF Init
  <2>6. edits \in 0..MaxEdits /\ faults \in 0..MaxFaults
    <3>1. MaxEdits \in Nat /\ MaxFaults \in Nat
      BY BoundAssumption
    <3>2. QED
      BY <3>1
  <2>7. QED
    BY <2>1, <2>2, <2>3, <2>4, <2>5, <2>6 DEF Init, Typed
<1>4. QED
  BY <1>2, <1>3

(* A step of replica r that leaves the other replicas alone.                 *)
LEMMA ReplicaType ==
  ASSUME Typed, Configured, NEW r \in Replicas,
         NEW label \in Labels, pc' = [pc EXCEPT ![r] = label],
         NEW c \in Configs \cup {Absent}, config' = [config EXCEPT ![r] = c],
         NEW n \in 1..6, next' = [next EXCEPT ![r] = n],
         label = "reading" => n = 1,
         label \in Running => Sound(c),
         label \in {"describing", "creating"} => c.type = "dynamodb" /\ n \in 1..5,
         label = "serving" /\ c.type = "dynamodb" => n = 6,
         UNCHANGED <<given, file, edits, info>>,
         tables' \in [Names -> TableStates \cup {Absent}],
         memory' \in [Replicas -> Infos], faults' \in 0..MaxFaults
  PROVE  Typed' /\ Configured'
<1>1. Typed'
  BY DEF Typed
<1>2. \A q \in Replicas : pc'[q] = (IF q = r THEN label ELSE pc[q])
                          /\ config'[q] = (IF q = r THEN c ELSE config[q])
                          /\ next'[q] = (IF q = r THEN n ELSE next[q])
  BY DEF Typed
<1>3. ASSUME NEW q \in Replicas
      PROVE  /\ pc'[q] = "reading" => next'[q] = 1
             /\ pc'[q] \in Running => Sound(config'[q])
             /\ pc'[q] \in {"describing", "creating"} => config'[q].type = "dynamodb" /\ next'[q] \in 1..5
             /\ pc'[q] = "serving" /\ config'[q].type = "dynamodb" => next'[q] = 6
  <2>1. CASE q = r
    BY <2>1, <1>2
  <2>2. CASE q # r
    BY <2>2, <1>2 DEF Configured
  <2>3. QED
    BY <2>1, <2>2
<1>4. ASSUME NEW q \in Replicas, Sound(config'[q])
      PROVE  Sound(config[q])'
  BY <1>4, ParseKept DEF Sound, Accepted, DatabaseValid, BackendsValid, ValidateDefault, Flagged
<1>5. QED
  BY <1>1, <1>3, <1>4 DEF Configured

(* What moving on means.                                                     *)
LEMMA AdvanceForm ==
  ASSUME Typed, Configured, NEW r \in Replicas, pc[r] \in {"describing", "creating"}, Advance(r)
  PROVE  /\ next' = [next EXCEPT ![r] = next[r] + 1] /\ next[r] \in 1..5
         /\ pc' = [pc EXCEPT ![r] = IF next[r] = 5 THEN "serving" ELSE "describing"]
         /\ Sound(config[r]) /\ config[r].type = "dynamodb"
         /\ config' = config => config' = [config EXCEPT ![r] = config[r]]
BY RoleOrder DEF Typed, Configured, Running, Advance, Goto

LEMMA AdvanceType ==
  ASSUME Typed, Configured, NEW r \in Replicas, pc[r] \in {"describing", "creating"}, Advance(r),
         UNCHANGED <<given, file, edits, config, info, memory, faults>>,
         tables' \in [Names -> TableStates \cup {Absent}]
  PROVE  Typed' /\ Configured'
<1>. DEFINE label == IF next[r] = 5 THEN "serving" ELSE "describing"
            n == next[r] + 1
            c == config[r]
<1>1. /\ next' = [next EXCEPT ![r] = n] /\ next[r] \in 1..5
      /\ pc' = [pc EXCEPT ![r] = label]
      /\ config' = [config EXCEPT ![r] = c]
      /\ Sound(c) /\ c.type = "dynamodb"
  BY AdvanceForm
<1>2. /\ label \in Labels /\ n \in 1..6 /\ c \in Configs \cup {Absent}
      /\ label # "reading" /\ label # "creating"
      /\ label = "describing" => n \in 1..5
      /\ label = "serving" => n = 6
  BY <1>1 DEF Typed, Labels
<1>3. memory' \in [Replicas -> Infos] /\ faults' \in 0..MaxFaults
  BY DEF Typed
<1>. HIDE DEF label, n, c
<1>4. QED
  BY <1>1, <1>2, <1>3, ReplicaType

(* A step that moves no replica.                                             *)
LEMMA StillType ==
  ASSUME Typed, Configured, UNCHANGED <<given, pc, config, next>>,
         \E spec \in Stores : file' = ConfigMap(spec),
         tables' \in [Names -> TableStates \cup {Absent}],
         info' \in [Names -> Infos], memory' \in [Replicas -> Infos],
         edits' \in 0..MaxEdits, faults' \in 0..MaxFaults
  PROVE  Typed' /\ Configured'
<1>1. Typed'
  BY DEF Typed
<1>2. ASSUME NEW q \in Replicas, Sound(config[q])
      PROVE  Sound(config[q])'
  BY <1>2, ParseKept DEF Sound, Accepted, DatabaseValid, BackendsValid, ValidateDefault, Flagged
<1>3. QED
  BY <1>1, <1>2 DEF Configured

(* A step of replica r that reads no configuration and moves to no table.    *)
LEMMA HereType ==
  ASSUME Typed, Configured, NEW r \in Replicas,
         NEW label \in {"exited", "creating"}, Goto(r, label),
         label = "creating" => pc[r] = "describing",
         UNCHANGED <<given, file, edits, config, next, info, memory, tables>>,
         faults' \in 0..MaxFaults
  PROVE  Typed' /\ Configured'
<1>. DEFINE c == config[r]
            n == next[r]
<1>1. /\ pc' = [pc EXCEPT ![r] = label] /\ config' = [config EXCEPT ![r] = c]
      /\ next' = [next EXCEPT ![r] = n]
  BY DEF Goto, Typed
<1>2. /\ c \in Configs \cup {Absent} /\ n \in 1..6 /\ label \in Labels
      /\ tables' \in [Names -> TableStates \cup {Absent}] /\ memory' \in [Replicas -> Infos]
  BY DEF Typed, Labels
<1>3. label \in Running => Sound(c) /\ c.type = "dynamodb" /\ n \in 1..5
  BY DEF Configured, Running
<1>4. label # "reading" /\ label # "serving" /\ (label \in {"describing", "creating"} => label \in Running)
  BY DEF Running
<1>. HIDE DEF c, n
<1>5. QED
  BY <1>1, <1>2, <1>3, <1>4, ReplicaType

LEMMA NextType == Typed /\ Configured /\ [Next]_vars => Typed' /\ Configured'
<1>. SUFFICES ASSUME Typed, Configured, [Next]_vars PROVE Typed' /\ Configured'
  OBVIOUS
<1>. USE DEF outside, process, database
<1>1. CASE UNCHANGED vars
  BY <1>1, StillType DEF vars, Typed
<1>2. CASE EditStore
  <2>1. edits' \in 0..MaxEdits
    <3>1. MaxEdits \in Nat
      BY BoundAssumption
    <3>2. QED
      BY <1>2, <3>1 DEF EditStore, Typed
  <2>2. QED
    BY <1>2, <2>1, StillType DEF EditStore, Typed
<1>3. ASSUME NEW r \in Replicas, Start(r)
      PROVE  Typed' /\ Configured'
  <2>1. /\ "reading" \in Labels /\ Absent \in Configs \cup {Absent} /\ 1 \in 1..6
        /\ "reading" \notin Running
    BY DEF Labels, Running
  <2>2. "" \in Infos
    BY BoundAssumption
  <2>3. memory' \in [Replicas -> Infos]
    BY <1>3, <2>2 DEF Start, Typed
  <2>4. QED
    BY <1>3, <2>1, <2>3, ReplicaType DEF Start, Goto, Typed
<1>4. ASSUME NEW r \in Replicas, ReadConfig(r)
      PROVE  Typed' /\ Configured'
  <2>1. CASE Goto(r, "exited") /\ UNCHANGED config
    BY <1>4, <2>1, HereType DEF ReadConfig, Typed
  <2>2. CASE /\ Accepted(Parse(file)) /\ config' = [config EXCEPT ![r] = Parse(file)]
             /\ Goto(r, IF Parse(file).type = "dynamodb" THEN "describing" ELSE "serving")
    <3>1. PICK spec \in Stores : file = ConfigMap(spec)
      BY DEF Typed
    <3>2. Sound(Parse(file))
      <4>1. file \in Layers
        BY <3>1, ConfigMapType
      <4>2. QED
        BY <2>2, <3>1, <4>1, AcceptedType DEF Sound, Typed
    <3>. DEFINE c == Parse(file)
                label == IF c.type = "dynamodb" THEN "describing" ELSE "serving"
    <3>3. /\ next[r] = 1 /\ next' = [next EXCEPT ![r] = 1]
          /\ 1 \in 1..6 /\ 1 \in 1..5
      BY <1>4 DEF ReadConfig, Typed, Configured
    <3>4. /\ label \in Labels /\ c \in Configs \cup {Absent}
          /\ label # "reading" /\ label # "creating"
          /\ label = "describing" => c.type = "dynamodb"
          /\ ~(label = "serving" /\ c.type = "dynamodb")
      BY <3>2 DEF Labels, Sound
    <3>5. /\ UNCHANGED <<given, file, edits, info>>
          /\ tables' \in [Names -> TableStates \cup {Absent}]
          /\ memory' \in [Replicas -> Infos] /\ faults' \in 0..MaxFaults
          /\ pc' = [pc EXCEPT ![r] = label] /\ config' = [config EXCEPT ![r] = c]
      BY <1>4, <2>2 DEF ReadConfig, Goto, Typed
    <3>. HIDE DEF c, label
    <3>6. Sound(c)
      BY <3>2 DEF c
    <3>7. QED
      BY <3>3, <3>4, <3>5, <3>6, ReplicaType
  <2>3. QED
    BY <1>4, <2>1, <2>2 DEF ReadConfig
<1>5. ASSUME NEW r \in Replicas, DescribeTable(r)
      PROVE  Typed' /\ Configured'
  <2>1. CASE Advance(r)
    BY <1>5, <2>1, AdvanceType DEF DescribeTable, Typed
  <2>2. CASE Goto(r, "creating") /\ UNCHANGED next
    BY <1>5, <2>2, HereType DEF DescribeTable, Typed
  <2>3. QED
    BY <1>5, <2>1, <2>2 DEF DescribeTable
<1>6. ASSUME NEW r \in Replicas, CreateTable(r)
      PROVE  Typed' /\ Configured'
  <2>1. CASE /\ tables[NextTable(r)] = Absent /\ Advance(r)
             /\ tables' = [tables EXCEPT ![NextTable(r)] = NewTable(r)]
    <3>1. NewTable(r) \in TableStates
      BY <1>6, <2>1, AdvanceForm, RoleOrder DEF CreateTable, NewTable, TableStates
    <3>2. tables' \in [Names -> TableStates \cup {Absent}]
      BY <2>1, <3>1 DEF Typed
    <3>3. QED
      BY <1>6, <2>1, <3>2, AdvanceType DEF CreateTable
  <2>2. CASE Goto(r, "exited") /\ UNCHANGED <<tables, next>>
    BY <1>6, <2>2, HereType DEF CreateTable, Typed
  <2>3. QED
    BY <1>6, <2>1, <2>2 DEF CreateTable
<1>7. ASSUME NEW r \in Replicas, Exit(r)
      PROVE  Typed' /\ Configured'
  <2>1. faults' \in 0..MaxFaults
    <3>1. MaxFaults \in Nat
      BY BoundAssumption
    <3>2. QED
      BY <1>7, <3>1 DEF Exit, Typed
  <2>2. QED
    BY <1>7, <2>1, HereType DEF Exit
<1>8. ASSUME NEW r \in Replicas, NEW i \in Infos, UpdateService(r, i)
      PROVE  Typed' /\ Configured'
  <2>1. /\ UNCHANGED <<given, file, edits, pc, config, next, tables, faults>>
        /\ info' \in [Names -> Infos] /\ memory' \in [Replicas -> Infos]
    BY <1>8 DEF UpdateService, Typed
  <2>2. QED
    BY <2>1, StillType DEF Typed
<1>9. ASSUME NEW t \in Names, Activate(t)
      PROVE  Typed' /\ Configured'
  <2>1. tables' \in [Names -> TableStates \cup {Absent}]
    BY <1>9 DEF Activate, Typed, TableStates
  <2>2. QED
    BY <1>9, <2>1, StillType DEF Activate, Typed
<1>10. QED
  BY <1>1, <1>2, <1>3, <1>4, <1>5, <1>6, <1>7, <1>8, <1>9 DEF Next, Boot

LEMMA Invariance == Spec => [](Typed /\ Configured)
<1>1. Init => Typed /\ Configured
  BY InitType
<1>2. Typed /\ Configured /\ [Next]_vars => (Typed /\ Configured)'
  BY NextType
<1>3. QED
  BY <1>1, <1>2, PTL DEF Spec

(* TypeOK holds of every run: no replica is at work without a configuration, *)
(* nor at a table it has no name for.                                        *)
THEOREM TypeCorrect == Spec => []TypeOK
<1>1. Typed /\ Configured => TypeOK
  BY TypeFromParts
<1>2. QED
  BY <1>1, Invariance, PTL

------------------------------------------------------------------------------
(* Backends.  Of a set of one index, that index is the last.                 *)
LEMMA LastOfOne ==
  ASSUME NEW c, NEW I, NEW i \in I, i \in Int, \A j \in I : j = i
  PROVE  LastOf(c, I) = c.backends[i]
<1>. DEFINE IsLast(k) == \A j \in I : j <= k
<1>1. IsLast(i)
  OBVIOUS
<1>. HIDE DEF IsLast
<1>2. (CHOOSE k \in I : IsLast(k)) \in I
  BY <1>1
<1>3. (CHOOSE k \in I : IsLast(k)) = i
  BY <1>2
<1>4. QED
  BY <1>3 DEF LastOf, IsLast

LEMMA OneFlagged ==
  ASSUME NEW c \in Configs, ValidateDefault(c)
  PROVE  \E i \in Int : Flagged(c) = {i}
<1>1. DOMAIN c.backends = 1..Len(c.backends) /\ Len(c.backends) \in Nat
  BY DEF Configs
<1>2. IsFiniteSet(1..Len(c.backends))
  BY <1>1, FS_Interval
<1>3. IsFiniteSet(Flagged(c)) /\ Flagged(c) \subseteq Int
  BY <1>1, <1>2, FS_Subset DEF Flagged
<1>4. \E i : Flagged(c) = {i}
  BY <1>3, FS_Singleton DEF ValidateDefault
<1>5. QED
  BY <1>3, <1>4

(* BackendsReachable holds of every run: the parser lets no configuration    *)
(* through of which the backend manager would keep less than it was given.   *)
THEOREM BackendsFound == Spec => []BackendsReachable
<1>1. Typed /\ Configured => BackendsReachable
  <2>. SUFFICES ASSUME Configured, NEW r \in Replicas, pc[r] = "serving", NEW c, c = config[r]
                PROVE  /\ \A i \in DOMAIN c.backends :
                             BackendById(c, c.backends[i].id) = c.backends[i]
                       /\ \A i \in Flagged(c) : c.backends[i] = DefaultBackend(c)
                       /\ Flagged(c) # {}
    BY DEF BackendsReachable
  <2>1. c \in Configs /\ BackendsValid(c) /\ ValidateDefault(c)
    BY DEF Configured, Running, Sound, Accepted
  <2>2. DOMAIN c.backends \subseteq Int
    BY <2>1 DEF Configs
  <2>3. ASSUME NEW i \in DOMAIN c.backends
        PROVE  BackendById(c, c.backends[i].id) = c.backends[i]
    <3>. DEFINE I == {j \in DOMAIN c.backends : c.backends[j].id = c.backends[i].id}
    <3>1. i \in I /\ i \in Int /\ \A j \in I : j = i
      BY <2>1, <2>2 DEF BackendsValid
    <3>. HIDE DEF I
    <3>2. LastOf(c, I) = c.backends[i]
      BY <3>1, LastOfOne
    <3>3. QED
      BY <3>2 DEF BackendById, I
  <2>4. PICK k \in Int : Flagged(c) = {k}
    BY <2>1, OneFlagged
  <2>5. LastOf(c, Flagged(c)) = c.backends[k]
    BY <2>4, LastOfOne
  <2>6. QED
    BY <2>3, <2>4, <2>5 DEF DefaultBackend
<1>2. QED
  BY <1>1, Invariance, PTL

------------------------------------------------------------------------------
(* Tables.                                                                   *)

(* A replica has found or made every table before the one it is at.          *)
Made ==
  \A r \in Replicas : pc[r] \in Running /\ config[r].type = "dynamodb" =>
    \A i \in 1..5 : i < next[r] => tables[Table(r, Roles[i])] # Absent

(* A table has the key of a role some configuration gives its name to.       *)
Keyed ==
  \A t \in Names : tables[t] # Absent => \E role \in RolesOf(t) : tables[t].key = Key(role)

(* What a step may do to the tables.                                         *)
Grown ==
  \A t \in Names :
    /\ tables[t] # Absent => /\ tables'[t] # Absent
                             /\ tables'[t].key = tables[t].key
                             /\ tables[t].active => tables'[t].active
    /\ tables[t] = Absent /\ tables'[t] # Absent =>
         \E role \in RolesOf(t) : tables'[t].key = Key(role)

LEMMA StepGrows == Typed /\ Configured /\ [Next]_vars => Grown
<1>. SUFFICES ASSUME Typed, Configured, [Next]_vars PROVE Grown
  OBVIOUS
<1>. USE DEF outside, process, database
<1>1. CASE UNCHANGED tables
  BY <1>1 DEF Grown
<1>2. ASSUME NEW r \in Replicas, pc[r] = "creating", tables[NextTable(r)] = Absent,
             tables' = [tables EXCEPT ![NextTable(r)] = NewTable(r)]
      PROVE  Grown
  <2>1. Roles[next[r]] \in RolesOf(NextTable(r)) /\ NewTable(r).key = Key(Roles[next[r]])
    BY <1>2, RoleOrder DEF Configured, Running, Sound, RolesOf, NextTable, Table, NewTable
  <2>2. NewTable(r) # Absent
    <3>1. NewTable(r) \in TableStates
      BY <1>2, RoleOrder DEF Configured, NewTable, TableStates
    <3>2. QED
      BY <3>1, SentinelAssumption
  <2>3. \A t \in Names : tables'[t] = IF t = NextTable(r) THEN NewTable(r) ELSE tables[t]
    BY <1>2 DEF Typed
  <2>. HIDE DEF NextTable, NewTable
  <2>4. QED
    BY <1>2, <2>1, <2>2, <2>3 DEF Grown
<1>3. ASSUME NEW t \in Names, Activate(t)
      PROVE  Grown
  <2>1. /\ \A u \in Names : u # t => tables'[u] = tables[u]
        /\ tables'[t] = [tables[t] EXCEPT !.active = TRUE] /\ tables[t] \in TableStates
    BY <1>3 DEF Activate, Typed
  <2>2. /\ tables'[t] \in TableStates /\ tables'[t].key = tables[t].key /\ tables'[t].active
    BY <2>1 DEF TableStates
  <2>3. tables'[t] # Absent /\ tables[t] # Absent
    BY <2>1, <2>2, SentinelAssumption
  <2>4. QED
    BY <2>1, <2>2, <2>3 DEF Grown
<1>4. QED
  BY <1>1, <1>2, <1>3 DEF Next, Boot, vars, EditStore, Start, ReadConfig, DescribeTable,
                         CreateTable, Exit, UpdateService

LEMMA KeyedKept == Keyed /\ Grown /\ given' = given => Keyed'
<1>. SUFFICES ASSUME Keyed, Grown, given' = given PROVE Keyed'
  OBVIOUS
<1>1. \A t : RolesOf(t)' = RolesOf(t)
  BY ParseKept DEF RolesOf
<1>2. ASSUME NEW t \in Names, tables'[t] # Absent
      PROVE  \E role \in RolesOf(t) : tables'[t].key = Key(role)
  BY <1>2 DEF Keyed, Grown
<1>3. QED
  BY <1>1, <1>2 DEF Keyed

LEMMA GivenKept == [Next]_vars => given' = given
BY DEF Next, Boot, vars, outside, process, database, EditStore, Start, ReadConfig, DescribeTable,
       CreateTable, Exit, UpdateService, Activate

(* The next table is only left behind when it is there.                      *)
LEMMA MadeKept == Typed /\ Configured /\ Made /\ [Next]_vars => Made'
<1>. SUFFICES ASSUME Typed, Configured, Made, [Next]_vars,
                     NEW r \in Replicas, pc'[r] \in Running, config'[r].type = "dynamodb",
                     NEW i \in 1..5, i < next'[r]
              PROVE  tables'[Table(r, Roles[i])'] # Absent
  BY DEF Made
<1>. USE DEF outside, process, database
<1>1. Typed' /\ Configured' /\ Grown
  BY NextType, StepGrows
<1>2. config'[r].tables[Roles[i]] \in Names /\ Table(r, Roles[i])' = config'[r].tables[Roles[i]]
  BY <1>1, RoleOrder DEF Configured, Sound, Table
<1>3. CASE /\ pc[r] \in Running /\ config'[r] = config[r] /\ i < next[r]
  BY <1>1, <1>2, <1>3 DEF Made, Grown, Table
<1>4. CASE tables'[config'[r].tables[Roles[i]]] # Absent
  BY <1>2, <1>4
<1>5. CASE ~(pc[r] \in Running /\ config'[r] = config[r] /\ i < next[r])
  <2>1. CASE UNCHANGED <<pc, config, next>>
    BY <1>5, <2>1
  <2>2. ASSUME NEW q \in Replicas, Start(q)
        PROVE  FALSE
    BY <1>5, <2>2 DEF Start, Goto, Typed, Running
  <2>3. ASSUME NEW q \in Replicas, ReadConfig(q)
        PROVE  FALSE
    BY <1>5, <2>3 DEF ReadConfig, Goto, Typed, Configured, Running
  <2>4. ASSUME NEW q \in Replicas, DescribeTable(q) \/ CreateTable(q), Advance(q)
        PROVE  tables'[config'[r].tables[Roles[i]]] # Absent
    <3>1. q = r /\ i = next[r] /\ config' = config
      BY <1>5, <2>4, AdvanceForm DEF DescribeTable, CreateTable, Typed, Running
    <3>2. NextTable(r) = config'[r].tables[Roles[i]]
      BY <3>1 DEF NextTable, Table
    <3>3. CASE tables[NextTable(r)] # Absent
      BY <1>1, <1>2, <3>2, <3>3 DEF Grown
    <3>4. CASE tables[NextTable(r)] = Absent
      <4>1. tables' = [tables EXCEPT ![NextTable(r)] = NewTable(r)]
        BY <2>4, <3>1, <3>4 DEF DescribeTable, CreateTable, Goto
      <4>2. NewTable(r) \in TableStates
        BY <3>1, RoleOrder DEF NewTable, TableStates
      <4>3. tables'[NextTable(r)] = NewTable(r)
        BY <1>2, <3>2, <4>1 DEF Typed
      <4>4. QED
        BY <3>2, <4>2, <4>3, SentinelAssumption
    <3>5. QED
      BY <3>3, <3>4
  <2>5. ASSUME NEW q \in Replicas, NEW label \in {"exited", "creating"}, Goto(q, label),
               label = "creating" => pc[q] = "describing", UNCHANGED <<config, next>>
        PROVE  FALSE
    BY <1>5, <2>5 DEF Goto, Typed, Running
  <2>6. QED
    BY <1>4, <2>1, <2>2, <2>3, <2>4, <2>5
       DEF Next, Boot, vars, EditStore, DescribeTable, CreateTable, Exit, UpdateService, Activate
<1>6. QED
  BY <1>3, <1>5

(* TablesReady holds of every run, with any number of replicas and whatever  *)
(* the Store is edited to: a replica that listens has all its tables, and a  *)
(* key is wrong only in a table two roles are named for.                     *)
THEOREM TablesFound == Spec => []TablesReady
<1>1. Init => Typed /\ Configured /\ Made /\ Keyed
  BY InitType DEF Init, Made, Keyed, Running
<1>2. /\ Typed /\ Configured /\ Made /\ Keyed
      /\ [Next]_vars
      => (Typed /\ Configured /\ Made /\ Keyed)'
  BY NextType, MadeKept, StepGrows, KeyedKept, GivenKept
<1>3. Typed /\ Configured /\ Made /\ Keyed => TablesReady
  <2>. SUFFICES ASSUME Typed, Configured, Made, Keyed, NEW r \in Replicas,
                       pc[r] = "serving", config[r].type = "dynamodb", NEW role \in RoleSet
                PROVE  LET t == Table(r, role) IN
                         tables[t] # Absent /\ (tables[t].key = Key(role) \/ SharedName(t))
    BY DEF TablesReady
  <2>. DEFINE t == Table(r, role)
  <2>1. t \in Names /\ role \in RolesOf(t)
    BY DEF Configured, Running, Sound, RolesOf, Table
  <2>2. tables[t] # Absent
    <3>1. PICK i \in 1..5 : role = Roles[i]
      BY RoleOrder
    <3>2. i < next[r]
      BY <3>1 DEF Configured
    <3>3. QED
      BY <3>1, <3>2 DEF Made, Running
  <2>. HIDE DEF t
  <2>3. PICK other \in RolesOf(t) : tables[t].key = Key(other)
    BY <2>1, <2>2 DEF Keyed
  <2>4. tables[t].key = Key(role) \/ SharedName(t)
    BY <2>1, <2>3 DEF SharedName
  <2>5. QED
    BY <2>2, <2>4 DEF t
<1>4. QED
  BY <1>1, <1>2, <1>3, PTL DEF Spec

(* TablesKept holds of every run: creating can only ever add a table.        *)
THEOREM TablesStay == Spec => TablesKept
<1>1. Typed /\ Configured /\ [Next]_vars =>
        [\A t \in Names : tables[t] # Absent =>
           /\ tables'[t] # Absent /\ tables'[t].key = tables[t].key
           /\ tables[t].active => tables'[t].active
           /\ info'[t] # info[t] =>
                \E r \in Replicas : pc[r] = "serving" /\ Table(r, "service") = t]_vars
  <2>. SUFFICES ASSUME Typed, Configured, [Next]_vars,
                       NEW t \in Names, tables[t] # Absent
                PROVE  /\ tables'[t] # Absent /\ tables'[t].key = tables[t].key
                       /\ tables[t].active => tables'[t].active
                       /\ info'[t] # info[t] =>
                            \E r \in Replicas : pc[r] = "serving" /\ Table(r, "service") = t
    OBVIOUS
  <2>1. /\ tables'[t] # Absent /\ tables'[t].key = tables[t].key
        /\ tables[t].active => tables'[t].active
    BY StepGrows DEF Grown
  <2>2. UNCHANGED info \/ \E r \in Replicas, i \in Infos : UpdateService(r, i)
    BY DEF Next, Boot, vars, outside, process, database, EditStore, Start, ReadConfig,
           DescribeTable, CreateTable, Exit, Activate
  <2>3. ASSUME NEW r \in Replicas, NEW i \in Infos, UpdateService(r, i), info'[t] # info[t]
        PROVE  pc[r] = "serving" /\ Table(r, "service") = t
    BY <2>3 DEF UpdateService, Typed
  <2>4. QED
    BY <2>1, <2>2, <2>3
<1>2. QED
  BY <1>1, Invariance, PTL DEF Spec, TablesKept
=============================================================================
