------------------------------- MODULE Startup -------------------------------
(* From a Store to replicas that serve it: the database part of config.json  *)
(* as the controller writes it, the configuration a process reads from its   *)
(* arguments, its environment and that file (service/src/configParser), the  *)
(* DynamoDB tables it makes sure of one after the other                      *)
(* (repository/dynamodb/client.ts), and the repositories it registers before *)
(* it listens.  Every failure ends the process, and Kubernetes starts it     *)
(* again; the replicas start at the same time and share the tables.          *)
EXTENDS Integers, Sequences, FiniteSets

CONSTANTS
  Replicas,
  Names,      \* names of tables
  Ids,        \* identifiers of storage backends
  Infos,      \* what POST /service may store
  Absent,     \* a setting nobody gives, a table nobody created
  NotAList,   \* a TAMS_BACKENDS that is JSON, but no array
  Stores,     \* the specs the Store may be given: [database, backends]
  Invocations, \* the command lines and environments the processes are given
  MaxEdits,   \* bound on the edits of the Store
  MaxFaults   \* bound on the calls that fail and the processes that are killed

VARIABLES
  given,   \* the arguments, and the environment with what the Secret adds
  file,    \* config.json, as a process that starts finds it
  pc,      \* replica -> where its process is
  config,  \* replica -> the configuration it read, or Absent
  next,    \* replica -> the next table it makes sure of
  tables,  \* name -> Absent or its key and whether it is active
  info,    \* name -> the service information stored in the table
  memory,  \* replica -> the service information its process keeps
  edits, faults  \* how often the Store was edited, how often something failed

vars == <<given, file, pc, config, next, tables, info, memory, edits, faults>>

(* In the order of ensureDynamoTables.                                       *)
Roles == <<"service", "flow", "source", "mediaObject", "flowDeleteRequests">>
RoleSet == {Roles[i] : i \in DOMAIN Roles}

Key(role) ==
  CASE role = "service" -> "serviceKey"
    [] role = "flow" -> "flowId"
    [] role = "mediaObject" -> "objectId"
    [] OTHER -> "id"

TableStates == [key : {Key(role) : role \in RoleSet}, active : BOOLEAN]

Settings == Names \cup {"", Absent}
Backends == [id : Ids \cup {"", Absent}, type : {"s3", "memory"}, default : BOOLEAN]
Layers == [type : {"dynamodb", "memory", "", Absent}, tables : [RoleSet -> Settings],
           backends : Seq(Backends) \cup {Absent, NotAList}]
Configs == [type : {"dynamodb", "memory"}, tables : [RoleSet -> Settings],
            backends : Seq(Backends)]

ASSUME SentinelAssumption ==
  /\ Absent \notin Names \cup Ids \cup Configs \cup Seq(Backends) \cup {"", NotAList}
  /\ Absent \notin TableStates
  /\ "" \notin Names \cup Ids
  /\ NotAList \notin Seq(Backends)

ASSUME SettingsAssumption ==
  /\ Stores \subseteq Layers
  /\ Invocations \subseteq [arguments : Layers, environment : Layers]
  /\ \A i \in Invocations : i.arguments.backends # NotAList

ASSUME BoundAssumption ==
  /\ "" \in Infos
  /\ MaxEdits \in Nat
  /\ MaxFaults \in Nat

------------------------------------------------------------------------------
(* The controller decodes the database of the Store and encodes it again:    *)
(* its type knows three of the five tables, and encodes those always.        *)
Decoded == {"service", "flow", "mediaObject"}

ConfigMap(spec) ==
  [spec EXCEPT !.tables = [role \in RoleSet |->
     IF spec.type # "dynamodb" \/ role \notin Decoded THEN Absent
     ELSE IF spec.tables[role] = Absent THEN "" ELSE spec.tables[role]]]

------------------------------------------------------------------------------
(* ConfigReader.  An argument counts even when it is empty.                  *)
ParseKey(argument, variable, inFile) ==
  IF argument # Absent THEN argument
  ELSE IF variable \notin {"", Absent} THEN variable
  ELSE IF inFile # "" THEN inFile ELSE Absent

ParseArray(argument, variable, inFile) ==
  IF argument # Absent THEN argument
  ELSE IF variable = NotAList THEN <<>>
  ELSE IF variable # Absent THEN variable
  ELSE IF inFile \in {Absent, NotAList} THEN <<>> ELSE inFile

(* A backend of another type keeps nothing but its type.                     *)
ParseBackend(backend) ==
  IF backend.type = "s3" THEN backend ELSE [backend EXCEPT !.id = Absent, !.default = FALSE]

Parse(f) ==
  LET type == ParseKey(given.arguments.type, given.environment.type, f.type)
      backends == ParseArray(given.arguments.backends, given.environment.backends, f.backends)
  IN  [type |-> type,
       tables |-> [role \in RoleSet |->
         IF type # "dynamodb" THEN Absent
         ELSE ParseKey(given.arguments.tables[role], given.environment.tables[role],
                       f.tables[role])],
       backends |-> [i \in DOMAIN backends |-> ParseBackend(backends[i])]]

DatabaseValid(c) ==
  \/ c.type = "memory"
  \/ c.type = "dynamodb" /\ \A role \in RoleSet : c.tables[role] \in Names

BackendsValid(c) ==
  /\ c.backends # <<>>
  /\ \A i \in DOMAIN c.backends : c.backends[i].type = "s3" /\ c.backends[i].id \in Ids
  /\ \A i, j \in DOMAIN c.backends : i # j => c.backends[i].id # c.backends[j].id

Flagged(c) == {i \in DOMAIN c.backends : c.backends[i].default}

ValidateDefault(c) == Cardinality(Flagged(c)) = 1

(* A configuration the process runs with.  Two ways to let too many through: *)
(* without the check of the defaults, and of the names of the tables.        *)
AcceptedUnchecked(c) == DatabaseValid(c) /\ BackendsValid(c) /\ Flagged(c) # {}

AcceptedUnnamed(c) ==
  c.type \in {"dynamodb", "memory"} /\ BackendsValid(c) /\ ValidateDefault(c)

Accepted(c) == DatabaseValid(c) /\ BackendsValid(c) /\ ValidateDefault(c)

(* BackendManager: the last backend wins an id and the default.              *)
LastOf(c, I) == c.backends[CHOOSE i \in I : \A j \in I : j <= i]
DefaultBackend(c) == LastOf(c, Flagged(c))
BackendById(c, id) == LastOf(c, {i \in DOMAIN c.backends : c.backends[i].id = id})

------------------------------------------------------------------------------
Init ==
  /\ given \in Invocations
  /\ \E spec \in Stores : file = ConfigMap(spec)
  /\ pc = [r \in Replicas |-> "exited"]
  /\ config = [r \in Replicas |-> Absent]
  /\ next = [r \in Replicas |-> 1]
  /\ tables = [t \in Names |-> Absent]
  /\ info = [t \in Names |-> ""]
  /\ memory = [r \in Replicas |-> ""]
  /\ edits = 0
  /\ faults = 0

process == <<pc, config, next, memory>>
database == <<tables, info>>
outside == <<given, file, edits>>

(* The Store is edited, and in time the file that processes find when they   *)
(* start.                                                                    *)
EditStore ==
  /\ edits < MaxEdits
  /\ \E spec \in Stores : file' = ConfigMap(spec)
  /\ edits' = edits + 1
  /\ UNCHANGED <<given, process, database, faults>>

Goto(r, label) == pc' = [pc EXCEPT ![r] = label]

(* The kubelet starts the process anew; what it kept in memory is gone.      *)
Start(r) ==
  /\ pc[r] = "exited"
  /\ Goto(r, "reading")
  /\ config' = [config EXCEPT ![r] = Absent]
  /\ next' = [next EXCEPT ![r] = 1]
  /\ memory' = [memory EXCEPT ![r] = ""]
  /\ UNCHANGED <<outside, database, faults>>

ReadConfig(r) ==
  /\ pc[r] = "reading"
  /\ LET c == Parse(file) IN
       \/ ~Accepted(c) /\ Goto(r, "exited") /\ UNCHANGED config
       \/ /\ Accepted(c)
          /\ config' = [config EXCEPT ![r] = c]
          /\ Goto(r, IF c.type = "dynamodb" THEN "describing" ELSE "serving")
  /\ UNCHANGED <<outside, next, memory, database, faults>>

Table(r, role) == config[r].tables[role]
NextTable(r) == Table(r, Roles[next[r]])

(* A table is there, or made: on to the next, and after the last one the     *)
(* repositories are registered and the routes listen.                        *)
Advance(r) ==
  /\ next' = [next EXCEPT ![r] = @ + 1]
  /\ Goto(r, IF next[r] = Len(Roles) THEN "serving" ELSE "describing")

(* DescribeTable may not find a table that is still being created.  The      *)
(* first form takes every answer for a table.                                *)
DescribeTableLenient(r) ==
  /\ pc[r] = "describing"
  /\ Advance(r)
  /\ UNCHANGED <<outside, config, memory, database, faults>>

DescribeTable(r) ==
  /\ pc[r] = "describing"
  /\ LET found == tables[NextTable(r)] IN
       \/ found # Absent /\ Advance(r)
       \/ /\ found # Absent => ~found.active
          /\ Goto(r, "creating") /\ UNCHANGED next
  /\ UNCHANGED <<outside, config, memory, database, faults>>

NewTable(r) == [key |-> Key(Roles[next[r]]), active |-> FALSE]

(* Another replica has created the table: ResourceInUseException ends the    *)
(* process.  Two ways to get it wrong: to create it over, and to try again   *)
(* until it can be created.                                                  *)
CreateTableOver(r) ==
  /\ pc[r] = "creating"
  /\ tables' = [tables EXCEPT ![NextTable(r)] = NewTable(r)]
  /\ info' = [info EXCEPT ![NextTable(r)] = ""]
  /\ Advance(r)
  /\ UNCHANGED <<outside, config, memory, faults>>

CreateTableAgain(r) ==
  /\ pc[r] = "creating"
  /\ \/ /\ tables[NextTable(r)] = Absent
        /\ tables' = [tables EXCEPT ![NextTable(r)] = NewTable(r)]
        /\ Advance(r)
     \/ tables[NextTable(r)] # Absent /\ UNCHANGED <<pc, tables, next>>
  /\ UNCHANGED <<outside, config, memory, info, faults>>

CreateTable(r) ==
  /\ pc[r] = "creating"
  /\ \/ /\ tables[NextTable(r)] = Absent
        /\ tables' = [tables EXCEPT ![NextTable(r)] = NewTable(r)]
        /\ Advance(r)
     \/ /\ tables[NextTable(r)] # Absent
        /\ Goto(r, "exited") /\ UNCHANGED <<tables, next>>
  /\ UNCHANGED <<outside, config, memory, info, faults>>

(* A call fails for another reason, or the process is killed.                *)
Exit(r) ==
  /\ pc[r] # "exited"
  /\ faults < MaxFaults
  /\ faults' = faults + 1
  /\ Goto(r, "exited")
  /\ UNCHANGED <<outside, config, next, memory, database>>

Activate(t) ==
  /\ tables[t] # Absent /\ ~tables[t].active
  /\ tables' = [tables EXCEPT ![t].active = TRUE]
  /\ UNCHANGED <<outside, process, info, faults>>

(* What a request to the repository of a role finds behind its table.        *)
Usable(r, role) ==
  config[r].type = "dynamodb" =>
    LET t == tables[Table(r, role)]
    IN  t # Absent /\ t.active /\ t.key = Key(role)

(* POST /service; where the table is not usable, the answer is 500.          *)
UpdateService(r, i) ==
  /\ pc[r] = "serving" /\ Usable(r, "service")
  /\ IF config[r].type = "memory"
     THEN memory' = [memory EXCEPT ![r] = i] /\ UNCHANGED info
     ELSE info' = [info EXCEPT ![Table(r, "service")] = i] /\ UNCHANGED memory
  /\ UNCHANGED <<outside, pc, config, next, tables, faults>>

Boot(r) == Start(r) \/ ReadConfig(r) \/ DescribeTable(r) \/ CreateTable(r)

Next ==
  \/ EditStore
  \/ \E r \in Replicas : Boot(r) \/ Exit(r) \/ (\E i \in Infos : UpdateService(r, i))
  \/ \E t \in Names : Activate(t)

(* The kubelet restarts what exited, the processes go on, and DynamoDB       *)
(* completes what it has begun.                                              *)
Fairness ==
  /\ \A r \in Replicas : WF_vars(Boot(r))
  /\ \A t \in Names : WF_vars(Activate(t))

Spec == Init /\ [][Next]_vars /\ Fairness
------------------------------------------------------------------------------
TypeOK ==
  /\ given \in Invocations
  /\ \E spec \in Stores : file = ConfigMap(spec)
  /\ pc \in [Replicas -> {"exited", "reading", "describing", "creating", "serving"}]
  /\ config \in [Replicas -> Configs \cup {Absent}]
  /\ next \in [Replicas -> 1..(Len(Roles) + 1)]
  /\ tables \in [Names -> TableStates \cup {Absent}]
  /\ info \in [Names -> Infos]
  /\ memory \in [Replicas -> Infos]
  /\ edits \in 0..MaxEdits
  /\ faults \in 0..MaxFaults
  /\ \A r \in Replicas :
       /\ pc[r] \in {"describing", "creating", "serving"} => config[r] \in Configs
       /\ pc[r] \in {"describing", "creating"} =>
            next[r] <= Len(Roles) /\ NextTable(r) \in Names

(* The names some configuration gives to another role as well.               *)
RolesOf(t) ==
  {role \in RoleSet : \E spec \in Stores : Parse(ConfigMap(spec)).tables[role] = t}

SharedName(t) == \E x, y \in RolesOf(t) : x # y

(* A replica over DynamoDB listens only when the tables of all its           *)
(* repositories exist, each with the key its repository asks for, unless the *)
(* table's name is given to two roles: whatever races and restarts went      *)
(* before, and whichever configuration the other replicas read.              *)
TablesReady ==
  \A r \in Replicas : pc[r] = "serving" /\ config[r].type = "dynamodb" =>
    \A role \in RoleSet :
      /\ tables[Table(r, role)] # Absent
      /\ tables[Table(r, role)].key = Key(role) \/ SharedName(Table(r, role))

(* A replica that serves has one default backend, the only one flagged, and  *)
(* finds every configured backend under its id: what the manager keeps last  *)
(* for an id or a default, the parser lets in only once.                     *)
BackendsReachable ==
  \A r \in Replicas : pc[r] = "serving" =>
    LET c == config[r] IN
      /\ \A i \in DOMAIN c.backends : BackendById(c, c.backends[i].id) = c.backends[i]
      /\ \A i \in Flagged(c) : c.backends[i] = DefaultBackend(c)
      /\ Flagged(c) # {}

(* A table that exists is never made anew: no replica that starts, however   *)
(* late and with whatever it last saw, takes away what the others stored.    *)
TablesKept ==
  [][\A t \in Names : tables[t] # Absent =>
       /\ tables'[t] # Absent /\ tables'[t].key = tables[t].key
       /\ tables[t].active => tables'[t].active
       /\ info'[t] # info[t] => \E r \in Replicas : pc[r] = "serving" /\ Table(r, "service") = t]_vars

Serves(r) ==
  /\ pc[r] = "serving"
  /\ config[r].type = "dynamodb" =>
       \A role \in RoleSet : tables[Table(r, role)].active

(* Once the file stays acceptable every replica comes to serve, tables and   *)
(* all, and goes on: those that lost the race for a table and exited, those  *)
(* killed half way, and those that kept exiting over an earlier file.        *)
Recovers == <>[]Accepted(Parse(file)) => <>[](\A r \in Replicas : Serves(r))

(* README, "Quick start": "Deploy the controller, create a Store, and access *)
(* the API in a few minutes."                                                *)
StoreServes == <>(\E r \in Replicas : pc[r] = "serving")
=============================================================================
