------------------------ MODULE StoreControllerProofs ------------------------
(* Proofs about StoreController, for any names, workers, specifications and  *)
(* users, and whatever the bounds on changes, lag, faults and restarts.      *)
EXTENDS StoreController, TLAPS

------------------------------------------------------------------------------
(* What an informer is sent ends with the newest object, and nothing in it   *)
(* changes places.                                                           *)
LEMMA SendEffect ==
  ASSUME NEW S, NEW s \in Seq(S), NEW o \in S
  PROVE  /\ Send(s, o) \in Seq(S)
         /\ Len(Send(s, o)) \in Nat \ {0}
         /\ Send(s, o)[Len(Send(s, o))] = o
         /\ \A i \in 1 .. Len(Send(s, o)) : i < Len(Send(s, o)) =>
              i \in 1 .. Len(s) /\ Send(s, o)[i] = s[i]
<1> DEFINE kept == IF Len(s) < MaxLag THEN s ELSE SubSeq(s, 1, MaxLag - 1)
<1>1. MaxLag \in Nat \ {0}
  BY BoundAssumption
<1>2. /\ kept \in Seq(S)
      /\ Len(kept) <= Len(s)
      /\ \A i \in 1 .. Len(kept) : kept[i] = s[i]
  <2>1. CASE Len(s) < MaxLag
    BY <2>1
  <2>2. CASE ~(Len(s) < MaxLag)
    BY <1>1, <2>2
  <2>3. QED
    BY <2>1, <2>2
<1>3. Send(s, o) = Append(kept, o)
  BY DEF Send
<1> HIDE DEF kept
<1>4. QED
  BY <1>2, <1>3

(* The same of what it was sent before and after.                            *)
Extends(before, after, o) ==
  /\ Len(after) \in Nat \ {0}
  /\ after[Len(after)] = o
  /\ \A i \in 1 .. Len(after) : i < Len(after) =>
       i \in 1 .. Len(before) /\ after[i] = before[i]

LEMMA SendExtends ==
  ASSUME NEW S, NEW s \in Seq(S), NEW o \in S
  PROVE  Extends(s, Send(s, o), o)
BY SendEffect DEF Extends

(* One object of one name is replaced.                                       *)
LEMMA Replaced ==
  ASSUME NEW S, NEW f \in [Names -> [Kinds -> S]], NEW n \in Names, NEW k \in Kinds,
         NEW x \in S, NEW g, g = [f EXCEPT ![n][k] = x]
  PROVE  /\ g \in [Names -> [Kinds -> S]]
         /\ g[n][k] = x
         /\ \A m \in Names, j \in Kinds : m # n \/ j # k => g[m][j] = f[m][j]
<1> DEFINE row == [f[n] EXCEPT ![k] = x]
<1>1. f[n] \in [Kinds -> S]
  OBVIOUS
<1>2. row \in [Kinds -> S] /\ row[k] = x /\ \A j \in Kinds : j # k => row[j] = f[n][j]
  BY <1>1
<1>3. g = [f EXCEPT ![n] = row]
  OBVIOUS
<1> HIDE DEF row
<1>4. QED
  BY <1>2, <1>3

(* What a write to the API server does, and does not do.                     *)
LEMMA WriteEffect ==
  ASSUME ObjectsType, NEW n \in Names, NEW k \in Kinds, NEW obj \in ObjectsOf(k),
         Write(n, k, obj)
  PROVE  /\ etcd' \in [Names -> [Kinds -> Objects]]
         /\ watch' \in [Names -> [Kinds -> Seq(Objects)]]
         /\ etcd'[n][k] = obj
         /\ \/ watch'[n][k] = watch[n][k] /\ etcd[n][k] = obj
            \/ watch'[n][k] = Send(watch[n][k], obj)
         /\ \A m \in Names, j \in Kinds : m # n \/ j # k =>
              etcd'[m][j] = etcd[m][j] /\ watch'[m][j] = watch[m][j]
<1>1. obj \in Objects
  BY DEF Objects, ObjectsOf, Kinds
<1>2. watch[n][k] \in Seq(Objects)
  BY DEF ObjectsType
<1>3. Send(watch[n][k], obj) \in Seq(Objects)
  BY <1>1, <1>2, SendEffect
<1>4. /\ etcd' = [etcd EXCEPT ![n][k] = obj]
      /\ \/ watch' = watch /\ etcd[n][k] = obj
         \/ watch' = [watch EXCEPT ![n][k] = Send(watch[n][k], obj)]
  BY DEF Write
<1>5. etcd \in [Names -> [Kinds -> Objects]] /\ watch \in [Names -> [Kinds -> Seq(Objects)]]
  BY DEF ObjectsType
<1>6. /\ etcd' \in [Names -> [Kinds -> Objects]] /\ etcd'[n][k] = obj
      /\ \A m \in Names, j \in Kinds : m # n \/ j # k => etcd'[m][j] = etcd[m][j]
  BY <1>1, <1>4, <1>5, Replaced
<1>7. CASE watch' = watch /\ etcd[n][k] = obj
  BY <1>5, <1>6, <1>7
<1>8. CASE watch' = [watch EXCEPT ![n][k] = Send(watch[n][k], obj)]
  <2>1. /\ watch' \in [Names -> [Kinds -> Seq(Objects)]]
        /\ watch'[n][k] = Send(watch[n][k], obj)
        /\ \A m \in Names, j \in Kinds : m # n \/ j # k => watch'[m][j] = watch[m][j]
    BY <1>3, <1>5, <1>8, Replaced
  <2>2. QED
    BY <1>6, <2>1
<1>9. QED
  BY <1>4, <1>7, <1>8

LEMMA WriteType ==
  ASSUME ObjectsType, NEW n \in Names, NEW k \in Kinds, NEW obj \in ObjectsOf(k),
         Write(n, k, obj), UNCHANGED cache
  PROVE  ObjectsType'
<1>1. /\ etcd' \in [Names -> [Kinds -> Objects]]
      /\ watch' \in [Names -> [Kinds -> Seq(Objects)]]
      /\ etcd'[n][k] = obj
      /\ watch'[n][k] = watch[n][k] \/ watch'[n][k] = Send(watch[n][k], obj)
      /\ \A m \in Names, j \in Kinds : m # n \/ j # k =>
           etcd'[m][j] = etcd[m][j] /\ watch'[m][j] = watch[m][j]
  BY WriteEffect
<1>2. watch[n][k] \in Seq(ObjectsOf(k))
  BY DEF ObjectsType
<1>3. Send(watch[n][k], obj) \in Seq(ObjectsOf(k))
  BY <1>2, SendEffect
<1>4. watch'[n][k] \in Seq(ObjectsOf(k))
  BY <1>1, <1>2, <1>3
<1>5. \A m \in Names, j \in Kinds : /\ etcd'[m][j] \in ObjectsOf(j)
                                   /\ cache'[m][j] \in ObjectsOf(j)
                                   /\ watch'[m][j] \in Seq(ObjectsOf(j))
  <2> SUFFICES ASSUME NEW m \in Names, NEW j \in Kinds
               PROVE  /\ etcd'[m][j] \in ObjectsOf(j)
                      /\ cache'[m][j] \in ObjectsOf(j)
                      /\ watch'[m][j] \in Seq(ObjectsOf(j))
    OBVIOUS
  <2>1. /\ etcd[m][j] \in ObjectsOf(j) /\ cache[m][j] \in ObjectsOf(j)
        /\ watch[m][j] \in Seq(ObjectsOf(j))
    BY DEF ObjectsType
  <2>2. CASE m = n /\ j = k
    BY <1>1, <1>4, <2>1, <2>2
  <2>3. CASE m # n \/ j # k
    BY <1>1, <2>1, <2>3
  <2>4. QED
    BY <2>2, <2>3
<1>6. cache' \in [Names -> [Kinds -> Objects]]
  BY DEF ObjectsType
<1>7. QED
  BY <1>1, <1>5, <1>6 DEF ObjectsType

(* No call to the API server, or one that did nothing.                       *)
LEMMA NoWriteType ==
  ASSUME ObjectsType, UNCHANGED <<etcd, watch, cache>>
  PROVE  ObjectsType'
BY DEF ObjectsType

------------------------------------------------------------------------------
(* Types.                                                                    *)

(* Writes of users, and of what runs in the cluster, are objects.            *)
LEMMA ObjectKinds ==
  ASSUME ObjectsType, NEW n \in Names
  PROVE  /\ etcd[n]["store"] \in Stores \cup {Gone}
         /\ etcd[n]["configMap"] \in ConfigMaps \cup {Gone}
         /\ etcd[n]["deployment"] \in Deployments \cup {Gone}
         /\ cache[n]["store"] \in Stores \cup {Gone}
         /\ cache[n]["configMap"] \in ConfigMaps \cup {Gone}
         /\ cache[n]["deployment"] \in Deployments \cup {Gone}
BY DEF ObjectsType, ObjectsOf, Kinds

LEMMA NewObjects ==
  ASSUME NEW s \in Stores, NEW available \in Nat
  PROVE  /\ NewConfigMap(s) \in ConfigMaps
         /\ NewDeployment(s, available) \in Deployments
<1>1. s.uid \in Owners /\ s.spec \in SpecType
  BY DEF Stores, Owners
<1>2. PodTemplate(s) \in Template
  BY <1>1 DEF PodTemplate, Template, SpecType
<1>3. s.spec.replicas = Nil \/ s.spec.replicas \in Nat
  BY <1>1 DEF SpecType
<1>4. QED
  BY <1>1, <1>2, <1>3 DEF NewConfigMap, NewDeployment, ConfigMaps, Deployments, SpecType

LEMMA EditedStore ==
  ASSUME NEW old \in Stores, NEW s \in SpecType, NEW version \in Nat, NEW status \in Nat
  PROVE  LET edited == [old EXCEPT !.spec = s, !.version = version]
             reported == [old EXCEPT !.status = status, !.version = version]
         IN /\ edited \in Stores /\ edited.uid = old.uid /\ edited.version = version
            /\ reported \in Stores /\ reported.uid = old.uid /\ reported.version = version
<1>1. [old EXCEPT !.spec = s] \in Stores /\ [old EXCEPT !.spec = s].uid = old.uid
  BY DEF Stores
<1>2. [old EXCEPT !.status = status] \in Stores /\ [old EXCEPT !.status = status].uid = old.uid
  BY DEF Stores
<1>3. \A o \in Stores : /\ [o EXCEPT !.version = version] \in Stores
                       /\ [o EXCEPT !.version = version].uid = o.uid
                       /\ [o EXCEPT !.version = version].version = version
  BY DEF Stores
<1>4. /\ [old EXCEPT !.spec = s, !.version = version]
           = [[old EXCEPT !.spec = s] EXCEPT !.version = version]
      /\ [old EXCEPT !.status = status, !.version = version]
           = [[old EXCEPT !.status = status] EXCEPT !.version = version]
  OBVIOUS
<1>5. QED
  BY <1>1, <1>2, <1>3, <1>4

LEMMA InitType == Init => TypeOK
<1> SUFFICES ASSUME Init PROVE TypeOK
  OBVIOUS
<1>1. \A k \in Kinds : Gone \in ObjectsOf(k) /\ <<>> \in Seq(ObjectsOf(k))
  BY DEF ObjectsOf
<1>2. Gone \in Objects /\ <<>> \in Seq(Objects)
  BY DEF Objects
<1>3. ObjectsType
  BY <1>1, <1>2 DEF Init, ObjectsType
<1>4. WorkersType
  BY DEF Init, WorkersType, Steps
<1>5. QED
  BY <1>3, <1>4 DEF Init, TypeOK

------------------------------------------------------------------------------
(* The order of versions.  What the informer of Stores knows of a name is a  *)
(* line: the cached Store, what is on its way, the Store that is stored and  *)
(* the last version given out.  A Store is no later than what follows it.    *)
Line(n) == [cached |-> cache[n]["store"], sent |-> watch[n]["store"],
            stored |-> etcd[n]["store"], given |-> revision[n]]

Known == Stores \cup {Gone}
Lines == [cached : Known, sent : Seq(Known), stored : Known, given : Nat]

NotAfter(uid, version, s) == s # Gone => uid <= s.uid /\ version <= s.version

Low(uid, version, line) ==
  /\ NotAfter(uid, version, line.cached)
  /\ \A i \in 1 .. Len(line.sent) : NotAfter(uid, version, line.sent[i])
  /\ NotAfter(uid, version, line.stored)
  /\ uid <= line.given /\ version <= line.given

Within(s, given) == s.uid <= given /\ s.version <= given

Placed(line, i) ==
  LET s == line.sent[i]
  IN s # Gone => /\ \A j \in i .. Len(line.sent) : NotAfter(s.uid, s.version, line.sent[j])
                 /\ NotAfter(s.uid, s.version, line.stored)
                 /\ Within(s, line.given)

Ordered(line) ==
  /\ line.cached # Gone => Low(line.cached.uid, line.cached.version, line)
  /\ \A i \in 1 .. Len(line.sent) : Placed(line, i)
  /\ line.stored # Gone => Within(line.stored, line.given)

(* How a line moves: a Store is stored, or removed; a change is delivered;   *)
(* or the controller starts anew.                                            *)
NextStore(old, s) ==
  /\ s \in Stores
  /\ s.version = old.given + 1
  /\ s.uid = old.given + 1 \/ (old.stored # Gone /\ s.uid = old.stored.uid)

Moves(old, new) ==
  \/ new = old
  \/ /\ \/ new.stored = Gone /\ new.given = old.given
        \/ NextStore(old, new.stored) /\ new.given = old.given + 1
     /\ new.cached = old.cached
     /\ new.sent = old.sent \/ new.sent = Send(old.sent, new.stored)
  \/ /\ old.sent # <<>> /\ new.cached = Head(old.sent) /\ new.sent = Tail(old.sent)
     /\ new.stored = old.stored /\ new.given = old.given
  \/ /\ new.cached = old.stored /\ new.sent = <<>>
     /\ new.stored = old.stored /\ new.given = old.given

------------------------------------------------------------------------------
(* What a step does to the objects and to what the informers know of them:   *)
(* a Store is written with the next revision, or removed; another object is  *)
(* written; a change is delivered; all are listed anew; or nothing.          *)
StoreWrites ==
  \E n \in Names : \E obj \in ObjectsOf("store") :
    /\ Write(n, "store", obj) /\ UNCHANGED cache
    /\ \/ obj = Gone /\ UNCHANGED revision
       \/ NextStore(Line(n), obj) /\ NextRevision(n)

OtherWrites ==
  \E n \in Names, k \in Kinds \ {"store"} : \E obj \in ObjectsOf(k) :
    Write(n, k, obj) /\ UNCHANGED <<cache, revision>>

Untouched == UNCHANGED <<etcd, watch, cache, revision>>

LEMMA UserWrites ==
  ASSUME ObjectsType, revision \in [Names -> Nat], UserNext
  PROVE  StoreWrites \/ OtherWrites \/ Untouched
<1>1. ASSUME NEW n \in Names, CreateStore(n)
      PROVE  StoreWrites
  <2>1. PICK s \in Specs :
          Write(n, "store", [uid |-> revision[n] + 1, version |-> revision[n] + 1,
                             spec |-> s, status |-> 0])
    BY <1>1 DEF CreateStore
  <2>2. [uid |-> revision[n] + 1, version |-> revision[n] + 1, spec |-> s, status |-> 0]
          \in Stores
    BY ConfigAssumption DEF Stores, Other
  <2>3. NextRevision(n) /\ UNCHANGED cache
    BY <1>1 DEF CreateStore, UserStep
  <2>4. QED
    BY <2>1, <2>2, <2>3 DEF StoreWrites, ObjectsOf, NextStore, Line
<1>2. ASSUME NEW n \in Names, EditStore(n)
      PROVE  StoreWrites
  <2> DEFINE old == etcd[n]["store"]
  <2>1. PICK s \in Specs :
          Write(n, "store", [old EXCEPT !.spec = s, !.version = revision[n] + 1])
    BY <1>2 DEF EditStore
  <2>2. old \in Stores
    BY <1>2, ObjectKinds DEF EditStore
  <2>3. s \in SpecType /\ revision[n] + 1 \in Nat
    BY ConfigAssumption
  <2>4. NextRevision(n) /\ UNCHANGED cache /\ old # Gone
    BY <1>2 DEF EditStore, UserStep
  <2>5. Line(n).stored = old /\ Line(n).given = revision[n]
    BY DEF Line
  <2> DEFINE new == [old EXCEPT !.spec = s, !.version = revision[n] + 1]
  <2> HIDE DEF old
  <2>6. new \in Stores /\ new.uid = old.uid /\ new.version = revision[n] + 1
    BY <2>2, <2>3, EditedStore DEF Stores
  <2> HIDE DEF new
  <2>7. NextStore(Line(n), new)
    BY <2>4, <2>5, <2>6 DEF NextStore
  <2>8. QED
    BY <2>1, <2>4, <2>6, <2>7 DEF new, StoreWrites, ObjectsOf
<1>3. ASSUME NEW n \in Names, DeleteStore(n)
      PROVE  StoreWrites
  <2>1. Write(n, "store", Gone) /\ UNCHANGED <<cache, revision>>
    BY <1>3 DEF DeleteStore, UserStep
  <2>2. QED
    BY <2>1 DEF StoreWrites, ObjectsOf
<1>4. ASSUME NEW n \in Names, ScaleDeployment(n)
      PROVE  OtherWrites
  <2>1. PICK s \in Specs :
          /\ s.replicas # Nil
          /\ Write(n, "deployment", [etcd[n]["deployment"] EXCEPT !.replicas = s.replicas])
    BY <1>4 DEF ScaleDeployment
  <2>2. etcd[n]["deployment"] \in Deployments
    BY <1>4, ObjectKinds DEF ScaleDeployment
  <2>3. s.replicas \in Nat
    BY <2>1, ConfigAssumption DEF SpecType
  <2>4. [etcd[n]["deployment"] EXCEPT !.replicas = s.replicas] \in Deployments
    BY <2>2, <2>3 DEF Deployments
  <2>5. UNCHANGED <<cache, revision>>
    BY <1>4 DEF ScaleDeployment, UserStep
  <2>6. QED
    BY <2>1, <2>4, <2>5 DEF OtherWrites, ObjectsOf, Kinds
<1>5. ASSUME NEW n \in Names, MeddleConfigMap(n)
      PROVE  OtherWrites
  <2>1. UNCHANGED <<cache, revision>>
    BY <1>5 DEF MeddleConfigMap, UserStep
  <2>2. CASE etcd[n]["configMap"] = Gone
    <3>1. PICK c \in Configs : Write(n, "configMap", [owner |-> Other, config |-> c])
      BY <1>5, <2>2 DEF MeddleConfigMap
    <3>2. [owner |-> Other, config |-> c] \in ConfigMaps
      BY DEF ConfigMaps, Owners, Other
    <3>3. QED
      BY <2>1, <3>1, <3>2 DEF OtherWrites, ObjectsOf, Kinds
  <2>3. CASE Write(n, "configMap", Gone)
    BY <2>1, <2>3 DEF OtherWrites, ObjectsOf, Kinds
  <2>4. CASE etcd[n]["configMap"] # Gone /\ ~Write(n, "configMap", Gone)
    <3>1. PICK c \in Configs :
            Write(n, "configMap", [etcd[n]["configMap"] EXCEPT !.config = c])
      BY <1>5, <2>4 DEF MeddleConfigMap
    <3>2. etcd[n]["configMap"] \in ConfigMaps
      BY <2>4, ObjectKinds
    <3>3. [etcd[n]["configMap"] EXCEPT !.config = c] \in ConfigMaps
      BY <3>2 DEF ConfigMaps
    <3>4. QED
      BY <2>1, <3>1, <3>3 DEF OtherWrites, ObjectsOf, Kinds
  <2>5. QED
    BY <2>2, <2>3, <2>4
<1>6. ASSUME NEW s \in Secrets, ToggleSecret(s)
      PROVE  Untouched
  BY <1>6 DEF ToggleSecret, UserStep, Untouched
<1>7. QED
  BY <1>1, <1>2, <1>3, <1>4, <1>5, <1>6 DEF UserNext

LEMMA ClusterWrites ==
  ASSUME ObjectsType, ClusterNext
  PROVE  OtherWrites
<1>1. ASSUME NEW n \in Names, NEW k \in Kinds, CollectGarbage(n, k)
      PROVE  OtherWrites
  <2>1. Write(n, k, Gone) /\ UNCHANGED <<cache, revision>> /\ k # "store"
    BY <1>1 DEF CollectGarbage
  <2>2. QED
    BY <2>1 DEF OtherWrites, ObjectsOf
<1>2. ASSUME NEW n \in Names, Rollout(n)
      PROVE  OtherWrites
  <2> DEFINE d == etcd[n]["deployment"]
  <2>1. Write(n, "deployment", [d EXCEPT !.available = d.replicas]) /\ UNCHANGED <<cache, revision>>
    BY <1>2 DEF Rollout
  <2>2. d \in Deployments
    BY <1>2, ObjectKinds DEF Rollout
  <2>3. [d EXCEPT !.available = d.replicas] \in Deployments
    BY <2>2 DEF Deployments
  <2>4. QED
    BY <2>1, <2>3 DEF OtherWrites, ObjectsOf, Kinds
<1>3. QED
  BY <1>1, <1>2 DEF ClusterNext

LEMMA SyncWrites ==
  ASSUME ObjectsType, WorkersType, revision \in [Names -> Nat],
         NEW w \in Workers, SyncHandler(w)
  PROVE  StoreWrites \/ OtherWrites \/ Untouched
<1>1. /\ job[w] \in Names /\ copy[w] \in Stores /\ ready[w] \in Nat
      /\ UNCHANGED cache
  BY DEF SyncHandler, SyncConfigMap, CheckSecretExistence, SyncDeployment,
         UpdateStoreStatus, WorkersType
<1>2. CASE SyncConfigMap(w)
  <2>1. NoWrite \/ WriteConfigMap(w)
    BY <1>2 DEF SyncConfigMap, CreateConfigMap, UpdateConfigMap, KeepConfigMap
  <2>2. NewConfigMap(copy[w]) \in ObjectsOf("configMap") /\ "configMap" \in Kinds
    BY <1>1, NewObjects DEF ObjectsOf, Kinds
  <2>3. UNCHANGED revision
    BY <1>2 DEF SyncConfigMap
  <2>4. CASE WriteConfigMap(w)
    BY <1>1, <2>2, <2>3, <2>4 DEF WriteConfigMap, OtherWrites
  <2>5. QED
    BY <1>1, <2>1, <2>3, <2>4 DEF NoWrite, Untouched
<1>3. CASE CheckSecretExistence(w)
  BY <1>1, <1>3 DEF CheckSecretExistence, NoWrite, Untouched
<1>4. CASE SyncDeployment(w)
  <2> DEFINE current == etcd[job[w]]["deployment"]
  <2>1. \/ NoWrite
        \/ WriteDeployment(w, 0)
        \/ current # Gone /\ WriteDeployment(w, current.available)
    BY <1>4 DEF SyncDeployment, CreateDeployment, UpdateDeployment, KeepDeployment
  <2>2. current # Gone => current.available \in Nat
    BY <1>1, ObjectKinds DEF Deployments
  <2>3. UNCHANGED revision
    BY <1>4 DEF SyncDeployment
  <2>4. ASSUME NEW available \in Nat, WriteDeployment(w, available)
        PROVE  OtherWrites
    <3>1. NewDeployment(copy[w], available) \in ObjectsOf("deployment") /\ "deployment" \in Kinds
      BY <1>1, NewObjects DEF ObjectsOf, Kinds
    <3>2. QED
      BY <1>1, <2>3, <2>4, <3>1 DEF WriteDeployment, OtherWrites
  <2>5. QED
    BY <1>1, <2>1, <2>2, <2>3, <2>4 DEF NoWrite, Untouched
<1>5. CASE UpdateStoreStatus(w)
  <2> DEFINE current == etcd[job[w]]["store"]
             new == [current EXCEPT !.status = ready[w], !.version = revision[job[w]] + 1]
  <2>1. \/ NoWrite /\ UNCHANGED revision
        \/ current # Gone /\ Write(job[w], "store", new) /\ NextRevision(job[w])
    BY <1>5 DEF UpdateStoreStatus
  <2>2. CASE current # Gone /\ Write(job[w], "store", new) /\ NextRevision(job[w])
    <3>1. current \in Stores /\ revision[job[w]] + 1 \in Nat
      BY <1>1, <2>2, ObjectKinds
    <3>2. Line(job[w]).stored = current /\ Line(job[w]).given = revision[job[w]]
      BY DEF Line
    <3> HIDE DEF current
    <3>3. /\ new \in Stores /\ new.uid = current.uid
          /\ new.version = revision[job[w]] + 1
      BY <1>1, <3>1, EditedStore DEF Stores
    <3> HIDE DEF new
    <3>4. NextStore(Line(job[w]), new)
      BY <2>2, <3>2, <3>3 DEF NextStore
    <3>5. new \in ObjectsOf("store")
      BY <3>3 DEF ObjectsOf
    <3>6. QED
      BY <1>1, <2>2, <3>4, <3>5 DEF StoreWrites
  <2>3. QED
    BY <1>1, <2>1, <2>2 DEF NoWrite, Untouched
<1>6. QED
  BY <1>2, <1>3, <1>4, <1>5 DEF SyncHandler

(* The first change on its way is cached.                                    *)
DeliverEffect(n, k) ==
  /\ watch[n][k] # <<>> /\ etcd' = etcd
  /\ cache' \in [Names -> [Kinds -> Objects]]
  /\ watch' \in [Names -> [Kinds -> Seq(Objects)]]
  /\ cache'[n][k] = Head(watch[n][k]) /\ watch'[n][k] = Tail(watch[n][k])
  /\ \A m \in Names, j \in Kinds : m # n \/ j # k =>
       cache'[m][j] = cache[m][j] /\ watch'[m][j] = watch[m][j]

LEMMA Delivered ==
  ASSUME ObjectsType, NEW n \in Names, NEW k \in Kinds, Deliver(n, k)
  PROVE  DeliverEffect(n, k)
<1>1. /\ watch[n][k] # <<>> /\ etcd' = etcd
      /\ cache' = [cache EXCEPT ![n][k] = Head(watch[n][k])]
      /\ watch' = [watch EXCEPT ![n][k] = Tail(watch[n][k])]
  BY DEF Deliver, cluster, ObjectsType
<1>2. Head(watch[n][k]) \in Objects /\ Tail(watch[n][k]) \in Seq(Objects)
  BY <1>1 DEF ObjectsType
<1>3. /\ cache' \in [Names -> [Kinds -> Objects]]
      /\ cache'[n][k] = Head(watch[n][k])
      /\ \A m \in Names, j \in Kinds : m # n \/ j # k => cache'[m][j] = cache[m][j]
  BY <1>1, <1>2, Replaced DEF ObjectsType
<1>4. /\ watch' \in [Names -> [Kinds -> Seq(Objects)]]
      /\ watch'[n][k] = Tail(watch[n][k])
      /\ \A m \in Names, j \in Kinds : m # n \/ j # k => watch'[m][j] = watch[m][j]
  BY <1>1, <1>2, Replaced DEF ObjectsType
<1>5. QED
  BY <1>1, <1>3, <1>4 DEF DeliverEffect

LEMMA Effects ==
  ASSUME TypeOK, [Next]_vars
  PROVE  \/ StoreWrites
         \/ OtherWrites
         \/ Untouched
         \/ \E n \in Names, k \in Kinds : Deliver(n, k)
         \/ Restart
<1>1. ObjectsType /\ WorkersType /\ revision \in [Names -> Nat]
  BY DEF TypeOK
<1>2. CASE UserNext
  BY <1>1, <1>2, UserWrites
<1>3. CASE ClusterNext
  BY <1>1, <1>3, ClusterWrites
<1>4. CASE \E w \in Workers : SyncHandler(w)
  BY <1>1, <1>4, SyncWrites
<1>5. CASE \E n \in Names : Resync(n) \/ RetryDue(n) \/ \E w \in Workers : Take(w, n)
  BY <1>5 DEF Resync, RetryDue, Take, Untouched, cluster, informers
<1>6. CASE UNCHANGED vars
  BY <1>6 DEF vars, cluster, informers, Untouched
<1>7. QED
  BY <1>2, <1>3, <1>4, <1>5, <1>6 DEF Next, ControllerNext

LEMMA NextObjectsType == TypeOK /\ [Next]_vars => ObjectsType'
<1> SUFFICES ASSUME TypeOK, [Next]_vars
             PROVE  ObjectsType'
  OBVIOUS
<1>1. ObjectsType
  BY DEF TypeOK
<1>2. CASE StoreWrites
  BY <1>1, <1>2, WriteType DEF StoreWrites, Kinds
<1>7. CASE OtherWrites
  BY <1>1, <1>7, WriteType DEF OtherWrites
<1>3. CASE Untouched
  BY <1>1, <1>3, NoWriteType DEF Untouched
<1>4. ASSUME NEW n \in Names, NEW k \in Kinds, Deliver(n, k)
      PROVE  ObjectsType'
  <2>1. /\ watch[n][k] # <<>> /\ etcd' = etcd
        /\ cache' \in [Names -> [Kinds -> Objects]]
        /\ watch' \in [Names -> [Kinds -> Seq(Objects)]]
        /\ cache'[n][k] = Head(watch[n][k]) /\ watch'[n][k] = Tail(watch[n][k])
        /\ \A m \in Names, j \in Kinds : m # n \/ j # k =>
             cache'[m][j] = cache[m][j] /\ watch'[m][j] = watch[m][j]
    BY <1>1, <1>4, Delivered DEF DeliverEffect
  <2>2. Head(watch[n][k]) \in ObjectsOf(k) /\ Tail(watch[n][k]) \in Seq(ObjectsOf(k))
    BY <1>1, <2>1 DEF ObjectsType
  <2>5. ASSUME NEW m \in Names, NEW j \in Kinds
        PROVE  /\ cache'[m][j] \in ObjectsOf(j)
               /\ watch'[m][j] \in Seq(ObjectsOf(j))
    <3>1. cache[m][j] \in ObjectsOf(j) /\ watch[m][j] \in Seq(ObjectsOf(j))
      BY <1>1 DEF ObjectsType
    <3>2. CASE m = n /\ j = k
      BY <2>1, <2>2, <3>2
    <3>3. CASE m # n \/ j # k
      BY <2>1, <3>1, <3>3
    <3>4. QED
      BY <3>2, <3>3
  <2>6. QED
    BY <1>1, <2>1, <2>5 DEF ObjectsType
<1>5. CASE Restart
  <2>1. /\ etcd' = etcd /\ cache' = etcd
        /\ watch' = [n \in Names |-> [k \in Kinds |-> <<>>]]
    BY <1>5 DEF Restart, cluster
  <2>2. <<>> \in Seq(Objects) /\ \A k \in Kinds : <<>> \in Seq(ObjectsOf(k))
    OBVIOUS
  <2>3. QED
    BY <1>1, <2>1, <2>2 DEF ObjectsType
<1>8. QED
  BY <1>2, <1>3, <1>4, <1>5, <1>7, Effects

(* What a worker does to itself: it goes on, or it is done with the name.    *)
LEMMA MovesType ==
  ASSUME WorkersType, NEW w \in Workers, step[w] # "idle"
  PROVE  /\ \A next \in Steps \ {"idle"} :
              Proceed(w, next) /\ ready' \in [Workers -> Nat] => WorkersType'
         /\ Done(w) /\ UNCHANGED retry => WorkersType'
         /\ Requeue(w) => WorkersType'
<1>1. ASSUME NEW next \in Steps \ {"idle"}, Proceed(w, next), ready' \in [Workers -> Nat]
      PROVE  WorkersType'
  BY <1>1 DEF Proceed, WorkersType
<1>2. Done(w) /\ UNCHANGED retry => WorkersType'
  BY DEF Done, WorkersType, Steps
<1>3. Requeue(w) => WorkersType'
  BY DEF Requeue, Done, WorkersType, Steps
<1>4. QED
  BY <1>1, <1>2, <1>3

LEMMA SyncMoves ==
  ASSUME ObjectsType, WorkersType, NEW w \in Workers, SyncHandler(w)
  PROVE  /\ step[w] # "idle"
         /\ \/ /\ \E next \in Steps \ {"idle"} : Proceed(w, next)
               /\ ready' \in [Workers -> Nat]
            \/ Done(w) /\ UNCHANGED retry
            \/ Requeue(w)
<1>1. step[w] # "idle"
  BY DEF SyncHandler, SyncConfigMap, CheckSecretExistence, SyncDeployment, UpdateStoreStatus
<1>2. job[w] \in Names /\ ready \in [Workers -> Nat]
  BY <1>1 DEF WorkersType
<1>3. CASE SyncConfigMap(w)
  BY <1>2, <1>3 DEF SyncConfigMap, CreateConfigMap, UpdateConfigMap, KeepConfigMap, Steps
<1>4. CASE CheckSecretExistence(w)
  BY <1>2, <1>4 DEF CheckSecretExistence, Steps
<1>5. CASE SyncDeployment(w)
  <2> DEFINE n == job[w]
  <2>1. /\ etcd[n]["deployment"] # Gone => etcd[n]["deployment"].available \in Nat
        /\ cache[n]["deployment"] # Gone => cache[n]["deployment"].available \in Nat
    BY <1>2, ObjectKinds DEF Deployments
  <2>2. ASSUME NEW available \in Nat, WriteDeployment(w, available)
        PROVE  \/ Proceed(w, "status") /\ ready' \in [Workers -> Nat]
               \/ Requeue(w)
    BY <1>2, <2>2 DEF WriteDeployment
  <2>3. \/ Requeue(w)
        \/ Proceed(w, "status") /\ ready' \in [Workers -> Nat]
    <3>1. CASE CreateDeployment(w)
      BY <2>2, <3>1 DEF CreateDeployment
    <3>2. CASE UpdateDeployment(w)
      BY <2>1, <2>2, <3>2 DEF UpdateDeployment
    <3>3. CASE KeepDeployment(w)
      BY <1>2, <2>1, <3>3 DEF KeepDeployment
    <3>4. QED
      BY <1>5, <3>1, <3>2, <3>3 DEF SyncDeployment
  <2>4. QED
    BY <1>1, <2>3 DEF Steps
<1>6. CASE UpdateStoreStatus(w)
  BY <1>1, <1>6 DEF UpdateStoreStatus
<1>7. QED
  BY <1>1, <1>3, <1>4, <1>5, <1>6 DEF SyncHandler

LEMMA NextWorkersType == TypeOK /\ [Next]_vars => WorkersType'
<1> SUFFICES ASSUME TypeOK, [Next]_vars
             PROVE  WorkersType'
  OBVIOUS
<1>1. ObjectsType /\ WorkersType
  BY DEF TypeOK
<1>2. CASE UserNext
  <2>1. UNCHANGED <<queue, worker>>
    BY <1>2 DEF UserNext, CreateStore, EditStore, DeleteStore, ScaleDeployment,
                MeddleConfigMap, ToggleSecret, UserStep
  <2>2. QED
    BY <1>1, <2>1 DEF queue, worker, WorkersType
<1>3. CASE ClusterNext
  <2>1. UNCHANGED <<queue, worker>>
    BY <1>3 DEF ClusterNext, Rollout, CollectGarbage
  <2>2. QED
    BY <1>1, <2>1 DEF queue, worker, WorkersType
<1>4. ASSUME NEW w \in Workers, SyncHandler(w)
      PROVE  WorkersType'
  BY <1>1, <1>4, SyncMoves, MovesType
<1>5. ASSUME NEW n \in Names, Resync(n) \/ RetryDue(n) \/ \E k \in Kinds : Deliver(n, k)
      PROVE  WorkersType'
  <2>1. UNCHANGED worker /\ retry' \subseteq retry /\ dirty' \subseteq dirty \cup {n}
    BY <1>5 DEF Resync, RetryDue, Deliver
  <2>2. QED
    BY <1>1, <2>1 DEF worker, WorkersType
<1>6. ASSUME NEW n \in Names, NEW w \in Workers, Take(w, n)
      PROVE  WorkersType'
  <2>1. dirty' \subseteq dirty /\ UNCHANGED <<retry, ready>>
    BY <1>6 DEF Take, worker
  <2>2. CASE cache[n]["store"] = Gone
    BY <1>1, <1>6, <2>1, <2>2 DEF Take, worker, WorkersType
  <2>3. CASE cache[n]["store"] # Gone
    <3>1. cache[n]["store"] \in Stores
      BY <1>1, <2>3, ObjectKinds
    <3>2. QED
      BY <1>1, <1>6, <2>1, <2>3, <3>1 DEF Take, WorkersType, Steps
  <2>4. QED
    BY <2>2, <2>3
<1>7. CASE Restart
  BY <1>1, <1>7 DEF Restart, WorkersType, Steps
<1>8. CASE UNCHANGED vars
  BY <1>1, <1>8 DEF vars, queue, worker, WorkersType
<1>9. QED
  BY <1>2, <1>3, <1>4, <1>5, <1>6, <1>7, <1>8 DEF Next, ControllerNext

LEMMA NextRunningType == TypeOK /\ [Next]_vars =>
                           running' \in [Names -> [template : Template, config : Configs] \cup {Gone}]
<1> SUFFICES ASSUME TypeOK, [Next]_vars
             PROVE  running' \in [Names -> [template : Template, config : Configs] \cup {Gone}]
  OBVIOUS
<1>1. /\ ObjectsType
      /\ running \in [Names -> [template : Template, config : Configs] \cup {Gone}]
  BY DEF TypeOK
<1>2. CASE UNCHANGED running
  BY <1>1, <1>2
<1>3. ASSUME NEW n \in Names, NEW k \in Kinds, CollectGarbage(n, k)
      PROVE  running' \in [Names -> [template : Template, config : Configs] \cup {Gone}]
  BY <1>1, <1>3 DEF CollectGarbage
<1>4. ASSUME NEW n \in Names, Rollout(n)
      PROVE  running' \in [Names -> [template : Template, config : Configs] \cup {Gone}]
  <2> DEFINE d == etcd[n]["deployment"]
             current == running[n] # Gone /\ running[n].template = d.template
             started == [template |-> d.template, config |-> etcd[n]["configMap"].config]
  <2>1. CASE current
    BY <1>1, <1>4, <2>1 DEF Rollout
  <2>2. CASE ~current
    <3>1. d # Gone /\ etcd[n]["configMap"] # Gone /\ running' = [running EXCEPT ![n] = started]
      BY <1>4, <2>2 DEF Rollout
    <3>2. d \in Deployments /\ etcd[n]["configMap"] \in ConfigMaps
      BY <1>1, <3>1, ObjectKinds
    <3>3. d.template \in Template /\ etcd[n]["configMap"].config \in Configs
      BY <3>2 DEF Deployments, ConfigMaps
    <3> HIDE DEF d
    <3>4. started \in [template : Template, config : Configs]
      BY <3>3
    <3> HIDE DEF started
    <3>5. QED
      BY <1>1, <3>1, <3>4
  <2>3. QED
    BY <2>1, <2>2
<1>5. UNCHANGED running \/ ClusterNext
  BY DEF Next, UserNext, CreateStore, EditStore, DeleteStore, ScaleDeployment,
         MeddleConfigMap, ToggleSecret, UserStep, ControllerNext, Resync, RetryDue,
         Deliver, Take, Restart, SyncHandler, SyncConfigMap, CheckSecretExistence,
         SyncDeployment, UpdateStoreStatus, vars, cluster
<1>6. QED
  BY <1>2, <1>3, <1>4, <1>5 DEF ClusterNext

LEMMA NextCountersType == TypeOK /\ [Next]_vars =>
                            revision' \in [Names -> Nat] /\ applied' \in [Names -> Nat]
<1> SUFFICES ASSUME TypeOK, [Next]_vars
             PROVE  revision' \in [Names -> Nat] /\ applied' \in [Names -> Nat]
  OBVIOUS
<1>1. WorkersType /\ revision \in [Names -> Nat] /\ applied \in [Names -> Nat]
  BY DEF TypeOK
<1>2. UNCHANGED revision \/ \E n \in Names : NextRevision(n)
  <2>1. ASSUME NEW w \in Workers, UpdateStoreStatus(w)
        PROVE  UNCHANGED revision \/ (NextRevision(job[w]) /\ job[w] \in Names)
    BY <1>1, <2>1 DEF UpdateStoreStatus, WorkersType
  <2>2. QED
    BY <2>1 DEF Next, UserNext, CreateStore, EditStore, DeleteStore, ScaleDeployment,
                MeddleConfigMap, ToggleSecret, ClusterNext, Rollout, CollectGarbage,
                ControllerNext, Resync, RetryDue, Deliver, Take, Restart, SyncHandler,
                SyncConfigMap, CheckSecretExistence, SyncDeployment, vars, cluster
<1>3. revision' \in [Names -> Nat]
  BY <1>1, <1>2 DEF NextRevision
<1>4. UNCHANGED applied \/ \E w \in Workers : WriteConfigMap(w) /\ step[w] = "configMap"
  BY DEF Next, UserNext, CreateStore, EditStore, DeleteStore, ScaleDeployment,
         MeddleConfigMap, ToggleSecret, UserStep, ClusterNext, Rollout, CollectGarbage,
         ControllerNext, Resync, RetryDue, Deliver, Take, Restart, SyncHandler,
         SyncConfigMap, CreateConfigMap, UpdateConfigMap, KeepConfigMap,
         CheckSecretExistence, SyncDeployment, UpdateStoreStatus, vars
<1>5. ASSUME NEW w \in Workers, WriteConfigMap(w), step[w] = "configMap"
      PROVE  applied' \in [Names -> Nat]
  <2>1. job[w] \in Names /\ copy[w].version \in Nat
    BY <1>1, <1>5 DEF WorkersType, Stores
  <2>2. QED
    BY <1>1, <1>5, <2>1 DEF WriteConfigMap
<1>6. QED
  BY <1>1, <1>3, <1>4, <1>5

LEMMA NextType == TypeOK /\ [Next]_vars => TypeOK'
BY NextObjectsType, NextWorkersType, NextRunningType, NextCountersType DEF TypeOK

(* Whatever users and workers do, calls fail and controllers restart, every  *)
(* object is one of its kind, and a worker that is busy has a Store in hand. *)
THEOREM TypeCorrect == Spec => []TypeOK
BY InitType, NextType, PTL DEF Spec

------------------------------------------------------------------------------
(* Invariants.                                                               *)

Active(w) == step[w] # "idle"

(* The owner of the ConfigMap; one that does not exist has none.             *)
Owner(n) == IF etcd[n]["configMap"] = Gone THEN Other ELSE etcd[n]["configMap"].owner

(* No two workers have the same name; what one has read, and what was last   *)
(* written to the ConfigMap, is no later than all that may still be read.    *)
Chain ==
  /\ \A v, w \in Workers : Active(v) /\ Active(w) /\ v # w => job[v] # job[w]
  /\ \A n \in Names : Ordered(Line(n)) /\ Low(Owner(n), applied[n], Line(n))
  /\ \A n \in Names, w \in Workers : Active(w) /\ job[w] = n =>
       /\ Low(copy[w].uid, copy[w].version, Line(n))
       /\ NotAfter(Owner(n), applied[n], copy[w])

(* An informer that waits for nothing has the object as it is stored; one    *)
(* that waits will have it at last.                                          *)
InSync ==
  \A n \in Names, k \in Kinds :
    LET sent == watch[n][k]
    IN etcd[n][k] = IF sent = <<>> THEN cache[n][k] ELSE sent[Len(sent)]

(* The Store with a UID is not stored, or has its ConfigMap; none has a UID  *)
(* that has not been given out.                                              *)
SafeIn(s, c, given, uid) ==
  /\ uid <= given
  /\ s # Gone /\ s.uid = uid => c # Gone /\ c.owner = uid

Safe(n, uid) == SafeIn(etcd[n]["store"], etcd[n]["configMap"], revision[n], uid)

SafeNext(n, uid) == SafeIn(etcd'[n]["store"], etcd'[n]["configMap"], revision'[n], uid)

(* Whoever knows a ConfigMap, or has gone past it, has a Store that is safe, *)
(* and every Deployment is owned by such a one.                              *)
Mounting ==
  \A n \in Names :
    /\ cache[n]["configMap"] # Gone => Safe(n, cache[n]["configMap"].owner)
    /\ \A i \in 1 .. Len(watch[n]["configMap"]) :
         watch[n]["configMap"][i] # Gone => Safe(n, watch[n]["configMap"][i].owner)
    /\ etcd[n]["deployment"] # Gone => Safe(n, etcd[n]["deployment"].owner)
    /\ \A w \in Workers :
         Active(w) /\ job[w] = n /\ step[w] \in {"secret", "deployment"} => Safe(n, copy[w].uid)

------------------------------------------------------------------------------
(* What an informer will have at last.                                       *)

LEMMA LastOfTail ==
  ASSUME NEW S, NEW s \in Seq(S), s # <<>>
  PROVE  s[Len(s)] = IF Tail(s) = <<>> THEN Head(s) ELSE Tail(s)[Len(Tail(s))]
<1>1. /\ Len(s) \in Nat \ {0} /\ Len(Tail(s)) = Len(s) - 1
      /\ \A i \in 1 .. Len(s) - 1 : Tail(s)[i] = s[i + 1]
  OBVIOUS
<1>2. CASE Len(s) = 1
  <2> DEFINE t == Tail(s)
  <2>1. t \in Seq(S) /\ Len(t) = 0 /\ Head(s) = s[1]
    BY <1>1, <1>2
  <2>2. t = <<>>
    <3> HIDE DEF t
    <3>1. QED
      BY <2>1
  <2>3. QED
    BY <1>2, <2>1, <2>2
<1>3. CASE Len(s) # 1
  <2>1. Tail(s) # <<>> /\ Len(s) - 1 \in 1 .. Len(s) - 1
    BY <1>1, <1>3
  <2>2. Tail(s)[Len(s) - 1] = s[Len(s)]
    BY <1>1, <2>1
  <2>3. QED
    BY <1>1, <2>1, <2>2
<1>4. QED
  BY <1>2, <1>3

LEMMA NextInSync == TypeOK /\ InSync /\ [Next]_vars => InSync'
<1> SUFFICES ASSUME TypeOK, InSync, [Next]_vars,
                    NEW n \in Names, NEW k \in Kinds
             PROVE  (etcd[n][k] = IF watch[n][k] = <<>> THEN cache[n][k]
                                  ELSE watch[n][k][Len(watch[n][k])])'
  BY DEF InSync
<1> DEFINE sent == watch[n][k]
<1>1. /\ ObjectsType
      /\ sent \in Seq(ObjectsOf(k)) /\ etcd[n][k] \in ObjectsOf(k)
      /\ etcd[n][k] = IF sent = <<>> THEN cache[n][k] ELSE sent[Len(sent)]
  BY DEF TypeOK, ObjectsType, InSync
<1>2. CASE StoreWrites \/ OtherWrites
  <2>1. PICK m \in Names, j \in Kinds : \E obj \in ObjectsOf(j) :
          Write(m, j, obj) /\ UNCHANGED cache
    BY <1>2 DEF StoreWrites, OtherWrites, Kinds
  <2>2. PICK obj \in ObjectsOf(j) : Write(m, j, obj) /\ UNCHANGED cache
    BY <2>1
  <2>3. /\ etcd'[m][j] = obj
        /\ \/ watch'[m][j] = watch[m][j] /\ etcd[m][j] = obj
           \/ watch'[m][j] = Send(watch[m][j], obj)
        /\ n # m \/ k # j => etcd'[n][k] = etcd[n][k] /\ watch'[n][k] = watch[n][k]
    BY <1>1, <2>2, WriteEffect
  <2>4. CASE n = m /\ k = j
    <3>1. /\ Send(sent, obj) \in Seq(ObjectsOf(k))
          /\ Len(Send(sent, obj)) \in Nat \ {0}
          /\ Send(sent, obj)[Len(Send(sent, obj))] = obj
      <4>1. sent \in Seq(ObjectsOf(k)) /\ obj \in ObjectsOf(k)
        BY <1>1, <2>2, <2>4
      <4> HIDE DEF sent
      <4>2. QED
        BY <4>1, SendEffect
    <3>2. Send(sent, obj) # <<>>
      BY <3>1
    <3>3. QED
      BY <1>1, <2>2, <2>3, <2>4, <3>1, <3>2
  <2>5. CASE n # m \/ k # j
    BY <1>1, <2>2, <2>3, <2>5
  <2>6. QED
    BY <2>4, <2>5
<1>3. CASE Untouched
  BY <1>1, <1>3 DEF Untouched
<1>4. ASSUME NEW m \in Names, NEW j \in Kinds, Deliver(m, j)
      PROVE  (etcd[n][k] = IF watch[n][k] = <<>> THEN cache[n][k]
                           ELSE watch[n][k][Len(watch[n][k])])'
  <2>1. DeliverEffect(m, j)
    BY <1>1, <1>4, Delivered
  <2>2. CASE n = m /\ k = j
    <3>1. sent # <<>> /\ watch'[n][k] = Tail(sent) /\ cache'[n][k] = Head(sent)
          /\ etcd'[n][k] = etcd[n][k]
      BY <2>1, <2>2 DEF DeliverEffect
    <3>2. sent[Len(sent)] = IF Tail(sent) = <<>> THEN Head(sent)
                            ELSE Tail(sent)[Len(Tail(sent))]
      <4> HIDE DEF sent
      <4>1. QED
        BY <1>1, <3>1, LastOfTail
    <3>3. QED
      BY <1>1, <3>1, <3>2
  <2>3. CASE n # m \/ k # j
    BY <1>1, <2>1, <2>3 DEF DeliverEffect
  <2>4. QED
    BY <2>2, <2>3
<1>5. CASE Restart
  BY <1>1, <1>5 DEF Restart, cluster
<1>6. QED
  BY <1>2, <1>3, <1>4, <1>5, Effects

LEMMA InSyncHolds == Spec => []InSync
<1>1. Init => InSync
  BY DEF Init, InSync
<1>2. QED
  BY <1>1, TypeCorrect, NextInSync, PTL DEF Spec

(* Only a worker itself takes itself a step further.                         *)
LEMMA OwnStep ==
  ASSUME TypeOK, [Next]_vars, NEW w \in Workers,
         step[w] # "idle", step'[w] # "idle", step'[w] # step[w]
  PROVE  SyncHandler(w)
<1>1. ObjectsType /\ WorkersType
  BY DEF TypeOK
<1>2. ASSUME NEW v \in Workers, SyncHandler(v)
      PROVE  SyncHandler(w)
  <2>1. v = w
    BY <1>1, <1>2, SyncMoves DEF Proceed, Requeue, Done, WorkersType
  <2>2. QED
    BY <1>2, <2>1
<1>3. ASSUME NEW n \in Names, NEW v \in Workers, Take(v, n)
      PROVE  FALSE
  BY <1>1, <1>3 DEF Take, worker, WorkersType
<1>4. ~Restart
  BY DEF Restart
<1>5. ~UNCHANGED step
  OBVIOUS
<1>6. ~UserNext /\ ~ClusterNext
  BY <1>5 DEF UserNext, CreateStore, EditStore, DeleteStore, ScaleDeployment,
              MeddleConfigMap, ToggleSecret, UserStep, ClusterNext, Rollout,
              CollectGarbage, worker
<1>7. QED
  BY <1>2, <1>3, <1>4, <1>5, <1>6
  DEF Next, ControllerNext, Resync, RetryDue, Deliver, vars, worker

(* A worker goes on from syncDeployment to report a status only when the     *)
(* Deployment is as its Store says, unless the cache still waits for news    *)
(* of it: no error of Create or of Update is lost on the way.                *)
THEOREM DeploymentIsEnsured == Spec => DeploymentEnsured
<1>1. ASSUME TypeOK, InSync, [Next]_vars, NEW w \in Workers,
             step[w] = "deployment", step'[w] = "status",
             watch[job[w]]["deployment"] = <<>>
      PROVE  LET d == etcd'[job[w]]["deployment"]
             IN d # Gone /\ d.owner = copy[w].uid /\ IsDeploymentUpToDate(copy[w], d)
  <2>1. /\ ObjectsType /\ WorkersType /\ job[w] \in Names /\ copy[w] \in Stores
        /\ "deployment" \in Kinds
    BY <1>1 DEF TypeOK, WorkersType, Kinds
  <2>2. SyncDeployment(w)
    BY <1>1, OwnStep
    DEF SyncHandler, SyncConfigMap, CheckSecretExistence, UpdateStoreStatus
  <2>3. etcd[job[w]]["deployment"] = cache[job[w]]["deployment"]
    BY <1>1, <2>1 DEF InSync
  <2>4. CASE KeepDeployment(w)
    <3>1. etcd' = etcd
      BY <2>4 DEF KeepDeployment, NoWrite
    <3>2. ~Requeue(w)
      BY <1>1, <2>1 DEF Requeue, Done, WorkersType
    <3>3. QED
      BY <2>3, <2>4, <3>1, <3>2 DEF KeepDeployment
  <2>5. ~Requeue(w)
    BY <1>1, <2>1 DEF Requeue, Done, WorkersType
  <2>6. ASSUME NEW available \in Nat, WriteDeployment(w, available)
        PROVE  etcd'[job[w]]["deployment"] = NewDeployment(copy[w], available)
    <3>1. NewDeployment(copy[w], available) \in ObjectsOf("deployment")
      BY <2>1, NewObjects DEF ObjectsOf
    <3>2. Write(job[w], "deployment", NewDeployment(copy[w], available))
      BY <2>6 DEF WriteDeployment
    <3>3. QED
      BY <2>1, <3>1, <3>2, WriteEffect
  <2>7. CASE CreateDeployment(w) \/ UpdateDeployment(w)
    <3>1. PICK available \in Nat : WriteDeployment(w, available)
      <4>1. etcd[job[w]]["deployment"] # Gone => etcd[job[w]]["deployment"].available \in Nat
        BY <2>1, ObjectKinds DEF Deployments
      <4>2. QED
        BY <2>5, <2>7, <4>1 DEF CreateDeployment, UpdateDeployment
    <3>2. etcd'[job[w]]["deployment"] = NewDeployment(copy[w], available)
      BY <2>6, <3>1
    <3>3. NewDeployment(copy[w], available) \in Deployments
      BY <2>1, NewObjects
    <3>4. NewDeployment(copy[w], available) # Gone
      BY <3>3, ConfigAssumption
    <3>5. QED
      BY <3>2, <3>4 DEF NewDeployment, IsDeploymentUpToDate
  <2>8. QED
    BY <2>2, <2>4, <2>7 DEF SyncDeployment
<1>2. TypeOK /\ InSync /\ [Next]_vars =>
        [\A w \in Workers :
           step[w] = "deployment" /\ step'[w] = "status" /\ watch[job[w]]["deployment"] = <<>>
           => LET d == etcd'[job[w]]["deployment"]
              IN d # Gone /\ d.owner = copy[w].uid /\ IsDeploymentUpToDate(copy[w], d)]_vars
  BY <1>1
<1>3. QED
  BY <1>2, TypeCorrect, InSyncHolds, PTL DEF Spec, DeploymentEnsured

------------------------------------------------------------------------------
(* Lines.                                                                    *)

LEMMA KnownNumbers ==
  ASSUME NEW s \in Known, s # Gone
  PROVE  s \in Stores /\ s.uid \in Nat /\ s.version \in Nat
BY DEF Known, Stores

(* A Store that is no later than a line is no later than what it becomes.    *)
LEMMA LowKept ==
  ASSUME NEW old \in Lines, NEW new \in Lines, Moves(old, new),
         NEW uid \in Nat, NEW version \in Nat, Low(uid, version, old)
  PROVE  Low(uid, version, new)
<1>1. /\ old.sent \in Seq(Known) /\ new.sent \in Seq(Known)
      /\ old.stored \in Known /\ new.stored \in Known /\ old.given \in Nat
  BY DEF Lines
<1>2. CASE new = old
  BY <1>2
<1>3. CASE /\ \/ new.stored = Gone /\ new.given = old.given
              \/ NextStore(old, new.stored) /\ new.given = old.given + 1
           /\ new.cached = old.cached
           /\ new.sent = old.sent \/ new.sent = Send(old.sent, new.stored)
  <2>1. NotAfter(uid, version, new.stored)
    BY <1>1, <1>3, KnownNumbers DEF Low, NotAfter, NextStore
  <2>2. \A i \in 1 .. Len(new.sent) : NotAfter(uid, version, new.sent[i])
    <3>1. CASE new.sent = old.sent
      BY <3>1 DEF Low
    <3>2. CASE new.sent = Send(old.sent, new.stored)
      <4>1. /\ Len(new.sent) \in Nat \ {0}
            /\ new.sent[Len(new.sent)] = new.stored
            /\ \A i \in 1 .. Len(new.sent) : i < Len(new.sent) =>
                 i \in 1 .. Len(old.sent) /\ new.sent[i] = old.sent[i]
        <5>1. Extends(old.sent, Send(old.sent, new.stored), new.stored)
          BY <1>1, SendExtends
        <5>2. QED
          BY <3>2, <5>1 DEF Extends
      <4>2. ASSUME NEW i \in 1 .. Len(new.sent)
            PROVE  NotAfter(uid, version, new.sent[i])
        <5>1. CASE i = Len(new.sent)
          BY <2>1, <4>1, <5>1
        <5>2. CASE i < Len(new.sent)
          BY <4>1, <5>2 DEF Low
        <5>3. QED
          BY <4>1, <5>1, <5>2
      <4>3. QED
        BY <4>2
    <3>3. QED
      BY <1>3, <3>1, <3>2
  <2>3. uid <= new.given /\ version <= new.given
    BY <1>1, <1>3 DEF Low
  <2>4. QED
    BY <1>3, <2>1, <2>2, <2>3 DEF Low
<1>4. CASE /\ old.sent # <<>> /\ new.cached = Head(old.sent) /\ new.sent = Tail(old.sent)
           /\ new.stored = old.stored /\ new.given = old.given
  <2>1. /\ Len(old.sent) \in Nat \ {0} /\ new.cached = old.sent[1]
        /\ \A i \in 1 .. Len(new.sent) :
             i + 1 \in 1 .. Len(old.sent) /\ new.sent[i] = old.sent[i + 1]
    BY <1>1, <1>4
  <2>2. QED
    BY <1>4, <2>1 DEF Low
<1>5. CASE /\ new.cached = old.stored /\ new.sent = <<>>
           /\ new.stored = old.stored /\ new.given = old.given
  BY <1>5 DEF Low
<1>6. QED
  BY <1>2, <1>3, <1>4, <1>5 DEF Moves

LEMMA OrderedKept ==
  ASSUME NEW old \in Lines, NEW new \in Lines, Moves(old, new), Ordered(old)
  PROVE  Ordered(new)
<1>1. /\ old.sent \in Seq(Known) /\ new.sent \in Seq(Known) /\ old.given \in Nat
      /\ old.stored \in Known /\ new.stored \in Known
      /\ old.cached \in Known /\ new.cached \in Known
  BY DEF Lines
<1>2. CASE new = old
  BY <1>2
<1>3. CASE /\ \/ new.stored = Gone /\ new.given = old.given
              \/ NextStore(old, new.stored) /\ new.given = old.given + 1
           /\ new.cached = old.cached
           /\ new.sent = old.sent \/ new.sent = Send(old.sent, new.stored)
  <2>1. new.cached # Gone => Low(new.cached.uid, new.cached.version, new)
    BY <1>1, <1>3, KnownNumbers, LowKept DEF Ordered
  <2>2. new.stored # Gone => Within(new.stored, new.given)
    BY <1>1, <1>3, KnownNumbers DEF Ordered, NextStore, Within
  <2>3. ASSUME NEW i \in 1 .. Len(old.sent), old.sent[i] # Gone
        PROVE  /\ NotAfter(old.sent[i].uid, old.sent[i].version, new.stored)
               /\ Within(old.sent[i], new.given)
    <3>1. old.sent[i] \in Known
      BY <1>1
    <3>2. old.sent[i].uid \in Nat /\ old.sent[i].version \in Nat
      BY <2>3, <3>1, KnownNumbers
    <3>3. /\ NotAfter(old.sent[i].uid, old.sent[i].version, old.stored)
          /\ Within(old.sent[i], old.given)
      BY <2>3 DEF Ordered, Placed
    <3>4. QED
      BY <1>1, <1>3, <3>2, <3>3, KnownNumbers DEF NotAfter, Within, NextStore
  <2>4. ASSUME NEW i \in 1 .. Len(new.sent)
        PROVE  Placed(new, i)
    <3>1. CASE new.sent = old.sent
      BY <2>3, <3>1 DEF Ordered, Placed
    <3>2. CASE new.sent = Send(old.sent, new.stored)
      <4>1. Extends(old.sent, Send(old.sent, new.stored), new.stored)
        BY <1>1, SendExtends
      <4>2. /\ Len(new.sent) \in Nat \ {0}
            /\ new.sent[Len(new.sent)] = new.stored
            /\ \A j \in 1 .. Len(new.sent) : j < Len(new.sent) =>
                 j \in 1 .. Len(old.sent) /\ new.sent[j] = old.sent[j]
        BY <3>2, <4>1 DEF Extends
      <4>3. CASE i = Len(new.sent)
        BY <1>1, <2>2, <4>2, <4>3, KnownNumbers DEF Placed, NotAfter
      <4>4. CASE i < Len(new.sent) /\ new.sent[i] # Gone
        <5>1. i \in 1 .. Len(old.sent) /\ new.sent[i] = old.sent[i]
          BY <4>2, <4>4
        <5>2. ASSUME NEW j \in i .. Len(new.sent)
              PROVE  NotAfter(new.sent[i].uid, new.sent[i].version, new.sent[j])
          <6>1. CASE j = Len(new.sent)
            BY <2>3, <4>2, <4>4, <5>1, <6>1
          <6>2. CASE j < Len(new.sent)
            <7>1. j \in i .. Len(old.sent) /\ new.sent[j] = old.sent[j]
              BY <4>2, <6>2
            <7>2. QED
              BY <4>4, <5>1, <7>1 DEF Ordered, Placed
          <6>3. QED
            BY <4>2, <6>1, <6>2
        <5>3. QED
          BY <2>3, <4>4, <5>1, <5>2 DEF Placed
      <4>5. QED
        BY <4>2, <4>3, <4>4 DEF Placed
    <3>3. QED
      BY <1>3, <3>1, <3>2
  <2>5. QED
    BY <2>1, <2>2, <2>4 DEF Ordered
<1>4. CASE /\ old.sent # <<>> /\ new.cached = Head(old.sent) /\ new.sent = Tail(old.sent)
           /\ new.stored = old.stored /\ new.given = old.given
  <2>1. /\ Len(old.sent) \in Nat \ {0} /\ new.cached = old.sent[1]
        /\ Len(new.sent) = Len(old.sent) - 1
        /\ \A i \in 1 .. Len(new.sent) :
             i + 1 \in 1 .. Len(old.sent) /\ new.sent[i] = old.sent[i + 1]
    BY <1>1, <1>4
  <2>2. new.cached # Gone => Low(new.cached.uid, new.cached.version, new)
    <3>1. Placed(old, 1) /\ 1 \in 1 .. Len(old.sent)
      BY <2>1 DEF Ordered
    <3>2. new.cached # Gone =>
            /\ NotAfter(new.cached.uid, new.cached.version, new.cached)
            /\ \A j \in 1 .. Len(old.sent) :
                 NotAfter(new.cached.uid, new.cached.version, old.sent[j])
            /\ NotAfter(new.cached.uid, new.cached.version, new.stored)
            /\ Within(new.cached, new.given)
      BY <1>4, <2>1, <3>1 DEF Placed
    <3>3. QED
      BY <2>1, <3>2 DEF Low, Within
  <2>3. ASSUME NEW i \in 1 .. Len(new.sent)
        PROVE  Placed(new, i)
    <3>1. i + 1 \in 1 .. Len(old.sent) /\ new.sent[i] = old.sent[i + 1] /\ Placed(old, i + 1)
      BY <2>1 DEF Ordered
    <3>2. \A j \in i .. Len(new.sent) :
            j + 1 \in i + 1 .. Len(old.sent) /\ new.sent[j] = old.sent[j + 1]
      BY <2>1
    <3>3. QED
      BY <1>4, <3>1, <3>2 DEF Placed
  <2>4. QED
    BY <1>4, <2>2, <2>3 DEF Ordered
<1>5. CASE /\ new.cached = old.stored /\ new.sent = <<>>
           /\ new.stored = old.stored /\ new.given = old.given
  <2>1. new.cached # Gone =>
          /\ new.cached.uid \in Nat /\ new.cached.version \in Nat
          /\ Within(new.cached, new.given)
    BY <1>1, <1>5, KnownNumbers DEF Ordered
  <2>2. QED
    BY <1>5, <2>1 DEF Ordered, Low, NotAfter, Within
<1>6. QED
  BY <1>2, <1>3, <1>4, <1>5 DEF Moves

LEMMA LineType ==
  ASSUME NEW n \in Names
  PROVE  /\ TypeOK => Line(n) \in Lines
         /\ TypeOK' => Line(n)' \in Lines
<1>1. "store" \in Kinds /\ ObjectsOf("store") = Known
  BY DEF Kinds, ObjectsOf, Known
<1>2. TypeOK => Line(n) \in Lines
  BY <1>1 DEF TypeOK, ObjectsType, Line, Lines
<1>3. TypeOK' => Line(n)' \in Lines
  BY <1>1 DEF TypeOK, ObjectsType, Line, Lines
<1>4. QED
  BY <1>2, <1>3

LEMMA LineMoves ==
  ASSUME TypeOK, [Next]_vars, NEW n \in Names
  PROVE  Moves(Line(n), Line(n)')
<1>1. ObjectsType /\ revision \in [Names -> Nat] /\ "store" \in Kinds
  BY DEF TypeOK, Kinds
<1>2. CASE Untouched
  BY <1>2 DEF Untouched, Line, Moves
<1>3. CASE OtherWrites
  <2>1. PICK m \in Names, k \in Kinds \ {"store"} : \E obj \in ObjectsOf(k) :
          Write(m, k, obj) /\ UNCHANGED <<cache, revision>>
    BY <1>3 DEF OtherWrites
  <2>2. /\ etcd'[n]["store"] = etcd[n]["store"] /\ watch'[n]["store"] = watch[n]["store"]
        /\ UNCHANGED <<cache, revision>>
    BY <1>1, <2>1, WriteEffect
  <2>3. QED
    BY <2>2 DEF Line, Moves
<1>4. CASE StoreWrites
  <2>1. PICK m \in Names : \E obj \in ObjectsOf("store") :
          /\ Write(m, "store", obj) /\ UNCHANGED cache
          /\ \/ obj = Gone /\ UNCHANGED revision
             \/ NextStore(Line(m), obj) /\ NextRevision(m)
    BY <1>4 DEF StoreWrites
  <2>2. PICK obj \in ObjectsOf("store") :
          /\ Write(m, "store", obj) /\ UNCHANGED cache
          /\ \/ obj = Gone /\ UNCHANGED revision
             \/ NextStore(Line(m), obj) /\ NextRevision(m)
    BY <2>1
  <2>3. /\ etcd'[m]["store"] = obj
        /\ \/ watch'[m]["store"] = watch[m]["store"]
           \/ watch'[m]["store"] = Send(watch[m]["store"], obj)
        /\ n # m => etcd'[n]["store"] = etcd[n]["store"] /\ watch'[n]["store"] = watch[n]["store"]
    BY <1>1, <2>2, WriteEffect
  <2>4. CASE n = m
    <3>1. /\ \/ obj = Gone /\ revision'[n] = revision[n]
             \/ NextStore(Line(n), obj) /\ revision'[n] = revision[n] + 1
          /\ cache' = cache
      BY <1>1, <2>2, <2>4 DEF NextRevision
    <3>2. /\ Line(n)'.stored = obj /\ Line(n)'.given = revision'[n]
          /\ Line(n)'.cached = Line(n).cached /\ Line(n).given = revision[n]
          /\ Line(n)'.sent = Line(n).sent \/ Line(n)'.sent = Send(Line(n).sent, obj)
      BY <2>3, <2>4, <3>1 DEF Line
    <3>3. QED
      BY <3>1, <3>2 DEF Moves
  <2>5. CASE n # m
    <3>1. revision'[n] = revision[n]
      BY <1>1, <2>2, <2>5 DEF NextRevision
    <3>2. Line(n)' = Line(n)
      BY <2>2, <2>3, <2>5, <3>1 DEF Line
    <3>3. QED
      BY <3>2 DEF Moves
  <2>6. QED
    BY <2>4, <2>5
<1>5. ASSUME NEW m \in Names, NEW k \in Kinds, Deliver(m, k)
      PROVE  Moves(Line(n), Line(n)')
  <2>1. DeliverEffect(m, k) /\ revision' = revision
    BY <1>1, <1>5, Delivered DEF Deliver, cluster
  <2>2. CASE n = m /\ k = "store"
    BY <2>1, <2>2 DEF DeliverEffect, Line, Moves
  <2>3. CASE n # m \/ k # "store"
    <3>1. Line(n)' = Line(n)
      BY <1>1, <2>1, <2>3 DEF DeliverEffect, Line
    <3>2. QED
      BY <3>1 DEF Moves
  <2>4. QED
    BY <2>2, <2>3
<1>6. CASE Restart
  <2>1. /\ cache' = etcd /\ etcd' = etcd /\ revision' = revision
        /\ watch'[n]["store"] = <<>>
    BY <1>1, <1>6 DEF Restart, cluster
  <2>2. QED
    BY <2>1 DEF Line, Moves
<1>7. QED
  BY <1>2, <1>3, <1>4, <1>5, <1>6, Effects

(* What a step does to a worker: it stays with its name and its copy; it     *)
(* takes a name no other has, and the Store that is cached; or it is idle.   *)
LEMMA WorkerStep ==
  ASSUME TypeOK, [Next]_vars, NEW w \in Workers, Active(w)'
  PROVE  \/ /\ Active(w) /\ job'[w] = job[w] /\ copy'[w] = copy[w]
         \/ /\ ~Active(w) /\ job'[w] \in Names
            /\ copy'[w] = cache[job'[w]]["store"] /\ copy'[w] \in Stores
            /\ step'[w] = "configMap"
            /\ \A v \in Workers : Active(v) => job[v] # job'[w]
            /\ \A v \in Workers : v # w /\ Active(v)' => Active(v) /\ job'[v] = job[v]
            /\ UNCHANGED <<cluster, informers, applied>>
<1>1. ObjectsType /\ WorkersType
  BY DEF TypeOK
<1>2. CASE UNCHANGED worker
  BY <1>2 DEF worker, Active
<1>3. ASSUME NEW v \in Workers, SyncHandler(v)
      PROVE  Active(w) /\ job'[w] = job[w] /\ copy'[w] = copy[w]
  <2>1. /\ step[v] # "idle"
        /\ \/ \E next \in Steps : Proceed(v, next)
           \/ Done(v)
    BY <1>1, <1>3, SyncMoves DEF Requeue
  <2>2. CASE \E next \in Steps : Proceed(v, next)
    BY <1>1, <2>1, <2>2 DEF Proceed, WorkersType, Active
  <2>3. CASE Done(v)
    BY <1>1, <2>3 DEF Done, WorkersType, Active
  <2>4. QED
    BY <2>1, <2>2, <2>3
<1>4. ASSUME NEW n \in Names, NEW v \in Workers, Take(v, n), cache[n]["store"] # Gone
      PROVE  \/ Active(w) /\ job'[w] = job[w] /\ copy'[w] = copy[w]
             \/ /\ ~Active(w) /\ job'[w] \in Names
                /\ copy'[w] = cache[job'[w]]["store"] /\ copy'[w] \in Stores
                /\ step'[w] = "configMap"
                /\ \A u \in Workers : Active(u) => job[u] # job'[w]
                /\ \A u \in Workers : u # w /\ Active(u)' => Active(u) /\ job'[u] = job[u]
                /\ UNCHANGED <<cluster, informers, applied>>
  <2>1. /\ step[v] = "idle" /\ n \notin Busy
        /\ step' = [step EXCEPT ![v] = "configMap"]
        /\ job' = [job EXCEPT ![v] = n]
        /\ copy' = [copy EXCEPT ![v] = cache[n]["store"]]
        /\ UNCHANGED <<cluster, informers, applied>>
    BY <1>4 DEF Take
  <2>2. cache[n]["store"] \in Stores
    BY <1>1, <1>4, ObjectKinds
  <2>3. CASE w = v
    BY <1>1, <2>1, <2>2, <2>3 DEF Active, Busy, WorkersType
  <2>4. CASE w # v
    BY <1>1, <2>1, <2>4 DEF Active, WorkersType
  <2>5. QED
    BY <2>3, <2>4
<1>5. ~Restart
  BY DEF Restart, Active
<1>6. CASE UserNext
  BY <1>2, <1>6 DEF UserNext, CreateStore, EditStore, DeleteStore, ScaleDeployment,
                    MeddleConfigMap, ToggleSecret, UserStep
<1>7. CASE ClusterNext
  BY <1>2, <1>7 DEF ClusterNext, Rollout, CollectGarbage
<1>8. CASE \E n \in Names : \/ Resync(n) \/ RetryDue(n) \/ \E k \in Kinds : Deliver(n, k)
                           \/ \E v \in Workers : Take(v, n)
  BY <1>2, <1>4, <1>8 DEF Resync, RetryDue, Deliver, Take
<1>9. CASE UNCHANGED vars
  BY <1>2, <1>9 DEF vars
<1>10. QED
  BY <1>3, <1>5, <1>6, <1>7, <1>8, <1>9 DEF Next, ControllerNext

(* What a step does to a ConfigMap: only a worker that has its name writes   *)
(* it for a Store; users and the garbage collector give it no new owner.     *)
Marked(n, w) ==
  /\ Active(w) /\ job[w] = n
  /\ Owner(n)' = copy[w].uid /\ applied'[n] = copy[w].version

Unmarked(n) ==
  /\ applied'[n] = applied[n]
  /\ \/ Owner(n)' = Owner(n)
     \/ Owner(n)' = Other /\ (Orphan(n, "configMap") \/ "meddle" \in Users)

LEMMA OwnerAfter ==
  ASSUME ObjectsType, NEW m \in Names, NEW k \in Kinds, NEW obj \in ObjectsOf(k),
         Write(m, k, obj), NEW n \in Names
  PROVE  Owner(n)' = IF n = m /\ k = "configMap"
                     THEN IF obj = Gone THEN Other ELSE obj.owner
                     ELSE Owner(n)
<1>1. /\ "configMap" \in Kinds /\ etcd'[m][k] = obj
      /\ n # m \/ k # "configMap" => etcd'[n]["configMap"] = etcd[n]["configMap"]
  BY WriteEffect DEF Kinds
<1>2. QED
  BY <1>1 DEF Owner

LEMMA MarkStep ==
  ASSUME TypeOK, [Next]_vars, NEW n \in Names
  PROVE  Unmarked(n) \/ \E w \in Workers : Marked(n, w)
<1>1. ObjectsType /\ WorkersType /\ applied \in [Names -> Nat]
      /\ "configMap" \in Kinds /\ "deployment" \in Kinds /\ "store" \in Kinds
  BY DEF TypeOK, Kinds
<1>2. ASSUME UNCHANGED <<etcd, applied>>
      PROVE  Unmarked(n)
  BY <1>2 DEF Unmarked, Owner
<1>3. ASSUME NEW m \in Names, NEW k \in Kinds, NEW obj \in ObjectsOf(k),
             Write(m, k, obj), UNCHANGED applied,
             k = "configMap" =>
               \/ obj # Gone /\ obj.owner = Owner(m)
               \/ /\ obj = Gone \/ obj.owner = Other
                  /\ Orphan(m, "configMap") \/ "meddle" \in Users
      PROVE  Unmarked(n)
  BY <1>1, <1>3, OwnerAfter DEF Unmarked
<1>4. CASE UserNext
  <2>1. UNCHANGED applied
    BY <1>4 DEF UserNext, CreateStore, EditStore, DeleteStore, ScaleDeployment,
                MeddleConfigMap, ToggleSecret, UserStep
  <2>2. ASSUME NEW m \in Names, MeddleConfigMap(m)
        PROVE  Unmarked(n)
    <3> "meddle" \in Users
      BY <2>2 DEF MeddleConfigMap
    <3>1. CASE etcd[m]["configMap"] = Gone
      <4>1. PICK c \in Configs : Write(m, "configMap", [owner |-> Other, config |-> c])
        BY <2>2, <3>1 DEF MeddleConfigMap
      <4>2. [owner |-> Other, config |-> c] \in ObjectsOf("configMap")
        BY DEF ObjectsOf, ConfigMaps, Owners, Other
      <4>3. QED
        BY <1>1, <1>3, <2>1, <4>1, <4>2
    <3>2. CASE Write(m, "configMap", Gone)
      BY <1>1, <1>3, <2>1, <3>2 DEF ObjectsOf
    <3>3. CASE etcd[m]["configMap"] # Gone /\ ~Write(m, "configMap", Gone)
      <4>1. PICK c \in Configs :
              Write(m, "configMap", [etcd[m]["configMap"] EXCEPT !.config = c])
        BY <2>2, <3>3 DEF MeddleConfigMap
      <4>2. etcd[m]["configMap"] \in ConfigMaps
        BY <1>1, <3>3, ObjectKinds
      <4>3. /\ [etcd[m]["configMap"] EXCEPT !.config = c] \in ConfigMaps
            /\ [etcd[m]["configMap"] EXCEPT !.config = c].owner = Owner(m)
        BY <3>3, <4>2 DEF ConfigMaps, Owner
      <4>4. [etcd[m]["configMap"] EXCEPT !.config = c] \in ObjectsOf("configMap")
        BY <4>3 DEF ObjectsOf
      <4>5. QED
        BY <1>1, <1>3, <2>1, <4>1, <4>3, <4>4
    <3>4. QED
      BY <3>1, <3>2, <3>3
  <2>3. CASE ~\E m \in Names : MeddleConfigMap(m)
    <3>1. /\ revision \in [Names -> Nat]
          /\ StoreWrites \/ OtherWrites \/ Untouched
      BY <1>1, <1>4, UserWrites DEF TypeOK
    <3>2. \/ UNCHANGED etcd
          \/ \E m \in Names, k \in {"store", "deployment"} : \E obj : Write(m, k, obj)
      BY <1>4, <2>3 DEF UserNext, CreateStore, EditStore, DeleteStore, ScaleDeployment,
                        ToggleSecret
    <3>3. CASE UNCHANGED etcd
      BY <1>2, <2>1, <3>3
    <3>4. ASSUME NEW m \in Names, NEW k \in {"store", "deployment"}, NEW obj, Write(m, k, obj)
          PROVE  Unmarked(n)
      <4>1. etcd' = [etcd EXCEPT ![m][k] = obj]
        BY <3>4 DEF Write
      <4>2. etcd'[n]["configMap"] = etcd[n]["configMap"]
        BY <1>1, <4>1 DEF ObjectsType
      <4>3. QED
        BY <2>1, <4>2 DEF Unmarked, Owner
    <3>5. QED
      BY <3>2, <3>3, <3>4
  <2>4. QED
    BY <2>2, <2>3
<1>5. CASE ClusterNext
  <2>1. UNCHANGED applied
    BY <1>5 DEF ClusterNext, CollectGarbage, Rollout
  <2>2. ASSUME NEW m \in Names, NEW k \in Kinds, CollectGarbage(m, k)
        PROVE  Unmarked(n)
    <3>1. Write(m, k, Gone) /\ Gone \in ObjectsOf(k) /\ Orphan(m, k)
      BY <2>2 DEF CollectGarbage, ObjectsOf
    <3>2. QED
      BY <1>3, <2>1, <3>1
  <2>3. ASSUME NEW m \in Names, Rollout(m)
        PROVE  Unmarked(n)
    <3>1. \E obj : etcd' = [etcd EXCEPT ![m]["deployment"] = obj]
      BY <2>3 DEF Rollout, Write
    <3>2. etcd'[n]["configMap"] = etcd[n]["configMap"]
      BY <1>1, <3>1 DEF ObjectsType
    <3>3. QED
      BY <2>1, <3>2 DEF Unmarked, Owner
  <2>4. QED
    BY <1>5, <2>2, <2>3 DEF ClusterNext
<1>6. ASSUME NEW w \in Workers, SyncHandler(w)
      PROVE  Unmarked(n) \/ Marked(n, w)
  <2>1. step[w] # "idle" /\ job[w] \in Names /\ copy[w] \in Stores
    BY <1>1, <1>6, SyncMoves DEF WorkersType
  <2>2. CASE SyncConfigMap(w)
    <3>1. (NoWrite /\ UNCHANGED applied) \/ WriteConfigMap(w)
      BY <2>2 DEF SyncConfigMap, CreateConfigMap, UpdateConfigMap, KeepConfigMap
    <3>2. CASE NoWrite /\ UNCHANGED applied
      BY <1>2, <3>2 DEF NoWrite
    <3>3. CASE WriteConfigMap(w)
      <4>1. /\ NewConfigMap(copy[w]) \in ConfigMaps
            /\ NewConfigMap(copy[w]).owner = copy[w].uid
        BY <2>1, NewObjects DEF NewConfigMap
      <4>2. /\ NewConfigMap(copy[w]) # Gone
            /\ NewConfigMap(copy[w]) \in ObjectsOf("configMap")
        BY <4>1, ConfigAssumption DEF ObjectsOf
      <4>3. Write(job[w], "configMap", NewConfigMap(copy[w]))
            /\ applied' = [applied EXCEPT ![job[w]] = copy[w].version]
        BY <3>3 DEF WriteConfigMap
      <4>4. Owner(n)' = IF n = job[w] THEN copy[w].uid ELSE Owner(n)
        BY <1>1, <2>1, <4>1, <4>2, <4>3, OwnerAfter
      <4>5. CASE n = job[w]
        BY <1>1, <2>1, <4>3, <4>4, <4>5 DEF Marked, Active
      <4>6. CASE n # job[w]
        BY <1>1, <4>3, <4>4, <4>6 DEF Unmarked
      <4>7. QED
        BY <4>5, <4>6
    <3>4. QED
      BY <3>1, <3>2, <3>3
  <2>3. CASE CheckSecretExistence(w)
    BY <1>2, <2>3 DEF CheckSecretExistence, NoWrite
  <2>4. CASE SyncDeployment(w) \/ UpdateStoreStatus(w)
    <3>1. /\ UNCHANGED applied
          /\ \/ UNCHANGED etcd
             \/ \E k \in {"store", "deployment"} : \E obj : Write(job[w], k, obj)
      BY <2>4 DEF SyncDeployment, CreateDeployment, UpdateDeployment, KeepDeployment,
                  WriteDeployment, UpdateStoreStatus, NoWrite
    <3>2. ASSUME NEW k \in {"store", "deployment"}, NEW obj, Write(job[w], k, obj)
          PROVE  Unmarked(n)
      <4>1. etcd' = [etcd EXCEPT ![job[w]][k] = obj]
        BY <3>2 DEF Write
      <4>2. etcd'[n]["configMap"] = etcd[n]["configMap"]
        BY <1>1, <2>1, <4>1 DEF ObjectsType
      <4>3. QED
        BY <3>1, <4>2 DEF Unmarked, Owner
    <3>3. QED
      BY <1>2, <3>1, <3>2
  <2>5. QED
    BY <1>6, <2>2, <2>3, <2>4 DEF SyncHandler
<1>7. CASE \/ UNCHANGED vars
           \/ Restart
           \/ \E m \in Names : \/ Resync(m) \/ RetryDue(m) \/ \E k \in Kinds : Deliver(m, k)
                              \/ \E w \in Workers : Take(w, m)
  BY <1>2, <1>7 DEF vars, cluster, Restart, Resync, RetryDue, Deliver, Take
<1>8. QED
  BY <1>4, <1>5, <1>6, <1>7 DEF Next, ControllerNext

LEMMA LowerIsLow ==
  ASSUME NEW line \in Lines, NEW uid \in Nat, NEW version \in Nat, Low(uid, version, line)
  PROVE  Low(Other, version, line)
<1>1. \A s \in Known : NotAfter(uid, version, s) => NotAfter(Other, version, s)
  BY KnownNumbers DEF NotAfter, Other
<1>2. /\ line.cached \in Known /\ line.stored \in Known /\ line.given \in Nat
      /\ \A i \in 1 .. Len(line.sent) : line.sent[i] \in Known
  BY DEF Lines
<1>3. QED
  BY <1>1, <1>2 DEF Low, Other

LEMMA OwnerType ==
  ASSUME ObjectsType, NEW n \in Names
  PROVE  Owner(n) \in Nat
BY ObjectKinds DEF Owner, Other, ConfigMaps, Owners

(* Names stay apart.                                                         *)
LEMMA NextExclusive ==
  ASSUME TypeOK, Chain, [Next]_vars,
         NEW v \in Workers, NEW w \in Workers, Active(v)', Active(w)', v # w
  PROVE  job'[v] # job'[w]
<1>1. Active(v) /\ Active(w) => job[v] # job[w]
  BY DEF Chain
<1>2. CASE Active(v) /\ job'[v] = job[v] /\ Active(w) /\ job'[w] = job[w]
  BY <1>1, <1>2
<1>3. CASE ~Active(v)
  BY <1>3, WorkerStep
<1>4. CASE ~Active(w)
  BY <1>4, WorkerStep
<1>5. QED
  BY <1>2, <1>3, <1>4, WorkerStep

LEMMA NextLow ==
  ASSUME TypeOK, TypeOK', Chain, [Next]_vars, NEW n \in Names
  PROVE  Ordered(Line(n)') /\ Low(Owner(n)', applied'[n], Line(n)')
<1>1. /\ Line(n) \in Lines /\ Line(n)' \in Lines /\ Moves(Line(n), Line(n)')
      /\ Ordered(Line(n)) /\ Low(Owner(n), applied[n], Line(n))
  BY LineType, LineMoves DEF Chain
<1>2. Owner(n) \in Nat /\ applied[n] \in Nat
  BY OwnerType DEF TypeOK
<1>3. Ordered(Line(n)')
  BY <1>1, OrderedKept
<1>4. CASE Unmarked(n)
  <2>1. Low(Owner(n), applied[n], Line(n)')
    BY <1>1, <1>2, LowKept
  <2>2. Low(Other, applied[n], Line(n)')
    BY <1>1, <1>2, <2>1, LowerIsLow
  <2>3. QED
    BY <1>3, <1>4, <2>1, <2>2 DEF Unmarked
<1>5. ASSUME NEW w \in Workers, Marked(n, w)
      PROVE  Low(Owner(n)', applied'[n], Line(n)')
  <2>1. /\ Low(copy[w].uid, copy[w].version, Line(n))
        /\ copy[w].uid \in Nat /\ copy[w].version \in Nat
    BY <1>5 DEF Marked, Active, Chain, TypeOK, WorkersType, Stores
  <2>2. Low(copy[w].uid, copy[w].version, Line(n)')
    BY <1>1, <2>1, LowKept
  <2>3. QED
    BY <1>5, <2>2 DEF Marked
<1>6. QED
  BY <1>3, <1>4, <1>5, MarkStep

LEMMA NextTaken ==
  ASSUME TypeOK, TypeOK', Chain, [Next]_vars,
         NEW n \in Names, NEW w \in Workers, Active(w)', job'[w] = n
  PROVE  /\ Low(copy'[w].uid, copy'[w].version, Line(n)')
         /\ NotAfter(Owner(n)', applied'[n], copy'[w])
<1>1. n \in Names /\ copy'[w] \in Stores
  BY DEF TypeOK, WorkersType, Active
<1>2. /\ Line(n) \in Lines /\ Line(n)' \in Lines /\ Moves(Line(n), Line(n)')
      /\ Ordered(Line(n)) /\ Low(Owner(n), applied[n], Line(n))
  BY <1>1, LineType, LineMoves DEF Chain
<1>3. copy'[w].uid \in Nat /\ copy'[w].version \in Nat
  BY <1>1 DEF Stores
<1>4. Owner(n) \in Nat /\ applied[n] \in Nat
  BY <1>1, OwnerType DEF TypeOK
<1>5. CASE Active(w) /\ n = job[w] /\ copy'[w] = copy[w]
  <2>1. /\ Low(copy[w].uid, copy[w].version, Line(n))
        /\ NotAfter(Owner(n), applied[n], copy[w])
    BY <1>5 DEF Chain
  <2>2. Low(copy'[w].uid, copy'[w].version, Line(n)')
    BY <1>2, <1>3, <1>5, <2>1, LowKept
  <2>3. ASSUME Unmarked(n)
        PROVE  NotAfter(Owner(n)', applied'[n], copy'[w])
    BY <1>3, <1>4, <1>5, <2>1, <2>3 DEF Unmarked, NotAfter, Other
  <2>4. ASSUME NEW v \in Workers, Marked(n, v)
        PROVE  NotAfter(Owner(n)', applied'[n], copy'[w])
    <3>1. v = w
      BY <1>5, <2>4 DEF Marked, Chain
    <3>2. QED
      BY <1>3, <1>5, <2>4, <3>1 DEF Marked, NotAfter
  <2>5. QED
    BY <1>1, <2>2, <2>3, <2>4, MarkStep
<1>6. CASE /\ ~Active(w)
           /\ copy'[w] = cache[n]["store"]
           /\ \A v \in Workers : Active(v) => job[v] # n
           /\ UNCHANGED <<cluster, informers, applied>>
  <2>1. Line(n).cached = copy'[w] /\ copy'[w] # Gone
    BY <1>1, <1>6, ConfigAssumption DEF Line
  <2>2. /\ Low(copy'[w].uid, copy'[w].version, Line(n))
        /\ NotAfter(Owner(n), applied[n], copy'[w])
    BY <1>2, <2>1 DEF Ordered, Low
  <2>3. Low(copy'[w].uid, copy'[w].version, Line(n)')
    BY <1>2, <1>3, <2>2, LowKept
  <2>4. Owner(n)' = Owner(n) /\ applied'[n] = applied[n]
    BY <1>6 DEF cluster, Owner
  <2>5. QED
    BY <2>2, <2>3, <2>4
<1>7. QED
  BY <1>5, <1>6, WorkerStep

LEMMA NextChain == TypeOK /\ Chain /\ [Next]_vars => Chain'
<1> SUFFICES ASSUME TypeOK, Chain, [Next]_vars
             PROVE  Chain'
  OBVIOUS
<1>1. TypeOK'
  BY NextType
<1>2. \A v, w \in Workers : Active(v)' /\ Active(w)' /\ v # w => job'[v] # job'[w]
  BY NextExclusive
<1>3. \A n \in Names : Ordered(Line(n)') /\ Low(Owner(n)', applied'[n], Line(n)')
  BY <1>1, NextLow
<1>4. \A n \in Names, w \in Workers : Active(w)' /\ job'[w] = n =>
        /\ Low(copy'[w].uid, copy'[w].version, Line(n)')
        /\ NotAfter(Owner(n)', applied'[n], copy'[w])
  BY <1>1, NextTaken
<1>5. QED
  BY <1>2, <1>3, <1>4 DEF Chain, Line, Owner, Active

LEMMA ChainHolds == Spec => []Chain
<1>1. Init => Chain
  <2> SUFFICES ASSUME Init PROVE Chain
    OBVIOUS
  <2>1. ASSUME NEW n \in Names
        PROVE  /\ Line(n) = [cached |-> Gone, sent |-> <<>>, stored |-> Gone, given |-> 0]
               /\ Owner(n) = 0 /\ applied[n] = 0
    BY DEF Init, Line, Owner, Other, Kinds
  <2>2. ASSUME NEW n \in Names
        PROVE  Ordered(Line(n)) /\ Low(Owner(n), applied[n], Line(n))
    BY <2>1 DEF Ordered, Low, NotAfter
  <2>3. \A w \in Workers : ~Active(w)
    BY DEF Init, Active
  <2>4. QED
    BY <2>2, <2>3 DEF Chain
<1>2. QED
  BY <1>1, TypeCorrect, NextChain, PTL DEF Spec

(* No ConfigMap is ever written from an older version of its Store than the  *)
(* one it was last written from, however late the caches are, whoever edits  *)
(* and makes Stores anew, whatever fails, and however often controllers      *)
(* restart: the versions in Chain only grow.                                 *)
THEOREM NoRollbackHolds == Spec => NoRollback
<1>1. ASSUME TypeOK, Chain, [Next]_vars, NEW n \in Names
      PROVE  applied'[n] >= applied[n]
  <2>1. applied[n] \in Nat
    BY <1>1 DEF TypeOK
  <2>2. ASSUME NEW w \in Workers, Marked(n, w)
        PROVE  applied'[n] >= applied[n]
    <3>1. copy[w] \in Stores /\ NotAfter(Owner(n), applied[n], copy[w])
      BY <1>1, <2>2 DEF Marked, Active, Chain, TypeOK, WorkersType
    <3>2. copy[w] # Gone /\ copy[w].version \in Nat
      BY <3>1, ConfigAssumption DEF Stores
    <3>3. QED
      BY <2>1, <2>2, <3>1, <3>2 DEF Marked, NotAfter
  <2>3. QED
    BY <1>1, <2>1, <2>2, MarkStep DEF Unmarked
<1>2. TypeOK /\ Chain /\ [Next]_vars => [\A n \in Names : applied'[n] >= applied[n]]_vars
  BY <1>1
<1>3. QED
  BY <1>2, TypeCorrect, ChainHolds, PTL DEF Spec, NoRollback

------------------------------------------------------------------------------
(* ConfigMaps and the pods that mount them.                                  *)

(* A ConfigMap that exists has a Store that is safe: its own.                *)
LEMMA StoredSafe ==
  ASSUME NEW n \in Names
  PROVE  /\ TypeOK /\ Chain /\ etcd[n]["configMap"] # Gone =>
              Safe(n, etcd[n]["configMap"].owner)
         /\ (TypeOK /\ Chain)' /\ etcd'[n]["configMap"] # Gone =>
              SafeNext(n, etcd'[n]["configMap"].owner)
<1>1. TypeOK /\ Chain /\ etcd[n]["configMap"] # Gone => Safe(n, etcd[n]["configMap"].owner)
  BY DEF Chain, Low, Line, Owner, Safe, SafeIn
<1>2. (TypeOK /\ Chain)' /\ etcd'[n]["configMap"] # Gone =>
        SafeNext(n, etcd'[n]["configMap"].owner)
  BY DEF Chain, Low, Line, Owner, SafeNext, SafeIn
<1>3. QED
  BY <1>1, <1>2

(* The Store that is stored changes its UID only for one never given out.    *)
LEMMA UidStep ==
  ASSUME TypeOK, TypeOK', [Next]_vars, NEW n \in Names, NEW uid \in Nat,
         uid <= revision[n]
  PROVE  /\ uid <= revision'[n]
         /\ etcd'[n]["store"] # Gone /\ etcd'[n]["store"].uid = uid =>
              etcd[n]["store"] # Gone /\ etcd[n]["store"].uid = uid
<1>1. /\ Line(n) \in Lines /\ Line(n)' \in Lines /\ Moves(Line(n), Line(n)')
  BY LineType, LineMoves
<1>2. /\ Line(n).stored = etcd[n]["store"] /\ Line(n).given = revision[n]
      /\ Line(n)'.stored = etcd'[n]["store"] /\ Line(n)'.given = revision'[n]
  BY DEF Line
<1>3. revision[n] \in Nat /\ revision'[n] \in Nat
  BY DEF TypeOK
<1>4. QED
  BY <1>1, <1>2, <1>3 DEF Moves, NextStore

(* A Store that is safe stays so: its ConfigMap is no garbage, and who       *)
(* writes a ConfigMap has read no older Store.                               *)
LEMMA SafeKept ==
  ASSUME TypeOK, Chain, [Next]_vars, "meddle" \notin Users,
         NEW n \in Names, NEW uid \in Nat, Safe(n, uid)
  PROVE  SafeNext(n, uid)
<1>1. TypeOK'
  BY NextType
<1>2. /\ uid <= revision'[n]
      /\ etcd'[n]["store"] # Gone /\ etcd'[n]["store"].uid = uid =>
           etcd[n]["store"] # Gone /\ etcd[n]["store"].uid = uid
  BY <1>1, UidStep DEF Safe, SafeIn
<1>3. ASSUME etcd'[n]["store"] # Gone, etcd'[n]["store"].uid = uid
      PROVE  etcd'[n]["configMap"] # Gone /\ etcd'[n]["configMap"].owner = uid
  <2>1. /\ etcd[n]["store"] # Gone /\ etcd[n]["store"].uid = uid
        /\ etcd[n]["configMap"] # Gone /\ etcd[n]["configMap"].owner = uid
    BY <1>2, <1>3 DEF Safe, SafeIn
  <2>2. uid # Other /\ Owner(n) = uid
    BY <2>1, ObjectKinds DEF TypeOK, Stores, Owner
  <2>3. Owner(n)' = uid
    <3>1. CASE Unmarked(n)
      BY <2>1, <2>2, <3>1 DEF Unmarked, Orphan
    <3>2. ASSUME NEW w \in Workers, Marked(n, w)
          PROVE  Owner(n)' = uid
      <4>1. /\ Low(copy[w].uid, copy[w].version, Line(n)) /\ copy[w] \in Stores
            /\ NotAfter(Owner(n), applied[n], copy[w])
        BY <3>2 DEF Marked, Chain, Active, TypeOK, WorkersType
      <4>2. copy[w] # Gone /\ copy[w].uid \in Nat
        BY <4>1, ConfigAssumption DEF Stores
      <4>3. copy[w].uid <= uid
        BY <2>1, <4>1 DEF Low, Line, NotAfter
      <4>4. uid <= copy[w].uid
        BY <2>2, <4>1, <4>2 DEF NotAfter
      <4>5. QED
        BY <3>2, <4>2, <4>3, <4>4 DEF Marked
    <3>3. QED
      BY <3>1, <3>2, MarkStep
  <2>4. QED
    BY <2>2, <2>3 DEF Owner
<1>4. QED
  BY <1>2, <1>3 DEF SafeNext, SafeIn

(* What a worker writes of a Deployment, and what others leave of it.        *)
LEMMA DeploymentStep ==
  ASSUME TypeOK, [Next]_vars, NEW n \in Names, etcd'[n]["deployment"] # Gone
  PROVE  \/ /\ etcd[n]["deployment"] # Gone
            /\ etcd'[n]["deployment"].owner = etcd[n]["deployment"].owner
         \/ \E w \in Workers : /\ Active(w) /\ job[w] = n /\ step[w] = "deployment"
                              /\ etcd'[n]["deployment"].owner = copy[w].uid
<1>1. ObjectsType /\ WorkersType /\ "deployment" \in Kinds
  BY DEF TypeOK, Kinds
<1>2. CASE etcd'[n]["deployment"] = etcd[n]["deployment"]
  BY <1>2
<1>3. ASSUME NEW m \in Names, NEW k \in {"store", "configMap"}, NEW obj, Write(m, k, obj)
      PROVE  etcd'[n]["deployment"] = etcd[n]["deployment"]
  <2>1. etcd' = [etcd EXCEPT ![m][k] = obj]
    BY <1>3 DEF Write
  <2>2. QED
    BY <1>1, <2>1 DEF ObjectsType
<1>4. ASSUME NEW m \in Names, NEW obj, Write(m, "deployment", obj)
      PROVE  etcd'[n]["deployment"] = IF n = m THEN obj ELSE etcd[n]["deployment"]
  <2>1. etcd' = [etcd EXCEPT ![m]["deployment"] = obj]
    BY <1>4 DEF Write
  <2>2. QED
    BY <1>1, <2>1 DEF ObjectsType
<1>5. CASE UserNext
  <2>1. ASSUME NEW m \in Names, ScaleDeployment(m)
        PROVE  /\ etcd[n]["deployment"] # Gone
               /\ etcd'[n]["deployment"].owner = etcd[n]["deployment"].owner
    <3>1. PICK s \in Specs :
            Write(m, "deployment", [etcd[m]["deployment"] EXCEPT !.replicas = s.replicas])
      BY <2>1 DEF ScaleDeployment
    <3>2. etcd[m]["deployment"] \in Deployments /\ etcd[m]["deployment"] # Gone
      BY <1>1, <2>1, ObjectKinds DEF ScaleDeployment
    <3>3. [etcd[m]["deployment"] EXCEPT !.replicas = s.replicas].owner
            = etcd[m]["deployment"].owner
      BY <3>2 DEF Deployments
    <3>4. CASE n = m
      BY <1>4, <3>1, <3>2, <3>3, <3>4
    <3>5. CASE n # m
      BY <1>4, <3>1, <3>5
    <3>6. QED
      BY <3>4, <3>5
  <2>2. CASE ~\E m \in Names : ScaleDeployment(m)
    <3>1. \/ UNCHANGED etcd
          \/ \E m \in Names, k \in {"store", "configMap"} : \E obj : Write(m, k, obj)
      BY <1>5, <2>2 DEF UserNext, CreateStore, EditStore, DeleteStore, MeddleConfigMap,
                        ToggleSecret
    <3>2. QED
      BY <1>2, <1>3, <3>1
  <2>3. QED
    BY <2>1, <2>2
<1>6. CASE ClusterNext
  <2>1. ASSUME NEW m \in Names, NEW k \in Kinds, CollectGarbage(m, k)
        PROVE  etcd'[n]["deployment"] = etcd[n]["deployment"]
    <3>1. Write(m, k, Gone)
      BY <2>1 DEF CollectGarbage
    <3>2. CASE k = "deployment"
      BY <1>4, <3>1, <3>2
    <3>3. CASE k # "deployment"
      BY <1>3, <3>1, <3>3 DEF Kinds
    <3>4. QED
      BY <3>2, <3>3
  <2>2. ASSUME NEW m \in Names, Rollout(m)
        PROVE  /\ etcd[n]["deployment"] # Gone
               /\ etcd'[n]["deployment"].owner = etcd[n]["deployment"].owner
    <3> DEFINE d == etcd[m]["deployment"]
    <3>1. Write(m, "deployment", [d EXCEPT !.available = d.replicas]) /\ d # Gone
      BY <2>2 DEF Rollout
    <3>2. d \in Deployments
      BY <1>1, <3>1, ObjectKinds
    <3>3. [d EXCEPT !.available = d.replicas].owner = d.owner
      BY <3>2 DEF Deployments
    <3>4. CASE n = m
      BY <1>4, <3>1, <3>3, <3>4
    <3>5. CASE n # m
      BY <1>4, <3>1, <3>5
    <3>6. QED
      BY <3>4, <3>5
  <2>3. QED
    BY <1>2, <1>6, <2>1, <2>2 DEF ClusterNext
<1>7. ASSUME NEW w \in Workers, SyncHandler(w)
      PROVE  \/ etcd'[n]["deployment"] = etcd[n]["deployment"]
             \/ /\ Active(w) /\ job[w] = n /\ step[w] = "deployment"
                /\ etcd'[n]["deployment"].owner = copy[w].uid
  <2>1. step[w] # "idle" /\ job[w] \in Names
    BY <1>1, <1>7, SyncMoves DEF WorkersType
  <2>2. CASE SyncDeployment(w)
    <3>1. \/ NoWrite
          \/ \E available : Write(job[w], "deployment", NewDeployment(copy[w], available))
      BY <2>2 DEF SyncDeployment, CreateDeployment, UpdateDeployment, KeepDeployment,
                  WriteDeployment
    <3>2. step[w] = "deployment"
      BY <2>2 DEF SyncDeployment
    <3>3. \A available : NewDeployment(copy[w], available).owner = copy[w].uid
      BY DEF NewDeployment
    <3>4. QED
      BY <1>4, <2>1, <3>1, <3>2, <3>3 DEF NoWrite, Active
  <2>3. CASE SyncConfigMap(w) \/ CheckSecretExistence(w) \/ UpdateStoreStatus(w)
    <3>1. \/ UNCHANGED etcd
          \/ \E k \in {"store", "configMap"} : \E obj : Write(job[w], k, obj)
      BY <2>3 DEF SyncConfigMap, CreateConfigMap, UpdateConfigMap, KeepConfigMap,
                  WriteConfigMap, CheckSecretExistence, UpdateStoreStatus, NoWrite
    <3>2. QED
      BY <1>3, <2>1, <3>1
  <2>4. QED
    BY <1>7, <2>2, <2>3 DEF SyncHandler
<1>8. CASE \/ UNCHANGED vars
           \/ Restart
           \/ \E m \in Names : \/ Resync(m) \/ RetryDue(m) \/ \E k \in Kinds : Deliver(m, k)
                              \/ \E w \in Workers : Take(w, m)
  BY <1>2, <1>8 DEF vars, cluster, Restart, Resync, RetryDue, Deliver, Take
<1>9. QED
  BY <1>2, <1>5, <1>6, <1>7, <1>8 DEF Next, ControllerNext

(* What a queue holds once its head is taken.                                *)
LEMMA TailShifts ==
  ASSUME NEW S, NEW q \in Seq(S), q # <<>>
  PROVE  /\ Head(q) = q[1] /\ Len(q) \in Nat \ {0}
         /\ \A i \in 1 .. Len(Tail(q)) : i + 1 \in 1 .. Len(q) /\ Tail(q)[i] = q[i + 1]
  OBVIOUS

(* What may be known of a ConfigMap was known, or is stored.                 *)
LEMMA KnownStep ==
  ASSUME TypeOK, [Next]_vars, NEW n \in Names
  PROVE  LET sent == watch[n]["configMap"]
             before == {cache[n]["configMap"]} \cup {sent[i] : i \in 1 .. Len(sent)}
         IN /\ cache'[n]["configMap"] \in before \cup {etcd'[n]["configMap"]}
            /\ \A i \in 1 .. Len(watch'[n]["configMap"]) :
                 watch'[n]["configMap"][i] \in before \cup {etcd'[n]["configMap"]}
<1> DEFINE sent == watch[n]["configMap"]
           before == {cache[n]["configMap"]} \cup {sent[i] : i \in 1 .. Len(sent)}
           Goal == /\ cache'[n]["configMap"] \in before \cup {etcd'[n]["configMap"]}
                   /\ \A i \in 1 .. Len(watch'[n]["configMap"]) :
                        watch'[n]["configMap"][i] \in before \cup {etcd'[n]["configMap"]}
<1>1. /\ ObjectsType /\ "configMap" \in Kinds
      /\ sent \in Seq(ObjectsOf("configMap"))
  BY DEF TypeOK, ObjectsType, Kinds
<1>2. CASE Untouched
  BY <1>2 DEF Untouched
<1>3. ASSUME NEW m \in Names, NEW k \in Kinds, NEW obj \in ObjectsOf(k),
             Write(m, k, obj), UNCHANGED cache
      PROVE  Goal
  <2>1. /\ etcd'[m][k] = obj
        /\ watch'[m][k] = watch[m][k] \/ watch'[m][k] = Send(watch[m][k], obj)
        /\ m # n \/ k # "configMap" => watch'[n]["configMap"] = sent
    BY <1>1, <1>3, WriteEffect
  <2>2. CASE watch'[n]["configMap"] = sent
    BY <1>3, <2>2
  <2>3. CASE m = n /\ k = "configMap" /\ watch'[n]["configMap"] = Send(sent, obj)
    <3>1. obj \in ObjectsOf("configMap") /\ obj = etcd'[n]["configMap"]
      BY <1>3, <2>1, <2>3
    <3>2. Extends(sent, watch'[n]["configMap"], obj)
      <4> HIDE DEF sent
      <4>1. QED
        BY <1>1, <2>3, <3>1, SendExtends
    <3>3. ASSUME NEW i \in 1 .. Len(watch'[n]["configMap"])
          PROVE  watch'[n]["configMap"][i] \in before \cup {etcd'[n]["configMap"]}
      <4>1. CASE i = Len(watch'[n]["configMap"])
        BY <3>1, <3>2, <4>1 DEF Extends
      <4>2. CASE i < Len(watch'[n]["configMap"])
        BY <3>2, <4>2 DEF Extends
      <4>3. QED
        BY <3>2, <4>1, <4>2 DEF Extends
    <3>4. QED
      BY <1>3, <3>3
  <2>4. QED
    BY <2>1, <2>2, <2>3
<1>4. CASE StoreWrites
  BY <1>3, <1>4 DEF StoreWrites, Kinds
<1>5. CASE OtherWrites
  BY <1>3, <1>5 DEF OtherWrites
<1>6. ASSUME NEW m \in Names, NEW k \in Kinds, Deliver(m, k)
      PROVE  Goal
  <2>1. DeliverEffect(m, k)
    BY <1>1, <1>6, Delivered
  <2>2. CASE m = n /\ k = "configMap"
    <3>1. /\ cache'[n]["configMap"] = sent[1] /\ Len(sent) \in Nat \ {0}
          /\ \A i \in 1 .. Len(watch'[n]["configMap"]) :
               i + 1 \in 1 .. Len(sent) /\ watch'[n]["configMap"][i] = sent[i + 1]
      <4>1. /\ sent # <<>> /\ cache'[n]["configMap"] = Head(sent)
            /\ watch'[n]["configMap"] = Tail(sent)
        BY <2>1, <2>2 DEF DeliverEffect
      <4> HIDE DEF sent
      <4>2. QED
        BY <1>1, <4>1, TailShifts
    <3>2. QED
      BY <3>1
  <2>3. CASE m # n \/ k # "configMap"
    BY <1>1, <2>1, <2>3 DEF DeliverEffect
  <2>4. QED
    BY <2>2, <2>3
<1>7. CASE Restart
  <2>1. cache' = etcd' /\ watch'[n]["configMap"] = <<>>
    BY <1>1, <1>7 DEF Restart, cluster
  <2>2. QED
    BY <2>1
<1>8. QED
  BY <1>2, <1>4, <1>5, <1>6, <1>7, Effects

(* Who goes past the ConfigMap has found one of its own Store in the cache.  *)
LEMMA PastConfigMap ==
  ASSUME TypeOK, [Next]_vars, NEW w \in Workers,
         Active(w)', step'[w] \in {"secret", "deployment"}
  PROVE  /\ Active(w) /\ job'[w] = job[w] /\ copy'[w] = copy[w]
         /\ \/ step[w] \in {"secret", "deployment"}
            \/ /\ cache[job[w]]["configMap"] # Gone
               /\ cache[job[w]]["configMap"].owner = copy[w].uid
<1>1. ObjectsType /\ WorkersType
  BY DEF TypeOK
<1>2. Active(w) /\ job'[w] = job[w] /\ copy'[w] = copy[w]
  BY WorkerStep
<1>3. ~Requeue(w) /\ ~Done(w)
  BY <1>1 DEF Requeue, Done, WorkersType, Active
<1>4. CASE step[w] = "configMap"
  <2>1. SyncConfigMap(w)
    BY <1>2, <1>4, OwnStep
    DEF SyncHandler, CheckSecretExistence, SyncDeployment, UpdateStoreStatus
  <2>2. QED
    BY <1>2, <1>3, <2>1 DEF SyncConfigMap, CreateConfigMap, UpdateConfigMap, KeepConfigMap
<1>5. CASE step[w] = "status"
  <2>1. UpdateStoreStatus(w)
    BY <1>2, <1>5, OwnStep
    DEF SyncHandler, SyncConfigMap, CheckSecretExistence, SyncDeployment
  <2>2. Done(w) \/ Requeue(w)
    BY <2>1 DEF UpdateStoreStatus
  <2>3. QED
    BY <1>3, <2>2
<1>6. QED
  BY <1>1, <1>2, <1>4, <1>5 DEF WorkersType, Steps, Active

LEMMA NextMounting ==
  "meddle" \notin Users /\ TypeOK /\ Chain /\ Mounting /\ [Next]_vars => Mounting'
<1> SUFFICES ASSUME "meddle" \notin Users, TypeOK, Chain, Mounting, [Next]_vars,
                    NEW n \in Names
             PROVE  LET sent == watch'[n]["configMap"]
                    IN /\ cache'[n]["configMap"] # Gone =>
                            SafeNext(n, cache'[n]["configMap"].owner)
                       /\ \A i \in 1 .. Len(sent) :
                            sent[i] # Gone => SafeNext(n, sent[i].owner)
                       /\ etcd'[n]["deployment"] # Gone =>
                            SafeNext(n, etcd'[n]["deployment"].owner)
                       /\ \A w \in Workers :
                            Active(w)' /\ job'[w] = n /\ step'[w] \in {"secret", "deployment"}
                            => SafeNext(n, copy'[w].uid)
  BY DEF Mounting, Safe, SafeNext, Active
<1> DEFINE sent == watch[n]["configMap"]
           before == {cache[n]["configMap"]} \cup {sent[i] : i \in 1 .. Len(sent)}
<1>1. ObjectsType /\ WorkersType /\ (TypeOK /\ Chain)'
  BY NextType, NextChain DEF TypeOK
<1>2. ASSUME NEW c \in before \cup {etcd'[n]["configMap"]}, c # Gone
      PROVE  SafeNext(n, c.owner)
  <2>1. CASE c \in before
    <3>1. Safe(n, c.owner)
      BY <1>2, <2>1 DEF Mounting
    <3>2. c \in ConfigMaps
      <4>1. sent \in Seq(ObjectsOf("configMap"))
        BY <1>1 DEF ObjectsType, Kinds
      <4>2. c \in ObjectsOf("configMap")
        BY <1>1, <2>1, <4>1 DEF ObjectsType, Kinds
      <4>3. QED
        BY <1>2, <4>2 DEF ObjectsOf
    <3>3. c.owner \in Nat
      BY <3>2 DEF ConfigMaps, Owners
    <3>4. QED
      BY <3>1, <3>3, SafeKept
  <2>2. CASE c = etcd'[n]["configMap"]
    BY <1>1, <1>2, <2>2, StoredSafe
  <2>3. QED
    BY <2>1, <2>2
<1>3. /\ cache'[n]["configMap"] # Gone => SafeNext(n, cache'[n]["configMap"].owner)
      /\ \A i \in 1 .. Len(watch'[n]["configMap"]) :
           watch'[n]["configMap"][i] # Gone => SafeNext(n, watch'[n]["configMap"][i].owner)
  BY <1>2, KnownStep
<1>4. ASSUME NEW w \in Workers, Active(w), job[w] = n, step[w] \in {"secret", "deployment"}
      PROVE  SafeNext(n, copy[w].uid)
  <2>1. Safe(n, copy[w].uid) /\ copy[w].uid \in Nat
    BY <1>1, <1>4 DEF Mounting, Active, WorkersType, Stores
  <2>2. QED
    BY <2>1, SafeKept
<1>5. ASSUME etcd'[n]["deployment"] # Gone
      PROVE  SafeNext(n, etcd'[n]["deployment"].owner)
  <2>1. CASE /\ etcd[n]["deployment"] # Gone
             /\ etcd'[n]["deployment"].owner = etcd[n]["deployment"].owner
    <3>1. /\ Safe(n, etcd[n]["deployment"].owner)
          /\ etcd[n]["deployment"].owner \in Nat
      BY <1>1, <2>1, ObjectKinds DEF Mounting, Deployments, Owners
    <3>2. SafeNext(n, etcd[n]["deployment"].owner)
      BY <3>1, SafeKept
    <3>3. QED
      BY <2>1, <3>2
  <2>2. ASSUME NEW w \in Workers, Active(w), job[w] = n, step[w] = "deployment",
               etcd'[n]["deployment"].owner = copy[w].uid
        PROVE  SafeNext(n, etcd'[n]["deployment"].owner)
    BY <1>4, <2>2
  <2>3. QED
    BY <1>5, <2>1, <2>2, DeploymentStep
<1>6. ASSUME NEW w \in Workers, Active(w)', job'[w] = n, step'[w] \in {"secret", "deployment"}
      PROVE  SafeNext(n, copy'[w].uid)
  <2>1. /\ Active(w) /\ job[w] = n /\ copy'[w] = copy[w]
        /\ \/ step[w] \in {"secret", "deployment"}
           \/ /\ cache[n]["configMap"] # Gone
              /\ cache[n]["configMap"].owner = copy[w].uid
    BY <1>6, PastConfigMap
  <2>2. CASE step[w] \in {"secret", "deployment"}
    BY <1>4, <2>1, <2>2
  <2>3. CASE cache[n]["configMap"] # Gone /\ cache[n]["configMap"].owner = copy[w].uid
    <3>1. SafeNext(n, cache[n]["configMap"].owner)
      BY <1>2, <2>3
    <3>2. QED
      BY <2>1, <2>3, <3>1
  <2>4. QED
    BY <2>1, <2>2, <2>3
<1>7. QED
  BY <1>3, <1>5, <1>6

(* Where nobody but the controller writes ConfigMaps, a Deployment of the    *)
(* Store that is stored always has the ConfigMap of that Store to mount:     *)
(* for any number of workers, of deletions and re-creations, of failures and *)
(* restarts.                                                                 *)
THEOREM ConfigMapStaysMounted ==
  ASSUME "meddle" \notin Users
  PROVE  Spec => []ConfigMapMounted
<1>1. Init => Mounting
  <2>1. ASSUME Init, NEW n \in Names
        PROVE  /\ cache[n]["configMap"] = Gone /\ etcd[n]["deployment"] = Gone
               /\ watch[n]["configMap"] = <<>> /\ Len(watch[n]["configMap"]) = 0
               /\ \A w \in Workers : step[w] = "idle"
    BY <2>1 DEF Init, Kinds
  <2>2. ASSUME Init, NEW n \in Names
        PROVE  1 .. Len(watch[n]["configMap"]) = {}
    BY <2>1, <2>2
  <2>3. QED
    BY <2>1, <2>2 DEF Mounting, Active
<1>2. Mounting => ConfigMapMounted
  BY DEF Mounting, ConfigMapMounted, Safe, SafeIn
<1>3. TypeOK /\ Chain /\ Mounting /\ [Next]_vars => Mounting'
  BY NextMounting
<1>4. QED
  BY <1>1, <1>2, <1>3, TypeCorrect, ChainHolds, PTL DEF Spec
=============================================================================
