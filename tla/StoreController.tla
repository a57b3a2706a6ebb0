--------------------------- MODULE StoreController ---------------------------
(* The Kubernetes controller of TAMS stores (k8s-controller/pkg/controller). *)
(*                                                                           *)
(* Users write Stores, ConfigMaps and Deployments to the API server.  The    *)
(* informers of the controller receive every change in order, but late, and  *)
(* keep a cache; their handlers put the name of the Store concerned on a     *)
(* work queue.  A worker takes a name, reads the Store from the cache, and   *)
(* makes one call to the API server after the other, any of which may fail.  *)
(* A Store, its ConfigMap and its Deployment bear the same name.             *)
EXTENDS Integers, Sequences

CONSTANTS
  Names,       \* names of Stores
  Workers,     \* goroutines running runWorker
  Configs,     \* contents of config.json, made of a Store's specification
  Port,        \* config.json -> the server port it holds
  Secrets,     \* names of Secrets
  Specs,       \* the specifications users write
  Users,       \* what users do beside creating and editing Stores
  Gone,        \* an object that does not exist
  Nil,         \* a field of a specification that is left out
  MaxLag,      \* bound on the changes on their way to an informer
  MaxChanges,  \* bound on the changes users make
  MaxFaults,   \* bound on the calls to the API server that fail
  MaxCrashes   \* bound on the restarts of the controller

VARIABLES
  etcd,     \* name -> kind -> object: what the API server holds
  secrets,  \* the Secrets that exist
  revision, \* name -> the last resourceVersion given to a Store of that name
  running,  \* name -> the template and config.json the oldest pods started with
  cache,    \* name -> kind -> object: the informers' caches
  watch,    \* name -> kind -> the changes on their way to the informer
  dirty,    \* names on the work queue
  retry,    \* names waiting for their back-off to end
  step,     \* worker -> the call it makes next
  job,      \* worker -> the name it has taken
  copy,     \* worker -> the Store it read from the cache
  ready,    \* worker -> available replicas of the Deployment it synchronized
  applied,  \* name -> version of the Store its ConfigMap was last written from
  changes, faults, crashes

cluster == <<etcd, secrets, revision, running>>
informers == <<cache, watch>>
queue == <<dirty, retry>>
worker == <<step, job, copy, ready>>
bounds == <<changes, faults, crashes>>
vars == <<cluster, informers, queue, worker, applied, bounds>>

Kinds == {"store", "configMap", "deployment"}
Steps == {"idle", "configMap", "secret", "deployment", "status"}

(* An object is owned by the Store with that UID, or by someone else.        *)
Owners == Nat
Other == 0

SpecType == [config : Configs, replicas : Nat \cup {Nil}, secret : Secrets \cup {Nil}]
Template == [port : {Port[c] : c \in Configs}, secret : Secrets \cup {Nil}]

Stores == [uid : Nat \ {Other}, version : Nat, spec : SpecType, status : Nat]
ConfigMaps == [owner : Owners, config : Configs]
Deployments == [owner : Owners, replicas : Nat, template : Template, available : Nat]

ObjectsOf(k) ==
  {Gone} \cup CASE k = "store" -> Stores
              [] k = "configMap" -> ConfigMaps
              [] k = "deployment" -> Deployments

Objects == Stores \cup ConfigMaps \cup Deployments \cup {Gone}

ASSUME ConfigAssumption ==
  /\ Specs \subseteq SpecType
  /\ Users \subseteq {"delete", "secret", "scale", "meddle"}
  /\ Gone \notin Stores /\ Gone \notin ConfigMaps /\ Gone \notin Deployments
  /\ Nil \notin Nat /\ Nil \notin Secrets

ASSUME BoundAssumption ==
  MaxLag \in Nat \ {0} /\ MaxChanges \in Nat /\ MaxFaults \in Nat /\ MaxCrashes \in Nat

Init ==
  /\ etcd = [n \in Names |-> [k \in Kinds |-> Gone]]
  /\ secrets = Secrets
  /\ revision = [n \in Names |-> 0]
  /\ running = [n \in Names |-> Gone]
  /\ cache = [n \in Names |-> [k \in Kinds |-> Gone]]
  /\ watch = [n \in Names |-> [k \in Kinds |-> <<>>]]
  /\ dirty = {}
  /\ retry = {}
  /\ step = [w \in Workers |-> "idle"]
  /\ job = [w \in Workers |-> Gone]
  /\ copy = [w \in Workers |-> Gone]
  /\ ready = [w \in Workers |-> 0]
  /\ applied = [n \in Names |-> 0]
  /\ changes = 0
  /\ faults = 0
  /\ crashes = 0

(* A change is sent to an informer; one that is MaxLag changes behind lists  *)
(* anew and misses what lay between.                                         *)
Send(changesSent, obj) ==
  Append(IF Len(changesSent) < MaxLag THEN changesSent
         ELSE SubSeq(changesSent, 1, MaxLag - 1), obj)

(* The API server takes an object; a write that changes nothing is no event. *)
Write(n, k, obj) ==
  /\ etcd' = [etcd EXCEPT ![n][k] = obj]
  /\ watch' = IF etcd[n][k] = obj THEN watch
              ELSE [watch EXCEPT ![n][k] = Send(@, obj)]

------------------------------------------------------------------------------
(* Users, the garbage collector and the Deployment controller.               *)

UserStep ==
  /\ changes < MaxChanges
  /\ changes' = changes + 1
  /\ UNCHANGED <<cache, queue, worker, applied, running, faults, crashes>>

NextRevision(n) == revision' = [revision EXCEPT ![n] = @ + 1]

CreateStore(n) ==
  /\ etcd[n]["store"] = Gone
  /\ \E s \in Specs :
       Write(n, "store", [uid |-> revision[n] + 1, version |-> revision[n] + 1,
                          spec |-> s, status |-> 0])
  /\ NextRevision(n)
  /\ UNCHANGED secrets
  /\ UserStep

EditStore(n) ==
  /\ etcd[n]["store"] # Gone
  /\ \E s \in Specs \ {etcd[n]["store"].spec} :
       Write(n, "store", [etcd[n]["store"] EXCEPT !.spec = s, !.version = revision[n] + 1])
  /\ NextRevision(n)
  /\ UNCHANGED secrets
  /\ UserStep

DeleteStore(n) ==
  /\ "delete" \in Users
  /\ etcd[n]["store"] # Gone
  /\ Write(n, "store", Gone)
  /\ UNCHANGED <<secrets, revision>>
  /\ UserStep

ToggleSecret(s) ==
  /\ "secret" \in Users
  /\ secrets' = IF s \in secrets THEN secrets \ {s} ELSE secrets \cup {s}
  /\ UNCHANGED <<etcd, watch, revision>>
  /\ UserStep

ScaleDeployment(n) ==
  /\ "scale" \in Users
  /\ etcd[n]["deployment"] # Gone
  /\ \E s \in Specs : s.replicas # Nil
       /\ Write(n, "deployment", [etcd[n]["deployment"] EXCEPT !.replicas = s.replicas])
  /\ UNCHANGED <<secrets, revision>>
  /\ UserStep

(* Someone edits the ConfigMap, removes it, or makes one of their own.       *)
MeddleConfigMap(n) ==
  /\ "meddle" \in Users
  /\ LET current == etcd[n]["configMap"]
     IN IF current = Gone
        THEN \E c \in Configs : Write(n, "configMap", [owner |-> Other, config |-> c])
        ELSE \/ Write(n, "configMap", Gone)
             \/ \E c \in Configs \ {current.config} :
                  Write(n, "configMap", [current EXCEPT !.config = c])
  /\ UNCHANGED <<secrets, revision>>
  /\ UserStep

(* An object whose owner is gone is removed.                                 *)
Orphan(n, k) ==
  /\ etcd[n][k] # Gone
  /\ etcd[n][k].owner # Other
  /\ etcd[n]["store"] # Gone => etcd[n]["store"].uid # etcd[n][k].owner

CollectGarbage(n, k) ==
  /\ k # "store"
  /\ Orphan(n, k)
  /\ Write(n, k, Gone)
  /\ running' = IF k = "deployment" THEN [running EXCEPT ![n] = Gone] ELSE running
  /\ UNCHANGED <<secrets, revision, cache, queue, worker, applied, bounds>>

(* Pods are started anew when the template of the Deployment changes, and    *)
(* only then; config.json is mounted by subPath and read once, at startup.   *)
(* A pod starts once its ConfigMap and its Secret exist.                     *)
Rollout(n) ==
  LET d == etcd[n]["deployment"]
      current == running[n] # Gone /\ running[n].template = d.template
  IN /\ d # Gone
     /\ ~(current /\ d.available = d.replicas)
     /\ \/ current /\ d.replicas < d.available
        \/ etcd[n]["configMap"] # Gone /\ d.template.secret \in secrets \cup {Nil}
     /\ running' = IF current THEN running
                   ELSE [running EXCEPT ![n] = [template |-> d.template,
                                                config |-> etcd[n]["configMap"].config]]
     /\ Write(n, "deployment", [d EXCEPT !.available = d.replicas])
     /\ UNCHANGED <<secrets, revision, cache, queue, worker, applied, bounds>>

------------------------------------------------------------------------------
(* Informers and the work queue.                                             *)

(* handleObject: the Store named by the owner reference, if it is cached.    *)
HandleObject(n, obj) ==
  obj # Gone /\ obj.owner # Other /\ cache[n]["store"] # Gone

(* A change reaches the cache.  A Store that was deleted has no handler; of  *)
(* a ConfigMap or Deployment that was, the handler gets the last state.      *)
Deliver(n, k) ==
  /\ watch[n][k] # <<>>
  /\ LET old == cache[n][k]
         new == Head(watch[n][k])
         wake == IF k = "store" THEN new # Gone
                 ELSE HandleObject(n, IF new = Gone THEN old ELSE new)
     IN /\ cache' = [cache EXCEPT ![n][k] = new]
        /\ dirty' = IF wake THEN dirty \cup {n} ELSE dirty
  /\ watch' = [watch EXCEPT ![n][k] = Tail(@)]
  /\ UNCHANGED <<cluster, retry, worker, applied, bounds>>

(* Every 30 seconds the informer replays an update for each cached Store;    *)
(* those of unchanged ConfigMaps and Deployments are ignored.                *)
Resync(n) ==
  /\ cache[n]["store"] # Gone
  /\ dirty' = dirty \cup {n}
  /\ UNCHANGED <<cluster, informers, retry, worker, applied, bounds>>

RetryDue(n) ==
  /\ n \in retry
  /\ retry' = retry \ {n}
  /\ dirty' = dirty \cup {n}
  /\ UNCHANGED <<cluster, informers, worker, applied, bounds>>

(* A new controller lists every object before it starts its workers.         *)
Restart ==
  /\ crashes < MaxCrashes
  /\ crashes' = crashes + 1
  /\ cache' = etcd
  /\ watch' = [n \in Names |-> [k \in Kinds |-> <<>>]]
  /\ dirty' = {n \in Names : etcd[n]["store"] # Gone}
  /\ retry' = {}
  /\ step' = [w \in Workers |-> "idle"]
  /\ job' = [w \in Workers |-> Gone]
  /\ copy' = [w \in Workers |-> Gone]
  /\ ready' = [w \in Workers |-> 0]
  /\ UNCHANGED <<cluster, applied, changes, faults>>

------------------------------------------------------------------------------
(* processNextWorkItem and syncHandler.                                      *)

Busy == {job[w] : w \in {v \in Workers : step[v] # "idle"}}

(* Two ways to get this wrong: to hand out a name that another worker has,   *)
(* and to go on with a Store that is not in the cache.                       *)
TakeBusy(w, n) ==
  /\ step[w] = "idle"
  /\ n \in dirty
  /\ dirty' = dirty \ {n}
  /\ IF cache[n]["store"] = Gone
     THEN UNCHANGED worker
     ELSE /\ step' = [step EXCEPT ![w] = "configMap"]
          /\ job' = [job EXCEPT ![w] = n]
          /\ copy' = [copy EXCEPT ![w] = cache[n]["store"]]
          /\ UNCHANGED ready
  /\ UNCHANGED <<cluster, informers, retry, applied, bounds>>

TakeGone(w, n) ==
  /\ step[w] = "idle"
  /\ n \in dirty \ Busy
  /\ dirty' = dirty \ {n}
  /\ step' = [step EXCEPT ![w] = "configMap"]
  /\ job' = [job EXCEPT ![w] = n]
  /\ copy' = [copy EXCEPT ![w] = cache[n]["store"]]
  /\ UNCHANGED <<cluster, informers, retry, ready, applied, bounds>>

(* The queue never hands out a name another worker has not finished.         *)
Take(w, n) ==
  /\ step[w] = "idle"
  /\ n \in dirty \ Busy
  /\ dirty' = dirty \ {n}
  /\ IF cache[n]["store"] = Gone
     THEN UNCHANGED worker
     ELSE /\ step' = [step EXCEPT ![w] = "configMap"]
          /\ job' = [job EXCEPT ![w] = n]
          /\ copy' = [copy EXCEPT ![w] = cache[n]["store"]]
          /\ UNCHANGED ready
  /\ UNCHANGED <<cluster, informers, retry, applied, bounds>>

Proceed(w, next) ==
  /\ step' = [step EXCEPT ![w] = next]
  /\ UNCHANGED <<dirty, retry, job, copy>>

Done(w) ==
  /\ step' = [step EXCEPT ![w] = "idle"]
  /\ job' = [job EXCEPT ![w] = Gone]
  /\ copy' = [copy EXCEPT ![w] = Gone]
  /\ ready' = [ready EXCEPT ![w] = 0]
  /\ UNCHANGED dirty

(* The name is forgotten although the handler returns an error.              *)
RequeueNever(w) == Done(w) /\ UNCHANGED retry

(* The handler returns an error: the name is queued again after a back-off.  *)
Requeue(w) == Done(w) /\ retry' = retry \cup {job[w]}

(* A call to the API server fails, before or after it took effect.           *)
Fault ==
  /\ faults < MaxFaults
  /\ faults' = faults + 1

NoWrite == UNCHANGED <<etcd, watch>>
NoFault == UNCHANGED faults

NewConfigMap(s) == [owner |-> s.uid, config |-> s.spec.config]

(* Compares the owners where it should compare the data.                     *)
IsConfigMapOurs(s, c) == c.owner = s.uid

IsConfigMapUpToDate(s, c) == c.config = s.spec.config

WriteConfigMap(w) ==
  /\ Write(job[w], "configMap", NewConfigMap(copy[w]))
  /\ applied' = [applied EXCEPT ![job[w]] = copy[w].version]

(* The outcome of Create is assigned to a variable of the inner block; the   *)
(* NotFound of the cache outlives it: the handler always returns an error.   *)
CreateConfigMap(w) ==
  LET n == job[w]
  IN /\ cache[n]["configMap"] = Gone
     /\ \/ etcd[n]["configMap"] = Gone /\ WriteConfigMap(w) /\ (NoFault \/ Fault)
        \/ etcd[n]["configMap"] # Gone /\ NoWrite /\ UNCHANGED applied /\ NoFault
        \/ NoWrite /\ UNCHANGED applied /\ Fault
     /\ Requeue(w)

(* The error of Update is assigned to a variable of the inner block and is   *)
(* lost: whatever the outcome, the handler goes on.                          *)
UpdateConfigMap(w) ==
  LET n == job[w]
      cached == cache[n]["configMap"]
  IN /\ cached # Gone
     /\ cached.owner = copy[w].uid
     /\ ~IsConfigMapUpToDate(copy[w], cached)
     /\ \/ etcd[n]["configMap"] # Gone /\ WriteConfigMap(w) /\ (NoFault \/ Fault)
        \/ etcd[n]["configMap"] = Gone /\ NoWrite /\ UNCHANGED applied /\ NoFault
        \/ NoWrite /\ UNCHANGED applied /\ Fault
     /\ Proceed(w, "secret")
     /\ UNCHANGED ready

(* Takes the ConfigMap of another owner for its own.                         *)
KeepAnyConfigMap(w) ==
  LET cached == cache[job[w]]["configMap"]
  IN /\ cached # Gone
     /\ cached.owner = copy[w].uid => IsConfigMapUpToDate(copy[w], cached)
     /\ Proceed(w, "secret")
     /\ UNCHANGED ready
     /\ NoWrite /\ NoFault /\ UNCHANGED applied

KeepConfigMap(w) ==
  LET cached == cache[job[w]]["configMap"]
  IN /\ cached # Gone
     /\ \/ cached.owner # copy[w].uid /\ Requeue(w)
        \/ /\ cached.owner = copy[w].uid
           /\ IsConfigMapUpToDate(copy[w], cached)
           /\ Proceed(w, "secret")
           /\ UNCHANGED ready
     /\ NoWrite /\ NoFault /\ UNCHANGED applied

SyncConfigMap(w) ==
  /\ step[w] = "configMap"
  /\ CreateConfigMap(w) \/ UpdateConfigMap(w) \/ KeepConfigMap(w)
  /\ UNCHANGED <<secrets, revision, running, cache, changes, crashes>>

CheckSecretExistence(w) ==
  /\ step[w] = "secret"
  /\ LET name == copy[w].spec.secret
     IN \/ /\ name \in secrets \cup {Nil}
           /\ Proceed(w, "deployment") /\ UNCHANGED ready /\ NoFault
        \/ name # Nil /\ name \notin secrets /\ Requeue(w) /\ NoFault
        \/ name # Nil /\ Requeue(w) /\ Fault
  /\ NoWrite
  /\ UNCHANGED <<secrets, revision, running, cache, applied, changes, crashes>>

PodTemplate(s) == [port |-> Port[s.spec.config], secret |-> s.spec.secret]

(* The API server sets replicas to 1 where they are left out, and keeps the  *)
(* status of a Deployment that is updated.                                   *)
NewDeployment(s, available) ==
  [owner |-> s.uid, template |-> PodTemplate(s), available |-> available,
   replicas |-> IF s.spec.replicas = Nil THEN 1 ELSE s.spec.replicas]

IsDeploymentUpToDate(s, d) ==
  /\ s.spec.replicas # Nil => d.replicas = s.spec.replicas
  /\ d.template = PodTemplate(s)

WriteDeployment(w, available) ==
  /\ Write(job[w], "deployment", NewDeployment(copy[w], available))
  /\ \/ /\ Proceed(w, "status")
        /\ ready' = [ready EXCEPT ![w] = available]
        /\ NoFault
     \/ Requeue(w) /\ Fault

CreateDeployment(w) ==
  LET n == job[w]
  IN /\ cache[n]["deployment"] = Gone
     /\ \/ etcd[n]["deployment"] = Gone /\ WriteDeployment(w, 0)
        \/ /\ Requeue(w) /\ NoWrite
           /\ (etcd[n]["deployment"] # Gone /\ NoFault) \/ Fault

(* Loses the error of Update, as UpdateConfigMap does.                       *)
UpdateDeploymentLossy(w) ==
  LET n == job[w]
      cached == cache[n]["deployment"]
  IN /\ cached # Gone
     /\ cached.owner = copy[w].uid
     /\ ~IsDeploymentUpToDate(copy[w], cached)
     /\ \/ /\ etcd[n]["deployment"] # Gone
           /\ WriteDeployment(w, etcd[n]["deployment"].available)
        \/ /\ Proceed(w, "status") /\ NoWrite /\ UNCHANGED ready
           /\ (etcd[n]["deployment"] = Gone /\ NoFault) \/ Fault

UpdateDeployment(w) ==
  LET n == job[w]
      cached == cache[n]["deployment"]
  IN /\ cached # Gone
     /\ cached.owner = copy[w].uid
     /\ ~IsDeploymentUpToDate(copy[w], cached)
     /\ \/ /\ etcd[n]["deployment"] # Gone
           /\ WriteDeployment(w, etcd[n]["deployment"].available)
        \/ /\ Requeue(w) /\ NoWrite
           /\ (etcd[n]["deployment"] = Gone /\ NoFault) \/ Fault

KeepDeployment(w) ==
  LET cached == cache[job[w]]["deployment"]
  IN /\ cached # Gone
     /\ \/ cached.owner # copy[w].uid /\ Requeue(w)
        \/ /\ cached.owner = copy[w].uid
           /\ IsDeploymentUpToDate(copy[w], cached)
           /\ Proceed(w, "status")
           /\ ready' = [ready EXCEPT ![w] = cached.available]
     /\ NoWrite /\ NoFault

SyncDeployment(w) ==
  /\ step[w] = "deployment"
  /\ CreateDeployment(w) \/ UpdateDeployment(w) \/ KeepDeployment(w)
  /\ UNCHANGED <<secrets, revision, running, cache, applied, changes, crashes>>

(* UpdateStatus carries the resourceVersion of the cached Store: the API     *)
(* server refuses it once the Store has changed.                             *)
UpdateStoreStatus(w) ==
  LET n == job[w]
      current == etcd[n]["store"]
      fresh == current # Gone /\ current.version = copy[w].version
      new == [current EXCEPT !.status = ready[w], !.version = revision[n] + 1]
  IN /\ step[w] = "status"
     /\ \/ /\ fresh /\ current.status # ready[w]
           /\ Write(n, "store", new)
           /\ NextRevision(n)
           /\ \/ Done(w) /\ UNCHANGED retry /\ NoFault
              \/ Requeue(w) /\ Fault
        \/ /\ fresh /\ current.status = ready[w]
           /\ NoWrite /\ UNCHANGED revision
           /\ Done(w) /\ UNCHANGED retry /\ NoFault
        \/ /\ NoWrite /\ UNCHANGED revision
           /\ Requeue(w)
           /\ (~fresh /\ NoFault) \/ Fault
     /\ UNCHANGED <<secrets, running, cache, applied, changes, crashes>>

------------------------------------------------------------------------------
SyncHandler(w) ==
  \/ SyncConfigMap(w) \/ CheckSecretExistence(w)
  \/ SyncDeployment(w) \/ UpdateStoreStatus(w)

UserNext ==
  \/ \E n \in Names : \/ CreateStore(n) \/ EditStore(n) \/ DeleteStore(n)
                      \/ ScaleDeployment(n) \/ MeddleConfigMap(n)
  \/ \E s \in Secrets : ToggleSecret(s)

ClusterNext ==
  \E n \in Names : Rollout(n) \/ \E k \in Kinds : CollectGarbage(n, k)

ControllerNext ==
  \/ \E n \in Names : \/ Resync(n) \/ RetryDue(n)
                      \/ \E k \in Kinds : Deliver(n, k)
                      \/ \E w \in Workers : Take(w, n)
  \/ \E w \in Workers : SyncHandler(w)
  \/ Restart

Next == UserNext \/ ClusterNext \/ ControllerNext

Spec == Init /\ [][Next]_vars

(* The synchronization of a name goes on, the back-off in between included,  *)
(* every informer receives its changes, garbage is collected and Deployments *)
(* roll out.  Users, faults, restarts and resynchronization owe nothing.     *)
Fairness ==
  \A n \in Names :
    /\ WF_vars(\/ RetryDue(n)
               \/ \E w \in Workers : Take(w, n) \/ (job[w] = n /\ SyncHandler(w)))
    /\ \A k \in Kinds : WF_vars(Deliver(n, k))
    /\ WF_vars(Rollout(n) \/ \E k \in Kinds : CollectGarbage(n, k))

FairSpec == Spec /\ Fairness

(* The same, with the periodic resynchronization of main.go.                 *)
ResyncSpec == FairSpec /\ \A n \in Names : WF_vars(Resync(n))
------------------------------------------------------------------------------
ObjectsType ==
  /\ etcd \in [Names -> [Kinds -> Objects]]
  /\ cache \in [Names -> [Kinds -> Objects]]
  /\ watch \in [Names -> [Kinds -> Seq(Objects)]]
  /\ \A n \in Names, k \in Kinds : /\ etcd[n][k] \in ObjectsOf(k)
                                 /\ cache[n][k] \in ObjectsOf(k)
                                 /\ watch[n][k] \in Seq(ObjectsOf(k))

WorkersType ==
  /\ dirty \subseteq Names
  /\ retry \subseteq Names
  /\ step \in [Workers -> Steps]
  /\ job \in [Workers -> Names \cup {Gone}]
  /\ copy \in [Workers -> Stores \cup {Gone}]
  /\ ready \in [Workers -> Nat]
  /\ \A w \in Workers : step[w] # "idle" => job[w] \in Names /\ copy[w] \in Stores

TypeOK ==
  /\ ObjectsType
  /\ WorkersType
  /\ running \in [Names -> [template : Template, config : Configs] \cup {Gone}]
  /\ revision \in [Names -> Nat]
  /\ applied \in [Names -> Nat]

(* However late the caches are and whatever fails or restarts, a ConfigMap   *)
(* is never written from a version of its Store older than the one it was    *)
(* last written from: Update carries no resourceVersion, so nothing but the  *)
(* order of the queue and of the cache keeps an old specification out.       *)
NoRollback == [][\A n \in Names : applied'[n] >= applied[n]]_vars

(* A Deployment of the living Store never stands without a ConfigMap of that *)
(* Store for its pods to mount: syncHandler makes the ConfigMap first, and   *)
(* neither a stale cache nor a Store made anew under the same name undoes it.*)
ConfigMapMounted ==
  \A n \in Names :
    /\ etcd[n]["store"] # Gone
    /\ etcd[n]["deployment"] # Gone
    /\ etcd[n]["deployment"].owner = etcd[n]["store"].uid
    => /\ etcd[n]["configMap"] # Gone
       /\ etcd[n]["configMap"].owner = etcd[n]["store"].uid

(* The cluster is as the Store asks, as far as the controller can make it    *)
(* so: someone else's object of that name, or a Secret that does not exist,  *)
(* stop it.                                                                  *)
Converged(n) ==
  LET s == etcd[n]["store"]
      c == etcd[n]["configMap"]
      d == etcd[n]["deployment"]
  IN IF s = Gone
     THEN c \in {Gone} \cup [owner : {Other}, config : Configs] /\ d = Gone
     ELSE /\ c # Gone
          /\ \/ c.owner = Other
             \/ /\ c = NewConfigMap(s)
                /\ \/ s.spec.secret \notin secrets \cup {Nil}
                   \/ /\ d # Gone
                      /\ d.owner = s.uid
                      /\ IsDeploymentUpToDate(s, d)
                      /\ s.status = d.available

(* Once users leave it alone, every Store converges and stays converged,     *)
(* from whatever mix of stale caches, conflicts, restarts, deletions and     *)
(* re-creations it starts.                                                   *)
EventuallyConverged == <>[](\A n \in Names : Converged(n))

(* What the comment of syncConfigMap says ("ensures that the ConfigMap       *)
(* exists and is up to date for the given store"): where the cache has no    *)
(* news to receive, a worker that goes on from it leaves the ConfigMap as    *)
(* its Store says.  The lost error of Update breaks it.                      *)
ConfigMapEnsured ==
  [][\A w \in Workers :
       step[w] = "configMap" /\ step'[w] = "secret" /\ watch[job[w]]["configMap"] = <<>>
       => etcd'[job[w]]["configMap"] = NewConfigMap(copy[w])]_vars

(* The comment of syncDeployment ("If an error occurs during Update, we'll   *)
(* requeue the item") holds: where the cache has no news to receive, a       *)
(* worker only goes on to report the status of a Deployment that is as its   *)
(* Store says, whatever failed on the way.                                   *)
DeploymentEnsured ==
  [][\A w \in Workers :
       step[w] = "deployment" /\ step'[w] = "status" /\ watch[job[w]]["deployment"] = <<>>
       => LET d == etcd'[job[w]]["deployment"]
          IN d # Gone /\ d.owner = copy[w].uid /\ IsDeploymentUpToDate(copy[w], d)]_vars
=============================================================================
