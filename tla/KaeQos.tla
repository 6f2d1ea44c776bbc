-------------------------------- MODULE KaeQos --------------------------------
(***************************************************************************)
(* The KAE QoS reconciler: it keeps a finalizer on the pods of its node that *)
(* use accelerators, writes the pod's QoS to the devices the kubelet gave    *)
(* it, and restores the default before it lets a deleted pod go.             *)
(*                                                                         *)
(* External: the API server (a full update needs the version that was read), *)
(* the informer (a cached copy fed by the versions of the object in order),  *)
(* and the kubelet, which knows the devices of the pods that still run.      *)
(***************************************************************************)
EXTENDS Naturals, Sequences

CONSTANTS
  Name,         \* pod names (namespace/name), used again after a deletion
  Dev,          \* accelerator devices
  Annotations,  \* the values users put into the QoS annotation
  None,
  MaxPods,      \* bound: pods created
  MaxRestarts   \* bound: restarts of the reconciler

\* kaeDefaultQos
Default == 1000

PodObject == [uid : Nat, dev : Dev, qos : Annotations, running : BOOLEAN,
              deleting : BOOLEAN, finalizer : BOOLEAN]

ASSUME KaeQosAssumption ==
  /\ Annotations \subseteq Nat
  /\ MaxPods \in Nat /\ MaxRestarts \in Nat
  /\ None \notin Dev /\ None \notin PodObject

VARIABLES
  pod,         \* per name: the object at the API server, or None
  watch,       \* per name: the versions the informer has yet to deliver
  cached,      \* per name: the informer's copy
  queued,      \* per name: the pod is in the work queue
  resources,   \* per name: the device last fetched for it, or None
  qos,         \* per device: alg_qos
  getEnabled,  \* init found that the kubelet offers Get, else List is used
  usedList,      \* history: List has been in use
  created, restarts

qosVars == <<pod, watch, cached, queued, resources, qos, getEnabled, usedList,
             created, restarts>>

KaeInit ==
  /\ pod = [p \in Name |-> None]
  /\ watch = [p \in Name |-> <<>>]
  /\ cached = [p \in Name |-> None]
  /\ queued = [p \in Name |-> FALSE]
  /\ resources = [p \in Name |-> None]
  /\ qos = [d \in Dev |-> Default]
  /\ getEnabled \in BOOLEAN /\ usedList = ~getEnabled
  /\ created = 0 /\ restarts = 0

(***************************************************************************)
(* The API server and the kubelet                                           *)
(***************************************************************************)
Publish(p, object) ==
  /\ pod' = [pod EXCEPT ![p] = object]
  /\ watch' = [watch EXCEPT ![p] = Append(@, object)]

ByCluster ==
  UNCHANGED <<cached, queued, resources, qos, getEnabled, usedList, restarts>>

\* The kubelet's record: the devices of the pods that still run.
Holds(p, d) == pod[p] # None /\ pod[p].running /\ pod[p].dev = d
Free(d) == \A p \in Name : ~Holds(p, d)

PodRuns(p, d, q) ==
  /\ pod[p] = None /\ Free(d)
  /\ created < MaxPods /\ created' = created + 1
  /\ Publish(p, [uid |-> created + 1, dev |-> d, qos |-> q, running |-> TRUE,
                 deleting |-> FALSE, finalizer |-> FALSE])
  /\ ByCluster

\* The containers end by themselves or because the pod is being deleted.
PodEnds(p) ==
  /\ pod[p] # None /\ pod[p].running
  /\ Publish(p, [pod[p] EXCEPT !.running = FALSE])
  /\ UNCHANGED created /\ ByCluster

UserDeletes(p) ==
  /\ pod[p] # None /\ ~pod[p].deleting
  /\ Publish(p, IF pod[p].finalizer THEN [pod[p] EXCEPT !.deleting = TRUE] ELSE None)
  /\ UNCHANGED created /\ ByCluster

(***************************************************************************)
(* The reconciler                                                           *)
(***************************************************************************)
\* The predicate: a running pod of this node that asks for a KAE device.
Selected(object) == object # None /\ object.running

\* A slip for the mutants: only creations are reconciled.
ObserveCreations(p) ==
  /\ watch[p] # <<>>
  /\ watch' = [watch EXCEPT ![p] = Tail(@)]
  /\ cached' = [cached EXCEPT ![p] = Head(watch[p])]
  /\ queued' = [queued EXCEPT ![p] =
       @ \/ (cached[p] = None /\ Selected(Head(watch[p])))]
  /\ UNCHANGED <<pod, resources, qos, getEnabled, usedList, created, restarts>>

Observe(p) ==
  /\ watch[p] # <<>>
  /\ watch' = [watch EXCEPT ![p] = Tail(@)]
  /\ cached' = [cached EXCEPT ![p] = Head(watch[p])]
  /\ queued' = [queued EXCEPT ![p] = @ \/ Selected(Head(watch[p]))]
  /\ UNCHANGED <<pod, resources, qos, getEnabled, usedList, created, restarts>>

\* fetchPodResources: Get answers for one pod that runs and fails otherwise;
\* List overwrites the entries of the pods that run and keeps the others.
FetchFails(p) == getEnabled /\ ~Selected(pod[p])

Fetched(p) ==
  [r \in Name |-> IF Selected(pod[r]) /\ (getEnabled => r = p)
                    THEN pod[r].dev ELSE resources[r]]

\* isValidQos
Valid(q) == 1 =< q /\ q =< 1000

\* applyQos: no device known is an error, and so is an invalid value.
CanApply(p, q) == ~FetchFails(p) /\ Fetched(p)[p] # None /\ Valid(q)

Applied(p, q) == [qos EXCEPT ![Fetched(p)[p]] = q]

Taken(p) == queued[p] /\ queued' = [queued EXCEPT ![p] = FALSE]
Retried(p) == queued[p] /\ UNCHANGED queued

Rest == UNCHANGED <<cached, getEnabled, usedList, created, restarts>>

\* Fetching alone: what an attempt that fails later leaves behind.
FetchOnly(p) ==
  /\ resources' = IF FetchFails(p) THEN resources ELSE Fetched(p)
  /\ UNCHANGED <<pod, watch, qos>>

NothingToDo(p) ==
  /\ \/ cached[p] = None
     \/ cached[p] # None /\ cached[p].deleting /\ ~cached[p].finalizer
  /\ Taken(p)
  /\ UNCHANGED <<pod, watch, resources, qos>> /\ Rest

\* An update of another version than the stored one is a conflict.
AddFinalizer(p) ==
  /\ cached[p] # None /\ ~cached[p].deleting /\ ~cached[p].finalizer
  /\ IF cached[p] = pod[p]
       THEN Taken(p) /\ Publish(p, [pod[p] EXCEPT !.finalizer = TRUE])
       ELSE Retried(p) /\ UNCHANGED <<pod, watch>>
  /\ UNCHANGED <<resources, qos>> /\ Rest

UpdateQos(p) ==
  /\ cached[p] # None /\ ~cached[p].deleting /\ cached[p].finalizer
  /\ CanApply(p, cached[p].qos)
  /\ Taken(p)
  /\ resources' = Fetched(p)
  /\ qos' = Applied(p, cached[p].qos)
  /\ UNCHANGED <<pod, watch>> /\ Rest

UpdateQosFails(p) ==
  /\ cached[p] # None /\ ~cached[p].deleting /\ cached[p].finalizer
  /\ ~CanApply(p, cached[p].qos)
  /\ Retried(p)
  /\ FetchOnly(p) /\ Rest

\* restoreQos and, if the update is no conflict, the end of the pod.
Release(p) ==
  /\ cached[p] # None /\ cached[p].deleting /\ cached[p].finalizer
  /\ CanApply(p, Default)
  /\ resources' = Fetched(p)
  /\ qos' = Applied(p, Default)
  /\ IF cached[p] = pod[p] THEN Taken(p) /\ Publish(p, None)
     ELSE Retried(p) /\ UNCHANGED <<pod, watch>>
  /\ Rest

\* A slip for the mutants: the finalizer goes although restoring failed.
ReleaseAnyway(p) ==
  /\ cached[p] # None /\ cached[p].deleting /\ cached[p].finalizer
  /\ ~CanApply(p, Default)
  /\ IF cached[p] = pod[p] THEN Taken(p) /\ Publish(p, None)
     ELSE Retried(p) /\ UNCHANGED <<pod, watch>>
  /\ UNCHANGED <<resources, qos>> /\ Rest

ReleaseFails(p) ==
  /\ cached[p] # None /\ cached[p].deleting /\ cached[p].finalizer
  /\ ~CanApply(p, Default)
  /\ Retried(p)
  /\ FetchOnly(p) /\ Rest

Reconcile(p) ==
  /\ queued[p]
  /\ \/ NothingToDo(p) \/ AddFinalizer(p)
     \/ UpdateQos(p) \/ UpdateQosFails(p)
     \/ Release(p) \/ ReleaseFails(p)

\* The memory of devices is lost, the kubelet is asked again whether it offers
\* Get (a call that times out counts as no), every pod is listed as a creation.
Restart ==
  /\ restarts < MaxRestarts /\ restarts' = restarts + 1
  /\ watch' = [p \in Name |-> <<>>]
  /\ cached' = pod
  /\ queued' = [p \in Name |-> Selected(pod[p])]
  /\ resources' = [p \in Name |-> None]
  /\ getEnabled' \in BOOLEAN /\ usedList' = (usedList \/ ~getEnabled')
  /\ UNCHANGED <<pod, qos, created>>

KaeNext ==
  \/ \E p \in Name :
       \/ \E d \in Dev, q \in Annotations : PodRuns(p, d, q)
       \/ PodEnds(p) \/ UserDeletes(p)
       \/ Observe(p) \/ Reconcile(p)
  \/ Restart

KaeSpec == KaeInit /\ [][KaeNext]_qosVars

\* The informer delivers and the worker takes what is queued.
KaeFairSpec ==
  /\ KaeSpec
  /\ \A p \in Name : WF_qosVars(Observe(p)) /\ WF_qosVars(Reconcile(p))

(***************************************************************************)
(* Properties                                                               *)
(***************************************************************************)
QosTypeOK ==
  /\ pod \in [Name -> PodObject \cup {None}]
  /\ watch \in [Name -> Seq(PodObject \cup {None})]
  /\ cached \in [Name -> PodObject \cup {None}]
  /\ queued \in [Name -> BOOLEAN]
  /\ resources \in [Name -> Dev \cup {None}]
  /\ qos \in [Dev -> 1..1000]
  /\ getEnabled \in BOOLEAN /\ usedList \in BOOLEAN /\ (getEnabled \/ usedList)
  /\ created \in 0..MaxPods /\ restarts \in 0..MaxRestarts

\* The pod p still has to be released; its own device is, unless List was used.
Owes(p, d) ==
  /\ pod[p] # None /\ pod[p].finalizer
  /\ ~usedList => pod[p].dev = d

\* A device whose QoS is not the default is answered for by a pod whose finalizer
\* still guards its restoration, whatever copies the reconciler worked from.  (With
\* List the pod may by then be registered with another device: its name was used
\* before, and the entry of the earlier pod was written to.)
NoLeakedQos ==
  \A d \in Dev : qos[d] # Default => \E p \in Name : Owes(p, d)

\* A running pod's device ends up with the pod's QoS, through conflicts, retries,
\* restarts and names used again, when no start found the kubelet without Get.
\* (With List, the entry of a pod that has ended outlives it, and its late release
\* or update rewrites a device that another pod holds by now.)
QosConverges ==
  <>[](~usedList =>
         \A p \in Name :
           Selected(pod[p]) /\ ~pod[p].deleting /\ Valid(pod[p].qos)
           => qos[pod[p].dev] = pod[p].qos)
==============================================================================
