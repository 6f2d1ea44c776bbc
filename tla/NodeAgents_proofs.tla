----------------------------- MODULE NodeAgents_proofs -----------------------------
(***************************************************************************)
(* The programs beside kubelet.  The QoS reconciler of the accelerators:     *)
(* type correctness, and that no device is left with the QoS of a pod that   *)
(* is gone.  Their device plugin: type correctness, and that no update of a  *)
(* type's devices is lost on its way to the server.  The pcore-binding       *)
(* agent, for any number of pods, sibling pairs and faults.                  *)
(***************************************************************************)
EXTENDS KaeQos, KaeDevicePlugin, PcoreBinding, SequenceTheorems, FiniteSetTheorems, TLAPS

--------------------------------------------------------------------------------
\* fetchPodResources only ever registers devices.
LEMMA FetchedDevices ==
  ASSUME QosTypeOK, NEW p \in Name
  PROVE  /\ Fetched(p) \in [Name -> Dev \cup {None}]
         /\ \A r \in Name : pod[r] # None => pod[r] \in PodObject
         /\ \A r \in Name : cached[r] # None => cached[r] \in PodObject
  BY DEF QosTypeOK, Fetched, Selected, PodObject

LEMMA AppliedIsQos ==
  ASSUME QosTypeOK, NEW p \in Name, NEW q \in Nat, CanApply(p, q)
  PROVE  Applied(p, q) \in [Dev -> 1..1000]
<1>1. Fetched(p)[p] \in Dev /\ q \in 1..1000
  BY FetchedDevices DEF CanApply, Valid
<1>2. qos \in [Dev -> 1..1000]
  BY DEF QosTypeOK
<1>3. Applied(p, q) = [qos EXCEPT ![Fetched(p)[p]] = q]
  BY DEF Applied
<1> QED
  BY ONLY <1>1, <1>2, <1>3

LEMMA PublishTypes ==
  ASSUME QosTypeOK, NEW p \in Name, NEW object \in PodObject \cup {None}, Publish(p, object)
  PROVE  /\ pod' \in [Name -> PodObject \cup {None}]
         /\ watch' \in [Name -> Seq(PodObject \cup {None})]
         /\ pod'[p] = object /\ watch'[p] = Append(watch[p], object)
         /\ \A r \in Name \ {p} : pod'[r] = pod[r] /\ watch'[r] = watch[r]
  BY DEF QosTypeOK, Publish

\* A new version of a pod is a pod.
LEMMA VersionsArePods ==
  ASSUME NEW object \in PodObject
  PROVE  /\ [object EXCEPT !.running = FALSE] \in PodObject
         /\ [object EXCEPT !.deleting = TRUE] \in PodObject
         /\ [object EXCEPT !.finalizer = TRUE] \in PodObject
  BY DEF PodObject

\* It is the same pod, and nothing that has begun is taken back.
LEMMA VersionsContinue ==
  ASSUME NEW object \in PodObject,
         NEW next \in {[object EXCEPT !.running = FALSE], [object EXCEPT !.deleting = TRUE],
                       [object EXCEPT !.finalizer = TRUE]}
  PROVE  /\ next \in PodObject /\ next # None
         /\ next.uid = object.uid /\ next.dev = object.dev
         /\ object.deleting => next.deleting
         /\ object.finalizer => next.finalizer
         /\ next.running => object.running
  BY KaeQosAssumption DEF PodObject

LEMMA TypesInit == KaeInit => QosTypeOK
<1>1. KaeInit => usedList \in BOOLEAN /\ (getEnabled \/ usedList)
  BY Zenon DEF KaeInit
<1> QED
  BY <1>1, KaeQosAssumption DEF KaeInit, QosTypeOK, Default

LEMMA TypesStep == QosTypeOK /\ [KaeNext]_qosVars => QosTypeOK'
<1> SUFFICES ASSUME QosTypeOK, [KaeNext]_qosVars PROVE QosTypeOK'
  OBVIOUS
<1>1. ASSUME NEW p \in Name, NEW d \in Dev, NEW q \in Annotations, PodRuns(p, d, q)
      PROVE  QosTypeOK'
  <2>1. [uid |-> created + 1, dev |-> d, qos |-> q, running |-> TRUE,
         deleting |-> FALSE, finalizer |-> FALSE] \in PodObject
    BY DEF QosTypeOK, PodObject
  <2>2. created' \in 0..MaxPods
    BY <1>1, KaeQosAssumption DEF PodRuns, QosTypeOK
  <2> QED
    BY <1>1, <2>1, <2>2, PublishTypes DEF PodRuns, ByCluster, QosTypeOK
<1>2. ASSUME NEW p \in Name, PodEnds(p) \/ UserDeletes(p)
      PROVE  QosTypeOK'
  <2>1. pod[p] \in PodObject
    BY <1>2 DEF PodEnds, UserDeletes, QosTypeOK
  <2>2. PICK object \in PodObject \cup {None} : Publish(p, object)
    BY <1>2, <2>1, VersionsArePods DEF PodEnds, UserDeletes
  <2>3. UNCHANGED <<cached, queued, resources, qos, getEnabled, usedList, created, restarts>>
    BY <1>2 DEF PodEnds, UserDeletes, ByCluster
  <2> QED
    BY <2>2, <2>3, PublishTypes DEF QosTypeOK
<1>3. ASSUME NEW p \in Name, Observe(p)
      PROVE  QosTypeOK'
  <2>1. watch[p] \in Seq(PodObject \cup {None}) /\ watch[p] # <<>>
    BY <1>3 DEF Observe, QosTypeOK
  <2>2. Head(watch[p]) \in PodObject \cup {None} /\ Tail(watch[p]) \in Seq(PodObject \cup {None})
    BY <2>1
  <2>3. Selected(Head(watch[p])) \in BOOLEAN
    BY <2>2 DEF Selected, PodObject
  <2> QED
    BY <1>3, <2>2, <2>3 DEF Observe, QosTypeOK
<1>4. ASSUME NEW p \in Name, Reconcile(p)
      PROVE  QosTypeOK'
  <2>0. NothingToDo(p) \/ AddFinalizer(p) \/ UpdateQos(p) \/ UpdateQosFails(p)
        \/ Release(p) \/ ReleaseFails(p)
    BY <1>4 DEF Reconcile
  <2>1. /\ queued' \in [Name -> BOOLEAN]
        /\ UNCHANGED <<cached, getEnabled, usedList, created, restarts>>
    <3>1. Taken(p) \/ Retried(p)
      BY <2>0 DEF NothingToDo, AddFinalizer, UpdateQos, UpdateQosFails, Release, ReleaseFails
    <3>2. Rest
      BY <2>0 DEF NothingToDo, AddFinalizer, UpdateQos, UpdateQosFails, Release, ReleaseFails
    <3>3. queued \in [Name -> BOOLEAN]
      BY DEF QosTypeOK
    <3> QED
      BY ONLY <3>1, <3>2, <3>3 DEF Taken, Retried, Rest
  <2>2. resources' \in [Name -> Dev \cup {None}]
    <3>1. resources' \in {resources, Fetched(p)}
      BY <2>0 DEF NothingToDo, AddFinalizer, UpdateQos, UpdateQosFails, Release,
                  ReleaseFails, FetchOnly
    <3>2. Fetched(p) \in [Name -> Dev \cup {None}]
      BY FetchedDevices
    <3> QED
      BY <3>1, <3>2 DEF QosTypeOK
  <2>3. qos' \in [Dev -> 1..1000]
    <3>1. cached[p] # None => cached[p].qos \in Nat
      BY KaeQosAssumption DEF QosTypeOK, PodObject
    <3>2. \/ UNCHANGED qos
          \/ /\ cached[p] # None /\ CanApply(p, cached[p].qos)
             /\ qos' = Applied(p, cached[p].qos)
          \/ CanApply(p, Default) /\ qos' = Applied(p, Default)
      BY <2>0 DEF NothingToDo, AddFinalizer, UpdateQos, UpdateQosFails, Release,
                  ReleaseFails, FetchOnly
    <3>3. Default \in Nat
      BY DEF Default
    <3>4. ASSUME NEW q \in Nat, CanApply(p, q)
          PROVE  Applied(p, q) \in [Dev -> 1..1000]
      <4>1. QosTypeOK /\ p \in Name /\ q \in Nat
        OBVIOUS
      <4> QED
        BY ONLY SMTT(30), <3>4, <4>1, AppliedIsQos
    <3>5. CASE UNCHANGED qos
      BY <3>5 DEF QosTypeOK
    <3>6. CASE CanApply(p, Default) /\ qos' = Applied(p, Default)
      BY <3>3, <3>4, <3>6
    <3>7. CASE /\ cached[p] # None /\ CanApply(p, cached[p].qos)
               /\ qos' = Applied(p, cached[p].qos)
      BY <3>1, <3>4, <3>7
    <3> QED
      BY <3>2, <3>5, <3>6, <3>7
  <2>4. /\ pod' \in [Name -> PodObject \cup {None}]
        /\ watch' \in [Name -> Seq(PodObject \cup {None})]
    <3>1. CASE UNCHANGED <<pod, watch>>
      BY <3>1 DEF QosTypeOK
    <3>2. CASE \E object \in PodObject \cup {None} : Publish(p, object)
      BY <3>2, PublishTypes
    <3>3. AddFinalizer(p) => \/ UNCHANGED <<pod, watch>>
                             \/ \E object \in PodObject : Publish(p, object)
      BY VersionsArePods, FetchedDevices DEF AddFinalizer
    <3> QED
      BY <1>4, <3>1, <3>2, <3>3
         DEF Reconcile, NothingToDo, UpdateQos, UpdateQosFails, Release, ReleaseFails, FetchOnly
  <2> QED
    BY <2>1, <2>2, <2>3, <2>4 DEF QosTypeOK
<1>5. CASE Restart
  <2>1. \A p \in Name : Selected(pod[p]) \in BOOLEAN
    BY DEF Selected, QosTypeOK, PodObject
  <2>2. /\ watch' \in [Name -> Seq(PodObject \cup {None})] /\ queued' \in [Name -> BOOLEAN]
        /\ resources' \in [Name -> Dev \cup {None}]
    BY <1>5, <2>1 DEF Restart
  <2>3. restarts' \in 0..MaxRestarts
    BY <1>5, KaeQosAssumption DEF Restart, QosTypeOK
  <2> QED
    BY <1>5, <2>2, <2>3 DEF Restart, QosTypeOK
<1>6. CASE UNCHANGED qosVars
  BY <1>6 DEF qosVars, QosTypeOK
<1> QED
  BY <1>1, <1>2, <1>3, <1>4, <1>5, <1>6 DEF KaeNext

\* Every step keeps the reconciler's values in their ranges: only valid values of
\* alg_qos are ever written (isValidQos).
THEOREM KaeQosTypeCorrect == KaeSpec => []QosTypeOK
  BY TypesInit, TypesStep, PTL DEF KaeSpec

--------------------------------------------------------------------------------
(***************************************************************************)
(* The history of a name: the version the informer has, the ones on their   *)
(* way, and the object, in this order.                                      *)
(***************************************************************************)
\* A pod with the finalizer that nobody has deleted.
Held(x) == x.finalizer /\ ~x.deleting

\* a may come before b.
NotAfter(a, b) ==
  a # None /\ b # None =>
    /\ a.uid =< b.uid
    /\ a.uid = b.uid /\ a.deleting => b.deleting

\* While an old version shows the pod held, its object still has a finalizer.
Fits(x, p) ==
  x # None => /\ x.uid =< created
              /\ Held(x) => pod[p] # None /\ pod[p].finalizer
              /\ NotAfter(x, pod[p])

HistoryOf(p) ==
  /\ pod[p] # None => pod[p].uid =< created
  /\ Fits(cached[p], p)
  /\ \A i \in DOMAIN watch[p] : Fits(watch[p][i], p) /\ NotAfter(cached[p], watch[p][i])
  /\ \A i, j \in DOMAIN watch[p] : i < j => NotAfter(watch[p][i], watch[p][j])

\* The pod that answers for device d: restoring its QoS restores d, whether the
\* kubelet still knows it or only the reconciler's entry does; an entry lost in a
\* restart cannot be made up for, and then the finalizer stays.
Covers(p, d) ==
  /\ Owes(p, d)
  /\ resources[p] \in {d, None}
  /\ pod[p].running => pod[p].dev = d

LeakInvariant ==
  /\ QosTypeOK
  /\ \A p \in Name : HistoryOf(p)
  /\ \A d \in Dev : qos[d] # Default => \E p \in Name : Covers(p, d)

LEMMA LeakInit == KaeInit => LeakInvariant
  BY TypesInit DEF KaeInit, LeakInvariant, HistoryOf, Fits

LEMMA ElementTypes ==
  ASSUME QosTypeOK, NEW p \in Name
  PROVE  /\ cached[p] # None => cached[p] \in PodObject
         /\ pod[p] # None => pod[p] \in PodObject
         /\ \A i \in DOMAIN watch[p] : watch[p][i] # None => watch[p][i] \in PodObject
         /\ DOMAIN watch[p] = 1..Len(watch[p]) /\ Len(watch[p]) \in Nat
         /\ created \in Nat
  BY KaeQosAssumption DEF QosTypeOK

\* A history goes on when its object gets another version, when it ends and
\* nothing holds it, or when a new object with a fresh uid takes the name.
LEMMA HistoryGoesOn ==
  ASSUME QosTypeOK, NEW p \in Name, HistoryOf(p),
         NEW object \in PodObject \cup {None}, Publish(p, object), UNCHANGED cached,
         created' \in Nat, created =< created',
         object # None => object.uid =< created',
         pod[p] = None /\ object # None => created < object.uid,
         pod[p] # None /\ object # None =>
           /\ object.uid = pod[p].uid
           /\ pod[p].deleting => object.deleting
           /\ pod[p].finalizer => object.finalizer,
         pod[p] # None /\ object = None =>
           /\ cached[p] # None => ~Held(cached[p])
           /\ \A i \in DOMAIN watch[p] : watch[p][i] # None => ~Held(watch[p][i])
  PROVE  HistoryOf(p)'
<1>1. /\ pod'[p] = object /\ watch'[p] = Append(watch[p], object)
      /\ cached'[p] = cached[p]
  BY PublishTypes
<1>2. /\ DOMAIN watch'[p] = 1..(Len(watch[p]) + 1)
      /\ \A i \in 1..Len(watch[p]) : watch'[p][i] = watch[p][i]
      /\ watch'[p][Len(watch[p]) + 1] = object
  BY <1>1 DEF QosTypeOK
<1>3. ASSUME NEW x, x # None => x \in PodObject, Fits(x, p),
             pod[p] # None /\ object = None => (x # None => ~Held(x))
      PROVE  Fits(x, p)' /\ NotAfter(x, object)
  BY <1>1, <1>3, ElementTypes DEF Fits, NotAfter, Held, PodObject
<1>4. Fits(object, p)'
  BY <1>1 DEF Fits, NotAfter, Held, PodObject
<1>5. \A x : x = cached[p] => Fits(x, p)' /\ NotAfter(x, object)
  BY <1>3, ElementTypes DEF HistoryOf
<1>6. \A i \in DOMAIN watch[p] : \A x :
        x = watch[p][i] => Fits(x, p)' /\ NotAfter(x, object) /\ NotAfter(cached[p], x)
  BY <1>3, ElementTypes DEF HistoryOf
<1> DEFINE last == Len(watch[p]) + 1
<1>7. ASSUME NEW i \in 1..last, NEW x, x = watch'[p][i]
      PROVE  Fits(x, p)' /\ NotAfter(cached[p], x)
  <2>1. CASE i \in DOMAIN watch[p]
    <3>1. x = watch[p][i]
      BY <1>2, <1>7, <2>1, ElementTypes
    <3> QED
      BY <1>6, <2>1, <3>1
  <2>2. CASE i = last
    <3>1. x = object
      BY <1>2, <1>7, <2>2
    <3> QED
      BY <1>4, <1>5, <3>1
  <2> QED
    BY <2>1, <2>2, ElementTypes
<1>8. ASSUME NEW i \in 1..last, NEW j \in 1..last, i < j
      PROVE  NotAfter(watch'[p][i], watch'[p][j])
  <2>1. i \in DOMAIN watch[p] /\ watch'[p][i] = watch[p][i]
    BY <1>2, <1>8, ElementTypes
  <2>2. CASE j \in DOMAIN watch[p]
    <3>1. watch'[p][j] = watch[p][j]
      BY <1>2, <2>2, ElementTypes
    <3> QED
      BY <1>8, <2>1, <2>2, <3>1 DEF HistoryOf
  <2>3. CASE j = last
    BY <1>2, <1>6, <2>1, <2>3
  <2> QED
    BY <2>2, <2>3, ElementTypes
<1>9. pod'[p] # None => pod'[p].uid =< created'
  BY <1>1
<1>10. Fits(cached[p], p)'
  BY <1>1, <1>5 DEF Fits
<1>11. (\A i \in DOMAIN watch[p] : Fits(watch[p][i], p) /\ NotAfter(cached[p], watch[p][i]))'
  BY <1>1, <1>2, <1>7 DEF Fits, NotAfter
<1>12. (\A i, j \in DOMAIN watch[p] : i < j => NotAfter(watch[p][i], watch[p][j]))'
  BY <1>2, <1>8 DEF NotAfter
<1> QED
  BY <1>9, <1>10, <1>11, <1>12 DEF HistoryOf

\* A name whose versions are left alone keeps its history.
LEMMA HistoryStays ==
  ASSUME QosTypeOK, NEW p \in Name, HistoryOf(p), created' \in Nat, created =< created',
         pod'[p] = pod[p], cached'[p] = cached[p], watch'[p] = watch[p]
  PROVE  HistoryOf(p)'
  BY ElementTypes DEF HistoryOf, Fits, NotAfter, PodObject

\* What a reconcile does to the versions of its pod.
LEMMA ReconcileHistory ==
  ASSUME QosTypeOK, NEW p \in Name, HistoryOf(p), Reconcile(p)
  PROVE  HistoryOf(p)'
<1>0. UNCHANGED <<cached, created>> /\ created \in Nat
  BY ElementTypes
     DEF Reconcile, NothingToDo, AddFinalizer, UpdateQos, UpdateQosFails, Release,
         ReleaseFails, Rest
<1>1. CASE UNCHANGED <<pod, watch>>
  BY <1>0, <1>1, HistoryStays
<1>2. CASE /\ AddFinalizer(p)
           /\ cached[p] = pod[p] /\ Publish(p, [pod[p] EXCEPT !.finalizer = TRUE])
  <2>1. pod[p] \in PodObject /\ pod[p].uid =< created
    BY <1>2, ElementTypes DEF AddFinalizer, HistoryOf
  <2>2. [pod[p] EXCEPT !.finalizer = TRUE] \in PodObject
    BY <2>1, VersionsArePods
  <2> QED
    BY <1>0, <1>2, <2>1, <2>2, KaeQosAssumption, HistoryGoesOn DEF PodObject
<1>3. CASE Release(p) /\ cached[p] = pod[p] /\ Publish(p, None)
  <2>1. /\ cached[p] # None /\ cached[p] \in PodObject /\ cached[p].deleting
        /\ pod[p] = cached[p]
    BY <1>3, ElementTypes DEF Release
  <2>2. ASSUME NEW i \in DOMAIN watch[p], watch[p][i] # None
        PROVE  watch[p][i].deleting
    BY <2>1, <2>2, ElementTypes DEF HistoryOf, Fits, NotAfter, PodObject
  <2>3. ~Held(cached[p])
    BY <2>1 DEF Held
  <2>4. \A i \in DOMAIN watch[p] : watch[p][i] # None => ~Held(watch[p][i])
    BY <2>2 DEF Held
  <2> QED
    BY <1>0, <1>3, <2>3, <2>4, HistoryGoesOn
<1> QED
  BY <1>1, <1>2, <1>3
     DEF Reconcile, NothingToDo, AddFinalizer, UpdateQos, UpdateQosFails, Release,
         ReleaseFails, FetchOnly

LEMMA HistoryStep ==
  ASSUME QosTypeOK, [KaeNext]_qosVars, \A p \in Name : HistoryOf(p)
  PROVE  \A p \in Name : HistoryOf(p)'
<1> SUFFICES ASSUME NEW p \in Name PROVE HistoryOf(p)'
  OBVIOUS
<1>1. created' \in Nat /\ created =< created'
  <2>1. created' \in {created, created + 1}
    BY DEF KaeNext, PodRuns, PodEnds, UserDeletes, ByCluster, Observe, Reconcile, NothingToDo,
           AddFinalizer, UpdateQos, UpdateQosFails, Release, ReleaseFails, Rest, Restart, qosVars
  <2> QED
    BY <2>1, ElementTypes
<1>2. ASSUME NEW r \in Name, NEW d \in Dev, NEW q \in Annotations, PodRuns(r, d, q)
      PROVE  HistoryOf(p)'
  <2> DEFINE new == [uid |-> created + 1, dev |-> d, qos |-> q, running |-> TRUE,
                     deleting |-> FALSE, finalizer |-> FALSE]
  <2>1. new \in PodObject /\ new.uid = created + 1
    BY ElementTypes DEF PodObject
  <2>2. Publish(r, new) /\ UNCHANGED cached /\ created' = created + 1 /\ pod[r] = None
    BY <1>2 DEF PodRuns, ByCluster
  <2> HIDE DEF new
  <2>3. CASE p = r
    BY <1>1, <2>1, <2>2, <2>3, ElementTypes, HistoryGoesOn
  <2>4. CASE p # r
    BY <1>1, <2>1, <2>2, <2>4, HistoryStays, PublishTypes
  <2> QED
    BY <2>3, <2>4
<1>3. ASSUME NEW r \in Name, PodEnds(r) \/ UserDeletes(r)
      PROVE  HistoryOf(p)'
  <2>1. pod[r] \in PodObject /\ pod[r] # None /\ UNCHANGED <<cached, created>>
    BY <1>3, ElementTypes DEF PodEnds, UserDeletes, ByCluster
  <2>2. PICK object \in PodObject \cup {None} :
          /\ Publish(r, object)
          /\ object # None => /\ object.uid = pod[r].uid
                              /\ pod[r].deleting => object.deleting
                              /\ pod[r].finalizer => object.finalizer
          /\ object = None => ~pod[r].finalizer
    <3>1. CASE PodEnds(r)
      BY <2>1, <3>1, VersionsContinue DEF PodEnds
    <3>2. CASE UserDeletes(r)
      <4>1. CASE pod[r].finalizer
        BY <2>1, <3>2, <4>1, VersionsContinue DEF UserDeletes
      <4>2. CASE ~pod[r].finalizer
        BY <3>2, <4>2 DEF UserDeletes
      <4> QED
        BY <4>1, <4>2
    <3> QED
      BY <1>3, <3>1, <3>2
  <2>3. CASE p = r
    <3>1. object = None =>
            /\ cached[p] # None => ~Held(cached[p])
            /\ \A i \in DOMAIN watch[p] : watch[p][i] # None => ~Held(watch[p][i])
      BY <2>2, <2>3 DEF HistoryOf, Fits
    <3>2. pod[p].uid =< created
      BY <2>1, <2>3 DEF HistoryOf
    <3> QED
      BY <1>1, <2>1, <2>2, <2>3, <3>1, <3>2, HistoryGoesOn
  <2>4. CASE p # r
    BY <1>1, <2>1, <2>2, <2>4, HistoryStays, PublishTypes
  <2> QED
    BY <2>3, <2>4
<1>4. ASSUME NEW r \in Name, Observe(r)
      PROVE  HistoryOf(p)'
  <2>1. /\ UNCHANGED <<pod, created>> /\ watch[r] # <<>>
        /\ cached' = [cached EXCEPT ![r] = Head(watch[r])]
        /\ watch' = [watch EXCEPT ![r] = Tail(@)]
    BY <1>4 DEF Observe
  <2>2. CASE p = r
    <3>1. /\ DOMAIN watch'[p] = 1..(Len(watch[p]) - 1) /\ 1 \in DOMAIN watch[p]
          /\ \A i \in DOMAIN watch'[p] :
               watch'[p][i] = watch[p][i + 1] /\ i + 1 \in DOMAIN watch[p] /\ 1 < i + 1
          /\ cached'[p] = watch[p][1]
      BY <2>1, <2>2 DEF QosTypeOK
    <3>2. (\A i, j \in DOMAIN watch[p] : i < j => NotAfter(watch[p][i], watch[p][j]))'
      BY SMTT(40), <3>1, ElementTypes DEF HistoryOf, NotAfter
    <3>3. (\A i \in DOMAIN watch[p] : Fits(watch[p][i], p) /\ NotAfter(cached[p], watch[p][i]))'
      BY <2>1, <3>1 DEF HistoryOf, Fits, NotAfter
    <3>4. Fits(cached[p], p)'
      BY <2>1, <3>1 DEF HistoryOf, Fits, NotAfter
    <3> QED
      BY <2>1, <3>2, <3>3, <3>4 DEF HistoryOf
  <2>3. CASE p # r
    BY ZenonT(40), <1>1, <2>1, <2>3, HistoryStays DEF QosTypeOK
  <2> QED
    BY <2>2, <2>3
<1>5. ASSUME NEW r \in Name, Reconcile(r)
      PROVE  HistoryOf(p)'
  <2>1. CASE p = r
    BY <1>5, <2>1, ReconcileHistory
  <2>2. CASE p # r
    <3>1. /\ UNCHANGED cached
          /\ \/ UNCHANGED <<pod, watch>>
             \/ \E object \in PodObject \cup {None} : Publish(r, object)
      BY <1>5, VersionsArePods, ElementTypes
         DEF Reconcile, NothingToDo, AddFinalizer, UpdateQos, UpdateQosFails, Release,
             ReleaseFails, FetchOnly, Rest
    <3> QED
      BY <1>1, <2>2, <3>1, HistoryStays, PublishTypes
  <2> QED
    BY <2>1, <2>2
<1>6. CASE Restart
  <2>1. /\ pod'[p] = pod[p] /\ cached'[p] = pod[p] /\ watch'[p] = <<>>
        /\ created' = created
    BY <1>6 DEF Restart
  <2> QED
    BY <2>1, ElementTypes DEF HistoryOf, Fits, NotAfter, Held, PodObject
<1>7. CASE UNCHANGED qosVars
  BY <1>1, <1>7, HistoryStays DEF qosVars
<1> QED
  BY <1>2, <1>3, <1>4, <1>5, <1>6, <1>7 DEF KaeNext

--------------------------------------------------------------------------------
\* A reconcile that can write reaches the very device its pod answers for.
LEMMA CoveredIsFetched ==
  ASSUME QosTypeOK, NEW p \in Name, NEW q, CanApply(p, q), NEW d \in Dev, Covers(p, d)
  PROVE  Fetched(p)[p] = d
  BY DEF QosTypeOK, CanApply, FetchFails, Fetched, Selected, Covers, Owes

\* Fetching for p does not change what any pod answers for.
LEMMA FetchKeepsCover ==
  ASSUME QosTypeOK, NEW p \in Name, NEW r \in Name, NEW d \in Dev, Covers(r, d),
         resources' \in {resources, Fetched(p)},
         pod'[r] # None, pod'[r].finalizer, pod'[r].dev = pod[r].dev,
         pod'[r].running => pod[r].running, UNCHANGED <<getEnabled, usedList>>
  PROVE  Covers(r, d)'
<1>1. resources'[r] \in {d, None}
  BY DEF QosTypeOK, Fetched, Selected, Covers, Owes
<1> QED
  BY <1>1 DEF Covers, Owes

\* A new version of a pod that has its finalizer answers for what it answered for.
LEMMA NextVersion ==
  ASSUME NEW p \in Name, pod[p] \in PodObject, pod[p].finalizer,
         \/ pod'[p] = [pod[p] EXCEPT !.running = FALSE]
         \/ pod'[p] = [pod[p] EXCEPT !.deleting = TRUE]
         \/ pod'[p] = [pod[p] EXCEPT !.finalizer = TRUE]
  PROVE  /\ pod'[p] # None /\ pod'[p].finalizer
         /\ pod'[p].dev = pod[p].dev /\ (pod'[p].running => pod[p].running)
  BY ZenonT(60), KaeQosAssumption DEF PodObject

LEMMA LeakStep == LeakInvariant /\ [KaeNext]_qosVars => LeakInvariant'
<1> SUFFICES ASSUME LeakInvariant, [KaeNext]_qosVars PROVE LeakInvariant'
  OBVIOUS
<1>0. QosTypeOK /\ QosTypeOK' /\ (\A p \in Name : HistoryOf(p)) /\ (\A p \in Name : HistoryOf(p)')
  BY TypesStep, HistoryStep DEF LeakInvariant
<1> SUFFICES ASSUME NEW d \in Dev, qos'[d] # Default
             PROVE  \E r \in Name : Covers(r, d)'
  BY <1>0 DEF LeakInvariant
<1> DEFINE Stays(r) == /\ resources' = resources /\ UNCHANGED <<getEnabled, usedList>>
                       /\ pod'[r] # None /\ pod'[r].finalizer
                       /\ pod'[r].dev = pod[r].dev /\ (pod'[r].running => pod[r].running)
<1>1. ASSUME qos'[d] = qos[d], \A r \in Name : Covers(r, d) => Stays(r)
      PROVE  \E r \in Name : Covers(r, d)'
  <2>1. PICK r \in Name : Covers(r, d)
    BY <1>1 DEF LeakInvariant
  <2> QED
    BY <1>0, <1>1, <2>1, FetchKeepsCover
<1>2. ASSUME NEW p \in Name, NEW e \in Dev, NEW q \in Annotations, PodRuns(p, e, q)
      PROVE  \E r \in Name : Covers(r, d)'
  <2>1. UNCHANGED <<resources, qos, getEnabled, usedList>> /\ pod[p] = None
        /\ \A r \in Name \ {p} : pod'[r] = pod[r]
    BY <1>0, <1>2 DEF PodRuns, ByCluster, Publish, QosTypeOK
  <2> QED
    BY <1>1, <2>1 DEF Covers, Owes
<1>3. ASSUME NEW p \in Name, PodEnds(p) \/ UserDeletes(p)
      PROVE  \E r \in Name : Covers(r, d)'
  <2>1. /\ UNCHANGED <<resources, qos, getEnabled, usedList>> /\ pod[p] \in PodObject /\ pod[p] # None
        /\ \A r \in Name \ {p} : pod'[r] = pod[r]
    BY <1>0, <1>3 DEF PodEnds, UserDeletes, ByCluster, Publish, QosTypeOK
  <2>2. pod[p].finalizer => Stays(p)
    <3>1. PodEnds(p) => pod'[p] = [pod[p] EXCEPT !.running = FALSE]
      BY <1>0 DEF PodEnds, Publish, QosTypeOK
    <3>2. UserDeletes(p) /\ pod[p].finalizer => pod'[p] = [pod[p] EXCEPT !.deleting = TRUE]
      BY <1>0 DEF UserDeletes, Publish, QosTypeOK
    <3> QED
      BY <1>3, <2>1, <3>1, <3>2, NextVersion
  <2> QED
    BY <1>1, <2>1, <2>2 DEF Covers, Owes
<1>4. ASSUME NEW p \in Name, Observe(p)
      PROVE  \E r \in Name : Covers(r, d)'
  BY <1>1, <1>4 DEF Observe, Covers, Owes
<1>5. ASSUME NEW p \in Name, Reconcile(p)
      PROVE  \E r \in Name : Covers(r, d)'
  <2>1. UNCHANGED <<getEnabled, usedList>>
    BY <1>5 DEF Reconcile, NothingToDo, AddFinalizer, UpdateQos, UpdateQosFails, Release,
                ReleaseFails, Rest
  <2>2. CASE UNCHANGED <<pod, qos>> /\ resources' \in {resources, Fetched(p)}
    <3>1. PICK r \in Name : Covers(r, d)
      BY <2>2 DEF LeakInvariant
    <3> QED
      BY <1>0, <2>1, <2>2, <3>1, FetchKeepsCover DEF Covers, Owes
  <2>3. CASE AddFinalizer(p) /\ Publish(p, [pod[p] EXCEPT !.finalizer = TRUE])
    <3>1. pod[p] \in PodObject /\ UNCHANGED <<resources, qos>>
          /\ pod'[p] = [pod[p] EXCEPT !.finalizer = TRUE]
          /\ \A r \in Name \ {p} : pod'[r] = pod[r]
      BY <1>0, <1>5, <2>3, ElementTypes DEF AddFinalizer, Publish, QosTypeOK
    <3>2. pod[p].finalizer => Stays(p)
      BY <2>1, <3>1, NextVersion
    <3>3. \A r \in Name : Covers(r, d) => Stays(r)
      BY <2>1, <3>1, <3>2 DEF Covers, Owes
    <3> QED
      BY <1>1, <3>1, <3>3
  <2>4. CASE UpdateQos(p)
    <3>1. /\ CanApply(p, cached[p].qos) /\ UNCHANGED pod /\ resources' = Fetched(p)
          /\ qos' = Applied(p, cached[p].qos)
      BY <2>4 DEF UpdateQos
    <3>2. pod[p] # None /\ pod[p].finalizer
      BY <1>0, <2>4 DEF UpdateQos, HistoryOf, Fits, Held
    <3>3. CASE d = Fetched(p)[p]
      <4>1. /\ ~usedList => pod[p].running
            /\ pod[p].running => Fetched(p)[p] = pod[p].dev
        <5>1. ~usedList => getEnabled
          BY <1>0 DEF QosTypeOK
        <5>2. getEnabled => pod[p].running
          BY <3>1 DEF CanApply, FetchFails, Selected
        <5>3. pod[p].running => Fetched(p)[p] = pod[p].dev
          BY <3>2 DEF Fetched, Selected
        <5> QED
          BY ONLY <5>1, <5>2, <5>3
      <4> QED
        BY <2>1, <3>1, <3>2, <3>3, <4>1 DEF Covers, Owes
    <3>4. CASE d # Fetched(p)[p]
      <4>1. qos'[d] = qos[d]
        BY <1>0, <3>1, <3>4 DEF Applied, QosTypeOK
      <4>2. PICK r \in Name : Covers(r, d)
        BY <4>1 DEF LeakInvariant
      <4> QED
        BY <1>0, <2>1, <3>1, <4>2, FetchKeepsCover DEF Covers, Owes
    <3> QED
      BY <3>3, <3>4
  <2>5. CASE Release(p)
    <3>1. /\ CanApply(p, Default) /\ resources' = Fetched(p) /\ qos' = Applied(p, Default)
          /\ \A r \in Name \ {p} : pod'[r] = pod[r]
      BY <1>0, <2>5 DEF Release, Publish, QosTypeOK
    <3>2. Fetched(p)[p] \in Dev
      BY <1>0, <3>1, FetchedDevices DEF CanApply
    <3>3. d # Fetched(p)[p] /\ qos'[d] = qos[d]
      BY <1>0, <3>1, <3>2 DEF Applied, QosTypeOK
    <3>4. PICK r \in Name : Covers(r, d)
      BY <3>3 DEF LeakInvariant
    <3>5. r # p
      BY <1>0, <3>1, <3>3, <3>4, CoveredIsFetched
    <3> QED
      BY <1>0, <2>1, <3>1, <3>4, <3>5, FetchKeepsCover DEF Covers, Owes
  <2> QED
    BY <1>5, <2>2, <2>3, <2>4, <2>5
       DEF Reconcile, NothingToDo, AddFinalizer, UpdateQosFails, ReleaseFails, FetchOnly
<1>6. CASE Restart
  <2>1. UNCHANGED <<pod, qos>> /\ (usedList => usedList') /\ \A r \in Name : resources'[r] = None
    BY <1>6 DEF Restart
  <2>2. PICK r \in Name : Covers(r, d)
    BY <2>1 DEF LeakInvariant
  <2> QED
    BY <2>1, <2>2 DEF Covers, Owes
<1>7. CASE UNCHANGED qosVars
  BY <1>1, <1>7 DEF qosVars, Covers, Owes
<1> QED
  BY <1>2, <1>3, <1>4, <1>5, <1>6, <1>7 DEF KaeNext

\* NoLeakedQos: whatever copies the reconciler works from, and whenever it restarts,
\* a device keeps a QoS other than the default only while a finalizer answers for it
\* (Reconcile restores the default before it removes the finalizer).
THEOREM NoQosLeaks == KaeSpec => []NoLeakedQos
<1>1. LeakInvariant => NoLeakedQos
  BY DEF LeakInvariant, NoLeakedQos, Covers
<1> QED
  BY LeakInit, LeakStep, <1>1, PTL DEF KaeSpec

--------------------------------------------------------------------------------
(***************************************************************************)
(* The device plugin: types                                                *)
(***************************************************************************)
LEMMA ScanTypes ==
  ASSUME PluginTypeOK
  PROVE  Scan \in [Type -> Info \cup {Nil}]
<1>1. ASSUME NEW t \in Type PROVE FirstOf(t) \in Nat
  <2> DEFINE P == {p \in Type \X Device : p[1] < t /\ p[2] \in bus[p[1]]}
  <2>1. IsFiniteSet(Type \X Device) /\ P \in SUBSET (Type \X Device)
    BY KaeAssumption, FS_Product
  <2>2. IsFiniteSet(P)
    BY <2>1, FS_Subset
  <2> QED
    BY <2>2, FS_CardinalityType DEF FirstOf
<1>2. \A t \in Type : bus[t] \in SUBSET Device
  BY DEF PluginTypeOK
<1> QED
  BY <1>1, <1>2 DEF Scan, Info

\* An update names operations, and finitely many of them.
LEMMA OperationsAreTyped ==
  ASSUME PluginTypeOK, offer # Nil
  PROVE  /\ Operations(offer) \subseteq Operation
         /\ IsFiniteSet(Operations(offer))
         /\ Cardinality(Operations(offer)) \in Nat
<1>1. /\ DOMAIN offer.added \subseteq Type /\ DOMAIN offer.updated \subseteq Type
      /\ \A t \in DOMAIN offer.added : offer.added[t] \in Info
      /\ \A t \in DOMAIN offer.updated : offer.updated[t] \in Info
      /\ offer.removed \subseteq Type
  BY DEF PluginTypeOK
<1>2. Operations(offer) \subseteq Operation
  BY <1>1 DEF Operations, Operation
<1> DEFINE value(o) == IF o.op = "add" THEN offer.added[o.type]
                       ELSE IF o.op = "update" THEN offer.updated[o.type] ELSE Nil
           key == [o \in Operations(offer) |-> <<o.op, o.type>>]
           keys == {"add", "update", "remove"} \X Type
<1>3. IsFiniteSet(keys)
  <2>1. IsFiniteSet({"add"}) /\ {"add", "update"} = {"add"} \cup {"update"}
        /\ {"add", "update", "remove"} = {"add", "update"} \cup {"remove"}
    BY FS_Singleton
  <2>2. IsFiniteSet({"add", "update"})
    BY ONLY <2>1, FS_AddElement
  <2>3. IsFiniteSet({"add", "update", "remove"})
    BY ONLY <2>1, <2>2, FS_AddElement
  <2> QED
    BY <2>3, KaeAssumption, FS_Product
<1>4. key \in Injection(Operations(offer), keys)
  <2>1. key \in [Operations(offer) -> keys]
    BY <1>2 DEF Operation
  <2>2. \A o \in Operations(offer) : o = [op |-> o.op, type |-> o.type, devices |-> value(o)]
    BY DEF Operations
  <2>3. ASSUME NEW o \in Operations(offer), NEW q \in Operations(offer), key[o] = key[q]
        PROVE  o = q
    <3>1. o.op = q.op /\ o.type = q.type
      BY <2>3
    <3> QED
      BY <2>2, <3>1
  <2> HIDE DEF key, keys
  <2> QED
    BY <2>1, <2>3 DEF Injection, IsInjective
<1>5. IsFiniteSet(Operations(offer))
  BY <1>3, <1>4, FS_Injection
<1> QED
  BY <1>2, <1>5, FS_CardinalityType

\* The servers the plugin touches are servers.
LEMMA ServerParts ==
  ASSUME PluginTypeOK, NEW i \in Id, server[i] # Nil
  PROVE  /\ server[i] \in Server
         /\ server[i].type \in Type /\ server[i].serve \in Serve
         /\ server[i].chan \in Seq(Info) /\ Len(server[i].chan) =< 1
         /\ server[i].devices \in Info \cup {Nil}
         /\ server[i].handlers \in Seq(Handler)
         /\ server[i].sending \in Handler \cup {Nil}
  BY DEF PluginTypeOK, Server

\* A process that dies starts afresh, with the types the kubelet knows.
LEMMA DeathTypes == ASSUME PluginTypeOK, NEW how, Dies(how) PROVE PluginTypeOK'
<1>1. \A t \in Type : kubelet'[t] \in (SUBSET Device) \cup {Nil}
  BY DEF PluginTypeOK, Dies, Fresh
<1>2. /\ tree' \in [Type -> Info \cup {Nil}] /\ offer' = Nil /\ work' = <<>>
      /\ servers' \in [Type -> Id \cup {Nil}] /\ launches' = 0
      /\ socket' \in [Type -> Id \cup {Nil}]
      /\ server' \in [Id -> Server \cup {Nil}] /\ \A i \in Id : server'[i] = Nil
      /\ UNCHANGED <<bus, busChanges, kubeletRestarts>>
  BY DEF Dies, Fresh, NoServers
<1>3. kubelet' \in [Type -> (SUBSET Device) \cup {Nil}]
  BY <1>1 DEF Dies, Fresh
<1>4. 0 \in 0..MaxServers /\ <<>> \in Seq(Operation)
  BY KaeAssumption
<1> QED
  BY <1>2, <1>3, <1>4 DEF PluginTypeOK

\* The steps that change one server and perhaps its socket and the kubelet.
LEMMA ServerStepTypes ==
  ASSUME PluginTypeOK, ServeOnly, NEW i \in Id, NEW s \in Server, Len(s.chan) =< 1,
         server' = [server EXCEPT ![i] = s],
         socket' \in [Type -> Id \cup {Nil}],
         kubelet' \in [Type -> (SUBSET Device) \cup {Nil}]
  PROVE  PluginTypeOK'
<1>1. server' \in [Id -> Server \cup {Nil}]
  BY DEF PluginTypeOK
<1>2. \A j \in Id : server'[j] # Nil => Len(server'[j].chan) =< 1
  BY DEF PluginTypeOK
<1> QED
  BY <1>1, <1>2 DEF PluginTypeOK, ServeOnly

LEMMA UnpluggedTypes ==
  ASSUME PluginTypeOK, NEW i \in Id, server[i] # Nil, Unplugged(i)
  PROVE  /\ socket' \in [Type -> Id \cup {Nil}]
         /\ kubelet' \in [Type -> (SUBSET Device) \cup {Nil}]
  BY ServerParts DEF PluginTypeOK, Unplugged

\* All streams of a list of handlers end.
LEMMA BrokenHandlers ==
  ASSUME NEW h \in Seq(Handler)
  PROVE  [k \in DOMAIN h |-> "broken"] \in Seq(Handler)
<1>1. Len(h) \in Nat /\ DOMAIN h = 1..Len(h)
  OBVIOUS
<1>2. [k \in 1..Len(h) |-> "broken"] \in [1..Len(h) -> Handler]
  BY DEF Handler
<1> QED
  BY <1>1, <1>2, IsASeq

LEMMA StoppedTypes ==
  ASSUME NEW s \in Server
  PROVE  /\ Stopped(s) \in Server /\ Stopped(s).chan = s.chan
         /\ Stopped(s).devices = s.devices /\ Stopped(s).type = s.type
         /\ [Stopped(s) EXCEPT !.sending = Nil] \in Server
  BY BrokenHandlers DEF Server, Stopped, Handler

--------------------------------------------------------------------------------
(***************************************************************************)
(* The device plugin: no update is lost                                    *)
(***************************************************************************)
\* The devices that a type's server has, or is about to take from its channel.
HeldDevices(t) ==
  IF servers[t] = Nil THEN Nil
  ELSE LET s == server[servers[t]] IN IF s.chan = <<>> THEN s.devices ELSE s.chan[1]

\* The manager's map names servers of their types, each with devices.
ServersKnown ==
  \A t \in Type : servers[t] # Nil =>
    /\ server[servers[t]] # Nil /\ server[servers[t]].type = t
    /\ servers[t] =< launches /\ HeldDevices(t) # Nil

\* The loop has at most one operation per type, and it fits the map: a type is
\* added when it has no server, and updated or removed when it has one.
WorkFits ==
  /\ \A j, k \in DOMAIN work : work[j].type = work[k].type => j = k
  /\ \A k \in DOMAIN work : /\ work[k].op = "add" <=> servers[work[k].type] = Nil
                            /\ work[k].op = "remove" <=> work[k].devices = Nil

\* What the loop holds leads type t to v: an operation of its says so, or none
\* does and the server has it.
Leads(t, v) ==
  \/ \E k \in DOMAIN work : work[k].type = t /\ work[k].devices = v
  \/ (\A k \in DOMAIN work : work[k].type # t) /\ HeldDevices(t) = v

\* The update the scanner offers leads from there to the last tree, and without
\* one the loop is on the way to that tree already.
OfferFits ==
  offer # Nil =>
    \A t \in Type :
      /\ t \in DOMAIN offer.added => Leads(t, Nil) /\ tree[t] = offer.added[t]
      /\ t \in DOMAIN offer.updated => ~Leads(t, Nil) /\ tree[t] = offer.updated[t]
      /\ t \in offer.removed => ~Leads(t, Nil) /\ tree[t] = Nil
      /\ t \notin DOMAIN offer.added \cup DOMAIN offer.updated \cup offer.removed =>
           Leads(t, tree[t])

TreeFits == offer = Nil => \A t \in Type : Leads(t, tree[t])

UpdateInvariant ==
  PluginTypeOK /\ ServersKnown /\ WorkFits /\ OfferFits /\ TreeFits

LEMMA UpdateInit == PluginInit => UpdateInvariant
<1> SUFFICES ASSUME PluginInit PROVE UpdateInvariant
  OBVIOUS
<1>1. PluginTypeOK
  <2>1. <<>> \in Seq(Operation) /\ 0 \in 0..MaxServers /\ 0 \in 0..MaxBusChanges
        /\ 0 \in 0..MaxKubeletRestarts
    BY KaeAssumption
  <2> QED
    BY <2>1 DEF PluginInit, PluginTypeOK, NoServers
<1>2. \A t \in Type : HeldDevices(t) = Nil
  BY DEF PluginInit, HeldDevices
<1> QED
  BY <1>1, <1>2 DEF PluginInit, UpdateInvariant, ServersKnown, WorkFits, OfferFits, TreeFits, Leads

\* After a death nothing is known and nothing is pending.
LEMMA DeathForgets ==
  ASSUME UpdateInvariant, NEW how, Dies(how) PROVE UpdateInvariant'
<1>1. PluginTypeOK'
  BY DeathTypes DEF UpdateInvariant
<1>2. \A t \in Type : HeldDevices(t)' = Nil
  BY DEF Dies, Fresh, HeldDevices
<1> QED
  BY <1>1, <1>2
  DEF Dies, Fresh, UpdateInvariant, ServersKnown, WorkFits, OfferFits, TreeFits, Leads

\* A step that leaves the loop, the offer and the devices of the servers in the
\* map alone keeps the rest.
LEMMA SameDevices ==
  ASSUME UpdateInvariant, PluginTypeOK',
         UNCHANGED <<tree, offer, work, servers, launches>>,
         \A t \in Type : servers[t] # Nil =>
           /\ server'[servers[t]] # Nil /\ server'[servers[t]].type = t
           /\ HeldDevices(t)' = HeldDevices(t)
  PROVE  UpdateInvariant'
<1>1. \A t \in Type : HeldDevices(t)' = HeldDevices(t)
  BY DEF HeldDevices
<1>2. \A t \in Type : \A v : Leads(t, v)' <=> Leads(t, v)
  BY <1>1 DEF Leads
<1>3. ServersKnown'
  BY <1>1 DEF UpdateInvariant, ServersKnown
<1>4. WorkFits'
  BY DEF UpdateInvariant, WorkFits
<1>5. OfferFits' /\ TreeFits'
  BY <1>2 DEF UpdateInvariant, OfferFits, TreeFits
<1> QED
  BY <1>3, <1>4, <1>5 DEF UpdateInvariant

\* One server changes and keeps its type and its devices.
LEMMA OneServerStep ==
  ASSUME UpdateInvariant, ServeOnly, NEW i \in Id, server[i] # Nil,
         NEW s \in Server, server' = [server EXCEPT ![i] = s],
         s.type = server[i].type, Len(s.chan) =< 1,
         \/ s.chan = server[i].chan /\ s.devices = server[i].devices
         \/ server[i].chan # <<>> /\ s.chan = <<>> /\ s.devices = server[i].chan[1],
         socket' \in [Type -> Id \cup {Nil}],
         kubelet' \in [Type -> (SUBSET Device) \cup {Nil}]
  PROVE  UpdateInvariant'
<1>1. PluginTypeOK'
  BY ServerStepTypes DEF UpdateInvariant
<1>2. UNCHANGED <<tree, offer, work, servers, launches>>
  BY DEF ServeOnly
<1>3. s # Nil
  BY KaeAssumption
<1>4. ASSUME NEW t \in Type, servers[t] # Nil
      PROVE  /\ server'[servers[t]] # Nil /\ server'[servers[t]].type = t
             /\ HeldDevices(t)' = HeldDevices(t)
  <2>1. servers[t] \in Id /\ server[servers[t]] # Nil /\ server[servers[t]].type = t
    BY <1>4 DEF UpdateInvariant, PluginTypeOK, ServersKnown
  <2>2. DOMAIN server = Id
    BY DEF UpdateInvariant, PluginTypeOK
  <2>3. CASE servers[t] = i
    BY <1>2, <1>3, <1>4, <2>1, <2>2, <2>3 DEF HeldDevices
  <2>4. CASE servers[t] # i
    BY <1>2, <1>4, <2>1, <2>2, <2>4 DEF HeldDevices
  <2> QED
    BY <2>3, <2>4
<1> QED
  BY <1>1, <1>2, <1>4, SameDevices

LEMMA ServerSteps ==
  ASSUME UpdateInvariant, NEW i \in Id, ServerStep(i) PROVE UpdateInvariant'
<1>0. PluginTypeOK
  BY DEF UpdateInvariant
<1>1. server[i] # Nil
  BY DEF ServerStep, Launch, Listen, Register, WatchFile, SocketGone, TakeDevices,
         SendDevices, HandlersReturn
<1> DEFINE s == server[i]
<1>2. /\ s \in Server /\ s.type \in Type /\ Len(s.chan) =< 1
      /\ s.chan \in Seq(Info) /\ s.handlers \in Seq(Handler)
      /\ s.devices \in Info \cup {Nil} /\ s.sending \in Handler \cup {Nil}
  BY <1>0, <1>1, ServerParts
<1>3. socket \in [Type -> Id \cup {Nil}] /\ kubelet \in [Type -> (SUBSET Device) \cup {Nil}]
  BY <1>0 DEF PluginTypeOK
<1>4. Ids(s.devices) \in SUBSET Device
  BY <1>2 DEF Ids, Info
<1>5. ASSUME NEW h \in Handler PROVE Append(s.handlers, h) \in Seq(Handler)
  BY <1>2
<1> HIDE DEF s
<1>6. CASE Launch(i)
  <2>1. CASE \E how : Dies(how)
    BY <2>1, DeathForgets
  <2>2. CASE server' = [server EXCEPT ![i].serve = "starting"] /\ UNCHANGED <<socket, kubelet>>
             /\ ServeOnly
    <3> DEFINE n == [s EXCEPT !.serve = "starting"]
    <3>1. n \in Server /\ n.type = s.type /\ n.chan = s.chan /\ n.devices = s.devices
      BY <1>2 DEF Server, Serve
    <3>2. server' = [server EXCEPT ![i] = n]
      BY <2>2 DEF s
    <3> HIDE DEF n
    <3> QED
      BY <1>1, <1>2, <1>3, <2>2, <3>1, <3>2, OneServerStep DEF s
  <2> QED
    BY <1>6, <2>1, <2>2 DEF Launch
<1>7. CASE Listen(i)
  <2>1. CASE \E how : Dies(how)
    BY <2>1, DeathForgets
  <2>2. CASE /\ server' = [server EXCEPT ![i].serve = "listening", ![i].grpc = "up"]
             /\ socket' = [socket EXCEPT ![server[i].type] = i]
             /\ UNCHANGED kubelet /\ ServeOnly
    <3> DEFINE n == [s EXCEPT !.serve = "listening", !.grpc = "up"]
    <3>1. n \in Server /\ n.type = s.type /\ n.chan = s.chan /\ n.devices = s.devices
      BY <1>2 DEF Server, Serve
    <3>2. server' = [server EXCEPT ![i] = n]
      BY <2>2 DEF s
    <3>3. socket' \in [Type -> Id \cup {Nil}] /\ kubelet' \in [Type -> (SUBSET Device) \cup {Nil}]
      BY <1>3, <2>2
    <3> HIDE DEF n
    <3> QED
      BY <1>1, <1>2, <2>2, <3>1, <3>2, <3>3, OneServerStep DEF s
  <2> QED
    BY <1>7, <2>1, <2>2 DEF Listen
<1>8. CASE Register(i)
  <2>1. CASE \E how : Dies(how)
    BY <2>1, DeathForgets
  <2>2. CASE /\ server' = [server EXCEPT ![i].serve = "registered",
                             ![i].handlers = Append(@, "live")]
             /\ kubelet' = [kubelet EXCEPT ![server[i].type] = Ids(server[i].devices)]
             /\ UNCHANGED socket /\ ServeOnly
    <3> DEFINE n == [s EXCEPT !.serve = "registered", !.handlers = Append(s.handlers, "live")]
    <3>1. n \in Server /\ n.type = s.type /\ n.chan = s.chan /\ n.devices = s.devices
      BY <1>2, <1>5 DEF Server, Serve, Handler
    <3>2. server' = [server EXCEPT ![i] = n]
      BY <2>2 DEF s
    <3>3. socket' \in [Type -> Id \cup {Nil}] /\ kubelet' \in [Type -> (SUBSET Device) \cup {Nil}]
      BY <1>3, <1>4, <2>2 DEF s
    <3> HIDE DEF n
    <3> QED
      BY <1>1, <1>2, <2>2, <3>1, <3>2, <3>3, OneServerStep DEF s
  <2> QED
    BY <1>8, <2>1, <2>2 DEF Register
<1>9. CASE WatchFile(i)
  <2> DEFINE n == [s EXCEPT !.serve = IF socket[s.type] = i THEN "watching" ELSE "deaf"]
  <2>1. n \in Server /\ n.type = s.type /\ n.chan = s.chan /\ n.devices = s.devices
    BY <1>2 DEF Server, Serve
  <2>2. server' = [server EXCEPT ![i] = n] /\ UNCHANGED <<socket, kubelet>> /\ ServeOnly
    BY <1>9 DEF WatchFile, s
  <2> HIDE DEF n
  <2> QED
    BY <1>1, <1>2, <1>3, <2>1, <2>2, OneServerStep DEF s
<1>10. CASE SocketGone(i)
  <2> DEFINE n == [s EXCEPT !.grpc = "stopped",
                            !.serve = IF s.terminating THEN "done" ELSE "starting"]
  <2>1. n \in Server /\ n.type = s.type /\ n.chan = s.chan /\ n.devices = s.devices
    BY <1>2 DEF Server, Serve
  <2>2. server' = [server EXCEPT ![i] = n] /\ UNCHANGED <<socket, kubelet>> /\ ServeOnly
    BY <1>10 DEF SocketGone, s
  <2> HIDE DEF n
  <2> QED
    BY <1>1, <1>2, <1>3, <2>1, <2>2, OneServerStep DEF s
<1>11. CASE TakeDevices(i)
  <2> DEFINE n == [s EXCEPT !.devices = s.chan[1], !.chan = <<>>,
                            !.sending = Head(s.handlers), !.handlers = Tail(s.handlers)]
  <2>1. s.chan # <<>> /\ s.handlers # <<>>
    BY <1>11 DEF TakeDevices, s
  <2>2. s.chan[1] \in Info /\ Head(s.handlers) \in Handler /\ Tail(s.handlers) \in Seq(Handler)
    BY <1>2, <2>1
  <2>3. n \in Server /\ n.type = s.type /\ n.chan = <<>> /\ n.devices = s.chan[1]
        /\ Len(n.chan) =< 1
    <3>1. <<>> \in Seq(Info) /\ Len(<<>>) = 0
      OBVIOUS
    <3>2. n \in Server
      BY <1>2, <2>2, <3>1 DEF Server
    <3>3. n.type = s.type /\ n.chan = <<>> /\ n.devices = s.chan[1]
      BY <1>2 DEF Server
    <3> HIDE DEF n
    <3> QED
      BY <3>1, <3>2, <3>3
  <2>4. server' = [server EXCEPT ![i] = n] /\ UNCHANGED <<socket, kubelet>> /\ ServeOnly
    BY <1>11 DEF TakeDevices, s
  <2> HIDE DEF n
  <2> QED
    BY <1>1, <1>2, <1>3, <2>1, <2>3, <2>4, OneServerStep DEF s
<1>12. CASE SendDevices(i)
  <2>1. CASE \E how : Dies(how)
    BY <2>1, DeathForgets
  <2>2. CASE /\ server' = [server EXCEPT ![i].sending = Nil,
                             ![i].handlers = Append(@, "live")]
             /\ kubelet' = [kubelet EXCEPT ![server[i].type] = Ids(server[i].devices)]
             /\ UNCHANGED socket /\ ServeOnly
    <3> DEFINE n == [s EXCEPT !.sending = Nil, !.handlers = Append(s.handlers, "live")]
    <3>1. n \in Server /\ n.type = s.type /\ n.chan = s.chan /\ n.devices = s.devices
      BY <1>2, <1>5 DEF Server, Handler
    <3>2. server' = [server EXCEPT ![i] = n]
      BY <2>2 DEF s
    <3>3. socket' \in [Type -> Id \cup {Nil}] /\ kubelet' \in [Type -> (SUBSET Device) \cup {Nil}]
      BY <1>3, <1>4, <2>2 DEF s
    <3> HIDE DEF n
    <3> QED
      BY <1>1, <1>2, <2>2, <3>1, <3>2, <3>3, OneServerStep DEF s
  <2>3. CASE /\ server' = [server EXCEPT ![i] = [Stopped(@) EXCEPT !.sending = Nil]]
             /\ Unplugged(i) /\ ServeOnly
    <3> DEFINE n == [Stopped(s) EXCEPT !.sending = Nil]
    <3>1. n \in Server
      BY <1>2, StoppedTypes
    <3>2. n.type = s.type /\ n.chan = s.chan /\ n.devices = s.devices
      BY <1>2 DEF Stopped, Server
    <3>3. server' = [server EXCEPT ![i] = n]
      BY <2>3 DEF s
    <3>4. socket' \in [Type -> Id \cup {Nil}] /\ kubelet' \in [Type -> (SUBSET Device) \cup {Nil}]
      BY <1>0, <1>1, <2>3, UnpluggedTypes
    <3> HIDE DEF n
    <3> QED
      BY <1>1, <1>2, <2>3, <3>1, <3>2, <3>3, <3>4, OneServerStep DEF s
  <2> QED
    BY <1>12, <2>1, <2>2, <2>3 DEF SendDevices
<1>13. CASE HandlersReturn(i)
  <2> DEFINE n == [s EXCEPT !.handlers = <<>>]
  <2>1. n \in Server /\ n.type = s.type /\ n.chan = s.chan /\ n.devices = s.devices
    <3>1. <<>> \in Seq(Handler)
      OBVIOUS
    <3>2. n \in Server
      BY <1>2, <3>1 DEF Server
    <3> QED
      BY <1>2, <3>2 DEF Server
  <2>2. server' = [server EXCEPT ![i] = n] /\ UNCHANGED socket /\ ServeOnly
    BY <1>13 DEF HandlersReturn, s
  <2>3. kubelet' \in [Type -> (SUBSET Device) \cup {Nil}]
    BY <1>2, <1>3, <1>13 DEF HandlersReturn, s
  <2> HIDE DEF n
  <2> QED
    BY <1>1, <1>2, <1>3, <2>1, <2>2, <2>3, OneServerStep DEF s
<1> QED
  BY <1>6, <1>7, <1>8, <1>9, <1>10, <1>11, <1>12, <1>13 DEF ServerStep

LEMMA RestartOfKubelet == UpdateInvariant /\ KubeletRestarts => UpdateInvariant'
<1> SUFFICES ASSUME UpdateInvariant, KubeletRestarts PROVE UpdateInvariant'
  OBVIOUS
<1>0. PluginTypeOK
  BY DEF UpdateInvariant
<1>1. ASSUME NEW i \in Id, server[i] # Nil
      PROVE  /\ server'[i] \in Server /\ server'[i].type = server[i].type
             /\ server'[i].chan = server[i].chan /\ server'[i].devices = server[i].devices
  <2> DEFINE s == server[i]
             n == [s EXCEPT !.handlers = [k \in DOMAIN @ |-> "broken"],
                            !.sending = IF @ = Nil THEN Nil ELSE "broken"]
  <2>1. s \in Server /\ s.handlers \in Seq(Handler)
    BY <1>0, <1>1, ServerParts
  <2>2. server'[i] = n
    BY <1>1 DEF KubeletRestarts
  <2>3. [k \in DOMAIN s.handlers |-> "broken"] \in Seq(Handler)
    BY <2>1, BrokenHandlers
  <2> HIDE DEF s
  <2>4. n \in Server /\ n.type = s.type /\ n.chan = s.chan /\ n.devices = s.devices
    BY <2>1, <2>3 DEF Server, Handler
  <2> QED
    BY <2>2, <2>4 DEF s
<1>2. \A i \in Id : server[i] = Nil => server'[i] = Nil
  BY DEF KubeletRestarts
<1>3. PluginTypeOK'
  <2>1. server' \in [Id -> Server \cup {Nil}]
    <3>1. \A i \in Id : server'[i] \in Server \cup {Nil}
      BY <1>1, <1>2
    <3>2. DOMAIN server' = Id /\ server' = [i \in DOMAIN server' |-> server'[i]]
      BY DEF KubeletRestarts
    <3> QED
      BY <3>1, <3>2
  <2>2. \A i \in Id : server'[i] # Nil => Len(server'[i].chan) =< 1
    BY <1>0, <1>1, <1>2 DEF PluginTypeOK
  <2>3. socket' \in [Type -> Id \cup {Nil}] /\ kubelet' \in [Type -> (SUBSET Device) \cup {Nil}]
    BY DEF KubeletRestarts
  <2>4. kubeletRestarts' \in 0..MaxKubeletRestarts
    <3>1. kubeletRestarts \in 0..MaxKubeletRestarts /\ kubeletRestarts < MaxKubeletRestarts
          /\ kubeletRestarts' = kubeletRestarts + 1
      BY <1>0 DEF PluginTypeOK, KubeletRestarts
    <3> QED
      BY <3>1, KaeAssumption
  <2> QED
    BY <1>0, <2>1, <2>2, <2>3, <2>4 DEF PluginTypeOK, KubeletRestarts
<1>4. UNCHANGED <<tree, offer, work, servers, launches>>
  BY DEF KubeletRestarts
<1>5. ASSUME NEW t \in Type, servers[t] # Nil
      PROVE  /\ server'[servers[t]] # Nil /\ server'[servers[t]].type = t
             /\ HeldDevices(t)' = HeldDevices(t)
  <2>1. servers[t] \in Id /\ server[servers[t]] # Nil /\ server[servers[t]].type = t
    BY <1>5 DEF UpdateInvariant, PluginTypeOK, ServersKnown
  <2>2. server'[servers[t]] # Nil
    BY <1>1, <2>1, KaeAssumption
  <2> QED
    BY <1>1, <1>4, <2>1, <2>2 DEF HeldDevices
<1> QED
  BY <1>3, <1>4, <1>5, SameDevices

LEMMA ChangeOfBus == UpdateInvariant /\ BusChanges => UpdateInvariant'
<1> SUFFICES ASSUME UpdateInvariant, BusChanges PROVE UpdateInvariant'
  OBVIOUS
<1>1. bus' \in [Type -> SUBSET Device] /\ busChanges' \in 0..MaxBusChanges
  BY KaeAssumption DEF UpdateInvariant, PluginTypeOK, BusChanges
<1>2. UNCHANGED <<tree, offer, work, servers, server, launches, socket, kubelet,
                  kubeletRestarts>>
  BY DEF BusChanges
<1>3. PluginTypeOK'
  BY <1>1, <1>2 DEF UpdateInvariant, PluginTypeOK
<1> QED
  BY <1>2, <1>3, SameDevices DEF UpdateInvariant, ServersKnown, HeldDevices

\* The new offer says how the scan differs from the tree before.
LEMMA NewOffer == UpdateInvariant /\ Notify => UpdateInvariant'
<1> SUFFICES ASSUME UpdateInvariant, Notify PROVE UpdateInvariant'
  OBVIOUS
<1>1. Scan \in [Type -> Info \cup {Nil}] /\ tree' = Scan
  BY ScanTypes DEF UpdateInvariant, Notify
<1>2. UNCHANGED <<bus, work, servers, server, launches, socket, kubelet, busChanges,
                  kubeletRestarts>>
  BY DEF Notify
<1> DEFINE added == {t \in Type : tree[t] = Nil /\ Scan[t] # Nil}
           updated == {t \in Type : tree[t] # Nil /\ Scan[t] \notin {Nil, tree[t]}}
           removed == {t \in Type : tree[t] # Nil /\ Scan[t] = Nil}
<1>3. offer' = [added |-> [t \in added |-> Scan[t]], updated |-> [t \in updated |-> Scan[t]],
                removed |-> removed]
  BY DEF Notify
<1>4. /\ DOMAIN offer'.added = added /\ \A t \in added : offer'.added[t] = Scan[t]
      /\ DOMAIN offer'.updated = updated /\ \A t \in updated : offer'.updated[t] = Scan[t]
      /\ offer'.removed = removed
  BY <1>3
<1>5. offer' # Nil
  <2>1. [t \in added |-> Scan[t]] \in [added -> Info] /\ added \in SUBSET Type
    BY <1>1
  <2>2. [t \in updated |-> Scan[t]] \in [updated -> Info] /\ updated \in SUBSET Type
    BY <1>1
  <2>3. offer' \in Update
    BY <1>3, <2>1, <2>2 DEF Update, Infos
  <2> QED
    BY <2>3, KaeAssumption
<1>6. PluginTypeOK'
  <2>1. /\ DOMAIN offer'.added \subseteq Type /\ DOMAIN offer'.updated \subseteq Type
        /\ \A t \in DOMAIN offer'.added : offer'.added[t] \in Info
        /\ \A t \in DOMAIN offer'.updated : offer'.updated[t] \in Info
        /\ offer'.removed \subseteq Type
    BY <1>1, <1>4
  <2> QED
    BY <1>1, <1>2, <2>1 DEF UpdateInvariant, PluginTypeOK
<1>7. \A t \in Type : Leads(t, tree[t])
  BY DEF UpdateInvariant, TreeFits, Notify
<1>8. \A t \in Type : HeldDevices(t)' = HeldDevices(t)
  BY <1>2 DEF HeldDevices
<1>9. \A t \in Type : \A v : Leads(t, v)' <=> Leads(t, v)
  BY <1>2, <1>8 DEF Leads
<1>10. \A t \in Type : tree[t] # Nil => ~Leads(t, Nil)
  BY <1>7 DEF UpdateInvariant, WorkFits, Leads
<1>11. OfferFits' /\ TreeFits'
  <2> HIDE DEF added, updated, removed
  <2>1. \A t \in Type :
          /\ t \in added <=> tree[t] = Nil /\ tree'[t] # Nil
          /\ t \in updated <=> tree[t] # Nil /\ tree'[t] \notin {Nil, tree[t]}
          /\ t \in removed <=> tree[t] # Nil /\ tree'[t] = Nil
    BY <1>1 DEF added, updated, removed
  <2>2. \A t \in Type :
          /\ t \in added => Leads(t, Nil)'
          /\ t \in updated \cup removed => ~Leads(t, Nil)'
          /\ t \notin added \cup updated \cup removed => Leads(t, tree[t])'
    <3> SUFFICES ASSUME NEW t \in Type
                 PROVE  /\ t \in added => Leads(t, Nil)'
                        /\ t \in updated \cup removed => ~Leads(t, Nil)'
                        /\ t \notin added \cup updated \cup removed => Leads(t, tree[t])'
      OBVIOUS
    <3>1. t \in added => Leads(t, Nil)'
      BY <1>7, <1>9, <2>1
    <3>2. t \in updated \cup removed => ~Leads(t, Nil)'
      BY <1>9, <1>10, <2>1
    <3>3. ASSUME t \notin added \cup updated \cup removed PROVE Leads(t, tree[t])'
      <4>1. tree'[t] = tree[t]
        BY <2>1, <3>3
      <4> QED
        BY <1>2, <1>7, <1>8, <4>1 DEF Leads
    <3> QED
      BY <3>1, <3>2, <3>3
  <2>3. \A t \in Type :
          /\ t \in added => tree'[t] = offer'.added[t]
          /\ t \in updated => tree'[t] = offer'.updated[t]
    BY <1>1, <1>4
  <2>4. \A t \in Type : t \in removed => tree'[t] = Nil
    BY <2>1
  <2> QED
    BY <1>4, <1>5, <2>2, <2>3, <2>4 DEF OfferFits, TreeFits
<1>12. ServersKnown' /\ WorkFits'
  BY <1>2, <1>8 DEF UpdateInvariant, ServersKnown, WorkFits
<1> QED
  BY <1>6, <1>11, <1>12 DEF UpdateInvariant

\* The loop takes the offer: one operation for every type it names.
LEMMA OfferTaken == UpdateInvariant /\ TakeUpdate => UpdateInvariant'
<1> SUFFICES ASSUME UpdateInvariant, TakeUpdate PROVE UpdateInvariant'
  OBVIOUS
<1> DEFINE n == Cardinality(Operations(offer))
           named == DOMAIN offer.added \cup DOMAIN offer.updated \cup offer.removed
<1>0. PluginTypeOK /\ work = <<>> /\ offer # Nil /\ offer' = Nil
  BY DEF UpdateInvariant, TakeUpdate
<1>1. n \in Nat /\ Operations(offer) \subseteq Operation
  BY <1>0, OperationsAreTyped
<1>2. /\ work' \in [1..n -> Operations(offer)] /\ InOrder(work', offer)
      /\ UNCHANGED <<bus, tree, servers, server, launches, socket, kubelet, busChanges,
                     kubeletRestarts>>
  BY DEF TakeUpdate
<1>3. work' \in Seq(Operation) /\ DOMAIN work' = 1..n
  BY <1>1, <1>2
<1>4. PluginTypeOK'
  BY <1>0, <1>2, <1>3 DEF PluginTypeOK
<1>5. \A t \in Type : HeldDevices(t)' = HeldDevices(t)
  BY <1>2 DEF HeldDevices
<1>6. ASSUME NEW t \in Type
      PROVE  /\ t \in DOMAIN offer.added =>
                  HeldDevices(t) = Nil /\ tree[t] = offer.added[t] /\ tree[t] # Nil
             /\ t \in DOMAIN offer.updated =>
                  HeldDevices(t) # Nil /\ tree[t] = offer.updated[t] /\ tree[t] # Nil
             /\ t \in offer.removed => HeldDevices(t) # Nil /\ tree[t] = Nil
             /\ t \notin named => HeldDevices(t) = tree[t]
  <2>1. \A v : Leads(t, v) <=> HeldDevices(t) = v
    BY <1>0 DEF Leads
  <2>2. /\ t \in DOMAIN offer.added => offer.added[t] \in Info
        /\ t \in DOMAIN offer.updated => offer.updated[t] \in Info
    BY <1>0 DEF PluginTypeOK
  <2> QED
    BY <1>0, <2>1, <2>2, KaeAssumption DEF UpdateInvariant, OfferFits
<1>7. \A t \in Type : servers[t] = Nil <=> HeldDevices(t) = Nil
  BY DEF UpdateInvariant, ServersKnown, HeldDevices
<1>8. named \subseteq Type
  BY <1>0 DEF PluginTypeOK
<1>9. ASSUME NEW o \in Operations(offer)
      PROVE  /\ o.type \in named /\ o.devices = tree[o.type]
             /\ o.op = "add" <=> o.type \in DOMAIN offer.added
             /\ o.op = "update" <=> o.type \in DOMAIN offer.updated
             /\ o.op = "remove" <=> o.type \in offer.removed
             /\ o = [op |-> o.op, type |-> o.type, devices |-> o.devices]
  <2>1. CASE \E t \in DOMAIN offer.added : o = [op |-> "add", type |-> t, devices |-> offer.added[t]]
    BY <1>6, <1>8, <2>1
  <2>2. CASE \E t \in DOMAIN offer.updated :
               o = [op |-> "update", type |-> t, devices |-> offer.updated[t]]
    BY <1>6, <1>8, <2>2
  <2>3. CASE \E t \in offer.removed : o = [op |-> "remove", type |-> t, devices |-> Nil]
    BY <1>6, <1>8, <2>3
  <2> QED
    BY <2>1, <2>2, <2>3 DEF Operations
<1>10. ASSUME NEW t \in named
       PROVE  \E o \in Operations(offer) : o.type = t
  <2>1. CASE t \in DOMAIN offer.added
    <3>1. [op |-> "add", type |-> t, devices |-> offer.added[t]] \in Operations(offer)
      BY <2>1 DEF Operations
    <3> QED
      BY <3>1
  <2>2. CASE t \in DOMAIN offer.updated
    <3>1. [op |-> "update", type |-> t, devices |-> offer.updated[t]] \in Operations(offer)
      BY <2>2 DEF Operations
    <3> QED
      BY <3>1
  <2>3. CASE t \in offer.removed
    <3>1. [op |-> "remove", type |-> t, devices |-> Nil] \in Operations(offer)
      BY <2>3 DEF Operations
    <3> QED
      BY <3>1
  <2> QED
    BY <2>1, <2>2, <2>3
<1>11. \A o, q \in Operations(offer) : o.type = q.type => o = q
  <2> SUFFICES ASSUME NEW o \in Operations(offer), NEW q \in Operations(offer), o.type = q.type
               PROVE  o = q
    OBVIOUS
  <2>1. o.op \in {"add", "update", "remove"} /\ q.op \in {"add", "update", "remove"}
    BY <1>1 DEF Operation
  <2>2. o.op = q.op /\ o.devices = q.devices
    BY <1>9, <2>1
  <2> QED
    BY <1>9, <2>2
<1>12. WorkFits'
  <2>1. ASSUME NEW j \in 1..n, NEW k \in 1..n, work'[j].type = work'[k].type PROVE j = k
    <3>1. work'[j] = work'[k]
      BY <1>2, <1>11, <2>1
    <3> QED
      BY <1>1, <1>2, <1>3, <3>1 DEF InOrder
  <2>2. ASSUME NEW k \in 1..n
        PROVE  /\ work'[k].op = "add" <=> servers[work'[k].type] = Nil
               /\ work'[k].op = "remove" <=> work'[k].devices = Nil
    <3> DEFINE o == work'[k]
    <3>1. o \in Operations(offer) /\ o.type \in Type
      BY <1>2, <1>8, <1>9
    <3>2. o.op \in {"add", "update", "remove"}
      BY <1>1, <3>1 DEF Operation
    <3> HIDE DEF o
    <3>3. o.op = "add" <=> servers[o.type] = Nil
      BY <1>6, <1>7, <1>9, <3>1, <3>2
    <3>4. o.op = "remove" <=> o.devices = Nil
      BY <1>6, <1>9, <3>1, <3>2
    <3> QED
      BY <3>3, <3>4 DEF o
  <2> QED
    BY <1>2, <1>3, <2>1, <2>2 DEF WorkFits
<1>13. TreeFits'
  <2> SUFFICES ASSUME NEW t \in Type PROVE Leads(t, tree[t])'
    BY DEF TreeFits
  <2>1. CASE t \in named
    <3>1. PICK o \in Operations(offer) : o.type = t
      BY <1>10, <2>1
    <3>2. PICK k \in DOMAIN work' : work'[k] = o
      BY <1>2 DEF InOrder
    <3>3. work'[k].type = t /\ work'[k].devices = tree'[t]
      BY <1>2, <1>9, <3>1, <3>2
    <3> QED
      BY <3>3 DEF Leads
  <2>2. CASE t \notin named
    <3>1. \A k \in DOMAIN work' : work'[k].type # t
      BY <1>2, <1>3, <1>9, <2>2
    <3>2. HeldDevices(t)' = tree'[t]
      BY <1>2, <1>5, <1>6, <2>2
    <3> QED
      BY <3>1, <3>2 DEF Leads
  <2> QED
    BY <2>1, <2>2
<1>14. ServersKnown' /\ OfferFits'
  BY <1>0, <1>2, <1>5 DEF UpdateInvariant, ServersKnown, OfferFits
<1> QED
  BY <1>4, <1>12, <1>13, <1>14 DEF UpdateInvariant

\* An operation is done: its type's server has its devices, the other types are
\* as before.
LEMMA OperationDone ==
  ASSUME UpdateInvariant, work # <<>>, work' = Tail(work), UNCHANGED <<tree, offer>>,
         PluginTypeOK', ServersKnown', NEW o, o = Head(work),
         HeldDevices(o.type)' = o.devices,
         \A u \in Type \ {o.type} :
           HeldDevices(u)' = HeldDevices(u) /\ (servers'[u] = Nil <=> servers[u] = Nil)
  PROVE  UpdateInvariant'
<1>1. /\ work \in Seq(Operation) /\ Len(work) \in Nat \ {0} /\ DOMAIN work = 1..Len(work)
      /\ o = work[1] /\ o \in Operation /\ o.type \in Type
      /\ \A k \in DOMAIN work : work[k].type \in Type
  <2>1. work \in Seq(Operation)
    BY DEF UpdateInvariant, PluginTypeOK
  <2>2. /\ Len(work) \in Nat \ {0} /\ DOMAIN work = 1..Len(work) /\ o = work[1]
        /\ \A k \in DOMAIN work : work[k] \in Operation
    BY <2>1, EmptySeq, ElementOfSeq
  <2>3. \A q \in Operation : q.type \in Type
    BY DEF Operation
  <2> QED
    BY <2>1, <2>2, <2>3
<1>2. /\ DOMAIN work' = 1..(Len(work) - 1)
      /\ \A k \in DOMAIN work' : k + 1 \in DOMAIN work /\ work'[k] = work[k + 1]
      /\ \A k \in DOMAIN work : k # 1 => k - 1 \in DOMAIN work' /\ work'[k - 1] = work[k]
  BY <1>1
<1>3. /\ \A j, k \in DOMAIN work : work[j].type = work[k].type => j = k
      /\ \A k \in DOMAIN work : work[k].type \in Type
      /\ 1 \in DOMAIN work
  BY <1>1 DEF UpdateInvariant, WorkFits
<1>4. \A k \in DOMAIN work' : work'[k].type \in Type \ {o.type}
  BY <1>1, <1>2, <1>3
<1>5. \A t \in Type : \A v : Leads(t, v)' <=> Leads(t, v)
  <2> SUFFICES ASSUME NEW t \in Type, NEW v PROVE Leads(t, v)' <=> Leads(t, v)
    OBVIOUS
  <2>1. CASE t = o.type
    <3>1. Leads(t, v) <=> o.devices = v
      BY <1>1, <1>3, <2>1 DEF Leads
    <3>2. Leads(t, v)' <=> o.devices = v
      <4>1. \A k \in DOMAIN work' : work'[k].type # t
        BY <1>4, <2>1
      <4>2. HeldDevices(t)' = o.devices
        BY <2>1
      <4> QED
        BY <4>1, <4>2 DEF Leads
    <3> QED
      BY <3>1, <3>2
  <2>2. CASE t # o.type
    <3>1. HeldDevices(t)' = HeldDevices(t)
      BY <2>2
    <3>2. ASSUME NEW w
          PROVE (\E k \in DOMAIN work' : work'[k].type = t /\ work'[k].devices = w)
                <=> (\E k \in DOMAIN work : work[k].type = t /\ work[k].devices = w)
      BY ZenonT(60), <1>1, <1>2, <2>2
    <3>3. (\E k \in DOMAIN work' : work'[k].type = t) <=> (\E k \in DOMAIN work : work[k].type = t)
      BY <1>1, <1>2, <2>2
    <3> QED
      BY <3>1, <3>2, <3>3 DEF Leads
  <2> QED
    BY <2>1, <2>2
<1>6. WorkFits'
  <2>1. \A j, k \in DOMAIN work' : work'[j].type = work'[k].type => j = k
    <3> SUFFICES ASSUME NEW j \in DOMAIN work', NEW k \in DOMAIN work',
                        work'[j].type = work'[k].type
                 PROVE  j = k
      OBVIOUS
    <3>1. j + 1 = k + 1
      BY <1>2, <1>3
    <3> QED
      BY <1>1, <1>2, <3>1
  <2>2. ASSUME NEW k \in DOMAIN work'
        PROVE  /\ work'[k].op = "add" <=> servers'[work'[k].type] = Nil
               /\ work'[k].op = "remove" <=> work'[k].devices = Nil
    <3>1. /\ work[k + 1].op = "add" <=> servers[work[k + 1].type] = Nil
          /\ work[k + 1].op = "remove" <=> work[k + 1].devices = Nil
      BY <1>2 DEF UpdateInvariant, WorkFits
    <3>2. servers'[work'[k].type] = Nil <=> servers[work'[k].type] = Nil
      BY <1>4
    <3> QED
      BY <1>2, <3>1, <3>2
  <2> QED
    BY <2>1, <2>2 DEF WorkFits
<1>7. OfferFits' /\ TreeFits'
  BY <1>5 DEF UpdateInvariant, OfferFits, TreeFits
<1> QED
  BY <1>6, <1>7 DEF UpdateInvariant

\* What the invariant says of the operation at hand.
LEMMA AtHand ==
  ASSUME UpdateInvariant, work # <<>>, NEW o, o = Head(work)
  PROVE  /\ o \in Operation /\ o.type \in Type /\ Tail(work) \in Seq(Operation)
         /\ o.op = "add" <=> servers[o.type] = Nil
         /\ o.op = "remove" <=> o.devices = Nil
         /\ o.op # "remove" => o.devices \in Info
<1>1. work \in Seq(Operation)
  BY DEF UpdateInvariant, PluginTypeOK
<1>2. 1 \in DOMAIN work /\ o = work[1] /\ o \in Operation /\ Tail(work) \in Seq(Operation)
  BY <1>1
<1>3. o.type \in Type /\ o.devices \in Info \cup {Nil}
  BY <1>2 DEF Operation
<1>4. /\ o.op = "add" <=> servers[o.type] = Nil
      /\ o.op = "remove" <=> o.devices = Nil
  BY <1>2 DEF UpdateInvariant, WorkFits
<1> QED
  BY <1>2, <1>3, <1>4

\* The servers in the map are different for different types.
LEMMA MapInjective ==
  ASSUME UpdateInvariant, NEW t \in Type, servers[t] # Nil
  PROVE  /\ servers[t] \in Id /\ server[servers[t]] # Nil
         /\ server[servers[t]].type = t /\ servers[t] =< launches
         /\ \A u \in Type \ {t} : servers[u] # servers[t]
<1>1. \A u \in Type : servers[u] # Nil =>
        /\ servers[u] \in Id /\ server[servers[u]] # Nil
        /\ server[servers[u]].type = u /\ servers[u] =< launches
  BY DEF UpdateInvariant, PluginTypeOK, ServersKnown
<1> QED
  BY <1>1

LEMMA ServerAdded ==
  ASSUME UpdateInvariant, work # <<>>, AddServer(Head(work)) PROVE UpdateInvariant'
<1>1. PICK o : o = Head(work)
  OBVIOUS
<1>2. /\ o.type \in Type /\ Tail(work) \in Seq(Operation) /\ o.op = "add"
      /\ servers[o.type] = Nil /\ o.devices \in Info
  BY <1>1, AtHand DEF AddServer
<1> DEFINE i == launches + 1
           c == <<o.devices>>
           n == [NewServer(o.type) EXCEPT !.chan = c]
<1>3. /\ launches \in Nat /\ launches < MaxServers /\ launches' = i /\ i \in Id /\ i # Nil
      /\ servers' = [servers EXCEPT ![o.type] = i]
      /\ server' = [server EXCEPT ![i] = n] /\ work' = Tail(work)
      /\ UNCHANGED <<bus, tree, offer, socket, kubelet, busChanges, kubeletRestarts>>
  BY <1>1, KaeAssumption DEF AddServer, UpdateInvariant, PluginTypeOK, Id
<1>4. /\ n \in Server /\ n.type = o.type /\ n.chan = <<o.devices>> /\ n.chan # <<>>
      /\ n.chan[1] = o.devices /\ Len(n.chan) = 1 /\ n # Nil
  <2>1. <<o.devices>> \in Seq(Info) /\ <<>> \in Seq(Handler)
    BY <1>2
  <2>2. c \in Seq(Info) /\ c # <<>> /\ c[1] = o.devices /\ Len(c) = 1
    BY <1>2
  <2> HIDE DEF c
  <2>3. NewServer(o.type) \in Server
    BY <1>2, <2>1 DEF NewServer, Server, Serve
  <2>4. n \in Server /\ n.chan = c /\ n.type = o.type
    BY <2>2, <2>3 DEF Server, NewServer
  <2>5. n # Nil
    BY <2>4, KaeAssumption
  <2> HIDE DEF n
  <2> QED
    BY <2>2, <2>4, <2>5 DEF c
<1> HIDE DEF n, i
<1>5. PluginTypeOK'
  <2>1. server' \in [Id -> Server \cup {Nil}] /\ servers' \in [Type -> Id \cup {Nil}]
    BY <1>3, <1>4 DEF UpdateInvariant, PluginTypeOK
  <2>2. \A j \in Id : server'[j] # Nil => Len(server'[j].chan) =< 1
    <3>1. \A j \in Id : server[j] # Nil => Len(server[j].chan) =< 1
      BY DEF UpdateInvariant, PluginTypeOK
    <3>2. \A j \in Id : server'[j] = IF j = i THEN n ELSE server[j]
      BY <1>3 DEF UpdateInvariant, PluginTypeOK
    <3>3. ASSUME NEW j \in Id, server'[j] # Nil PROVE Len(server'[j].chan) =< 1
      <4>1. CASE j = i
        <5>1. server'[j] = n
          BY <3>2, <4>1
        <5>2. Len(n.chan) = 1
          BY <1>4
        <5>3. Len(server'[j].chan) = 1
          BY ONLY <5>1, <5>2
        <5> QED
          BY <5>3
      <4>2. CASE j # i
        BY <3>3, <3>1, <3>2, <4>2
      <4> QED
        BY <4>1, <4>2
    <3> QED
      BY <3>3
  <2>3. launches' \in 0..MaxServers
    BY <1>3 DEF Id
  <2> QED
    BY <1>2, <1>3, <2>1, <2>2, <2>3 DEF UpdateInvariant, PluginTypeOK
<1>6. servers'[o.type] = i /\ server'[i] = n /\ \A u \in Type \ {o.type} : servers'[u] = servers[u]
  BY <1>2, <1>3 DEF UpdateInvariant, PluginTypeOK
<1>7. HeldDevices(o.type)' = o.devices
  BY <1>3, <1>4, <1>6 DEF HeldDevices
<1>8. ASSUME NEW u \in Type \ {o.type}
      PROVE  /\ HeldDevices(u)' = HeldDevices(u)
             /\ servers[u] # Nil => server'[servers[u]] = server[servers[u]]
  <2>1. servers[u] # Nil => servers[u] \in Id /\ servers[u] # i
    <3>1. servers[u] # Nil => servers[u] \in Id /\ servers[u] =< launches
      BY MapInjective
    <3> QED
      BY <1>3, <3>1 DEF i, Id
  <2>2. servers[u] # Nil => server'[servers[u]] = server[servers[u]]
    BY <1>3, <2>1 DEF UpdateInvariant, PluginTypeOK
  <2> QED
    BY <1>6, <2>2 DEF HeldDevices
<1>9. ServersKnown'
  <2> SUFFICES ASSUME NEW u \in Type, servers'[u] # Nil
               PROVE  /\ server'[servers'[u]] # Nil /\ server'[servers'[u]].type = u
                      /\ servers'[u] =< launches' /\ HeldDevices(u)' # Nil
    BY DEF ServersKnown
  <2>1. CASE u = o.type
    <3>1. HeldDevices(u)' # Nil
      BY <1>2, <1>7, <2>1, KaeAssumption
    <3>2. i =< launches'
      BY <1>3 DEF Id
    <3> QED
      BY <1>4, <1>6, <2>1, <3>1, <3>2
  <2>2. CASE u # o.type
    <3>1. servers'[u] = servers[u] /\ servers[u] \in Id /\ servers[u] =< launches
          /\ server[servers[u]] # Nil /\ server[servers[u]].type = u
      BY <1>6, <2>2, MapInjective
    <3>2. servers[u] =< launches'
      BY <1>3, <3>1 DEF i, Id
    <3>3. HeldDevices(u) # Nil
      BY <3>1, <1>6, <2>2 DEF UpdateInvariant, ServersKnown
    <3> QED
      BY <1>8, <2>2, <3>1, <3>2, <3>3
  <2> QED
    BY <2>1, <2>2
<1>10. \A u \in Type \ {o.type} : HeldDevices(u)' = HeldDevices(u) /\ (servers'[u] = Nil <=> servers[u] = Nil)
  BY <1>6, <1>8
<1> QED
  BY <1>1, <1>3, <1>5, <1>7, <1>9, <1>10, OperationDone

LEMMA ServerUpdated ==
  ASSUME UpdateInvariant, work # <<>>, UpdateServer(Head(work)) PROVE UpdateInvariant'
<1>1. PICK o : o = Head(work)
  OBVIOUS
<1> DEFINE i == servers[o.type]
<1>2. /\ o.type \in Type /\ Tail(work) \in Seq(Operation) /\ o.op = "update"
      /\ i # Nil /\ o.devices \in Info
  BY <1>1, AtHand DEF UpdateServer
<1>3. CASE \E how : Dies(how)
  BY <1>3, DeathForgets
<1>4. CASE /\ HasRoom(i) /\ server' = [server EXCEPT ![i].chan = Append(@, o.devices)]
           /\ work' = Tail(work)
           /\ UNCHANGED <<bus, tree, offer, servers, launches, socket, kubelet,
                          died, busChanges, kubeletRestarts>>
  <2> DEFINE s == server[i]
             n == [s EXCEPT !.chan = Append(@, o.devices)]
  <2>1. i \in Id /\ s # Nil /\ s.type = o.type /\ \A u \in Type \ {o.type} : servers[u] # i
    BY <1>2, MapInjective
  <2>2. s \in Server /\ s.chan = <<>>
    BY <1>4, <2>1, ServerParts DEF UpdateInvariant, HasRoom
  <2>3. server' = [server EXCEPT ![i] = n]
    BY <1>4
  <2>4. Append(s.chan, o.devices) = <<o.devices>> /\ <<o.devices>> \in Seq(Info)
    BY <1>2, <2>2
  <2> HIDE DEF s
  <2>5. /\ n \in Server /\ n.type = o.type /\ n.chan = <<o.devices>>
    BY <2>1, <2>2, <2>4 DEF Server
  <2>6. n.chan # <<>> /\ n.chan[1] = o.devices /\ Len(n.chan) = 1 /\ n # Nil
    <3> HIDE DEF n
    <3>1. n # Nil
      BY <2>5, KaeAssumption
    <3> QED
      BY <2>5, <3>1
  <2> HIDE DEF n
  <2>7. PluginTypeOK'
    <3>1. server' \in [Id -> Server \cup {Nil}]
      BY <2>3, <2>5 DEF UpdateInvariant, PluginTypeOK
    <3>2. \A j \in Id : server'[j] # Nil => Len(server'[j].chan) =< 1
      <4>1. \A j \in Id : server[j] # Nil => Len(server[j].chan) =< 1
        BY DEF UpdateInvariant, PluginTypeOK
      <4>2. \A j \in Id : server'[j] = IF j = i THEN n ELSE server[j]
        BY <2>3 DEF UpdateInvariant, PluginTypeOK
      <4>3. ASSUME NEW j \in Id, server'[j] # Nil PROVE Len(server'[j].chan) =< 1
        <5>1. CASE j = i
          <6>1. server'[j] = n
            BY <4>2, <5>1
          <6>2. Len(n.chan) = 1
            BY <2>6
          <6>3. Len(server'[j].chan) = 1
            BY ONLY <6>1, <6>2
          <6> QED
            BY <6>3
        <5>2. CASE j # i
          BY <4>3, <4>1, <4>2, <5>2
        <5> QED
          BY <5>1, <5>2
      <4> QED
        BY <4>3
    <3> QED
      BY <1>2, <1>4, <3>1, <3>2 DEF UpdateInvariant, PluginTypeOK
  <2>8. server'[i] = n /\ \A j \in Id \ {i} : server'[j] = server[j]
    BY <2>1, <2>3 DEF UpdateInvariant, PluginTypeOK
  <2>9. HeldDevices(o.type)' = o.devices
    BY <1>2, <1>4, <2>6, <2>8 DEF HeldDevices
  <2>10. ASSUME NEW u \in Type \ {o.type} PROVE HeldDevices(u)' = HeldDevices(u)
    <3>1. servers[u] # Nil => server'[servers[u]] = server[servers[u]]
      BY <2>1, <2>8, MapInjective
    <3>2. servers' = servers
      BY <1>4
    <3> QED
      BY <3>1, <3>2 DEF HeldDevices
  <2>11. ServersKnown'
    <3> SUFFICES ASSUME NEW u \in Type, servers'[u] # Nil
                 PROVE  /\ server'[servers'[u]] # Nil /\ server'[servers'[u]].type = u
                        /\ servers'[u] =< launches' /\ HeldDevices(u)' # Nil
      BY DEF ServersKnown
    <3>1. servers'[u] = servers[u] /\ servers[u] \in Id /\ servers[u] =< launches'
          /\ server[servers[u]] # Nil /\ server[servers[u]].type = u /\ HeldDevices(u) # Nil
      BY <1>4, MapInjective DEF UpdateInvariant, ServersKnown
    <3>2. CASE u = o.type
      <4>1. HeldDevices(u)' # Nil
        BY <1>2, <2>9, <3>2, KaeAssumption
      <4> QED
        BY <2>5, <2>6, <2>8, <3>1, <3>2, <4>1
    <3>3. CASE u # o.type
      BY <2>1, <2>8, <2>10, <3>1, <3>3
    <3> QED
      BY <3>2, <3>3
  <2> HIDE DEF i
  <2>12. /\ work' = Tail(work) /\ UNCHANGED <<tree, offer>>
         /\ \A u \in Type \ {o.type} : HeldDevices(u)' = HeldDevices(u) /\ (servers'[u] = Nil <=> servers[u] = Nil)
    BY <1>4, <2>10
  <2> QED
    BY <1>1, <2>7, <2>9, <2>11, <2>12, OperationDone
<1> QED
  BY <1>1, <1>3, <1>4 DEF UpdateServer

LEMMA ServerRemoved ==
  ASSUME UpdateInvariant, work # <<>>, RemoveServer(Head(work)) PROVE UpdateInvariant'
<1>1. PICK o : o = Head(work)
  OBVIOUS
<1> DEFINE i == servers[o.type]
<1>2. /\ o.type \in Type /\ Tail(work) \in Seq(Operation) /\ o.op = "remove"
      /\ i # Nil /\ o.devices = Nil
  BY <1>1, AtHand DEF RemoveServer
<1>3. CASE \E how : Dies(how)
  BY <1>3, DeathForgets
<1>4. CASE /\ servers' = [servers EXCEPT ![o.type] = Nil] /\ work' = Tail(work)
           /\ IF server[i].grpc = "none"
                THEN UNCHANGED <<server, socket, kubelet>>
                ELSE server' = [server EXCEPT ![i] = Stopped(@)] /\ Unplugged(i)
           /\ UNCHANGED <<bus, tree, offer, launches, died, busChanges, kubeletRestarts>>
  <2>1. /\ i \in Id /\ server[i] # Nil /\ server[i] \in Server /\ Len(server[i].chan) =< 1
        /\ \A u \in Type \ {o.type} : servers[u] # i
    <3>1. i \in Id /\ server[i] # Nil /\ \A u \in Type \ {o.type} : servers[u] # i
      BY <1>2, MapInjective
    <3> QED
      BY <3>1, ServerParts DEF UpdateInvariant
  <2>2. /\ server' \in [Id -> Server \cup {Nil}]
        /\ \A j \in Id \ {i} : server'[j] = server[j]
        /\ server'[i] # Nil => Len(server'[i].chan) =< 1
    <3>1. CASE UNCHANGED server
      <4>1. server \in [Id -> Server \cup {Nil}]
        BY DEF UpdateInvariant, PluginTypeOK
      <4>2. server' = server
        BY <3>1
      <4> QED
        BY <2>1, <4>1, <4>2
    <3>2. CASE server' = [server EXCEPT ![i] = Stopped(@)]
      <4>1. Stopped(server[i]) \in Server /\ Stopped(server[i]).chan = server[i].chan
        BY <2>1, StoppedTypes
      <4>2. /\ server'[i] = Stopped(server[i]) /\ \A j \in Id \ {i} : server'[j] = server[j]
            /\ server' \in [Id -> Server \cup {Nil}]
        BY <2>1, <3>2, <4>1 DEF UpdateInvariant, PluginTypeOK
      <4> QED
        BY <2>1, <4>1, <4>2
    <3> QED
      BY <1>4, <3>1, <3>2
  <2>3. socket' \in [Type -> Id \cup {Nil}] /\ kubelet' \in [Type -> (SUBSET Device) \cup {Nil}]
    <3>1. CASE Unplugged(i)
      BY <2>1, <3>1, UnpluggedTypes DEF UpdateInvariant
    <3>2. CASE UNCHANGED <<socket, kubelet>>
      BY <3>2 DEF UpdateInvariant, PluginTypeOK
    <3> QED
      BY <1>4, <3>1, <3>2
  <2>4. PluginTypeOK'
    <3>1. \A j \in Id : server'[j] # Nil => Len(server'[j].chan) =< 1
      BY <2>2 DEF UpdateInvariant, PluginTypeOK
    <3>2. servers' \in [Type -> Id \cup {Nil}]
      BY <1>4 DEF UpdateInvariant, PluginTypeOK
    <3> QED
      BY <1>2, <1>4, <2>2, <2>3, <3>1, <3>2 DEF UpdateInvariant, PluginTypeOK
  <2>5. servers'[o.type] = Nil /\ \A u \in Type \ {o.type} : servers'[u] = servers[u]
    BY <1>2, <1>4 DEF UpdateInvariant, PluginTypeOK
  <2>6. HeldDevices(o.type)' = o.devices
    BY <1>2, <2>5 DEF HeldDevices
  <2>7. ASSUME NEW u \in Type \ {o.type}
        PROVE  /\ HeldDevices(u)' = HeldDevices(u)
               /\ servers[u] # Nil => server'[servers[u]] = server[servers[u]]
    <3>1. servers[u] # Nil => server'[servers[u]] = server[servers[u]]
      BY <2>1, <2>2, MapInjective
    <3> QED
      BY <2>5, <3>1 DEF HeldDevices
  <2>8. ServersKnown'
    <3> SUFFICES ASSUME NEW u \in Type, servers'[u] # Nil
                 PROVE  /\ server'[servers'[u]] # Nil /\ server'[servers'[u]].type = u
                        /\ servers'[u] =< launches' /\ HeldDevices(u)' # Nil
      BY DEF ServersKnown
    <3>1. u # o.type /\ servers'[u] = servers[u] /\ launches' = launches
      BY <1>4, <2>5
    <3>2. servers[u] =< launches /\ server[servers[u]] # Nil /\ server[servers[u]].type = u
          /\ HeldDevices(u) # Nil
      BY <3>1 DEF UpdateInvariant, ServersKnown
    <3> QED
      BY <2>7, <3>1, <3>2
  <2>9. /\ work' = Tail(work) /\ UNCHANGED <<tree, offer>>
        /\ \A u \in Type \ {o.type} : HeldDevices(u)' = HeldDevices(u) /\ (servers'[u] = Nil <=> servers[u] = Nil)
    BY <1>4, <2>5, <2>7
  <2> QED
    BY <1>1, <2>4, <2>6, <2>8, <2>9, OperationDone
<1> QED
  BY <1>1, <1>3, <1>4 DEF RemoveServer

LEMMA UpdateStep == UpdateInvariant /\ [PluginNext]_pluginVars => UpdateInvariant'
<1> SUFFICES ASSUME UpdateInvariant, [PluginNext]_pluginVars PROVE UpdateInvariant'
  OBVIOUS
<1>1. CASE BusChanges \/ KubeletRestarts \/ Notify \/ TakeUpdate
  BY <1>1, ChangeOfBus, RestartOfKubelet, NewOffer, OfferTaken
<1>2. CASE HandleUpdate
  BY <1>2, ServerAdded, ServerUpdated, ServerRemoved DEF HandleUpdate
<1>3. ASSUME NEW i \in Id, ServerStep(i) PROVE UpdateInvariant'
  BY <1>3, ServerSteps
<1>4. CASE UNCHANGED pluginVars
  <2>1. PluginTypeOK'
    BY <1>4 DEF pluginVars, UpdateInvariant, PluginTypeOK
  <2> QED
    BY <1>4, <2>1, SameDevices DEF pluginVars, UpdateInvariant, ServersKnown, HeldDevices
<1> QED
  BY <1>1, <1>2, <1>3, <1>4 DEF PluginNext

\* Every part of the plugin's state keeps its type, through deaths of the process
\* and restarts of the kubelet: a channel never holds more than one update.
THEOREM PluginTypeCorrect == PluginSpec => []PluginTypeOK
<1>1. UpdateInvariant => PluginTypeOK
  BY DEF UpdateInvariant
<1> QED
  BY <1>1, UpdateInit, UpdateStep, PTL DEF PluginSpec

\* No update is lost between the scanner, the loop (handleUpdate) and the channel
\* of capacity one (Update, ListAndWatch), for any number of types, devices and
\* servers.
THEOREM NoUpdateIsLost == PluginSpec => []NoUpdateLost
<1>1. UpdateInvariant => NoUpdateLost
  <2> SUFFICES ASSUME UpdateInvariant, NEW t \in Type, ~Pending(t)
               PROVE  IF servers[t] = Nil THEN tree[t] = Nil
                      ELSE tree[t] = IF server[servers[t]].chan = <<>>
                                       THEN server[servers[t]].devices
                                       ELSE server[servers[t]].chan[1]
    BY DEF NoUpdateLost
  <2>1. Leads(t, tree[t])
    BY DEF UpdateInvariant, OfferFits, TreeFits, Pending
  <2>2. HeldDevices(t) = tree[t]
    BY <2>1 DEF Leads, Pending
  <2> QED
    BY <2>2 DEF HeldDevices
<1> QED
  BY <1>1, UpdateInit, UpdateStep, PTL DEF PluginSpec

--------------------------------------------------------------------------------
(***************************************************************************)
(* The pcore-binding agent.                                                  *)
(***************************************************************************)
USE PodsAreOrdered, PairsAreOrdered, FaultsAreBounded

\* targetCpuset returns a pair no pod before has been given in this pass.
LEMMA TargetIsFree ==
  ASSUME NEW current, NEW t, TargetCpuset(current, t)
  PROVE  t \in Pair \ Occupied
  BY DEF TargetCpuset

\* The loop deals with one pod at a time.
LEMMA NextIsUnique ==
  ASSUME NEW p \in Pod, NEW q \in Pod, IsNext(p), IsNext(q)
  PROVE  p = q
  BY DEF IsNext

--------------------------------------------------------------------------------
(***************************************************************************)
(* The inductive invariant: what a pass in progress relies on.             *)
(***************************************************************************)
Deciding == phase \in {"compare", "compareNext", "write"}

\* The pod being dealt with has a target.
TargetChosen ==
  Deciding => \A p \in Pod : IsNext(p) => target[p] \in Pair

\* Targets have been chosen for pods before those that remain, and for the one
\* being dealt with.
TargetsInOrder ==
  \A p \in Pod : \A r \in remaining :
    target[p] # NoPair => p < r \/ (p = r /\ Deciding)

\* A pod about to leave the pair of its parent cgroup leaves it to a pod before it.
LeavesToEarlier ==
  Deciding =>
    \A p \in Pod :
      IsNext(p) /\ cpuset[p][1] \in Pair /\ cpuset[p][1] # target[p]
      => \E q \in Pod : q < p /\ target[q] = cpuset[p][1]

PassInvariant == TypeOK /\ TargetChosen /\ TargetsInOrder /\ LeavesToEarlier

--------------------------------------------------------------------------------
(***************************************************************************)
(* Every step preserves the types.                                         *)
(***************************************************************************)

\* The events of the runtime and the steps of the agent keep every part of the
\* state in its range; a target, in particular, is always a pair.
LEMMA EventTypeOK ==
  ASSUME TypeOK, NEW p \in Pod,
         \/ RunPodSandbox(p) \/ StopPodSandbox(p) \/ RemovePodSandbox(p)
         \/ SandboxCgroupAppears(p)
         \/ \E f \in File : OverwriteCpuset(p, f)
  PROVE  TypeOK'
<1>1. CASE RunPodSandbox(p)
  BY <1>1 DEF TypeOK, RunPodSandbox, Changed, callbackVars, passVars, File
<1>2. CASE StopPodSandbox(p)
  BY <1>2 DEF TypeOK, StopPodSandbox, Changed, callbackVars, passVars
<1>3. CASE RemovePodSandbox(p)
  BY <1>3 DEF TypeOK, RemovePodSandbox, Changed, callbackVars, passVars
<1>4. CASE SandboxCgroupAppears(p)
  BY <1>4 DEF TypeOK, SandboxCgroupAppears, callbackVars, passVars, File
<1>5. ASSUME NEW f \in File, OverwriteCpuset(p, f) PROVE TypeOK'
  BY <1>5 DEF TypeOK, OverwriteCpuset, Fault, callbackVars, passVars
<1> QED
  BY <1>1, <1>2, <1>3, <1>4, <1>5

LEMMA PassTypeOK ==
  ASSUME TypeOK, TargetChosen, PassStep
  PROVE  TypeOK'
<1>1. CASE Tick
  BY <1>1 DEF TypeOK, Tick, envVars, callbackVars
<1>2. CASE ReceiveRequest
  BY <1>2 DEF TypeOK, ReceiveRequest, envVars, callbackVars
<1>3. CASE ListPods
  BY <1>3 DEF TypeOK, ListPods, AfterPod, NoTarget, envVars, callbackVars
<1>4. ASSUME NEW p \in Pod, SkipPod(p) PROVE TypeOK'
  BY <1>4 DEF TypeOK, SkipPod, Continue, AfterPod, envVars, callbackVars
<1>5. ASSUME NEW p \in Pod, ChooseTarget(p) PROVE TypeOK'
  BY <1>5, TargetIsFree DEF TypeOK, ChooseTarget, Existing, envVars, callbackVars
<1>6. ASSUME NEW p \in Pod, NEW f \in File, NeedsCpusetUpdate(p, f) PROVE TypeOK'
  BY <1>6 DEF TypeOK, NeedsCpusetUpdate, Continue, AfterPod, envVars, callbackVars
<1>7. ASSUME NEW p \in Pod, NEW f \in File, WriteCpuset(p, f) PROVE TypeOK'
  <2>1. target[p] \in Pair
    BY <1>7 DEF TargetChosen, Deciding, WriteCpuset
  <2>2. cpuset' \in [Pod -> [File -> Pair \cup {Wide, Absent}]] /\ faults' \in 0..MaxFaults
    BY <1>7, <2>1 DEF TypeOK, WriteCpuset, Fault
  <2>3. remaining' \subseteq Pod /\ files' \subseteq File
        /\ phase' \in {"idle", "visit", "write"}
    BY <1>7 DEF TypeOK, WriteCpuset, Continue, AfterPod
  <2> QED
    BY <1>7, <2>2, <2>3 DEF TypeOK, WriteCpuset, callbackVars
<1> QED
  BY <1>1, <1>2, <1>3, <1>4, <1>5, <1>6, <1>7 DEF PassStep

LEMMA StepTypeOK ==
  ASSUME TypeOK, TargetChosen, [Next]_vars
  PROVE  TypeOK'
<1>1. CASE UNCHANGED vars
  BY <1>1 DEF TypeOK, vars
<1>2. CASE RequestReconcile
  BY <1>2 DEF TypeOK, RequestReconcile, envVars, passVars
<1>3. CASE Crash
  <2>1. faults' \in 0..MaxFaults
    BY <1>3 DEF TypeOK, Crash, Fault
  <2>2. target' \in [Pod -> Pair \cup {NoPair}]
    BY <1>3 DEF Crash, NoTarget
  <2> QED
    BY <1>3, <2>1, <2>2 DEF TypeOK, Crash
<1>4. CASE Run
  BY <1>4 DEF TypeOK, Run, envVars, callbackVars, passVars
<1>5. CASE Synchronize
  BY <1>5 DEF TypeOK, Synchronize, envVars, passVars
<1>6. CASE \E p \in Pod :
             \/ RunPodSandbox(p) \/ StopPodSandbox(p) \/ RemovePodSandbox(p)
             \/ SandboxCgroupAppears(p)
             \/ \E f \in File : OverwriteCpuset(p, f)
  BY <1>6, EventTypeOK
<1>7. CASE PassStep
  BY <1>7, PassTypeOK
<1> QED
  BY <1>1, <1>2, <1>3, <1>4, <1>5, <1>6, <1>7 DEF Next

--------------------------------------------------------------------------------
(***************************************************************************)
(* Every step preserves the rest of the invariant.                         *)
(***************************************************************************)

\* Callbacks, connections and foreign writes do not touch the pass.
LEMMA PassUntouched ==
  ASSUME PassInvariant, UNCHANGED passVars,
         \A p \in Pod : cpuset'[p][1] \in Pair => cpuset'[p][1] = cpuset[p][1]
  PROVE  TargetChosen' /\ TargetsInOrder' /\ LeavesToEarlier'
<1>1. TargetChosen' /\ TargetsInOrder'
  BY DEF PassInvariant, TargetChosen, TargetsInOrder, Deciding, IsNext, passVars
<1>2. LeavesToEarlier'
  BY DEF PassInvariant, LeavesToEarlier, Deciding, IsNext, passVars
<1> QED
  BY <1>1, <1>2

\* When the loop goes on to the next pod (continue in reconcileOnce), every
\* target chosen belongs to a pod before those that remain.
LEMMA ContinueInOrder ==
  ASSUME PassInvariant, NEW p \in Pod, IsNext(p), Continue(p), UNCHANGED target
  PROVE  TargetChosen' /\ TargetsInOrder' /\ LeavesToEarlier'
<1>1. ~Deciding'
  BY DEF Continue, AfterPod, Deciding
<1>2. ASSUME NEW q \in Pod, NEW r \in remaining', target'[q] # NoPair
      PROVE  q < r
  <2>1. r \in remaining /\ r # p /\ p <= r /\ r \in Nat
    BY <1>2 DEF Continue, IsNext, PassInvariant, TypeOK
  <2>2. q <= p
    BY <1>2 DEF PassInvariant, TargetsInOrder, IsNext
  <2> QED
    BY <2>1, <2>2
<1> QED
  BY <1>1, <1>2 DEF TargetChosen, TargetsInOrder, LeavesToEarlier

\* targetCpuset: a pod that is not given the pair it runs on finds it taken by a
\* pod before it.
LEMMA ChooseInOrder ==
  ASSUME PassInvariant, NEW p \in Pod, ChooseTarget(p)
  PROVE  TargetChosen' /\ TargetsInOrder' /\ LeavesToEarlier'
<1>0. PICK t \in Pair \cup {Wide} :
        TargetCpuset(Current(p), t) /\ target' = [target EXCEPT ![p] = t]
  BY DEF ChooseTarget
<1>1. /\ IsNext(p) /\ phase = "visit" /\ phase' = "compare"
      /\ remaining' = remaining /\ cpuset' = cpuset
      /\ target \in [Pod -> Pair \cup {NoPair}]
  BY DEF ChooseTarget, PassInvariant, TypeOK, envVars
<1>2. t \in Pair \ Occupied
  BY <1>0, TargetIsFree
<1>3. TargetChosen'
  <2>1. ASSUME NEW q \in Pod, IsNext(q)' PROVE target'[q] \in Pair
    BY <2>1, <1>0, <1>1, <1>2, NextIsUnique DEF IsNext
  <2> QED
    BY <2>1 DEF TargetChosen
<1>4. ASSUME NEW q \in Pod, NEW r \in remaining, target[q] # NoPair PROVE q < r
  BY <1>1, <1>4 DEF PassInvariant, TargetsInOrder, Deciding
<1>5. TargetsInOrder'
  <2>1. ASSUME NEW q \in Pod, NEW r \in remaining', target'[q] # NoPair
        PROVE  q < r \/ (q = r /\ Deciding')
    <3>1. CASE q = p
      BY <3>1, <1>1 DEF IsNext, Deciding, PassInvariant, TypeOK
    <3>2. CASE q # p
      BY <3>2, <2>1, <1>0, <1>1, <1>4
    <3> QED
      BY <3>1, <3>2
  <2> QED
    BY <2>1 DEF TargetsInOrder
<1>6. LeavesToEarlier'
  <2>1. ASSUME NEW q \in Pod, IsNext(q)', cpuset'[q][1] \in Pair, cpuset'[q][1] # target'[q]
        PROVE  \E o \in Pod : o < q /\ target'[o] = cpuset'[q][1]
    <3>1. q = p
      BY <2>1, <1>1, NextIsUnique DEF IsNext
    <3>2. Current(p) = cpuset[p][1] /\ Current(p) \in Pair /\ t # Current(p)
      BY <3>1, <2>1, <1>0, <1>1 DEF Current
    <3>3. PICK o \in Pod : target[o] = Current(p)
      BY <3>2, <1>0 DEF TargetCpuset, Occupied
    <3>4. o < p
      BY <3>2, <3>3, <1>1, <1>4 DEF IsNext
    <3> QED
      BY <3>1, <3>2, <3>3, <3>4, <1>0, <1>1
  <2> QED
    BY <2>1 DEF LeavesToEarlier
<1> QED
  BY <1>3, <1>5, <1>6

\* The rest of the invariant survives every step: the pass is changed only by the
\* loop, one pod after the other.
LEMMA StepInOrder ==
  ASSUME PassInvariant, [Next]_vars
  PROVE  TargetChosen' /\ TargetsInOrder' /\ LeavesToEarlier'
<1> DEFINE P == TargetChosen' /\ TargetsInOrder' /\ LeavesToEarlier'
<1> USE DEF PassInvariant
<1>t. cpuset \in [Pod -> [File -> Pair \cup {Wide, Absent}]] /\ 1 \in File
  BY DEF TypeOK, File
<1>1. CASE UNCHANGED vars
  BY <1>1, PassUntouched DEF vars, passVars
<1>2. CASE RequestReconcile \/ Run \/ Synchronize
  BY <1>2, PassUntouched DEF RequestReconcile, Run, Synchronize, envVars
<1>3. ASSUME NEW p \in Pod, RunPodSandbox(p) PROVE P
  BY <1>3, <1>t, PassUntouched DEF RunPodSandbox
<1>4. ASSUME NEW p \in Pod, StopPodSandbox(p) PROVE P
  BY <1>4, PassUntouched DEF StopPodSandbox
<1>5. ASSUME NEW p \in Pod, RemovePodSandbox(p) PROVE P
  BY <1>5, <1>t, PassUntouched DEF RemovePodSandbox
<1>6. ASSUME NEW p \in Pod, SandboxCgroupAppears(p) PROVE P
  BY <1>6, <1>t, PassUntouched DEF SandboxCgroupAppears
<1>7. ASSUME NEW p \in Pod, NEW f \in File, OverwriteCpuset(p, f) PROVE P
  BY <1>7, <1>t, PassUntouched DEF OverwriteCpuset
<1>8. CASE Crash
  BY <1>8 DEF Crash, NoTarget, TargetChosen, TargetsInOrder, LeavesToEarlier, Deciding
<1>9. CASE Tick \/ ReceiveRequest
  BY <1>9 DEF Tick, ReceiveRequest, TargetChosen, TargetsInOrder, LeavesToEarlier, Deciding
<1>10. CASE ListPods
  BY <1>10 DEF ListPods, AfterPod, NoTarget, TargetChosen, TargetsInOrder,
               LeavesToEarlier, Deciding
<1>11. ASSUME NEW p \in Pod, SkipPod(p) PROVE P
  BY <1>11, ContinueInOrder DEF SkipPod
<1>12. ASSUME NEW p \in Pod, ChooseTarget(p) PROVE P
  BY <1>12, ChooseInOrder
<1>13. ASSUME NEW p \in Pod, NEW f \in File, NeedsCpusetUpdate(p, f) PROVE P
  <2>1. CASE Continue(p)
    BY <2>1, <1>13, ContinueInOrder DEF NeedsCpusetUpdate
  <2>2. CASE phase' \in {"compareNext", "write"} /\ UNCHANGED <<remaining, files>>
    BY <2>2, <1>13 DEF NeedsCpusetUpdate, envVars, TargetChosen, TargetsInOrder,
                       LeavesToEarlier, Deciding, IsNext
  <2> QED
    BY <1>13, <2>1, <2>2 DEF NeedsCpusetUpdate
<1>14. ASSUME NEW p \in Pod, NEW f \in File, WriteCpuset(p, f) PROVE P
  <2>1. CASE Continue(p)
    BY <2>1, <1>14, ContinueInOrder DEF WriteCpuset
  <2>2. CASE UNCHANGED <<remaining, phase>>
    <3>1. /\ UNCHANGED target /\ IsNext(p) /\ Deciding
          /\ cpuset' = cpuset \/ cpuset' = [cpuset EXCEPT ![p][f] = target[p]]
      BY <1>14 DEF WriteCpuset, Deciding
    <3>2. ASSUME NEW q \in Pod, IsNext(q), cpuset'[q][1] # target[q]
          PROVE  cpuset'[q][1] = cpuset[q][1]
      BY <3>1, <3>2, <1>t, NextIsUnique
    <3>3. LeavesToEarlier'
      BY <3>1, <3>2, <2>2 DEF LeavesToEarlier, Deciding, IsNext
    <3> QED
      BY <3>1, <3>3, <2>2 DEF TargetChosen, TargetsInOrder, Deciding, IsNext
  <2> QED
    BY <1>14, <2>1, <2>2 DEF WriteCpuset
<1> QED
  BY <1>1, <1>2, <1>3, <1>4, <1>5, <1>6, <1>7, <1>8, <1>9, <1>10, <1>11, <1>12, <1>13, <1>14
  DEF Next, PassStep

--------------------------------------------------------------------------------
(***************************************************************************)
(* The theorems.                                                           *)
(***************************************************************************)

\* The invariant of the passes holds throughout.
THEOREM PassInvariantHolds == Spec => []PassInvariant
<1>1. Init => PassInvariant
  <2> SUFFICES ASSUME Init PROVE PassInvariant
    OBVIOUS
  <2>1. cpuset \in [Pod -> [File -> Pair \cup {Wide, Absent}]]
        /\ target \in [Pod -> Pair \cup {NoPair}]
    BY DEF Init, NoTarget
  <2>2. sandboxes \in [Pod -> {"none", "ready", "stopped", "removed"}] /\ faults \in 0..MaxFaults
    BY DEF Init
  <2>3. TypeOK
    BY <2>1, <2>2, Zenon DEF Init, TypeOK
  <2>4. TargetChosen /\ TargetsInOrder /\ LeavesToEarlier
    BY DEF Init, TargetChosen, TargetsInOrder, LeavesToEarlier, Deciding
  <2> QED
    BY <2>3, <2>4 DEF PassInvariant
<1>2. PassInvariant /\ [Next]_vars => PassInvariant'
  BY StepTypeOK, StepInOrder DEF PassInvariant
<1> QED
  BY <1>1, <1>2, PTL DEF Spec

\* Every part of the agent's and the runtime's state keeps its type; what is
\* written to a cpuset file, in particular, is a sibling pair.
THEOREM PcoreTypeCorrect == Spec => []TypeOK
<1>1. PassInvariant => TypeOK
  BY DEF PassInvariant
<1> QED
  BY <1>1, PassInvariantHolds, PTL

\* reconcileOnce never plans the same pair for two pods, however pods come and
\* go and files change while it runs.
THEOREM NoPairTwice == Spec => []TargetsDistinct
<1>1. Init => TargetsDistinct
  BY DEF Init, NoTarget, TargetsDistinct
<1>2. TypeOK /\ TargetsDistinct /\ [Next]_vars => TargetsDistinct'
  <2> SUFFICES ASSUME TypeOK, TargetsDistinct, [Next]_vars PROVE TargetsDistinct'
    OBVIOUS
  <2>1. ASSUME NEW p \in Pod, ChooseTarget(p) PROVE TargetsDistinct'
    <3>1. PICK t : t \in Pair \ Occupied /\ target' = [target EXCEPT ![p] = t]
      BY <2>1, TargetIsFree DEF ChooseTarget
    <3>2. ASSUME NEW q \in Pod, target[q] # NoPair PROVE target[q] # t
      BY <3>1, <3>2 DEF Occupied
    <3> QED
      BY <3>1, <3>2 DEF TargetsDistinct, TypeOK
  <2>2. CASE target' = target
    BY <2>2 DEF TargetsDistinct
  <2>3. CASE target' = NoTarget
    BY <2>3 DEF TargetsDistinct, NoTarget
  <2>4. (\E p \in Pod : ChooseTarget(p)) \/ target' = target \/ target' = NoTarget
    BY DEF Next, PassStep, RunPodSandbox, StopPodSandbox, RemovePodSandbox,
           SandboxCgroupAppears, OverwriteCpuset, RequestReconcile, Crash, Run,
           Synchronize, Tick, ReceiveRequest, ListPods, SkipPod, NeedsCpusetUpdate,
           WriteCpuset, passVars, vars
  <2> QED
    BY <2>1, <2>2, <2>3, <2>4
<1> QED
  BY <1>1, <1>2, PcoreTypeCorrect, PTL DEF Spec

\* requestReconcile may drop its request when the channel is full: a change of
\* the pods is never overlooked, even without the ticker.
THEOREM NoChangeIsMissed == Spec => []ChangeIsPending
<1>1. Init => ChangeIsPending
  BY DEF Init, ChangeIsPending
<1>2. ChangeIsPending /\ [Next]_vars => ChangeIsPending'
  <2> SUFFICES ASSUME ChangeIsPending, [Next]_vars PROVE ChangeIsPending'
    OBVIOUS
  <2> USE DEF ChangeIsPending
  <2>1. CASE UNCHANGED <<pods, listed, wake, asking, phase>>
    BY <2>1
  <2>2. CASE UNCHANGED <<pods, listed, wake, asking>> /\ phase # "list"
    BY <2>2
  <2>3. ASSUME NEW p \in Pod, RunPodSandbox(p) \/ StopPodSandbox(p) \/ RemovePodSandbox(p)
        PROVE  ChangeIsPending'
    <3>1. CASE agent = "up"
      BY <2>3, <3>1 DEF RunPodSandbox, StopPodSandbox, RemovePodSandbox, Changed
    <3>2. CASE agent # "up"
      BY <2>1, <2>3, <3>2 DEF RunPodSandbox, StopPodSandbox, RemovePodSandbox, Changed,
                              callbackVars, passVars
    <3> QED
      BY <3>1, <3>2
  <2>4. ASSUME NEW p \in Pod, NEW f \in File, SandboxCgroupAppears(p) \/ OverwriteCpuset(p, f)
        PROVE  ChangeIsPending'
    BY <2>1, <2>4 DEF SandboxCgroupAppears, OverwriteCpuset, callbackVars, passVars
  <2>5. CASE RequestReconcile \/ Run
    BY <2>5 DEF RequestReconcile, Run
  <2>6. CASE Crash
    BY <2>6 DEF Crash
  <2>7. CASE Synchronize
    BY <2>7 DEF Synchronize
  <2>8. CASE Tick \/ ReceiveRequest
    BY <2>8 DEF Tick, ReceiveRequest
  <2>9. CASE ListPods
    BY <2>9 DEF ListPods, callbackVars
  <2>10. ASSUME NEW p \in Pod, NEW f \in File,
               SkipPod(p) \/ ChooseTarget(p) \/ NeedsCpusetUpdate(p, f) \/ WriteCpuset(p, f)
        PROVE  ChangeIsPending'
    BY <2>2, <2>10 DEF SkipPod, ChooseTarget, NeedsCpusetUpdate, WriteCpuset, callbackVars
  <2>11. CASE UNCHANGED vars
    BY <2>1, <2>11 DEF vars
  <2>12. 1 \in File
    BY DEF File
  <2> HIDE DEF ChangeIsPending
  <2> QED
    BY <2>3, <2>4, <2>5, <2>6, <2>7, <2>8, <2>9, <2>10, <2>11, <2>12 DEF Next, PassStep
<1> QED
  BY <1>1, <1>2, PTL DEF Spec

\* A pod leaves its pair only to a pod before it in the order of listPods
\* (targetCpuset keeps the current pair otherwise).
THEOREM PairIsKept == Spec => KeepsPair
<1> DEFINE Kept ==
      \A p \in Pod :
        cpuset[p][1] \in Pair /\ cpuset'[p][1] \in Pair /\ cpuset'[p][1] # cpuset[p][1]
        => \E q \in Pod : q < p /\ target[q] = cpuset[p][1]
<1>1. PassInvariant /\ [Next]_vars => [Kept]_vars
  <2> SUFFICES ASSUME PassInvariant, [Next]_vars PROVE [Kept]_vars
    OBVIOUS
  <2>t. cpuset \in [Pod -> [File -> Pair \cup {Wide, Absent}]] /\ 1 \in File
    BY DEF PassInvariant, TypeOK, File
  <2>1. ASSUME NEW p \in Pod, NEW f \in File, WriteCpuset(p, f) PROVE Kept
    <3>1. ASSUME NEW o \in Pod, cpuset[o][1] \in Pair, cpuset'[o][1] # cpuset[o][1]
          PROVE  o = p /\ cpuset'[o][1] = target[p]
      BY <2>1, <2>t, <3>1 DEF WriteCpuset
    <3>2. IsNext(p) /\ Deciding
      BY <2>1 DEF WriteCpuset, Deciding
    <3> QED
      BY <3>1, <3>2 DEF PassInvariant, LeavesToEarlier
  <2>2. CASE \A o \in Pod : cpuset'[o][1] \in Pair => cpuset'[o][1] = cpuset[o][1]
    BY <2>2
  <2>3. CASE UNCHANGED vars
    BY <2>3
  <2>4. \/ \E p \in Pod : \E f \in File : WriteCpuset(p, f)
        \/ UNCHANGED vars
        \/ \A o \in Pod : cpuset'[o][1] \in Pair => cpuset'[o][1] = cpuset[o][1]
    <3>1. ASSUME NEW p \in Pod, NEW f \in File,
                 \/ RunPodSandbox(p) \/ RemovePodSandbox(p)
                 \/ SandboxCgroupAppears(p) \/ OverwriteCpuset(p, f)
          PROVE  \A o \in Pod : cpuset'[o][1] \in Pair => cpuset'[o][1] = cpuset[o][1]
      BY <3>1, <2>t DEF RunPodSandbox, RemovePodSandbox, SandboxCgroupAppears, OverwriteCpuset
    <3>2. CASE cpuset' = cpuset
      BY <3>2
    <3> QED
      BY <2>t, <3>1, <3>2
      DEF Next, PassStep, StopPodSandbox, RequestReconcile, Crash, Run, Synchronize,
          Tick, ReceiveRequest, ListPods, SkipPod, ChooseTarget, NeedsCpusetUpdate, envVars
  <2> QED
    BY <2>1, <2>2, <2>3, <2>4
<1> QED
  BY <1>1, PassInvariantHolds, PTL DEF Spec, KeepsPair
====================================================================================
