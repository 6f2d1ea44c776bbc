----------------------------- MODULE QosControllers_proofs -----------------------------
(***************************************************************************)
(* The QoS controller for any number of nodes, writes and faults: type      *)
(* correctness; an instance with nothing left to do has the group its node   *)
(* should have; a pod whose reconcile is done has what the policy says; a    *)
(* deletion is not forgotten.  And dynamic control beside it: type         *)
(* correctness, and that no write of its overwrites an edit.                *)
(***************************************************************************)
EXTENDS QosController, DynamicControl, SequenceTheorems, TLAPS

--------------------------------------------------------------------------------
(***************************************************************************)
(* Types                                                                    *)
(***************************************************************************)
LEMMA ValuesInReach ==
  ASSUME TypeOK
  PROVE  /\ policy # None => policy \in Policy
         /\ \A n \in Node : /\ cached[n] # None => cached[n] \in Policy
                            /\ at[n] # None => at[n] \in Policy
                            /\ watch[n] \in Seq(Policy \cup {None})
                            /\ group[n] # None => group[n] \in Group
                            /\ level[n] \in QosLevel
         /\ writes \in Nat /\ faults \in Nat
  BY QosAssumption DEF TypeOK

LEMMA PublishTypes ==
  ASSUME TypeOK, NEW p \in Policy \cup {None}, Publish(p)
  PROVE  /\ policy' \in Policy \cup {None}
         /\ watch' \in [Node -> Seq(Policy \cup {None})]
         /\ \A n \in Node : watch'[n] = Append(watch[n], p)
  BY DEF TypeOK, Publish

\* A new version of the policy is a policy.
LEMMA VersionsArePolicies ==
  ASSUME NEW p \in Policy
  PROVE  /\ \A s \in Specs : [p EXCEPT !.spec = s, !.generation = @ + 1] \in Policy
         /\ [p EXCEPT !.deleting = TRUE] \in Policy
         /\ \A b \in BOOLEAN : [p EXCEPT !.finalizer = b] \in Policy
<1>1. ASSUME NEW s \in Specs PROVE [p EXCEPT !.spec = s, !.generation = @ + 1] \in Policy
  <2>1. p.generation + 1 \in Nat
    BY DEF Policy
  <2>2. \A g \in Nat : [p EXCEPT !.spec = s, !.generation = g] \in Policy
    BY DEF Policy
  <2> QED
    BY <2>1, <2>2
<1>2. [p EXCEPT !.deleting = TRUE] \in Policy
  BY DEF Policy
<1>3. ASSUME NEW b \in BOOLEAN PROVE [p EXCEPT !.finalizer = b] \in Policy
  BY DEF Policy
<1> QED
  BY <1>1, <1>2, <1>3

\* What is written to a group is a group, also in part.
LEMMA AppliedIsGroup ==
  ASSUME NEW g \in Group \cup {None}, NEW s \in Specs, NEW k \in Int
  PROVE  Applied(g, s, k) \in Group
<1>1. Ensured(g) \in Group
  BY DEF Ensured, Group
<1> QED
  BY <1>1 DEF Applied, Group

\* The whole configuration is written in full: every supported item is one of
\* those that ApplyConfig knows.
LEMMA AppliedInFull ==
  ASSUME NEW g, NEW s \in Specs
  PROVE  Applied(g, s, Len(SchemataItems)) = [i \in SupportedKeys |-> s.config]
<1>1. Len(SchemataItems) = 8
  BY DEF SchemataItems
<1>2. \A i \in SupportedKeys : \E j \in 1..8 : SchemataItems[j] = i
  BY QosAssumption
<1> QED
  BY <1>1, <1>2 DEF Applied

LEMMA TypesInit == QosInit => TypeOK
  BY QosAssumption DEF QosInit, TypeOK, QosLevel

\* A user's write publishes a version of the policy.
LEMMA UserSteps ==
  ASSUME TypeOK, \/ \E s \in Specs : CreatePolicy(s) \/ EditPolicy(s)
                 \/ DeletePolicy
  PROVE  /\ \E p \in Policy \cup {None} : UserWrites(p)
         /\ writes' \in 0..MaxWrites
<1>1. ASSUME NEW p \in Policy \cup {None}, UserWrites(p)
      PROVE  /\ \E q \in Policy \cup {None} : UserWrites(q)
             /\ writes' \in 0..MaxWrites
  <2>1. writes' \in 0..MaxWrites
    BY <1>1, QosAssumption DEF UserWrites, TypeOK
  <2> QED
    BY <1>1, <2>1
<1>2. ASSUME NEW s \in Specs, CreatePolicy(s)
      PROVE  \E p \in Policy : UserWrites(p)
  <2>1. [uid |-> writes + 1, generation |-> 1, spec |-> s,
         deleting |-> FALSE, finalizer |-> FALSE] \in Policy
    BY ValuesInReach DEF Policy
  <2> QED
    BY <1>2, <2>1 DEF CreatePolicy
<1>3. ASSUME NEW s \in Specs, EditPolicy(s)
      PROVE  \E p \in Policy : UserWrites(p)
  <2>1. policy \in Policy
    BY <1>3, ValuesInReach DEF EditPolicy
  <2>2. [policy EXCEPT !.spec = s, !.generation = @ + 1] \in Policy
    BY <2>1, VersionsArePolicies
  <2>3. UserWrites([policy EXCEPT !.spec = s, !.generation = @ + 1])
    BY <1>3 DEF EditPolicy
  <2> QED
    BY <2>2, <2>3
<1>4. ASSUME DeletePolicy
      PROVE  \E p \in Policy \cup {None} : UserWrites(p)
  <2>1. policy \in Policy
    BY <1>4, ValuesInReach DEF DeletePolicy
  <2>2. [policy EXCEPT !.deleting = TRUE] \in Policy
    BY <2>1, VersionsArePolicies
  <2>3. \/ UserWrites(None)
        \/ UserWrites([policy EXCEPT !.deleting = TRUE])
    BY <1>4 DEF DeletePolicy
  <2> QED
    BY <2>2, <2>3
<1> QED
  BY <1>1, <1>2, <1>3, <1>4

\* removeFinalizerWithRetry and ensureFinalizerWithRetry.
LEMMA FinalizerSteps ==
  ASSUME TypeOK, NEW n \in Node, RemoveFinalizer(n) \/ EnsureFinalizer(n)
  PROVE  \/ UNCHANGED apiVars
         \/ /\ policy \in Policy /\ policy.finalizer /\ RemoveFinalizer(n)
            /\ \/ policy.deleting /\ Publish(None)
               \/ /\ ~policy.deleting
                  /\ [policy EXCEPT !.finalizer = FALSE] \in Policy
                  /\ Publish([policy EXCEPT !.finalizer = FALSE])
         \/ /\ policy \in Policy /\ ~policy.finalizer /\ ~policy.deleting
            /\ EnsureFinalizer(n)
            /\ [policy EXCEPT !.finalizer = TRUE] \in Policy
            /\ Publish([policy EXCEPT !.finalizer = TRUE])
<1>1. policy # None => /\ policy \in Policy
                       /\ policy.deleting \in BOOLEAN /\ policy.finalizer \in BOOLEAN
                       /\ \A b \in BOOLEAN : [policy EXCEPT !.finalizer = b] \in Policy
  BY ValuesInReach, VersionsArePolicies DEF Policy
<1>2. CASE RemoveFinalizer(n)
  BY <1>1, <1>2 DEF RemoveFinalizer, LacksFinalizer
<1>3. CASE EnsureFinalizer(n)
  BY <1>1, <1>3 DEF EnsureFinalizer, RefusesFinalizer
<1> QED
  BY <1>2, <1>3

\* An informer's event: a version, or the present one, becomes the cached copy.
LEMMA DeliverTypes ==
  ASSUME TypeOK, NEW n \in Node, NEW new \in Policy \cup {None}, Deliver(n, new)
  PROVE  /\ cached' \in [Node -> Policy \cup {None}]
         /\ queued' \in [Node -> BOOLEAN] /\ podQueued' \in [Node -> BOOLEAN]
         /\ missed' \in [Node -> BOOLEAN] /\ unnoticed' \in [Node -> BOOLEAN]
<1>1. /\ WantsReconcile(cached[n], new) \in BOOLEAN
      /\ WantsPods(cached[n], new, n) \in BOOLEAN
      /\ Replaced(cached[n], new) \in BOOLEAN
      /\ LeavesOut(cached[n], new, n) \in BOOLEAN
  BY DEF WantsReconcile, WantsPods, Replaced, LeavesOut
<1> QED
  BY <1>1 DEF Deliver, TypeOK

LEMMA WatchTypes ==
  ASSUME TypeOK, NEW n \in Node, watch[n] # <<>>
  PROVE  /\ Head(watch[n]) \in Policy \cup {None}
         /\ [watch EXCEPT ![n] = Tail(@)] \in [Node -> Seq(Policy \cup {None})]
<1>1. watch[n] \in Seq(Policy \cup {None})
  BY ValuesInReach
<1>2. Head(watch[n]) \in Policy \cup {None} /\ Tail(watch[n]) \in Seq(Policy \cup {None})
  BY <1>1
<1> QED
  BY <1>2 DEF TypeOK

\* What one instance's steps do to the values it writes.
LEMMA ReconcileTypes ==
  ASSUME TypeOK, NEW n \in Node,
         \/ Begin(n) \/ Cleanup(n) \/ CleanupFails(n) \/ RemoveFinalizer(n)
         \/ EnsureFinalizer(n) \/ Configure(n) \/ ConfigureFails(n)
  PROVE  /\ queued' \in [Node -> BOOLEAN]
         /\ pc' \in [Node -> {"idle", "finalizer", "configure", "cleanup", "cleaned"}]
         /\ at' \in [Node -> Policy \cup {None}]
         /\ bound' \in [Node -> BOOLEAN] /\ dropped' \in [Node -> BOOLEAN]
         /\ missed' \in [Node -> BOOLEAN]
         /\ UNCHANGED <<cached, podQueued, podPc, level, unnoticed, writes, faults>>
<1>1. CASE Begin(n)
  BY <1>1 DEF Begin, KeepGroup, Others, TypeOK
<1>2. CASE Cleanup(n) \/ CleanupFails(n)
  BY <1>2 DEF Cleanup, CleanupFails, RemoveGroup, Requeue, KeepGroup, Unshared, Others, TypeOK
<1>3. CASE RemoveFinalizer(n)
  BY <1>3 DEF RemoveFinalizer, Finish, Requeue, KeepGroup, Unshared, Others, TypeOK
<1>4. CASE EnsureFinalizer(n)
  BY <1>4 DEF EnsureFinalizer, Requeue, KeepGroup, Unshared, Others, TypeOK
<1>5. CASE Configure(n) \/ ConfigureFails(n)
  BY <1>5 DEF Configure, ConfigureFails, RemoveGroup, Finish, Requeue, Unshared, Others, TypeOK
<1> QED
  BY <1>1, <1>2, <1>3, <1>4, <1>5

\* Whoever configures a group has a copy of the policy.
CopyInHand ==
  \A n \in Node : pc[n] \in {"finalizer", "configure"} => at[n] # None

LEMMA GroupTypes ==
  ASSUME TypeOK, CopyInHand, NEW n \in Node,
         \/ Begin(n) \/ Cleanup(n) \/ CleanupFails(n) \/ RemoveFinalizer(n)
         \/ EnsureFinalizer(n) \/ Configure(n) \/ ConfigureFails(n)
  PROVE  group' \in [Node -> Group \cup {None}]
<1>1. \/ UNCHANGED group
      \/ group' = [group EXCEPT ![n] = None]
      \/ /\ pc[n] = "configure"
         /\ \E k \in Int : group' = [group EXCEPT ![n] = Applied(group[n], at[n].spec, k)]
  <2>1. CASE Configure(n)
    <3>1. Len(SchemataItems) \in Int
      BY DEF SchemataItems
    <3> QED
      BY <2>1, <3>1 DEF Configure, RemoveGroup, TypeOK
  <2>2. CASE ConfigureFails(n)
    <3>1. 1..Len(SchemataItems) \subseteq Int
      OBVIOUS
    <3>2. \A k \in Int : k - 1 \in Int
      OBVIOUS
    <3> QED
      BY <2>2, <3>1, <3>2 DEF ConfigureFails, TypeOK
  <2> QED
    BY <2>1, <2>2
       DEF Begin, Cleanup, CleanupFails, RemoveFinalizer, EnsureFinalizer, RemoveGroup, KeepGroup
<1>2. CASE pc[n] = "configure" /\ \E k \in Int :
             group' = [group EXCEPT ![n] = Applied(group[n], at[n].spec, k)]
  <2>1. at[n].spec \in Specs
    BY <1>2, ValuesInReach DEF CopyInHand, Policy
  <2>2. \A k \in Int : Applied(group[n], at[n].spec, k) \in Group
    BY <2>1, AppliedIsGroup DEF TypeOK
  <2> QED
    BY <1>2, <2>2 DEF TypeOK
<1> QED
  BY <1>1, <1>2 DEF TypeOK
LEMMA PodTypes ==
  ASSUME TypeOK, NEW n \in Node, PodStarts(n) \/ BindPod(n) \/ SetLevel(n) \/ SetLevelFails(n)
  PROVE  /\ podQueued' \in [Node -> BOOLEAN] /\ podPc' \in [Node -> {"idle", "level"}]
         /\ bound' \in [Node -> BOOLEAN] /\ dropped' \in [Node -> BOOLEAN]
         /\ unnoticed' \in [Node -> BOOLEAN] /\ level' \in [Node -> QosLevel]
         /\ faults' \in 0..MaxFaults
         /\ UNCHANGED <<apiVars, cached, reconcileVars, missed, writes>>
<1>1. CASE PodStarts(n)
  BY <1>1, QosAssumption DEF PodStarts, TypeOK, QosLevel
<1>2. CASE BindPod(n)
  BY <1>2 DEF BindPod, podVars, TypeOK
<1>3. CASE SetLevel(n)
  <2>1. cached[n] # None => cached[n].spec.level \in QosLevel
    BY ValuesInReach, QosAssumption DEF Policy
  <2>2. /\ level' \in [Node -> QosLevel]
    BY <1>3, <2>1, ValuesInReach DEF SetLevel, NewLevel, TypeOK
  <2> QED
    BY <1>3, <2>2 DEF SetLevel, TypeOK
<1>4. CASE SetLevelFails(n)
  BY <1>4 DEF SetLevelFails, TypeOK
<1> QED
  BY <1>1, <1>2, <1>3, <1>4

LEMMA TypesStep ==
  ASSUME TypeOK, CopyInHand, [QosNext]_qosVars
  PROVE  TypeOK'
<1>1. CASE (\E s \in Specs : CreatePolicy(s) \/ EditPolicy(s)) \/ DeletePolicy
  <2>1. PICK p \in Policy \cup {None} : UserWrites(p)
    BY <1>1, UserSteps
  <2>2. writes' \in 0..MaxWrites
    BY <1>1, UserSteps
  <2>3. /\ policy' \in Policy \cup {None}
        /\ watch' \in [Node -> Seq(Policy \cup {None})]
    BY <2>1, PublishTypes DEF UserWrites
  <2> QED
    BY <2>1, <2>2, <2>3 DEF UserWrites, reconcileVars, podVars, TypeOK
<1>2. ASSUME NEW n \in Node, Observe(n)
      PROVE  TypeOK'
  <2>1. /\ Head(watch[n]) \in Policy \cup {None}
        /\ watch' \in [Node -> Seq(Policy \cup {None})]
    BY <1>2, WatchTypes DEF Observe
  <2>2. Deliver(n, Head(watch[n])) /\ UNCHANGED faults
    BY <1>2 DEF Observe
  <2>3. /\ cached' \in [Node -> Policy \cup {None}]
        /\ queued' \in [Node -> BOOLEAN] /\ podQueued' \in [Node -> BOOLEAN]
        /\ missed' \in [Node -> BOOLEAN] /\ unnoticed' \in [Node -> BOOLEAN]
    BY <2>1, <2>2, DeliverTypes
  <2>4. UNCHANGED <<policy, pc, at, group, podPc, bound, level, dropped, writes, faults>>
    BY <2>2 DEF Deliver
  <2> QED
    BY <2>1, <2>3, <2>4 DEF TypeOK
<1>3. ASSUME NEW n \in Node, Relist(n)
      PROVE  TypeOK'
  <2>1. policy \in Policy \cup {None} /\ Deliver(n, policy)
    BY <1>3 DEF Relist, TypeOK
  <2>2. /\ watch' \in [Node -> Seq(Policy \cup {None})]
        /\ faults' \in 0..MaxFaults
    BY <1>3, QosAssumption DEF Relist, TypeOK
  <2>3. /\ cached' \in [Node -> Policy \cup {None}]
        /\ queued' \in [Node -> BOOLEAN] /\ podQueued' \in [Node -> BOOLEAN]
        /\ missed' \in [Node -> BOOLEAN] /\ unnoticed' \in [Node -> BOOLEAN]
    BY <2>1, DeliverTypes
  <2>4. UNCHANGED <<policy, pc, at, group, podPc, bound, level, dropped, writes>>
    BY <2>1 DEF Deliver
  <2> QED
    BY <2>2, <2>3, <2>4 DEF TypeOK
<1>4. ASSUME NEW n \in Node,
             \/ Begin(n) \/ Cleanup(n) \/ CleanupFails(n) \/ RemoveFinalizer(n)
             \/ EnsureFinalizer(n) \/ Configure(n) \/ ConfigureFails(n)
      PROVE  TypeOK'
  <2>1. group' \in [Node -> Group \cup {None}]
    BY <1>4, GroupTypes
  <2>2. /\ policy' \in Policy \cup {None}
        /\ watch' \in [Node -> Seq(Policy \cup {None})]
    <3>1. UNCHANGED apiVars \/ \E p \in Policy \cup {None} : Publish(p)
      <4>1. CASE RemoveFinalizer(n) \/ EnsureFinalizer(n)
        BY <4>1, FinalizerSteps
      <4> QED
        BY <1>4, <4>1 DEF Begin, Cleanup, CleanupFails, Configure, ConfigureFails
    <3>2. CASE UNCHANGED apiVars
      BY <3>2 DEF apiVars, TypeOK
    <3>3. CASE \E p \in Policy \cup {None} : Publish(p)
      BY <3>3, PublishTypes
    <3> QED
      BY <3>1, <3>2, <3>3
  <2>3. /\ queued' \in [Node -> BOOLEAN]
        /\ pc' \in [Node -> {"idle", "finalizer", "configure", "cleanup", "cleaned"}]
        /\ at' \in [Node -> Policy \cup {None}]
        /\ bound' \in [Node -> BOOLEAN] /\ dropped' \in [Node -> BOOLEAN]
        /\ missed' \in [Node -> BOOLEAN]
        /\ UNCHANGED <<cached, podQueued, podPc, level, unnoticed, writes, faults>>
    BY <1>4, ReconcileTypes
  <2> QED
    BY <2>1, <2>2, <2>3 DEF TypeOK
<1>5. ASSUME NEW n \in Node, PodStarts(n) \/ BindPod(n) \/ SetLevel(n) \/ SetLevelFails(n)
      PROVE  TypeOK'
  <2>1. /\ podQueued' \in [Node -> BOOLEAN] /\ podPc' \in [Node -> {"idle", "level"}]
        /\ bound' \in [Node -> BOOLEAN] /\ dropped' \in [Node -> BOOLEAN]
        /\ unnoticed' \in [Node -> BOOLEAN] /\ level' \in [Node -> QosLevel]
        /\ faults' \in 0..MaxFaults
        /\ UNCHANGED <<apiVars, cached, reconcileVars, missed, writes>>
    BY <1>5, PodTypes
  <2> QED
    BY <2>1 DEF apiVars, reconcileVars, TypeOK
<1>6. ASSUME NEW n \in Node, Restart(n)
      PROVE  TypeOK'
  <2>1. faults' \in 0..MaxFaults
    BY <1>6, QosAssumption DEF Restart, TypeOK
  <2> QED
    BY <1>6, <2>1 DEF Restart, TypeOK
<1>7. CASE UNCHANGED qosVars
  BY <1>7 DEF qosVars, TypeOK
<1> QED
  BY <1>1, <1>2, <1>3, <1>4, <1>5, <1>6, <1>7 DEF QosNext, NodeStep

LEMMA CopyStep ==
  ASSUME TypeOK, CopyInHand, [QosNext]_qosVars
  PROVE  CopyInHand'
<1>1. CASE (\E s \in Specs : CreatePolicy(s) \/ EditPolicy(s)) \/ DeletePolicy
  <2>1. PICK p \in Policy \cup {None} : UserWrites(p)
    BY <1>1, UserSteps
  <2> QED
    BY <2>1 DEF UserWrites, reconcileVars, CopyInHand
<1>2. ASSUME NEW n \in Node, Observe(n) \/ Relist(n)
      PROVE  CopyInHand'
  BY <1>2 DEF Observe, Relist, Deliver, CopyInHand
<1>3. ASSUME NEW n \in Node, Begin(n)
      PROVE  CopyInHand'
  BY <1>3 DEF Begin, CopyInHand, TypeOK
<1>4. ASSUME NEW n \in Node, Cleanup(n) \/ CleanupFails(n) \/ EnsureFinalizer(n)
      PROVE  CopyInHand'
  BY <1>4 DEF Cleanup, CleanupFails, EnsureFinalizer, Requeue, CopyInHand, TypeOK
<1>5. ASSUME NEW n \in Node, RemoveFinalizer(n) \/ Configure(n) \/ ConfigureFails(n)
      PROVE  CopyInHand'
  BY <1>5 DEF RemoveFinalizer, Configure, ConfigureFails, Finish, Requeue, CopyInHand, TypeOK
<1>6. ASSUME NEW n \in Node, PodStarts(n) \/ BindPod(n) \/ SetLevel(n) \/ SetLevelFails(n)
      PROVE  CopyInHand'
  BY <1>6, PodTypes DEF reconcileVars, CopyInHand
<1>7. ASSUME NEW n \in Node, Restart(n)
      PROVE  CopyInHand'
  BY <1>7 DEF Restart, CopyInHand, TypeOK
<1>8. CASE UNCHANGED qosVars
  BY <1>8 DEF qosVars, CopyInHand
<1> QED
  BY <1>1, <1>2, <1>3, <1>4, <1>5, <1>6, <1>7, <1>8 DEF QosNext, NodeStep

LEMMA CopyInit == QosInit => CopyInHand
  BY DEF QosInit, CopyInHand

\* Every step keeps the object, its versions and the instances' state in their
\* ranges, whatever is partly written or patched late.
THEOREM QosTypeCorrect == QosSpec => []TypeOK
<1>1. TypeOK /\ CopyInHand /\ [QosNext]_qosVars => (TypeOK /\ CopyInHand)'
  BY TypesStep, CopyStep
<1> QED
  BY TypesInit, CopyInit, <1>1, PTL DEF QosSpec
--------------------------------------------------------------------------------
(***************************************************************************)
(* The history of the policy as an instance sees it: its cached copy, the    *)
(* versions on their way, and the object, in this order.                    *)
(***************************************************************************)
\* a may come before b: uids and generations tell specifications apart, and a
\* deletion is not taken back.
Continues(a, b) ==
  a # None /\ b # None =>
    /\ a.uid =< b.uid
    /\ a.uid = b.uid =>
         /\ a.generation =< b.generation
         /\ a.generation = b.generation => a.spec = b.spec
         /\ a.deleting => b.deleting

\* An object that is being deleted still has its finalizer.
Sound(x, count) ==
  x # None => x.uid =< count /\ (x.deleting => x.finalizer)

HistoryOf(n) ==
  /\ Sound(cached[n], writes) /\ Continues(cached[n], policy)
  /\ \A i \in DOMAIN watch[n] : /\ Sound(watch[n][i], writes)
                                /\ Continues(cached[n], watch[n][i])
                                /\ Continues(watch[n][i], policy)
  /\ \A i, j \in DOMAIN watch[n] : i < j => Continues(watch[n][i], watch[n][j])
  /\ watch[n] = <<>> => cached[n] = policy
  /\ watch[n] # <<>> => watch[n][Len(watch[n])] = policy

HistoryInvariant ==
  /\ TypeOK /\ CopyInHand
  /\ Sound(policy, writes)
  /\ \A n \in Node : HistoryOf(n)

LEMMA HistoryInit == QosInit => HistoryInvariant
  BY TypesInit, CopyInit DEF QosInit, HistoryInvariant, HistoryOf, Sound, Continues

LEMMA ElementTypes ==
  ASSUME TypeOK, NEW n \in Node
  PROVE  /\ DOMAIN watch[n] = 1..Len(watch[n]) /\ Len(watch[n]) \in Nat
         /\ \A i \in DOMAIN watch[n] : watch[n][i] # None => watch[n][i] \in Policy
         /\ watch[n] # <<>> => Len(watch[n]) \in DOMAIN watch[n] /\ Len(watch[n]) >= 1
<1>1. watch[n] \in Seq(Policy \cup {None})
  BY ValuesInReach
<1> QED
  BY <1>1

\* What may be published next.
MayFollow(p) ==
  /\ Sound(p, writes')
  /\ \A x \in Policy : x.uid =< writes /\ Continues(x, policy) => Continues(x, p)

LEMMA UserPublishes ==
  ASSUME TypeOK, Sound(policy, writes),
         (\E s \in Specs : CreatePolicy(s) \/ EditPolicy(s)) \/ DeletePolicy
  PROVE  \E p \in Policy \cup {None} : UserWrites(p) /\ MayFollow(p)
<1>0. writes \in Nat
  BY ValuesInReach
<1>1. ASSUME NEW s \in Specs, CreatePolicy(s)
      PROVE  \E p \in Policy : UserWrites(p) /\ MayFollow(p)
  <2> DEFINE p == [uid |-> writes + 1, generation |-> 1, spec |-> s,
                   deleting |-> FALSE, finalizer |-> FALSE]
  <2>1. p \in Policy
    BY <1>0 DEF Policy
  <2>2. UserWrites(p) /\ writes' = writes + 1
    BY <1>1 DEF CreatePolicy, UserWrites
  <2>3. p.uid = writes + 1 /\ ~p.deleting
    OBVIOUS
  <2>4. MayFollow(p)
    <3> HIDE DEF p
    <3>1. \A x \in Policy : x.uid \in Nat
      BY DEF Policy
    <3> QED
      BY <1>0, <2>2, <2>3, <3>1 DEF MayFollow, Sound, Continues
  <2> QED
    BY <2>1, <2>2, <2>4
<1>2. ASSUME NEW s \in Specs, EditPolicy(s)
      PROVE  \E p \in Policy : UserWrites(p) /\ MayFollow(p)
  <2> DEFINE p == [policy EXCEPT !.spec = s, !.generation = @ + 1]
  <2>1. policy \in Policy /\ policy # None
    BY <1>2, ValuesInReach DEF EditPolicy
  <2>2. p \in Policy
    BY <2>1, VersionsArePolicies
  <2>3. UserWrites(p) /\ writes' = writes + 1
    BY <1>2 DEF EditPolicy, UserWrites
  <2>4. /\ p.uid = policy.uid /\ p.generation = policy.generation + 1
        /\ p.deleting = policy.deleting /\ p.finalizer = policy.finalizer
    BY <2>1 DEF Policy
  <2>5. MayFollow(p)
    <3> HIDE DEF p
    <3>1. \A x \in Policy : x.uid \in Nat /\ x.generation \in Nat
      BY DEF Policy
    <3> QED
      BY <1>0, <2>1, <2>2, <2>3, <2>4, <3>1 DEF MayFollow, Sound, Continues
  <2> QED
    BY <2>2, <2>3, <2>5
<1>3. ASSUME DeletePolicy
      PROVE  \E p \in Policy \cup {None} : UserWrites(p) /\ MayFollow(p)
  <2>1. policy \in Policy /\ policy # None
    BY <1>3, ValuesInReach DEF DeletePolicy
  <2>2. CASE ~policy.finalizer
    <3>1. UserWrites(None)
      BY <1>3, <2>2 DEF DeletePolicy
    <3> QED
      BY <3>1 DEF MayFollow, Sound, Continues
  <2>3. CASE policy.finalizer
    <3> DEFINE p == [policy EXCEPT !.deleting = TRUE]
    <3>1. p \in Policy
      BY <2>1, VersionsArePolicies
    <3>2. UserWrites(p) /\ writes' = writes + 1
      BY <1>3, <2>3 DEF DeletePolicy, UserWrites
    <3>3. /\ p.uid = policy.uid /\ p.generation = policy.generation
          /\ p.spec = policy.spec /\ p.deleting /\ p.finalizer
      BY <2>1, <2>3 DEF Policy
    <3>4. MayFollow(p)
      <4> HIDE DEF p
      <4>1. \A x \in Policy : x.uid \in Nat /\ x.generation \in Nat
        BY DEF Policy
      <4> QED
        BY <1>0, <2>1, <3>1, <3>2, <3>3, <4>1 DEF MayFollow, Sound, Continues
    <3> QED
      BY <3>1, <3>2, <3>4
  <2> QED
    BY <2>2, <2>3
<1> QED
  BY <1>1, <1>2, <1>3

\* A patch of the finalizer leaves the rest of the object as it is.
LEMMA PatchContinues ==
  ASSUME TypeOK, Sound(policy, writes), policy \in Policy, policy # None,
         NEW b \in BOOLEAN, policy.deleting => b, UNCHANGED writes
  PROVE  MayFollow([policy EXCEPT !.finalizer = b])
<1> DEFINE p == [policy EXCEPT !.finalizer = b]
<1>1. /\ p.uid = policy.uid /\ p.generation = policy.generation
      /\ p.spec = policy.spec /\ p.deleting = policy.deleting /\ p.finalizer = b
  BY DEF Policy
<1> HIDE DEF p
<1>2. MayFollow(p)
  BY <1>1, ValuesInReach DEF MayFollow, Sound, Continues
<1> QED
  BY <1>2 DEF p

LEMMA InstancePublishes ==
  ASSUME TypeOK, Sound(policy, writes), NEW n \in Node,
         RemoveFinalizer(n) \/ EnsureFinalizer(n)
  PROVE  \/ UNCHANGED apiVars
         \/ \E p \in Policy \cup {None} : Publish(p) /\ MayFollow(p)
<1>1. UNCHANGED writes
  BY ReconcileTypes
<1>2. CASE Publish(None)
  BY <1>2 DEF MayFollow, Sound, Continues
<1>3. CASE /\ policy \in Policy /\ policy # None /\ ~policy.deleting
           /\ [policy EXCEPT !.finalizer = FALSE] \in Policy
           /\ Publish([policy EXCEPT !.finalizer = FALSE])
  BY <1>1, <1>3, PatchContinues
<1>4. CASE /\ policy \in Policy /\ policy # None /\ ~policy.deleting
           /\ [policy EXCEPT !.finalizer = TRUE] \in Policy
           /\ Publish([policy EXCEPT !.finalizer = TRUE])
  BY <1>1, <1>4, PatchContinues
<1>5. policy # None \/ UNCHANGED apiVars
  BY DEF RemoveFinalizer, EnsureFinalizer, RefusesFinalizer
<1> QED
  BY <1>2, <1>3, <1>4, <1>5, FinalizerSteps
\* A version that may follow makes every history longer.
LEMMA HistoryGrows ==
  ASSUME TypeOK, NEW p \in Policy \cup {None}, Publish(p), MayFollow(p),
         UNCHANGED cached, writes' \in Nat, writes =< writes',
         NEW n \in Node, HistoryOf(n)
  PROVE  HistoryOf(n)'
<1> DEFINE last == Len(watch[n]) + 1
<1>1. policy' = p /\ watch'[n] = Append(watch[n], p) /\ cached'[n] = cached[n]
  BY PublishTypes DEF Publish
<1>2. /\ DOMAIN watch'[n] = 1..last /\ Len(watch'[n]) = last
      /\ \A i \in 1..Len(watch[n]) : watch'[n][i] = watch[n][i]
      /\ watch'[n][last] = p /\ watch'[n] # <<>>
  <2>1. watch[n] \in Seq(Policy \cup {None})
    BY ValuesInReach
  <2>2. /\ Append(watch[n], p) \in Seq(Policy \cup {None}) /\ Append(watch[n], p) # <<>>
        /\ Len(Append(watch[n], p)) = last
        /\ \A i \in 1..Len(watch[n]) : Append(watch[n], p)[i] = watch[n][i]
        /\ Append(watch[n], p)[last] = p
    BY <2>1, AppendProperties
  <2>3. DOMAIN Append(watch[n], p) = 1..last
    BY <2>2, LenProperties
  <2> QED
    BY <1>1, <2>2, <2>3
<1>3. ASSUME NEW x, x # None => x \in Policy, Sound(x, writes), Continues(x, policy)
      PROVE  Sound(x, writes') /\ Continues(x, p)
  <2>1. x # None => x.uid \in Nat
    BY <1>3 DEF Policy
  <2> QED
    BY <1>3, <2>1, ValuesInReach DEF MayFollow, Sound, Continues
<1>4. Sound(cached[n], writes') /\ Continues(cached[n], p)
  BY <1>3, ValuesInReach DEF HistoryOf
<1>5. ASSUME NEW i \in DOMAIN watch[n]
      PROVE  /\ Sound(watch[n][i], writes') /\ Continues(watch[n][i], p)
             /\ Continues(cached[n], watch[n][i])
  BY <1>3, ElementTypes DEF HistoryOf
<1>6. Sound(p, writes')
  BY DEF MayFollow
<1>7. Continues(p, p)
  BY DEF Continues, Policy
<1>8. ASSUME NEW i \in 1..last
      PROVE  /\ Sound(watch'[n][i], writes') /\ Continues(watch'[n][i], p)
             /\ Continues(cached[n], watch'[n][i])
  <2>1. CASE i \in DOMAIN watch[n]
    <3>1. watch'[n][i] = watch[n][i]
      BY <1>2, <2>1, ElementTypes
    <3> QED
      BY <1>5, <2>1, <3>1
  <2>2. CASE i = last
    BY <1>2, <1>4, <1>6, <1>7, <2>2
  <2> QED
    BY <2>1, <2>2, ElementTypes
<1>9. ASSUME NEW i \in 1..last, NEW j \in 1..last, i < j
      PROVE  Continues(watch'[n][i], watch'[n][j])
  <2>1. i \in DOMAIN watch[n] /\ watch'[n][i] = watch[n][i]
    BY <1>2, <1>9, ElementTypes
  <2>2. CASE j \in DOMAIN watch[n]
    <3>1. watch'[n][j] = watch[n][j]
      BY <1>2, <2>2, ElementTypes
    <3> QED
      BY <1>9, <2>1, <2>2, <3>1 DEF HistoryOf
  <2>3. CASE j = last
    BY <1>2, <1>5, <2>1, <2>3
  <2> QED
    BY <2>2, <2>3, ElementTypes
<1>10. Sound(cached[n], writes)' /\ Continues(cached[n], policy)'
  BY <1>1, <1>4 DEF Sound, Continues
<1>11. (\A i \in DOMAIN watch[n] : /\ Sound(watch[n][i], writes)
                                   /\ Continues(cached[n], watch[n][i])
                                   /\ Continues(watch[n][i], policy))'
  BY <1>1, <1>2, <1>8 DEF Sound, Continues
<1>12. (\A i, j \in DOMAIN watch[n] : i < j => Continues(watch[n][i], watch[n][j]))'
  BY <1>2, <1>9 DEF Continues
<1>13. watch'[n] # <<>> /\ watch'[n][Len(watch'[n])] = policy'
  BY <1>1, <1>2
<1> QED
  BY <1>10, <1>11, <1>12, <1>13 DEF HistoryOf

LEMMA HistoryStays ==
  ASSUME NEW n \in Node, HistoryOf(n), UNCHANGED <<policy, writes>>,
         cached'[n] = cached[n], watch'[n] = watch[n]
  PROVE  HistoryOf(n)'
  BY DEF HistoryOf, Sound, Continues

\* The first version on its way becomes the cached copy.
LEMMA HistoryShrinks ==
  ASSUME TypeOK, NEW n \in Node, HistoryOf(n), Observe(n)
  PROVE  HistoryOf(n)'
<1>1. watch[n] # <<>> /\ watch[n] \in Seq(Policy \cup {None})
  BY ValuesInReach DEF Observe
<1>2. /\ watch'[n] = Tail(watch[n]) /\ cached'[n] = watch[n][1]
      /\ UNCHANGED <<policy, writes>>
  BY <1>1 DEF Observe, Deliver, TypeOK
<1>3. /\ Len(watch[n]) \in Nat \ {0} /\ DOMAIN watch[n] = 1..Len(watch[n])
      /\ Len(Tail(watch[n])) = Len(watch[n]) - 1
      /\ DOMAIN Tail(watch[n]) = 1..(Len(watch[n]) - 1)
      /\ \A i \in 1..(Len(watch[n]) - 1) : Tail(watch[n])[i] = watch[n][i + 1]
      /\ Tail(watch[n]) = <<>> <=> Len(watch[n]) = 1
  <2>1. Len(watch[n]) \in Nat \ {0} /\ DOMAIN watch[n] = 1..Len(watch[n])
    BY <1>1, EmptySeq, LenProperties
  <2>2. /\ Tail(watch[n]) \in Seq(Policy \cup {None})
        /\ Len(Tail(watch[n])) = Len(watch[n]) - 1
        /\ \A i \in 1..Len(Tail(watch[n])) : Tail(watch[n])[i] = watch[n][i + 1]
    BY <1>1, HeadTailProperties
  <2>3. /\ DOMAIN Tail(watch[n]) = 1..Len(Tail(watch[n]))
        /\ Tail(watch[n]) = <<>> <=> Len(Tail(watch[n])) = 0
    BY <2>2, EmptySeq, LenProperties
  <2> QED
    BY <2>1, <2>2, <2>3
<1>4. Sound(cached[n], writes)' /\ Continues(cached[n], policy)'
  <2>1. 1 \in DOMAIN watch[n]
    BY <1>3
  <2> QED
    BY <1>2, <2>1 DEF HistoryOf, Sound, Continues
<1>5. ASSUME NEW i \in DOMAIN watch'[n]
      PROVE  /\ Sound(watch'[n][i], writes')
             /\ Continues(cached'[n], watch'[n][i])
             /\ Continues(watch'[n][i], policy')
  <2>1. /\ i + 1 \in DOMAIN watch[n] /\ 1 \in DOMAIN watch[n] /\ 1 < i + 1
        /\ watch'[n][i] = watch[n][i + 1]
    BY <1>2, <1>3
  <2> QED
    BY <1>2, <2>1 DEF HistoryOf
<1>6. ASSUME NEW i \in DOMAIN watch'[n], NEW j \in DOMAIN watch'[n], i < j
      PROVE  Continues(watch'[n][i], watch'[n][j])
  <2>1. /\ i + 1 \in DOMAIN watch[n] /\ j + 1 \in DOMAIN watch[n] /\ i + 1 < j + 1
        /\ watch'[n][i] = watch[n][i + 1] /\ watch'[n][j] = watch[n][j + 1]
    BY <1>2, <1>3, <1>6
  <2> QED
    BY <2>1 DEF HistoryOf
<1>7. (watch[n] = <<>> => cached[n] = policy)'
  <2>1. watch'[n] = <<>> => Len(watch[n]) = 1
    BY <1>2, <1>3
  <2> QED
    BY <1>1, <1>2, <2>1 DEF HistoryOf
<1>8. (watch[n] # <<>> => watch[n][Len(watch[n])] = policy)'
  <2>1. SUFFICES ASSUME watch'[n] # <<>> PROVE watch'[n][Len(watch'[n])] = policy'
    OBVIOUS
  <2>2. Len(watch[n]) - 1 \in 1..(Len(watch[n]) - 1)
    BY <1>2, <1>3, <2>1
  <2>3. watch'[n][Len(watch'[n])] = watch[n][Len(watch[n])]
    BY <1>2, <1>3, <2>2
  <2> QED
    BY <1>1, <1>2, <2>3 DEF HistoryOf
<1>9. (\A i \in DOMAIN watch[n] : /\ Sound(watch[n][i], writes)
                                  /\ Continues(cached[n], watch[n][i])
                                  /\ Continues(watch[n][i], policy))'
  BY <1>5 DEF Sound, Continues
<1>10. (\A i, j \in DOMAIN watch[n] : i < j => Continues(watch[n][i], watch[n][j]))'
  BY <1>6 DEF Continues
<1> QED
  BY <1>4, <1>7, <1>8, <1>9, <1>10 DEF HistoryOf

\* After a list there is nothing but the object itself.
LEMMA HistoryRestarts ==
  ASSUME TypeOK, Sound(policy, writes), NEW n \in Node, UNCHANGED <<policy, writes>>,
         cached'[n] = policy, watch'[n] = <<>>
  PROVE  HistoryOf(n)'
<1>1. Continues(policy, policy)
  BY ValuesInReach DEF Continues, Policy
<1>2. Continues(cached[n], policy)' /\ Sound(cached[n], writes)'
  BY <1>1 DEF Continues, Sound
<1> QED
  BY <1>2 DEF HistoryOf

LEMMA HistoryStep ==
  ASSUME HistoryInvariant, [QosNext]_qosVars
  PROVE  HistoryInvariant'
<1>0. TypeOK' /\ CopyInHand'
  BY TypesStep, CopyStep DEF HistoryInvariant
<1>1. TypeOK /\ Sound(policy, writes) /\ \A n \in Node : HistoryOf(n)
  BY DEF HistoryInvariant
<1> SUFFICES Sound(policy, writes)' /\ \A n \in Node : HistoryOf(n)'
  BY <1>0 DEF HistoryInvariant
<1>2. ASSUME NEW p \in Policy \cup {None}, Publish(p), MayFollow(p), UNCHANGED cached,
             writes' \in Nat, writes =< writes'
      PROVE  Sound(policy, writes)' /\ \A n \in Node : HistoryOf(n)'
  <2>1. Sound(policy, writes)'
    BY <1>2 DEF Publish, MayFollow, Sound
  <2>2. \A n \in Node : HistoryOf(n)'
    BY <1>1, <1>2, HistoryGrows
  <2> QED
    BY <2>1, <2>2
<1>3. CASE (\E s \in Specs : CreatePolicy(s) \/ EditPolicy(s)) \/ DeletePolicy
  <2>1. PICK p \in Policy \cup {None} : UserWrites(p) /\ MayFollow(p)
    BY <1>1, <1>3, UserPublishes
  <2>2. UNCHANGED cached /\ writes' \in Nat /\ writes =< writes' /\ Publish(p)
    BY <1>1, <2>1, ValuesInReach DEF UserWrites
  <2> QED
    BY <1>2, <2>1, <2>2
<1>4. ASSUME UNCHANGED <<policy, writes>>, NEW n \in Node, HistoryOf(n)',
             \A m \in Node \ {n} : cached'[m] = cached[m] /\ watch'[m] = watch[m]
      PROVE  Sound(policy, writes)' /\ \A m \in Node : HistoryOf(m)'
  <2>1. Sound(policy, writes)'
    BY <1>1, <1>4 DEF Sound
  <2>2. \A m \in Node \ {n} : HistoryOf(m)'
    BY <1>1, <1>4, HistoryStays
  <2> QED
    BY <1>4, <2>1, <2>2
<1>5. ASSUME NEW n \in Node, Observe(n)
      PROVE  Sound(policy, writes)' /\ \A m \in Node : HistoryOf(m)'
  <2>1. HistoryOf(n)'
    BY <1>1, <1>5, HistoryShrinks
  <2>2. /\ UNCHANGED <<policy, writes>>
        /\ \A m \in Node \ {n} : cached'[m] = cached[m] /\ watch'[m] = watch[m]
    BY <1>1, <1>5 DEF Observe, Deliver, TypeOK
  <2> QED
    BY <1>4, <2>1, <2>2
<1>6. ASSUME NEW n \in Node, Relist(n) \/ Restart(n)
      PROVE  Sound(policy, writes)' /\ \A m \in Node : HistoryOf(m)'
  <2>1. /\ UNCHANGED <<policy, writes>>
        /\ cached'[n] = policy /\ watch'[n] = <<>>
        /\ \A m \in Node \ {n} : cached'[m] = cached[m] /\ watch'[m] = watch[m]
    BY <1>1, <1>6 DEF Relist, Restart, Deliver, TypeOK
  <2>2. HistoryOf(n)'
    BY <1>1, <2>1, HistoryRestarts
  <2> QED
    BY <1>4, <2>1, <2>2
<1>7. CASE UNCHANGED <<policy, watch, cached, writes>>
  <2>1. \A n \in Node : HistoryOf(n)'
    BY <1>1, <1>7, HistoryStays
  <2> QED
    BY <1>1, <1>7, <2>1 DEF Sound
<1>8. ASSUME NEW n \in Node, RemoveFinalizer(n) \/ EnsureFinalizer(n)
      PROVE  Sound(policy, writes)' /\ \A m \in Node : HistoryOf(m)'
  <2>1. UNCHANGED <<cached, writes>> /\ writes \in Nat
    BY <1>1, <1>8, ReconcileTypes, ValuesInReach
  <2>2. CASE UNCHANGED apiVars
    BY <1>7, <2>1, <2>2 DEF apiVars
  <2>3. CASE \E p \in Policy \cup {None} : Publish(p) /\ MayFollow(p)
    BY <1>2, <2>1, <2>3
  <2> QED
    BY <1>1, <1>8, <2>2, <2>3, InstancePublishes
<1>9. ASSUME NEW n \in Node,
             \/ Begin(n) \/ Cleanup(n) \/ CleanupFails(n) \/ Configure(n) \/ ConfigureFails(n)
             \/ PodStarts(n) \/ BindPod(n) \/ SetLevel(n) \/ SetLevelFails(n)
      PROVE  UNCHANGED <<policy, watch, cached, writes>>
  BY <1>9 DEF Begin, Cleanup, CleanupFails, Configure, ConfigureFails, PodStarts, BindPod,
              SetLevel, SetLevelFails, Unshared, Others, apiVars
<1>10. CASE UNCHANGED qosVars
  BY <1>7, <1>10 DEF qosVars
<1> QED
  BY <1>3, <1>5, <1>6, <1>7, <1>8, <1>9, <1>10 DEF QosNext, NodeStep
--------------------------------------------------------------------------------
(***************************************************************************)
(* What an instance still has to do                                         *)
(***************************************************************************)
\* With nothing queued, the group is as the cached copy wants it, or the
\* reconcile under way will make it so.
WorkOf(n) ==
  ~queued[n] /\ ~missed[n] /\ Live(cached[n]) =>
    /\ pc[n] \notin {"cleanup", "cleaned"}
    /\ pc[n] = "idle" => group[n] = Desired(cached[n], n)
    /\ pc[n] \in {"finalizer", "configure"} => at[n].spec = cached[n].spec

\* The same of the pod: its processes, and their level.
PodOf(n) ==
  /\ ~podQueued[n] => bound[n] \/ dropped[n]
  /\ ~podQueued[n] /\ podPc[n] = "idle" /\ ~unnoticed[n] /\ cached[n] # None
     => HasLevel(level[n], cached[n].spec.level)

\* What the steps of one instance leave alone at another.
StateOf(n) == <<cached[n], queued[n], pc[n], at[n], group[n], podQueued[n], podPc[n],
                bound[n], level[n], missed[n], dropped[n], unnoticed[n]>>

LEMMA UsersLeaveNodes ==
  ASSUME NEW p, UserWrites(p), NEW n \in Node
  PROVE  UNCHANGED StateOf(n)
  BY DEF UserWrites, reconcileVars, podVars, StateOf

LEMMA OthersLeaveNode ==
  ASSUME TypeOK, NEW n \in Node, NEW m \in Node, m # n, NodeStep(m)
  PROVE  UNCHANGED StateOf(n)
<1>1. CASE Observe(m) \/ Relist(m)
  BY <1>1 DEF Observe, Relist, Deliver, TypeOK, StateOf
<1>2. CASE Begin(m) \/ Cleanup(m) \/ CleanupFails(m)
  BY <1>2 DEF Begin, Cleanup, CleanupFails, RemoveGroup, KeepGroup, Requeue, Unshared, Others,
              TypeOK, StateOf
<1>3. CASE RemoveFinalizer(m) \/ EnsureFinalizer(m)
  BY <1>3 DEF RemoveFinalizer, EnsureFinalizer, KeepGroup, Finish, Requeue, Unshared, Others,
              TypeOK, StateOf
<1>4. CASE Configure(m) \/ ConfigureFails(m)
  <2>1. /\ group'[n] = group[n] /\ bound'[n] = bound[n] /\ dropped'[n] = dropped[n]
    BY <1>4 DEF Configure, ConfigureFails, RemoveGroup, TypeOK
  <2>2. /\ pc'[n] = pc[n] /\ at'[n] = at[n] /\ queued'[n] = queued[n]
        /\ UNCHANGED <<cached, podQueued, podPc, level, unnoticed, missed>>
    BY <1>4 DEF Configure, ConfigureFails, Finish, Requeue, Unshared, Others, TypeOK
  <2> QED
    BY <2>1, <2>2 DEF StateOf
<1>5. CASE PodStarts(m) \/ BindPod(m) \/ SetLevel(m) \/ SetLevelFails(m)
  BY <1>5 DEF PodStarts, BindPod, SetLevel, SetLevelFails, reconcileVars, podVars, TypeOK, StateOf
<1>6. CASE Restart(m)
  BY <1>6 DEF Restart, TypeOK, StateOf
<1> QED
  BY <1>1, <1>2, <1>3, <1>4, <1>5, <1>6 DEF NodeStep

LEMMA WorkUnchanged ==
  ASSUME NEW n, UNCHANGED StateOf(n)
  PROVE  /\ WorkOf(n) => WorkOf(n)'
         /\ PodOf(n) => PodOf(n)'
  BY DEF StateOf, WorkOf, PodOf, Live, Desired, HasLevel

\* The informer delivers a version that may come after the cached copy.
LEMMA Delivered ==
  ASSUME TypeOK, NEW n \in Node, Observe(n) \/ Relist(n), HistoryOf(n)
  PROVE  \E new \in Policy \cup {None} : Deliver(n, new) /\ Continues(cached[n], new)
<1>1. CASE Observe(n)
  <2>1. watch[n] # <<>> /\ watch[n] \in Seq(Policy \cup {None}) /\ Deliver(n, Head(watch[n]))
    BY <1>1, ValuesInReach DEF Observe
  <2>2. 1 \in DOMAIN watch[n] /\ Head(watch[n]) = watch[n][1]
        /\ Head(watch[n]) \in Policy \cup {None}
    BY <2>1, ElementTypes
  <2>3. Continues(cached[n], watch[n][1])
    BY <2>2 DEF HistoryOf
  <2> QED
    BY <2>1, <2>2, <2>3
<1>2. CASE Relist(n)
  BY <1>2 DEF Relist, HistoryOf, TypeOK
<1> QED
  BY <1>1, <1>2

\* An event that the predicate lets pass unqueued changes no specification.
LEMMA WorkDelivered ==
  ASSUME TypeOK, NEW n \in Node, NEW new \in Policy \cup {None}, Deliver(n, new),
         Continues(cached[n], new), WorkOf(n)
  PROVE  WorkOf(n)'
<1> SUFFICES ASSUME ~queued'[n], ~missed'[n], Live(new)
             PROVE  /\ pc[n] \notin {"cleanup", "cleaned"}
                    /\ pc[n] = "idle" => group[n] = Desired(new, n)
                    /\ pc[n] \in {"finalizer", "configure"} => at[n].spec = new.spec
  <2>1. cached'[n] = new /\ UNCHANGED <<pc, at, group>>
    BY DEF Deliver, TypeOK
  <2> QED
    BY <2>1 DEF WorkOf, Live, Desired
<1>1. ~queued[n] /\ ~WantsReconcile(cached[n], new)
  BY DEF Deliver, TypeOK
<1>2. ~missed[n] /\ (cached[n] # None /\ new # None => cached[n].uid = new.uid)
  BY <1>1 DEF Deliver, Replaced, TypeOK
<1>3. new # None /\ cached[n] # None /\ cached[n].generation = new.generation
  BY <1>1 DEF WantsReconcile, Live
<1>4. cached[n].spec = new.spec /\ Live(cached[n])
  BY <1>2, <1>3 DEF Continues, Live
<1> QED
  BY <1>1, <1>2, <1>4 DEF WorkOf, Desired

LEMMA WorkStep ==
  ASSUME HistoryInvariant, [QosNext]_qosVars, NEW n \in Node, WorkOf(n)
  PROVE  WorkOf(n)'
<1>0. TypeOK /\ CopyInHand /\ HistoryOf(n)
  BY DEF HistoryInvariant
<1>1. CASE Observe(n) \/ Relist(n)
  BY <1>0, <1>1, Delivered, WorkDelivered
<1>2. CASE Begin(n)
  <2>1. /\ queued[n] /\ at'[n] = cached[n] /\ UNCHANGED cached
        /\ Live(cached[n]) => pc'[n] = "finalizer"
    BY <1>0, <1>2 DEF Begin, Unshared, Others, TypeOK, Live
  <2> QED
    BY <2>1 DEF WorkOf, Live
<1>3. CASE CleanupFails(n) \/ ConfigureFails(n)
  BY <1>0, <1>3 DEF CleanupFails, ConfigureFails, Requeue, WorkOf, TypeOK
<1>4. CASE Cleanup(n)
  BY <1>0, <1>4 DEF Cleanup, Unshared, Others, WorkOf, TypeOK
<1>5. CASE RemoveFinalizer(n)
  <2>1. pc[n] = "cleaned" /\ (queued[n] => queued'[n]) /\ UNCHANGED <<cached, missed>>
    BY <1>0, <1>5 DEF RemoveFinalizer, Finish, Requeue, Unshared, Others, TypeOK
  <2> QED
    BY <2>1 DEF WorkOf, Live
<1>6. CASE EnsureFinalizer(n)
  <2>1. /\ pc[n] = "finalizer" /\ UNCHANGED <<cached, missed>>
        /\ \/ queued'[n]
           \/ UNCHANGED <<queued, at>> /\ pc'[n] = "configure"
    BY <1>0, <1>6 DEF EnsureFinalizer, Requeue, Unshared, Others, TypeOK
  <2> QED
    BY <2>1 DEF WorkOf, Live
<1>7. CASE Configure(n)
  <2>1. /\ pc[n] = "configure" /\ pc'[n] = "idle"
        /\ UNCHANGED <<cached, missed, queued>> /\ at[n] \in Policy
    BY <1>0, <1>7, ValuesInReach DEF Configure, Finish, Unshared, Others, CopyInHand, TypeOK
  <2>2. at[n].spec \in Specs
    BY <2>1 DEF Policy
  <2>3. group'[n] = Desired(at[n], n)
    <3>1. CASE ~Matches(at[n].spec, n)
      BY <1>0, <1>7, <3>1 DEF Configure, RemoveGroup, Desired, TypeOK
    <3>2. CASE Matches(at[n].spec, n)
      <4>1. group'[n] = Applied(group[n], at[n].spec, Len(SchemataItems))
        BY <1>0, <1>7, <3>2 DEF Configure, TypeOK
      <4> QED
        BY <3>2, <4>1, <2>2, AppliedInFull DEF Desired
    <3> QED
      BY <3>1, <3>2
  <2> QED
    BY <2>1, <2>3 DEF WorkOf, Live, Desired
<1>8. CASE PodStarts(n) \/ BindPod(n) \/ SetLevel(n) \/ SetLevelFails(n)
  BY <1>0, <1>8, PodTypes DEF reconcileVars, WorkOf, Live, Desired
<1>9. CASE Restart(n)
  BY <1>0, <1>9 DEF Restart, WorkOf, Live, TypeOK
<1>10. CASE UNCHANGED StateOf(n)
  BY <1>10, WorkUnchanged
<1>11. CASE UNCHANGED qosVars
  BY <1>10, <1>11 DEF qosVars, StateOf
<1>12. CASE \E s \in Specs : CreatePolicy(s) \/ EditPolicy(s)
  BY <1>0, <1>10, <1>12, UserSteps, UsersLeaveNodes
<1>13. CASE DeletePolicy
  BY <1>0, <1>10, <1>13, UserSteps, UsersLeaveNodes
<1>14. ASSUME NEW m \in Node, NodeStep(m), m # n
       PROVE  WorkOf(n)'
  BY <1>0, <1>10, <1>14, OthersLeaveNode
<1> QED
  BY <1>1, <1>2, <1>3, <1>4, <1>5, <1>6, <1>7, <1>8, <1>9, <1>11, <1>12, <1>13, <1>14
     DEF QosNext, NodeStep

\* A pod that is not queued is in its group, or lost it; its level is the
\* cached policy's, unless an event of the policy went unnoticed.
LEMMA PodStep ==
  ASSUME TypeOK, [QosNext]_qosVars, NEW n \in PodNode, PodOf(n)
  PROVE  PodOf(n)'
<1>0. n \in Node
  BY QosAssumption
<1>1. CASE Observe(n) \/ Relist(n)
  <2>1. PICK new : Deliver(n, new)
    BY <1>1 DEF Observe, Relist
  <2>2. /\ cached'[n] = new /\ UNCHANGED <<podPc, bound, dropped, level>>
        /\ ~podQueued'[n] => ~podQueued[n] /\ ~WantsPods(cached[n], new, n)
    BY <1>0, <2>1 DEF Deliver, TypeOK
  <2>3. ~podQueued'[n] /\ ~unnoticed'[n] =>
          /\ ~unnoticed[n]
          /\ new # None => cached[n] # None /\ cached[n].spec.level = new.spec.level
    <3>1. ~unnoticed'[n] => ~unnoticed[n] /\ ~LeavesOut(cached[n], new, n)
      BY <1>0, <2>1 DEF Deliver, TypeOK
    <3> QED
      BY <2>2, <3>1 DEF WantsPods, LeavesOut
  <2> QED
    BY <2>2, <2>3 DEF PodOf, HasLevel
<1>2. CASE Begin(n) \/ CleanupFails(n) \/ RemoveFinalizer(n) \/ EnsureFinalizer(n) \/ ConfigureFails(n)
  <2>1. UNCHANGED <<cached, podQueued, podPc, level, unnoticed, bound, dropped>>
    BY <1>2 DEF Begin, CleanupFails, RemoveFinalizer, EnsureFinalizer, ConfigureFails,
                KeepGroup, Unshared, Others
  <2> QED
    BY <2>1 DEF PodOf, HasLevel
<1>3. CASE Cleanup(n) \/ Configure(n)
  <2>1. /\ UNCHANGED <<cached, podQueued, podPc, level, unnoticed>>
        /\ bound[n] \/ dropped[n] => bound'[n] \/ dropped'[n]
    BY <1>0, <1>3 DEF Cleanup, Configure, RemoveGroup, Unshared, Others, TypeOK
  <2> QED
    BY <2>1 DEF PodOf, HasLevel
<1>4. CASE PodStarts(n) \/ Restart(n)
  BY <1>0, <1>4 DEF PodStarts, Restart, PodOf, TypeOK
<1>5. CASE BindPod(n)
  BY <1>0, <1>5 DEF BindPod, PodDue, podVars, PodOf, TypeOK
<1>6. CASE SetLevel(n)
  <2>1. /\ UNCHANGED <<cached, podQueued, bound, dropped>>
        /\ cached[n] # None => level'[n] = NewLevel(level[n], cached[n].spec.level)
    BY <1>0, <1>6 DEF SetLevel, TypeOK
  <2> QED
    BY <2>1 DEF PodOf, HasLevel, NewLevel
<1>7. CASE UNCHANGED StateOf(n)
  BY <1>7, WorkUnchanged
<1>8. CASE UNCHANGED qosVars
  BY <1>7, <1>8 DEF qosVars, StateOf
<1>9. CASE (\E s \in Specs : CreatePolicy(s) \/ EditPolicy(s)) \/ DeletePolicy
  BY <1>0, <1>7, <1>9, UserSteps, UsersLeaveNodes
<1>10. ASSUME NEW m \in Node, NodeStep(m), m # n
       PROVE  PodOf(n)'
  BY <1>0, <1>7, <1>10, OthersLeaveNode
<1>11. CASE SetLevelFails(n)
  BY <1>0, <1>11 DEF SetLevelFails, PodOf, TypeOK
<1> QED
  BY <1>1, <1>2, <1>3, <1>4, <1>5, <1>6, <1>8, <1>9, <1>10, <1>11 DEF QosNext, NodeStep

\* Somebody is at work on the object, or will be told that it is deleted.
Attends(n) ==
  \/ queued[n] \/ pc[n] \in {"cleanup", "cleaned"}
  \/ cached[n] = None \/ ~cached[n].deleting

Attended ==
  policy # None /\ policy.finalizer => \E n \in Node : Attends(n)

\* An instance stops attending only by removing the finalizer.
LEMMA AttendsStep ==
  ASSUME HistoryInvariant, NEW n \in Node, Attends(n), NodeStep(n)
  PROVE  Attends(n)' \/ policy' = None \/ ~policy'.finalizer
<1>0. TypeOK /\ HistoryOf(n)
  BY DEF HistoryInvariant
<1>1. CASE Observe(n) \/ Relist(n)
  <2>1. PICK new : Deliver(n, new)
    BY <1>1 DEF Observe, Relist
  <2>2. /\ cached'[n] = new /\ pc' = pc
        /\ queued'[n] = (queued[n] \/ WantsReconcile(cached[n], new))
    BY <1>0, <2>1 DEF Deliver, TypeOK
  <2>3. CASE queued[n] \/ pc[n] \in {"cleanup", "cleaned"}
    BY <2>2, <2>3 DEF Attends
  <2>4. CASE cached[n] = None \/ ~cached[n].deleting
    BY <2>2, <2>4 DEF Attends, WantsReconcile
  <2> QED
    BY <2>3, <2>4 DEF Attends
<1>2. CASE Begin(n)
  BY <1>0, <1>2 DEF Begin, Unshared, Others, Attends, TypeOK
<1>3. CASE Cleanup(n)
  BY <1>0, <1>3 DEF Cleanup, Attends, TypeOK
<1>4. CASE CleanupFails(n) \/ ConfigureFails(n)
  BY <1>0, <1>4 DEF CleanupFails, ConfigureFails, Requeue, Attends, TypeOK
<1>5. CASE RemoveFinalizer(n)
  <2>1. CASE LacksFinalizer(cached[n])
    <3>1. cached[n] = None \/ ~cached[n].deleting
      BY <1>0, <2>1 DEF HistoryOf, Sound, LacksFinalizer
    <3> QED
      BY <1>5, <3>1 DEF RemoveFinalizer, Unshared, Others, Attends
  <2>2. CASE policy = None
    BY <1>5, <2>2 DEF RemoveFinalizer, apiVars, LacksFinalizer, Publish
  <2>3. CASE policy # None /\ ~policy.finalizer
    BY <1>5, <2>3, <2>1 DEF RemoveFinalizer, apiVars, LacksFinalizer
  <2>4. CASE policy # None /\ policy.finalizer /\ ~LacksFinalizer(cached[n])
    <3>1. Publish(IF policy.deleting THEN None ELSE [policy EXCEPT !.finalizer = FALSE])
      BY <1>5, <2>4 DEF RemoveFinalizer, LacksFinalizer
    <3>2. policy \in Policy
      BY <1>0, <2>4, ValuesInReach
    <3>3. [policy EXCEPT !.finalizer = FALSE].finalizer = FALSE
      BY <3>2 DEF Policy
    <3> QED
      BY <3>1, <3>3 DEF Publish
  <2> QED
    BY <2>1, <2>2, <2>3, <2>4
<1>6. CASE EnsureFinalizer(n)
  <2>1. /\ pc[n] = "finalizer" /\ UNCHANGED cached
        /\ queued[n] => queued'[n]
    BY <1>0, <1>6 DEF EnsureFinalizer, Requeue, Unshared, Others, TypeOK
  <2> QED
    BY <2>1 DEF Attends
<1>7. CASE Configure(n)
  BY <1>0, <1>7 DEF Configure, Finish, Unshared, Others, Attends, TypeOK
<1>8. CASE PodStarts(n) \/ BindPod(n) \/ SetLevel(n) \/ SetLevelFails(n)
  BY <1>0, <1>8, PodTypes DEF reconcileVars, Attends
<1>9. CASE Restart(n)
  BY <1>0, <1>9 DEF Restart, Attends, TypeOK
<1> QED
  BY <1>1, <1>2, <1>3, <1>4, <1>5, <1>6, <1>7, <1>8, <1>9 DEF NodeStep

\* Whoever adds the finalizer does not know of a deletion.
LEMMA FinalizerIsAttended ==
  ASSUME HistoryInvariant, NEW n \in Node, NodeStep(n),
         policy = None \/ ~policy.finalizer, policy' # None, policy'.finalizer
  PROVE  Attends(n)'
<1>0. TypeOK
  BY DEF HistoryInvariant
<1>1. EnsureFinalizer(n) /\ ~UNCHANGED apiVars
  <2>1. CASE UNCHANGED policy
    BY <2>1
  <2>2. CASE RemoveFinalizer(n)
    BY <1>0, <2>2, FinalizerSteps DEF Publish, apiVars, Policy
  <2>3. NodeStep(n) => UNCHANGED policy \/ RemoveFinalizer(n) \/ EnsureFinalizer(n)
    BY DEF NodeStep, Observe, Relist, Deliver, Begin, Cleanup, CleanupFails, Configure,
           ConfigureFails, PodStarts, BindPod, SetLevel, SetLevelFails, Restart,
           apiVars
  <2> QED
    BY <2>1, <2>2, <2>3 DEF apiVars
<1>2. cached[n] # None /\ ~cached[n].deleting /\ UNCHANGED cached
  BY <1>1 DEF EnsureFinalizer, WantsFinalizer, Unshared, Others
<1> QED
  BY <1>2 DEF Attends

LEMMA AttendedStep ==
  ASSUME HistoryInvariant, Attended, [QosNext]_qosVars
  PROVE  Attended'
<1>0. TypeOK /\ Sound(policy, writes)
  BY DEF HistoryInvariant
<1> SUFFICES ASSUME policy' # None, policy'.finalizer
             PROVE  \E n \in Node : Attends(n)'
  BY DEF Attended
<1>1. ASSUME NEW n \in Node, Attends(n), UNCHANGED StateOf(n)
      PROVE  Attends(n)'
  BY <1>1 DEF Attends, StateOf
<1>2. ASSUME NEW m \in Node, NodeStep(m)
      PROVE  \E n \in Node : Attends(n)'
  <2>1. CASE policy = None \/ ~policy.finalizer
    BY <1>2, <2>1, FinalizerIsAttended
  <2>2. CASE policy # None /\ policy.finalizer
    <3>1. PICK n \in Node : Attends(n)
      BY <2>2 DEF Attended
    <3>2. CASE n = m
      BY <1>2, <3>1, <3>2, AttendsStep
    <3>3. CASE n # m
      BY <1>0, <1>1, <1>2, <3>1, <3>3, OthersLeaveNode
    <3> QED
      BY <3>2, <3>3
  <2> QED
    BY <2>1, <2>2
<1>3. ASSUME policy # None, policy.finalizer, \A n \in Node : UNCHANGED StateOf(n)
      PROVE  \E n \in Node : Attends(n)'
  BY <1>1, <1>3 DEF Attended
<1>4. CASE UNCHANGED qosVars
  BY <1>3, <1>4 DEF qosVars, StateOf
<1>5. CASE (\E s \in Specs : CreatePolicy(s) \/ EditPolicy(s)) \/ DeletePolicy
  <2>1. PICK p \in Policy \cup {None} : UserWrites(p)
    BY <1>0, <1>5, UserSteps
  <2>2. \A n \in Node : UNCHANGED StateOf(n)
    BY <2>1, UsersLeaveNodes
  <2>3. policy # None /\ policy.finalizer
    <3>1. ASSUME NEW s \in Specs, CreatePolicy(s) PROVE FALSE
      BY <3>1 DEF CreatePolicy, UserWrites, Publish
    <3>2. ASSUME NEW s \in Specs, EditPolicy(s) PROVE policy # None /\ policy.finalizer
      <4>1. policy # None /\ policy \in Policy
        BY <1>0, <3>2, ValuesInReach DEF EditPolicy
      <4>2. policy' = [policy EXCEPT !.spec = s, !.generation = @ + 1]
        BY <3>2 DEF EditPolicy, UserWrites, Publish
      <4> QED
        BY <4>1, <4>2 DEF Policy
    <3>3. ASSUME DeletePolicy PROVE policy # None /\ policy.finalizer
      BY <3>3 DEF DeletePolicy, UserWrites, Publish
    <3> QED
      BY <1>5, <3>1, <3>2, <3>3
  <2> QED
    BY <1>3, <2>2, <2>3
<1> QED
  BY <1>2, <1>4, <1>5 DEF QosNext

--------------------------------------------------------------------------------
(***************************************************************************)
(* The theorems                                                             *)
(***************************************************************************)
QosInvariant ==
  /\ HistoryInvariant
  /\ \A n \in Node : WorkOf(n)
  /\ \A n \in PodNode : PodOf(n)
  /\ Attended

LEMMA QosInvariantHolds == QosSpec => []QosInvariant
<1>1. QosInit => QosInvariant
  <2>1. QosInit => \A n \in Node : WorkOf(n)
    BY DEF QosInit, WorkOf, Live
  <2>2. QosInit => \A n \in PodNode : PodOf(n)
    BY QosAssumption DEF QosInit, PodOf
  <2>3. QosInit => Attended
    BY DEF QosInit, Attended
  <2> QED
    BY HistoryInit, <2>1, <2>2, <2>3 DEF QosInvariant
<1>2. QosInvariant /\ [QosNext]_qosVars => QosInvariant'
  <2> SUFFICES ASSUME QosInvariant, [QosNext]_qosVars PROVE QosInvariant'
    OBVIOUS
  <2>1. HistoryInvariant /\ TypeOK
    BY DEF QosInvariant, HistoryInvariant
  <2>2. HistoryInvariant'
    BY <2>1, HistoryStep
  <2>3. \A n \in Node : WorkOf(n)'
    BY <2>1, WorkStep DEF QosInvariant
  <2>4. \A n \in PodNode : PodOf(n)'
    BY <2>1, PodStep DEF QosInvariant
  <2>5. Attended'
    BY <2>1, AttendedStep DEF QosInvariant
  <2> QED
    BY <2>2, <2>3, <2>4, <2>5 DEF QosInvariant
<1> QED
  BY <1>1, <1>2, PTL DEF QosSpec

\* Reconcile: an instance with nothing left to do has the group its node
\* should have, for any number of edits, faults and nodes.
THEOREM SettledGroups == QosSpec => []Settled
<1>1. QosInvariant => Settled
  BY DEF QosInvariant, HistoryInvariant, HistoryOf, WorkOf, Settled, Quiet
<1> QED
  BY <1>1, QosInvariantHolds, PTL

\* PodBindingReconciler: a pod whose reconcile is done is bound and has the
\* policy's level, but for the two histories the property names.
THEOREM PodsSettle == QosSpec => []PodSettled
<1>1. QosInvariant => PodSettled
  <2> SUFFICES ASSUME QosInvariant, NEW n \in PodNode,
                      watch[n] = <<>>, podPc[n] = "idle", ~podQueued[n], Live(policy)
               PROVE  /\ ~dropped[n] => bound[n]
                      /\ ~unnoticed[n] => HasLevel(level[n], policy.spec.level)
    BY DEF PodSettled
  <2>1. n \in Node /\ PodOf(n) /\ cached[n] = policy
    BY QosAssumption DEF QosInvariant, HistoryInvariant, HistoryOf
  <2> QED
    BY <2>1 DEF PodOf, Live
<1> QED
  BY <1>1, QosInvariantHolds, PTL

\* The finalizer path: while a deleted policy waits for its finalizer, some
\* instance has the removal queued, under way or coming.
THEOREM NoDeletionForgotten == QosSpec => []DeletionNotForgotten
<1>1. QosInvariant => DeletionNotForgotten
  <2> SUFFICES ASSUME QosInvariant, \A n \in Node : Quiet(n), policy # None, policy.deleting
               PROVE  FALSE
    BY DEF DeletionNotForgotten
  <2>1. policy.finalizer
    BY DEF QosInvariant, HistoryInvariant, Sound
  <2>2. PICK n \in Node : Attends(n)
    BY <2>1 DEF QosInvariant, Attended
  <2>3. cached[n] = policy /\ ~queued[n] /\ pc[n] = "idle"
    BY DEF QosInvariant, HistoryInvariant, HistoryOf, Quiet
  <2> QED
    BY <2>2, <2>3 DEF Attends
<1> QED
  BY <1>1, QosInvariantHolds, PTL

--------------------------------------------------------------------------------
(***************************************************************************)
(* Dynamic control: the version the API server compares tells copies apart. *)
(***************************************************************************)
\* No copy is newer than the last version handed out, and a copy of the version
\* in force is the object in force.
IsVersionOf(c) ==
  c # Nil => /\ c.version =< versions
             /\ object # Nil /\ c.version = object.version => c = object

VersionsTell ==
  /\ object # Nil => object.version =< versions
  /\ IsVersionOf(cache)
  /\ IsVersionOf(copy)

VersionInvariant == DynamicTypeOK /\ VersionsTell

--------------------------------------------------------------------------------
\* What the updater computes from a specification is a specification again
\* (applyReasonsToSpec never leaves the limits' range).
LEMMA LowerInRange ==
  ASSUME NEW v \in Nat, NEW step \in Nat \ {0}
  PROVE  /\ Lower(v, step) \in Nat
         /\ v \in Limit => Lower(v, step) \in Limit
  BY DEF Lower, Limit

LEMMA ReasonsAreReasons ==
  ASSUME NEW codes PROVE Reasons(codes) \subseteq Reason
  BY DEF Reasons, ReasonOf, Reason

LEMMA WithReasonsIsSpec ==
  ASSUME NEW s \in Spec, NEW reasons
  PROVE  WithReasons(s, reasons) \in Spec
<1>1. /\ Lower(s.mb, MBStep) \in Limit /\ Lower(s.l3max, L3MaxStep) \in Limit
      /\ Lower(s.ways, L3WaysStep) \in Nat
  <2>1. MBStep \in Nat \ {0} /\ L3WaysStep \in Nat \ {0} /\ L3MaxStep \in Nat \ {0}
    BY DynamicAssumption
  <2>2. s.mb \in Limit /\ s.l3max \in Limit /\ s.ways \in Nat
    BY DEF Spec
  <2>3. Limit \subseteq Nat
    BY DEF Limit
  <2> QED
    BY <2>1, <2>2, <2>3, LowerInRange
<1>2. -1 \in -1..1
  OBVIOUS
<1>3. s \in [selector : {"own", "other", "none"}, hdl : 0..1, pri : 0..7, mb : Limit,
              ways : Nat, l3max : Limit, level : -1..1]
  BY DEF Spec
<1> DEFINE mb    == IF "mb" \in reasons THEN Lower(s.mb, MBStep) ELSE s.mb
           ways  == IF "l3" \in reasons THEN Lower(s.ways, L3WaysStep) ELSE s.ways
           l3max == IF "l3" \in reasons THEN Lower(s.l3max, L3MaxStep) ELSE s.l3max
           lower == IF "cpu" \in reasons THEN -1 ELSE s.level
<1>4. WithReasons(s, reasons) =
        [s EXCEPT !.mb = mb, !.ways = ways, !.l3max = l3max, !.level = lower]
  BY DEF WithReasons
<1>5. s.mb \in Limit /\ s.ways \in Nat /\ s.l3max \in Limit /\ s.level \in -1..1
  BY <1>3
<1>6. mb \in Limit
  BY <1>1, <1>5
<1>7. ways \in Nat
  BY <1>1, <1>5
<1>8. l3max \in Limit
  BY <1>1, <1>5
<1>9. lower \in -1..1
  BY <1>2, <1>5
<1> HIDE DEF mb, ways, l3max, lower
<1> QED
  BY <1>3, <1>4, <1>6, <1>7, <1>8, <1>9 DEF Spec

LEMMA ApplyReasonsIsSpec ==
  ASSUME NEW s \in Spec, NEW reasons
  PROVE  ApplyReasons(s, reasons) \in Spec
<1> DEFINE t == [s EXCEPT !.selector = "own", !.ways = IF @ < 1 THEN 1 ELSE @]
<1>1. t \in Spec
  BY DEF Spec
<1> QED
  BY <1>1, WithReasonsIsSpec DEF ApplyReasons

LEMMA DefaultIsSpec == DefaultSpec \in Spec
  BY DEF DefaultSpec, Spec, Limit

\* The defaults that take the place of zeros are in the fields' ranges.
LEMMA SerializedIsSpec == ASSUME NEW s \in Spec PROVE Serialized(s) \in Spec
<1> DEFINE hdl   == OrDefault(s.hdl, 1)
           pri   == OrDefault(s.pri, 3)
           mb    == OrDefault(s.mb, 100)
           l3max == OrDefault(s.l3max, 100)
<1>1. s \in [selector : {"own", "other", "none"}, hdl : 0..1, pri : 0..7, mb : Limit,
              ways : Nat, l3max : Limit, level : -1..1]
  BY DEF Spec
<1>2. hdl \in 0..1 /\ pri \in 0..7
  BY <1>1 DEF OrDefault
<1>3. mb \in Limit /\ l3max \in Limit
  BY <1>1 DEF OrDefault, Limit
<1>4. Serialized(s) = [s EXCEPT !.hdl = hdl, !.pri = pri, !.mb = mb, !.l3max = l3max]
  BY DEF Serialized
<1> HIDE DEF hdl, pri, mb, l3max
<1> QED
  BY <1>1, <1>2, <1>3, <1>4 DEF Spec

\* Storing a specification makes a new version, which no copy has.
LEMMA StoreIsNew ==
  ASSUME VersionInvariant, NEW s \in Spec, Store(s)
  PROVE  /\ object' \in Object /\ versions' \in Nat
         /\ object' # Nil /\ object'.version =< versions'
         /\ \A c \in Object : c.version =< versions
              => c.version =< versions' /\ c.version # object'.version
<1>1. object' = [version |-> versions + 1, spec |-> s] /\ versions' = versions + 1
  BY DEF Store
<1>2. versions \in Nat
  BY DEF VersionInvariant, DynamicTypeOK
<1> QED
  BY <1>1, <1>2, DynamicAssumption DEF Object

--------------------------------------------------------------------------------
LEMMA VersionInit == DynamicInit => VersionInvariant
<1> SUFFICES ASSUME DynamicInit PROVE VersionInvariant
  OBVIOUS
<1>1. object \in Object \cup {Nil} /\ (object # Nil => object.version = 1)
  BY DynamicAssumption DEF DynamicInit, Object
<1>2. DynamicTypeOK
  <2>1. pulled \in (SUBSET Reason) \cup {Nil} /\ copy \in Object \cup {Nil}
    BY DEF DynamicInit
  <2>2. edits \in 0..MaxEdits /\ changes \in 0..MaxChanges
    BY DynamicAssumption DEF DynamicInit
  <2> QED
    BY <1>1, <2>1, <2>2 DEF DynamicInit, DynamicTypeOK
<1>3. VersionsTell
  BY <1>1 DEF DynamicInit, VersionsTell, IsVersionOf, Object
<1> QED
  BY <1>2, <1>3 DEF VersionInvariant

\* A step that stores a specification, and changes neither the cache nor gives
\* the loop a new copy.
LEMMA StoreStep ==
  ASSUME VersionInvariant, NEW s \in Spec, Store(s), UNCHANGED cache, copy' \in {copy, Nil}
  PROVE  VersionsTell' /\ object' \in Object /\ versions' \in Nat
<1>1. cache \in Object \cup {Nil} /\ copy \in Object \cup {Nil}
  BY DEF VersionInvariant, DynamicTypeOK
<1>2. VersionsTell
  BY DEF VersionInvariant
<1> QED
  BY <1>1, <1>2, StoreIsNew DEF VersionsTell, IsVersionOf

\* A step that leaves the object alone, or removes it.
LEMMA QuietStep ==
  ASSUME VersionInvariant, object' \in {object, Nil}, UNCHANGED versions,
         cache' \in {cache, object}, copy' \in {copy, cache, Nil}
  PROVE  VersionsTell' /\ object' \in Object \cup {Nil}
  BY DEF VersionInvariant, DynamicTypeOK, VersionsTell, IsVersionOf

LEMMA VersionStep == VersionInvariant /\ [DynamicNext]_dynamicVars => VersionInvariant'
<1> SUFFICES ASSUME VersionInvariant, [DynamicNext]_dynamicVars PROVE VersionInvariant'
  OBVIOUS
<1> USE DEF VersionInvariant
<1>1. CASE UserEdits
  <2>1. VersionsTell' /\ object' \in Object \cup {Nil} /\ versions' \in Nat
    <3>1. CASE \E s \in UserSpecs : Store(s)
      BY <1>1, <3>1, StoreStep, DynamicAssumption DEF UserEdits, applyVars
    <3>2. CASE object' = Nil /\ UNCHANGED versions
      BY <1>1, <3>2, QuietStep DEF UserEdits, applyVars, DynamicTypeOK
    <3> QED
      BY <1>1, <3>1, <3>2 DEF UserEdits
  <2> QED
    BY <1>1, <2>1, DynamicAssumption DEF UserEdits, DynamicTypeOK, applyVars, agentVars
<1>2. CASE CacheCatchesUp
  BY <1>2, QuietStep DEF CacheCatchesUp, DynamicTypeOK, applyVars, agentVars
<1>3. CASE PodChanges \/ NewReport \/ AgentRestarts
  <2>1. VersionsTell'
    BY <1>3, QuietStep
       DEF PodChanges, NewReport, AgentRestarts, Changes, applyVars
  <2>2. changes' \in 0..MaxChanges
    BY <1>3, DynamicAssumption DEF PodChanges, NewReport, AgentRestarts, Changes, DynamicTypeOK
  <2>3. running' \subseteq Pod /\ told' \subseteq OnNode /\ report' \subseteq Nat
    BY <1>3, DynamicAssumption DEF PodChanges, NewReport, AgentRestarts, Changes, DynamicTypeOK
  <2> QED
    BY <1>3, <2>1, <2>2, <2>3
       DEF PodChanges, NewReport, AgentRestarts, Changes, applyVars, DynamicTypeOK
<1>4. CASE EnsurePolicy
  <2>1. VersionsTell' /\ object' \in Object \cup {Nil} /\ versions' \in Nat
    <3>1. CASE Send(DefaultSpec)
      BY <1>4, <3>1, StoreStep, DefaultIsSpec, SerializedIsSpec DEF EnsurePolicy, Send, applyVars
    <3>2. CASE UNCHANGED <<object, versions>>
      BY <1>4, <3>2, QuietStep DEF EnsurePolicy, applyVars, DynamicTypeOK
    <3> QED
      BY <1>4, <3>1, <3>2 DEF EnsurePolicy
  <2> QED
    BY <1>4, <2>1 DEF EnsurePolicy, DynamicTypeOK, applyVars, agentVars
<1>5. CASE PublishOnlinePods
  <2>1. VersionsTell'
    BY <1>5, QuietStep DEF PublishOnlinePods, applyVars
  <2> QED
    BY <1>5, <2>1 DEF PublishOnlinePods, applyVars, DynamicTypeOK, OnlinePods
<1>6. CASE GetInterference
  <2>1. VersionsTell'
    BY <1>6, QuietStep DEF GetInterference
  <2> QED
    BY <1>6, <2>1, ReasonsAreReasons DEF GetInterference, agentVars, DynamicTypeOK
<1>7. CASE TaskEnds
  <2>1. TickEnds
    BY <1>7 DEF TaskEnds, ApplyStep, CreateWithReasons, UpdatePolicy, NoUpdateNeeded,
                UpdateRefused, TaskTimesOut
  <2>2. VersionsTell' /\ object' \in Object \cup {Nil} /\ versions' \in Nat
    <3>1. CASE \E s \in Spec : Store(s)
      BY <2>1, <3>1, StoreStep DEF TickEnds
    <3>2. CASE UNCHANGED <<object, versions>>
      BY <2>1, <3>2, QuietStep DEF TickEnds, DynamicTypeOK
    <3>3. CreateWithReasons => \/ \E s \in Spec : Store(s)
                                \/ UNCHANGED <<object, versions>>
      BY DefaultIsSpec, WithReasonsIsSpec, SerializedIsSpec DEF CreateWithReasons, Send
    <3>4. UpdatePolicy => \E s \in Spec : Store(s)
      BY ApplyReasonsIsSpec, SerializedIsSpec DEF UpdatePolicy, Send, DynamicTypeOK, Object
    <3> QED
      BY <1>7, <3>1, <3>2, <3>3, <3>4
         DEF TaskEnds, ApplyStep, NoUpdateNeeded, UpdateRefused, TaskTimesOut
  <2>3. pulled' = Nil /\ copy' = Nil
        /\ UNCHANGED <<cache, started, running, told, report, edits, changes>>
    BY <2>1 DEF TickEnds, agentVars
  <2>4. pulled' \in (SUBSET Reason) \cup {Nil} /\ copy' \in Object \cup {Nil}
    BY <2>3
  <2>5. DynamicTypeOK'
    BY <2>2, <2>3, <2>4 DEF DynamicTypeOK
  <2> QED
    BY <2>2, <2>5
<1>8. CASE UNCHANGED dynamicVars
  BY <1>8 DEF dynamicVars, DynamicTypeOK, VersionsTell, IsVersionOf
<1> QED
  BY <1>1, <1>2, <1>3, <1>4, <1>5, <1>6, <1>7, <1>8 DEF DynamicNext

\* Every step keeps the values of dynamic control in their ranges: the limits it
\* computes are again limits the CRD accepts.
THEOREM DynamicTypeCorrect == DynamicSpec => []DynamicTypeOK
<1>1. VersionInvariant => DynamicTypeOK
  BY DEF VersionInvariant
<1> QED
  BY VersionInit, VersionStep, <1>1, PTL DEF DynamicSpec

\* Only an update of the version at the API server replaces a specification that
\* no user touches.
LEMMA StepLosesNoEdit ==
  ASSUME VersionInvariant, [DynamicNext]_dynamicVars,
         edits' = edits, object # Nil, object' # object
  PROVE  object' # Nil /\ object'.spec = Serialized(ApplyReasons(object.spec, pulled))
<1>1. edits \in Nat
  BY DEF VersionInvariant, DynamicTypeOK
<1>2. ~UserEdits
  BY <1>1 DEF UserEdits
<1>3. UpdatePolicy
  BY <1>2 DEF DynamicNext, CacheCatchesUp, PodChanges, NewReport, AgentRestarts, Changes,
              EnsurePolicy, PublishOnlinePods, GetInterference, TaskEnds, ApplyStep,
              CreateWithReasons, NoUpdateNeeded, UpdateRefused, TaskTimesOut, dynamicVars
<1>4. copy = object /\ object.spec \in Spec
  BY <1>3 DEF UpdatePolicy, UpdateAccepted, VersionInvariant, VersionsTell, IsVersionOf,
              DynamicTypeOK, Object
<1>5. PICK s \in Spec : s = Serialized(ApplyReasons(object.spec, pulled)) /\ Store(s)
  BY <1>3, <1>4, ApplyReasonsIsSpec, SerializedIsSpec DEF UpdatePolicy, Send
<1> QED
  BY <1>5, StoreIsNew DEF Store

\* What an apply writes is computed from the specification it replaces, whatever
\* users and caches did since it was read (Update relies on the resource version it
\* read); of what users wrote it only loses explicit zeros of hdl, pri, mb.max and
\* l3.max, which come back as the CRD's defaults.
THEOREM NoEditIsLost == DynamicSpec => NoEditLost
<1>1. VersionInvariant /\ [DynamicNext]_dynamicVars
      => [(edits' = edits /\ object # Nil /\ object' # object)
          => /\ object' # Nil
             /\ object'.spec = Serialized(ApplyReasons(object.spec, pulled))]_dynamicVars
  BY StepLosesNoEdit
<1> QED
  BY VersionInit, VersionStep, <1>1, PTL DEF DynamicSpec, NoEditLost
================================================================================
