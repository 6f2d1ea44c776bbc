---------------------------- MODULE QosController ----------------------------
(***************************************************************************)
(* The QoS controller of kunpeng-qos-controller: one DaemonSet instance per *)
(* node, all of them reconciling the same cluster-scoped QoSPolicy into a    *)
(* resctrl group of their own node, and binding the pods that carry the      *)
(* group's label.  One policy name, hence one group name per node, and one   *)
(* labelled pod per node: the reconcilers keep nothing across names.         *)
(*                                                                         *)
(* External and modelled from their use: the API server (one object and a    *)
(* merge patch without preconditions), the informer of an instance (a cached *)
(* copy fed by a queue of versions), its work queues, resctrl and cgroups.   *)
(***************************************************************************)
EXTENDS Integers, Sequences

CONSTANTS
  Node,           \* the nodes of the cluster
  PodNode,        \* the nodes on which a pod with the group's label runs
  NodeLabels,     \* the labels of every node
  Specs,          \* the specifications users write
  SupportedKeys,  \* the schemata keys of this machine
  None,           \* no object, no group
  Default,        \* the contents of a schemata line nobody has written
  MaxWrites,      \* bound: creations, edits and deletions by users
  MaxFaults       \* bound: restarts of an instance and lost watches

QosLevel == -1..1

SchemataItems ==
  <<"MBHDL", "MBPRI", "L3PRI", "MBMIN", "L3MIN", "L3MAX", "MB", "L3">>

ASSUME QosAssumption ==
  /\ PodNode \subseteq Node
  /\ SupportedKeys \subseteq {SchemataItems[i] : i \in 1..8}
  /\ \A s \in Specs : /\ DOMAIN s = {"selector", "config", "level"}
                      /\ s.level \in QosLevel
  /\ \A s \in Specs : s.config # Default
  /\ None \notin [SupportedKeys -> {Default} \cup {s.config : s \in Specs}]
  /\ MaxWrites \in Nat /\ MaxFaults \in Nat

VARIABLES
  policy,     \* the object at the API server, or None
  watch,      \* per node: the versions its informer has yet to deliver
  cached,     \* per node: the informer's copy
  queued,     \* per node: the policy is in the work queue
  pc,         \* per node: where the policy's reconcile stands
  at,         \* per node: the copy that reconcile works from
  group,      \* per node: the schemata of the resctrl group, or None
  podQueued,  \* per node: the pod is in the work queue
  podPc,      \* per node: where the pod's reconcile stands
  bound,      \* per node: the pod's processes are in the group
  level,      \* per node: cpu.qos_level of the pod's containers
  missed,     \* per node: history, a relist hid a replacement of the object,
              \* and no reconcile has begun since
  dropped,    \* per node: history, the group was removed under its pod
  unnoticed,  \* per node: history, the policy came or its level changed while
              \* the selector left the node out, and no level was set since
  writes, faults

apiVars == <<policy, watch>>
podVars == <<podQueued, podPc, bound, level, unnoticed>>
reconcileVars == <<queued, pc, at, group>>
qosVars == <<policy, watch, cached, queued, pc, at, group, podQueued, podPc,
             bound, level, missed, dropped, unnoticed, writes, faults>>

Policy == [uid : Nat, generation : Nat, spec : Specs,
           deleting : BOOLEAN, finalizer : BOOLEAN]

Group == [SupportedKeys -> {Default} \cup {s.config : s \in Specs}]

(***************************************************************************)
(* What a reconcile computes                                                *)
(***************************************************************************)
\* MatchNodeSelector: every selector entry is a label of the node.
Matches(s, n) == s.selector \subseteq NodeLabels[n]

\* EnsureGroup: an existing group is left alone, a new one has defaults.
Ensured(g) == IF g = None THEN [i \in SupportedKeys |-> Default] ELSE g

\* ApplyConfig up to the k-th item; buildSchemataItems keeps those, in order,
\* that the machine supports.
Applied(g, s, k) ==
  [i \in SupportedKeys |->
     IF \E j \in 1..k : SchemataItems[j] = i THEN s.config ELSE Ensured(g)[i]]

Live(p) == p # None /\ ~p.deleting

\* What a node's group should be for the policy p.
Desired(p, n) ==
  IF Matches(p.spec, n)
    THEN [i \in SupportedKeys |-> p.spec.config] ELSE None

(***************************************************************************)
(* The API server: every change is a version sent to every watch            *)
(***************************************************************************)
Publish(p) ==
  /\ policy' = p
  /\ watch' = [n \in Node |-> Append(watch[n], p)]

QosInit ==
  /\ policy = None
  /\ watch = [n \in Node |-> <<>>]
  /\ cached = [n \in Node |-> None]
  /\ queued = [n \in Node |-> FALSE]
  /\ pc = [n \in Node |-> "idle"]
  /\ at = [n \in Node |-> None]
  /\ group = [n \in Node |-> None]
  /\ podQueued = [n \in Node |-> n \in PodNode]
  /\ podPc = [n \in Node |-> "idle"]
  /\ bound = [n \in Node |-> FALSE]
  /\ level = [n \in Node |-> 0]
  /\ missed = [n \in Node |-> FALSE]
  /\ dropped = [n \in Node |-> FALSE]
  /\ unnoticed = [n \in Node |-> FALSE]
  /\ writes = 0 /\ faults = 0

UserWrites(p) ==
  /\ writes < MaxWrites
  /\ writes' = writes + 1
  /\ Publish(p)
  /\ UNCHANGED <<cached, reconcileVars, podVars, missed, dropped, faults>>

CreatePolicy(s) ==
  /\ policy = None
  /\ UserWrites([uid |-> writes + 1, generation |-> 1, spec |-> s,
                 deleting |-> FALSE, finalizer |-> FALSE])

\* The CRD's rule: the level only leaves 0.
EditPolicy(s) ==
  /\ policy # None
  /\ s # policy.spec
  /\ policy.spec.level \in {0, s.level}
  /\ UserWrites([policy EXCEPT !.spec = s, !.generation = @ + 1])

DeletePolicy ==
  /\ policy # None
  /\ ~policy.deleting
  /\ UserWrites(IF policy.finalizer
                  THEN [policy EXCEPT !.deleting = TRUE] ELSE None)

(***************************************************************************)
(* The informer's events and the predicates of the two controllers          *)
(***************************************************************************)
\* Slips for the mutants: the predicate forgets new generations; deletions.
WantsReconcileOnce(old, new) ==
  new # None /\ (old = None \/ (~old.deleting /\ new.deleting))

WantsReconcileUndeleted(old, new) ==
  new # None /\ (old = None \/ old.generation # new.generation)

\* The policy's own predicate: creation, a new generation, or deletion begun.
WantsReconcile(old, new) ==
  /\ new # None
  /\ \/ old = None
     \/ old.generation # new.generation
     \/ ~old.deleting /\ new.deleting

\* A slip for the mutants: a new level is no event for the pods.
WantsPodsOnce(old, new, n) ==
  n \in PodNode /\ new # None /\ old = None /\ Matches(new.spec, n)

\* The pod controller: a creation or a new level, on nodes that the old or the
\* new version selects, for a running pod.
WantsPods(old, new, n) ==
  /\ n \in PodNode
  /\ new # None
  /\ \/ old = None /\ Matches(new.spec, n)
     \/ /\ old # None
        /\ old.spec.level # new.spec.level
        /\ Matches(old.spec, n) \/ Matches(new.spec, n)

\* For the history: one update that hides a deletion and a creation; a level
\* that comes or changes while no selector selects the node.
Replaced(old, new) == old # None /\ new # None /\ old.uid # new.uid

LeavesOut(old, new, n) ==
  /\ new # None
  /\ ~Matches(new.spec, n)
  /\ old # None => /\ ~Matches(old.spec, n)
                   /\ old.spec.level # new.spec.level

Deliver(n, new) ==
  /\ cached' = [cached EXCEPT ![n] = new]
  /\ queued' = [queued EXCEPT ![n] = @ \/ WantsReconcile(cached[n], new)]
  /\ podQueued' = [podQueued EXCEPT ![n] = @ \/ WantsPods(cached[n], new, n)]
  /\ missed' = [missed EXCEPT ![n] = @ \/ Replaced(cached[n], new)]
  /\ unnoticed' = [unnoticed EXCEPT ![n] = @ \/ LeavesOut(cached[n], new, n)]
  /\ UNCHANGED <<policy, pc, at, group, podPc, bound, level, dropped, writes>>

Observe(n) ==
  /\ watch[n] # <<>>
  /\ watch' = [watch EXCEPT ![n] = Tail(@)]
  /\ Deliver(n, Head(watch[n]))
  /\ UNCHANGED faults

\* The watch breaks and the informer lists again: one update from its last
\* version to the present one, whatever came between.
Relist(n) ==
  /\ faults < MaxFaults
  /\ faults' = faults + 1
  /\ watch[n] # <<>>
  /\ watch' = [watch EXCEPT ![n] = <<>>]
  /\ Deliver(n, policy)

(***************************************************************************)
(* QoSPolicyReconciler.Reconcile                                            *)
(***************************************************************************)
\* DeleteGroup: the processes of a removed group fall back to the root group.
RemoveGroup(n) ==
  /\ group' = [group EXCEPT ![n] = None]
  /\ bound' = [bound EXCEPT ![n] = FALSE]
  /\ dropped' = [dropped EXCEPT ![n] = @ \/ bound[n]]

KeepGroup == UNCHANGED <<group, bound, dropped>>

Finish(n) ==
  /\ pc' = [pc EXCEPT ![n] = "idle"]
  /\ at' = [at EXCEPT ![n] = None]
  /\ UNCHANGED queued

\* A returned error puts the key back, with a backoff.
Requeue(n) ==
  /\ pc' = [pc EXCEPT ![n] = "idle"]
  /\ at' = [at EXCEPT ![n] = None]
  /\ queued' = [queued EXCEPT ![n] = TRUE]

Others == UNCHANGED <<cached, podQueued, podPc, level, unnoticed, writes, faults>>

Unshared == Others /\ UNCHANGED missed

\* Get: nothing to do for an object that is gone.
Begin(n) ==
  /\ pc[n] = "idle" /\ queued[n]
  /\ queued' = [queued EXCEPT ![n] = FALSE]
  /\ at' = [at EXCEPT ![n] = cached[n]]
  /\ pc' = [pc EXCEPT ![n] =
       IF cached[n] = None THEN "idle"
       ELSE IF cached[n].deleting THEN "cleanup" ELSE "finalizer"]
  /\ missed' = [missed EXCEPT ![n] = FALSE]
  /\ UNCHANGED apiVars /\ KeepGroup /\ Others

\* The deletion path: DeleteGroup, whose error ends the reconcile.
Cleanup(n) ==
  /\ pc[n] = "cleanup"
  /\ RemoveGroup(n)
  /\ pc' = [pc EXCEPT ![n] = "cleaned"]
  /\ UNCHANGED <<queued, at, apiVars>> /\ Unshared

CleanupFails(n) ==
  /\ pc[n] = "cleanup"
  /\ Requeue(n)
  /\ UNCHANGED apiVars /\ KeepGroup /\ Unshared

\* Of a copy: whether the reconcile has a finalizer to add, or to remove.
LacksFinalizer(p) == p # None => ~p.finalizer
WantsFinalizer(p) == p # None /\ LacksFinalizer(p) /\ ~p.deleting

\* Of the object: whether the API server refuses to add the finalizer to it.
RefusesFinalizer(p) == p # None => (p.deleting /\ ~p.finalizer)

\* removeFinalizerWithRetry: the patch names neither uid nor version.
RemoveFinalizer(n) ==
  /\ pc[n] = "cleaned"
  /\ \/ LacksFinalizer(cached[n]) /\ Finish(n) /\ UNCHANGED apiVars
     \/ ~LacksFinalizer(cached[n]) /\ policy = None /\ Requeue(n) /\ UNCHANGED apiVars
     \/ /\ ~LacksFinalizer(cached[n]) /\ policy # None
        /\ Finish(n)
        /\ IF LacksFinalizer(policy) THEN UNCHANGED apiVars
           ELSE Publish(IF policy.deleting THEN None
                        ELSE [policy EXCEPT !.finalizer = FALSE])
  /\ KeepGroup /\ Unshared

\* ensureFinalizerWithRetry: reads the object again and may find it gone or
\* deleting, which is no error; Reconcile goes on with its own copy.
EnsureFinalizer(n) ==
  /\ pc[n] = "finalizer"
  /\ \/ /\ ~WantsFinalizer(cached[n])
        /\ pc' = [pc EXCEPT ![n] = "configure"] /\ UNCHANGED <<queued, at, apiVars>>
     \/ /\ WantsFinalizer(cached[n]) /\ RefusesFinalizer(policy)
        /\ Requeue(n) /\ UNCHANGED apiVars
     \/ /\ WantsFinalizer(cached[n]) /\ ~RefusesFinalizer(policy)
        /\ pc' = [pc EXCEPT ![n] = "configure"] /\ UNCHANGED <<queued, at>>
        /\ IF policy.finalizer THEN UNCHANGED apiVars
           ELSE Publish([policy EXCEPT !.finalizer = TRUE])
  /\ KeepGroup /\ Unshared

\* The selector decides between removing the group and writing it in full.
Configure(n) ==
  /\ pc[n] = "configure"
  /\ \/ ~Matches(at[n].spec, n) /\ RemoveGroup(n)
     \/ /\ Matches(at[n].spec, n)
        /\ group' = [group EXCEPT ![n] =
             Applied(@, at[n].spec, Len(SchemataItems))]
        /\ UNCHANGED <<bound, dropped>>
  /\ Finish(n)
  /\ UNCHANGED apiVars /\ Unshared

\* The directory cannot be made or removed, or the k-th item is refused: the
\* ones before it stay written.
ConfigureFails(n) ==
  /\ pc[n] = "configure"
  /\ \/ UNCHANGED group
     \/ /\ Matches(at[n].spec, n)
        /\ \E k \in 1..Len(SchemataItems) :
             /\ SchemataItems[k] \in SupportedKeys
             /\ group' = [group EXCEPT ![n] = Applied(@, at[n].spec, k - 1)]
  /\ Requeue(n)
  /\ UNCHANGED <<apiVars, bound, dropped>> /\ Unshared

(***************************************************************************)
(* PodBindingReconciler.Reconcile                                           *)
(***************************************************************************)
\* The labelled pod is replaced: its processes start in the root group.
PodStarts(n) ==
  /\ n \in PodNode
  /\ faults < MaxFaults
  /\ faults' = faults + 1
  /\ podQueued' = [podQueued EXCEPT ![n] = TRUE]
  /\ bound' = [bound EXCEPT ![n] = FALSE]
  /\ level' = [level EXCEPT ![n] = 0]
  /\ UNCHANGED <<apiVars, cached, reconcileVars, podPc, missed, dropped, unnoticed,
                 writes>>

\* The worker takes the pod: Get, and the actions in order.
PodDue(n) == podPc[n] = "idle" /\ podQueued[n]

\* BindPodToGroup needs the group's tasks file.
GroupReady(n) == group[n] # None

\* SetPodCPUQoSLevel: the kernel's -1 is never rolled back to 0.
NewLevel(old, wanted) == IF old = -1 /\ wanted = 0 THEN old ELSE wanted

\* BindResctrlGroupAction: without the group an error, hence a retry.
BindPod(n) ==
  /\ PodDue(n)
  /\ \/ ~GroupReady(n) /\ UNCHANGED <<podVars, dropped>>
     \/ /\ GroupReady(n)
        /\ podQueued' = [podQueued EXCEPT ![n] = FALSE]
        /\ podPc' = [podPc EXCEPT ![n] = "level"]
        /\ bound' = [bound EXCEPT ![n] = TRUE]
        /\ dropped' = [dropped EXCEPT ![n] = FALSE]
        /\ UNCHANGED <<level, unnoticed>>
  /\ UNCHANGED <<apiVars, cached, reconcileVars, missed, writes, faults>>

\* SetCPUQoSAction: without the policy nothing is set, and that is no error.
SetLevel(n) ==
  /\ podPc[n] = "level"
  /\ podPc' = [podPc EXCEPT ![n] = "idle"]
  /\ level' = [level EXCEPT ![n] =
       IF cached[n] = None THEN @ ELSE NewLevel(@, cached[n].spec.level)]
  /\ unnoticed' = [unnoticed EXCEPT ![n] = FALSE]
  /\ UNCHANGED <<apiVars, cached, reconcileVars, podQueued, bound, missed,
                 dropped, writes, faults>>

\* The level files cannot be found, read or written: the error puts the pod
\* back.
SetLevelFails(n) ==
  /\ podPc[n] = "level" /\ cached[n] # None
  /\ podPc' = [podPc EXCEPT ![n] = "idle"]
  /\ podQueued' = [podQueued EXCEPT ![n] = TRUE]
  /\ UNCHANGED <<apiVars, cached, reconcileVars, bound, level, missed, dropped,
                 unnoticed, writes, faults>>

\* The instance starts again: it lists every object as a creation.
Restart(n) ==
  /\ faults < MaxFaults
  /\ faults' = faults + 1
  /\ cached' = [cached EXCEPT ![n] = policy]
  /\ watch' = [watch EXCEPT ![n] = <<>>]
  /\ queued' = [queued EXCEPT ![n] = policy # None]
  /\ pc' = [pc EXCEPT ![n] = "idle"]
  /\ podPc' = [podPc EXCEPT ![n] = "idle"]
  /\ podQueued' = [podQueued EXCEPT ![n] = n \in PodNode]
  /\ at' = [at EXCEPT ![n] = None]
  /\ UNCHANGED <<policy, group, bound, level, missed, dropped, unnoticed, writes>>

NodeStep(n) ==
  \/ Observe(n) \/ Relist(n)
  \/ Begin(n) \/ Cleanup(n) \/ CleanupFails(n) \/ RemoveFinalizer(n) \/ EnsureFinalizer(n)
  \/ Configure(n) \/ ConfigureFails(n)
  \/ PodStarts(n) \/ BindPod(n) \/ SetLevel(n) \/ SetLevelFails(n)
  \/ Restart(n)

QosNext ==
  \/ \E s \in Specs : CreatePolicy(s) \/ EditPolicy(s)
  \/ DeletePolicy
  \/ \E n \in Node : NodeStep(n)

QosSpec == QosInit /\ [][QosNext]_qosVars

(***************************************************************************)
(* Properties                                                               *)
(***************************************************************************)
TypeOK ==
  /\ policy \in Policy \cup {None}
  /\ watch \in [Node -> Seq(Policy \cup {None})]
  /\ cached \in [Node -> Policy \cup {None}]
  /\ queued \in [Node -> BOOLEAN]
  /\ pc \in [Node -> {"idle", "finalizer", "configure", "cleanup", "cleaned"}]
  /\ at \in [Node -> Policy \cup {None}]
  /\ group \in [Node -> Group \cup {None}]
  /\ podQueued \in [Node -> BOOLEAN]
  /\ podPc \in [Node -> {"idle", "level"}]
  /\ bound \in [Node -> BOOLEAN]
  /\ level \in [Node -> QosLevel]
  /\ missed \in [Node -> BOOLEAN]
  /\ dropped \in [Node -> BOOLEAN] /\ unnoticed \in [Node -> BOOLEAN]
  /\ writes \in 0..MaxWrites /\ faults \in 0..MaxFaults

\* The instance of node n has nothing left to do for the policy.
Quiet(n) == watch[n] = <<>> /\ ~queued[n] /\ pc[n] = "idle"

\* Reconcile is level-triggered: whatever events were merged, copies outdated
\* or writes refused on the way, an instance with nothing left to do has the
\* group its node should have, or none when the selector excludes the node;
\* the one exception is a replacement that a relist hid from the predicate.
Settled ==
  \A n \in Node :
    Quiet(n) /\ Live(policy) /\ ~missed[n] => group[n] = Desired(policy, n)

\* The level, or the -1 the kernel keeps.
HasLevel(actual, wanted) == actual = wanted \/ (actual = -1 /\ wanted = 0)

\* A pod whose reconcile is done is in the group, unless the group was removed
\* under it, and has the policy's level, unless that changed while the selector
\* left the node out: however the pod's and the policy's events were ordered.
PodSettled ==
  \A n \in PodNode :
    /\ watch[n] = <<>> /\ podPc[n] = "idle" /\ ~podQueued[n]
    /\ Live(policy) /\ Matches(policy.spec, n)
    => /\ ~dropped[n] => bound[n]
       /\ ~unnoticed[n] => HasLevel(level[n], policy.spec.level)

\* A deletion is never forgotten: while the finalizer keeps the object, some
\* instance still has to remove it, also when instances restart, lose their
\* watch, work from an old copy or fail.
DeletionNotForgotten ==
  (\A n \in Node : Quiet(n)) => ~(policy # None /\ policy.deleting)
==============================================================================
