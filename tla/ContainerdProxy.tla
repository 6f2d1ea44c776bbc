------------------------------ MODULE ContainerdProxy ------------------------------
(***************************************************************************)
(* kunpeng-tap as a proxy between kubelet and containerd: the CRI server   *)
(* and its dispatcher in front of the topology-aware policy.               *)
(*                                                                         *)
(* Every CRI call is a goroutine of its own and the policy has no lock, so *)
(* the hooks of different calls interleave.  A call is in a phase; the     *)
(* hook of CreateContainer or StopContainer goes through                   *)
(*                                                                         *)
(*   choose, check, read, write, store, (read, write)*, call, insert       *)
(*   (read, write)*, delete, stop                                          *)
(*                                                                         *)
(* where read and write are the two halves of adding to, or subtracting    *)
(* from, the counters of one pool: without a lock an addition made between *)
(* them is lost.                                                           *)
(*                                                                         *)
(* A restarted proxy fills its cache from containerd's lists and rebuilds  *)
(* one allocation after the other before it listens.                       *)
(***************************************************************************)
EXTENDS TopologyAwarePolicy

CONSTANTS
  Sandbox,        \* pod sandboxes; each is used once
  Ctr,            \* container instances; each is used once
  SandboxOf,      \* SandboxOf[c]: the sandbox container c is created in
  GidOf,          \* GidOf[c]: pod UID and container name of c
  SpecOf,         \* SpecOf[c]: what the pod of c says of it
  SystemCtr,      \* the containers of kube-system pods
  UnpinnedCtr,    \* the containers with the skip label or a BestEffort pod
  NoSupply,       \* nothing read
  MaxFaults       \* bound: failed runtime calls and restarts of the proxy

ASSUME ProxyObjects ==
  /\ SandboxOf \in [Ctr -> Sandbox]
  /\ GidOf \in [Ctr -> Gid]
  /\ \A c, d \in Ctr : GidOf[c] = GidOf[d] => SandboxOf[c] = SandboxOf[d]
  /\ \A c \in Ctr : IsContainer(SpecOf[c])
  /\ SystemCtr \subseteq Ctr /\ UnpinnedCtr \subseteq Ctr
  /\ NoSupply \notin Supply
  /\ MaxFaults \in Nat

\* What each container asks for, as the hooks read it.
RequestOf == [c \in Ctr |-> Asked(SpecOf[c])]

VARIABLES
  sandboxes,      \* containerd: state of each sandbox
  ctrs,           \* containerd: state of each container
  cpuset,         \* containerd: the cpuset a container was created with, {} if none
  faults,         \* failed calls and restarts so far
  cachedPods,     \* the keys of cache.Pods
  cachedCtrs,     \* the keys of cache.Containers
  call,           \* the CRI call being handled for a container
  phase,          \* where its handler is
  grant,          \* its grant: the one it makes, or the one it releases
  todo,           \* the pools whose counters it has yet to change
  seen,           \* the counters it has read
  toRebuild,      \* containers whose allocation the start has yet to rebuild
  rebuilt,        \* auxiliary: an allocation has been rebuilt, which checks no capacity
  overlapped      \* auxiliary: two hooks have been active at the same time

runtimeVars == <<sandboxes, ctrs, cpuset>>
cacheVars == <<cachedPods, cachedCtrs>>
hookVars == <<call, phase, grant, todo, seen>>
startVars == <<toRebuild, rebuilt>>
vars == <<supply, grants, sandboxes, ctrs, cpuset, faults, cachedPods, cachedCtrs,
          call, phase, grant, todo, seen, toRebuild, rebuilt, overlapped>>

Init ==
  /\ PolicyInit
  /\ sandboxes = [s \in Sandbox |-> "none"]
  /\ ctrs = [c \in Ctr |-> "none"]
  /\ cpuset = [c \in Ctr |-> {}]
  /\ faults = 0
  /\ cachedPods = {}
  /\ cachedCtrs = {}
  /\ call = [c \in Ctr |-> "none"]
  /\ phase = [c \in Ctr |-> "idle"]
  /\ grant = [c \in Ctr |-> NoGrant]
  /\ todo = [c \in Ctr |-> {}]
  /\ seen = [c \in Ctr |-> NoSupply]
  /\ toRebuild = {}
  /\ rebuilt = FALSE
  /\ overlapped = FALSE

\* The phases in which a handler works on the policy's state.
HookPhase == {"choose", "check", "read", "write", "store", "delete"}

Active == {c \in Ctr : phase[c] \in HookPhase}

Enter(c, next) ==
  /\ phase' = [phase EXCEPT ![c] = next]
  /\ UNCHANGED startVars
  /\ overlapped' = (overlapped \/ (next \in HookPhase /\ Active \ {c} # {}))

Fault ==
  /\ faults < MaxFaults
  /\ faults' = faults + 1

\* Calls arrive once the start has rebuilt everything.
Serving == toRebuild = {}

\* kubelet works on one pod at a time: the calls for the containers of one pod
\* overlap only when several of them are being stopped.
CallsIn(s) == {call[c] : c \in {d \in Ctr : SandboxOf[d] = s}} \ {"none"}

--------------------------------------------------------------------------------
(***************************************************************************)
(* Pod sandboxes.  kubelet learns of a sandbox when the call returns, after *)
(* the cache has it.  RemovePodSandbox is passed through.                   *)
(***************************************************************************)
RunPodSandbox(s) ==
  /\ Serving
  /\ sandboxes[s] = "none"
  /\ sandboxes' = [sandboxes EXCEPT ![s] = "ready"]
  /\ cachedPods' = cachedPods \cup {s}
  /\ UNCHANGED <<policyVars, ctrs, cpuset, faults, cachedCtrs, hookVars, startVars, overlapped>>

\* A slip for the mutants: the containers of the pod leave the cache with it.
StopPodSandboxWithCtrs(s) ==
  /\ Serving
  /\ sandboxes[s] = "ready"
  /\ CallsIn(s) = {}
  /\ \A c \in Ctr : SandboxOf[c] = s => ctrs[c] # "running"
  /\ sandboxes' = [sandboxes EXCEPT ![s] = "stopped"]
  /\ cachedPods' = cachedPods \ {s}
  /\ cachedCtrs' = {c \in cachedCtrs : SandboxOf[c] # s}
  /\ UNCHANGED <<policyVars, ctrs, cpuset, faults, hookVars, startVars, overlapped>>

StopPodSandbox(s) ==
  /\ Serving
  /\ sandboxes[s] = "ready"
  /\ CallsIn(s) = {}
  /\ \A c \in Ctr : SandboxOf[c] = s => ctrs[c] # "running"
  /\ sandboxes' = [sandboxes EXCEPT ![s] = "stopped"]
  /\ cachedPods' = cachedPods \ {s}
  /\ UNCHANGED <<policyVars, ctrs, cpuset, faults, cachedCtrs, hookVars, startVars, overlapped>>

--------------------------------------------------------------------------------
(***************************************************************************)
(* CreateContainer.                                                        *)
(***************************************************************************)
\* Without a cached pod there is no hook request: no hook, no cache entry.
BeginCreateContainer(c) ==
  /\ Serving
  /\ ctrs[c] = "none"
  /\ sandboxes[SandboxOf[c]] = "ready"
  /\ CallsIn(SandboxOf[c]) = {}
  /\ \A d \in Ctr : GidOf[d] = GidOf[c] => ctrs[d] # "running"
  /\ call' = [call EXCEPT ![c] =
       IF SandboxOf[c] \in cachedPods THEN "create" ELSE "pass"]
  /\ Enter(c, IF SandboxOf[c] \in cachedPods /\ c \notin UnpinnedCtr
              THEN "choose" ELSE "call")
  /\ UNCHANGED <<policyVars, runtimeVars, faults, cacheVars, grant, todo, seen>>

ChoosePool(c) ==
  /\ phase[c] = "choose"
  /\ \E p \in Pool :
       /\ IsPoolFor(RequestOf[c], c \in SystemCtr, p)
       /\ grant' = [grant EXCEPT ![c] = GrantOf(RequestOf[c], p)]
       /\ todo' = [todo EXCEPT ![c] = Path[p]]
  /\ Enter(c, "check")
  /\ UNCHANGED <<policyVars, runtimeVars, faults, cacheVars, call, seen>>

\* A refused allocation is logged, and the container created unpinned.
CheckSupply(c) ==
  /\ phase[c] = "check"
  /\ IF SupplyAccepts(RequestOf[c], grant[c].pool)
     THEN Enter(c, "read") /\ UNCHANGED <<grant, todo>>
     ELSE /\ Enter(c, "call")
          /\ grant' = [grant EXCEPT ![c] = NoGrant]
          /\ todo' = [todo EXCEPT ![c] = {}]
  /\ UNCHANGED <<policyVars, runtimeVars, faults, cacheVars, call, seen>>

\* A slip for the mutants: the parents are not told.
StoreGrantOnly(c) ==
  /\ phase[c] = "store"
  /\ grants' = [grants EXCEPT ![GidOf[c]] = grant[c]]
  /\ todo' = [todo EXCEPT ![c] = {}]
  /\ Enter(c, "call")
  /\ UNCHANGED <<supply, runtimeVars, faults, cacheVars, call, grant, seen>>

StoreGrant(c) ==
  /\ phase[c] = "store"
  /\ grants' = [grants EXCEPT ![GidOf[c]] = grant[c]]
  /\ Enter(c, IF todo[c] = {} THEN "call" ELSE "read")
  /\ UNCHANGED <<supply, runtimeVars, faults, cacheVars, call, grant, todo, seen>>

EndCall(c) ==
  /\ call' = [call EXCEPT ![c] = "none"]
  /\ grant' = [grant EXCEPT ![c] = NoGrant]
  /\ Enter(c, "idle")

\* containerd creates the container, and kubelet starts it, with the cpuset of
\* the grant stored under its id.
CallCreateContainer(c) ==
  /\ phase[c] = "call"
  /\ ctrs' = [ctrs EXCEPT ![c] = "running"]
  /\ cpuset' = [cpuset EXCEPT ![c] =
       IF grant[c] = NoGrant THEN {} ELSE CpusOf[grants[GidOf[c]].pool]]
  /\ IF call[c] = "create"
     THEN Enter(c, "insert") /\ UNCHANGED <<call, grant>>
     ELSE EndCall(c)
  /\ UNCHANGED <<policyVars, sandboxes, faults, cacheVars, todo, seen>>

\* On an error the call just returns: what the hook did stays.
FailCreateContainer(c) ==
  /\ Fault
  /\ phase[c] = "call"
  /\ ctrs' = [ctrs EXCEPT ![c] = "failed"]
  /\ EndCall(c)
  /\ UNCHANGED <<policyVars, sandboxes, cpuset, cacheVars, todo, seen>>

\* The cache takes a container only while it has its pod.
InsertContainer(c) ==
  /\ phase[c] = "insert"
  /\ cachedCtrs' = IF SandboxOf[c] \in cachedPods THEN cachedCtrs \cup {c} ELSE cachedCtrs
  /\ EndCall(c)
  /\ UNCHANGED <<policyVars, runtimeVars, faults, cachedPods, todo, seen>>

--------------------------------------------------------------------------------
(***************************************************************************)
(* The counters of one pool after the other: a create starts at the pool   *)
(* of the grant, a stop ends there.                                        *)
(***************************************************************************)
IsNextPool(c, p) ==
  LET ancestors == todo[c] \ {grant[c].pool}
  IN /\ p \in todo[c]
     /\ IF call[c] = "stop" /\ ancestors # {}
        THEN p \in DeepestOf(ancestors)
        ELSE p \in DeepestOf(todo[c])

ReadSupply(c) ==
  /\ phase[c] = "read"
  /\ \E p \in todo[c] :
       /\ IsNextPool(c, p)
       /\ seen' = [seen EXCEPT ![c] = supply[p]]
  /\ Enter(c, "write")
  /\ UNCHANGED <<policyVars, runtimeVars, faults, cacheVars, call, grant, todo>>

Updated(c, p) ==
  IF call[c] = "create" THEN Add(seen[c], grant[c])
  ELSE IF p = grant[c].pool THEN SubtractOwn(seen[c], grant[c])
  ELSE SubtractAncestor(seen[c], grant[c])

AfterWrite(c, p) ==
  IF call[c] = "create" /\ p = grant[c].pool THEN "store"
  ELSE IF todo[c] # {p} THEN "read"
  ELSE IF call[c] = "create" THEN "call" ELSE "delete"

WriteSupply(c) ==
  /\ phase[c] = "write"
  /\ \E p \in todo[c] :
       /\ IsNextPool(c, p)
       /\ supply' = [supply EXCEPT ![p] = Updated(c, p)]
       /\ todo' = [todo EXCEPT ![c] = @ \ {p}]
       /\ Enter(c, AfterWrite(c, p))
  /\ seen' = [seen EXCEPT ![c] = NoSupply]
  /\ UNCHANGED <<grants, runtimeVars, faults, cacheVars, call, grant>>

--------------------------------------------------------------------------------
(***************************************************************************)
(* StopContainer.  The hook comes before the call to containerd.           *)
(***************************************************************************)
BeginStopContainer(c) ==
  /\ Serving
  /\ ctrs[c] = "running"
  /\ call[c] = "none"
  /\ CallsIn(SandboxOf[c]) \subseteq {"stop"}
  /\ call' = [call EXCEPT ![c] = "stop"]
  /\ IF c \in cachedCtrs /\ SandboxOf[c] \in cachedPods /\ Held(GidOf[c])
     THEN /\ grant' = [grant EXCEPT ![c] = grants[GidOf[c]]]
          /\ todo' = [todo EXCEPT ![c] = Path[grants[GidOf[c]].pool]]
          /\ Enter(c, "read")
     ELSE Enter(c, "stop") /\ UNCHANGED <<grant, todo>>
  /\ UNCHANGED <<policyVars, runtimeVars, faults, cacheVars, seen>>

DeleteGrant(c) ==
  /\ phase[c] = "delete"
  /\ grants' = [grants EXCEPT ![GidOf[c]] = NoGrant]
  /\ Enter(c, "stop")
  /\ UNCHANGED <<supply, runtimeVars, faults, cacheVars, call, grant, todo, seen>>

\* A slip for the mutants: a failed stop returns before the cache entry is deleted.
CallStopContainerOrReturn(c) ==
  /\ phase[c] = "stop"
  /\ \/ /\ ctrs' = [ctrs EXCEPT ![c] = "exited"]
        /\ cachedCtrs' = cachedCtrs \ {c}
        /\ UNCHANGED faults
     \/ Fault /\ UNCHANGED <<ctrs, cachedCtrs>>
  /\ EndCall(c)
  /\ UNCHANGED <<policyVars, sandboxes, cpuset, cachedPods, todo, seen>>

\* The cache entry goes whether containerd stopped the container or not.
CallStopContainer(c) ==
  /\ phase[c] = "stop"
  /\ \/ ctrs' = [ctrs EXCEPT ![c] = "exited"] /\ UNCHANGED faults
     \/ Fault /\ UNCHANGED ctrs
  /\ cachedCtrs' = cachedCtrs \ {c}
  /\ EndCall(c)
  /\ UNCHANGED <<policyVars, sandboxes, cpuset, cachedPods, todo, seen>>

--------------------------------------------------------------------------------
(***************************************************************************)
(* What happens without a hook.                                            *)
(***************************************************************************)
Exit(c) ==
  /\ ctrs[c] = "running"
  /\ ctrs' = [ctrs EXCEPT ![c] = "exited"]
  /\ UNCHANGED <<policyVars, sandboxes, cpuset, faults, cacheVars, hookVars, startVars, overlapped>>

\* kubelet's garbage collection, at any later time; passed through.
RemoveContainer(c) ==
  /\ Serving
  /\ ctrs[c] = "exited"
  /\ call[c] = "none"
  /\ ctrs' = [ctrs EXCEPT ![c] = "removed"]
  /\ UNCHANGED <<policyVars, sandboxes, cpuset, faults, cacheVars, hookVars, startVars, overlapped>>

\* The calls being handled fail.  LoadStoreContainerd lists the sandboxes and the
\* running containers; what it cannot read the status of it skips, and a container
\* goes with its sandbox.
Restart ==
  /\ Fault
  /\ supply' = [p \in Pool |-> EmptySupply]
  /\ grants' = [g \in Gid |-> NoGrant]
  /\ cachedPods' \in SUBSET {s \in Sandbox : sandboxes[s] # "none"}
  /\ cachedCtrs' \in SUBSET {c \in Ctr : ctrs[c] = "running" /\ SandboxOf[c] \in cachedPods'}
  /\ toRebuild' = cachedCtrs'
  /\ ctrs' = [c \in Ctr |->
       IF call[c] \in {"create", "pass"} /\ ctrs[c] = "none" THEN "failed" ELSE ctrs[c]]
  /\ call' = [c \in Ctr |-> "none"]
  /\ phase' = [c \in Ctr |-> "idle"]
  /\ grant' = [c \in Ctr |-> NoGrant]
  /\ todo' = [c \in Ctr |-> {}]
  /\ seen' = [c \in Ctr |-> NoSupply]
  /\ UNCHANGED <<sandboxes, cpuset, rebuilt, overlapped>>

\* A slip for the mutants: the first pool that covers the cpuset, the root.
RebuildFirst(c) ==
  /\ c \in toRebuild
  /\ toRebuild' = toRebuild \ {c}
  /\ IF c \notin SystemCtr /\ cpuset[c] # {}
     THEN /\ \E p \in Pool :
               /\ IsFirstNodeByCPUSet(cpuset[c], p)
               /\ RebuildContainerAllocation(GidOf[c], ResourcesOf(SpecOf[c]), p)
          /\ rebuilt' = TRUE
     ELSE UNCHANGED <<policyVars, rebuilt>>
  /\ UNCHANGED <<runtimeVars, faults, cacheVars, hookVars, overlapped>>

\* One iteration of RebuildAllocationsFromCache: it skips kube-system containers and
\* those that are not pinned.
RebuildNext(c) ==
  /\ c \in toRebuild
  /\ toRebuild' = toRebuild \ {c}
  /\ IF c \notin SystemCtr /\ cpuset[c] # {}
     THEN /\ \E p \in Pool :
               /\ IsNodeByCPUSet(cpuset[c], p)
               /\ RebuildContainerAllocation(GidOf[c], ResourcesOf(SpecOf[c]), p)
          /\ rebuilt' = TRUE
     ELSE UNCHANGED <<policyVars, rebuilt>>
  /\ UNCHANGED <<runtimeVars, faults, cacheVars, hookVars, overlapped>>

--------------------------------------------------------------------------------
Create(c) ==
  \/ BeginCreateContainer(c) \/ ChoosePool(c) \/ CheckSupply(c) \/ StoreGrant(c)
  \/ CallCreateContainer(c) \/ FailCreateContainer(c) \/ InsertContainer(c)

Stop(c) == BeginStopContainer(c) \/ DeleteGrant(c) \/ CallStopContainer(c)

Next ==
  \/ \E s \in Sandbox : RunPodSandbox(s) \/ StopPodSandbox(s)
  \/ \E c \in Ctr :
       \/ Create(c) \/ Stop(c)
       \/ ReadSupply(c) \/ WriteSupply(c)
       \/ Exit(c) \/ RemoveContainer(c) \/ RebuildNext(c)
  \/ Restart

Spec == Init /\ [][Next]_vars

--------------------------------------------------------------------------------
(***************************************************************************)
(* Properties.                                                             *)
(***************************************************************************)
TypeOK ==
  /\ PolicyTypeOK
  /\ sandboxes \in [Sandbox -> {"none", "ready", "stopped"}]
  /\ ctrs \in [Ctr -> {"none", "running", "exited", "failed", "removed"}]
  /\ cpuset \in [Ctr -> SUBSET CpusOf[Root]]
  /\ faults \in 0..MaxFaults
  /\ cachedPods \subseteq Sandbox
  /\ cachedCtrs \subseteq Ctr
  /\ call \in [Ctr -> {"none", "create", "pass", "stop"}]
  /\ phase \in [Ctr -> HookPhase \cup {"idle", "call", "insert", "stop"}]
  /\ grant \in [Ctr -> Grant \cup {NoGrant}]
  /\ todo \in [Ctr -> SUBSET Pool]
  /\ seen \in [Ctr -> Supply \cup {NoSupply}]
  /\ toRebuild \subseteq Ctr
  /\ rebuilt \in BOOLEAN
  /\ overlapped \in BOOLEAN

\* A container that runs pinned, is known and is not being stopped holds the
\* grant of its id, on a pool with its CPUs, however hooks overlap, whatever
\* became of earlier instances, and again once a restart has rebuilt it
\* (kube-system containers excepted, which the rebuild leaves out).
PinnedHasGrant ==
  \A c \in (cachedCtrs \ SystemCtr) \ toRebuild :
    ctrs[c] = "running" /\ cpuset[c] # {} /\ call[c] = "none"
    => Held(GidOf[c]) /\ CpusOf[grants[GidOf[c]].pool] = cpuset[c]

\* A grant can be found again: a call for its id is being handled, an instance of
\* it is in the cache, or else containerd refused to create one.
GrantHasOwner ==
  \A g \in Gid : Held(g) =>
    \E c \in Ctr : GidOf[c] = g /\ (call[c] # "none" \/ c \in cachedCtrs \/ ctrs[c] = "failed")

\* As long as no two hooks have overlapped, the counters of a pool cover the
\* grants at or below it, between hooks: what is lost when an instance exits
\* by itself or is not created is capacity, never the record of a grant.
SerialBooksCover ==
  ~overlapped /\ Active = {} =>
    \A p \in Pool :
      LET granted == Granted(grants, GrantsUnder(p))
      IN /\ supply[p].byRequest >= granted.cpu
         /\ supply[p].byLimit >= granted.limit
         /\ supply[p].mem >= granted.mem

\* As long as no two hooks have overlapped and nothing has been rebuilt, no pool
\* below the root is granted more than its CPUs.
SerialWithinCapacity == ~overlapped /\ ~rebuilt => WithinCapacity
===================================================================================
