-------------------------- MODULE ContainerdProxy_proofs --------------------------
(***************************************************************************)
(* Theorems about the containerd proxy, for every machine, every set of    *)
(* sandboxes and containers, any number of concurrent calls and any bound  *)
(* on failed calls and restarts.                                           *)
(***************************************************************************)
EXTENDS ContainerdProxy, TopologyAwarePolicy_proofs

USE PoolsAreNodeIDs, PathsLeadToRoot, PoolResources, NoGrantIsNoGrant, ProxyObjects

\* What the hooks read for a container is a request.
LEMMA RequestsOfCtrs == \A c \in Ctr : IsRequest(RequestOf[c])
  BY ReadAmountsAreNat DEF RequestOf

USE RequestsOfCtrs

\* What a rebuild makes of a container is a grant on the pool it is given.
LEMMA RebuiltGrant ==
  ASSUME NEW c \in Ctr, NEW p \in Pool
  PROVE  /\ GrantFromContainer(ResourcesOf(SpecOf[c]), p) \in Grant
         /\ GrantFromContainer(ResourcesOf(SpecOf[c]), p) # NoGrant
         /\ GrantFromContainer(ResourcesOf(SpecOf[c]), p).pool = p
<1>1. GrantFromContainer(ResourcesOf(SpecOf[c]), p) \in Grant
  BY RebuiltGrantType
<1> QED
  BY <1>1 DEF GrantFromContainer, GrantOf

--------------------------------------------------------------------------------
(***************************************************************************)
(* The inductive invariant.                                                *)
(***************************************************************************)

\* Which phases belong to which call.
CallPhase ==
  \A c \in Ctr :
    /\ call[c] = "none" <=> phase[c] = "idle"
    /\ phase[c] \in {"choose", "check", "store", "insert"} => call[c] = "create"
    /\ phase[c] \in {"read", "write"} => call[c] \in {"create", "stop"}
    /\ phase[c] = "call" => call[c] \in {"create", "pass"}
    /\ phase[c] \in {"delete", "stop"} => call[c] = "stop"

\* What a handler has in hand.
HookData ==
  \A c \in Ctr :
    /\ phase[c] = "idle" => grant[c] = NoGrant
    /\ phase[c] \in {"check", "read", "write", "store"} => grant[c] \in Grant
    /\ phase[c] = "check" => grant[c].pool \in todo[c]
    /\ phase[c] = "write" => seen[c] \in Supply

Live(c) == ctrs[c] = "running" \/ call[c] # "none"

\* Of the instances of a container at most one runs or is being handled.
LiveUnique == \A c, d \in Ctr : GidOf[c] = GidOf[d] /\ Live(c) /\ Live(d) => c = d

\* A create that has charged its pool has stored its grant before it goes on to
\* the parents, and the grant is still there when containerd is called.
GrantStored ==
  \A c \in Ctr :
    \/ phase[c] \in {"call", "insert"} /\ grant[c] # NoGrant
    \/ phase[c] \in {"read", "write"} /\ call[c] = "create" /\ grant[c].pool \notin todo[c]
    => grant[c] \in Grant /\ grants[GidOf[c]] = grant[c]

\* While a start rebuilds no call is handled, and no grant is held under the ids
\* still to come.
Starting ==
  /\ toRebuild \subseteq cachedCtrs
  /\ toRebuild # {} => \A c \in Ctr : call[c] = "none"
  /\ \A c \in toRebuild : ~Held(GidOf[c])
  /\ \A c, d \in toRebuild : GidOf[c] = GidOf[d] => c = d

HookInvariant ==
  TypeOK /\ CallPhase /\ HookData /\ LiveUnique /\ GrantStored /\ Starting

HasGrant(c) == Held(GidOf[c]) /\ CpusOf[grants[GidOf[c]].pool] = cpuset[c]

\* A container is pinned to the CPUs of a pool.
CpusetIsPool == \A c \in Ctr : cpuset[c] # {} => \E q \in Pool : cpuset[c] = CpusOf[q]

\* PinnedHasGrant, from the moment containerd has answered.
PinInvariant ==
  \A c \in Ctr :
    /\ ctrs[c] = "running" /\ cpuset[c] # {}
    /\ \/ phase[c] = "insert"
       \/ c \in (cachedCtrs \ SystemCtr) \ toRebuild /\ call[c] = "none"
    => HasGrant(c)

\* What containerd knows of a container that is being handled.
CallCtrState ==
  \A c \in Ctr :
    /\ call[c] \in {"create", "pass"} /\ phase[c] # "insert" => ctrs[c] = "none"
    /\ call[c] = "stop" => ctrs[c] \in {"running", "exited"}
    /\ phase[c] = "insert" => ctrs[c] \in {"running", "exited"}
    /\ c \in cachedCtrs => ctrs[c] \notin {"none", "failed"}

\* The pod stays in the cache as long as a create or a release needs it.
PodIsCached ==
  \A c \in Ctr :
    call[c] = "create" \/ (c \in cachedCtrs /\ Live(c)) => SandboxOf[c] \in cachedPods

\* A stop that found the container in the cache has given its grant back.
StopReleased ==
  \A c \in Ctr : phase[c] = "stop" /\ c \in cachedCtrs => ~Held(GidOf[c])

Owns(c) ==
  \/ c \in cachedCtrs
  \/ ctrs[c] = "failed"
  \/ /\ call[c] = "create"
     /\ phase[c] \in {"read", "write", "store", "call", "insert"}
     /\ grant[c] # NoGrant

GrantOwned == \A g \in Gid : Held(g) => \E c \in Ctr : GidOf[c] = g /\ Owns(c)

OwnerInvariant == CallCtrState /\ PodIsCached /\ StopReleased /\ GrantOwned

--------------------------------------------------------------------------------
(***************************************************************************)
(* The type invariant.                                                     *)
(***************************************************************************)

\* Adding to, or subtracting from, the counters of a pool keeps their types.
LEMMA UpdatedType ==
  ASSUME NEW c \in Ctr, NEW p, seen[c] \in Supply, grant[c] \in Grant
  PROVE  Updated(c, p) \in Supply
<1>1. /\ seen[c].shared \in Int /\ seen[c].byRequest \in Int
      /\ seen[c].byLimit \in Int /\ seen[c].mem \in Nat
      /\ grant[c].cpu \in Nat /\ grant[c].limit \in Nat /\ grant[c].mem \in Nat
  BY DEF Supply, Grant
<1>2. ASSUME NEW n \in Int PROVE Floor(n) \in Nat
  BY <1>2 DEF Floor
<1>3. Add(seen[c], grant[c]) \in Supply
  BY <1>1 DEF Add, Supply
<1>4. SubtractOwn(seen[c], grant[c]) \in Supply /\ SubtractAncestor(seen[c], grant[c]) \in Supply
  BY <1>1, <1>2 DEF SubtractOwn, SubtractAncestor, Supply
<1> QED
  BY <1>3, <1>4 DEF Updated

\* Rebuilding one allocation touches the grant of one id, while nothing is handled.
LEMMA RebuildEffect ==
  ASSUME HookInvariant, NEW c \in Ctr, RebuildNext(c)
  PROVE  /\ c \in toRebuild /\ toRebuild' = toRebuild \ {c}
         /\ \A d \in Ctr : call[d] = "none" /\ phase[d] = "idle"
         /\ UNCHANGED <<sandboxes, ctrs, cpuset, faults, cachedPods, cachedCtrs,
                        call, phase, grant, todo, seen, overlapped>>
         /\ PolicyTypeOK' /\ rebuilt' \in BOOLEAN
         /\ \A g \in Gid \ {GidOf[c]} : grants'[g] = grants[g]
<1> USE DEF HookInvariant, TypeOK
<1>1. /\ c \in toRebuild /\ toRebuild' = toRebuild \ {c}
      /\ UNCHANGED <<sandboxes, ctrs, cpuset, faults, cachedPods, cachedCtrs,
                     call, phase, grant, todo, seen, overlapped>>
      /\ rebuilt' \in BOOLEAN
  BY DEF RebuildNext, runtimeVars, cacheVars, hookVars, startVars
<1>2. \A d \in Ctr : call[d] = "none" /\ phase[d] = "idle"
  BY <1>1 DEF Starting, CallPhase
<1>3. CASE UNCHANGED policyVars
  BY <1>1, <1>2, <1>3 DEF policyVars, PolicyTypeOK
<1>4. CASE \E p \in Pool : RebuildContainerAllocation(GidOf[c], ResourcesOf(SpecOf[c]), p)
  <2>1. PICK p \in Pool : RebuildContainerAllocation(GidOf[c], ResourcesOf(SpecOf[c]), p)
    BY <1>4
  <2>2. PolicyTypeOK'
    BY <2>1, RebuildTypeOK
  <2>3. \A g \in Gid \ {GidOf[c]} : grants'[g] = grants[g]
    BY <2>1 DEF RebuildContainerAllocation, policyVars, PolicyTypeOK
  <2> QED
    BY <1>1, <1>2, <2>2, <2>3
<1> QED
  BY <1>3, <1>4 DEF RebuildNext

\* Every step keeps the state well typed.
LEMMA StepTypeOK == HookInvariant /\ [Next]_vars => TypeOK'
<1> SUFFICES ASSUME HookInvariant, [Next]_vars PROVE TypeOK'
  OBVIOUS
<1> USE DEF HookInvariant, TypeOK, HookPhase, runtimeVars, cacheVars, hookVars, startVars
<1>0. UNCHANGED policyVars => PolicyTypeOK'
  BY DEF PolicyTypeOK, policyVars
<1>1. CASE UNCHANGED vars
  BY <1>0, <1>1 DEF vars, policyVars
<1>2. ASSUME NEW s \in Sandbox, RunPodSandbox(s) PROVE TypeOK'
  BY <1>0, <1>2 DEF RunPodSandbox
<1>3. ASSUME NEW s \in Sandbox, StopPodSandbox(s) PROVE TypeOK'
  BY <1>0, <1>3 DEF StopPodSandbox
<1>4. ASSUME NEW c \in Ctr, BeginCreateContainer(c) PROVE TypeOK'
  BY <1>0, <1>4 DEF BeginCreateContainer, Enter
<1>5. ASSUME NEW c \in Ctr, ChoosePool(c) PROVE TypeOK'
  <2>1. ASSUME NEW p \in Pool PROVE GrantOf(RequestOf[c], p) \in Grant
    BY GrantOfType
  <2> QED
    BY <1>0, <1>5, <2>1 DEF ChoosePool, Enter
<1>6. ASSUME NEW c \in Ctr, CheckSupply(c) PROVE TypeOK'
  <2>1. CASE SupplyAccepts(RequestOf[c], grant[c].pool)
    BY <1>0, <1>6, <2>1 DEF CheckSupply, Enter
  <2>2. CASE ~SupplyAccepts(RequestOf[c], grant[c].pool)
    BY <1>0, <1>6, <2>2 DEF CheckSupply, Enter
  <2> QED
    BY <2>1, <2>2
<1>7. ASSUME NEW c \in Ctr, StoreGrant(c) PROVE TypeOK'
  <2>1. PolicyTypeOK'
    BY <1>7 DEF StoreGrant, PolicyTypeOK
  <2> QED
    BY <1>7, <2>1 DEF StoreGrant, Enter
<1>8. ASSUME NEW c \in Ctr, CallCreateContainer(c) PROVE TypeOK'
  <2>1. grant[c] # NoGrant => CpusOf[grants[GidOf[c]].pool] \subseteq CpusOf[Root]
    <3>1. ASSUME grant[c] # NoGrant PROVE grants[GidOf[c]].pool \in Pool
      BY <1>8, <3>1 DEF CallCreateContainer, GrantStored, Grant
    <3> QED
      BY <3>1
  <2> QED
    BY <1>0, <1>8, <2>1 DEF CallCreateContainer, EndCall, Enter
<1>9. ASSUME NEW c \in Ctr, FailCreateContainer(c) PROVE TypeOK'
  BY <1>0, <1>9 DEF FailCreateContainer, Fault, EndCall, Enter
<1>10. ASSUME NEW c \in Ctr, InsertContainer(c) PROVE TypeOK'
  BY <1>0, <1>10 DEF InsertContainer, EndCall, Enter
<1>11. ASSUME NEW c \in Ctr, ReadSupply(c) PROVE TypeOK'
  BY <1>0, <1>11 DEF ReadSupply, Enter, PolicyTypeOK
<1>12. ASSUME NEW c \in Ctr, WriteSupply(c) PROVE TypeOK'
  <2>1. \A p \in Pool : Updated(c, p) \in Supply
    BY <1>12, UpdatedType DEF WriteSupply, HookData
  <2>2. PolicyTypeOK'
    BY <1>12, <2>1 DEF WriteSupply, PolicyTypeOK
  <2> QED
    BY <1>12, <2>2 DEF WriteSupply, Enter, AfterWrite
<1>13. ASSUME NEW c \in Ctr, BeginStopContainer(c) PROVE TypeOK'
  <2>1. ASSUME Held(GidOf[c])
        PROVE  grants[GidOf[c]] \in Grant /\ Path[grants[GidOf[c]].pool] \subseteq Pool
    <3>1. grants[GidOf[c]] \in Grant
      BY <2>1 DEF Held, PolicyTypeOK
    <3>2. grants[GidOf[c]].pool \in Pool
      BY <3>1 DEF Grant
    <3>3. Path \in [Pool -> SUBSET Pool]
      BY PathsLeadToRoot
    <3> QED
      BY ONLY <3>1, <3>2, <3>3
  <2>2. CASE c \in cachedCtrs /\ SandboxOf[c] \in cachedPods /\ Held(GidOf[c])
    BY <1>0, <1>13, <2>1, <2>2 DEF BeginStopContainer, Enter
  <2>3. CASE ~(c \in cachedCtrs /\ SandboxOf[c] \in cachedPods /\ Held(GidOf[c]))
    BY <1>0, <1>13, <2>3 DEF BeginStopContainer, Enter
  <2> QED
    BY <2>2, <2>3
<1>14. ASSUME NEW c \in Ctr, DeleteGrant(c) PROVE TypeOK'
  <2>1. PolicyTypeOK'
    BY <1>14 DEF DeleteGrant, PolicyTypeOK
  <2> QED
    BY <1>14, <2>1 DEF DeleteGrant, Enter
<1>15. ASSUME NEW c \in Ctr, CallStopContainer(c) PROVE TypeOK'
  BY <1>0, <1>15 DEF CallStopContainer, Fault, EndCall, Enter
<1>16. ASSUME NEW c \in Ctr, Exit(c) \/ RemoveContainer(c) PROVE TypeOK'
  BY <1>0, <1>16 DEF Exit, RemoveContainer
<1>17. CASE Restart
  <2>1. PolicyTypeOK'
    BY <1>17 DEF Restart, PolicyTypeOK, EmptySupply, Supply
  <2> QED
    BY <1>17, <2>1 DEF Restart, Fault
<1>18. ASSUME NEW c \in Ctr, RebuildNext(c) PROVE TypeOK'
  BY <1>18, RebuildEffect
<1> QED
  BY <1>1, <1>2, <1>3, <1>4, <1>5, <1>6, <1>7, <1>8, <1>9, <1>10, <1>11, <1>12,
     <1>13, <1>14, <1>15, <1>16, <1>17, <1>18 DEF Next, Create, Stop

--------------------------------------------------------------------------------
(***************************************************************************)
(* Handlers: calls, phases and what they have in hand.                     *)
(***************************************************************************)

\* A handler goes through the phases of its call only.
LEMMA StepCallPhase == HookInvariant /\ [Next]_vars => CallPhase'
<1> SUFFICES ASSUME HookInvariant, [Next]_vars PROVE CallPhase'
  OBVIOUS
<1> USE DEF HookInvariant, TypeOK, HookPhase, CallPhase, hookVars, startVars
<1>1. CASE UNCHANGED vars
  BY <1>1 DEF vars
<1>2. ASSUME NEW s \in Sandbox, RunPodSandbox(s) \/ StopPodSandbox(s) PROVE CallPhase'
  BY <1>2 DEF RunPodSandbox, StopPodSandbox
<1>3. ASSUME NEW c \in Ctr, BeginCreateContainer(c) PROVE CallPhase'
  BY <1>3 DEF BeginCreateContainer, Enter
<1>4. ASSUME NEW c \in Ctr, ChoosePool(c) \/ CheckSupply(c) PROVE CallPhase'
  BY <1>4 DEF ChoosePool, CheckSupply, Enter
<1>5. ASSUME NEW c \in Ctr, StoreGrant(c) \/ DeleteGrant(c) \/ ReadSupply(c) PROVE CallPhase'
  BY <1>5 DEF StoreGrant, DeleteGrant, ReadSupply, Enter
<1>6. ASSUME NEW c \in Ctr, WriteSupply(c) PROVE CallPhase'
  BY <1>6 DEF WriteSupply, Enter, AfterWrite
<1>7. ASSUME NEW c \in Ctr, CallCreateContainer(c) \/ FailCreateContainer(c) PROVE CallPhase'
  BY <1>7 DEF CallCreateContainer, FailCreateContainer, EndCall, Enter
<1>8. ASSUME NEW c \in Ctr, InsertContainer(c) \/ CallStopContainer(c) PROVE CallPhase'
  BY <1>8 DEF InsertContainer, CallStopContainer, EndCall, Enter
<1>9. ASSUME NEW c \in Ctr, BeginStopContainer(c) PROVE CallPhase'
  BY <1>9 DEF BeginStopContainer, Enter
<1>10. ASSUME NEW c \in Ctr, Exit(c) \/ RemoveContainer(c) PROVE CallPhase'
  BY <1>10 DEF Exit, RemoveContainer
<1>11. CASE Restart
  BY <1>11 DEF Restart
<1>12. ASSUME NEW c \in Ctr, RebuildNext(c) PROVE CallPhase'
  BY <1>12, RebuildEffect
<1> QED
  BY <1>1, <1>2, <1>3, <1>4, <1>5, <1>6, <1>7, <1>8, <1>9, <1>10, <1>11, <1>12 DEF Next, Create, Stop

\* A handler has its grant and the counters it has read when it needs them.
LEMMA StepHookData == HookInvariant /\ [Next]_vars => HookData'
<1> SUFFICES ASSUME HookInvariant, [Next]_vars PROVE HookData'
  OBVIOUS
<1> USE DEF HookInvariant, TypeOK, HookPhase, HookData, hookVars
<1>1. CASE UNCHANGED vars
  BY <1>1 DEF vars
<1>2. ASSUME NEW s \in Sandbox, RunPodSandbox(s) \/ StopPodSandbox(s) PROVE HookData'
  BY <1>2 DEF RunPodSandbox, StopPodSandbox
<1>3. ASSUME NEW c \in Ctr, BeginCreateContainer(c) PROVE HookData'
  BY <1>3 DEF BeginCreateContainer, Enter
<1>4. ASSUME NEW c \in Ctr, ChoosePool(c) PROVE HookData'
  <2>1. ASSUME NEW p \in Pool
        PROVE  /\ GrantOf(RequestOf[c], p) \in Grant
               /\ GrantOf(RequestOf[c], p).pool \in Path[p]
    BY GrantOfType DEF GrantOf
  <2>2. PICK p \in Pool : /\ grant' = [grant EXCEPT ![c] = GrantOf(RequestOf[c], p)]
                          /\ todo' = [todo EXCEPT ![c] = Path[p]]
    BY <1>4 DEF ChoosePool
  <2>3. phase' = [phase EXCEPT ![c] = "check"] /\ UNCHANGED seen
    BY <1>4 DEF ChoosePool, Enter
  <2> QED
    BY <2>1, <2>2, <2>3
<1>5. ASSUME NEW c \in Ctr, CheckSupply(c) PROVE HookData'
  BY <1>5 DEF CheckSupply, Enter
<1>6. ASSUME NEW c \in Ctr, StoreGrant(c) \/ DeleteGrant(c) PROVE HookData'
  BY <1>6 DEF StoreGrant, DeleteGrant, Enter
<1>7. ASSUME NEW c \in Ctr, ReadSupply(c) PROVE HookData'
  <2>1. \A p \in Pool : supply[p] \in Supply
    BY DEF PolicyTypeOK
  <2> QED
    BY <1>7, <2>1 DEF ReadSupply, Enter
<1>8. ASSUME NEW c \in Ctr, WriteSupply(c) PROVE HookData'
  BY <1>8 DEF WriteSupply, Enter, AfterWrite
<1>9. ASSUME NEW c \in Ctr, CallCreateContainer(c) \/ FailCreateContainer(c) PROVE HookData'
  BY <1>9 DEF CallCreateContainer, FailCreateContainer, EndCall, Enter
<1>10. ASSUME NEW c \in Ctr, InsertContainer(c) \/ CallStopContainer(c) PROVE HookData'
  BY <1>10 DEF InsertContainer, CallStopContainer, EndCall, Enter
<1>11. ASSUME NEW c \in Ctr, BeginStopContainer(c) PROVE HookData'
  <2>1. Held(GidOf[c]) => grants[GidOf[c]] \in Grant
    BY DEF PolicyTypeOK, Held
  <2> QED
    BY <1>11, <2>1 DEF BeginStopContainer, Enter
<1>12. ASSUME NEW c \in Ctr, Exit(c) \/ RemoveContainer(c) PROVE HookData'
  BY <1>12 DEF Exit, RemoveContainer
<1>13. CASE Restart
  BY <1>13 DEF Restart
<1>14. ASSUME NEW c \in Ctr, RebuildNext(c) PROVE HookData'
  BY <1>14, RebuildEffect
<1> QED
  BY <1>1, <1>2, <1>3, <1>4, <1>5, <1>6, <1>7, <1>8, <1>9, <1>10, <1>11, <1>12, <1>13, <1>14
  DEF Next, Create, Stop

\* kubelet starts a container again only when the instance before is dead and
\* no call for its pod is pending.
LEMMA StepLiveUnique == HookInvariant /\ [Next]_vars => LiveUnique'
<1> SUFFICES ASSUME HookInvariant, [Next]_vars PROVE LiveUnique'
  OBVIOUS
<1> USE DEF HookInvariant, TypeOK
<1>1. ASSUME NEW c \in Ctr, BeginCreateContainer(c) PROVE LiveUnique'
  <2>1. ASSUME NEW d \in Ctr, GidOf[d] = GidOf[c] PROVE ~Live(d)
    <3>1. SandboxOf[d] = SandboxOf[c]
      BY <2>1
    <3>2. call[d] \notin CallsIn(SandboxOf[c]) /\ ctrs[d] # "running"
      BY <1>1, <2>1 DEF BeginCreateContainer
    <3> QED
      BY <3>1, <3>2 DEF CallsIn, Live
  <2>2. \A d \in Ctr \ {c} : Live(d)' <=> Live(d)
    BY <1>1 DEF BeginCreateContainer, Live, runtimeVars
  <2> QED
    BY <2>1, <2>2 DEF LiveUnique
<1>2. ASSUME \A c \in Ctr : Live(c)' => Live(c) PROVE LiveUnique'
  BY <1>2 DEF LiveUnique
<1>3. CASE UNCHANGED vars
  BY <1>2, <1>3 DEF vars, Live
<1>4. ASSUME NEW s \in Sandbox, RunPodSandbox(s) \/ StopPodSandbox(s) PROVE LiveUnique'
  BY <1>2, <1>4 DEF RunPodSandbox, StopPodSandbox, Live, hookVars
<1>5. ASSUME NEW c \in Ctr,
             \/ ChoosePool(c) \/ CheckSupply(c) \/ StoreGrant(c) \/ DeleteGrant(c)
             \/ ReadSupply(c) \/ WriteSupply(c) \/ Exit(c) \/ RemoveContainer(c)
      PROVE  LiveUnique'
  BY <1>2, <1>5 DEF ChoosePool, CheckSupply, StoreGrant, DeleteGrant, ReadSupply,
                    WriteSupply, Exit, RemoveContainer, Live, runtimeVars, hookVars
<1>6. ASSUME NEW c \in Ctr, CallCreateContainer(c) \/ FailCreateContainer(c) PROVE LiveUnique'
  <2>1. call[c] # "none"
    BY <1>6 DEF CallCreateContainer, FailCreateContainer, CallPhase
  <2> QED
    BY <1>2, <1>6, <2>1 DEF CallCreateContainer, FailCreateContainer, EndCall, Live
<1>7. ASSUME NEW c \in Ctr, InsertContainer(c) \/ CallStopContainer(c) PROVE LiveUnique'
  BY <1>2, <1>7 DEF InsertContainer, CallStopContainer, EndCall, Live, runtimeVars
<1>8. ASSUME NEW c \in Ctr, BeginStopContainer(c) PROVE LiveUnique'
  BY <1>2, <1>8 DEF BeginStopContainer, Live, runtimeVars
<1>9. CASE Restart
  BY <1>2, <1>9 DEF Restart, Live
<1>10. ASSUME NEW c \in Ctr, RebuildNext(c) PROVE LiveUnique'
  BY <1>2, <1>10, RebuildEffect DEF Live
<1> QED
  BY <1>1, <1>3, <1>4, <1>5, <1>6, <1>7, <1>8, <1>9, <1>10 DEF Next, Create, Stop

\* What a create has stored under its id stays there until it is done: no other
\* call works on the id meanwhile.
LEMMA StepGrantStored == HookInvariant /\ [Next]_vars => GrantStored'
<1> SUFFICES ASSUME HookInvariant, [Next]_vars PROVE GrantStored'
  OBVIOUS
<1> USE DEF HookInvariant, TypeOK, HookPhase, hookVars, policyVars
<1>1. CASE UNCHANGED vars
  BY <1>1 DEF vars, GrantStored
<1>2. ASSUME NEW s \in Sandbox, RunPodSandbox(s) \/ StopPodSandbox(s) PROVE GrantStored'
  BY <1>2 DEF RunPodSandbox, StopPodSandbox, GrantStored
<1>3. ASSUME NEW c \in Ctr, BeginCreateContainer(c) PROVE GrantStored'
  <2>1. call[c] = "none"
    <3>1. call[c] \notin CallsIn(SandboxOf[c])
      BY <1>3 DEF BeginCreateContainer
    <3> QED
      BY <3>1 DEF CallsIn
  <2>2. grant[c] = NoGrant
    BY <2>1 DEF CallPhase, HookData
  <2> QED
    BY <1>3, <2>2 DEF BeginCreateContainer, Enter, GrantStored
<1>4. ASSUME NEW c \in Ctr, ChoosePool(c) PROVE GrantStored'
  BY <1>4 DEF ChoosePool, Enter, GrantStored
<1>5. ASSUME NEW c \in Ctr, CheckSupply(c) PROVE GrantStored'
  BY <1>5 DEF CheckSupply, Enter, GrantStored, HookData
<1>6. ASSUME NEW c \in Ctr, StoreGrant(c) \/ DeleteGrant(c) PROVE GrantStored'
  <2>1. ASSUME NEW d \in Ctr \ {c}, phase[d] # "idle" PROVE GidOf[d] # GidOf[c]
    BY <1>6, <2>1 DEF StoreGrant, DeleteGrant, CallPhase, LiveUnique, Live
  <2>2. \A d \in Ctr \ {c} :
          phase[d] # "idle" => grants'[GidOf[d]] = grants[GidOf[d]]
    BY <1>6, <2>1 DEF StoreGrant, DeleteGrant, PolicyTypeOK
  <2>3. \A d \in Ctr \ {c} : phase'[d] = phase[d]
    BY <1>6 DEF StoreGrant, DeleteGrant, Enter
  <2>4. CASE StoreGrant(c)
    <3>1. grant[c] \in Grant /\ grants'[GidOf[c]] = grant[c]
      BY <2>4 DEF StoreGrant, HookData, PolicyTypeOK
    <3> QED
      BY <2>2, <2>3, <2>4, <3>1 DEF StoreGrant, GrantStored
  <2>5. CASE DeleteGrant(c)
    BY <2>2, <2>3, <2>5 DEF DeleteGrant, Enter, GrantStored
  <2> QED
    BY <1>6, <2>4, <2>5
<1>7. ASSUME NEW c \in Ctr, ReadSupply(c) PROVE GrantStored'
  BY <1>7 DEF ReadSupply, Enter, GrantStored
<1>8. ASSUME NEW c \in Ctr, WriteSupply(c) PROVE GrantStored'
  BY <1>8 DEF WriteSupply, Enter, AfterWrite, GrantStored, CallPhase
<1>9. ASSUME NEW c \in Ctr, CallCreateContainer(c) \/ FailCreateContainer(c) PROVE GrantStored'
  BY <1>9 DEF CallCreateContainer, FailCreateContainer, EndCall, Enter, GrantStored
<1>10. ASSUME NEW c \in Ctr, InsertContainer(c) \/ CallStopContainer(c) PROVE GrantStored'
  BY <1>10 DEF InsertContainer, CallStopContainer, EndCall, Enter, GrantStored
<1>11. ASSUME NEW c \in Ctr, BeginStopContainer(c) PROVE GrantStored'
  BY <1>11 DEF BeginStopContainer, Enter, GrantStored
<1>12. ASSUME NEW c \in Ctr, Exit(c) \/ RemoveContainer(c) PROVE GrantStored'
  BY <1>12 DEF Exit, RemoveContainer, GrantStored
<1>13. CASE Restart
  BY <1>13 DEF Restart, GrantStored
<1>14. ASSUME NEW c \in Ctr, RebuildNext(c) PROVE GrantStored'
  BY <1>14, RebuildEffect DEF GrantStored
<1> QED
  BY <1>1, <1>2, <1>3, <1>4, <1>5, <1>6, <1>7, <1>8, <1>9, <1>10, <1>11, <1>12, <1>13, <1>14
  DEF Next, Create, Stop

\* A start loads what it rebuilds while it handles no call, and the ids of running
\* containers differ.
LEMMA StepStarting == HookInvariant /\ [Next]_vars => Starting'
<1> SUFFICES ASSUME HookInvariant, [Next]_vars PROVE Starting'
  OBVIOUS
<1> USE DEF HookInvariant, TypeOK, Held
<1>1. CASE UNCHANGED vars
  BY <1>1 DEF vars, Starting
<1>2. ASSUME toRebuild = {}, UNCHANGED toRebuild PROVE Starting'
  BY <1>2 DEF Starting
<1>3. ASSUME NEW s \in Sandbox, RunPodSandbox(s) \/ StopPodSandbox(s) PROVE Starting'
  BY <1>2, <1>3 DEF RunPodSandbox, StopPodSandbox, Serving, startVars
<1>4. ASSUME NEW c \in Ctr, BeginCreateContainer(c) \/ BeginStopContainer(c) PROVE Starting'
  BY <1>2, <1>4 DEF BeginCreateContainer, BeginStopContainer, Serving, Enter, startVars
<1>5. ASSUME NEW c \in Ctr, phase[c] # "idle" PROVE toRebuild = {}
  BY <1>5 DEF Starting, CallPhase
<1>6. ASSUME NEW c \in Ctr,
             \/ ChoosePool(c) \/ CheckSupply(c) \/ StoreGrant(c) \/ DeleteGrant(c)
             \/ ReadSupply(c) \/ WriteSupply(c)
      PROVE  Starting'
  BY <1>2, <1>5, <1>6 DEF ChoosePool, CheckSupply, StoreGrant, DeleteGrant, ReadSupply,
                          WriteSupply, Enter, startVars
<1>7. ASSUME NEW c \in Ctr,
             \/ CallCreateContainer(c) \/ FailCreateContainer(c) \/ InsertContainer(c)
             \/ CallStopContainer(c)
      PROVE  Starting'
  BY <1>2, <1>5, <1>7 DEF CallCreateContainer, FailCreateContainer, InsertContainer,
                          CallStopContainer, EndCall, Enter, startVars
<1>8. ASSUME NEW c \in Ctr, Exit(c) \/ RemoveContainer(c) PROVE Starting'
  BY <1>8 DEF Exit, RemoveContainer, Starting, cacheVars, hookVars, startVars, policyVars
<1>9. CASE Restart
  BY <1>9 DEF Restart, Starting, LiveUnique, Live
<1>10. ASSUME NEW c \in Ctr, RebuildNext(c) PROVE Starting'
  BY <1>10, RebuildEffect DEF Starting
<1> QED
  BY <1>1, <1>3, <1>4, <1>6, <1>7, <1>8, <1>9, <1>10 DEF Next, Create, Stop

\* The invariant of the handlers holds however their steps interleave.
LEMMA HookInvariantHolds == Spec => []HookInvariant
<1>1. Init => HookInvariant
  <2>1. Init => TypeOK
    <3>1. PolicyInit => PolicyTypeOK
      BY DEF PolicyInit, PolicyTypeOK, EmptySupply, Supply
    <3>2. 0 \in 0..MaxFaults
      OBVIOUS
    <3>3. ASSUME Init
          PROVE  /\ grant \in [Ctr -> Grant \cup {NoGrant}] /\ todo \in [Ctr -> SUBSET Pool]
                 /\ seen \in [Ctr -> Supply \cup {NoSupply}]
                 /\ cpuset \in [Ctr -> SUBSET CpusOf[Root]]
      BY <3>3 DEF Init
    <3>4. ASSUME Init
          PROVE  /\ call \in [Ctr -> {"none", "create", "pass", "stop"}]
                 /\ phase \in [Ctr -> HookPhase \cup {"idle", "call", "insert", "stop"}]
                 /\ sandboxes \in [Sandbox -> {"none", "ready", "stopped"}]
                 /\ ctrs \in [Ctr -> {"none", "running", "exited", "failed", "removed"}]
                 /\ toRebuild \subseteq Ctr /\ rebuilt \in BOOLEAN /\ overlapped \in BOOLEAN
      BY <3>4 DEF Init
    <3>5. Init => cachedPods \subseteq Sandbox /\ cachedCtrs \subseteq Ctr /\ faults = 0
      BY DEF Init
    <3>6. Init => PolicyInit
      BY DEF Init
    <3> QED
      BY <3>1, <3>2, <3>3, <3>4, <3>5, <3>6 DEF TypeOK
  <2>2. Init => CallPhase /\ HookData /\ LiveUnique /\ GrantStored /\ Starting
    BY DEF Init, CallPhase, HookData, LiveUnique, Live, GrantStored, Starting
  <2> QED
    BY <2>1, <2>2 DEF HookInvariant
<1>2. HookInvariant /\ [Next]_vars => HookInvariant'
  BY StepTypeOK, StepCallPhase, StepHookData, StepLiveUnique, StepGrantStored, StepStarting
  DEF HookInvariant
<1> QED
  BY <1>1, <1>2, PTL DEF Spec

\* The state of the proxy, its handlers and the policy keeps its types, also the
\* cpuset containerd is given: the grant a create reads back is never missing.
THEOREM ProxyTypeCorrect == Spec => []TypeOK
<1>1. HookInvariant => TypeOK
  BY DEF HookInvariant
<1> QED
  BY <1>1, HookInvariantHolds, PTL

--------------------------------------------------------------------------------
(***************************************************************************)
(* Pinned containers hold their grants.                                    *)
(***************************************************************************)

\* Only a create with a stored grant pins its container.
LEMMA StepCpusetIsPool == HookInvariant /\ CpusetIsPool /\ [Next]_vars => CpusetIsPool'
<1> SUFFICES ASSUME HookInvariant, CpusetIsPool, [Next]_vars PROVE CpusetIsPool'
  OBVIOUS
<1> USE DEF HookInvariant, TypeOK, runtimeVars
<1>1. ASSUME UNCHANGED cpuset PROVE CpusetIsPool'
  BY <1>1 DEF CpusetIsPool
<1>2. CASE UNCHANGED vars
  BY <1>1, <1>2 DEF vars
<1>3. ASSUME NEW s \in Sandbox, RunPodSandbox(s) \/ StopPodSandbox(s) PROVE CpusetIsPool'
  BY <1>1, <1>3 DEF RunPodSandbox, StopPodSandbox
<1>4. ASSUME NEW c \in Ctr, CallCreateContainer(c) PROVE CpusetIsPool'
  <2>1. grant[c] # NoGrant => grants[GidOf[c]].pool \in Pool
    BY <1>4 DEF CallCreateContainer, GrantStored, Grant
  <2>2. cpuset'[c] # {} => \E q \in Pool : cpuset'[c] = CpusOf[q]
    BY ZenonT(40), <1>4, <2>1 DEF CallCreateContainer
  <2>3. \A d \in Ctr \ {c} : cpuset'[d] = cpuset[d]
    BY <1>4 DEF CallCreateContainer
  <2> QED
    BY <2>2, <2>3 DEF CpusetIsPool
<1>5. ASSUME NEW c \in Ctr,
             \/ BeginCreateContainer(c) \/ ChoosePool(c) \/ CheckSupply(c) \/ StoreGrant(c)
             \/ FailCreateContainer(c) \/ InsertContainer(c) \/ Stop(c)
             \/ ReadSupply(c) \/ WriteSupply(c) \/ Exit(c) \/ RemoveContainer(c)
      PROVE  CpusetIsPool'
  BY <1>1, <1>5 DEF BeginCreateContainer, ChoosePool, CheckSupply, StoreGrant,
                    FailCreateContainer, InsertContainer, Stop, BeginStopContainer, DeleteGrant,
                    CallStopContainer, ReadSupply, WriteSupply, Exit, RemoveContainer
<1>6. CASE Restart
  BY <1>1, <1>6 DEF Restart
<1>7. ASSUME NEW c \in Ctr, RebuildNext(c) PROVE CpusetIsPool'
  BY <1>1, <1>7, RebuildEffect
<1> QED
  BY <1>2, <1>3, <1>4, <1>5, <1>6, <1>7 DEF Next, Create

\* A grant is stored or dropped only by the call of the one live instance of its
\* id, so never under a container that runs undisturbed.
LEMMA StepPinned ==
  HookInvariant /\ CpusetIsPool /\ PinInvariant /\ [Next]_vars => PinInvariant'
<1> SUFFICES ASSUME HookInvariant, CpusetIsPool, PinInvariant, [Next]_vars PROVE PinInvariant'
  OBVIOUS
<1> USE DEF HookInvariant, TypeOK, HookPhase, runtimeVars, cacheVars, hookVars, startVars,
            policyVars
<1>1. CASE UNCHANGED vars
  BY <1>1 DEF vars, PinInvariant, HasGrant, Held
<1>2. ASSUME NEW s \in Sandbox, RunPodSandbox(s) \/ StopPodSandbox(s) PROVE PinInvariant'
  BY <1>2 DEF RunPodSandbox, StopPodSandbox, PinInvariant, HasGrant, Held
<1>3. ASSUME NEW c \in Ctr, BeginCreateContainer(c) \/ BeginStopContainer(c) PROVE PinInvariant'
  BY <1>3 DEF BeginCreateContainer, BeginStopContainer, Enter, PinInvariant, HasGrant, Held
<1>4. ASSUME NEW c \in Ctr, ChoosePool(c) \/ CheckSupply(c) PROVE PinInvariant'
  BY <1>4 DEF ChoosePool, CheckSupply, Enter, PinInvariant, HasGrant, Held
<1>5. ASSUME NEW c \in Ctr, StoreGrant(c) \/ DeleteGrant(c) PROVE PinInvariant'
  <2>1. ASSUME NEW d \in Ctr \ {c}, Live(d) PROVE GidOf[d] # GidOf[c]
    BY <1>5, <2>1 DEF StoreGrant, DeleteGrant, CallPhase, LiveUnique, Live
  <2>2. \A d \in Ctr \ {c} : Live(d) => grants'[GidOf[d]] = grants[GidOf[d]]
    BY <1>5, <2>1 DEF StoreGrant, DeleteGrant, PolicyTypeOK
  <2>3. /\ \A d \in Ctr \ {c} : phase'[d] = phase[d]
        /\ phase'[c] # "insert" /\ call[c] # "none"
        /\ UNCHANGED <<ctrs, cpuset, cachedCtrs, toRebuild, call>>
    BY <1>5 DEF StoreGrant, DeleteGrant, Enter, CallPhase
  <2> QED
    BY <2>2, <2>3 DEF PinInvariant, HasGrant, Held, Live
<1>6. ASSUME NEW c \in Ctr, ReadSupply(c) PROVE PinInvariant'
  BY <1>6 DEF ReadSupply, Enter, PinInvariant, HasGrant, Held
<1>7. ASSUME NEW c \in Ctr, WriteSupply(c) PROVE PinInvariant'
  BY <1>7 DEF WriteSupply, Enter, AfterWrite, PinInvariant, HasGrant, Held
<1>8. ASSUME NEW c \in Ctr, CallCreateContainer(c) PROVE PinInvariant'
  <2>1. cpuset'[c] # {} =>
          Held(GidOf[c]) /\ cpuset'[c] = CpusOf[grants[GidOf[c]].pool]
    <3>1. grant[c] # NoGrant => Held(GidOf[c])
      BY <1>8 DEF CallCreateContainer, GrantStored, Held
    <3> QED
      BY <1>8, <3>1 DEF CallCreateContainer
  <2>2. /\ \A d \in Ctr \ {c} : /\ phase'[d] = phase[d] /\ call'[d] = call[d]
                               /\ ctrs'[d] = ctrs[d] /\ cpuset'[d] = cpuset[d]
        /\ UNCHANGED <<grants, cachedCtrs, toRebuild>>
    BY <1>8 DEF CallCreateContainer, EndCall, Enter
  <2> QED
    BY <2>1, <2>2 DEF PinInvariant, HasGrant, Held
<1>9. ASSUME NEW c \in Ctr, FailCreateContainer(c) PROVE PinInvariant'
  BY <1>9 DEF FailCreateContainer, EndCall, Enter, PinInvariant, HasGrant, Held
<1>10. ASSUME NEW c \in Ctr, InsertContainer(c) PROVE PinInvariant'
  BY <1>10 DEF InsertContainer, EndCall, Enter, PinInvariant, HasGrant, Held
<1>11. ASSUME NEW c \in Ctr, CallStopContainer(c) PROVE PinInvariant'
  BY <1>11 DEF CallStopContainer, EndCall, Enter, PinInvariant, HasGrant, Held
<1>12. ASSUME NEW c \in Ctr, Exit(c) \/ RemoveContainer(c) PROVE PinInvariant'
  BY <1>12 DEF Exit, RemoveContainer, PinInvariant, HasGrant, Held
<1>13. CASE Restart
  BY <1>13 DEF Restart, PinInvariant
<1>14. ASSUME NEW c \in Ctr, RebuildNext(c) PROVE PinInvariant'
  <2>1. ASSUME NEW d \in Ctr, HasGrant(d), GidOf[d] # GidOf[c] PROVE HasGrant(d)'
    BY <1>14, <2>1, RebuildEffect DEF HasGrant, Held
  <2>2. ~Held(GidOf[c])
    BY <1>14, RebuildEffect DEF Starting
  <2>3. ASSUME c \notin SystemCtr, cpuset[c] # {} PROVE HasGrant(c)'
    <3>1. PICK p \in Pool : /\ IsNodeByCPUSet(cpuset[c], p)
                            /\ RebuildContainerAllocation(GidOf[c], ResourcesOf(SpecOf[c]), p)
      BY <1>14, <2>3 DEF RebuildNext
    <3>2. PICK q \in Pool : cpuset[c] = CpusOf[q]
      BY <2>3 DEF CpusetIsPool
    <3>3. CpusOf[p] = cpuset[c]
      BY <2>3, <3>1, <3>2, RebuildFindsPool
    <3>4. /\ GrantFromContainer(ResourcesOf(SpecOf[c]), p) # NoGrant
          /\ GrantFromContainer(ResourcesOf(SpecOf[c]), p).pool = p
      BY RebuiltGrant
    <3>5. grants' = [grants EXCEPT ![GidOf[c]] = GrantFromContainer(ResourcesOf(SpecOf[c]), p)]
      BY <2>2, <3>1 DEF RebuildContainerAllocation
    <3>6. grants'[GidOf[c]] = GrantFromContainer(ResourcesOf(SpecOf[c]), p) /\ cpuset'[c] = cpuset[c]
      BY <1>14, <3>5, RebuildEffect DEF PolicyTypeOK
    <3> QED
      BY <3>3, <3>4, <3>6 DEF HasGrant, Held
  <2>4. \A d \in Ctr : HasGrant(d) => GidOf[d] # GidOf[c]
    BY <2>2 DEF HasGrant
  <2> QED
    BY <1>14, <2>1, <2>3, <2>4, RebuildEffect DEF PinInvariant
<1> QED
  BY <1>1, <1>2, <1>3, <1>4, <1>5, <1>6, <1>7, <1>8, <1>9, <1>10, <1>11, <1>12, <1>13, <1>14
  DEF Next, Create, Stop

\* A container in the cache that runs pinned and is not being handled holds the
\* grant of its id, on a pool with its CPUs, however hooks overlap, calls fail and
\* earlier instances end (topology_aware.go, dispatcher.go).
THEOREM PinnedHoldsGrant == Spec => []PinnedHasGrant
<1>1. Init => CpusetIsPool /\ PinInvariant
  BY DEF Init, CpusetIsPool, PinInvariant
<1>2. HookInvariant /\ PinInvariant => PinnedHasGrant
  BY DEF HookInvariant, TypeOK, PinInvariant, PinnedHasGrant, HasGrant
<1> QED
  BY <1>1, <1>2, StepCpusetIsPool, StepPinned, HookInvariantHolds, PTL DEF Spec

--------------------------------------------------------------------------------
(***************************************************************************)
(* Every grant has an owner.                                               *)
(***************************************************************************)

\* What containerd knows of a container being handled, through every step.
LEMMA StepCallCtrState == HookInvariant /\ CallCtrState /\ [Next]_vars => CallCtrState'
<1> SUFFICES ASSUME HookInvariant, CallCtrState, [Next]_vars PROVE CallCtrState'
  OBVIOUS
<1> USE DEF HookInvariant, TypeOK, HookPhase, CallPhase, CallCtrState,
            runtimeVars, cacheVars, hookVars, startVars
<1>1. CASE UNCHANGED vars
  BY <1>1 DEF vars
<1>2. ASSUME NEW s \in Sandbox, RunPodSandbox(s) \/ StopPodSandbox(s) PROVE CallCtrState'
  BY <1>2 DEF RunPodSandbox, StopPodSandbox
<1>3. ASSUME NEW c \in Ctr, BeginCreateContainer(c) \/ BeginStopContainer(c) PROVE CallCtrState'
  BY <1>3 DEF BeginCreateContainer, BeginStopContainer, Enter
<1>4. ASSUME NEW c \in Ctr, ChoosePool(c) \/ CheckSupply(c) PROVE CallCtrState'
  BY <1>4 DEF ChoosePool, CheckSupply, Enter
<1>5. ASSUME NEW c \in Ctr, StoreGrant(c) \/ DeleteGrant(c) PROVE CallCtrState'
  BY <1>5 DEF StoreGrant, DeleteGrant, Enter
<1>6. ASSUME NEW c \in Ctr, ReadSupply(c) \/ WriteSupply(c) PROVE CallCtrState'
  BY <1>6 DEF ReadSupply, WriteSupply, Enter, AfterWrite
<1>7. ASSUME NEW c \in Ctr, CallCreateContainer(c) \/ FailCreateContainer(c) PROVE CallCtrState'
  BY <1>7 DEF CallCreateContainer, FailCreateContainer, EndCall, Enter
<1>8. ASSUME NEW c \in Ctr, InsertContainer(c) PROVE CallCtrState'
  BY <1>8 DEF InsertContainer, EndCall, Enter
<1>9. ASSUME NEW c \in Ctr, CallStopContainer(c) PROVE CallCtrState'
  BY <1>9 DEF CallStopContainer, EndCall, Enter
<1>10. ASSUME NEW c \in Ctr, Exit(c) \/ RemoveContainer(c) PROVE CallCtrState'
  BY <1>10 DEF Exit, RemoveContainer
<1>11. CASE Restart
  BY <1>11 DEF Restart
<1>12. ASSUME NEW c \in Ctr, RebuildNext(c) PROVE CallCtrState'
  BY <1>12, RebuildEffect
<1> QED
  BY <1>1, <1>2, <1>3, <1>4, <1>5, <1>6, <1>7, <1>8, <1>9, <1>10, <1>11, <1>12 DEF Next, Create, Stop

\* StopPodSandbox takes the pod out of the cache only when nothing of it runs or
\* is being handled.
LEMMA StepPodIsCached ==
  HookInvariant /\ CallCtrState /\ PodIsCached /\ [Next]_vars => PodIsCached'
<1> SUFFICES ASSUME HookInvariant, CallCtrState, PodIsCached, [Next]_vars PROVE PodIsCached'
  OBVIOUS
<1> USE DEF HookInvariant, TypeOK, HookPhase, CallPhase, PodIsCached, Live,
            runtimeVars, cacheVars, hookVars, startVars
<1>1. CASE UNCHANGED vars
  BY <1>1 DEF vars
<1>2. ASSUME NEW s \in Sandbox, RunPodSandbox(s) PROVE PodIsCached'
  BY <1>2 DEF RunPodSandbox
<1>3. ASSUME NEW s \in Sandbox, StopPodSandbox(s) PROVE PodIsCached'
  <2>1. ASSUME NEW c \in Ctr, SandboxOf[c] = s PROVE call[c] = "none" /\ ctrs[c] # "running"
    <3>1. call[c] \notin CallsIn(s)
      BY <1>3 DEF StopPodSandbox
    <3> QED
      BY <1>3, <2>1, <3>1 DEF StopPodSandbox, CallsIn
  <2> QED
    BY <1>3, <2>1 DEF StopPodSandbox
<1>4. ASSUME NEW c \in Ctr, BeginCreateContainer(c) \/ BeginStopContainer(c) PROVE PodIsCached'
  BY <1>4 DEF BeginCreateContainer, BeginStopContainer, CallCtrState
<1>5. ASSUME NEW c \in Ctr,
             \/ ChoosePool(c) \/ CheckSupply(c) \/ StoreGrant(c) \/ DeleteGrant(c)
             \/ ReadSupply(c) \/ WriteSupply(c)
      PROVE  PodIsCached'
  BY <1>5 DEF ChoosePool, CheckSupply, StoreGrant, DeleteGrant, ReadSupply, WriteSupply
<1>6. ASSUME NEW c \in Ctr, CallCreateContainer(c) \/ FailCreateContainer(c) PROVE PodIsCached'
  BY <1>6 DEF CallCreateContainer, FailCreateContainer, EndCall, CallCtrState
<1>7. ASSUME NEW c \in Ctr, InsertContainer(c) \/ CallStopContainer(c) PROVE PodIsCached'
  BY <1>7 DEF InsertContainer, CallStopContainer, EndCall
<1>8. ASSUME NEW c \in Ctr, Exit(c) \/ RemoveContainer(c) PROVE PodIsCached'
  BY <1>8 DEF Exit, RemoveContainer
<1>9. CASE Restart
  BY <1>9 DEF Restart
<1>10. ASSUME NEW c \in Ctr, RebuildNext(c) PROVE PodIsCached'
  BY <1>10, RebuildEffect
<1> QED
  BY <1>1, <1>2, <1>3, <1>4, <1>5, <1>6, <1>7, <1>8, <1>9, <1>10 DEF Next, Create, Stop

\* A stop that found the container has nothing left to release when it ends.
LEMMA StepStopReleased ==
  HookInvariant /\ CallCtrState /\ PodIsCached /\ StopReleased /\ [Next]_vars => StopReleased'
<1> SUFFICES ASSUME HookInvariant, CallCtrState, PodIsCached, StopReleased, [Next]_vars
             PROVE  StopReleased'
  OBVIOUS
<1> USE DEF HookInvariant, TypeOK, HookPhase, CallPhase, StopReleased, Held,
            runtimeVars, cacheVars, hookVars, startVars, policyVars
<1>1. CASE UNCHANGED vars
  BY <1>1 DEF vars
<1>2. ASSUME NEW s \in Sandbox, RunPodSandbox(s) \/ StopPodSandbox(s) PROVE StopReleased'
  BY <1>2 DEF RunPodSandbox, StopPodSandbox
<1>3. ASSUME NEW c \in Ctr, BeginCreateContainer(c) PROVE StopReleased'
  BY <1>3 DEF BeginCreateContainer, Enter
<1>4. ASSUME NEW c \in Ctr, BeginStopContainer(c) PROVE StopReleased'
  BY <1>4 DEF BeginStopContainer, Enter, PodIsCached, Live
<1>5. ASSUME NEW c \in Ctr, ChoosePool(c) \/ CheckSupply(c) PROVE StopReleased'
  BY <1>5 DEF ChoosePool, CheckSupply, Enter
<1>6. ASSUME NEW c \in Ctr, StoreGrant(c) PROVE StopReleased'
  <2>1. ASSUME NEW d \in Ctr, phase[d] = "stop" PROVE GidOf[d] # GidOf[c]
    BY <1>6, <2>1 DEF StoreGrant, LiveUnique, Live
  <2>2. \A d \in Ctr : phase'[d] = "stop" => phase[d] = "stop"
    BY <1>6 DEF StoreGrant, Enter
  <2>3. \A d \in Ctr : phase[d] = "stop" => grants'[GidOf[d]] = grants[GidOf[d]]
    BY <1>6, <2>1 DEF StoreGrant, PolicyTypeOK
  <2> QED
    BY <1>6, <2>2, <2>3 DEF StoreGrant
<1>7. ASSUME NEW c \in Ctr, DeleteGrant(c) PROVE StopReleased'
  BY <1>7 DEF DeleteGrant, Enter, PolicyTypeOK
<1>8. ASSUME NEW c \in Ctr, ReadSupply(c) \/ WriteSupply(c) PROVE StopReleased'
  BY <1>8 DEF ReadSupply, WriteSupply, Enter, AfterWrite
<1>9. ASSUME NEW c \in Ctr, CallCreateContainer(c) \/ FailCreateContainer(c) PROVE StopReleased'
  BY <1>9 DEF CallCreateContainer, FailCreateContainer, EndCall, Enter
<1>10. ASSUME NEW c \in Ctr, InsertContainer(c) \/ CallStopContainer(c) PROVE StopReleased'
  BY <1>10 DEF InsertContainer, CallStopContainer, EndCall, Enter
<1>11. ASSUME NEW c \in Ctr, Exit(c) \/ RemoveContainer(c) PROVE StopReleased'
  BY <1>11 DEF Exit, RemoveContainer
<1>12. CASE Restart
  BY <1>12 DEF Restart
<1>13. ASSUME NEW c \in Ctr, RebuildNext(c) PROVE StopReleased'
  BY <1>13, RebuildEffect
<1> QED
  BY <1>1, <1>2, <1>3, <1>4, <1>5, <1>6, <1>7, <1>8, <1>9, <1>10, <1>11, <1>12, <1>13
  DEF Next, Create, Stop

\* An owner is lost only by a stop, after the release.
LEMMA StepGrantOwned ==
  HookInvariant /\ OwnerInvariant /\ [Next]_vars => GrantOwned'
<1> SUFFICES ASSUME HookInvariant, OwnerInvariant, [Next]_vars PROVE GrantOwned'
  OBVIOUS
<1> USE DEF HookInvariant, OwnerInvariant, TypeOK, HookPhase, CallPhase, CallCtrState, Held,
            runtimeVars, cacheVars, hookVars, startVars, policyVars
<1>1. ASSUME \A c \in Ctr : Owns(c) => Owns(c)',
             \A g \in Gid : Held(g)' => Held(g)
      PROVE  GrantOwned'
  BY <1>1 DEF GrantOwned
<1>2. CASE UNCHANGED vars
  BY <1>1, <1>2 DEF vars, Owns
<1>3. ASSUME NEW s \in Sandbox, RunPodSandbox(s) \/ StopPodSandbox(s) PROVE GrantOwned'
  BY <1>1, <1>3 DEF RunPodSandbox, StopPodSandbox, Owns
<1>4. ASSUME NEW c \in Ctr, BeginCreateContainer(c) PROVE GrantOwned'
  <2>1. call[c] = "none"
    <3>1. call[c] \notin CallsIn(SandboxOf[c])
      BY <1>4 DEF BeginCreateContainer
    <3> QED
      BY <3>1 DEF CallsIn
  <2> QED
    BY <1>1, <1>4, <2>1 DEF BeginCreateContainer, Enter, Owns
<1>5. ASSUME NEW c \in Ctr, BeginStopContainer(c) PROVE GrantOwned'
  BY <1>1, <1>5 DEF BeginStopContainer, Enter, Owns
<1>6. ASSUME NEW c \in Ctr, ChoosePool(c) \/ CheckSupply(c) PROVE GrantOwned'
  BY <1>1, <1>6 DEF ChoosePool, CheckSupply, Enter, Owns
<1>7. ASSUME NEW c \in Ctr, StoreGrant(c) PROVE GrantOwned'
  <2>1. \A d \in Ctr : Owns(d) => Owns(d)'
    BY <1>7 DEF StoreGrant, Enter, Owns
  <2>2. Owns(c)'
    <3>1. grant[c] # NoGrant
      BY <1>7 DEF StoreGrant, HookData
    <3> QED
      BY <1>7, <3>1 DEF StoreGrant, Enter, Owns
  <2>3. \A g \in Gid \ {GidOf[c]} : Held(g)' => Held(g)
    BY <1>7 DEF StoreGrant, PolicyTypeOK
  <2> QED
    BY <2>1, <2>2, <2>3 DEF GrantOwned
<1>8. ASSUME NEW c \in Ctr, DeleteGrant(c) PROVE GrantOwned'
  BY <1>1, <1>8 DEF DeleteGrant, Enter, Owns, PolicyTypeOK
<1>9. ASSUME NEW c \in Ctr, ReadSupply(c) \/ WriteSupply(c) PROVE GrantOwned'
  BY <1>1, <1>9 DEF ReadSupply, WriteSupply, Enter, AfterWrite, Owns
<1>10. ASSUME NEW c \in Ctr, CallCreateContainer(c) PROVE GrantOwned'
  BY <1>1, <1>10 DEF CallCreateContainer, EndCall, Enter, Owns
<1>11. ASSUME NEW c \in Ctr, FailCreateContainer(c) PROVE GrantOwned'
  BY <1>1, <1>11 DEF FailCreateContainer, EndCall, Enter, Owns
<1>12. ASSUME NEW c \in Ctr, InsertContainer(c) PROVE GrantOwned'
  BY <1>1, <1>12 DEF InsertContainer, EndCall, Enter, Owns, PodIsCached
<1>13. ASSUME NEW c \in Ctr, CallStopContainer(c) PROVE GrantOwned'
  <2>1. \A d \in Ctr \ {c} : Owns(d) => Owns(d)'
    BY <1>13 DEF CallStopContainer, EndCall, Enter, Owns
  <2>2. Owns(c) => ~Held(GidOf[c])
    BY <1>13 DEF CallStopContainer, Owns, StopReleased
  <2>3. grants' = grants
    BY <1>13 DEF CallStopContainer
  <2> QED
    BY <2>1, <2>2, <2>3 DEF GrantOwned
<1>14. ASSUME NEW c \in Ctr, Exit(c) \/ RemoveContainer(c) PROVE GrantOwned'
  BY <1>1, <1>14 DEF Exit, RemoveContainer, Owns
<1>15. CASE Restart
  BY <1>15 DEF Restart, GrantOwned
<1>16. ASSUME NEW c \in Ctr, RebuildNext(c) PROVE GrantOwned'
  <2>1. \A d \in Ctr : Owns(d) => Owns(d)'
    BY <1>16, RebuildEffect DEF Owns
  <2>2. Owns(c)'
    BY <1>16, RebuildEffect DEF Owns, Starting
  <2>3. \A g \in Gid \ {GidOf[c]} : Held(g)' => Held(g)
    BY <1>16, RebuildEffect
  <2> QED
    BY <2>1, <2>2, <2>3 DEF GrantOwned
<1> QED
  BY <1>2, <1>3, <1>4, <1>5, <1>6, <1>7, <1>8, <1>9, <1>10, <1>11, <1>12, <1>13, <1>14, <1>15, <1>16
  DEF Next, Create, Stop

\* A grant always belongs to a call being handled, to a container in the cache, or
\* to one containerd refused to create (topology_aware.go, dispatcher.go): a grant
\* is never left under an id nobody can lead to, save by a failed create.
THEOREM GrantsHaveOwners == Spec => []GrantHasOwner
<1>1. Init => OwnerInvariant
  BY DEF Init, OwnerInvariant, CallCtrState, PodIsCached, Live, StopReleased, GrantOwned,
         PolicyInit, Held
<1>2. HookInvariant /\ OwnerInvariant /\ [Next]_vars => OwnerInvariant'
  BY StepCallCtrState, StepPodIsCached, StepStopReleased, StepGrantOwned DEF OwnerInvariant
<1>3. OwnerInvariant => GrantHasOwner
  BY DEF OwnerInvariant, GrantOwned, GrantHasOwner, Owns
<1> QED
  BY <1>1, <1>2, <1>3, HookInvariantHolds, PTL DEF Spec

--------------------------------------------------------------------------------
(***************************************************************************)
(* Handlers one after the other.                                           *)
(***************************************************************************)

\* The counters a handler still has to change are on the path of its grant.
TodoOnPath ==
  \A c \in Ctr :
    phase[c] \in {"check", "read", "write", "store"} => todo[c] \subseteq Path[grant[c].pool]

AtMostOneActive == \A c, d \in Active : c = d

SeenIsCurrent ==
  \A c \in Ctr : phase[c] = "write" =>
    \A p \in todo[c] : IsNextPool(c, p) => seen[c] = supply[p]

\* Until two hooks overlap a handler works on the counters as they are.
AloneInvariant == ~overlapped => AtMostOneActive /\ SeenIsCurrent

HandlerStep(c) == Create(c) \/ Stop(c) \/ ReadSupply(c) \/ WriteSupply(c)

\* The propagation has one pool to go to next: depths differ along a path.
LEMMA NextPoolUnique ==
  ASSUME NEW c \in Ctr, grant[c] \in Grant, todo[c] \subseteq Path[grant[c].pool],
         NEW p, IsNextPool(c, p), NEW q, IsNextPool(c, q)
  PROVE  p = q
<1>1. grant[c].pool \in Pool
  BY DEF Grant
<1>2. p \in Path[grant[c].pool] /\ q \in Path[grant[c].pool] /\ p \in Pool /\ q \in Pool
  BY <1>1 DEF IsNextPool
<1>3. /\ IsFiniteSet(Path[p]) /\ IsFiniteSet(Path[q])
      /\ Cardinality(Path[p]) \in Nat /\ Cardinality(Path[q]) \in Nat
  BY <1>2, FS_CardinalityType
<1>4. \E S : p \in DeepestOf(S) /\ q \in DeepestOf(S)
  BY DEF IsNextPool
<1>5. Cardinality(Path[p]) = Cardinality(Path[q])
  BY <1>3, <1>4 DEF DeepestOf, Depth
<1>6. Path[p] \subseteq Path[q] \/ Path[q] \subseteq Path[p]
  BY <1>1, <1>2
<1>7. Path[p] = Path[q]
  BY <1>3, <1>5, <1>6, FS_Subset
<1> QED
  BY <1>2, <1>7

\* Nobody adds to the counters a handler still has to change.
LEMMA StepTodoOnPath == HookInvariant /\ TodoOnPath /\ [Next]_vars => TodoOnPath'
<1> SUFFICES ASSUME HookInvariant, TodoOnPath, [Next]_vars PROVE TodoOnPath'
  OBVIOUS
<1> USE DEF HookInvariant, TypeOK, HookPhase, CallPhase, TodoOnPath, hookVars
<1>1. CASE UNCHANGED vars
  BY <1>1 DEF vars
<1>2. ASSUME NEW s \in Sandbox, RunPodSandbox(s) \/ StopPodSandbox(s) PROVE TodoOnPath'
  BY <1>2 DEF RunPodSandbox, StopPodSandbox
<1>3. ASSUME NEW c \in Ctr, BeginCreateContainer(c) PROVE TodoOnPath'
  BY <1>3 DEF BeginCreateContainer, Enter
<1>4. ASSUME NEW c \in Ctr, BeginStopContainer(c) PROVE TodoOnPath'
  <2>1. ASSUME NEW d \in Ctr \ {c}
        PROVE  /\ phase'[d] = phase[d] /\ grant'[d] = grant[d] /\ todo'[d] = todo[d]
    BY <1>4, <2>1 DEF BeginStopContainer, Enter
  <2>2. phase'[c] = "stop" \/ (todo'[c] = Path[grant'[c].pool])
    BY <1>4 DEF BeginStopContainer, Enter
  <2> QED
    BY <2>1, <2>2
<1>5. ASSUME NEW c \in Ctr, ChoosePool(c) PROVE TodoOnPath'
  <2>1. ASSUME NEW d \in Ctr \ {c}
        PROVE  /\ phase'[d] = phase[d] /\ grant'[d] = grant[d] /\ todo'[d] = todo[d]
    BY <1>5, <2>1 DEF ChoosePool, Enter
  <2>2. todo'[c] = Path[grant'[c].pool]
    BY <1>5 DEF ChoosePool, GrantOf
  <2> QED
    BY <2>1, <2>2
<1>6. ASSUME NEW c \in Ctr, CheckSupply(c) PROVE TodoOnPath'
  BY <1>6 DEF CheckSupply, Enter
<1>7. ASSUME NEW c \in Ctr, StoreGrant(c) \/ DeleteGrant(c) \/ ReadSupply(c) PROVE TodoOnPath'
  BY <1>7 DEF StoreGrant, DeleteGrant, ReadSupply, Enter
<1>8. ASSUME NEW c \in Ctr, WriteSupply(c) PROVE TodoOnPath'
  BY <1>8 DEF WriteSupply, Enter, AfterWrite
<1>9. ASSUME NEW c \in Ctr, CallCreateContainer(c) \/ FailCreateContainer(c) PROVE TodoOnPath'
  BY <1>9 DEF CallCreateContainer, FailCreateContainer, EndCall, Enter
<1>10. ASSUME NEW c \in Ctr, InsertContainer(c) \/ CallStopContainer(c) PROVE TodoOnPath'
  BY <1>10 DEF InsertContainer, CallStopContainer, EndCall, Enter
<1>11. ASSUME NEW c \in Ctr, Exit(c) \/ RemoveContainer(c) PROVE TodoOnPath'
  BY <1>11 DEF Exit, RemoveContainer
<1>12. CASE Restart
  BY <1>12 DEF Restart
<1>13. ASSUME NEW c \in Ctr, RebuildNext(c) PROVE TodoOnPath'
  BY <1>13, RebuildEffect
<1> QED
  BY <1>1, <1>2, <1>3, <1>4, <1>5, <1>6, <1>7, <1>8, <1>9, <1>10, <1>11, <1>12, <1>13
  DEF Next, Create, Stop

\* A handler changes what it has in hand, and nobody else's.
LEMMA OwnStep ==
  ASSUME HookInvariant, NEW c \in Ctr, HandlerStep(c)
  PROVE  /\ \E next : Enter(c, next)
         /\ \A d \in Ctr \ {c} : /\ phase'[d] = phase[d] /\ call'[d] = call[d]
                                  /\ grant'[d] = grant[d] /\ todo'[d] = todo[d]
                                  /\ seen'[d] = seen[d]
<1>1. \E next : Enter(c, next)
  <2>1. CASE BeginCreateContainer(c)
    BY <2>1 DEF BeginCreateContainer
  <2>2. CASE ChoosePool(c)
    BY <2>2 DEF ChoosePool
  <2>3. CASE CheckSupply(c)
    BY <2>3 DEF CheckSupply
  <2>4. CASE StoreGrant(c) \/ DeleteGrant(c)
    BY <2>4 DEF StoreGrant, DeleteGrant
  <2>5. CASE CallCreateContainer(c) \/ FailCreateContainer(c)
    BY <2>5 DEF CallCreateContainer, FailCreateContainer, EndCall
  <2>6. CASE InsertContainer(c) \/ CallStopContainer(c)
    BY <2>6 DEF InsertContainer, CallStopContainer, EndCall
  <2>7. CASE BeginStopContainer(c)
    BY <2>7 DEF BeginStopContainer
  <2>8. CASE ReadSupply(c)
    BY <2>8 DEF ReadSupply
  <2>9. CASE WriteSupply(c)
    BY <2>9 DEF WriteSupply
  <2> QED
    BY <2>1, <2>2, <2>3, <2>4, <2>5, <2>6, <2>7, <2>8, <2>9 DEF HandlerStep, Create, Stop
<1>2. ASSUME NEW d \in Ctr \ {c}
      PROVE  /\ phase'[d] = phase[d] /\ call'[d] = call[d] /\ grant'[d] = grant[d]
             /\ todo'[d] = todo[d] /\ seen'[d] = seen[d]
  <2> USE DEF HookInvariant, TypeOK, hookVars, Enter
  <2>1. CASE BeginCreateContainer(c)
    BY <2>1 DEF BeginCreateContainer
  <2>2. CASE ChoosePool(c)
    BY <2>2 DEF ChoosePool
  <2>3. CASE CheckSupply(c)
    BY <2>3 DEF CheckSupply
  <2>4. CASE StoreGrant(c) \/ DeleteGrant(c)
    BY <2>4 DEF StoreGrant, DeleteGrant
  <2>5. CASE CallCreateContainer(c) \/ FailCreateContainer(c)
    BY <2>5 DEF CallCreateContainer, FailCreateContainer, EndCall
  <2>6. CASE InsertContainer(c) \/ CallStopContainer(c)
    BY <2>6 DEF InsertContainer, CallStopContainer, EndCall
  <2>7. CASE BeginStopContainer(c)
    BY <2>7 DEF BeginStopContainer
  <2>8. CASE ReadSupply(c)
    BY <2>8 DEF ReadSupply
  <2>9. CASE WriteSupply(c)
    BY <2>9 DEF WriteSupply
  <2> QED
    BY <2>1, <2>2, <2>3, <2>4, <2>5, <2>6, <2>7, <2>8, <2>9 DEF HandlerStep, Create, Stop
<1> QED
  BY <1>1, <1>2

\* A handler that enters a phase without overlapping another is the only one.
LEMMA EnterAlone ==
  ASSUME HookInvariant, AloneInvariant, NEW c \in Ctr, NEW next, Enter(c, next), ~overlapped'
  PROVE  /\ ~overlapped /\ AtMostOneActive /\ SeenIsCurrent
         /\ AtMostOneActive'
         /\ phase[c] \in HookPhase \/ next \in HookPhase =>
              \A d \in Ctr \ {c} : phase[d] \notin HookPhase
<1>1. ~overlapped /\ AtMostOneActive /\ SeenIsCurrent
  BY DEF Enter, AloneInvariant
<1>2. phase' = [phase EXCEPT ![c] = next]
  BY DEF Enter
<1>3. next \in HookPhase => \A d \in Ctr \ {c} : phase[d] \notin HookPhase
  BY DEF Enter, Active
<1>4. phase[c] \in HookPhase => \A d \in Ctr \ {c} : phase[d] \notin HookPhase
  BY <1>1 DEF AtMostOneActive, Active
<1> QED
  BY <1>1, <1>2, <1>3, <1>4 DEF HookInvariant, TypeOK, AtMostOneActive, Active

\* The handler that changes the counters of a pool is alone.
LEMMA WriterAlone ==
  ASSUME HookInvariant, AloneInvariant, NEW c \in Ctr, HandlerStep(c), ~overlapped',
         phase[c] \in HookPhase
  PROVE  \A d \in Ctr \ {c} : phase[d] \notin HookPhase /\ phase'[d] \notin HookPhase
<1>1. PICK next : Enter(c, next)
  BY OwnStep
<1> QED
  BY <1>1, OwnStep, EnterAlone

\* As long as hooks do not overlap, nobody changes a counter between a read and
\* the write that follows it.
LEMMA StepAlone == HookInvariant /\ TodoOnPath /\ AloneInvariant /\ [Next]_vars => AloneInvariant'
<1> SUFFICES ASSUME HookInvariant, TodoOnPath, AloneInvariant, [Next]_vars, ~overlapped'
             PROVE  (AtMostOneActive /\ SeenIsCurrent)'
  BY DEF AloneInvariant
<1>1. ASSUME UNCHANGED <<supply, call, phase, grant, todo, seen, overlapped>>
      PROVE  (AtMostOneActive /\ SeenIsCurrent)'
  BY <1>1 DEF AloneInvariant, AtMostOneActive, Active, SeenIsCurrent, IsNextPool
<1>2. CASE UNCHANGED vars
  BY <1>1, <1>2 DEF vars
<1>3. ASSUME NEW s \in Sandbox, RunPodSandbox(s) \/ StopPodSandbox(s)
      PROVE  (AtMostOneActive /\ SeenIsCurrent)'
  BY <1>1, <1>3 DEF RunPodSandbox, StopPodSandbox, policyVars, hookVars
<1>4. ASSUME NEW c \in Ctr, Exit(c) \/ RemoveContainer(c)
      PROVE  (AtMostOneActive /\ SeenIsCurrent)'
  BY <1>1, <1>4 DEF Exit, RemoveContainer, policyVars, hookVars
<1>5. CASE Restart
  BY <1>5 DEF Restart, AtMostOneActive, Active, HookPhase, SeenIsCurrent
<1>6. ASSUME NEW c \in Ctr, RebuildNext(c) PROVE (AtMostOneActive /\ SeenIsCurrent)'
  <2>1. \A d \in Ctr : phase'[d] = "idle"
    BY <1>6, RebuildEffect
  <2> QED
    BY <2>1 DEF AtMostOneActive, Active, HookPhase, SeenIsCurrent
<1>7. ASSUME NEW c \in Ctr, HandlerStep(c) PROVE (AtMostOneActive /\ SeenIsCurrent)'
  <2>1. AtMostOneActive' /\ SeenIsCurrent
    BY <1>7, OwnStep, EnterAlone
  <2>2. ASSUME NEW d \in Ctr \ {c}, phase'[d] = "write",
               NEW p \in todo'[d], IsNextPool(d, p)'
        PROVE  seen'[d] = supply'[p]
    <3>1. /\ phase[d] = "write" /\ seen'[d] = seen[d] /\ p \in todo[d] /\ IsNextPool(d, p)
      BY ZenonT(60), <1>7, <2>2, OwnStep DEF IsNextPool
    <3>2. supply' = supply
      <4>1. ~WriteSupply(c)
        BY <1>7, <3>1, WriterAlone DEF WriteSupply, HookPhase
      <4> QED
        BY <1>7, <4>1 DEF HandlerStep, Create, Stop, BeginCreateContainer, ChoosePool,
           CheckSupply, StoreGrant, CallCreateContainer, FailCreateContainer, InsertContainer,
           BeginStopContainer, DeleteGrant, CallStopContainer, ReadSupply, policyVars
    <3> QED
      BY <2>1, <3>1, <3>2 DEF SeenIsCurrent
  <2>3. ASSUME phase'[c] = "write", NEW p \in todo'[c], IsNextPool(c, p)'
        PROVE  seen'[c] = supply'[p]
    <3>1. ReadSupply(c)
      BY <1>7, <2>3 DEF HandlerStep, Create, Stop, BeginCreateContainer, ChoosePool,
         CheckSupply, StoreGrant, CallCreateContainer, FailCreateContainer, InsertContainer,
         BeginStopContainer, DeleteGrant, CallStopContainer, WriteSupply, AfterWrite, EndCall,
         Enter, HookInvariant, TypeOK
    <3>2. PICK q \in todo[c] : IsNextPool(c, q) /\ seen' = [seen EXCEPT ![c] = supply[q]]
      BY <3>1 DEF ReadSupply
    <3>3. /\ UNCHANGED <<supply, call, grant, todo>> /\ phase[c] = "read"
          /\ seen'[c] = supply[q]
      BY <3>1, <3>2 DEF ReadSupply, policyVars, HookInvariant, TypeOK
    <3>4. grant[c] \in Grant /\ todo[c] \subseteq Path[grant[c].pool]
      BY <3>3 DEF HookInvariant, HookData, TodoOnPath
    <3>5. IsNextPool(c, p)
      BY <2>3, <3>3 DEF IsNextPool
    <3> QED
      BY <3>2, <3>3, <3>4, <3>5, NextPoolUnique
  <2> QED
    BY <2>1, <2>2, <2>3 DEF SeenIsCurrent
<1> QED
  BY <1>2, <1>3, <1>4, <1>5, <1>6, <1>7 DEF Next, HandlerStep

\* Before anything has happened no handler works.
LEMMA InitAlone == Init => TodoOnPath /\ AloneInvariant
BY DEF Init, TodoOnPath, AloneInvariant, AtMostOneActive, Active, HookPhase, SeenIsCurrent

--------------------------------------------------------------------------------
(***************************************************************************)
(* Capacity, as long as no two hooks have overlapped.                      *)
(***************************************************************************)

\* What a create was promised when it chose its pool is still there.
RoomLeft ==
  \A c \in Ctr :
    call[c] = "create" /\ phase[c] \in {"check", "read", "write", "store"} =>
      \A q \in todo[c] \ {Root} : supply[q].byRequest + grant[c].cpu <= TotalSharedCPU(q)

SerialInvariant == ~overlapped /\ ~rebuilt => RoomLeft /\ WithinCapacity

\* The pool chosen, and each pool above it but the root, has room for the request.
LEMMA ChosenPoolHasRoom ==
  ASSUME PolicyTypeOK, NEW c \in Ctr, NEW p \in Pool,
         IsPoolFor(RequestOf[c], c \in SystemCtr, p), NEW q \in Path[p] \ {Root}
  PROVE  supply[q].byRequest + RequestOf[c].cpu <= TotalSharedCPU(q)
<1>1. q \in Pool \ {Root} /\ q \in Path[p]
  OBVIOUS
<1>2. CASE p = Root
  BY <1>1, <1>2
<1>3. CASE p # Root
  <2>1. HasCapacity(supply, RequestOf[c], p)
    BY <1>3, SelectedPoolIsFiltered DEF IsPoolFor
  <2>2. IsRequest(RequestOf[c])
    OBVIOUS
  <2> QED
    BY <1>1, <2>1, <2>2, ChargeWithinCapacity
<1> QED
  BY <1>2, <1>3

\* Writing back the counters of one pool keeps the pool within its CPUs.
LEMMA WriteWithinCapacity ==
  ASSUME HookInvariant, SeenIsCurrent, RoomLeft, WithinCapacity, NEW c \in Ctr, WriteSupply(c)
  PROVE  WithinCapacity'
<1>1. PICK p \in todo[c] : /\ IsNextPool(c, p)
                           /\ supply' = [supply EXCEPT ![p] = Updated(c, p)]
  BY DEF WriteSupply
<1>2. /\ grant[c] \in Grant /\ seen[c] = supply[p] /\ p \in Pool /\ supply[p] \in Supply
      /\ call[c] \in {"create", "stop"} /\ phase[c] = "write"
  BY <1>1 DEF WriteSupply, HookInvariant, HookData, TypeOK, PolicyTypeOK, CallPhase,
              SeenIsCurrent
<1>3. /\ supply[p].byRequest \in Int /\ grant[c].cpu \in Nat /\ TotalSharedCPU(p) \in Nat
  BY <1>2, TotalIsNat DEF Supply, Grant
<1>4. supply'[p] = Updated(c, p)
  BY <1>1, <1>2 DEF HookInvariant, TypeOK, PolicyTypeOK
<1>5. p # Root => Updated(c, p).byRequest <= TotalSharedCPU(p)
  <2>1. ASSUME p # Root PROVE Updated(c, p).byRequest <= TotalSharedCPU(p)
    <3>1. CASE call[c] = "create"
      <4>1. supply[p].byRequest + grant[c].cpu <= TotalSharedCPU(p)
        BY <1>1, <1>2, <2>1, <3>1 DEF RoomLeft
      <4> QED
        BY <1>2, <3>1, <4>1 DEF Updated, Add
    <3>2. CASE call[c] = "stop"
      <4>1. supply[p].byRequest <= TotalSharedCPU(p)
        BY <1>2, <2>1 DEF WithinCapacity
      <4>2. Updated(c, p).byRequest \in
              {supply[p].byRequest - grant[c].cpu, Floor(supply[p].byRequest - grant[c].cpu)}
        BY <1>2, <3>2 DEF Updated, SubtractOwn, SubtractAncestor
      <4> QED
        BY <1>3, <4>1, <4>2 DEF Floor
    <3> QED
      BY <1>2, <3>1, <3>2
  <2> QED
    BY <2>1
<1>6. \A q \in Pool \ {p} : supply'[q] = supply[q]
  BY <1>1, <1>2 DEF HookInvariant, TypeOK, PolicyTypeOK
<1>7. \A q \in Pool \ {Root} : supply[q].byRequest <= TotalSharedCPU(q)
  BY DEF WithinCapacity
<1> QED
  BY <1>4, <1>5, <1>6, <1>7 DEF WithinCapacity

\* As long as hooks do not overlap, choosing, checking and charging work like one
\* step.
LEMMA StepSerial ==
  HookInvariant /\ AloneInvariant /\ SerialInvariant /\ [Next]_vars => SerialInvariant'
<1> SUFFICES ASSUME HookInvariant, AloneInvariant, SerialInvariant, [Next]_vars, ~overlapped',
                    ~rebuilt'
             PROVE  (RoomLeft /\ WithinCapacity)'
  BY DEF SerialInvariant
<1>1. ASSUME UNCHANGED <<supply, call, phase, grant, todo, overlapped, rebuilt>>
      PROVE  (RoomLeft /\ WithinCapacity)'
  BY <1>1 DEF SerialInvariant, RoomLeft, WithinCapacity
<1>2. CASE UNCHANGED vars
  BY <1>1, <1>2 DEF vars
<1>3. ASSUME NEW s \in Sandbox, RunPodSandbox(s) \/ StopPodSandbox(s)
      PROVE  (RoomLeft /\ WithinCapacity)'
  BY <1>1, <1>3 DEF RunPodSandbox, StopPodSandbox, policyVars, hookVars, startVars
<1>4. ASSUME NEW c \in Ctr, Exit(c) \/ RemoveContainer(c) PROVE (RoomLeft /\ WithinCapacity)'
  BY <1>1, <1>4 DEF Exit, RemoveContainer, policyVars, hookVars, startVars
<1>5. CASE Restart
  <2>1. \A p \in Pool : supply'[p].byRequest = 0 /\ TotalSharedCPU(p) \in Nat
    BY <1>5, TotalIsNat DEF Restart, EmptySupply
  <2> QED
    BY <1>5, <2>1 DEF Restart, RoomLeft, WithinCapacity
<1>6. ASSUME NEW c \in Ctr, RebuildNext(c) PROVE (RoomLeft /\ WithinCapacity)'
  BY <1>1, <1>6 DEF RebuildNext, policyVars, hookVars
<1>7. ASSUME NEW c \in Ctr, HandlerStep(c) PROVE (RoomLeft /\ WithinCapacity)'
  <2>1. /\ SeenIsCurrent /\ RoomLeft /\ WithinCapacity
        /\ \A d \in Ctr \ {c} : /\ phase'[d] = phase[d] /\ call'[d] = call[d]
                                 /\ grant'[d] = grant[d] /\ todo'[d] = todo[d]
    <3>1. ~rebuilt
      BY <1>7, OwnStep DEF Enter, startVars
    <3> QED
      BY <1>7, <3>1, OwnStep, EnterAlone DEF SerialInvariant
  <2>2. CASE WriteSupply(c)
    <3>1. WithinCapacity'
      BY <2>1, <2>2, WriteWithinCapacity
    <3>2. PICK p \in todo[c] : /\ supply' = [supply EXCEPT ![p] = Updated(c, p)]
                               /\ todo' = [todo EXCEPT ![c] = @ \ {p}]
      BY <2>2 DEF WriteSupply
    <3>3. phase[c] = "write" /\ UNCHANGED <<call, grant>>
      BY <2>2 DEF WriteSupply
    <3>4. \A d \in Ctr \ {c} : phase'[d] \notin HookPhase
      BY <1>7, <3>3, WriterAlone DEF HookPhase
    <3>5. todo'[c] \subseteq todo[c] /\ \A q \in todo'[c] : supply'[q] = supply[q]
      BY <3>2 DEF HookInvariant, TypeOK, PolicyTypeOK
    <3> QED
      BY <2>1, <3>1, <3>3, <3>4, <3>5 DEF RoomLeft, HookPhase
  <2>3. ASSUME UNCHANGED supply,
               \/ ~(call'[c] = "create" /\ phase'[c] \in {"check", "read", "write", "store"})
               \/ /\ call[c] = "create" /\ phase[c] \in {"check", "read", "write", "store"}
                  /\ grant'[c] = grant[c] /\ todo'[c] = todo[c]
        PROVE  (RoomLeft /\ WithinCapacity)'
    BY <2>1, <2>3 DEF RoomLeft, WithinCapacity
  <2>4. CASE ChoosePool(c)
    <3>1. PICK p \in Pool : /\ IsPoolFor(RequestOf[c], c \in SystemCtr, p)
                            /\ grant' = [grant EXCEPT ![c] = GrantOf(RequestOf[c], p)]
                            /\ todo' = [todo EXCEPT ![c] = Path[p]]
      BY <2>4 DEF ChoosePool
    <3>2. /\ grant'[c].cpu = RequestOf[c].cpu /\ todo'[c] = Path[p] /\ UNCHANGED supply
      BY <2>4, <3>1 DEF ChoosePool, GrantOf, policyVars, HookInvariant, TypeOK
    <3>3. \A q \in Path[p] \ {Root} :
            supply[q].byRequest + RequestOf[c].cpu <= TotalSharedCPU(q)
      BY <3>1, ChosenPoolHasRoom DEF HookInvariant, TypeOK
    <3> QED
      BY <2>1, <3>2, <3>3 DEF RoomLeft, WithinCapacity
  <2>5. CASE BeginCreateContainer(c) \/ BeginStopContainer(c)
    BY <2>3, <2>5 DEF BeginCreateContainer, BeginStopContainer, Enter, policyVars,
                      HookInvariant, TypeOK
  <2>6. CASE CheckSupply(c) \/ StoreGrant(c) \/ DeleteGrant(c) \/ ReadSupply(c)
    BY <2>3, <2>6 DEF CheckSupply, StoreGrant, DeleteGrant, ReadSupply, Enter, policyVars,
                      HookInvariant, TypeOK, CallPhase
  <2>7. CASE \/ CallCreateContainer(c) \/ FailCreateContainer(c)
             \/ InsertContainer(c) \/ CallStopContainer(c)
    BY <2>3, <2>7 DEF CallCreateContainer, FailCreateContainer, InsertContainer,
                      CallStopContainer, EndCall, Enter, policyVars, HookInvariant, TypeOK
  <2> QED
    BY <1>7, <2>2, <2>4, <2>5, <2>6, <2>7 DEF HandlerStep, Create, Stop
<1> QED
  BY <1>2, <1>3, <1>4, <1>5, <1>6, <1>7 DEF Next, HandlerStep

\* Until two hooks overlap, no pool below the root is granted more than its CPUs
\* (filterPoolsByCapacity, AllocateCPU, propagateResourceToParent), whatever calls
\* fail, containers exit and grants are replaced.
THEOREM SerialCapacityRespected == Spec => []SerialWithinCapacity
<1>1. Init => SerialInvariant
  <2> SUFFICES ASSUME Init PROVE RoomLeft /\ WithinCapacity
    BY DEF SerialInvariant
  <2>1. \A p \in Pool : supply[p].byRequest = 0 /\ TotalSharedCPU(p) \in Nat
    BY TotalIsNat DEF Init, PolicyInit, EmptySupply
  <2>2. WithinCapacity
    BY <2>1 DEF WithinCapacity
  <2>3. RoomLeft
    BY DEF Init, RoomLeft
  <2> QED
    BY <2>2, <2>3
<1>2. SerialInvariant => SerialWithinCapacity
  BY DEF SerialInvariant, SerialWithinCapacity
<1> QED
  BY <1>1, <1>2, InitAlone, StepTodoOnPath, StepAlone, StepSerial, HookInvariantHolds, PTL DEF Spec

--------------------------------------------------------------------------------
(***************************************************************************)
(* What the books cover, as long as no two hooks have overlapped.          *)
(*                                                                         *)
(* In the middle of a hook the counters of a pool do not cover every grant *)
(* at or below it: a create stores its grant before it goes on to the      *)
(* parents, and a stop deletes it after the last counter.  Such a grant is *)
(* pending at the pools concerned.  Before a create stores its grant, the  *)
(* pools it has charged cover it in place of what the id held.             *)
(***************************************************************************)
Pending(c, p) ==
  \/ /\ call[c] = "create" /\ phase[c] \in {"read", "write"}
     /\ grant[c].pool \notin todo[c] /\ p \in todo[c]
  \/ /\ call[c] = "stop" /\ phase[c] \in {"read", "write", "delete"}
     /\ p \in Path[grant[c].pool] \ todo[c]

Booked(p) == {g \in GrantsUnder(p) : \A c \in Ctr : GidOf[c] = g => ~Pending(c, p)}

Covers(s, total) == s.byRequest >= total.cpu /\ s.byLimit >= total.limit /\ s.mem >= total.mem

BookedCovered == \A p \in Pool : Covers(supply[p], Granted(grants, Booked(p)))

Unstored(c) ==
  /\ call[c] = "create"
  /\ \/ phase[c] \in {"check", "store"}
     \/ phase[c] \in {"read", "write"} /\ grant[c].pool \in todo[c]

\* A total with one more grant.
With(total, g) ==
  [cpu |-> total.cpu + g.cpu, limit |-> total.limit + g.limit, mem |-> total.mem + g.mem]

ChargedCovered ==
  \A c \in Ctr : Unstored(c) =>
    \A p \in Path[grant[c].pool] \ todo[c] :
      Covers(supply[p], With(Granted(grants, GrantsUnder(p) \ {GidOf[c]}), grant[c]))

\* What a stop releases is stored until it is deleted, and a create stores its
\* grant when its own pool has been charged.
HandMatchesStore ==
  \A c \in Ctr :
    /\ call[c] = "stop" /\ phase[c] \in {"read", "write", "delete"} => grants[GidOf[c]] = grant[c]
    /\ call[c] = "stop" /\ phase[c] \in {"read", "write", "delete"} => grant[c] \in Grant
    /\ phase[c] = "store" => grant[c].pool \notin todo[c]
    /\ phase[c] = "check" => todo[c] = Path[grant[c].pool]

BooksInvariant ==
  HeldFinite /\ HandMatchesStore /\ (~overlapped => BookedCovered /\ ChargedCovered)

\* A grant in hand is the stored one as long as it has to be, since nobody else
\* handles an instance of the container.
LEMMA StepHandMatchesStore ==
  HookInvariant /\ HandMatchesStore /\ [Next]_vars => HandMatchesStore'
<1> SUFFICES ASSUME HookInvariant, HandMatchesStore, [Next]_vars PROVE HandMatchesStore'
  OBVIOUS
<1>1. ASSUME UNCHANGED <<grants, call, phase, grant, todo>> PROVE HandMatchesStore'
  BY <1>1 DEF HandMatchesStore
<1>2. CASE UNCHANGED vars
  BY <1>1, <1>2 DEF vars
<1>3. ASSUME NEW s \in Sandbox, RunPodSandbox(s) \/ StopPodSandbox(s) PROVE HandMatchesStore'
  BY <1>1, <1>3 DEF RunPodSandbox, StopPodSandbox, policyVars, hookVars
<1>4. ASSUME NEW c \in Ctr, Exit(c) \/ RemoveContainer(c) PROVE HandMatchesStore'
  BY <1>1, <1>4 DEF Exit, RemoveContainer, policyVars, hookVars
<1>5. CASE Restart
  BY <1>5 DEF Restart, HandMatchesStore
<1>6. ASSUME NEW c \in Ctr, RebuildNext(c) PROVE HandMatchesStore'
  BY <1>6, RebuildEffect DEF HandMatchesStore
<1>7. ASSUME NEW c \in Ctr, HandlerStep(c) PROVE HandMatchesStore'
  <2> USE DEF HookInvariant, TypeOK, HookPhase, CallPhase, policyVars
  <2>1. ASSUME NEW d \in Ctr \ {c}, phase[d] # "idle"
        PROVE  grants'[GidOf[d]] = grants[GidOf[d]]
    <3>1. CASE StoreGrant(c) \/ DeleteGrant(c)
      <4>1. GidOf[d] # GidOf[c]
        BY <2>1, <3>1 DEF StoreGrant, DeleteGrant, LiveUnique, Live
      <4> QED
        BY <3>1, <4>1 DEF StoreGrant, DeleteGrant, PolicyTypeOK
    <3>2. CASE ~(StoreGrant(c) \/ DeleteGrant(c))
      BY <1>7, <3>2 DEF HandlerStep, Create, Stop, BeginCreateContainer, ChoosePool, CheckSupply,
         CallCreateContainer, FailCreateContainer, InsertContainer, BeginStopContainer,
         CallStopContainer, ReadSupply, WriteSupply
    <3> QED
      BY <3>1, <3>2
  <2>2. ASSUME NEW d \in Ctr \ {c}
        PROVE  /\ phase'[d] = phase[d] /\ call'[d] = call[d]
               /\ grant'[d] = grant[d] /\ todo'[d] = todo[d]
    BY <1>7, OwnStep
  <2> DEFINE Matches(d) ==
        /\ call[d] = "stop" /\ phase[d] \in {"read", "write", "delete"} =>
             grants[GidOf[d]] = grant[d]
        /\ call[d] = "stop" /\ phase[d] \in {"read", "write", "delete"} => grant[d] \in Grant
        /\ phase[d] = "store" => grant[d].pool \notin todo[d]
        /\ phase[d] = "check" => todo[d] = Path[grant[d].pool]
  <2>3. \A d \in Ctr \ {c} : Matches(d)'
    BY <2>1, <2>2 DEF HandMatchesStore
  <2>4. Matches(c)
    BY DEF HandMatchesStore
  <2>5. Matches(c)'
    <3>1. CASE BeginCreateContainer(c)
      BY <3>1 DEF BeginCreateContainer, Enter
    <3>2. CASE ChoosePool(c)
      BY <3>2 DEF ChoosePool, Enter, GrantOf
    <3>3. CASE CheckSupply(c)
      BY <3>3 DEF CheckSupply, Enter
    <3>4. CASE StoreGrant(c) \/ DeleteGrant(c)
      BY <3>4 DEF StoreGrant, DeleteGrant, Enter
    <3>5. CASE CallCreateContainer(c) \/ FailCreateContainer(c) \/ InsertContainer(c) \/ CallStopContainer(c)
      BY <3>5 DEF CallCreateContainer, FailCreateContainer, InsertContainer, CallStopContainer,
                  EndCall, Enter
    <3>6. CASE BeginStopContainer(c)
      <4>1. Held(GidOf[c]) => grants[GidOf[c]] \in Grant
        BY DEF PolicyTypeOK, Held
      <4> QED
        BY <3>6, <4>1 DEF BeginStopContainer, Enter
    <3>7. CASE ReadSupply(c)
      BY <2>4, <3>7 DEF ReadSupply, Enter
    <3>8. CASE WriteSupply(c)
      BY <2>4, <3>8 DEF WriteSupply, Enter, AfterWrite
    <3> QED
      BY <1>7, <3>1, <3>2, <3>3, <3>4, <3>5, <3>6, <3>7, <3>8 DEF HandlerStep, Create, Stop
  <2> QED
    BY <2>3, <2>5 DEF HandMatchesStore
<1> QED
  BY <1>2, <1>3, <1>4, <1>5, <1>6, <1>7 DEF Next, HandlerStep

\* The grants at or below a pool are finitely many grants.
LEMMA UnderType ==
  ASSUME PolicyTypeOK, HeldFinite, NEW p \in Pool, NEW S \in SUBSET GrantsUnder(p)
  PROVE  /\ IsFiniteSet(S) /\ \A g \in S : g \in Gid /\ grants[g] \in Grant
         /\ Granted(grants, S).cpu \in Nat
         /\ Granted(grants, S).limit \in Nat
         /\ Granted(grants, S).mem \in Nat
<1>1. \A g \in S : g \in Gid /\ grants[g] \in Grant
  BY DEF GrantsUnder, Held, PolicyTypeOK
<1>2. IsFiniteSet(S)
  BY GrantsUnderFinite, FS_Subset
<1> QED
  BY <1>1, <1>2, GrantedType

\* Counters that cover some grants cover fewer, and go on doing so when they grow.
LEMMA CoversLess ==
  ASSUME PolicyTypeOK, HeldFinite, NEW p \in Pool, NEW T \in SUBSET GrantsUnder(p),
         NEW S \in SUBSET T, NEW table, \A g \in S : table[g] = grants[g],
         NEW s \in Supply, Covers(s, Granted(grants, T)), NEW r \in Supply,
         r.byRequest >= s.byRequest, r.byLimit >= s.byLimit, r.mem >= s.mem
  PROVE  Covers(r, Granted(table, S))
<1> DEFINE big == Granted(grants, T)
           small == Granted(grants, S)
<1>1. Granted(table, S) = small
  BY GrantedSame
<1>2. /\ big.cpu \in Nat /\ big.limit \in Nat /\ big.mem \in Nat
      /\ small.cpu \in Nat /\ small.limit \in Nat /\ small.mem \in Nat
  BY UnderType
<1>3. small.cpu <= big.cpu /\ small.limit <= big.limit /\ small.mem <= big.mem
  <2>1. IsFiniteSet(T) /\ \A g \in T : grants[g] \in Grant
    BY UnderType
  <2> QED
    BY <2>1, GrantedMonotone
<1>4. s.byRequest >= big.cpu /\ s.byLimit >= big.limit /\ s.mem >= big.mem
  BY DEF Covers
<1>5. /\ s.byRequest \in Int /\ s.byLimit \in Int /\ s.mem \in Int
      /\ r.byRequest \in Int /\ r.byLimit \in Int /\ r.mem \in Int
  BY DEF Supply
<1> HIDE DEF big, small
<1>6. r.byRequest >= small.cpu /\ r.byLimit >= small.limit /\ r.mem >= small.mem
  BY <1>2, <1>3, <1>4, <1>5
<1> QED
  BY <1>1, <1>6 DEF Covers

\* With one handler at work, only its grant may be pending.
LEMMA BookedAlone ==
  ASSUME NEW c \in Ctr, \A d \in Ctr \ {c} : phase[d] \notin HookPhase, NEW p \in Pool
  PROVE  Booked(p) = IF Pending(c, p) THEN GrantsUnder(p) \ {GidOf[c]} ELSE GrantsUnder(p)
<1>1. \A d \in Ctr \ {c} : ~Pending(d, p)
  BY DEF Pending, HookPhase
<1> QED
  BY <1>1 DEF Booked

\* A step that leaves the counters and the grants alone keeps them covered when the
\* handler's grant becomes pending, if at all, at pools already settled.
LEMMA QuietStep ==
  ASSUME HookInvariant, HeldFinite, BookedCovered, ChargedCovered, NEW c \in Ctr,
         HandlerStep(c), UNCHANGED policyVars,
         \A p : Pending(c, p) => Pending(c, p)',
         \/ ~Unstored(c)'
         \/ Unstored(c) /\ UNCHANGED <<grant, todo>>
         \/ todo'[c] = Path[grant'[c].pool]
  PROVE  BookedCovered' /\ ChargedCovered'
<1>1. \A d \in Ctr \ {c} : /\ phase'[d] = phase[d] /\ call'[d] = call[d]
                            /\ grant'[d] = grant[d] /\ todo'[d] = todo[d]
  BY OwnStep
<1>2. \A p : GrantsUnder(p)' = GrantsUnder(p)
  BY DEF GrantsUnder, Held, policyVars
<1>3. ASSUME NEW p \in Pool PROVE Covers(supply'[p], Granted(grants', Booked(p)'))
  <2>1. \A d \in Ctr : Pending(d, p) => Pending(d, p)'
    BY <1>1 DEF Pending
  <2>2. Booked(p)' \subseteq Booked(p) /\ Booked(p) \subseteq GrantsUnder(p)
    BY <1>2, <2>1 DEF Booked
  <2>3. /\ supply'[p] \in Supply /\ supply'[p] = supply[p] /\ grants' = grants
        /\ PolicyTypeOK
    BY DEF HookInvariant, TypeOK, PolicyTypeOK, policyVars
  <2>4. Covers(supply[p], Granted(grants, Booked(p)))
    BY DEF BookedCovered
  <2> DEFINE T == Booked(p)
             S == Booked(p)'
             s == supply[p]
  <2>5. /\ T \in SUBSET GrantsUnder(p) /\ S \in SUBSET T /\ s \in Supply
        /\ Covers(s, Granted(grants, T))
    BY <2>2, <2>3, <2>4
  <2>6. s.byRequest >= s.byRequest /\ s.byLimit >= s.byLimit /\ s.mem >= s.mem
    BY <2>5 DEF Supply
  <2> HIDE DEF T, S, s
  <2>7. Covers(s, Granted(grants, S))
    BY <2>3, <2>5, <2>6, CoversLess
  <2> QED
    BY <2>3, <2>7 DEF s, S
<1>4. BookedCovered'
  BY <1>3 DEF BookedCovered
<1>5. ASSUME NEW d \in Ctr, Unstored(d)', NEW p \in Path[grant'[d].pool] \ todo'[d]
      PROVE  Unstored(d) /\ grant'[d] = grant[d] /\ p \in Path[grant[d].pool] \ todo[d]
  BY <1>1, <1>5 DEF Unstored
<1>6. ChargedCovered'
  BY <1>2, <1>5 DEF ChargedCovered, policyVars
<1> QED
  BY <1>4, <1>6

\* A create that charges one more pool, and a stop that discharges one more, keep
\* the books covered; the subtraction is not clamped, for the grant is covered.
LEMMA WriteKeepsBooks ==
  ASSUME HookInvariant, TodoOnPath, HandMatchesStore, HeldFinite, BookedCovered,
         ChargedCovered, SeenIsCurrent, NEW c \in Ctr, WriteSupply(c),
         \A d \in Ctr \ {c} : phase[d] \notin HookPhase /\ phase'[d] \notin HookPhase
  PROVE  BookedCovered' /\ ChargedCovered'
<1> DEFINE gr == grant[c]
           gid == GidOf[c]
<1>1. PICK p \in todo[c] : /\ IsNextPool(c, p)
                           /\ supply' = [supply EXCEPT ![p] = Updated(c, p)]
                           /\ todo' = [todo EXCEPT ![c] = @ \ {p}]
                           /\ Enter(c, AfterWrite(c, p))
  BY DEF WriteSupply
<1>2. /\ phase[c] = "write" /\ call[c] \in {"create", "stop"} /\ seen[c] = supply[p]
      /\ UNCHANGED <<grants, call, grant>>
  BY <1>1 DEF WriteSupply, SeenIsCurrent, HookInvariant, CallPhase
<1>3. /\ PolicyTypeOK /\ gr \in Grant /\ p \in Path[gr.pool] /\ p \in Pool /\ gr.pool \in Pool
      /\ todo[c] \subseteq Path[gr.pool] /\ Path[gr.pool] \subseteq Pool /\ gid \in Gid
  <2>1. gr \in Grant /\ todo[c] \subseteq Path[gr.pool]
    BY <1>2 DEF HookInvariant, HookData, TodoOnPath
  <2>2. gr.pool \in Pool
    BY <2>1 DEF Grant
  <2>3. PolicyTypeOK /\ gid \in Gid
    BY DEF HookInvariant, TypeOK
  <2> HIDE DEF gr
  <2> QED
    BY <2>1, <2>2, <2>3
<1>4. /\ supply'[p] = Updated(c, p) /\ \A q \in Pool \ {p} : supply'[q] = supply[q]
      /\ todo'[c] = todo[c] \ {p} /\ phase'[c] = AfterWrite(c, p)
  BY <1>1, <1>3 DEF Enter, HookInvariant, TypeOK, PolicyTypeOK
<1>5. /\ supply[p].byRequest \in Int /\ supply[p].byLimit \in Int /\ supply[p].mem \in Nat
      /\ gr.cpu \in Nat /\ gr.limit \in Nat /\ gr.mem \in Nat
  BY <1>3 DEF PolicyTypeOK, Supply, Grant
<1>6. \A q : GrantsUnder(q)' = GrantsUnder(q)
  BY <1>2 DEF GrantsUnder, Held
<1>7. ASSUME NEW q \in Pool
      PROVE  /\ Booked(q) = IF Pending(c, q) THEN GrantsUnder(q) \ {gid} ELSE GrantsUnder(q)
             /\ Booked(q)' = IF Pending(c, q)' THEN GrantsUnder(q) \ {gid} ELSE GrantsUnder(q)
  <2>1. \A d \in Ctr \ {c} : ~Pending(d, q)'
    BY DEF Pending, HookPhase
  <2> QED
    BY <1>6, <2>1, BookedAlone DEF Booked
<1>8. ASSUME NEW q \in Pool PROVE Covers(supply[q], Granted(grants, Booked(q)))
  BY DEF BookedCovered
<1>9. \A d \in Ctr \ {c} : ~Unstored(d)'
  BY DEF Unstored, HookPhase
\* The pools it does not touch.
<1>10. ASSUME NEW q \in Pool \ {p}, Pending(c, q)' <=> Pending(c, q)
       PROVE  Covers(supply'[q], Granted(grants, Booked(q)'))
  <2>1. Booked(q)' = Booked(q)
    BY ONLY <1>7, <1>10
  <2>2. supply'[q] = supply[q]
    BY <1>4
  <2> QED
    BY <1>8, <2>1, <2>2
\* The grants at or below the pool, with and without the one in hand.
<1> DEFINE under == Granted(grants, GrantsUnder(p))
           others == Granted(grants, GrantsUnder(p) \ {gid})
<1>11. /\ under.cpu \in Nat /\ under.limit \in Nat /\ under.mem \in Nat
       /\ others.cpu \in Nat /\ others.limit \in Nat /\ others.mem \in Nat
       /\ others.cpu <= under.cpu /\ others.limit <= under.limit /\ others.mem <= under.mem
  <2>1. GrantsUnder(p) \ {gid} \in SUBSET GrantsUnder(p) /\ GrantsUnder(p) \in SUBSET GrantsUnder(p)
    OBVIOUS
  <2>2. IsFiniteSet(GrantsUnder(p)) /\ \A g \in GrantsUnder(p) : grants[g] \in Grant
    BY <1>3, <2>1, UnderType
  <2>3. others.cpu <= under.cpu /\ others.limit <= under.limit /\ others.mem <= under.mem
    BY ONLY <2>1, <2>2, GrantedMonotone
  <2> QED
    BY <1>3, <2>1, <2>3, UnderType
<1>12. ASSUME grants[gid] = gr
       PROVE  /\ under.cpu = gr.cpu + others.cpu
              /\ under.limit = gr.limit + others.limit
              /\ under.mem = gr.mem + others.mem
  <2>1. gid \in GrantsUnder(p)
    BY <1>3, <1>12 DEF GrantsUnder, Held
  <2>2. IsFiniteSet(GrantsUnder(p)) /\ \A g \in GrantsUnder(p) : grants[g] \in Grant
    <3>1. GrantsUnder(p) \in SUBSET GrantsUnder(p)
      OBVIOUS
    <3> QED
      BY <1>3, <3>1, UnderType
  <2> QED
    BY <1>12, <2>1, <2>2, GrantedRemove
<1>13. CASE call[c] = "create"
  <2>1. supply'[p] = Add(supply[p], gr)
    BY <1>2, <1>4, <1>13 DEF Updated
  <2>2. CASE gr.pool \in todo[c]
    <3>1. /\ \A q : ~Pending(c, q) /\ ~Pending(c, q)' /\ Unstored(c)
      BY <1>2, <1>4, <1>13, <2>2 DEF Pending, Unstored, AfterWrite
    <3>2. Booked(p) = GrantsUnder(p) /\ Booked(p)' = GrantsUnder(p)
      BY <1>3, <1>7, <3>1
    <3>3. Covers(supply[p], under)
      BY <1>3, <1>8, <3>2
    <3>4. Covers(supply'[p], under) /\ Covers(supply'[p], With(others, gr))
      <4> HIDE DEF under, others, gr
      <4> QED
        BY <1>5, <1>11, <2>1, <3>3 DEF Covers, Add, With
    <3>5. ASSUME NEW q \in Pool PROVE Covers(supply'[q], Granted(grants, Booked(q)'))
      BY <1>10, <3>1, <3>2, <3>4
    <3>6. ASSUME NEW q \in Path[gr.pool] \ todo'[c]
          PROVE  Covers(supply'[q], With(Granted(grants, GrantsUnder(q) \ {gid}), gr))
      <4>1. CASE q = p
        BY <3>4, <4>1
      <4>2. CASE q # p
        <5>1. q \in Path[gr.pool] \ todo[c] /\ q \in Pool
          BY <1>3, <1>4, <4>2
        <5>2. Covers(supply[q], With(Granted(grants, GrantsUnder(q) \ {gid}), gr))
          BY <3>1, <5>1 DEF ChargedCovered
        <5> QED
          BY <1>4, <4>2, <5>1, <5>2
      <4> QED
        BY <4>1, <4>2
    <3> QED
      BY <1>2, <1>6, <1>9, <3>5, <3>6 DEF BookedCovered, ChargedCovered
  <2>3. CASE gr.pool \notin todo[c]
    <3>1. /\ grants[gid] = gr /\ p # gr.pool
          /\ \A q : Pending(c, q) <=> q \in todo[c]
          /\ \A q : Pending(c, q)' <=> q \in todo[c] \ {p}
          /\ ~Unstored(c)'
      <4>1. grants[gid] = gr /\ p # gr.pool
        BY <1>1, <1>2, <1>13, <2>3 DEF HookInvariant, GrantStored
      <4>2. \A q : Pending(c, q) <=> q \in todo[c]
        BY <1>2, <1>13, <2>3 DEF Pending
      <4>3. /\ phase'[c] = IF todo[c] # {p} THEN "read" ELSE "call"
            /\ call'[c] = "create" /\ grant'[c] = grant[c]
        BY <1>2, <1>4, <1>13, <4>1 DEF AfterWrite
      <4>4. \A q : Pending(c, q)' <=> q \in todo[c] \ {p}
        BY <1>1, <1>4, <2>3, <4>3 DEF Pending
      <4>5. ~Unstored(c)'
        BY <1>4, <2>3, <4>3 DEF Unstored
      <4> QED
        BY <4>1, <4>2, <4>4, <4>5
    <3>2. Booked(p) = GrantsUnder(p) \ {gid} /\ Booked(p)' = GrantsUnder(p)
      BY <1>1, <1>3, <1>7, <3>1
    <3>3. Covers(supply[p], others)
      BY <1>3, <1>8, <3>2
    <3>4. Covers(supply'[p], under)
      <4>1. under.cpu = gr.cpu + others.cpu /\ under.limit = gr.limit + others.limit
            /\ under.mem = gr.mem + others.mem
        BY <1>12, <3>1
      <4> HIDE DEF under, others, gr
      <4> QED
        BY <1>5, <1>11, <2>1, <3>3, <4>1 DEF Covers, Add
    <3>5. ASSUME NEW q \in Pool PROVE Covers(supply'[q], Granted(grants, Booked(q)'))
      BY <1>10, <3>1, <3>2, <3>4
    <3> QED
      BY <1>2, <1>9, <3>1, <3>5 DEF BookedCovered, ChargedCovered
  <2> QED
    BY <2>2, <2>3
<1>14. CASE call[c] = "stop"
  <2>1. grants[gid] = gr
    BY <1>2, <1>14 DEF HandMatchesStore
  <2>2. /\ \A q : Pending(c, q) <=> q \in Path[gr.pool] \ todo[c]
        /\ \A q : Pending(c, q)' <=> q \in Path[gr.pool] \ (todo[c] \ {p})
        /\ ~Unstored(c)'
    BY <1>2, <1>4, <1>14 DEF Pending, AfterWrite, Unstored
  <2>3. Booked(p) = GrantsUnder(p) /\ Booked(p)' = GrantsUnder(p) \ {gid}
    BY <1>1, <1>3, <1>7, <2>2
  <2>4. Covers(supply[p], under)
    BY <1>3, <1>8, <2>3
  <2>5. supply'[p] \in {SubtractOwn(supply[p], gr), SubtractAncestor(supply[p], gr)}
    BY <1>2, <1>4, <1>14 DEF Updated
  <2>6. Covers(supply'[p], others)
    <3>1. under.cpu = gr.cpu + others.cpu /\ under.limit = gr.limit + others.limit
          /\ under.mem = gr.mem + others.mem
      BY <1>12, <2>1
    <3> HIDE DEF under, others, gr
    <3>2. /\ supply[p].byRequest - gr.cpu >= others.cpu
          /\ supply[p].byLimit - gr.limit >= others.limit
          /\ supply[p].mem - gr.mem >= others.mem
      BY <1>5, <1>11, <2>4, <3>1 DEF Covers
    <3>3. /\ Floor(supply[p].byRequest - gr.cpu) = supply[p].byRequest - gr.cpu
          /\ Floor(supply[p].byLimit - gr.limit) = supply[p].byLimit - gr.limit
          /\ Floor(supply[p].mem - gr.mem) = supply[p].mem - gr.mem
      BY <1>5, <1>11, <3>2 DEF Floor
    <3>4. CASE supply'[p] = SubtractOwn(supply[p], gr)
      BY <3>2, <3>3, <3>4 DEF SubtractOwn, Covers
    <3>5. CASE supply'[p] = SubtractAncestor(supply[p], gr)
      BY <3>2, <3>3, <3>5 DEF SubtractAncestor, Covers
    <3> QED
      BY <2>5, <3>4, <3>5
  <2>7. ASSUME NEW q \in Pool PROVE Covers(supply'[q], Granted(grants, Booked(q)'))
    BY <1>10, <2>2, <2>3, <2>6
  <2> QED
    BY <1>2, <1>9, <2>2, <2>7 DEF BookedCovered, ChargedCovered
<1> QED
  BY <1>2, <1>13, <1>14

\* Storing a grant makes it pending at the pools still to be charged; at those
\* already charged it takes the place of what the id held.
LEMMA StoreKeepsBooks ==
  ASSUME HookInvariant, TodoOnPath, HandMatchesStore, HeldFinite, BookedCovered,
         ChargedCovered, NEW c \in Ctr, StoreGrant(c),
         \A d \in Ctr \ {c} : phase[d] \notin HookPhase /\ phase'[d] \notin HookPhase
  PROVE  BookedCovered' /\ ChargedCovered'
<1> DEFINE gr == grant[c]
           gid == GidOf[c]
<1>1. /\ phase[c] = "store" /\ call[c] = "create" /\ gr \in Grant /\ gr.pool \notin todo[c]
      /\ UNCHANGED <<supply, call, grant, todo>> /\ grants' = [grants EXCEPT ![gid] = gr]
      /\ phase'[c] = IF todo[c] = {} THEN "call" ELSE "read"
      /\ PolicyTypeOK /\ gid \in Gid
  BY DEF StoreGrant, Enter, HookInvariant, TypeOK, HookData, CallPhase, HandMatchesStore
<1>2. /\ gr # NoGrant /\ grants'[gid] = gr /\ \A g \in Gid \ {gid} : grants'[g] = grants[g]
  BY <1>1 DEF PolicyTypeOK
<1>4. /\ \A q : ~Pending(c, q) /\ (Pending(c, q)' <=> q \in todo[c])
      /\ Unstored(c) /\ ~Unstored(c)'
  BY <1>1 DEF Pending, Unstored
<1>5. \A d \in Ctr \ {c} : ~Unstored(d)' /\ \A q : ~Pending(d, q)'
  BY DEF Unstored, Pending, HookPhase
<1>6. ASSUME NEW q \in Pool PROVE Covers(supply[q], Granted(grants', Booked(q)'))
  <2> DEFINE T == GrantsUnder(q)
             S == T \ {gid}
             s == supply[q]
  <2>1. Booked(q)' = IF q \in todo[c] THEN GrantsUnder(q)' \ {gid} ELSE GrantsUnder(q)'
    BY <1>4, <1>5 DEF Booked
  <2>2. GrantsUnder(q)' = IF q \in Path[gr.pool] THEN S \cup {gid} ELSE S
    BY <1>1, <1>2 DEF GrantsUnder, Held
  <2>3. T \in SUBSET GrantsUnder(q) /\ S \in SUBSET GrantsUnder(q) /\ S \in SUBSET T
    OBVIOUS
  <2>4. \A g \in S : grants'[g] = grants[g]
    BY <1>2 DEF GrantsUnder
  <2>5. CASE q \in Path[gr.pool] \ todo[c]
    <3>1. Covers(s, With(Granted(grants, S), gr))
      BY <1>4, <2>5 DEF ChargedCovered
    <3>2. IsFiniteSet(S) /\ \A g \in S : grants[g] \in Grant
      BY <1>1, <2>3, UnderType
    <3>3. gid \notin S /\ grants'[gid] \in Grant /\ grants'[gid] = gr
      BY <1>1, <1>2
    <3>4. /\ Granted(grants', S \cup {gid}).cpu = grants'[gid].cpu + Granted(grants, S).cpu
          /\ Granted(grants', S \cup {gid}).limit = grants'[gid].limit + Granted(grants, S).limit
          /\ Granted(grants', S \cup {gid}).mem = grants'[gid].mem + Granted(grants, S).mem
      <4> HIDE DEF S, gid
      <4> QED
        BY ONLY <2>4, <3>2, <3>3, GrantedAdd
    <3>5. Granted(grants, S).cpu \in Nat /\ Granted(grants, S).limit \in Nat /\ Granted(grants, S).mem \in Nat
      BY <1>1, <2>3, UnderType
    <3>6. gr.cpu \in Nat /\ gr.limit \in Nat /\ gr.mem \in Nat
      BY <1>1 DEF Grant
    <3>7. Booked(q)' = S \cup {gid}
      BY <2>1, <2>2, <2>5
    <3>8. Covers(s, Granted(grants', S \cup {gid}))
      <4> HIDE DEF S, s, gr, gid
      <4> QED
        BY <3>1, <3>3, <3>4, <3>5, <3>6 DEF Covers, With
    <3> QED
      BY <3>7, <3>8
  <2>6. CASE q \notin Path[gr.pool] \ todo[c]
    <3>1. Booked(q)' = S
      <4>1. q \in todo[c] => q \in Path[gr.pool]
        BY <1>1 DEF TodoOnPath
      <4> QED
        BY <2>1, <2>2, <2>6, <4>1
    <3>2. Booked(q) = T
      BY <1>4, BookedAlone
    <3>3. Covers(s, Granted(grants, T)) /\ s \in Supply /\ PolicyTypeOK
      BY <1>1, <3>2 DEF BookedCovered, PolicyTypeOK
    <3>4. s.byRequest >= s.byRequest /\ s.byLimit >= s.byLimit /\ s.mem >= s.mem
      BY <3>3 DEF Supply
    <3>5. Covers(s, Granted(grants', S))
      <4> HIDE DEF S, T, s
      <4> QED
        BY <2>3, <2>4, <3>3, <3>4, CoversLess
    <3> QED
      BY <3>1, <3>5
  <2> QED
    BY <2>5, <2>6
<1> QED
  BY <1>1, <1>4, <1>5, <1>6 DEF BookedCovered, ChargedCovered

\* Deleting a grant that every pool has been discharged of.
LEMMA DeleteKeepsBooks ==
  ASSUME HookInvariant, HandMatchesStore, HeldFinite, BookedCovered, NEW c \in Ctr,
         DeleteGrant(c),
         \A d \in Ctr \ {c} : phase[d] \notin HookPhase /\ phase'[d] \notin HookPhase
  PROVE  BookedCovered' /\ ChargedCovered'
<1> DEFINE gid == GidOf[c]
<1>1. /\ UNCHANGED supply /\ grants' = [grants EXCEPT ![gid] = NoGrant]
      /\ phase'[c] = "stop" /\ PolicyTypeOK /\ gid \in Gid
  BY DEF DeleteGrant, Enter, HookInvariant, TypeOK
<1>2. grants'[gid] = NoGrant /\ \A g \in Gid \ {gid} : grants'[g] = grants[g]
  BY <1>1 DEF PolicyTypeOK
<1>4. ASSUME NEW q \in Pool PROVE Covers(supply[q], Granted(grants', Booked(q)'))
  <2> DEFINE T == Booked(q)
             S == Booked(q)'
             s == supply[q]
  <2>1. T \in SUBSET GrantsUnder(q) /\ S \in SUBSET T /\ \A g \in S : grants'[g] = grants[g]
    <3>1. GrantsUnder(q)' = GrantsUnder(q) \ {gid}
      BY <1>2 DEF GrantsUnder, Held
    <3>2. Booked(q) = GrantsUnder(q) \ {gid} \/ Booked(q) = GrantsUnder(q)
      BY BookedAlone
    <3>3. S \subseteq GrantsUnder(q) \ {gid} /\ GrantsUnder(q) \subseteq Gid
      BY <3>1 DEF Booked, GrantsUnder
    <3> QED
      BY <1>2, <3>2, <3>3
  <2>2. Covers(s, Granted(grants, T)) /\ s \in Supply /\ PolicyTypeOK
    BY <1>1 DEF BookedCovered, PolicyTypeOK
  <2>3. s.byRequest >= s.byRequest /\ s.byLimit >= s.byLimit /\ s.mem >= s.mem
    BY <2>2 DEF Supply
  <2>4. Covers(s, Granted(grants', S))
    <3> HIDE DEF T, S, s
    <3> QED
      BY <2>1, <2>2, <2>3, CoversLess
  <2> QED
    BY <2>4
<1>5. \A d \in Ctr : ~Unstored(d)'
  BY <1>1 DEF Unstored, HookPhase
<1> QED
  BY <1>1, <1>4, <1>5 DEF BookedCovered, ChargedCovered

\* Rebuilding an allocation charges the pools of the grant it stores.
LEMMA RebuildKeepsBooks ==
  ASSUME HookInvariant, HeldFinite, BookedCovered, NEW c \in Ctr, RebuildNext(c)
  PROVE  BookedCovered' /\ ChargedCovered'
<1> DEFINE gid == GidOf[c]
<1>1. /\ \A d \in Ctr : phase[d] = "idle" /\ phase'[d] = "idle"
      /\ PolicyTypeOK /\ gid \in Gid /\ ~Held(gid)
  BY RebuildEffect DEF HookInvariant, TypeOK, Starting
<1>2. \A q \in Pool : Booked(q) = GrantsUnder(q) /\ Booked(q)' = GrantsUnder(q)'
  BY <1>1 DEF Booked, Pending
<1>3. ChargedCovered'
  BY <1>1 DEF ChargedCovered, Unstored
<1>4. CASE UNCHANGED policyVars
  <2>1. UNCHANGED <<supply, grants>> /\ \A q : GrantsUnder(q)' = GrantsUnder(q)
    BY <1>4 DEF GrantsUnder, Held, policyVars
  <2>2. BookedCovered'
    BY <1>2, <2>1 DEF BookedCovered
  <2> QED
    BY <1>3, <2>2
<1>5. ASSUME NEW p \in Pool, RebuildContainerAllocation(gid, ResourcesOf(SpecOf[c]), p)
      PROVE  BookedCovered'
  <2> DEFINE gr == GrantFromContainer(ResourcesOf(SpecOf[c]), p)
  <2>1. supply' = Charge(supply, gr) /\ grants' = [grants EXCEPT ![gid] = gr]
    BY <1>1, <1>5 DEF RebuildContainerAllocation
  <2>2. gr \in Grant
    BY RebuiltGrant
  <2> HIDE DEF gr
  <2>3. /\ gr # NoGrant /\ grants'[gid] = gr /\ \A g \in Gid \ {gid} : grants'[g] = grants[g]
    BY <1>1, <2>1, <2>2 DEF PolicyTypeOK
  <2>5. ASSUME NEW q \in Pool PROVE Covers(supply'[q], Granted(grants', GrantsUnder(q)'))
    <3> DEFINE T == GrantsUnder(q)
               s == supply[q]
    <3>1. /\ IsFiniteSet(T) /\ \A g \in T : grants[g] \in Grant
          /\ Granted(grants, T).cpu \in Nat /\ Granted(grants, T).limit \in Nat
          /\ Granted(grants, T).mem \in Nat
      <4>1. T \in SUBSET GrantsUnder(q)
        OBVIOUS
      <4> QED
        BY <1>1, <4>1, UnderType
    <3>2. Covers(s, Granted(grants, T)) /\ s \in Supply
      BY <1>1, <1>2 DEF BookedCovered, PolicyTypeOK
    <3>3. gid \notin T /\ (\A g \in T : grants'[g] = grants[g]) /\ grants'[gid] \in Grant
      BY <1>1, <2>2, <2>3 DEF GrantsUnder
    <3>4. CASE q \in Path[gr.pool]
      <4>1. GrantsUnder(q)' = T \cup {gid}
        BY <1>1, <2>3, <3>4 DEF GrantsUnder, Held
      <4>2. supply'[q] = Add(s, gr)
        BY <2>1, <3>4 DEF Charge
      <4>3. /\ Granted(grants', T \cup {gid}).cpu = grants'[gid].cpu + Granted(grants, T).cpu
            /\ Granted(grants', T \cup {gid}).limit = grants'[gid].limit + Granted(grants, T).limit
            /\ Granted(grants', T \cup {gid}).mem = grants'[gid].mem + Granted(grants, T).mem
        <5> HIDE DEF T, gid
        <5> QED
          BY ONLY <3>1, <3>3, GrantedAdd
      <4>4. /\ gr.cpu \in Nat /\ gr.limit \in Nat /\ gr.mem \in Nat
            /\ s.byRequest \in Int /\ s.byLimit \in Int /\ s.mem \in Int
        BY <2>2, <3>2 DEF Grant, Supply
      <4>5. Covers(Add(s, gr), Granted(grants', T \cup {gid}))
        <5> HIDE DEF T, s, gid
        <5> QED
          BY <2>3, <3>1, <3>2, <4>3, <4>4 DEF Covers, Add
      <4> QED
        BY <4>1, <4>2, <4>5
    <3>5. CASE q \notin Path[gr.pool]
      <4>1. GrantsUnder(q)' = T
        BY <1>1, <2>3, <3>5 DEF GrantsUnder, Held
      <4>2. supply'[q] = s
        BY <2>1, <3>5 DEF Charge
      <4>3. Granted(grants', T) = Granted(grants, T)
        <5> HIDE DEF T
        <5> QED
          BY ONLY <3>3, GrantedSame
      <4> QED
        BY <3>2, <4>1, <4>2, <4>3
    <3> QED
      BY <3>4, <3>5
  <2> QED
    BY <1>2, <2>5 DEF BookedCovered
<1> QED
  BY <1>3, <1>4, <1>5 DEF RebuildNext

\* A restart begins with empty books and no grants.
LEMMA RestartKeepsBooks ==
  ASSUME Restart
  PROVE  BookedCovered' /\ ChargedCovered'
<1>1. /\ supply' = [p \in Pool |-> EmptySupply] /\ grants' = [g \in Gid |-> NoGrant]
      /\ \A c \in Ctr : call'[c] = "none"
  BY DEF Restart
<1>2. \A p \in Pool : Booked(p)' = {}
  BY <1>1 DEF Held, Booked, GrantsUnder
<1>4. BookedCovered'
  <2>1. Granted(grants', {}) = [cpu |-> 0, limit |-> 0, mem |-> 0]
    BY GrantedNone
  <2> QED
    <3>1. Covers(EmptySupply, [cpu |-> 0, limit |-> 0, mem |-> 0])
      BY DEF Covers, EmptySupply
    <3>2. ASSUME NEW p \in Pool PROVE Covers(supply'[p], Granted(grants', Booked(p)'))
      BY <1>1, <1>2, <2>1, <3>1
    <3> QED
      BY <3>2 DEF BookedCovered
<1> QED
  BY <1>1, <1>4 DEF ChargedCovered, Unstored

\* At any time there are finitely many grants: a step stores one at most.
LEMMA StepHeldFinite == HookInvariant /\ HeldFinite /\ [Next]_vars => HeldFinite'
<1> SUFFICES ASSUME HookInvariant, HeldFinite, [Next]_vars PROVE HeldFinite'
  OBVIOUS
<1>1. ASSUME NEW g, \A h \in Gid \ {g} : grants'[h] = grants[h] PROVE HeldFinite'
  <2>1. {h \in Gid : Held(h)}' \in SUBSET ({h \in Gid : Held(h)} \cup {g})
    BY <1>1 DEF Held
  <2>2. IsFiniteSet({h \in Gid : Held(h)} \cup {g})
    BY FS_AddElement DEF HeldFinite
  <2> QED
    BY <2>1, <2>2, FS_Subset DEF HeldFinite
<1>2. CASE UNCHANGED grants
  BY <1>2 DEF HeldFinite, Held
<1>3. ASSUME NEW c \in Ctr, StoreGrant(c) \/ DeleteGrant(c) PROVE HeldFinite'
  <2>1. \A h \in Gid \ {GidOf[c]} : grants'[h] = grants[h]
    BY <1>3 DEF StoreGrant, DeleteGrant, HookInvariant, TypeOK, PolicyTypeOK
  <2> QED
    BY <1>1, <2>1
<1>4. ASSUME NEW c \in Ctr, RebuildNext(c) PROVE HeldFinite'
  BY <1>1, <1>4, RebuildEffect
<1>5. CASE Restart
  <2>1. {h \in Gid : Held(h)}' = {}
    BY <1>5 DEF Restart, Held
  <2> QED
    BY <2>1, FS_EmptySet DEF HeldFinite
<1>6. ASSUME NEW c \in Ctr, HandlerStep(c), ~(StoreGrant(c) \/ DeleteGrant(c)) PROVE HeldFinite'
  BY <1>2, <1>6 DEF HandlerStep, Create, Stop, BeginCreateContainer, ChoosePool, CheckSupply,
     CallCreateContainer, FailCreateContainer, InsertContainer, BeginStopContainer,
     CallStopContainer, ReadSupply, WriteSupply, policyVars
<1>7. CASE UNCHANGED vars \/ \E s \in Sandbox : RunPodSandbox(s) \/ StopPodSandbox(s)
  BY <1>2, <1>7 DEF vars, RunPodSandbox, StopPodSandbox, policyVars
<1>8. ASSUME NEW c \in Ctr, Exit(c) \/ RemoveContainer(c) PROVE HeldFinite'
  BY <1>2, <1>8 DEF Exit, RemoveContainer, policyVars
<1> QED
  BY <1>3, <1>4, <1>5, <1>6, <1>7, <1>8 DEF Next, HandlerStep

\* One hook after the other keeps the books covered.
LEMMA StepBooks ==
  HookInvariant /\ TodoOnPath /\ AloneInvariant /\ BooksInvariant /\ [Next]_vars
  => BooksInvariant'
<1> SUFFICES ASSUME HookInvariant, TodoOnPath, AloneInvariant, BooksInvariant, [Next]_vars,
                    ~overlapped'
             PROVE  BookedCovered' /\ ChargedCovered'
  BY StepHandMatchesStore, StepHeldFinite DEF BooksInvariant
<1>1. ASSUME UNCHANGED <<supply, grants, call, phase, grant, todo, overlapped>>
      PROVE  BookedCovered' /\ ChargedCovered'
  BY SMTT(40), <1>1 DEF BooksInvariant, Held, BookedCovered, Booked, GrantsUnder, Pending,
              ChargedCovered, Unstored
<1>2. CASE UNCHANGED vars
  BY <1>1, <1>2 DEF vars
<1>3. ASSUME NEW s \in Sandbox, RunPodSandbox(s) \/ StopPodSandbox(s)
      PROVE  BookedCovered' /\ ChargedCovered'
  BY <1>1, <1>3 DEF RunPodSandbox, StopPodSandbox, policyVars, hookVars
<1>4. ASSUME NEW c \in Ctr, Exit(c) \/ RemoveContainer(c)
      PROVE  BookedCovered' /\ ChargedCovered'
  BY <1>1, <1>4 DEF Exit, RemoveContainer, policyVars, hookVars
<1>5. CASE Restart
  BY <1>5, RestartKeepsBooks
<1>6. ASSUME NEW c \in Ctr, RebuildNext(c) PROVE BookedCovered' /\ ChargedCovered'
  <2>1. ~overlapped
    BY <1>6 DEF RebuildNext
  <2> QED
    BY <1>6, <2>1, RebuildKeepsBooks DEF BooksInvariant
<1>7. ASSUME NEW c \in Ctr, HandlerStep(c) PROVE BookedCovered' /\ ChargedCovered'
  <2>1. SeenIsCurrent /\ HeldFinite /\ HandMatchesStore /\ BookedCovered /\ ChargedCovered
    <3>1. PICK next : Enter(c, next)
      BY <1>7, OwnStep
    <3> QED
      BY <3>1, EnterAlone DEF BooksInvariant
  <2>2. phase[c] \in HookPhase =>
          \A d \in Ctr \ {c} : phase[d] \notin HookPhase /\ phase'[d] \notin HookPhase
    BY <1>7, WriterAlone
  <2>3. CASE WriteSupply(c)
    <3>1. phase[c] \in HookPhase
      BY <2>3 DEF WriteSupply, HookPhase
    <3> QED
      BY <2>1, <2>2, <2>3, <3>1, WriteKeepsBooks
  <2>4. CASE StoreGrant(c)
    <3>1. phase[c] \in HookPhase
      BY <2>4 DEF StoreGrant, HookPhase
    <3> QED
      BY <2>1, <2>2, <2>4, <3>1, StoreKeepsBooks
  <2>5. CASE DeleteGrant(c)
    <3>1. phase[c] \in HookPhase
      BY <2>5 DEF DeleteGrant, HookPhase
    <3> QED
      BY <2>1, <2>2, <2>5, <3>1, DeleteKeepsBooks
  <2>6. ASSUME UNCHANGED policyVars, \A p : Pending(c, p) => Pending(c, p)',
               \/ ~Unstored(c)'
               \/ Unstored(c) /\ UNCHANGED <<grant, todo>>
               \/ todo'[c] = Path[grant'[c].pool]
        PROVE  BookedCovered' /\ ChargedCovered'
    BY <1>7, <2>1, <2>6, QuietStep
  <2>7. CASE BeginCreateContainer(c) \/ BeginStopContainer(c)
    <3>1. phase[c] = "idle"
      <4>1. call[c] = "none"
        <5>1. BeginCreateContainer(c) => call[c] \notin CallsIn(SandboxOf[c])
          BY DEF BeginCreateContainer
        <5> QED
          BY <2>7, <5>1 DEF CallsIn, BeginStopContainer, HookInvariant, TypeOK
      <4> QED
        BY <4>1 DEF HookInvariant, CallPhase
    <3>2. \A p : ~Pending(c, p)
      BY <3>1 DEF Pending
    <3>3. ~Unstored(c)' /\ UNCHANGED policyVars
      <4>1. CASE BeginCreateContainer(c)
        BY <4>1 DEF BeginCreateContainer, Enter, Unstored, HookInvariant, TypeOK
      <4>2. CASE BeginStopContainer(c)
        BY <4>2 DEF BeginStopContainer, Unstored, HookInvariant, TypeOK
      <4> QED
        BY <2>7, <4>1, <4>2
    <3> QED
      BY <2>6, <3>2, <3>3
  <2>8. CASE ChoosePool(c)
    <3>1. /\ UNCHANGED policyVars /\ \A p : ~Pending(c, p)
      BY <2>8 DEF ChoosePool, Pending
    <3>2. todo'[c] = Path[grant'[c].pool]
      BY <2>8 DEF ChoosePool, GrantOf, HookInvariant, TypeOK
    <3> QED
      BY <2>6, <3>1, <3>2
  <2>9. CASE CheckSupply(c)
    <3>1. UNCHANGED policyVars /\ (\A p : ~Pending(c, p)) /\ Unstored(c)
      BY <2>9 DEF CheckSupply, Pending, Unstored, HookInvariant, CallPhase
    <3>2. UNCHANGED <<grant, todo>> \/ ~Unstored(c)'
      BY <2>9 DEF CheckSupply, Enter, Unstored, HookInvariant, TypeOK
    <3> QED
      BY <2>6, <3>1, <3>2
  <2>10. CASE ReadSupply(c)
    <3>1. /\ phase[c] = "read" /\ phase'[c] = "write"
          /\ UNCHANGED <<call, grant, todo>> /\ UNCHANGED policyVars
      BY <2>10 DEF ReadSupply, Enter, HookInvariant, TypeOK
    <3>2. (\A p : Pending(c, p) <=> Pending(c, p)') /\ (Unstored(c) <=> Unstored(c)')
      BY <3>1 DEF Pending, Unstored
    <3> QED
      BY <2>6, <3>1, <3>2
  <2>11. CASE \/ CallCreateContainer(c) \/ FailCreateContainer(c)
              \/ InsertContainer(c) \/ CallStopContainer(c)
    <3>1. UNCHANGED policyVars /\ \A p : ~Pending(c, p)
      BY <2>11 DEF CallCreateContainer, FailCreateContainer, InsertContainer,
                   CallStopContainer, Pending
    <3>2. phase'[c] \in {"insert", "idle"}
      BY <2>11 DEF CallCreateContainer, FailCreateContainer, InsertContainer,
                   CallStopContainer, EndCall, Enter, HookInvariant, TypeOK
    <3> QED
      BY <2>6, <3>1, <3>2 DEF Unstored
  <2> QED
    BY <1>7, <2>3, <2>4, <2>5, <2>7, <2>8, <2>9, <2>10, <2>11 DEF HandlerStep, Create, Stop
<1> QED
  BY <1>2, <1>3, <1>4, <1>5, <1>6, <1>7 DEF Next, HandlerStep

\* Until two hooks overlap, the counters of every pool cover the grants at or below
\* it, whatever calls fail, containers exit, grants are replaced and allocations are
\* rebuilt (supply.Allocate, propagateResourceToParent, grant.Release).
THEOREM SerialBooksAreCovered == Spec => []SerialBooksCover
<1>1. Init => BooksInvariant
  <2> SUFFICES ASSUME Init PROVE BooksInvariant
    OBVIOUS
  <2>1. HeldFinite /\ Ledger
    BY EmptyLedger DEF Init
  <2>2. HandMatchesStore /\ ChargedCovered /\ \A p \in Pool : Booked(p) = GrantsUnder(p)
    BY DEF Init, HandMatchesStore, ChargedCovered, Unstored, Booked, Pending
  <2>3. ASSUME NEW p \in Pool PROVE Covers(supply[p], Granted(grants, GrantsUnder(p)))
    <3>1. PolicyTypeOK
      BY DEF Init, PolicyInit, PolicyTypeOK, Supply, EmptySupply
    <3>2. /\ Granted(grants, GrantsUnder(p)).cpu \in Nat
          /\ Granted(grants, GrantsUnder(p)).limit \in Nat
          /\ Granted(grants, GrantsUnder(p)).mem \in Nat
      <4>1. GrantsUnder(p) \in SUBSET GrantsUnder(p)
        OBVIOUS
      <4> QED
        BY <2>1, <3>1, <4>1, UnderType
    <3> QED
      BY <2>1, <3>2 DEF Ledger, Covers
  <2> QED
    BY <2>1, <2>2, <2>3 DEF BooksInvariant, BookedCovered
<1>2. BooksInvariant => SerialBooksCover
  <2> SUFFICES ASSUME BooksInvariant, ~overlapped, Active = {}, NEW p \in Pool
               PROVE  Covers(supply[p], Granted(grants, GrantsUnder(p)))
    BY DEF SerialBooksCover, Covers
  <2>1. Booked(p) = GrantsUnder(p)
    BY DEF Booked, Pending, Active, HookPhase
  <2> QED
    BY <2>1 DEF BooksInvariant, BookedCovered
<1> QED
  BY <1>1, <1>2, InitAlone, StepTodoOnPath, StepAlone, StepBooks, HookInvariantHolds, PTL DEF Spec
===================================================================================
