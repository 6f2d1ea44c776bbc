------------------------------- MODULE PcoreBinding -------------------------------
(***************************************************************************)
(* kunpeng-tap-pcore-binding: an agent that binds each eligible pod to the *)
(* two hardware threads of one core.  NRI callbacks keep a map of pods and *)
(* ask for a pass; one loop runs the passes, on request or when its ticker *)
(* fires, and reads and writes the pods' cpuset files.                     *)
(*                                                                         *)
(* Callbacks and loop are different goroutines.  A callback changes the    *)
(* map and then asks for a pass, in two steps; a pass takes a step for     *)
(* every read and write it makes.                                          *)
(***************************************************************************)
EXTENDS Integers, FiniteSets

CONSTANTS
  Pod,            \* pod sandboxes, numbered in the order listPods sorts them
  Eligible,       \* the pods that match (namespace, runtime class, limit of 2)
  Pair,           \* the sibling pairs, numbered in the order of siblingPairs
  Wide,           \* the content of a cpuset file that is none of the pairs
  Absent,         \* a cpuset file that does not exist
  NoPair,         \* no target
  MaxFaults       \* bound: failed writes, writes by others and crashes

ASSUME PodsAreOrdered == Pod \subseteq Nat /\ Eligible \subseteq Pod

ASSUME PairsAreOrdered ==
  Pair \subseteq Nat /\ Wide \notin Pair /\ Absent \notin Pair /\ NoPair \notin Pair

ASSUME FaultsAreBounded == MaxFaults \in Nat

\* The files of a pod: 1 is its parent cgroup's, 2 its sandbox cgroup's.
File == {1, 2}

VARIABLES
  sandboxes,      \* runtime: state of each pod sandbox
  cpuset,         \* cpuset[p][f]: content of file f of pod p
  faults,         \* failed writes, writes by others and crashes so far
  agent,          \* "down", "connecting" (running, no NRI yet) or "up"
  pods,           \* Agent.pods
  asking,         \* a callback has changed pods and not yet asked for a pass
  wake,           \* reconcileCh holds a request
  phase,          \* where the loop is
  listed,         \* the pods the last pass listed
  remaining,      \* those it has yet to deal with
  target,         \* the pair this pass has chosen for a pod; their range is occupied
  files           \* the files of the pod being dealt with that are to be written

envVars == <<sandboxes, cpuset, faults>>
callbackVars == <<pods, asking>>
passVars == <<phase, listed, remaining, target, files>>
vars == <<sandboxes, cpuset, faults, agent, pods, asking, wake,
          phase, listed, remaining, target, files>>

NoTarget == [p \in Pod |-> NoPair]

Init ==
  /\ sandboxes = [p \in Pod |-> "none"]
  /\ cpuset = [p \in Pod |-> [f \in File |-> Absent]]
  /\ faults = 0
  /\ agent = "connecting"
  /\ pods = {}
  /\ asking = FALSE
  /\ wake = TRUE
  /\ phase = "idle"
  /\ listed = {}
  /\ remaining = {}
  /\ target = NoTarget
  /\ files = {}

--------------------------------------------------------------------------------
(***************************************************************************)
(* Callbacks.  The runtime waits for one before it makes the next.         *)
(***************************************************************************)
\* The callback's first half; without a connection there is no callback.
Changed(newPods) ==
  IF agent = "up"
  THEN /\ ~asking
       /\ pods' = newPods
       /\ asking' = TRUE
  ELSE UNCHANGED callbackVars

\* A slip for the mutants: the request is also dropped while a pass runs.
RequestWhenIdle ==
  /\ asking
  /\ asking' = FALSE
  /\ wake' = (wake \/ phase = "idle")
  /\ UNCHANGED <<envVars, agent, pods, passVars>>

\* The request is dropped when one is pending.
RequestReconcile ==
  /\ asking
  /\ asking' = FALSE
  /\ wake' = TRUE
  /\ UNCHANGED <<envVars, agent, pods, passVars>>

\* kubelet has created the parent cgroup; the sandbox cgroup may come later.
RunPodSandbox(p) ==
  /\ sandboxes[p] = "none"
  /\ sandboxes' = [sandboxes EXCEPT ![p] = "ready"]
  /\ cpuset' = [cpuset EXCEPT ![p][1] = Wide]
  /\ Changed(pods \cup {p})
  /\ UNCHANGED <<faults, agent, wake, passVars>>

SandboxCgroupAppears(p) ==
  /\ sandboxes[p] = "ready"
  /\ cpuset[p][2] = Absent
  /\ cpuset' = [cpuset EXCEPT ![p][2] = Wide]
  /\ UNCHANGED <<sandboxes, faults, agent, callbackVars, wake, passVars>>

StopPodSandbox(p) ==
  /\ sandboxes[p] = "ready"
  /\ sandboxes' = [sandboxes EXCEPT ![p] = "stopped"]
  /\ Changed(pods \ {p})
  /\ UNCHANGED <<cpuset, faults, agent, wake, passVars>>

RemovePodSandbox(p) ==
  /\ sandboxes[p] = "stopped"
  /\ sandboxes' = [sandboxes EXCEPT ![p] = "removed"]
  /\ cpuset' = [cpuset EXCEPT ![p] = [f \in File |-> Absent]]
  /\ Changed(pods \ {p})
  /\ UNCHANGED <<faults, agent, wake, passVars>>

--------------------------------------------------------------------------------
(***************************************************************************)
(* Faults, counted against MaxFaults.                                      *)
(***************************************************************************)
Fault ==
  /\ faults < MaxFaults
  /\ faults' = faults + 1

\* kubelet's CPU manager or an operator rewrites a cpuset.
OverwriteCpuset(p, f) ==
  /\ Fault
  /\ cpuset[p][f] \notin {Absent, Wide}
  /\ cpuset' = [cpuset EXCEPT ![p][f] = Wide]
  /\ UNCHANGED <<sandboxes, agent, callbackVars, wake, passVars>>

\* The process ends, also when the NRI connection is lost.
Crash ==
  /\ Fault
  /\ agent # "down"
  /\ agent' = "down"
  /\ pods' = {}
  /\ asking' = FALSE
  /\ wake' = FALSE
  /\ phase' = "idle"
  /\ listed' = {}
  /\ remaining' = {}
  /\ target' = NoTarget
  /\ files' = {}
  /\ UNCHANGED <<sandboxes, cpuset>>

\* Run asks for a pass before anything is known.
Run ==
  /\ agent = "down"
  /\ agent' = "connecting"
  /\ wake' = TRUE
  /\ UNCHANGED <<envVars, callbackVars, passVars>>

Synchronize ==
  /\ agent = "connecting"
  /\ agent' = "up"
  /\ pods' = {p \in Pod : sandboxes[p] \in {"ready", "stopped"}}
  /\ asking' = TRUE
  /\ UNCHANGED <<envVars, wake, passVars>>

--------------------------------------------------------------------------------
(***************************************************************************)
(* The loop.                                                               *)
(***************************************************************************)
ReceiveRequest ==
  /\ agent # "down" /\ phase = "idle"
  /\ wake
  /\ wake' = FALSE
  /\ phase' = "list"
  /\ UNCHANGED <<envVars, agent, callbackVars, listed, remaining, target, files>>

Tick ==
  /\ agent # "down" /\ phase = "idle"
  /\ phase' = "list"
  /\ UNCHANGED <<envVars, agent, callbackVars, wake, listed, remaining, target, files>>

AfterPod(rest) == IF rest = {} THEN "idle" ELSE "visit"

ListPods ==
  /\ phase = "list"
  /\ listed' = pods
  /\ remaining' = pods
  /\ target' = NoTarget
  /\ phase' = AfterPod(remaining')
  /\ UNCHANGED <<envVars, agent, callbackVars, wake, files>>

IsNext(p) == p \in remaining /\ \A q \in remaining : p <= q

\* Done with pod p, whatever became of it.
Continue(p) ==
  /\ remaining' = remaining \ {p}
  /\ phase' = AfterPod(remaining')
  /\ files' = {}

Occupied == {target[p] : p \in Pod} \ {NoPair}

Existing(p) == {f \in File : cpuset[p][f] # Absent}

\* The first of the files that exist says what the pod runs on.
Current(p) == IF cpuset[p][1] # Absent THEN cpuset[p][1] ELSE cpuset[p][2]

\* Slips for the mutants: a pod keeps its pair although it is taken; every pod
\* takes the first free pair; a pod keeps what it has, pair or not, unless taken.
TargetIfTaken(current, t) ==
  IF current \in Pair THEN t = current
  ELSE t \in Pair \ Occupied /\ \A x \in Pair \ Occupied : t <= x

TargetFirstFree(current, t) ==
  t \in Pair \ Occupied /\ \A x \in Pair \ Occupied : t <= x

\* The current pair when no pod before it in this pass has it, else the first
\* free one.
TargetCpuset(current, t) ==
  IF current \in Pair \ Occupied THEN t = current
  ELSE t \in Pair \ Occupied /\ \A x \in Pair \ Occupied : t <= x

\* Skipped: a pod that does not match, has no file, or finds no free pair.
SkipPod(p) ==
  /\ phase = "visit"
  /\ IsNext(p)
  /\ \/ p \notin Eligible
     \/ Existing(p) = {}
     \/ ~\E t \in Pair \cup {Wide} : TargetCpuset(Current(p), t)
  /\ Continue(p)
  /\ UNCHANGED <<envVars, agent, callbackVars, wake, listed, target>>

\* The target is taken for the rest of the pass, whether it gets written or not.
ChooseTarget(p) ==
  /\ phase = "visit"
  /\ IsNext(p)
  /\ p \in Eligible
  /\ Existing(p) # {}
  /\ \E t \in Pair \cup {Wide} :
       /\ TargetCpuset(Current(p), t)
       /\ target' = [target EXCEPT ![p] = t]
  /\ files' = Existing(p)
  /\ phase' = "compare"
  /\ UNCHANGED <<envVars, agent, callbackVars, wake, listed, remaining>>

Differs(p, f) == cpuset[p][f] \notin {Absent, target[p]}

\* A slip for the mutants: only the first file is compared.
NeedsParentUpdate(p, f) ==
  /\ phase = "compare"
  /\ IsNext(p)
  /\ f \in files /\ \A g \in files : f <= g
  /\ IF Differs(p, f) THEN phase' = "write" /\ UNCHANGED <<remaining, files>>
     ELSE Continue(p)
  /\ UNCHANGED <<envVars, agent, callbackVars, wake, listed, target>>

\* The files are read one after the other, up to one that does not have the target.
\* One that is gone ends the pod's turn; so do files that all have the target.
NeedsCpusetUpdate(p, f) ==
  /\ IsNext(p)
  /\ f \in files
  /\ \/ phase = "compare" /\ \A g \in files : f <= g
     \/ phase = "compareNext" /\ \A g \in files : g <= f
  /\ \/ Differs(p, f) /\ phase' = "write" /\ UNCHANGED <<remaining, files>>
     \/ /\ cpuset[p][f] = target[p] /\ \E g \in files : f < g
        /\ phase' = "compareNext"
        /\ UNCHANGED <<remaining, files>>
     \/ /\ cpuset[p][f] = Absent \/ (cpuset[p][f] = target[p] /\ \A g \in files : g <= f)
        /\ Continue(p)
  /\ UNCHANGED <<envVars, agent, callbackVars, wake, listed, target>>

\* The files are written one after the other; a failure is logged only.
WriteCpuset(p, f) ==
  /\ phase = "write"
  /\ IsNext(p)
  /\ f \in files /\ \A g \in files : f <= g
  /\ IF files = {f} THEN Continue(p)
     ELSE files' = files \ {f} /\ UNCHANGED <<remaining, phase>>
  /\ \/ /\ cpuset[p][f] # Absent
        /\ cpuset' = [cpuset EXCEPT ![p][f] = target[p]]
        /\ UNCHANGED faults
     \/ /\ cpuset[p][f] = Absent
        /\ UNCHANGED <<cpuset, faults>>
     \/ /\ cpuset[p][f] # Absent
        /\ Fault
        /\ UNCHANGED cpuset
  /\ UNCHANGED <<sandboxes, agent, callbackVars, wake, listed, target>>

--------------------------------------------------------------------------------
PassStep ==
  \/ Tick
  \/ ReceiveRequest
  \/ ListPods
  \/ \E p \in Pod :
       \/ SkipPod(p)
       \/ ChooseTarget(p)
       \/ \E f \in File : NeedsCpusetUpdate(p, f) \/ WriteCpuset(p, f)

Next ==
  \/ \E p \in Pod :
       \/ RunPodSandbox(p) \/ StopPodSandbox(p) \/ RemovePodSandbox(p)
       \/ SandboxCgroupAppears(p)
       \/ \E f \in File : OverwriteCpuset(p, f)
  \/ RequestReconcile
  \/ Crash \/ Run \/ Synchronize
  \/ PassStep

Spec == Init /\ [][Next]_vars

\* Goroutines that can run do: a callback finishes, the loop works off a pass
\* and its ticker fires.  kubelet restarts the agent, the runtime accepts it.
FairSpec ==
  /\ Spec
  /\ WF_vars(RequestReconcile)
  /\ WF_vars(PassStep)
  /\ WF_vars(Run)
  /\ WF_vars(Synchronize)

--------------------------------------------------------------------------------
(***************************************************************************)
(* Properties.                                                             *)
(***************************************************************************)
TypeOK ==
  /\ sandboxes \in [Pod -> {"none", "ready", "stopped", "removed"}]
  /\ cpuset \in [Pod -> [File -> Pair \cup {Wide, Absent}]]
  /\ faults \in 0..MaxFaults
  /\ agent \in {"down", "connecting", "up"}
  /\ pods \subseteq Pod
  /\ asking \in BOOLEAN
  /\ wake \in BOOLEAN
  /\ phase \in {"idle", "list", "visit", "compare", "compareNext", "write"}
  /\ listed \subseteq Pod
  /\ remaining \subseteq Pod
  /\ target \in [Pod -> Pair \cup {NoPair}]
  /\ files \subseteq File

\* Dropping a request that finds the channel full loses nothing: whenever the
\* pods differ from those the last pass listed, another pass is under way,
\* asked for, or about to be asked for.
ChangeIsPending ==
  pods # listed => wake \/ asking \/ phase = "list"

\* One pass never chooses the same pair for two pods.
TargetsDistinct ==
  \A p, q \in Pod : p # q /\ target[p] # NoPair => target[p] # target[q]

\* A pod is moved from one pair to another only when a pod before it in the
\* order took its pair in the same pass.
KeepsPair ==
  [][\A p \in Pod :
       cpuset[p][1] \in Pair /\ cpuset'[p][1] \in Pair /\ cpuset'[p][1] # cpuset[p][1]
       => \E q \in Pod : q < p /\ target[q] = cpuset[p][1]]_vars

Live == {p \in Eligible : sandboxes[p] = "ready"}

\* Every live eligible pod is on a pair, with all its files, on its own.
Settled ==
  \A p \in Live :
    /\ \A f \in Existing(p) : cpuset[p][f] \in Pair /\ cpuset[p][f] = Current(p)
    /\ \A q \in Live \ {p} : Current(q) # Current(p)

\* With a pair for every pod, once pods stop coming and going and faults stop,
\* the passes settle every pod and leave it there.
Converges == <>[]Settled
===================================================================================
