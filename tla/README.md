# A verification development of kunpeng cloud-native

The repository holds several node-level Kubernetes components for Kunpeng
machines.  This directory models the parts whose correctness depends on what
happens over time: which events arrive in which order, what is remembered
between them, and what is lost when a process restarts.

Contents: [the system](#1-the-system), [modules](#2-modules-and-the-code),
[runs](#3-what-the-runs-check), [proofs](#4-what-is-proved),
[disagreements](#5-what-the-code-does-and-what-is-said-of-it),
[limits](#6-what-is-not-modelled), [plan](#7-plan).

## 1. The system

Paths are under `src/pkg/`.  `PROJECT.json` lists the same components with
their files, and every hazard at its line.

| component | state | operations | talks to |
|---|---|---|---|
| **topology-aware policy** `kunpeng-tap/policy/topology-aware` | the pool tree; per pool a `supply` (shared, byRequest, byLimit, memory); `allocations.grants` keyed by pod UID and container name | allocate (filter, sort, choose, charge the path to the root), release, rebuild from the cache | called by the policy manager, reads the cache |
| **policy manager** `kunpeng-tap/policy/policy.go` | the registered policy | one hook per runtime event; errors of policies are logged and dropped | called by the three front ends |
| **cache** `kunpeng-tap/cache` | `Pods`, `Containers` by runtime ID | insert, lookup, delete, resource estimation from cgroup values | shared by all of kunpeng-tap |
| **NRI agent** `kunpeng-tap/server/nri` | none of its own | Synchronize, Run/Stop/RemovePodSandbox, Create/Update/Stop/RemoveContainer | containerd or CRI-O over one ttrpc connection |
| **containerd proxy** `server/containerd`, `server/dispatcher` | none of its own | intercepts CRI calls, runs a hook before or after the real call | kubelet above, containerd below; concurrent gRPC handlers |
| **docker proxy** `server/docker` | one mutex around the handlers | the same for the docker API; cleans the cache before each create | dockershim, dockerd |
| **numa-aware policy** `kunpeng-tap/policy/numa-aware` | none: usage is recomputed from the cache | choose the least used NUMA node | policy manager, cache |
| **sysfs discovery, topology builder** `kunpeng-tap/sysfs`, `topology_builder.go`, `node_impl.go` | the system description and the tree, built once | discovery passes, validation, nodes and numbering | sysfs |
| **pcore binding** `kunpeng-tap-pcore-binding` | pods by ID; a reconcile channel of capacity one | NRI pod events, a ticker, a pass that gives each pod a sibling pair | NRI, cgroup files |
| **QoS controller** `kunpeng-qos-controller/controller` | the informer's copy, work queues; resctrl groups and cgroup values on the node | reconcile a policy, bind pods, set CPU levels | API server, resctrl and cgroup files; one instance per node |
| **dynamic control** `kunpeng-qos-controller/dynamiccontrol` | the policy of this node, a read copy, what the agent was told | publish online pods, pull interference, lower limits | API server, a local agent |
| **KAE device plugin** `kae-device-plugin/device-plugin` | device tree of the last scan, servers by type, update channels | scan, notify, add/update/remove servers, ListAndWatch | PCI bus, kubelet |
| **KAE qos** `kae-device-plugin` | the devices it remembers per pod; finalizers | apply a pod's QoS, restore the default | API server, kubelet's pod-resources API, sysfs |
| **DevKit collectors** `kunpeng-perf-monitor/collector/devkit_*.go` | configuration in force, published result per collector, log state | watch the ConfigMap, run the command, parse, publish, scrape | API server, the DevKit command, Prometheus |
| **other collectors**, **webhook**, **metrics** | none over time | sampling, one-shot mutation, reporting | |

How kunpeng-tap's parts interact in NRI mode:

    runtime --event--> NRI agent --> policy manager --hook--> topology-aware policy
                          |                                     |      |
                          +---- inserts / deletes --> cache <---+      +--> supplies, grants

The runtime waits for the answer to an event before it delivers the next one to
the same plugin.  `CreateContainer` runs the hook first and inserts the
container afterwards; `StopContainer` runs the hook, which finds the container
and its pod in the cache by ID and from them the grant; `RemoveContainer` runs
the same release once more and then deletes the cache entry.  Nothing is
persisted: after a restart `Synchronize` fills the cache from the runtime's
lists and `RebuildAllocationsFromCache` guesses each grant from the cpuset the
container runs with.  In the two proxy modes the same policy and cache sit
between kubelet and the runtime.

The controllers share nothing with kunpeng-tap.  Each works from an informer's
copy of an object that others change, and writes to files of the node:

    users --writes--> API server --versions--> informer's copy --queue--> reconcile --> resctrl, sysfs
                          ^                                                   |
                          +------------- finalizers, updates -----------------+

What is hard here:

* **Counters without a source of truth.**  A grant is charged to its pool and
  every ancestor and must be given back on exactly that path.  The clamps at
  zero in `Release` and in the propagation differ, and would hide a difference.
* **Identity.**  Grants are keyed by pod UID and container name, so the
  instances of a restarted container share one; events are keyed by runtime ID.
  Pod names are used again; so are the names of policies.
* **Restart.**  Containers start, stop and disappear while an agent is away.
  The rebuild checks no capacity and the runtime lists exited containers too.
* **Layered preferences.**  A sort over seven criteria, then a scan that
  overrides it for depth or for GPU locality.
* **Concurrency** in the containerd proxy, the pcore binding, the KAE manager
  and its servers, the DevKit collectors, and between the nodes of the QoS
  controller.
* **Old copies.**  Reconciles, dynamic control and KAE qos decide from a copy
  while the object moves on; predicates drop events that look harmless; a list
  after a broken watch merges what lies between two versions.
* **Several steps of which one fails**: schemata written item by item, a QoS
  restored before a finalizer is removed, a server started in a goroutine.
* **Odd machines.**  Offline CPUs, nodes without CPUs, package numbers with
  gaps; Go's maps are walked in any order while fields are overwritten.

What makes each component correct:

* policy: supplies equal stored grants; no pool below the root is granted more
  than it has; the pool chosen is the one the criteria name; a rebuild recovers
  what the create path granted;
* NRI agent, proxies: what runs confined to a pool is what is charged there,
  before and after restarts; capacity returns when a container stops;
* numa-aware policy: containers confined to a node fit it;
* topology builder: a tree in which children partition their parents, with each
  CPU in the pools of its socket, node and cluster;
* pcore binding: no two pods on one sibling pair; an event is eventually acted on;
* QoS controller: a node at rest has the group, the bindings and the levels the
  policy asks for; a deletion is not forgotten;
* dynamic control: no user's edit is overwritten; lasting interference brings
  the limits to their floor;
* KAE plugin: kubelet knows the devices there are; KAE qos: no device keeps the
  QoS of a pod that is gone;
* DevKit collectors: numbers are published under the scope they describe; the
  log tells the truth although it is throttled; a valid configuration takes effect.

## 2. Modules and the code

    TopologyPools <- PoolSelection <- TopologyAwarePolicy <- NriAgent
          ^                            |  ^  ^  ^             | refines
          |           Requirements <---+  |  |  +-- ContainerdProxy
          |                               |  +----- DockerProxy
          |                               +-------- SortAndScan
          +------------------- PinnedPlacement <--------------+
    TopologyDiscovery                         what TopologyPools assumes, derived
    PcoreBinding, QosController, DynamicControl,
    KaeDevicePlugin, KaeQos                   processes of their own
    DevkitReports <- DevkitCollectors
    MC...                                     instances for TLC
    FiniteInduction <- ..._proofs             theorems

`KaeDevicePlugin` and `KaeQos` need no MC module; the others have one that gives
machines, objects or texts as definitions.  External parts (kubelet, runtimes, the
API server, informers, the operating system) are modelled from how the code uses
them and are marked `external` in the map.

### kunpeng-tap

**TopologyPools** is the tree and the arithmetic of a supply (`supply.go`,
`grant.go`, `node_base.go`, `resource_propagator.go`).  A pool is its NodeID;
`Path[p]` stands for the loops that follow `Parent()`.  `Charge` and `Discharge`
are `supply.Allocate`/`Release` together with the propagation that always
follows them.  The two different clamping rules are kept (`SubtractOwn`,
`SubtractAncestor`).  The code keeps `allocatedCPUs` and
`allocatedCPUByRequest` of a grant apart but both constructors make them equal,
so a grant has one `cpu`.

**PoolSelection** is `pool_filter.go` and `pool_sorter.go`: capacity on the
path without the root, the root as the only candidate when nothing else fits,
the ranking as a tuple compared component by component (limit fits, depth, room
left for the limit, fewer grants, then GPU affinity and free CPU in the order
the option says, then NodeID; `Outranks` compares), and the two scans.  It is
declarative: it says *which* pool is chosen.  **SortAndScan** says how the code
finds it, by sorting the candidates and going through the list, and
`SelectionIsSortAndScan` that the two agree.

**TopologyAwarePolicy** has the entry points as operators on `(supply,
grants)`: `AllocatePool`, `ReleasePool`, `RebuildContainerAllocation`, and the
small specification `PolicySpec` in which callers are well behaved.  What they ask
for (`PolicyRequest`) is what the policy reads from the numbers kubelet gives the
runtime for the containers of `PolicyContainer`.  Storing a grant replaces an older
one without releasing it, as the code does.

**Requirements** is the arithmetic between a pod's specification and the policy:
the shares, quota and memory limit kubelet computes (external), and what the
create path and the rebuild read back from them (`cache/utils.go`,
`state_rebuild.go`).  `TopologyAwarePolicy` builds on it, and `RebuildRecovers`
compares the two readings.

**NriAgent** is the agent, the cache as the sets of its keys, and the runtime as
the environment.  One action per event, each the whole handler; since the
runtime waits, an event and the runtime's own step are one action.  `Crash` may
happen whenever the agent runs, also in the middle of a rebuild;
`Synchronize` fills the cache; `RebuildNext` is one iteration of the rebuild's
loop over a Go map, hence in any order.  While the agent is down the runtime
goes on (`CreateContainerUnseen` and the other actions with `agent = "down"`).
Creating and starting a container are one step: the policy has no hook between
them and the rebuild treats both states alike.  Instances of containers and
sandboxes are used once; a restart is a new instance with the same `GidOf`.
Kubelet's rules are in the guards of the environment: one ready sandbox per pod,
one running instance per container, a sandbox is removed after its containers.
`PromptRemoval` is the one parameter of the environment that does not describe
kubelet: TRUE says that a dead instance is removed before its successor is
created, an idealisation; FALSE is what kubelet's garbage collection does.
Section 5 says what depends on it.

**PinnedPlacement** is the promise stated without any of the policy's state:
what each container is confined to.  A container goes to a pool below the root
that has room for it together with all that already runs there, to the root
only if no pool has, to nothing only if the agent is away, has nothing to do
with it, or the machine is full.  `NriAgent!ImplementsPlacement` maps
`confined` to the cpusets of running containers.

**ContainerdProxy** (`server/containerd`, `server/dispatcher`).  Each CRI call is
served by a gRPC goroutine and the policy takes no lock, so what is one action in
`NriAgent` is many here.  A handler is identified by its container; `call` says
what it serves and `phase` where it is:

| phase | code |
|---|---|
| `choose` | `allocatePool` filters, sorts and chooses (`ChoosePool`) |
| `check` | `supply.Allocate`'s own test (`CheckSupply`) |
| `read`, `write` | the two halves of updating one pool's counters; a create starts at the pool of the grant, a stop ends there |
| `store` | the grant is stored, after the pool and before its parents are charged |
| `call`, `stop` | containerd is called; a create reads the grant back for its cpuset |
| `insert`, `delete` | the cache entry is made, the grant is deleted |

Between the hook and the answer of containerd, between choosing and charging, and
between the halves of an update any other handler may run.  Failing calls and
restarts of the proxy are `Fault`s; a restart loses the calls being handled, and
rebuilds from containerd's lists.  Containers exit by themselves and are
removed without a hook, as `RemoveContainer` is passed through.  Kubelet's
rules are guards: it works on one pod at a time (`CallsIn`), has one running
instance of a container and stops a sandbox after its containers.  `overlapped`
is an auxiliary variable, TRUE once two hooks have been active together.
Abstractions: the filter reads all supplies in one step, and the counters of a
pool are updated as one record; a failed creation leaves nothing running;
creating and starting are one step, and so are containerd's stop and the deferred
deletion of the cache entry that follows it; `StopPodSandbox` does not fail.

**DockerProxy** composes the policy with the docker front end and, alternatively,
the **numa-aware policy** (`policy` is chosen at the start).  The handlers share a
mutex, so a request, its hook and docker's own step are one action.  `CleanCache`
runs before every create, of a sandbox or of a container, and before creates that
docker refuses; docker's list may fail to come, and then the cache is emptied
(`LeavesCleanCache`).  A refused create leaves an entry under the empty ID
(`unnamed`); a restart reloads from docker's list under other ids
(`ReloadedGidOf`), as the code takes the docker ID for the pod's UID.  `NumaHook`
sums up for each node the shares of the cached containers that have a CFS period and
whose cpuset the code takes for that node's (`IsCounted`; `IsNumaNodeOf`, by
consecutive blocks of CPU numbers), and adds the new container's request, which is
rounded to milli-CPUs.  The code divides by 1024 in floating point; the model
compares the exact rationals.

**TopologyDiscovery** follows discovery pass by pass (`DiscoverCPUs`,
`DiscoverNodes`, `DiscoverPackages`, `PopulateNodePackageInfo`,
`DiscoverClusters`), the validation that may refuse the machine, and `BuildPools`
with the numbering of the pools.  Where two CPUs write the same field of a map
entry, either may be the last, and clusters are numbered in any order.  It checks for
small machines what `TopologyPools` assumes of every tree.

### The other processes

**PcoreBinding** is the agent of `kunpeng-tap-pcore-binding` (`agent.go`).  Two
goroutines: the NRI callbacks change `Agent.pods` and then ask for a pass, in two
steps (`Changed`, `RequestReconcile`); the loop takes a request or a tick and runs
a pass, which lists the pods and then, for one pod after the other, reads its
cpuset files and chooses a pair (`ChooseTarget`, `SkipPod`), compares the files
with it (`NeedsCpusetUpdate`) and writes them (`WriteCpuset`), file by file.
Everything else may happen between any two of these steps.  The channel of
capacity one is `wake`.  File 1 of a pod is its parent cgroup's, file 2 its
sandbox cgroup's; how a pod's cgroup path is found is abstracted to which of the
two exist, and the tests for namespace, runtime class and CPU limit to membership
in `Eligible`.  Failing writes, writes by others and crashes are `Fault`s.

**QosController** is one DaemonSet instance per node around one API server object.
A write is a version sent to every instance (`watch`); `Observe` delivers one,
`Relist` replaces the rest by the present one.  `WantsReconcile` and `WantsPods` are
the predicates of the two controllers.  The policy's reconcile is `Begin`,
`Cleanup`, `RemoveFinalizer` on the deletion path and `EnsureFinalizer`, `Configure`
otherwise, each reading the informer's copy, the object or its own copy as the code
does; `ConfigureFails` leaves a prefix of the schemata items written.  The pod's is
`BindPod`, then `SetLevel` or `SetLevelFails`.  Three history variables say what the
code cannot know: `missed`, `dropped`, `unnoticed`; no guard reads them.

**DynamicControl** is the updater and the scheduler's loops: `EnsurePolicy` at the
start, `PublishOnlinePods`, and `GetInterference` followed by one of the ways a
pull can end (`UpdatePolicy` with the object's version, `UpdateRefused`,
`TaskTimesOut`, ...).  `Send` is a write of the typed client: fields that are 0 are
left out of it and the CRD's defaults take their place (`Serialized`).  Users edit
and delete the policy at any time, with zeros and without a selector if they like,
the cache lags, the agent restarts and forgets.

**KaeDevicePlugin** has the scanner's goroutine (`Notify`, which blocks until the
loop takes the update), the manager's loop (`TakeUpdate`, `HandleUpdate`: one
operation after the other), the goroutine of each server (`Launch`, `Listen`,
`Register`, `WatchFile`, `SocketGone`) and the ListAndWatch handlers
(`TakeDevices`, `SendDevices`, `HandlersReturn`).  A server's update channel has
capacity one; a handler whose stream has broken still takes from it.  Fatal errors
and panics end the process, and all of its state with it (`Fresh`).

**KaeQos** is the pod reconciler: `Observe` applies the predicate, `AddFinalizer`,
`UpdateQos`, `Release` and their failing forms are the branches of `Reconcile`.
`getEnabled` chooses between kubelet's `Get` and `List` and is found out anew at
each start, a call that times out counting as `List`; `usedList` remembers, for the
properties alone, that some start found `List`.  `resources` is what the
code remembers of pods kubelet has forgotten.

**DevkitReports** has the selectors' parser and canonical form (sort, then merge
intervals or drop repetitions), the limits within which a selector is read at all,
the comparison of scopes, and what the two report parsers accept, down to rows and
cells; text is given as the sequence of what its lines hold.  **DevkitCollectors** composes them:
the watcher (`Observe`, `Relist`), and for each collector `BeginRound` (reads the
configuration in force), `Acquire` (the lock both share), the command, `Finish`
(parse, log) and `Publish`.  Scrapes read at any time.

## 3. What the runs check

| run | module | instance and question | states |
|---|---|---|---|
| `policy_sockets` | MCTopologyAwarePolicy | two sockets, memory topology on, GPU first, three ids, containers whose amounts lie at the edges of the conversions: are the supplies the sum of the grants and within CPU and memory, is the choice the code's sort and scan, does a rebuild recover the amounts? | 5,141 |
| `nri_restarts` | MCNriAgent | one socket with clusters; an ordinary container restarted in a new sandbox beside another, a kube-system and a BestEffort one; crashes anywhere, mid-rebuild included; dead containers removed promptly: does the agent keep all it promises? | 902,276 |
| `proxy_hooks` | MCContainerdProxy | two pods, three containers of which one is a restart, one failed call or restart of the proxy, hooks interleaved step by step: what survives? | 1.86 million |
| `docker_restarts` | MCDockerProxy | either policy; a container restarted in place and in a second sandbox, another beside it, requests that rounding raises; two faults: capacity, grants, NUMA usage | 1.7 million |
| `discovery_trees` | MCTopologyDiscovery | all machines of four CPUs, two packages with gaps in their numbers, up to three nodes, one CPU offline, any clusters within nodes | 1,383,612 |
| `pcore_passes` | MCPcoreBinding | three pods, one not eligible, two pairs, one fault | 551,276 |
| `qos_policies` | MCQosController | two nodes with different labels, a pod, three specifications, three writes by users, one restart, lost watch or replaced pod | 3,290,339 |
| `dynamic_limits` | MCDynamicControl | an online and an offline pod and one elsewhere; three specifications of users, with explicit zeros, no selector and a raised level; two edits, three changes of pods, reports or the agent | 142,197 |
| `kae_devices` | KaeDevicePlugin | two types, one device, three servers, two changes on the bus, one restart of kubelet | 1,237,171 |
| `kae_qos` | KaeQos | two names, two devices, an invalid, an ordinary and the default annotation; two pods, two restarts, each of which may find `Get` or `List` | 1,284,804 |
| `devkit_rounds` | MCDevkitCollectors | two valid configurations and a refused one, reports of every scope and reports broken in one way each; one edit, one restart | 431,616 |
| `nri_late_removal` | MCNriAgent | the disagreement of section 5 | |

The properties:

* `Ledger`: each counter of each pool is the sum over the stored grants at or
  below it, so nothing leaks and no clamp is ever needed.
* `WithinCapacity`, `WithinMemory`, `AllocationWithinCapacity`: no allocation
  takes a pool below the root over what it has.  The filter never checks the
  root; for the root, `supply.Allocate`'s own check (`SupplyAccepts`) is the only
  one, and is part of the model.
* `SelectionIsSortAndScan`: the pool chosen is unique and is the code's.
* `RebuildRecovers`: what a rebuild reads from `cpu.shares`, the quota and the
  memory limit is what the create path read from the request, but for what `Recovers`
  lists: no CPU comes back as 2 milli-CPUs, and the limit of a Guaranteed container,
  read from the rounded request at creation, comes back from its quota: up to 1
  milli-CPU more, up to 10 for requests below 10, and 0 where kubelet runs without CFS
  quota.
* `PinnedHasGrant`, `GrantHasRunningCtr`, `GrantMatchesRequest`: grants and
  running containers correspond, in both directions and in size: a grant is the one
  the container's creation made, or what a rebuild recovers of it in the sense above.
* `ImplementsPlacement`: the refinement of `PinnedPlacement`.
* `PinnedHasGrant` (containerd proxy): what runs pinned, is known and is not being
  stopped holds its grant, whatever else is being handled and whatever became of
  earlier instances of the container.
* `GrantHasOwner`: each grant can still be found: a call for its id is being
  handled, the cache has an instance of it, or containerd refused the creation.
* `SerialBooksCover`, `SerialWithinCapacity`: until two hooks overlap, the counters
  of a pool are never below the grants under it, and no pool below the root is
  over its CPUs.
* `PinnedHasGrant`, `WithinCapacity`, `NumaFits` (docker): the same promises with
  entries cleaned away before a create and late deletes; under the numa-aware
  policy the shares of the containers confined to a node never exceed 1024 for each
  of its CPUs (and 2, for a last container without a CPU request) as long as nothing
  has failed.  That is what the code's sum promises; section 5 says what it does not.
* `PoolsFormTree`, `CpusFindTheirPools`: every accepted machine becomes a tree as
  `TopologyPools` assumes it, and every online CPU is in the pools of its node,
  package and cluster, whatever order the maps were walked in.
* `ChangeIsPending`: a request that finds the channel full may be dropped,
  because whenever the pods differ from those last listed a pass is pending.
* `TargetsDistinct`, `KeepsPair`, `Converges`: no pass chooses a pair twice, no pod
  is moved from pair to pair unless a pod before it took its pair (the write comes
  some steps after the choice), and when pods stop coming and going every
  eligible pod ends up on a pair of its own.
* `Settled`, `PodSettled`: a node at rest has the group, the binding and the level
  that follow from the policy.  The exemptions are histories: a relist that hid a
  replacement (until the next reconcile), a group removed under its pod, a level
  that came or changed while the selector left the node out (until the next level is
  set).  All three are described in section 5.
* `DeletionNotForgotten`: while the finalizer keeps a deleted policy, some instance
  still has to remove it.
* `NoEditLost`: a write of dynamic control changes only what the pulled reasons
  call for, counted from the values in force at that moment, and the explicit zeros
  of section 5.
* `ThrottlesToFloor`, `AgentLearnsPods`: lasting interference brings the limits to
  their floor unless the CRD refuses the whole update, and the agent comes to know
  the online pods.
* `NoUpdateLost`, `KubeletConverges`: nothing is lost between scanner, loop and
  channel; once the bus is quiet kubelet knows the devices present, unless the type
  is `Astray` in one of the three ways of section 5.
* `NoLeakedQos`, `QosConverges`: a device with a QoS is answered for by a pod whose
  finalizer is still there (and owns it, unless `List` was used); if every start found
  `Get`, a running pod's device gets its QoS.
* `ScopeCheckIsExact`, `PublishedFitsScope`: reports whose selector is within the
  limits are refused for their scope exactly when they describe other CPUs or
  processes, and nothing is published under a scope it does not describe.
* `SeriesDistinct`, `NodesUnderTheirParents`: a scrape gathers no series twice, and
  the rows of a tree are filed under the right parents.
* `LogTellsState`, `SuccessTimeKept`, `ConfigTakesEffect`: the last log line is a
  failure exactly while rounds fail, failures never take back the time of a success,
  and a valid configuration that stays comes into force.

**Bounds.**  Objects of kunpeng-tap (containers, sandboxes, pods) are used once, so
the state spaces are finite without a bound on time; crashes of the NRI agent are
not bounded, those of the proxies are by `MaxFaults`.  The machines of `MCTopology`
are small but uneven, so that requests fit in some pools and not in others at each
level.  `MCNriAgent` chooses requests so that where a container goes depends on who
came first, so a wrong supply after a restart puts someone into the wrong pool.
Two instances of one container are enough for each pair of (late event of the old
one, event of the new one); three containers are enough to fill a pool and its
parent.  In `proxy_hooks` two containers of different pods are enough for two
creations, a creation and a stop, or two stops to overlap in any order of their
steps; the restart of one adds a grant that is overwritten, and a cache entry of the
dead instance that still leads to the id.  For the pcore binding, two eligible pods
around one that is not, on two pairs, give every order of "who has the pair the
other wants".

`MaxWrites = 3` in `qos_policies` allows a creation, an edit or deletion, and a
third write that undoes it, which is what merging versions needs; the finalizer's own
writes are not counted.  `MaxEdits`, `MaxChanges` and `MaxBusChanges` are chosen
likewise: a change, and one more that comes before the first is dealt with.
`kae_devices` needs three servers for one to be replaced while another starts;
with two devices `NoUpdateLost` was explored apart for two servers (15.4 million
states, none that violates it), too long for a run kept beside the code; the theorem
covers any number of either.
In `kae_qos` two pods under one name make an old entry meet a new pod, two devices
let them differ.  In `devkit_rounds` the second configuration differs from the first
in every field that the arguments depend on.  The theorems of section 4 lift the
bounds for the safety properties they cover.

**Deadlock** is checked where the system cannot stop (`devkit_rounds`, `pcore_passes`,
`nri_restarts`, `policy_sockets`).  Elsewhere the configuration switches the check
off, because a behaviour ends when every object is used up or every bound reached.

**Fairness.**  The policy, the NRI agent, the proxies, discovery and the QoS
controller only answer, and their properties are safety properties: none is
assumed.

* `PcoreBinding!FairSpec`: weak fairness of what runs by itself: a callback that has
  begun asks for its pass, and the loop goes on (ticker included), as neither waits
  for a lock held across a wait; the agent is restarted by kubelet as a daemon set
  and connects because the runtime accepts plugins.
* `DynamicFairness`: the two loops tick and the cache catches up (weak).  Strong
  fairness of `ApplyStep` alone: an update may be refused or time out any number of
  times, but not every time, since each pull reads the policy anew and users write
  finitely often.
* `PluginFairness`: weak fairness of the goroutines: scanner, loop, servers and
  handlers.  Nothing is assumed of the bus, of kubelet's restarts or of streams.
* `KaeFairSpec`: the informer delivers, and the work queue comes back to each pod
  with its backoff; conflicts and failing answers are not assumed to go on for ever.
* `DevkitFairness`: watcher, loops and commands go on (weak; the commands run under
  a deadline), and strong fairness of `Acquire`, since Go's `sync.Mutex` hands itself
  over to a goroutine that has waited for long.

Nothing is assumed of pods, of users, of files appearing or of faults.

Each property is paired in `PROJECT.json` with a slip in a modelled operator
that the run must detect, e.g. capacity checked on the pool but not on its
ancestors, an update accepted whatever version it was computed from, a predicate
that forgets deletions.  These operators are marked as slips or mutants where they
are defined and nothing else uses them.

Every type invariant is proved (section 4); TLC checked each on the instances above,
and the runs do not repeat them.

## 4. What is proved

`tlapm` checks, for every value of the constants (trees of pools, containers,
requests, pods, pairs, nodes, devices, machines, configurations, reports, and all
bounds):

| theorem | says |
|---|---|
| **topology-aware policy** | |
| `PolicyTypeCorrect` | `PolicySpec => []PolicyTypeOK` |
| `CapacityRespected`, `MemoryRespected` | `PolicySpec => []WithinCapacity`, `[]WithinMemory` |
| `BooksBalance` | `PolicySpec => []Ledger` |
| `SelectionIsTheCodes` | `PolicySpec => []SelectionIsSortAndScan` |
| `RebuildsRecover` | with `PoolsHaveCpus`, `PolicySpec => []RebuildRecovers` |
| **NRI agent** | |
| `TypeCorrect` | `Spec => []TypeOK` |
| `CapacityRespectedByAllocation` | `Spec => AllocationWithinCapacity`, late removal included |
| `NoGrantLeaks` | `Spec => []GrantHasRunningCtr`, late removal included |
| `GrantsMatchRequests`, `AgentBooksBalance` | `Spec => []GrantMatchesRequest`, `[]Ledger`, late removal included |
| `PinnedKeepsItsGrant` | with prompt removal, `Spec => []PinnedHasGrant` |
| `AgentImplementsPlacement` | with `PlacementHypotheses`, `Spec => ImplementsPlacement` |
| **containerd proxy** | |
| `ProxyTypeCorrect` | `Spec => []TypeOK` |
| `PinnedHoldsGrant`, `GrantsHaveOwners` | `Spec => []PinnedHasGrant`, `[]GrantHasOwner`, however hooks overlap |
| `SerialCapacityRespected`, `SerialBooksAreCovered` | `Spec => []SerialWithinCapacity`, `[]SerialBooksCover` |
| **docker proxy, numa-aware policy** | |
| `TypeCorrect` | `Spec => []TypeOK` |
| `DockerCapacityRespected`, `DockerPinnedKeepsGrant` | `Spec => []WithinCapacity`, `[]PinnedHasGrant` |
| `NumaNodesFit` | with `NodesInARow`, `Spec => []NumaFits` |
| **sysfs discovery, topology builder** | |
| `TreesAreWellFormed`, `CpusArePooled` | `Spec => []PoolsFormTree`, `[]CpusFindTheirPools` |
| **pcore binding** | |
| `PcoreTypeCorrect` | `Spec => []TypeOK` |
| `NoPairTwice`, `NoChangeIsMissed`, `PairIsKept` | `Spec => []TargetsDistinct`, `[]ChangeIsPending`, `KeepsPair` |
| **QoS controller, dynamic control** | |
| `QosTypeCorrect` | `QosSpec => []TypeOK` |
| `SettledGroups`, `PodsSettle` | `QosSpec => []Settled`, `[]PodSettled` |
| `NoDeletionForgotten` | `QosSpec => []DeletionNotForgotten` |
| `DynamicTypeCorrect`, `NoEditIsLost` | `DynamicSpec => []DynamicTypeOK`, `NoEditLost` |
| **KAE** | |
| `PluginTypeCorrect`, `NoUpdateIsLost` | `PluginSpec => []PluginTypeOK`, `[]NoUpdateLost` |
| `KaeQosTypeCorrect`, `NoQosLeaks` | `KaeSpec => []QosTypeOK`, `[]NoLeakedQos` |
| **DevKit collectors** | |
| `LogIsTrue`, `SuccessIsKept` | `DevkitSpec => []LogTellsState`, `SuccessTimeKept` |
| `ScopesAreCompared`, `PublishedIsOfScope` | `DevkitSpec => []ScopeCheckIsExact`, `[]PublishedFitsScope` |
| `TreesAreFiled`, `SeriesAreDistinct` | `DevkitSpec => []NodesUnderTheirParents`, `[]SeriesDistinct` |

With these, every invariant and every action property that a passing run checks is a
theorem, and so is the refinement.  Only the six liveness properties are not.

**Assumptions.**  They are the named `ASSUME`s of the modules, which TLC evaluates on
every run.  `PathsLeadToRoot` and `PoolResources` are what the topology builder
produces: paths are chains that end in the root, pools with a CPU in common are on
one path, a child's CPUs are its parent's.  `discovery_trees` and
`TreesAreWellFormed` show that the builder makes such trees.  `MachineIsFinite`,
`PoolsAreNodeIDs`, `GpuFirstIsOption`, `NoGrantIsNoGrant`, `PolicyContainers`,
`RuntimeObjects`, `ProxyObjects`, `DockerObjects`, `NumaNodes` (the nodes have no CPU
in common), `PodsAreOrdered`, `PairsAreOrdered`, `FaultsAreBounded`, `QosAssumption`,
`DynamicAssumption`, `KaeAssumption`, `KaeQosAssumption`, `DevkitAssumption` and
`Machines` say that the constants have the shapes the modules name and the marker
values are none of the ordinary ones.  `ClustersInNodes` says that the kernel's
cluster lists are symmetric and stay within a node; section 5 says what the
builder does otherwise.

Four theorems have hypotheses of their own, because the code needs them:

* `PoolsHaveCpus` (`RebuildsRecover`).  A rebuild finds the deepest pool that covers
  the container's cpuset.  Below a pool without CPUs (a NUMA node that is memory
  only) the empty cpuset is no evidence of any pool.
* `PlacementHypotheses` (`AgentImplementsPlacement`): prompt removal, for section 5's
  reason; no pool below the root has all of the machine's CPUs, else the last resort
  and a placement are the same cpuset; pools of the same CPUs have the same memory,
  else a rebuild may charge the smaller one; an ordinary container asks for some
  CPU, else a rebuild books 2 milli-CPUs for nothing.
* `PromptRemoval` (`PinnedKeepsItsGrant`), see section 5.
* `NodesInARow` (`NumaNodesFit`).  The numa-aware policy recognizes a node's containers
  by CPU numbers in consecutive blocks of equal size; on other machines the count is
  wrong.

**Data.**  No recursion over data is left to TLC alone.  A sum over a finite set
takes its elements in the order the definition chooses, so the first lemmas say that
a sum changes by one term when the set does; induction over sets goes by taking the
least set for which a claim fails (`FiniteInduction!SmallestSet`, from the
well-foundedness of the natural numbers, with the claim as a set of sets and not as an
operator).  A fold over a sequence is unfolded from the definition of `FoldLeft` into
the function of its prefixes (`FoldAccumulates`), and claims about prefixes go by
induction on their length, again with the claim as a set (`InductionTo`).  Sorting is
a definition of the model (`SortedPools`, `SortedBy`) that puts each element at the
place given by how many come before it, which determines it (`Arranged`).

**Books.**  `BooksBalance` is inductive with the types and with finitely many grants
held: an allocation under a free id and the release of a held one change the sum of a
pool by what `Charge` and `Discharge` add or subtract on the same path, so neither
clamp ever acts.  `CapacityRespected` is inductive as it stands: an allocation charges
pools on one path, all of them below the root were checked against the same request,
and the grant's amount is the request's; `Discharge` never increases a counter
(`DischargeBound`).

**Selection.**  `Outranks` is a strict total order of the pools since the NodeID is
its last component (`sort.Slice` is not stable, so without it the choice would not be
determined).  Any arrangement of the candidates in that order gives a scan the same
result, by induction over the list: the pool kept after a prefix is the first of
greatest depth in it.  For the rebuild, a pool that is deeper and covers the same CPUs
would have had capacity and been preferred, so the deepest covering pool is the pool
of the grant; the amounts are arithmetic on shares and quota, at whose edges (2
shares, 1000 microseconds, rounding) the cases lie.

**NRI agent.**  `GrantInvariant` strengthens `GrantHasRunningCtr` with what makes the
release find its grant: one running instance per id, in a ready sandbox;
nothing held while the agent is down; all that is left to rebuild is in the
cache; and `GrantIsReleasable`, the instance of a grant and its sandbox are both
cached.  Without the last, `StopContainer` could miss the grant, which is how it
would leak.  `PinInvariant` adds, for prompt removal, that no dead predecessor
of a running container exists (its removal would release the wrong grant), that
every cpuset is the cpuset of some pool, and that during a rebuild a container is
still to be visited or already granted.  The refinement rests on three facts: every
grant is pinned and every pinned container has its grant once the agent is up, so
what `PinnedPlacement` sums over containers is what the supplies hold; pools with
equal CPUs are interchangeable for that sum; and a pool that the policy's filter
passes over is full for the abstract specification too.  A crash changes nothing that
`PinnedPlacement` can see, and a rebuild step only the grants.

**containerd proxy.**  `HookInvariant` says what each phase knows: which call it
belongs to (`CallPhase`), that a handler from `check` to `store` has a grant in hand,
and in `write` has read the counters it changes (`HookData`), that no two handlers or
running instances share an id (`LiveUnique`), and that a creation past `store` finds
its own grant stored (`GrantStored`).  The last two are what makes reading the grant
back safe without a lock: nobody else writes under that id.  `PinInvariant` and
`OwnerInvariant` extend it; the latter needs that a cached container's pod is
cached while it can be stopped (`PodIsCached`), else a stop would miss the grant.  For
`SerialWithinCapacity`, `SerialInvariant` says that as long as hooks have not
overlapped at most one is active, that what it has read is what the pool has
(`SeenIsCurrent`), and that the pools it has yet to charge have room (`RoomLeft`).
`BooksInvariant` adds to each pool's grants the part of the one active hook that is
charged and not stored, or released and not deleted.

**docker proxy.**  The mutex makes each request one step.  `CacheInvariant` says that
of one id at most one container lives, and that beside it the cache has no instance of
that id but one that never started, which is not stopped (`NoStaleEntry`): `CleanCache`
has seen to it before the create.  So a late stop releases only what no living
container holds.  For the numa-aware policy, `LiveIsCached`: as long as
nothing has failed, what the hook adds up covers everything that runs.  The step from
there is arithmetic: shares are whole numbers and rounding takes less than one share
off a request, so what passes the check fits in shares too; only 2 shares, which
count as no request, come on top.

**Discovery.**  `TreeInvariant` says after each pass what the next one finds,
whichever of two CPUs wrote a field last, and what the validation has excluded.
The numbers of the pools are ranks, and ranks of distinct elements are distinct and
leave no gap (`Ranks`).

**pcore binding.**  `PassInvariant` adds to the types that a pod being dealt
with has a target (`TargetChosen`), that only pods before the next one have
targets (`TargetsInOrder`), and that a pod whose pair is not its target lost it to
an earlier pod (`LeavesToEarlier`); the last is what links `KeepsPair`'s write to the
choice made steps before.  Nobody but the loop ever puts a pair into a cpuset file.

**QoS controller.**  `HistoryInvariant` says how the three views of the object relate:
the cached copy, each version on its way and the object follow each other in time
(`Continues`: uid and generation only grow, one generation has one specification,
a deletion is not taken back), and the last version on the way is the object.  From
it, an event the predicate drops changes no specification unless the object was
replaced, so `WorkOf` is inductive: with nothing queued, the group is the one the
cached copy asks for, or the reconcile under way works from the same specification.
`PodOf` is the same for the pod.  For the deletion the invariant is `Attended`: as
long as the object has the finalizer, some instance has work queued or under way, or
has yet to be told.  It holds because whoever adds the finalizer does not know of a
deletion (`FinalizerIsAttended`), and an instance stops attending only by removing
it (`AttendsStep`).

**Dynamic control.**  `VersionsTell`: of two copies with one resource version the
contents are equal, so an accepted update was computed from what it replaces.  What
it sends is `Serialized` of that, and the theorem says so: zeros are the only loss.

**KAE.**  For the device plugin, `UpdateInvariant` says for each type where
what the loop has leads (`Leads`): to the devices of its operation for that type, or,
without one, to those in the server's channel or with the server.  That is the last
tree when the scanner offers nothing, and otherwise what the offered update starts
from; operations fit the map of servers, one per type (`WorkFits`).  For
the qos controller `HistoryOf` orders the versions of a pod as above, and `Covers`
says of every written device that some pod with a finalizer owes its restoration, and
that the reconciler remembers this device for it, or nothing.

**DevKit collectors.**  `LogInvariant` relates the last line, the remembered failure
and parameters to the phase of a round; `ScopeInvariant` says that a round's
arguments stay those it compared with, whatever becomes of the configuration.  The
comparison is exact because canonical selectors are: merging sorted intervals covers
the same CPUs and leaves gaps between the results (`Apart`), and lists of intervals
apart from each other that cover the same CPUs are equal (`ApartUnique`); increasing
sequences of process numbers with the same elements are equal (`IncreasingUnique`).
`SelectorInvariant` carries the shape of the selectors from the ConfigMap to the
arguments of a round.  For the reports, `TreesAreFiled` follows the stack of the
top-down parser row by row: it holds the ancestors of the next row, and no other.

Only model-checked: `Converges`, `ThrottlesToFloor`, `AgentLearnsPods`,
`KubeletConverges`, `QosConverges` and `ConfigTakesEffect`.  They are liveness
properties under fairness, which with ENABLED is out of the prover's reach.

## 5. What the code does and what is said of it

A disagreement with the documentation, shown by a run:

* `nri_late_removal`: removing a dead instance of a restarted container runs the
  release for its id, which by then belongs to the instance that runs.  Its capacity
  is handed out again while it stays confined there.  This is why
  `PinnedHasGrant` and `ImplementsPlacement` are checked with prompt removal only;
  `GrantHasRunningCtr` and `AllocationWithinCapacity` hold, and are proved, in any case.

Seen while modelling, without a run of their own.  The properties are stated so that
they leave room for exactly these.

kunpeng-tap:

* `pool_sorter.go:95` says sorting by limit ensures that the selected node can
  accommodate it.  The scan over the sorted list keeps the deepest pool with
  capacity by *request* (`pool_filter.go:204`), so a deeper pool that cannot take
  the limit wins over a shallower one that can.
* `state_rebuild.go:273` says containers whose cpuset spans the machine occupy no
  capacity after a rebuild; the search includes the root pool, which covers them.
* `cpu.shares` of 2, kubelet's value for "no CPU request", is zero to the create
  path (`cache/utils.go:58`) and 2 milli-CPUs to the rebuild
  (`state_rebuild.go:105`).  The limit of a Guaranteed container is its rounded
  request to the create path (`cache/utils.go:131`) and is rebuilt from its quota
  (`state_rebuild.go:115`): 1499 milli-CPUs are 1498 before and 1499 after a restart,
  below 10 milli-CPUs, where the quota has a minimum, the gap reaches 10, and where
  kubelet runs with `--cpu-cfs-quota=false` the rebuilt limit is 0.
* numa-aware policy: what a node has left is computed from unrounded shares
  (`cache.go:702`), while the request that is added is rounded.  51 containers that
  each ask for 20 milli-CPUs (20 shares, 19.5 milli-CPUs) pass the check for a node of
  one CPU and together ask for 1020.  Containers without a CFS period are not counted
  at all (`cache.go:720`).  In containerd mode two creations may be given the same
  least used node.
* containerd proxy: two creations can both pass the capacity check before either is
  charged, and together take a pool over its CPUs (hence `SerialWithinCapacity`).
  `RemoveContainer` is passed through, so the entry of a container that exited by
  itself stays in the cache, and with it its grant.  The hook that releases a grant
  runs before containerd is asked to stop the container (`runtime.go:114`); for
  that time, and for good if the stop fails, its CPUs are free on the books.
* docker proxy: after a restart the proxy does not come up while a container that can
  be inspected is running; reloaded pods get their docker ID for a UID and no
  namespace, so a later instance of one of their containers is booked under another
  id and kube-system containers are treated as ordinary; a failed stop whose status the
  code takes for 204 releases the grant of a container that runs on; a refused create leaves an
  entry under the empty ID.
* `RefreshPods` and `RefreshContainers` (`cache.go:535`) hold the cache's mutex and
  call functions that take it again; nothing calls them.
* discovery: an offline CPU keeps package 0 and die 0, so an offline CPU of the
  second socket makes the validation refuse the machine, and one of the first is
  counted among the pool's CPUs.  A node without CPUs goes to package 0, and to a nil
  pointer where no package has that number.  One offline CPU disables clusters.  A
  cluster that spans nodes is not noticed.
* pcore binding: of two pods on one pair the later is to move; when no pair is free
  (`agent.go:225`) it is left where it is, and the two share the pair for as long as
  both live.  The design (line 24) says eligible pods must not converge to one pair,
  and accepts (line 157) that surplus pods do not converge.

The controllers:

* QoS controller: all nodes share one finalizer, so a deletion is complete when the
  first node has cleaned up; a node that reconciles later finds nothing and keeps its
  group.  A list after a broken watch can show a policy deleted and created anew as
  one update of the same generation, which is not reconciled (`missed`).  A group
  removed and made again is empty, and the pods that were in it are not bound again
  (`dropped`).  A level that changes while the selector leaves the node out is not
  set when the selector takes the node in again with the same level (`unnoticed`,
  `pod_binding_reconciler.go:164`); four writes and no fault suffice.
* dynamic control: `hdl`, `pri`, `mb.max` and `l3.max` may be 0
  (`qospolicy_types.go:62-109`), but an update through the typed client drops zeros
  (`omitempty`) and the API server puts in 1, 3 and 100: any dynamic update undoes a
  user's explicit 0, though no version is in conflict.  Limits are never raised again.
  A policy with CPU level 1 cannot go
  to -1: the CRD refuses the update, and with it the limits for the other reasons.
* KAE device plugin (`Astray`): a server that the manager has forgotten goes on serving
  under its socket; an update that a broken handler took closes a channel that is
  closed already; a server whose socket is removed before it watches the file misses
  it.  The goroutine of a new server reads the map that the loop writes
  (`manager.go:117`), and may find nil.  Devices are numbered through all types, so a
  type that comes or goes renames those of later types.
* KAE qos: with `List` the entry of a pod that has ended stays, and its late release
  rewrites a device that another pod holds by now.  A deleted pod that kubelet
  no longer lists, and that the reconciler has forgotten by a restart, is retried for
  ever where no `Get` answers.
* DevKit collectors: deleting the ConfigMap keeps the last good configuration until a
  restart, which falls back to the whole system.  A failure whose stage keeps changing
  is logged each time; after a change of arguments no recovery is logged.  The failure
  stage of argument metadata and the failing compare-and-swap cannot be reached.
  `exclude[]` naming all collectors serves all of them
  (`cmd/kunpeng-perf-monitor/main.go:100`).

## 6. What is not modelled

* **Reporting**: Prometheus gauges, the status server, log output (except the DevKit
  collectors' throttled lines), the topology metrics.
* **PMU, MPAM and PSI collectors**, `kperf` and `sym`: each scrape reads counters and
  turns them into metrics; there is no state between scrapes, and the packages wrap a
  C library.
* **Webhook**: a mutation of one request, without state.
* **Without a caller or an effect**: the cache's `Save`/`Restore` and `Refresh*`, the
  NRI `UpdateContainer` event and docker's update (no policy reacts), isolated CPUs
  (`AllocateCPU` takes shared CPUs only), the DevKit cross-check of memory totals,
  which only warns.
* **Pure answers**: KAE's `Allocate`, CRI and docker calls that are passed through.
* **Parsing of files**: device annotations, cpuset strings, sysfs lists, cgroup paths.
  A cpuset is a set, a request its amounts; the conversions that lose something are
  kept (`Requirements`), and the DevKit texts are modelled down to rows and cells.
* **Taken as constant**: the labels of a node while the QoS controller runs (it reads
  them at each reconcile, `qospolicy_reconciler.go:92`, but no event follows a change,
  so a group may outlive the label until the next event); the annotations and the
  device of a running pod in `KaeQos`.
* **Coarser than the code**: the DevKit collectors' failures (the stage `parse` is
  split into scope and report, each with one summary); in the containerd proxy and
  the KAE plugin the points that section 2 names.  `Launch` starts the server it was
  started for, although the goroutine looks it up by type (`manager.go:117`) and,
  after a removal and an addition in quick succession, finds the newer one.  A CPU
  whose cluster list is empty or unreadable as a list, which the kernel does not
  write, would be left out of the clusters (`cluster.go:131`).
* **Reduced**: one policy name and one labelled pod per node in `QosController`, since
  the reconcilers keep nothing across names; labelling of offline groups
  (`pod_binding_reconciler.go` 202-237); caches, frequencies and memory in sysfs
  discovery; GPUs in the tree builder; dry-run of the pcore binding.
* Generated code (deep copies, protobuf), manifests and flag parsing.

`PROJECT.json` gives the status and the reason for each component.

## 7. Plan

All components that keep state are modelled, and all safety properties of the runs
are proved.  What is left is to prove more than the runs can ask:

1. Safety parts of the liveness properties: what a step never undoes on the way to
   `Converges`, `ThrottlesToFloor` and `KubeletConverges` (a measure that only the
   bounded environment raises), as action properties.
2. `AgentImplementsPlacement` with weaker hypotheses: a refinement mapping that treats
   a container confined to a pool with all of the machine's CPUs as either, and one
   that counts the 2 milli-CPUs of a rebuilt grant.
3. `RebuildsRecover` for whole states: after a crash and a rebuild the supplies are
   those before the crash, on the machines and for the containers of
   `PlacementHypotheses`.
4. An abstract specification of the device plugin (kubelet is told the devices of some
   scan, never an older one than before) and of the DevKit collectors (a scrape shows
   the outcome of a round), with refinements by the detailed modules.
