-------------------------- MODULE DevkitCollectors --------------------------
(***************************************************************************)
(* The two DevKit collectors of the performance monitor                     *)
(* (pkg/kunpeng-perf-monitor/collector/devkit_*.go).  Each has a loop of its *)
(* own that reads the configuration in force, runs the DevKit command behind *)
(* a lock both share, parses the report and publishes the outcome through    *)
(* one pointer, which scrapes read at any time.  A watcher replaces the      *)
(* configuration when the ConfigMap changes to something valid.  A time      *)
(* stamp matters only for being there, so it is a Boolean.                   *)
(***************************************************************************)
EXTENDS DevkitReports, FiniteSets

CONSTANTS RawConfigs,   \* contents the ConfigMap may be given
          Malformed,    \* content that is not strict YAML, or lacks the key
          Missing,      \* a field the YAML leaves out
          Outputs,      \* [collector -> what its command may print]
          None,
          MaxEdits,     \* bound: writes of the ConfigMap
          MaxRestarts   \* bound: restarts of the monitor

Collector == {"topdown", "memory"}

\* The stages at which a round fails.
Errors == {"cli_execution", "scope", "report"}

ASSUME DevkitAssumption ==
  /\ \A raw \in RawConfigs \ {Malformed} :
       /\ raw.topdown.cpu \in CpuSelector /\ raw.memory.cpu \in CpuSelector
       /\ raw.topdown.pid \in PidSelector
  /\ None \notin Errors /\ None \notin RawConfigs
  /\ \A k \in Collector : \A output \in Outputs[k] :
       HasReport(output) => Last(output) # None
  /\ \A output \in Outputs["topdown"] : HasReport(output) => TopdownShape(Last(output))
  /\ \A output \in Outputs["memory"] : HasReport(output) => MemoryShape(Last(output))
  /\ MaxEdits \in Nat /\ MaxRestarts \in Nat

VARIABLES configMap,  \* content of the ConfigMap, None when there is none
          watch,      \* contents the informer has still to deliver
          config,     \* DevkitConfigWatcher.config
          holder,     \* who holds the coordinator's mutex
          pc,         \* where each collector's loop is
          args,       \* the arguments of its round
          result,     \* what the round came to: the data parsed, or the error
          cache,      \* what a scrape reads
          logState,   \* devkitCollectionLogState: argument and failure fingerprints
          line,       \* the collector's latest INFO or ERROR line
          edits, restarts

apiVars == <<configMap, watch, edits>>
loopVars == <<pc, args, result, cache>>
logVars == <<logState, line>>
devkitVars == <<apiVars, config, holder, loopVars, logVars, restarts>>

(***************************************************************************)
(* The configuration                                                        *)
(***************************************************************************)
\* A field left out has a default; a value given must be legal.
Duration(d) == IF d = Missing THEN 3 ELSE d
Period(duration, p) ==
  IF p # Missing THEN p ELSE IF duration = 1 THEN 100 ELSE 1000

\* parseDevkitConfig accepts the content as a whole or not at all.
ValidConfig(raw) ==
  /\ raw # Malformed
  /\ Duration(raw.topdown.duration) \in 1..5
  /\ Duration(raw.memory.duration) \in 1..5
  /\ Period(Duration(raw.memory.duration), raw.memory.period) \in {100, 1000}
  /\ ~(Duration(raw.memory.duration) = 1 /\ raw.memory.period = 1000)
  /\ raw.topdown.cpu = <<>> \/ raw.topdown.pid = <<>>
  /\ raw.topdown.cpu # <<>> => ValidCpus(raw.topdown.cpu)
  /\ raw.topdown.pid # <<>> => ValidPids(raw.topdown.pid)
  /\ raw.memory.cpu # <<>> => ValidCpus(raw.memory.cpu)

CpuScope(sel) == IF sel = <<>> THEN System ELSE [type |-> "cpu", sel |-> sel]

\* What the commands are told.
TopdownArgs(t) ==
  [scope |-> IF t.pid # <<>> THEN [type |-> "pid", sel |-> t.pid] ELSE CpuScope(t.cpu),
   duration |-> Duration(t.duration), period |-> 0]

MemoryArgs(m) ==
  [scope |-> CpuScope(m.cpu), duration |-> Duration(m.duration),
   period |-> Period(Duration(m.duration), m.period)]

CommandArgs(raw) == [topdown |-> TopdownArgs(raw.topdown), memory |-> MemoryArgs(raw.memory)]

\* Before any ConfigMap is seen: the whole machine.
DefaultConfig ==
  [topdown |-> [scope |-> System, duration |-> 3, period |-> 0],
   memory |-> [scope |-> System, duration |-> 3, period |-> 1000]]

\* parseDevkitAttemptMetadata: the labels of everything the round publishes.
Attempt(a) == [scope |-> a.scope, period |-> a.period]

(***************************************************************************)
(* The process                                                              *)
(***************************************************************************)
Each(v) == [k \in Collector |-> v]
NoLog == [params |-> None, failure |-> None]

\* What the informer's first list finds.
Listed(content) == IF content = None THEN <<>> ELSE <<content>>

DevkitInit ==
  /\ configMap \in RawConfigs \cup {None}
  /\ watch = Listed(configMap)
  /\ config = DefaultConfig /\ holder = None
  /\ pc = Each("off") /\ args = Each(None) /\ result = Each(None)
  /\ cache = Each(None)
  /\ logState = Each(NoLog) /\ line = Each("none")
  /\ edits = 0 /\ restarts = 0

Restart ==
  /\ restarts < MaxRestarts
  /\ restarts' = restarts + 1
  /\ watch' = Listed(configMap)
  /\ config' = DefaultConfig /\ holder' = None
  /\ pc' = Each("off") /\ args' = Each(None) /\ result' = Each(None)
  /\ cache' = Each(None)
  /\ logState' = Each(NoLog) /\ line' = Each("none")
  /\ UNCHANGED <<configMap, edits>>

\* NewNodeCollector creates each enabled collector once and starts its loop;
\* the wait for the first list gives up after five seconds.
StartLoop(k) ==
  /\ pc[k] = "off"
  /\ pc' = [pc EXCEPT ![k] = "idle"]
  /\ UNCHANGED <<apiVars, config, holder, args, result, cache, logVars, restarts>>

(***************************************************************************)
(* The ConfigMap and its watcher                                            *)
(***************************************************************************)
EditConfigMap(content) ==
  /\ edits < MaxEdits
  /\ content # configMap
  /\ edits' = edits + 1
  /\ configMap' = content
  /\ watch' = Append(watch, content)
  /\ UNCHANGED <<config, holder, loopVars, logVars, restarts>>

\* onUpdate and onDelete: what is invalid or gone leaves the configuration in
\* force alone.
Observe ==
  /\ watch # <<>>
  /\ watch' = Tail(watch)
  /\ config' = IF Head(watch) # None /\ ValidConfig(Head(watch))
               THEN CommandArgs(Head(watch)) ELSE config
  /\ UNCHANGED <<configMap, edits, holder, loopVars, logVars, restarts>>

\* Mutant: a broken watch goes on from now without a list.
RelistFromNow ==
  /\ Len(watch) > 1
  /\ watch' = <<>>
  /\ UNCHANGED <<configMap, edits, config, holder, loopVars, logVars, restarts>>

\* The watch broke: the new list shows only where things stand.
Relist ==
  /\ Len(watch) > 1
  /\ watch' = <<configMap>>
  /\ UNCHANGED <<configMap, edits, config, holder, loopVars, logVars, restarts>>

(***************************************************************************)
(* One round: collectOnce                                                   *)
(***************************************************************************)
\* The arguments are fixed before the round queues for the mutex.
BeginRound(k) ==
  /\ pc[k] = "idle"
  /\ pc' = [pc EXCEPT ![k] = "waiting"]
  /\ args' = [args EXCEPT ![k] = config[k]]
  /\ UNCHANGED <<apiVars, config, holder, result, cache, logVars, restarts>>

\* Mutant: the old failure is remembered under the new arguments.
LogStartKeeping(k) ==
  /\ logState' = [logState EXCEPT ![k].params = args[k]]
  /\ line' = [line EXCEPT ![k] =
       IF args[k] = logState[k].params THEN @
       ELSE IF logState[k].params = None THEN "initialized" ELSE "changed"]

\* logState.start: new arguments are logged, and old failures forgotten.
LogStart(k) ==
  /\ logState' = [logState EXCEPT ![k] =
       IF args[k] = @.params THEN @ ELSE [params |-> args[k], failure |-> None]]
  /\ line' = [line EXCEPT ![k] =
       IF args[k] = logState[k].params THEN @
       ELSE IF logState[k].params = None THEN "initialized" ELSE "changed"]

\* coordinator.run: the mutex is taken and the command started.
Acquire(k) ==
  /\ pc[k] = "waiting"
  /\ holder = None
  /\ holder' = k
  /\ pc' = [pc EXCEPT ![k] = "running"]
  /\ LogStart(k)
  /\ UNCHANGED <<apiVars, config, args, result, cache, restarts>>

\* The parsers: why an output is refused, None when it is not.
ParseError(k, output) ==
  CASE ~HasReport(output) -> "report"
    [] HasReport(output) /\ k = "topdown" ->
         IF ~ScopesEquivalent(args[k].scope, Last(output).scope) THEN "scope"
         ELSE IF ValidTopdown(Last(output)) THEN None ELSE "report"
    [] HasReport(output) /\ k = "memory" ->
         IF ValidMemory(Last(output)) THEN None ELSE "report"

\* logState.finish: a failure is logged when it is new (or five minutes have
\* passed, which repeats the line), a recovery once.
LogFinish(k, error) ==
  /\ logState' = [logState EXCEPT ![k].failure = error]
  /\ line' = [line EXCEPT ![k] =
       IF error # None
       THEN IF error = logState[k].failure THEN @ ELSE error
       ELSE IF logState[k].failure # None THEN "recovered" ELSE @]

\* The deferred steps of run: the outcome is logged and the mutex released.
Finish(k, output, error) ==
  /\ pc[k] = "running"
  /\ pc' = [pc EXCEPT ![k] = "publish"]
  /\ result' = [result EXCEPT ![k] =
       [data |-> IF error = None THEN Last(output) ELSE None, error |-> error]]
  /\ LogFinish(k, error)
  /\ holder' = None
  /\ UNCHANGED <<apiVars, config, args, cache, restarts>>

\* The command exits with an error, or outlives its duration by five seconds
\* and is killed with its whole process group.
CommandFails(k) == Finish(k, <<>>, "cli_execution")

CommandPrints(k) == \E output \in Outputs[k] : Finish(k, output, ParseError(k, output))

\* Mutant: a failure starts from an empty cache.
FailureEntryFresh(k) == [labels |-> Attempt(args[k]), data |-> None, succeeded |-> FALSE]

\* storeFailure, markFailure: the last success outlives failures, data do not.
FailureEntry(k) ==
  [labels |-> Attempt(args[k]), data |-> None,
   succeeded |-> cache[k] # None /\ cache[k].succeeded]

\* Mutant: the labels come from the configuration now in force.
SuccessEntryLate(k) ==
  [labels |-> Attempt(config[k]), data |-> result[k].data, succeeded |-> TRUE]

\* The labels are those of the arguments the command was given.
SuccessEntry(k) ==
  [labels |-> Attempt(args[k]), data |-> result[k].data, succeeded |-> TRUE]

Publish(k) ==
  /\ pc[k] = "publish"
  /\ pc' = [pc EXCEPT ![k] = "idle"]
  /\ cache' = [cache EXCEPT ![k] =
       IF result[k].error = None THEN SuccessEntry(k) ELSE FailureEntry(k)]
  /\ result' = [result EXCEPT ![k] = None]
  /\ args' = [args EXCEPT ![k] = None]
  /\ UNCHANGED <<apiVars, config, holder, logVars, restarts>>

\* A scrape reads the pointer once; before the first round there is nothing.
Series(k) ==
  IF cache[k] = None THEN <<>>
  ELSE <<<<"collection_success">>>>
       \o IF cache[k].data = None THEN <<>>
          ELSE IF k = "topdown" THEN TopdownMetrics(cache[k].data)
          ELSE MemoryMetrics(cache[k].data)

Round(k) ==
  \/ StartLoop(k) \/ BeginRound(k) \/ Acquire(k)
  \/ CommandFails(k) \/ CommandPrints(k) \/ Publish(k)

DevkitNext ==
  \/ \E content \in RawConfigs \cup {None} : EditConfigMap(content)
  \/ Observe \/ Relist
  \/ \E k \in Collector : Round(k)
  \/ Restart

\* The loops tick, the command is killed if it does not end, the informer
\* delivers; sync.Mutex hands itself to a waiter that has waited long enough.
DevkitFairness ==
  /\ WF_devkitVars(Observe)
  /\ \A k \in Collector :
       /\ WF_devkitVars(StartLoop(k) \/ BeginRound(k))
       /\ SF_devkitVars(Acquire(k))
       /\ WF_devkitVars(CommandFails(k) \/ CommandPrints(k))
       /\ WF_devkitVars(Publish(k))

DevkitSpec == DevkitInit /\ [][DevkitNext]_devkitVars /\ DevkitFairness

(***************************************************************************)
(* Properties                                                               *)
(***************************************************************************)
\* The CPUs or processes a scope stands for.
Meaning(scope) ==
  [type |-> scope.type,
   set |-> CASE scope.type = "system" -> {}
             [] scope.type = "cpu" ->
                  UNION {Ascending(e)[1] .. Ascending(e)[2] : e \in ToSet(scope.sel)}
             [] scope.type = "pid" -> ToSet(scope.sel)]

\* Sorting and merging intervals decides what it should: a report is refused
\* for its scope exactly when it speaks of other CPUs or processes than the
\* arguments, however either side wrote them down (devkit_topdown_parser.go:108).
\* A report beyond the limits of a selector is never compared.
ScopeCheckIsExact ==
  pc["topdown"] = "running" =>
    \A output \in Outputs["topdown"] :
      HasReport(output) /\ Readable(Last(output).scope) =>
        (ParseError("topdown", output) = "scope"
         <=> Meaning(Last(output).scope) # Meaning(args["topdown"].scope))

\* Numbers are never published under a scope they do not describe, also when
\* the ConfigMap changes while the command runs or the round waits.
PublishedFitsScope ==
  LET c == cache["topdown"]
  IN  c # None /\ c.data # None => Meaning(c.data.scope) = Meaning(c.labels.scope)

\* A scrape gathers no metric twice, which the registry would refuse.
SeriesDistinct == \A k \in Collector : IsInjective(Series(k))

\* Each node of the published tree is filed under the row it belongs to: the
\* nearest one above it that is one level higher.
NodesUnderTheirParents ==
  LET c == cache["topdown"]
  IN  c # None /\ c.data # None =>
        LET rows == c.data.tree
            nodes == ParsedTree(rows).nodes
            Parent(i) == CHOOSE j \in 1..i-1 :
                           /\ rows[j].level = rows[i].level - 1
                           /\ \A l \in j+1..i-1 : rows[l].level # rows[j].level
        IN  \A i \in DOMAIN rows :
              nodes[i].path = IF rows[i].level = 1 THEN <<rows[i].name>>
                              ELSE Append(nodes[Parent(i)].path, rows[i].name)

\* The log tells how things stand although it is throttled: the latest line of
\* a collector is its failure, and the right one, exactly while its rounds fail
\* (a change of arguments in between makes the next failure new).
LogTellsState ==
  \A k \in Collector :
    /\ pc[k] = "publish" =>
         IF result[k].error = None THEN line[k] \notin Errors
         ELSE line[k] = result[k].error
    /\ pc[k] \in {"idle", "waiting"} /\ cache[k] # None =>
         (line[k] \in Errors <=> cache[k].data = None)

\* Once a collector has published the time of a success, failures never take
\* it back; only a restart does.
SuccessTimeKept ==
  [][\A k \in Collector :
       cache[k] # None /\ cache[k].succeeded /\ pc'[k] # "off"
       => cache'[k].succeeded]_devkitVars

\* A valid ConfigMap that stays comes to be what every collector publishes:
\* no edit is lost, and no failing or slow command keeps the other out.
ConfigTakesEffect ==
  <>[](configMap # None /\ ValidConfig(configMap) =>
         \A k \in Collector :
           cache[k] # None /\ cache[k].labels = Attempt(CommandArgs(configMap)[k]))
==============================================================================
