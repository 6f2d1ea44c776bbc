---------------------------- MODULE DevkitReports ----------------------------
(***************************************************************************)
(* What the DevKit collectors of the performance monitor make of text: the  *)
(* CPU and PID selectors of the configuration, and the reports of the       *)
(* top-down and memory command.  Text is given as the sequences of elements, *)
(* rows and cells its lines hold; numbers other than the percentages of the  *)
(* top level decide nothing and are left out.                               *)
(***************************************************************************)
EXTENDS Integers, Sequences, FiniteSets, SequencesExt

CONSTANTS MaxCpu,        \* devkitMaxCPU: the highest possible CPU
          MaxPid,        \* devkitMaxPID: the kernel's pid_max
          MaxCpuElements, MaxPidElements  \* elements a selector may list

(***************************************************************************)
(* Selectors.  A CPU selector is a sequence of elements <<a, b>>, "a-b" or   *)
(* "a" (then b = a), in any order; a PID selector a sequence of numbers.     *)
(***************************************************************************)
Ascending(e) == IF e[1] > e[2] THEN <<e[2], e[1]>> ELSE e

StartsBefore(x, y) == x[1] < y[1] \/ (x[1] = y[1] /\ x[2] < y[2])

\* s sorted: the place of an element counts those that go before it, and of equal ones
\* those that stood before it.
SortedBy(s, Before(_, _)) ==
  LET first(i) == {j \in DOMAIN s : Before(s[j], s[i]) \/ (s[j] = s[i] /\ j =< i)}
  IN  [k \in DOMAIN s |-> s[CHOOSE i \in DOMAIN s : Cardinality(first(i)) = k]]

\* Mutant: an interval inside the last one cuts it short.
MergeCuttingShort(merged, x) ==
  IF merged # <<>> /\ x[1] =< Last(merged)[2] + 1
  THEN [merged EXCEPT ![Len(merged)] = <<@[1], x[2]>>]
  ELSE Append(merged, x)

\* Overlapping and adjacent intervals become one.
MergeInterval(merged, x) ==
  IF merged # <<>> /\ x[1] =< Last(merged)[2] + 1
  THEN IF x[2] > Last(merged)[2]
       THEN [merged EXCEPT ![Len(merged)] = <<@[1], x[2]>>]
       ELSE merged
  ELSE Append(merged, x)

CanonicalCpus(sel) ==
  FoldLeft(MergeInterval, <<>>,
           SortedBy([i \in DOMAIN sel |-> Ascending(sel[i])], StartsBefore))

\* Whoever gave a selector, it is read only within these limits.
ReadableCpus(sel) == Len(sel) \in 1..MaxCpuElements
ReadablePids(sel) == Len(sel) \in 1..MaxPidElements /\ \A i \in DOMAIN sel : sel[i] # 0

ValidCpus(sel) ==
  /\ ReadableCpus(sel)
  /\ \A i \in DOMAIN sel : sel[i][1] =< MaxCpu /\ sel[i][2] =< MaxCpu

KeepOnce(kept, p) == IF kept # <<>> /\ Last(kept) = p THEN kept ELSE Append(kept, p)

\* Sorted, and every repetition dropped.
CanonicalPids(sel) == FoldLeft(KeepOnce, <<>>, SortedBy(sel, <))

ValidPids(sel) ==
  /\ ReadablePids(sel)
  /\ \A i \in DOMAIN sel : sel[i] =< MaxPid

\* What a round observes: the machine, some CPUs or some processes.
System == [type |-> "system", sel |-> <<>>]

Readable(scope) ==
  CASE scope.type = "system" -> TRUE
    [] scope.type = "cpu" -> ReadableCpus(scope.sel)
    [] scope.type = "pid" -> ReadablePids(scope.sel)

ScopesEquivalent(requested, reported) ==
  /\ requested.type = reported.type
  /\ Readable(requested) /\ Readable(reported)
  /\ CASE requested.type = "system" -> TRUE
       [] requested.type = "cpu" -> CanonicalCpus(requested.sel) = CanonicalCpus(reported.sel)
       [] requested.type = "pid" -> CanonicalPids(requested.sel) = CanonicalPids(reported.sel)

\* Of several reports in one output the last counts; it needs a Command line
\* of its own.
HasReport(output) == output # <<>> /\ Last(output).command

(***************************************************************************)
(* The top-down report: a scope, a tree given by rows of name, level and     *)
(* percentage (in tenths), and a table of PMU events.                       *)
(***************************************************************************)
TopLevel == {"bad_speculation", "frontend_bound", "retiring", "backend_bound"}
RequiredPaths == {<<"backend_bound", "core_bound">>, <<"backend_bound", "memory_bound">>}

\* A row without a tree marker is of level 1; a marker's depth counts from 2.
TreeRow == [name : STRING, level : Nat \ {0}, value : Int]

EmptyTree == [stack |-> <<>>, nodes |-> <<>>, ok |-> TRUE]

PathsOf(nodes) == {nodes[i].path : i \in DOMAIN nodes}

\* Mutant: a sibling leaves the stack as it is.
AddRowOfSibling(tree, row) ==
  LET path == Append(SubSeq(tree.stack, 1, row.level - 1), row.name)
  IN  IF ~tree.ok \/ Len(tree.stack) < row.level - 1 \/ path \in PathsOf(tree.nodes)
      THEN [tree EXCEPT !.ok = FALSE]
      ELSE [stack |-> IF row.level = Len(tree.stack) THEN tree.stack ELSE path, ok |-> TRUE,
            nodes |-> Append(tree.nodes,
                        [path |-> path, level |-> row.level, value |-> row.value])]

\* One row: cut the stack back to the row's level and push its name.
AddRow(tree, row) ==
  LET path == Append(SubSeq(tree.stack, 1, row.level - 1), row.name)
  IN  IF ~tree.ok \/ Len(tree.stack) < row.level - 1 \/ path \in PathsOf(tree.nodes)
      THEN [tree EXCEPT !.ok = FALSE]
      ELSE [stack |-> path, ok |-> TRUE,
            nodes |-> Append(tree.nodes,
                        [path |-> path, level |-> row.level, value |-> row.value])]

TopValue(total, node) == IF node.level = 1 THEN total + node.value ELSE total

\* validateTopdownTree: the four top-level nodes share 100 percent, to within
\* half a percent, and the backend's two parts are there.
ValidTree(nodes) ==
  /\ {n.path[1] : n \in {m \in ToSet(nodes) : m.level = 1}} = TopLevel
  /\ FoldLeft(TopValue, 0, nodes) \in 995..1005
  /\ RequiredPaths \subseteq PathsOf(nodes)

ParsedTree(rows) == FoldLeft(AddRow, EmptyTree, rows)

ValidEvents(pmu) == pmu # <<>> /\ IsInjective(pmu)

ValidTopdown(report) ==
  /\ report.summary
  /\ LET tree == ParsedTree(report.tree) IN tree.ok /\ ValidTree(tree.nodes)
  /\ ValidEvents(report.pmu)

(***************************************************************************)
(* The memory report: five tables, each keyed by its first columns.         *)
(***************************************************************************)
\* The cells of a table under the given column labels: what each is of, and which of
\* its values are not "N/A".
CellsOf(rows, labels) ==
  FoldLeft(LAMBDA cells, row :
             cells \o [c \in DOMAIN labels |-> [key |-> <<row.key, labels[c]>>, shown |-> row.cells[c]]],
           <<>>, rows)

KeysOf(cells) == [i \in DOMAIN cells |-> cells[i].key]

\* Mutant: a cell given twice is let through.
ValidCellsRepeated(rows, labels) ==
  /\ \A r \in DOMAIN rows : Len(rows[r].cells) = Len(labels)
  /\ CellsOf(rows, labels) # <<>>

\* A table of cells: no row is short or long, no cell given twice, some cell.
ValidCells(rows, labels) ==
  /\ \A r \in DOMAIN rows : Len(rows[r].cells) = Len(labels)
  /\ IsInjective(KeysOf(CellsOf(rows, labels)))
  /\ CellsOf(rows, labels) # <<>>

\* A table of which certain rows must be there, and none twice.
ValidRows(rows, required) == IsInjective(rows) /\ required \subseteq ToSet(rows)

ValidCacheMiss(report) == ValidRows(report.cacheMiss, {"l1d", "l1i", "l2d", "l2i"})
ValidDdrSystem(report) == ValidRows(report.ddrSystem, {"ddrc_read", "ddrc_write"})
ValidAccess(report) == ValidCells(report.access, report.components)
ValidL3(report) == IsInjective(report.l3) /\ report.l3 # <<>>
ValidDdrc(report) == ValidCells(report.ddrc, report.controllers)

ValidMemory(report) ==
  /\ ValidCacheMiss(report) /\ ValidDdrSystem(report) /\ ValidAccess(report)
  /\ ValidL3(report) /\ ValidDdrc(report)

\* What selectors and the lines of a report are read as.
CpuSelector == Seq(Nat \X Nat)
PidSelector == Seq(Nat)

ScopeShape(scope) ==
  /\ scope.type \in {"system", "cpu", "pid"}
  /\ scope.type = "cpu" => scope.sel \in CpuSelector
  /\ scope.type = "pid" => scope.sel \in PidSelector

TopdownShape(report) ==
  /\ ScopeShape(report.scope)
  /\ report.tree \in Seq(TreeRow) /\ report.pmu \in Seq(STRING)

MemoryShape(report) ==
  /\ {report.cacheMiss, report.ddrSystem, report.components, report.controllers} \subseteq Seq(STRING)
  /\ {report.access, report.ddrc}
       \subseteq Seq([key : STRING, cells : Seq(SUBSET {"bandwidth", "hit"})])
  /\ report.l3 \in Seq(STRING \X STRING)

(***************************************************************************)
(* What a scrape makes of a parsed report: a metric is its name and labels.  *)
(***************************************************************************)
Named(name, keys) == [i \in DOMAIN keys |-> <<name, keys[i]>>]

TopdownMetrics(report) ==
  LET nodes == ParsedTree(report.tree).nodes
  IN  <<<<"cycles">>, <<"instructions">>, <<"ipc_ratio">>>>
      \o Named("bound_percent", [i \in DOMAIN nodes |-> nodes[i].path])
      \o Named("pmu_event_count_value", report.pmu)

\* A bandwidth or hit rate the report marks "N/A" is not published.
Shown(part, cells) ==
  FoldLeft(LAMBDA keys, cell : IF part \in cell.shown THEN Append(keys, cell.key) ELSE keys,
           <<>>, cells)

MemoryMetrics(report) ==
  LET access == CellsOf(report.access, report.components)
  IN  Named("cache_miss", report.cacheMiss)
      \o Named("ddr_system_bandwidth", report.ddrSystem)
      \o Named("access_bandwidth", Shown("bandwidth", access))
      \o Named("access_hit", Shown("hit", access))
      \o Named("l3_read", report.l3)
      \o Named("ddrc_bandwidth", KeysOf(CellsOf(report.ddrc, report.controllers)))
==============================================================================
