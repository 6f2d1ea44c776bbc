------------------------- MODULE MCDevkitCollectors -------------------------
(***************************************************************************)
(* Two valid configurations and one that is refused; reports of every scope, *)
(* in another notation than the arguments, and reports broken in one way     *)
(* each.                                                                    *)
(***************************************************************************)
EXTENDS DevkitCollectors

Config(topCpu, topPid, memCpu, duration, period) ==
  [topdown |-> [cpu |-> topCpu, pid |-> topPid, duration |-> Missing],
   memory |-> [cpu |-> memCpu, duration |-> duration, period |-> period]]

MCRawConfigs ==
  {Config(<<<<2, 0>>, <<1, 1>>>>, <<>>, <<>>, 1, Missing),
   Config(<<>>, <<7, 3, 7>>, <<<<0, 0>>>>, Missing, 100),
   Config(<<>>, <<>>, <<>>, 1, 1000)}

Row(name, level, value) == [name |-> name, level |-> level, value |-> value]

Tree == <<Row("retiring", 1, 300), Row("bad_speculation", 1, 100),
          Row("frontend_bound", 1, 200), Row("fetch", 2, 100),
          Row("backend_bound", 1, 401), Row("core_bound", 2, 200),
          Row("memory_bound", 2, 200), Row("l1_bound", 3, 100)>>

Topdown(type, sel, tree) ==
  [command |-> TRUE, scope |-> [type |-> type, sel |-> sel], summary |-> TRUE,
   tree |-> tree, pmu |-> <<"r11", "r8">>]

GoodTopdown == Topdown("system", <<>>, Tree)

TopdownOutputs ==
  {<<>>, <<GoodTopdown>>, <<[GoodTopdown EXCEPT !.command = FALSE]>>,
   <<GoodTopdown, Topdown("cpu", <<<<0, 1>>, <<2, 2>>>>, Tree)>>,
   <<Topdown("cpu", <<<<0, 1>>>>, Tree)>>,
   <<Topdown("pid", <<3, 7>>, Tree)>>,
   <<Topdown("pid", <<3, 7, 3, 7>>, Tree)>>,
   <<Topdown("system", <<>>, Append(Tree, Row("core_bound", 2, 100)))>>,
   <<Topdown("system", <<>>, Tail(Tree))>>,
   <<Topdown("system", <<>>, <<Row("fetch", 2, 100)>> \o Tree)>>}

Cells == <<{"bandwidth", "hit"}, {"hit"}>>

GoodMemory ==
  [command |-> TRUE,
   cacheMiss |-> <<"l1d", "l1i", "l2d", "l2i">>,
   ddrSystem |-> <<"ddrc_write", "ddrc_read">>,
   components |-> <<"l1d", "tlb">>,
   access |-> <<[key |-> "0", cells |-> Cells], [key |-> "1", cells |-> Cells]>>,
   l3 |-> <<<<"0", "all">>, <<"0", "1">>>>,
   controllers |-> <<"0", "total">>,
   ddrc |-> <<[key |-> "0", cells |-> <<{}, {}>>]>>]

MemoryOutputs ==
  {<<GoodMemory>>,
   <<[GoodMemory EXCEPT !.access = <<@[1], @[1]>>]>>,
   <<[GoodMemory EXCEPT !.ddrSystem = Tail(@)]>>,
   <<[GoodMemory EXCEPT !.controllers = Tail(@)]>>}

MCOutputs == [topdown |-> TopdownOutputs, memory |-> MemoryOutputs]
==============================================================================
