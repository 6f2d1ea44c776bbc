-------------------------- MODULE MCDynamicControl --------------------------
(***************************************************************************)
(* Two pods of this node, one online and one offline, and an online pod of   *)
(* another node; the agent reports single reasons, several, and an unknown   *)
(* code; the tuning steps are larger than the defaults, which only shortens  *)
(* the way to the floor of 1.  Users set limits to 0, leave the cache ways   *)
(* and the selector out, and raise the level.                               *)
(***************************************************************************)
EXTENDS DynamicControl

MCReports == {{0}, {4, 7}, {1, 3, 4}}

MCUserSpecs ==
  {[selector |-> "other", hdl |-> 1, pri |-> 3, mb |-> 60, ways |-> 2, l3max |-> 0,
    level |-> 0],
   [selector |-> "none", hdl |-> 0, pri |-> 0, mb |-> 0, ways |-> 0, l3max |-> 100,
    level |-> 0],
   [selector |-> "own", hdl |-> 1, pri |-> 3, mb |-> 30, ways |-> 1, l3max |-> 50,
    level |-> 1]}
==============================================================================
