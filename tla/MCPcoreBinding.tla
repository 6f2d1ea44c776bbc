------------------------------ MODULE MCPcoreBinding ------------------------------
(***************************************************************************)
(* Small instances of PcoreBinding.                                        *)
(***************************************************************************)
EXTENDS PcoreBinding

TwoPairs == {1, 2}
ThreePods == {1, 2, 3}
OddPods == {1, 3}
===================================================================================
