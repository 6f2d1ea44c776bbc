--------------------------- MODULE MCQosController ---------------------------
(***************************************************************************)
(* Two nodes, one of which carries the label some policies select, and       *)
(* policies that differ in selector, configuration and level.               *)
(***************************************************************************)
EXTENDS QosController

CONSTANTS n1, n2

MCNodeLabels == [n \in {n1, n2} |-> IF n = n1 THEN {"gold"} ELSE {}]

MCSpecs == {[selector |-> {}, config |-> "small", level |-> 0],
            [selector |-> {"gold"}, config |-> "large", level |-> 0],
            [selector |-> {}, config |-> "small", level |-> -1]}

==============================================================================
