------------------------------ MODULE MCSamples ------------------------------
(* A model-checking instance of ProfileOutput: three functions, one of     *)
(* them internal, and the two markers compete for three frames, an arena   *)
(* that may run out first and a trie of five nodes, with hashes that       *)
(* collide and wrap.                                                       *)
EXTENDS ProfileOutput

MCFunctions == {"f", "g", "h"}
MCChains == {<<>>, <<NoFunction>>, <<"f">>, <<"g">>, <<"h">>, <<"g", "f">>,
             <<"f", NoFunction, "f">>, <<"g", "f", NoFunction>>,
             <<"f", "g", "f">>, <<"h", "g", "f">>}
MCIdentities == MCFunctions \cup {EngineFrame, TruncatedFrame}
MCNameCells == [i \in MCIdentities |-> IF i \in MCFunctions THEN 1 ELSE 2]
MCFileCells == [i \in MCIdentities |-> IF i = "f" THEN 1 ELSE IF i = "g" THEN 2 ELSE 0]
MCFrameHash == [i \in MCIdentities |-> IF i \in {EngineFrame, "h"} THEN 0 ELSE 7]
MCEdgeHash == [e \in (1 .. 5) \X (1 .. 3) |-> 14 + ((e[1] + e[2]) % 3)]
=============================================================================
