--------------------------- MODULE MCSubagentHost ---------------------------
(* Two visits of the same activity and token with different inputs, as in a *)
(* retry loop; the first runs in the background, the second may not.        *)
EXTENDS SubagentHost

MCSite == [v \in Visits |-> "review"]
MCInput == [v \in Visits |-> v]
=============================================================================
