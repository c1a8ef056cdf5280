--------------------------- MODULE AgentLifecycle ---------------------------
(***************************************************************************)
(* What a pool of subagents promises to whoever waits on it: an agent id   *)
(* is used for one run, the run settles once, and a settled run keeps its  *)
(* verdict.  SubagentManager (the native tools) is shown to implement it.  *)
(***************************************************************************)
CONSTANT Agents

VARIABLE status

Settled == {"completed", "failed"}

TypeOK == status \in [Agents -> {"absent", "running"} \cup Settled]

Init == status = [a \in Agents |-> "absent"]

(* A new id starts its only run. *)
Start(a) ==
  /\ status[a] = "absent"
  /\ status' = [status EXCEPT ![a] = "running"]

(* The run settles, one way or the other. *)
Settle(a) ==
  /\ status[a] = "running"
  /\ \E verdict \in Settled : status' = [status EXCEPT ![a] = verdict]

Next == \E a \in Agents : Start(a) \/ Settle(a)

Spec == Init /\ [][Next]_status
=============================================================================
