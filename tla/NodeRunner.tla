------------------------------ MODULE NodeRunner ------------------------------
(***************************************************************************)
(* The pi-ai agents of a workflow (src/executor/node-runner.ts): agents of  *)
(* one batch run at the same time, each in a session of its own, under one  *)
(* abort signal.  While an agent of an anthropic model works, the process   *)
(* environment holds the workflow's API key in place of the user's          *)
(* credentials; each agent saves what it finds and restores that.  A tool   *)
(* call outside the activity's native tool scope aborts the session and     *)
(* fails the agent.                                                         *)
(*                                                                         *)
(* Covered: overlapping agents, the abort signal at every point, sessions   *)
(* that fail or stop for any reason, calls in and out of scope.  Not        *)
(* covered: prompts, events, the paths and commands a scope is made of, and *)
(* the text the output variables are read from.                             *)
(***************************************************************************)
EXTENDS Naturals, Sequences, SequencesExt

CONSTANTS
  Agents,
  Keyed      \* the agents with an API key for an anthropic model

KeyedAssumption == Keyed \subseteq Agents

Values == {"user", "workflow", "unset"}
UserEnv == [key |-> "user", token |-> "user"]
AgentEnv == [key |-> "workflow", token |-> "unset"]

VARIABLES
  env,       \* ANTHROPIC_API_KEY and the two tokens of the process
  saved,     \* what each agent restores
  working,   \* the agents at work that changed the environment, in the order they began
  crossed,   \* whether one of them ended before another that began after it
  at,        \* where each agent is
  signal,    \* whether the workflow is interrupted
  violated,  \* agents that called a tool out of scope
  outcome,   \* how each agent ended
  late       \* agents that ended after the interrupt

vars == <<env, saved, working, crossed, at, signal, violated, outcome, late>>
envVars == <<env, saved, working, crossed>>

TypeOK ==
  /\ env \in [key : Values, token : Values] /\ saved \in [Agents -> [key : Values, token : Values]]
  /\ working \in Seq(Agents) /\ crossed \in BOOLEAN
  /\ at \in [Agents -> {"new", "creating", "prompting", "aborting", "over"}]
  /\ signal \in BOOLEAN /\ violated \subseteq Agents /\ late \subseteq Agents
  /\ outcome \in [Agents -> {"none", "outputs", "violation", "interrupted", "error"}]

Init ==
  /\ env = UserEnv /\ saved = [a \in Agents |-> UserEnv]
  /\ working = <<>> /\ crossed = FALSE
  /\ at = [a \in Agents |-> "new"] /\ signal = FALSE
  /\ violated = {} /\ late = {} /\ outcome = [a \in Agents |-> "none"]

Goto(a, where) == at' = [at EXCEPT ![a] = where]

Interrupt == /\ ~signal /\ signal' = TRUE
             /\ UNCHANGED <<envVars, at, violated, outcome, late>>

Begin(a) ==
  /\ at[a] = "new"
  /\ IF signal
     THEN /\ Goto(a, "over") /\ outcome' = [outcome EXCEPT ![a] = "interrupted"]
          /\ late' = late \cup {a}
          /\ UNCHANGED envVars
     ELSE /\ Goto(a, "creating")
          /\ IF a \in Keyed
             THEN /\ saved' = [saved EXCEPT ![a] = env] /\ env' = AgentEnv
                  /\ working' = Append(working, a) /\ UNCHANGED crossed
             ELSE UNCHANGED envVars
          /\ UNCHANGED <<outcome, late>>
  /\ UNCHANGED <<signal, violated>>

\* The session exists and listens to the signal from now on: one that fired
\* before is not heard until the prompt has ended.
SessionReady(a) ==
  /\ at[a] = "creating" /\ Goto(a, "prompting")
  /\ UNCHANGED <<envVars, signal, violated, outcome, late>>

\* Out of scope: the tool throws, and its end aborts the session.
ToolCallOutOfScope(a) ==
  /\ at[a] \in {"prompting", "aborting"}
  /\ violated' = violated \cup {a} /\ Goto(a, "aborting")
  /\ UNCHANGED <<envVars, signal, outcome, late>>

HearInterrupt(a) ==
  /\ at[a] = "prompting" /\ signal /\ Goto(a, "aborting")
  /\ UNCHANGED <<envVars, signal, violated, outcome, late>>

\* The agent was the i-th of those at work.
Stops(a, i) ==
  /\ working[i] = a /\ working' = RemoveAt(working, i)
  /\ crossed' = (crossed \/ i < Len(working))

Restore_KeyOnly(a) ==
  /\ IF a \in Keyed
     THEN env' = [env EXCEPT !.key = saved[a].key] /\ \E i \in DOMAIN working : Stops(a, i)
     ELSE UNCHANGED <<env, working, crossed>>
  /\ UNCHANGED saved
Restore(a) ==
  /\ IF a \in Keyed
     THEN env' = saved[a] /\ \E i \in DOMAIN working : Stops(a, i)
     ELSE UNCHANGED <<env, working, crossed>>
  /\ UNCHANGED saved

\* What the agent ends with, given whether its prompt threw or how its last
\* message stopped.  An aborted session may still have stopped by itself.
Verdict_TrustsAbort(a, stop) ==
  IF a \in violated THEN "violation"
  ELSE IF stop = "stop" THEN "outputs"
  ELSE IF signal THEN "interrupted" ELSE "error"
Verdict(a, stop) ==
  IF a \in violated THEN "violation"
  ELSE IF stop = "throws" THEN "error"
  ELSE IF signal THEN "interrupted"
  ELSE IF stop \in {"error", "aborted"} THEN "error" ELSE "outputs"

End(a, verdict) ==
  /\ Goto(a, "over") /\ outcome' = [outcome EXCEPT ![a] = verdict]
  /\ late' = IF signal THEN late \cup {a} ELSE late
  /\ Restore(a)
  /\ UNCHANGED <<signal, violated>>

PromptEnds(a) ==
  /\ at[a] \in {"prompting", "aborting"}
  /\ \E stop \in {"throws", "error", "aborted", "stop"} :
       /\ stop = "aborted" => at[a] = "aborting"
       /\ End(a, Verdict(a, stop))

CreateFails(a) == at[a] = "creating" /\ End(a, Verdict(a, "throws"))

Next == \/ Interrupt
        \/ \E a \in Agents : \/ Begin(a) \/ SessionReady(a) \/ CreateFails(a)
                             \/ ToolCallOutOfScope(a) \/ HearInterrupt(a) \/ PromptEnds(a)
Spec == Init /\ [][Next]_vars

----------------------------------------------------------------------------
(* Properties. *)

\* No outputs reach the workflow from an agent that left its tool scope, or that
\* ended after the workflow was interrupted, heard or not.
OutputsAreLegitimate ==
  \A a \in Agents : outcome[a] = "outputs" => a \notin violated \cup late

\* Agents that end in the reverse order of their beginnings leave the user's
\* environment, and while any works its key is the workflow's.  (Agents that
\* cross restore each other's: the user's credentials are lost for good.)
EnvironmentRestored ==
  crossed \/ env = (IF working = <<>> THEN UserEnv ELSE AgentEnv)
=============================================================================
