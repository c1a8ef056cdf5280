---------------------------- MODULE NativeSession ----------------------------
(***************************************************************************)
(* Workflow runs inside a native pi session: /run, /stop and the escape key *)
(* (src/cli/native/extension.ts, esc-scope.ts), a run from preparation to   *)
(* its end (native/runner.ts, cli/workflow-runner.ts), and the prompts it   *)
(* shows the user (native/renderer.ts, input.ts, ask.ts) for its human      *)
(* tasks and for agents that ask the planner through the global bridge      *)
(* (cli/graph-intercom-extension.ts).                                       *)
(*                                                                         *)
(* A batch of host work ends at its first rejection, so a run may be over   *)
(* while its agents live on: they still ask, and what they asked is still   *)
(* shown.  A prompt hears the run's signal if it is a human task's and the  *)
(* agent's own if it is an agent's.                                         *)
(*                                                                         *)
(* Covered: every order of runs, stops, escapes, asks, answers and signals. *)
(* Not covered: what preparation does (module Preflight) and execution      *)
(* (module HostLoop), the texts, and sessions without a user interface,     *)
(* where a prompt settles at once.                                          *)
(***************************************************************************)
EXTENDS Naturals, Sequences

CONSTANTS
  Prompts,
  HumanTasks,   \* the prompts asked by human tasks; agents ask the others
  Direct,       \* the human tasks that take free text only: a plain editor, no ask flow
  MaxRuns       \* bound: runs started

SessionAssumption ==
  HumanTasks \subseteq Prompts /\ Direct \subseteq HumanTasks /\ MaxRuns \in Nat

Runs == 1..MaxRuns
NoRun == 0

VARIABLES
  phase,       \* where each run is
  activeRun,   \* the run /stop and escape act on
  stoppedBy,   \* what aborted each run's signal
  bridge,      \* the run whose renderer agents reach
  prompt,      \* each prompt: where it is and the run whose renderer has it
  queue,       \* plannerInputQueue of each run's renderer
  busy,        \* plannerInputActive of each run's renderer
  overlays,    \* the prompts on screen
  scopes,      \* activeWorkflowUiEscScopes
  fired        \* the agents' prompts whose own signal has fired

vars == <<phase, activeRun, stoppedBy, bridge, prompt, queue, busy, overlays, scopes, fired>>
runVars == <<phase, activeRun, bridge>>
promptVars == <<prompt, queue, busy, overlays, scopes>>

TypeOK ==
  /\ phase \in [Runs -> {"none", "preparing", "executing", "over"}]
  /\ activeRun \in Runs \cup {NoRun} /\ bridge \in Runs \cup {NoRun}
  /\ stoppedBy \in [Runs -> {"nothing", "command", "escape"}]
  /\ prompt \in [Prompts -> [at : {"new", "queued", "shown", "answered", "rejected"},
                             run : Runs \cup {NoRun}]]
  /\ queue \in [Runs -> Seq(Prompts)] /\ busy \in [Runs -> BOOLEAN]
  /\ overlays \subseteq Prompts /\ scopes \in Nat /\ fired \subseteq Prompts

Init ==
  /\ phase = [r \in Runs |-> "none"] /\ activeRun = NoRun /\ bridge = NoRun
  /\ stoppedBy = [r \in Runs |-> "nothing"]
  /\ prompt = [p \in Prompts |-> [at |-> "new", run |-> NoRun]]
  /\ queue = [r \in Runs |-> <<>>] /\ busy = [r \in Runs |-> FALSE]
  /\ overlays = {} /\ scopes = 0 /\ fired = {}

----------------------------------------------------------------------------
(* Runs. *)

Fresh(r) == phase[r] = "none" /\ \A q \in 1..(r - 1) : phase[q] # "none"

StartRun(r) ==
  /\ Fresh(r) /\ activeRun = NoRun
  /\ phase' = [phase EXCEPT ![r] = "preparing"] /\ activeRun' = r
  /\ UNCHANGED <<bridge, stoppedBy, fired, promptVars>>

\* Preparation hears no signal; a stopped run goes on to execute.  A run with a
\* host fixture has no model, and no bridge.
Execute(r) ==
  /\ phase[r] = "preparing"
  /\ phase' = [phase EXCEPT ![r] = "executing"]
  /\ bridge' \in {r, NoRun}
  /\ UNCHANGED <<activeRun, stoppedBy, fired, promptVars>>

\* Completion, failure, interrupt, or a preflight that refuses the workflow.
\* The run's signal is not aborted and its prompts stay where they are.
EndRun(r) ==
  /\ phase[r] \in {"preparing", "executing"}
  /\ phase' = [phase EXCEPT ![r] = "over"]
  /\ activeRun' = NoRun
  /\ bridge' = IF phase[r] = "executing" THEN NoRun ELSE bridge
  /\ UNCHANGED <<stoppedBy, fired, promptVars>>

Stop(by) ==
  /\ activeRun # NoRun /\ stoppedBy[activeRun] = "nothing"
  /\ stoppedBy' = [stoppedBy EXCEPT ![activeRun] = by]
  /\ UNCHANGED <<runVars, fired, promptVars>>

StopCommand == Stop("command")
\* Escape goes to an overlay while a scope is open.
Escape == scopes = 0 /\ Stop("escape")

----------------------------------------------------------------------------
(* Prompts. *)

Settled(p) == prompt[p].at \in {"answered", "rejected"}
Aborted_NoRunSignal(p) == p \in fired
Aborted(p) == IF p \in HumanTasks THEN stoppedBy[prompt[p].run] # "nothing" ELSE p \in fired
Enqueue(p, r) ==
  /\ prompt' = [prompt EXCEPT ![p] = [at |-> "queued", run |-> r]]
  /\ queue' = [queue EXCEPT ![r] = Append(@, p)]

HumanAsks(p) ==
  /\ p \in HumanTasks /\ prompt[p].at = "new"
  /\ \E r \in Runs : phase[r] = "executing" /\ Enqueue(p, r)
  /\ UNCHANGED <<runVars, stoppedBy, fired, busy, overlays, scopes>>

\* An agent of a run that began, over or not, asks whoever holds the bridge now.
AgentAsks(p) ==
  /\ p \notin HumanTasks /\ prompt[p].at = "new"
  /\ \E r \in Runs : phase[r] \in {"executing", "over"}
  /\ IF bridge = NoRun
     THEN prompt' = [prompt EXCEPT ![p].at = "rejected"] /\ UNCHANGED queue
     ELSE Enqueue(p, bridge)
  /\ UNCHANGED <<runVars, stoppedBy, fired, busy, overlays, scopes>>

\* An ask flow for a human task whose interaction has no choices throws.
Unshowable(p) == Aborted(p) \/ p \in HumanTasks \ Direct

\* startNextPlannerInput.  What cannot be shown is rejected and the next one
\* tried.
ShowNext_KeepsRejected(r) ==
  /\ ~busy[r] /\ queue[r] # <<>>
  /\ queue' = [queue EXCEPT ![r] = Tail(@)]
  /\ busy' = [busy EXCEPT ![r] = TRUE]
  /\ LET p == Head(queue[r])
     IN \/ /\ Unshowable(p)
           /\ prompt' = [prompt EXCEPT ![p].at = "rejected"]
           /\ UNCHANGED <<overlays, scopes>>
        \/ /\ ~Aborted(p)
           /\ prompt' = [prompt EXCEPT ![p].at = "shown"]
           /\ overlays' = overlays \cup {p} /\ scopes' = scopes + 1
  /\ UNCHANGED <<runVars, stoppedBy, fired>>
ShowNext(r) ==
  /\ ~busy[r] /\ queue[r] # <<>>
  /\ queue' = [queue EXCEPT ![r] = Tail(@)]
  /\ LET p == Head(queue[r])
     IN \/ /\ Unshowable(p)
           /\ prompt' = [prompt EXCEPT ![p].at = "rejected"]
           /\ UNCHANGED <<busy, overlays, scopes>>
        \/ /\ ~Aborted(p)
           /\ prompt' = [prompt EXCEPT ![p].at = "shown"]
           /\ busy' = [busy EXCEPT ![r] = TRUE]
           /\ overlays' = overlays \cup {p} /\ scopes' = scopes + 1
  /\ UNCHANGED <<runVars, stoppedBy, fired>>

Leave_All == scopes' = 0
Leave == scopes' = IF scopes = 0 THEN 0 ELSE scopes - 1

\* The user answers or cancels what is on screen.  What an interrupt left there
\* settles nothing; an ask flow keeps its scope until it is closed.
Close(p) ==
  /\ p \in overlays
  /\ overlays' = overlays \ {p}
  /\ IF prompt[p].at = "shown"
     THEN /\ Leave
          /\ \E at \in {"answered", "rejected"} : prompt' = [prompt EXCEPT ![p].at = at]
          /\ busy' = [busy EXCEPT ![prompt[p].run] = FALSE]
     ELSE /\ IF p \in Direct THEN UNCHANGED scopes ELSE Leave
          /\ UNCHANGED <<prompt, busy>>
  /\ UNCHANGED <<runVars, stoppedBy, fired, queue>>

\* The interrupt wins the race with the overlay, which stays on screen.
Interrupt(p) ==
  /\ prompt[p].at = "shown" /\ Aborted(p)
  /\ prompt' = [prompt EXCEPT ![p].at = "rejected"]
  /\ busy' = [busy EXCEPT ![prompt[p].run] = FALSE]
  /\ IF p \in Direct THEN Leave ELSE UNCHANGED scopes
  /\ UNCHANGED <<runVars, stoppedBy, fired, queue, overlays>>

AgentAborted(p) ==
  /\ p \notin HumanTasks \cup fired /\ prompt[p].at \in {"queued", "shown"}
  /\ fired' = fired \cup {p}
  /\ UNCHANGED <<runVars, stoppedBy, promptVars>>

Next ==
  \/ \E r \in Runs : StartRun(r) \/ Execute(r) \/ EndRun(r) \/ ShowNext(r)
  \/ StopCommand \/ Escape
  \/ \E p \in Prompts : \/ HumanAsks(p) \/ AgentAsks(p)
                        \/ Close(p) \/ Interrupt(p) \/ AgentAborted(p)

\* A rejected human task ends its batch, and with it the run; a stopped run ends
\* at the next boundary if no human task is being waited for.
Of(r) == {p \in HumanTasks : prompt[p].run = r}
EndRunDue(r) ==
  /\ phase[r] = "executing"
  /\ \/ \E p \in Of(r) : prompt[p].at = "rejected"
     \/ stoppedBy[r] # "nothing" /\ \A p \in Of(r) : Settled(p)
  /\ EndRun(r)

Fairness ==
  /\ \A r \in Runs : WF_vars(Execute(r)) /\ WF_vars(EndRunDue(r)) /\ WF_vars(ShowNext(r))
  /\ \A p \in Prompts : WF_vars(Interrupt(p))
Spec == Init /\ [][Next]_vars /\ Fairness

----------------------------------------------------------------------------
(* Properties. *)

\* After /stop or escape the run ends without any help of the user, unless an
\* agent's prompt, whose own signal has not fired, is on screen in front of it.
StopEndsRun ==
  \A r \in Runs :
    (stoppedBy[r] # "nothing")
      ~> (phase[r] = "over" \/ \E p \in Prompts \ HumanTasks :
                                  prompt[p].at = "shown" /\ prompt[p].run = r /\ ~Aborted(p))

\* If the user closes whatever is on screen, every prompt asked is settled, those
\* that wait in the renderer of a run that is over included.
UserCloses == \A p \in Prompts : WF_vars(Close(p))
EveryPromptSettles ==
  UserCloses => \A p \in Prompts : (prompt[p].at = "queued") ~> Settled(p)

\* Escape never stops a run while a prompt that still waits for an answer is on
\* screen, however many renderers show one.
EscapeReachesPrompt ==
  [][\A r \in Runs : stoppedBy[r] # stoppedBy'[r] /\ stoppedBy'[r] = "escape"
       => \A p \in Prompts : prompt[p].at # "shown"]_vars
=============================================================================
