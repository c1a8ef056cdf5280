---------------------------- MODULE MCInteraction ----------------------------
(***************************************************************************)
(* One pi-wendao process, seen in one of four roles: a native pi session    *)
(* that runs workflows, the pi-ai agents of a workflow, a session on the    *)
(* intercom, and a user of the reply tracker.  The role is chosen at the    *)
(* start; the other machines stay where they begin.                         *)
(***************************************************************************)
EXTENDS Naturals

CONSTANTS
  Prompts, HumanTasks, Direct, MaxRuns,
  Agents, Keyed,
  Asks, Sessions, Timeout, NoAsk, Anyone,
  Calls, Redeliveries, StoreErrors, Restarts, MaxTime,
  Deliveries, LastTick

\* Every ask comes from one session: replies to a session are ambiguous.
Sender == [a \in Asks |-> CHOOSE s \in Sessions : TRUE]

VARIABLES
  role,
  phase, activeRun, stoppedBy, bridge, prompt, queue, busy, overlays, scopes, fired,
  env, saved, working, crossed, at, signal, violated, outcome, late,
  tracker, now, record, call, delivered, answered, forgotten, errors, restarts,
  turnTracker, clock, asked, replied

Native == INSTANCE NativeSession
Runner == INSTANCE NodeRunner
Mail == INSTANCE Intercom
Turns == INSTANCE ReplyTurns

\* What the machines assume of their constants.
ASSUME MachinesAssumption ==
  /\ Native!SessionAssumption /\ Runner!KeyedAssumption
  /\ Mail!TrackerAssumption /\ Mail!IntercomAssumption /\ Turns!TurnsAssumption

nativeVars == <<phase, activeRun, stoppedBy, bridge, prompt, queue, busy, overlays, scopes, fired>>
runnerVars == <<env, saved, working, crossed, at, signal, violated, outcome, late>>
mailVars == <<tracker, now, record, call, delivered, answered, forgotten, errors, restarts>>
turnsVars == <<turnTracker, clock, asked, replied>>
vars == <<role, nativeVars, runnerVars, mailVars, turnsVars>>

Init ==
  /\ role \in {"native", "agents", "intercom", "turns"}
  /\ Native!Init /\ Runner!Init /\ Mail!Init /\ Turns!Init

NativeStep == role = "native" /\ Native!Next /\ UNCHANGED <<role, runnerVars, mailVars, turnsVars>>
RunnerStep == role = "agents" /\ Runner!Next /\ UNCHANGED <<role, nativeVars, mailVars, turnsVars>>
MailStep == role = "intercom" /\ Mail!Next /\ UNCHANGED <<role, nativeVars, runnerVars, turnsVars>>
TurnsStep == role = "turns" /\ Turns!Next /\ UNCHANGED <<role, nativeVars, runnerVars, mailVars>>

Next == NativeStep \/ RunnerStep \/ MailStep \/ TurnsStep
Spec == Init /\ [][Next]_vars /\ Native!Fairness

\* The machines' own properties, of the process in any role; each is stated at
\* its definition.
TypeOK == Native!TypeOK /\ Runner!TypeOK /\ Mail!TypeOK /\ Turns!TypeOK

\* A run that was stopped ends by itself (src/cli/native/runner.ts).
StopEndsRun == Native!StopEndsRun
\* No prompt waits for ever if the user closes what is on screen
\* (src/cli/native/renderer.ts).
EveryPromptSettles == Native!EveryPromptSettles
\* ESC goes to the prompt on the screen before it stops a run (src/cli/native/esc-scope.ts).
EscapeReachesPrompt == Native!EscapeReachesPrompt
\* What an agent did out of its scope or after an interrupt is no output
\* (src/executor/node-runner.ts).
OutputsAreLegitimate == Runner!OutputsAreLegitimate
\* Agents that do not cross leave the user's environment (the same).
EnvironmentRestored == Runner!EnvironmentRestored
\* A waiting record has somebody who will settle it, and an ask is answered once
\* per delivery (src/executor/intercom-correlation.ts).
AsksAreTracked == Mail!WaitingIsTracked /\ Mail!AskAnsweredOnce /\ Turns!AskAnsweredOnce
\* A recorded answer is not overwritten (the same).
AnswerNotLost == Mail!AnswerNotLost
=============================================================================
