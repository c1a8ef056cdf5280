-------------------------- MODULE SubagentManager --------------------------
(***************************************************************************)
(* The native subagent manager of src/subagents: the records behind the    *)
(* tools Agent, get_subagent_result and steer_subagent, the run each        *)
(* record starts (runner.ts) and the tool calls waiting on them.            *)
(*                                                                         *)
(* One AbortSignal is shared by all the calls, as it is when the workflow   *)
(* host drives the tools (pi-subagents-runtime.ts passes options.signal).   *)
(* Nothing in the repository aborts a record's own controller, so the       *)
(* status "stopped" of the protocol is never written.                       *)
(***************************************************************************)
EXTENDS FiniteSets

CONSTANTS
  Agents,       \* agent ids, each used by at most one spawn
  Callers,      \* concurrent tool calls
  Resumable     \* agents that callers name in the Agent tool's "resume" parameter

ASSUME ResumableAssumption == Resumable \subseteq Agents

VARIABLES
  status,    \* record.status; "absent" when the map has no such record
  run,       \* the runRecord promise: "none", "setup", "prompting", "settled", and
             \* in between "returned" or "threw": the run is over, its continuation
             \* in runRecord has not been called and the record still reads running
  session,   \* is record.session set?
  signal,    \* the shared AbortSignal has fired
  told,      \* session.abort() has been called on the agent's session
  call,      \* what a caller is waiting for: [op, agent]
  answer     \* the last thing a caller was told, and whether it had asked to wait

vars == <<status, run, session, signal, told, call, answer>>

NoAgent == "no agent"
Idle == [op |-> "idle", agent |-> NoAgent]
Waiting(op, a) == [op |-> op, agent |-> a]
Said(op, what) == [waited |-> op = "wait", said |-> what]

Active == {"queued", "running"}
Statuses == {"absent", "running", "completed", "failed"}
Verdicts == {"completed", "failed"}
Runs == {"none", "setup", "prompting", "returned", "threw", "settled"}
Ops == {"spawn", "wait", "resume", "steer"}

TypeOK ==
  /\ status \in [Agents -> Statuses]
  /\ run \in [Agents -> Runs]
  /\ session \in [Agents -> BOOLEAN]
  /\ signal \in BOOLEAN
  /\ told \in [Agents -> BOOLEAN]
  /\ call \in [Callers -> {Idle} \cup [op : Ops, agent : Agents]]
  /\ answer \in [waited : BOOLEAN,
                 said : Statuses \cup {"nothing", "background", "refused",
                                       "interrupted", "steered", "rejected"}]

Init ==
  /\ status = [a \in Agents |-> "absent"]
  /\ run = [a \in Agents |-> "none"]
  /\ session = [a \in Agents |-> FALSE]
  /\ signal = FALSE
  /\ told = [a \in Agents |-> FALSE]
  /\ call = [c \in Callers |-> Idle]
  /\ answer = Said("none", "nothing")

-----------------------------------------------------------------------------
(* renderRecord: the status text a caller reads back. *)
Render(op, s) == answer' = Said(op, s)

Block(c, op, a) == call' = [call EXCEPT ![c] = Waiting(op, a)]
Release(c) == call' = [call EXCEPT ![c] = Idle]

-----------------------------------------------------------------------------
(* The Agent tool: create a record, start its run, and either answer at     *)
(* once (background) or await the run.                                      *)
Spawn(c, a) ==
  /\ call[c] = Idle
  /\ status[a] = "absent"
  /\ status' = [status EXCEPT ![a] = "running"]
  /\ run' = [run EXCEPT ![a] = "setup"]
  /\ \/ Render("spawn", "background") /\ UNCHANGED call
     \/ Block(c, "spawn", a) /\ UNCHANGED answer
  /\ UNCHANGED <<session, signal, told>>

(* A foreground spawn is not raced with the signal: only the end of the     *)
(* run returns it.                                                          *)
SpawnReturns(c) ==
  /\ call[c].op = "spawn"
  /\ run[call[c].agent] = "settled"
  /\ Render("spawn", status[call[c].agent])
  /\ Release(c)
  /\ UNCHANGED <<status, run, session, signal, told>>

(* The session exists, its abort listener is registered and the prompt is   *)
(* sent.  A signal that fired earlier is not looked at again.               *)
SessionCreated(a) ==
  /\ run[a] = "setup"
  /\ run' = [run EXCEPT ![a] = "prompting"]
  /\ session' = [session EXCEPT ![a] = TRUE]
  /\ UNCHANGED <<status, signal, told, call, answer>>

(* The prompt resolves, on its own, at the turn limit or after an abort; or *)
(* it throws, as the set-up may.  The session is idle from here on.         *)
PromptEnds(a) ==
  /\ \/ run[a] = "prompting" /\ run' = [run EXCEPT ![a] = "returned"]
     \/ run[a] \in {"setup", "prompting"} /\ run' = [run EXCEPT ![a] = "threw"]
  /\ UNCHANGED <<status, session, signal, told, call, answer>>

(* Mutant: the catch block also runs after a run that completed. *)
RunFails_AfterSettling(a) ==
  /\ run[a] # "none"
  /\ run' = [run EXCEPT ![a] = "settled"]
  /\ status' = [status EXCEPT ![a] = "failed"]
  /\ UNCHANGED <<session, signal, told, call, answer>>

(* runRecord goes on after the run. *)
RunCompletes(a) ==
  /\ run[a] = "returned"
  /\ run' = [run EXCEPT ![a] = "settled"]
  /\ status' = [status EXCEPT ![a] = "completed"]
  /\ UNCHANGED <<session, signal, told, call, answer>>

(* The catch block of runRecord. *)
RunFails(a) ==
  /\ run[a] = "threw"
  /\ run' = [run EXCEPT ![a] = "settled"]
  /\ status' = [status EXCEPT ![a] = "failed"]
  /\ UNCHANGED <<session, signal, told, call, answer>>

-----------------------------------------------------------------------------
(* get_subagent_result.  It waits only for an active record and only on the *)
(* promise of the first run.                                                *)
MustWait(a) == status[a] \in Active /\ run[a] # "none"

GetResult(c, a) ==
  /\ call[c] = Idle
  /\ \/ /\ status[a] = "absent"
        /\ Render("peek", "refused")
        /\ UNCHANGED call
     \/ /\ status[a] # "absent"           \* wait: false
        /\ Render("peek", status[a])
        /\ UNCHANGED call
     \/ /\ status[a] # "absent"           \* wait: true
        /\ IF MustWait(a)
             THEN Block(c, "wait", a) /\ UNCHANGED answer
             ELSE Render("wait", status[a]) /\ UNCHANGED call
  /\ UNCHANGED <<status, run, session, signal, told>>

(* Mutant: the promise awaited is no longer that of the run. *)
WaitReturns_AtOnce(c) ==
  /\ call[c].op = "wait"
  /\ Render("wait", status[call[c].agent])
  /\ Release(c)
  /\ UNCHANGED <<status, run, session, signal, told>>

WaitReturns(c) ==
  /\ call[c].op = "wait"
  /\ run[call[c].agent] = "settled"
  /\ Render("wait", status[call[c].agent])
  /\ Release(c)
  /\ UNCHANGED <<status, run, session, signal, told>>

(* Mutant: the wait is not raced with the signal. *)
WaitInterrupted_NotRaced(c) ==
  /\ call[c].op = "wait"
  /\ signal
  /\ run[call[c].agent] = "settled"
  /\ WaitReturns(c)

(* The race with the signal rejects the wait; the record is not touched. *)
WaitInterrupted(c) ==
  /\ call[c].op = "wait"
  /\ signal
  /\ Render("wait", "interrupted")
  /\ Release(c)
  /\ UNCHANGED <<status, run, session, signal, told>>

-----------------------------------------------------------------------------
(* Mutant: any record with a session can be steered. *)
Steer_AnySession(c, a) ==
  /\ call[c] = Idle
  /\ IF session[a]
       THEN Block(c, "steer", a) /\ UNCHANGED answer
       ELSE Render("steer", status[a]) /\ UNCHANGED call
  /\ UNCHANGED <<status, run, session, signal, told>>

(* steer_subagent: the message is handed to the session of a record that    *)
(* reads running, and the caller waits for the session to take it.          *)
Steer(c, a) ==
  /\ call[c] = Idle
  /\ IF session[a] /\ status[a] = "running"
       THEN Block(c, "steer", a) /\ UNCHANGED answer
       ELSE /\ Render("steer", IF status[a] = "absent" THEN "refused" ELSE status[a])
            /\ UNCHANGED call
  /\ UNCHANGED <<status, run, session, signal, told>>

(* The session has taken the message, or has refused it. *)
SteerReturns(c) ==
  /\ call[c].op = "steer"
  /\ Render("steer", "steered") \/ Render("steer", "rejected")
  /\ Release(c)
  /\ UNCHANGED <<status, run, session, signal, told>>

(* The race with the signal, also one that had fired before the call.  The  *)
(* session keeps the message.                                               *)
SteerInterrupted(c) ==
  /\ call[c].op = "steer"
  /\ signal
  /\ Render("steer", "interrupted")
  /\ Release(c)
  /\ UNCHANGED <<status, run, session, signal, told>>

-----------------------------------------------------------------------------
(* The Agent tool with "resume": one more message to an existing session.   *)
(* record.promise keeps pointing at the first run.                          *)
Resume(c, a) ==
  /\ a \in Resumable
  /\ call[c] = Idle
  /\ IF session[a]
       THEN /\ status' = [status EXCEPT ![a] = "running"]
            /\ Block(c, "resume", a)
            /\ UNCHANGED answer
       ELSE /\ Render("resume", "refused")
            /\ UNCHANGED <<status, call>>
  /\ UNCHANGED <<run, session, signal, told>>

ResumeCompletes(c) ==
  /\ call[c].op = "resume"
  /\ status' = [status EXCEPT ![call[c].agent] = "completed"]
  /\ Render("resume", "completed")
  /\ Release(c)
  /\ UNCHANGED <<run, session, signal, told>>

(* Mutant: the interrupted resume returns without its catch block. *)
ResumeFails_NoCatch(c) ==
  /\ call[c].op = "resume"
  /\ Render("resume", "failed")
  /\ Release(c)
  /\ UNCHANGED <<status, run, session, signal, told>>

(* sendUserMessage throws, or the signal wins the race: the catch block     *)
(* marks the record failed in both cases.                                   *)
ResumeFails(c) ==
  /\ call[c].op = "resume"
  /\ status' = [status EXCEPT ![call[c].agent] = "failed"]
  /\ Render("resume", "failed")
  /\ Release(c)
  /\ UNCHANGED <<run, session, signal, told>>

-----------------------------------------------------------------------------
(* The signal fires.  It reaches the sessions whose listener is registered; *)
(* a run still in setup never hears of it.                                  *)
Abort ==
  /\ ~signal
  /\ signal' = TRUE
  /\ told' = [a \in Agents |-> told[a] \/ run[a] = "prompting"]
  /\ UNCHANGED <<status, run, session, call, answer>>

RunSettles(a) == RunCompletes(a) \/ RunFails(a)
ResumeSettles(c) == ResumeCompletes(c) \/ ResumeFails(c)

Next ==
  \/ \E c \in Callers, a \in Agents :
       Spawn(c, a) \/ GetResult(c, a) \/ Steer(c, a) \/ Resume(c, a)
  \/ \E c \in Callers :
       \/ SpawnReturns(c) \/ WaitReturns(c) \/ WaitInterrupted(c)
       \/ SteerReturns(c) \/ SteerInterrupted(c) \/ ResumeSettles(c)
  \/ \E a \in Agents : SessionCreated(a) \/ PromptEnds(a) \/ RunSettles(a)
  \/ Abort

(* Promise continuations run, and session.abort() ends the prompt it hits.  *)
(* Nothing else is assumed of the model provider: a setup, a prompt that    *)
(* was not told to stop, or a session that is steered may hang for ever.    *)
Fairness ==
  /\ \A c \in Callers : WF_vars(SpawnReturns(c)) /\ WF_vars(WaitReturns(c))
                        /\ WF_vars(WaitInterrupted(c)) /\ WF_vars(SteerInterrupted(c))
  /\ \A a \in Agents : WF_vars(told[a] /\ PromptEnds(a)) /\ WF_vars(RunSettles(a))

Spec == Init /\ [][Next]_vars /\ Fairness

-----------------------------------------------------------------------------
(* A get_subagent_result call that asked to wait and was not interrupted is *)
(* told a final status, never "running" (register.ts: "Wait for completion  *)
(* before returning").                                                      *)
WaitAnswersFinalStatus ==
  answer.waited => answer.said \in Verdicts \cup {"interrupted"}

(* The same for the agents nobody resumes, where it does hold. *)
OneShotWaitEndsWithVerdict ==
  [][\A c \in Callers :
       call[c].op = "wait" /\ call[c].agent \notin Resumable /\ call'[c] = Idle =>
          answer'.said \in Verdicts \cup {"interrupted"}]_vars

(* A record that reads "running" has a run or a resume in flight that will  *)
(* change it: no failure path of runRecord or resume leaves it behind.      *)
Resumed(a) == \E c \in Callers : call[c] = Waiting("resume", a)
InFlight(a) == run[a] \in {"setup", "prompting", "returned", "threw"} \/ Resumed(a)

NoAbandonedRecord == \A a \in Agents : status[a] = "running" => InFlight(a)

(* A steering message is handed to a session only while its prompt, or a    *)
(* resume of it, is not settled: neither before the first prompt was sent   *)
(* nor after the verdict.  The prompt need not be running any more: between *)
(* its end and the continuation of runRecord the record still reads         *)
(* "running", and a message handed over then steers no prompt.              *)
PromptUnsettled(a) == run[a] \in {"prompting", "returned", "threw"} \/ Resumed(a)

SteeredSessionIsPrompted ==
  [][\A c \in Callers, a \in Agents :
       call[c] # Waiting("steer", a) /\ call'[c] = Waiting("steer", a) =>
          PromptUnsettled(a)]_vars

(* A part of the next property. *)
InterruptFreesWaiters ==
  \A c \in Callers :
    /\ (signal /\ call[c].op = "wait") ~> (call[c].op # "wait")
    /\ (signal /\ call[c].op = "steer") ~> (call[c].op # "steer")

(* The interrupt takes effect.  Once the signal has fired every waiting     *)
(* get_subagent_result returns, even when the agent it waits for never      *)
(* finishes, and so does every steer_subagent; and a run whose prompt was   *)
(* in flight when the signal fired is stopped by it, down to its record.    *)
(* (A run still in setup is not: see SessionCreated.)                       *)
InterruptTakesEffect ==
  /\ InterruptFreesWaiters
  /\ \A a \in Agents :
       [](run[a] = "prompting" /\ ~signal =>
            [](signal => <>(run[a] = "settled")))

(* The agents nobody resumes are a pool of one-shot agents. *)
OneShot == Agents \ Resumable
Lifecycle == INSTANCE AgentLifecycle
               WITH Agents <- OneShot, status <- [a \in OneShot |-> status[a]]
ImplementsLifecycle == Lifecycle!Spec
=============================================================================
