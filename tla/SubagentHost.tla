---------------------------- MODULE SubagentHost ----------------------------
(***************************************************************************)
(* The pi-subagents agent host (src/executor/pi-subagents-host.ts): how a  *)
(* BPMN host-work visit is turned into one subagent, how the run store lets *)
(* a later attempt of the workflow pick the same subagent up again, and     *)
(* what soft interrupts, sibling failures and process crashes do to that.   *)
(*                                                                         *)
(* A visit is one (activity, token, contract, inputs) of one workflow       *)
(* instance.  A run <<v, n>> is the execution of visit v by attempt n of    *)
(* the workflow.  Each run spawns at most one agent, so the agent is named  *)
(* by the run that spawned it.  Attempts overlap: activities of an attempt  *)
(* that already failed keep running in the same process.                    *)
(*                                                                         *)
(* The store's get and put are atomic here, and a call that rejects has no  *)
(* effect; module RunStore shows that the JSON file store provides that     *)
(* within one process.                                                      *)
(*                                                                         *)
(* Every awaited call and every callback may fail: the get, the Agent tool, *)
(* reading its answer, the puts, get_subagent_result and the host's event   *)
(* callbacks.  What a failure leaves behind depends on where it hits, so it *)
(* has an action of its own at each place.                                  *)
(*                                                                         *)
(* Not modelled: an answer of the Agent tool that is plain text without an  *)
(* id is itself taken for the id.  get_subagent_result knows no such agent, *)
(* which yields what an agent that failed yields (AgentSettles); that the   *)
(* agent may be at work all the same is left out.                           *)
(***************************************************************************)
EXTENDS Naturals

CONSTANTS
  Visits,
  Site,            \* Site[v]: the activity, token and contract of the visit
  Input,           \* Input[v]: the visit's input snapshot
  Declared,        \* visits whose configuration declares outputs
  Foreground,      \* visits with runInBackground: false
  MaxAttempts      \* bound: workflow attempts on the instance

(* Mutant: the inputs are not part of the key. *)
BuildRunKey_NoInputs(v) == <<Site[v], "any inputs">>

(* buildRunKey: the instance is fixed, so it is left out. *)
BuildRunKey(v) == <<Site[v], Input[v]>>

ASSUME ConstantsAssumption ==
  /\ Declared \subseteq Visits
  /\ Foreground \subseteq Visits
  /\ MaxAttempts \in Nat \ {0}

(* Visits are what the pair identifies: a repeated visit has new inputs.    *)
ASSUME VisitsAssumption ==
  \A v, w \in Visits : <<Site[v], Input[v]>> = <<Site[w], Input[w]>> => v = w

Attempts == 1..MaxAttempts
Runs == Visits \X Attempts
VisitOf(i) == i[1]
AttemptOf(i) == i[2]
KeyOf(i) == BuildRunKey(VisitOf(i))
Keys == {BuildRunKey(v) : v \in Visits}

VARIABLES
  pc,        \* where each run of runPiSubagentTask is
  op,        \* its spawnAndStoreSubagent promise, which an interrupt orphans
  mine,      \* the agent the run spawned or resumed
  stored,    \* the record its store lookup returned
  store,     \* the run store on disk
  agent,     \* what became of each agent
  gone,      \* agents whose manager process is gone
  attempt,   \* the current workflow attempt
  aborted,   \* attempts whose interrupt signal has fired
  exposed    \* history: visits an attempt left between lookup and spawn record,
             \* visits with a running agent whose spawn could not be recorded, and
             \* visits whose record a late failure took from another agent

vars == <<pc, op, mine, stored, store, agent, gone, attempt, aborted, exposed>>

NoAgent == <<"no", "agent">>
NoRecord == [status |-> "none", agent |-> NoAgent]
Record(s, a) == [status |-> s, agent |-> a]
Records == {NoRecord} \cup [status : {"spawned", "completed", "failed"}, agent : Runs]

Busy == {"read", "spawning", "waiting", "saving", "failing"}
Ended == {"done", "failed", "interrupted", "dead"}
Verdicts == {"completed", "partial", "failed"}

TypeOK ==
  /\ pc \in [Runs -> {"new"} \cup Busy \cup Ended]
  /\ op \in [Runs -> {"none", "spawning", "storing"}]
  /\ mine \in [Runs -> Runs \cup {NoAgent}]
  /\ stored \in [Runs -> Records]
  /\ store \in [Keys -> Records]
  /\ agent \in [Runs -> {"absent", "running"} \cup Verdicts]
  /\ gone \in SUBSET Runs
  /\ attempt \in Attempts
  /\ aborted \in SUBSET Attempts
  /\ exposed \in SUBSET Visits

Init ==
  /\ pc = [i \in Runs |-> "new"]
  /\ op = [i \in Runs |-> "none"]
  /\ mine = [i \in Runs |-> NoAgent]
  /\ stored = [i \in Runs |-> NoRecord]
  /\ store = [k \in Keys |-> NoRecord]
  /\ agent = [i \in Runs |-> "absent"]
  /\ gone = {}
  /\ attempt = 1
  /\ aborted = {}
  /\ exposed = {}

Interrupted(i) == AttemptOf(i) \in aborted

Goto(i, s) == pc' = [pc EXCEPT ![i] = s]
Put(i, s) == store' = [store EXCEPT ![KeyOf(i)] = Record(s, mine[i])]

-----------------------------------------------------------------------------
(* runPiSubagentTask looks the visit up in the run store. *)
Lookup(i) ==
  /\ pc[i] = "new"
  /\ AttemptOf(i) = attempt
  /\ IF Interrupted(i)
       THEN Goto(i, "interrupted") /\ UNCHANGED stored
       ELSE Goto(i, "read") /\ stored' = [stored EXCEPT ![i] = store[KeyOf(i)]]
  /\ UNCHANGED <<op, mine, store, agent, gone, attempt, aborted, exposed>>

(* The store's get rejects. *)
LookupFails(i) ==
  /\ pc[i] = "new"
  /\ AttemptOf(i) = attempt
  /\ ~Interrupted(i)
  /\ Goto(i, "failed")
  /\ UNCHANGED <<op, mine, stored, store, agent, gone, attempt, aborted, exposed>>

(* The lookup returned after the signal fired. *)
StopAfterLookup(i) ==
  /\ pc[i] = "read"
  /\ Interrupted(i)
  /\ Goto(i, "interrupted")
  /\ UNCHANGED <<op, mine, stored, store, agent, gone, attempt, aborted, exposed>>

(* reusableCompletedOutput: the cached output is returned as it is. *)
Reuse(i) ==
  /\ pc[i] = "read"
  /\ ~Interrupted(i)
  /\ stored[i].status = "completed"
  /\ mine' = [mine EXCEPT ![i] = stored[i].agent]
  /\ Goto(i, "done")
  /\ UNCHANGED <<op, stored, store, agent, gone, attempt, aborted, exposed>>

(* A spawned record: wait for that agent instead of spawning again. *)
Attach(i) ==
  /\ pc[i] = "read"
  /\ ~Interrupted(i)
  /\ stored[i].status = "spawned"
  /\ mine' = [mine EXCEPT ![i] = stored[i].agent]
  /\ Goto(i, "waiting")
  /\ UNCHANGED <<op, stored, store, agent, gone, attempt, aborted, exposed>>

(* Mutant: a spawned record is not reused. *)
MustSpawn_IgnoresSpawned(i) == stored[i].status # "completed"

(* Mutant: a completed record is not reused. *)
MustSpawn_IgnoresCompleted(i) == stored[i].status # "spawned"

MustSpawn(i) == stored[i].status \in {"none", "failed"}

(* No usable record: call the Agent tool, in spawnAndStoreSubagent. *)
Launch(i) ==
  /\ pc[i] = "read"
  /\ ~Interrupted(i)
  /\ MustSpawn(i)
  /\ agent' = [agent EXCEPT ![i] = "running"]
  /\ mine' = [mine EXCEPT ![i] = i]
  /\ op' = [op EXCEPT ![i] = "spawning"]
  /\ Goto(i, "spawning")
  /\ UNCHANGED <<stored, store, gone, attempt, aborted, exposed>>

(* The prompt cannot be built, or the Agent tool throws before it starts an *)
(* agent.                                                                   *)
LaunchFails(i) ==
  /\ pc[i] = "read"
  /\ ~Interrupted(i)
  /\ MustSpawn(i)
  /\ Goto(i, "failed")
  /\ UNCHANGED <<op, mine, stored, store, agent, gone, attempt, aborted, exposed>>

(* The Agent tool answers: at once for a background agent, at the end of    *)
(* the run for a foreground one.                                            *)
SpawnReturns(i) ==
  /\ op[i] = "spawning"
  /\ VisitOf(i) \in Foreground => agent[i] \in Verdicts
  /\ op' = [op EXCEPT ![i] = "storing"]
  /\ UNCHANGED <<pc, mine, stored, store, agent, gone, attempt, aborted, exposed>>

(* Mutant: the record is put with a status the lookup does not know. *)
StoreSpawned_Running(i) ==
  /\ op[i] = "storing"
  /\ op' = [op EXCEPT ![i] = "none"]
  /\ store' = [store EXCEPT ![KeyOf(i)] = Record("running", i)]
  /\ Goto(i, "waiting")
  /\ UNCHANGED <<mine, stored, agent, gone, attempt, aborted, exposed>>

(* The record is put, also when the run that wanted it has been interrupted *)
(* meanwhile.                                                               *)
StoreSpawned(i) ==
  /\ op[i] = "storing"
  /\ op' = [op EXCEPT ![i] = "none"]
  /\ store' = [store EXCEPT ![KeyOf(i)] = Record("spawned", i)]
  /\ IF pc[i] = "spawning"
       THEN Goto(i, IF Interrupted(i) THEN "interrupted" ELSE "waiting")
       ELSE UNCHANGED pc
  /\ UNCHANGED <<mine, stored, agent, gone, attempt, aborted, exposed>>

(* The Agent tool rejects after it started the agent, its answer has no id, *)
(* or the put of the record rejects.  The run fails, unless an interrupt    *)
(* ended it before; the agent stays, and no record names it.                *)
SpawnFails(i) ==
  /\ op[i] # "none"
  /\ op' = [op EXCEPT ![i] = "none"]
  /\ IF pc[i] = "spawning" THEN Goto(i, "failed") ELSE UNCHANGED pc
  /\ exposed' = IF agent[i] = "running" THEN exposed \cup {VisitOf(i)} ELSE exposed
  /\ UNCHANGED <<mine, stored, store, agent, gone, attempt, aborted>>

(* Mutant: only the spawn is raced with the signal. *)
Interrupt_SpawnOnly(i) ==
  /\ pc[i] = "spawning"
  /\ Interrupted(i)
  /\ Goto(i, "interrupted")
  /\ UNCHANGED <<op, mine, stored, store, agent, gone, attempt, aborted, exposed>>

(* runInterruptible: the signal wins the race. *)
Interrupt(i) ==
  /\ pc[i] \in {"spawning", "waiting"}
  /\ Interrupted(i)
  /\ Goto(i, "interrupted")
  /\ UNCHANGED <<op, mine, stored, store, agent, gone, attempt, aborted, exposed>>

(* Mutant: missing outputs are accepted. *)
Yields_AnyResult(i) == TRUE

(* What the result text of an agent yields.  A failed agent, and one the    *)
(* manager does not know, are rendered without "Status: error", so only the *)
(* declared outputs tell them from a completed one.                         *)
Yields(i) ==
  \/ VisitOf(i) \notin Declared
  \/ mine[i] \notin gone /\ agent[mine[i]] = "completed"

Collect(i) ==
  /\ pc[i] = "waiting"
  /\ ~Interrupted(i)
  /\ agent[mine[i]] \in Verdicts \/ mine[i] \in gone
  /\ Goto(i, IF Yields(i) THEN "saving" ELSE "failing")
  /\ UNCHANGED <<op, mine, stored, store, agent, gone, attempt, aborted, exposed>>

(* get_subagent_result rejects, or a callback of the host throws before or  *)
(* after it.  The record still says "spawned".                              *)
WaitFails(i) ==
  /\ pc[i] = "waiting"
  /\ Goto(i, "failed")
  /\ UNCHANGED <<op, mine, stored, store, agent, gone, attempt, aborted, exposed>>

(* The final put is not raced with the signal. *)
Save(i) ==
  /\ pc[i] = "saving"
  /\ Put(i, "completed")
  /\ Goto(i, "done")
  /\ UNCHANGED <<op, mine, stored, agent, gone, attempt, aborted, exposed>>

(* The put does not look whose record it replaces. *)
TakesRecord(i) ==
  store[KeyOf(i)].status \in {"spawned", "completed"} /\ store[KeyOf(i)].agent # mine[i]

StoreFailed(i) ==
  /\ pc[i] = "failing"
  /\ Put(i, "failed")
  /\ Goto(i, "failed")
  /\ exposed' = IF TakesRecord(i) THEN exposed \cup {VisitOf(i)} ELSE exposed
  /\ UNCHANGED <<op, mine, stored, agent, gone, attempt, aborted>>

(* The put of a verdict rejects: the run fails, the record stays as it is.  *)
VerdictPutFails(i) ==
  /\ pc[i] \in {"saving", "failing"}
  /\ Goto(i, "failed")
  /\ UNCHANGED <<op, mine, stored, store, agent, gone, attempt, aborted, exposed>>

-----------------------------------------------------------------------------
(* The agent's own run ends; "partial" is a result without valid outputs. *)
AgentSettles(i) ==
  /\ agent[i] = "running"
  /\ i \notin gone
  /\ \E verdict \in Verdicts : agent' = [agent EXCEPT ![i] = verdict]
  /\ UNCHANGED <<pc, op, mine, stored, store, gone, attempt, aborted, exposed>>

(* The visits whose spawn is under way and not on disk yet. *)
Unrecorded == {VisitOf(i) : i \in {j \in Runs : pc[j] = "read" \/ op[j] # "none"}}

(* A soft interrupt of the current attempt. *)
SoftInterrupt ==
  /\ attempt \notin aborted
  /\ aborted' = aborted \cup {attempt}
  /\ exposed' = exposed \cup Unrecorded
  /\ UNCHANGED <<pc, op, mine, stored, store, agent, gone, attempt>>

(* A host error ends the attempt while the other activities go on.          *)
AttemptOver ==
  \/ attempt \in aborted
  \/ \E v \in Visits : pc[<<v, attempt>>] \in {"failed", "interrupted"}
  \/ \A v \in Visits : pc[<<v, attempt>>] = "done"

(* The workflow is run again in the same process. *)
NextAttempt ==
  /\ attempt < MaxAttempts
  /\ AttemptOver
  /\ attempt' = attempt + 1
  /\ exposed' = exposed \cup Unrecorded
  /\ UNCHANGED <<pc, op, mine, stored, store, agent, gone, aborted>>

(* The process dies and the workflow is run again by a new one: only the    *)
(* store survives.                                                          *)
CrashAndRestart ==
  /\ attempt < MaxAttempts
  /\ attempt' = attempt + 1
  /\ exposed' = exposed \cup Unrecorded
  /\ pc' = [i \in Runs |-> IF pc[i] \in Busy THEN "dead" ELSE pc[i]]
  /\ op' = [i \in Runs |-> "none"]
  /\ gone' = gone \cup {i \in Runs : agent[i] # "absent"}
  /\ UNCHANGED <<mine, stored, store, agent, aborted>>

(* What a run does when what it called answers... *)
Continues(i) ==
  \/ Lookup(i) \/ StopAfterLookup(i) \/ Reuse(i) \/ Attach(i)
  \/ Launch(i) \/ SpawnReturns(i) \/ StoreSpawned(i) \/ Interrupt(i)
  \/ Collect(i) \/ Save(i) \/ StoreFailed(i)

(* ... and when it rejects or throws. *)
Fails(i) ==
  \/ LookupFails(i) \/ LaunchFails(i) \/ SpawnFails(i)
  \/ WaitFails(i) \/ VerdictPutFails(i)

RunStep(i) == Continues(i) \/ Fails(i)

Next ==
  \/ SoftInterrupt \/ NextAttempt \/ CrashAndRestart
  \/ \E i \in Runs : RunStep(i) \/ AgentSettles(i)

(* The event loop runs every continuation that is ready.  Agents need not   *)
(* ever finish, and no call has to fail.                                    *)
Fairness == \A i \in Runs : WF_vars(pc[i] # "new" /\ Continues(i))

Spec == Init /\ [][Next]_vars /\ Fairness

-----------------------------------------------------------------------------
(* The output a run returns was produced by an agent that was spawned for   *)
(* this very visit, with these inputs, in this or an earlier attempt.       *)
OutputFromOwnVisit ==
  \A i \in Runs : pc[i] = "done" => VisitOf(mine[i]) = VisitOf(i)

(* A visit that declares outputs is reported done only on the word of an    *)
(* agent that completed with them, however often it was interrupted,        *)
(* crashed or retried before.                                               *)
DeclaredOutputsProduced ==
  \A i \in Runs :
    pc[i] = "done" /\ VisitOf(i) \in Declared => agent[mine[i]] = "completed"

(* The same for every visit: runtime errors are reported before the host    *)
(* work is completed (pi-subagents-host.test.ts).                           *)
DoneMeansAgentCompleted ==
  \A i \in Runs : pc[i] = "done" => agent[mine[i]] \in {"completed", "partial"}

(* The stored agent id is reused instead of spawning duplicate work         *)
(* (README.md).                                                             *)
Duplicated(v) ==
  \E m, n \in Attempts :
    m # n /\ \A i \in {<<v, m>>, <<v, n>>} : agent[i] = "running" /\ i \notin gone

NoDuplicateWork == \A v \in Visits : ~Duplicated(v)

(* Only three things lead to a duplicate: an attempt that left the visit    *)
(* between its lookup and its spawn record; a spawn that failed after the   *)
(* agent had started, so that no record names the agent at work; and a run  *)
(* of an earlier attempt that fails late and writes over the record of the  *)
(* agent at work.  No other failure, of a get, a put or a wait, does.       *)
OnlyExposedVisitsDuplicated == \A v \in Visits \ exposed : ~Duplicated(v)

(* Nor is the cached result of any other visit reopened by a late record.   *)
CompletedNotReopened ==
  [][\A v \in Visits \ exposed :
       LET k == BuildRunKey(v) IN
         store[k].status = "completed" => store'[k].status # "spawned"]_vars

(* An interrupted run ends although its agent may never answer. *)
InterruptEndsRuns ==
  \A i \in Runs : Interrupted(i) /\ pc[i] \in Busy ~> pc[i] \in Ended
=============================================================================
