# TLA+ models of pi-wendao

pi-wendao drives BPMN workflows. The workflow engine, qianji, is another
program: pi-wendao starts it as a process or talks to its server over HTTP.
Whenever the engine stops on *host work* (a task for an agent or a person),
pi-wendao performs the work and posts the outputs, until the workflow ends.
The hard part of the code is this conversation and the subagents behind it:
promises that race an interrupt signal, a record store that must let a second
attempt find the work of the first, requests whose answers get lost. Around it
stand a chat session in which runs are started, stopped and prompted for, an
intercom between sessions, a compiler from prose to BPMN with its lints and
caches, and a search with its benchmarks. These modules model most of it, the
hard part in most detail.

    AgentLifecycle  <---- SubagentManager   src/subagents
                              ^ spawns and waits for its agents
    AtomicStore     <---- RunStore          *-run-store.ts, *-record-store.ts
                              ^ gets and puts its records
                          SubagentHost      pi-subagents-host.ts
                              ^ runs it as activities
    RequestReply    <---- HostLoop          executor-host-loop.ts
         ^                    | posts completions through
         |                    v
         +--------------- HostSession       qianji-cli.ts
                          ServerWorkflow    qianji-server-workflow.ts

    MCInteraction    one process in one of four roles:
        NativeSession             cli/native, graph-intercom-extension.ts
        NodeRunner                node-runner.ts
        Intercom <- ReplyTracker  intercom-correlation.ts, pi-intercom-runtime.ts
        ReplyTurns <- ReplyTracker
    MCCommandLine    one process in one of nine uses:
        Compile                   compiler/, compile-command.ts
        NamedWorkflow             named-workflows.ts
        Preflight                 workflow-runner/preflight.ts
        TaskContract              contract-lint.ts, bpmn-config.ts, human-task.ts
        RunView                   runQianjiCli, executor.ts, ui/graph-view.ts
        LiveAnswers, CorpusBenchmark, SearchTrace     cli/search
        MemoryRecall              cli/serverless-memory

An arrow with `<----` is a refinement that TLC checks: the module on the right
implements the abstract one on the left; `<-` is an extension. `RequestReply` sits between two
modules: `HostSession` keeps that promise to its caller, and `HostLoop` is
shown to call the session in no other way. `ServerWorkflow` is the same loop
over HTTP, where the interesting part is the network and not the batch. The
modules under `MCInteraction` and `MCCommandLine` share a process and little
else, so each of these two checks its modules side by side: a role or use is
drawn in the initial state and the other machines stay where they begin. The
state space is the sum of theirs and not the product.

To check a module: `tlc -config SubagentManager.cfg SubagentManager`. The proofs
about a module are in the module beside it whose name ends in `Proofs`
(`InteractionProofs` and `CommandLineProofs` for the two shared processes):
`tlapm SubagentHostProofs.tla`.

## Components

For each part of the system: the state it keeps, its operations, what is hard
about it and what makes it correct.

### Modelled, wholly or in part

**Executor host loop** (`executor-host-loop.ts`, `stall-guard.ts`,
`interrupt.ts`). State: the last answer of qianji, the number of host
boundaries so far, the shared variable context, the fingerprints of prompts.
Operations: take an answer, run the batch of its host work with `Promise.all`,
post one completion per item, merge the variables of each answer. Called by
`executor.ts`; calls the session, the agent host, the human handler. Hard: a
batch is concurrent while completions are sequential; one activity may fail
while its siblings go on; an interrupt may come between any two awaits; the
workflow may loop. Correct if completions are posted once and in order, only
for whole batches, from a context that agrees with the engine, if a prompt does
not come back, and if the loop ends.

**Qianji host session** (`qianji-cli.ts`, `qianji-stream.ts`). State: the
waiters of results, buffers of host work, a queue of trace handlers, the child
process. Operations: the initial report, `taskComplete`, `close`, and the
handlers of stdout, stdin, close and abort. Hard: one pipe carries three kinds
of output for several requests, a result must wait for trace handlers, and the
process may hang or die at any point. Correct if a result carries the work of
its own request, does not overtake its traces, and no promise hangs on a dead
process.

**Qianji server workflow** (`qianji-server-workflow.ts`, `qianji-server/`).
State: the last report, the graph; the server keeps the instance. Operations:
check the server's capabilities, resume or start, complete a batch in one
request, report failure evidence per item, ask for a recovery, diagnose.
Hard: an answer may be lost after the server acted, a run may crash and
another resume, an operator may cancel, a request may arrive after its run gave
up. Correct if work the server has is not repeated, its checkpoint is not
replaced, and what is traced, reported or told is true.

**pi-subagents host** (`pi-subagents-host.ts`, `-routing.ts`, `-runtime.ts`).
State: one record per visit in the run store, the promise of a spawn that an
interrupt may have orphaned. Operation: `runPiSubagentTask` (look up, reuse,
attach, spawn, wait, save). Hard: the agent starts before its id is on disk; an
interrupt abandons promises that go on writing to the store; attempts of the
same workflow overlap. Correct if a visit is answered by its own agent, only
by one that completed, and is not worked on twice.

**Record stores** (`pi-subagents-run-store.ts`, `intercom-record-store.ts`).
State: a JSON file and a promise queue. Operations: get, list, put, delete.
Hard: each is several file operations, any may fail, the process may crash
between them. Correct if callers see an atomic map.

**Native subagents** (`src/subagents`). State: a record and a run per agent, a
session per run. Operations: the tools `Agent` (spawn or resume),
`get_subagent_result`, `steer_subagent`; the abort signal. Hard: callers wait
on agents that others resume, and the signal meets a run in any phase. Correct
if a wait ends with a verdict, no record reads *running* for ever after its run
is gone, and an interrupt frees callers and stops runs.

**Native chat session** (`cli/native`, `cli/graph-intercom-extension.ts`,
`cli/workflow-runner.ts`). State: the active run and its signal, a queue of
prompts per run, the overlays on screen, the count of Escape scopes, the bridge
through which agents reach a run. Operations: `/run`, `/stop`, Escape, a human
task's prompt, an agent's question, an answer. Hard: a run may end with prompts
queued, overlays outlive the prompt, agents outlive the run. Correct if a stop
ends the run, every prompt settles, and Escape hits what the user sees.

**Node runner** (`node-runner.ts`). State: the process environment and what each
agent will restore. Operations: run an agent under the signal and its tool
scope. Correct if nothing an agent did out of scope or after an interrupt counts
as output, and the user's credentials come back.

**Intercom** (`intercom-correlation.ts`, `pi-intercom-runtime.ts`). State: the
pending asks and the turn (memory), a record per message (store). Operations:
receive, reply, list pending, ask, send; begin and end turns. Hard: asks expire
at every one of these, and each is several store operations. Correct if an ask
is answered once per delivery, an answer is not overwritten, and a record that
says *waiting* has somebody who will settle it.

**Compiler** (`compiler/`, `cli/compile-command.ts`, `cli/named-workflows.ts`,
`cli/workflow-runner/preflight.ts`). State: the files, and two caches (the
compiled workflow by time, the lint verdict by fingerprint). Operations: compile
with repairs, resolve a named workflow, lint before a run. Hard: files change
while a model is asked. Correct if what is run has passed what it is said to
have passed, and is made from the current text.

**Human tasks** (`bpmn-config.ts`, `human-task.ts`, `agent-host.ts`,
`cli/qianji-interaction-prompt.ts`, and the rules of `contract-lint.ts` about
them). State: the variables. Operations: an agent produces question and choices,
a user task asks, a gateway loops. Correct if a task that passed the lint can be
answered.

**Run view** (`runQianjiCli`, `executor.ts`, `executor-runtime-state.ts`,
`ui/graph-view.ts`, `cli/native/messages.ts`). State: node statuses, the trace
queue, the run's message. Correct if the graph shows what the engine told.

**Search** (`cli/search`). State: temporary files, an evidence file, results by
row. Operations: trace, judge by a model, trace again, write evidence; benchmark
with a pool, batches and retries; resume an interrupted answer run. Correct if
evidence has its reason and every verdict reaches its own row.

**Serverless memory** (`cli/serverless-memory`). State: the packet of the
process, the recall entries of sessions. Operations: inject, recall, benchmark.
Correct if a session is told of its packet once.

### Not modelled

| part | why not |
| --- | --- |
| Flowhub scenarios, workflow catalog | lookups and validation, one request at a time and without state |
| Arrow boundary, type aliases, tool registry, `effect.ts` | encodings, types, a promise wrapper |
| Drawing (`ui/renderer`, `ui/graph-view/`, `cli/native` widgets) | layout; of the graph view the node statuses are in `RunView` |
| Prompts, templates, the generated bridge scripts (`strategy-flow-script.ts`) | text |
| Option parsing, `model-resolver.ts` | reads and lookups before anything runs |
| Scoring of retrieval (`strategy-flow-precision-gate.ts`, gates of the benchmark) | pure functions of one trace; a gate passes or not |
| The contract's rules about texts (legacy elements, identifiers, prompts) | pattern matching on a file |
| `workflow-subagent-benchmark`, `serverless-memory/live.ts` | a sequential script over the parts above; a network client |
| Turn limits, activity display and tools of native subagents; agent-type choice of `pi-subagents-host.ts` | left out of their modules |
| The global bridge for tool events (`cli/pi-subagents.ts:77`) | never removed, so agents that outlive their run report to the next; only drawing hears it |

qianji, the server, the model providers, the operating system and the people
who answer prompts are the environment: they appear as actions that may do
anything the code has to cope with, each module says which.

## The models

Operators are named after the functions they model where TLA+ allows. An
operator whose comment begins with *Mutant* is a plausible bug in the code. It
is no part of the specification; it stands next to the definition it would
replace and serves to see that a property notices the bug.

### SubagentManager, AgentLifecycle

`status` is `record.status`, `run` is the promise of `runRecord` and how far
the runner got, `session` says whether `record.session` is set, `call` what a
tool call is awaiting, `answer` what it was told. One abort signal is shared by
all calls, as it is under the workflow host. `SessionCreated` registers the
abort listener; a signal that fired before is not looked at, as in the runner.
`GetResult` waits on the promise of the *first* run only, since `resume` does
not replace it.

The end of a prompt and the continuation of `runRecord` are two steps
(`PromptEnds`, `RunSettles`); in between the session is idle and the record still
reads *running*. `Steer` hands a message to the session of such a record and
waits until the session takes or refuses it, or the signal fires.
`SteeredSessionIsPrompted` bounds when that may happen: not before the first
prompt was sent, not after the verdict. A message handed over in between steers
no prompt; the code does not look, and the property says so.

`AgentLifecycle` is the promise to waiters: a run settles once and keeps its
verdict. It holds of agents that are not resumed, and the refinement is stated
for those. For all agents, `NoAbandonedRecord` says that a record that reads
*running* has a run or a resume in flight.

Fairness: continuations of settled promises run, and a session that was told to
abort ends its prompt (that is what `session.abort()` is for). Nothing is
assumed of a provider: a setup, a prompt that was not told, or a session that is
steered may hang. The
liveness properties are those that hold all the same.

Bounds: two agents, one of which may be resumed, and two callers. Two callers
are enough for a wait and a resume, or two resumes, of one agent to interleave;
agents share nothing but the callers and the signal.

### SubagentHost

A *visit* is one (activity, token, contract, inputs) and a *run* `<<v, n>>` is
`runPiSubagentTask` for visit `v` in attempt `n`. A run spawns at most one
agent, so agents are named by runs. `pc` is where the function is; `op` is the
promise of `spawnAndStoreSubagent`, kept apart because an interrupt ends the
first and not the second. `mine` is the agent id the run holds, `stored` what
its lookup returned, `store` the file, `gone` the agents whose manager died.
`exposed` is history: the visits that some attempt left between its lookup and
its record, those whose agent was started by a spawn that then failed, and those
where a late failure took the record of the agent at work (`TakesRecord`).

Every call of the function may reject, with what it leaves behind: a lookup
(`LookupFails`), the Agent tool before it starts an agent (`LaunchFails`) or after,
an answer without an id and the put of the spawn (`SpawnFails`), the wait
(`WaitFails`), the put of a verdict (`VerdictPutFails`).

`Yields` states what counts as output. An agent that failed, or that a new
process does not know, is rendered without the marker that
`extractPiSubagentError` looks for, so only declared outputs tell it from a
completed one; hence `DeclaredOutputsProduced` for visits with declared outputs
and the violated `DoneMeansAgentCompleted` for all.

`NoDuplicateWork` (reuse the id "instead of spawning duplicate work") does not
hold either. What the code guarantees is `OnlyExposedVisitsDuplicated`: there are
three ways to duplicate work. One is to stop an attempt between lookup and record.
One is a spawn that fails after its agent started: no record names the agent, and
the next attempt starts another. The third needs neither an interrupt nor an
error. Two attempts wait for one agent, which fails; the
first puts *failed*, a third attempt finds that and spawns anew, and then the
second, which `storeFailedRun` does not stop to look whose record it replaces,
puts its own *failed* over the new agent's: a fourth attempt spawns once more.
`CompletedNotReopened` is the same for cached results.

Fairness: ready continuations run; an agent need never end, and no call has to
fail. `InterruptEndsRuns` holds regardless.

Bounds: `SubagentHost.cfg` has two visits that differ only in inputs (so a key
without inputs confuses them), one in the foreground, and two attempts.
`SubagentHostRetry.cfg` has one visit and three attempts, so that the late put
of attempt 1 can meet the completed record of attempt 2 and be seen by attempt
3. The late failure above takes four, which make 17.6 million states, checked
once without the liveness property. It was the proof that asked for the
fourth: without the last part of `exposed` the invariant is not
inductive, although three attempts do not show it. The safety properties of
both runs are proved for any number of attempts.

### RunStore, AtomicStore

Calls are numbered in the order they are made, and a record is named by the
call that put it. `queue` is the promise chain. A put is read, temporary file,
rename, return, with an error or a crash possible before each; the file may be
missing, not JSON, or JSON of another shape at the start, and errors of the
queue's head do not reach the calls behind it. `got` on a read is the whole
map: get and list differ only in how much of it they return.

`AtomicStore` is the promise: a call takes effect at one instant while it is
open, calls take effect in the order they are made, a rejected call had no
effect, a crash cuts a call off before or after its effect. The refinement takes
the rename for that instant.

Fairness: each file operation that is awaited completes or fails.

Bounds: two keys, four calls, one error and one crash. Four calls are two
writes and two reads, or three queued writes behind one that fails. Crash means
that of the process: what a power loss leaves of a file renamed without fsync
is not modelled. Nor are two store instances on one path, whose queues know
nothing of each other: no atomicity can be stated of those.

### HostSession, RequestReply

`waiters` and `resolving` are the two phases of a request on the caller's side,
`work` is `currentHostWork`, `traceQueue` the chain of trace handlers.
The pipes are sequences, and the process is an environment that answers what it
reads in order, with any traces and work, or hangs or dies. `posted`, `traced`
and `handled` record what the process wrote and what the caller handled, to
state `ResultIsWhole`.

Fairness: the event loop delivers lines and events, trace handlers return, and
SIGTERM, or SIGKILL after a second, ends the process once the signal fired. The
process need never answer. (The code starts qianji through a shell. That a kill
of the shell leaves the program holding the pipe is outside the model.)

Bounds: four requests, so that a result may be followed by two more, and two
traces each, so that a failing trace handler may have one before and one after
it.

### HostLoop

Activity `<<b, j>>` is item `j` of the batch of boundary `b`. All activities
write one variable, and a value is named after the activity that wrote it, or
after the engine, so `context` and `engine` (the variable on the two sides) can be
compared. qianji may write when it reports first (it resumed a checkpoint, or ran
scripts) and after each batch. `started` is what each activity of a batch gets, the
context overlaid with the variables its work item lists (`TokenVariables`).

`ContextMatchesEngine` says that this is what qianji has. It has one exception,
which is the code's: the variables of the initial answer are not merged
(`executor-host-loop.ts:156`), so in the first batch what a work item does not list
is as the loop was given it. The property takes qianji to report its variables in
every answer with work; an answer without them would leave the context behind.
`sent` is every completion handed to the session. The batch is any sequence of
user prompts, agent work and `business_rule` items (for which the code has no
completion and throws). `Answered` may bring any answer, also in the middle of
a batch, where the code does not look at the work it lists, and its variables may
be unreadable (`AnswerUnreadable`); callbacks may throw (`CallbackThrows`).

`LoopEnds` is conditional: *if* every activity ends and every request settles
(`EnvironmentAnswers`), the loop ends, for any behaviour of the engine. The code
gives no reason to assume the condition unconditionally; the session gives half
of it (`DeathSettlesPromises`), and only for a process that dies. Fairness is
that of the loop's own code.

Bounds: three boundaries (the code's limit is 100, here a constant), batches of
up to two, two prompts. Three boundaries are what a prompt needs to come back
after an unrelated one, and the limit itself is reached.

### ServerWorkflow

Visit `<<l, b, n>>` is node `n` at boundary `b` of life `l` of the instance,
where a life begins with a start the server served. `wire` holds requests that
may still reach the server, `asking` the one the run is waiting on; a request
that is in `wire` and not `asking` comes late. A request may be refused, lost,
served with its answer lost, or late. Runs follow each other, each ending well,
failing, interrupted or crashed, each with the option of a new start (`fresh`)
and of recoveries (`optedIn`), drawn when the code first reads it. `Cancel` is
another process with `--cancel`.

When host work fails, the run posts evidence for each item, then, if it opted
in, asks the server to apply its recovery plan, and else or if that fails reads
the diagnostics. `told` is what it says of this. `ToldIsTrue` joins everything a
run states, in the graph, as evidence and about recovery, with what the server
did. Its converse fails: an apply whose answer is lost, or that is served after
the run gave up, is told as failed.

`TakenWorkNotRepeated` and `CheckpointNotOverwritten` carry the exception that
the protocol leaves open: unless a request was served after its run gave it up.
The client cannot rule that out, as requests carry no attempt or lease. The
stall guard and the boundary limit are those of `HostLoop` and reduce here to
`BoundaryThrows`; variables are left out.

No fairness: the module states safety only. Bounds: two runs, two boundaries,
two nodes (interchangeable, hence the symmetry of `MCServerWorkflow`), one late
request at a time. Two runs are a run and the one that resumes or repeats it;
one late request is what the exceptions speak of.

### NativeSession

`phase` is where a run is, `stoppedBy` its signal, `bridge` the planner inbox
that is global to the process. A prompt is *queued* in the renderer it was asked
from, *shown*, *answered* or *rejected*; `overlays` is what is on screen, which
after an interrupt is more than what is still awaited; `scopes` is
`activeWorkflowUiEscScopes`. A free-text task is shown in a plain editor
(`Direct`), the others by an ask flow, which keeps its scope until it is closed.

`StopEndsRun` is the liveness promise of `/stop` and Escape, with the one
exception the code has: an agent's prompt in front, which hears only its own
signal. Fairness: a preparation ends, renderers show the next prompt, signals are
heard, and a run whose human task was rejected ends. `EveryPromptSettles` is
conditional on a user who closes what is on screen (`UserCloses`); nobody else
can be asked to.

Bounds: two runs, two human tasks (one of each kind), one agent's question: an
agent of the first run asks in the second with a task of the second behind it.

### NodeRunner

`env` and `saved` are the credentials in the process environment and what each
agent saves. Agents that end in the reverse order of their beginnings restore
the user's; others do not, which `crossed` records: `EnvironmentRestored` says
that nothing but crossing leaves the wrong key, not a failing session nor an
agent without a key. Three agents, two of them with keys.

### ReplyTracker, Intercom, ReplyTurns

`ReplyTracker` has the tracker's methods as operators on a value. `Intercom` is
the use the code makes of them: each call is the sequence of store operations
of the handler, in the order of the store's queue, with a failing operation or
a restart in between. `forgotten` is history: asks dropped by the three paths
that settle no record (the prune of a reply, that of a listing, a restart).
`WaitingIsTracked` says these are the only ones. `ReplyTurns` is the class with
all its public methods in any order, turns included, for its other users.

Bounds: two asks of one session (so that a reply to the session is ambiguous),
two calls of any kind, a timeout of zero with a clock of two ticks, one
redelivery, one store error, one restart.

### Compile, NamedWorkflow, Preflight

What a model answers, and what a lint says of it, is one of a few kinds:
nothing, refused by qianji's lint, refused only by the contract, good. In
`Compile`, files remember the compile that wrote them. In `Preflight`, a text is
its kind and a fingerprint the texts it is of; every lint reads the files anew,
and edits fall anywhere between. `raced` and `poisoned` are history: a preflight
during which something changed, and a fingerprint cached by one. `StartedIsSound`
excepts these, and they do occur. In `NamedWorkflow` a time is the number of the
change; `overtaken` marks a text that changed after it was read.

Bounds: two compiles with two repairs; two sessions and six changes of files;
two runs with two changes, for a cache written in the first and used in the
second.

### TaskContract

A workflow is what decides its questions: the outputs of the service task before
the prompt and of a task behind it, the user or manual task's type, variables,
literal choices and answer, the loop. All of them are checked, over two rounds of
the loop. A task that fails, or asks what cannot be answered, does so for one of
three reasons. `LeftToRunTime` names what the lint does not look at: a *question*
variable without producer, choices without values, and a human task without any
interaction. `ProducerMisplaced`: the lint asks for a producer of the choices, but
takes one anywhere in the process, a task that runs later or the user task's own
answer included, and asks it of user tasks only. `ProducerAtFault`: an agent did
not produce what its task declares. The rule about the inputs of a task that a
feedback loop returns to is about the file only and not modelled.

### RunView

The engine's trace is a sequence of node and status. It is written in lines, is
read in chunks that cut lines anywhere, may end without a newline, or comes in
the final report. `Told` is what of it reached the process. A handler that throws
(`HandlerThrows`, `traceError` in the code) is the last one called: the events
behind it are passed over, and the run is rejected when its process has ended. So
are a report that cannot be parsed and variables that cannot be read. `result`
tells a run that ended by the exit code of its process (`failure`) from one that
something was thrown in (`error`), both of which the user sees as failed: the
first has shown every event, the second may have stopped anywhere. Error lines
logged by others change the run's message and not its result. Two nodes, two
events, one status known, one unknown and one failed.

### LiveAnswers, CorpusBenchmark, SearchTrace

`LiveAnswers`: rows carry the edit of the request they answer and the run that
wrote them; a write may be cut at any point. Three rows in chunks of two, three
runs, two edits. `CorpusBenchmark`: items are numbered as the pool hands them
out; three rows, two workers, batches of two, one retry, one warm-up row, so
that batches are uneven and end in either order. `SearchTrace`: of a trace
remain the candidates selected and those with an action; two candidates and an
unknown one, two searches.

### MemoryRecall

Packets are four that differ in what the code compares (ids and counts) and in
what it does not (values). A session is its list of entries; processes follow
each other with other packets, resume and fork sessions. One row and one object
are shown, so packets exceed what is shown.

## Runs

| run | module | shows |
| --- | --- | --- |
| `manager` | SubagentManager | records in flight, verdicts for waiters, interrupts, lifecycle of one-shot agents |
| `host` | MCSubagentHost | outputs come from agents of their own visit, declared ones from agents that completed |
| `host_retry` | MCSubagentHost | three overlapping attempts: duplicates and reopened results only for exposed visits; interrupted runs end |
| `store` | RunStore | the file is an atomic map in call order, errors stay with their call, no call hangs |
| `session` | HostSession | whole results, no promise on a dead process, request and reply |
| `loop` | HostLoop | whole batches in order, context, prompts, interrupts, termination |
| `server` | MCServerWorkflow | taken work and checkpoints kept; traces, evidence and recoveries told as they are |
| `interaction` | MCInteraction | stops, prompts and Escape; environment and tool scope; asks and their records |
| `cli` | MCCommandLine | sound lints and caches, answerable tasks, the graph, evidence, reports, recall |
| `manager_resume_wait` | SubagentManager | *violated* `WaitAnswersFinalStatus` |
| `host_duplicate` | MCSubagentHost | *violated* `NoDuplicateWork` |
| `host_no_outputs` | MCSubagentHost | *violated* `DoneMeansAgentCompleted` |

The passing runs have from 140 thousand to 7.5 million states (`host`, under three
minutes with two workers). A type invariant is checked in `host` only; those of the other
modules are parts of the inductive invariants of their proofs.

Deadlock is not checked where the modelled system really stops: a loop that has
ended, a session that is closed, a bounded number of calls, attempts or runs.

`PROJECT.json` lists for every checked property the mutant of the code that
breaks it.

## Where code and documentation disagree

- **A wait that does not wait.** `get_subagent_result` with `wait: true` ("Wait
  for completion before returning", `subagents/register.ts:49`) on an agent that
  was resumed returns at once with "still running", because `resume` does not
  replace `record.promise` (`manager.ts:85`).
- **Duplicate work.** README:742 asks to store the subagent id "immediately
  after spawn" so that a resume does not duplicate work. The id is stored when
  the spawn call has *answered*, which for `runInBackground: false` is when the
  agent has ended, and an interrupted task no longer waits for the put
  (`pi-subagents-host.ts:338`). A retry in that window spawns a second agent.
- **Failed agents taken for completed.** `extractPiSubagentError` knows "Status:
  error"; the manager writes "Status: failed" and "Agent not found". A visit
  without declared outputs is then completed (`pi-subagents-host.ts:441`),
  against the test "reports pi-subagents runtime errors before completing host
  work".

More are plain from reading and have no run:

- When one activity of a batch fails, `recordHostWorkFailureEvidence` posts its
  error for every item of the batch (`qianji-server-workflow.ts:237`);
  README:122 speaks of execution failures. The model has it so (`ReportNext`).
- README:125-126 says that the diagnostics read `/summary` and `/recovery`; the
  code reads `/diagnostics` (`control-diagnostics.ts:27`).
- docs/start-at-node.md:51-53 says that host work that is not a user task can be
  completed from `manual_tasks`; `resolveFixtureCompletion` treats manual tasks
  as human and `buildNonHumanCompletionFixture` does not pass them on.

Behaviours of the code worth knowing, none of them contradicted by a document:

- Agents with API keys whose lives cross restore each other's environment
  (`node-runner.ts:361`).
- A cached named workflow is run without the DMN table compiled with it
  (`named-workflows.ts:97`), and `compile` of a skill that does not end in `.md`
  writes over it.
- An ask pruned by a reply or a listing keeps a record that says *waiting*
  (`intercom-correlation.ts:108`), as does one whose delivery throws.
- An overlay whose prompt was interrupted stays on screen, and Escape goes to it.
- A late error line turns a finished run's message to *failed*.
- A row of the benchmark that needs no judgement fails when a model is used.
- The memory benchmark may expect claims beyond the part of the packet it shows.
- Node statuses stay *active* when a session-mode run fails, an interrupt during
  host work over HTTP is reported as an execution error
  (`qianji-server-workflow.ts:177`), and a run whose last answer was lost is
  started over by the next, as the server has no checkpoint
  (`http/workflow.ts:23`).
- Temporary directories stay when a file in them cannot be written
  (`strategy-flow-julia.ts:96`).

## What is proved

Every safety property that a passing run checks is a theorem for every value of
the constants: any number of visits, attempts, agents, callers, requests,
boundaries, rows, events, runs or edits where the run has two or three. So are
the four refinements and the other action properties. The assumptions are
those the modules name (`...Assumption`), which say that bounds are numbers,
that subsets are subsets and that the sets of two kinds of calls do not meet.
Each theorem has the form `Spec => []P` or `Spec => P`, and rests on one
theorem of its module, `InvariantHolds`, about an inductive invariant `IInv`.
None of the properties is inductive; what follows says what each lacks.

**`SubagentHostProofs`**: `TypeCorrect`, `OutputIsOwn`, `OutputsAreProduced`;
then `HistoryHolds`, `DuplicatesExplained` and `CachedResultStays`. A run that is
done holds an agent id that may have come a long way: from the run that spawned
it, into the file, from there into the snapshot of a later run, and into that
run's own variable. `IInv` follows the id. `OwnInv` says at each of the three
places (`mine`, `stored`, `store`) that the id belongs to the visit; it rests on
`KeysDiffer`, that the run key tells visits apart, which is where a key without
inputs would break the proof. `CompletedInv` says at the same places that a
*completed* record, or a run past `Collect`, of a declared visit names an agent
that completed. `HistoryInv` is about visits that are not exposed, and holds
their whole history in five statements (`VisitInv`): only the current attempt
looks up or spawns, an agent at work is the one on record, who waits for another
agent waits for one that failed, a lookup is still true when it is used, and a
spawn is alone.

**`RunStoreProofs`**: `StoreIsAtomic`. A write takes effect at its rename, long
after its read. What makes the two one step is that only the head of the queue is
past *queued* (`QueueInv`), so the file is still what the head read (`HeldInv`);
and as the queue is in call order, all earlier calls have settled.

**`HostSessionProofs`**: `ResultsAreWhole`, `ConversationKept`. Nothing the
process writes says which request it answers. `IInv` says that there is a current
request and that everything in the two pipes, the trace queue and the buffers is
about it, its result last; trace events are counted along the way.

**`HostLoopProofs`**: `PostedInOrder`, `ContextIsEngines`, `ShownOnce`,
`InterruptStops`, `ConversationUsed`. `PostInv` says for each place of the loop
which completions have been posted: at a boundary all there are, in a batch those
of the earlier ones, while posting also the items up to the last one posted.
`ContextInv` relates the two sides of the variable at each place, and `StartedInv`
the copies of the batch to both.

**`SubagentManagerProofs`**: `NoneAbandoned`, `WaitEndsWithVerdict`,
`SteeringIsPrompted`, `PoolOfOneShots`. The record of an agent nobody resumes says
where its one run is (`OneShotInv`), and only records with a session are resumed.

**`ServerWorkflowProofs`**: `RunTellsTruth`, `WorkIsNotRepeated`,
`CheckpointIsKept`. `IInv` says what a run may conclude from an answer: it belongs
to the request that the place in the program asks (`AskingInv`), the server did
what it says (`AnswerInv`), and while nothing was served late nobody but the run
has moved the instance (`OnlyOwnRequests`). That a request left behind in `wire`
is a run's only one of its kind is counted in `LivesInv`.

**`InteractionProofs`**: `OutputsLegitimate` and `EnvironmentIsRestored` of the
node runner (until agents cross, what each saved is what its place in the stack
of agents says); `AsksTracked` and `AnswerIsKept` of the intercom (an ask in the
tracker was delivered once more than it was answered, an ask about to be marked
expired was not answered); `EscapeToPrompt` of the native session (the count of
scopes is the number of prompts that hold one).

**`CommandLineProofs`**: `LintedSound` (between its two writes, a compile has a
workflow on disk whose table is in its hand; a fingerprint in the cache, unless
poisoned, is of texts that pass), `FreshIsCurrent` (a cache not older than its
source was made from it, and so is what a compile under way has read),
`TaskAnswerable` (what the choices hold tells who wrote them, `WriterInv`),
`EvidenceAnswers` (a run's rows answer the rows it asked one by
one, also those it took over; at most one answer is cut per torn write) and
`SearchSound`. Three more speak of what a loop over a sequence leaves behind:

- `ReportSound`. Workers take items in any order and answers come in any order,
  so what makes a row's record its own is that no two items share a row
  (`ItemsFit`), no two workers hold one item (`WorkersInv`), and a row is untried
  until the item that has it is finished (`UntriedInv`). Then the attempts made
  of a row are those its record counts (`Fits`), through the collection and
  through the retries, which leave behind them only rows that had every try
  (`GaveUp`). `ItemsFit` is a fact about two conversions: the rows a batch run
  chooses are increasing (`ChosenRows`), so the chunks they are cut into are
  disjoint (`ChunksFit`).
- `GraphShown`. `EventsInv` places every event: of a run that streams, and whose
  handlers have not thrown, the trace is what was handled, then the callback's
  queue, then the pipe; one that does not stream handles nothing before its end. `GraphInv` says of each node that
  it is shown as the last event handled of it says, or else the checkpoint
  (`ShownBy`). An event at a time that is one step of the graph (`ShownNext`); the
  report of a run that does not stream applies them all at once (`TraceShown`),
  or, when something throws on the way, a first part of them (`ReportApplied`).
  After a handler threw, all that is left to say is that what was handled is a
  prefix of the trace.
- `RecallTold`. No session holds two entries with equal details (`Distinct`), and
  one on the screen holds an entry for the packet its process read (`Holds`): a
  fork may cut it off, and then the extension puts it back. Equal details are
  equal ids and counts, so the entry tells the packet even when an earlier
  process made it from another one (`EntryTells`).

A filter, a fold over events and a choice of rows are loops in the code and
`FoldLeft` in the model, whose value is a `CHOOSE` of a function on the sets of
indices. The section "Folds" unrolls it once for all three: `Induction` on sets
of naturals comes from the least member of a set (`Least`, the naturals being
well founded), with it a function that folds any step exists (`FoldExists`), and
so there is a run of accumulators from the first to the fold (`FoldRun`), about
which the three lemmas `ChosenRun`, `TraceApplied` and `Filtered` speak.

In these two modules each machine has its invariant and its induction, and the
process needs that a step of one machine leaves the others where they are.

## What is only model-checked

- Liveness under fairness, which the proof system does not support:
  `InterruptEndsRuns`, `LoopEnds`, `DeathSettlesPromises`, `EveryCallSettles`,
  `InterruptTakesEffect`, `StopEndsRun`, `EveryPromptSettles`. (Where a refinement
  is a theorem, the abstract specification is one of safety.)
- The violations that three runs find, which are traces and not theorems.

## Limits

- Text is abstracted: rendering, parsing, prompts, graph layout. Where a
  property depends on a conversion (`Render`, `Yields`, `BuildRunKey`), the
  model has what the conversion distinguishes.
- `SubagentHost` takes its store to be atomic because `RunStore` shows it, with
  operations that may reject and then have no effect;
  `HostLoop` takes activities and session as described above; `NativeSession`
  takes a run to be its human tasks. They are not composed in one state space.
- In `SubagentHost`, an answer of the Agent tool that is plain text is itself taken
  for an agent id. That such an agent is unknown to the manager is modelled; that
  one may be at work all the same is not.
- Turn limits of agents, display of activity and the child's tools are left out
  of `SubagentManager`.
- The stores are those of one process: nothing orders two of them on one path.

## Plan

1. Compose `HostLoop` with `HostSession`, whose results the loop takes one at a
   time, and prove that the composition keeps `ShownOnce`.
2. Flowhub scenarios and the workflow catalog, if they come to keep state of
   their own.
