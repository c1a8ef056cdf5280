--------------------------- MODULE ServerWorkflow ---------------------------
(***************************************************************************)
(* The host loop over HTTP (src/executor/qianji-server-workflow.ts): runs of*)
(* one workflow instance that qianji-server keeps.  A run resumes the       *)
(* instance, or starts it if the server has no checkpoint of it; whenever   *)
(* the server stops on host work it runs the batch, completes it with one   *)
(* request, and reports a failure as evidence for every item of the batch.  *)
(*                                                                         *)
(* Runs follow one another; each ends well, fails, is interrupted or        *)
(* crashes.  A request may be refused, may get lost, and may reach the      *)
(* server after its run has given up on it.  A run may ask for a new start, *)
(* and for a recovery of failed host work; an operator may cancel the       *)
(* instance at any time.  The server is external.                           *)
(*                                                                         *)
(* Visit <<l, b, n>> is node n pending at host boundary b of life l of the  *)
(* instance (a life begins when the server serves a start).                 *)
(***************************************************************************)
EXTENDS Naturals, FiniteSets

CONSTANTS
  MaxRuns,         \* bound: executions of pi-wendao on the instance
  MaxBoundaries,   \* bound: host boundaries of the workflow
  MaxLate,         \* bound: requests that may be served late at any one time
  Nodes            \* the nodes that stop on host work

ASSUME BoundsAssumption == {MaxRuns, MaxBoundaries, MaxLate} \subseteq Nat \ {0}

Visits == (1..MaxRuns) \X (1..MaxBoundaries) \X Nodes
Batches == SUBSET Visits
Runs == 1..MaxRuns
Requests == [op : {"resume", "start", "complete", "fail", "apply"}, run : Runs, visits : Batches]
None == [op |-> "none"]

VARIABLES
  run, pc,       \* the current run and where it is, or how it ended
  fresh,         \* the runs that ask for a new start (start mode, start node)
  optedIn,       \* the runs that ask for recoveries (--qianji-control-apply-recovery)
  signal,        \* its soft-interrupt signal has fired
  latest,        \* the host work in the last answer
  outcome,       \* and its outcome
  activity,      \* the activity of each node in the batch
  toReport,      \* visits whose failure evidence is still to be posted
  asking,        \* the request it waits for
  reply,         \* its answer, once the server has sent it
  wire,          \* requests that may still reach the server
  shown,         \* the graph: the status of each node
  told,          \* what the run says of recovery, in its log and graph
  instance, life, at, pending,     \* the server: the instance it keeps
  applied,       \* the server: the visits it took a completion of
  evidence,      \* the server: the visits with an ActivityFailed fact
  recovered,     \* the server: the runs for which it applied its recovery plan
  closed,        \* history: visits traced as completed
  broken,        \* history: runs whose host work failed, and where
  repeated,      \* history: a visit was begun that the server had taken
  overwrote,     \* history: a start replaced a living instance
  late           \* history: a request was served that its run had given up

choices == <<fresh, optedIn>>
client == <<run, pc, choices, signal, latest, outcome, activity, toReport, asking, shown, told>>
server == <<instance, life, at, pending, applied, evidence, recovered, overwrote, late>>
vars == <<client, reply, wire, server, closed, broken, repeated>>

Ended == {"idle", "returned", "threw", "host failed", "interrupted", "crashed"}
Outcomes == {"blocked", "completed", "failed", "missing", "refused", "applied"}
Lines == {"attempted", "apply failed", "reported", "diagnostics failed"}
Answers == [outcome : Outcomes, visits : Batches]

TypeOK ==
  /\ run \in 0..MaxRuns
  /\ pc \in {"checking", "resuming", "starting", "boundary", "batch", "completing",
              "reporting", "recovering", "diagnosing"} \cup Ended
  /\ fresh \subseteq Runs /\ optedIn \subseteq Runs
  /\ signal \in BOOLEAN /\ latest \in Batches
  /\ outcome \in {"blocked", "completed", "failed"}
  /\ activity \in [Nodes -> {"absent", "running", "done"}]
  /\ toReport \in Batches
  /\ asking \in Requests \cup {None} /\ reply \in Answers \cup {None}
  /\ wire \in SUBSET Requests
  /\ shown \in [Nodes -> {"idle", "active", "completed", "failed"}]
  /\ told \subseteq Lines
  /\ instance \in {"none", "open", "failed"}
  /\ life \in 0..MaxRuns /\ at \in 0..MaxBoundaries /\ pending \in SUBSET Nodes
  /\ applied \in Batches /\ evidence \in Batches
  /\ recovered \subseteq Runs
  /\ closed \in Batches
  /\ broken \subseteq [run : Runs, life : 1..MaxRuns, at : 1..MaxBoundaries]
  /\ {repeated, overwrote, late} \subseteq BOOLEAN

Init ==
  /\ run = 0 /\ pc = "idle" /\ signal = FALSE
  /\ fresh = {} /\ optedIn = {} /\ told = {} /\ recovered = {}
  /\ latest = {} /\ outcome = "blocked"
  /\ activity = [n \in Nodes |-> "absent"]
  /\ toReport = {} /\ asking = None /\ reply = None /\ wire = {}
  /\ shown = [n \in Nodes |-> "idle"]
  /\ instance = "none" /\ life = 0 /\ at = 0 /\ pending = {}
  /\ applied = {} /\ evidence = {} /\ closed = {} /\ broken = {}
  /\ repeated = FALSE /\ overwrote = FALSE /\ late = FALSE

NodesOf(visits) == {v[3] : v \in visits}
Show(nodes, status) ==
  shown' = [n \in Nodes |-> IF n \in nodes THEN status ELSE shown[n]]

-----------------------------------------------------------------------------
(* Requests.  postQianjiServerJson sends nothing once the signal has fired. *)

Request(op, visits) == [op |-> op, run |-> run, visits |-> visits]

Send(op, visits) ==
  /\ asking' = Request(op, visits)
  /\ wire' = wire \cup {Request(op, visits)}
  /\ reply' = None

\* The answer arrives.
Answered == reply # None /\ asking' = None /\ reply' = None /\ UNCHANGED wire

\* The request is given up; the server may serve it all the same.
Abandoned == wire' \in {w \in {wire, wire \ {asking}} : Cardinality(w) <= MaxLate}

\* There is no usable answer: the server refused, the connection broke before
\* or after the request was served, or the interrupt ended the fetch.
Unanswered ==
  /\ asking # None
  /\ \/ reply # None /\ reply.outcome = "refused" /\ UNCHANGED wire
     \/ Abandoned
  /\ asking' = None /\ reply' = None

-----------------------------------------------------------------------------
(* The server. *)

Current == {<<life, at, n>> : n \in pending}

\* The instance stops at its next boundary, completes or fails.
StopAt(l, b) ==
  /\ life' = l
  /\ \/ /\ b <= MaxBoundaries
        /\ instance' = "open" /\ at' = b
        /\ pending' \in SUBSET Nodes \ {{}}
     \/ instance' = "none" /\ at' = 0 /\ pending' = {}
     \/ instance' = "failed" /\ at' = 0 /\ pending' = {}

Report ==
  [outcome |-> CASE instance = "open" -> "blocked" [] instance = "none" -> "missing"
                 [] OTHER -> "failed",
   visits |-> Current]
NewReport ==
  [outcome |-> CASE instance' = "open" -> "blocked" [] instance' = "none" -> "completed"
                 [] OTHER -> "failed",
   visits |-> Current']
Refusal == [outcome |-> "refused", visits |-> {}]
Applied == [outcome |-> "applied", visits |-> {}]

Serve(r, answer) ==
  /\ r \in wire
  /\ wire' = wire \ {r}
  /\ reply' = IF r = asking THEN answer ELSE reply
  /\ late' = (late \/ r # asking)
  /\ UNCHANGED <<client, closed, broken, repeated>>

ServeResume(r) ==
  /\ r.op = "resume"
  /\ Serve(r, Report)
  /\ UNCHANGED <<instance, life, at, pending, applied, evidence, recovered, overwrote>>

ServeStart(r) ==
  /\ r.op = "start"
  /\ StopAt(life + 1, 1)
  /\ overwrote' = (overwrote \/ (instance # "none" /\ r.run \notin fresh))
  /\ Serve(r, NewReport)
  /\ UNCHANGED <<applied, evidence, recovered>>

ServeComplete(r) ==
  /\ r.op = "complete" /\ instance = "open" /\ r.visits = Current
  /\ applied' = applied \cup r.visits
  /\ StopAt(life, at + 1)
  /\ Serve(r, NewReport)
  /\ UNCHANGED <<evidence, recovered, overwrote>>

ServeFail(r) ==
  /\ r.op = "fail" /\ instance = "open" /\ r.visits \subseteq Current
  /\ evidence' = evidence \cup r.visits
  /\ Serve(r, Report)
  /\ UNCHANGED <<instance, life, at, pending, applied, recovered, overwrote>>

\* The recovery plan is applied in the control ledger, not in the instance.
ServeApply(r) ==
  /\ r.op = "apply"
  /\ recovered' = recovered \cup {r.run}
  /\ Serve(r, Applied)
  /\ UNCHANGED <<instance, life, at, pending, applied, evidence, overwrote>>

\* Work that is not pending, and any other reason.
Refuse(r) ==
  /\ Serve(r, Refusal)
  /\ UNCHANGED <<instance, life, at, pending, applied, evidence, recovered, overwrote>>

\* Another process: pi-wendao --cancel deletes the checkpoint.
Cancel ==
  /\ instance # "none"
  /\ instance' = "none" /\ at' = 0 /\ pending' = {}
  /\ UNCHANGED <<client, reply, wire, life, applied, evidence, recovered, overwrote, late,
                 closed, broken, repeated>>

-----------------------------------------------------------------------------
(* A run: resume or start. *)

StartRun ==
  /\ pc \in Ended /\ run < MaxRuns
  /\ run' = run + 1
  /\ pc' = "checking" /\ signal' = FALSE
  /\ latest' = {} /\ outcome' = "blocked" /\ toReport' = {} /\ told' = {}
  /\ activity' = [n \in Nodes |-> "absent"]
  /\ Show(Nodes, "idle")
  /\ asking' = None /\ reply' = None
  /\ UNCHANGED <<choices, wire, server, closed, broken, repeated>>

\* The server has the capabilities a run needs.  (An option of a run is drawn
\* when it is first read.)
OpenInstance ==
  /\ pc = "checking" /\ ~signal
  /\ \/ fresh' = fresh \cup {run} /\ pc' = "starting" /\ Send("start", {})
     \/ UNCHANGED fresh /\ pc' = "resuming" /\ Send("resume", {})
  /\ UNCHANGED <<run, optedIn, signal, latest, outcome, activity, toReport, shown, told,
                 server, closed, broken, repeated>>

\* It has not, or did not say: nothing is asked of it.
CheckFails ==
  /\ pc = "checking"
  /\ \/ pc' = "threw"
     \/ signal /\ pc' = "interrupted"
  /\ UNCHANGED <<run, choices, signal, latest, outcome, activity, toReport, asking, shown, told,
                 reply, wire, server, closed, broken, repeated>>

Opening == pc \in {"resuming", "starting"}

Opened ==
  /\ Opening /\ Answered
  /\ reply.outcome \in {"blocked", "completed", "failed"}
  /\ latest' = reply.visits /\ outcome' = reply.outcome
  /\ pc' = "boundary"
  /\ UNCHANGED <<run, choices, signal, activity, toReport, shown, told, server, closed, broken, repeated>>

(* Mutant: whatever went wrong with the resume, the instance is started. *)
CheckpointMissing_AnyError ==
  reply # None /\ reply.outcome \in {"missing", "refused"}

CheckpointMissing == reply # None /\ reply.outcome = "missing"

\* Only a missing checkpoint is answered by a start.
FallBackToStart ==
  /\ pc = "resuming" /\ CheckpointMissing /\ ~signal
  /\ pc' = "starting"
  /\ Send("start", {})
  /\ UNCHANGED <<run, choices, signal, latest, outcome, activity, toReport, shown, told,
                 server, closed, broken, repeated>>

OpeningFails ==
  /\ Opening /\ Unanswered
  /\ \/ pc' = "threw"
     \/ signal /\ pc' = "interrupted"
  /\ UNCHANGED <<run, choices, signal, latest, outcome, activity, toReport, shown, told,
                 server, closed, broken, repeated>>

-----------------------------------------------------------------------------
(* A run: the host boundaries. *)

Return ==
  /\ pc = "boundary" /\ outcome # "blocked"
  /\ pc' = "returned"
  /\ UNCHANGED <<run, choices, signal, latest, outcome, activity, toReport, asking, shown, told,
                 reply, wire, server, closed, broken, repeated>>

\* Interrupted, out of boundaries, or stalled on a repeated prompt.
BoundaryThrows ==
  /\ pc = "boundary" /\ outcome = "blocked"
  /\ pc' = IF signal THEN "interrupted" ELSE "threw"
  /\ UNCHANGED <<run, choices, signal, latest, outcome, activity, toReport, asking, shown, told,
                 reply, wire, server, closed, broken, repeated>>

StartBatch ==
  /\ pc = "boundary" /\ outcome = "blocked" /\ ~signal
  /\ activity' = [n \in Nodes |-> IF n \in NodesOf(latest) THEN "running" ELSE "absent"]
  /\ Show(NodesOf(latest), "active")
  /\ repeated' = (repeated \/ latest \cap applied # {})
  /\ pc' = "batch"
  /\ UNCHANGED <<run, choices, signal, latest, outcome, toReport, asking, told,
                 reply, wire, server, closed, broken>>

ActivityDone(n) ==
  /\ pc = "batch" /\ activity[n] = "running" /\ ~signal
  /\ activity' = [activity EXCEPT ![n] = "done"]
  /\ UNCHANGED <<run, pc, choices, signal, latest, outcome, toReport, asking, shown, told,
                 reply, wire, server, closed, broken, repeated>>

\* The first failure rejects the batch; what the others do is not awaited.
ActivityFails(n) ==
  /\ pc = "batch" /\ activity[n] = "running"
  /\ activity' = [m \in Nodes |-> "absent"]
  /\ broken' = broken \cup {[run |-> run, life |-> v[1], at |-> v[2]] : v \in latest}
  /\ pc' = "reporting" /\ toReport' = latest
  /\ UNCHANGED <<run, choices, signal, latest, outcome, asking, shown, told,
                 reply, wire, server, closed, repeated>>

BatchInterrupted ==
  /\ pc = "batch" /\ signal
  /\ \E n \in Nodes : activity[n] = "running"
  /\ pc' = "interrupted"
  /\ UNCHANGED <<run, choices, signal, latest, outcome, activity, toReport, asking, shown, told,
                 reply, wire, server, closed, broken, repeated>>

BatchDone == \A n \in NodesOf(latest) : activity[n] = "done"

(* Mutant: the nodes are traced as completed before the server answers. *)
PostBatch_TracesFirst ==
  /\ pc = "batch" /\ BatchDone /\ ~signal
  /\ pc' = "completing"
  /\ closed' = closed \cup latest
  /\ Send("complete", latest)
  /\ UNCHANGED <<run, choices, signal, latest, outcome, activity, toReport, shown, told,
                 server, broken, repeated>>

PostBatch ==
  /\ pc = "batch" /\ BatchDone /\ ~signal
  /\ pc' = "completing"
  /\ Send("complete", latest)
  /\ UNCHANGED <<run, choices, signal, latest, outcome, activity, toReport, shown, told,
                 server, closed, broken, repeated>>

\* The interrupt came after the last activity: nothing is posted.
PostInterrupted ==
  /\ pc = "batch" /\ BatchDone /\ signal
  /\ Show(NodesOf(latest), "failed")
  /\ pc' = "threw"
  /\ UNCHANGED <<run, choices, signal, latest, outcome, activity, toReport, asking, told,
                 reply, wire, server, closed, broken, repeated>>

\* The nodes of the batch that the answer does not list again.
Cleared(nodes) == NodesOf(latest) \ nodes

CloseNodes(answer) ==
  IF answer.outcome = "failed"
  THEN Show(NodesOf(latest), "failed") /\ UNCHANGED closed
  ELSE /\ Show(Cleared(NodesOf(answer.visits)), "completed")
       /\ closed' = closed \cup {v \in latest : v[3] \in Cleared(NodesOf(answer.visits))}

BatchAnswered ==
  /\ pc = "completing" /\ Answered
  /\ reply.outcome \in {"blocked", "completed", "failed"}
  /\ CloseNodes(reply)
  /\ latest' = reply.visits /\ outcome' = reply.outcome
  /\ pc' = "boundary"
  /\ UNCHANGED <<run, choices, signal, activity, toReport, told, server, broken, repeated>>

(* Mutant: the run goes on with the last answer it had. *)
CompletionFails_GoesOn ==
  /\ pc = "completing" /\ Unanswered
  /\ Show(NodesOf(latest), "failed")
  /\ pc' = "boundary"
  /\ UNCHANGED <<run, choices, signal, latest, outcome, activity, toReport, told,
                 server, closed, broken, repeated>>

CompletionFails ==
  /\ pc = "completing" /\ Unanswered
  /\ Show(NodesOf(latest), "failed")
  /\ pc' = "threw"
  /\ UNCHANGED <<run, choices, signal, latest, outcome, activity, toReport, told,
                 server, closed, broken, repeated>>

-----------------------------------------------------------------------------
(* A run: failure evidence, one request per item of the batch. *)

ReportNext(v) ==
  /\ pc = "reporting" /\ asking = None /\ v \in toReport
  /\ toReport' = toReport \ {v}
  /\ IF signal THEN UNCHANGED <<asking, reply, wire>> ELSE Send("fail", {v})
  /\ UNCHANGED <<run, pc, choices, signal, latest, outcome, activity, shown, told,
                 server, closed, broken, repeated>>

\* An error of the evidence request is only collected.
ReportSettles ==
  /\ pc = "reporting"
  /\ Answered \/ Unanswered
  /\ UNCHANGED <<run, pc, choices, signal, latest, outcome, activity, toReport, shown, told,
                 server, closed, broken, repeated>>

-----------------------------------------------------------------------------
(* A run: what the control ledger says of the failure, and the opt-in      *)
(* request to apply its recovery plan.  Neither replaces the error.         *)

Reported == pc = "reporting" /\ asking = None /\ toReport = {}

\* The trace of the batch, and the error of the host work.
EndHostFailed ==
  /\ Show(NodesOf(latest), "failed")
  /\ pc' = "host failed"

\* Lines for the log, and for the graph nodes of the batch and of the plan.
Tell(lines) == told' = told \cup lines

\* The server has the capability.
ApplyRecovery ==
  /\ Reported /\ ~signal
  /\ optedIn' = optedIn \cup {run}
  /\ pc' = "recovering"
  /\ Send("apply", {})
  /\ UNCHANGED <<run, fresh, signal, latest, outcome, activity, toReport, shown, told,
                 server, closed, broken, repeated>>

RecoveryApplied ==
  /\ pc = "recovering" /\ Answered /\ reply.outcome = "applied"
  /\ Tell({"attempted"})
  /\ EndHostFailed
  /\ UNCHANGED <<run, choices, signal, latest, outcome, activity, toReport,
                 server, closed, broken, repeated>>

\* The capability is missing or unknown, or the request got no answer.
RecoveryFails ==
  /\ \/ Reported /\ UNCHANGED <<asking, reply, wire>>
     \/ pc = "recovering" /\ Unanswered
  /\ optedIn' = optedIn \cup {run}
  /\ Tell({"apply failed"})
  /\ pc' = "diagnosing"
  /\ UNCHANGED <<run, fresh, signal, latest, outcome, activity, toReport, shown,
                 server, closed, broken, repeated>>

NoRecovery ==
  /\ Reported
  /\ pc' = "diagnosing"
  /\ UNCHANGED <<run, choices, signal, latest, outcome, activity, toReport, asking, shown, told,
                 reply, wire, server, closed, broken, repeated>>

\* Read-only; an error of the request is one more line.
Diagnose ==
  /\ pc = "diagnosing"
  /\ \/ ~signal /\ Tell({"reported"})
     \/ Tell({"diagnostics failed"})
  /\ EndHostFailed
  /\ UNCHANGED <<run, choices, signal, latest, outcome, activity, toReport, asking,
                 reply, wire, server, closed, broken, repeated>>

-----------------------------------------------------------------------------
Interrupt ==
  /\ pc \notin Ended /\ ~signal
  /\ signal' = TRUE
  /\ UNCHANGED <<run, pc, choices, latest, outcome, activity, toReport, asking, shown, told,
                 reply, wire, server, closed, broken, repeated>>

Crash ==
  /\ pc \notin Ended
  /\ pc' = "crashed"
  /\ Abandoned /\ asking' = None /\ reply' = None
  /\ UNCHANGED <<run, choices, signal, latest, outcome, activity, toReport, shown, told,
                 server, closed, broken, repeated>>

Next ==
  \/ StartRun \/ OpenInstance \/ CheckFails \/ Opened \/ FallBackToStart \/ OpeningFails
  \/ Return \/ BoundaryThrows \/ StartBatch
  \/ \E n \in Nodes : ActivityDone(n) \/ ActivityFails(n)
  \/ BatchInterrupted \/ PostBatch \/ PostInterrupted \/ BatchAnswered \/ CompletionFails
  \/ \E v \in toReport : ReportNext(v)
  \/ ReportSettles
  \/ ApplyRecovery \/ RecoveryApplied \/ RecoveryFails \/ NoRecovery \/ Diagnose
  \/ Interrupt \/ Crash \/ Cancel
  \/ \E r \in wire : ServeResume(r) \/ ServeStart(r) \/ ServeComplete(r)
                     \/ ServeFail(r) \/ ServeApply(r) \/ Refuse(r)

Spec == Init /\ [][Next]_vars

-----------------------------------------------------------------------------
\* What a run tells is true.  A node the graph shows as completed was completed:
\* the server took the outputs of that visit, whatever answers were lost.  A run
\* that ends by itself, or through an error of the host work, leaves no node of the
\* graph as running.  Failure evidence is only about batches in which an activity
\* failed: not about interrupted batches, and not about lost completions.  A run
\* says it attempted a recovery only if the server applied one for it, the server
\* applies one only for a run that opted in and whose host work failed, and a run
\* that opted in never passes the question over.
ToldIsTrue ==
  /\ closed \subseteq applied
  /\ pc \in {"returned", "host failed"} => \A n \in Nodes : shown[n] # "active"
  /\ \A v \in evidence : \E w \in broken : w.life = v[1] /\ w.at = v[2]
  /\ "attempted" \in told => run \in recovered
  /\ \A r \in recovered : r \in optedIn /\ (\E w \in broken : w.run = r)
  /\ (pc = "host failed" /\ run \in optedIn) => told \cap {"attempted", "apply failed"} # {}

\* No run begins work that the server has a completion of, whatever answers
\* were lost, unless a request was served after its run gave it up.
TakenWorkNotRepeated == repeated => late

\* A run that did not ask for a new start replaces no checkpoint, again unless
\* a request was served late.
CheckpointNotOverwritten == overwrote => late
=============================================================================
