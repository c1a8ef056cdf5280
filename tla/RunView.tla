------------------------------- MODULE RunView -------------------------------
(***************************************************************************)
(* What the user sees of a run: the graph of the workflow and the run's     *)
(* message in the chat, while one qianji process runs it                    *)
(* (executePromise of src/executor/executor.ts, runQianjiCli of             *)
(* src/executor/qianji-cli.ts, src/ui/graph-view.ts,                        *)
(* src/cli/native/messages.ts).                                             *)
(*                                                                         *)
(* Covered: the graph drawn from the file and brought up to date from the   *)
(* checkpoint; trace lines that arrive in chunks and are handled one by     *)
(* one, each taking its time; a handler that throws; a report that carries  *)
(* the trace when none was streamed, or cannot be read; the interrupt, at   *)
(* any moment; the end of the process, with or without a newline after its  *)
(* last line; error lines logged by others.                                 *)
(* A trace event is a node and a status; flows, counts and wording are left *)
(* out.  External: the qianji process.                                      *)
(***************************************************************************)
EXTENDS Naturals, Sequences, SequencesExt, FiniteSetsExt

CONSTANTS
  Nodes,      \* nodes of the workflow
  Statuses,   \* statuses the engine tells of
  MaxEvents   \* bound on the events of a run

RunViewAssumption == MaxEvents \in Nat /\ "none" \notin Statuses

VARIABLES
  phase,      \* how far the run is
  aborted,    \* its signal
  graph,      \* the status each node shows
  checkpoint, \* what the status command told of the nodes
  stream,     \* does the process stream its trace?
  trace,      \* the events of the engine
  pipe,       \* lines written and not yet read
  open,       \* did the process end without a newline?
  code,       \* its exit code, "none" while it runs
  report,     \* the trace of its final report: "none", "trace" or "bad" JSON
  streamed,   \* streamedTrace
  queue,      \* events behind traceQueue
  threw,      \* traceError
  handled,    \* events the graph shows, in the order they were applied
  result,     \* what execute returned: an "error" is a failure that was thrown
  message     \* the run's message in the chat

vars == <<phase, aborted, graph, checkpoint, stream, trace, pipe, open, code, report,
          streamed, queue, threw, handled, result, message>>
child == <<checkpoint, stream, trace, pipe, open, code, report, streamed, queue, threw>>

\* toGraphNodeStatus; a status it does not know changes nothing.
GraphStatus ==
  [idle |-> "pending", queued |-> "active", executing |-> "active",
   completed |-> "done", cancelled |-> "error", failed |-> "error"]
SetNodeStatus(g, e) ==
  IF e.status \in DOMAIN GraphStatus THEN [g EXCEPT ![e.node] = GraphStatus[e.status]] ELSE g

Init ==
  /\ phase = "idle" /\ aborted = FALSE /\ graph = [n \in Nodes |-> "none"]
  /\ checkpoint = [n \in Nodes |-> "none"] /\ stream = FALSE /\ trace = <<>>
  /\ pipe = <<>> /\ open = FALSE /\ code = "none" /\ report = "none" /\ streamed = FALSE
  /\ queue = <<>> /\ threw = FALSE /\ handled = <<>> /\ result = "none"
  /\ message = [status |-> "none", success |-> FALSE]

Start ==
  /\ phase = "idle"
  /\ phase' = "started" /\ message' = [status |-> "running", success |-> FALSE]
  /\ UNCHANGED <<aborted, graph, child, handled, result>>

\* appendWorkflowRunLines: an error line marks the run as failed, ended or not.
WithError(m) == [m EXCEPT !.status = "failed"]
Interrupted == phase' = "ended" /\ result' = "interrupted" /\ UNCHANGED message
\* What is thrown is logged (onError) and makes the result a failure.
Throws == phase' = "ended" /\ result' = "error" /\ message' = WithError(message)

\* populateGraphViewFromBpmn
Drawn == [n \in Nodes |-> "pending"]

\* executePromise up to onGraphReady: the status command is asked only about an instance
\* the caller named.
Prepare ==
  /\ phase = "started"
  /\ \/ aborted /\ Interrupted /\ UNCHANGED graph
     \/ ~aborted /\ Throws /\ graph' \in {graph, Drawn}
     \/ /\ ~aborted
        /\ graph' = Drawn
        /\ phase' \in {"status", "spawn"}
        /\ UNCHANGED <<result, message>>
  /\ UNCHANGED <<aborted, child, handled>>

\* applyCheckpointGraphSnapshot, which passes over any error and the interrupt.
Hydrate ==
  /\ phase = "status" /\ phase' = "spawn"
  /\ \/ /\ ~aborted
        /\ checkpoint' \in [Nodes -> Statuses \cup {"none"}]
        /\ graph' = [n \in Nodes |-> SetNodeStatus(graph, [node |-> n, status |-> checkpoint'[n]])[n]]
     \/ UNCHANGED <<checkpoint, graph>>
  /\ UNCHANGED <<aborted, stream, trace, pipe, open, code, report, streamed, queue, threw,
                 handled, result, message>>

\* runQianjiCli
Spawn ==
  /\ phase = "spawn"
  /\ \/ aborted /\ Interrupted /\ UNCHANGED stream
     \/ ~aborted /\ Throws /\ UNCHANGED stream
     \/ ~aborted /\ phase' = "run" /\ stream' \in BOOLEAN /\ UNCHANGED <<result, message>>
  /\ UNCHANGED <<aborted, graph, checkpoint, trace, pipe, open, code, report, streamed, queue,
                 threw, handled>>

----------------------------------------------------------------------------
(* The process, and the end of it that is read here. *)

Engine(e) ==
  /\ phase = "run" /\ code = "none" /\ Len(trace) < MaxEvents
  /\ trace' = Append(trace, e)
  /\ pipe' = IF stream THEN Append(pipe, e) ELSE pipe
  /\ UNCHANGED <<phase, aborted, graph, checkpoint, stream, open, code, report, streamed,
                 queue, threw, handled, result, message>>

Exit ==
  /\ phase = "run" /\ code = "none"
  /\ code' \in {"ok", "error"} /\ report' \in {"none", "trace", "bad"} /\ open' \in BOOLEAN
  /\ open' => pipe # <<>> /\ report' = "none"
  /\ UNCHANGED <<phase, aborted, graph, checkpoint, stream, trace, pipe, streamed, queue,
                 threw, handled, result, message>>

\* A line counts when its newline has come.
Unended == IF open THEN 1 ELSE 0
Read(n) ==
  /\ phase = "run" /\ n <= Len(pipe) - Unended
  /\ queue' = queue \o SubSeq(pipe, 1, n)
  /\ pipe' = SubSeq(pipe, n + 1, Len(pipe))
  /\ streamed' = TRUE
  /\ UNCHANGED <<phase, aborted, graph, checkpoint, stream, trace, open, code, report, threw,
                 handled, result, message>>

\* applyQianjiTraceEvents: what one event does to the graph.
Apply(e) == graph' = SetNodeStatus(graph, e) /\ handled' = Append(handled, e)

\* The events behind traceQueue are handled one at a time, even when the run has
\* been given up; after a handler threw they are passed over.
Handle ==
  /\ queue # <<>>
  /\ queue' = Tail(queue)
  /\ IF threw THEN UNCHANGED <<graph, handled>> ELSE Apply(Head(queue))
  /\ UNCHANGED <<phase, aborted, checkpoint, stream, trace, pipe, open, code, report, streamed,
                 threw, result, message>>

\* A callback of the handler throws, before or after the graph shows the event.
HandlerThrows ==
  /\ queue # <<>> /\ ~threw
  /\ queue' = Tail(queue) /\ threw' = TRUE
  /\ UNCHANGED <<graph, handled>> \/ Apply(Head(queue))
  /\ UNCHANGED <<phase, aborted, checkpoint, stream, trace, pipe, open, code, report, streamed,
                 result, message>>

\* The close event: an interrupted run ends here, another reads its last line.
Close ==
  /\ phase = "run" /\ code # "none" /\ Len(pipe) = Unended
  /\ \/ aborted /\ Interrupted /\ UNCHANGED <<pipe, streamed, queue>>
     \/ /\ ~aborted
        /\ phase' = "drain"
        /\ queue' = queue \o pipe /\ pipe' = <<>> /\ streamed' = (streamed \/ pipe # <<>>)
        /\ UNCHANGED <<result, message>>
  /\ UNCHANGED <<aborted, graph, checkpoint, stream, trace, open, code, report, threw, handled>>

\* The result waits for traceQueue.
Drained_Closed == pipe = <<>>
Drained == queue = <<>>

\* The report's trace is for a run that streamed none; ReportShows(n) applies the
\* first n events of it.
Reported == IF ~streamed /\ report = "trace" THEN trace ELSE <<>>
ReportShows(n) ==
  /\ graph' = FoldLeft(SetNodeStatus, graph, SubSeq(Reported, 1, n))
  /\ handled' = handled \o SubSeq(Reported, 1, n)

\* The end of executePromise...
Settle ==
  /\ phase = "drain" /\ Drained
  /\ ~threw /\ (streamed \/ report # "bad")
  /\ ReportShows(Len(Reported))
  /\ phase' = "ended" /\ result' = (IF code = "ok" THEN "success" ELSE "failure")
  /\ UNCHANGED <<message, aborted, child>>

\* ... unless something throws: the handler did (traceError), the report's trace is
\* no JSON, a callback is told of the output or of one of its events, or the block
\* of variables cannot be read, be the trace streamed or not.
SettleThrows ==
  /\ phase = "drain" /\ Drained
  /\ IF threw THEN UNCHANGED <<graph, handled>>
     ELSE \E n \in 0..Len(Reported) : ReportShows(n)
  /\ Throws
  /\ UNCHANGED <<aborted, child>>

----------------------------------------------------------------------------
(* The message *)

\* completeWorkflowRun; what makes a run fail has been logged before.
Completed(m) ==
  LET status == IF result = "interrupted" THEN "interrupted"
                ELSE IF result \in {"failure", "error"} \/ m.status = "failed" THEN "failed" ELSE "completed"
  IN [status |-> status, success |-> status = "completed"]
Finish ==
  /\ phase = "ended"
  /\ phase' = "done" /\ message' = Completed(message)
  /\ UNCHANGED <<aborted, graph, child, handled, result>>

\* A line of an agent, a subagent or the intercom that reports an error; some outlive
\* the run.
LogError ==
  /\ phase # "idle"
  /\ message' = WithError(message)
  /\ UNCHANGED <<phase, aborted, graph, child, handled, result>>

Abort ==
  /\ phase \notin {"idle", "ended", "done"} /\ ~aborted
  /\ aborted' = TRUE
  /\ UNCHANGED <<phase, graph, child, handled, result, message>>

Next ==
  \/ Start \/ Prepare \/ Hydrate \/ Spawn
  \/ \E n \in Nodes, s \in Statuses : Engine([node |-> n, status |-> s])
  \/ Exit \/ Handle \/ HandlerThrows \/ Close \/ Settle \/ SettleThrows
  \/ Finish \/ LogError \/ Abort
  \/ \E n \in 1..MaxEvents : Read(n)
Spec == Init /\ [][Next]_vars

----------------------------------------------------------------------------
(* Properties. *)

\* The events the process told of, and the status a node has by them: that of the last
\* one with a status the graph knows, else the checkpoint's, else pending.
Told == IF stream \/ report = "trace" THEN trace ELSE <<>>
StatusOf(n) ==
  LET known == {i \in DOMAIN Told : Told[i].node = n /\ Told[i].status \in DOMAIN GraphStatus}
  IN IF known # {} THEN GraphStatus[Told[Max(known)].status]
     ELSE IF checkpoint[n] \in DOMAIN GraphStatus THEN GraphStatus[checkpoint[n]]
     ELSE "pending"

\* However the trace is cut into chunks, however long its events take and wherever a
\* handler throws, each event is shown at most once, in order and without a gap.  A
\* run that is not interrupted shows all of them when it ends by the exit code of its
\* process; an error on the way never ends so: it is logged as one, and the message
\* says it failed.  A run whose message says it succeeded did, with a graph that
\* shows its last state.
GraphShowsEngine ==
  /\ IsPrefix(handled, trace)
  /\ result \in {"success", "failure"} => handled = Told /\ ~threw
  /\ result = "error" => message.status = "failed" /\ ~message.success
  /\ result = "success" \/ message.success =>
       result = "success" /\ \A n \in Nodes : graph[n] = StatusOf(n)
=============================================================================
