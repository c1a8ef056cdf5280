---------------------------- MODULE HostSession ----------------------------
(***************************************************************************)
(* QianjiHostSession (src/executor/qianji-cli.ts): the promises a caller    *)
(* holds on a running "qianji bpmn host-session" process, whose output      *)
(* mixes trace events, host work and result markers on one pipe.            *)
(*                                                                         *)
(* The process is external.  It answers the requests it reads one after the *)
(* other, each with some traces, some host work and one result; it may hang *)
(* or die anywhere.  Killing it ends its output.                            *)
(***************************************************************************)
EXTENDS Naturals, Sequences

CONSTANTS
  MaxRequests,   \* bound: the initial report and the task completions
  MaxTraces      \* bound: trace events per request

ASSUME BoundsAssumption == MaxRequests \in Nat \ {0} /\ MaxTraces \in Nat

Requests == 1..MaxRequests
Stop == MaxRequests + 1          \* the "stop" line

VARIABLES
  promise,     \* what a caller sees of each request
  waiters,     \* requests whose result has not been seen, oldest first
  resolving,   \* requests whose result waits for the trace queue
  work,        \* currentHostWork: which requests the buffered work answers
  traceQueue,  \* trace events whose handler has not run
  traceError,
  closed,      \* the close event was delivered
  closing,     \* close() was called
  signal,      \* the soft-interrupt signal has fired
  stdin, stdout, child,      \* the pipes and the process
  serving,     \* the request the process works on, 0 if none
  traced,      \* history: trace events the process wrote for each request
  handled,     \* history: trace events handled of each request
  posted,      \* history: requests the process wrote host work for
  got          \* the host work in each result

session == <<promise, waiters, resolving, work, traceQueue, traceError, closed,
             handled, got>>
process == <<child, serving, traced, posted>>
vars == <<session, process, stdin, stdout, closing, signal>>

Line(kind, k) == [kind |-> kind, of |-> k]
Lines == [kind : {"trace", "work", "result"}, of : Requests]

TypeOK ==
  /\ promise \in [Requests -> {"unsent", "waiting", "resolved", "rejected"}]
  /\ waiters \in Seq(Requests) /\ resolving \in Seq(Requests)
  /\ work \in SUBSET Requests
  /\ traceQueue \in Seq(Requests)
  /\ traceError \in BOOLEAN /\ closed \in BOOLEAN
  /\ closing \in BOOLEAN /\ signal \in BOOLEAN
  /\ stdin \in Seq(Requests \cup {Stop}) /\ stdout \in Seq(Lines)
  /\ child \in {"up", "exited"}
  /\ serving \in {0} \cup Requests
  /\ traced \in [Requests -> 0..MaxTraces] /\ handled \in [Requests -> 0..MaxTraces]
  /\ posted \in SUBSET Requests
  /\ got \in [Requests -> SUBSET Requests]

(* The constructor spawns the process and waits for its first report. *)
Init ==
  /\ promise = [k \in Requests |-> IF k = 1 THEN "waiting" ELSE "unsent"]
  /\ waiters = <<1>> /\ resolving = <<>>
  /\ work = {} /\ traceQueue = <<>> /\ traceError = FALSE
  /\ closed = FALSE /\ closing = FALSE /\ signal = FALSE
  /\ stdin = <<>> /\ stdout = <<>>
  /\ child = "up" /\ serving = 1
  /\ traced = [k \in Requests |-> 0] /\ handled = [k \in Requests |-> 0]
  /\ posted = {} /\ got = [k \in Requests |-> {}]

Reject(ks) ==
  promise' = [k \in Requests |-> IF k \in ks THEN "rejected" ELSE promise[k]]

Waiting == {waiters[n] : n \in DOMAIN waiters}

RejectAll == Reject(Waiting) /\ waiters' = <<>>

-----------------------------------------------------------------------------
(* The process. *)

ChildReads ==
  /\ child = "up" /\ serving = 0 /\ stdin # <<>>
  /\ stdin' = Tail(stdin)
  /\ IF Head(stdin) = Stop
       THEN child' = "exited" /\ UNCHANGED serving
       ELSE serving' = Head(stdin) /\ UNCHANGED child
  /\ UNCHANGED <<session, traced, posted, stdout, closing, signal>>

ChildTraces ==
  /\ child = "up" /\ serving # 0
  /\ traced[serving] < MaxTraces
  /\ traced' = [traced EXCEPT ![serving] = @ + 1]
  /\ stdout' = Append(stdout, Line("trace", serving))
  /\ UNCHANGED <<session, child, serving, posted, stdin, closing, signal>>

ChildPostsWork ==
  /\ child = "up" /\ serving # 0
  /\ serving \notin posted
  /\ posted' = posted \cup {serving}
  /\ stdout' = Append(stdout, Line("work", serving))
  /\ UNCHANGED <<session, child, serving, traced, stdin, closing, signal>>

ChildAnswers ==
  /\ child = "up" /\ serving # 0
  /\ stdout' = Append(stdout, Line("result", serving))
  /\ serving' = 0
  /\ UNCHANGED <<session, child, traced, posted, stdin, closing, signal>>

(* It crashes, or SIGTERM or SIGKILL ends it. *)
ChildExits ==
  /\ child = "up"
  /\ child' = "exited"
  /\ UNCHANGED <<session, serving, traced, posted, stdin, stdout, closing, signal>>

-----------------------------------------------------------------------------
(* consumeStdout, line by line: a result takes the oldest waiter, and is    *)
(* dropped if there is none.                                                *)
ReadLine ==
  /\ ~closed /\ stdout # <<>>
  /\ stdout' = Tail(stdout)
  /\ LET line == Head(stdout) IN
       \/ /\ line.kind = "trace"
          /\ traceQueue' = Append(traceQueue, line.of)
          /\ UNCHANGED <<waiters, resolving, work>>
       \/ /\ line.kind = "work"
          /\ work' = work \cup {line.of}
          /\ UNCHANGED <<waiters, resolving, traceQueue>>
       \/ /\ line.kind = "result" /\ waiters # <<>>
          /\ resolving' = Append(resolving, Head(waiters))
          /\ waiters' = Tail(waiters)
          /\ UNCHANGED <<work, traceQueue>>
       \/ /\ line.kind = "result" /\ waiters = <<>>
          /\ UNCHANGED <<waiters, resolving, work, traceQueue>>
  /\ UNCHANGED <<promise, traceError, closed, handled, got, process, stdin, closing, signal>>

(* enqueueTraceEvent: the handler runs, unless an earlier one threw. *)
TraceHandled ==
  /\ traceQueue # <<>>
  /\ traceQueue' = Tail(traceQueue)
  /\ handled' = [handled EXCEPT ![Head(traceQueue)] = IF traceError THEN @ ELSE @ + 1]
  /\ UNCHANGED <<promise, waiters, resolving, work, traceError, closed, got,
                 process, stdin, stdout, closing, signal>>

TraceFails ==
  /\ traceQueue # <<>> /\ ~traceError
  /\ traceQueue' = Tail(traceQueue)
  /\ traceError' = TRUE
  /\ UNCHANGED <<promise, waiters, resolving, work, closed, handled, got,
                 process, stdin, stdout, closing, signal>>

(* Mutant: the result does not wait for the trace queue. *)
TracesDone_AtOnce(k) == TRUE

(* The trace events queued before the result have been handled. *)
TracesDone(k) == \A n \in DOMAIN traceQueue : traceQueue[n] > k

(* resolveSessionResult, after its await: the buffers go to this result and *)
(* start empty for the next; a trace error rejects and leaves them.         *)
ResultSettles ==
  /\ resolving # <<>>
  /\ LET k == Head(resolving) IN
       /\ TracesDone(k)
       /\ \/ /\ traceError
             /\ Reject({k})
             /\ UNCHANGED <<got, work>>
          \/ /\ ~traceError
             /\ promise' = [promise EXCEPT ![k] = "resolved"]
             /\ got' = [got EXCEPT ![k] = work]
             /\ work' = {}
  /\ resolving' = Tail(resolving)
  /\ UNCHANGED <<waiters, traceQueue, traceError, closed, handled, process, stdin,
                 stdout, closing, signal>>

(* Mutant: the close event forgets the waiters. *)
CloseEvent_KeepsWaiters ==
  /\ child = "exited" /\ stdout = <<>> /\ ~closed
  /\ closed' = TRUE
  /\ UNCHANGED <<promise, waiters, resolving, work, traceQueue, traceError, handled, got,
                 process, stdin, stdout, closing, signal>>

(* The close event comes after the last output and rejects who still waits. *)
CloseEvent ==
  /\ child = "exited" /\ stdout = <<>> /\ ~closed
  /\ closed' = TRUE
  /\ RejectAll
  /\ UNCHANGED <<resolving, work, traceQueue, traceError, handled, got,
                 process, stdin, stdout, closing, signal>>

(* Writing to a process that is gone may fail with EPIPE, which close()     *)
(* ignores.                                                                 *)
StdinError ==
  /\ child = "exited" /\ ~closed /\ stdin # <<>>
  /\ stdin' = <<>>
  /\ IF closing THEN UNCHANGED <<promise, waiters>> ELSE RejectAll
  /\ UNCHANGED <<resolving, work, traceQueue, traceError, closed, handled, got,
                 process, stdout, closing, signal>>

-----------------------------------------------------------------------------
(* The caller. *)

(* Mutant: the caller does not await the result before the next request. *)
TaskComplete_NotAwaited(k) ==
  /\ promise[k] = "unsent"
  /\ k - 1 \in Requests /\ promise[k - 1] # "unsent"
  /\ ~signal /\ ~closed /\ ~closing
  /\ promise' = [promise EXCEPT ![k] = "waiting"]
  /\ waiters' = Append(waiters, k)
  /\ stdin' = Append(stdin, k)
  /\ UNCHANGED <<resolving, work, traceQueue, traceError, closed, handled, got,
                 process, stdout, closing, signal>>

(* taskComplete; it throws after an interrupt and after the close event.    *)
(* The caller awaits each result before the next request (executor host     *)
(* loop).                                                                   *)
TaskComplete(k) ==
  /\ promise[k] = "unsent"
  /\ k - 1 \in Requests /\ promise[k - 1] = "resolved"
  /\ ~signal /\ ~closed /\ ~closing
  /\ promise' = [promise EXCEPT ![k] = "waiting"]
  /\ waiters' = Append(waiters, k)
  /\ stdin' = Append(stdin, k)
  /\ UNCHANGED <<resolving, work, traceQueue, traceError, closed, handled, got,
                 process, stdout, closing, signal>>

(* close(): the caller is done with the session. *)
Close ==
  /\ ~closed /\ ~closing
  /\ \A k \in Requests : promise[k] # "waiting"
  /\ closing' = TRUE
  /\ stdin' = Append(stdin, Stop)
  /\ UNCHANGED <<session, process, stdout, signal>>

(* The soft interrupt: the abort listener terminates the process. *)
Abort ==
  /\ ~signal
  /\ signal' = TRUE
  /\ UNCHANGED <<session, process, stdin, stdout, closing>>

Child == ChildReads \/ ChildTraces \/ ChildPostsWork \/ ChildAnswers \/ ChildExits
Trace == TraceHandled \/ TraceFails

Next ==
  \/ Child
  \/ ReadLine \/ Trace \/ ResultSettles \/ CloseEvent \/ StdinError
  \/ \E k \in Requests : TaskComplete(k)
  \/ Close \/ Abort

(* The event loop delivers events and trace handlers return; SIGTERM, or    *)
(* SIGKILL a second later, ends the process.  Nothing makes it answer.      *)
Fairness ==
  /\ WF_vars(ReadLine) /\ WF_vars(Trace) /\ WF_vars(ResultSettles) /\ WF_vars(CloseEvent)
  /\ WF_vars(signal /\ ChildExits)

Spec == Init /\ [][Next]_vars /\ Fairness

-----------------------------------------------------------------------------
(* A result is whole: it carries the host work the process posted for that  *)
(* request, all of it and nothing of an earlier one, and when it resolves   *)
(* the caller has handled every trace event of the request.                 *)
ResultIsWhole ==
  \A k \in Requests :
    promise[k] = "resolved" => got[k] = posted \cap {k} /\ handled[k] = traced[k]

(* No promise is left waiting on a process that died or was interrupted.    *)
DeathSettlesPromises ==
  \A k \in Requests :
    (signal \/ child = "exited") /\ promise[k] = "waiting" ~> promise[k] # "waiting"

(* What the caller may rely on. *)
Conversation == INSTANCE RequestReply WITH
  state <- [k \in Requests |->
              CASE promise[k] = "unsent" -> "unsent"
                [] promise[k] = "waiting" -> "pending"
                [] promise[k] = "resolved" -> "replied"
                [] promise[k] = "rejected" -> "failed"]
ImplementsConversation == Conversation!Spec
=============================================================================
