-------------------------- MODULE HostSessionProofs --------------------------
(***************************************************************************)
(* Proofs about HostSession, for every number of requests and of traces:    *)
(* its type invariant, ResultIsWhole, and that the session keeps the        *)
(* conversation RequestReply promises to its caller.                        *)
(*                                                                         *)
(* Nothing the process writes says which request it answers; what makes     *)
(* that right is that only one request, the current one, is under way: all  *)
(* that is in the pipes, in the trace queue and in the buffers is about it, *)
(* and its result is the last line it causes.  The invariant is stated of   *)
(* the current request c.  Trace events are counted: those handled, queued  *)
(* and still in the pipe are those the process wrote.                       *)
(***************************************************************************)
EXTENDS HostSession, FiniteSetTheorems, FunctionTheorems, TLAPS

(* The current request is the last one sent, and those before it resolved.  *)
OrderInv(c) ==
  /\ promise[c] # "unsent"
  /\ \A k \in Requests : k < c => promise[k] = "resolved"
  /\ \A k \in Requests : k > c => promise[k] = "unsent"

(* What is known of a resolved request, and of one not sent.                *)
Whole(k) == got[k] = posted \cap {k} /\ handled[k] = traced[k]

PastInv(c) ==
  /\ \A k \in Requests : promise[k] = "resolved" => Whole(k)
  /\ \A k \in Requests : k > c => k \notin posted /\ handled[k] = 0 /\ traced[k] = 0

(* The current request waits for its result line, then for the trace queue. *)
WaitInv(c) ==
  /\ waiters = <<>> \/ (waiters = <<c>> /\ resolving = <<>> /\ promise[c] = "waiting")
  /\ resolving = <<>> \/ (resolving = <<c>> /\ promise[c] = "waiting")
  /\ promise[c] = "waiting" => waiters # <<>> \/ resolving # <<>>
  /\ closing => promise[c] # "waiting"

(* It is not yet read, then served, then answered: its result is the last   *)
(* line in the pipe, and nothing comes after it.                            *)
PipeInv(c) ==
  /\ serving \in {0, c}
  /\ stdin \in {<<>>, <<c>>, <<Stop>>}
  /\ stdin = <<Stop>> => closing
  /\ stdin = <<c>> =>
       /\ serving = 0 /\ stdout = <<>> /\ traced[c] = 0 /\ c \notin posted
       /\ waiters = <<c>> \/ closed
  /\ serving = c => stdin = <<>> /\ (waiters = <<c>> \/ closed)
  /\ \A n \in DOMAIN stdout : stdout[n].of = c
  /\ \A n \in DOMAIN stdout : stdout[n].kind = "result" => n = Len(stdout) /\ serving = 0
  /\ resolving # <<>> \/ promise[c] = "resolved" =>
       serving = 0 /\ stdout = <<>> /\ stdin # <<c>>

Traces(s) == Cardinality({n \in DOMAIN s : s[n].kind = "trace"})

(* No trace event is lost, unless a handler threw.                          *)
TraceInv(c) ==
  /\ \A n \in DOMAIN traceQueue : traceQueue[n] = c
  /\ handled[c] + Len(traceQueue) + Traces(stdout) <= traced[c]
  /\ ~traceError => handled[c] + Len(traceQueue) + Traces(stdout) = traced[c]
  /\ promise[c] = "resolved" => traceQueue = <<>>

(* No host work is lost, and none is kept from an earlier request.          *)
WorkInv(c) ==
  /\ promise[c] = "resolved" => work = {}
  /\ promise[c] # "resolved" =>
       work = {k \in posted \cap {c} : \A n \in DOMAIN stdout : stdout[n].kind # "work"}
  /\ \A m, n \in DOMAIN stdout :
       stdout[m].kind = "work" /\ stdout[n].kind = "work" => m = n
  /\ \A n \in DOMAIN stdout : stdout[n].kind = "work" => c \in posted

CurrentInv(c) ==
  OrderInv(c) /\ PastInv(c) /\ WaitInv(c) /\ PipeInv(c) /\ TraceInv(c) /\ WorkInv(c)

IInv == TypeOK /\ \E c \in Requests : CurrentInv(c)
------------------------------------------------------------------------------
(* Counting the trace events in the pipe. *)

TraceAt(s) == {n \in DOMAIN s : s[n].kind = "trace"}

LEMMA TracesFinite ==
  ASSUME NEW s \in Seq(Lines)
  PROVE  IsFiniteSet(TraceAt(s)) /\ Traces(s) = Cardinality(TraceAt(s)) /\ Traces(s) \in Nat
<1>1. IsFiniteSet(1..Len(s)) /\ TraceAt(s) \subseteq 1..Len(s)
  BY FS_Interval DEF TraceAt
<1>2. IsFiniteSet(TraceAt(s))
  BY <1>1, FS_Subset
<1> QED BY <1>2, FS_CardinalityType DEF TraceAt, Traces

LEMMA TracesEmpty == Traces(<<>>) = 0
<1>1. {n \in DOMAIN <<>> : <<>>[n].kind = "trace"} = {}
  OBVIOUS
<1> QED BY <1>1, FS_EmptySet DEF Traces

LEMMA TracesAppend ==
  ASSUME NEW s \in Seq(Lines), NEW e \in Lines
  PROVE  Traces(Append(s, e)) = Traces(s) + (IF e.kind = "trace" THEN 1 ELSE 0)
<1> DEFINE last == Len(s) + 1
<1>1. /\ DOMAIN Append(s, e) = DOMAIN s \cup {last} /\ last \notin DOMAIN s
      /\ Append(s, e)[last] = e /\ \A n \in DOMAIN s : Append(s, e)[n] = s[n]
      /\ Append(s, e) \in Seq(Lines)
  OBVIOUS
<1> HIDE DEF last
<1>2. last \notin TraceAt(s)
  BY <1>1 DEF TraceAt
<1>3. TraceAt(Append(s, e)) = IF e.kind = "trace" THEN TraceAt(s) \cup {last} ELSE TraceAt(s)
  BY <1>1 DEF TraceAt
<1>4. Cardinality(TraceAt(s) \cup {last}) = Cardinality(TraceAt(s)) + 1
  BY <1>2, TracesFinite, FS_AddElement
<1>5. /\ Traces(s) = Cardinality(TraceAt(s)) /\ Traces(s) \in Nat
      /\ Traces(Append(s, e)) = Cardinality(TraceAt(Append(s, e)))
  BY <1>1, TracesFinite
<1> QED BY <1>3, <1>4, <1>5

LEMMA TracesTail ==
  ASSUME NEW s \in Seq(Lines), s # <<>>
  PROVE  Traces(s) = Traces(Tail(s)) + (IF Head(s).kind = "trace" THEN 1 ELSE 0)
<1> DEFINE Later == TraceAt(s) \ {1}
           f == [n \in Later |-> n - 1]
<1>1. /\ Tail(s) \in Seq(Lines) /\ 1 \in DOMAIN s /\ Head(s) = s[1]
      /\ \A n \in DOMAIN s : n \in Nat \ {0}
      /\ \A n \in DOMAIN s : n # 1 => n - 1 \in DOMAIN Tail(s) /\ Tail(s)[n - 1] = s[n]
      /\ \A n \in DOMAIN Tail(s) :
           n \in Nat \ {0} /\ n + 1 \in DOMAIN s /\ Tail(s)[n] = s[n + 1]
  OBVIOUS
<1>2. f \in [Later -> TraceAt(Tail(s))]
  BY <1>1 DEF TraceAt
<1>3. \A m, n \in Later : f[m] = f[n] => m = n
  BY <1>1 DEF TraceAt
<1>4. ASSUME NEW n \in TraceAt(Tail(s)) PROVE \E m \in Later : f[m] = n
  <2>1. n + 1 \in Later
    BY <1>1 DEF TraceAt
  <2>2. f[n + 1] = n
    BY <1>1, <2>1 DEF TraceAt
  <2> QED BY <2>1, <2>2
<1> HIDE DEF f
<1>5. f \in Bijection(Later, TraceAt(Tail(s)))
  BY <1>2, <1>3, <1>4, Fun_IsBij
<1>6. IsFiniteSet(Later) /\ Cardinality(Later) =
        IF 1 \in TraceAt(s) THEN Cardinality(TraceAt(s)) - 1 ELSE Cardinality(TraceAt(s))
  BY TracesFinite, FS_RemoveElement
<1> HIDE DEF Later
<1>7. Cardinality(TraceAt(Tail(s))) = Cardinality(Later)
  BY <1>5, <1>6, FS_Bijection DEF ExistsBijection
<1>8. 1 \in TraceAt(s) <=> Head(s).kind = "trace"
  BY <1>1 DEF TraceAt
<1>9. /\ Traces(s) = Cardinality(TraceAt(s)) /\ Traces(s) \in Nat
      /\ Traces(Tail(s)) = Cardinality(TraceAt(Tail(s)))
  BY <1>1, TracesFinite
<1> QED BY <1>6, <1>7, <1>8, <1>9

------------------------------------------------------------------------------
(* The pipe, the waiters and the queues. *)

LEMMA PipeGrows ==
  ASSUME TypeOK, NEW kind \in {"trace", "work", "result"}, NEW c \in Requests,
         stdout' = Append(stdout, Line(kind, c))
  PROVE  /\ stdout' \in Seq(Lines) /\ stdout' # <<>>
         /\ DOMAIN stdout' = DOMAIN stdout \cup {Len(stdout')}
         /\ Len(stdout') \notin DOMAIN stdout
         /\ stdout'[Len(stdout')].kind = kind /\ stdout'[Len(stdout')].of = c
         /\ \A n \in DOMAIN stdout : stdout'[n] = stdout[n]
         /\ Traces(stdout') = Traces(stdout) + (IF kind = "trace" THEN 1 ELSE 0)
<1>1. Line(kind, c) \in Lines /\ Line(kind, c).kind = kind /\ Line(kind, c).of = c
  BY DEF Line, Lines
<1>2. stdout \in Seq(Lines)
  BY DEF TypeOK
<1>3. Traces(stdout') = Traces(stdout) + (IF kind = "trace" THEN 1 ELSE 0)
  BY <1>1, <1>2, TracesAppend
<1> QED BY <1>1, <1>2, <1>3

LEMMA PipeShrinks ==
  ASSUME TypeOK, stdout # <<>>, stdout' = Tail(stdout)
  PROVE  /\ stdout' \in Seq(Lines) /\ 1 \in DOMAIN stdout /\ Head(stdout) = stdout[1]
         /\ Len(stdout') = Len(stdout) - 1
         /\ \A n \in DOMAIN stdout' :
              n \in Nat \ {0} /\ n + 1 \in DOMAIN stdout /\ stdout'[n] = stdout[n + 1]
         /\ \A n \in DOMAIN stdout :
              n # 1 => n \in Nat /\ n - 1 \in DOMAIN stdout' /\ stdout'[n - 1] = stdout[n]
         /\ Traces(stdout) = Traces(stdout') + (IF Head(stdout).kind = "trace" THEN 1 ELSE 0)
         /\ Traces(stdout') \in Nat
<1>1. stdout \in Seq(Lines)
  BY DEF TypeOK
<1>2. Traces(stdout) = Traces(stdout') + (IF Head(stdout).kind = "trace" THEN 1 ELSE 0)
  BY <1>1, TracesTail
<1>3. stdout' \in Seq(Lines) /\ Traces(stdout') \in Nat
  <2>1. stdout' \in Seq(Lines)
    BY <1>1
  <2> QED BY <2>1, TracesFinite
<1>4. /\ 1 \in DOMAIN stdout /\ Head(stdout) = stdout[1]
      /\ Len(stdout') = Len(stdout) - 1
      /\ DOMAIN stdout = 1..Len(stdout) /\ Len(stdout) \in Nat
      /\ DOMAIN stdout' = 1..Len(stdout')
      /\ \A n \in DOMAIN stdout' : stdout'[n] = stdout[n + 1]
  BY <1>1
<1>5. ASSUME NEW n \in DOMAIN stdout'
      PROVE  n \in Nat \ {0} /\ n + 1 \in DOMAIN stdout /\ stdout'[n] = stdout[n + 1]
  BY <1>4
<1>6. ASSUME NEW n \in DOMAIN stdout, n # 1
      PROVE  n \in Nat /\ n - 1 \in DOMAIN stdout' /\ stdout'[n - 1] = stdout[n]
  <2>1. n \in Nat /\ n - 1 \in DOMAIN stdout' /\ (n - 1) + 1 = n
    BY <1>4, <1>6
  <2> QED BY <1>4, <2>1
<1> QED BY <1>2, <1>3, <1>4, <1>5, <1>6

(* Only the current request can be waiting. *)
LEMMA OneWaits ==
  ASSUME TypeOK, NEW c \in Requests, CurrentInv(c)
  PROVE  /\ \A k \in Requests : promise[k] = "waiting" => k = c
         /\ Waiting = IF waiters = <<>> THEN {} ELSE {c}
         /\ waiters # <<>> => Head(waiters) = c /\ Tail(waiters) = <<>>
         /\ resolving # <<>> => Head(resolving) = c /\ Tail(resolving) = <<>>
         /\ c \in Nat /\ c # 0 /\ c # Stop
<1>1. c \in Nat /\ c # 0 /\ c # Stop
  BY BoundsAssumption DEF Requests, Stop
<1>2. \A k \in Requests : k # c => k < c \/ k > c
  BY DEF Requests
<1>3. \A k \in Requests : promise[k] = "waiting" => k = c
  BY <1>2 DEF CurrentInv, OrderInv
<1>4. waiters \in {<<>>, <<c>>} /\ resolving \in {<<>>, <<c>>}
  BY DEF CurrentInv, WaitInv
<1>5. Waiting = IF waiters = <<>> THEN {} ELSE {c}
  BY <1>4 DEF Waiting
<1>6. Head(<<c>>) = c /\ Tail(<<c>>) = <<>>
  OBVIOUS
<1> QED BY <1>1, <1>3, <1>4, <1>5, <1>6

------------------------------------------------------------------------------
(* The process's steps. *)

LEMMA ChildReadsInv ==
  ASSUME TypeOK, NEW c \in Requests, CurrentInv(c), ChildReads
  PROVE  CurrentInv(c)'
<1> USE DEF ChildReads, session
<1>1. c # 0 /\ c # Stop /\ c \in Nat
  BY OneWaits
<1>2. OrderInv(c)' /\ PastInv(c)' /\ WaitInv(c)' /\ TraceInv(c)' /\ WorkInv(c)'
  BY DEF CurrentInv, OrderInv, PastInv, Whole, WaitInv, TraceInv, WorkInv
<1>3. PipeInv(c)'
  <2>1. CASE stdin = <<c>>
    <3>1. serving' = c /\ stdin' = <<>>
      BY <1>1, <2>1
    <3>2. stdout = <<>> /\ (waiters = <<c>> \/ closed) /\ serving = 0
      BY <2>1 DEF CurrentInv, PipeInv
    <3>3. resolving = <<>> /\ promise[c] # "resolved"
      BY <2>1 DEF CurrentInv, PipeInv
    <3> QED BY <1>1, <3>1, <3>2, <3>3 DEF PipeInv
  <2>2. CASE stdin = <<Stop>>
    <3>1. serving' = serving /\ stdin' = <<>>
      BY <2>2
    <3> QED BY <1>1, <3>1 DEF CurrentInv, PipeInv
  <2> QED BY <2>1, <2>2 DEF CurrentInv, PipeInv
<1> QED BY <1>2, <1>3 DEF CurrentInv

(* While the process serves a request, that is the current one.             *)
LEMMA ServesCurrent ==
  ASSUME TypeOK, NEW c \in Requests, CurrentInv(c), serving # 0
  PROVE  /\ serving = c /\ stdin = <<>> /\ resolving = <<>> /\ promise[c] # "resolved"
         /\ waiters = <<c>> \/ closed
         /\ \A n \in DOMAIN stdout : stdout[n].kind # "result"
<1>1. serving = c
  BY DEF CurrentInv, PipeInv
<1>2. stdin = <<>> /\ stdin # <<c>>
  BY <1>1 DEF CurrentInv, PipeInv
<1> QED BY <1>1, <1>2 DEF CurrentInv, PipeInv

LEMMA ChildTracesInv ==
  ASSUME TypeOK, NEW c \in Requests, CurrentInv(c), ChildTraces
  PROVE  CurrentInv(c)'
<1> USE DEF session
<1>1. c # 0 /\ c \in Nat
  BY OneWaits
<1>2. /\ serving = c /\ stdin = <<>> /\ resolving = <<>> /\ promise[c] # "resolved"
      /\ waiters = <<c>> \/ closed
      /\ \A n \in DOMAIN stdout : stdout[n].kind # "result"
  BY ServesCurrent DEF ChildTraces
<1>3. /\ stdout' = Append(stdout, Line("trace", c)) /\ traced' = [traced EXCEPT ![c] = @ + 1]
      /\ UNCHANGED <<session, child, serving, posted, stdin, closing, signal>>
  BY <1>2 DEF ChildTraces
<1>4. OrderInv(c)' /\ WaitInv(c)'
  BY <1>3 DEF CurrentInv, OrderInv, WaitInv
<1>5. PastInv(c)'
  BY <1>1, <1>2, <1>3 DEF CurrentInv, PastInv, Whole, TypeOK
<1>6. PipeInv(c)'
  BY <1>1, <1>2, <1>3, PipeGrows DEF CurrentInv, PipeInv
<1>7. TraceInv(c)'
  <2>1. traced'[c] = traced[c] + 1 /\ Traces(stdout') = Traces(stdout) + 1
    BY <1>3, PipeGrows DEF TypeOK
  <2>2. /\ handled[c] \in Nat /\ Len(traceQueue) \in Nat /\ Traces(stdout) \in Nat
        /\ traced[c] \in Nat
    BY TracesFinite DEF TypeOK
  <2>3. UNCHANGED <<traceQueue, traceError, handled, promise>>
    BY <1>3
  <2> QED BY <1>2, <2>1, <2>2, <2>3 DEF CurrentInv, TraceInv
<1>8. WorkInv(c)'
  BY <1>2, <1>3, PipeGrows DEF CurrentInv, WorkInv
<1> QED BY <1>4, <1>5, <1>6, <1>7, <1>8 DEF CurrentInv

LEMMA ChildPostsWorkInv ==
  ASSUME TypeOK, NEW c \in Requests, CurrentInv(c), ChildPostsWork
  PROVE  CurrentInv(c)'
<1> USE DEF session
<1>1. c # 0 /\ c \in Nat
  BY OneWaits
<1>2. /\ serving = c /\ stdin = <<>> /\ resolving = <<>> /\ promise[c] # "resolved"
      /\ waiters = <<c>> \/ closed
      /\ \A n \in DOMAIN stdout : stdout[n].kind # "result"
  BY ServesCurrent DEF ChildPostsWork
<1>3. /\ stdout' = Append(stdout, Line("work", c)) /\ posted' = posted \cup {c} /\ c \notin posted
      /\ UNCHANGED <<session, child, serving, traced, stdin, closing, signal>>
  BY <1>2 DEF ChildPostsWork
<1>4. OrderInv(c)' /\ WaitInv(c)'
  BY <1>3 DEF CurrentInv, OrderInv, WaitInv
<1>5. PastInv(c)'
  <2>1. \A k \in Requests : k # c => posted' \cap {k} = posted \cap {k}
    BY <1>3
  <2>2. \A k \in Requests : k > c => k # c
    BY <1>1
  <2> QED BY <1>2, <1>3, <2>1, <2>2 DEF CurrentInv, PastInv, Whole
<1>6. PipeInv(c)'
  BY <1>1, <1>2, <1>3, PipeGrows DEF CurrentInv, PipeInv
<1>7. TraceInv(c)'
  <2>1. Traces(stdout') = Traces(stdout) + 0 /\ Traces(stdout) \in Nat
    BY <1>3, PipeGrows, TracesFinite DEF TypeOK
  <2>2. Traces(stdout') = Traces(stdout)
    BY <2>1
  <2> QED BY <1>3, <2>2 DEF CurrentInv, TraceInv
<1>8. WorkInv(c)'
  <2>1. \A n \in DOMAIN stdout : stdout[n].kind # "work"
    BY <1>3 DEF CurrentInv, WorkInv
  <2>2. work = {}
    BY <1>2, <1>3 DEF CurrentInv, WorkInv
  <2> QED BY <1>2, <1>3, <2>1, <2>2, PipeGrows DEF WorkInv
<1> QED BY <1>4, <1>5, <1>6, <1>7, <1>8 DEF CurrentInv

LEMMA ChildAnswersInv ==
  ASSUME TypeOK, NEW c \in Requests, CurrentInv(c), ChildAnswers
  PROVE  CurrentInv(c)'
<1> USE DEF session
<1>1. c # 0 /\ c \in Nat
  BY OneWaits
<1>2. /\ serving = c /\ stdin = <<>> /\ resolving = <<>> /\ promise[c] # "resolved"
      /\ waiters = <<c>> \/ closed
      /\ \A n \in DOMAIN stdout : stdout[n].kind # "result"
  BY ServesCurrent DEF ChildAnswers
<1>3. /\ stdout' = Append(stdout, Line("result", c)) /\ serving' = 0
      /\ UNCHANGED <<session, child, traced, posted, stdin, closing, signal>>
  BY <1>2 DEF ChildAnswers
<1>4. OrderInv(c)' /\ WaitInv(c)'
  BY <1>3 DEF CurrentInv, OrderInv, WaitInv
<1>5. PastInv(c)'
  BY <1>1, <1>2, <1>3 DEF CurrentInv, PastInv, Whole
<1>6. PipeInv(c)'
  BY <1>1, <1>2, <1>3, PipeGrows DEF CurrentInv, PipeInv
<1>7. TraceInv(c)'
  <2>1. Traces(stdout') = Traces(stdout) + 0 /\ Traces(stdout) \in Nat
    BY <1>3, PipeGrows, TracesFinite DEF TypeOK
  <2>2. Traces(stdout') = Traces(stdout)
    BY <2>1
  <2> QED BY <1>3, <2>2 DEF CurrentInv, TraceInv
<1>8. WorkInv(c)'
  BY <1>2, <1>3, PipeGrows DEF CurrentInv, WorkInv
<1> QED BY <1>4, <1>5, <1>6, <1>7, <1>8 DEF CurrentInv

------------------------------------------------------------------------------
(* The session's own steps. *)

(* Taking a line of the pipe leaves the rest of it as it was.               *)
LEMMA ReadLineInv ==
  ASSUME TypeOK, NEW c \in Requests, CurrentInv(c), ReadLine
  PROVE  CurrentInv(c)'
<1> USE DEF process
<1> DEFINE line == Head(stdout)
<1>1. /\ stdout # <<>> /\ stdout' = Tail(stdout) /\ ~closed
      /\ UNCHANGED <<promise, traceError, closed, handled, got, process, stdin, closing, signal>>
  BY DEF ReadLine
<1>2. /\ line = stdout[1] /\ 1 \in DOMAIN stdout /\ line.of = c
      /\ stdin # <<c>> /\ resolving = <<>> /\ promise[c] # "resolved"
  BY <1>1, PipeShrinks DEF CurrentInv, PipeInv
<1>3. OrderInv(c)' /\ PastInv(c)'
  BY <1>1 DEF CurrentInv, OrderInv, PastInv, Whole
<1>4. /\ \A n \in DOMAIN stdout' : stdout'[n].of = c
      /\ \A n \in DOMAIN stdout' :
           stdout'[n].kind = "result" => n = Len(stdout') /\ serving = 0
  <2> SUFFICES ASSUME NEW n \in DOMAIN stdout'
               PROVE  /\ stdout'[n].of = c
                      /\ stdout'[n].kind = "result" => n = Len(stdout') /\ serving = 0
    OBVIOUS
  <2>1. n \in Nat /\ n + 1 \in DOMAIN stdout /\ stdout'[n] = stdout[n + 1]
    BY <1>1, PipeShrinks
  <2>2. Len(stdout') = Len(stdout) - 1 /\ Len(stdout) \in Nat
    BY <1>1, PipeShrinks DEF TypeOK
  <2> QED BY <2>1, <2>2 DEF CurrentInv, PipeInv
<1>5. /\ handled[c] \in Nat /\ Len(traceQueue) \in Nat /\ Traces(stdout') \in Nat
      /\ traced[c] \in Nat
      /\ Traces(stdout) = Traces(stdout') + (IF line.kind = "trace" THEN 1 ELSE 0)
  BY <1>1, PipeShrinks DEF TypeOK
<1>6. /\ \A n \in DOMAIN stdout' : n + 1 \in DOMAIN stdout /\ stdout'[n] = stdout[n + 1]
                                   /\ n \in Nat \ {0} /\ n + 1 # 1
      /\ \A n \in DOMAIN stdout :
           n # 1 => n - 1 \in DOMAIN stdout' /\ stdout'[n - 1] = stdout[n]
  BY <1>1, PipeShrinks
<1>7. CASE line.kind = "trace"
  <2>1. traceQueue' = Append(traceQueue, c) /\ UNCHANGED <<waiters, resolving, work>>
    BY <1>2, <1>7 DEF ReadLine
  <2>2. WaitInv(c)' /\ PipeInv(c)'
    BY <1>1, <1>2, <1>4, <2>1 DEF CurrentInv, WaitInv, PipeInv
  <2>3. TraceInv(c)'
    <3>1. Traces(stdout) = Traces(stdout') + 1 /\ Len(traceQueue') = Len(traceQueue) + 1
      BY <1>5, <1>7, <2>1 DEF TypeOK
    <3>2. \A n \in DOMAIN traceQueue' : traceQueue'[n] = c
      BY <2>1 DEF CurrentInv, TraceInv, TypeOK
    <3> QED BY <1>1, <1>2, <1>5, <3>1, <3>2 DEF CurrentInv, TraceInv
  <2>4. WorkInv(c)'
    <3>1. (\A n \in DOMAIN stdout : stdout[n].kind # "work") <=>
          (\A n \in DOMAIN stdout' : stdout'[n].kind # "work")
      BY <1>2, <1>6, <1>7
    <3>2. \A m, n \in DOMAIN stdout' :
            stdout'[m].kind = "work" /\ stdout'[n].kind = "work" => m = n
      BY <1>6 DEF CurrentInv, WorkInv
    <3> QED BY <1>1, <1>2, <1>6, <2>1, <3>1, <3>2 DEF CurrentInv, WorkInv
  <2> QED BY <1>3, <2>2, <2>3, <2>4 DEF CurrentInv
<1>8. CASE line.kind = "work"
  <2>1. work' = work \cup {c} /\ UNCHANGED <<waiters, resolving, traceQueue>>
    BY <1>2, <1>8 DEF ReadLine
  <2>2. WaitInv(c)' /\ PipeInv(c)'
    BY <1>1, <1>2, <1>4, <2>1 DEF CurrentInv, WaitInv, PipeInv
  <2>3. TraceInv(c)'
    <3>1. Traces(stdout) = Traces(stdout')
      BY <1>5, <1>8
    <3> QED BY <1>1, <1>2, <2>1, <3>1 DEF CurrentInv, TraceInv
  <2>4. WorkInv(c)'
    <3>1. c \in posted /\ work = {}
      BY <1>2, <1>8 DEF CurrentInv, WorkInv
    <3>2. \A n \in DOMAIN stdout' : stdout'[n].kind # "work"
      BY <1>2, <1>6, <1>8 DEF CurrentInv, WorkInv
    <3> QED BY <1>1, <1>2, <2>1, <3>1, <3>2 DEF WorkInv
  <2> QED BY <1>3, <2>2, <2>3, <2>4 DEF CurrentInv
<1>9. CASE line.kind = "result"
  <2>1. UNCHANGED <<work, traceQueue>>
    BY <1>9 DEF ReadLine
  <2>2. stdout' = <<>> /\ serving = 0 /\ DOMAIN stdout' = {} /\ Len(stdout) = 1
    <3>1. 1 = Len(stdout) /\ serving = 0
      BY <1>2, <1>9 DEF CurrentInv, PipeInv
    <3>2. stdout' \in Seq(Lines) /\ Len(stdout') = 0
      BY <1>1, <3>1, PipeShrinks
    <3> QED BY <3>1, <3>2
  <2>3. WaitInv(c)' /\ PipeInv(c)'
    <3>1. CASE waiters = <<>>
      <4>1. UNCHANGED <<waiters, resolving>>
        BY <1>9, <3>1 DEF ReadLine
      <4> QED BY <1>1, <1>2, <2>2, <4>1 DEF CurrentInv, WaitInv, PipeInv
    <3>2. CASE waiters # <<>>
      <4>1. resolving' = Append(resolving, Head(waiters)) /\ waiters' = Tail(waiters)
        BY <1>9, <3>2 DEF ReadLine
      <4>2. resolving' = <<c>> /\ waiters' = <<>> /\ promise[c] = "waiting"
        BY <1>2, <3>2, <4>1, OneWaits DEF CurrentInv, WaitInv
      <4>3. WaitInv(c)'
        BY <1>1, <4>2 DEF CurrentInv, WaitInv
      <4>4. PipeInv(c)'
        BY <1>1, <1>2, <2>2, <4>2, OneWaits DEF CurrentInv, PipeInv
      <4> QED BY <4>3, <4>4
    <3> QED BY <3>1, <3>2
  <2>4. TraceInv(c)'
    <3>1. Traces(stdout) = Traces(stdout')
      BY <1>5, <1>9
    <3> QED BY <1>1, <1>2, <2>1, <3>1 DEF CurrentInv, TraceInv
  <2>5. WorkInv(c)'
    <3>1. \A n \in DOMAIN stdout : stdout[n].kind # "work"
      BY <1>2, <1>6, <1>9, <2>2
    <3>2. work = posted \cap {c}
      BY <1>2, <3>1 DEF CurrentInv, WorkInv
    <3> QED BY <1>1, <1>2, <2>1, <2>2, <3>2 DEF WorkInv
  <2> QED BY <1>3, <2>3, <2>4, <2>5 DEF CurrentInv
<1> QED BY <1>7, <1>8, <1>9 DEF ReadLine

LEMMA TraceStepInv ==
  ASSUME TypeOK, NEW c \in Requests, CurrentInv(c), TraceHandled \/ TraceFails
  PROVE  CurrentInv(c)'
<1> USE DEF process
<1>1. /\ traceQueue # <<>> /\ traceQueue' = Tail(traceQueue)
      /\ UNCHANGED <<promise, waiters, resolving, work, closed, got,
                     process, stdin, stdout, closing, signal>>
  BY DEF TraceHandled, TraceFails
<1>2. /\ Head(traceQueue) = c /\ promise[c] # "resolved"
      /\ \A n \in DOMAIN traceQueue' : traceQueue'[n] = c
      /\ Len(traceQueue') = Len(traceQueue) - 1 /\ Len(traceQueue) \in Nat
  <2>1. /\ 1 \in DOMAIN traceQueue /\ Head(traceQueue) = traceQueue[1]
        /\ \A n \in DOMAIN traceQueue' :
             n + 1 \in DOMAIN traceQueue /\ traceQueue'[n] = traceQueue[n + 1]
        /\ Len(traceQueue') = Len(traceQueue) - 1 /\ Len(traceQueue) \in Nat
    BY <1>1 DEF TypeOK
  <2> QED BY <1>1, <2>1 DEF CurrentInv, TraceInv
<1>3. OrderInv(c)' /\ WaitInv(c)' /\ PipeInv(c)' /\ WorkInv(c)'
  BY <1>1 DEF CurrentInv, OrderInv, WaitInv, PipeInv, WorkInv
<1>4. \A k \in Requests : k # c => handled'[k] = handled[k]
  BY <1>2 DEF TraceHandled, TraceFails, TypeOK
<1>5. PastInv(c)'
  <2>1. \A k \in Requests : k > c => k # c
    BY OneWaits
  <2> QED BY <1>1, <1>2, <1>4, <2>1 DEF CurrentInv, PastInv, Whole
<1>6. TraceInv(c)'
  <2>1. handled[c] \in Nat /\ Traces(stdout) \in Nat /\ traced[c] \in Nat
    BY TracesFinite DEF TypeOK
  <2>2. CASE handled'[c] = handled[c] + 1 /\ traceError' = traceError
    <3>1. handled'[c] + Len(traceQueue') = handled[c] + Len(traceQueue)
      BY <1>2, <2>1, <2>2
    <3> QED BY <1>1, <1>2, <2>2, <3>1 DEF CurrentInv, TraceInv
  <2>3. CASE handled'[c] = handled[c] /\ traceError'
    BY <1>1, <1>2, <2>1, <2>3 DEF CurrentInv, TraceInv
  <2> QED BY <1>2, <2>2, <2>3 DEF TraceHandled, TraceFails, TypeOK
<1> QED BY <1>3, <1>5, <1>6 DEF CurrentInv

LEMMA ResultSettlesInv ==
  ASSUME TypeOK, NEW c \in Requests, CurrentInv(c), ResultSettles
  PROVE  CurrentInv(c)'
<1> USE DEF process
<1>1. /\ resolving = <<c>> /\ Head(resolving) = c /\ resolving' = <<>>
      /\ waiters = <<>> /\ promise[c] = "waiting" /\ ~closing
      /\ UNCHANGED <<waiters, traceQueue, traceError, closed, handled, process, stdin,
                     stdout, closing, signal>>
  BY OneWaits DEF ResultSettles, CurrentInv, WaitInv
<1>2. traceQueue = <<>>
  <2>1. \A n \in DOMAIN traceQueue : traceQueue[n] > c /\ traceQueue[n] = c
    BY <1>1 DEF ResultSettles, TracesDone, CurrentInv, TraceInv
  <2>2. traceQueue # <<>> => 1 \in DOMAIN traceQueue
    BY DEF TypeOK
  <2> QED BY <2>1, <2>2, OneWaits
<1>3. stdout = <<>> /\ serving = 0 /\ stdin # <<c>> /\ DOMAIN stdout = {}
  BY <1>1 DEF CurrentInv, PipeInv
<1>4. work = posted \cap {c}
  BY <1>1, <1>3 DEF CurrentInv, WorkInv
<1>5. \A k \in Requests : k > c \/ k < c => k # c
  BY OneWaits
<1>6. CASE traceError
  <2>1. promise' = [promise EXCEPT ![c] = "rejected"] /\ UNCHANGED <<got, work>>
    BY <1>1, <1>6 DEF ResultSettles, Reject, TypeOK
  <2>2. promise'[c] = "rejected" /\ \A k \in Requests : k # c => promise'[k] = promise[k]
    BY <2>1 DEF TypeOK
  <2>3. OrderInv(c)' /\ PastInv(c)'
    BY <1>1, <1>5, <2>1, <2>2 DEF CurrentInv, OrderInv, PastInv, Whole
  <2>4. WaitInv(c)' /\ PipeInv(c)' /\ TraceInv(c)' /\ WorkInv(c)'
    BY <1>1, <1>2, <1>3, <1>4, <2>1, <2>2
       DEF CurrentInv, WaitInv, PipeInv, TraceInv, WorkInv
  <2> QED BY <2>3, <2>4 DEF CurrentInv
<1>7. CASE ~traceError
  <2>1. /\ promise' = [promise EXCEPT ![c] = "resolved"]
        /\ got' = [got EXCEPT ![c] = work] /\ work' = {}
    BY <1>1, <1>7 DEF ResultSettles, Reject, TypeOK
  <2>2. /\ promise'[c] = "resolved" /\ got'[c] = posted \cap {c}
        /\ \A k \in Requests : k # c => promise'[k] = promise[k] /\ got'[k] = got[k]
    BY <1>4, <2>1 DEF TypeOK
  <2>3. handled[c] = traced[c]
    <3>1. Traces(stdout) = 0 /\ Len(traceQueue) = 0 /\ handled[c] \in Nat
      BY <1>2, <1>3, TracesEmpty DEF TypeOK
    <3> QED BY <1>7, <3>1 DEF CurrentInv, TraceInv
  <2>4. OrderInv(c)'
    BY <1>5, <2>2 DEF CurrentInv, OrderInv
  <2>5. PastInv(c)'
    BY <1>1, <2>2, <2>3 DEF CurrentInv, PastInv, Whole
  <2>6. WaitInv(c)' /\ PipeInv(c)' /\ TraceInv(c)' /\ WorkInv(c)'
    BY <1>1, <1>2, <1>3, <2>1, <2>2
       DEF CurrentInv, WaitInv, PipeInv, TraceInv, WorkInv
  <2> QED BY <2>4, <2>5, <2>6 DEF CurrentInv
<1> QED BY <1>6, <1>7

(* Rejecting the waiters rejects the current request, if it waits.          *)
LEMMA RejectAllInv ==
  ASSUME TypeOK, NEW c \in Requests, CurrentInv(c), RejectAll
  PROVE  /\ waiters' = <<>>
         /\ \A k \in Requests : k # c => promise'[k] = promise[k]
         /\ promise'[c] = IF waiters = <<>> THEN promise[c] ELSE "rejected"
         /\ promise'[c] = "resolved" => promise[c] = "resolved"
BY OneWaits DEF RejectAll, Reject

LEMMA CloseEventInv ==
  ASSUME TypeOK, NEW c \in Requests, CurrentInv(c), CloseEvent
  PROVE  CurrentInv(c)'
<1> USE DEF process
<1>1. /\ waiters' = <<>>
      /\ \A k \in Requests : k # c => promise'[k] = promise[k]
      /\ promise'[c] = IF waiters = <<>> THEN promise[c] ELSE "rejected"
      /\ waiters # <<>> => resolving = <<>> /\ promise[c] = "waiting" /\ waiters = <<c>>
      /\ closed'
      /\ UNCHANGED <<resolving, work, traceQueue, traceError, handled, got,
                     process, stdin, stdout, closing, signal>>
  BY RejectAllInv DEF CloseEvent, CurrentInv, WaitInv
<1>2. \A k \in Requests : k > c \/ k < c => k # c
  BY OneWaits
<1>3. OrderInv(c)' /\ PastInv(c)'
  BY <1>1, <1>2 DEF CurrentInv, OrderInv, PastInv, Whole
<1>4. WaitInv(c)' /\ PipeInv(c)'
  BY <1>1 DEF CurrentInv, WaitInv, PipeInv
<1>5. TraceInv(c)' /\ WorkInv(c)'
  BY <1>1 DEF CurrentInv, TraceInv, WorkInv
<1> QED BY <1>3, <1>4, <1>5 DEF CurrentInv

LEMMA StdinErrorInv ==
  ASSUME TypeOK, NEW c \in Requests, CurrentInv(c), StdinError
  PROVE  CurrentInv(c)'
<1> USE DEF process
<1>1. /\ stdin # <<>> /\ stdin' = <<>>
      /\ UNCHANGED <<resolving, work, traceQueue, traceError, closed, handled, got,
                     process, stdout, closing, signal>>
  BY DEF StdinError
<1>2. serving = 0 /\ c # 0
  BY <1>1, OneWaits DEF CurrentInv, PipeInv
<1>3. CASE closing
  <2>1. UNCHANGED <<promise, waiters>>
    BY <1>3 DEF StdinError
  <2>2. OrderInv(c)' /\ PastInv(c)' /\ WaitInv(c)' /\ TraceInv(c)' /\ WorkInv(c)'
    BY <1>1, <2>1 DEF CurrentInv, OrderInv, PastInv, Whole, WaitInv, TraceInv, WorkInv
  <2>3. PipeInv(c)'
    BY <1>1, <1>2, <2>1 DEF CurrentInv, PipeInv
  <2> QED BY <2>2, <2>3 DEF CurrentInv
<1>4. CASE ~closing
  <2>1. /\ waiters' = <<>>
        /\ \A k \in Requests : k # c => promise'[k] = promise[k]
        /\ promise'[c] = IF waiters = <<>> THEN promise[c] ELSE "rejected"
        /\ waiters # <<>> => resolving = <<>> /\ promise[c] = "waiting" /\ waiters = <<c>>
    BY <1>4, RejectAllInv DEF StdinError, CurrentInv, WaitInv
  <2>2. \A k \in Requests : k > c \/ k < c => k # c
    BY OneWaits
  <2>3. OrderInv(c)' /\ PastInv(c)'
    BY <1>1, <2>1, <2>2 DEF CurrentInv, OrderInv, PastInv, Whole
  <2>4. WaitInv(c)' /\ PipeInv(c)'
    BY <1>1, <1>2, <2>1 DEF CurrentInv, WaitInv, PipeInv
  <2>5. TraceInv(c)' /\ WorkInv(c)'
    BY <1>1, <2>1 DEF CurrentInv, TraceInv, WorkInv
  <2> QED BY <2>3, <2>4, <2>5 DEF CurrentInv
<1> QED BY <1>3, <1>4

------------------------------------------------------------------------------
(* The caller's steps. *)

(* The next request is sent when the current one resolved, and by then      *)
(* nothing of it is left anywhere.                                          *)
LEMMA TaskCompleteInv ==
  ASSUME TypeOK, NEW c \in Requests, CurrentInv(c), NEW k \in Requests, TaskComplete(k)
  PROVE  k = c + 1 /\ CurrentInv(k)'
<1> USE DEF process
<1>1. c \in Nat /\ k \in Nat /\ c # 0 /\ k - 1 \in Requests
  BY DEF TaskComplete, Requests
<1>2. k = c + 1
  <2>1. ~(k <= c)
    BY <1>1 DEF TaskComplete, CurrentInv, OrderInv
  <2>2. ~(k - 1 > c)
    BY <1>1 DEF TaskComplete, CurrentInv, OrderInv
  <2> QED BY <1>1, <2>1, <2>2
<1>3. promise[c] = "resolved" /\ ~closing /\ ~closed
  BY <1>1, <1>2 DEF TaskComplete
<1>4. /\ waiters = <<>> /\ resolving = <<>> /\ serving = 0 /\ stdout = <<>>
      /\ traceQueue = <<>> /\ work = {} /\ stdin = <<>> /\ DOMAIN stdout = {}
  BY <1>3 DEF CurrentInv, WaitInv, PipeInv, TraceInv, WorkInv
<1>5. /\ waiters' = <<k>> /\ stdin' = <<k>>
      /\ promise'[k] = "waiting" /\ \A i \in Requests : i # k => promise'[i] = promise[i]
      /\ UNCHANGED <<resolving, work, traceQueue, traceError, closed, handled, got,
                     process, stdout, closing, signal>>
  BY <1>4 DEF TaskComplete, TypeOK
<1>6. OrderInv(k)' /\ PastInv(k)'
  <2>1. \A i \in Requests : i < k => i = c \/ i < c
    BY <1>1, <1>2 DEF Requests
  <2>2. \A i \in Requests : i > k => i > c /\ i # k
    BY <1>1, <1>2 DEF Requests
  <2>3. \A i \in Requests : i < k => i # k
    BY <1>1 DEF Requests
  <2> QED BY <1>3, <1>5, <2>1, <2>2, <2>3 DEF CurrentInv, OrderInv, PastInv, Whole
<1>7. k \notin posted /\ handled[k] = 0 /\ traced[k] = 0
  BY <1>1, <1>2 DEF CurrentInv, PastInv
<1>8. WaitInv(k)' /\ WorkInv(k)'
  BY <1>3, <1>4, <1>5, <1>7 DEF WaitInv, WorkInv
<1>9. PipeInv(k)'
  <2>1. k # 0 /\ k # Stop /\ <<k>> # <<Stop>> /\ <<k>> # <<>>
    BY BoundsAssumption DEF Requests, Stop
  <2> QED BY <1>3, <1>4, <1>5, <1>7, <2>1 DEF PipeInv
<1>10. TraceInv(k)'
  <2>1. Traces(stdout) = 0 /\ Len(traceQueue) = 0
    BY <1>4, TracesEmpty
  <2> QED BY <1>4, <1>5, <1>7, <2>1 DEF TraceInv
<1> QED BY <1>2, <1>6, <1>8, <1>9, <1>10 DEF CurrentInv

LEMMA CallerInv ==
  ASSUME TypeOK, NEW c \in Requests, CurrentInv(c), Close \/ Abort \/ ChildExits \/ UNCHANGED vars
  PROVE  CurrentInv(c)'
<1> USE DEF session, process
<1>1. CASE Close
  <2>1. stdin = <<>>
    BY <1>1 DEF Close, CurrentInv, PipeInv, WaitInv
  <2>2. stdin' = <<Stop>> /\ closing' /\ UNCHANGED <<session, process, stdout, signal>>
    BY <1>1, <2>1 DEF Close
  <2>3. promise[c] # "waiting"
    BY <1>1 DEF Close
  <2>4. serving # c /\ <<Stop>> # <<c>> /\ <<Stop>> # <<>>
    <3>1. serving = c => waiters = <<c>> \/ closed
      BY DEF CurrentInv, PipeInv
    <3>2. waiters # <<c>> /\ ~closed
      BY <1>1, <2>3 DEF Close, CurrentInv, WaitInv
    <3>3. <<Stop>> # <<c>> /\ <<Stop>> # <<>>
      BY OneWaits
    <3> QED BY <3>1, <3>2, <3>3
  <2>5. OrderInv(c)' /\ PastInv(c)' /\ TraceInv(c)' /\ WorkInv(c)'
    BY <2>2 DEF CurrentInv, OrderInv, PastInv, Whole, TraceInv, WorkInv
  <2>6. WaitInv(c)' /\ PipeInv(c)'
    BY <2>2, <2>3, <2>4 DEF CurrentInv, WaitInv, PipeInv
  <2> QED BY <2>5, <2>6 DEF CurrentInv
<1>2. CASE Abort \/ ChildExits \/ UNCHANGED vars
  <2>1. UNCHANGED <<session, serving, traced, posted, stdin, stdout, closing>>
    BY <1>2 DEF Abort, ChildExits, vars
  <2> QED BY <2>1 DEF CurrentInv, OrderInv, PastInv, Whole, WaitInv, PipeInv, TraceInv, WorkInv
<1> QED BY <1>1, <1>2

LEMMA NextCurrent ==
  ASSUME IInv, [Next]_vars
  PROVE  \E c \in Requests : CurrentInv(c)'
<1>1. PICK c \in Requests : CurrentInv(c)
  BY DEF IInv
<1>2. CASE Child
  BY <1>1, <1>2, ChildReadsInv, ChildTracesInv, ChildPostsWorkInv, ChildAnswersInv, CallerInv
     DEF Child, IInv
<1>3. CASE ReadLine \/ Trace \/ ResultSettles
  BY <1>1, <1>3, ReadLineInv, TraceStepInv, ResultSettlesInv DEF Trace, IInv
<1>4. CASE CloseEvent \/ StdinError
  BY <1>1, <1>4, CloseEventInv, StdinErrorInv DEF IInv
<1>5. CASE \E k \in Requests : TaskComplete(k)
  BY <1>1, <1>5, TaskCompleteInv DEF IInv
<1>6. CASE Close \/ Abort \/ UNCHANGED vars
  BY <1>1, <1>6, CallerInv DEF IInv
<1> QED BY <1>2, <1>3, <1>4, <1>5, <1>6 DEF Next

------------------------------------------------------------------------------
(* Type correctness. *)

LEMMA InitInv == Init => IInv
<1> SUFFICES ASSUME Init PROVE IInv
  OBVIOUS
<1>1. 1 \in Requests
  BY BoundsAssumption DEF Requests
<1>2. TypeOK
  <2>1. /\ waiters \in Seq(Requests) /\ resolving \in Seq(Requests) /\ traceQueue \in Seq(Requests)
        /\ stdin \in Seq(Requests \cup {Stop}) /\ stdout \in Seq(Lines)
    BY <1>1 DEF Init
  <2>2. traced \in [Requests -> 0..MaxTraces] /\ handled \in [Requests -> 0..MaxTraces]
    BY BoundsAssumption DEF Init
  <2>3. promise \in [Requests -> {"unsent", "waiting", "resolved", "rejected"}]
    BY DEF Init
  <2>4. got \in [Requests -> SUBSET Requests] /\ work \in SUBSET Requests /\ posted \in SUBSET Requests
    BY DEF Init
  <2> QED BY <1>1, <2>1, <2>2, <2>3, <2>4 DEF Init, TypeOK
<1>3. OrderInv(1) /\ PastInv(1)
  BY <1>1 DEF Init, OrderInv, PastInv, Whole, Requests
<1>4. WaitInv(1) /\ PipeInv(1)
  BY <1>1 DEF Init, WaitInv, PipeInv
<1>5. TraceInv(1) /\ WorkInv(1)
  BY <1>1, TracesEmpty DEF Init, TraceInv, WorkInv
<1> QED BY <1>1, <1>2, <1>3, <1>4, <1>5 DEF IInv, CurrentInv

LEMMA NextType == IInv /\ [Next]_vars => TypeOK'
<1> SUFFICES ASSUME IInv, [Next]_vars PROVE TypeOK'
  OBVIOUS
<1> USE DEF session, process
<1>0. PICK c \in Requests : CurrentInv(c)
  BY DEF IInv
<1>a. TypeOK
  BY DEF IInv
<1>1. CASE ChildReads
  <2>1. Head(stdin) \in Requests \cup {Stop} /\ stdin' \in Seq(Requests \cup {Stop})
    BY <1>a, <1>1 DEF ChildReads, TypeOK
  <2> QED BY <1>a, <1>1, <2>1 DEF ChildReads, TypeOK
<1>2. ASSUME NEW kind \in {"trace", "work", "result"}, serving # 0,
             stdout' = Append(stdout, Line(kind, serving))
      PROVE  stdout' \in Seq(Lines)
  BY <1>a, <1>2, PipeGrows DEF TypeOK
<1>3. CASE ChildTraces
  <2>1. traced' \in [Requests -> 0..MaxTraces]
    BY <1>a, <1>3, BoundsAssumption DEF ChildTraces, TypeOK
  <2>2. stdout' \in Seq(Lines)
    BY <1>2, <1>3 DEF ChildTraces
  <2> QED BY <1>a, <1>3, <2>1, <2>2 DEF ChildTraces, TypeOK
<1>4. CASE ChildPostsWork
  <2>1. stdout' \in Seq(Lines)
    BY <1>2, <1>4 DEF ChildPostsWork
  <2> QED BY <1>a, <1>4, <2>1 DEF ChildPostsWork, TypeOK
<1>5. CASE ChildAnswers
  <2>1. stdout' \in Seq(Lines)
    BY <1>2, <1>5 DEF ChildAnswers
  <2> QED BY <1>a, <1>5, <2>1 DEF ChildAnswers, TypeOK
<1>6. CASE ReadLine
  <2>1. Head(stdout).of \in Requests /\ stdout' \in Seq(Lines)
    <3>1. Head(stdout) \in Lines
      BY <1>a, <1>6 DEF ReadLine, TypeOK
    <3> QED BY <1>a, <1>6, <3>1 DEF ReadLine, TypeOK, Lines
  <2>2. waiters # <<>> => Head(waiters) \in Requests /\ Tail(waiters) \in Seq(Requests)
    BY <1>a DEF TypeOK
  <2>3. \/ UNCHANGED <<waiters, resolving>>
        \/ waiters # <<>> /\ waiters' = Tail(waiters)
             /\ resolving' = Append(resolving, Head(waiters))
    BY <1>6 DEF ReadLine
  <2>4. waiters' \in Seq(Requests) /\ resolving' \in Seq(Requests)
    <3>1. waiters \in Seq(Requests) /\ resolving \in Seq(Requests)
      BY <1>a DEF TypeOK
    <3>2. CASE waiters' = waiters /\ resolving' = resolving
      BY <3>1, <3>2
    <3>3. CASE waiters # <<>> /\ waiters' = Tail(waiters) /\ resolving' = Append(resolving, Head(waiters))
      BY <2>2, <3>1, <3>3
    <3> QED BY <2>3, <3>2, <3>3
  <2>5. work' = work \/ work' = work \cup {Head(stdout).of}
    BY <1>6 DEF ReadLine
  <2>6. traceQueue' = traceQueue \/ traceQueue' = Append(traceQueue, Head(stdout).of)
    BY <1>6 DEF ReadLine
  <2>7. work' \in SUBSET Requests /\ traceQueue' \in Seq(Requests)
    <3>1. work \in SUBSET Requests /\ traceQueue \in Seq(Requests)
      BY <1>a DEF TypeOK
    <3> QED BY <2>1, <2>5, <2>6, <3>1
  <2> QED BY <1>a, <1>6, <2>1, <2>4, <2>7 DEF ReadLine, TypeOK
<1>7. CASE TraceHandled \/ TraceFails
  <2>1. traceQueue' \in Seq(Requests) /\ Head(traceQueue) = c /\ Len(traceQueue) \in Nat \ {0}
    <3>1. traceQueue # <<>> /\ traceQueue' = Tail(traceQueue) /\ traceQueue \in Seq(Requests)
      BY <1>a, <1>7 DEF TraceHandled, TraceFails, TypeOK
    <3>2. 1 \in DOMAIN traceQueue /\ Head(traceQueue) = traceQueue[1]
      BY <3>1
    <3> QED BY <1>0, <3>1, <3>2 DEF CurrentInv, TraceInv
  <2>2. handled[c] + 1 <= traced[c] /\ handled[c] \in Nat /\ traced[c] \in 0..MaxTraces
    <3>1. handled[c] \in Nat /\ Traces(stdout) \in Nat /\ traced[c] \in 0..MaxTraces
      BY <1>a, TracesFinite DEF TypeOK
    <3>2. handled[c] + Len(traceQueue) + Traces(stdout) <= traced[c]
      BY <1>0 DEF CurrentInv, TraceInv
    <3> QED BY <2>1, <3>1, <3>2
  <2>3. handled[c] + 1 \in 0..MaxTraces
    BY <2>2, BoundsAssumption
  <2>4. handled' \in [Requests -> 0..MaxTraces]
    BY <1>a, <1>7, <2>1, <2>3 DEF TraceHandled, TraceFails, TypeOK
  <2> QED BY <1>a, <1>7, <2>1, <2>4 DEF TraceHandled, TraceFails, TypeOK
<1>8. CASE ResultSettles
  <2>1. resolving' \in Seq(Requests)
    BY <1>a, <1>8 DEF ResultSettles, TypeOK
  <2>2. promise' \in [Requests -> {"unsent", "waiting", "resolved", "rejected"}]
    BY <1>a, <1>8 DEF ResultSettles, Reject, TypeOK
  <2>3. got' \in [Requests -> SUBSET Requests] /\ work' \in SUBSET Requests
    BY <1>a, <1>8 DEF ResultSettles, TypeOK
  <2> QED BY <1>a, <1>8, <2>1, <2>2, <2>3 DEF ResultSettles, TypeOK
<1>9. CASE CloseEvent \/ StdinError
  <2>1. promise' \in [Requests -> {"unsent", "waiting", "resolved", "rejected"}]
    BY <1>a, <1>9 DEF CloseEvent, StdinError, RejectAll, Reject, TypeOK
  <2>2. waiters' \in Seq(Requests) /\ stdin' \in Seq(Requests \cup {Stop})
    <3>1. <<>> \in Seq(Requests) /\ <<>> \in Seq(Requests \cup {Stop})
      OBVIOUS
    <3>2. waiters' = waiters \/ waiters' = <<>>
      BY <1>9 DEF CloseEvent, StdinError, RejectAll
    <3>3. stdin' = stdin \/ stdin' = <<>>
      BY <1>9 DEF CloseEvent, StdinError
    <3> QED BY <1>a, <3>1, <3>2, <3>3 DEF TypeOK
  <2> QED BY <1>a, <1>9, <2>1, <2>2 DEF CloseEvent, StdinError, TypeOK
<1>10. ASSUME NEW k \in Requests, TaskComplete(k) PROVE TypeOK'
  BY <1>a, <1>10 DEF TaskComplete, TypeOK
<1>11. CASE Close \/ Abort \/ ChildExits \/ UNCHANGED vars
  <2>1. stdin' \in Seq(Requests \cup {Stop})
    <3>1. stdin' = stdin \/ stdin' = Append(stdin, Stop)
      BY <1>11 DEF Close, Abort, ChildExits, vars
    <3>2. stdin \in Seq(Requests \cup {Stop})
      BY <1>a DEF TypeOK
    <3> QED BY <3>1, <3>2
  <2> QED BY <1>a, <1>11, <2>1 DEF Close, Abort, ChildExits, vars, TypeOK
<1> QED BY <1>1, <1>3, <1>4, <1>5, <1>6, <1>7, <1>8, <1>9, <1>10, <1>11 DEF Next, Child, Trace

------------------------------------------------------------------------------
(* The session, its process and its caller always satisfy the invariant.    *)
THEOREM InvariantHolds == Spec => []IInv
<1>1. IInv /\ [Next]_vars => IInv'
  BY NextType, NextCurrent DEF IInv
<1> QED BY <1>1, InitInv, PTL DEF Spec

(* resolveSessionResult: a result carries the host work the process posted  *)
(* for that request, all of it and nothing of an earlier one, and resolves  *)
(* after every trace event of the request was handled.                      *)
THEOREM ResultsAreWhole == Spec => []ResultIsWhole
<1>1. IInv => ResultIsWhole
  BY DEF IInv, CurrentInv, PastInv, Whole, ResultIsWhole
<1> QED BY <1>1, InvariantHolds, PTL

------------------------------------------------------------------------------
(* The refinement.  States is what the caller sees of the requests.         *)

StateOf(p) ==
  CASE p = "unsent" -> "unsent" [] p = "waiting" -> "pending"
    [] p = "resolved" -> "replied" [] p = "rejected" -> "failed"

States == [k \in Requests |-> StateOf(promise[k])]

LEMMA StatesMove ==
  ASSUME TypeOK, NEW c \in Requests, NEW p,
         promise' = [promise EXCEPT ![c] = p]
  PROVE  States' = [States EXCEPT ![c] = StateOf(p)] /\ States[c] = StateOf(promise[c])
BY DEF TypeOK, States

LEMMA StateNames ==
  /\ StateOf("unsent") = "unsent" /\ StateOf("waiting") = "pending"
  /\ StateOf("resolved") = "replied" /\ StateOf("rejected") = "failed"
BY DEF StateOf

LEMMA StepConverses ==
  ASSUME IInv, [Next]_vars
  PROVE  UNCHANGED States \/ Conversation!Next
<1>0. PICK c \in Requests : CurrentInv(c)
  BY DEF IInv
<1>a. TypeOK
  BY DEF IInv
<1>1. CASE UNCHANGED promise
  BY <1>1 DEF States
<1>2. ASSUME NEW p \in {"resolved", "rejected"}, promise[c] = "waiting",
             promise' = [promise EXCEPT ![c] = p]
      PROVE  Conversation!Next
  <2>1. /\ States[c] = "pending" /\ StateOf(p) \in {"replied", "failed"}
        /\ States' = [States EXCEPT ![c] = StateOf(p)]
    BY <1>a, <1>2, StatesMove, StateNames
  <2>2. Conversation!Settle(c)
    BY <2>1 DEF Conversation!Settle, States, StateOf
  <2> QED BY <2>2 DEF Conversation!Next
<1>3. CASE ResultSettles
  <2>1. Head(resolving) = c /\ promise[c] = "waiting"
    BY <1>0, <1>a, <1>3, OneWaits DEF ResultSettles, CurrentInv, WaitInv
  <2>2. \E p \in {"resolved", "rejected"} : promise' = [promise EXCEPT ![c] = p]
    BY <1>a, <1>3, <2>1 DEF ResultSettles, Reject, TypeOK
  <2> QED BY <1>2, <2>1, <2>2
<1>4. CASE RejectAll
  <2>1. CASE waiters = <<>>
    <3>1. promise' = promise
      BY <1>0, <1>a, <1>4, <2>1, OneWaits DEF RejectAll, Reject, TypeOK
    <3> QED BY <1>1, <3>1
  <2>2. CASE waiters # <<>>
    <3>1. promise[c] = "waiting" /\ promise' = [promise EXCEPT ![c] = "rejected"]
      BY <1>0, <1>a, <1>4, <2>2, OneWaits DEF RejectAll, Reject, TypeOK, CurrentInv, WaitInv
    <3> QED BY <1>2, <3>1
  <2> QED BY <2>1, <2>2
<1>5. ASSUME NEW k \in Requests, TaskComplete(k) PROVE Conversation!Next
  <2>1. /\ k - 1 \in Requests /\ promise[k] = "unsent" /\ promise[k - 1] = "resolved"
        /\ promise' = [promise EXCEPT ![k] = "waiting"]
    BY <1>5 DEF TaskComplete
  <2>2. /\ States[k] = "unsent" /\ States[k - 1] = "replied"
        /\ States' = [States EXCEPT ![k] = "pending"]
    <3>1. States[k - 1] = StateOf(promise[k - 1])
      BY <2>1 DEF States
    <3>2. /\ States[k] = StateOf(promise[k])
          /\ States' = [States EXCEPT ![k] = StateOf("waiting")]
      BY <1>a, <2>1, StatesMove
    <3> QED BY <2>1, <3>1, <3>2, StateNames
  <2>3. Conversation!Send(k)
    BY <2>1, <2>2 DEF Conversation!Send, States, StateOf
  <2> QED BY <2>3 DEF Conversation!Next
<1>6. CASE CloseEvent \/ StdinError
  BY <1>1, <1>4, <1>6 DEF CloseEvent, StdinError
<1>7. CASE Child \/ ReadLine \/ Trace \/ Close \/ Abort \/ UNCHANGED vars
  BY <1>1, <1>7 DEF Child, ChildReads, ChildTraces, ChildPostsWork, ChildAnswers, ChildExits,
     ReadLine, Trace, TraceHandled, TraceFails, Close, Abort, vars, session
<1> QED BY <1>3, <1>5, <1>6, <1>7 DEF Next

(* QianjiHostSession: its caller sees requests sent and settled one at a    *)
(* time, each once, and none after one that failed.                         *)
THEOREM ConversationKept == Spec => ImplementsConversation
<1>1. Init => Conversation!Init
  <2> SUFFICES ASSUME Init PROVE Conversation!Init
    OBVIOUS
  <2>1. States = [k \in Requests |-> IF k = 1 THEN "pending" ELSE "unsent"]
    BY StateNames DEF Init, States
  <2> QED BY <2>1 DEF Conversation!Init, States, StateOf
<1>2. IInv /\ [Next]_vars => [Conversation!Next]_States
  BY StepConverses
<1>3. ImplementsConversation <=> Conversation!Init /\ [][Conversation!Next]_States
  BY DEF ImplementsConversation, Conversation!Spec, States, StateOf
<1> QED BY <1>1, <1>2, <1>3, InvariantHolds, PTL DEF Spec

==============================================================================
