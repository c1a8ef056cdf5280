--------------------------- MODULE CorpusBenchmark ---------------------------
(***************************************************************************)
(* The Markdown corpus benchmark of the search                              *)
(* (src/cli/search/strategy-flow-markdown-corpus-benchmark.ts and the       *)
(* directory beside it): every intent of a fixture is traced, a model       *)
(* judges the traces -- one at a time, or a batch of them per call -- and   *)
(* a report says which rows passed.                                         *)
(*                                                                         *)
(* Covered: traces through one bridge process for all rows or through one   *)
(* process each; the pool of concurrent attempts, the retries after it, the *)
(* two batch modes, and any answer of the bridge and of the model.  A row   *)
(* is its number in the fixture, its family too; of a trace the model keeps *)
(* whose it is, whether a judgement is needed and whether it passes the     *)
(* deterministic gates.                                                     *)
(***************************************************************************)
EXTENDS Naturals, Sequences, SequencesExt

CONSTANTS
  Rows,         \* rows of the fixture
  Concurrency,  \* normalizeLiveQianjiConcurrency
  BatchSize,    \* normalizeLiveAgentBatchSize
  RetryLimit,   \* normalizeLiveAgentRetryLimit
  Warmups       \* searchRustBridgeWarmupRows

BenchmarkAssumption ==
  /\ {Rows, Concurrency, BatchSize} \subseteq Nat \ {0}
  /\ {RetryLimit, Warmups} \subseteq Nat

VARIABLES
  mode,     \* "none", or how the model judges
  step,
  trace,    \* the traces so far, in the order of the rows
  taken,    \* items the pool has handed out
  worker,   \* the item each of its workers is at, 0 for none
  results,  \* of each finished item, the runs of its rows
  runs,     \* the rows' runs
  cursor,   \* the row the retries are at
  tries,    \* times a row was put to the model
  verdict,  \* the model's last word on the row
  passed    \* the report

vars == <<mode, step, trace, taken, worker, results, runs, cursor, tries, verdict, passed>>

Row == 1..Rows
Lesser(a, b) == IF a < b THEN a ELSE b
\* A row the model is not asked about, and the outcomes of one it is asked about.
Skipped(i) == [row |-> i, status |-> "skipped", tools |-> FALSE, attempts |-> 0]
Failed(i) == [row |-> i, status |-> "failed", tools |-> FALSE, attempts |-> 1]
TimedOut(i) == [Failed(i) EXCEPT !.status = "timeout"]
Completed(i, t) == [Failed(i) EXCEPT !.status = "completed", !.tools = t]

Init ==
  /\ mode = "none" /\ step = "idle" /\ trace = <<>> /\ taken = 0
  /\ worker = [w \in 1..Concurrency |-> 0] /\ results = <<>> /\ cursor = 1
  /\ runs = [i \in Row |-> Skipped(i)]
  /\ tries = [i \in Row |-> 0] /\ verdict = [i \in Row |-> "none"] /\ passed = <<>>

\* A live run without a Flight endpoint is refused; so is a session with a service.
Begin(m, session, flight, service) ==
  /\ step = "idle"
  /\ mode' = m
  /\ step' = IF (m # "none" /\ ~flight) \/ (session /\ service) THEN "failed"
             ELSE IF session THEN "session" ELSE "rows"
  /\ UNCHANGED <<trace, taken, worker, results, runs, cursor, tries, verdict, passed>>

Traces(i) == [row : {i}, need : BOOLEAN, gates : BOOLEAN]
Traced == IF mode = "none" THEN "report" ELSE "pool"

\* One process, all requests written at once, the warm-ups first; its answers are read
\* when it has ended and must come back one for one, in order.
Requests == LET warm == Lesser(Warmups, Rows)
            IN [k \in 1..(warm + Rows) |->
                 IF k <= warm THEN [warm |-> TRUE, row |-> k] ELSE [warm |-> FALSE, row |-> k - warm]]
InOrder(answers) == answers = Requests
Session ==
  /\ step = "session"
  /\ \/ \E n \in DOMAIN Requests, to \in DOMAIN Requests : \E from \in 1..n :
          LET said == [SubSeq(Requests, 1, n) EXCEPT ![from] = Requests[to]]
              own == SubSeq(said, Lesser(Warmups, Rows) + 1, Len(said))
          IN IF InOrder(said)
             THEN /\ trace' \in {t \in [Row -> UNION {Traces(i) : i \in Row}] :
                                   \A i \in Row : t[i].row = own[i].row}
                  /\ step' = Traced
             ELSE step' = "failed" /\ UNCHANGED trace
     \/ step' = "failed" /\ UNCHANGED trace
  /\ UNCHANGED <<mode, taken, worker, results, runs, cursor, tries, verdict, passed>>

\* A process for each row; the first that fails ends the benchmark.
TraceRow ==
  /\ step = "rows"
  /\ LET i == Len(trace) + 1
     IN \/ /\ \E t \in Traces(i) : trace' = Append(trace, t)
           /\ step' = IF i = Rows THEN Traced ELSE "rows"
        \/ step' = "failed" /\ UNCHANGED trace
  /\ UNCHANGED <<mode, taken, worker, results, runs, cursor, tries, verdict, passed>>

\* A batch takes the rows that need a judgement and pass the gates, in order.
Eligible == FoldLeft(LAMBDA rows, i : IF trace[i].need /\ trace[i].gates THEN Append(rows, i) ELSE rows,
                     <<>>, [i \in Row |-> i])
Chunks(s) == [c \in 1..((Len(s) + BatchSize - 1) \div BatchSize) |->
                SubSeq(s, (c - 1) * BatchSize + 1, Lesser(c * BatchSize, Len(s)))]
Items == IF mode = "branch" THEN [i \in Row |-> <<i>>] ELSE Chunks(Eligible)

\* mapWithConcurrency: a free worker takes the next item.
Take(w) ==
  /\ step = "pool" /\ worker[w] = 0 /\ w <= Len(Items) /\ taken < Len(Items)
  /\ taken' = taken + 1 /\ worker' = [worker EXCEPT ![w] = taken + 1]
  /\ UNCHANGED <<mode, step, trace, results, runs, cursor, tries, verdict, passed>>

\* runSearchStrategyFlowAgentTrace, which throws nothing; a row it skips counts as an
\* attempt all the same.
Attempts(i) == IF ~trace[i].need THEN {[Skipped(i) EXCEPT !.attempts = 1]}
               ELSE {Failed(i), TimedOut(i), Completed(i, FALSE), Completed(i, TRUE)}
Said(r) == IF r.status = "completed" THEN "good" ELSE "none"

\* An item's outcome, at the item's place.
Put(k, outcome) == results' = [j \in DOMAIN results \cup {k} |-> IF j = k THEN outcome ELSE results[j]]

Attempt(w) ==
  /\ mode = "branch" /\ worker[w] # 0
  /\ LET i == Items[worker[w]][1]
     IN \E r \in Attempts(i) :
          /\ Put(worker[w], [j \in {i} |-> r])
          /\ tries' = [tries EXCEPT ![i] = @ + (IF trace[i].need THEN 1 ELSE 0)]
          /\ verdict' = [verdict EXCEPT ![i] = Said(r)]
  /\ worker' = [worker EXCEPT ![w] = 0]
  /\ UNCHANGED <<mode, step, trace, taken, runs, cursor, passed>>

\* What the model may say of the rows of a call, of some of them, or of others; an
\* answer that names no family cannot be read, nor one that names a family twice.
Answers == UNION {[F -> {"good", "bad"}] : F \in SUBSET Row \ {{}}}
Unanswered(chunk) == [i \in Range(chunk) |-> Failed(i)]

\* mapBatchOutputToRuns: a row the answer leaves out fails alone.
BatchJudged(chunk, answer, t) ==
  [i \in Range(chunk) |->
     IF i \in DOMAIN answer /\ answer[i] = "good" THEN Completed(i, t) ELSE Failed(i)]
\* mapOutputToRuns: all fail unless the answer covers the rows of the chunk and no other.
SufficiencyJudged(chunk, answer, t) ==
  [i \in Range(chunk) |->
     IF DOMAIN answer = Range(chunk) /\ answer[i] = "good" THEN Completed(i, t) ELSE Failed(i)]

\* The end of a worker's call about a chunk: one run for each row of the chunk.
Finish(w, chunk, answer, outcome) ==
  /\ Put(worker[w], outcome)
  /\ verdict' = [i \in Row |-> IF i \in Range(chunk) \cap DOMAIN answer THEN answer[i] ELSE verdict[i]]
  /\ tries' = [i \in Row |-> tries[i] + (IF i \in Range(chunk) THEN 1 ELSE 0)]
  /\ worker' = [worker EXCEPT ![w] = 0]
  /\ UNCHANGED <<mode, step, trace, taken, runs, cursor, passed>>

\* One call for the whole chunk: without auth, on a timeout, an error or an answer
\* that cannot be read, all its rows fail.
JudgeBatch(w) ==
  /\ mode = "judgement" /\ worker[w] # 0
  /\ LET chunk == Items[worker[w]]
     IN \/ \E answer \in Answers, t \in BOOLEAN :
             Finish(w, chunk, answer, BatchJudged(chunk, answer, t))
        \/ Finish(w, chunk, <<>>, Unanswered(chunk))
JudgeSufficiency(w) ==
  /\ mode = "sufficiency" /\ worker[w] # 0
  /\ LET chunk == Items[worker[w]]
     IN \/ \E answer \in Answers, t \in BOOLEAN :
             Finish(w, chunk, answer, SufficiencyJudged(chunk, answer, t))
        \/ Finish(w, chunk, <<>>, Unanswered(chunk))

\* The run of a row among the results: runs[rowRun.index].
Assembled_ByPosition(i) ==
  LET all == FlattenSeq([k \in 1..Len(Items) |-> [j \in DOMAIN Items[k] |-> results[k][Items[k][j]]]])
  IN IF i \in DOMAIN all THEN all[i] ELSE runs[i]
Assembled(i) ==
  LET of == {k \in DOMAIN results : i \in DOMAIN results[k]}
  IN IF of = {} THEN runs[i] ELSE results[CHOOSE k \in of : TRUE][i]

Collect ==
  /\ step = "pool" /\ taken = Len(Items) /\ \A w \in DOMAIN worker : worker[w] = 0
  /\ runs' = [i \in Row |-> Assembled(i)]
  /\ step' = IF mode = "branch" THEN "retry" ELSE "report"
  /\ UNCHANGED <<mode, trace, taken, worker, results, cursor, tries, verdict, passed>>

\* shouldRetryLiveAgentRun, within the limit of recoverSingleLiveAgentTimeout.
Retryable(i) == runs[i].status = "timeout" /\ trace[i].gates
Retry ==
  /\ step = "retry" /\ cursor <= Rows
  /\ Retryable(cursor) /\ runs[cursor].attempts <= RetryLimit
  /\ \E r \in Attempts(cursor) :
       /\ runs' = [runs EXCEPT ![cursor] = [r EXCEPT !.attempts = runs[cursor].attempts + 1]]
       /\ verdict' = [verdict EXCEPT ![cursor] = Said(r)]
  /\ tries' = [tries EXCEPT ![cursor] = @ + 1]
  /\ UNCHANGED <<mode, step, trace, taken, worker, results, cursor, passed>>

NextRow ==
  /\ step = "retry"
  /\ \/ /\ cursor <= Rows /\ ~(Retryable(cursor) /\ runs[cursor].attempts <= RetryLimit)
        /\ cursor' = cursor + 1 /\ UNCHANGED step
     \/ cursor > Rows /\ step' = "report" /\ UNCHANGED cursor
  /\ UNCHANGED <<mode, trace, taken, worker, results, runs, tries, verdict, passed>>

\* evaluateMarkdownCorpusBenchmarkRow: with a model, a row it was not asked about fails.
Violations(i) == {v \in {"gates", "live_agent_not_completed", "live_agent_used_tools"} :
  CASE v = "gates" -> ~trace[i].gates
    [] v = "live_agent_not_completed" -> mode # "none" /\ runs[i].status # "completed"
    [] v = "live_agent_used_tools" -> mode # "none" /\ runs[i].tools}
Report ==
  /\ step = "report"
  /\ passed' = [i \in Row |-> Violations(i) = {}]
  /\ step' = "done"
  /\ UNCHANGED <<mode, trace, taken, worker, results, runs, cursor, tries, verdict>>

Next ==
  \/ \E m \in {"none", "branch", "judgement", "sufficiency"}, session, flight, service \in BOOLEAN :
       Begin(m, session, flight, service)
  \/ Session \/ TraceRow
  \/ \E w \in 1..Concurrency : Take(w) \/ Attempt(w) \/ JudgeBatch(w) \/ JudgeSufficiency(w)
  \/ Collect \/ Retry \/ NextRow \/ Report
Spec == Init /\ [][Next]_vars

----------------------------------------------------------------------------
(* Properties. *)

\* A row passes only on its own trace and its own verdict: whatever the order in which
\* attempts and batches end, the report's row has the model's last word on that row,
\* counts every call about it, and has given up on a timeout only when no retry is left.
ReportIsSound ==
  step = "done" => \A i \in Row :
    /\ trace[i].row = i /\ runs[i].row = i
    /\ passed[i] /\ mode # "none" => verdict[i] = "good"
    /\ IF runs[i].status = "skipped" THEN tries[i] = 0 ELSE runs[i].attempts = tries[i]
    /\ tries[i] <= 1 + RetryLimit
    /\ mode = "branch" /\ Retryable(i) => tries[i] = 1 + RetryLimit
=============================================================================
