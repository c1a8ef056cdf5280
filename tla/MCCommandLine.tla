--------------------------- MODULE MCCommandLine ---------------------------
(***************************************************************************)
(* One use of the command line and of what stands around a run: compiling,  *)
(* resolving a named workflow, the checks before a run, a human task, live  *)
(* answers, the corpus benchmark, a search, the view of a run and recalled  *)
(* memory.  The use is chosen at the start; the other machines stay where   *)
(* they begin.  Variables carry their machine's initial.                    *)
(***************************************************************************)
EXTENDS Naturals, Sequences

CONSTANTS
  MaxRepair, Compiles,                    \* Compile
  Sessions, MaxChanges,                   \* NamedWorkflow
  Runs, Changes,                          \* Preflight
  Rounds,                                 \* TaskContract
  Rows, ChunkSize, MaxRuns, MaxEdits,     \* LiveAnswers
  Concurrency, BatchSize, RetryLimit, Warmups,
  Candidates, Unknown,                    \* SearchTrace
  Nodes, Statuses, MaxEvents,             \* RunView
  ShownRows, ShownObjects, None           \* MemoryRecall

\* Memory packets: of one claim; of the same claim and an object without text;
\* of two rows, the second without a paragraph; and one that cannot be read.
Object(k, v) == [kind |-> k, value |-> v]
Row(i, objects, paragraph) == [id |-> i, objects |-> objects, paragraph |-> paragraph]
Packet(rows) == [ok |-> TRUE, rows |-> rows]
Packets == {
  Packet(<<Row(1, <<Object("claim", "a")>>, TRUE)>>),
  Packet(<<Row(2, <<Object("claim", "a"), Object("note", "")>>, TRUE)>>),
  Packet(<<Row(1, <<Object("evidence", "a"), Object("claim", "b")>>, TRUE),
           Row(2, <<Object("claim", "c")>>, FALSE)>>),
  [ok |-> FALSE, rows |-> <<>>]}

VARIABLES
  use,
  c_compile, c_step, c_lint, c_target, c_attempt, c_draft, c_files, c_torn,
  n_changes, n_skill, n_seed, n_cached, n_at, n_read,
  p_file, p_table, p_command, p_changes, p_cache, p_run, p_step, p_path, p_print,
  p_caching, p_attempt, p_raced, p_poisoned, p_started,
  t_workflow, t_step, t_round, t_values, t_shown,
  a_request, a_edits, a_file, a_run, a_step, a_asked, a_rows, a_cuts,
  b_mode, b_step, b_trace, b_taken, b_worker, b_results, b_runs, b_cursor, b_tries,
  b_verdict, b_passed,
  s_kind, s_opts, s_aborted, s_step, s_search, s_trace, s_agent, s_temps, s_spoilt,
  s_evidence, s_printed,
  v_phase, v_aborted, v_graph, v_checkpoint, v_stream, v_trace, v_pipe, v_open, v_code,
  v_report, v_streamed, v_queue, v_threw, v_handled, v_result, v_message,
  m_file, m_edits, m_process, m_packet, m_session, m_entries, m_call, m_told,
  m_variants, m_scores

Compiler == INSTANCE Compile WITH
  compile <- c_compile, step <- c_step, lint <- c_lint, target <- c_target, attempt <-
  c_attempt, draft <- c_draft, files <- c_files, torn <- c_torn
Named == INSTANCE NamedWorkflow WITH
  changes <- n_changes, skill <- n_skill, seed <- n_seed, cached <- n_cached, at <-
  n_at, read <- n_read
Checks == INSTANCE Preflight WITH
  file <- p_file, table <- p_table, command <- p_command, changes <- p_changes, cache <-
  p_cache, run <- p_run, step <- p_step, path <- p_path, print <- p_print, caching <-
  p_caching, attempt <- p_attempt, raced <- p_raced, poisoned <- p_poisoned, started
  <- p_started, MaxChanges <- Changes
Task == INSTANCE TaskContract WITH
  workflow <- t_workflow, step <- t_step, round <- t_round, values <- t_values,
  shown <- t_shown
Answers == INSTANCE LiveAnswers WITH
  request <- a_request, edits <- a_edits, file <- a_file, run <- a_run, step <- a_step,
  asked <- a_asked, rows <- a_rows, cuts <- a_cuts
Benchmark == INSTANCE CorpusBenchmark WITH
  mode <- b_mode, step <- b_step, trace <- b_trace, taken <- b_taken, worker <-
  b_worker, results <- b_results, runs <- b_runs, cursor <- b_cursor, tries <-
  b_tries, verdict <- b_verdict, passed <- b_passed
Search == INSTANCE SearchTrace WITH
  kind <- s_kind, opts <- s_opts, aborted <- s_aborted, step <- s_step, search <-
  s_search, trace <- s_trace, agent <- s_agent, temps <- s_temps, spoilt <- s_spoilt,
  evidence <- s_evidence, printed <- s_printed
View == INSTANCE RunView WITH
  phase <- v_phase, aborted <- v_aborted, graph <- v_graph, checkpoint <- v_checkpoint,
  stream <- v_stream, trace <- v_trace, pipe <- v_pipe, open <- v_open, code <-
  v_code, report <- v_report, streamed <- v_streamed, queue <- v_queue, threw <-
  v_threw, handled <- v_handled, result <- v_result, message <- v_message
Memory == INSTANCE MemoryRecall WITH
  file <- m_file, edits <- m_edits, process <- m_process, packet <- m_packet, session <-
  m_session, entries <- m_entries, call <- m_call, told <- m_told, variants <-
  m_variants, scores <- m_scores

compileVars == <<c_compile, c_step, c_lint, c_target, c_attempt, c_draft, c_files,
  c_torn>>
namedVars == <<n_changes, n_skill, n_seed, n_cached, n_at, n_read>>
preflightVars == <<p_file, p_table, p_command, p_changes, p_cache, p_run, p_step,
  p_path, p_print, p_caching, p_attempt, p_raced, p_poisoned, p_started>>
taskVars == <<t_workflow, t_step, t_round, t_values, t_shown>>
answersVars == <<a_request, a_edits, a_file, a_run, a_step, a_asked, a_rows, a_cuts>>
benchmarkVars == <<b_mode, b_step, b_trace, b_taken, b_worker, b_results, b_runs,
  b_cursor, b_tries, b_verdict, b_passed>>
searchVars == <<s_kind, s_opts, s_aborted, s_step, s_search, s_trace, s_agent,
  s_temps, s_spoilt, s_evidence, s_printed>>
viewVars == <<v_phase, v_aborted, v_graph, v_checkpoint, v_stream, v_trace, v_pipe,
  v_open, v_code, v_report, v_streamed, v_queue, v_threw, v_handled, v_result,
  v_message>>
memoryVars == <<m_file, m_edits, m_process, m_packet, m_session, m_entries, m_call,
  m_told, m_variants, m_scores>>
vars == <<use, compileVars, namedVars, preflightVars, taskVars, answersVars,
  benchmarkVars, searchVars, viewVars, memoryVars>>

\* What the machines assume of their constants.
ASSUME MachinesAssumption ==
  /\ Compiler!CompileAssumption /\ Named!ChangesAssumption /\ Checks!PreflightAssumption
  /\ Task!RoundsAssumption /\ Answers!AnswersAssumption /\ Benchmark!BenchmarkAssumption
  /\ View!RunViewAssumption /\ Memory!MemoryAssumption

Init ==
  /\ use \in {"compile", "named", "preflight", "task", "answers", "benchmark", "search",
             "view", "memory"}
  /\ Compiler!Init /\ Named!Init /\ Checks!Init /\ Task!Init /\ Answers!Init
  /\ Benchmark!Init /\ Search!Init /\ View!Init /\ Memory!Init
  /\ use = "search" \/ s_opts = CHOOSE o \in Search!Options : TRUE
  /\ use = "memory" \/ m_file = CHOOSE f \in Packets : TRUE

CompilerStep == use = "compile" /\ Compiler!Next /\ UNCHANGED <<use, namedVars,
  preflightVars, taskVars, answersVars, benchmarkVars, searchVars, viewVars,
  memoryVars>>
NamedStep == use = "named" /\ Named!Next /\ UNCHANGED <<use, compileVars,
  preflightVars, taskVars, answersVars, benchmarkVars, searchVars, viewVars,
  memoryVars>>
ChecksStep == use = "preflight" /\ Checks!Next /\ UNCHANGED <<use, compileVars,
  namedVars, taskVars, answersVars, benchmarkVars, searchVars, viewVars, memoryVars>>
TaskStep == use = "task" /\ Task!Next /\ UNCHANGED <<use, compileVars, namedVars,
  preflightVars, answersVars, benchmarkVars, searchVars, viewVars, memoryVars>>
AnswersStep == use = "answers" /\ Answers!Next /\ UNCHANGED <<use, compileVars,
  namedVars, preflightVars, taskVars, benchmarkVars, searchVars, viewVars,
  memoryVars>>
BenchmarkStep == use = "benchmark" /\ Benchmark!Next /\ UNCHANGED <<use, compileVars,
  namedVars, preflightVars, taskVars, answersVars, searchVars, viewVars, memoryVars>>
SearchStep == use = "search" /\ Search!Next /\ UNCHANGED <<use, compileVars,
  namedVars, preflightVars, taskVars, answersVars, benchmarkVars, viewVars,
  memoryVars>>
ViewStep == use = "view" /\ View!Next /\ UNCHANGED <<use, compileVars, namedVars,
  preflightVars, taskVars, answersVars, benchmarkVars, searchVars, memoryVars>>
MemoryStep == use = "memory" /\ Memory!Next /\ UNCHANGED <<use, compileVars,
  namedVars, preflightVars, taskVars, answersVars, benchmarkVars, searchVars,
  viewVars>>

Next == CompilerStep \/ NamedStep \/ ChecksStep \/ TaskStep \/ AnswersStep \/
        BenchmarkStep \/ SearchStep \/ ViewStep \/ MemoryStep
Spec == Init /\ [][Next]_vars

\* The machines' own properties; each is stated at its definition.
\* A file that a compile or the checks let pass is sound, and the run starts that
\* file (src/compiler/repair-loop.ts, src/cli/workflow-runner/preflight.ts).
LintedIsSound == Compiler!CompiledIsSound /\ Checks!StartedIsSound
\* A cached workflow is made from the current text (src/cli/named-workflows.ts).
FreshMeansCurrent == Named!FreshMeansCurrent
\* A task that was linted can be answered, but for what the lint does not ask
\* (src/compiler/contract-lint.ts).
TaskIsAnswerable == Task!LintedTaskCanBeAnswered
\* Evidence rows answer the rows of the request (src/cli/search/live-answer-*).
EvidenceAnswersRequests == Answers!EvidenceAnswersRequests
\* A report credits each row with its own runs (markdown-corpus-benchmark).
ReportIsSound == Benchmark!ReportIsSound
\* Evidence has a reason in the trace, and no temporary file stays
\* (src/cli/search/strategy-flow-trace.ts).
SearchIsSound == Search!EvidenceIsJustified /\ Search!NoFilesLeft
\* The graph shows what the engine told, and a thrown error fails the run
\* (src/executor/qianji-cli.ts).
GraphShowsEngine == View!GraphShowsEngine
\* A session is told of every packet it should know (src/cli/serverless-memory).
RecallIsTold == Memory!RecallIsTold
=============================================================================
