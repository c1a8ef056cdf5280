----------------------------- MODULE SearchTrace -----------------------------
(***************************************************************************)
(* A search (src/cli/search): the command traces an intent through the      *)
(* bridge, may let an agent judge the trace, traces again with what the     *)
(* agent said, writes answer evidence and prints; the tool of a child agent *)
(* does the first of these only.                                            *)
(*                                                                         *)
(* Covered: the command's options and the errors they end in, the temporary *)
(* files of each step, any trace of the bridge, and an agent that is not    *)
(* needed, has no auth, fails, is late or says anything about candidates    *)
(* known and unknown.  Of a trace the model keeps which candidates are      *)
(* selected, which have a planner action, whether a judgement is asked for  *)
(* and whether the required evidence is covered.                            *)
(***************************************************************************)
EXTENDS Naturals, FiniteSetsExt

CONSTANTS
  Candidates,
  Unknown      \* a candidate id that no trace has

VARIABLES
  kind,      \* "none", "trace" of the command, or "tool"
  opts,
  aborted,   \* the tool call's signal
  step,
  search,    \* which search this is
  trace,     \* the traces of both
  agent,     \* runSearchStrategyFlowAgentTrace's status and the judgements it accepted
  temps,     \* temporary directories
  spoilt,    \* a temporary file could not be written
  evidence,  \* the candidates of the evidence file
  printed    \* the search whose trace is printed

vars == <<kind, opts, aborted, step, search, trace, agent, temps, spoilt, evidence, printed>>

NoTrace == [selected |-> {}, acting |-> {}, llm |-> FALSE, covered |-> FALSE]
NoAgent == [status |-> "none", rows |-> {}]
Options == [agent : BOOLEAN, evidence : BOOLEAN, rust : BOOLEAN, session : BOOLEAN, service : BOOLEAN]

Init ==
  /\ kind = "none" /\ opts \in Options /\ aborted = FALSE /\ step = "idle" /\ search = 1
  /\ trace = [n \in 1..2 |-> NoTrace] /\ agent = NoAgent
  /\ temps = {} /\ spoilt = FALSE /\ evidence = {} /\ printed = 0

\* resolveAnswerRequestInvocation: with a request file there is no search; the command
\* answers the file or refuses its options.
Dispatch(request, live) ==
  /\ step = "idle" /\ kind' = "trace"
  /\ step' = IF ~request THEN "search"
             ELSE IF opts.evidence /\ live = opts.agent THEN "done" ELSE "failed"
  /\ UNCHANGED <<opts, aborted, search, trace, agent, temps, spoilt, evidence, printed>>

\* executeSearchStrategyFlowTool, which offers neither agent nor evidence nor julia-direct.
Tool ==
  /\ step = "idle" /\ kind' = "tool"
  /\ opts.rust /\ ~opts.agent /\ ~opts.evidence
  /\ step' = IF aborted THEN "failed" ELSE "search"
  /\ UNCHANGED <<opts, aborted, search, trace, agent, temps, spoilt, evidence, printed>>
Abort ==
  /\ ~aborted /\ kind # "trace" /\ step \notin {"done", "failed"}
  /\ aborted' = TRUE
  /\ UNCHANGED <<kind, opts, step, search, trace, agent, temps, spoilt, evidence, printed>>

\* runResolvedStrategyFlow: the bridge needs its workspace; julia takes no files.
StartSearch ==
  /\ step = "search"
  /\ \/ step' = IF opts.rust THEN "query" ELSE "bridge"
     \/ step' = "failed"
  /\ UNCHANGED <<kind, opts, aborted, search, trace, agent, temps, spoilt, evidence, printed>>

\* One temporary directory, and the file in it.
WriteFile(dir, next) ==
  /\ temps' = temps \cup {dir}
  /\ \/ step' = next /\ UNCHANGED spoilt
     \/ step' = "failed" /\ spoilt' = TRUE
  /\ UNCHANGED <<kind, opts, aborted, search, trace, agent, evidence, printed>>

\* Only the second search has rows to pass on; the first's trace may have none.
WriteQuery ==
  /\ step = "query"
  /\ \/ search = 2 /\ WriteFile("query", "judgements")
     \/ /\ step' = "judgements"
        /\ UNCHANGED <<kind, opts, aborted, search, trace, agent, temps, spoilt, evidence, printed>>
WriteJudgements ==
  /\ step = "judgements"
  /\ \/ search = 2 /\ WriteFile("judgements", "bridge")
     \/ /\ search = 1 /\ step' = "bridge"
        /\ UNCHANGED <<kind, opts, aborted, search, trace, agent, temps, spoilt, evidence, printed>>

\* The bridge's process: its trace, or an error; the second trace's own wish for a
\* judgement is not read.
Traces == IF search = 1
          THEN [selected : SUBSET Candidates, acting : SUBSET Candidates, llm : BOOLEAN, covered : BOOLEAN]
          ELSE [selected : SUBSET Candidates, acting : {{}}, llm : {FALSE}, covered : {FALSE}]
Bridge ==
  /\ step = "bridge"
  /\ \/ /\ ~(opts.rust /\ opts.session /\ opts.service)
        /\ \E t \in Traces : trace' = [trace EXCEPT ![search] = t]
        /\ step' = "traced"
     \/ step' = "broken" /\ UNCHANGED trace
  /\ UNCHANGED <<kind, opts, aborted, search, agent, temps, spoilt, evidence, printed>>

\* The finally block of runRustBridgeOrFallback, on both ways out.
Kept == temps \ {"query", "judgements"}
Cleanup ==
  /\ step \in {"traced", "broken"}
  /\ temps' = Kept
  /\ step' = IF step = "broken" \/ (kind = "tool" /\ aborted) THEN "failed"
             ELSE IF kind = "tool" THEN "print"
             ELSE IF search = 1 /\ opts.agent THEN "agent" ELSE "evidence"
  /\ UNCHANGED <<kind, opts, aborted, search, trace, agent, spoilt, evidence, printed>>

\* The agent, if the trace asks for one; without auth there is no task.  The task's
\* BPMN file lives in a directory of its own, as long as the task.
AgentDir == "agent"
Judge ==
  /\ step = "agent"
  /\ \/ /\ ~trace[1].llm /\ agent' = [NoAgent EXCEPT !.status = "skipped"]
        /\ step' = "evidence" /\ UNCHANGED temps
     \/ /\ trace[1].llm /\ agent' = [NoAgent EXCEPT !.status = "failed"]
        /\ step' = "evidence" /\ UNCHANGED temps
     \/ /\ trace[1].llm /\ step' = "task" /\ temps' = temps \cup {AgentDir} /\ UNCHANGED agent
  /\ UNCHANGED <<kind, opts, aborted, search, trace, spoilt, evidence, printed>>

\* The rows the agent may be told of: the selected and acting ones of the frontier, the
\* others as a pool to promote from.  A pool row counts only if the agent expands it,
\* surely enough ("expand", not "weak").
Frontier == trace[1].selected \cup trace[1].acting
Accepted(answer) == {r \in answer : r[1] \in Frontier \/ r[2] = "expand"}
Invalid(answer) ==
  answer = {} \/ Candidates = {} \/ \E r \in answer : r[1] = Unknown

Answers == UNION {kSubset(k, (Candidates \cup {Unknown}) \X {"expand", "weak", "keep"}) : k \in 0..2}

Task ==
  /\ step = "task" /\ temps' = temps \ {AgentDir}
  /\ \/ agent' = [NoAgent EXCEPT !.status = "failed"] /\ step' = "evidence" /\ UNCHANGED search
     \/ \E answer \in Answers :
          IF Invalid(answer)
          THEN agent' = [NoAgent EXCEPT !.status = "failed"] /\ step' = "evidence" /\ UNCHANGED search
          ELSE /\ agent' = [status |-> "completed", rows |-> Accepted(answer)]
               /\ IF Accepted(answer) # {} THEN step' = "search" /\ search' = 2
                                           ELSE step' = "evidence" /\ UNCHANGED search
  /\ UNCHANGED <<kind, opts, aborted, trace, spoilt, evidence, printed>>

\* selectedFrontierRowsWithDeterministicBaseline: what the first search selected, and,
\* while required evidence is missing, what the second one selects and the agent expanded.
Expanded_Judged == {r[1] : r \in agent.rows}
Expanded == {r[1] : r \in {q \in agent.rows : q[2] = "expand"}}
EvidenceRows ==
  IF trace[1].selected # {} /\ trace[1].covered THEN trace[1].selected
  ELSE trace[1].selected \cup (trace[search].selected \cap Expanded)

\* The option is checked only here; an empty evidence is refused.
WriteEvidence ==
  /\ step = "evidence"
  /\ IF opts.evidence
     THEN IF ~opts.agent \/ EvidenceRows = {}
          THEN step' = "failed" /\ UNCHANGED evidence
          ELSE step' = "print" /\ evidence' = EvidenceRows
     ELSE step' = "print" /\ UNCHANGED evidence
  /\ UNCHANGED <<kind, opts, aborted, search, trace, agent, temps, spoilt, printed>>

PrintTrace ==
  /\ step = "print" /\ step' = "done" /\ printed' = search
  /\ UNCHANGED <<kind, opts, aborted, search, trace, agent, temps, spoilt, evidence>>

Next ==
  \/ \E request, live \in BOOLEAN : Dispatch(request, live)
  \/ Tool \/ Abort \/ StartSearch \/ WriteQuery \/ WriteJudgements \/ Bridge \/ Cleanup
  \/ Judge \/ Task \/ WriteEvidence \/ PrintTrace
Spec == Init /\ [][Next]_vars

----------------------------------------------------------------------------
(* Properties. *)

\* Evidence is what the first search found, whatever becomes of the agent; a row is
\* added only when required evidence is missing, the agent expanded it and a search
\* that was told so selects it.
EvidenceIsJustified ==
  evidence # {} =>
    /\ trace[1].selected \subseteq evidence
    /\ \A c \in evidence \ trace[1].selected :
         /\ agent.status = "completed" /\ <<c, "expand">> \in agent.rows
         /\ search = 2 /\ c \in trace[2].selected
         /\ trace[1].covered => trace[1].selected = {}

\* A search that ends leaves no temporary directory, unless one of its files could not
\* be written: its directory, and the one written before it, then stay.
NoFilesLeft == step \in {"done", "failed"} /\ ~spoilt => temps = {}
=============================================================================
