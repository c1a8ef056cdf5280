------------------------------- MODULE Compile -------------------------------
(***************************************************************************)
(* `pi-wendao compile` (src/cli/compile-command.ts): a skill is turned into *)
(* a BPMN workflow, and a DMN table if the model so decides, by asking a    *)
(* model and repairing what qianji's lint and the pi-wendao contract refuse *)
(* (src/compiler/compiler.ts, target.ts, repair-loop.ts, artifacts.ts).     *)
(*                                                                         *)
(* Covered: every answer of the model and of the qianji commands, with and  *)
(* without lint, repeated compiles onto the same output, a crash between    *)
(* the two files.  Not covered: prompts, traces, and what the contract      *)
(* demands (module TaskContract).                                           *)
(***************************************************************************)
EXTENDS Naturals

CONSTANTS
  MaxRepair,   \* --lint-retries
  Compiles     \* bound: compiles of the same skill

CompileAssumption == MaxRepair \in Nat /\ Compiles \in Nat

\* What a model may put in a BPMN and in a DMN block: nothing, a document that
\* qianji's lint refuses, for BPMN one that only the contract refuses, a good one.
Bpmn == {"none", "unsound", "offContract", "good"}
Dmn == {"none", "unsound", "good"}
NoFile == [by |-> 0, is |-> "none", linted |-> FALSE, decides |-> FALSE]

VARIABLES
  compile,   \* the compiles begun
  step,      \* where the current one is
  lint,      \* whether it lints
  target,    \* what the model decided to generate
  attempt,   \* repair attempts made
  draft,     \* the artifacts of the last answer
  files,     \* the output files
  torn       \* the compiles that ended between the two files

vars == <<compile, step, lint, target, attempt, draft, files, torn>>

Init ==
  /\ compile = 0 /\ step = "idle" /\ lint = TRUE /\ target = "bpmn" /\ attempt = 0
  /\ draft = [bpmn |-> "none", dmn |-> "none"]
  /\ files = [bpmn |-> NoFile, dmn |-> NoFile] /\ torn = {}

Begin ==
  /\ step = "idle" /\ compile < Compiles
  /\ compile' = compile + 1 /\ step' = "index" /\ lint' \in BOOLEAN /\ attempt' = 0
  /\ UNCHANGED <<target, draft, files, torn>>

Goto(s) == step' = s /\ UNCHANGED <<compile, lint, files, torn>>
Fail == Goto("idle") /\ UNCHANGED <<target, attempt, draft>>

\* A qianji command exits with an error or returns nothing, or all is well.
Load(s, next) ==
  /\ step = s
  /\ \/ Goto(next) /\ UNCHANGED <<target, attempt, draft>>
     \/ Fail
LoadConstructIndex == Load("index", "target")
LoadTemplates == Load("templates", "cards")
LoadConstructCards == Load("cards", "ask")

\* Pure DMN becomes BPMN with DMN; anything else that is not a target fails.
DecideTarget ==
  /\ step = "target"
  /\ \/ \E decision \in {"bpmn", "bpmn-dmn", "dmn"} :
          /\ target' = IF decision = "bpmn" THEN "bpmn" ELSE "bpmn-dmn"
          /\ Goto("templates") /\ UNCHANGED <<attempt, draft>>
     \/ Fail

\* extractArtifactBundle: a BPMN target takes the BPMN alone.
Extracted(answer) ==
  IF target = "bpmn" THEN [answer EXCEPT !.dmn = "none"] ELSE answer
Incomplete(answer) == answer.bpmn = "none" \/ (target = "bpmn-dmn" /\ answer.dmn = "none")

\* requestArtifacts, which is used without lint: an answer that was cut off is taken
\* for what it holds.
Refused(answer, stop) == Incomplete(answer) \/ (lint /\ stop = "aborted")
Ask ==
  /\ step = "ask"
  /\ \/ Fail
     \/ \E answer \in [bpmn : Bpmn, dmn : Dmn], stop \in {"stop", "aborted"} :
          IF Refused(answer, stop) THEN Fail
          ELSE /\ draft' = Extracted(answer)
               /\ Goto(IF lint THEN "lint" ELSE "writeBpmn")
               /\ UNCHANGED <<target, attempt>>

\* lintArtifactBundle.
LintPasses(d) == d.bpmn = "good" /\ d.dmn \in {"none", "good"}

Lint ==
  /\ step = "lint"
  /\ IF LintPasses(draft)
     THEN Goto("writeBpmn") /\ UNCHANGED <<target, attempt, draft>>
     ELSE IF attempt = MaxRepair THEN Fail
     ELSE Goto("ask") /\ attempt' = attempt + 1 /\ UNCHANGED <<target, draft>>

File(is) == [by |-> compile, is |-> is, linted |-> lint, decides |-> draft.dmn # "none"]
WriteBpmn ==
  /\ step = "writeBpmn"
  /\ files' = [files EXCEPT !.bpmn = File(draft.bpmn)]
  /\ step' = IF draft.dmn = "none" THEN "idle" ELSE "writeDmn"
  /\ UNCHANGED <<compile, lint, target, attempt, draft, torn>>

\* The second file is written, or the process ends or fails before it is.
WriteDmn ==
  /\ step = "writeDmn"
  /\ \/ files' = [files EXCEPT !.dmn = File(draft.dmn)] /\ UNCHANGED torn
     \/ torn' = torn \cup {compile} /\ UNCHANGED files
  /\ step' = "idle"
  /\ UNCHANGED <<compile, lint, target, attempt, draft>>

Next == \/ Begin \/ LoadConstructIndex \/ DecideTarget \/ LoadTemplates \/ LoadConstructCards
        \/ Ask \/ Lint \/ WriteBpmn \/ WriteDmn
Spec == Init /\ [][Next]_vars

----------------------------------------------------------------------------
(* Properties. *)

\* When no compile is running, a BPMN file that was compiled with lint has passed
\* every lint, and if it calls decisions the DMN file beside it is of the same
\* answer and has passed too: repairs, later compiles with another target and
\* compiles that failed do not mix answers, unless one ended between its files.
CompiledIsSound ==
  LET bpmn == files.bpmn
  IN step = "idle" /\ bpmn.linted
       => /\ bpmn.is = "good"
          /\ bpmn.decides /\ bpmn.by \notin torn => files.dmn.by = bpmn.by /\ files.dmn.is = "good"
=============================================================================
