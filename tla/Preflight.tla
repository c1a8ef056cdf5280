------------------------------ MODULE Preflight ------------------------------
(***************************************************************************)
(* The lint before a run (src/cli/workflow-runner/preflight.ts) and the     *)
(* run's own reading of the workflow (cli/workflow-runner.ts): a cache of   *)
(* fingerprints that passed, qianji's lint, the pi-wendao contract, the     *)
(* lint of the DMN table, and repairs by a model, which are written beside  *)
(* the workflow and never over it.  Each of these reads the files anew.     *)
(*                                                                         *)
(* Covered: several runs with one cache, edits of both files and a change   *)
(* of the qianji command at any point, every answer of the model, a cache   *)
(* that is disabled or cannot be written.  Not covered: several DMN tables, *)
(* and a command whose program is not its first word, which is not part of  *)
(* the fingerprint.                                                         *)
(***************************************************************************)
EXTENDS Naturals

CONSTANTS
  MaxRepair,   \* maxRepairAttempts
  Runs,        \* bound: runs
  MaxChanges   \* bound: changes of the files and of the command

PreflightAssumption == MaxRepair \in Nat /\ Runs \in Nat /\ MaxChanges \in Nat

\* Workflows: refused by both commands, by the newer one, by the contract, by none.
Texts == {"unsound", "dated", "offContract", "sound"}
Tables == {"sound", "unsound"}
Commands == 1..2
Original == "original"   \* the path of the workflow; repairs lie at paths named by their text

QianjiAccepts(text, command) == text \in {"offContract", "sound"} \/ (text = "dated" /\ command = 1)
ContractAccepts(text) == text # "offContract"
Passes(text, table, command) ==
  QianjiAccepts(text, command) /\ ContractAccepts(text) /\ table = "sound"

VARIABLES
  file, table,   \* the workflow and its DMN table
  command,       \* the qianji command
  changes,       \* changes made
  cache,         \* the fingerprints that passed
  run,           \* runs begun
  step,          \* where the current one is
  path,          \* the workflow it is about to start
  print,         \* the fingerprint of its files
  caching,       \* whether it uses the cache
  attempt,       \* repairs made
  raced,         \* whether something changed since the fingerprint was taken
  poisoned,      \* fingerprints recorded although something had changed
  started        \* what the last run executes

inputs == <<file, table, command, changes>>
vars == <<inputs, cache, run, step, path, print, caching, attempt, raced, poisoned, started>>

TextAt(p) == IF p = Original THEN file ELSE p
Fingerprint_WorkflowOnly(p) == [path |-> p, text |-> TextAt(p), command |-> command]
Fingerprint(p) == [path |-> p, text |-> TextAt(p), table |-> table, command |-> command]
Nothing == [text |-> "nothing"]

Init ==
  /\ file = "sound" /\ table = "sound" /\ command = 1 /\ changes = 0
  /\ cache = {} /\ run = 0 /\ step = "idle" /\ path = Original /\ print = Nothing
  /\ caching = TRUE /\ attempt = 0 /\ raced = FALSE /\ poisoned = {} /\ started = Nothing

\* Somebody edits the workflow or its table, or installs another qianji.
Change ==
  /\ changes < MaxChanges /\ changes' = changes + 1
  /\ \/ file' \in Texts \ {file} /\ UNCHANGED <<table, command>>
     \/ table' \in Tables \ {table} /\ UNCHANGED <<file, command>>
     \/ command' \in Commands \ {command} /\ UNCHANGED <<file, table>>
  /\ raced' = (step # "idle")
  /\ UNCHANGED <<cache, run, step, path, print, caching, attempt, poisoned, started>>

Begin ==
  /\ step = "idle" /\ run < Runs
  /\ run' = run + 1 /\ step' = "fingerprint" /\ path' = Original /\ attempt' = 0
  /\ caching' \in BOOLEAN /\ raced' = FALSE /\ started' = Nothing
  /\ UNCHANGED <<inputs, cache, print, poisoned>>

Goto(s) == step' = s /\ UNCHANGED <<inputs, run, path, caching, attempt, started>>
Fail == Goto("idle") /\ UNCHANGED <<cache, print, raced, poisoned>>

TakeFingerprint ==
  /\ step = "fingerprint"
  /\ print' = Fingerprint(path) /\ raced' = FALSE
  /\ Goto(IF caching /\ print' \in cache THEN "start" ELSE "qianji")
  /\ UNCHANGED <<cache, poisoned>>

LintStep(s, passes, next, otherwise) ==
  /\ step = s /\ Goto(IF passes THEN next ELSE otherwise)
  /\ UNCHANGED <<cache, print, raced, poisoned>>
QianjiLint == LintStep("qianji", QianjiAccepts(TextAt(path), command), "contract", "repair")
ContractLint == LintStep("contract", ContractAccepts(TextAt(path)), "dmn", "repair")
DmnLint == LintStep("dmn", table = "sound", "record", "idle")

\* A cache that cannot be written does not stop the run.
Record ==
  /\ step = "record"
  /\ \/ /\ caching /\ cache' = cache \cup {print}
        /\ poisoned' = IF raced THEN poisoned \cup {print} ELSE poisoned
     \/ UNCHANGED <<cache, poisoned>>
  /\ Goto("start") /\ UNCHANGED <<print, raced>>

\* Without a model, an answer or a BPMN in it, the run is refused.
Repair ==
  /\ step = "repair"
  /\ \/ Fail
     \/ /\ attempt < MaxRepair
        /\ attempt' = attempt + 1 /\ step' = "fingerprint" /\ path' \in Texts
        /\ UNCHANGED <<inputs, cache, run, print, caching, raced, poisoned, started>>

\* The executor reads the file once more.
Start ==
  /\ step = "start" /\ step' = "idle"
  /\ started' = [text |-> TextAt(path), table |-> table, command |-> command, print |-> print,
                 raced |-> raced]
  /\ UNCHANGED <<inputs, cache, run, path, print, caching, attempt, raced, poisoned>>

Next == \/ Change \/ Begin \/ TakeFingerprint \/ QianjiLint \/ ContractLint \/ DmnLint
        \/ Record \/ Repair \/ Start
Spec == Init /\ [][Next]_vars

----------------------------------------------------------------------------
(* Properties. *)

\* What is executed passes qianji's lint, the contract and the lint of its table,
\* as they are now, whether it was linted in this run, in an earlier one or after
\* a repair: unless something changed during this preflight, or the cache holds a
\* fingerprint recorded while something did.
StartedIsSound ==
  started # Nothing /\ ~started.raced /\ started.print \notin poisoned
    => Passes(started.text, started.table, started.command)
=============================================================================
