---------------------------- MODULE NamedWorkflow ----------------------------
(***************************************************************************)
(* A workflow that is run by its name (src/cli/named-workflows.ts): the     *)
(* skill it is compiled from, the seed shipped with the package, and the    *)
(* cached BPMN file, which is used as long as it is not older than both.    *)
(* The compiler is reached only if there is no seed, or in its place if the *)
(* caller brings one of its own.                                            *)
(*                                                                         *)
(* Covered: edits of skill and seed at any point, compiles that fail, two   *)
(* sessions that resolve the same name at once, and files that cannot be    *)
(* written.  A file's time is the number of the change that made it, so two *)
(* changes in one millisecond are not covered.                              *)
(***************************************************************************)
EXTENDS Naturals, FiniteSets, FiniteSetsExt

CONSTANTS
  Sessions,     \* the sessions that run the workflow
  MaxChanges    \* bound: changes of files, and with it resolutions

ChangesAssumption == MaxChanges \in Nat

VARIABLES
  changes,   \* file changes so far: the clock
  skill,     \* the time of the skill's last change
  seed,      \* of the seed's; 0 if there is none
  cached,    \* the cache file: its time and the text it was made from
  at,        \* what each session does
  read       \* the text each session has read

vars == <<changes, skill, seed, cached, at, read>>
NoText == [time |-> 0, of |-> "nothing", made |-> 0, overtaken |-> FALSE]

Init ==
  /\ changes = 1 /\ skill = 1 /\ seed = 0 /\ cached = NoText
  /\ at = [s \in Sessions |-> "idle"] /\ read = [s \in Sessions |-> NoText]

Overtake(text) ==
  /\ read' = [s \in Sessions |-> IF at[s] \in {"compiling", "writing"} /\ read[s].of = text
                                   THEN [read[s] EXCEPT !.overtaken = TRUE] ELSE read[s]]
EditSkill ==
  /\ changes < MaxChanges
  /\ changes' = changes + 1 /\ skill' = changes + 1 /\ Overtake("skill")
  /\ UNCHANGED <<seed, cached, at>>
EditSeed ==
  /\ changes < MaxChanges
  /\ changes' = changes + 1 /\ seed' = changes + 1 /\ Overtake("seed")
  /\ UNCHANGED <<skill, cached, at>>

\* ensureNamedWorkflow up to its first read.
Freshness_SkillOnly == skill
Freshness == Max({skill, seed})
Resolve(s, ownCompiler) ==
  /\ at[s] = "idle"
  /\ IF cached.time # 0 /\ cached.time >= Freshness
     THEN at' = [at EXCEPT ![s] = "cached"] /\ UNCHANGED read
     ELSE LET fromSeed == seed # 0 /\ ~ownCompiler
          IN /\ at' = [at EXCEPT ![s] = IF fromSeed THEN "writing" ELSE "compiling"]
             /\ read' = [read EXCEPT ![s] =
                  [time |-> 0, of |-> IF fromSeed THEN "seed" ELSE "skill",
                   made |-> IF fromSeed THEN seed ELSE skill, overtaken |-> FALSE]]
  /\ UNCHANGED <<changes, skill, seed, cached>>

\* The compiler's answer; a failed compile leaves the cache as it was.
Compiled(s) ==
  /\ at[s] = "compiling"
  /\ at' \in {[at EXCEPT ![s] = "writing"], [at EXCEPT ![s] = "idle"]}
  /\ UNCHANGED <<changes, skill, seed, cached, read>>

WriteWorkflow(s, decides) ==
  /\ at[s] = "writing" /\ changes < MaxChanges
  /\ decides => read[s].of = "skill"
  /\ changes' = changes + 1
  /\ cached' = [read[s] EXCEPT !.time = changes + 1]
  /\ at' = [at EXCEPT ![s] = IF decides THEN "writingDmn" ELSE "made"]
  /\ UNCHANGED <<skill, seed, read>>

\* Nothing reads the table but the run that wrote it: a cached workflow runs without.
WriteDmn(s) ==
  /\ at[s] = "writingDmn"
  /\ at' \in {[at EXCEPT ![s] = "made"], [at EXCEPT ![s] = "idle"]}
  /\ UNCHANGED <<changes, skill, seed, cached, read>>

\* The run that was resolved begins, and the session may resolve again.
Run(s) ==
  /\ at[s] \in {"cached", "made"}
  /\ at' = [at EXCEPT ![s] = "idle"]
  /\ UNCHANGED <<changes, skill, seed, cached, read>>

Next ==
  \/ EditSkill \/ EditSeed
  \/ \E s \in Sessions : \/ \E b \in BOOLEAN : Resolve(s, b) \/ WriteWorkflow(s, b)
                         \/ Compiled(s) \/ WriteDmn(s) \/ Run(s)
Spec == Init /\ [][Next]_vars

----------------------------------------------------------------------------
(* Properties. *)

\* A run that takes the cached workflow takes what the skill, or the seed it was
\* made from, says now.  Of two sessions that make it at once the slower may put
\* an older text over a newer one only if the text changed after it was read; that
\* file then stays in use, stale, until the next edit.
FreshMeansCurrent ==
  [][\A s \in Sessions : at[s] = "idle" /\ at'[s] = "cached" /\ ~cached.overtaken
       => cached.made = IF cached.of = "seed" THEN seed ELSE skill]_vars
=============================================================================
