-------------------------- MODULE CommandLineProofs --------------------------
(***************************************************************************)
(* Proofs about the uses of the command line in MCCommandLine.  Each        *)
(* machine has an inductive invariant of its own; a step of the command     *)
(* line is a step of one machine and leaves the others where they are.      *)
(* What a fold computes is known step by step, by lemmas of its own.         *)
(***************************************************************************)
EXTENDS MCCommandLine, Integers, FiniteSetTheorems, WellFoundedInduction,
        SequenceTheorems, TLAPS

-----------------------------------------------------------------------------
(* Folds. The code goes over its rows and events in loops; each is a fold   *)
(* of the model, and this is how a loop is unrolled.                        *)

(* A set of naturals with a member has a least one, the numbers being well  *)
(* founded.                                                                 *)
LEMMA Least == ASSUME NEW T \in SUBSET Nat, T # {} PROVE \E m \in T : \A k \in T : m <= k
<1>1. PICK m \in T : \A k \in T : <<k, m>> \notin OpToRel(<, Nat)
  BY WFMin, NatLessThanWellFounded, Zenon
<1>2. \A k \in Nat : k < m => k \notin T
  BY <1>1 DEF OpToRel
<1> QED BY <1>2

(* So a set of naturals that has 0, and each successor of its members, is   *)
(* all of them.                                                             *)
LEMMA Induction == ASSUME NEW S \in SUBSET Nat, 0 \in S, \A n \in S : n + 1 \in S PROVE S = Nat
<1> SUFFICES ASSUME Nat \ S # {} PROVE FALSE
  OBVIOUS
<1>1. PICK m \in Nat \ S : \A k \in Nat \ S : m <= k
  BY Least
<1>2. m # 0
  BY <1>1
<1>3. m - 1 \in Nat /\ m - 1 < m /\ (m - 1) + 1 = m
  BY <1>1, <1>2
<1> QED BY <1>1, <1>3

LEMMA Greatest == ASSUME NEW n \in Nat, NEW T \in SUBSET (1..n), T # {}
                  PROVE \E m \in T : \A k \in T : m >= k
<1> DEFINE U == {n - k : k \in T}
<1>0. \A k \in T : k \in 1..n
  OBVIOUS
<1>1. U \in SUBSET Nat /\ U # {}
  <2>1. \A k \in T : n - k \in Nat
    BY <1>0
  <2> QED BY <2>1
<1>2. PICK u \in U : \A v \in U : u <= v
  BY <1>1, Least
<1>3. PICK m \in T : u = n - m
  BY <1>2
<1>4. \A k \in T : n - m <= n - k
  BY <1>2, <1>3
<1> QED BY <1>0, <1>3, <1>4

TopOf(T) == CHOOSE x \in T : \A y \in T : x >= y

LEMMA TopOfSet == ASSUME NEW n \in Nat, NEW T \in SUBSET (1..n), T # {}
                  PROVE  TopOf(T) \in T /\ \A k \in T : TopOf(T) >= k
BY Greatest DEF TopOf

(* The community modules fold a sequence by a function on the sets of its   *)
(* indices, which takes the greatest index off a set and steps from what    *)
(* is left. Such a function exists for every step on a set of               *)
(* accumulators, and                                                        *)
IsFold(f, n, A, base, step) ==
  /\ f \in [SUBSET (1..n) -> A]
  /\ f[{}] = base
  /\ \A T \in SUBSET (1..n) : T # {} => f[T] = step[<<f[T \ {TopOf(T)}], TopOf(T)>>]
HasFold(n, A, base, step) == \E f : IsFold(f, n, A, base, step)

LEMMA FoldExists ==
  ASSUME NEW n \in Nat, NEW A, NEW base \in A, NEW step \in [A \X (1..n) -> A]
  PROVE  HasFold(n, A, base, step)
<1> DEFINE S == {k \in Nat : k <= n => HasFold(k, A, base, step)}
<1>1. HasFold(0, A, base, step)
  <2> DEFINE f == [T \in SUBSET (1..0) |-> base]
  <2>1. \A T \in SUBSET (1..0) : T = {}
    OBVIOUS
  <2>2. IsFold(f, 0, A, base, step)
    BY <2>1 DEF IsFold
  <2> QED BY <2>2 DEF HasFold
<1>2. ASSUME NEW k \in Nat, k + 1 <= n, HasFold(k, A, base, step)
      PROVE  HasFold(k + 1, A, base, step)
  <2>1. PICK f : IsFold(f, k, A, base, step)
    BY <1>2 DEF HasFold
  <2> DEFINE h == [T \in SUBSET (1..(k + 1)) |->
                     IF k + 1 \in T THEN step[<<f[T \ {k + 1}], k + 1>>] ELSE f[T]]
  <2>2. \A T \in SUBSET (1..(k + 1)) : T \ {k + 1} \in SUBSET (1..k)
    OBVIOUS
  <2>3. k + 1 \in 1..n
    BY <1>2
  <2>4. h \in [SUBSET (1..(k + 1)) -> A]
    <3> SUFFICES ASSUME NEW T \in SUBSET (1..(k + 1)) PROVE h[T] \in A
      OBVIOUS
    <3>1. CASE k + 1 \in T
      <4>1. f[T \ {k + 1}] \in A
        BY <2>1, <2>2 DEF IsFold
      <4> QED BY <3>1, <4>1, <2>3
    <3>2. CASE k + 1 \notin T
      <4>1. T \in SUBSET (1..k)
        BY <2>2, <3>2
      <4> QED BY <2>1, <3>2, <4>1 DEF IsFold
    <3> QED BY <3>1, <3>2
  <2>5. ASSUME NEW T \in SUBSET (1..(k + 1)), T # {}
        PROVE  h[T] = step[<<h[T \ {TopOf(T)}], TopOf(T)>>]
    <3> DEFINE m == TopOf(T)
    <3>1. m \in T /\ \A y \in T : m >= y
      <4>1. k + 1 \in Nat
        OBVIOUS
      <4> QED BY <2>5, <4>1, TopOfSet
    <3> HIDE DEF m
    <3>2. CASE k + 1 \in T
      <4>1. m = k + 1
        BY <3>1, <3>2
      <4>2. T \ {m} \in SUBSET (1..(k + 1)) /\ k + 1 \notin T \ {m}
        BY <4>1
      <4>3. h[T \ {m}] = f[T \ {m}]
        BY <4>2
      <4> QED BY <3>2, <4>1, <4>3 DEF m
    <3>3. CASE k + 1 \notin T
      <4>1. T \in SUBSET (1..k) /\ T \ {m} \in SUBSET (1..(k + 1)) /\ k + 1 \notin T \ {m}
        BY <2>2, <3>3
      <4>2. h[T] = f[T] /\ h[T \ {m}] = f[T \ {m}]
        BY <3>3, <4>1
      <4>3. f[T] = step[<<f[T \ {m}], m>>]
        BY <2>1, <2>5, <4>1 DEF IsFold, m
      <4> QED BY <4>2, <4>3 DEF m
    <3> QED BY <3>2, <3>3
  <2>6. h[{}] = base
    BY <2>1 DEF IsFold
  <2> HIDE DEF h
  <2>7. IsFold(h, k + 1, A, base, step)
    BY <2>4, <2>5, <2>6 DEF IsFold
  <2> QED BY <2>7 DEF HasFold
<1>3. S = Nat
  <2>1. S \in SUBSET Nat /\ 0 \in S
    BY <1>1
  <2>2. ASSUME NEW k \in S PROVE k + 1 \in S
    BY <1>2
  <2> HIDE DEF S
  <2> QED BY <2>1, <2>2, Induction
<1> QED BY <1>3

LEMMA TopOfPrefix ==
  ASSUME NEW n \in Nat, NEW k \in 1..n
  PROVE  /\ 1..k \in SUBSET (1..n) /\ 1..k # {} /\ 1..(k - 1) \in SUBSET (1..n)
         /\ (1..k) \ {TopOf(1..k)} = 1..(k - 1) /\ TopOf(1..k) = k
<1>1. 1..k \in SUBSET (1..n) /\ 1..k # {} /\ k \in 1..k
  OBVIOUS
<1>2. TopOf(1..k) \in 1..k /\ TopOf(1..k) >= k
  BY <1>1, TopOfSet
<1>3. TopOf(1..k) = k
  BY <1>2
<1>4. (1..k) \ {k} = 1..(k - 1)
  OBVIOUS
<1> QED BY <1>1, <1>3, <1>4

(* a function that folds has a run: the accumulators after 0, 1, .., n      *)
(* steps, the last of which is the fold.                                    *)
Unfolds(it, n, A, base, step) ==
  /\ it[{}] = base
  /\ \A T \in SUBSET (1..n) :
       T # {} /\ it[T \ {TopOf(T)}] \in A => it[T] = step[<<it[T \ {TopOf(T)}], TopOf(T)>>]
HasRun(it, n, A, base, step) ==
  \E run \in [0..n -> A] :
    /\ run[0] = base /\ run[n] = it[1..n]
    /\ \A k \in 1..n : run[k] = step[<<run[k - 1], k>>]

LEMMA FoldRun ==
  ASSUME NEW n \in Nat, NEW A, NEW base \in A, NEW step \in [A \X (1..n) -> A],
         NEW it, Unfolds(it, n, A, base, step)
  PROVE  HasRun(it, n, A, base, step)
<1> USE DEF Unfolds
<1> DEFINE run == [k \in 0..n |-> it[1..k]]
<1>1. run[0] = base
  <2>1. 1..0 = {}
    OBVIOUS
  <2> QED BY <2>1
<1>2. ASSUME NEW k \in 1..n, run[k - 1] \in A PROVE run[k] = step[<<run[k - 1], k>>]
  <2>1. k - 1 \in 0..n /\ k \in 0..n
    OBVIOUS
  <2>2. it[1..(k - 1)] \in A
    BY <1>2, <2>1
  <2>3. it[1..k] = step[<<it[1..(k - 1)], k>>]
    BY <2>2, TopOfPrefix
  <2> QED BY <2>1, <2>3
<1> DEFINE S == {k \in Nat : k <= n => run[k] \in A}
<1> HIDE DEF run
<1>3. 0 \in S
  BY <1>1
<1>4. ASSUME NEW k \in S PROVE k + 1 \in S
  <2> SUFFICES ASSUME k + 1 <= n PROVE run[k + 1] \in A
    OBVIOUS
  <2>1. k + 1 \in 1..n /\ (k + 1) - 1 = k /\ run[k] \in A
    OBVIOUS
  <2>2. run[k + 1] = step[<<run[k], k + 1>>]
    BY <1>2, <2>1
  <2> QED BY <2>1, <2>2
<1>5. \A k \in 0..n : run[k] \in A
  <2>1. S \in SUBSET Nat
    OBVIOUS
  <2> HIDE DEF S
  <2>2. S = Nat
    BY <1>3, <1>4, <2>1, Induction
  <2> QED BY <2>2 DEF S
<1>6. \A k \in 1..n : run[k] = step[<<run[k - 1], k>>]
  <2> SUFFICES ASSUME NEW k \in 1..n PROVE run[k] = step[<<run[k - 1], k>>]
    OBVIOUS
  <2>1. k - 1 \in 0..n
    OBVIOUS
  <2> QED BY <1>2, <1>5, <2>1
<1>7. run[n] = it[1..n] /\ run \in [0..n -> A]
  BY <1>5 DEF run
<1> QED BY <1>1, <1>6, <1>7 DEF HasRun

-----------------------------------------------------------------------------
(* Compiling.  An artifact set that was linted is written only after it     *)
(* passed, and the table right after the workflow that decides by it.       *)

CompilerType ==
  /\ c_compile \in Nat /\ c_lint \in BOOLEAN
  /\ c_draft \in [bpmn : Compiler!Bpmn, dmn : Compiler!Dmn]
  /\ DOMAIN c_files = {"bpmn", "dmn"}

SoundFiles ==
  c_files.bpmn.linted =>
    /\ c_files.bpmn.is = "good"
    /\ c_files.bpmn.decides /\ c_files.bpmn.by \notin c_torn =>
         c_files.dmn.by = c_files.bpmn.by /\ c_files.dmn.is = "good"

CompilerInv ==
  /\ CompilerType
  /\ c_step \in {"writeBpmn", "writeDmn"} /\ c_lint => Compiler!LintPasses(c_draft)
  /\ IF c_step = "writeDmn"
       THEN c_draft.dmn # "none" /\ c_files.bpmn = Compiler!File(c_draft.bpmn)
       ELSE SoundFiles

LEMMA CompilerInit == Compiler!Init => CompilerInv
BY DEF Compiler!Init, CompilerInv, CompilerType, SoundFiles, Compiler!Bpmn, Compiler!Dmn,
       Compiler!NoFile

LEMMA CompilerNext == CompilerInv /\ Compiler!Next => CompilerInv'
<1> SUFFICES ASSUME CompilerInv, Compiler!Next PROVE CompilerInv'
  OBVIOUS
<1> USE DEF CompilerInv, CompilerType, SoundFiles, Compiler!Goto, Compiler!Fail
<1>1. CASE Compiler!Begin
  BY <1>1 DEF Compiler!Begin
<1>2. CASE Compiler!LoadConstructIndex \/ Compiler!LoadTemplates \/ Compiler!LoadConstructCards
  BY <1>2 DEF Compiler!LoadConstructIndex, Compiler!LoadTemplates, Compiler!LoadConstructCards,
              Compiler!Load
<1>3. CASE Compiler!DecideTarget
  BY <1>3 DEF Compiler!DecideTarget
<1>4. CASE Compiler!Ask
  <2>1. CASE c_draft' = c_draft /\ c_step' = "idle"
    BY <1>4, <2>1 DEF Compiler!Ask
  <2>2. ASSUME NEW answer \in [bpmn : Compiler!Bpmn, dmn : Compiler!Dmn],
               c_draft' = Compiler!Extracted(answer)
        PROVE  c_draft' \in [bpmn : Compiler!Bpmn, dmn : Compiler!Dmn]
    BY <2>2 DEF Compiler!Extracted, Compiler!Bpmn, Compiler!Dmn
  <2> QED BY <1>4, <2>1, <2>2 DEF Compiler!Ask
<1>5. CASE Compiler!Lint
  BY <1>5 DEF Compiler!Lint
<1>6. CASE Compiler!WriteBpmn
  BY <1>6 DEF Compiler!WriteBpmn, Compiler!File, Compiler!LintPasses
<1>7. CASE Compiler!WriteDmn
  BY <1>7 DEF Compiler!WriteDmn, Compiler!File, Compiler!LintPasses
<1> QED BY <1>1, <1>2, <1>3, <1>4, <1>5, <1>6, <1>7 DEF Compiler!Next

LEMMA CompilerFrame == CompilerInv /\ UNCHANGED compileVars => CompilerInv'
BY DEF compileVars, CompilerInv, CompilerType, SoundFiles, Compiler!File, Compiler!LintPasses

LEMMA CompilerImplies == CompilerInv => Compiler!CompiledIsSound
BY DEF CompilerInv, SoundFiles, Compiler!CompiledIsSound

-----------------------------------------------------------------------------
(* The checks before a run.  What is known of the files is known of the     *)
(* fingerprint; it is true of the files until one of them changes.          *)

PrintPasses(f) == Checks!Passes(f.text, f.table, f.command)
PrintAccepted(f) == Checks!QianjiAccepts(f.text, f.command)

\* How far the fingerprint has been checked.
Checked ==
  /\ p_step \in {"contract", "dmn", "record"} => PrintAccepted(p_print)
  /\ p_step \in {"dmn", "record"} => Checks!ContractAccepts(p_print.text)
  /\ p_step = "record" => p_print.table = "sound"

ChecksInv ==
  /\ \A f \in p_cache \ p_poisoned : PrintPasses(f)
  /\ p_step \in {"qianji", "contract", "dmn", "record", "start"} /\ ~p_raced =>
       p_print = Checks!Fingerprint(p_path)
  /\ p_raced \/ Checked
  /\ p_step = "start" /\ ~p_raced /\ p_print \notin p_poisoned => PrintPasses(p_print)
  /\ Checks!StartedIsSound

LEMMA ChecksInit == Checks!Init => ChecksInv
BY DEF Checks!Init, ChecksInv, Checked, Checks!StartedIsSound

LEMMA ChecksNext == ChecksInv /\ Checks!Next => ChecksInv'
<1> SUFFICES ASSUME ChecksInv, Checks!Next PROVE ChecksInv'
  OBVIOUS
<1> USE DEF ChecksInv, Checked, Checks!StartedIsSound, Checks!Goto, Checks!Fail, Checks!inputs
<1>1. CASE Checks!Change
  BY <1>1 DEF Checks!Change
<1>2. CASE Checks!Begin
  BY <1>2 DEF Checks!Begin
<1>3. CASE Checks!TakeFingerprint
  BY <1>3 DEF Checks!TakeFingerprint, Checks!Fingerprint, Checks!TextAt
<1>4. CASE Checks!QianjiLint
  BY <1>4 DEF Checks!QianjiLint, Checks!LintStep, Checks!Fingerprint, Checks!TextAt, PrintAccepted
<1>5. CASE Checks!ContractLint
  BY <1>5 DEF Checks!ContractLint, Checks!LintStep, Checks!Fingerprint, Checks!TextAt, PrintAccepted
<1>6. CASE Checks!DmnLint
  BY <1>6 DEF Checks!DmnLint, Checks!LintStep, Checks!Fingerprint, Checks!TextAt, PrintAccepted
<1>7. CASE Checks!Record
  BY <1>7 DEF Checks!Record, Checks!Fingerprint, Checks!TextAt, PrintPasses, PrintAccepted,
              Checks!Passes
<1>8. CASE Checks!Repair
  BY <1>8 DEF Checks!Repair
<1>9. CASE Checks!Start
  BY <1>9 DEF Checks!Start, Checks!Fingerprint, PrintPasses
<1> QED BY <1>1, <1>2, <1>3, <1>4, <1>5, <1>6, <1>7, <1>8, <1>9 DEF Checks!Next

LEMMA ChecksFrame == ChecksInv /\ UNCHANGED preflightVars => ChecksInv'
BY DEF preflightVars, ChecksInv, Checked, PrintPasses, PrintAccepted, Checks!StartedIsSound,
       Checks!Fingerprint, Checks!TextAt

-----------------------------------------------------------------------------
(* Named workflows.  A text keeps up with its source until the source is    *)
(* edited; an edit of a source that the cached file was made from makes the *)
(* source newer than the file.                                              *)

NamedTexts == [time : Nat, of : {"nothing", "skill", "seed"}, made : Nat, overtaken : BOOLEAN]
Source(of) == IF of = "seed" THEN n_seed ELSE n_skill

NamedType ==
  /\ n_changes \in Nat /\ n_skill \in 0..n_changes /\ n_seed \in 0..n_changes
  /\ n_cached \in NamedTexts /\ n_cached.time <= n_changes
  /\ n_read \in [Sessions -> NamedTexts] /\ DOMAIN n_at = Sessions

CachedInv ==
  ~n_cached.overtaken /\ Source(n_cached.of) <= n_cached.time =>
    n_cached.made = Source(n_cached.of) \/ n_cached.time = 0

ReadInv ==
  \A s \in Sessions :
    n_at[s] \in {"compiling", "writing"} /\ ~n_read[s].overtaken =>
      n_read[s].of # "nothing" /\ n_read[s].made = Source(n_read[s].of)

NamedInv == NamedType /\ CachedInv /\ ReadInv

\* What FreshMeansCurrent says of a step.
Current ==
  \A s \in Sessions : n_at[s] = "idle" /\ n_at'[s] = "cached" /\ ~n_cached.overtaken
    => n_cached.made = IF n_cached.of = "seed" THEN n_seed ELSE n_skill

LEMMA NamedInit == Named!Init => NamedInv
BY DEF Named!Init, NamedInv, NamedType, CachedInv, ReadInv, NamedTexts, Source, Named!NoText

(* The cached workflow is not older than the newer of its sources.          *)
LEMMA FreshnessBound ==
  ASSUME n_skill \in Nat, n_seed \in Nat
  PROVE  Named!Freshness \in Nat /\ n_skill <= Named!Freshness /\ n_seed <= Named!Freshness
<1>1. \E x \in {n_skill, n_seed} : \A y \in {n_skill, n_seed} : x >= y
  BY DEF Named!Freshness
<1> QED BY <1>1 DEF Named!Freshness, Named!Max

LEMMA ResolveInv ==
  ASSUME NamedInv, NEW s \in Sessions, NEW own \in BOOLEAN, Named!Resolve(s, own)
  PROVE  NamedInv'
<1>1. UNCHANGED <<n_changes, n_skill, n_seed, n_cached>>
  BY DEF Named!Resolve
<1>2. CachedInv'
  BY <1>1 DEF NamedInv, CachedInv, Source
<1>3. CASE n_cached.time # 0 /\ n_cached.time >= Named!Freshness
  <2>1. n_read' = n_read /\ n_at' = [n_at EXCEPT ![s] = "cached"]
    BY <1>3 DEF Named!Resolve
  <2>2. NamedType'
    BY <1>1, <2>1 DEF NamedInv, NamedType
  <2>3. \A r \in Sessions : n_at'[r] \in {"compiling", "writing"} => n_at[r] = n_at'[r]
    BY <2>1 DEF NamedInv, NamedType
  <2>4. ReadInv'
    BY <1>1, <2>1, <2>3 DEF NamedInv, ReadInv, Source
  <2> QED BY <1>2, <2>2, <2>4 DEF NamedInv
<1>4. CASE ~(n_cached.time # 0 /\ n_cached.time >= Named!Freshness)
  <2> DEFINE of == IF n_seed # 0 /\ ~own THEN "seed" ELSE "skill"
             text == [time |-> 0, of |-> of, made |-> Source(of), overtaken |-> FALSE]
  <2>1. /\ n_read' = [n_read EXCEPT ![s] = text]
        /\ n_at' = [n_at EXCEPT ![s] = IF n_seed # 0 /\ ~own THEN "writing" ELSE "compiling"]
    BY <1>4 DEF Named!Resolve, Source
  <2>2. text \in NamedTexts /\ text.of # "nothing" /\ text.made = Source(text.of)
    BY DEF NamedInv, NamedType, NamedTexts, Source
  <2> HIDE DEF text
  <2>3. NamedType'
    BY <1>1, <2>1, <2>2 DEF NamedInv, NamedType
  <2>4. \A r \in Sessions : n_read'[r] = text \/ (n_read'[r] = n_read[r] /\ n_at'[r] = n_at[r])
    BY <2>1 DEF NamedInv, NamedType
  <2>5. ReadInv'
    BY <1>1, <2>2, <2>4 DEF NamedInv, ReadInv, Source
  <2> QED BY <1>2, <2>3, <2>5 DEF NamedInv
<1> QED BY <1>3, <1>4

LEMMA EditInv ==
  ASSUME NamedInv, Named!EditSkill \/ Named!EditSeed
  PROVE  NamedInv'
<1>1. NamedType'
  <2>1. \A t \in NamedTexts : [t EXCEPT !.overtaken = TRUE] \in NamedTexts
    BY DEF NamedTexts
  <2>2. n_read' \in [Sessions -> NamedTexts]
    BY <2>1 DEF NamedInv, NamedType, Named!EditSkill, Named!EditSeed, Named!Overtake
  <2>3. n_cached.time \in Nat
    BY DEF NamedInv, NamedType, NamedTexts
  <2>4. /\ n_changes' \in Nat /\ n_skill' \in 0..n_changes' /\ n_seed' \in 0..n_changes'
        /\ n_cached.time <= n_changes'
    BY <2>3 DEF NamedInv, NamedType, Named!EditSkill, Named!EditSeed
  <2> QED BY <2>2, <2>4 DEF NamedInv, NamedType, Named!EditSkill, Named!EditSeed
<1>2. \A s \in Sessions :
        /\ n_read'[s].of = n_read[s].of /\ n_read'[s].made = n_read[s].made
        /\ n_read[s].overtaken => n_read'[s].overtaken
        /\ n_at[s] \in {"compiling", "writing"} /\ ~n_read'[s].overtaken =>
             Source(n_read[s].of)' = Source(n_read[s].of) \/ n_read[s].of = "nothing"
  BY DEF NamedInv, NamedType, Named!EditSkill, Named!EditSeed, Named!Overtake, NamedTexts, Source
<1>3. n_cached' = n_cached /\ n_at' = n_at
  BY DEF Named!EditSkill, Named!EditSeed
<1>4. Source(n_cached.of)' <= n_cached.time => Source(n_cached.of)' = Source(n_cached.of)
  BY <1>3 DEF NamedInv, NamedType, Named!EditSkill, Named!EditSeed, NamedTexts, Source
<1>5. CachedInv'
  BY <1>3, <1>4 DEF NamedInv, CachedInv
<1>6. ReadInv'
  BY <1>2, <1>3 DEF NamedInv, ReadInv, Source
<1> QED BY <1>1, <1>5, <1>6 DEF NamedInv

LEMMA NamedNext == NamedInv /\ Named!Next => NamedInv' /\ Current
<1> SUFFICES ASSUME NamedInv, Named!Next PROVE NamedInv' /\ Current
  OBVIOUS
<1>1. CASE Named!EditSkill \/ Named!EditSeed
  <2>1. n_at' = n_at
    BY <1>1 DEF Named!EditSkill, Named!EditSeed
  <2> QED BY <1>1, <2>1, EditInv DEF Current
<1>2. ASSUME NEW s \in Sessions, NEW own \in BOOLEAN, Named!Resolve(s, own)
      PROVE  NamedInv' /\ Current
  <2>1. Named!Freshness \in Nat /\ n_skill <= Named!Freshness /\ n_seed <= Named!Freshness
    BY FreshnessBound DEF NamedInv, NamedType
  <2>2. Current
    BY <1>2, <2>1 DEF Named!Resolve, NamedInv, NamedType, CachedInv, NamedTexts, Source, Current
  <2> QED BY <1>2, <2>2, ResolveInv
<1>3. ASSUME NEW s \in Sessions, Named!Compiled(s) PROVE NamedInv' /\ Current
  BY <1>3 DEF Named!Compiled, NamedInv, NamedType, CachedInv, ReadInv, Source, Current
<1>4. ASSUME NEW s \in Sessions, NEW decides \in BOOLEAN, Named!WriteWorkflow(s, decides)
      PROVE  NamedInv' /\ Current
  BY <1>4 DEF Named!WriteWorkflow, NamedInv, NamedType, CachedInv, ReadInv, NamedTexts, Source,
              Current
<1>5. ASSUME NEW s \in Sessions, Named!WriteDmn(s) \/ Named!Run(s) PROVE NamedInv' /\ Current
  BY <1>5 DEF Named!WriteDmn, Named!Run, NamedInv, NamedType, CachedInv, ReadInv, Source, Current
<1> QED BY <1>1, <1>2, <1>3, <1>4, <1>5 DEF Named!Next

LEMMA NamedFrame == NamedInv /\ UNCHANGED namedVars => NamedInv'
BY DEF namedVars, NamedInv, NamedType, CachedInv, ReadInv, Source

-----------------------------------------------------------------------------
(* The contract of a human task.  A workflow that passed can only be        *)
(* prompted for if its form resolved, and what its choices hold tells who   *)
(* wrote them: the user, or a task that declares them.                      *)

TaskValues == [Task!Produced -> {"unset", "useless", "usable", "reply"}]

WriterInv ==
  /\ t_values["choices"] = "reply" => t_workflow.answer = "choices"
  /\ t_values["choices"] = "useless" => "choices" \in t_workflow.outputs \cup t_workflow.later

TaskInv ==
  /\ t_values \in TaskValues
  /\ t_step = "new" => t_values["choices"] = "unset"
  /\ t_step # "new" => t_workflow \in Task!Workflows /\ Task!LintPasses(t_workflow)
  /\ t_step = "prompt" => ~Task!FormFails(t_workflow) /\ t_shown = Task!Choices(t_workflow)
  /\ WriterInv
  /\ Task!LintedTaskCanBeAnswered

LEMMA TaskInit == Task!Init => TaskInv
BY DEF Task!Init, Task!Produced, TaskValues, WriterInv, TaskInv, Task!LintedTaskCanBeAnswered

(* A form that fails although the contract passed, fails for a reason that  *)
(* is left to run time, because of where the choices are produced or by an  *)
(* agent that did not produce them.                                         *)
LEMMA FormFailure ==
  ASSUME t_workflow \in Task!Workflows, Task!LintPasses(t_workflow), Task!FormFails(t_workflow),
         t_values \in TaskValues, WriterInv
  PROVE  \/ Task!LeftToRunTime(t_workflow) \/ Task!ProducerMisplaced(t_workflow)
         \/ Task!ProducerAtFault(t_workflow)
<1>1. CASE Task!Unresolved(t_workflow)
  BY <1>1 DEF TaskValues, Task!Produced, WriterInv, Task!Unresolved, Task!LeftToRunTime,
              Task!ProducerMisplaced, Task!ProducerAtFault
<1>2. CASE ~Task!Unresolved(t_workflow)
  BY <1>2 DEF Task!Workflows, Task!Types, Task!ChoiceTypes, Task!LintPasses, Task!HasInteraction,
       Task!InteractionIssues, Task!TypeUnsupported, Task!ChoicesMissing,
       Task!AnswerMissing, Task!FormFails, Task!ResultOutputMissing,
       Task!Choices, Task!AllowsFreeText, Task!LeftToRunTime
<1> QED BY <1>1, <1>2

(* A question whose prompt offers no choice and counts no text, has literal *)
(* choices without values.                                                  *)
LEMMA PromptFailure ==
  ASSUME t_workflow \in Task!Workflows, Task!LintPasses(t_workflow), ~Task!FormFails(t_workflow),
         t_shown = Task!Choices(t_workflow), ~Task!Answerable(t_workflow)
  PROVE  Task!LeftToRunTime(t_workflow)
BY DEF Task!Workflows, Task!Types, Task!ChoiceTypes, Task!LintPasses, Task!HasInteraction,
       Task!InteractionIssues, Task!TypeUnsupported, Task!ChoicesMissing, Task!FormFails,
       Task!Choices, Task!Answerable, Task!TextCounts, Task!LeftToRunTime

LEMMA TaskNext == TaskInv /\ Task!Next => TaskInv'
<1> SUFFICES ASSUME TaskInv, Task!Next PROVE TaskInv'
  OBVIOUS
<1> USE DEF TaskInv, Task!LintedTaskCanBeAnswered, Task!Goto
<1>1. CASE Task!Author
  BY <1>1 DEF Task!Author, WriterInv
<1>2. ASSUME NEW outputs \in SUBSET (t_workflow.outputs \cup t_workflow.later),
             Task!Produce(outputs), UNCHANGED t_workflow
      PROVE  t_values' \in TaskValues /\ WriterInv'
  BY <1>2 DEF Task!Produce, Task!Produced, TaskValues, WriterInv
<1>3. CASE Task!Service
  BY <1>2, <1>3 DEF Task!Service
<1>4. CASE Task!Form
  <2>1. CASE Task!FormFails(t_workflow)
    BY <1>4, <2>1, FormFailure
    DEF Task!Form, WriterInv, Task!LeftToRunTime, Task!ProducerMisplaced, Task!ProducerAtFault
  <2>2. CASE ~Task!FormFails(t_workflow)
    BY <1>4, <2>2 DEF Task!Form, WriterInv, Task!FormFails, Task!Unresolved, Task!Choices
  <2> QED BY <2>1, <2>2
<1>5. CASE Task!Reply
  BY <1>5 DEF Task!Reply, Task!Produced, TaskValues, WriterInv
<1>6. CASE Task!Cancel
  BY <1>6, PromptFailure DEF Task!Cancel, WriterInv, Task!LeftToRunTime
<1>7. CASE Task!FollowUp
  BY <1>2, <1>7 DEF Task!FollowUp
<1>8. CASE Task!Gateway
  BY <1>8 DEF Task!Gateway, WriterInv
<1> QED BY <1>1, <1>3, <1>4, <1>5, <1>6, <1>7, <1>8 DEF Task!Next

LEMMA TaskFrame == TaskInv /\ UNCHANGED taskVars => TaskInv'
BY DEF taskVars, TaskInv, WriterInv, Task!LintedTaskCanBeAnswered, Task!FormFails,
       Task!Unresolved, Task!LeftToRunTime, Task!ProducerMisplaced, Task!ProducerAtFault

-----------------------------------------------------------------------------
(* A search.  What lies in temporary directories is known by its step, and  *)
(* the evidence is written last.                                            *)

SearchType ==
  /\ DOMAIN s_trace = 1..2 /\ s_search \in 1..2
  /\ s_agent.rows \subseteq (Candidates \cup {Unknown}) \X {"expand", "weak", "keep"}
  /\ s_agent.rows # {} => s_agent.status = "completed"

Directories(step) ==
  CASE step = "judgements" -> {"query"}
    [] step \in {"bridge", "traced", "broken"} -> {"query", "judgements"}
    [] step = "task" -> {"agent"}
    [] OTHER -> {}

SearchInv ==
  /\ SearchType
  /\ s_evidence # {} => s_step \in {"print", "done"}
  /\ Search!EvidenceIsJustified
  /\ s_spoilt => s_step = "failed"
  /\ s_spoilt \/ s_temps \subseteq Directories(s_step)

LEMMA SearchInit == Search!Init => SearchInv
BY DEF Search!Init, SearchInv, SearchType, Search!NoAgent, Search!EvidenceIsJustified, Directories

(* The evidence rows are the first search's, or rows the agent expanded.    *)
LEMMA EvidenceJustified ==
  ASSUME SearchType, NEW e, e = Search!EvidenceRows
  PROVE  /\ s_trace[1].selected \subseteq e
         /\ \A c \in e \ s_trace[1].selected :
              /\ s_agent.status = "completed" /\ <<c, "expand">> \in s_agent.rows
              /\ s_search = 2 /\ c \in s_trace[2].selected
              /\ s_trace[1].covered => s_trace[1].selected = {}
<1>1. \A q \in s_agent.rows : q = <<q[1], q[2]>>
  BY DEF SearchType
<1> QED BY <1>1 DEF SearchType, Search!EvidenceRows, Search!Expanded

LEMMA SearchNext == SearchInv /\ Search!Next => SearchInv'
<1> SUFFICES ASSUME SearchInv, Search!Next PROVE SearchInv'
  OBVIOUS
<1> USE DEF SearchInv, SearchType, Search!EvidenceIsJustified, Directories
<1>1. ASSUME NEW request \in BOOLEAN, NEW live \in BOOLEAN, Search!Dispatch(request, live)
      PROVE  SearchInv'
  BY <1>1 DEF Search!Dispatch
<1>2. CASE Search!Tool
  BY <1>2 DEF Search!Tool
<1>3. CASE Search!Abort
  BY <1>3 DEF Search!Abort
<1>4. CASE Search!StartSearch
  BY <1>4 DEF Search!StartSearch
<1>5. CASE Search!WriteQuery
  BY <1>5 DEF Search!WriteQuery, Search!WriteFile
<1>6. CASE Search!WriteJudgements
  BY <1>6 DEF Search!WriteJudgements, Search!WriteFile
<1>7. CASE Search!Bridge
  BY <1>7 DEF Search!Bridge
<1>8. CASE Search!Cleanup
  BY <1>8 DEF Search!Cleanup, Search!Kept
<1>9. CASE Search!Judge
  BY <1>9 DEF Search!Judge, Search!NoAgent, Search!AgentDir
<1>10. CASE Search!Task
  <2>1. \A answer \in Search!Answers :
          Search!Accepted(answer) \subseteq (Candidates \cup {Unknown}) \X {"expand", "weak", "keep"}
    BY DEF Search!Answers, Search!kSubset, Search!Accepted
  <2> QED BY <1>10, <2>1 DEF Search!Task, Search!NoAgent, Search!AgentDir
<1>11. CASE Search!WriteEvidence
  <2>1. CASE s_evidence' = s_evidence
    BY <1>11, <2>1 DEF Search!WriteEvidence
  <2>2. CASE s_evidence' = Search!EvidenceRows /\ s_step' = "print"
    BY <1>11, <2>2, EvidenceJustified DEF Search!WriteEvidence
  <2> QED BY <1>11, <2>1, <2>2 DEF Search!WriteEvidence
<1>12. CASE Search!PrintTrace
  BY <1>12 DEF Search!PrintTrace
<1> QED BY <1>1, <1>2, <1>3, <1>4, <1>5, <1>6, <1>7, <1>8, <1>9, <1>10, <1>11, <1>12
        DEF Search!Next

LEMMA SearchFrame == SearchInv /\ UNCHANGED searchVars => SearchInv'
BY DEF searchVars, SearchInv, SearchType, Search!EvidenceIsJustified

LEMMA SearchImplies == SearchInv => Search!EvidenceIsJustified /\ Search!NoFilesLeft
BY DEF SearchInv, Search!NoFilesLeft, Directories

-----------------------------------------------------------------------------
(* Live answers.  A run's rows answer the rows it asked for, one by one;    *)
(* those of the run itself are of the text it asked and whole.              *)

Requests == [id : Nat, text : Nat]
Answered == [id : Nat, text : Nat, by : Nat, cut : BOOLEAN]
CutsOf(rs) == {i \in DOMAIN rs : rs[i].cut}

AnswersType ==
  /\ a_request \in [1..Rows -> Requests] /\ a_edits \in Nat
  /\ a_rows \in Seq(Answered) /\ a_file.rows \in Seq(Answered)
  /\ a_run \in Nat /\ a_cuts \in Nat

\* The rows of a run that has begun.
RowsInv ==
  /\ a_asked \in [1..Rows -> Requests] /\ Len(a_rows) <= Rows
  /\ \A i \in 1..Len(a_rows) :
       /\ a_rows[i].id = a_asked[i].id /\ a_rows[i].by <= a_run
       /\ a_rows[i].by = a_run => a_rows[i].text = a_asked[i].text /\ ~a_rows[i].cut

AnswersInv ==
  /\ AnswersType
  /\ \A i \in DOMAIN a_file.rows : a_file.rows[i].by <= a_run
  /\ Cardinality(CutsOf(a_file.rows)) <= a_cuts /\ Cardinality(CutsOf(a_rows)) <= a_cuts
  /\ a_step # "idle" => RowsInv
  /\ a_step \in {"last", "done"} => Len(a_rows) = Rows
  /\ a_step = "done" => a_file.rows = a_rows

LEMMA NoCuts == CutsOf(<<>>) = {} /\ Cardinality(CutsOf(<<>>)) = 0
BY FS_EmptySet DEF CutsOf

LEMMA AnswersInit == Answers!AnswersAssumption /\ Answers!Init => AnswersInv
<1> SUFFICES ASSUME Answers!AnswersAssumption, Answers!Init PROVE AnswersInv
  OBVIOUS
<1>1. a_request \in [1..Rows -> Requests]
  BY DEF Answers!AnswersAssumption, Answers!Init, Requests
<1>2. a_rows = <<>> /\ a_file = [kind |-> "none", rows |-> <<>>] /\ a_step = "idle"
      /\ a_edits = 0 /\ a_run = 0 /\ a_cuts = 0
  BY DEF Answers!Init, Answers!NoFile
<1>3. AnswersType
  BY <1>1, <1>2 DEF AnswersType
<1> QED BY <1>2, <1>3, NoCuts DEF AnswersInv

(* The rows that are cut short can be counted, and fewer are fewer.         *)
LEMMA CutsCounted ==
  ASSUME NEW s \in Seq(Answered), NEW t \in Seq(Answered)
  PROVE  /\ Cardinality(CutsOf(s)) \in Nat
         /\ CutsOf(t) \subseteq CutsOf(s) => Cardinality(CutsOf(t)) <= Cardinality(CutsOf(s))
         /\ \A n : CutsOf(t) \subseteq CutsOf(s) \cup {n} =>
              Cardinality(CutsOf(t)) <= Cardinality(CutsOf(s)) + 1
<1>1. ASSUME NEW r \in Seq(Answered) PROVE IsFiniteSet(CutsOf(r)) /\ Cardinality(CutsOf(r)) \in Nat
  <2>1. CutsOf(r) \subseteq 1..Len(r) /\ Len(r) \in Nat
    BY DEF CutsOf
  <2>2. IsFiniteSet(1..Len(r))
    BY <2>1, FS_Interval
  <2> QED BY <2>1, <2>2, FS_Subset, FS_CardinalityType
<1>2. ASSUME CutsOf(t) \subseteq CutsOf(s) PROVE Cardinality(CutsOf(t)) <= Cardinality(CutsOf(s))
  BY <1>1, <1>2, FS_Subset
<1>3. ASSUME NEW n, CutsOf(t) \subseteq CutsOf(s) \cup {n}
      PROVE  Cardinality(CutsOf(t)) <= Cardinality(CutsOf(s)) + 1
  <2>1. /\ IsFiniteSet(CutsOf(s) \cup {n})
        /\ Cardinality(CutsOf(s) \cup {n}) \in {Cardinality(CutsOf(s)), Cardinality(CutsOf(s)) + 1}
    BY <1>1, FS_AddElement
  <2>2. Cardinality(CutsOf(t)) <= Cardinality(CutsOf(s) \cup {n})
    BY <1>3, <2>1, FS_Subset
  <2> QED BY <1>1, <2>1, <2>2
<1> QED BY <1>1, <1>2, <1>3

(* The rows that a chunk's answers make.                                    *)
LEMMA ChunkAnswered ==
  ASSUME Answers!AnswersAssumption, AnswersType, RowsInv,
         NEW chunk, chunk = Answers!Chunk, NEW answers,
         answers = [i \in DOMAIN chunk |->
                      [id |-> chunk[i].id, text |-> chunk[i].text, by |-> a_run, cut |-> FALSE]]
  PROVE  /\ a_rows \o answers \in Seq(Answered) /\ Len(a_rows \o answers) <= Rows
         /\ \A i \in 1..Len(a_rows \o answers) :
              /\ i <= Len(a_rows) => (a_rows \o answers)[i] = a_rows[i]
              /\ ~(i <= Len(a_rows)) =>
                   (a_rows \o answers)[i] = [id |-> a_asked[i].id, text |-> a_asked[i].text,
                                             by |-> a_run, cut |-> FALSE]
<1> DEFINE m == Len(a_rows)
           to == IF m + ChunkSize > Rows THEN Rows ELSE m + ChunkSize
<1>1. m \in Nat /\ Rows \in Nat /\ m <= Rows /\ to \in m..Rows /\ a_run \in Nat
  BY DEF Answers!AnswersAssumption, AnswersType, RowsInv
<1>2. a_asked \in Seq(Requests) /\ Len(a_asked) = Rows
  BY <1>1 DEF RowsInv
<1>3. chunk = SubSeq(a_asked, m + 1, to)
  BY DEF Answers!Chunk
<1> HIDE DEF m, to
<1>4. /\ chunk \in Seq(Requests) /\ Len(chunk) = to - m
      /\ \A j \in 1..(to - m) : chunk[j] = a_asked[m + j]
  BY <1>1, <1>2, <1>3
<1>5. /\ answers \in Seq(Answered) /\ Len(answers) = to - m
      /\ \A j \in 1..(to - m) : answers[j] = [id |-> a_asked[m + j].id, text |-> a_asked[m + j].text,
                                              by |-> a_run, cut |-> FALSE]
  <2>1. DOMAIN chunk = 1..(to - m) /\ to - m \in Nat
    BY <1>1, <1>4
  <2>2. \A j \in 1..(to - m) : chunk[j] \in Requests
    BY <1>4, <2>1
  <2>3. answers \in [1..(to - m) -> Answered]
    BY <1>1, <2>1, <2>2 DEF Requests, Answered
  <2>4. answers \in Seq(Answered) /\ Len(answers) = to - m
    BY <2>1, <2>3
  <2>5. ASSUME NEW j \in 1..(to - m)
        PROVE  answers[j] = [id |-> a_asked[m + j].id, text |-> a_asked[m + j].text,
                             by |-> a_run, cut |-> FALSE]
    BY <1>4, <2>1
  <2> QED BY <2>4, <2>5
<1>6. a_rows \o answers \in Seq(Answered) /\ Len(a_rows \o answers) = to
  BY <1>1, <1>5 DEF AnswersType, m
<1>7. ASSUME NEW i \in 1..to
      PROVE  /\ i <= m => (a_rows \o answers)[i] = a_rows[i]
             /\ ~(i <= m) =>
                  (a_rows \o answers)[i] = [id |-> a_asked[i].id, text |-> a_asked[i].text,
                                            by |-> a_run, cut |-> FALSE]
  <2>1. CASE i <= m
    BY <1>1, <1>5, <2>1 DEF AnswersType, m
  <2>2. CASE ~(i <= m)
    <3>1. (a_rows \o answers)[i] = answers[i - m]
      BY <1>1, <1>5, <2>2 DEF AnswersType, m
    <3>2. i - m \in 1..(to - m) /\ m + (i - m) = i
      BY <1>1, <2>2
    <3> QED BY <1>5, <2>2, <3>1, <3>2
  <2> QED BY <2>1, <2>2
<1> QED BY <1>1, <1>6, <1>7 DEF m

(* The file's rows are answers to the first rows of the request.            *)
LEMMA ResumedRows ==
  ASSUME Answers!AnswersAssumption, AnswersType, Answers!Resumable
  PROVE  /\ Len(a_file.rows) <= Rows
         /\ \A i \in 1..Len(a_file.rows) : a_file.rows[i].id = a_request[i].id
<1> DEFINE kept == a_file.rows
           n == Len(kept)
           ours == [i \in 1..n |-> kept[i].id]
           theirs == [i \in 1..Rows |-> a_request[i].id]
<1>1. /\ kept \in Seq(Answered) /\ n \in Nat /\ DOMAIN kept = 1..n /\ Rows \in Nat
      /\ DOMAIN a_request = 1..Rows
  BY DEF AnswersType, Answers!AnswersAssumption
<1>2. Answers!Ids(kept) = ours /\ Answers!Ids(a_request) = theirs
  BY <1>1 DEF Answers!Ids
<1>3. ours \in Seq(Nat) /\ Len(ours) = n
  <2>1. \A i \in 1..n : kept[i] \in Answered
    BY <1>1
  <2>2. \A i \in 1..n : kept[i].id \in Nat
    BY <2>1 DEF Answered
  <2> QED BY <1>1, <2>2
<1>4. theirs \in Seq(Nat) /\ Len(theirs) = Rows
  <2>1. \A i \in 1..Rows : a_request[i].id \in Nat
    BY DEF AnswersType, Requests
  <2> QED BY <1>1, <2>1
<1>5. Len(ours) <= Len(theirs) /\ SubSeq(ours, 1, n) = SubSeq(theirs, 1, n)
  BY <1>2, <1>3 DEF Answers!Resumable, Answers!IsPrefix
<1>6. ASSUME NEW i \in 1..n PROVE kept[i].id = a_request[i].id
  <2>1. SubSeq(ours, 1, n)[i] = ours[i] /\ SubSeq(theirs, 1, n)[i] = theirs[i] /\ i \in 1..Rows
    BY <1>1, <1>3, <1>4, <1>5
  <2> QED BY <1>5, <2>1
<1> QED BY <1>3, <1>4, <1>5, <1>6

LEMMA RowNumbers ==
  ASSUME NEW rs \in Seq(Answered), NEW i \in 1..Len(rs)
  PROVE  rs[i] \in Answered /\ rs[i].by \in Nat
<1>1. rs[i] \in Answered
  OBVIOUS
<1> QED BY <1>1 DEF Answered

LEMMA BeginInv ==
  ASSUME Answers!AnswersAssumption, AnswersInv, NEW resume \in BOOLEAN, Answers!Begin(resume)
  PROVE  AnswersInv'
<1>0. AnswersType /\ Rows \in Nat
  BY DEF AnswersInv, Answers!AnswersAssumption
<1>1. /\ a_run' = a_run + 1 /\ a_run \in Nat /\ a_asked' = a_request
      /\ UNCHANGED <<a_request, a_edits, a_file, a_cuts>>
  BY <1>0 DEF Answers!Begin, AnswersType
<1>2. \A i \in DOMAIN a_file.rows : a_file.rows[i].by <= a_run' /\ a_file.rows[i].by < a_run'
  BY <1>0, <1>1, RowNumbers DEF AnswersInv, AnswersType
<1>3. CASE a_rows' = <<>>
  <2>1. a_step' # "done" /\ (a_step' = "last" => Rows = 0)
    BY <1>0, <1>3 DEF Answers!Begin, AnswersType
  <2>2. AnswersType'
    BY <1>0, <1>1, <1>3 DEF AnswersType
  <2>3. RowsInv'
    BY <1>0, <1>1, <1>3 DEF AnswersType, RowsInv
  <2>4. Cardinality(CutsOf(a_rows))' <= a_cuts'
    BY <1>0, <1>1, <1>3, NoCuts DEF AnswersType
  <2>5. Cardinality(CutsOf(a_file.rows))' <= a_cuts'
    BY <1>1 DEF AnswersInv
  <2>6. (\A i \in DOMAIN a_file.rows : a_file.rows[i].by <= a_run)'
    BY <1>1, <1>2
  <2> QED BY <2>1, <2>2, <2>3, <2>4, <2>5, <2>6, <1>3 DEF AnswersInv
<1>4. CASE a_rows' = a_file.rows /\ Answers!Resumable
  <2>1. a_step' # "done" /\ (a_step' = "last" => Len(a_rows') = Rows)
    <3>1. Len(a_file.rows) \in Nat
      BY <1>0 DEF AnswersType
    <3> QED BY <1>0, <1>4, <3>1 DEF Answers!Begin
  <2>2. AnswersType'
    BY <1>0, <1>1, <1>4 DEF AnswersType
  <2>3. RowsInv'
    <3>1. /\ Len(a_file.rows) <= Rows
          /\ \A i \in 1..Len(a_file.rows) : a_file.rows[i].id = a_request[i].id
      BY <1>0, <1>4, ResumedRows
    <3>2. \A i \in 1..Len(a_file.rows) : a_file.rows[i].by <= a_run' /\ a_file.rows[i].by # a_run'
      BY <1>0, <1>1, RowNumbers DEF AnswersInv, AnswersType
    <3> QED BY <1>0, <1>1, <1>4, <3>1, <3>2 DEF AnswersType, RowsInv
  <2>4. Cardinality(CutsOf(a_rows))' <= a_cuts' /\ Cardinality(CutsOf(a_file.rows))' <= a_cuts'
    BY <1>1, <1>4 DEF AnswersInv
  <2>5. (\A i \in DOMAIN a_file.rows : a_file.rows[i].by <= a_run)'
    BY <1>1, <1>2
  <2> QED BY <2>1, <2>2, <2>3, <2>4, <2>5 DEF AnswersInv
<1> QED BY <1>3, <1>4 DEF Answers!Begin

LEMMA NextRows ==
  ASSUME AnswersType, RowsInv, NEW next \in Seq(Answered), Len(next) <= Rows,
         ASSUME NEW i \in 1..Len(next), i <= Len(a_rows) PROVE next[i] = a_rows[i],
         ASSUME NEW i \in 1..Len(next), ~(i <= Len(a_rows))
         PROVE  next[i] = [id |-> a_asked[i].id, text |-> a_asked[i].text,
                           by |-> a_run, cut |-> FALSE]
  PROVE  /\ \A i \in 1..Len(next) :
              /\ next[i].id = a_asked[i].id /\ next[i].by <= a_run
              /\ next[i].by = a_run => next[i].text = a_asked[i].text /\ ~next[i].cut
         /\ CutsOf(next) \subseteq CutsOf(a_rows)
<1>1. Len(next) \in Nat /\ Len(a_rows) \in Nat /\ DOMAIN a_rows = 1..Len(a_rows) /\ a_run \in Nat
  BY DEF AnswersType
<1>2. ASSUME NEW i \in 1..Len(next)
      PROVE  /\ next[i].id = a_asked[i].id /\ next[i].by <= a_run
             /\ next[i].by = a_run => next[i].text = a_asked[i].text /\ ~next[i].cut
             /\ next[i].cut => i \in DOMAIN a_rows /\ a_rows[i].cut
  <2>1. CASE i <= Len(a_rows)
    <3>1. next[i] = a_rows[i] /\ i \in 1..Len(a_rows)
      BY <1>1, <2>1
    <3> QED BY <1>1, <3>1 DEF RowsInv
  <2>2. CASE ~(i <= Len(a_rows))
    <3>1. next[i] = [id |-> a_asked[i].id, text |-> a_asked[i].text,
                     by |-> a_run, cut |-> FALSE]
      BY <2>2
    <3> QED BY <1>1, <3>1
  <2> QED BY <2>1, <2>2
<1> QED BY <1>2 DEF CutsOf

LEMMA AskInv ==
  ASSUME Answers!AnswersAssumption, AnswersInv, Answers!Ask
  PROVE  AnswersInv'
<1>0. AnswersType /\ RowsInv /\ UNCHANGED <<a_request, a_edits, a_file, a_run, a_asked, a_cuts>>
  BY DEF AnswersInv, Answers!Ask
<1>1. CASE a_rows' = a_rows /\ a_step' = "idle"
  BY <1>0, <1>1 DEF AnswersInv, AnswersType
<1>2. ASSUME NEW next \in Seq(Answered), Len(next) <= Rows,
             \A i \in 1..Len(next) :
               /\ i <= Len(a_rows) => next[i] = a_rows[i]
               /\ ~(i <= Len(a_rows)) =>
                    next[i] = [id |-> a_asked[i].id, text |-> a_asked[i].text,
                               by |-> a_run, cut |-> FALSE],
             a_rows' = next, a_step' = "write"
      PROVE  AnswersInv'
  <2>1. /\ \A i \in 1..Len(next) :
             /\ next[i].id = a_asked[i].id /\ next[i].by <= a_run
             /\ next[i].by = a_run => next[i].text = a_asked[i].text /\ ~next[i].cut
        /\ CutsOf(next) \subseteq CutsOf(a_rows)
    BY <1>0, <1>2, NextRows
  <2>2. AnswersType' /\ RowsInv'
    BY <1>0, <1>2, <2>1 DEF AnswersType, RowsInv
  <2>3. Cardinality(CutsOf(a_rows))' <= a_cuts'
    <3>1. /\ Cardinality(CutsOf(next)) \in Nat /\ Cardinality(CutsOf(a_rows)) \in Nat
          /\ Cardinality(CutsOf(next)) <= Cardinality(CutsOf(a_rows)) /\ a_cuts \in Nat
      BY <1>0, <1>2, <2>1, CutsCounted DEF AnswersType
    <3>2. Cardinality(CutsOf(next)) <= a_cuts
      BY <3>1 DEF AnswersInv
    <3> QED BY <1>0, <1>2, <3>2
  <2>4. Cardinality(CutsOf(a_file.rows))' <= a_cuts'
    BY <1>0 DEF AnswersInv
  <2> QED BY <1>0, <1>2, <2>2, <2>3, <2>4 DEF AnswersInv
<1>3. CASE ~(a_rows' = a_rows /\ a_step' = "idle")
  <2> DEFINE chunk == Answers!Chunk
             answers == [i \in DOMAIN chunk |->
                           [id |-> chunk[i].id, text |-> chunk[i].text, by |-> a_run, cut |-> FALSE]]
  <2>1. a_rows' = a_rows \o answers /\ a_step' = "write"
    BY <1>3 DEF Answers!Ask
  <2> QED BY <1>0, <1>2, <2>1, ChunkAnswered
<1> QED BY <1>1, <1>3

LEMMA WriteInv ==
  ASSUME Answers!AnswersAssumption, AnswersInv, Answers!Write
  PROVE  AnswersInv'
<1>1. /\ AnswersType /\ RowsInv /\ a_file'.rows = a_rows
      /\ UNCHANGED <<a_request, a_edits, a_run, a_asked, a_rows, a_cuts>>
      /\ a_step' \in {"last", "done"} => Len(a_rows) = Rows
  <2>1. Len(a_rows) \in Nat /\ Rows \in Nat
    BY DEF AnswersInv, AnswersType, Answers!AnswersAssumption
  <2> QED BY <2>1 DEF AnswersInv, Answers!Write, Answers!Whole, RowsInv
<1>2. AnswersType' /\ RowsInv'
  BY <1>1 DEF AnswersType, RowsInv
<1>3. \A i \in DOMAIN a_file'.rows : a_file'.rows[i].by <= a_run'
  BY <1>1 DEF AnswersType, RowsInv
<1>4. Cardinality(CutsOf(a_file.rows))' <= a_cuts' /\ Cardinality(CutsOf(a_rows))' <= a_cuts'
  BY <1>1 DEF AnswersInv
<1> QED BY <1>1, <1>2, <1>3, <1>4 DEF AnswersInv

(* What a crash within a write leaves of the rows.                          *)
LEMMA Truncated ==
  ASSUME NEW s \in Seq(Answered), NEW n \in 0..Len(s),
         NEW t, t = SubSeq(s, 1, n) \/ (n > 0 /\ t = [SubSeq(s, 1, n) EXCEPT ![n].cut = TRUE])
  PROVE  /\ t \in Seq(Answered) /\ Len(t) = n
         /\ \A i \in 1..n : t[i].by = s[i].by
         /\ CutsOf(t) \subseteq CutsOf(s) \cup (IF t = SubSeq(s, 1, n) THEN {} ELSE {n})
<1> DEFINE u == SubSeq(s, 1, n)
<1>1. u \in Seq(Answered) /\ Len(u) = n /\ n \in Nat /\ \A i \in 1..n : u[i] = s[i]
  OBVIOUS
<1>2. CASE t = u
  <2>1. CutsOf(t) \subseteq CutsOf(s)
    BY <1>1, <1>2 DEF CutsOf
  <2> QED BY <1>1, <1>2, <2>1
<1>3. CASE n > 0 /\ t = [u EXCEPT ![n].cut = TRUE]
  <2> HIDE DEF u
  <2>1. u \in [1..n -> Answered] /\ n \in 1..n
    BY <1>1, <1>3
  <2>2. /\ t[n] = [u[n] EXCEPT !.cut = TRUE] /\ DOMAIN t = 1..n
        /\ \A i \in 1..n : i # n => t[i] = u[i]
    BY <1>3, <2>1
  <2>3. [u[n] EXCEPT !.cut = TRUE] \in Answered /\ [u[n] EXCEPT !.cut = TRUE].by = u[n].by
    BY <2>1 DEF Answered
  <2>4. t \in [1..n -> Answered]
    BY <1>3, <2>1, <2>3
  <2>5. t \in Seq(Answered) /\ Len(t) = n
    BY <1>1, <2>4
  <2>6. \A i \in 1..n : t[i].by = s[i].by
    BY <1>1, <2>2, <2>3
  <2>7. CutsOf(t) \subseteq CutsOf(s) \cup {n}
    BY <1>1, <2>2 DEF CutsOf
  <2>8. CutsOf(t) \subseteq CutsOf(s) \cup (IF t = u THEN {} ELSE {n})
    BY <1>1, <1>2, <2>7 DEF CutsOf
  <2> QED BY <2>5, <2>6, <2>8 DEF u
<1> QED BY <1>2, <1>3

LEMMA CrashInv ==
  ASSUME Answers!AnswersAssumption, AnswersInv, Answers!Crash
  PROVE  AnswersInv'
<1>0. /\ AnswersType /\ RowsInv /\ a_step' = "idle"
      /\ UNCHANGED <<a_request, a_edits, a_run, a_asked, a_rows>>
  BY DEF AnswersInv, Answers!Crash
<1> DEFINE Kept(rs, cuts) == /\ rs \in Seq(Answered) /\ cuts \in Nat /\ a_cuts <= cuts
                             /\ \A i \in DOMAIN rs : rs[i].by <= a_run
                             /\ Cardinality(CutsOf(rs)) <= cuts
<1>1. ASSUME NEW rs, NEW cuts, a_file'.rows = rs, a_cuts' = cuts, Kept(rs, cuts)
      PROVE  AnswersInv'
  <2>1. Cardinality(CutsOf(a_rows)) \in Nat /\ a_cuts \in Nat
    BY <1>0, CutsCounted DEF AnswersType
  <2>2. Cardinality(CutsOf(a_rows))' <= a_cuts'
    BY <1>0, <1>1, <2>1 DEF AnswersInv
  <2> QED BY <1>0, <1>1, <2>2 DEF AnswersInv, AnswersType
<1>2. CASE UNCHANGED <<a_file, a_cuts>>
  <2>1. Kept(a_file.rows, a_cuts)
    BY <1>0 DEF AnswersInv, AnswersType
  <2> HIDE DEF Kept
  <2> QED BY <1>1, <1>2, <2>1
<1>3. CASE a_file' = [kind |-> "broken", rows |-> <<>>] /\ UNCHANGED a_cuts
  <2>1. Kept(<<>>, a_cuts)
    BY <1>0, NoCuts DEF AnswersType
  <2>2. a_file'.rows = <<>>
    BY <1>3
  <2> HIDE DEF Kept
  <2> QED BY <1>1, <1>3, <2>1, <2>2
<1>4. ASSUME NEW n \in 0..Len(a_rows), NEW rs,
             rs = SubSeq(a_rows, 1, n) \/ (n > 0 /\ rs = [SubSeq(a_rows, 1, n) EXCEPT ![n].cut = TRUE])
      PROVE  Kept(rs, IF rs = SubSeq(a_rows, 1, n) THEN a_cuts ELSE a_cuts + 1)
  <2>1. /\ rs \in Seq(Answered) /\ Len(rs) = n
        /\ \A i \in 1..n : rs[i].by = a_rows[i].by
        /\ CutsOf(rs) \subseteq CutsOf(a_rows) \cup (IF rs = SubSeq(a_rows, 1, n) THEN {} ELSE {n})
    BY <1>0, <1>4, Truncated DEF AnswersType
  <2>2. \A i \in DOMAIN rs : rs[i].by <= a_run
    BY <1>0, <2>1 DEF AnswersType, RowsInv
  <2>3. Cardinality(CutsOf(a_rows)) \in Nat /\ Cardinality(CutsOf(rs)) \in Nat /\ a_cuts \in Nat
        /\ Cardinality(CutsOf(a_rows)) <= a_cuts
    BY <1>0, <2>1, CutsCounted DEF AnswersInv, AnswersType
  <2>4. CASE rs = SubSeq(a_rows, 1, n)
    <3>1. Cardinality(CutsOf(rs)) <= Cardinality(CutsOf(a_rows))
      BY <1>0, <2>1, <2>4, CutsCounted DEF AnswersType
    <3> QED BY <2>1, <2>2, <2>3, <2>4, <3>1
  <2>5. CASE rs # SubSeq(a_rows, 1, n)
    <3>1. Cardinality(CutsOf(rs)) <= Cardinality(CutsOf(a_rows)) + 1
      BY <1>0, <2>1, <2>5, CutsCounted DEF AnswersType
    <3> QED BY <2>1, <2>2, <2>3, <2>5, <3>1
  <2> QED BY <2>4, <2>5
<1> HIDE DEF Kept
<1>5. ASSUME NEW n \in 0..Len(a_rows), a_file' = Answers!Whole(SubSeq(a_rows, 1, n)), UNCHANGED a_cuts
      PROVE  AnswersInv'
  <2>1. a_file'.rows = SubSeq(a_rows, 1, n)
    BY <1>5 DEF Answers!Whole
  <2> QED BY <1>1, <1>4, <1>5, <2>1
<1>6. ASSUME NEW n \in 1..Len(a_rows), a_cuts' = a_cuts + 1,
             a_file' = Answers!Whole([SubSeq(a_rows, 1, n) EXCEPT ![n].cut = TRUE])
      PROVE  AnswersInv'
  <2> DEFINE rs == [SubSeq(a_rows, 1, n) EXCEPT ![n].cut = TRUE]
  <2>1. a_file'.rows = rs
    BY <1>6 DEF Answers!Whole
  <2>2. n \in 0..Len(a_rows) /\ n > 0
    BY <1>0 DEF AnswersType
  <2>3. Kept(rs, IF rs = SubSeq(a_rows, 1, n) THEN a_cuts ELSE a_cuts + 1)
    BY <1>4, <2>2
  <2>4. Kept(rs, a_cuts + 1)
    <3>1. a_cuts \in Nat
      BY <1>0 DEF AnswersType
    <3>2. Cardinality(CutsOf(rs)) \in Nat
      BY <2>3, CutsCounted DEF Kept
    <3> HIDE DEF rs
    <3> QED BY <2>3, <3>1, <3>2 DEF Kept
  <2> HIDE DEF rs
  <2> QED BY <1>1, <1>6, <2>1, <2>4
<1> QED BY <1>2, <1>3, <1>5, <1>6 DEF Answers!Crash

LEMMA AnswersNext == Answers!AnswersAssumption /\ AnswersInv /\ Answers!Next => AnswersInv'
<1> SUFFICES ASSUME Answers!AnswersAssumption, AnswersInv, Answers!Next PROVE AnswersInv'
  OBVIOUS
<1>1. ASSUME NEW i \in 1..Rows, NEW id \in 1..(Rows + 1), Answers!Edit(i, id) PROVE AnswersInv'
  <2>1. a_request' \in [1..Rows -> Requests] /\ a_edits' \in Nat
    BY <1>1 DEF Answers!AnswersAssumption, AnswersInv, Answers!Edit, AnswersType, Requests
  <2>2. UNCHANGED <<a_file, a_run, a_step, a_asked, a_rows, a_cuts>>
    BY <1>1 DEF Answers!Edit
  <2> QED BY <2>1, <2>2 DEF AnswersInv, AnswersType, RowsInv, CutsOf
<1>2. ASSUME NEW resume \in BOOLEAN, Answers!Begin(resume) PROVE AnswersInv'
  BY <1>2, BeginInv
<1>3. CASE Answers!Resolve \/ Answers!Return
  BY <1>3 DEF Answers!Resolve, Answers!Return, AnswersInv, AnswersType, RowsInv, CutsOf
<1>4. CASE Answers!Ask \/ Answers!Write \/ Answers!Crash
  BY <1>4, AskInv, WriteInv, CrashInv
<1> QED BY <1>1, <1>2, <1>3, <1>4 DEF Answers!Next

LEMMA AnswersFrame == AnswersInv /\ UNCHANGED answersVars => AnswersInv'
BY DEF answersVars, AnswersInv, AnswersType, RowsInv, CutsOf

LEMMA AnswersImplies == AnswersInv => Answers!EvidenceAnswersRequests
<1> SUFFICES ASSUME AnswersInv, a_step = "done" PROVE Answers!EvidenceAnswersRequests
  BY DEF Answers!EvidenceAnswersRequests
<1>1. /\ RowsInv /\ AnswersType /\ a_file.rows = a_rows /\ Len(a_rows) = Rows
      /\ Cardinality(CutsOf(a_rows)) <= a_cuts
  BY DEF AnswersInv
<1>2. DOMAIN a_rows = 1..Rows /\ DOMAIN a_asked = 1..Rows
  BY <1>1 DEF AnswersType, RowsInv
<1>3. Answers!Ids(a_rows) = Answers!Ids(a_asked)
  BY <1>1, <1>2 DEF RowsInv, Answers!Ids
<1>4. \A i \in DOMAIN a_rows : a_rows[i].by = a_run =>
        a_rows[i].text = a_asked[i].text /\ ~a_rows[i].cut
  BY <1>1, <1>2 DEF RowsInv
<1>5. \A S : Answers!Cardinality(S) = Cardinality(S)
  BY Zenon DEF Cardinality, Answers!Cardinality
<1> QED BY <1>1, <1>3, <1>4, <1>5 DEF CutsOf, Answers!EvidenceAnswersRequests

-----------------------------------------------------------------------------
(* The benchmark of a corpus. Workers take the items in turn; the retries   *)
(* of branch mode go over the rows once more.                               *)

Increasing(s) == \A a, b \in DOMAIN s : a < b => s[a] < s[b]
(* The rows that a batch is made of, in their order: no row twice, and so   *)
(* in one chunk only.                                                       *)
Chosen(t) == Benchmark!FoldLeft(LAMBDA rows, i : IF t[i].need /\ t[i].gates
  THEN Append(rows, i) ELSE rows,
                                <<>>, [i \in Benchmark!Row |-> i])
ItemsOf(m, t) == IF m = "branch"
  THEN [i \in Benchmark!Row |-> <<i>>] ELSE Benchmark!Chunks(Chosen(t))

LEMMA ItemsSame ==
  /\ Benchmark!Items = ItemsOf(b_mode, b_trace)
  /\ Benchmark!Items' = ItemsOf(b_mode', b_trace')
<1>1. Benchmark!Items = ItemsOf(b_mode, b_trace)
  BY DEF ItemsOf, Chosen, Benchmark!Items, Benchmark!Eligible
<1>2. Benchmark!Items' = ItemsOf(b_mode', b_trace')
  BY DEF ItemsOf, Chosen, Benchmark!Items, Benchmark!Eligible, Benchmark!FoldLeft,
     Benchmark!MapThenFoldSet
<1> QED BY <1>1, <1>2

LEMMA ChosenRun ==
  ASSUME NEW t, Rows \in Nat
  PROVE  \E run \in [0..Rows -> Seq(Benchmark!Row)] :
           /\ run[0] = <<>> /\ run[Rows] = Chosen(t)
           /\ \A k \in 1..Rows : run[k] = IF t[k].need /\ t[k].gates THEN Append(run[k - 1], k)
                                          ELSE run[k - 1]
<1> DEFINE n == Rows
           A == Seq(1..n)
           rows == [i \in Benchmark!Row |-> i]
           Iter(f) == f = [S \in SUBSET DOMAIN rows |->
                             IF S = {} THEN <<>>
                             ELSE IF t[rows[TopOf(S)]].need /\ t[rows[TopOf(S)]].gates
                                  THEN Append(f[S \ {TopOf(S)}], rows[TopOf(S)])
                                  ELSE f[S \ {TopOf(S)}]]
           it == CHOOSE f : Iter(f)
           step == [p \in A \X (1..n) |->
                      IF t[p[2]].need /\ t[p[2]].gates THEN Append(p[1], p[2]) ELSE p[1]]
<1>1. Benchmark!Row = 1..n /\ n \in Nat /\ <<>> \in A
  BY DEF Benchmark!Row
<1>r. DOMAIN rows = 1..n /\ \A i \in 1..n : rows[i] = i
  BY <1>1
<1>2. Chosen(t) = it[DOMAIN rows]
  BY DEF Chosen, Benchmark!FoldLeft, Benchmark!MapThenFoldSet, Benchmark!Max, TopOf
<1>3. step \in [A \X (1..n) -> A]
  <2>1. \A a \in A, k \in 1..n : Append(a, k) \in A
    OBVIOUS
  <2> HIDE DEF A
  <2> QED BY <2>1
<1>4. Iter(it)
  <2>1. PICK f : IsFold(f, n, A, <<>>, step)
    <3> HIDE DEF step, A
    <3> QED BY <1>1, <1>3, FoldExists DEF HasFold
  <2>2. ASSUME NEW S \in SUBSET (1..n), S # {}
        PROVE  f[S] = IF t[rows[TopOf(S)]].need /\ t[rows[TopOf(S)]].gates
                      THEN Append(f[S \ {TopOf(S)}], rows[TopOf(S)]) ELSE f[S \ {TopOf(S)}]
    <3>1. TopOf(S) \in 1..n
      BY <1>1, <2>2, TopOfSet
    <3>2. f[S \ {TopOf(S)}] \in A
      <4> HIDE DEF A
      <4> QED BY <2>1 DEF IsFold
    <3>3. rows[TopOf(S)] = TopOf(S)
      BY <1>r, <3>1
    <3> HIDE DEF rows, A
    <3> QED BY <2>1, <2>2, <3>1, <3>2, <3>3 DEF IsFold
  <2>3. Iter(f)
    <3> HIDE DEF A, rows
    <3> QED BY <1>1, <1>r, <2>1, <2>2 DEF IsFold
  <2> HIDE DEF Iter
  <2> QED BY <2>3
<1> HIDE DEF it
<1>5. Unfolds(it, n, A, <<>>, step)
  <2>1. ASSUME NEW T \in SUBSET (1..n), T # {}, it[T \ {TopOf(T)}] \in A
        PROVE  it[T] = step[<<it[T \ {TopOf(T)}], TopOf(T)>>]
    <3>1. TopOf(T) \in 1..n
      BY <1>1, <2>1, TopOfSet
    <3>2. it[T] = IF t[TopOf(T)].need /\ t[TopOf(T)].gates
                  THEN Append(it[T \ {TopOf(T)}], TopOf(T)) ELSE it[T \ {TopOf(T)}]
      <4> HIDE DEF rows, A
      <4> QED BY <1>1, <1>r, <1>4, <2>1, <3>1
    <3> HIDE DEF A, Iter
    <3> QED BY <2>1, <3>1, <3>2
  <2>2. it[{}] = <<>>
    BY <1>4
  <2> HIDE DEF step, A
  <2> QED BY <2>1, <2>2 DEF Unfolds
<1>6. HasRun(it, n, A, <<>>, step)
  <2> HIDE DEF step, A
  <2> QED BY <1>1, <1>3, <1>5, FoldRun
<1>7. PICK run \in [0..n -> A] : /\ run[0] = <<>> /\ run[n] = it[1..n]
                                 /\ \A k \in 1..n : run[k] = step[<<run[k - 1], k>>]
  <2> HIDE DEF step, A
  <2> QED BY <1>6 DEF HasRun
<1>8. \A k \in 1..n : run[k] = IF t[k].need /\ t[k].gates
        THEN Append(run[k - 1], k) ELSE run[k - 1]
  <2> HIDE DEF A, Iter
  <2>1. \A k \in 1..n : run[k - 1] \in A
    BY <1>1
  <2> QED BY <1>7, <2>1
<1>9. Chosen(t) = it[1..n]
  <2> HIDE DEF rows, Iter, step
  <2> QED BY <1>r, <1>2
<1> HIDE DEF step, rows, Iter
<1>10. run \in [0..Rows -> Seq(Benchmark!Row)]
  BY <1>1
<1>11. /\ run[0] = <<>> /\ run[Rows] = Chosen(t)
       /\ \A k \in 1..Rows : run[k] = IF t[k].need /\ t[k].gates THEN Append(run[k - 1], k)
                                      ELSE run[k - 1]
  <2> HIDE DEF A
  <2> QED BY <1>7, <1>8, <1>9
<1> HIDE DEF A
<1> QED BY <1>10, <1>11, Zenon

LEMMA ChosenRows ==
  ASSUME NEW t, Rows \in Nat
  PROVE  Chosen(t) \in Seq(Benchmark!Row) /\ Increasing(Chosen(t))
<1>1. PICK run \in [0..Rows -> Seq(Benchmark!Row)] :
        /\ run[0] = <<>> /\ run[Rows] = Chosen(t)
        /\ \A k \in 1..Rows : run[k] = IF t[k].need /\ t[k].gates THEN Append(run[k - 1], k)
                                       ELSE run[k - 1]
  BY ChosenRun
<1> DEFINE Upto(s, k) == Increasing(s) /\ \A a \in DOMAIN s : s[a] <= k
           S == {k \in Nat : k <= Rows => Upto(run[k], k)}
<1>2. 0 \in S
  BY <1>1 DEF Increasing
<1>3. ASSUME NEW k \in S PROVE k + 1 \in S
  <2> SUFFICES ASSUME k + 1 <= Rows PROVE Upto(run[k + 1], k + 1)
    OBVIOUS
  <2>1. k + 1 \in 1..Rows /\ (k + 1) - 1 = k /\ k \in 0..Rows /\ Upto(run[k], k)
    OBVIOUS
  <2> DEFINE s == run[k]
  <2>2. s \in Seq(Benchmark!Row) /\ Upto(s, k)
    BY <2>1
  <2>3. run[k + 1] = Append(s, k + 1) \/ run[k + 1] = s
    BY <1>1, <2>1, Zenon
  <2> HIDE DEF s, S
  <2>4. Upto(s, k + 1)
    BY <2>1, <2>2 DEF Benchmark!Row
  <2>5. Upto(Append(s, k + 1), k + 1)
    <3> DEFINE q == Append(s, k + 1)
    <3>1. /\ DOMAIN s = 1..Len(s) /\ Len(s) \in Nat /\ DOMAIN q = 1..(Len(s) + 1)
          /\ q[Len(s) + 1] = k + 1 /\ \A a \in DOMAIN s : q[a] = s[a] /\ s[a] \in Nat
      BY <2>2 DEF Benchmark!Row
    <3> HIDE DEF q
    <3>2. \A a \in DOMAIN q : a \in DOMAIN s \/ a = Len(s) + 1
      BY <3>1
    <3>3. ASSUME NEW a \in DOMAIN q, NEW b \in DOMAIN q, a < b PROVE q[a] < q[b]
      <4>1. a \in DOMAIN s
        BY <3>1, <3>3
      <4>2. CASE b \in DOMAIN s
        BY <2>2, <3>1, <3>3, <4>1, <4>2 DEF Increasing
      <4>3. CASE b = Len(s) + 1
        BY <2>1, <2>2, <3>1, <4>1, <4>3
      <4> QED BY <3>2, <4>2, <4>3
    <3>4. \A a \in DOMAIN q : q[a] <= k + 1
      BY <2>1, <2>2, <3>1, <3>2
    <3> QED BY <3>3, <3>4 DEF Increasing, q
  <2> QED BY <2>3, <2>4, <2>5
<1>4. S = Nat
  <2>1. S \in SUBSET Nat
    OBVIOUS
  <2> HIDE DEF S
  <2> QED BY <1>2, <1>3, <2>1, Induction
<1>5. Rows \in S /\ Rows \in 0..Rows /\ Rows <= Rows
  <2> HIDE DEF S
  <2> QED BY <1>4
<1>6. Upto(run[Rows], Rows)
  BY <1>5
<1>7. Chosen(t) \in Seq(Benchmark!Row)
  BY <1>1, <1>5
<1> QED BY <1>1, <1>6, <1>7

LEMMA Times == ASSUME NEW a \in Nat, NEW b \in Nat, NEW k \in Nat, a <= b PROVE a * k <= b * k
<1>1. PICK d \in Nat : b = a + d
  <2>1. b - a \in Nat /\ b = a + (b - a)
    OBVIOUS
  <2> QED BY <2>1
<1>2. (a + d) * k = a * k + d * k
  OBVIOUS
<1>3. a * k \in Nat /\ d * k \in Nat
  OBVIOUS
<1> QED BY <1>1, <1>2, <1>3

(* The items that the workers take share no row.                            *)
ItemsFit(items) ==
  /\ items \in Seq(Seq(Benchmark!Row))
  /\ \A k, l \in DOMAIN items :
       Benchmark!Range(items[k]) \cap Benchmark!Range(items[l]) # {} => k = l

LEMMA ChunksFit ==
  ASSUME Benchmark!BenchmarkAssumption, NEW s \in Seq(Benchmark!Row), Increasing(s)
  PROVE  ItemsFit(Benchmark!Chunks(s))
<1> DEFINE B == BatchSize
           n == Len(s)
           m == (n + B - 1) \div B
           C == Benchmark!Chunks(s)
           first(c) == (c - 1) * B + 1
           last(c) == Benchmark!Lesser(c * B, n)
<1>1. B \in Nat /\ B > 0 /\ n \in Nat /\ DOMAIN s = 1..n
  BY DEF Benchmark!BenchmarkAssumption
<1>2. m \in Nat
  <2>1. n + B - 1 \in Nat
    BY <1>1
  <2> QED BY <1>1, <2>1
<1>3. \A c \in 1..m : /\ (c - 1) * B \in Nat /\ c * B \in Nat /\ first(c) \in Nat \ {0}
                      /\ last(c) \in Nat /\ last(c) <= n /\ last(c) <= c * B
  <2> SUFFICES ASSUME NEW c \in 1..m
               PROVE  /\ (c - 1) * B \in Nat /\ c * B \in Nat /\ first(c) \in Nat \ {0}
                      /\ last(c) \in Nat /\ last(c) <= n /\ last(c) <= c * B
    OBVIOUS
  <2>1. c - 1 \in Nat /\ c \in Nat
    BY <1>2
  <2>2. (c - 1) * B \in Nat /\ c * B \in Nat
    BY <1>1, <2>1
  <2> QED BY <1>1, <2>2 DEF Benchmark!Lesser
<1>4. C = [c \in 1..m |-> SubSeq(s, first(c), last(c))]
  BY DEF Benchmark!Chunks
<1> HIDE DEF m, C, first, last
<1>5. ASSUME NEW c \in 1..m
      PROVE  /\ C[c] \in Seq(Benchmark!Row)
             /\ \A i \in Benchmark!Range(C[c]) : \E x \in first(c)..last(c) : x \in DOMAIN s
                  /\ i = s[x]
  <2>1. first(c) \in Nat \ {0} /\ last(c) \in Nat /\ last(c) <= n
    BY <1>3
  <2>2. \A x \in first(c)..last(c) : x \in DOMAIN s /\ s[x] \in Benchmark!Row
    BY <1>1, <2>1
  <2> DEFINE q == SubSeq(s, first(c), last(c))
  <2>3. /\ q \in Seq(Benchmark!Row)
        /\ Len(q) = IF first(c) <= last(c) THEN last(c) - first(c) + 1 ELSE 0
        /\ \A y \in 1..(last(c) - first(c) + 1) : q[y] = s[first(c) + y - 1]
    BY <2>1, <2>2, SubSeqProperties
  <2>4. C[c] = q
    BY <1>4
  <2> HIDE DEF q
  <2>5. \A y \in DOMAIN q : first(c) + y - 1 \in first(c)..last(c) /\ q[y] = s[first(c) + y - 1]
    <3> SUFFICES ASSUME NEW y \in DOMAIN q
                 PROVE  first(c) + y - 1 \in first(c)..last(c) /\ q[y] = s[first(c) + y - 1]
      OBVIOUS
    <3>1. y \in 1..Len(q)
      BY <2>3
    <3>2. first(c) <= last(c) /\ Len(q) = last(c) - first(c) + 1
      BY <2>1, <2>3, <3>1
    <3> QED BY <2>1, <2>3, <3>1, <3>2
  <2> QED BY <2>2, <2>3, <2>4, <2>5 DEF Benchmark!Range
<1>6. C \in Seq(Seq(Benchmark!Row)) /\ DOMAIN C = 1..m
  <2>1. C \in [1..m -> Seq(Benchmark!Row)]
    BY <1>4, <1>5
  <2> QED BY <1>2, <2>1
<1>7. ASSUME NEW k \in 1..m, NEW l \in 1..m, k < l
      PROVE  Benchmark!Range(C[k]) \cap Benchmark!Range(C[l]) = {}
  <2> SUFFICES ASSUME NEW i \in Benchmark!Range(C[k]), i \in Benchmark!Range(C[l]) PROVE FALSE
    OBVIOUS
  <2>1. PICK x \in first(k)..last(k) : x \in DOMAIN s /\ i = s[x]
    BY <1>5
  <2>2. PICK y \in first(l)..last(l) : y \in DOMAIN s /\ i = s[y]
    BY <1>5
  <2>3. k * B <= (l - 1) * B
    <3>1. k \in Nat /\ l - 1 \in Nat /\ k <= l - 1
      BY <1>2, <1>7
    <3> QED BY <1>1, <3>1, Times
  <2>4. x < y
    <3>1. x <= k * B /\ x \in Nat
      BY <1>1, <1>3, <2>1
    <3>2. (l - 1) * B + 1 <= y /\ y \in Nat
      BY <1>1, <1>3, <2>2 DEF first
    <3> QED BY <1>3, <2>3, <3>1, <3>2
  <2>5. s[x] < s[y] /\ s[x] \in Nat /\ s[y] \in Nat
    <3>1. x \in DOMAIN s /\ y \in DOMAIN s
      BY <2>1, <2>2
    <3>2. s[x] < s[y]
      BY <2>4, <3>1, Zenon DEF Increasing
    <3>3. s[x] \in Benchmark!Row /\ s[y] \in Benchmark!Row
      BY <3>1
    <3>4. Benchmark!Row \in SUBSET Nat
      BY DEF Benchmark!Row, Benchmark!BenchmarkAssumption
    <3> QED BY <3>2, <3>3, <3>4
  <2> QED BY <2>1, <2>2, <2>5
<1>8. \A k, l \in DOMAIN C : Benchmark!Range(C[k]) \cap Benchmark!Range(C[l]) # {} => k = l
  <2>1. \A k, l \in 1..m : k < l \/ l < k \/ k = l
    BY <1>2
  <2> QED BY <1>6, <1>7, <2>1
<1> QED BY <1>6, <1>8 DEF ItemsFit, C

LEMMA ItemsFacts ==
  ASSUME Benchmark!BenchmarkAssumption, NEW m, NEW t
  PROVE  /\ ItemsFit(ItemsOf(m, t))
         /\ m = "branch" => /\ Len(ItemsOf(m, t)) = Rows
                            /\ \A i \in Benchmark!Row : ItemsOf(m, t)[i] = <<i>>
<1>1. Rows \in Nat
  BY DEF Benchmark!BenchmarkAssumption
<1>2. CASE m = "branch"
  <2> DEFINE items == [i \in Benchmark!Row |-> <<i>>]
  <2>1. items \in Seq(Seq(Benchmark!Row)) /\ DOMAIN items = 1..Rows /\ Len(items) = Rows
    BY <1>1 DEF Benchmark!Row
  <2>2. \A k \in DOMAIN items : Benchmark!Range(items[k]) = {k}
    BY DEF Benchmark!Range
  <2>3. ItemsFit(items)
    <3> HIDE DEF items
    <3> QED BY <2>1, <2>2 DEF ItemsFit
  <2> QED BY <1>2, <2>1, <2>3 DEF ItemsOf
<1>3. CASE m # "branch"
  BY <1>1, <1>3, ChosenRows, ChunksFit DEF ItemsOf
<1> QED BY <1>2, <1>3

Items == ItemsOf(b_mode, b_trace)
RowsOf(k) == Benchmark!Range(Items[k])
Finished == DOMAIN b_results
(* A run of row i says what was tried of it: completed by a good answer,    *)
(* timed out because it was asked, and as many attempts as there were       *)
(* tries.                                                                   *)
Fits(i, r, said, asked, n) ==
  /\ r.row = i
  /\ r.status = "completed" => said = "good"
  /\ r.status = "timeout" => asked
  /\ IF r.status = "skipped" THEN n = 0 ELSE r.attempts = n
  /\ n <= 1 + RetryLimit
RunOf(i, r) == Fits(i, r, b_verdict[i], b_trace[i].need, b_tries[i])
RowTraces == [row : Benchmark!Row, need : BOOLEAN, gates : BOOLEAN]

BenchType ==
  /\ b_tries \in [Benchmark!Row -> Nat]
  /\ DOMAIN b_verdict = Benchmark!Row /\ b_verdict = [i \in DOMAIN b_verdict |-> b_verdict[i]]
  /\ DOMAIN b_runs = Benchmark!Row /\ b_runs = [i \in DOMAIN b_runs |-> b_runs[i]]
  /\ b_cursor \in Nat \ {0} /\ b_taken \in Nat
  /\ b_worker \in [1..Concurrency -> Nat]
TraceInv ==
  /\ b_step \in {"idle", "session"} => b_trace = <<>>
  /\ b_step = "rows" => b_trace \in Seq(RowTraces) /\ Len(b_trace) < Rows
  /\ b_step \in {"pool", "retry", "report", "done"} => DOMAIN b_trace = Benchmark!Row
  /\ b_step # "failed" => \A i \in DOMAIN b_trace : b_trace[i] \in Benchmark!Traces(i)
(* A row is tried by the worker that holds its item, and by no other        *)
(* before the retries.                                                      *)
UntriedInv ==
  b_step \in {"idle", "session", "rows", "pool"} =>
    /\ \A i \in Benchmark!Row : b_runs[i] = Benchmark!Skipped(i)
    /\ b_cursor = 1 /\ Finished \subseteq 1..b_taken
    /\ \A i \in Benchmark!Row : (\A k \in Finished : i \notin RowsOf(k)) => b_tries[i] = 0
(* Two workers hold two items, and none that is finished.                   *)
WorkersInv ==
  /\ b_step # "pool" => \A w \in 1..Concurrency : b_worker[w] = 0
  /\ b_step \in {"idle", "session", "rows"} => b_taken = 0
  /\ b_step = "pool" =>
       /\ b_mode # "none" /\ b_taken <= Len(Items)
       /\ \A w \in 1..Concurrency : b_worker[w] <= b_taken /\ b_worker[w] \notin Finished
       /\ \A w, u \in 1..Concurrency : b_worker[w] = b_worker[u] => w = u \/ b_worker[w] = 0
ResultsInv ==
  b_step = "pool" =>
    \A k \in Finished : /\ DOMAIN b_results[k] = RowsOf(k)
                        /\ \A i \in RowsOf(k) : RunOf(i, b_results[k][i])
(* A row the retry may still help had every try.                            *)
GaveUp(i) == Benchmark!Retryable(i) => b_tries[i] = 1 + RetryLimit
ReportInv ==
  /\ b_step \in {"retry", "report", "done"} => \A i \in Benchmark!Row : RunOf(i, b_runs[i])
  /\ b_step = "retry" =>
       b_mode = "branch" /\ \A i \in Benchmark!Row : i < b_cursor => GaveUp(i)
  /\ b_step \in {"report", "done"} /\ b_mode = "branch" => \A i \in Benchmark!Row : GaveUp(i)
  /\ b_step = "done" => b_passed = [i \in Benchmark!Row |-> Benchmark!Violations(i) = {}]
BenchInv == BenchType /\ TraceInv /\ UntriedInv /\ WorkersInv /\ ResultsInv /\ ReportInv

LEMMA BenchInit == Benchmark!BenchmarkAssumption /\ Benchmark!Init => BenchInv
<1> SUFFICES ASSUME Benchmark!BenchmarkAssumption, Benchmark!Init PROVE BenchInv
  OBVIOUS
<1>1. BenchType
  BY DEF Benchmark!Init, BenchType
<1>2. TraceInv
  BY DEF Benchmark!Init, TraceInv
<1>3. UntriedInv
  BY DEF Benchmark!Init, UntriedInv, Finished
<1>4. WorkersInv /\ ResultsInv /\ ReportInv
  BY DEF Benchmark!Init, WorkersInv, ResultsInv, ReportInv
<1> QED BY <1>1, <1>2, <1>3, <1>4 DEF BenchInv

LEMMA BenchFrame == BenchInv /\ UNCHANGED benchmarkVars => BenchInv'
<1> SUFFICES ASSUME BenchInv, UNCHANGED benchmarkVars PROVE BenchInv'
  OBVIOUS
<1>1. UNCHANGED <<b_mode, b_step, b_trace, b_taken, b_worker, b_results, b_runs, b_cursor,
        b_tries,
                  b_verdict, b_passed>>
  BY DEF benchmarkVars
<1>2. BenchType' /\ TraceInv'
  BY <1>1 DEF BenchInv, BenchType, TraceInv
<1>3. \A k : RowsOf(k)' = RowsOf(k)
  BY <1>1 DEF RowsOf, Items
<1>4. UntriedInv'
  BY <1>1, <1>3 DEF BenchInv, UntriedInv, Finished
<1>5. WorkersInv'
  BY <1>1 DEF BenchInv, WorkersInv, Finished, Items
<1>6. ResultsInv'
  BY <1>1, <1>3 DEF BenchInv, ResultsInv, Finished, RunOf
<1>7. ReportInv'
  <2>1. \A i \in Benchmark!Row : Benchmark!Violations(i)' = Benchmark!Violations(i)
    BY <1>1 DEF Benchmark!Violations
  <2>2. \A i \in Benchmark!Row : RunOf(i, b_runs[i])' = RunOf(i, b_runs[i])
    BY <1>1 DEF RunOf
  <2>3. \A i \in Benchmark!Row : GaveUp(i)' = GaveUp(i)
    BY <1>1 DEF GaveUp, Benchmark!Retryable
  <2>4. [i \in Benchmark!Row |-> Benchmark!Violations(i) = {}]' =
          [i \in Benchmark!Row |-> Benchmark!Violations(i) = {}]
    BY <2>1
  <2> QED BY <1>1, <2>2, <2>3, <2>4 DEF BenchInv, ReportInv
<1> QED BY <1>2, <1>4, <1>5, <1>6, <1>7 DEF BenchInv

LEMMA BenchImplies == BenchInv => Benchmark!ReportIsSound
<1> SUFFICES ASSUME BenchInv, b_step = "done", NEW i \in Benchmark!Row
    PROVE  /\ b_trace[i].row = i /\ b_runs[i].row = i
           /\ b_passed[i] /\ b_mode # "none" => b_verdict[i] = "good"
           /\ IF b_runs[i].status = "skipped"
                THEN b_tries[i] = 0 ELSE b_runs[i].attempts = b_tries[i]
           /\ b_tries[i] <= 1 + RetryLimit
           /\ b_mode = "branch" /\ Benchmark!Retryable(i) => b_tries[i] = 1 + RetryLimit
  BY DEF Benchmark!ReportIsSound
<1>1. b_trace[i].row = i
  BY DEF BenchInv, TraceInv, Benchmark!Traces
<1>2. RunOf(i, b_runs[i])
  BY DEF BenchInv, ReportInv
<1>3. b_passed[i] /\ b_mode # "none" => b_runs[i].status = "completed"
  BY DEF BenchInv, ReportInv, Benchmark!Violations
<1>4. b_mode = "branch" => GaveUp(i)
  BY DEF BenchInv, ReportInv
<1> QED BY <1>1, <1>2, <1>3, <1>4 DEF RunOf, Fits, GaveUp

LEMMA BenchBegin ==
  ASSUME Benchmark!BenchmarkAssumption, BenchInv,
         NEW m, NEW session \in BOOLEAN, NEW flight \in BOOLEAN, NEW service \in BOOLEAN,
         Benchmark!Begin(m, session, flight, service)
  PROVE  BenchInv'
<1>1. /\ b_step = "idle" /\ b_mode' = m /\ b_step' \in {"failed", "session", "rows"}
      /\ UNCHANGED <<b_trace, b_taken, b_worker, b_results, b_runs, b_cursor, b_tries,
           b_verdict, b_passed>>
  BY DEF Benchmark!Begin
<1>2. BenchType'
  BY <1>1 DEF BenchInv, BenchType
<1>3. b_trace = <<>> /\ b_taken = 0 /\ Finished = {}
  BY <1>1 DEF BenchInv, TraceInv, WorkersInv, UntriedInv
<1>4. TraceInv'
  BY <1>1, <1>3 DEF TraceInv, Benchmark!BenchmarkAssumption
<1>5. UntriedInv'
  BY <1>1, <1>3 DEF BenchInv, UntriedInv, Finished
<1>6. WorkersInv' /\ ResultsInv' /\ ReportInv'
  BY <1>1, <1>3 DEF BenchInv, WorkersInv, ResultsInv, ReportInv
<1> QED BY <1>2, <1>4, <1>5, <1>6 DEF BenchInv

LEMMA TracedInv ==
  ASSUME Benchmark!BenchmarkAssumption, BenchInv, b_step \in {"session", "rows"},
         UNCHANGED <<b_mode, b_taken, b_worker, b_results, b_runs, b_cursor, b_tries, b_verdict,
           b_passed>>,
         TraceInv', b_step' \in {"failed", "rows", Benchmark!Traced}
  PROVE  BenchInv'
<1>2. BenchType'
  BY DEF BenchInv, BenchType
<1>3. b_taken = 0 /\ Finished = {} /\ Finished' = {}
  BY DEF BenchInv, WorkersInv, UntriedInv, Finished
<1>4. \A i \in Benchmark!Row : b_tries[i] = 0 /\ b_runs[i] = Benchmark!Skipped(i)
  BY <1>3 DEF BenchInv, UntriedInv
<1>5. UntriedInv'
  BY <1>3, <1>4 DEF BenchInv, UntriedInv
<1>6. WorkersInv'
  <2>1. Len(Items') \in Nat
    <3>1. ItemsFit(ItemsOf(b_mode', b_trace'))
      BY ItemsFacts
    <3> QED BY <3>1 DEF ItemsFit, Items
  <2>2. \A w \in 1..Concurrency : b_worker[w] = 0
    BY DEF BenchInv, WorkersInv
  <2> QED BY <1>3, <2>1, <2>2 DEF BenchInv, WorkersInv, Benchmark!Traced
<1>7. ResultsInv'
  BY <1>3 DEF ResultsInv
<1>8. ReportInv'
  <2>1. \A i \in Benchmark!Row : RunOf(i, b_runs[i])'
    <3> SUFFICES ASSUME NEW i \in Benchmark!Row PROVE RunOf(i, b_runs[i])'
      OBVIOUS
    <3>1. b_tries'[i] = 0 /\ b_runs'[i] = Benchmark!Skipped(i) /\ 0 <= 1 + RetryLimit
      BY <1>4 DEF Benchmark!BenchmarkAssumption
    <3> QED BY <3>1 DEF RunOf, Fits, Benchmark!Skipped
  <2> QED BY <2>1 DEF ReportInv, Benchmark!Traced
<1> QED BY <1>2, <1>5, <1>6, <1>7, <1>8 DEF BenchInv

LEMMA SessionStep == Benchmark!BenchmarkAssumption /\ BenchInv /\ Benchmark!Session => BenchInv'
<1> SUFFICES ASSUME Benchmark!BenchmarkAssumption, BenchInv, Benchmark!Session PROVE BenchInv'
  OBVIOUS
<1>1. /\ b_step = "session"
      /\ UNCHANGED <<b_mode, b_taken, b_worker, b_results, b_runs, b_cursor, b_tries, b_verdict,
           b_passed>>
  BY DEF Benchmark!Session
<1>2. CASE b_step' = "failed" /\ b_trace' = b_trace
  BY <1>1, <1>2, TracedInv DEF BenchInv, TraceInv
<1>3. CASE /\ \A i \in Benchmark!Row : b_trace'[i] \in Benchmark!Traces(i)
           /\ DOMAIN b_trace' = Benchmark!Row /\ b_step' = Benchmark!Traced
  BY <1>1, <1>3, TracedInv DEF TraceInv, Benchmark!Traced
<1>4. ASSUME NEW n \in DOMAIN Benchmark!Requests, NEW to \in DOMAIN Benchmark!Requests,
             NEW from \in 1..n, NEW said, NEW own,
             own = SubSeq(said, Benchmark!Lesser(Warmups, Rows) + 1, Len(said)),
             Benchmark!InOrder(said),
             b_trace' \in {t \in [Benchmark!Row -> UNION {Benchmark!Traces(i) :
               i \in Benchmark!Row}] :
                             \A i \in Benchmark!Row : t[i].row = own[i].row}
      PROVE  /\ \A i \in Benchmark!Row : b_trace'[i] \in Benchmark!Traces(i)
             /\ DOMAIN b_trace' = Benchmark!Row
  <2> DEFINE warm == Benchmark!Lesser(Warmups, Rows)
  <2>1. warm \in Nat /\ Rows \in Nat
    BY DEF Benchmark!Lesser, Benchmark!BenchmarkAssumption
  <2>2. said = Benchmark!Requests
    BY <1>4 DEF Benchmark!InOrder
  <2>3. said = [k \in 1..(warm + Rows) |->
                 IF k <= warm
                   THEN [warm |-> TRUE, row |-> k] ELSE [warm |-> FALSE, row |-> k - warm]]
    BY <2>2 DEF Benchmark!Requests
  <2> HIDE DEF warm
  <2>4. Len(said) = warm + Rows /\ \A k \in 1..(warm + Rows) :
          said[k] \in {said[x] : x \in 1..(warm + Rows)}
    <3> DEFINE A == [warm : BOOLEAN, row : Nat]
    <3>1. said \in [1..(warm + Rows) -> A] /\ warm + Rows \in Nat
      BY <2>1, <2>3
    <3> HIDE DEF A
    <3>2. said \in Seq(A) /\ DOMAIN said = 1..(warm + Rows)
      BY <3>1
    <3>3. Len(said) \in Nat /\ DOMAIN said = 1..Len(said)
      BY <3>2
    <3> QED BY <3>1, <3>2, <3>3
  <2>5. \A y \in 1..Rows : own[y] = said[warm + y]
    <3>1. \A y \in (warm + 1)..(warm + Rows) : said[y] \in {said[x] : x \in 1..(warm + Rows)}
      BY <2>1, <2>4
    <3>2. \A y \in 1..((warm + Rows) - (warm + 1) + 1) :
            SubSeq(said, warm + 1, warm + Rows)[y] = said[(warm + 1) + y - 1]
      <4>1. warm + 1 \in Int /\ warm + Rows \in Int
        BY <2>1
      <4> QED BY <3>1, <4>1, SubSeqProperties
    <3>3. own = SubSeq(said, warm + 1, warm + Rows)
      BY <1>4, <2>4 DEF warm
    <3>4. \A y \in 1..Rows : y \in 1..((warm + Rows) - (warm + 1) + 1)
            /\ (warm + 1) + y - 1 = warm + y
      BY <2>1
    <3> QED BY <3>2, <3>3, <3>4
  <2>6. \A y \in 1..Rows : said[warm + y].row = y
    <3> SUFFICES ASSUME NEW y \in 1..Rows PROVE said[warm + y].row = y
      OBVIOUS
    <3>1. warm + y \in 1..(warm + Rows) /\ ~(warm + y <= warm) /\ (warm + y) - warm = y
      BY <2>1
    <3> QED BY <2>3, <3>1
  <2>7. ASSUME NEW i \in Benchmark!Row PROVE b_trace'[i] \in Benchmark!Traces(i)
    <3>1. b_trace'[i].row = i
      BY <1>4, <2>5, <2>6 DEF Benchmark!Row
    <3>2. PICK j \in Benchmark!Row : b_trace'[i] \in Benchmark!Traces(j)
      BY <1>4
    <3> QED BY <3>1, <3>2 DEF Benchmark!Traces
  <2> QED BY <1>4, <2>7
<1>5. \/ b_trace' = b_trace /\ b_step' = "failed"
      \/ \E n \in DOMAIN Benchmark!Requests, to \in DOMAIN Benchmark!Requests :
           \E from \in 1..n :
          LET said == [SubSeq(Benchmark!Requests, 1, n) EXCEPT ![from] = Benchmark!Requests[to]]
              own == SubSeq(said, Benchmark!Lesser(Warmups, Rows) + 1, Len(said))
          IN /\ Benchmark!InOrder(said) /\ b_step' = Benchmark!Traced
             /\ b_trace' \in {t \in [Benchmark!Row -> UNION {Benchmark!Traces(i) :
                  i \in Benchmark!Row}] :
                             \A i \in Benchmark!Row : t[i].row = own[i].row}
  BY Zenon DEF Benchmark!Session
<1> QED BY <1>2, <1>3, <1>4, <1>5, Zenon

LEMMA TraceRowStep == Benchmark!BenchmarkAssumption /\ BenchInv /\ Benchmark!TraceRow =>
  BenchInv'
<1> SUFFICES ASSUME Benchmark!BenchmarkAssumption, BenchInv, Benchmark!TraceRow PROVE BenchInv'
  OBVIOUS
<1> DEFINE n == Len(b_trace) + 1
<1>1. /\ b_step = "rows"
      /\ UNCHANGED <<b_mode, b_taken, b_worker, b_results, b_runs, b_cursor, b_tries, b_verdict,
           b_passed>>
  BY DEF Benchmark!TraceRow
<1>2. CASE b_step' = "failed" /\ b_trace' = b_trace
  BY <1>1, <1>2, TracedInv DEF BenchInv, TraceInv
<1>3. ASSUME NEW t \in Benchmark!Traces(n), b_trace' = Append(b_trace, t),
             b_step' = IF n = Rows THEN Benchmark!Traced ELSE "rows"
      PROVE  BenchInv'
  <2>1. /\ b_trace \in Seq(RowTraces) /\ Len(b_trace) < Rows /\ Rows \in Nat /\ n \in 1..Rows
        /\ \A i \in DOMAIN b_trace : b_trace[i] \in Benchmark!Traces(i)
    BY <1>1 DEF BenchInv, TraceInv, Benchmark!BenchmarkAssumption
  <2>2. t \in RowTraces
    BY <2>1 DEF RowTraces, Benchmark!Traces, Benchmark!Row
  <2>3. /\ b_trace' \in Seq(RowTraces) /\ Len(b_trace') = n /\ DOMAIN b_trace' = 1..n
        /\ \A i \in DOMAIN b_trace' : b_trace'[i] \in Benchmark!Traces(i)
    <3> HIDE DEF n
    <3>1. n = Len(b_trace) + 1
      BY DEF n
    <3> QED BY <1>3, <2>1, <2>2, <3>1
  <2>4. TraceInv'
    BY <1>3, <2>1, <2>3 DEF TraceInv, Benchmark!Traced, Benchmark!Row
  <2> QED BY <1>1, <1>3, <2>4, TracedInv
<1> QED BY <1>2, <1>3 DEF Benchmark!TraceRow

LEMMA AtItem ==
  ASSUME Benchmark!BenchmarkAssumption, BenchInv, NEW w \in 1..Concurrency, b_worker[w] # 0
  PROVE  /\ b_step = "pool" /\ b_worker[w] \in DOMAIN Items /\ b_worker[w] \notin Finished
         /\ Finished \subseteq DOMAIN Items
         /\ RowsOf(b_worker[w]) \subseteq Benchmark!Row
         /\ \A k \in Finished : RowsOf(k) \cap RowsOf(b_worker[w]) = {}
         /\ \A i \in RowsOf(b_worker[w]) : b_tries[i] = 0
<1>1. b_step = "pool"
  BY DEF BenchInv, WorkersInv
<1>2. Items \in Seq(Seq(Benchmark!Row)) /\ ItemsFit(Items)
  BY ItemsFacts DEF Items, ItemsFit
<1>3. /\ b_taken \in Nat /\ b_taken <= Len(Items) /\ b_worker[w] \in Nat
           /\ b_worker[w] <= b_taken
      /\ b_worker[w] \notin Finished /\ Finished \subseteq 1..b_taken
  BY <1>1 DEF BenchInv, BenchType, WorkersInv, UntriedInv
<1>4. DOMAIN Items = 1..Len(Items) /\ Len(Items) \in Nat
  BY <1>2
<1>5. b_worker[w] \in DOMAIN Items /\ Finished \subseteq DOMAIN Items
  BY <1>3, <1>4
<1>6. RowsOf(b_worker[w]) \subseteq Benchmark!Row
  <2>1. Items[b_worker[w]] \in Seq(Benchmark!Row)
    BY <1>2, <1>5
  <2> QED BY <2>1 DEF RowsOf, Benchmark!Range
<1>7. \A k \in Finished : RowsOf(k) \cap RowsOf(b_worker[w]) = {}
  BY <1>2, <1>3, <1>5, Zenon DEF ItemsFit, RowsOf
<1>8. \A i \in RowsOf(b_worker[w]) : b_tries[i] = 0
  BY <1>1, <1>6, <1>7 DEF BenchInv, UntriedInv
<1> QED BY <1>1, <1>3, <1>5, <1>6, <1>7, <1>8

LEMMA TakeStep ==
  ASSUME Benchmark!BenchmarkAssumption, BenchInv, NEW w \in 1..Concurrency, Benchmark!Take(w)
  PROVE  BenchInv'
<1>1. /\ b_step = "pool" /\ b_worker[w] = 0 /\ b_taken < Len(Items)
      /\ b_taken' = b_taken + 1 /\ b_worker' = [b_worker EXCEPT ![w] = b_taken + 1]
      /\ UNCHANGED <<b_mode, b_step, b_trace, b_results, b_runs, b_cursor, b_tries, b_verdict,
           b_passed>>
  BY ItemsSame DEF Benchmark!Take, Items
<1>2. Len(Items) \in Nat
  <2>1. Items \in Seq(Seq(Benchmark!Row))
    BY ItemsFacts DEF Items, ItemsFit
  <2> QED BY <2>1
<1>3. b_taken \in Nat /\ b_worker \in [1..Concurrency -> Nat]
  BY DEF BenchInv, BenchType
<1>4. BenchType' /\ TraceInv'
  BY <1>1, <1>3 DEF BenchInv, BenchType, TraceInv
<1>5. \A k : RowsOf(k)' = RowsOf(k)
  BY <1>1 DEF RowsOf, Items
<1>6. UntriedInv'
  BY <1>1, <1>3, <1>5 DEF BenchInv, UntriedInv, Finished
<1>7. WorkersInv'
  <2>1. /\ b_mode # "none" /\ Finished \subseteq 1..b_taken
        /\ \A v \in 1..Concurrency : b_worker[v] <= b_taken /\ b_worker[v] \notin Finished
        /\ \A v, u \in 1..Concurrency : b_worker[v] = b_worker[u] => v = u \/ b_worker[v] = 0
    BY <1>1 DEF BenchInv, WorkersInv, UntriedInv
  <2>2. \A v \in 1..Concurrency : b_worker'[v] = IF v = w THEN b_taken + 1 ELSE b_worker[v]
    BY <1>1, <1>3
  <2>3. b_taken' <= Len(Items)
    BY <1>1, <1>2, <1>3
  <2>4. \A v \in 1..Concurrency : b_worker'[v] <= b_taken' /\ b_worker'[v] \notin Finished
    BY <1>1, <1>3, <2>1, <2>2
  <2>5. \A v, u \in 1..Concurrency : b_worker'[v] = b_worker'[u] => v = u \/ b_worker'[v] = 0
    BY <1>3, <2>1, <2>2
  <2> QED BY <1>1, <2>1, <2>3, <2>4, <2>5 DEF WorkersInv, Finished, Items
<1>8. ResultsInv'
  BY <1>1, <1>5 DEF BenchInv, ResultsInv, Finished, RunOf
<1>9. ReportInv'
  BY <1>1 DEF ReportInv
<1> QED BY <1>4, <1>6, <1>7, <1>8, <1>9 DEF BenchInv

LEMMA JudgedInv ==
  ASSUME Benchmark!BenchmarkAssumption, BenchInv, NEW w \in 1..Concurrency, b_worker[w] # 0,
         UNCHANGED <<b_mode, b_step, b_trace, b_taken, b_runs, b_cursor, b_passed>>,
         b_worker' = [b_worker EXCEPT ![w] = 0],
         BenchType', Finished' = Finished \cup {b_worker[w]},
         \A k \in Finished : b_results'[k] = b_results[k],
         DOMAIN b_results'[b_worker[w]] = RowsOf(b_worker[w]),
         \A i \in Benchmark!Row : i \notin RowsOf(b_worker[w]) =>
           b_tries'[i] = b_tries[i] /\ b_verdict'[i] = b_verdict[i],
         \A i \in RowsOf(b_worker[w]) :
           Fits(i, b_results'[b_worker[w]][i], b_verdict'[i], b_trace[i].need, b_tries'[i])
  PROVE  BenchInv'
<1> DEFINE c == b_worker[w]
<1>1. /\ b_step = "pool" /\ c \in DOMAIN Items /\ c \notin Finished
      /\ Finished \subseteq DOMAIN Items /\ RowsOf(c) \subseteq Benchmark!Row
      /\ \A k \in Finished : RowsOf(k) \cap RowsOf(c) = {}
  BY AtItem
<1>2. \A k : RowsOf(k)' = RowsOf(k)
  BY DEF RowsOf, Items
<1>3. TraceInv'
  BY DEF BenchInv, TraceInv
<1>4. UntriedInv'
  <2>1. c \in 1..b_taken /\ Finished \subseteq 1..b_taken
    <3>1. c \in Nat /\ c # 0 /\ c <= b_taken /\ b_taken \in Nat
      BY <1>1 DEF BenchInv, BenchType, WorkersInv
    <3> QED BY <1>1, <3>1 DEF BenchInv, UntriedInv
  <2>2. ASSUME NEW i \in Benchmark!Row, \A k \in Finished' : i \notin RowsOf(k)
                 PROVE b_tries'[i] = 0
    <3>1. i \notin RowsOf(c) /\ \A k \in Finished : i \notin RowsOf(k)
      BY <2>2
    <3> QED BY <1>1, <3>1 DEF BenchInv, UntriedInv
  <2>3. Finished' \subseteq 1..b_taken
    BY <2>1
  <2> QED BY <1>1, <1>2, <2>2, <2>3 DEF BenchInv, UntriedInv
<1>5. WorkersInv'
  <2>1. \A v \in 1..Concurrency : b_worker'[v] = IF v = w THEN 0 ELSE b_worker[v]
    BY DEF BenchInv, BenchType
  <2>2. /\ b_mode # "none" /\ b_taken <= Len(Items) /\ b_taken \in Nat
        /\ \A v \in 1..Concurrency : b_worker[v] <= b_taken /\ b_worker[v] \notin Finished
        /\ \A v, u \in 1..Concurrency : b_worker[v] = b_worker[u] => v = u \/ b_worker[v] = 0
    BY <1>1 DEF BenchInv, BenchType, WorkersInv
  <2>3. 0 \notin Finished'
    <3>1. 0 \notin DOMAIN Items
      <4>1. Items \in Seq(Seq(Benchmark!Row))
        BY ItemsFacts DEF Items, ItemsFit
      <4> QED BY <4>1
    <3> QED BY <1>1, <3>1
  <2>4. \A v \in 1..Concurrency : b_worker'[v] <= b_taken /\ b_worker'[v] \notin Finished'
    <3> SUFFICES ASSUME NEW v \in 1..Concurrency
                 PROVE  b_worker'[v] <= b_taken /\ b_worker'[v] \notin Finished'
      OBVIOUS
    <3>1. CASE v = w
      BY <2>1, <2>2, <2>3, <3>1
    <3>2. CASE v # w
      <4>1. b_worker'[v] = b_worker[v] /\ (b_worker[v] # c \/ b_worker[v] = 0)
        BY <2>1, <2>2, <3>2
      <4>2. b_worker[v] \notin Finished /\ b_worker[v] <= b_taken
        BY <2>2
      <4> QED BY <2>3, <4>1, <4>2
    <3> QED BY <3>1, <3>2
  <2>5. \A v, u \in 1..Concurrency : b_worker'[v] = b_worker'[u] => v = u \/ b_worker'[v] = 0
    BY <2>1, <2>2
  <2> QED BY <1>1, <2>2, <2>4, <2>5 DEF WorkersInv, Items
<1>6. ResultsInv'
  <2> SUFFICES ASSUME NEW k \in Finished'
               PROVE  /\ DOMAIN b_results'[k] = RowsOf(k)
                      /\ \A i \in RowsOf(k) :
                           Fits(i, b_results'[k][i], b_verdict'[i], b_trace[i].need,
                             b_tries'[i])
    BY <1>2 DEF ResultsInv, RunOf
  <2>1. CASE k = c
    BY <2>1
  <2>2. CASE k \in Finished
    <3>1. /\ DOMAIN b_results[k] = RowsOf(k)
          /\ \A i \in RowsOf(k) :
               Fits(i, b_results[k][i], b_verdict[i], b_trace[i].need, b_tries[i])
      BY <1>1, <2>2 DEF BenchInv, ResultsInv, RunOf
    <3>2. RowsOf(k) \subseteq Benchmark!Row
      <4>1. Items[k] \in Seq(Benchmark!Row)
        <5>1. Items \in Seq(Seq(Benchmark!Row)) /\ k \in DOMAIN Items
          BY <1>1, <2>2, ItemsFacts DEF Items, ItemsFit
        <5> QED BY <5>1
      <4> QED BY <4>1 DEF RowsOf, Benchmark!Range
    <3>3. \A i \in RowsOf(k) : b_tries'[i] = b_tries[i] /\ b_verdict'[i] = b_verdict[i]
      BY <1>1, <2>2, <3>2
    <3> QED BY <2>2, <3>1, <3>3
  <2> QED BY <2>1, <2>2
<1>7. ReportInv'
  BY <1>1 DEF ReportInv
<1> QED BY <1>3, <1>4, <1>5, <1>6, <1>7 DEF BenchInv

LEMMA PutFacts ==
  ASSUME NEW k, NEW outcome,
           b_results' = [j \in DOMAIN b_results \cup {k} |-> IF j = k
             THEN outcome ELSE b_results[j]]
  PROVE  /\ Finished' = Finished \cup {k} /\ b_results'[k] = outcome
         /\ \A j \in Finished : j # k => b_results'[j] = b_results[j]
BY DEF Finished

Outcome(i, r) ==
  /\ r.row = i /\ r.status \in {"failed", "timeout", "completed"} /\ r.attempts = 1
  /\ r = [row |-> i, status |-> r.status, tools |-> r.tools, attempts |-> 1]

LEMMA OutcomeFacts == \A i, r :
  r \in {Benchmark!Failed(i), Benchmark!TimedOut(i), Benchmark!Completed(i, FALSE),
         Benchmark!Completed(i, TRUE)} => Outcome(i, r)
<1> SUFFICES ASSUME NEW i, NEW r,
                    r \in {Benchmark!Failed(i), Benchmark!TimedOut(i),
                      Benchmark!Completed(i, FALSE),
                           Benchmark!Completed(i, TRUE)}
             PROVE  Outcome(i, r)
  OBVIOUS
<1> USE DEF Outcome
<1>1. CASE r = Benchmark!Failed(i)
  BY <1>1 DEF Benchmark!Failed
<1>2. CASE r = Benchmark!TimedOut(i)
  BY <1>2 DEF Benchmark!Failed, Benchmark!TimedOut
<1>3. CASE r = Benchmark!Completed(i, FALSE) \/ r = Benchmark!Completed(i, TRUE)
  BY <1>3 DEF Benchmark!Failed, Benchmark!Completed
<1> QED BY <1>1, <1>2, <1>3

LEMMA AttemptStep ==
  ASSUME Benchmark!BenchmarkAssumption, BenchInv, NEW w \in 1..Concurrency, Benchmark!Attempt(w)
  PROVE  BenchInv'
<1> DEFINE c == b_worker[w]
<1>1. /\ c # 0 /\ b_mode = "branch"
      /\ b_worker' = [b_worker EXCEPT ![w] = 0]
      /\ UNCHANGED <<b_mode, b_step, b_trace, b_taken, b_runs, b_cursor, b_passed>>
  BY DEF Benchmark!Attempt
<1>2. /\ b_step = "pool" /\ c \in DOMAIN Items /\ c \notin Finished
      /\ RowsOf(c) \subseteq Benchmark!Row /\ \A i \in RowsOf(c) : b_tries[i] = 0
  BY <1>1, AtItem
<1>3. Items[c] = <<c>> /\ c \in Benchmark!Row
  <2>1. Items \in Seq(Seq(Benchmark!Row)) /\ Len(Items) = Rows
        /\ \A i \in Benchmark!Row : Items[i] = <<i>>
    BY <1>1, ItemsFacts DEF Items, ItemsFit
  <2> QED BY <1>2, <2>1 DEF Benchmark!Row
<1>4. RowsOf(c) = {c} /\ Items[c][1] = c
  BY <1>3 DEF RowsOf, Benchmark!Range
<1>5. PICK r \in Benchmark!Attempts(c) :
        /\ b_results' = [j \in DOMAIN b_results \cup {c} |-> IF j = c
             THEN [x \in {c} |-> r] ELSE b_results[j]]
        /\ b_tries' = [b_tries EXCEPT ![c] = @ + (IF b_trace[c].need THEN 1 ELSE 0)]
        /\ b_verdict' = [b_verdict EXCEPT ![c] = Benchmark!Said(r)]
  <2>1. Benchmark!Items[b_worker[w]][1] = c
    BY <1>4, ItemsSame DEF Items
  <2> QED BY <2>1, Zenon DEF Benchmark!Attempt, Benchmark!Put
<1>6. b_tries[c] = 0 /\ b_tries \in [Benchmark!Row -> Nat] /\ DOMAIN b_verdict = Benchmark!Row
  BY <1>2, <1>4 DEF BenchInv, BenchType
<1>7. /\ b_tries'[c] = (IF b_trace[c].need THEN 1 ELSE 0) /\ b_verdict'[c] = Benchmark!Said(r)
      /\ \A i \in Benchmark!Row : i # c => b_tries'[i] = b_tries[i]
           /\ b_verdict'[i] = b_verdict[i]
      /\ b_tries' \in [Benchmark!Row -> Nat]
  BY <1>3, <1>5, <1>6
<1>8. BenchType'
  BY <1>1, <1>5, <1>7 DEF BenchInv, BenchType
<1>9. /\ Finished' = Finished \cup {c} /\ b_results'[c] = [x \in {c} |-> r]
      /\ \A j \in Finished : b_results'[j] = b_results[j]
  BY <1>2, <1>5, PutFacts
<1>10. Fits(c, r, Benchmark!Said(r), b_trace[c].need, IF b_trace[c].need THEN 1 ELSE 0)
  <2>1. RetryLimit \in Nat
    BY DEF Benchmark!BenchmarkAssumption
  <2>2. CASE b_trace[c].need
    <3>1. r \in {Benchmark!Failed(c), Benchmark!TimedOut(c), Benchmark!Completed(c, FALSE),
            Benchmark!Completed(c, TRUE)}
      BY <2>2 DEF Benchmark!Attempts
    <3>2. r.row = c /\ r.status \in {"failed", "timeout", "completed"} /\ r.attempts = 1
      <4>1. Outcome(c, r)
        BY <3>1, OutcomeFacts, Zenon
      <4> QED BY <4>1 DEF Outcome
    <3> QED BY <2>1, <2>2, <3>2 DEF Fits, Benchmark!Said
  <2>3. CASE ~b_trace[c].need
    <3>1. r = [row |-> c, status |-> "skipped", tools |-> FALSE, attempts |-> 1]
      BY <2>3 DEF Benchmark!Attempts, Benchmark!Skipped
    <3> QED BY <2>1, <2>3, <3>1 DEF Fits, Benchmark!Said
  <2> QED BY <2>2, <2>3
<1>11. \A i \in RowsOf(c) :
         Fits(i, b_results'[c][i], b_verdict'[i], b_trace[i].need, b_tries'[i])
  BY <1>4, <1>7, <1>9, <1>10
<1> HIDE DEF c
<1>12. \A i \in Benchmark!Row : i \notin RowsOf(c) => b_tries'[i] = b_tries[i]
         /\ b_verdict'[i] = b_verdict[i]
  BY <1>4, <1>7
<1>13. DOMAIN b_results'[c] = RowsOf(c)
  BY <1>4, <1>9
<1> QED BY <1>1, <1>8, <1>9, <1>11, <1>12, <1>13, JudgedInv DEF c

LEMMA FinishStep ==
  ASSUME Benchmark!BenchmarkAssumption, BenchInv, NEW w \in 1..Concurrency, b_worker[w] # 0,
         NEW answer, NEW outcome, Benchmark!Finish(w, Items[b_worker[w]], answer, outcome),
         DOMAIN outcome = RowsOf(b_worker[w]),
         \A i \in RowsOf(b_worker[w]) :
           \/ outcome[i] = Benchmark!Failed(i)
           \/ /\ outcome[i] \in {Benchmark!Completed(i, t) : t \in BOOLEAN}
              /\ i \in DOMAIN answer /\ answer[i] = "good"
  PROVE  BenchInv'
<1> DEFINE c == b_worker[w]
<1>1. /\ b_worker' = [b_worker EXCEPT ![w] = 0]
      /\ UNCHANGED <<b_mode, b_step, b_trace, b_taken, b_runs, b_cursor, b_passed>>
      /\ b_results' = [j \in DOMAIN b_results \cup {c} |-> IF j = c
           THEN outcome ELSE b_results[j]]
      /\ b_verdict' = [i \in Benchmark!Row |-> IF i \in RowsOf(c) \cap DOMAIN answer
           THEN answer[i] ELSE b_verdict[i]]
      /\ b_tries' = [i \in Benchmark!Row |-> b_tries[i] + (IF i \in RowsOf(c) THEN 1 ELSE 0)]
  BY DEF Benchmark!Finish, Benchmark!Put, RowsOf
<1>2. /\ b_step = "pool" /\ c \in DOMAIN Items /\ c \notin Finished
      /\ RowsOf(c) \subseteq Benchmark!Row /\ \A i \in RowsOf(c) : b_tries[i] = 0
  BY AtItem
<1>3. b_tries \in [Benchmark!Row -> Nat] /\ DOMAIN b_verdict = Benchmark!Row
  BY DEF BenchInv, BenchType
<1>4. BenchType'
  BY <1>1, <1>3 DEF BenchInv, BenchType
<1>5. /\ Finished' = Finished \cup {c} /\ b_results'[c] = outcome
      /\ \A j \in Finished : b_results'[j] = b_results[j]
  BY <1>1, <1>2, PutFacts
<1>6. \A i \in Benchmark!Row : i \notin RowsOf(c) => b_tries'[i] = b_tries[i]
        /\ b_verdict'[i] = b_verdict[i]
  BY <1>1, <1>3
<1>7. ASSUME NEW i \in RowsOf(c)
      PROVE  Fits(i, b_results'[c][i], b_verdict'[i], b_trace[i].need, b_tries'[i])
  <2>1. b_tries'[i] = 1 /\ (i \in DOMAIN answer => b_verdict'[i] = answer[i])
    BY <1>1, <1>2
  <2>2. RetryLimit \in Nat
    BY DEF Benchmark!BenchmarkAssumption
  <2>3. b_results'[c][i] = outcome[i]
    BY <1>5
  <2>4. \A t \in BOOLEAN : /\ Benchmark!Completed(i, t).row = i
                           /\ Benchmark!Completed(i, t).status = "completed"
                           /\ Benchmark!Completed(i, t).attempts = 1
    BY DEF Benchmark!Completed, Benchmark!Failed
  <2>5. /\ Benchmark!Failed(i).row = i /\ Benchmark!Failed(i).status = "failed"
        /\ Benchmark!Failed(i).attempts = 1
    BY DEF Benchmark!Failed
  <2> QED BY <2>1, <2>2, <2>3, <2>4, <2>5 DEF Fits
<1>8. DOMAIN b_results'[c] = RowsOf(c)
  BY <1>5
<1> HIDE DEF c
<1> QED BY <1>1, <1>4, <1>5, <1>6, <1>7, <1>8, JudgedInv DEF c

LEMMA JudgeStep ==
  ASSUME Benchmark!BenchmarkAssumption, BenchInv, NEW w \in 1..Concurrency,
         Benchmark!JudgeBatch(w) \/ Benchmark!JudgeSufficiency(w)
  PROVE  BenchInv'
<1> DEFINE chunk == Items[b_worker[w]]
<1>1. Benchmark!Range(chunk) = RowsOf(b_worker[w]) /\ b_worker[w] # 0
  BY DEF RowsOf, Benchmark!JudgeBatch, Benchmark!JudgeSufficiency
<1>2. ASSUME Benchmark!Finish(w, chunk, <<>>, Benchmark!Unanswered(chunk)) PROVE BenchInv'
  BY <1>1, <1>2, FinishStep DEF Benchmark!Unanswered
<1>3. ASSUME NEW answer \in Benchmark!Answers, NEW t \in BOOLEAN,
             Benchmark!Finish(w, chunk, answer, Benchmark!BatchJudged(chunk, answer, t))
      PROVE  BenchInv'
  BY <1>1, <1>3, FinishStep DEF Benchmark!BatchJudged
<1>4. ASSUME NEW answer \in Benchmark!Answers, NEW t \in BOOLEAN,
             Benchmark!Finish(w, chunk, answer, Benchmark!SufficiencyJudged(chunk, answer, t))
      PROVE  BenchInv'
  BY <1>1, <1>4, FinishStep DEF Benchmark!SufficiencyJudged
<1>5. Benchmark!Items[b_worker[w]] = chunk
  BY ItemsSame DEF Items
<1> HIDE DEF chunk
<1> QED BY <1>2, <1>3, <1>4, <1>5, Zenon DEF Benchmark!JudgeBatch, Benchmark!JudgeSufficiency

LEMMA CollectStep ==
  ASSUME Benchmark!BenchmarkAssumption, BenchInv, Benchmark!Collect
  PROVE  BenchInv'
<1>1. /\ b_step = "pool" /\ \A w \in 1..Concurrency : b_worker[w] = 0
      /\ b_runs' = [i \in Benchmark!Row |-> Benchmark!Assembled(i)]
      /\ b_step' = IF b_mode = "branch" THEN "retry" ELSE "report"
      /\ UNCHANGED <<b_mode, b_trace, b_taken, b_worker, b_results, b_cursor, b_tries,
           b_verdict, b_passed>>
  BY DEF Benchmark!Collect, BenchInv, BenchType
<1>2. BenchType' /\ TraceInv'
  BY <1>1 DEF BenchInv, BenchType, TraceInv
<1>3. UntriedInv' /\ WorkersInv' /\ ResultsInv'
  BY <1>1 DEF UntriedInv, WorkersInv, ResultsInv
<1>4. ASSUME NEW i \in Benchmark!Row PROVE RunOf(i, Benchmark!Assembled(i))
  <2> DEFINE of == {k \in DOMAIN b_results : i \in DOMAIN b_results[k]}
  <2>1. \A k \in Finished : DOMAIN b_results[k] = RowsOf(k)
          /\ \A j \in RowsOf(k) : RunOf(j, b_results[k][j])
    BY <1>1 DEF BenchInv, ResultsInv
  <2>2. CASE of = {}
    <3>1. \A k \in Finished : i \notin RowsOf(k)
      BY <2>1, <2>2 DEF Finished
    <3>2. b_tries[i] = 0 /\ b_runs[i] = Benchmark!Skipped(i)
      BY <1>1, <3>1 DEF BenchInv, UntriedInv
    <3>3. Benchmark!Assembled(i) = Benchmark!Skipped(i)
      BY <2>2, <3>2 DEF Benchmark!Assembled
    <3>4. RetryLimit \in Nat
      BY DEF Benchmark!BenchmarkAssumption
    <3> QED BY <3>2, <3>3, <3>4 DEF RunOf, Fits, Benchmark!Skipped
  <2>3. CASE of # {}
    <3> DEFINE k == CHOOSE x \in of : TRUE
    <3>1. k \in of
      BY <2>3
    <3>2. Benchmark!Assembled(i) = b_results[k][i]
      BY <2>3 DEF Benchmark!Assembled
    <3> HIDE DEF k
    <3>3. k \in Finished /\ i \in RowsOf(k)
      BY <2>1, <3>1 DEF Finished
    <3> QED BY <2>1, <3>2, <3>3
  <2> QED BY <2>2, <2>3
<1>5. \A i \in Benchmark!Row : RunOf(i, b_runs[i])'
  BY <1>1, <1>4 DEF RunOf
<1>6. b_cursor' = 1 /\ \A i \in Benchmark!Row : ~(i < 1)
  <2>1. b_cursor = 1
    BY <1>1 DEF BenchInv, UntriedInv
  <2>2. \A i \in 1..Rows : ~(i < 1)
    BY DEF Benchmark!BenchmarkAssumption
  <2> QED BY <1>1, <2>1, <2>2 DEF Benchmark!Row
<1>7. ReportInv'
  BY <1>1, <1>5, <1>6 DEF ReportInv
<1> QED BY <1>2, <1>3, <1>7 DEF BenchInv

LEMMA RetryStep ==
  ASSUME Benchmark!BenchmarkAssumption, BenchInv, Benchmark!Retry
  PROVE  BenchInv'
<1> DEFINE c == b_cursor
<1>1. /\ b_step = "retry" /\ c <= Rows /\ b_runs[c].status = "timeout"
           /\ b_runs[c].attempts <= RetryLimit
      /\ UNCHANGED <<b_mode, b_step, b_trace, b_taken, b_worker, b_results, b_cursor, b_passed>>
      /\ b_tries' = [b_tries EXCEPT ![c] = @ + 1]
  BY DEF Benchmark!Retry, Benchmark!Retryable
<1>2. PICK r \in Benchmark!Attempts(c) :
        /\ b_runs' = [b_runs EXCEPT ![c] = [r EXCEPT !.attempts = b_runs[c].attempts + 1]]
        /\ b_verdict' = [b_verdict EXCEPT ![c] = Benchmark!Said(r)]
  BY Zenon DEF Benchmark!Retry
<1>3. /\ c \in Benchmark!Row /\ RetryLimit \in Nat /\ b_tries \in [Benchmark!Row -> Nat]
      /\ DOMAIN b_verdict = Benchmark!Row /\ DOMAIN b_runs = Benchmark!Row
  BY <1>1 DEF BenchInv, BenchType, Benchmark!Row, Benchmark!BenchmarkAssumption
<1>4. RunOf(c, b_runs[c])
  BY <1>1, <1>3 DEF BenchInv, ReportInv
<1>5. b_trace[c].need /\ b_runs[c].attempts = b_tries[c] /\ b_tries[c] \in Nat
  BY <1>1, <1>3, <1>4 DEF RunOf, Fits
<1>6. r \in {Benchmark!Failed(c), Benchmark!TimedOut(c), Benchmark!Completed(c, FALSE),
        Benchmark!Completed(c, TRUE)}
  BY <1>5 DEF Benchmark!Attempts
<1>7. \A i \in Benchmark!Row :
        i # c => b_tries'[i] = b_tries[i] /\ b_verdict'[i] = b_verdict[i]
          /\ b_runs'[i] = b_runs[i]
  BY <1>1, <1>2, <1>3
<1>8. /\ b_tries'[c] = b_tries[c] + 1 /\ b_verdict'[c] = Benchmark!Said(r)
      /\ b_runs'[c] = [r EXCEPT !.attempts = b_tries[c] + 1]
      /\ b_tries' \in [Benchmark!Row -> Nat]
  BY <1>1, <1>2, <1>3, <1>5
<1>9. RunOf(c, b_runs[c])'
  <2>1. b_tries[c] + 1 <= 1 + RetryLimit
    BY <1>1, <1>3, <1>5
  <2>2. Fits(c, [r EXCEPT !.attempts = b_tries[c] + 1], Benchmark!Said(r), b_trace[c].need,
          b_tries[c] + 1)
    <3> DEFINE z == [r EXCEPT !.attempts = b_tries[c] + 1]
    <3>1. /\ r.row = c /\ r.status \in {"failed", "timeout", "completed"}
          /\ r = [row |-> c, status |-> r.status, tools |-> r.tools, attempts |-> 1]
      <4>1. Outcome(c, r)
        BY <1>6, OutcomeFacts, Zenon
      <4> QED BY <4>1 DEF Outcome
    <3>2. z.row = c /\ z.status = r.status /\ z.attempts = b_tries[c] + 1
      BY <3>1
    <3> HIDE DEF z
    <3>3. Fits(c, z, Benchmark!Said(r), b_trace[c].need, b_tries[c] + 1)
      BY <1>5, <2>1, <3>1, <3>2 DEF Fits, Benchmark!Said
    <3> QED BY <3>3 DEF z
  <2> QED BY <1>1, <1>8, <2>2 DEF RunOf
<1>10. BenchType'
  BY <1>1, <1>2, <1>3, <1>8 DEF BenchInv, BenchType
<1>11. TraceInv' /\ UntriedInv' /\ WorkersInv' /\ ResultsInv'
  BY <1>1 DEF BenchInv, TraceInv, UntriedInv, WorkersInv, ResultsInv
<1>12. \A i \in Benchmark!Row : RunOf(i, b_runs[i])'
  BY <1>1, <1>7, <1>9 DEF BenchInv, ReportInv, RunOf
<1>13. b_mode = "branch" /\ \A i \in Benchmark!Row : i < c => GaveUp(i)'
  <2>1. b_mode = "branch" /\ \A i \in Benchmark!Row : i < c => GaveUp(i)
    BY <1>1 DEF BenchInv, ReportInv
  <2>2. \A i \in Benchmark!Row : i < c => i # c
    BY DEF Benchmark!Row
  <2> QED BY <1>1, <1>7, <2>1, <2>2 DEF GaveUp, Benchmark!Retryable
<1>14. ReportInv'
  BY <1>1, <1>12, <1>13 DEF ReportInv
<1> QED BY <1>10, <1>11, <1>14 DEF BenchInv

LEMMA NextRowStep ==
  ASSUME Benchmark!BenchmarkAssumption, BenchInv, Benchmark!NextRow
  PROVE  BenchInv'
<1> DEFINE c == b_cursor
<1>1. /\ b_step = "retry"
      /\ UNCHANGED <<b_mode, b_trace, b_taken, b_worker, b_results, b_runs, b_tries, b_verdict,
           b_passed>>
      /\ \/ /\ c <= Rows /\ ~(Benchmark!Retryable(c) /\ b_runs[c].attempts <= RetryLimit)
            /\ b_cursor' = c + 1 /\ b_step' = b_step
         \/ c > Rows /\ b_step' = "report" /\ b_cursor' = c
  BY DEF Benchmark!NextRow
<1>2. c \in Nat \ {0} /\ RetryLimit \in Nat /\ Rows \in Nat
        /\ b_tries \in [Benchmark!Row -> Nat]
  BY DEF BenchInv, BenchType, Benchmark!BenchmarkAssumption
<1>3. BenchType'
  BY <1>1, <1>2 DEF BenchInv, BenchType
<1>4. TraceInv' /\ UntriedInv' /\ WorkersInv' /\ ResultsInv'
  BY <1>1 DEF BenchInv, TraceInv, UntriedInv, WorkersInv, ResultsInv
<1>5. /\ b_mode = "branch" /\ \A i \in Benchmark!Row : RunOf(i, b_runs[i])
      /\ \A i \in Benchmark!Row : i < c => GaveUp(i)
  BY <1>1 DEF BenchInv, ReportInv
<1>6. \A i \in Benchmark!Row : RunOf(i, b_runs[i])' /\ (GaveUp(i) => GaveUp(i)')
  BY <1>1, <1>5 DEF RunOf, GaveUp, Benchmark!Retryable
<1>7. c \in Benchmark!Row /\ ~(Benchmark!Retryable(c) /\ b_runs[c].attempts <= RetryLimit) =>
        GaveUp(c)
  <2> SUFFICES ASSUME c \in Benchmark!Row, Benchmark!Retryable(c),
    ~(b_runs[c].attempts <= RetryLimit)
               PROVE  b_tries[c] = 1 + RetryLimit
    BY DEF GaveUp
  <2>1. b_runs[c].attempts = b_tries[c] /\ b_tries[c] <= 1 + RetryLimit
    BY <1>5 DEF RunOf, Fits, Benchmark!Retryable
  <2> QED BY <1>2, <2>1
<1>8. CASE c <= Rows
  <2>1. \A i \in Benchmark!Row : i < c + 1 => GaveUp(i)
    BY <1>1, <1>2, <1>5, <1>7, <1>8 DEF Benchmark!Row
  <2> QED BY <1>1, <1>2, <1>3, <1>4, <1>5, <1>6, <1>8, <2>1 DEF BenchInv, ReportInv
<1>9. CASE c > Rows
  <2>1. \A i \in Benchmark!Row : GaveUp(i)
    BY <1>2, <1>5, <1>9 DEF Benchmark!Row
  <2> QED BY <1>1, <1>2, <1>3, <1>4, <1>5, <1>6, <1>9, <2>1 DEF BenchInv, ReportInv
<1> QED BY <1>2, <1>8, <1>9

LEMMA ReportStep ==
  ASSUME BenchInv, Benchmark!Report
  PROVE  BenchInv'
<1>1. /\ b_step = "report" /\ b_step' = "done"
      /\ b_passed' = [i \in Benchmark!Row |-> Benchmark!Violations(i) = {}]
      /\ UNCHANGED <<b_mode, b_trace, b_taken, b_worker, b_results, b_runs, b_cursor, b_tries,
           b_verdict>>
  BY DEF Benchmark!Report
<1>2. BenchType' /\ TraceInv' /\ UntriedInv' /\ WorkersInv' /\ ResultsInv'
  BY <1>1 DEF BenchInv, BenchType, TraceInv, UntriedInv, WorkersInv, ResultsInv
<1>3. \A i \in Benchmark!Row : RunOf(i, b_runs[i])' /\ (b_mode = "branch" => GaveUp(i)')
  BY <1>1 DEF BenchInv, ReportInv, RunOf, GaveUp, Benchmark!Retryable
<1>4. b_passed' = [i \in Benchmark!Row |-> Benchmark!Violations(i)' = {}]
  <2>1. \A i \in Benchmark!Row : Benchmark!Violations(i)' = Benchmark!Violations(i)
    BY <1>1 DEF Benchmark!Violations
  <2> QED BY <1>1, <2>1
<1> QED BY <1>1, <1>2, <1>3, <1>4 DEF BenchInv, ReportInv

LEMMA BenchNext == Benchmark!BenchmarkAssumption /\ BenchInv /\ Benchmark!Next => BenchInv'
<1> SUFFICES ASSUME Benchmark!BenchmarkAssumption, BenchInv, Benchmark!Next PROVE BenchInv'
  OBVIOUS
<1>1. ASSUME NEW m \in {"none", "branch", "judgement", "sufficiency"}, NEW session \in BOOLEAN,
             NEW flight \in BOOLEAN, NEW service \in BOOLEAN,
               Benchmark!Begin(m, session, flight, service)
      PROVE  BenchInv'
  BY <1>1, BenchBegin
<1>2. CASE Benchmark!Session \/ Benchmark!TraceRow
  BY <1>2, SessionStep, TraceRowStep
<1>3. ASSUME NEW w \in 1..Concurrency,
             Benchmark!Take(w) \/ Benchmark!Attempt(w) \/ Benchmark!JudgeBatch(w)
               \/ Benchmark!JudgeSufficiency(w)
      PROVE  BenchInv'
  BY <1>3, TakeStep, AttemptStep, JudgeStep
<1>4. CASE Benchmark!Collect \/ Benchmark!Retry \/ Benchmark!NextRow \/ Benchmark!Report
  BY <1>4, CollectStep, RetryStep, NextRowStep, ReportStep
<1> QED BY <1>1, <1>2, <1>3, <1>4 DEF Benchmark!Next

-----------------------------------------------------------------------------
(* The view of a run. The graph shows what the callback was told, or the    *)
(* trace at the end of a run that does not stream.                          *)

Shown == {"none", "pending", "active", "done", "error"}
Events == [node : Nodes, status : Statuses]
Messages == [status : {"none", "running", "interrupted", "failed", "completed"},
             success : BOOLEAN]
Graphs == [Nodes -> Shown]

ViewType ==
  /\ v_trace \in Seq(Events) /\ v_pipe \in Seq(Events)
  /\ v_queue \in Seq(Events) /\ v_handled \in Seq(Events)
  /\ v_graph \in Graphs /\ v_checkpoint \in [Nodes -> Statuses \cup {"none"}]
  /\ v_stream \in BOOLEAN /\ v_streamed \in BOOLEAN
  /\ v_threw \in BOOLEAN /\ v_message \in Messages
  /\ v_result \in {"none", "interrupted", "failure", "error", "success"}

(* An event is in one place: handled, in the queue of the callback, in the  *)
(* pipe, and all of the trace lies in them in the order the process wrote   *)
(* it.  Once a handler threw, no more are handled.                          *)
EventsInv ==
  /\ v_phase \in {"idle", "started", "status", "spawn"} =>
       v_trace = <<>> /\ v_handled = <<>> /\ v_queue = <<>> /\ v_pipe = <<>> /\ ~v_streamed
         /\ ~v_threw
  /\ View!IsPrefix(v_handled, v_trace)
  /\ IF v_stream
       THEN /\ ~v_threw => v_trace = (v_handled \o v_queue) \o v_pipe
            /\ ~v_streamed => v_handled = <<>> /\ v_queue = <<>> /\ ~v_threw
       ELSE /\ v_queue = <<>> /\ v_pipe = <<>> /\ ~v_streamed /\ ~v_threw
            /\ v_handled # <<>> => v_result # "none"
  /\ v_phase = "drain" => v_pipe = <<>>
  /\ v_result \in {"success", "failure"} => v_queue = <<>> /\ v_handled = View!Told /\ ~v_threw
  /\ v_result = "error" => v_message.status = "failed"
  /\ v_phase \in {"ended", "done"} <=> v_result # "none"
  /\ v_message.success => v_result = "success"

KnownOf(n, s) == {i \in DOMAIN s : s[i].node = n /\ s[i].status \in DOMAIN View!GraphStatus}
(* What a node is shown as after the events of s: by the last that has a    *)
(* name, or else by the checkpoint.                                         *)
ShownBy(n, s) ==
  IF KnownOf(n, s) # {} THEN View!GraphStatus[s[View!Max(KnownOf(n, s))].status]
  ELSE IF v_checkpoint[n] \in DOMAIN View!GraphStatus THEN View!GraphStatus[v_checkpoint[n]]
  ELSE "pending"

GraphInv ==
  /\ v_phase \in {"idle", "started", "status"} => v_checkpoint = [n \in Nodes |-> "none"]
  /\ v_phase = "status" => v_graph = View!Drawn
  /\ v_phase \in {"spawn", "run", "drain"} \/ v_result = "success" =>
       \A n \in Nodes : v_graph[n] = ShownBy(n, v_handled)
ViewInv == ViewType /\ EventsInv /\ GraphInv

LEMMA ShownStatus == \A s \in DOMAIN View!GraphStatus : View!GraphStatus[s] \in Shown
BY DEF View!GraphStatus, Shown

LEMMA MessageKept == \A m \in Messages :
  /\ View!WithError(m) \in Messages /\ View!WithError(m).success = m.success
  /\ View!WithError(m).status = "failed"
BY DEF View!WithError, Messages

LEMMA NodeSet == \A g \in Graphs, e \in Events :
         /\ View!SetNodeStatus(g, e) \in Graphs
         /\ \A n \in Nodes : View!SetNodeStatus(g, e)[n] =
              IF e.node = n /\ e.status \in DOMAIN View!GraphStatus
              THEN View!GraphStatus[e.status] ELSE g[n]
BY ShownStatus DEF Events, Graphs, View!SetNodeStatus

(* The statuses of a trace are set one by one.                              *)
LEMMA TraceApplied ==
  ASSUME NEW h \in Graphs, NEW t \in Seq(Events)
  PROVE  \E run \in [0..Len(t) -> Graphs] :
           /\ run[0] = h /\ run[Len(t)] = View!FoldLeft(View!SetNodeStatus, h, t)
           /\ \A k \in 1..Len(t) : run[k] = View!SetNodeStatus(run[k - 1], t[k])
<1> DEFINE n == Len(t)
           Iter(f) == f = [S \in SUBSET DOMAIN t |->
                             IF S = {} THEN h
                             ELSE View!SetNodeStatus(f[S \ {TopOf(S)}], t[TopOf(S)])]
           it == CHOOSE f : Iter(f)
           step == [p \in Graphs \X (1..n) |-> View!SetNodeStatus(p[1], t[p[2]])]
<1>1. DOMAIN t = 1..n /\ n \in Nat /\ \A k \in 1..n : t[k] \in Events
  OBVIOUS
<1>2. View!FoldLeft(View!SetNodeStatus, h, t) = it[DOMAIN t]
  BY DEF View!FoldLeft, View!MapThenFoldSet, View!Max, TopOf
<1>3. step \in [Graphs \X (1..n) -> Graphs]
  BY <1>1, NodeSet
<1>4. Iter(it)
  <2>1. PICK f : IsFold(f, n, Graphs, h, step)
    <3> HIDE DEF step
    <3> QED BY <1>1, <1>3, FoldExists DEF HasFold
  <2>2. ASSUME NEW S \in SUBSET (1..n), S # {}
        PROVE  f[S] = View!SetNodeStatus(f[S \ {TopOf(S)}], t[TopOf(S)])
    <3>1. TopOf(S) \in 1..n
      BY <1>1, <2>2, TopOfSet
    <3>2. f[S \ {TopOf(S)}] \in Graphs
      BY <2>1 DEF IsFold
    <3> QED BY <2>1, <2>2, <3>1, <3>2 DEF IsFold
  <2>3. Iter(f)
    BY <1>1, <2>1, <2>2 DEF IsFold
  <2> HIDE DEF Iter
  <2> QED BY <2>3
<1> HIDE DEF it
<1>5. Unfolds(it, n, Graphs, h, step)
  <2>1. ASSUME NEW T \in SUBSET (1..n), T # {}, it[T \ {TopOf(T)}] \in Graphs
        PROVE  it[T] = step[<<it[T \ {TopOf(T)}], TopOf(T)>>]
    <3>1. TopOf(T) \in 1..n
      BY <1>1, <2>1, TopOfSet
    <3>2. it[T] = View!SetNodeStatus(it[T \ {TopOf(T)}], t[TopOf(T)])
      BY <1>1, <1>4, <2>1
    <3> QED BY <2>1, <3>1, <3>2
  <2>2. it[{}] = h
    BY <1>4
  <2> HIDE DEF step
  <2> QED BY <2>1, <2>2 DEF Unfolds
<1>6. HasRun(it, n, Graphs, h, step)
  <2> HIDE DEF step
  <2> QED BY <1>1, <1>3, <1>5, FoldRun
<1>7. PICK run \in [0..n -> Graphs] : /\ run[0] = h /\ run[n] = it[1..n]
                                      /\ \A k \in 1..n : run[k] = step[<<run[k - 1], k>>]
  <2> HIDE DEF step
  <2> QED BY <1>6 DEF HasRun
<1>8. \A k \in 1..n : run[k] = View!SetNodeStatus(run[k - 1], t[k])
  <2>1. \A k \in 1..n : run[k - 1] \in Graphs
    OBVIOUS
  <2> QED BY <1>7, <2>1
<1> QED BY <1>1, <1>2, <1>7, <1>8

LEMMA LastKnown ==
  ASSUME NEW S, NEW s \in Seq(Events), NEW n \in Nodes, S = KnownOf(n, s), S # {}
  PROVE  View!Max(S) \in S /\ \A i \in S : i <= View!Max(S)
<1>1. S \in SUBSET (1..Len(s)) /\ Len(s) \in Nat
  BY DEF KnownOf
<1>2. PICK m \in S : \A k \in S : m >= k
  BY <1>1, Greatest
<1>3. View!Max(S) \in S /\ \A i \in S : View!Max(S) >= i
  BY <1>2 DEF View!Max
<1> QED BY <1>1, <1>3

LEMMA ShownNext == \A s \in Seq(Events), e \in Events, n \in Nodes :
  ShownBy(n, Append(s, e)) = IF e.node = n /\ e.status \in DOMAIN View!GraphStatus
                             THEN View!GraphStatus[e.status] ELSE ShownBy(n, s)
<1> SUFFICES ASSUME NEW s \in Seq(Events), NEW e \in Events, NEW n \in Nodes
             PROVE  ShownBy(n, Append(s, e)) =
                      IF e.node = n /\ e.status \in DOMAIN View!GraphStatus
                      THEN View!GraphStatus[e.status] ELSE ShownBy(n, s)
  OBVIOUS
<1> DEFINE t == Append(s, e)
           known == e.node = n /\ e.status \in DOMAIN View!GraphStatus
<1>1. /\ t \in Seq(Events) /\ Len(t) = Len(s) + 1 /\ Len(s) \in Nat
      /\ t[Len(s) + 1] = e /\ \A i \in 1..Len(s) : t[i] = s[i]
      /\ DOMAIN s = 1..Len(s) /\ DOMAIN t = 1..(Len(s) + 1)
  OBVIOUS
<1> HIDE DEF t
<1>2. CASE known
  <2>1. Len(s) + 1 \in KnownOf(n, t) /\ \A i \in KnownOf(n, t) : i \in 1..(Len(s) + 1)
    BY <1>1, <1>2 DEF KnownOf
  <2>2. View!Max(KnownOf(n, t)) \in KnownOf(n, t)
        /\ \A i \in KnownOf(n, t) : i <= View!Max(KnownOf(n, t))
    BY <1>1, <2>1, LastKnown
  <2>3. View!Max(KnownOf(n, t)) = Len(s) + 1
    BY <1>1, <2>1, <2>2
  <2>4. ShownBy(n, t) = View!GraphStatus[t[Len(s) + 1].status]
    BY <2>1, <2>3 DEF ShownBy
  <2> QED BY <1>1, <1>2, <2>4 DEF t
<1>3. CASE ~known
  <2>1. KnownOf(n, t) = KnownOf(n, s)
    BY <1>1, <1>3 DEF KnownOf
  <2>2. CASE KnownOf(n, s) # {}
    <3>1. View!Max(KnownOf(n, s)) \in 1..Len(s)
      BY <1>1, <2>2, LastKnown DEF KnownOf
    <3> QED BY <1>1, <1>3, <2>1, <2>2, <3>1 DEF ShownBy, t
  <2>3. CASE KnownOf(n, s) = {}
    BY <1>3, <2>1, <2>3 DEF ShownBy, t
  <2> QED BY <2>2, <2>3
<1> QED BY <1>2, <1>3

LEMMA ShownSame == UNCHANGED <<v_checkpoint, v_handled>> =>
                     \A n \in Nodes : ShownBy(n, v_handled)' = ShownBy(n, v_handled)
BY DEF ShownBy, KnownOf

LEMMA ToldSame == UNCHANGED <<v_stream, v_report, v_trace>> => View!Told' = View!Told
BY DEF View!Told

LEMMA GraphKept ==
  ASSUME GraphInv, UNCHANGED <<v_graph, v_checkpoint, v_handled>>,
         v_phase' \in {"idle", "started", "status"} =>
           v_phase \in {"idle", "started", "status"},
         v_phase' = "status" => v_phase = "status",
         v_phase' \in {"spawn", "run", "drain"} \/ v_result' = "success" =>
           v_phase \in {"spawn", "run", "drain"} \/ v_result = "success"
  PROVE  GraphInv'
<1>1. \A n \in Nodes : ShownBy(n, v_handled)' = ShownBy(n, v_handled)
  BY ShownSame
<1>2. v_phase' = "status" => v_graph' = View!Drawn'
  BY DEF GraphInv, View!Drawn
<1> QED BY <1>1, <1>2 DEF GraphInv

(* Setting them one by one shows each node by the last of its events.       *)
LEMMA TraceShown ==
  ASSUME NEW t \in Seq(Events), NEW g \in Graphs, \A n \in Nodes : g[n] = ShownBy(n, <<>>)
  PROVE  /\ View!FoldLeft(View!SetNodeStatus, g, t) \in Graphs
         /\ \A n \in Nodes : View!FoldLeft(View!SetNodeStatus, g, t)[n] = ShownBy(n, t)
<1> DEFINE m == Len(t)
<1>1. PICK run \in [0..m -> Graphs] :
        /\ run[0] = g /\ run[m] = View!FoldLeft(View!SetNodeStatus, g, t)
        /\ \A k \in 1..m : run[k] = View!SetNodeStatus(run[k - 1], t[k])
  BY TraceApplied
<1> DEFINE S == {k \in Nat : k <= m => \A n \in Nodes : run[k][n] = ShownBy(n, SubSeq(t, 1, k))}
<1>2. m \in Nat /\ \A k \in 1..m : t[k] \in Events
  OBVIOUS
<1>3. 0 \in S
  <2>1. SubSeq(t, 1, 0) = <<>>
    BY SubSeqEmpty
  <2> QED BY <1>1, <2>1
<1>4. ASSUME NEW k \in S PROVE k + 1 \in S
  <2> SUFFICES ASSUME k + 1 <= m, NEW n \in Nodes
               PROVE  run[k + 1][n] = ShownBy(n, SubSeq(t, 1, k + 1))
    OBVIOUS
  <2>1. k + 1 \in 1..m /\ (k + 1) - 1 = k /\ k \in 0..m
    BY <1>2
  <2>2. run[k + 1] = View!SetNodeStatus(run[k], t[k + 1]) /\ run[k] \in Graphs
          /\ t[k + 1] \in Events
    BY <1>1, <1>2, <2>1
  <2>3. run[k][n] = ShownBy(n, SubSeq(t, 1, k))
    BY <1>2, <2>1
  <2>4. SubSeq(t, 1, k) \in Seq(Events)
          /\ SubSeq(t, 1, k + 1) = Append(SubSeq(t, 1, k), t[k + 1])
    BY <1>2, <2>1
  <2>5. ShownBy(n, SubSeq(t, 1, k + 1)) =
          IF t[k + 1].node = n /\ t[k + 1].status \in DOMAIN View!GraphStatus
          THEN View!GraphStatus[t[k + 1].status] ELSE ShownBy(n, SubSeq(t, 1, k))
    <3> DEFINE q == SubSeq(t, 1, k)
               e == t[k + 1]
    <3>1. q \in Seq(Events) /\ e \in Events /\ SubSeq(t, 1, k + 1) = Append(q, e)
      BY <2>2, <2>4
    <3> HIDE DEF q, e, S
    <3>2. ShownBy(n, Append(q, e)) = IF e.node = n /\ e.status \in DOMAIN View!GraphStatus
                                     THEN View!GraphStatus[e.status] ELSE ShownBy(n, q)
      BY <3>1, ShownNext, Zenon
    <3> QED BY <3>1, <3>2 DEF q, e
  <2>6. run[k + 1][n] =
          IF t[k + 1].node = n /\ t[k + 1].status \in DOMAIN View!GraphStatus
          THEN View!GraphStatus[t[k + 1].status] ELSE run[k][n]
    <3> DEFINE g1 == run[k]
               e == t[k + 1]
    <3>1. g1 \in Graphs /\ e \in Events /\ run[k + 1] = View!SetNodeStatus(g1, e)
      BY <2>2
    <3> HIDE DEF g1, e, S
    <3>2. View!SetNodeStatus(g1, e)[n] =
            IF e.node = n /\ e.status \in DOMAIN View!GraphStatus
            THEN View!GraphStatus[e.status] ELSE g1[n]
      BY <3>1, NodeSet, Zenon
    <3> QED BY <3>1, <3>2 DEF g1, e
  <2> QED BY <2>3, <2>5, <2>6
<1> HIDE DEF S, m
<1>5. m \in S
  <2>1. S \in SUBSET Nat
    BY DEF S
  <2> QED BY <1>2, <1>3, <1>4, <2>1, Induction
<1>6. SubSeq(t, 1, m) = t
  BY SubSeqFull DEF m
<1>7. run[m] \in Graphs
  BY <1>1, <1>2
<1>8. \A n \in Nodes : run[m][n] = ShownBy(n, t)
  <2>1. m <= m
    BY <1>2
  <2> QED BY <1>5, <1>6, <2>1, Zenon DEF S
<1> QED BY <1>1, <1>7, <1>8

LEMMA Associative == \A p, q, r \in Seq(Events) : (p \o q) \o r = p \o (q \o r)
BY ConcatAssociative

LEMMA PrefixConcat == \A p, q \in Seq(Events) : View!IsPrefix(p, p \o q)
<1> SUFFICES ASSUME NEW p \in Seq(Events), NEW q \in Seq(Events)
             PROVE  View!IsPrefix(p, p \o q)
  OBVIOUS
<1>1. /\ Len(p) <= Len(p \o q)
      /\ SubSeq(p \o q, 1, Len(p)) = SubSeq(p, 1, Len(p))
  OBVIOUS
<1> QED BY <1>1 DEF View!IsPrefix

LEMMA PrefixAppend ==
  ASSUME NEW p \in Seq(Events), NEW t \in Seq(Events), NEW e \in Events, View!IsPrefix(p, t)
  PROVE  View!IsPrefix(p, Append(t, e))
<1>1. /\ Len(p) \in Nat /\ Len(t) \in Nat /\ Len(p) <= Len(t)
      /\ SubSeq(p, 1, Len(p)) = SubSeq(t, 1, Len(p))
  BY DEF View!IsPrefix
<1>2. /\ Len(Append(t, e)) = Len(t) + 1
      /\ SubSeq(Append(t, e), 1, Len(p)) = SubSeq(t, 1, Len(p))
  BY <1>1
<1> QED BY <1>1, <1>2 DEF View!IsPrefix

LEMMA PrefixCut ==
  ASSUME NEW t \in Seq(Events), NEW n \in 0..Len(t)
  PROVE  SubSeq(t, 1, n) \in Seq(Events) /\ View!IsPrefix(SubSeq(t, 1, n), t)
<1>1. Len(t) \in Nat /\ n \in Nat /\ n <= Len(t)
  OBVIOUS
<1>2. /\ SubSeq(t, 1, n) \in Seq(Events) /\ Len(SubSeq(t, 1, n)) = n
      /\ SubSeq(SubSeq(t, 1, n), 1, n) = SubSeq(t, 1, n)
  BY <1>1
<1> QED BY <1>1, <1>2 DEF View!IsPrefix

LEMMA PrefixEmpty == View!IsPrefix(<<>>, <<>>)
BY DEF View!IsPrefix

(* Events of the report are applied to a graph no streamed event changed.   *)
LEMMA ReportApplied ==
  ASSUME ViewInv, v_phase = "drain", v_queue = <<>>, NEW n \in 0..Len(View!Reported),
         View!ReportShows(n)
  PROVE  /\ v_graph' \in Graphs /\ v_handled' \in Seq(Events)
         /\ View!IsPrefix(v_handled', v_trace)
         /\ v_stream => v_handled' = v_handled
         /\ n = Len(View!Reported) /\ ~v_threw =>
              v_handled' = View!Told /\ \A m \in Nodes : v_graph'[m] = ShownBy(m, v_handled')
<1> DEFINE t == SubSeq(View!Reported, 1, n)
<1>1. /\ v_trace \in Seq(Events) /\ v_handled \in Seq(Events) /\ v_graph \in Graphs
      /\ View!IsPrefix(v_handled, v_trace) /\ v_pipe = <<>> /\ v_result = "none"
      /\ \A m \in Nodes : v_graph[m] = ShownBy(m, v_handled)
  BY DEF ViewInv, ViewType, EventsInv, GraphInv
<1>2. /\ v_graph' = View!FoldLeft(View!SetNodeStatus, v_graph, t)
      /\ v_handled' = v_handled \o t
  BY DEF View!ReportShows
<1>3. /\ ~v_stream => v_handled = <<>> /\ ~v_streamed
      /\ ~v_streamed => v_handled = <<>>
      /\ v_stream /\ ~v_threw => v_handled = v_trace
      /\ v_stream => View!Reported = <<>>
  BY <1>1 DEF ViewInv, EventsInv, View!Reported
<1>4. CASE View!Reported = <<>>
  <2>1. n = 0 /\ t = <<>>
    <3>1. n = 0
      BY <1>4
    <3> QED BY <1>4, <3>1, SubSeqEmpty
  <2>2. v_handled' = v_handled /\ v_graph' = v_graph
    <3>1. PICK run \in [0..Len(t) -> Graphs] :
            run[0] = v_graph /\ run[Len(t)] = View!FoldLeft(View!SetNodeStatus, v_graph, t)
      <4>1. t \in Seq(Events)
        BY <2>1
      <4> HIDE DEF t
      <4> QED BY <1>1, <4>1, TraceApplied
    <3>2. Len(t) = 0 /\ v_handled \o t = v_handled
      BY <1>1, <2>1
    <3> QED BY <1>2, <3>1, <3>2
  <2>3. ~v_threw => v_handled = View!Told
    BY <1>1, <1>3, <1>4 DEF View!Told, View!Reported
  <2> QED BY <1>1, <2>2, <2>3
<1>5. CASE View!Reported # <<>>
  <2>1. ~v_stream /\ View!Reported = v_trace /\ v_handled = <<>> /\ View!Told = v_trace
    BY <1>3, <1>5 DEF View!Reported, View!Told
  <2>2. t \in Seq(Events) /\ View!IsPrefix(t, v_trace) /\ (n = Len(v_trace) => t = v_trace)
    BY <1>1, <2>1, PrefixCut, SubSeqFull
  <2> HIDE DEF t
  <2>3. v_handled' = t
    BY <1>2, <2>1, <2>2
  <2>4. v_graph' \in Graphs /\ \A m \in Nodes : v_graph'[m] = ShownBy(m, t)
    BY <1>1, <1>2, <2>1, <2>2, TraceShown
  <2> QED BY <2>1, <2>2, <2>3, <2>4
<1> QED BY <1>4, <1>5

(* An event that is applied leaves the queue for the graph.                 *)
LEMMA EventApplied ==
  ASSUME ViewInv, v_queue # <<>>, ~v_threw, View!Apply(Head(v_queue)), v_queue' = Tail(v_queue),
         UNCHANGED <<v_stream, v_trace, v_pipe, v_checkpoint>>
  PROVE  /\ v_queue' \in Seq(Events) /\ v_handled' \in Seq(Events) /\ v_graph' \in Graphs
         /\ v_trace' = (v_handled' \o v_queue') \o v_pipe' /\ View!IsPrefix(v_handled', v_trace')
         /\ \A n \in Nodes : v_graph[n] = ShownBy(n, v_handled) =>
                              v_graph'[n] = ShownBy(n, v_handled)'
<1> DEFINE e == Head(v_queue)
<1>1. v_graph' = View!SetNodeStatus(v_graph, e) /\ v_handled' = Append(v_handled, e)
  BY DEF View!Apply
<1>2. /\ v_trace \in Seq(Events) /\ v_pipe \in Seq(Events) /\ v_queue \in Seq(Events)
      /\ v_handled \in Seq(Events) /\ v_graph \in Graphs
  BY DEF ViewInv, ViewType
<1>3. e \in Events /\ Tail(v_queue) \in Seq(Events)
  BY <1>2
<1>4. Append(v_handled, e) \o Tail(v_queue) = v_handled \o v_queue
  BY <1>2
<1> HIDE DEF e
<1>5. v_queue' \in Seq(Events) /\ v_handled' \in Seq(Events) /\ v_graph' \in Graphs
  BY <1>1, <1>2, <1>3, NodeSet
<1>6. v_trace' = (v_handled' \o v_queue') \o v_pipe'
  BY <1>1, <1>4 DEF ViewInv, EventsInv
<1>7. View!IsPrefix(v_handled', v_trace')
  <2>1. v_trace' = v_handled' \o (v_queue' \o v_pipe') /\ v_queue' \o v_pipe' \in Seq(Events)
    <3>1. v_pipe' \in Seq(Events)
      BY <1>2
    <3> QED BY <1>5, <1>6, <3>1, Associative, ConcatProperties
  <2> QED BY <1>5, <2>1, PrefixConcat
<1>8. ASSUME NEW n \in Nodes, v_graph[n] = ShownBy(n, v_handled)
      PROVE  v_graph'[n] = ShownBy(n, v_handled)'
  <2>1. View!SetNodeStatus(v_graph, e)[n] =
          IF e.node = n /\ e.status \in DOMAIN View!GraphStatus
          THEN View!GraphStatus[e.status] ELSE v_graph[n]
    BY <1>2, <1>3, NodeSet, Zenon
  <2>2. ShownBy(n, Append(v_handled, e)) =
          IF e.node = n /\ e.status \in DOMAIN View!GraphStatus
          THEN View!GraphStatus[e.status] ELSE ShownBy(n, v_handled)
    BY <1>2, <1>3, ShownNext, Zenon
  <2>3. ShownBy(n, v_handled)' = ShownBy(n, Append(v_handled, e))
    BY <1>1 DEF ShownBy, KnownOf
  <2> QED BY <1>1, <1>8, <2>1, <2>2, <2>3
<1> QED BY <1>5, <1>6, <1>7, <1>8

LEMMA ViewInit == View!Init => ViewInv
<1> SUFFICES ASSUME View!Init PROVE ViewInv
  OBVIOUS
<1>1. ViewType
  <2>1. <<>> \in Seq(Events)
    OBVIOUS
  <2> QED BY <2>1 DEF View!Init, ViewType, Graphs, Shown, Messages
<1>2. EventsInv
  BY PrefixEmpty DEF View!Init, EventsInv, View!Told
<1>3. GraphInv
  BY DEF View!Init, GraphInv
<1> QED BY <1>1, <1>2, <1>3 DEF ViewInv

LEMMA DrawnGraph == View!Drawn \in Graphs /\ \A n \in Nodes : View!Drawn[n] = "pending"
BY DEF View!Drawn, Graphs, Shown

LEMMA NoneShown == \A n \in Nodes :
  ShownBy(n, <<>>) = IF v_checkpoint[n] \in DOMAIN View!GraphStatus
                     THEN View!GraphStatus[v_checkpoint[n]] ELSE "pending"
BY DEF ShownBy, KnownOf

LEMMA ViewNext == ViewInv /\ View!Next => ViewInv'
<1> SUFFICES ASSUME ViewInv, View!Next PROVE ViewInv'
  OBVIOUS
<1>b. (<<>> \o <<>>) \o <<>> = <<>>
  OBVIOUS
<1>0. "none" \notin DOMAIN View!GraphStatus
  BY DEF View!GraphStatus
<1>1. CASE View!Start
  <2>1. ViewType'
    BY <1>1 DEF View!Start, View!child, ViewInv, ViewType, Messages
  <2>2. EventsInv'
    BY <1>1, ToldSame DEF View!Start, View!child, ViewInv, ViewType, EventsInv
  <2>3. GraphInv'
    BY <1>1, GraphKept DEF View!Start, View!child, ViewInv, EventsInv
  <2> QED BY <2>1, <2>2, <2>3 DEF ViewInv
<1>2. CASE View!Prepare
  <2>1. /\ v_phase = "started" /\ UNCHANGED <<v_aborted, v_checkpoint, v_stream, v_trace,
             v_pipe, v_open, v_code, v_report, v_streamed, v_queue, v_threw, v_handled>>
        /\ v_graph' \in {v_graph, View!Drawn}
        /\ \/ v_phase' = "ended" /\ v_result' = "interrupted" /\ v_message' = v_message
           \/ v_phase' = "ended" /\ v_result' = "error" /\ v_message' = View!WithError(v_message)
           \/ v_phase' \in {"status", "spawn"} /\ v_graph' = View!Drawn /\ v_result' = v_result
                /\ v_message' = v_message
    BY <1>2 DEF View!Prepare, View!child, View!Interrupted, View!Throws
  <2>2. ViewType'
    BY <2>1, DrawnGraph, MessageKept DEF ViewInv, ViewType
  <2>3. EventsInv'
    BY <2>1, <1>b, MessageKept DEF ViewInv, ViewType, EventsInv, View!Told
  <2>4. GraphInv'
    BY <1>0, <2>1, DrawnGraph, NoneShown DEF ViewInv, EventsInv, GraphInv, ShownBy, KnownOf
  <2> QED BY <2>2, <2>3, <2>4 DEF ViewInv
<1>3. CASE View!Hydrate
  <2>1. /\ v_phase = "status" /\ v_phase' = "spawn"
        /\ UNCHANGED <<v_aborted, v_stream, v_trace, v_pipe, v_open, v_code, v_report,
             v_streamed, v_queue, v_threw, v_handled, v_result, v_message>>
    BY <1>3 DEF View!Hydrate
  <2>2. /\ v_graph = View!Drawn /\ v_checkpoint = [n \in Nodes |-> "none"] /\ v_handled = <<>>
    BY <2>1 DEF ViewInv, GraphInv, EventsInv
  <2>3. EventsInv'
    BY <2>1 DEF ViewInv, EventsInv, View!Told
  <2>4. CASE UNCHANGED <<v_checkpoint, v_graph>>
    BY <1>0, <2>1, <2>2, <2>3, <2>4, DrawnGraph, NoneShown
       DEF ViewInv, ViewType, EventsInv, GraphInv, ShownBy, KnownOf
  <2>5. ASSUME v_checkpoint' \in [Nodes -> Statuses \cup {"none"}],
               v_graph' = [n \in Nodes |->
                 View!SetNodeStatus(v_graph, [node |-> n, status |-> v_checkpoint'[n]])[n]]
        PROVE  ViewInv'
    <3>1. \A n \in Nodes : v_graph'[n] = IF v_checkpoint'[n] \in DOMAIN View!GraphStatus
                                         THEN View!GraphStatus[v_checkpoint'[n]] ELSE "pending"
      BY <2>2, <2>5, DrawnGraph DEF View!SetNodeStatus, Graphs
    <3>2. v_graph' \in Graphs
      BY <2>5, <3>1, ShownStatus DEF Graphs, Shown
    <3>3. ViewType'
      BY <2>1, <2>5, <3>2 DEF ViewInv, ViewType
    <3>4. GraphInv'
      BY <2>1, <2>2, <3>1, NoneShown DEF GraphInv, ShownBy, KnownOf
    <3> QED BY <2>3, <3>3, <3>4 DEF ViewInv
  <2> QED BY <1>3, <2>4, <2>5 DEF View!Hydrate
<1>4. CASE View!Spawn
  <2>1. /\ v_phase = "spawn"
        /\ UNCHANGED <<v_aborted, v_graph, v_checkpoint, v_trace, v_pipe, v_open, v_code,
             v_report, v_streamed, v_queue, v_threw, v_handled>>
        /\ \/ /\ v_phase' = "ended" /\ v_stream' = v_stream
              /\ \/ v_result' = "interrupted" /\ v_message' = v_message
                 \/ v_result' = "error" /\ v_message' = View!WithError(v_message)
           \/ v_phase' = "run" /\ v_stream' \in BOOLEAN /\ UNCHANGED <<v_result, v_message>>
    BY <1>4 DEF View!Spawn, View!Interrupted, View!Throws
  <2>2. ViewType'
    BY <2>1, MessageKept DEF ViewInv, ViewType
  <2>3. EventsInv'
    BY <2>1, <1>b, MessageKept DEF ViewInv, ViewType, EventsInv, View!Told
  <2>4. GraphInv'
    BY <2>1 DEF ViewInv, GraphInv, EventsInv, ShownBy, KnownOf
  <2> QED BY <2>2, <2>3, <2>4 DEF ViewInv
<1>5. ASSUME NEW n \in Nodes, NEW s \in Statuses, View!Engine([node |-> n, status |-> s])
      PROVE  ViewInv'
  <2> DEFINE e == [node |-> n, status |-> s]
  <2>0. e \in Events
    BY DEF Events
  <2> HIDE DEF e
  <2>1. /\ v_phase = "run" /\ v_trace' = Append(v_trace, e)
        /\ v_pipe' = IF v_stream THEN Append(v_pipe, e) ELSE v_pipe
        /\ UNCHANGED <<v_phase, v_aborted, v_graph, v_checkpoint, v_stream, v_open, v_code,
             v_report, v_streamed, v_queue, v_threw, v_handled, v_result, v_message>>
    BY <1>5 DEF View!Engine, e
  <2>2. /\ v_trace \in Seq(Events) /\ v_pipe \in Seq(Events) /\ v_queue \in Seq(Events)
             /\ v_handled \in Seq(Events)
    BY DEF ViewInv, ViewType
  <2>3. ViewType'
    BY <2>0, <2>1, <2>2 DEF ViewInv, ViewType
  <2>4. Append((v_handled \o v_queue) \o v_pipe, e) = (v_handled \o v_queue) \o Append(v_pipe,
          e)
    <3>1. /\ v_handled \o v_queue \in Seq(Events) /\ <<e>> \in Seq(Events)
          /\ (v_handled \o v_queue) \o v_pipe \in Seq(Events)
      BY <2>0, <2>2
    <3>2. Append((v_handled \o v_queue) \o v_pipe,
            e) = ((v_handled \o v_queue) \o v_pipe) \o <<e>>
      BY <2>0, <3>1, AppendIsConcat
    <3>3. Append(v_pipe, e) = v_pipe \o <<e>>
      BY <2>0, <2>2, AppendIsConcat
    <3> QED BY <2>2, <3>1, <3>2, <3>3, ConcatAssociative
  <2>5. View!IsPrefix(v_handled, Append(v_trace, e))
    BY <2>0, <2>2, PrefixAppend DEF ViewInv, EventsInv
  <2>6. EventsInv'
    BY <2>1, <2>4, <2>5 DEF ViewInv, EventsInv
  <2>7. GraphInv'
    BY <2>1, GraphKept DEF ViewInv
  <2> QED BY <2>3, <2>6, <2>7 DEF ViewInv
<1>6. CASE View!Exit
  <2>1. ViewType'
    BY <1>6 DEF View!Exit, View!child, ViewInv, ViewType
  <2>2. EventsInv'
    BY <1>6, ToldSame DEF View!Exit, View!child, ViewInv, ViewType, EventsInv
  <2>3. GraphInv'
    BY <1>6, GraphKept DEF View!Exit, View!child, ViewInv, EventsInv
  <2> QED BY <2>1, <2>2, <2>3 DEF ViewInv
<1>7. CASE View!Handle \/ View!HandlerThrows
  <2>1. /\ v_queue # <<>> /\ v_queue' = Tail(v_queue)
        /\ v_threw' \in BOOLEAN /\ (v_threw => v_threw')
        /\ UNCHANGED <<v_phase, v_aborted, v_checkpoint, v_stream, v_trace, v_pipe, v_open,
             v_code, v_report, v_streamed, v_result, v_message>>
        /\ \/ ~v_threw /\ View!Apply(Head(v_queue))
           \/ v_threw' /\ UNCHANGED <<v_graph, v_handled>>
    BY <1>7 DEF View!Handle, View!HandlerThrows, ViewInv, ViewType
  <2>2. /\ v_stream /\ v_streamed /\ v_result \notin {"success", "failure"}
        /\ v_phase \notin {"idle", "started", "status", "spawn"}
    BY <2>1 DEF ViewInv, EventsInv
  <2>3. v_queue \in Seq(Events) /\ Tail(v_queue) \in Seq(Events)
    BY <2>1 DEF ViewInv, ViewType
  <2>4. CASE ~v_threw /\ View!Apply(Head(v_queue))
    <3>1. /\ v_queue' \in Seq(Events) /\ v_handled' \in Seq(Events) /\ v_graph' \in Graphs
          /\ v_trace' = (v_handled' \o v_queue') \o v_pipe'
          /\ View!IsPrefix(v_handled', v_trace')
          /\ \A n \in Nodes : v_graph[n] = ShownBy(n, v_handled) =>
                               v_graph'[n] = ShownBy(n, v_handled)'
      BY <2>1, <2>4, EventApplied
    <3>2. ViewType'
      BY <2>1, <3>1 DEF ViewInv, ViewType
    <3>3. EventsInv'
      BY <2>1, <2>2, <3>1 DEF ViewInv, EventsInv
    <3>4. GraphInv'
      BY <2>1, <2>2, <3>1 DEF ViewInv, GraphInv
    <3> QED BY <3>2, <3>3, <3>4 DEF ViewInv
  <2>5. CASE v_threw' /\ UNCHANGED <<v_graph, v_handled>>
    <3>1. ViewType'
      BY <2>1, <2>3, <2>5 DEF ViewInv, ViewType
    <3>2. EventsInv'
      BY <2>1, <2>2, <2>5 DEF ViewInv, EventsInv
    <3>3. GraphInv'
      BY <2>1, <2>5, GraphKept DEF ViewInv
    <3> QED BY <3>1, <3>2, <3>3 DEF ViewInv
  <2> QED BY <2>1, <2>4, <2>5
<1>8. CASE View!Close
  <2>1. /\ v_phase = "run"
        /\ UNCHANGED <<v_aborted, v_graph, v_checkpoint, v_stream, v_trace, v_open, v_code,
             v_report, v_threw, v_handled>>
        /\ \/ /\ v_phase' = "ended" /\ v_result' = "interrupted"
              /\ UNCHANGED <<v_message, v_pipe, v_streamed, v_queue>>
           \/ /\ v_phase' = "drain" /\ v_queue' = v_queue \o v_pipe /\ v_pipe' = <<>>
              /\ v_streamed' = (v_streamed \/ v_pipe # <<>>) /\ UNCHANGED <<v_result,
                   v_message>>
    BY <1>8 DEF View!Close, View!Interrupted
  <2>2. /\ v_trace \in Seq(Events) /\ v_pipe \in Seq(Events) /\ v_queue \in Seq(Events)
             /\ v_handled \in Seq(Events)
    BY DEF ViewInv, ViewType
  <2>3. /\ (v_handled \o v_queue) \o v_pipe = (v_handled \o (v_queue \o v_pipe)) \o <<>>
        /\ v_queue \o v_pipe \in Seq(Events) /\ v_queue \o <<>> = v_queue
    BY <2>2
  <2>7. v_pipe # <<>> \/ v_queue \o v_pipe = v_queue
    BY <2>3
  <2>8. v_phase' # "drain" => v_pipe' = v_pipe /\ v_queue' = v_queue /\ v_streamed' = v_streamed
    BY <2>1
  <2>9. v_phase' = "drain"
          \/ (v_result' = "interrupted" /\ v_message' = v_message /\ v_phase' = "ended")
    BY <2>1
  <2>4. ViewType'
    <3>1. /\ v_pipe' \in Seq(Events) /\ v_queue' \in Seq(Events)
          /\ v_message' = v_message /\ v_result' \in {v_result, "interrupted"}
      <4>1. CASE v_phase' = "drain"
        <5>1. v_pipe' = <<>> /\ v_queue' = v_queue \o v_pipe /\ v_message' = v_message
                /\ v_result' = v_result
          BY <2>1, <4>1
        <5>2. <<>> \in Seq(Events)
          OBVIOUS
        <5> QED BY <2>3, <5>1, <5>2
      <4>2. CASE v_phase' # "drain"
        BY <2>2, <2>8, <2>9, <4>2
      <4> QED BY <4>1, <4>2
    <3>2. v_streamed' \in BOOLEAN
      <4>1. v_streamed \in BOOLEAN /\ (v_streamed \/ v_pipe # <<>>) \in BOOLEAN
        BY DEF ViewInv, ViewType
      <4>2. v_streamed' = v_streamed \/ v_streamed' = (v_streamed \/ v_pipe # <<>>)
        BY <2>1, Zenon
      <4> QED BY <4>1, <4>2, Zenon
    <3> QED BY <2>1, <3>1, <3>2 DEF ViewInv, ViewType
  <2>5. EventsInv'
    <3>1. CASE v_phase' = "drain"
      BY <2>1, <2>3, <2>7, <3>1, ToldSame DEF ViewInv, EventsInv
    <3>2. CASE v_phase' # "drain"
      BY <2>1, <2>8, <2>9, <3>2, ToldSame DEF ViewInv, EventsInv
    <3> QED BY <3>1, <3>2
  <2>6. GraphInv'
    BY <2>1, GraphKept DEF ViewInv
  <2> QED BY <2>4, <2>5, <2>6 DEF ViewInv
<1>9. CASE View!Settle \/ View!SettleThrows
  <2>1. /\ v_phase = "drain" /\ v_queue = <<>> /\ v_phase' = "ended"
        /\ UNCHANGED <<v_aborted, v_checkpoint, v_stream, v_trace, v_pipe, v_open, v_code,
             v_report, v_streamed, v_queue, v_threw>>
    BY <1>9 DEF View!Settle, View!SettleThrows, View!Drained, View!child, View!Throws
  <2>2. /\ v_trace \in Seq(Events) /\ v_handled \in Seq(Events) /\ v_graph \in Graphs
        /\ v_message \in Messages /\ v_pipe = <<>> /\ v_result = "none" /\ ~v_message.success
        /\ View!IsPrefix(v_handled, v_trace) /\ View!Reported \in Seq(Events)
    BY <2>1 DEF ViewInv, ViewType, EventsInv, View!Reported
  <2>3. \/ /\ ~v_threw /\ View!ReportShows(Len(View!Reported))
           /\ v_result' \in {"success", "failure"} /\ v_message' = v_message
        \/ /\ UNCHANGED <<v_graph, v_handled>> \/ \E n \in 0..Len(View!Reported) : View!ReportShows(n)
           /\ v_result' = "error" /\ v_message' = View!WithError(v_message)
    BY <1>9 DEF View!Settle, View!SettleThrows, View!Throws
  <2>4. /\ v_graph' \in Graphs /\ v_handled' \in Seq(Events)
        /\ View!IsPrefix(v_handled', v_trace) /\ (v_stream => v_handled' = v_handled)
    <3>1. Len(View!Reported) \in 0..Len(View!Reported)
      BY <2>2
    <3> QED BY <2>1, <2>2, <2>3, <3>1, ReportApplied
  <2>5. v_result' # "error" =>
          /\ ~v_threw /\ v_handled' = View!Told
          /\ \A m \in Nodes : v_graph'[m] = ShownBy(m, v_handled')
    <3>1. Len(View!Reported) \in 0..Len(View!Reported)
      BY <2>2
    <3> QED BY <2>1, <2>3, <3>1, ReportApplied
  <2>6. ViewType'
    BY <2>1, <2>2, <2>3, <2>4, MessageKept DEF ViewInv, ViewType
  <2>7. EventsInv'
    <3>1. v_result' \in {"success", "failure", "error"}
            /\ (v_result' = "error" => v_message'.status = "failed") /\ ~v_message'.success
      BY <2>2, <2>3, MessageKept
    <3>2. View!Told' = View!Told
      BY <2>1, ToldSame
    <3> QED BY <2>1, <2>2, <2>4, <2>5, <3>1, <3>2 DEF ViewInv, EventsInv
  <2>8. GraphInv'
    <3>1. \A m \in Nodes : ShownBy(m, v_handled)' = ShownBy(m, v_handled')
      BY <2>1 DEF ShownBy, KnownOf
    <3> QED BY <2>1, <2>5, <3>1 DEF GraphInv
  <2> QED BY <2>6, <2>7, <2>8 DEF ViewInv
<1>10. CASE View!Finish
  <2>1. ViewType'
    BY <1>10 DEF View!Finish, View!child, View!Completed, Messages, ViewInv, ViewType
  <2>2. EventsInv'
    BY <1>10, ToldSame DEF View!Finish, View!child, View!Completed, Messages, ViewInv, ViewType,
       EventsInv
  <2>3. GraphInv'
    BY <1>10, GraphKept DEF View!Finish, View!child, ViewInv, EventsInv
  <2> QED BY <2>1, <2>2, <2>3 DEF ViewInv
<1>11. CASE View!LogError
  <2>1. ViewType'
    BY <1>11, MessageKept DEF View!LogError, View!child, ViewInv, ViewType
  <2>2. EventsInv'
    BY <1>11, ToldSame, MessageKept DEF View!LogError, View!child, ViewInv, ViewType, EventsInv
  <2>3. GraphInv'
    BY <1>11, GraphKept DEF View!LogError, View!child, ViewInv, EventsInv
  <2> QED BY <2>1, <2>2, <2>3 DEF ViewInv
<1>12. CASE View!Abort
  <2>1. ViewType'
    BY <1>12 DEF View!Abort, View!child, ViewInv, ViewType
  <2>2. EventsInv'
    BY <1>12, ToldSame DEF View!Abort, View!child, ViewInv, ViewType, EventsInv
  <2>3. GraphInv'
    BY <1>12, GraphKept DEF View!Abort, View!child, ViewInv, EventsInv
  <2> QED BY <2>1, <2>2, <2>3 DEF ViewInv
<1>13. ASSUME NEW n \in 1..MaxEvents, View!Read(n) PROVE ViewInv'
  <2>1. /\ v_phase = "run" /\ n <= Len(v_pipe) /\ n \in Nat /\ n > 0
        /\ v_queue' = v_queue \o SubSeq(v_pipe, 1, n)
        /\ v_pipe' = SubSeq(v_pipe, n + 1, Len(v_pipe)) /\ v_streamed' = TRUE
        /\ UNCHANGED <<v_phase, v_aborted, v_graph, v_checkpoint, v_stream, v_trace, v_open,
             v_code, v_report, v_threw, v_handled, v_result, v_message>>
    <3>1. v_pipe \in Seq(Events)
      BY DEF ViewInv, ViewType
    <3>2. View!Unended \in {0, 1}
      BY DEF View!Unended
    <3> QED BY <1>13, <3>1, <3>2 DEF View!Read
  <2>2. /\ v_trace \in Seq(Events) /\ v_pipe \in Seq(Events) /\ v_queue \in Seq(Events)
             /\ v_handled \in Seq(Events)
    BY DEF ViewInv, ViewType
  <2>3. SubSeq(v_pipe, 1, n) \in Seq(Events)
          /\ SubSeq(v_pipe, n + 1, Len(v_pipe)) \in Seq(Events)
    BY <2>1, <2>2
  <2>4. SubSeq(v_pipe, 1, n) \o SubSeq(v_pipe, n + 1, Len(v_pipe)) = v_pipe
    BY <2>1, <2>2
  <2>5. (v_handled \o (v_queue \o SubSeq(v_pipe, 1, n))) \o SubSeq(v_pipe, n + 1, Len(v_pipe))
          = (v_handled \o v_queue) \o v_pipe
    <3> DEFINE p == SubSeq(v_pipe, 1, n)
               q == SubSeq(v_pipe, n + 1, Len(v_pipe))
    <3>1. p \in Seq(Events) /\ q \in Seq(Events) /\ p \o q = v_pipe
      BY <2>3, <2>4
    <3> HIDE DEF p, q
    <3>2. v_handled \o v_queue \in Seq(Events)
      BY <2>2
    <3>3. (v_handled \o (v_queue \o p)) \o q = ((v_handled \o v_queue) \o p) \o q
      BY <2>2, <3>1, Associative
    <3>4. ((v_handled \o v_queue) \o p) \o q = (v_handled \o v_queue) \o (p \o q)
      BY <3>1, <3>2, Associative, Zenon
    <3> QED BY <3>1, <3>3, <3>4 DEF p, q
  <2>6. v_stream /\ v_pipe # <<>>
    BY <2>1, <2>2 DEF ViewInv, EventsInv
  <2>7. ViewType'
    BY <2>1, <2>2, <2>3 DEF ViewInv, ViewType
  <2>8. EventsInv'
    BY <2>1, <2>5, <2>6 DEF ViewInv, EventsInv
  <2>9. GraphInv'
    BY <2>1, GraphKept DEF ViewInv
  <2> QED BY <2>7, <2>8, <2>9 DEF ViewInv
<1> QED BY <1>1, <1>2, <1>3, <1>4, <1>5, <1>6, <1>7, <1>8, <1>9, <1>10, <1>11, <1>12, <1>13
  DEF View!Next

LEMMA ViewFrame == ViewInv /\ UNCHANGED viewVars => ViewInv'
<1> SUFFICES ASSUME ViewInv, UNCHANGED viewVars PROVE ViewInv'
  OBVIOUS
<1>1. ViewType'
  BY DEF viewVars, ViewInv, ViewType
<1>2. EventsInv'
  BY ToldSame DEF viewVars, ViewInv, EventsInv
<1>3. GraphInv'
  BY GraphKept DEF viewVars, ViewInv
<1> QED BY <1>1, <1>2, <1>3 DEF ViewInv

LEMMA ViewImplies == ViewInv => View!GraphShowsEngine
<1> SUFFICES ASSUME ViewInv PROVE View!GraphShowsEngine
  OBVIOUS
<1>1. \A n \in Nodes : View!StatusOf(n) = ShownBy(n, View!Told)
  BY DEF View!StatusOf, ShownBy, KnownOf
<1> QED BY <1>1 DEF ViewInv, EventsInv, GraphInv, View!GraphShowsEngine

-----------------------------------------------------------------------------
(* Recalled memory. A packet is told once to each session.                  *)

FileRows == [id : Nat, objects : Seq([kind : STRING, value : STRING]), paragraph : BOOLEAN]
MemoryRows == {Memory!ParsedRow(row) : row \in FileRows}
MemoryPackets == Seq(MemoryRows)
(* What an entry was made from is a packet that was parsed, if not the one  *)
(* that stands.                                                             *)
EntryOf(rows) == [details |-> Memory!Details(rows), content |-> Memory!Rendered(rows, TRUE)]
RecallEntries == {EntryOf(rows) : rows \in MemoryPackets}
IsSeq(s) == s \in Seq({s[i] : i \in DOMAIN s})

MemoryType ==
  /\ m_file \in Packets
  /\ m_packet = None \/ m_packet \in MemoryPackets
  /\ m_session = None \/ m_session \in Sessions
  /\ m_entries \in [Sessions -> Seq(RecallEntries)]
  /\ IsSeq(m_scores)
(* No session holds two entries of the same details, and one that is open   *)
(* holds the packet its process read.                                       *)
Distinct(log) == \A i, k \in DOMAIN log : log[i].details = log[k].details => i = k
Holds(log) == \E i \in DOMAIN log : log[i].details = Memory!Details(m_packet)
SessionInv ==
  /\ m_process = "none" => m_session = None
  /\ m_process = "bench" => m_packet \in MemoryPackets /\ m_session = None
  /\ m_session # None /\ m_packet # None => Holds(m_entries[m_session])
ToldInv ==
  /\ m_told.text = "snapshot" <=> m_told.mode = "cached"
  /\ \A i \in DOMAIN m_scores : m_scores[i].variant = "section-only" =>
       m_scores[i].claimHits = 0
MemoryInv == MemoryType /\ (\A s \in Sessions : Distinct(m_entries[s])) /\ SessionInv /\ ToldInv

LEMMA ParsedRowIs ==
  ASSUME NEW row \in FileRows
  PROVE  Memory!ParsedRow(row) = [id |-> row.id, objects |-> Memory!ParsedRow(row).objects,
                                  paragraph |-> row.paragraph]
<1> DEFINE k == Memory!Kept(row.objects, LAMBDA o : o.value # "")
<1>1. Memory!ParsedRow(row) = [row EXCEPT !.objects = k]
  BY DEF Memory!ParsedRow
<1> HIDE DEF k
<1> QED BY <1>1 DEF FileRows

LEMMA RowIs ==
  ASSUME NEW r \in MemoryRows
  PROVE  r = [id |-> r.id, objects |-> r.objects, paragraph |-> r.paragraph]
BY ParsedRowIs DEF MemoryRows

LEMMA DetailsAre ==
  ASSUME NEW rows
  PROVE  /\ Memory!Details(rows).rowCount = Len(rows)
         /\ Memory!Details(rows).orgids = [i \in DOMAIN rows |-> rows[i].id]
<1> DEFINE n == Memory!FoldLeft(LAMBDA k, r : k + Len(r.objects), 0, rows)
<1>1. Memory!Details(rows) = [rowCount |-> Len(rows), objectCount |-> n,
                              orgids |-> [i \in DOMAIN rows |-> rows[i].id]]
  BY DEF Memory!Details
<1> HIDE DEF n
<1> QED BY <1>1

(* The rows without objects left out, a packet is still one of rows.        *)
LEMMA Filtered ==
  ASSUME NEW s \in MemoryPackets
  PROVE  Memory!Kept(s, LAMBDA r : r.objects # <<>>) \in MemoryPackets
<1> DEFINE n == Len(s)
           A == MemoryPackets
           Iter(f) == f = [S \in SUBSET DOMAIN s |->
                             IF S = {} THEN <<>>
                             ELSE IF s[TopOf(S)].objects # <<>>
                                  THEN Append(f[S \ {TopOf(S)}], s[TopOf(S)])
                                  ELSE f[S \ {TopOf(S)}]]
           it == CHOOSE f : Iter(f)
           step == [p \in A \X (1..n) |->
                      IF s[p[2]].objects # <<>> THEN Append(p[1], s[p[2]]) ELSE p[1]]
<1>1. DOMAIN s = 1..n /\ n \in Nat /\ <<>> \in A /\ \A i \in 1..n : s[i] \in MemoryRows
  BY DEF MemoryPackets
<1>2. Memory!Kept(s, LAMBDA r : r.objects # <<>>) = it[DOMAIN s]
  BY DEF Memory!Kept, Memory!FoldLeft, Memory!MapThenFoldSet, Memory!Max, TopOf
<1>3. step \in [A \X (1..n) -> A]
  <2>1. \A a \in A, k \in 1..n : Append(a, s[k]) \in A
    BY <1>1 DEF MemoryPackets
  <2> HIDE DEF A
  <2> QED BY <2>1
<1>4. Iter(it)
  <2>1. PICK f : IsFold(f, n, A, <<>>, step)
    <3> HIDE DEF step, A
    <3> QED BY <1>1, <1>3, FoldExists DEF HasFold
  <2>2. ASSUME NEW S \in SUBSET (1..n), S # {}
        PROVE  f[S] = IF s[TopOf(S)].objects # <<>>
                      THEN Append(f[S \ {TopOf(S)}], s[TopOf(S)]) ELSE f[S \ {TopOf(S)}]
    <3>1. TopOf(S) \in 1..n
      BY <1>1, <2>2, TopOfSet
    <3>2. f[S \ {TopOf(S)}] \in A
      <4> HIDE DEF A
      <4> QED BY <2>1 DEF IsFold
    <3> HIDE DEF A
    <3> QED BY <2>1, <2>2, <3>1, <3>2 DEF IsFold
  <2>3. Iter(f)
    <3> HIDE DEF A
    <3> QED BY <1>1, <2>1, <2>2 DEF IsFold
  <2> HIDE DEF Iter
  <2> QED BY <2>3
<1> HIDE DEF it
<1>5. Unfolds(it, n, A, <<>>, step)
  <2>1. ASSUME NEW T \in SUBSET (1..n), T # {}, it[T \ {TopOf(T)}] \in A
        PROVE  it[T] = step[<<it[T \ {TopOf(T)}], TopOf(T)>>]
    <3>1. TopOf(T) \in 1..n
      BY <1>1, <2>1, TopOfSet
    <3>2. it[T] = IF s[TopOf(T)].objects # <<>>
                  THEN Append(it[T \ {TopOf(T)}], s[TopOf(T)]) ELSE it[T \ {TopOf(T)}]
      BY <1>1, <1>4, <2>1
    <3> HIDE DEF A, Iter
    <3> QED BY <2>1, <3>1, <3>2
  <2>2. it[{}] = <<>>
    BY <1>4
  <2> HIDE DEF step, A
  <2> QED BY <2>1, <2>2 DEF Unfolds
<1>6. HasRun(it, n, A, <<>>, step)
  <2> HIDE DEF step, A
  <2> QED BY <1>1, <1>3, <1>5, FoldRun
<1>7. PICK run \in [0..n -> A] : run[n] = it[1..n]
  <2> HIDE DEF step, A
  <2> QED BY <1>6 DEF HasRun
<1> HIDE DEF A
<1>8. run[n] \in A
  BY <1>1
<1> QED BY <1>1, <1>2, <1>7, <1>8 DEF A

LEMMA ParsedIs == Memory!MemoryAssumption => \A p \in Packets :
  Memory!Parsed(p) \in MemoryPackets
<1> SUFFICES ASSUME Memory!MemoryAssumption, NEW p \in Packets
  PROVE Memory!Parsed(p) \in MemoryPackets
  OBVIOUS
<1> DEFINE s == [i \in DOMAIN p.rows |-> Memory!ParsedRow(p.rows[i])]
<1>1. p.rows \in Seq(FileRows)
  BY DEF Memory!MemoryAssumption, FileRows
<1>2. s \in MemoryPackets
  <2>1. DOMAIN p.rows = 1..Len(p.rows) /\ Len(p.rows) \in Nat
        /\ \A i \in DOMAIN p.rows : p.rows[i] \in FileRows
    BY <1>1
  <2>2. s \in [1..Len(p.rows) -> MemoryRows]
    BY <2>1 DEF MemoryRows
  <2> HIDE DEF s
  <2> QED BY <2>1, <2>2 DEF MemoryPackets
<1>3. Memory!Parsed(p) = Memory!Kept(s, LAMBDA r : r.objects # <<>>)
  BY DEF Memory!Parsed
<1> HIDE DEF s
<1> QED BY <1>2, <1>3, Filtered

LEMMA MemoryInit == Memory!Init => MemoryInv
<1>1. <<>> \in Seq(RecallEntries) /\ IsSeq(<<>>) /\ DOMAIN <<>> = {} /\ Distinct(<<>>)
  BY DEF IsSeq, Distinct
<1> QED BY <1>1 DEF Memory!Init, MemoryInv, MemoryType, SessionInv, ToldInv

LEMMA MemoryFrame == MemoryInv /\ UNCHANGED memoryVars => MemoryInv'
<1> SUFFICES ASSUME MemoryInv, UNCHANGED memoryVars PROVE MemoryInv'
  OBVIOUS
<1>1. UNCHANGED <<m_file, m_process, m_packet, m_session, m_entries, m_told, m_scores>>
  BY DEF memoryVars
<1>2. MemoryType'
  BY <1>1 DEF MemoryInv, MemoryType
<1>3. SessionInv'
  BY <1>1 DEF MemoryInv, SessionInv, Holds
<1>4. ToldInv'
  BY <1>1 DEF MemoryInv, ToldInv
<1> QED BY <1>1, <1>2, <1>3, <1>4 DEF MemoryInv

(* An entry with the details of a packet has its counts and its ids.        *)
LEMMA EntryTells ==
  ASSUME Memory!MemoryAssumption, NEW e \in RecallEntries, NEW q \in MemoryPackets,
         e.details = Memory!Details(q)
  PROVE  /\ Len(e.content) = Memory!Lesser(ShownRows, Len(q))
         /\ \A j \in DOMAIN e.content : e.content[j].id = q[j].id
<1>1. PICK rows \in MemoryPackets : e = EntryOf(rows)
  BY DEF RecallEntries
<1>2. e.details = Memory!Details(rows) /\ e.content = Memory!Rendered(rows, TRUE)
  BY <1>1 DEF EntryOf
<1>3. /\ Len(rows) = Len(q)
      /\ [i \in DOMAIN rows |-> rows[i].id] = [i \in DOMAIN q |-> q[i].id]
  <2>1. Memory!Details(rows) = Memory!Details(q)
    BY <1>2
  <2>2. /\ Memory!Details(rows).rowCount = Len(rows)
        /\ Memory!Details(rows).orgids = [i \in DOMAIN rows |-> rows[i].id]
    BY DetailsAre
  <2>3. /\ Memory!Details(q).rowCount = Len(q)
        /\ Memory!Details(q).orgids = [i \in DOMAIN q |-> q[i].id]
    BY DetailsAre
  <2> QED BY <2>1, <2>2, <2>3
<1>4. /\ Len(q) \in Nat /\ DOMAIN q = 1..Len(q) /\ DOMAIN rows = 1..Len(q)
      /\ \A i \in DOMAIN rows : rows[i] \in MemoryRows
  BY <1>3 DEF MemoryPackets
<1>5. \A i \in 1..Len(q) : rows[i].id = q[i].id
  BY <1>3, <1>4
<1> DEFINE m == Memory!Lesser(ShownRows, Len(rows))
<1>6. m \in Nat /\ m <= Len(rows) /\ m = Memory!Lesser(ShownRows, Len(q))
  BY <1>3, <1>4 DEF Memory!Lesser, Memory!MemoryAssumption
<1> HIDE DEF m
<1>7. /\ e.content = [i \in 1..m |-> e.content[i]]
      /\ \A i \in 1..m :
           e.content[i] = [rows[i] EXCEPT !.objects = SubSeq(@, 1,
             Memory!Lesser(ShownObjects, Len(@)))]
  BY <1>2 DEF Memory!Rendered, m
<1>8. Len(e.content) = m
  <2>1. e.content \in Seq({e.content[i] : i \in 1..m}) /\ DOMAIN e.content = 1..m
    BY <1>6, <1>7
  <2>2. DOMAIN e.content = 1..Len(e.content) /\ Len(e.content) \in Nat
    BY <2>1
  <2> QED BY <1>6, <2>1, <2>2
<1>9. \A i \in 1..m : e.content[i].id = rows[i].id
  <2> SUFFICES ASSUME NEW i \in 1..m PROVE e.content[i].id = rows[i].id
    OBVIOUS
  <2>1. rows[i] \in MemoryRows
    BY <1>3, <1>4, <1>6
  <2>2. rows[i] = [id |-> rows[i].id, objects |-> rows[i].objects,
          paragraph |-> rows[i].paragraph]
    BY <2>1, RowIs
  <2> QED BY <1>7, <2>2
<1>10. DOMAIN e.content = 1..m /\ \A j \in 1..m : j \in 1..Len(q)
  BY <1>3, <1>4, <1>6, <1>7
<1> QED BY <1>5, <1>6, <1>8, <1>9, <1>10

LEMMA MemoryImplies == Memory!MemoryAssumption /\ MemoryInv => Memory!RecallIsTold
<1> SUFFICES ASSUME Memory!MemoryAssumption, MemoryInv PROVE Memory!RecallIsTold
  OBVIOUS
<1>1. ASSUME m_session # None, m_packet # None
      PROVE  \E i \in DOMAIN m_entries[m_session] :
               LET e == m_entries[m_session][i]
               IN /\ \A k \in DOMAIN m_entries[m_session] :
                       m_entries[m_session][k].details = e.details => k = i
                  /\ e.details = Memory!Details(m_packet)
                  /\ Len(e.content) = Memory!Lesser(ShownRows, Len(m_packet))
                  /\ \A j \in DOMAIN e.content : e.content[j].id = m_packet[j].id
  <2> DEFINE log == m_entries[m_session]
  <2>1. /\ log \in Seq(RecallEntries) /\ Distinct(log) /\ Holds(log)
             /\ m_packet \in MemoryPackets
    BY <1>1 DEF MemoryInv, MemoryType, SessionInv
  <2> HIDE DEF log
  <2>2. PICK i \in DOMAIN log : log[i].details = Memory!Details(m_packet)
    BY <2>1 DEF Holds
  <2>3. log[i] \in RecallEntries
    BY <2>1
  <2>4. /\ Len(log[i].content) = Memory!Lesser(ShownRows, Len(m_packet))
        /\ \A j \in DOMAIN log[i].content : log[i].content[j].id = m_packet[j].id
    BY <2>1, <2>2, <2>3, EntryTells
  <2>5. \A k \in DOMAIN log : log[k].details = log[i].details => k = i
    BY <2>1 DEF Distinct
  <2> QED BY <2>2, <2>4, <2>5 DEF log
<1> QED BY <1>1 DEF MemoryInv, ToldInv, Memory!RecallIsTold

(* A packet is added to a log that does not hold it.                        *)
LEMMA InjectedLog ==
  ASSUME NEW log \in Seq(RecallEntries), Distinct(log), m_packet = None
           \/ m_packet \in MemoryPackets
  PROVE  /\ Memory!Injected(log) \in Seq(RecallEntries) /\ Distinct(Memory!Injected(log))
         /\ m_packet # None => Holds(Memory!Injected(log))
<1>1. CASE m_packet = None \/ Holds(log)
  <2>1. Memory!Injected(log) = log
    BY <1>1 DEF Memory!Injected, Memory!SameDetails, Holds
  <2> QED BY <1>1, <2>1
<1>2. CASE ~(m_packet = None \/ Holds(log))
  <2> DEFINE e == EntryOf(m_packet)
             new == Append(log, e)
  <2>1. Memory!Injected(log) = new
    BY <1>2 DEF Memory!Injected, Memory!SameDetails, Holds, EntryOf
  <2>2. e \in RecallEntries /\ e.details = Memory!Details(m_packet)
    BY <1>2 DEF RecallEntries, EntryOf
  <2> HIDE DEF e
  <2>3. /\ new \in Seq(RecallEntries) /\ Len(log) \in Nat /\ DOMAIN log = 1..Len(log)
        /\ DOMAIN new = 1..(Len(log) + 1) /\ new[Len(log) + 1] = e
        /\ \A i \in DOMAIN log : new[i] = log[i]
    BY <2>2
  <2> HIDE DEF new
  <2>4. Holds(new)
    BY <2>2, <2>3 DEF Holds
  <2>5. Distinct(new)
    <3> SUFFICES ASSUME NEW i \in DOMAIN new, NEW k \in DOMAIN new,
      new[i].details = new[k].details
                 PROVE  i = k
      BY DEF Distinct
    <3>1. \A j \in DOMAIN log : log[j].details # Memory!Details(m_packet)
      BY <1>2 DEF Holds
    <3>2. \A j \in DOMAIN new : j \in DOMAIN log \/ j = Len(log) + 1
      BY <2>3
    <3> QED BY <2>2, <2>3, <3>1, <3>2 DEF Distinct
  <2> QED BY <2>1, <2>3, <2>4, <2>5
<1> QED BY <1>1, <1>2

(* A session begun, forked or resumed: of a log that is a part of one.      *)
LEMMA SessionChanged ==
  ASSUME MemoryInv, m_process = "chat", NEW s \in Sessions, NEW log \in Seq(RecallEntries),
           Distinct(log),
         m_session' = s, m_entries' = [m_entries EXCEPT ![s] = Memory!Injected(log)],
         UNCHANGED <<m_file, m_edits, m_process, m_packet, m_call, m_told, m_variants,
           m_scores>>
  PROVE  MemoryInv'
<1>1. /\ Memory!Injected(log) \in Seq(RecallEntries) /\ Distinct(Memory!Injected(log))
      /\ m_packet # None => Holds(Memory!Injected(log))
  BY InjectedLog DEF MemoryInv, MemoryType
<1>2. m_entries \in [Sessions -> Seq(RecallEntries)]
  BY DEF MemoryInv, MemoryType
<1>3. MemoryType'
  BY <1>1, <1>2 DEF MemoryInv, MemoryType
<1>4. \A t \in Sessions : Distinct(m_entries[t])'
  <2>1. \A t \in Sessions : Distinct(m_entries'[t])
    BY <1>1, <1>2 DEF MemoryInv
  <2> QED BY <2>1 DEF Distinct
<1>5. SessionInv'
  <2>1. m_entries'[s] = Memory!Injected(log)
    BY <1>2
  <2>2. m_packet # None => Holds(m_entries'[s])
    BY <1>1, <2>1
  <2> QED BY <2>2 DEF SessionInv, Holds
<1>6. ToldInv'
  BY DEF MemoryInv, ToldInv
<1> QED BY <1>3, <1>4, <1>5, <1>6 DEF MemoryInv

(* Rows without objects give no claim to find.                              *)
LEMMA NothingFound ==
  ASSUME Memory!MemoryAssumption, NEW answer \in Memory!Answers(Memory!Context("section-only")),
           NEW thrown \in BOOLEAN,
         m_packet \in MemoryPackets
  PROVE  Memory!Score("section-only", answer, thrown).claimHits = 0
<1> DEFINE context == Memory!Context("section-only")
<1>1. \A i \in DOMAIN context : context[i].objects = <<>>
  <2>1. context = [i \in 1..Memory!Lesser(ShownRows,
          Len(m_packet)) |-> [m_packet[i] EXCEPT !.objects = <<>>]]
    BY DEF Memory!Context, Memory!Rendered
  <2>2. \A i \in 1..Memory!Lesser(ShownRows, Len(m_packet)) : m_packet[i] \in MemoryRows
    <3>1. Len(m_packet) \in Nat /\ DOMAIN m_packet = 1..Len(m_packet)
      BY DEF MemoryPackets
    <3> QED BY <3>1 DEF MemoryPackets, Memory!Lesser, Memory!MemoryAssumption
  <2> QED BY <2>1, <2>2, RowIs
<1>2. answer.claims = {}
  <2>1. \A i \in DOMAIN context : {o.value : o \in Memory!ToSet(context[i].objects)} = {}
    BY <1>1 DEF Memory!ToSet
  <2>2. PICK I \in SUBSET DOMAIN context : \E J \in SUBSET I :
          answer = [ids |-> {context[i].id : i \in I},
                    claims |-> UNION {{o.value : o \in Memory!ToSet(context[i].objects)} :
                      i \in J}]
    BY DEF Memory!Answers
  <2>3. PICK J \in SUBSET I :
          answer = [ids |-> {context[i].id : i \in I},
                    claims |-> UNION {{o.value : o \in Memory!ToSet(context[i].objects)} :
                      i \in J}]
    BY <2>2
  <2> DEFINE named == UNION {{o.value : o \in Memory!ToSet(context[i].objects)} : i \in J}
             ids == {context[i].id : i \in I}
  <2>4. answer.claims = named
    <3> HIDE DEF named, ids
    <3>1. answer = [ids |-> ids, claims |-> named]
      BY <2>3 DEF named, ids
    <3> QED BY <3>1
  <2> HIDE DEF context
  <2> QED BY <2>1, <2>4
<1>3. Memory!Score("section-only", answer, thrown).claimHits = Memory!Cardinality({})
  BY <1>2 DEF Memory!Score
<1>4. Memory!Cardinality({}) = 0
  <2>1. Memory!Cardinality({}) = Cardinality({})
    BY Zenon DEF Memory!Cardinality, Cardinality
  <2> QED BY <2>1, FS_EmptySet
<1> QED BY <1>3, <1>4

LEMMA AppendedSeq ==
  ASSUME NEW s, IsSeq(s), NEW x
  PROVE  /\ IsSeq(Append(s, x)) /\ DOMAIN Append(s, x) = DOMAIN s \cup {Len(s) + 1}
         /\ Append(s, x)[Len(s) + 1] = x /\ \A i \in DOMAIN s : Append(s, x)[i] = s[i]
         /\ Len(s) + 1 \notin DOMAIN s
<1> DEFINE A == {s[i] : i \in DOMAIN s} \cup {x}
           t == Append(s, x)
<1>1. {s[i] : i \in DOMAIN s} \subseteq A /\ x \in A
  OBVIOUS
<1>2. s \in Seq(A)
  BY <1>1 DEF IsSeq
<1> HIDE DEF A
<1>3. /\ t \in Seq(A) /\ Len(s) \in Nat /\ DOMAIN s = 1..Len(s) /\ DOMAIN t = 1..(Len(s) + 1)
      /\ t[Len(s) + 1] = x /\ \A i \in DOMAIN s : t[i] = s[i] /\ Len(t) = Len(s) + 1
  BY <1>1, <1>2
<1>4. IsSeq(t)
  <2>1. \A i \in DOMAIN t : t[i] \in {t[j] : j \in DOMAIN t}
    OBVIOUS
  <2> HIDE DEF t
  <2>2. t \in [1..Len(t) -> {t[j] : j \in DOMAIN t}] /\ Len(t) \in Nat
    BY <1>3, <2>1
  <2> QED BY <2>2 DEF IsSeq
<1> QED BY <1>3, <1>4

LEMMA MemoryNext == Memory!MemoryAssumption /\ MemoryInv /\ Memory!Next => MemoryInv'
<1> SUFFICES ASSUME Memory!MemoryAssumption, MemoryInv, Memory!Next PROVE MemoryInv'
  OBVIOUS
<1>0. m_entries \in [Sessions -> Seq(RecallEntries)]
        /\ \A s \in Sessions : Distinct(m_entries[s])
  BY DEF MemoryInv, MemoryType
<1>a. ASSUME UNCHANGED <<m_packet, m_session, m_entries, m_scores>>, m_file' \in Packets,
             m_told' = m_told \/ (m_told'.text = "snapshot" <=> m_told'.mode = "cached"),
             m_process' = m_process
      PROVE  MemoryInv'
  <2>1. MemoryType'
    BY <1>a DEF MemoryInv, MemoryType
  <2>2. SessionInv'
    BY <1>a DEF MemoryInv, SessionInv, Holds
  <2>3. ToldInv'
    BY <1>a DEF MemoryInv, ToldInv
  <2> QED BY <1>a, <2>1, <2>2, <2>3 DEF MemoryInv
<1>1. ASSUME NEW p \in Packets, Memory!Edit(p) PROVE MemoryInv'
  BY <1>1, <1>a DEF Memory!Edit
<1>2. ASSUME NEW wanted \in BOOLEAN, NEW chat \in BOOLEAN, Memory!Launch(wanted, chat)
               PROVE MemoryInv'
  <2>1. /\ m_process = "none" /\ UNCHANGED <<m_file, m_session, m_entries, m_told, m_scores>>
        /\ \/ m_process' = "chat" /\ m_packet' \in {Memory!Parsed(m_file), None}
           \/ UNCHANGED <<m_process, m_packet>>
    BY <1>2 DEF Memory!Launch
  <2>2. m_session = None /\ Memory!Parsed(m_file) \in MemoryPackets
    BY <2>1, ParsedIs DEF MemoryInv, MemoryType, SessionInv
  <2>3. MemoryType'
    BY <2>1, <2>2 DEF MemoryInv, MemoryType
  <2>4. SessionInv'
    BY <2>1, <2>2 DEF SessionInv
  <2>5. ToldInv'
    BY <2>1 DEF MemoryInv, ToldInv
  <2> QED BY <2>1, <2>3, <2>4, <2>5 DEF MemoryInv
<1>3. ASSUME NEW s \in Sessions, Memory!Open(s) PROVE MemoryInv'
  BY <1>0, <1>3, SessionChanged DEF Memory!Open
<1>4. ASSUME NEW s \in Sessions, NEW n \in 0..(MaxEdits + 1), Memory!Fork(s, n) PROVE MemoryInv'
  <2> DEFINE old == m_entries[m_session]
             log == SubSeq(old, 1, n)
  <2>1. /\ m_process = "chat" /\ m_session # None /\ n <= Len(old) /\ m_session' = s
        /\ m_entries' = [m_entries EXCEPT ![s] = Memory!Injected(log)]
        /\ UNCHANGED <<m_file, m_edits, m_process, m_packet, m_call, m_told, m_variants,
             m_scores>>
    BY <1>4 DEF Memory!Fork
  <2>2. old \in Seq(RecallEntries) /\ Distinct(old)
    BY <1>0, <2>1 DEF MemoryInv, MemoryType
  <2>3. n \in Nat
    BY DEF Memory!MemoryAssumption
  <2> HIDE DEF old
  <2>4. /\ log \in Seq(RecallEntries) /\ DOMAIN log \subseteq DOMAIN old
        /\ \A i \in DOMAIN log : log[i] = old[i]
    BY <2>1, <2>2, <2>3
  <2> HIDE DEF log
  <2>5. Distinct(log)
    BY <2>2, <2>4 DEF Distinct
  <2> QED BY <2>1, <2>4, <2>5, SessionChanged
<1>5. CASE Memory!Quit
  <2>1. MemoryType'
    BY <1>5 DEF Memory!Quit, MemoryInv, MemoryType
  <2>2. SessionInv'
    BY <1>5 DEF Memory!Quit, SessionInv
  <2>3. ToldInv'
    BY <1>5 DEF Memory!Quit, MemoryInv, ToldInv
  <2> QED BY <1>0, <1>5, <2>1, <2>2, <2>3 DEF Memory!Quit, MemoryInv
<1>6. CASE Memory!Benchmark
  <2>1. /\ m_process = "none" /\ m_process' = "bench" /\ m_packet' = Memory!Parsed(m_file)
        /\ m_scores' = <<>> /\ UNCHANGED <<m_file, m_session, m_entries, m_told>>
    BY <1>6 DEF Memory!Benchmark
  <2>2. m_session = None /\ Memory!Parsed(m_file) \in MemoryPackets
    BY <2>1, ParsedIs DEF MemoryInv, MemoryType, SessionInv
  <2>3. IsSeq(<<>>) /\ DOMAIN <<>> = {}
    BY DEF IsSeq
  <2>4. MemoryType'
    BY <2>1, <2>2, <2>3 DEF MemoryInv, MemoryType
  <2>5. SessionInv'
    BY <2>1, <2>2 DEF SessionInv
  <2>6. ToldInv'
    BY <2>1, <2>3 DEF MemoryInv, ToldInv
  <2> QED BY <2>1, <2>4, <2>5, <2>6 DEF MemoryInv
<1>7. CASE Memory!RunVariant
  <2> DEFINE v == Head(m_variants)
  <2>1. /\ m_process = "bench"
        /\ UNCHANGED <<m_file, m_process, m_packet, m_session, m_entries, m_told>>
    BY <1>7 DEF Memory!RunVariant
  <2>2. PICK answer \in Memory!Answers(Memory!Context(v)), thrown \in BOOLEAN :
          m_scores' = Append(m_scores, Memory!Score(v, answer, thrown))
    BY <1>7, Zenon DEF Memory!RunVariant
  <2> DEFINE score == Memory!Score(v, answer, thrown)
  <2>3. m_packet \in MemoryPackets /\ IsSeq(m_scores)
    BY <2>1 DEF MemoryInv, MemoryType, SessionInv
  <2>4. score.variant = "section-only" => score.claimHits = 0
    <3>1. score.variant = v
      BY DEF Memory!Score
    <3> QED BY <2>3, <3>1, NothingFound
  <2> HIDE DEF score
  <2>5. /\ IsSeq(m_scores') /\ DOMAIN m_scores' = DOMAIN m_scores \cup {Len(m_scores) + 1}
        /\ m_scores'[Len(m_scores) + 1] = score /\ \A i \in DOMAIN m_scores :
             m_scores'[i] = m_scores[i]
    BY <2>2, <2>3, AppendedSeq DEF score
  <2>6. MemoryType'
    BY <2>1, <2>5 DEF MemoryInv, MemoryType
  <2>7. SessionInv'
    BY <2>1 DEF MemoryInv, SessionInv, Holds
  <2>8. ToldInv'
    BY <2>1, <2>4, <2>5 DEF MemoryInv, ToldInv
  <2> QED BY <1>0, <2>1, <2>6, <2>7, <2>8 DEF MemoryInv
<1>8. ASSUME NEW b \in BOOLEAN, Memory!Recall(b) \/ Memory!CommandEnds(b) PROVE MemoryInv'
  <2>1. /\ UNCHANGED <<m_file, m_process, m_packet, m_session, m_entries, m_scores>>
        /\ m_told' = m_told \/ (m_told'.text = "snapshot" <=> m_told'.mode = "cached")
    BY <1>8 DEF Memory!Recall, Memory!CommandEnds
  <2>2. m_file' \in Packets
    BY <2>1 DEF MemoryInv, MemoryType
  <2> QED BY <1>a, <2>1, <2>2
<1> QED BY <1>1, <1>2, <1>3, <1>4, <1>5, <1>6, <1>7, <1>8 DEF Memory!Next

-----------------------------------------------------------------------------
(* The command line: a step of one machine leaves the others where they     *)
(* are.                                                                     *)

IInv == CompilerInv /\ NamedInv /\ ChecksInv /\ TaskInv /\ AnswersInv /\ BenchInv /\ SearchInv
        /\ ViewInv /\ MemoryInv

LEMMA InitInv == Init => IInv
BY MachinesAssumption, CompilerInit, NamedInit, ChecksInit, TaskInit, AnswersInit,
   BenchInit, SearchInit, ViewInit, MemoryInit
   DEF Init, IInv

LEMMA NextInv == IInv /\ [Next]_vars => IInv'
<1> SUFFICES ASSUME IInv, [Next]_vars PROVE IInv'
  OBVIOUS
<1>1. CASE CompilerStep
  BY <1>1, CompilerNext, NamedFrame, ChecksFrame, TaskFrame, AnswersFrame, BenchFrame,
     SearchFrame, ViewFrame, MemoryFrame
     DEF IInv, CompilerStep
<1>2. CASE NamedStep
  BY <1>2, NamedNext, CompilerFrame, ChecksFrame, TaskFrame, AnswersFrame, BenchFrame,
     SearchFrame, ViewFrame, MemoryFrame
     DEF IInv, NamedStep
<1>3. CASE ChecksStep
  BY <1>3, ChecksNext, CompilerFrame, NamedFrame, TaskFrame, AnswersFrame, BenchFrame,
     SearchFrame, ViewFrame, MemoryFrame
     DEF IInv, ChecksStep
<1>4. CASE TaskStep
  BY <1>4, TaskNext, CompilerFrame, NamedFrame, ChecksFrame, AnswersFrame, BenchFrame,
     SearchFrame, ViewFrame, MemoryFrame
     DEF IInv, TaskStep
<1>5. CASE AnswersStep
  BY <1>5, MachinesAssumption, AnswersNext, CompilerFrame, NamedFrame, ChecksFrame,
     TaskFrame, BenchFrame, SearchFrame, ViewFrame, MemoryFrame
     DEF IInv, AnswersStep
<1>6. CASE BenchmarkStep
  BY <1>6, MachinesAssumption, BenchNext, CompilerFrame, NamedFrame, ChecksFrame, TaskFrame,
     AnswersFrame, SearchFrame, ViewFrame, MemoryFrame
     DEF IInv, BenchmarkStep
<1>7. CASE SearchStep
  BY <1>7, SearchNext, CompilerFrame, NamedFrame, ChecksFrame, TaskFrame, AnswersFrame,
     BenchFrame, ViewFrame, MemoryFrame
     DEF IInv, SearchStep
<1>8. CASE ViewStep
  BY <1>8, ViewNext, CompilerFrame, NamedFrame, ChecksFrame, TaskFrame, AnswersFrame,
     BenchFrame, SearchFrame, MemoryFrame
     DEF IInv, ViewStep
<1>9. CASE MemoryStep
  BY <1>9, MachinesAssumption, MemoryNext, CompilerFrame, NamedFrame, ChecksFrame,
     TaskFrame, AnswersFrame, BenchFrame, SearchFrame, ViewFrame
     DEF IInv, MemoryStep
<1>10. CASE UNCHANGED vars
  BY <1>10, CompilerFrame, NamedFrame, ChecksFrame, TaskFrame, AnswersFrame, BenchFrame,
     SearchFrame, ViewFrame, MemoryFrame
     DEF IInv, vars
<1> QED BY <1>1, <1>2, <1>3, <1>4, <1>5, <1>6, <1>7, <1>8, <1>9, <1>10 DEF Next

(* The invariants of the nine machines hold in every state of the command   *)
(* line.                                                                    *)
THEOREM InvariantHolds == Spec => []IInv
BY InitInv, NextInv, PTL DEF Spec

(* Files that a compile writes after its lint passed are what was linted,   *)
(* and the checks before a run let no file through that fails them, from    *)
(* the cache neither (src/compiler/repair-loop.ts,                          *)
(* src/cli/workflow-runner/preflight.ts).                                   *)
THEOREM LintedSound == Spec => []LintedIsSound
<1>1. IInv => LintedIsSound
  BY CompilerImplies DEF IInv, ChecksInv, LintedIsSound
<1> QED BY <1>1, InvariantHolds, PTL

(* A session that takes the cached workflow takes one made from the text    *)
(* that stands, unless the text was overtaken while it was compiled         *)
(* (src/cli/named-workflows.ts).                                            *)
THEOREM FreshIsCurrent == Spec => FreshMeansCurrent
<1>1. IInv /\ [Next]_vars => [Current]_(Named!vars)
  <2> SUFFICES ASSUME IInv, [Next]_vars PROVE [Current]_(Named!vars)
    OBVIOUS
  <2>1. CASE NamedStep
    BY <2>1, NamedNext DEF IInv, NamedStep
  <2>2. CASE UNCHANGED namedVars
    BY <2>2 DEF namedVars, Named!vars
  <2>3. NamedStep \/ UNCHANGED namedVars
    BY DEF Next, CompilerStep, ChecksStep, TaskStep, AnswersStep, BenchmarkStep, SearchStep,
           ViewStep, MemoryStep, vars
  <2> QED BY <2>1, <2>2, <2>3
<1>2. FreshMeansCurrent <=> [][Current]_(Named!vars)
  BY DEF FreshMeansCurrent, Named!FreshMeansCurrent, Current
<1> QED BY <1>1, <1>2, InvariantHolds, PTL DEF Spec

(* A human task whose contract passed can be answered unless what is wrong  *)
(* is left to run time, the choices are declared where they do not help the *)
(* prompt, or an agent did not produce what its task declares               *)
(* (src/compiler/contract-lint.ts).                                         *)
THEOREM TaskAnswerable == Spec => []TaskIsAnswerable
<1>1. IInv => TaskIsAnswerable
  BY DEF IInv, TaskInv, TaskIsAnswerable
<1> QED BY <1>1, InvariantHolds, PTL

(* A live answer run that returns left one answer for each row it was       *)
(* asked, in order, however many runs and crashes came before               *)
(* (src/cli/search/strategy-flow-live-answer.ts).                           *)
THEOREM EvidenceAnswers == Spec => []EvidenceAnswersRequests
<1>1. IInv => EvidenceAnswersRequests
  BY AnswersImplies DEF IInv, EvidenceAnswersRequests
<1> QED BY <1>1, InvariantHolds, PTL

(* A candidate is evidence for a reason the trace shows, and a search that  *)
(* ended left no temporary file (src/cli/search/strategy-flow-trace.ts).    *)
THEOREM SearchSound == Spec => []SearchIsSound
<1>1. IInv => SearchIsSound
  BY SearchImplies DEF IInv, SearchIsSound
<1> QED BY <1>1, InvariantHolds, PTL

(* A report credits each row with its own trace, its own last answer and    *)
(* every call about it, however many workers ran at once, and gives up on   *)
(* a timeout only when no retry is left (src/cli/search/markdown-corpus-    *)
(* benchmark).                                                              *)
THEOREM ReportSound == Spec => []ReportIsSound
<1>1. IInv => ReportIsSound
  BY BenchImplies DEF IInv, ReportIsSound
<1> QED BY <1>1, InvariantHolds, PTL

(* Each event of a trace is applied at most once, in order and without a    *)
(* gap, also when a handler throws; all of them before a run ends by its    *)
(* exit code; what was thrown fails the run's message; and the graph of a   *)
(* run that succeeded shows the last the engine told of each node           *)
(* (src/executor/qianji-cli.ts).                                            *)
THEOREM GraphShown == Spec => []GraphShowsEngine
<1>1. IInv => GraphShowsEngine
  BY ViewImplies DEF IInv, GraphShowsEngine
<1> QED BY <1>1, InvariantHolds, PTL

(* A session that is open holds the packet its process read, once and with  *)
(* its rows, however it was begun, forked or resumed; the tool says which   *)
(* way a text was got (src/cli/serverless-memory).                          *)
THEOREM RecallTold == Spec => []RecallIsTold
<1>1. IInv => RecallIsTold
  BY MemoryImplies, MachinesAssumption DEF IInv, RecallIsTold
<1> QED BY <1>1, InvariantHolds, PTL
=============================================================================
