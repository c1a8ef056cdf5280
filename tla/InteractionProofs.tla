-------------------------- MODULE InteractionProofs --------------------------
(***************************************************************************)
(* Proofs about the four roles of MCInteraction, for every set of agents,   *)
(* prompts, asks and calls: the outputs and the environment of pi-ai        *)
(* agents, the asks of the intercom and of the reply tracker, and that      *)
(* escape goes to the prompt on the screen.                                 *)
(*                                                                         *)
(* Each machine has an inductive invariant of its own; a step of the        *)
(* process is a step of one machine and leaves the others where they are.   *)
(***************************************************************************)
EXTENDS MCInteraction, Sequences, FiniteSetTheorems, TLAPS

-----------------------------------------------------------------------------
(* The pi-ai agents of a workflow.                                          *)

(* An agent is over once it has an outcome, and only then it can be late.   *)
OutcomesInv ==
  \A a \in Agents :
    /\ outcome[a] # "none" => at[a] = "over"
    /\ a \in late => at[a] = "over"
    /\ outcome[a] = "outputs" => a \notin violated \cup late

(* Until agents cross, each saved what it found: the first one at work the  *)
(* user's environment, and every other that of an agent.                    *)
EnvironmentInv ==
  /\ \A i \in DOMAIN working : at[working[i]] # "new"
  /\ crossed \/ ( /\ env = (IF working = <<>> THEN Runner!UserEnv ELSE Runner!AgentEnv)
                  /\ \A i \in DOMAIN working :
                       saved[working[i]] = IF i = 1 THEN Runner!UserEnv ELSE Runner!AgentEnv )

RunnerInv == Runner!TypeOK /\ OutcomesInv /\ EnvironmentInv

LEMMA EnvironmentTypes ==
  Runner!UserEnv \in [key : Runner!Values, token : Runner!Values]
  /\ Runner!AgentEnv \in [key : Runner!Values, token : Runner!Values]
BY DEF Runner!UserEnv, Runner!AgentEnv, Runner!Values

(* A sequence without its i-th element.                                     *)
LEMMA Removed ==
  ASSUME NEW S, NEW s \in Seq(S), NEW i \in DOMAIN s
  PROVE  /\ Runner!RemoveAt(s, i) \in Seq(S)
         /\ Len(Runner!RemoveAt(s, i)) = Len(s) - 1
         /\ \A j \in DOMAIN Runner!RemoveAt(s, i) :
              Runner!RemoveAt(s, i)[j] = IF j < i THEN s[j] ELSE s[j + 1]
<1> DEFINE l == SubSeq(s, 1, i - 1)
<1> DEFINE r == SubSeq(s, i + 1, Len(s))
<1>1. i \in 1..Len(s) /\ Len(s) \in Nat
  OBVIOUS
<1>2. /\ l \in Seq(S) /\ Len(l) = i - 1
      /\ \A j \in 1..(i - 1) : l[j] = s[j]
  BY <1>1
<1>3. /\ r \in Seq(S) /\ Len(r) = Len(s) - i
      /\ \A j \in 1..(Len(s) - i) : r[j] = s[i + j]
  BY <1>1
<1>4. Runner!RemoveAt(s, i) = l \o r
  BY DEF Runner!RemoveAt
<1> HIDE DEF l, r
<1>5. /\ l \o r \in Seq(S) /\ Len(l \o r) = Len(s) - 1
      /\ \A j \in DOMAIN (l \o r) : (l \o r)[j] = IF j < i THEN s[j] ELSE s[j + 1]
  <2>1. l \o r \in Seq(S) /\ Len(l \o r) = Len(s) - 1
    BY <1>1, <1>2, <1>3
  <2>2. ASSUME NEW j \in 1..(Len(s) - 1)
        PROVE  (l \o r)[j] = IF j < i THEN s[j] ELSE s[j + 1]
    <3>1. CASE j < i
      BY <1>1, <1>2, <1>3, <3>1
    <3>2. CASE ~(j < i)
      <4>1. (l \o r)[j] = r[j - (i - 1)]
        BY <1>1, <1>2, <1>3, <3>2
      <4>2. j - (i - 1) \in 1..(Len(s) - i) /\ i + (j - (i - 1)) = j + 1
        BY <1>1, <3>2
      <4> QED BY <1>3, <3>2, <4>1, <4>2
    <3> QED BY <3>1, <3>2
  <2> QED BY <2>1, <2>2
<1> QED BY <1>4, <1>5

(* The invariant says what the process's two properties of agents say.      *)
LEMMA RunnerImplies == RunnerInv => Runner!OutputsAreLegitimate /\ Runner!EnvironmentRestored
BY DEF RunnerInv, OutcomesInv, EnvironmentInv, Runner!OutputsAreLegitimate,
       Runner!EnvironmentRestored

LEMMA RunnerInit == Runner!Init => RunnerInv
<1> SUFFICES ASSUME Runner!Init PROVE RunnerInv
  OBVIOUS
<1>1. working = <<>> /\ DOMAIN working = {} /\ working \in Seq(Agents)
  BY DEF Runner!Init
<1>2. saved \in [Agents -> [key : Runner!Values, token : Runner!Values]]
  BY EnvironmentTypes DEF Runner!Init
<1>3. Runner!TypeOK
  BY <1>1, <1>2, EnvironmentTypes DEF Runner!Init, Runner!TypeOK
<1>4. OutcomesInv
  BY DEF Runner!Init, OutcomesInv
<1>5. EnvironmentInv
  BY <1>1 DEF Runner!Init, EnvironmentInv
<1> QED BY <1>3, <1>4, <1>5 DEF RunnerInv

(* The first of an agent's steps.                                           *)
LEMMA BeginKeeps ==
  ASSUME RunnerInv, NEW a \in Agents, Runner!Begin(a) PROVE RunnerInv'
<1> USE DEF RunnerInv, Runner!Begin, Runner!Goto, Runner!envVars
<1>1. CASE signal \/ a \notin Keyed
  <2>1. Runner!TypeOK'
    BY <1>1 DEF Runner!TypeOK
  <2>2. OutcomesInv'
    BY <1>1 DEF OutcomesInv, Runner!TypeOK
  <2>3. EnvironmentInv'
    BY <1>1 DEF EnvironmentInv, Runner!TypeOK
  <2> QED BY <2>1, <2>2, <2>3
<1>2. CASE ~signal /\ a \in Keyed
  <2>1. /\ saved' = [saved EXCEPT ![a] = env] /\ env' = Runner!AgentEnv
        /\ working' = Append(working, a) /\ crossed' = crossed
        /\ at' = [at EXCEPT ![a] = "creating"]
        /\ UNCHANGED <<signal, violated, outcome, late>>
    BY <1>2
  <2>2. /\ working \in Seq(Agents) /\ at \in [Agents -> {"new", "creating", "prompting", "aborting", "over"}]
        /\ saved \in [Agents -> [key : Runner!Values, token : Runner!Values]]
        /\ env \in [key : Runner!Values, token : Runner!Values]
    BY DEF Runner!TypeOK
  <2>3. /\ working' \in Seq(Agents) /\ Len(working') = Len(working) + 1
        /\ working'[Len(working) + 1] = a /\ working' # <<>>
        /\ DOMAIN working' = 1..(Len(working) + 1) /\ DOMAIN working = 1..Len(working)
        /\ Len(working) \in Nat
        /\ \A i \in 1..Len(working) : working'[i] = working[i] /\ working[i] \in Agents
    BY <2>1, <2>2
  <2>4. Runner!TypeOK'
    <3>1. /\ saved' \in [Agents -> [key : Runner!Values, token : Runner!Values]]
          /\ env' \in [key : Runner!Values, token : Runner!Values]
      BY <2>1, <2>2, EnvironmentTypes
    <3>2. at' \in [Agents -> {"new", "creating", "prompting", "aborting", "over"}]
      BY <2>1, <2>2
    <3> QED BY <2>1, <2>3, <3>1, <3>2 DEF Runner!TypeOK
  <2>5. OutcomesInv'
    BY <2>1, <2>2 DEF OutcomesInv
  <2>6. \A i \in 1..Len(working) : working[i] # a
    BY <2>3 DEF EnvironmentInv
  <2>7. \A i \in DOMAIN working' : at'[working'[i]] # "new"
    <3>1. ASSUME NEW i \in 1..Len(working) PROVE at'[working'[i]] # "new"
      <4>1. working'[i] = working[i] /\ working[i] \in Agents /\ working[i] # a
        BY <2>3, <2>6
      <4>2. at[working[i]] # "new"
        BY <2>3 DEF EnvironmentInv
      <4> QED BY <2>1, <2>2, <4>1, <4>2
    <3>2. at'[working'[Len(working) + 1]] # "new"
      BY <2>1, <2>2, <2>3
    <3> QED BY <2>3, <3>1, <3>2
  <2>8. ASSUME ~crossed, NEW i \in DOMAIN working'
        PROVE  saved'[working'[i]] = IF i = 1 THEN Runner!UserEnv ELSE Runner!AgentEnv
    <3>1. CASE i = Len(working) + 1
      <4>1. saved'[working'[i]] = env
        BY <2>1, <2>2, <2>3, <3>1
      <4>2. working = <<>> <=> i = 1
        BY <2>2, <2>3, <3>1
      <4> QED BY <2>8, <4>1, <4>2 DEF EnvironmentInv
    <3>2. CASE i # Len(working) + 1
      <4>1. i \in 1..Len(working)
        BY <2>3, <3>2
      <4>2. saved'[working'[i]] = saved[working[i]]
        BY <2>1, <2>2, <2>3, <2>6, <4>1
      <4> QED BY <2>3, <2>8, <4>1, <4>2 DEF EnvironmentInv
    <3> QED BY <3>1, <3>2
  <2> QED BY <2>1, <2>3, <2>4, <2>5, <2>7, <2>8 DEF EnvironmentInv
<1> QED BY <1>1, <1>2

(* The last one: what it restores is what it saved.                         *)
LEMMA EndKeeps ==
  ASSUME RunnerInv, NEW a \in Agents, at[a] \in {"creating", "prompting", "aborting"},
         NEW verdict \in {"outputs", "violation", "interrupted", "error"},
         verdict = "outputs" => ~signal /\ a \notin violated,
         Runner!End(a, verdict)
  PROVE  RunnerInv'
<1>1. /\ at' = [at EXCEPT ![a] = "over"] /\ outcome' = [outcome EXCEPT ![a] = verdict]
      /\ late' = (IF signal THEN late \cup {a} ELSE late)
      /\ UNCHANGED <<signal, violated, saved>>
      /\ Runner!Restore(a)
  BY DEF Runner!End, Runner!Goto, Runner!Restore
<1>2. /\ working \in Seq(Agents) /\ at \in [Agents -> {"new", "creating", "prompting", "aborting", "over"}]
      /\ outcome \in [Agents -> {"none", "outputs", "violation", "interrupted", "error"}]
      /\ saved \in [Agents -> [key : Runner!Values, token : Runner!Values]]
      /\ crossed \in BOOLEAN
      /\ env \in [key : Runner!Values, token : Runner!Values]
      /\ late \subseteq Agents
  BY DEF RunnerInv, Runner!TypeOK
<1>3. OutcomesInv'
  BY <1>1, <1>2 DEF RunnerInv, OutcomesInv
<1>4. /\ at' \in [Agents -> {"new", "creating", "prompting", "aborting", "over"}]
      /\ outcome' \in [Agents -> {"none", "outputs", "violation", "interrupted", "error"}]
      /\ late' \subseteq Agents
  BY <1>1, <1>2
<1>5. CASE a \notin Keyed
  <2>1. UNCHANGED <<env, working, crossed>>
    BY <1>1, <1>5 DEF Runner!Restore
  <2>2. Runner!TypeOK'
    BY <1>1, <1>4, <2>1 DEF RunnerInv, Runner!TypeOK
  <2>3. EnvironmentInv'
    BY <1>1, <1>2, <2>1 DEF RunnerInv, EnvironmentInv
  <2> QED BY <1>3, <2>2, <2>3 DEF RunnerInv
<1>6. CASE a \in Keyed
  <2>1. PICK i \in DOMAIN working : Runner!Stops(a, i)
    BY <1>1, <1>6 DEF Runner!Restore
  <2>2. /\ env' = saved[a] /\ working[i] = a /\ working' = Runner!RemoveAt(working, i)
        /\ crossed' = (crossed \/ i < Len(working))
    BY <1>1, <1>6, <2>1 DEF Runner!Restore, Runner!Stops
  <2>3. i \in 1..Len(working) /\ Len(working) \in Nat /\ DOMAIN working = 1..Len(working)
    BY <1>2, <2>1
  <2>4. /\ working' \in Seq(Agents) /\ Len(working') = Len(working) - 1
        /\ DOMAIN working' = 1..(Len(working) - 1)
        /\ \A j \in DOMAIN working' : working'[j] = IF j < i THEN working[j] ELSE working[j + 1]
    <3>1. /\ working' \in Seq(Agents) /\ Len(working') = Len(working) - 1
          /\ \A j \in DOMAIN working' : working'[j] = IF j < i THEN working[j] ELSE working[j + 1]
      <4>1. /\ Runner!RemoveAt(working, i) \in Seq(Agents)
            /\ Len(Runner!RemoveAt(working, i)) = Len(working) - 1
            /\ \A j \in DOMAIN Runner!RemoveAt(working, i) :
                 Runner!RemoveAt(working, i)[j] = IF j < i THEN working[j] ELSE working[j + 1]
        BY <1>2, <2>1, Removed
      <4>2. working' = Runner!RemoveAt(working, i)
        BY <2>2
      <4> QED BY <4>1, <4>2
    <3>2. DOMAIN working' = 1..Len(working')
      BY <3>1
    <3> QED BY <3>1, <3>2
  <2>5. Runner!TypeOK'
    BY <1>1, <1>2, <1>4, <2>2, <2>4 DEF RunnerInv, Runner!TypeOK
  <2>6. ASSUME NEW j \in DOMAIN working' PROVE at'[working'[j]] # "new"
    <3>1. \E k \in DOMAIN working : working'[j] = working[k]
      BY <2>3, <2>4
    <3>2. PICK k \in DOMAIN working : working'[j] = working[k]
      BY <3>1
    <3> QED BY <1>1, <1>2, <2>3, <3>2 DEF RunnerInv, EnvironmentInv
  <2>7. ASSUME ~crossed'
        PROVE  /\ env' = (IF working' = <<>> THEN Runner!UserEnv ELSE Runner!AgentEnv)
               /\ \A j \in DOMAIN working' :
                    saved'[working'[j]] = IF j = 1 THEN Runner!UserEnv ELSE Runner!AgentEnv
    <3>1. ~crossed /\ i = Len(working)
      <4>1. ~crossed /\ ~(i < Len(working))
        BY <2>2, <2>7, Zenon
      <4> QED BY <2>3, <4>1
    <3>2. working' = <<>> <=> i = 1
      BY <2>3, <2>4, <3>1
    <3>3. env' = IF i = 1 THEN Runner!UserEnv ELSE Runner!AgentEnv
      BY <2>1, <2>2, <3>1 DEF RunnerInv, EnvironmentInv
    <3>4. ASSUME NEW j \in DOMAIN working'
          PROVE  saved'[working'[j]] = IF j = 1 THEN Runner!UserEnv ELSE Runner!AgentEnv
      <4>1. j \in DOMAIN working /\ working'[j] = working[j]
        BY <2>3, <2>4, <3>1
      <4> QED BY <1>1, <3>1, <4>1 DEF RunnerInv, EnvironmentInv
    <3> QED BY <3>2, <3>3, <3>4
  <2> QED BY <1>3, <2>5, <2>6, <2>7 DEF RunnerInv, EnvironmentInv
<1> QED BY <1>5, <1>6

LEMMA RunnerNext == RunnerInv /\ Runner!Next => RunnerInv'
<1> SUFFICES ASSUME RunnerInv, Runner!Next PROVE RunnerInv'
  OBVIOUS
<1>1. CASE Runner!Interrupt
  BY <1>1 DEF Runner!Interrupt, RunnerInv, Runner!TypeOK, OutcomesInv, EnvironmentInv, Runner!envVars
<1>2. ASSUME NEW a \in Agents, Runner!Begin(a) PROVE RunnerInv'
  BY <1>2, BeginKeeps
<1>3. ASSUME NEW a \in Agents,
             Runner!SessionReady(a) \/ Runner!ToolCallOutOfScope(a) \/ Runner!HearInterrupt(a)
      PROVE  RunnerInv'
  <2>1. /\ at[a] \in {"creating", "prompting", "aborting"}
        /\ \/ at' = [at EXCEPT ![a] = "prompting"]
           \/ at' = [at EXCEPT ![a] = "aborting"]
        /\ violated' \in {violated, violated \cup {a}}
        /\ UNCHANGED <<env, saved, working, crossed, signal, outcome, late>>
    BY <1>3 DEF Runner!SessionReady, Runner!ToolCallOutOfScope, Runner!HearInterrupt, Runner!Goto,
                Runner!envVars
  <2>2. Runner!TypeOK'
    BY <2>1 DEF RunnerInv, Runner!TypeOK
  <2>3. OutcomesInv'
    BY <2>1 DEF RunnerInv, Runner!TypeOK, OutcomesInv
  <2>4. EnvironmentInv'
    BY <2>1 DEF RunnerInv, Runner!TypeOK, EnvironmentInv
  <2> QED BY <2>2, <2>3, <2>4 DEF RunnerInv
<1>4. ASSUME NEW a \in Agents, Runner!CreateFails(a) \/ Runner!PromptEnds(a) PROVE RunnerInv'
  <2>1. PICK stop \in {"throws", "error", "aborted", "stop"} :
          /\ at[a] \in {"creating", "prompting", "aborting"}
          /\ Runner!End(a, Runner!Verdict(a, stop))
    BY <1>4 DEF Runner!CreateFails, Runner!PromptEnds
  <2>2. /\ Runner!Verdict(a, stop) \in {"outputs", "violation", "interrupted", "error"}
        /\ Runner!Verdict(a, stop) = "outputs" => ~signal /\ a \notin violated
    BY DEF Runner!Verdict
  <2> QED BY <2>1, <2>2, EndKeeps
<1> QED BY <1>1, <1>2, <1>3, <1>4 DEF Runner!Next

-----------------------------------------------------------------------------
(* The methods of the reply tracker, shared by the intercom and the         *)
(* tracker's other users: what each does to the pending asks.               *)

LEMMA MailTracker == Mail!TrackerAssumption
BY MachinesAssumption

LEMMA TrackerParts ==
  ASSUME NEW t \in Mail!Trackers
  PROVE  /\ t.pending \subseteq Asks /\ t.at \in [Asks -> Nat]
         /\ t.turns \in Seq(Asks) /\ t.current \in Asks \cup {NoAsk}
         /\ t = [pending |-> t.pending, at |-> t.at, turns |-> t.turns, current |-> t.current]
BY DEF Mail!Trackers

LEMMA NewTrackerIsOne ==
  Mail!NewTracker \in Mail!Trackers /\ Mail!NewTracker.pending = {}
<1>1. <<>> \in Seq(Asks) /\ [a \in Asks |-> 0] \in [Asks -> Nat] /\ {} \in SUBSET Asks
      /\ NoAsk \in Asks \cup {NoAsk}
  OBVIOUS
<1> QED BY <1>1 DEF Mail!Trackers, Mail!NewTracker

(* Pruning forgets what expired.                                            *)
LEMMA Pruned ==
  ASSUME NEW t \in Mail!Trackers, NEW n \in Nat
  PROVE  /\ Mail!Prune(t, n) \in Mail!Trackers
         /\ Mail!Prune(t, n).pending = t.pending \ Mail!Expired(t, n)
         /\ Mail!Prune(t, n).turns = t.turns
         /\ Mail!Expired(t, n) \subseteq t.pending
<1> DEFINE left == t.pending \ Mail!Expired(t, n)
<1>1. Mail!Expired(t, n) \subseteq t.pending
  BY DEF Mail!Expired
<1>2. Mail!Prune(t, n) = [t EXCEPT !.pending = left,
                                   !.current = IF t.current \in left THEN t.current ELSE NoAsk]
  BY DEF Mail!Prune
<1>3. left \in SUBSET Asks
  BY TrackerParts
<1> HIDE DEF left
<1>4. (IF t.current \in left THEN t.current ELSE NoAsk) \in Asks \cup {NoAsk}
  BY TrackerParts
<1>5. /\ Mail!Prune(t, n) \in Mail!Trackers /\ Mail!Prune(t, n).pending = left
      /\ Mail!Prune(t, n).turns = t.turns
  BY <1>2, <1>3, <1>4, TrackerParts DEF Mail!Trackers
<1> QED BY <1>1, <1>5 DEF left

LEMMA Recorded ==
  ASSUME NEW t \in Mail!Trackers, NEW a \in Asks, NEW n \in Nat
  PROVE  /\ Mail!RecordAsk(t, a, n) \in Mail!Trackers
         /\ Mail!RecordAsk(t, a, n).pending = t.pending \cup {a}
         /\ Mail!QueueTurn(t, a, n) \in Mail!Trackers
         /\ Mail!QueueTurn(t, a, n).pending = t.pending \cup {a}
<1>1. t.pending \cup {a} \in SUBSET Asks /\ [t.at EXCEPT ![a] = n] \in [Asks -> Nat]
      /\ Append(t.turns, a) \in Seq(Asks)
  BY TrackerParts
<1>2. Mail!RecordAsk(t, a, n) = [t EXCEPT !.pending = t.pending \cup {a},
                                          !.at = [t.at EXCEPT ![a] = n]]
  BY TrackerParts DEF Mail!RecordAsk
<1>3. /\ Mail!RecordAsk(t, a, n) \in Mail!Trackers
      /\ Mail!RecordAsk(t, a, n).pending = t.pending \cup {a}
      /\ Mail!RecordAsk(t, a, n).turns = t.turns
  BY <1>1, <1>2, TrackerParts DEF Mail!Trackers
<1>4. Mail!QueueTurn(t, a, n) = [Mail!RecordAsk(t, a, n) EXCEPT !.turns = Append(t.turns, a)]
  BY <1>3 DEF Mail!QueueTurn
<1>5. /\ Mail!QueueTurn(t, a, n) \in Mail!Trackers
      /\ Mail!QueueTurn(t, a, n).pending = t.pending \cup {a}
  BY <1>1, <1>3, <1>4 DEF Mail!Trackers
<1> QED BY <1>3, <1>5

LEMMA Marked ==
  ASSUME NEW t \in Mail!Trackers, NEW a \in Asks
  PROVE  /\ Mail!MarkReplied(t, a) \in Mail!Trackers
         /\ Mail!MarkReplied(t, a).pending = t.pending \ {a}
BY TrackerParts DEF Mail!MarkReplied, Mail!Trackers

(* A turn that begins or ends adds no pending ask.                          *)
LEMMA Turned ==
  ASSUME NEW t \in Mail!Trackers, NEW n \in Nat
  PROVE  /\ Mail!BeginTurn(t, n) \in Mail!Trackers /\ Mail!EndTurn(t) \in Mail!Trackers
         /\ Mail!BeginTurn(t, n).pending \subseteq t.pending
         /\ Mail!EndTurn(t).pending = t.pending
<1>1. Mail!EndTurn(t) \in Mail!Trackers /\ Mail!EndTurn(t).pending = t.pending
  BY TrackerParts DEF Mail!EndTurn, Mail!Trackers
<1> DEFINE p == Mail!Prune(t, n)
<1>2. p \in Mail!Trackers /\ p.pending \subseteq t.pending
  BY Pruned
<1>3. Mail!BeginTurn(t, n) = IF p.turns = <<>> THEN [p EXCEPT !.current = NoAsk]
                             ELSE [p EXCEPT !.current = Head(p.turns), !.turns = Tail(p.turns)]
  BY DEF Mail!BeginTurn
<1> HIDE DEF p
<1>4. CASE p.turns = <<>>
  BY <1>1, <1>2, <1>3, <1>4, TrackerParts DEF Mail!Trackers
<1>5. CASE p.turns # <<>>
  <2>1. Head(p.turns) \in Asks /\ Tail(p.turns) \in Seq(Asks)
    BY <1>2, <1>5, TrackerParts
  <2> QED BY <1>1, <1>2, <1>3, <1>5, <2>1, TrackerParts DEF Mail!Trackers
<1> QED BY <1>4, <1>5

(* A reply answers an ask that is pending and has not expired.              *)
LEMMA TargetIsPending ==
  ASSUME NEW t \in Mail!Trackers, NEW n \in Nat, NEW replyTo \in Asks \cup {NoAsk},
         NEW to \in Sessions \cup {Anyone}, Mail!Target(t, replyTo, to, n) # NoAsk
  PROVE  Mail!Target(t, replyTo, to, n) \in t.pending \ Mail!Expired(t, n)
<1> DEFINE p == Mail!Prune(t, n)
<1> DEFINE matching == {a \in p.pending : to \in {Anyone, Sender[a]}}
<1>1. matching \subseteq t.pending \ Mail!Expired(t, n)
  BY Pruned
<1>2. Mail!Target(t, replyTo, to, n) =
        CASE replyTo # NoAsk -> IF replyTo \in matching THEN replyTo ELSE NoAsk
          [] replyTo = NoAsk /\ p.current \in matching -> p.current
          [] OTHER -> IF \E a \in matching : matching = {a}
                      THEN CHOOSE a \in matching : TRUE ELSE NoAsk
  BY DEF Mail!Target
<1> HIDE DEF matching
<1>3. CASE replyTo # NoAsk
  BY <1>1, <1>2, <1>3
<1>4. CASE replyTo = NoAsk /\ p.current \in matching
  BY <1>1, <1>2, <1>4
<1>5. CASE replyTo = NoAsk /\ p.current \notin matching
  <2>1. \E a \in matching : TRUE
    BY <1>2, <1>5
  <2>2. (CHOOSE a \in matching : TRUE) \in matching
    BY <2>1
  <2>3. Mail!Target(t, replyTo, to, n) = CHOOSE a \in matching : TRUE
    BY <1>2, <1>5
  <2> QED BY <1>1, <2>2, <2>3
<1> QED BY <1>3, <1>4, <1>5

-----------------------------------------------------------------------------
(* The asks of the intercom.                                                *)

(* An ask that is pending was delivered once more than it was answered.     *)
AnswersInv ==
  \A a \in Asks : /\ answered[a] <= delivered[a]
                  /\ a \in tracker.pending => answered[a] < delivered[a]

(* What a call works on; a record that says replied has its answer.         *)
RepliedInv ==
  /\ \A c \in Calls : /\ call[c].at \in {"replying", "marking"} => call[c].ask \in Asks
                      /\ call[c].at = "replying" => answered[call[c].ask] >= 1
                      /\ record[c] = "replied" => call[c].at = "done"
  /\ \A a \in Asks : record[a] = "replied" => answered[a] >= 1

(* An ask about to be marked expired was never answered and is not pending, *)
(* unless it was delivered again.                                           *)
Expires(c, a) ==
  \/ call[c].at \in {"expiring", "marking"} /\ a \in call[c].todo
  \/ call[c].at = "marking" /\ call[c].ask = a
ExpiryInv ==
  \A c \in Calls, a \in Asks :
    Expires(c, a) => /\ delivered[a] >= 1
                     /\ delivered[a] > 1 \/ (answered[a] = 0 /\ a \notin tracker.pending)

MailInv ==
  /\ Mail!TypeOK /\ AnswersInv /\ RepliedInv /\ ExpiryInv /\ Mail!WaitingIsTracked

-----------------------------------------------------------------------------
(* The reply tracker's methods in any order.                                *)

TurnsInv ==
  /\ Turns!TypeOK
  /\ \A a \in Asks : /\ replied[a] <= asked[a]
                     /\ a \in turnTracker.pending => replied[a] < asked[a]

(* The same methods.                                                        *)
LEMMA OneTracker ==
  /\ Turns!Trackers = Mail!Trackers /\ Turns!NewTracker = Mail!NewTracker
  /\ \A t, n : /\ Turns!Expired(t, n) = Mail!Expired(t, n) /\ Turns!Prune(t, n) = Mail!Prune(t, n)
               /\ Turns!BeginTurn(t, n) = Mail!BeginTurn(t, n)
  /\ \A t : Turns!EndTurn(t) = Mail!EndTurn(t)
  /\ \A t, a : Turns!MarkReplied(t, a) = Mail!MarkReplied(t, a)
  /\ \A t, a, n : /\ Turns!RecordAsk(t, a, n) = Mail!RecordAsk(t, a, n)
                  /\ Turns!QueueTurn(t, a, n) = Mail!QueueTurn(t, a, n)
  /\ \A t, a, to, n : Turns!Target(t, a, to, n) = Mail!Target(t, a, to, n)
<1>1. Turns!Trackers = Mail!Trackers /\ Turns!NewTracker = Mail!NewTracker
  BY DEF Turns!Trackers, Mail!Trackers, Turns!NewTracker, Mail!NewTracker
<1>2. \A t, n : Turns!Expired(t, n) = Mail!Expired(t, n)
  BY DEF Turns!Expired, Mail!Expired
<1>3. \A t, n : Turns!Prune(t, n) = Mail!Prune(t, n)
  BY <1>2 DEF Turns!Prune, Mail!Prune
<1>4. \A t, n : Turns!BeginTurn(t, n) = Mail!BeginTurn(t, n)
  BY <1>3 DEF Turns!BeginTurn, Mail!BeginTurn
<1>5. /\ \A t : Turns!EndTurn(t) = Mail!EndTurn(t)
      /\ \A t, a : Turns!MarkReplied(t, a) = Mail!MarkReplied(t, a)
  BY DEF Turns!EndTurn, Mail!EndTurn, Turns!MarkReplied, Mail!MarkReplied
<1>6. \A t, a, n : Turns!RecordAsk(t, a, n) = Mail!RecordAsk(t, a, n)
  BY DEF Turns!RecordAsk, Mail!RecordAsk
<1>7. \A t, a, n : Turns!QueueTurn(t, a, n) = Mail!QueueTurn(t, a, n)
  BY <1>6 DEF Turns!QueueTurn, Mail!QueueTurn
<1>8. \A t, a, to, n : Turns!Target(t, a, to, n) = Mail!Target(t, a, to, n)
  BY <1>3 DEF Turns!Target, Mail!Target
<1> QED BY <1>1, <1>2, <1>3, <1>4, <1>5, <1>6, <1>7, <1>8

LEMMA Clocks == MaxTime \in Nat /\ Redeliveries \in Nat /\ StoreErrors \in Nat /\ Restarts \in Nat
                /\ Deliveries \in Nat /\ LastTick \in Nat /\ Asks \cap Calls = {}
<1>1. {Redeliveries, StoreErrors, Restarts, MaxTime} \subseteq Nat /\ Asks \cap Calls = {}
  BY MachinesAssumption DEF Mail!IntercomAssumption
<1>2. {Deliveries, LastTick} \subseteq Nat
  BY MachinesAssumption DEF Turns!TurnsAssumption
<1> QED BY <1>1, <1>2

LEMMA TurnsInit == Turns!Init => TurnsInv
<1> SUFFICES ASSUME Turns!Init PROVE TurnsInv
  OBVIOUS
<1>1. turnTracker \in Turns!Trackers /\ turnTracker.pending = {}
  BY OneTracker, NewTrackerIsOne DEF Turns!Init
<1>2. clock \in 0..LastTick /\ 0 \in 0..Deliveries
  BY Clocks DEF Turns!Init
<1>3. asked = [a \in Asks |-> 0] /\ replied = [a \in Asks |-> 0]
  BY DEF Turns!Init
<1>4. asked \in [Asks -> 0..Deliveries] /\ replied \in [Asks -> Nat]
  BY <1>2, <1>3
<1>5. Turns!TypeOK
  BY <1>1, <1>2, <1>4 DEF Turns!TypeOK
<1> QED BY <1>1, <1>3, <1>5 DEF TurnsInv

LEMMA TurnsNext == TurnsInv /\ Turns!Next => TurnsInv'
<1> SUFFICES ASSUME TurnsInv, Turns!Next PROVE TurnsInv'
  OBVIOUS
<1>1. /\ turnTracker \in Mail!Trackers /\ clock \in 0..LastTick /\ clock \in Nat
      /\ asked \in [Asks -> 0..Deliveries] /\ replied \in [Asks -> Nat]
      /\ Deliveries \in Nat /\ LastTick \in Nat
  BY OneTracker, Clocks DEF TurnsInv, Turns!TypeOK
<1>2. CASE Turns!Tick
  <2>1. clock' \in 0..LastTick
    BY <1>1, <1>2 DEF Turns!Tick
  <2> QED BY <1>2, <2>1 DEF Turns!Tick, TurnsInv, Turns!TypeOK
<1>3. CASE Turns!Turn
  <2>1. /\ turnTracker' \in {Mail!BeginTurn(turnTracker, clock), Mail!EndTurn(turnTracker),
                             Mail!NewTracker, Mail!Prune(turnTracker, clock)}
        /\ UNCHANGED <<clock, asked, replied>>
    BY <1>3, OneTracker DEF Turns!Turn
  <2>2. turnTracker' \in Mail!Trackers /\ turnTracker'.pending \subseteq turnTracker.pending
    <3>1. /\ Mail!BeginTurn(turnTracker, clock) \in Mail!Trackers
          /\ Mail!BeginTurn(turnTracker, clock).pending \subseteq turnTracker.pending
          /\ Mail!EndTurn(turnTracker) \in Mail!Trackers
          /\ Mail!EndTurn(turnTracker).pending = turnTracker.pending
      BY <1>1, Turned
    <3>2. /\ Mail!Prune(turnTracker, clock) \in Mail!Trackers
          /\ Mail!Prune(turnTracker, clock).pending \subseteq turnTracker.pending
      BY <1>1, Pruned
    <3>3. Mail!NewTracker \in Mail!Trackers /\ Mail!NewTracker.pending \subseteq turnTracker.pending
      BY NewTrackerIsOne
    <3> QED BY <2>1, <3>1, <3>2, <3>3
  <2>3. Turns!TypeOK'
    BY <1>1, <2>1, <2>2, OneTracker DEF Turns!TypeOK
  <2> QED BY <2>1, <2>2, <2>3 DEF TurnsInv
<1>4. CASE Turns!Reply
  <2>1. PICK replyTo \in Asks \cup {NoAsk}, to \in Sessions \cup {Anyone} :
          LET a == Turns!Target(turnTracker, replyTo, to, clock)
          IN /\ a # NoAsk
             /\ turnTracker' = Turns!MarkReplied(Turns!Prune(turnTracker, clock), a)
             /\ replied' = [replied EXCEPT ![a] = @ + 1]
    BY <1>4 DEF Turns!Reply
  <2> DEFINE a == Mail!Target(turnTracker, replyTo, to, clock)
  <2>2. /\ a # NoAsk /\ turnTracker' = Mail!MarkReplied(Mail!Prune(turnTracker, clock), a)
        /\ replied' = [replied EXCEPT ![a] = replied[a] + 1]
        /\ UNCHANGED <<clock, asked>>
    BY <1>4, <2>1, OneTracker DEF Turns!Reply
  <2>3. a \in turnTracker.pending /\ a \in Asks
    BY <1>1, <2>2, TargetIsPending, TrackerParts
  <2> HIDE DEF a
  <2>4. /\ turnTracker' \in Mail!Trackers /\ turnTracker'.pending \subseteq turnTracker.pending
        /\ a \notin turnTracker'.pending
    <3> DEFINE p == Mail!Prune(turnTracker, clock)
    <3>1. p \in Mail!Trackers /\ p.pending \subseteq turnTracker.pending
      BY <1>1, Pruned
    <3>2. turnTracker' = Mail!MarkReplied(p, a)
      BY <2>2
    <3> HIDE DEF p
    <3>3. Mail!MarkReplied(p, a) \in Mail!Trackers /\ Mail!MarkReplied(p, a).pending = p.pending \ {a}
      BY <2>3, <3>1, Marked
    <3> QED BY <3>1, <3>2, <3>3
  <2>5. Turns!TypeOK'
    BY <1>1, <2>2, <2>3, <2>4, OneTracker DEF Turns!TypeOK
  <2>6. ASSUME NEW b \in Asks
        PROVE  /\ replied'[b] <= asked'[b]
               /\ b \in turnTracker'.pending => replied'[b] < asked'[b]
    <3>1. CASE b = a
      <4>1. replied[b] < asked[b] /\ replied'[b] = replied[b] + 1 /\ asked'[b] = asked[b]
        BY <1>1, <2>2, <2>3, <3>1 DEF TurnsInv
      <4> QED BY <1>1, <2>4, <3>1, <4>1
    <3>2. CASE b # a
      BY <1>1, <2>2, <2>4, <3>2 DEF TurnsInv
    <3> QED BY <3>1, <3>2
  <2> QED BY <2>5, <2>6 DEF TurnsInv
<1>5. ASSUME NEW a \in Asks, Turns!Receive(a) PROVE TurnsInv'
  <2>1. /\ asked[a] < Deliveries /\ asked' = [asked EXCEPT ![a] = asked[a] + 1]
        /\ turnTracker' \in {Mail!RecordAsk(turnTracker, a, clock), Mail!QueueTurn(turnTracker, a, clock)}
        /\ UNCHANGED <<clock, replied>>
    BY <1>5, OneTracker DEF Turns!Receive
  <2>2. turnTracker' \in Mail!Trackers /\ turnTracker'.pending = turnTracker.pending \cup {a}
    BY <1>1, <2>1, Recorded
  <2>3. asked' \in [Asks -> 0..Deliveries]
    BY <1>1, <2>1
  <2>4. Turns!TypeOK'
    BY <1>1, <2>1, <2>2, <2>3, OneTracker DEF Turns!TypeOK
  <2>5. ASSUME NEW b \in Asks
        PROVE  /\ replied'[b] <= asked'[b]
               /\ b \in turnTracker'.pending => replied'[b] < asked'[b]
    BY <1>1, <2>1, <2>2 DEF TurnsInv
  <2> QED BY <2>4, <2>5 DEF TurnsInv
<1> QED BY <1>2, <1>3, <1>4, <1>5 DEF Turns!Next

-----------------------------------------------------------------------------
(* A step of the intercom keeps its invariant and loses no answer.          *)

Kept == \A m \in Asks \cup Calls :
          record[m] = "replied" /\ record'[m] # "replied" => m \in Asks /\ delivered'[m] > 1
Points == {"idle", "replying", "sending", "expiring", "marking", "asking", "answering",
           "refusing", "done", "threw"}
CallType == [at : Points, ask : Asks \cup {NoAsk}, todo : SUBSET Asks]

LEMMA MailTypes ==
  ASSUME Mail!TypeOK
  PROVE  /\ tracker \in Mail!Trackers /\ now \in Nat /\ now \in 0..MaxTime
         /\ record \in [Asks \cup Calls -> Mail!Status]
         /\ call \in [Calls -> CallType]
         /\ delivered \in [Asks -> Nat] /\ answered \in [Asks -> Nat]
         /\ forgotten \subseteq Asks
BY Clocks DEF Mail!TypeOK, CallType, Points

LEMMA MailTypesNext ==
  ASSUME tracker' \in Mail!Trackers, now' \in 0..MaxTime,
         record' \in [Asks \cup Calls -> Mail!Status],
         call' \in [Calls -> CallType],
         delivered' \in [Asks -> Nat], answered' \in [Asks -> Nat],
         forgotten' \subseteq Asks, errors' \in 0..StoreErrors, restarts' \in 0..Restarts
  PROVE  Mail!TypeOK'
BY DEF Mail!TypeOK, CallType, Points

LEMMA CallParts ==
  ASSUME NEW x \in CallType
  PROVE  x = [at |-> x.at, ask |-> x.ask, todo |-> x.todo]
BY DEF CallType

(* What a call's step and a put change.                                     *)
LEMMA Went ==
  ASSUME Mail!TypeOK, NEW c \in Calls, NEW where \in Points, Mail!Goto(c, where)
  PROVE  /\ call' \in [Calls -> CallType]
         /\ call'[c].at = where /\ call'[c].ask = call[c].ask /\ call'[c].todo = call[c].todo
         /\ \A d \in Calls : d # c => call'[d] = call[d]
<1>1. call \in [Calls -> CallType]
  BY MailTypes
<1>2. call' = [call EXCEPT ![c] = [call[c] EXCEPT !.at = where]]
  BY DEF Mail!Goto
<1>3. [call[c] EXCEPT !.at = where] \in CallType
  BY <1>1 DEF CallType
<1>4. call'[c] = [call[c] EXCEPT !.at = where] /\ \A d \in Calls : d # c => call'[d] = call[d]
  BY <1>1, <1>2
<1>5. call[c] \in CallType
  BY <1>1
<1> QED BY <1>1, <1>2, <1>3, <1>4, <1>5 DEF CallType

LEMMA WasPut ==
  ASSUME Mail!TypeOK, NEW m \in Asks \cup Calls, NEW status \in Mail!Status, Mail!Put(m, status)
  PROVE  /\ record' \in [Asks \cup Calls -> Mail!Status]
         /\ record'[m] = status
         /\ \A n \in Asks \cup Calls : n # m => record'[n] = record[n]
<1>1. record \in [Asks \cup Calls -> Mail!Status]
  BY MailTypes
<1> QED BY <1>1 DEF Mail!Put

LEMMA MailInit == Mail!Init => MailInv
<1> SUFFICES ASSUME Mail!Init PROVE MailInv
  OBVIOUS
<1>1. tracker \in Mail!Trackers /\ tracker.pending = {}
  BY NewTrackerIsOne DEF Mail!Init
<1>2. delivered = [a \in Asks |-> 0] /\ answered = [a \in Asks |-> 0] /\ forgotten = {}
      /\ now = 0 /\ errors = 0 /\ restarts = 0
  BY DEF Mail!Init
<1>3. record = [m \in Asks \cup Calls |-> "none"]
  BY DEF Mail!Init
<1>4. call = [c \in Calls |-> Mail!Idle] /\ Mail!Idle.at = "idle" /\ Mail!Idle \in CallType
  BY DEF Mail!Init, Mail!Idle, CallType, Points
<1>5. call \in [Calls -> CallType] /\ record \in [Asks \cup Calls -> Mail!Status]
  BY <1>3, <1>4 DEF Mail!Status
<1>6. now \in 0..MaxTime /\ errors \in 0..StoreErrors /\ restarts \in 0..Restarts
  BY <1>2, Clocks
<1>7. delivered \in [Asks -> Nat] /\ answered \in [Asks -> Nat] /\ forgotten \subseteq Asks
  BY <1>2
<1>8. Mail!TypeOK
  BY <1>1, <1>5, <1>6, <1>7 DEF Mail!TypeOK, CallType, Points
<1>9. AnswersInv
  BY <1>1, <1>2 DEF AnswersInv
<1>10. RepliedInv
  BY <1>3, <1>4 DEF RepliedInv
<1>11. ExpiryInv
  BY <1>4 DEF ExpiryInv, Expires
<1>12. Mail!WaitingIsTracked
  BY <1>3 DEF Mail!WaitingIsTracked
<1> QED BY <1>8, <1>9, <1>10, <1>11, <1>12 DEF MailInv

(* The steps of a call that only change its place and one record.           *)
LEMMA CallStep ==
  ASSUME MailInv, NEW c \in Calls,
         UNCHANGED <<tracker, now, delivered, answered, forgotten, restarts>>,
         call' \in [Calls -> CallType], record' \in [Asks \cup Calls -> Mail!Status],
         errors' \in 0..StoreErrors
  PROVE  Mail!TypeOK' /\ AnswersInv'
<1>1. Mail!TypeOK
  BY DEF MailInv
<1>2. restarts' \in 0..Restarts
  BY <1>1 DEF Mail!TypeOK
<1>3. Mail!TypeOK'
  BY <1>1, <1>2, MailTypes, MailTypesNext
<1>4. AnswersInv'
  BY DEF MailInv, AnswersInv
<1> QED BY <1>3, <1>4

LEMMA PutRepliedKeeps ==
  ASSUME MailInv, NEW c \in Calls, Mail!PutReplied(c) PROVE MailInv' /\ Kept
<1>1. /\ call[c].at = "replying" /\ call[c].ask \in Asks /\ answered[call[c].ask] >= 1
      /\ Mail!TypeOK
  BY DEF Mail!PutReplied, MailInv, RepliedInv
<1>2. /\ UNCHANGED <<tracker, now, delivered, answered, forgotten, errors, restarts>>
      /\ Mail!Put(call[c].ask, "replied") /\ Mail!Goto(c, "sending")
  BY DEF Mail!PutReplied
<1>3. /\ call' \in [Calls -> CallType] /\ call'[c].at = "sending"
      /\ call'[c].ask = call[c].ask /\ call'[c].todo = call[c].todo
      /\ \A d \in Calls : d # c => call'[d] = call[d]
  BY <1>1, <1>2, Went DEF Points
<1>4. /\ record' \in [Asks \cup Calls -> Mail!Status] /\ record'[call[c].ask] = "replied"
      /\ \A n \in Asks \cup Calls : n # call[c].ask => record'[n] = record[n]
  BY <1>1, <1>2, WasPut DEF Mail!Status
<1>5. errors' \in 0..StoreErrors
  BY <1>1, <1>2 DEF Mail!TypeOK
<1>6. Mail!TypeOK' /\ AnswersInv'
  BY <1>2, <1>3, <1>4, <1>5, CallStep
<1>7. \A d \in Calls : record'[d] = record[d]
  BY <1>1, <1>4, Clocks
<1>8. RepliedInv'
  BY <1>1, <1>2, <1>3, <1>4, <1>7 DEF MailInv, RepliedInv
<1>9. ExpiryInv'
  BY <1>1, <1>2, <1>3 DEF MailInv, ExpiryInv, Expires
<1>10. Mail!WaitingIsTracked'
  BY <1>1, <1>2, <1>3, <1>4, <1>7 DEF MailInv, Mail!WaitingIsTracked, Mail!Working
<1>11. Kept
  BY <1>4 DEF Kept
<1> QED BY <1>6, <1>8, <1>9, <1>10, <1>11 DEF MailInv

(* A call puts its own record: sent, waiting for the answer, or what came.  *)
LEMMA OwnRecordKeeps ==
  ASSUME MailInv, NEW c \in Calls, Mail!PutSent(c) \/ Mail!Ask(c) \/ Mail!MarkRecord(c)
  PROVE  MailInv' /\ Kept
<1>1. Mail!TypeOK
  BY DEF MailInv
<1>2. PICK where \in Points, status \in Mail!Status :
        /\ call[c].at \in {"idle", "sending", "answering", "refusing"}
        /\ where \in {"asking", "done"} /\ status # "none"
        /\ status = "waiting" => where = "asking"
        /\ status = "replied" => where = "done"
        /\ Mail!Put(c, status) /\ Mail!Goto(c, where)
        /\ UNCHANGED <<tracker, now, delivered, answered, forgotten, errors, restarts>>
  <2>1. CASE Mail!PutSent(c)
    BY <2>1 DEF Mail!PutSent, Points, Mail!Status
  <2>2. CASE Mail!Ask(c)
    BY <2>2 DEF Mail!Ask, Points, Mail!Status
  <2>3. CASE Mail!MarkRecord(c)
    BY <2>3 DEF Mail!MarkRecord, Points, Mail!Status
  <2> QED BY <2>1, <2>2, <2>3
<1>3. /\ call' \in [Calls -> CallType] /\ call'[c].at = where
      /\ call'[c].ask = call[c].ask /\ call'[c].todo = call[c].todo
      /\ \A d \in Calls : d # c => call'[d] = call[d]
  BY <1>1, <1>2, Went
<1>4. /\ record' \in [Asks \cup Calls -> Mail!Status] /\ record'[c] = status
      /\ \A n \in Asks \cup Calls : n # c => record'[n] = record[n]
  BY <1>1, <1>2, WasPut
<1>5. errors' \in 0..StoreErrors
  BY <1>1, <1>2 DEF Mail!TypeOK
<1>6. Mail!TypeOK' /\ AnswersInv'
  BY <1>2, <1>3, <1>4, <1>5, CallStep
<1>7. \A a \in Asks : record'[a] = record[a]
  BY <1>4, Clocks
<1>8. RepliedInv'
  BY <1>2, <1>3, <1>4, <1>7 DEF MailInv, RepliedInv
<1>9. ExpiryInv'
  BY <1>2, <1>3 DEF MailInv, ExpiryInv, Expires
<1>10. Mail!WaitingIsTracked'
  BY <1>2, <1>3, <1>4, <1>7 DEF MailInv, Mail!WaitingIsTracked, Mail!Working
<1>11. Kept
  BY <1>2, <1>4 DEF Kept, MailInv, RepliedInv
<1> QED BY <1>6, <1>8, <1>9, <1>10, <1>11 DEF MailInv

(* The tool comes back, or the store fails under a call.                    *)
LEMMA ComesBackKeeps ==
  ASSUME MailInv, NEW c \in Calls, Mail!ToolAnswers(c) \/ Mail!StoreFails(c)
  PROVE  MailInv' /\ Kept
<1>1. Mail!TypeOK
  BY DEF MailInv
<1>2. PICK where \in Points :
        /\ \/ call[c].at = "asking" /\ where \in {"answering", "refusing", "threw"}
           \/ /\ call[c].at \in {"replying", "sending", "expiring", "marking", "answering", "refusing"}
              /\ where = "threw"
        /\ Mail!Goto(c, where)
        /\ UNCHANGED <<tracker, now, record, delivered, answered, forgotten, restarts>>
        /\ errors' = errors \/ (errors < StoreErrors /\ errors' = errors + 1)
  <2>1. CASE Mail!ToolAnswers(c)
    BY <2>1 DEF Mail!ToolAnswers, Points
  <2>2. CASE Mail!StoreFails(c)
    BY <2>2 DEF Mail!StoreFails, Points
  <2> QED BY <2>1, <2>2
<1>3. /\ call' \in [Calls -> CallType] /\ call'[c].at = where
      /\ call'[c].ask = call[c].ask /\ call'[c].todo = call[c].todo
      /\ \A d \in Calls : d # c => call'[d] = call[d]
  BY <1>1, <1>2, Went
<1>4. errors' \in 0..StoreErrors /\ record' \in [Asks \cup Calls -> Mail!Status]
  <2>1. errors \in 0..StoreErrors /\ StoreErrors \in Nat
    BY <1>1, Clocks DEF Mail!TypeOK
  <2> QED BY <1>1, <1>2, <2>1, MailTypes
<1>5. Mail!TypeOK' /\ AnswersInv'
  BY <1>2, <1>3, <1>4, CallStep
<1>6. RepliedInv'
  BY <1>2, <1>3 DEF MailInv, RepliedInv
<1>7. ExpiryInv'
  BY <1>2, <1>3 DEF MailInv, ExpiryInv, Expires
<1>8. Mail!WaitingIsTracked'
  BY <1>2, <1>3 DEF MailInv, Mail!WaitingIsTracked, Mail!Working
<1>9. Kept
  BY <1>2 DEF Kept
<1> QED BY <1>5, <1>6, <1>7, <1>8, <1>9 DEF MailInv

(* A call marks what it found expired, one record after the other.          *)
LEMMA PutExpiredKeeps ==
  ASSUME MailInv, NEW c \in Calls, Mail!PutExpired(c) PROVE MailInv' /\ Kept
<1>1. call[c].at = "marking" /\ call[c].ask \in Asks /\ Mail!TypeOK
  BY DEF Mail!PutExpired, MailInv, RepliedInv
<1>2. /\ UNCHANGED <<tracker, now, delivered, answered, forgotten, errors, restarts>>
      /\ Mail!Put(call[c].ask, "expired") /\ Mail!Goto(c, "expiring")
  BY DEF Mail!PutExpired
<1>3. /\ call' \in [Calls -> CallType] /\ call'[c].at = "expiring"
      /\ call'[c].ask = call[c].ask /\ call'[c].todo = call[c].todo
      /\ \A d \in Calls : d # c => call'[d] = call[d]
  BY <1>1, <1>2, Went DEF Points
<1>4. /\ record' \in [Asks \cup Calls -> Mail!Status] /\ record'[call[c].ask] = "expired"
      /\ \A n \in Asks \cup Calls : n # call[c].ask => record'[n] = record[n]
  BY <1>1, <1>2, WasPut DEF Mail!Status
<1>5. errors' \in 0..StoreErrors
  BY <1>1, <1>2 DEF Mail!TypeOK
<1>6. Mail!TypeOK' /\ AnswersInv'
  BY <1>2, <1>3, <1>4, <1>5, CallStep
<1>7. \A d \in Calls : record'[d] = record[d]
  BY <1>1, <1>4, Clocks
<1>8. RepliedInv'
  BY <1>1, <1>2, <1>3, <1>4, <1>7 DEF MailInv, RepliedInv
<1>9. ExpiryInv'
  BY <1>1, <1>2, <1>3 DEF MailInv, ExpiryInv, Expires
<1>10. Mail!WaitingIsTracked'
  BY <1>1, <1>2, <1>3, <1>4, <1>7 DEF MailInv, Mail!WaitingIsTracked, Mail!Working
<1>11. Kept
  <2>1. record[call[c].ask] = "replied" => delivered'[call[c].ask] > 1
    <3>1. SUFFICES ASSUME record[call[c].ask] = "replied" PROVE delivered'[call[c].ask] > 1
      OBVIOUS
    <3>2. answered[call[c].ask] >= 1
      BY <1>1, <3>1 DEF MailInv, RepliedInv
    <3>3. Expires(c, call[c].ask)
      BY <1>1 DEF Expires
    <3>4. delivered[call[c].ask] > 1 \/ answered[call[c].ask] = 0
      BY <1>1, <3>3 DEF MailInv, ExpiryInv
    <3> QED BY <1>2, <3>2, <3>4
  <2> QED BY <1>1, <1>4, <2>1 DEF Kept
<1> QED BY <1>6, <1>8, <1>9, <1>10, <1>11 DEF MailInv

LEMMA ReadExpiredKeeps ==
  ASSUME MailInv, NEW c \in Calls, Mail!ReadExpired(c) PROVE MailInv' /\ Kept
<1>1. Mail!TypeOK /\ call[c].at = "expiring"
  BY DEF MailInv, Mail!ReadExpired
<1>2. PICK a \in call[c].todo :
        call' = [call EXCEPT ![c].at = IF record[a] = "none" THEN "expiring" ELSE "marking",
                             ![c].ask = a, ![c].todo = @ \ {a}]
  BY DEF Mail!ReadExpired
<1>3. UNCHANGED <<tracker, now, record, delivered, answered, forgotten, errors, restarts>>
  BY DEF Mail!ReadExpired
<1>4. call \in [Calls -> CallType] /\ call[c] \in CallType /\ a \in Asks
  BY <1>1, <1>2, MailTypes DEF CallType
<1>5. PICK where \in {"expiring", "marking"} :
        /\ where = IF record[a] = "none" THEN "expiring" ELSE "marking"
        /\ call' = [call EXCEPT ![c] = [at |-> where, ask |-> a, todo |-> call[c].todo \ {a}]]
  BY <1>2, <1>4 DEF CallType
<1>6. [at |-> where, ask |-> a, todo |-> call[c].todo \ {a}] \in CallType
  BY <1>4 DEF CallType, Points
<1>7. /\ call' \in [Calls -> CallType] /\ call'[c].at = where
      /\ call'[c].ask = a /\ call'[c].todo = call[c].todo \ {a}
      /\ \A d \in Calls : d # c => call'[d] = call[d]
  BY <1>4, <1>5, <1>6
<1>8. errors' \in 0..StoreErrors /\ record' \in [Asks \cup Calls -> Mail!Status]
  BY <1>1, <1>3, MailTypes DEF Mail!TypeOK
<1>9. Mail!TypeOK' /\ AnswersInv'
  BY <1>3, <1>7, <1>8, CallStep
<1>10. RepliedInv'
  BY <1>1, <1>3, <1>4, <1>7 DEF MailInv, RepliedInv
<1>11. ExpiryInv'
  BY <1>1, <1>2, <1>3, <1>7 DEF MailInv, ExpiryInv, Expires
<1>12. Mail!WaitingIsTracked'
  <2>1. ASSUME NEW b \in Asks, record[b] = "waiting"
        PROVE  b \in tracker.pending \cup forgotten \/ Mail!Working(b)'
    <3>1. CASE b = a
      <4>1. where = "marking"
        BY <1>5, <2>1, <3>1
      <4> QED BY <1>7, <3>1, <4>1 DEF Mail!Working
    <3>2. CASE b # a
      BY <1>1, <1>5, <1>7, <2>1, <3>2 DEF MailInv, Mail!WaitingIsTracked, Mail!Working
    <3> QED BY <3>1, <3>2
  <2>2. ASSUME NEW d \in Calls, record[d] = "waiting"
        PROVE  call'[d].at \in {"asking", "answering", "refusing", "threw"}
    BY <1>1, <1>7, <2>2 DEF MailInv, Mail!WaitingIsTracked
  <2> QED BY <1>3, <2>1, <2>2 DEF Mail!WaitingIsTracked
<1>13. Kept
  BY <1>3 DEF Kept
<1> QED BY <1>9, <1>10, <1>11, <1>12, <1>13 DEF MailInv

(* An ask that expires was delivered, and is not answered more than that.   *)
LEMMA PendingWasDelivered ==
  ASSUME MailInv, NEW a \in tracker.pending
  PROVE  a \in Asks /\ answered[a] < delivered[a] /\ delivered[a] >= 1
         /\ (delivered[a] > 1 \/ answered[a] = 0)
<1>1. a \in Asks /\ delivered \in [Asks -> Nat] /\ answered \in [Asks -> Nat]
  BY MailTypes, TrackerParts DEF MailInv
<1>2. answered[a] < delivered[a]
  BY <1>1 DEF MailInv, AnswersInv
<1>3. answered[a] \in Nat /\ delivered[a] \in Nat
  BY <1>1
<1> QED BY <1>1, <1>2, <1>3

LEMMA PendingKeeps ==
  ASSUME MailInv, NEW c \in Calls, Mail!Pending(c) PROVE MailInv' /\ Kept
<1> DEFINE expired == Mail!Expired(tracker, now)
<1>1. /\ Mail!TypeOK /\ call[c].at = "idle" /\ tracker' = Mail!Prune(tracker, now)
      /\ call' = [call EXCEPT ![c].at = "expiring", ![c].todo = expired]
      /\ UNCHANGED <<now, record, delivered, answered, forgotten, errors, restarts>>
  BY DEF MailInv, Mail!Pending
<1>2. /\ tracker \in Mail!Trackers /\ now \in Nat /\ call \in [Calls -> CallType]
      /\ tracker.pending \subseteq Asks
  BY <1>1, MailTypes, TrackerParts
<1>3. /\ tracker' \in Mail!Trackers /\ tracker'.pending = tracker.pending \ expired
      /\ expired \subseteq tracker.pending
  BY <1>1, <1>2, Pruned
<1> HIDE DEF expired
<1>4. call[c] \in CallType
  BY <1>2
<1>5. call' = [call EXCEPT ![c] = [at |-> "expiring", ask |-> call[c].ask, todo |-> expired]]
  <2>1. call[c] = [at |-> call[c].at, ask |-> call[c].ask, todo |-> call[c].todo]
    BY <1>4, CallParts
  <2>2. call'[c] = [call[c] EXCEPT !.at = "expiring", !.todo = expired]
    BY <1>1, <1>2
  <2>3. call'[c] = [at |-> "expiring", ask |-> call[c].ask, todo |-> expired]
    BY <2>1, <2>2
  <2>4. call' \in [Calls -> {call'[d] : d \in Calls}] /\ \A d \in Calls : d # c => call'[d] = call[d]
    BY <1>1, <1>2
  <2> QED BY <1>2, <2>3, <2>4
<1>6. [at |-> "expiring", ask |-> call[c].ask, todo |-> expired] \in CallType
  BY <1>2, <1>3, <1>4 DEF CallType, Points
<1>7. /\ call' \in [Calls -> CallType] /\ call'[c].at = "expiring" /\ call'[c].todo = expired
      /\ \A d \in Calls : d # c => call'[d] = call[d]
  BY <1>2, <1>5, <1>6
<1>8. Mail!TypeOK'
  BY <1>1, <1>3, <1>7, MailTypes DEF Mail!TypeOK, CallType, Points
<1>9. AnswersInv'
  BY <1>1, <1>3 DEF MailInv, AnswersInv
<1>10. RepliedInv'
  BY <1>1, <1>7 DEF MailInv, RepliedInv
<1>11. ExpiryInv'
  <2>1. ASSUME NEW d \in Calls, NEW a \in Asks, Expires(d, a)'
        PROVE  /\ delivered'[a] >= 1
               /\ delivered'[a] > 1 \/ (answered'[a] = 0 /\ a \notin tracker'.pending)
    <3>1. CASE d = c
      <4>1. a \in expired
        BY <1>7, <2>1, <3>1 DEF Expires
      <4> QED BY <1>1, <1>3, <4>1, PendingWasDelivered
    <3>2. CASE d # c
      BY <1>1, <1>3, <1>7, <2>1, <3>2 DEF MailInv, ExpiryInv, Expires
    <3> QED BY <3>1, <3>2
  <2> QED BY <2>1 DEF ExpiryInv
<1>12. Mail!WaitingIsTracked'
  <2>1. ASSUME NEW b \in Asks, record[b] = "waiting"
        PROVE  b \in tracker'.pending \cup forgotten \/ Mail!Working(b)'
    <3>1. CASE b \in expired
      BY <1>7, <3>1 DEF Mail!Working
    <3>2. CASE b \in tracker.pending \cup forgotten /\ b \notin expired
      BY <1>3, <3>2
    <3>3. CASE Mail!Working(b)
      BY <1>1, <1>7, <3>3 DEF Mail!Working
    <3> QED BY <2>1, <3>1, <3>2, <3>3 DEF MailInv, Mail!WaitingIsTracked
  <2>2. ASSUME NEW d \in Calls, record[d] = "waiting"
        PROVE  call'[d].at \in {"asking", "answering", "refusing", "threw"}
    BY <1>1, <1>7, <2>2 DEF MailInv, Mail!WaitingIsTracked
  <2> QED BY <1>1, <2>1, <2>2 DEF Mail!WaitingIsTracked
<1>13. Kept
  BY <1>1 DEF Kept
<1> QED BY <1>8, <1>9, <1>10, <1>11, <1>12, <1>13 DEF MailInv

LEMMA ListPendingKeeps ==
  ASSUME MailInv, NEW c \in Calls, Mail!ListPending(c) PROVE MailInv' /\ Kept
<1> DEFINE expired == Mail!Expired(tracker, now)
<1>1. /\ Mail!TypeOK /\ call[c].at = "expiring" /\ call[c].todo = {}
      /\ tracker' = Mail!Prune(tracker, now) /\ forgotten' = forgotten \cup expired
      /\ Mail!Goto(c, "done")
      /\ UNCHANGED <<now, record, delivered, answered, errors, restarts>>
  BY DEF MailInv, Mail!ListPending
<1>2. /\ tracker \in Mail!Trackers /\ now \in Nat /\ call \in [Calls -> CallType]
      /\ tracker.pending \subseteq Asks /\ forgotten \subseteq Asks
  BY <1>1, MailTypes, TrackerParts
<1>3. /\ tracker' \in Mail!Trackers /\ tracker'.pending = tracker.pending \ expired
      /\ expired \subseteq tracker.pending
  BY <1>1, <1>2, Pruned
<1> HIDE DEF expired
<1>4. /\ call' \in [Calls -> CallType] /\ call'[c].at = "done"
      /\ call'[c].ask = call[c].ask /\ call'[c].todo = call[c].todo
      /\ \A d \in Calls : d # c => call'[d] = call[d]
  BY <1>1, Went DEF Points
<1>5. forgotten' \subseteq Asks
  BY <1>1, <1>2, <1>3
<1>6. Mail!TypeOK'
  BY <1>1, <1>3, <1>4, <1>5, MailTypes DEF Mail!TypeOK, CallType, Points
<1>7. AnswersInv'
  BY <1>1, <1>3 DEF MailInv, AnswersInv
<1>8. RepliedInv'
  BY <1>1, <1>4 DEF MailInv, RepliedInv
<1>9. ExpiryInv'
  BY <1>1, <1>3, <1>4 DEF MailInv, ExpiryInv, Expires
<1>10. Mail!WaitingIsTracked'
  BY <1>1, <1>3, <1>4 DEF MailInv, Mail!WaitingIsTracked, Mail!Working
<1>11. Kept
  BY <1>1 DEF Kept
<1> QED BY <1>6, <1>7, <1>8, <1>9, <1>10, <1>11 DEF MailInv

(* A reply that answers nothing prunes; one that answers an ask settles it  *)
(* in the tracker first and in the store later.                             *)
LEMMA ReplyKeeps ==
  ASSUME MailInv, NEW c \in Calls, Mail!Reply(c) PROVE MailInv' /\ Kept
<1> DEFINE expired == Mail!Expired(tracker, now)
<1> DEFINE pruned == Mail!Prune(tracker, now)
<1>1. /\ Mail!TypeOK /\ call[c].at = "idle" /\ forgotten' = forgotten \cup expired
      /\ UNCHANGED <<now, record, delivered, errors, restarts>>
  BY DEF MailInv, Mail!Reply
<1>2. /\ tracker \in Mail!Trackers /\ now \in Nat /\ call \in [Calls -> CallType]
      /\ tracker.pending \subseteq Asks /\ forgotten \subseteq Asks
      /\ delivered \in [Asks -> Nat] /\ answered \in [Asks -> Nat]
  BY <1>1, MailTypes, TrackerParts
<1>3. /\ pruned \in Mail!Trackers /\ pruned.pending = tracker.pending \ expired
      /\ expired \subseteq tracker.pending
  BY <1>2, Pruned
<1>4. forgotten' \subseteq Asks
  BY <1>1, <1>2, <1>3
<1>5. Kept
  BY <1>1 DEF Kept
<1>6. PICK replyTo \in Asks \cup {NoAsk}, to \in Sessions \cup {Anyone} :
        LET a == Mail!Target(tracker, replyTo, to, now)
        IN IF a = NoAsk
           THEN tracker' = pruned /\ Mail!Goto(c, "done") /\ UNCHANGED answered
           ELSE /\ tracker' = Mail!MarkReplied(pruned, a)
                /\ call' = [call EXCEPT ![c].at = "replying", ![c].ask = a]
                /\ answered' = [answered EXCEPT ![a] = @ + 1]
  BY DEF Mail!Reply
<1> DEFINE a == Mail!Target(tracker, replyTo, to, now)
<1>7. a # NoAsk => a \in tracker.pending \ expired
  BY <1>2, TargetIsPending
<1>8. \/ tracker' = pruned /\ Mail!Goto(c, "done") /\ UNCHANGED answered
      \/ /\ a \in tracker.pending \ expired /\ tracker' = Mail!MarkReplied(pruned, a)
         /\ call' = [call EXCEPT ![c].at = "replying", ![c].ask = a]
         /\ answered' = [answered EXCEPT ![a] = answered[a] + 1]
  BY <1>6, <1>7
<1> HIDE DEF a, pruned, expired
<1>9. CASE tracker' = pruned /\ Mail!Goto(c, "done") /\ UNCHANGED answered
  <2>1. /\ call' \in [Calls -> CallType] /\ call'[c].at = "done"
        /\ call'[c].ask = call[c].ask /\ call'[c].todo = call[c].todo
        /\ \A d \in Calls : d # c => call'[d] = call[d]
    BY <1>1, <1>9, Went DEF Points
  <2>2. Mail!TypeOK'
    BY <1>1, <1>3, <1>4, <1>9, <2>1, MailTypes DEF Mail!TypeOK, CallType, Points
  <2>3. AnswersInv'
    BY <1>1, <1>3, <1>9 DEF MailInv, AnswersInv
  <2>4. RepliedInv'
    BY <1>1, <1>9, <2>1 DEF MailInv, RepliedInv
  <2>5. ExpiryInv'
    BY <1>1, <1>3, <1>9, <2>1 DEF MailInv, ExpiryInv, Expires
  <2>6. Mail!WaitingIsTracked'
    BY <1>1, <1>3, <1>9, <2>1 DEF MailInv, Mail!WaitingIsTracked, Mail!Working
  <2> QED BY <1>5, <2>2, <2>3, <2>4, <2>5, <2>6 DEF MailInv
<1>10. CASE /\ a \in tracker.pending \ expired /\ tracker' = Mail!MarkReplied(pruned, a)
            /\ call' = [call EXCEPT ![c].at = "replying", ![c].ask = a]
            /\ answered' = [answered EXCEPT ![a] = answered[a] + 1]
  <2>1. a \in Asks /\ answered[a] < delivered[a] /\ call[c] \in CallType
    BY <1>2, <1>10, PendingWasDelivered
  <2>2. tracker' \in Mail!Trackers /\ tracker'.pending = (tracker.pending \ expired) \ {a}
    BY <1>3, <1>10, <2>1, Marked
  <2>3. call' = [call EXCEPT ![c] = [at |-> "replying", ask |-> a, todo |-> call[c].todo]]
    <3>1. call[c] = [at |-> call[c].at, ask |-> call[c].ask, todo |-> call[c].todo]
      BY <2>1, CallParts
    <3>2. call'[c] = [call[c] EXCEPT !.at = "replying", !.ask = a]
      BY <1>2, <1>10
    <3>3. call'[c] = [at |-> "replying", ask |-> a, todo |-> call[c].todo]
      BY <3>1, <3>2
    <3>4. call' \in [Calls -> {call'[d] : d \in Calls}] /\ \A d \in Calls : d # c => call'[d] = call[d]
      BY <1>2, <1>10
    <3> QED BY <1>2, <3>3, <3>4
  <2>4. [at |-> "replying", ask |-> a, todo |-> call[c].todo] \in CallType
    BY <2>1 DEF CallType, Points
  <2>5. /\ call' \in [Calls -> CallType] /\ call'[c].at = "replying" /\ call'[c].ask = a
        /\ \A d \in Calls : d # c => call'[d] = call[d]
    BY <1>2, <2>3, <2>4
  <2>6. /\ answered' \in [Asks -> Nat] /\ answered'[a] = answered[a] + 1
        /\ \A b \in Asks : b # a => answered'[b] = answered[b]
    BY <1>2, <1>10, <2>1
  <2>7. Mail!TypeOK'
    BY <1>1, <1>4, <2>2, <2>5, <2>6, MailTypes DEF Mail!TypeOK, CallType, Points
  <2>8. AnswersInv'
    <3>1. ASSUME NEW b \in Asks
          PROVE  /\ answered'[b] <= delivered'[b]
                 /\ b \in tracker'.pending => answered'[b] < delivered'[b]
      <4>1. CASE b = a
        BY <1>1, <1>2, <2>1, <2>2, <2>6, <4>1
      <4>2. CASE b # a
        BY <1>1, <2>2, <2>6, <4>2 DEF MailInv, AnswersInv
      <4> QED BY <4>1, <4>2
    <3> QED BY <3>1 DEF AnswersInv
  <2>9. answered'[a] >= 1 /\ \A b \in Asks : answered[b] >= 1 => answered'[b] >= 1
    BY <1>2, <2>1, <2>6
  <2>10. RepliedInv'
    BY <1>1, <2>1, <2>5, <2>9 DEF MailInv, RepliedInv
  <2>11. ExpiryInv'
    <3>1. ASSUME NEW d \in Calls, NEW b \in Asks, Expires(d, b)'
          PROVE  /\ delivered'[b] >= 1
                 /\ delivered'[b] > 1 \/ (answered'[b] = 0 /\ b \notin tracker'.pending)
      <4>1. d # c /\ Expires(d, b)
        BY <2>5, <3>1 DEF Expires
      <4>2. /\ delivered[b] >= 1
            /\ delivered[b] > 1 \/ (answered[b] = 0 /\ b \notin tracker.pending)
        BY <4>1 DEF MailInv, ExpiryInv
      <4> QED BY <1>1, <1>10, <2>2, <2>6, <4>2
    <3> QED BY <3>1 DEF ExpiryInv
  <2>12. Mail!WaitingIsTracked'
    <3>1. ASSUME NEW b \in Asks, record[b] = "waiting"
          PROVE  b \in tracker'.pending \cup forgotten' \/ Mail!Working(b)'
      <4>1. CASE b = a
        BY <2>5, <4>1 DEF Mail!Working
      <4>2. CASE b \in tracker.pending \cup forgotten /\ b # a
        BY <1>1, <2>2, <4>2
      <4>3. CASE Mail!Working(b)
        BY <1>1, <2>5, <4>3 DEF Mail!Working
      <4> QED BY <3>1, <4>1, <4>2, <4>3 DEF MailInv, Mail!WaitingIsTracked
    <3>2. ASSUME NEW d \in Calls, record[d] = "waiting"
          PROVE  call'[d].at \in {"asking", "answering", "refusing", "threw"}
      BY <1>1, <2>5, <3>2 DEF MailInv, Mail!WaitingIsTracked
    <3> QED BY <1>1, <3>1, <3>2 DEF Mail!WaitingIsTracked
  <2> QED BY <1>5, <2>7, <2>8, <2>10, <2>11, <2>12 DEF MailInv
<1> QED BY <1>8, <1>9, <1>10

LEMMA ReceiveAskKeeps ==
  ASSUME MailInv, NEW a \in Asks, Mail!ReceiveAsk(a) PROVE MailInv' /\ Kept
<1>1. /\ Mail!TypeOK /\ delivered' = [delivered EXCEPT ![a] = delivered[a] + 1]
      /\ tracker' = Mail!RecordAsk(tracker, a, now)
      /\ UNCHANGED <<now, call, answered, forgotten, restarts>>
  BY DEF MailInv, Mail!ReceiveAsk
<1>2. \/ Mail!Put(a, "waiting") /\ UNCHANGED errors
      \/ errors < StoreErrors /\ errors' = errors + 1 /\ UNCHANGED record
  BY DEF Mail!ReceiveAsk
<1>3. /\ tracker \in Mail!Trackers /\ now \in Nat /\ delivered \in [Asks -> Nat]
      /\ answered \in [Asks -> Nat] /\ record \in [Asks \cup Calls -> Mail!Status]
      /\ errors \in 0..StoreErrors /\ StoreErrors \in Nat
  BY <1>1, MailTypes, Clocks DEF Mail!TypeOK
<1>4. tracker' \in Mail!Trackers /\ tracker'.pending = tracker.pending \cup {a}
  BY <1>1, <1>3, Recorded
<1>5. /\ record' \in [Asks \cup Calls -> Mail!Status] /\ record'[a] \in {"waiting", record[a]}
      /\ \A m \in Asks \cup Calls : m # a => record'[m] = record[m]
      /\ errors' \in 0..StoreErrors
  <2>1. CASE Mail!Put(a, "waiting") /\ UNCHANGED errors
    BY <1>1, <1>3, <2>1, WasPut DEF Mail!Status
  <2>2. CASE errors < StoreErrors /\ errors' = errors + 1 /\ UNCHANGED record
    BY <1>3, <2>2
  <2> QED BY <1>2, <2>1, <2>2
<1>6. /\ delivered' \in [Asks -> Nat] /\ delivered'[a] = delivered[a] + 1
      /\ \A b \in Asks : b # a => delivered'[b] = delivered[b]
  BY <1>1, <1>3
<1>7. Mail!TypeOK'
  BY <1>1, <1>4, <1>5, <1>6, MailTypes DEF Mail!TypeOK, CallType, Points
<1>8. answered[a] <= delivered[a] /\ answered[a] \in Nat /\ delivered[a] \in Nat
  BY <1>3 DEF MailInv, AnswersInv
<1>9. AnswersInv'
  <2>1. ASSUME NEW b \in Asks
        PROVE  /\ answered'[b] <= delivered'[b]
               /\ b \in tracker'.pending => answered'[b] < delivered'[b]
    <3>1. CASE b = a
      BY <1>1, <1>6, <1>8, <3>1
    <3>2. CASE b # a
      BY <1>1, <1>4, <1>6, <3>2 DEF MailInv, AnswersInv
    <3> QED BY <3>1, <3>2
  <2> QED BY <2>1 DEF AnswersInv
<1>10. \A d \in Calls : record'[d] = record[d]
  BY <1>5, Clocks
<1>11. RepliedInv'
  BY <1>1, <1>5, <1>10 DEF MailInv, RepliedInv
<1>12. ExpiryInv'
  <2>1. ASSUME NEW d \in Calls, NEW b \in Asks, Expires(d, b)'
        PROVE  /\ delivered'[b] >= 1
               /\ delivered'[b] > 1 \/ (answered'[b] = 0 /\ b \notin tracker'.pending)
    <3>1. /\ delivered[b] >= 1
          /\ delivered[b] > 1 \/ (answered[b] = 0 /\ b \notin tracker.pending)
      BY <1>1, <2>1 DEF MailInv, ExpiryInv, Expires
    <3>2. CASE b = a
      BY <1>6, <1>8, <3>1, <3>2
    <3>3. CASE b # a
      BY <1>1, <1>4, <1>6, <3>1, <3>3
    <3> QED BY <3>2, <3>3
  <2> QED BY <2>1 DEF ExpiryInv
<1>13. Mail!WaitingIsTracked'
  BY <1>1, <1>4, <1>5, <1>10 DEF MailInv, Mail!WaitingIsTracked, Mail!Working
<1>14. Kept
  <2>1. record[a] = "replied" => delivered'[a] > 1
    <3>1. record[a] = "replied" => answered[a] >= 1
      BY DEF MailInv, RepliedInv
    <3> QED BY <1>6, <1>8, <3>1
  <2> QED BY <1>5, <2>1 DEF Kept
<1> QED BY <1>7, <1>9, <1>11, <1>12, <1>13, <1>14 DEF MailInv

(* A new process forgets what was pending; the calls under way are lost.    *)
LEMMA RestartKeeps == ASSUME MailInv, Mail!Restart PROVE MailInv' /\ Kept
<1>1. /\ Mail!TypeOK /\ forgotten' = forgotten \cup tracker.pending /\ tracker' = Mail!NewTracker
      /\ call' = [c \in Calls |-> IF call[c].at \in {"idle", "done"} THEN call[c]
                                  ELSE [call[c] EXCEPT !.at = "threw"]]
      /\ restarts < Restarts /\ restarts' = restarts + 1
      /\ UNCHANGED <<now, record, delivered, answered, errors>>
  BY DEF MailInv, Mail!Restart
<1>2. /\ tracker \in Mail!Trackers /\ call \in [Calls -> CallType] /\ forgotten \subseteq Asks
      /\ tracker.pending \subseteq Asks /\ restarts \in 0..Restarts /\ Restarts \in Nat
  BY <1>1, MailTypes, TrackerParts, Clocks DEF Mail!TypeOK
<1>3. tracker' \in Mail!Trackers /\ tracker'.pending = {}
  BY <1>1, NewTrackerIsOne
<1>4. ASSUME NEW c \in Calls
      PROVE  /\ call'[c] \in CallType
             /\ call'[c].at = IF call[c].at \in {"idle", "done"} THEN call[c].at ELSE "threw"
             /\ call'[c].ask = call[c].ask /\ call'[c].todo = call[c].todo
  <2>1. call[c] \in CallType
    BY <1>2
  <2>2. call'[c] = IF call[c].at \in {"idle", "done"} THEN call[c]
                   ELSE [call[c] EXCEPT !.at = "threw"]
    BY <1>1
  <2> QED BY <2>1, <2>2 DEF CallType, Points
<1>5. call' \in [Calls -> CallType]
  BY <1>1, <1>4
<1>6. restarts' \in 0..Restarts /\ forgotten' \subseteq Asks
  BY <1>1, <1>2
<1>7. Mail!TypeOK'
  BY <1>1, <1>3, <1>5, <1>6, MailTypes DEF Mail!TypeOK, CallType, Points
<1>8. AnswersInv'
  BY <1>1, <1>3 DEF MailInv, AnswersInv
<1>9. RepliedInv'
  BY <1>1, <1>4 DEF MailInv, RepliedInv
<1>10. ExpiryInv'
  BY <1>4 DEF ExpiryInv, Expires
<1>11. Mail!WaitingIsTracked'
  BY <1>1, <1>4 DEF MailInv, Mail!WaitingIsTracked, Mail!Working
<1>12. Kept
  BY <1>1 DEF Kept
<1> QED BY <1>7, <1>8, <1>9, <1>10, <1>11, <1>12 DEF MailInv

LEMMA MailNext == MailInv /\ Mail!Next => MailInv' /\ Kept
<1> SUFFICES ASSUME MailInv, Mail!Next PROVE MailInv' /\ Kept
  OBVIOUS
<1>1. CASE Mail!Tick
  <2>1. /\ UNCHANGED <<tracker, record, call, delivered, answered, forgotten, errors, restarts>>
        /\ now < MaxTime /\ now' = now + 1
    BY <1>1 DEF Mail!Tick
  <2>2. now' \in 0..MaxTime
    BY <2>1, Clocks DEF MailInv, Mail!TypeOK
  <2>3. Mail!TypeOK'
    BY <2>1, <2>2 DEF MailInv, Mail!TypeOK
  <2>4. AnswersInv' /\ RepliedInv'
    BY <2>1 DEF MailInv, AnswersInv, RepliedInv
  <2>5. ExpiryInv'
    BY <2>1 DEF MailInv, ExpiryInv, Expires
  <2>6. Mail!WaitingIsTracked'
    BY <2>1 DEF MailInv, Mail!WaitingIsTracked, Mail!Working
  <2> QED BY <2>1, <2>3, <2>4, <2>5, <2>6 DEF MailInv, Kept
<1>2. CASE Mail!Restart
  BY <1>2, RestartKeeps
<1>3. ASSUME NEW a \in Asks, Mail!ReceiveAsk(a) PROVE MailInv' /\ Kept
  BY <1>3, ReceiveAskKeeps
<1>4. ASSUME NEW c \in Calls,
             \/ Mail!Reply(c) \/ Mail!PutReplied(c) \/ Mail!PutSent(c)
             \/ Mail!Pending(c) \/ Mail!ReadExpired(c) \/ Mail!PutExpired(c) \/ Mail!ListPending(c)
             \/ Mail!Ask(c) \/ Mail!ToolAnswers(c) \/ Mail!MarkRecord(c) \/ Mail!StoreFails(c)
      PROVE  MailInv' /\ Kept
  BY <1>4, ReplyKeeps, PutRepliedKeeps, OwnRecordKeeps, PendingKeeps, ReadExpiredKeeps,
     PutExpiredKeeps, ListPendingKeeps, ComesBackKeeps
<1> QED BY <1>1, <1>2, <1>3, <1>4 DEF Mail!Next

-----------------------------------------------------------------------------
(* Prompts and escape in the native session.                                *)

(* The prompts that hold a scope: those that wait for their answer, and an  *)
(* ask flow for as long as it is on the screen.                             *)
Holding == {p \in overlays : prompt[p].at = "shown" \/ p \notin Direct}
ScopesInv ==
  /\ IsFiniteSet(overlays) /\ scopes = Cardinality(Holding)
  /\ \A p \in Prompts : prompt[p].at = "shown" => p \in overlays
  /\ \A p \in overlays : prompt[p].at \in {"shown", "rejected"}

(* What waits in a renderer's queue waits there once.                       *)
QueueInv ==
  \A r \in Native!Runs :
    /\ \A i \in DOMAIN queue[r] : prompt[queue[r][i]] = [at |-> "queued", run |-> r]
    /\ \A i, j \in DOMAIN queue[r] : queue[r][i] = queue[r][j] => i = j

NativeInv == Native!TypeOK /\ ScopesInv /\ QueueInv

LEMMA NativeInit == Native!Init => NativeInv
<1> SUFFICES ASSUME Native!Init PROVE NativeInv
  OBVIOUS
<1>1. MaxRuns \in Nat /\ Native!NoRun = 0 /\ Native!Runs = 1..MaxRuns
  BY MachinesAssumption DEF Native!SessionAssumption, Native!NoRun, Native!Runs
<1>2. /\ queue = [r \in Native!Runs |-> <<>>] /\ overlays = {} /\ scopes = 0 /\ fired = {}
      /\ prompt = [p \in Prompts |-> [at |-> "new", run |-> Native!NoRun]]
      /\ phase = [r \in Native!Runs |-> "none"] /\ activeRun = Native!NoRun /\ bridge = Native!NoRun
      /\ stoppedBy = [r \in Native!Runs |-> "nothing"] /\ busy = [r \in Native!Runs |-> FALSE]
  BY DEF Native!Init
<1>3. queue \in [Native!Runs -> Seq(Prompts)]
  <2>1. <<>> \in Seq(Prompts)
    OBVIOUS
  <2> QED BY <1>2, <2>1
<1>4. prompt \in [Prompts -> [at : {"new", "queued", "shown", "answered", "rejected"},
                              run : Native!Runs \cup {Native!NoRun}]]
  BY <1>2
<1>5. Native!TypeOK
  BY <1>1, <1>2, <1>3, <1>4 DEF Native!TypeOK
<1>6. ScopesInv
  <2>1. Holding = {}
    BY <1>2 DEF Holding
  <2>2. IsFiniteSet({}) /\ Cardinality({}) = 0
    BY FS_EmptySet
  <2> QED BY <1>2, <2>1, <2>2 DEF ScopesInv
<1>7. QueueInv
  BY <1>2 DEF QueueInv
<1> QED BY <1>5, <1>6, <1>7 DEF NativeInv

PromptType == [at : {"new", "queued", "shown", "answered", "rejected"},
               run : Native!Runs \cup {Native!NoRun}]

LEMMA PromptParts ==
  ASSUME NEW x \in PromptType
  PROVE  x = [at |-> x.at, run |-> x.run]
BY DEF PromptType

LEMMA NativeTypes ==
  ASSUME NativeInv
  PROVE  /\ prompt \in [Prompts -> PromptType] /\ queue \in [Native!Runs -> Seq(Prompts)]
         /\ busy \in [Native!Runs -> BOOLEAN] /\ overlays \subseteq Prompts /\ scopes \in Nat
BY DEF NativeInv, Native!TypeOK, PromptType

LEMMA HoldingIsFinite ==
  ASSUME NativeInv PROVE IsFiniteSet(Holding) /\ Cardinality(Holding) \in Nat
<1>1. Holding \in SUBSET overlays /\ IsFiniteSet(overlays)
  BY DEF Holding, NativeInv, ScopesInv
<1>2. IsFiniteSet(Holding)
  BY <1>1, FS_Subset
<1> QED BY <1>2, FS_CardinalityType

RunTypes ==
  /\ phase \in [Native!Runs -> {"none", "preparing", "executing", "over"}]
  /\ activeRun \in Native!Runs \cup {Native!NoRun}
  /\ bridge \in Native!Runs \cup {Native!NoRun}
  /\ stoppedBy \in [Native!Runs -> {"nothing", "command", "escape"}]
  /\ fired \subseteq Prompts

(* Runs start, execute, end and are stopped, and agents are aborted, without *)
(* touching a prompt.                                                       *)
LEMMA RunStepKeeps ==
  ASSUME NativeInv,
         \/ \E r \in Native!Runs : Native!StartRun(r) \/ Native!Execute(r) \/ Native!EndRun(r)
         \/ Native!StopCommand \/ Native!Escape
         \/ \E p \in Prompts : Native!AgentAborted(p)
  PROVE  NativeInv'
<1>1. UNCHANGED <<prompt, queue, busy, overlays, scopes>>
  BY DEF Native!StartRun, Native!Execute, Native!EndRun, Native!StopCommand, Native!Escape,
         Native!Stop, Native!AgentAborted, Native!promptVars
<1>2. /\ prompt \in [Prompts -> PromptType] /\ queue \in [Native!Runs -> Seq(Prompts)]
      /\ busy \in [Native!Runs -> BOOLEAN] /\ overlays \subseteq Prompts /\ scopes \in Nat
  BY NativeTypes
<1>3. RunTypes'
  <2>1. RunTypes
    BY DEF NativeInv, Native!TypeOK, RunTypes
  <2>2. ASSUME NEW r \in Native!Runs, Native!StartRun(r) \/ Native!Execute(r) \/ Native!EndRun(r)
        PROVE  RunTypes'
    BY <2>1, <2>2 DEF RunTypes, Native!StartRun, Native!Execute, Native!EndRun
  <2>3. CASE Native!StopCommand \/ Native!Escape
    BY <2>1, <2>3 DEF RunTypes, Native!StopCommand, Native!Escape, Native!Stop, Native!runVars
  <2>4. ASSUME NEW p \in Prompts, Native!AgentAborted(p) PROVE RunTypes'
    BY <2>1, <2>4 DEF RunTypes, Native!AgentAborted, Native!runVars
  <2> QED BY <2>2, <2>3, <2>4
<1>4. Native!TypeOK'
  BY <1>1, <1>2, <1>3 DEF RunTypes, Native!TypeOK, PromptType
<1>5. ScopesInv'
  <2>1. Holding' = Holding
    BY <1>1 DEF Holding
  <2> QED BY <1>1, <2>1 DEF NativeInv, ScopesInv
<1>6. QueueInv'
  BY <1>1 DEF NativeInv, QueueInv
<1> QED BY <1>4, <1>5, <1>6 DEF NativeInv

(* The types of a step of prompts.                                          *)
LEMMA PromptStepTypes ==
  ASSUME NativeInv, prompt' \in [Prompts -> PromptType],
         queue' \in [Native!Runs -> Seq(Prompts)], busy' \in [Native!Runs -> BOOLEAN],
         overlays' \subseteq Prompts, scopes' \in Nat,
         UNCHANGED <<phase, activeRun, bridge, stoppedBy, fired>>
  PROVE  Native!TypeOK'
BY DEF NativeInv, Native!TypeOK, PromptType

(* A prompt goes to the end of a renderer's queue.                          *)
LEMMA EnqueueKeeps ==
  ASSUME NativeInv, NEW p \in Prompts, prompt[p].at = "new",
         NEW r \in Native!Runs, Native!Enqueue(p, r),
         UNCHANGED <<phase, activeRun, bridge, stoppedBy, fired, busy, overlays, scopes>>
  PROVE  NativeInv'
<1>1. /\ prompt \in [Prompts -> PromptType] /\ queue \in [Native!Runs -> Seq(Prompts)]
      /\ busy \in [Native!Runs -> BOOLEAN] /\ overlays \subseteq Prompts /\ scopes \in Nat
  BY NativeTypes
<1>2. /\ prompt' = [prompt EXCEPT ![p] = [at |-> "queued", run |-> r]]
      /\ queue' = [queue EXCEPT ![r] = Append(queue[r], p)]
  BY DEF Native!Enqueue
<1>3. [at |-> "queued", run |-> r] \in PromptType
  BY DEF PromptType
<1>4. /\ prompt' \in [Prompts -> PromptType] /\ prompt'[p] = [at |-> "queued", run |-> r]
      /\ \A q \in Prompts : q # p => prompt'[q] = prompt[q]
  BY <1>1, <1>2, <1>3
<1>5. /\ queue[r] \in Seq(Prompts) /\ queue'[r] = Append(queue[r], p)
      /\ queue' \in [Native!Runs -> Seq(Prompts)]
      /\ \A s \in Native!Runs : s # r => queue'[s] = queue[s]
  BY <1>1, <1>2
<1>6. Native!TypeOK'
  BY <1>1, <1>4, <1>5, PromptStepTypes
<1>7. ScopesInv'
  <2>1. p \notin overlays
    BY DEF NativeInv, ScopesInv
  <2>2. Holding' = Holding
    BY <1>1, <1>4, <2>1 DEF Holding
  <2>3. \A q \in Prompts : prompt'[q].at = "shown" => q \in overlays
    BY <1>4 DEF NativeInv, ScopesInv
  <2>4. \A q \in overlays : prompt'[q].at \in {"shown", "rejected"}
    BY <1>1, <1>4, <2>1 DEF NativeInv, ScopesInv
  <2> QED BY <2>2, <2>3, <2>4 DEF NativeInv, ScopesInv
<1>8. ASSUME NEW s \in Native!Runs, NEW i \in DOMAIN queue[s]
      PROVE  queue[s][i] # p /\ queue[s][i] \in Prompts
  <2>1. queue[s] \in Seq(Prompts)
    BY <1>1
  <2>2. queue[s][i] \in Prompts
    BY <2>1
  <2>3. prompt[queue[s][i]] = [at |-> "queued", run |-> s]
    BY DEF NativeInv, QueueInv
  <2> QED BY <2>2, <2>3
<1>9. /\ DOMAIN queue'[r] = DOMAIN queue[r] \cup {Len(queue[r]) + 1}
      /\ queue'[r][Len(queue[r]) + 1] = p
      /\ \A i \in DOMAIN queue[r] : queue'[r][i] = queue[r][i]
  BY <1>5
<1>10. QueueInv'
  <2>1. ASSUME NEW s \in Native!Runs, s # r
        PROVE  /\ \A i \in DOMAIN queue'[s] : prompt'[queue'[s][i]] = [at |-> "queued", run |-> s]
               /\ \A i, j \in DOMAIN queue'[s] : queue'[s][i] = queue'[s][j] => i = j
    <3>1. queue'[s] = queue[s]
      BY <1>5, <2>1
    <3>2. \A i \in DOMAIN queue[s] : prompt'[queue[s][i]] = prompt[queue[s][i]]
      BY <1>4, <1>8
    <3> QED BY <3>1, <3>2 DEF NativeInv, QueueInv
  <2>2. \A i \in DOMAIN queue'[r] : prompt'[queue'[r][i]] = [at |-> "queued", run |-> r]
    <3>1. \A i \in DOMAIN queue[r] : prompt'[queue[r][i]] = prompt[queue[r][i]]
      BY <1>4, <1>8
    <3> QED BY <1>4, <1>9, <3>1 DEF NativeInv, QueueInv
  <2>3. \A i, j \in DOMAIN queue'[r] : queue'[r][i] = queue'[r][j] => i = j
    <3>1. \A i, j \in DOMAIN queue[r] : queue[r][i] = queue[r][j] => i = j
      BY DEF NativeInv, QueueInv
    <3>2. ASSUME NEW i \in DOMAIN queue'[r], NEW j \in DOMAIN queue'[r],
                 queue'[r][i] = queue'[r][j]
          PROVE  i = j
      <4>1. CASE i \in DOMAIN queue[r] /\ j \in DOMAIN queue[r]
        BY <1>9, <3>1, <3>2, <4>1
      <4>2. CASE i = Len(queue[r]) + 1 /\ j \in DOMAIN queue[r]
        BY <1>8, <1>9, <3>2, <4>2
      <4>3. CASE i \in DOMAIN queue[r] /\ j = Len(queue[r]) + 1
        BY <1>8, <1>9, <3>2, <4>3
      <4>4. CASE i = Len(queue[r]) + 1 /\ j = Len(queue[r]) + 1
        BY <4>4
      <4> QED BY <1>9, <4>1, <4>2, <4>3, <4>4
    <3> QED BY <3>2
  <2> QED BY <2>1, <2>2, <2>3 DEF QueueInv
<1> QED BY <1>6, <1>7, <1>10 DEF NativeInv

LEMMA AsksKeeps ==
  ASSUME NativeInv, NEW p \in Prompts, Native!HumanAsks(p) \/ Native!AgentAsks(p)
  PROVE  NativeInv'
<1>1. /\ prompt[p].at = "new"
      /\ UNCHANGED <<phase, activeRun, bridge, stoppedBy, fired, busy, overlays, scopes>>
  BY DEF Native!HumanAsks, Native!AgentAsks, Native!runVars
<1>2. \/ \E r \in Native!Runs : Native!Enqueue(p, r)
      \/ prompt' = [prompt EXCEPT ![p].at = "rejected"] /\ UNCHANGED queue
  <2>1. CASE Native!HumanAsks(p)
    BY <2>1 DEF Native!HumanAsks
  <2>2. CASE Native!AgentAsks(p)
    BY <2>2 DEF Native!AgentAsks, NativeInv, Native!TypeOK
  <2> QED BY <2>1, <2>2
<1>3. CASE \E r \in Native!Runs : Native!Enqueue(p, r)
  BY <1>1, <1>3, EnqueueKeeps
<1>4. CASE prompt' = [prompt EXCEPT ![p].at = "rejected"] /\ UNCHANGED queue
  <2>1. /\ prompt \in [Prompts -> PromptType] /\ queue \in [Native!Runs -> Seq(Prompts)]
        /\ busy \in [Native!Runs -> BOOLEAN] /\ overlays \subseteq Prompts /\ scopes \in Nat
    BY NativeTypes
  <2>2. prompt[p] \in PromptType /\ prompt' = [prompt EXCEPT ![p] = [prompt[p] EXCEPT !.at = "rejected"]]
    BY <1>4, <2>1
  <2>3. [prompt[p] EXCEPT !.at = "rejected"] \in PromptType
    BY <2>2 DEF PromptType
  <2>4. [prompt[p] EXCEPT !.at = "rejected"].at = "rejected"
    BY <2>2 DEF PromptType
  <2>5. /\ prompt' \in [Prompts -> PromptType] /\ prompt'[p].at = "rejected"
        /\ \A q \in Prompts : q # p => prompt'[q] = prompt[q]
    BY <2>1, <2>2, <2>3, <2>4
  <2>6. Native!TypeOK'
    BY <1>1, <1>4, <2>1, <2>5, PromptStepTypes
  <2>7. p \notin overlays
    BY <1>1 DEF NativeInv, ScopesInv
  <2>8. ScopesInv'
    <3>1. Holding' = Holding
      BY <1>1, <2>1, <2>5, <2>7 DEF Holding
    <3>2. \A q \in Prompts : prompt'[q].at = "shown" => q \in overlays
      BY <2>5 DEF NativeInv, ScopesInv
    <3>3. \A q \in overlays : prompt'[q].at \in {"shown", "rejected"}
      BY <2>1, <2>5, <2>7 DEF NativeInv, ScopesInv
    <3> QED BY <1>1, <3>1, <3>2, <3>3 DEF NativeInv, ScopesInv
  <2>9. QueueInv'
    <3>1. ASSUME NEW s \in Native!Runs, NEW i \in DOMAIN queue[s]
          PROVE  prompt'[queue[s][i]] = prompt[queue[s][i]]
      <4>1. queue[s] \in Seq(Prompts)
        BY <2>1
      <4>2. queue[s][i] \in Prompts
        BY <4>1
      <4>3. prompt[queue[s][i]] = [at |-> "queued", run |-> s]
        BY DEF NativeInv, QueueInv
      <4> QED BY <1>1, <2>5, <4>2, <4>3
    <3> QED BY <1>4, <3>1 DEF NativeInv, QueueInv
  <2> QED BY <2>6, <2>8, <2>9 DEF NativeInv
<1> QED BY <1>2, <1>3, <1>4

(* The first prompt of a queue is rejected or shown.                        *)
LEMMA ShowNextKeeps ==
  ASSUME NativeInv, NEW r \in Native!Runs, Native!ShowNext(r) PROVE NativeInv'
<1> DEFINE p == Head(queue[r])
<1>1. /\ prompt \in [Prompts -> PromptType] /\ queue \in [Native!Runs -> Seq(Prompts)]
      /\ busy \in [Native!Runs -> BOOLEAN] /\ overlays \subseteq Prompts /\ scopes \in Nat
  BY NativeTypes
<1>2. /\ queue[r] # <<>> /\ queue' = [queue EXCEPT ![r] = Tail(queue[r])]
      /\ UNCHANGED <<phase, activeRun, bridge, stoppedBy, fired>>
  BY DEF Native!ShowNext, Native!runVars
<1>3. \/ /\ prompt' = [prompt EXCEPT ![p].at = "rejected"]
         /\ UNCHANGED <<busy, overlays, scopes>>
      \/ /\ prompt' = [prompt EXCEPT ![p].at = "shown"]
         /\ busy' = [busy EXCEPT ![r] = TRUE]
         /\ overlays' = overlays \cup {p} /\ scopes' = scopes + 1
  BY DEF Native!ShowNext
<1>4. /\ queue[r] \in Seq(Prompts) /\ p = queue[r][1] /\ 1 \in DOMAIN queue[r] /\ p \in Prompts
      /\ Tail(queue[r]) \in Seq(Prompts)
      /\ \A i \in DOMAIN Tail(queue[r]) :
           i + 1 \in DOMAIN queue[r] /\ i + 1 # 1 /\ Tail(queue[r])[i] = queue[r][i + 1]
  <2>1. queue[r] \in Seq(Prompts) /\ queue[r] # <<>>
    BY <1>1, <1>2
  <2> QED BY <2>1
<1> HIDE DEF p
<1>5. /\ queue' \in [Native!Runs -> Seq(Prompts)] /\ queue'[r] = Tail(queue[r])
      /\ \A s \in Native!Runs : s # r => queue'[s] = queue[s]
  BY <1>1, <1>2, <1>4
<1>6. prompt[p] = [at |-> "queued", run |-> r] /\ p \notin overlays
  <2>1. prompt[p] = [at |-> "queued", run |-> r]
    BY <1>4 DEF NativeInv, QueueInv
  <2> QED BY <2>1 DEF NativeInv, ScopesInv
<1>7. PICK where \in {"rejected", "shown"} :
        /\ prompt' = [prompt EXCEPT ![p].at = where]
        /\ where = "rejected" => UNCHANGED <<busy, overlays, scopes>>
        /\ where = "shown" => /\ busy' = [busy EXCEPT ![r] = TRUE]
                              /\ overlays' = overlays \cup {p} /\ scopes' = scopes + 1
  BY <1>3
<1>8. /\ prompt' \in [Prompts -> PromptType] /\ prompt'[p].at = where
      /\ \A q \in Prompts : q # p => prompt'[q] = prompt[q]
  <2>1. prompt' = [prompt EXCEPT ![p] = [prompt[p] EXCEPT !.at = where]]
    BY <1>1, <1>4, <1>7
  <2>2. [prompt[p] EXCEPT !.at = where] \in PromptType /\ [prompt[p] EXCEPT !.at = where].at = where
    BY <1>1, <1>4 DEF PromptType
  <2> QED BY <1>1, <1>4, <2>1, <2>2
<1>9. Native!TypeOK'
  <2>1. busy' \in [Native!Runs -> BOOLEAN] /\ overlays' \subseteq Prompts /\ scopes' \in Nat
    <3>1. CASE where = "rejected"
      BY <1>1, <1>7, <3>1
    <3>2. CASE where = "shown"
      <4>1. /\ busy' = [busy EXCEPT ![r] = TRUE] /\ overlays' = overlays \cup {p}
            /\ scopes' = scopes + 1
        BY <1>7, <3>2
      <4> QED BY <1>1, <1>4, <4>1
    <3> QED BY <3>1, <3>2
  <2> QED BY <1>2, <1>5, <1>8, <2>1, PromptStepTypes
<1>10. ScopesInv'
  <2>1. CASE where = "rejected"
    <3>1. UNCHANGED <<busy, overlays, scopes>>
      BY <1>7, <2>1
    <3>2. Holding' = Holding
      BY <1>1, <1>6, <1>8, <3>1 DEF Holding
    <3>3. \A q \in Prompts : prompt'[q].at = "shown" => q \in overlays
      BY <1>8, <2>1 DEF NativeInv, ScopesInv
    <3>4. \A q \in overlays : prompt'[q].at \in {"shown", "rejected"}
      BY <1>1, <1>6, <1>8 DEF NativeInv, ScopesInv
    <3> QED BY <3>1, <3>2, <3>3, <3>4 DEF NativeInv, ScopesInv
  <2>2. CASE where = "shown"
    <3>1. overlays' = overlays \cup {p} /\ scopes' = scopes + 1
      BY <1>7, <2>2
    <3>2. Holding' = Holding \cup {p} /\ p \notin Holding
      BY <1>1, <1>4, <1>6, <1>8, <2>2, <3>1 DEF Holding
    <3>3. Cardinality(Holding') = Cardinality(Holding) + 1
      BY <3>2, HoldingIsFinite, FS_AddElement
    <3>4. IsFiniteSet(overlays')
      BY <3>1, FS_AddElement DEF NativeInv, ScopesInv
    <3>5. \A q \in Prompts : prompt'[q].at = "shown" => q \in overlays'
      BY <1>8, <3>1 DEF NativeInv, ScopesInv
    <3>6. \A q \in overlays' : prompt'[q].at \in {"shown", "rejected"}
      BY <1>1, <1>6, <1>8, <2>2, <3>1 DEF NativeInv, ScopesInv
    <3> QED BY <3>1, <3>3, <3>4, <3>5, <3>6 DEF NativeInv, ScopesInv
  <2> QED BY <2>1, <2>2
<1>11. ASSUME NEW s \in Native!Runs, NEW i \in DOMAIN queue[s], s # r \/ i # 1
       PROVE  prompt'[queue[s][i]] = [at |-> "queued", run |-> s]
  <2>1. queue[s] \in Seq(Prompts)
    BY <1>1
  <2>2. queue[s][i] \in Prompts
    BY <2>1
  <2>3. prompt[queue[s][i]] = [at |-> "queued", run |-> s]
    BY DEF NativeInv, QueueInv
  <2>4. queue[s][i] # p
    <3>1. CASE s # r
      <4>1. [at |-> "queued", run |-> s].run = s /\ [at |-> "queued", run |-> r].run = r
        OBVIOUS
      <4> QED BY <1>6, <2>3, <3>1, <4>1
    <3>2. CASE s = r
      BY <1>4, <1>11, <3>2 DEF NativeInv, QueueInv
    <3> QED BY <3>1, <3>2
  <2> QED BY <1>8, <2>2, <2>3, <2>4
<1>12. QueueInv'
  <2>1. ASSUME NEW s \in Native!Runs, s # r
        PROVE  /\ \A i \in DOMAIN queue'[s] : prompt'[queue'[s][i]] = [at |-> "queued", run |-> s]
               /\ \A i, j \in DOMAIN queue'[s] : queue'[s][i] = queue'[s][j] => i = j
    BY <1>5, <1>11, <2>1 DEF NativeInv, QueueInv
  <2>2. \A i \in DOMAIN queue'[r] : prompt'[queue'[r][i]] = [at |-> "queued", run |-> r]
    BY <1>4, <1>5, <1>11
  <2>3. ASSUME NEW i \in DOMAIN queue'[r], NEW j \in DOMAIN queue'[r],
               queue'[r][i] = queue'[r][j]
        PROVE  i = j
    <3>1. /\ i + 1 \in DOMAIN queue[r] /\ j + 1 \in DOMAIN queue[r]
          /\ queue[r][i + 1] = queue[r][j + 1]
      BY <1>4, <1>5, <2>3
    <3>2. i + 1 = j + 1
      BY <3>1 DEF NativeInv, QueueInv
    <3>3. i \in Int /\ j \in Int
      BY <1>4, <1>5
    <3> QED BY <3>2, <3>3
  <2> QED BY <2>1, <2>2, <2>3 DEF QueueInv
<1> QED BY <1>9, <1>10, <1>12 DEF NativeInv

(* The last steps of a prompt: it leaves the screen, or an interrupt settles *)
(* it there.  The queues hold none of them.                                 *)
LEMMA SettlingKeepsQueues ==
  ASSUME NativeInv, NEW p \in overlays, UNCHANGED queue,
         \A q \in Prompts : q # p => prompt'[q] = prompt[q]
  PROVE  QueueInv'
<1>1. ASSUME NEW s \in Native!Runs, NEW i \in DOMAIN queue[s]
      PROVE  prompt'[queue[s][i]] = prompt[queue[s][i]]
  <2>1. queue[s] \in Seq(Prompts)
    BY NativeTypes
  <2>2. queue[s][i] \in Prompts
    BY <2>1
  <2>3. prompt[queue[s][i]] = [at |-> "queued", run |-> s]
    BY DEF NativeInv, QueueInv
  <2>4. prompt[p].at \in {"shown", "rejected"}
    BY DEF NativeInv, ScopesInv
  <2>5. prompt[queue[s][i]].at = "queued"
    BY <2>3
  <2> QED BY <2>2, <2>4, <2>5
<1> QED BY <1>1 DEF NativeInv, QueueInv

(* Leaving gives back the scope of a prompt that held one.                  *)
LEMMA Left ==
  ASSUME NativeInv, NEW p \in Holding, Native!Leave
  PROVE  scopes' \in Nat /\ scopes' = Cardinality(Holding \ {p})
<1>1. /\ IsFiniteSet(Holding) /\ Cardinality(Holding) \in Nat /\ scopes = Cardinality(Holding)
  BY HoldingIsFinite DEF NativeInv, ScopesInv
<1>2. Cardinality(Holding) # 0
  BY <1>1, FS_EmptySet
<1>3. Cardinality(Holding \ {p}) = Cardinality(Holding) - 1
  BY <1>1, FS_RemoveElement
<1> QED BY <1>1, <1>2, <1>3 DEF Native!Leave

LEMMA CloseKeeps ==
  ASSUME NativeInv, NEW p \in Prompts, Native!Close(p) PROVE NativeInv'
<1>1. /\ prompt \in [Prompts -> PromptType] /\ queue \in [Native!Runs -> Seq(Prompts)]
      /\ busy \in [Native!Runs -> BOOLEAN] /\ overlays \subseteq Prompts /\ scopes \in Nat
  BY NativeTypes
<1>2. /\ p \in overlays /\ overlays' = overlays \ {p}
      /\ UNCHANGED <<phase, activeRun, bridge, stoppedBy, fired, queue>>
  BY DEF Native!Close, Native!runVars
<1>3. IsFiniteSet(overlays')
  BY <1>2, FS_RemoveElement DEF NativeInv, ScopesInv
<1>4. CASE prompt[p].at = "shown"
  <2>1. PICK where \in {"answered", "rejected"} : prompt' = [prompt EXCEPT ![p].at = where]
    BY <1>4 DEF Native!Close
  <2>2. Native!Leave /\ busy' = [busy EXCEPT ![prompt[p].run] = FALSE]
    BY <1>4 DEF Native!Close
  <2>3. /\ prompt' \in [Prompts -> PromptType] /\ prompt'[p].at = where
        /\ \A q \in Prompts : q # p => prompt'[q] = prompt[q]
    <3>1. prompt' = [prompt EXCEPT ![p] = [prompt[p] EXCEPT !.at = where]]
      BY <1>1, <2>1
    <3>2. [prompt[p] EXCEPT !.at = where] \in PromptType /\ [prompt[p] EXCEPT !.at = where].at = where
      BY <1>1 DEF PromptType
    <3> QED BY <1>1, <3>1, <3>2
  <2>4. p \in Holding
    BY <1>2, <1>4 DEF Holding
  <2>5. scopes' \in Nat /\ scopes' = Cardinality(Holding \ {p})
    BY <2>2, <2>4, Left
  <2>6. Holding' = Holding \ {p}
    BY <1>1, <1>2, <2>3 DEF Holding
  <2>7. busy' \in [Native!Runs -> BOOLEAN]
    BY <1>1, <2>2
  <2>8. Native!TypeOK'
    BY <1>1, <1>2, <2>3, <2>5, <2>7, PromptStepTypes
  <2>9. \A q \in Prompts : prompt'[q].at = "shown" => q \in overlays'
    BY <1>2, <2>3 DEF NativeInv, ScopesInv
  <2>10. \A q \in overlays' : prompt'[q].at \in {"shown", "rejected"}
    BY <1>1, <1>2, <2>3 DEF NativeInv, ScopesInv
  <2>11. ScopesInv'
    BY <1>3, <2>5, <2>6, <2>9, <2>10 DEF ScopesInv
  <2>12. QueueInv'
    BY <1>2, <2>3, SettlingKeepsQueues
  <2> QED BY <2>8, <2>11, <2>12 DEF NativeInv
<1>5. CASE prompt[p].at # "shown"
  <2>1. /\ IF p \in Direct THEN UNCHANGED scopes ELSE Native!Leave
        /\ UNCHANGED <<prompt, busy>>
    BY <1>5 DEF Native!Close
  <2>2. Holding' = Holding \ {p}
    BY <1>1, <1>2, <2>1 DEF Holding
  <2>3. scopes' \in Nat /\ scopes' = Cardinality(Holding')
    <3>1. CASE p \in Direct
      <4>1. Holding' = Holding
        BY <1>5, <2>2, <3>1 DEF Holding
      <4>2. scopes = Cardinality(Holding)
        BY DEF NativeInv, ScopesInv
      <4> QED BY <1>1, <2>1, <3>1, <4>1, <4>2
    <3>2. CASE p \notin Direct
      <4>1. p \in Holding
        BY <1>2, <3>2 DEF Holding
      <4> QED BY <2>1, <2>2, <3>2, <4>1, Left
    <3> QED BY <3>1, <3>2
  <2>4. Native!TypeOK'
    BY <1>1, <1>2, <2>1, <2>3, PromptStepTypes
  <2>5. \A q \in Prompts : prompt'[q].at = "shown" => q \in overlays'
    BY <1>2, <1>5, <2>1 DEF NativeInv, ScopesInv
  <2>6. \A q \in overlays' : prompt'[q].at \in {"shown", "rejected"}
    BY <1>2, <2>1 DEF NativeInv, ScopesInv
  <2>7. ScopesInv'
    BY <1>3, <2>3, <2>5, <2>6 DEF ScopesInv
  <2>8. QueueInv'
    BY <1>2, <2>1, SettlingKeepsQueues
  <2> QED BY <2>4, <2>7, <2>8 DEF NativeInv
<1> QED BY <1>4, <1>5

LEMMA InterruptKeeps ==
  ASSUME NativeInv, NEW p \in Prompts, Native!Interrupt(p) PROVE NativeInv'
<1>1. /\ prompt \in [Prompts -> PromptType] /\ queue \in [Native!Runs -> Seq(Prompts)]
      /\ busy \in [Native!Runs -> BOOLEAN] /\ overlays \subseteq Prompts /\ scopes \in Nat
  BY NativeTypes
<1>2. /\ prompt[p].at = "shown" /\ prompt' = [prompt EXCEPT ![p].at = "rejected"]
      /\ busy' = [busy EXCEPT ![prompt[p].run] = FALSE]
      /\ IF p \in Direct THEN Native!Leave ELSE UNCHANGED scopes
      /\ UNCHANGED <<phase, activeRun, bridge, stoppedBy, fired, queue, overlays>>
  BY DEF Native!Interrupt, Native!runVars
<1>3. /\ prompt' \in [Prompts -> PromptType] /\ prompt'[p].at = "rejected"
      /\ \A q \in Prompts : q # p => prompt'[q] = prompt[q]
  <2>1. prompt' = [prompt EXCEPT ![p] = [prompt[p] EXCEPT !.at = "rejected"]]
    BY <1>1, <1>2
  <2>2. /\ [prompt[p] EXCEPT !.at = "rejected"] \in PromptType
        /\ [prompt[p] EXCEPT !.at = "rejected"].at = "rejected"
    BY <1>1 DEF PromptType
  <2> QED BY <1>1, <2>1, <2>2
<1>4. p \in overlays /\ p \in Holding
  BY <1>2 DEF NativeInv, ScopesInv, Holding
<1>5. scopes' \in Nat /\ scopes' = Cardinality(Holding')
  <2>1. CASE p \in Direct
    <3>1. Holding' = Holding \ {p}
      BY <1>1, <1>2, <1>3, <2>1 DEF Holding
    <3> QED BY <1>2, <1>4, <2>1, <3>1, Left
  <2>2. CASE p \notin Direct
    <3>1. Holding' = Holding
      BY <1>1, <1>2, <1>3, <1>4, <2>2 DEF Holding
    <3>2. scopes = Cardinality(Holding)
      BY DEF NativeInv, ScopesInv
    <3> QED BY <1>1, <1>2, <2>2, <3>1, <3>2
  <2> QED BY <2>1, <2>2
<1>6. busy' \in [Native!Runs -> BOOLEAN]
  BY <1>1, <1>2
<1>7. Native!TypeOK'
  BY <1>1, <1>2, <1>3, <1>5, <1>6, PromptStepTypes
<1>8. \A q \in Prompts : prompt'[q].at = "shown" => q \in overlays'
  BY <1>2, <1>3 DEF NativeInv, ScopesInv
<1>9. \A q \in overlays' : prompt'[q].at \in {"shown", "rejected"}
  BY <1>1, <1>2, <1>3 DEF NativeInv, ScopesInv
<1>10. ScopesInv'
  BY <1>2, <1>5, <1>8, <1>9 DEF NativeInv, ScopesInv
<1>11. QueueInv'
  BY <1>2, <1>3, <1>4, SettlingKeepsQueues
<1> QED BY <1>7, <1>10, <1>11 DEF NativeInv

LEMMA NativeNext == NativeInv /\ Native!Next => NativeInv'
BY RunStepKeeps, AsksKeeps, ShowNextKeeps, CloseKeeps, InterruptKeeps DEF Native!Next

(* Escape stops a run only where no scope is open, so no prompt waits.      *)
Escapes ==
  \A r \in Native!Runs : stoppedBy[r] # stoppedBy'[r] /\ stoppedBy'[r] = "escape"
    => \A p \in Prompts : prompt[p].at # "shown"

LEMMA NoScopeNoPrompt ==
  ASSUME NativeInv, scopes = 0 PROVE \A p \in Prompts : prompt[p].at # "shown"
<1>1. Holding = {}
  BY HoldingIsFinite, FS_EmptySet DEF NativeInv, ScopesInv
<1> QED BY <1>1 DEF NativeInv, ScopesInv, Holding

LEMMA EscapesNext == NativeInv /\ Native!Next => Escapes
<1> SUFFICES ASSUME NativeInv, Native!Next PROVE Escapes
  OBVIOUS
<1>1. CASE Native!Escape
  <2>1. scopes = 0
    BY <1>1 DEF Native!Escape
  <2> QED BY <2>1, NoScopeNoPrompt DEF Escapes
<1>2. CASE Native!StopCommand
  <2>1. /\ stoppedBy' = [stoppedBy EXCEPT ![activeRun] = "command"]
        /\ stoppedBy \in [Native!Runs -> {"nothing", "command", "escape"}]
    BY <1>2 DEF Native!StopCommand, Native!Stop, NativeInv, Native!TypeOK
  <2> QED BY <2>1 DEF Escapes
<1>3. CASE UNCHANGED stoppedBy
  BY <1>3 DEF Escapes
<1>4. Native!Escape \/ Native!StopCommand \/ UNCHANGED stoppedBy
  BY DEF Native!Next, Native!StartRun, Native!Execute, Native!EndRun, Native!ShowNext,
         Native!HumanAsks, Native!AgentAsks, Native!Close, Native!Interrupt, Native!AgentAborted
<1> QED BY <1>1, <1>2, <1>3, <1>4

-----------------------------------------------------------------------------
(* The process: a step of one machine leaves the others where they are.     *)

IInv == RunnerInv /\ MailInv /\ TurnsInv /\ NativeInv

LEMMA RunnerFrame == RunnerInv /\ UNCHANGED runnerVars => RunnerInv'
<1> SUFFICES ASSUME RunnerInv, UNCHANGED runnerVars PROVE RunnerInv'
  OBVIOUS
<1>1. UNCHANGED <<env, saved, working, crossed, at, signal, violated, outcome, late>>
  BY DEF runnerVars
<1> QED BY <1>1 DEF RunnerInv, Runner!TypeOK, OutcomesInv, EnvironmentInv

LEMMA MailFrame == MailInv /\ UNCHANGED mailVars => MailInv'
<1> SUFFICES ASSUME MailInv, UNCHANGED mailVars PROVE MailInv'
  OBVIOUS
<1>1. UNCHANGED <<tracker, now, record, call, delivered, answered, forgotten, errors, restarts>>
  BY DEF mailVars
<1>2. Mail!TypeOK'
  BY <1>1 DEF MailInv, Mail!TypeOK
<1>3. AnswersInv' /\ RepliedInv'
  BY <1>1 DEF MailInv, AnswersInv, RepliedInv
<1>4. ExpiryInv'
  BY <1>1 DEF MailInv, ExpiryInv, Expires
<1>5. Mail!WaitingIsTracked'
  BY <1>1 DEF MailInv, Mail!WaitingIsTracked, Mail!Working
<1> QED BY <1>2, <1>3, <1>4, <1>5 DEF MailInv

LEMMA TurnsFrame == TurnsInv /\ UNCHANGED turnsVars => TurnsInv'
BY DEF turnsVars, TurnsInv, Turns!TypeOK

LEMMA NativeFrame == NativeInv /\ UNCHANGED nativeVars => NativeInv'
<1> SUFFICES ASSUME NativeInv, UNCHANGED nativeVars PROVE NativeInv'
  OBVIOUS
<1>1. UNCHANGED <<phase, activeRun, stoppedBy, bridge, prompt, queue, busy, overlays, scopes, fired>>
  BY DEF nativeVars
<1>2. Native!TypeOK' /\ QueueInv'
  BY <1>1 DEF NativeInv, Native!TypeOK, QueueInv
<1>3. Holding' = Holding
  BY <1>1 DEF Holding
<1>4. ScopesInv'
  BY <1>1, <1>3 DEF NativeInv, ScopesInv
<1> QED BY <1>2, <1>4 DEF NativeInv

LEMMA InitInv == Init => IInv
BY RunnerInit, MailInit, TurnsInit, NativeInit DEF Init, IInv

LEMMA NextInv == IInv /\ [Next]_vars => IInv'
<1> SUFFICES ASSUME IInv, [Next]_vars PROVE IInv'
  OBVIOUS
<1>1. CASE NativeStep
  BY <1>1, NativeNext, RunnerFrame, MailFrame, TurnsFrame DEF IInv, NativeStep
<1>2. CASE RunnerStep
  BY <1>2, RunnerNext, NativeFrame, MailFrame, TurnsFrame DEF IInv, RunnerStep
<1>3. CASE MailStep
  BY <1>3, MailNext, NativeFrame, RunnerFrame, TurnsFrame DEF IInv, MailStep
<1>4. CASE TurnsStep
  BY <1>4, TurnsNext, NativeFrame, RunnerFrame, MailFrame DEF IInv, TurnsStep
<1>5. CASE UNCHANGED vars
  BY <1>5, NativeFrame, RunnerFrame, MailFrame, TurnsFrame DEF IInv, vars
<1> QED BY <1>1, <1>2, <1>3, <1>4, <1>5 DEF Next

(* The invariants of the four machines hold of the process in every state.  *)
THEOREM InvariantHolds == Spec => []IInv
BY InitInv, NextInv, PTL DEF Spec

(* What an agent did out of its scope, or ended after the interrupt, is no  *)
(* output of the workflow (src/executor/node-runner.ts).                    *)
THEOREM OutputsLegitimate == Spec => []OutputsAreLegitimate
<1>1. IInv => OutputsAreLegitimate
  BY RunnerImplies DEF IInv, OutputsAreLegitimate
<1> QED BY <1>1, InvariantHolds, PTL

(* Agents that do not cross leave the user's environment, however many work *)
(* at once (src/executor/node-runner.ts).                                   *)
THEOREM EnvironmentIsRestored == Spec => []EnvironmentRestored
<1>1. IInv => EnvironmentRestored
  BY RunnerImplies DEF IInv, EnvironmentRestored
<1> QED BY <1>1, InvariantHolds, PTL

(* A record that waits has somebody who will settle it, and no ask is       *)
(* answered more often than it was delivered                                *)
(* (src/executor/intercom-correlation.ts).                                  *)
THEOREM AsksTracked == Spec => []AsksAreTracked
<1>1. IInv => AsksAreTracked
  BY DEF IInv, MailInv, AnswersInv, TurnsInv, AsksAreTracked, Mail!AskAnsweredOnce,
         Turns!AskAnsweredOnce
<1> QED BY <1>1, InvariantHolds, PTL

(* A recorded answer is not overwritten unless its ask is delivered again   *)
(* (src/executor/intercom-correlation.ts).                                  *)
THEOREM AnswerIsKept == Spec => AnswerNotLost
<1>1. IInv /\ [Next]_vars => [Kept]_(Mail!vars)
  <2> SUFFICES ASSUME IInv, [Next]_vars PROVE [Kept]_(Mail!vars)
    OBVIOUS
  <2>1. CASE MailStep
    BY <2>1, MailNext DEF IInv, MailStep
  <2>2. CASE UNCHANGED mailVars
    BY <2>2 DEF mailVars, Mail!vars
  <2>3. MailStep \/ UNCHANGED mailVars
    BY DEF Next, NativeStep, RunnerStep, TurnsStep, vars
  <2> QED BY <2>1, <2>2, <2>3
<1>2. AnswerNotLost <=> [][Kept]_(Mail!vars)
  BY DEF AnswerNotLost, Mail!AnswerNotLost, Kept
<1> QED BY <1>1, <1>2, InvariantHolds, PTL DEF Spec

(* Escape stops a run only when no prompt waits on the screen               *)
(* (src/cli/native/esc-scope.ts).                                           *)
THEOREM EscapeToPrompt == Spec => EscapeReachesPrompt
<1>1. IInv /\ [Next]_vars => [Escapes]_(Native!vars)
  <2> SUFFICES ASSUME IInv, [Next]_vars PROVE [Escapes]_(Native!vars)
    OBVIOUS
  <2>1. CASE NativeStep
    BY <2>1, EscapesNext DEF IInv, NativeStep
  <2>2. CASE UNCHANGED nativeVars
    BY <2>2 DEF nativeVars, Native!vars
  <2>3. NativeStep \/ UNCHANGED nativeVars
    BY DEF Next, MailStep, RunnerStep, TurnsStep, vars
  <2> QED BY <2>1, <2>2, <2>3
<1>2. EscapeReachesPrompt <=> [][Escapes]_(Native!vars)
  BY DEF EscapeReachesPrompt, Native!EscapeReachesPrompt, Escapes
<1> QED BY <1>1, <1>2, InvariantHolds, PTL DEF Spec
=============================================================================
