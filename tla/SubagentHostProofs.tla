------------------------- MODULE SubagentHostProofs -------------------------
(***************************************************************************)
(* Proofs about SubagentHost, for every set of visits and every number of   *)
(* attempts: its type invariant, OutputFromOwnVisit and                     *)
(* DeclaredOutputsProduced, then OnlyExposedVisitsDuplicated and            *)
(* CompletedNotReopened.                                                    *)
(*                                                                         *)
(* The inductive invariant IInv follows an agent id along its way: from the *)
(* run that spawned it (mine) to the file (store), to the snapshot of a     *)
(* later run (stored), to that run's own agent (mine again).  At every      *)
(* place the id belongs to the visit, and, where the record says that a     *)
(* declared visit is complete, the agent is known to have completed.        *)
(*                                                                         *)
(* HistoryInv adds what the visits that are not exposed rely on: one agent  *)
(* at most is live, the one the record names or the one whose record is     *)
(* about to be put, and whoever still waits for another agent waits for one *)
(* that has failed already.                                                 *)
(***************************************************************************)
EXTENDS SubagentHost, TLAPS

HasAgent == {"spawning", "waiting", "saving", "failing", "done"}

MineOwn ==
  \A i \in Runs :
    pc[i] \in HasAgent => mine[i] \in Runs /\ VisitOf(mine[i]) = VisitOf(i)

StoredOwn ==
  \A i \in Runs : stored[i].status # "none" => VisitOf(stored[i].agent) = VisitOf(i)

StoreOwn ==
  \A v \in Visits :
    store[BuildRunKey(v)].status # "none" => VisitOf(store[BuildRunKey(v)].agent) = v

OwnInv == MineOwn /\ StoredOwn /\ StoreOwn

(* An agent is launched once, so its verdict, once given, stays. *)
LaunchedOnce == \A i \in Runs : pc[i] \in {"new", "read"} => agent[i] = "absent"

MineCompleted ==
  \A i \in Runs :
    pc[i] \in {"saving", "done"} /\ VisitOf(i) \in Declared => agent[mine[i]] = "completed"

StoredCompleted ==
  \A i \in Runs :
    stored[i].status = "completed" /\ VisitOf(i) \in Declared =>
      agent[stored[i].agent] = "completed"

StoreCompleted ==
  \A v \in Declared :
    store[BuildRunKey(v)].status = "completed" =>
      agent[store[BuildRunKey(v)].agent] = "completed"

CompletedInv == LaunchedOnce /\ MineCompleted /\ StoredCompleted /\ StoreCompleted

IInv == TypeOK /\ OwnInv /\ CompletedInv

-----------------------------------------------------------------------------
(* A run belongs to a visit and an attempt, and its key is a store key.     *)
LEMMA RunParts ==
  \A i \in Runs : VisitOf(i) \in Visits /\ AttemptOf(i) \in Attempts /\ KeyOf(i) \in Keys
BY DEF Runs, VisitOf, AttemptOf, KeyOf, Keys

(* buildRunKey tells any two visits apart. *)
LEMMA KeysDiffer ==
  \A v, w \in Visits : BuildRunKey(v) = BuildRunKey(w) => v = w
BY VisitsAssumption DEF BuildRunKey

(* Only the empty record has no agent of a run. *)
LEMMA RecordHasAgent ==
  ASSUME NEW r \in Records, r.status # "none"
  PROVE  r.agent \in Runs
BY DEF Records, NoRecord

(* A record with a run's agent is a record. *)
LEMMA RecordIsRecord ==
  \A a \in Runs : \A s \in {"spawned", "completed", "failed"} : Record(s, a) \in Records
BY DEF Record, Records

-----------------------------------------------------------------------------
(* Type correctness. *)

LEMMA InitType == Init => TypeOK
<1> SUFFICES ASSUME Init PROVE TypeOK
  OBVIOUS
<1>1. NoRecord \in Records
  BY DEF Records
<1>2. 1 \in Attempts
  BY ConstantsAssumption DEF Attempts
<1> QED BY <1>1, <1>2 DEF Init, TypeOK

LEMMA RunStepType ==
  ASSUME TypeOK, MineOwn, NEW i \in Runs, RunStep(i)
  PROVE  TypeOK'
<1>0. KeyOf(i) \in Keys
  BY RunParts
<1>1. CASE Lookup(i)
  BY <1>0, <1>1 DEF TypeOK, Lookup, Goto, Busy, Ended
<1>2. CASE StopAfterLookup(i)
  BY <1>2 DEF TypeOK, StopAfterLookup, Goto, Ended
<1>3. CASE Reuse(i)
  <2>1. stored[i].agent \in Runs
    BY <1>3, RecordHasAgent DEF TypeOK, Reuse
  <2> QED BY <1>3, <2>1 DEF TypeOK, Reuse, Goto, Ended
<1>4. CASE Attach(i)
  <2>1. stored[i].agent \in Runs
    BY <1>4, RecordHasAgent DEF TypeOK, Attach
  <2> QED BY <1>4, <2>1 DEF TypeOK, Attach, Goto, Busy
<1>5. CASE Launch(i)
  BY <1>5 DEF TypeOK, Launch, Goto, Busy
<1>6. CASE LaunchFails(i)
  BY <1>6 DEF TypeOK, LaunchFails, Goto, Ended
<1>7. CASE SpawnReturns(i)
  BY <1>7 DEF TypeOK, SpawnReturns
<1>8. CASE StoreSpawned(i)
  <2>1. Record("spawned", i) \in Records
    BY RecordIsRecord
  <2> QED BY <1>0, <1>8, <2>1 DEF TypeOK, StoreSpawned, Goto, Busy, Ended
<1>9. CASE Interrupt(i)
  BY <1>9 DEF TypeOK, Interrupt, Goto, Ended
<1>10. CASE Collect(i)
  BY <1>10 DEF TypeOK, Collect, Goto, Busy
<1>11. CASE Save(i)
  <2>1. Record("completed", mine[i]) \in Records
    BY <1>11, RecordIsRecord DEF Save, MineOwn, HasAgent
  <2> QED BY <1>0, <1>11, <2>1 DEF TypeOK, Save, Put, Goto, Ended
<1>12. CASE StoreFailed(i)
  <2>1. Record("failed", mine[i]) \in Records
    BY <1>12, RecordIsRecord DEF StoreFailed, MineOwn, HasAgent
  <2>2. exposed' \subseteq Visits
    BY <1>12, RunParts DEF TypeOK, StoreFailed
  <2> QED BY <1>0, <1>12, <2>1, <2>2 DEF TypeOK, StoreFailed, Put, Goto, Ended
<1>13. CASE LookupFails(i) \/ WaitFails(i) \/ VerdictPutFails(i)
  BY <1>13 DEF TypeOK, LookupFails, WaitFails, VerdictPutFails, Goto, Ended
<1>14. CASE SpawnFails(i)
  <2>1. exposed' \subseteq Visits
    BY <1>14, RunParts DEF TypeOK, SpawnFails
  <2> QED BY <1>14, <2>1 DEF TypeOK, SpawnFails, Goto, Ended
<1> QED BY <1>1, <1>2, <1>3, <1>4, <1>5, <1>6, <1>7, <1>8, <1>9, <1>10, <1>11, <1>12, <1>13, <1>14
        DEF RunStep, Continues, Fails

LEMMA NextType == TypeOK /\ MineOwn /\ [Next]_vars => TypeOK'
<1> SUFFICES ASSUME TypeOK, MineOwn, [Next]_vars PROVE TypeOK'
  OBVIOUS
<1>0. Unrecorded \subseteq Visits
  BY RunParts DEF Unrecorded
<1>1. ASSUME NEW i \in Runs, RunStep(i) PROVE TypeOK'
  BY <1>1, RunStepType
<1>2. ASSUME NEW i \in Runs, AgentSettles(i) PROVE TypeOK'
  BY <1>2 DEF TypeOK, AgentSettles
<1>3. CASE SoftInterrupt
  BY <1>0, <1>3 DEF TypeOK, SoftInterrupt
<1>4. CASE NextAttempt
  <2>1. attempt' \in Attempts
    BY <1>4, ConstantsAssumption DEF TypeOK, NextAttempt, Attempts
  <2> QED BY <1>0, <1>4, <2>1 DEF TypeOK, NextAttempt
<1>5. CASE CrashAndRestart
  <2>1. attempt' \in Attempts
    BY <1>5, ConstantsAssumption DEF TypeOK, CrashAndRestart, Attempts
  <2> QED BY <1>0, <1>5, <2>1 DEF TypeOK, CrashAndRestart, Ended
<1>6. CASE UNCHANGED vars
  BY <1>6 DEF TypeOK, vars
<1> QED BY <1>1, <1>2, <1>3, <1>4, <1>5, <1>6 DEF Next

-----------------------------------------------------------------------------
(* Every agent id a run works with belongs to its visit. *)

LEMMA InitOwn == Init => OwnInv
<1> SUFFICES ASSUME Init PROVE OwnInv
  OBVIOUS
<1>1. MineOwn
  BY DEF Init, MineOwn, HasAgent
<1>2. StoredOwn
  BY DEF Init, StoredOwn, NoRecord
<1>3. StoreOwn
  BY DEF Init, StoreOwn, NoRecord, Keys
<1> QED BY <1>1, <1>2, <1>3 DEF OwnInv

(* What a lookup finds under the key of a visit belongs to the visit. *)
LEMMA LookupOwn ==
  ASSUME TypeOK, StoreOwn, NEW i \in Runs, store[KeyOf(i)].status # "none"
  PROVE  VisitOf(store[KeyOf(i)].agent) = VisitOf(i)
BY RunParts DEF StoreOwn, KeyOf

(* Putting a record of an agent of the visit disturbs no other visit. *)
LEMMA PutOwn ==
  ASSUME TypeOK, StoreOwn, NEW i \in Runs, NEW a \in Runs, VisitOf(a) = VisitOf(i),
         NEW s, store' = [store EXCEPT ![KeyOf(i)] = Record(s, a)]
  PROVE  StoreOwn'
<1> SUFFICES ASSUME NEW v \in Visits, store'[BuildRunKey(v)].status # "none"
             PROVE  VisitOf(store'[BuildRunKey(v)].agent) = v
  BY DEF StoreOwn
<1>1. BuildRunKey(v) \in Keys /\ VisitOf(i) \in Visits
  BY RunParts DEF Keys
<1>2. CASE v = VisitOf(i)
  BY <1>1, <1>2 DEF TypeOK, KeyOf, Record
<1>3. CASE v # VisitOf(i)
  <2>1. BuildRunKey(v) # KeyOf(i)
    BY <1>1, <1>3, KeysDiffer DEF KeyOf
  <2> QED BY <1>1, <2>1 DEF TypeOK, StoreOwn
<1> QED BY <1>2, <1>3

LEMMA RunStepOwn ==
  ASSUME TypeOK, OwnInv, NEW i \in Runs, RunStep(i)
  PROVE  OwnInv'
<1> USE DEF OwnInv, Goto
<1>1. CASE Lookup(i)
  <2>1. MineOwn'
    BY <1>1 DEF Lookup, TypeOK, MineOwn, HasAgent
  <2>2. StoredOwn'
    BY <1>1, LookupOwn DEF Lookup, TypeOK, StoredOwn
  <2> QED BY <1>1, <2>1, <2>2 DEF Lookup, StoreOwn
<1>2. CASE StopAfterLookup(i)
  BY <1>2 DEF StopAfterLookup, TypeOK, MineOwn, StoredOwn, StoreOwn, HasAgent
<1>3. CASE Reuse(i)
  <2>1. stored[i].agent \in Runs
    BY <1>3, RecordHasAgent DEF TypeOK, Reuse
  <2> QED BY <1>3, <2>1 DEF Reuse, TypeOK, MineOwn, StoredOwn, StoreOwn, HasAgent
<1>4. CASE Attach(i)
  <2>1. stored[i].agent \in Runs
    BY <1>4, RecordHasAgent DEF TypeOK, Attach
  <2> QED BY <1>4, <2>1 DEF Attach, TypeOK, MineOwn, StoredOwn, StoreOwn, HasAgent
<1>5. CASE Launch(i)
  BY <1>5 DEF Launch, TypeOK, MineOwn, StoredOwn, StoreOwn, HasAgent
<1>6. CASE LaunchFails(i)
  BY <1>6 DEF LaunchFails, TypeOK, MineOwn, StoredOwn, StoreOwn, HasAgent
<1>7. CASE SpawnReturns(i)
  BY <1>7 DEF SpawnReturns, MineOwn, StoredOwn, StoreOwn
<1>8. CASE StoreSpawned(i)
  <2>1. StoreOwn'
    BY <1>8, PutOwn DEF StoreSpawned
  <2> QED BY <1>8, <2>1 DEF StoreSpawned, TypeOK, MineOwn, StoredOwn, HasAgent
<1>9. CASE Interrupt(i)
  BY <1>9 DEF Interrupt, TypeOK, MineOwn, StoredOwn, StoreOwn, HasAgent
<1>10. CASE Collect(i)
  BY <1>10 DEF Collect, TypeOK, MineOwn, StoredOwn, StoreOwn, HasAgent
<1>11. CASE Save(i)
  <2>1. StoreOwn'
    BY <1>11, PutOwn DEF Save, Put, MineOwn, HasAgent
  <2> QED BY <1>11, <2>1 DEF Save, TypeOK, MineOwn, StoredOwn, HasAgent
<1>12. CASE StoreFailed(i)
  <2>1. StoreOwn'
    BY <1>12, PutOwn DEF StoreFailed, Put, MineOwn, HasAgent
  <2> QED BY <1>12, <2>1 DEF StoreFailed, TypeOK, MineOwn, StoredOwn, HasAgent
<1>13. CASE LookupFails(i) \/ SpawnFails(i) \/ WaitFails(i) \/ VerdictPutFails(i)
  BY <1>13 DEF LookupFails, SpawnFails, WaitFails, VerdictPutFails, TypeOK, MineOwn, StoredOwn,
               StoreOwn, HasAgent
<1> QED BY <1>1, <1>2, <1>3, <1>4, <1>5, <1>6, <1>7, <1>8, <1>9, <1>10, <1>11, <1>12, <1>13
        DEF RunStep, Continues, Fails

LEMMA NextOwn == TypeOK /\ OwnInv /\ [Next]_vars => OwnInv'
<1> SUFFICES ASSUME TypeOK, OwnInv, [Next]_vars PROVE OwnInv'
  OBVIOUS
<1>1. ASSUME NEW i \in Runs, RunStep(i) PROVE OwnInv'
  BY <1>1, RunStepOwn
<1>2. ASSUME NEW i \in Runs, AgentSettles(i) PROVE OwnInv'
  BY <1>2 DEF AgentSettles, OwnInv, MineOwn, StoredOwn, StoreOwn
<1>3. CASE SoftInterrupt
  BY <1>3 DEF SoftInterrupt, OwnInv, MineOwn, StoredOwn, StoreOwn
<1>4. CASE NextAttempt
  BY <1>4 DEF NextAttempt, OwnInv, MineOwn, StoredOwn, StoreOwn
<1>5. CASE CrashAndRestart
  BY <1>5 DEF CrashAndRestart, TypeOK, OwnInv, MineOwn, StoredOwn, StoreOwn, HasAgent
<1>6. CASE UNCHANGED vars
  BY <1>6 DEF vars, OwnInv, MineOwn, StoredOwn, StoreOwn
<1> QED BY <1>1, <1>2, <1>3, <1>4, <1>5, <1>6 DEF Next

-----------------------------------------------------------------------------
(* A declared visit is saved, reused or done only with a completed agent.   *)

LEMMA InitCompleted == Init => CompletedInv
<1> SUFFICES ASSUME Init PROVE CompletedInv
  OBVIOUS
<1>1. LaunchedOnce /\ MineCompleted
  BY DEF Init, LaunchedOnce, MineCompleted
<1>2. StoredCompleted
  BY DEF Init, StoredCompleted, NoRecord
<1>3. StoreCompleted
  BY ConstantsAssumption DEF Init, StoreCompleted, NoRecord, Keys
<1> QED BY <1>1, <1>2, <1>3 DEF CompletedInv

VerdictKept == \A a \in Runs : agent[a] = "completed" => agent'[a] = "completed"

(* No step takes back a verdict. *)
LEMMA NextVerdict ==
  ASSUME TypeOK, LaunchedOnce, [Next]_vars
  PROVE  VerdictKept /\ LaunchedOnce'
<1>1. ASSUME NEW i \in Runs, Launch(i) PROVE VerdictKept /\ LaunchedOnce'
  BY <1>1 DEF Launch, Goto, TypeOK, LaunchedOnce, VerdictKept
<1>2. ASSUME NEW i \in Runs, RunStep(i), ~Launch(i) PROVE VerdictKept /\ LaunchedOnce'
  <2>1. agent' = agent
    BY <1>2 DEF RunStep, Continues, Fails, Lookup, StopAfterLookup, Reuse, Attach, LookupFails,
                LaunchFails, SpawnFails, WaitFails, VerdictPutFails, SpawnReturns, StoreSpawned, Interrupt, Collect, Save, StoreFailed
  <2>2. \A j \in Runs : pc'[j] \in {"new", "read"} => pc[j] \in {"new", "read"}
    BY <1>2 DEF RunStep, Continues, Fails, Lookup, StopAfterLookup, Reuse, Attach, LookupFails,
                LaunchFails, SpawnFails, WaitFails, VerdictPutFails, SpawnReturns, StoreSpawned, Interrupt, Collect, Save, StoreFailed, Goto, TypeOK
  <2> QED BY <2>1, <2>2 DEF VerdictKept, LaunchedOnce
<1>3. ASSUME NEW i \in Runs, AgentSettles(i) PROVE VerdictKept /\ LaunchedOnce'
  BY <1>3 DEF AgentSettles, TypeOK, LaunchedOnce, VerdictKept
<1>4. CASE SoftInterrupt \/ NextAttempt \/ UNCHANGED vars
  BY <1>4 DEF SoftInterrupt, NextAttempt, vars, LaunchedOnce, VerdictKept
<1>5. CASE CrashAndRestart
  BY <1>5 DEF CrashAndRestart, TypeOK, LaunchedOnce, VerdictKept
<1> QED BY <1>1, <1>2, <1>3, <1>4, <1>5 DEF Next

LEMMA StoreKept ==
  ASSUME TypeOK, StoreCompleted, VerdictKept, store' = store
  PROVE  StoreCompleted'
<1> SUFFICES ASSUME NEW v \in Declared, store[BuildRunKey(v)].status = "completed"
             PROVE  agent'[store[BuildRunKey(v)].agent] = "completed"
  BY DEF StoreCompleted
<1>1. store[BuildRunKey(v)].agent \in Runs
  BY RecordHasAgent, ConstantsAssumption DEF TypeOK, Keys
<1> QED BY <1>1 DEF StoreCompleted, VerdictKept

LEMMA StoredKept ==
  ASSUME TypeOK, StoredCompleted, VerdictKept, stored' = stored
  PROVE  StoredCompleted'
<1> SUFFICES ASSUME NEW i \in Runs, stored[i].status = "completed", VisitOf(i) \in Declared
             PROVE  agent'[stored[i].agent] = "completed"
  BY DEF StoredCompleted
<1>1. stored[i].agent \in Runs
  BY RecordHasAgent DEF TypeOK
<1> QED BY <1>1 DEF StoredCompleted, VerdictKept

LEMMA MineKept ==
  ASSUME TypeOK, MineOwn, MineCompleted, VerdictKept,
         \A j \in Runs :
           pc'[j] \in {"saving", "done"} => pc[j] \in {"saving", "done"} /\ mine'[j] = mine[j]
  PROVE  MineCompleted'
BY DEF MineOwn, HasAgent, MineCompleted, VerdictKept

LEMMA PutCompleted ==
  ASSUME TypeOK, StoreCompleted, VerdictKept, NEW i \in Runs, NEW a \in Runs, NEW s,
         s = "completed" /\ VisitOf(i) \in Declared => agent'[a] = "completed",
         store' = [store EXCEPT ![KeyOf(i)] = Record(s, a)]
  PROVE  StoreCompleted'
<1> SUFFICES ASSUME NEW v \in Declared, store'[BuildRunKey(v)].status = "completed"
             PROVE  agent'[store'[BuildRunKey(v)].agent] = "completed"
  BY DEF StoreCompleted
<1>1. v \in Visits /\ BuildRunKey(v) \in Keys /\ VisitOf(i) \in Visits
  BY RunParts, ConstantsAssumption DEF Keys
<1>2. CASE v = VisitOf(i)
  BY <1>1, <1>2 DEF TypeOK, KeyOf, Record
<1>3. CASE v # VisitOf(i)
  <2>1. BuildRunKey(v) # KeyOf(i)
    BY <1>1, <1>3, KeysDiffer DEF KeyOf
  <2>2. store'[BuildRunKey(v)] = store[BuildRunKey(v)]
    BY <1>1, <2>1 DEF TypeOK
  <2>3. store[BuildRunKey(v)].agent \in Runs
    BY <1>1, <2>2, RecordHasAgent DEF TypeOK
  <2> QED BY <2>2, <2>3 DEF StoreCompleted, VerdictKept
<1> QED BY <1>2, <1>3

LEMMA RunStepCompleted ==
  ASSUME TypeOK, OwnInv, CompletedInv, VerdictKept, NEW i \in Runs, RunStep(i)
  PROVE  MineCompleted' /\ StoredCompleted' /\ StoreCompleted'
<1> USE DEF OwnInv, CompletedInv, Goto
<1>1. CASE Lookup(i)
  <2>1. MineCompleted'
    BY <1>1, MineKept DEF Lookup, TypeOK
  <2>2. StoreCompleted'
    BY <1>1, StoreKept DEF Lookup
  <2>3. StoredCompleted'
    <3>1. CASE stored' = stored
      BY <3>1, StoredKept
    <3>2. CASE stored' = [stored EXCEPT ![i] = store[KeyOf(i)]]
      <4>1. agent' = agent
        BY <1>1 DEF Lookup
      <4>2. VisitOf(i) \in Declared /\ store[KeyOf(i)].status = "completed" =>
              agent[store[KeyOf(i)].agent] = "completed"
        BY DEF StoreCompleted, KeyOf
      <4> QED BY <3>2, <4>1, <4>2 DEF StoredCompleted, TypeOK
    <3> QED BY <1>1, <3>1, <3>2 DEF Lookup
  <2> QED BY <2>1, <2>2, <2>3
<1>2. CASE StopAfterLookup(i) \/ LaunchFails(i) \/ Interrupt(i)
  <2>1. MineCompleted'
    BY <1>2, MineKept DEF StopAfterLookup, LaunchFails, Interrupt, TypeOK
  <2> QED BY <1>2, <2>1, StoreKept, StoredKept DEF StopAfterLookup, LaunchFails, Interrupt
<1>3. CASE Reuse(i)
  <2>1. MineCompleted'
    BY <1>3 DEF Reuse, TypeOK, MineCompleted, StoredCompleted
  <2> QED BY <1>3, <2>1, StoreKept, StoredKept DEF Reuse
<1>4. CASE Attach(i)
  <2>1. MineCompleted'
    BY <1>4, MineKept DEF Attach, TypeOK
  <2> QED BY <1>4, <2>1, StoreKept, StoredKept DEF Attach
<1>5. CASE Launch(i)
  <2>1. MineCompleted'
    BY <1>5, MineKept DEF Launch, TypeOK
  <2> QED BY <1>5, <2>1, StoreKept, StoredKept DEF Launch
<1>6. CASE SpawnReturns(i)
  <2>1. MineCompleted'
    BY <1>6, MineKept DEF SpawnReturns
  <2> QED BY <1>6, <2>1, StoreKept, StoredKept DEF SpawnReturns
<1>7. CASE StoreSpawned(i)
  <2>1. MineCompleted'
    BY <1>7, MineKept DEF StoreSpawned, TypeOK
  <2>2. StoreCompleted'
    BY <1>7, PutCompleted DEF StoreSpawned
  <2> QED BY <1>7, <2>1, <2>2, StoredKept DEF StoreSpawned
<1>8. CASE Collect(i)
  <2>1. MineCompleted'
    BY <1>8 DEF Collect, Yields, TypeOK, MineCompleted
  <2> QED BY <1>8, <2>1, StoreKept, StoredKept DEF Collect
<1>9. CASE Save(i)
  <2>1. MineCompleted'
    BY <1>9 DEF Save, TypeOK, MineCompleted
  <2>2. mine[i] \in Runs /\ (VisitOf(i) \in Declared => agent'[mine[i]] = "completed")
    BY <1>9 DEF Save, MineOwn, HasAgent, MineCompleted
  <2>3. StoreCompleted'
    BY <1>9, <2>2, PutCompleted DEF Save, Put
  <2> QED BY <1>9, <2>1, <2>3, StoredKept DEF Save
<1>10. CASE StoreFailed(i)
  <2>1. MineCompleted'
    BY <1>10, MineKept DEF StoreFailed, TypeOK
  <2>2. mine[i] \in Runs
    BY <1>10 DEF StoreFailed, MineOwn, HasAgent
  <2>3. StoreCompleted'
    BY <1>10, <2>2, PutCompleted DEF StoreFailed, Put
  <2> QED BY <1>10, <2>1, <2>3, StoredKept DEF StoreFailed
<1>11. CASE LookupFails(i) \/ SpawnFails(i) \/ WaitFails(i) \/ VerdictPutFails(i)
  <2>1. MineCompleted'
    BY <1>11, MineKept DEF LookupFails, SpawnFails, WaitFails, VerdictPutFails, TypeOK
  <2> QED BY <1>11, <2>1, StoreKept, StoredKept DEF LookupFails, SpawnFails, WaitFails, VerdictPutFails
<1> QED BY <1>1, <1>2, <1>3, <1>4, <1>5, <1>6, <1>7, <1>8, <1>9, <1>10, <1>11 DEF RunStep, Continues, Fails

LEMMA NextCompleted == TypeOK /\ OwnInv /\ CompletedInv /\ [Next]_vars => CompletedInv'
<1> SUFFICES ASSUME TypeOK, OwnInv, CompletedInv, [Next]_vars PROVE CompletedInv'
  OBVIOUS
<1>0. VerdictKept /\ LaunchedOnce'
  BY NextVerdict DEF CompletedInv
<1> USE <1>0 DEF CompletedInv
<1>1. ASSUME NEW i \in Runs, RunStep(i) PROVE CompletedInv'
  BY <1>1, RunStepCompleted
<1>2. ASSUME NEW i \in Runs, AgentSettles(i) PROVE CompletedInv'
  BY <1>2, StoreKept, StoredKept, MineKept DEF AgentSettles, OwnInv
<1>3. CASE SoftInterrupt \/ NextAttempt \/ UNCHANGED vars
  BY <1>3, StoreKept, StoredKept, MineKept DEF SoftInterrupt, NextAttempt, vars, OwnInv
<1>4. CASE CrashAndRestart
  <2>1. MineCompleted'
    BY <1>4, MineKept DEF CrashAndRestart, TypeOK, OwnInv, Busy
  <2> QED BY <1>4, <2>1, StoreKept, StoredKept DEF CrashAndRestart
<1> QED BY <1>1, <1>2, <1>3, <1>4 DEF Next

LEMMA IInvKept == IInv /\ [Next]_vars => IInv'
BY NextType, NextOwn, NextCompleted DEF IInv, OwnInv

-----------------------------------------------------------------------------
(* The host's store, runs and agents always satisfy the invariant. *)
THEOREM InvariantHolds == Spec => []IInv
<1>1. Init => IInv
  BY InitType, InitOwn, InitCompleted DEF IInv
<1> QED BY <1>1, IInvKept, PTL DEF Spec

(* Every variable of the host keeps its type: in particular the store only  *)
(* ever holds records the lookup knows how to read.                         *)
THEOREM TypeCorrect == Spec => []TypeOK
<1>1. IInv => TypeOK
  BY DEF IInv
<1> QED BY <1>1, InvariantHolds, PTL

(* runPiSubagentTask never answers a visit with the output of an agent that *)
(* was spawned for another activity, token, contract or input snapshot.     *)
THEOREM OutputIsOwn == Spec => []OutputFromOwnVisit
<1>1. IInv => OutputFromOwnVisit
  BY DEF IInv, OwnInv, MineOwn, HasAgent, OutputFromOwnVisit
<1> QED BY <1>1, InvariantHolds, PTL

(* runPiSubagentTask reports a visit with declared outputs as done only if  *)
(* its agent completed, whatever was interrupted, crashed or retried.       *)
THEOREM OutputsAreProduced == Spec => []DeclaredOutputsProduced
<1>1. IInv => DeclaredOutputsProduced
  BY DEF IInv, CompletedInv, MineCompleted, DeclaredOutputsProduced
<1> QED BY <1>1, InvariantHolds, PTL

-----------------------------------------------------------------------------
(* Duplicates.  Of a visit that is not exposed at most one agent runs: the  *)
(* one its record names, or the one whose record is about to be put.        *)

RunsOf(v) == {i \in Runs : VisitOf(i) = v}
RecordOf(v) == store[BuildRunKey(v)]
Open(v) == RecordOf(v).status \in {"none", "failed"}
Live(i) == agent[i] = "running" /\ i \notin gone
Judged(a) == agent[a] \in Verdicts \/ a \in gone
\* What the agent a yields for the visit v is known, and it is a failure.
Hopeless(v, a) == Judged(a) /\ v \in Declared /\ ~(a \notin gone /\ agent[a] = "completed")
\* The record stands for the agent a, or a has nothing to offer.
Backed(v, a) ==
  (RecordOf(v).status \in {"spawned", "completed"} /\ RecordOf(v).agent = a) \/ Hopeless(v, a)

(* Where a run is while its spawn is under way, and what it knows of its    *)
(* agent when it puts a verdict.                                            *)
SpawnInv ==
  \A i \in Runs : op[i] # "none" => pc[i] \in {"spawning", "interrupted"} /\ mine[i] = i
JudgedInv ==
  \A i \in Runs :
    /\ pc[i] = "saving" => Judged(mine[i]) /\ ~Hopeless(VisitOf(i), mine[i])
    /\ pc[i] = "failing" => Hopeless(VisitOf(i), mine[i])

(* Only the run of the current attempt looks its record up or spawns.       *)
OnlyCurrent(v) ==
  \A i \in RunsOf(v) : AttemptOf(i) # attempt => pc[i] # "read" /\ op[i] = "none"
LiveRecorded(v) ==
  \A i \in RunsOf(v) : op[i] = "none" /\ Live(i) => RecordOf(v) = Record("spawned", i)
WaitingBacked(v) ==
  \A i \in RunsOf(v) : pc[i] \in {"waiting", "saving"} => Backed(v, mine[i])
LookupCurrent(v) ==
  \A i \in RunsOf(v) : pc[i] = "read" =>
    /\ stored[i].status \in {"none", "failed"} => Open(v)
    /\ stored[i].status = "spawned" => Backed(v, stored[i].agent)
SpawnAlone(v) ==
  \A i \in RunsOf(v) : op[i] # "none" =>
    /\ Open(v)
    /\ \A j \in RunsOf(v) : /\ j # i => ~Live(j)
                            /\ pc[j] \in {"waiting", "saving"} => Hopeless(v, mine[j])

VisitInv(v) ==
  OnlyCurrent(v) /\ LiveRecorded(v) /\ WaitingBacked(v) /\ LookupCurrent(v) /\ SpawnAlone(v)
ExposedInv == \A v \in Visits \ exposed : VisitInv(v)

HistoryInv == IInv /\ SpawnInv /\ JudgedInv /\ ExposedInv

LEMMA InitHistory == Init => HistoryInv
<1> SUFFICES ASSUME Init PROVE HistoryInv
  OBVIOUS
<1>1. IInv
  BY InitType, InitOwn, InitCompleted DEF IInv
<1>2. /\ pc = [i \in Runs |-> "new"] /\ op = [i \in Runs |-> "none"]
      /\ agent = [i \in Runs |-> "absent"]
  BY DEF Init
<1>3. SpawnInv /\ JudgedInv
  BY <1>2 DEF SpawnInv, JudgedInv
<1>4. ASSUME NEW v \in Visits PROVE VisitInv(v)
  BY <1>2 DEF VisitInv, RunsOf, OnlyCurrent, LiveRecorded, Live, WaitingBacked, LookupCurrent, SpawnAlone
<1> QED BY <1>1, <1>3, <1>4 DEF HistoryInv, ExposedInv

(* A run is known by its visit and its attempt.                             *)
LEMMA SameRun ==
  ASSUME NEW i \in Runs, NEW j \in Runs, VisitOf(i) = VisitOf(j), AttemptOf(i) = AttemptOf(j)
  PROVE  i = j
BY DEF Runs, VisitOf, AttemptOf

(* No step takes back that an agent is judged, or that it failed.           *)
JudgedKept ==
  \A a \in Runs : /\ Judged(a) => Judged(a)'
                  /\ \A v \in Visits : Hopeless(v, a) => Hopeless(v, a)'
\* Nor, while the process lives, that it did not fail.
JudgedFixed ==
  \A a \in Runs : Judged(a) => Judged(a)' /\ \A v \in Visits : Hopeless(v, a)' <=> Hopeless(v, a)

LEMMA AgentStep ==
  ASSUME TypeOK, LaunchedOnce, Next,
         ~CrashAndRestart
  PROVE  /\ gone' = gone
         /\ \A a \in Runs : agent'[a] # agent[a] => agent[a] \in {"absent", "running"}
<1>1. ASSUME NEW i \in Runs, RunStep(i)
      PROVE  /\ gone' = gone
             /\ \A a \in Runs : agent'[a] # agent[a] => agent[a] \in {"absent", "running"}
  <2>1. CASE Launch(i)
    BY <2>1 DEF Launch, TypeOK, LaunchedOnce
  <2>2. CASE ~Launch(i)
    BY <1>1, <2>2 DEF RunStep, Continues, Fails, Lookup, StopAfterLookup, Reuse, Attach, LookupFails,
                      LaunchFails, SpawnFails, WaitFails, VerdictPutFails, SpawnReturns, StoreSpawned, Interrupt, Collect, Save, StoreFailed
  <2> QED BY <2>1, <2>2
<1>2. ASSUME NEW i \in Runs, AgentSettles(i)
      PROVE  /\ gone' = gone
             /\ \A a \in Runs : agent'[a] # agent[a] => agent[a] \in {"absent", "running"}
  BY <1>2 DEF AgentSettles, TypeOK
<1>3. CASE SoftInterrupt \/ NextAttempt
  BY <1>3 DEF SoftInterrupt, NextAttempt
<1> QED BY <1>1, <1>2, <1>3 DEF Next

LEMMA NextJudged ==
  ASSUME TypeOK, LaunchedOnce, Next
  PROVE  JudgedKept /\ (~CrashAndRestart => JudgedFixed)
<1>1. CASE CrashAndRestart
  BY <1>1 DEF CrashAndRestart, JudgedKept, Judged, Hopeless
<1>2. CASE ~CrashAndRestart
  <2>1. /\ gone' = gone
        /\ \A a \in Runs : agent[a] \in Verdicts => agent'[a] = agent[a]
    BY <1>2, AgentStep DEF Verdicts
  <2>2. JudgedFixed
    BY <2>1 DEF JudgedFixed, Judged, Hopeless
  <2>3. JudgedKept
    BY <2>2 DEF JudgedKept, JudgedFixed, Hopeless
  <2> QED BY <2>2, <2>3
<1> QED BY <1>1, <1>2

LEMMA NextSpawn ==
  ASSUME TypeOK, SpawnInv, Next PROVE SpawnInv'
<1>1. ASSUME NEW i \in Runs, RunStep(i) PROVE SpawnInv'
  BY <1>1 DEF RunStep, Continues, Fails, Lookup, StopAfterLookup, Reuse, Attach, Launch, LookupFails,
              LaunchFails, SpawnFails, WaitFails, VerdictPutFails, SpawnReturns, StoreSpawned, Interrupt, Collect, Save, StoreFailed, Goto, TypeOK, SpawnInv
<1>2. ASSUME NEW i \in Runs, AgentSettles(i) PROVE SpawnInv'
  BY <1>2 DEF AgentSettles, SpawnInv
<1>3. CASE SoftInterrupt \/ NextAttempt \/ CrashAndRestart
  BY <1>3 DEF SoftInterrupt, NextAttempt, CrashAndRestart, SpawnInv
<1> QED BY <1>1, <1>2, <1>3 DEF Next

LEMMA NextJudgedInv ==
  ASSUME TypeOK, OwnInv, LaunchedOnce, JudgedInv, Next PROVE JudgedInv'
<1>1. CASE CrashAndRestart
  BY <1>1 DEF CrashAndRestart, JudgedInv, TypeOK, Busy
<1>2. CASE ~CrashAndRestart
  <2>1. JudgedFixed
    BY <1>2, NextJudged
  <2> SUFFICES ASSUME NEW j \in Runs
               PROVE  /\ pc'[j] = "saving" => Judged(mine[j])' /\ ~Hopeless(VisitOf(j), mine[j])'
                      /\ pc'[j] = "failing" => Hopeless(VisitOf(j), mine[j])'
    BY DEF JudgedInv
  <2>2. VisitOf(j) \in Visits
    BY RunParts
  <2>3. CASE Collect(j)
    <3>1. mine' = mine /\ mine[j] \in Runs /\ Judged(mine[j]) /\ pc'[j] = IF Yields(j) THEN "saving" ELSE "failing"
      BY <2>3 DEF Collect, Goto, TypeOK, OwnInv, MineOwn, HasAgent, Judged
    <3>2. Yields(j) <=> ~Hopeless(VisitOf(j), mine[j])
      BY <3>1 DEF Yields, Hopeless
    <3>3. Judged(mine[j])' /\ (Hopeless(VisitOf(j), mine[j])' <=> Hopeless(VisitOf(j), mine[j]))
      BY <2>1, <2>2, <3>1 DEF JudgedFixed
    <3> QED BY <3>1, <3>2, <3>3
  <2>4. CASE ~Collect(j)
    <3>1. pc'[j] \in {"saving", "failing"} => pc'[j] = pc[j] /\ mine'[j] = mine[j]
      <4>1. ASSUME NEW i \in Runs, RunStep(i), i # j PROVE pc'[j] = pc[j] /\ mine'[j] = mine[j]
        BY <4>1 DEF RunStep, Continues, Fails, Lookup, StopAfterLookup, Reuse, Attach, Launch, LookupFails,
                    LaunchFails, SpawnFails, WaitFails, VerdictPutFails, SpawnReturns, StoreSpawned, Interrupt, Collect, Save, StoreFailed, Goto, TypeOK
      <4>2. CASE RunStep(j)
        BY <2>4, <4>2 DEF RunStep, Continues, Fails, Lookup, StopAfterLookup, Reuse, Attach, Launch, LookupFails,
                    LaunchFails, SpawnFails, WaitFails, VerdictPutFails, SpawnReturns, StoreSpawned, Interrupt, Save, StoreFailed, Goto, TypeOK
      <4>3. ASSUME NEW i \in Runs, AgentSettles(i) PROVE pc'[j] = pc[j] /\ mine'[j] = mine[j]
        BY <4>3 DEF AgentSettles
      <4>4. CASE SoftInterrupt \/ NextAttempt
        BY <4>4 DEF SoftInterrupt, NextAttempt
      <4> QED BY <1>2, <4>1, <4>2, <4>3, <4>4 DEF Next
    <3>2. CASE pc'[j] \in {"saving", "failing"}
      <4>1. pc'[j] = pc[j] /\ mine'[j] = mine[j] /\ mine[j] \in Runs
        BY <3>1, <3>2 DEF OwnInv, MineOwn, HasAgent
      <4>2. /\ Judged(mine[j])
            /\ pc[j] = "saving" => ~Hopeless(VisitOf(j), mine[j])
            /\ pc[j] = "failing" => Hopeless(VisitOf(j), mine[j])
        BY <3>2, <4>1 DEF JudgedInv, Hopeless
      <4>3. \A a \in Runs : a = mine[j] =>
              Judged(a)' /\ (Hopeless(VisitOf(j), a)' <=> Hopeless(VisitOf(j), a))
        BY <2>1, <2>2, <4>2 DEF JudgedFixed
      <4>4. Judged(mine[j])' /\ (Hopeless(VisitOf(j), mine[j])' <=> Hopeless(VisitOf(j), mine[j]))
        BY <4>1, <4>3 DEF Judged, Hopeless
      <4> QED BY <4>1, <4>2, <4>4
    <3> QED BY <3>2
  <2> QED BY <2>3, <2>4
<1> QED BY <1>1, <1>2

(* The agents that waiting runs and spawned records name are agents.        *)
LEMMA NamedAgents ==
  ASSUME TypeOK, OwnInv, NEW j \in Runs
  PROVE  /\ pc[j] \in {"waiting", "saving", "failing"} => mine[j] \in Runs
         /\ stored[j].status = "spawned" => stored[j].agent \in Runs
<1>1. pc[j] \in {"waiting", "saving", "failing"} => mine[j] \in Runs
  BY DEF OwnInv, MineOwn, HasAgent
<1>2. stored[j] \in Records
  BY DEF TypeOK
<1> QED BY <1>1, <1>2, RecordHasAgent

LEMMA BackedKept ==
  ASSUME NEW v \in Visits, JudgedKept, RecordOf(v)' = RecordOf(v),
         NEW a \in Runs, Backed(v, a)
  PROVE  (RecordOf(v)'.status \in {"spawned", "completed"} /\ RecordOf(v)'.agent = a)
         \/ Hopeless(v, a)'
BY DEF Backed, JudgedKept

(* A step that changes neither the runs nor the record of a visit.          *)
LEMMA VisitFrame ==
  ASSUME TypeOK, OwnInv, NEW v \in Visits, VisitInv(v), JudgedKept,
         \A j \in RunsOf(v) : /\ pc'[j] = pc[j] /\ op'[j] = op[j]
                              /\ mine'[j] = mine[j] /\ stored'[j] = stored[j]
                              /\ Live(j)' => Live(j),
         attempt' = attempt, RecordOf(v)' = RecordOf(v)
  PROVE  VisitInv(v)'
<1> DEFINE Named(a) == (RecordOf(v)'.status \in {"spawned", "completed"} /\ RecordOf(v)'.agent = a)
                       \/ Hopeless(v, a)'
<1>1. OnlyCurrent(v)'
  BY DEF VisitInv, OnlyCurrent, RunsOf
<1>2. LiveRecorded(v)'
  BY DEF VisitInv, LiveRecorded, RunsOf
<1>3. WaitingBacked(v)'
  <2>1. ASSUME NEW j \in RunsOf(v), pc[j] \in {"waiting", "saving"} PROVE Named(mine[j])
    BY <2>1, NamedAgents, BackedKept DEF VisitInv, WaitingBacked, RunsOf
  <2> QED BY <2>1 DEF WaitingBacked, Backed, RunsOf, Hopeless, Judged
<1>4. LookupCurrent(v)'
  <2>1. ASSUME NEW j \in RunsOf(v), pc[j] = "read", stored[j].status = "spawned"
        PROVE  Named(stored[j].agent)
    BY <2>1, NamedAgents, BackedKept DEF VisitInv, LookupCurrent, RunsOf
  <2>2. Open(v)' <=> Open(v)
    BY DEF Open
  <2> QED BY <2>1, <2>2 DEF VisitInv, LookupCurrent, Backed, RunsOf, Hopeless, Judged
<1>5. SpawnAlone(v)'
  <2>1. ASSUME NEW j \in RunsOf(v), pc[j] \in {"waiting", "saving"}, Hopeless(v, mine[j])
        PROVE  Hopeless(v, mine[j])'
    <3>1. mine[j] \in Runs /\ mine'[j] = mine[j]
      BY <2>1, NamedAgents DEF RunsOf
    <3>2. \A a \in Runs : a = mine[j] => Hopeless(v, a)'
      BY <2>1 DEF JudgedKept
    <3> QED BY <3>1, <3>2 DEF Hopeless, Judged
  <2>2. Open(v)' <=> Open(v)
    BY DEF Open
  <2> QED BY <2>1, <2>2 DEF VisitInv, SpawnAlone, RunsOf
<1> QED BY <1>1, <1>2, <1>3, <1>4, <1>5 DEF VisitInv

(* A step of a run that leaves the record and the agents of its visit.      *)
LEMMA VisitStep ==
  ASSUME TypeOK, OwnInv, NEW v \in Visits, VisitInv(v), JudgedKept, NEW i \in RunsOf(v),
         \A j \in RunsOf(v) : j # i => /\ pc'[j] = pc[j] /\ op'[j] = op[j]
                                       /\ mine'[j] = mine[j] /\ stored'[j] = stored[j],
         \A j \in RunsOf(v) : Live(j)' => Live(j),
         attempt' = attempt, RecordOf(v)' = RecordOf(v),
         op[i] = "none" => op'[i] = "none",
         op[i] # "none" /\ op'[i] = "none" => ~Live(i)',
         pc'[i] = "read" => AttemptOf(i) = attempt /\ stored'[i] = RecordOf(v),
         NEW a \in Runs,
         pc'[i] \in {"waiting", "saving"} =>
           /\ mine'[i] = a /\ Backed(v, a)
           /\ \A j \in RunsOf(v) : op[j] = "none"
  PROVE  VisitInv(v)'
<1>1. OnlyCurrent(v)'
  BY DEF VisitInv, OnlyCurrent, RunsOf
<1>2. LiveRecorded(v)'
  BY DEF VisitInv, LiveRecorded, RunsOf
<1>3. WaitingBacked(v)'
  <2>1. ASSUME NEW j \in RunsOf(v), pc'[j] \in {"waiting", "saving"}
        PROVE  \E b \in Runs : mine'[j] = b /\ Backed(v, b)
    <3>1. CASE j = i
      BY <2>1, <3>1
    <3>2. CASE j # i
      BY <2>1, <3>2, NamedAgents DEF VisitInv, WaitingBacked, RunsOf
    <3> QED BY <3>1, <3>2
  <2>2. ASSUME NEW j \in RunsOf(v), pc'[j] \in {"waiting", "saving"}
        PROVE  Backed(v, mine[j])'
    <3>1. PICK b \in Runs : mine'[j] = b /\ Backed(v, b)
      BY <2>1, <2>2
    <3>2. (RecordOf(v)'.status \in {"spawned", "completed"} /\ RecordOf(v)'.agent = b)
          \/ Hopeless(v, b)'
      BY <3>1, BackedKept
    <3> QED BY <3>1, <3>2 DEF Backed, Hopeless, Judged
  <2> QED BY <2>2 DEF WaitingBacked, RunsOf
<1>4. LookupCurrent(v)'
  <2> SUFFICES ASSUME NEW j \in RunsOf(v), pc'[j] = "read"
               PROVE  /\ stored'[j].status \in {"none", "failed"} => Open(v)'
                      /\ stored'[j].status = "spawned" => Backed(v, stored[j].agent)'
    BY DEF LookupCurrent, RunsOf
  <2>1. CASE j = i
    BY <2>1 DEF Open, Backed
  <2>2. CASE j # i
    <3>1. stored'[j] = stored[j] /\ pc[j] = "read"
      BY <2>2
    <3>2. stored[j].status \in {"none", "failed"} => Open(v)'
      BY <3>1 DEF VisitInv, LookupCurrent, Open
    <3>3. ASSUME stored[j].status = "spawned" PROVE Backed(v, stored[j].agent)'
      <4>1. stored[j].agent \in Runs /\ Backed(v, stored[j].agent)
        BY <3>1, <3>3, NamedAgents DEF VisitInv, LookupCurrent, RunsOf
      <4>2. (RecordOf(v)'.status \in {"spawned", "completed"} /\ RecordOf(v)'.agent = stored[j].agent)
            \/ (\E b \in Runs : b = stored[j].agent /\ Hopeless(v, b)')
        BY <4>1, BackedKept DEF Backed, JudgedKept
      <4> QED BY <3>1, <4>2 DEF Backed, Hopeless, Judged
    <3> QED BY <3>1, <3>2, <3>3
  <2> QED BY <2>1, <2>2
<1>5. SpawnAlone(v)'
  <2> SUFFICES ASSUME NEW j \in RunsOf(v), op'[j] # "none"
               PROVE  /\ Open(v)'
                      /\ \A l \in RunsOf(v) :
                           /\ l # j => ~Live(l)'
                           /\ pc'[l] \in {"waiting", "saving"} => Hopeless(v, mine[l])'
    BY DEF SpawnAlone, RunsOf
  <2>1. op[j] # "none"
    OBVIOUS
  <2>2. Open(v)'
    BY <2>1 DEF VisitInv, SpawnAlone, Open
  <2>3. ASSUME NEW l \in RunsOf(v), l # j PROVE ~Live(l)'
    BY <2>1, <2>3 DEF VisitInv, SpawnAlone
  <2>4. ASSUME NEW l \in RunsOf(v), pc'[l] \in {"waiting", "saving"} PROVE Hopeless(v, mine[l])'
    <3>1. l # i
      BY <2>1, <2>4
    <3>2. pc[l] \in {"waiting", "saving"} /\ mine'[l] = mine[l] /\ mine[l] \in Runs
      BY <2>4, <3>1, NamedAgents DEF RunsOf
    <3>3. Hopeless(v, mine[l])
      BY <2>1, <3>2 DEF VisitInv, SpawnAlone
    <3>4. \E b \in Runs : b = mine[l] /\ Hopeless(v, b)'
      BY <3>2, <3>3 DEF JudgedKept
    <3> QED BY <3>2, <3>4 DEF Hopeless, Judged
  <2> QED BY <2>2, <2>3, <2>4
<1> QED BY <1>1, <1>2, <1>3, <1>4, <1>5 DEF VisitInv

(* A step of a run leaves the other runs and the other records.             *)
LEMMA Elsewhere ==
  ASSUME TypeOK, NEW i \in Runs, RunStep(i)
  PROVE  /\ \A j \in Runs : j # i =>
              /\ pc'[j] = pc[j] /\ op'[j] = op[j] /\ mine'[j] = mine[j]
              /\ stored'[j] = stored[j] /\ agent'[j] = agent[j]
         /\ gone' = gone /\ attempt' = attempt /\ exposed \subseteq exposed'
         /\ \A v \in Visits : v # VisitOf(i) => RecordOf(v)' = RecordOf(v)
<1>1. /\ \A j \in Runs : j # i =>
           /\ pc'[j] = pc[j] /\ op'[j] = op[j] /\ mine'[j] = mine[j]
           /\ stored'[j] = stored[j] /\ agent'[j] = agent[j]
      /\ gone' = gone /\ attempt' = attempt /\ exposed \subseteq exposed'
  BY DEF RunStep, Continues, Fails, Lookup, StopAfterLookup, Reuse, Attach, Launch, LookupFails,
         LaunchFails, SpawnFails, WaitFails, VerdictPutFails, SpawnReturns, StoreSpawned, Interrupt, Collect, Save, StoreFailed, Goto, TypeOK
<1>2. store' = store \/ \E r : store' = [store EXCEPT ![KeyOf(i)] = r]
  BY DEF RunStep, Continues, Fails, Lookup, StopAfterLookup, Reuse, Attach, Launch, LookupFails,
         LaunchFails, SpawnFails, WaitFails, VerdictPutFails, SpawnReturns, StoreSpawned, Interrupt, Collect, Save, StoreFailed, Put
<1>3. ASSUME NEW v \in Visits, v # VisitOf(i) PROVE RecordOf(v)' = RecordOf(v)
  <2>1. BuildRunKey(v) # KeyOf(i) /\ BuildRunKey(v) \in Keys
    BY <1>3, RunParts, KeysDiffer DEF KeyOf, Keys
  <2> QED BY <1>2, <2>1 DEF RecordOf, TypeOK, BuildRunKey
<1> QED BY <1>1, <1>3

LEMMA OtherVisit ==
  ASSUME TypeOK, OwnInv, JudgedKept, NEW i \in Runs, RunStep(i),
         NEW v \in Visits, v # VisitOf(i), VisitInv(v)
  PROVE  VisitInv(v)'
<1>1. \A j \in RunsOf(v) : j \in Runs /\ j # i
  BY DEF RunsOf
<1>2. \A j \in RunsOf(v) : /\ pc'[j] = pc[j] /\ op'[j] = op[j]
                           /\ mine'[j] = mine[j] /\ stored'[j] = stored[j]
                           /\ Live(j)' => Live(j)
  BY <1>1, Elsewhere DEF Live
<1>3. attempt' = attempt /\ RecordOf(v)' = RecordOf(v)
  BY Elsewhere
<1> QED BY <1>2, <1>3, VisitFrame

(* While a run of the visit looks its record up or spawns, no other does.   *)
LEMMA AloneAtWork ==
  ASSUME TypeOK, SpawnInv, NEW v \in Visits, VisitInv(v), NEW i \in RunsOf(v),
         pc[i] = "read" \/ op[i] # "none"
  PROVE  /\ AttemptOf(i) = attempt
         /\ \A j \in RunsOf(v) : j # i => pc[j] # "read" /\ op[j] = "none"
         /\ pc[i] = "read" => op[i] = "none"
<1>1. AttemptOf(i) = attempt
  BY DEF VisitInv, OnlyCurrent
<1>2. ASSUME NEW j \in RunsOf(v), j # i PROVE pc[j] # "read" /\ op[j] = "none"
  <2>1. AttemptOf(j) # attempt
    BY <1>1, <1>2, SameRun DEF RunsOf
  <2> QED BY <2>1 DEF VisitInv, OnlyCurrent
<1> QED BY <1>1, <1>2 DEF SpawnInv, RunsOf

(* The steps of a run that put no record and launch no agent.  A spawn that *)
(* fails leaves no live agent, or it leaves its visit exposed.              *)
LEMMA QuietStep ==
  ASSUME TypeOK, OwnInv, SpawnInv, JudgedKept, NEW i \in Runs, NEW v \in Visits, v = VisitOf(i),
         VisitInv(v), v \notin exposed',
         \/ Lookup(i) \/ StopAfterLookup(i) \/ Reuse(i) \/ Attach(i)
         \/ LaunchFails(i) \/ SpawnReturns(i) \/ Interrupt(i) \/ Collect(i)
         \/ LookupFails(i) \/ SpawnFails(i) \/ WaitFails(i) \/ VerdictPutFails(i)
  PROVE  VisitInv(v)'
<1>1. i \in RunsOf(v)
  BY DEF RunsOf
<1>2. RunStep(i) /\ store' = store /\ agent' = agent
  BY DEF RunStep, Continues, Fails, Lookup, StopAfterLookup, Reuse, Attach, LookupFails, LaunchFails, SpawnFails,
         WaitFails, VerdictPutFails, SpawnReturns, Interrupt, Collect
<1>3. /\ \A j \in RunsOf(v) : j # i => /\ pc'[j] = pc[j] /\ op'[j] = op[j]
                                       /\ mine'[j] = mine[j] /\ stored'[j] = stored[j]
      /\ attempt' = attempt /\ RecordOf(v)' = RecordOf(v)
      /\ \A j \in RunsOf(v) : Live(j)' => Live(j)
  BY <1>2, Elsewhere DEF RunsOf, RecordOf, Live
<1>4. /\ op[i] = "none" => op'[i] = "none"
      /\ op[i] # "none" /\ op'[i] = "none" => ~Live(i)'
  <2>1. CASE SpawnFails(i)
    BY <2>1 DEF SpawnFails, Live
  <2>2. CASE ~SpawnFails(i)
    BY <2>2 DEF Lookup, StopAfterLookup, Reuse, Attach, LookupFails, LaunchFails, WaitFails,
                VerdictPutFails, SpawnReturns, Interrupt, Collect, TypeOK
  <2> QED BY <2>1, <2>2
<1>5. CASE Lookup(i)
  <2>1. /\ pc'[i] = "read" => AttemptOf(i) = attempt /\ stored'[i] = RecordOf(v)
        /\ pc'[i] \notin {"waiting", "saving"}
    BY <1>5 DEF Lookup, Goto, TypeOK, RecordOf, KeyOf
  <2> HIDE DEF VisitInv
  <2> QED BY <1>1, <1>3, <1>4, <2>1, VisitStep
<1>6. CASE Attach(i)
  <2> DEFINE a == stored[i].agent
  <2>1. /\ pc[i] = "read" /\ stored[i].status = "spawned" /\ pc'[i] = "waiting"
        /\ mine'[i] = a /\ a \in Runs
    BY <1>6, NamedAgents DEF Attach, Goto, TypeOK
  <2>2. Backed(v, a)
    BY <1>1, <2>1 DEF VisitInv, LookupCurrent
  <2>3. \A j \in RunsOf(v) : op[j] = "none"
    BY <1>1, <2>1, AloneAtWork
  <2> HIDE DEF a
  <2> QED BY <1>1, <1>3, <1>4, <2>1, <2>2, <2>3, VisitStep
<1>7. CASE Collect(i)
  <2> DEFINE a == mine[i]
  <2>1. /\ pc[i] = "waiting" /\ mine'[i] = a /\ a \in Runs
        /\ pc'[i] # "read" /\ pc'[i] # "waiting" /\ (pc'[i] = "saving" => Yields(i))
    BY <1>7, NamedAgents DEF Collect, Goto, TypeOK
  <2>2. Backed(v, a)
    BY <1>1, <2>1 DEF VisitInv, WaitingBacked
  <2>3. Yields(i) => ~Hopeless(v, a)
    BY DEF Yields, Hopeless
  <2>4. Yields(i) => \A j \in RunsOf(v) : op[j] = "none"
    BY <1>1, <2>1, <2>3 DEF VisitInv, SpawnAlone
  <2> HIDE DEF a
  <2> QED BY <1>1, <1>3, <1>4, <2>1, <2>2, <2>4, VisitStep
<1>8. CASE \/ StopAfterLookup(i) \/ Reuse(i) \/ LaunchFails(i) \/ SpawnReturns(i) \/ Interrupt(i)
           \/ LookupFails(i) \/ SpawnFails(i) \/ WaitFails(i) \/ VerdictPutFails(i)
  <2>1. pc'[i] \notin {"read", "waiting", "saving"}
    BY <1>8 DEF StopAfterLookup, Reuse, LaunchFails, SpawnReturns, Interrupt, LookupFails, SpawnFails,
                WaitFails, VerdictPutFails, Goto, TypeOK, SpawnInv
  <2> QED BY <1>1, <1>3, <1>4, <2>1, VisitStep
<1> QED BY <1>5, <1>6, <1>7, <1>8

(* A launch: the record is free, so the visit has no live agent, and what   *)
(* other runs still wait for has failed.                                    *)
LEMMA LaunchStep ==
  ASSUME TypeOK, OwnInv, SpawnInv, JudgedKept, NEW i \in Runs, NEW v \in Visits, v = VisitOf(i),
         VisitInv(v), Launch(i)
  PROVE  VisitInv(v)'
<1>1. i \in RunsOf(v) /\ RunStep(i)
  BY DEF RunsOf, RunStep, Continues, Fails
<1>2. /\ \A j \in RunsOf(v) : j # i => /\ pc'[j] = pc[j] /\ op'[j] = op[j] /\ mine'[j] = mine[j]
                                       /\ stored'[j] = stored[j] /\ (Live(j)' <=> Live(j))
      /\ attempt' = attempt /\ RecordOf(v)' = RecordOf(v)
  BY <1>1, Elsewhere DEF RunsOf, Launch, RecordOf, Live
<1>3. /\ pc[i] = "read" /\ stored[i].status \in {"none", "failed"}
      /\ pc'[i] = "spawning" /\ op'[i] = "spawning"
  BY DEF Launch, MustSpawn, Goto, TypeOK
<1>4. /\ AttemptOf(i) = attempt /\ op[i] = "none"
      /\ \A j \in RunsOf(v) : j # i => pc[j] # "read" /\ op[j] = "none"
  BY <1>1, <1>3, AloneAtWork
<1>5. Open(v) /\ Open(v)'
  BY <1>1, <1>2, <1>3 DEF VisitInv, LookupCurrent, Open
<1>6. \A j \in RunsOf(v) : j # i => ~Live(j)
  BY <1>4, <1>5 DEF VisitInv, LiveRecorded, Open, Record
<1>7. ASSUME NEW j \in RunsOf(v), pc'[j] \in {"waiting", "saving"}
      PROVE  Hopeless(v, mine[j])'
  <2>1. j # i
    BY <1>3, <1>7
  <2>2. pc[j] \in {"waiting", "saving"} /\ mine'[j] = mine[j] /\ mine[j] \in Runs
    BY <1>2, <1>7, <2>1, NamedAgents DEF RunsOf
  <2>3. Hopeless(v, mine[j])
    BY <1>5, <2>2 DEF VisitInv, WaitingBacked, Backed, Open
  <2>4. \E b \in Runs : b = mine[j] /\ Hopeless(v, b)'
    BY <2>2, <2>3 DEF JudgedKept
  <2> QED BY <2>2, <2>4 DEF Hopeless, Judged
<1>8. OnlyCurrent(v)'
  BY <1>2, <1>4 DEF OnlyCurrent, RunsOf
<1>9. LiveRecorded(v)'
  BY <1>2, <1>3, <1>6 DEF LiveRecorded, RunsOf
<1>10. WaitingBacked(v)'
  BY <1>7 DEF WaitingBacked, Backed, RunsOf
<1>11. LookupCurrent(v)'
  BY <1>2, <1>3, <1>4 DEF LookupCurrent, RunsOf
<1>12. SpawnAlone(v)'
  BY <1>2, <1>3, <1>4, <1>5, <1>6, <1>7 DEF SpawnAlone, RunsOf
<1> QED BY <1>8, <1>9, <1>10, <1>11, <1>12 DEF VisitInv

(* The record of a spawn is put: no other agent of the visit is live, and   *)
(* no other run is about to use the record that it replaces.                *)
LEMMA StoreSpawnedStep ==
  ASSUME TypeOK, OwnInv, SpawnInv, JudgedKept, NEW i \in Runs, NEW v \in Visits, v = VisitOf(i),
         VisitInv(v), StoreSpawned(i)
  PROVE  VisitInv(v)'
<1>1. i \in RunsOf(v) /\ RunStep(i)
  BY DEF RunsOf, RunStep, Continues, Fails
<1>2. /\ \A j \in RunsOf(v) : j # i => /\ pc'[j] = pc[j] /\ op'[j] = op[j] /\ mine'[j] = mine[j]
                                       /\ stored'[j] = stored[j] /\ (Live(j)' <=> Live(j))
      /\ attempt' = attempt
  BY <1>1, Elsewhere DEF RunsOf, Live
<1>3. /\ op[i] # "none" /\ pc[i] \in {"spawning", "interrupted"} /\ mine[i] = i
      /\ op'[i] = "none" /\ pc'[i] \in {"waiting", "interrupted"} /\ mine'[i] = i
  BY DEF StoreSpawned, SpawnInv, Goto, TypeOK
<1>4. RecordOf(v)' = Record("spawned", i)
  BY RunParts DEF StoreSpawned, RecordOf, KeyOf, TypeOK, BuildRunKey
<1>5. /\ AttemptOf(i) = attempt
      /\ \A j \in RunsOf(v) : j # i => pc[j] # "read" /\ op[j] = "none"
  BY <1>1, <1>3, AloneAtWork
<1>6. ASSUME NEW j \in RunsOf(v), j # i
      PROVE  /\ ~Live(j)'
             /\ pc'[j] \in {"waiting", "saving"} => Hopeless(v, mine[j])'
  <2>1. ~Live(j)
    BY <1>1, <1>3, <1>6 DEF VisitInv, SpawnAlone
  <2>2. ASSUME pc'[j] \in {"waiting", "saving"} PROVE Hopeless(v, mine[j])'
    <3>1. mine'[j] = mine[j] /\ mine[j] \in Runs
      BY <1>2, <1>6, <2>2, NamedAgents DEF RunsOf
    <3>2. Hopeless(v, mine[j])
      BY <1>1, <1>2, <1>3, <1>6, <2>2 DEF VisitInv, SpawnAlone
    <3>3. \E b \in Runs : b = mine[j] /\ Hopeless(v, b)'
      BY <3>1, <3>2 DEF JudgedKept
    <3> QED BY <3>1, <3>3 DEF Hopeless, Judged
  <2> QED BY <1>2, <1>6, <2>1, <2>2
<1>7. OnlyCurrent(v)'
  BY <1>2, <1>5 DEF OnlyCurrent, RunsOf
<1>8. LiveRecorded(v)'
  BY <1>4, <1>6 DEF LiveRecorded, RunsOf
<1>9. WaitingBacked(v)'
  BY <1>3, <1>4, <1>6 DEF WaitingBacked, Backed, RunsOf, Record
<1>10. LookupCurrent(v)'
  BY <1>2, <1>3, <1>5 DEF LookupCurrent, RunsOf
<1>11. SpawnAlone(v)'
  BY <1>2, <1>3, <1>5 DEF SpawnAlone, RunsOf
<1> QED BY <1>7, <1>8, <1>9, <1>10, <1>11 DEF VisitInv

(* The record of a verdict is put by the run i for the agent a that it      *)
(* waited for: over a record of a, or, when a failed, over a free one.      *)
LEMMA VerdictStep ==
  ASSUME TypeOK, OwnInv, SpawnInv, NEW i \in Runs, NEW v \in Visits, v = VisitOf(i),
         VisitInv(v), NEW a \in Runs, mine[i] = a, Judged(a),
         op' = op, mine' = mine, stored' = stored, agent' = agent, gone' = gone,
         attempt' = attempt, pc[i] \in {"saving", "failing"},
         NEW s \in {"completed", "failed"}, RecordOf(v)' = Record(s, a),
         pc'[i] \in {"done", "failed"}, \A j \in RunsOf(v) : j # i => pc'[j] = pc[j],
         Open(v) => s = "failed",
         s = "failed" => Hopeless(v, a),
         Open(v) \/ RecordOf(v).agent = a
  PROVE  VisitInv(v)'
<1>1. \A b : /\ Judged(b)' <=> Judged(b)
             /\ Hopeless(v, b)' <=> Hopeless(v, b)
             /\ Live(b)' <=> Live(b)
  BY DEF Judged, Hopeless, Live
<1>2. \A b \in Runs : Backed(v, b) => Backed(v, b)'
  BY <1>1 DEF Backed, Open, Record
<1>3. \A j \in RunsOf(v) : /\ pc'[j] \in {"waiting", "saving"} => pc[j] = pc'[j] /\ j # i
                           /\ pc'[j] = "read" => pc[j] = "read"
  BY DEF RunsOf
<1>4. OnlyCurrent(v)'
  BY <1>3 DEF VisitInv, OnlyCurrent, RunsOf
<1>5. LiveRecorded(v)'
  <2>1. ASSUME NEW j \in RunsOf(v), op[j] = "none", Live(j) PROVE FALSE
    <3>1. RecordOf(v) = Record("spawned", j)
      BY <2>1 DEF VisitInv, LiveRecorded
    <3>2. j = a
      BY <3>1 DEF Record, Open
    <3> QED BY <2>1, <3>2 DEF Live, Judged, Verdicts
  <2> QED BY <1>1, <2>1 DEF LiveRecorded, RunsOf
<1>6. WaitingBacked(v)'
  <2>1. ASSUME NEW j \in RunsOf(v), pc'[j] \in {"waiting", "saving"} PROVE Backed(v, mine[j])'
    <3>1. mine[j] \in Runs /\ Backed(v, mine[j])
      BY <1>3, <2>1, NamedAgents DEF VisitInv, WaitingBacked, RunsOf
    <3>2. \E b \in Runs : b = mine'[j] /\ Backed(v, b)'
      BY <1>2, <3>1
    <3> QED BY <3>2 DEF Backed, Hopeless, Judged
  <2> QED BY <2>1 DEF WaitingBacked, RunsOf
<1>7. LookupCurrent(v)'
  <2> SUFFICES ASSUME NEW j \in RunsOf(v), pc'[j] = "read"
               PROVE  /\ stored'[j].status \in {"none", "failed"} => Open(v)'
                      /\ stored'[j].status = "spawned" => Backed(v, stored[j].agent)'
    BY DEF LookupCurrent, RunsOf
  <2>1. stored[j].status \in {"none", "failed"} => Open(v)
    BY <1>3 DEF VisitInv, LookupCurrent
  <2>2. Open(v) => Open(v)'
    BY DEF Open, Record
  <2>3. ASSUME stored[j].status = "spawned" PROVE Backed(v, stored[j].agent)'
    <3>1. stored[j].agent \in Runs /\ Backed(v, stored[j].agent)
      BY <1>3, <2>3, NamedAgents DEF VisitInv, LookupCurrent, RunsOf
    <3>2. \E b \in Runs : b = stored'[j].agent /\ Backed(v, b)'
      BY <1>2, <3>1
    <3> QED BY <3>2 DEF Backed, Hopeless, Judged
  <2> QED BY <2>1, <2>2, <2>3
<1>8. SpawnAlone(v)'
  <2> SUFFICES ASSUME NEW j \in RunsOf(v), op[j] # "none"
               PROVE  /\ Open(v)'
                      /\ \A l \in RunsOf(v) :
                           /\ l # j => ~Live(l)'
                           /\ pc'[l] \in {"waiting", "saving"} => Hopeless(v, mine[l])'
    BY DEF SpawnAlone, RunsOf
  <2>1. Open(v)'
    BY DEF VisitInv, SpawnAlone, Open, Record
  <2>2. ASSUME NEW l \in RunsOf(v)
        PROVE  /\ l # j => ~Live(l)'
               /\ pc'[l] \in {"waiting", "saving"} => Hopeless(v, mine[l])'
    <3>1. l # j => ~Live(l)
      BY DEF VisitInv, SpawnAlone
    <3>2. pc'[l] \in {"waiting", "saving"} => Hopeless(v, mine[l])
      BY <1>3 DEF VisitInv, SpawnAlone
    <3> QED BY <1>1, <3>1, <3>2 DEF Hopeless, Judged
  <2> QED BY <2>1, <2>2
<1> QED BY <1>4, <1>5, <1>6, <1>7, <1>8 DEF VisitInv

LEMMA OwnVisit ==
  ASSUME TypeOK, OwnInv, SpawnInv, JudgedInv, JudgedKept, NEW i \in Runs, RunStep(i),
         NEW v \in Visits \ exposed', v = VisitOf(i), VisitInv(v)
  PROVE  VisitInv(v)'
<1>1. i \in RunsOf(v)
  BY DEF RunsOf
<1>2. CASE Save(i)
  <2> DEFINE a == mine[i]
  <2>1. pc[i] = "saving" /\ a \in Runs /\ Judged(a) /\ ~Hopeless(v, a)
    BY <1>2, NamedAgents DEF Save, JudgedInv
  <2>2. ~Open(v) /\ RecordOf(v).agent = a
    BY <1>1, <2>1 DEF VisitInv, WaitingBacked, Backed, Open
  <2>3. RecordOf(v)' = Record("completed", a)
    BY <1>2, RunParts DEF Save, Put, RecordOf, KeyOf, TypeOK, BuildRunKey
  <2>4. /\ op' = op /\ mine' = mine /\ stored' = stored /\ agent' = agent /\ gone' = gone
        /\ attempt' = attempt /\ pc'[i] \in {"done", "failed"}
        /\ \A j \in RunsOf(v) : j # i => pc'[j] = pc[j]
    BY <1>2 DEF Save, Goto, TypeOK, RunsOf
  <2> HIDE DEF a
  <2>5. mine[i] = a
    BY DEF a
  <2> QED BY <2>1, <2>2, <2>3, <2>4, <2>5, VerdictStep
<1>3. CASE StoreFailed(i)
  <2> DEFINE a == mine[i]
  <2>1. pc[i] = "failing" /\ a \in Runs /\ Judged(a) /\ Hopeless(v, a)
    BY <1>3, NamedAgents DEF StoreFailed, JudgedInv, Hopeless
  <2>2. Open(v) \/ RecordOf(v).agent = a
    <3>1. ~TakesRecord(i)
      BY <1>3, RunParts DEF StoreFailed
    <3>2. RecordOf(v) \in Records
      BY RunParts DEF TypeOK, RecordOf, KeyOf
    <3> QED BY <3>1, <3>2 DEF TakesRecord, Open, RecordOf, KeyOf, Records, NoRecord
  <2>3. RecordOf(v)' = Record("failed", a)
    BY <1>3, RunParts DEF StoreFailed, Put, RecordOf, KeyOf, TypeOK, BuildRunKey
  <2>4. /\ op' = op /\ mine' = mine /\ stored' = stored /\ agent' = agent /\ gone' = gone
        /\ attempt' = attempt /\ pc'[i] \in {"done", "failed"}
        /\ \A j \in RunsOf(v) : j # i => pc'[j] = pc[j]
    BY <1>3 DEF StoreFailed, Goto, TypeOK, RunsOf
  <2> HIDE DEF a
  <2>5. mine[i] = a
    BY DEF a
  <2> QED BY <2>1, <2>2, <2>3, <2>4, <2>5, VerdictStep
<1>4. CASE Launch(i)
  BY <1>4, LaunchStep
<1>5. CASE StoreSpawned(i)
  BY <1>5, StoreSpawnedStep
<1>6. CASE ~(Save(i) \/ StoreFailed(i) \/ Launch(i) \/ StoreSpawned(i))
  BY <1>6, QuietStep DEF RunStep, Continues, Fails
<1> QED BY <1>2, <1>3, <1>4, <1>5, <1>6

(* A new attempt: of the visits that it does not leave exposed, no run is   *)
(* about to spawn.                                                          *)
LEMMA AttemptStep ==
  ASSUME TypeOK, OwnInv, JudgedKept, NextAttempt \/ CrashAndRestart,
         NEW v \in Visits \ exposed', VisitInv(v)
  PROVE  VisitInv(v)'
<1>1. \A j \in RunsOf(v) : pc[j] # "read" /\ op[j] = "none"
  BY DEF NextAttempt, CrashAndRestart, Unrecorded, RunsOf
<1>2. RecordOf(v)' = RecordOf(v) /\ mine' = mine
  BY DEF NextAttempt, CrashAndRestart, RecordOf
<1>3. \A j \in RunsOf(v) : /\ pc'[j] # "read" /\ op'[j] = "none"
                           /\ pc'[j] \in {"waiting", "saving"} => pc'[j] = pc[j]
                           /\ Live(j)' => Live(j)
  BY <1>1 DEF NextAttempt, CrashAndRestart, RunsOf, Busy, Live
<1>4. OnlyCurrent(v)'
  BY <1>3 DEF OnlyCurrent, RunsOf
<1>5. LiveRecorded(v)'
  BY <1>1, <1>2, <1>3 DEF VisitInv, LiveRecorded, RunsOf
<1>6. WaitingBacked(v)'
  <2>1. ASSUME NEW j \in RunsOf(v), pc'[j] \in {"waiting", "saving"} PROVE Backed(v, mine[j])'
    <3>1. mine[j] \in Runs /\ Backed(v, mine[j])
      BY <1>3, <2>1, NamedAgents DEF VisitInv, WaitingBacked, RunsOf
    <3>2. (RecordOf(v)'.status \in {"spawned", "completed"} /\ RecordOf(v)'.agent = mine[j])
          \/ \E b \in Runs : b = mine[j] /\ Hopeless(v, b)'
      BY <1>2, <3>1, BackedKept DEF Backed, JudgedKept
    <3> QED BY <1>2, <3>2 DEF Backed, Hopeless, Judged
  <2> QED BY <2>1 DEF WaitingBacked, RunsOf
<1>7. LookupCurrent(v)'
  BY <1>3 DEF LookupCurrent, RunsOf
<1>8. SpawnAlone(v)'
  BY <1>3 DEF SpawnAlone, RunsOf
<1> QED BY <1>4, <1>5, <1>6, <1>7, <1>8 DEF VisitInv

LEMMA NextExposed ==
  ASSUME TypeOK, OwnInv, LaunchedOnce, SpawnInv, JudgedInv, ExposedInv, Next
  PROVE  ExposedInv'
<1> SUFFICES ASSUME NEW v \in Visits \ exposed' PROVE VisitInv(v)'
  BY DEF ExposedInv
<1>1. JudgedKept
  BY NextJudged
<1>2. ASSUME NEW i \in Runs, RunStep(i) PROVE VisitInv(v)'
  <2>1. VisitInv(v)
    BY <1>2, Elsewhere DEF ExposedInv
  <2>2. CASE v = VisitOf(i)
    BY <1>1, <1>2, <2>1, <2>2, OwnVisit
  <2>3. CASE v # VisitOf(i)
    BY <1>1, <1>2, <2>1, <2>3, OtherVisit
  <2> QED BY <2>2, <2>3
<1>3. CASE SoftInterrupt \/ \E i \in Runs : AgentSettles(i)
  <2>1. VisitInv(v)
    BY <1>3 DEF SoftInterrupt, AgentSettles, ExposedInv
  <2>2. /\ \A j \in RunsOf(v) : /\ pc'[j] = pc[j] /\ op'[j] = op[j]
                                /\ mine'[j] = mine[j] /\ stored'[j] = stored[j]
                                /\ Live(j)' => Live(j)
        /\ attempt' = attempt /\ RecordOf(v)' = RecordOf(v)
    BY <1>3 DEF SoftInterrupt, AgentSettles, TypeOK, Live, RunsOf, RecordOf
  <2> QED BY <1>1, <2>1, <2>2, VisitFrame
<1>4. CASE NextAttempt \/ CrashAndRestart
  <2>1. VisitInv(v)
    BY <1>4 DEF NextAttempt, CrashAndRestart, ExposedInv
  <2> QED BY <1>1, <1>4, <2>1, AttemptStep
<1> QED BY <1>2, <1>3, <1>4 DEF Next

(* The inductive invariant of the duplicates.                               *)
THEOREM HistoryHolds == Spec => []HistoryInv
<1>1. HistoryInv /\ [Next]_vars => HistoryInv'
  <2> SUFFICES ASSUME HistoryInv, [Next]_vars PROVE HistoryInv'
    OBVIOUS
  <2>1. CASE Next
    <3>1. IInv'
      BY <2>1, IInvKept DEF HistoryInv
    <3> QED BY <2>1, <3>1, NextSpawn, NextJudgedInv, NextExposed
            DEF HistoryInv, IInv, CompletedInv
  <2>2. CASE UNCHANGED vars
    <3>1. IInv'
      BY <2>2, IInvKept DEF HistoryInv
    <3>2. SpawnInv' /\ JudgedInv'
      BY <2>2 DEF vars, HistoryInv, SpawnInv, JudgedInv, Judged, Hopeless
    <3>3. ASSUME NEW v \in Visits \ exposed' PROVE VisitInv(v)'
      <4>1. VisitInv(v)
        BY <2>2 DEF vars, HistoryInv, ExposedInv
      <4>2. JudgedKept
        BY <2>2 DEF vars, JudgedKept, Judged, Hopeless
      <4>3. /\ \A j \in RunsOf(v) : /\ pc'[j] = pc[j] /\ op'[j] = op[j]
                                    /\ mine'[j] = mine[j] /\ stored'[j] = stored[j]
                                    /\ Live(j)' => Live(j)
            /\ attempt' = attempt /\ RecordOf(v)' = RecordOf(v)
        BY <2>2 DEF vars, Live, RecordOf
      <4> QED BY <4>1, <4>2, <4>3, VisitFrame DEF HistoryInv, IInv
    <3> QED BY <3>1, <3>2, <3>3 DEF HistoryInv, ExposedInv
  <2> QED BY <2>1, <2>2
<1> QED BY <1>1, InitHistory, PTL DEF Spec

(* runPiSubagentTask never has two agents at work on a visit, unless an     *)
(* attempt left the visit between its lookup and its spawn record, the      *)
(* spawn failed after the agent had started, or storeFailedRun took the     *)
(* record from the agent at work.                                           *)
THEOREM DuplicatesExplained == Spec => []OnlyExposedVisitsDuplicated
<1>1. HistoryInv => OnlyExposedVisitsDuplicated
  <2> SUFFICES ASSUME HistoryInv, NEW v \in Visits \ exposed,
                      NEW m \in Attempts, NEW n \in Attempts, m # n,
                      Live(<<v, m>>), Live(<<v, n>>)
               PROVE  FALSE
    BY DEF OnlyExposedVisitsDuplicated, Duplicated, Live
  <2>1. /\ <<v, m>> \in RunsOf(v) /\ <<v, n>> \in RunsOf(v) /\ <<v, m>> # <<v, n>>
        /\ VisitInv(v)
    BY DEF RunsOf, Runs, VisitOf, HistoryInv, ExposedInv
  <2>2. op[<<v, m>>] = "none" /\ op[<<v, n>>] = "none"
    BY <2>1 DEF VisitInv, SpawnAlone
  <2>3. RecordOf(v) = Record("spawned", <<v, m>>) /\ RecordOf(v) = Record("spawned", <<v, n>>)
    BY <2>1, <2>2 DEF VisitInv, LiveRecorded
  <2> QED BY <2>1, <2>3 DEF Record
<1> QED BY <1>1, HistoryHolds, PTL

(* No late spawn record reopens the cached result of any other visit.       *)
THEOREM CachedResultStays == Spec => CompletedNotReopened
<1> DEFINE Kept == \A v \in Visits \ exposed :
                     LET k == BuildRunKey(v) IN
                       store[k].status = "completed" => store'[k].status # "spawned"
<1>1. HistoryInv /\ [Next]_vars => [Kept]_vars
  <2> SUFFICES ASSUME HistoryInv, Next, NEW v \in Visits \ exposed,
                      RecordOf(v).status = "completed"
               PROVE  RecordOf(v)'.status # "spawned"
    BY DEF RecordOf, vars
  <2>1. ASSUME NEW i \in Runs, RunStep(i) PROVE RecordOf(v)'.status # "spawned"
    <3>1. CASE v # VisitOf(i)
      BY <2>1, <3>1, Elsewhere DEF HistoryInv, IInv
    <3>2. CASE v = VisitOf(i) /\ StoreSpawned(i)
      <4>1. i \in RunsOf(v) /\ op[i] # "none" /\ VisitInv(v)
        BY <3>2 DEF StoreSpawned, RunsOf, HistoryInv, ExposedInv
      <4> QED BY <4>1 DEF VisitInv, SpawnAlone, Open
    <3>3. CASE v = VisitOf(i) /\ (Save(i) \/ StoreFailed(i))
      <4>1. KeyOf(i) = BuildRunKey(v) /\ BuildRunKey(v) \in Keys
        BY <3>3 DEF KeyOf, Keys
      <4> QED BY <3>3, <4>1 DEF Save, StoreFailed, Put, Record, RecordOf, HistoryInv, IInv, TypeOK
    <3>4. CASE ~(StoreSpawned(i) \/ Save(i) \/ StoreFailed(i))
      BY <2>1, <3>4 DEF RunStep, Continues, Fails, Lookup, StopAfterLookup, Reuse, Attach, Launch, LookupFails,
                        LaunchFails, SpawnFails, WaitFails, VerdictPutFails, SpawnReturns, Interrupt, Collect, RecordOf
    <3> QED BY <3>1, <3>2, <3>3, <3>4
  <2>2. CASE SoftInterrupt \/ NextAttempt \/ CrashAndRestart \/ \E i \in Runs : AgentSettles(i)
    BY <2>2 DEF SoftInterrupt, NextAttempt, CrashAndRestart, AgentSettles, RecordOf
  <2> QED BY <2>1, <2>2 DEF Next
<1>2. CompletedNotReopened <=> [][Kept]_vars
  BY DEF CompletedNotReopened
<1>3. Spec => []HistoryInv /\ [][Next]_vars
  BY HistoryHolds, PTL DEF Spec
<1> HIDE DEF Kept
<1> QED BY <1>1, <1>2, <1>3, PTL
=============================================================================
