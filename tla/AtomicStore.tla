---------------------------- MODULE AtomicStore ----------------------------
(***************************************************************************)
(* What a record store promises its callers: each call that settles took    *)
(* effect at one instant while it was open, in the order of the calls; a    *)
(* rejected call had no effect, and what a crash cut off took effect        *)
(* entirely or not at all.                                                  *)
(* A record is named by the call that put it; 0 is no record.               *)
(***************************************************************************)
EXTENDS Naturals

CONSTANTS Keys, Calls

VARIABLES
  store,   \* the record under each key
  phase,   \* of each call
  got      \* what each read returned

NoRecord == 0
Empty == [k \in Keys |-> NoRecord]

Init ==
  /\ store = Empty
  /\ phase = [c \in Calls |-> "idle"]
  /\ got = [c \in Calls |-> Empty]

Move(c, from, to) == phase[c] = from /\ phase' = [phase EXCEPT ![c] = to]

Open(c) == Move(c, "idle", "open") /\ UNCHANGED <<store, got>>

\* Calls take effect in the order they are made.
InTurn(c) == \A d \in Calls : d < c => phase[d] \in {"done", "failed", "lost"}

Read(c) ==
  /\ InTurn(c)
  /\ Move(c, "open", "done")
  /\ got' = [got EXCEPT ![c] = store]
  /\ UNCHANGED store

Write(c, k, r) ==
  /\ InTurn(c)
  /\ Move(c, "open", "written")
  /\ store' = [store EXCEPT ![k] = r]
  /\ UNCHANGED got

Return(c) == Move(c, "written", "done") /\ UNCHANGED <<store, got>>
Reject(c) == Move(c, "open", "failed") /\ UNCHANGED <<store, got>>

Crash ==
  /\ phase' = [c \in Calls |-> IF phase[c] \in {"open", "written"} THEN "lost" ELSE phase[c]]
  /\ UNCHANGED <<store, got>>

Next ==
  \/ \E c \in Calls : Open(c) \/ Read(c) \/ Return(c) \/ Reject(c)
  \/ \E c \in Calls, k \in Keys, r \in {NoRecord} \cup Calls : r \in {NoRecord, c} /\ Write(c, k, r)
  \/ Crash

Spec == Init /\ [][Next]_<<store, phase, got>>
=============================================================================
