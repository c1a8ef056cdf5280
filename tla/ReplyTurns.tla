------------------------------ MODULE ReplyTurns ------------------------------
(***************************************************************************)
(* A session that owns a reply tracker and answers asks turn by turn, with  *)
(* every public method of PiWendaoIntercomReplyTracker                      *)
(* (src/executor/intercom-correlation.ts) in any order.  The correlation    *)
(* state keeps its tracker private and begins no turns (module Intercom);   *)
(* this module is for the class's other users.                              *)
(***************************************************************************)
EXTENDS ReplyTracker

CONSTANTS
  Deliveries,  \* bound: deliveries of each ask
  LastTick     \* bound: the clock

TurnsAssumption == {Deliveries, LastTick} \subseteq Nat

VARIABLES
  turnTracker, clock,
  asked,    \* how often each ask was recorded
  replied   \* how often each was resolved and marked replied

vars == <<turnTracker, clock, asked, replied>>

TypeOK ==
  /\ turnTracker \in Trackers /\ clock \in 0..LastTick
  /\ asked \in [Asks -> 0..Deliveries] /\ replied \in [Asks -> Nat]

Init ==
  /\ turnTracker = NewTracker /\ clock = 0
  /\ asked = [a \in Asks |-> 0] /\ replied = asked

Tick == clock < LastTick /\ clock' = clock + 1 /\ UNCHANGED <<turnTracker, asked, replied>>

Receive(a) ==
  /\ asked[a] < Deliveries /\ asked' = [asked EXCEPT ![a] = @ + 1]
  /\ turnTracker' \in {RecordAsk(turnTracker, a, clock), QueueTurn(turnTracker, a, clock)}
  /\ UNCHANGED <<clock, replied>>

Turn ==
  /\ turnTracker' \in {BeginTurn(turnTracker, clock), EndTurn(turnTracker), NewTracker,
                       Prune(turnTracker, clock)}
  /\ UNCHANGED <<clock, asked, replied>>

Reply ==
  /\ \E replyTo \in Asks \cup {NoAsk}, to \in Sessions \cup {Anyone} :
       LET a == Target(turnTracker, replyTo, to, clock)
       IN /\ a # NoAsk
          /\ turnTracker' = MarkReplied(Prune(turnTracker, clock), a)
          /\ replied' = [replied EXCEPT ![a] = @ + 1]
  /\ UNCHANGED <<clock, asked>>

Next == Tick \/ Turn \/ Reply \/ \E a \in Asks : Receive(a)
Spec == Init /\ [][Next]_vars

----------------------------------------------------------------------------
\* A turn begun late, on an ask answered or expired meanwhile, does not answer
\* it again: no ask is the target of more replies than it was recorded.
AskAnsweredOnce == \A a \in Asks : replied[a] <= asked[a]
=============================================================================
