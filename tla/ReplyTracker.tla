----------------------------- MODULE ReplyTracker -----------------------------
(***************************************************************************)
(* PiWendaoIntercomReplyTracker (src/executor/intercom-correlation.ts): the *)
(* asks other sessions wait for an answer to, kept in memory, and the rule  *)
(* that decides which of them a reply answers.  A tracker is a value; each  *)
(* method of the class is an operator on it.                                *)
(***************************************************************************)
EXTENDS Integers, Sequences

CONSTANTS
  Asks,       \* the asks other sessions send
  Sessions,   \* the sessions that send them
  Sender,     \* who sends which
  Timeout,    \* how long an ask waits; below zero, for ever
  NoAsk,      \* no ask: a reply that names none, a turn of none
  Anyone      \* a reply that names no session

TrackerAssumption ==
  Sender \in [Asks -> Sessions] /\ Timeout \in Int /\ NoAsk \notin Asks /\ Anyone \notin Sessions

Trackers == [pending : SUBSET Asks, at : [Asks -> Nat], turns : Seq(Asks),
             current : Asks \cup {NoAsk}]
NewTracker ==
  [pending |-> {}, at |-> [a \in Asks |-> 0], turns |-> <<>>, current |-> NoAsk]

Expired(t, now) == {a \in t.pending : Timeout >= 0 /\ now - t.at[a] > Timeout}

\* What expired is forgotten, and the turn of an ask no longer pending is over.
Prune(t, now) ==
  LET left == t.pending \ Expired(t, now)
  IN [t EXCEPT !.pending = left, !.current = IF @ \in left THEN @ ELSE NoAsk]

RecordAsk(t, a, now) == [t EXCEPT !.pending = @ \cup {a}, !.at[a] = now]
QueueTurn(t, a, now) == [RecordAsk(t, a, now) EXCEPT !.turns = Append(@, a)]

\* The queue of turns is not pruned: a turn may begin with an ask that is
\* answered or expired.
BeginTurn(t, now) ==
  LET p == Prune(t, now)
  IN IF p.turns = <<>> THEN [p EXCEPT !.current = NoAsk]
     ELSE [p EXCEPT !.current = Head(p.turns), !.turns = Tail(@)]
EndTurn(t) == [t EXCEPT !.current = NoAsk]

MarkReplied(t, a) ==
  [t EXCEPT !.pending = @ \ {a}, !.current = IF @ = a THEN NoAsk ELSE @]

\* resolveReplyTarget: the ask named by replyTo; else the one whose turn it
\* is; else the only one there is.  NoAsk when the code throws.
Target(t, replyTo, to, now) ==
  LET p == Prune(t, now)
      matching == {a \in p.pending : to \in {Anyone, Sender[a]}}
  IN CASE replyTo # NoAsk -> IF replyTo \in matching THEN replyTo ELSE NoAsk
       [] replyTo = NoAsk /\ p.current \in matching -> p.current
       [] OTHER -> IF \E a \in matching : matching = {a}
                   THEN CHOOSE a \in matching : TRUE ELSE NoAsk
=============================================================================
