----------------------------- MODULE LiveAnswers -----------------------------
(***************************************************************************)
(* The evidence file a live answer run writes                               *)
(* (src/cli/search/strategy-flow-live-answer.ts): the rows of a request     *)
(* file are answered by a model, a chunk at a time, the whole file is       *)
(* written anew after each chunk, and a later run may resume from the rows  *)
(* it finds.                                                                *)
(*                                                                         *)
(* Covered: every answer of the model, a process that ends at any point,    *)
(* within the write too, runs that resume or start over, and a request file *)
(* edited at any time.  A row's request is the number of the edit it is     *)
(* from; what an answer says beyond its row's id is not checked by the code *)
(* and not modelled.                                                        *)
(***************************************************************************)
EXTENDS Naturals, Sequences, SequencesExt, FiniteSets

CONSTANTS
  Rows,        \* rows of the request file
  ChunkSize,   \* rows in a chunk
  MaxRuns,     \* bound: runs on the same evidence file
  MaxEdits     \* bound: edits of the request file

AnswersAssumption == /\ Rows \in Nat /\ ChunkSize \in Nat \ {0}
                            /\ MaxRuns \in Nat /\ MaxEdits \in Nat

VARIABLES
  request,   \* the request file: of each row its candidate id and its text
  edits,     \* edits of it so far
  file,      \* the evidence file: its kind and its rows
  run,       \* the runs begun
  step,      \* where the current one is
  asked,     \* the rows it read
  rows,      \* its evidence rows
  cuts       \* writes that ended within a row's answer

vars == <<request, edits, file, run, step, asked, rows, cuts>>

\* "broken" is a file without header, or whose last row has no answer text.
NoFile == [kind |-> "none", rows |-> <<>>]
Whole(rs) == [kind |-> "whole", rows |-> rs]

Init ==
  /\ request = [i \in 1..Rows |-> [id |-> i, text |-> 0]] /\ edits = 0
  /\ file = NoFile /\ run = 0 /\ step = "idle" /\ asked = <<>> /\ rows = <<>> /\ cuts = 0

\* Another tool materializes the request again: a row says something else, for the
\* same candidate or another one.
Edit(i, id) ==
  /\ edits < MaxEdits
  /\ edits' = edits + 1
  /\ request' = [request EXCEPT ![i] = [id |-> id, text |-> edits + 1]]
  /\ UNCHANGED <<file, run, step, asked, rows, cuts>>

Ids(rs) == [i \in DOMAIN rs |-> rs[i].id]

\* parseSearchStrategyFlowPartialLiveAnswerEvidenceTsv: the rows of the file must be
\* answers to the first rows of the request.
Resumable_AnyIds == file.kind = "whole" /\ Len(file.rows) <= Rows
Resumable == file.kind = "whole" /\ IsPrefix(Ids(file.rows), Ids(request)) /\ IsInjective(Ids(file.rows))

Begin(resume) ==
  /\ step = "idle" /\ run < MaxRuns
  /\ run' = run + 1 /\ asked' = request
  /\ IF resume /\ file.kind # "none"
     THEN /\ rows' = IF Resumable THEN file.rows ELSE <<>>
          /\ step' = IF ~Resumable THEN "idle" ELSE IF Len(file.rows) = Rows THEN "last" ELSE "model"
     ELSE rows' = <<>> /\ step' = IF Rows = 0 THEN "last" ELSE "model"
  /\ UNCHANGED <<request, edits, file, cuts>>

\* resolveModel: without auth nothing is asked or written.
Resolve ==
  /\ step = "model"
  /\ step' \in {"ask", "idle"}
  /\ UNCHANGED <<request, edits, file, run, asked, rows, cuts>>

Chunk == LET from == Len(rows) + 1
             to   == Len(rows) + ChunkSize
         IN SubSeq(asked, from, IF to > Rows THEN Rows ELSE to)

\* The task's answer is accepted whole if it has a row for each row of the chunk, in
\* order and no candidate twice; else, and if the task fails, the run ends.
Ask ==
  /\ step = "ask"
  /\ \/ /\ IsInjective(Ids(Chunk))
        /\ rows' = rows \o [i \in DOMAIN Chunk |->
                     [id |-> Chunk[i].id, text |-> Chunk[i].text, by |-> run, cut |-> FALSE]]
        /\ step' = "write"
     \/ step' = "idle" /\ UNCHANGED rows
  /\ UNCHANGED <<request, edits, file, run, asked, cuts>>

\* writeEvidenceRows, after a chunk and once more at the end.
Write ==
  /\ step \in {"write", "last"}
  /\ file' = Whole(rows)
  /\ step' = IF step = "last" THEN "done" ELSE IF Len(rows) < Rows THEN "ask" ELSE "last"
  /\ UNCHANGED <<request, edits, run, asked, rows, cuts>>

\* The run's result is reported.
Return ==
  /\ step = "done" /\ step' = "idle"
  /\ UNCHANGED <<request, edits, file, run, asked, rows, cuts>>

\* The process ends while it waits, or within a write: the file is emptied, then filled
\* from its start.  A last row that has some of its answer looks like a whole one.
Crash ==
  /\ step \in {"ask", "write", "last"} /\ step' = "idle"
  /\ \/ UNCHANGED <<file, cuts>>
     \/ /\ step # "ask"
        /\ \/ file' = [kind |-> "broken", rows |-> <<>>] /\ UNCHANGED cuts
           \/ \E n \in 0..Len(rows) : file' = Whole(SubSeq(rows, 1, n)) /\ UNCHANGED cuts
           \/ \E n \in 1..Len(rows) :
                /\ file' = Whole([SubSeq(rows, 1, n) EXCEPT ![n].cut = TRUE])
                /\ cuts' = cuts + 1
  /\ UNCHANGED <<request, edits, run, asked, rows>>

Next ==
  \/ \E i \in 1..Rows, id \in 1..(Rows + 1) : Edit(i, id)
  \/ \E resume \in BOOLEAN : Begin(resume)
  \/ Resolve \/ Ask \/ Write \/ Return \/ Crash
Spec == Init /\ [][Next]_vars

----------------------------------------------------------------------------
(* Properties. *)

\* A run that returns leaves one answer for every row it was asked, in order,
\* however many runs it took; only a row kept from an earlier run may answer an older
\* text of its candidate, and only as many answers may be cut short as writes were.
EvidenceAnswersRequests ==
  step = "done" =>
    LET kept == file.rows
    IN /\ Ids(kept) = Ids(asked)
       /\ \A i \in DOMAIN kept : kept[i].by = run => kept[i].text = asked[i].text /\ ~kept[i].cut
       /\ Cardinality({i \in DOMAIN kept : kept[i].cut}) <= cuts
=============================================================================
