----------------------------- MODULE MemoryRecall -----------------------------
(***************************************************************************)
(* Recall of memory in the chat (src/cli/serverless-memory): a packet of    *)
(* memories read at the start of the process is put into every session that *)
(* lacks it, a tool asks the memory command for more, and a benchmark       *)
(* measures what a model makes of the packet.                               *)
(*                                                                         *)
(* Covered: the file edited between processes, files that are refused, rows *)
(* and objects dropped, the part of a packet that is shown, sessions begun, *)
(* forked and resumed by later processes with other packets; a recall that  *)
(* falls back from the snapshot to a refresh; the benchmark's variants, each *)
(* with a session of its own.  A row is its id, the kinds and values of its  *)
(* objects and whether a paragraph goes with it; an answer is the ids and   *)
(* values it names, of those it was shown.  One process runs at a time, and *)
(* a session is the list of its entries: of the tree pi keeps there is one  *)
(* branch.                                                                  *)
(***************************************************************************)
EXTENDS Naturals, Sequences, SequencesExt, FiniteSetsExt

CONSTANTS
  Packets,     \* what the packet file may hold
  Sessions,    \* the sessions of the chat
  ShownRows,   \* maxRows of a rendered packet
  ShownObjects,\* maxObjectsPerRow
  MaxEdits,    \* bound on the edits of the file
  None         \* no packet, no session

MemoryAssumption ==
  /\ {ShownRows, ShownObjects} \subseteq Nat \ {0} /\ MaxEdits \in Nat
  /\ \A p \in Packets :
       /\ p.ok \in BOOLEAN
       /\ p.rows \in Seq([id : Nat, objects : Seq([kind : STRING, value : STRING]), paragraph : BOOLEAN])

VARIABLES
  file,      \* the packet file
  edits,
  process,   \* "none", "chat", "bench"
  packet,    \* the packet of the process
  session,   \* the session its chat shows
  entries,   \* the recall entries of each session
  call,      \* the step of the recall tool
  told,      \* what the tool returned last
  variants,  \* variants the benchmark has still to try
  scores     \* and those it has tried

vars == <<file, edits, process, packet, session, entries, call, told, variants, scores>>

Lesser(a, b) == IF a < b THEN a ELSE b

\* The members of a sequence that a filter keeps, in their order.
Kept(s, Keeps(_)) == FoldLeft(LAMBDA kept, x : IF Keeps(x) THEN Append(kept, x) ELSE kept, <<>>, s)

\* parseServerlessMemoryRecallPacket: one bad row and the packet is refused; objects
\* without a value are dropped, then rows without objects.
ParsedRow(row) == [row EXCEPT !.objects = Kept(row.objects, LAMBDA o : o.value # "")]
Parsed(p) == Kept([i \in DOMAIN p.rows |-> ParsedRow(p.rows[i])], LAMBDA r : r.objects # <<>>)

\* renderServerlessMemoryRecallContent
Rendered(rows, objects) ==
  [i \in 1..Lesser(ShownRows, Len(rows)) |->
     [rows[i] EXCEPT !.objects = IF objects THEN SubSeq(@, 1, Lesser(ShownObjects, Len(@))) ELSE <<>>]]

\* serverlessMemoryRecallDetails: of the whole packet.
Details(rows) ==
  [rowCount |-> Len(rows),
   objectCount |-> FoldLeft(LAMBDA n, r : n + Len(r.objects), 0, rows),
   orgids |-> [i \in DOMAIN rows |-> rows[i].id]]

Init ==
  /\ file \in Packets /\ edits = 0
  /\ process = "none" /\ packet = None /\ session = None
  /\ entries = [s \in Sessions |-> <<>>]
  /\ call = "idle" /\ told = [mode |-> "none", text |-> "none"]
  /\ variants = <<>> /\ scores = <<>>

\* The memory command, or an editor, writes the file.
Edit(p) ==
  /\ edits < MaxEdits /\ p # file
  /\ file' = p /\ edits' = edits + 1
  /\ UNCHANGED <<process, packet, session, entries, call, told, variants, scores>>

\* resolveNativeChatStartup: a packet nothing would use is an error.
Launch(wanted, chat) ==
  /\ process = "none"
  /\ IF chat /\ (wanted => file.ok)
     THEN process' = "chat" /\ packet' = (IF wanted THEN Parsed(file) ELSE None)
     ELSE UNCHANGED <<process, packet>>
  /\ UNCHANGED <<file, edits, session, entries, call, told, variants, scores>>

\* injectServerlessMemoryRecallMessage, at session_start: unless an entry with the same
\* details is there.
SameDetails_Counts(a, b) == a.rowCount = b.rowCount /\ a.objectCount = b.objectCount
SameDetails(a, b) == a = b
Injected(log) ==
  IF packet = None \/ \E i \in DOMAIN log : SameDetails(log[i].details, Details(packet))
  THEN log
  ELSE Append(log, [details |-> Details(packet), content |-> Rendered(packet, TRUE)])

Open(s) ==
  /\ process = "chat" /\ call = "idle"
  /\ session' = s /\ entries' = [entries EXCEPT ![s] = Injected(@)]
  /\ UNCHANGED <<file, edits, process, packet, call, told, variants, scores>>

\* A fork takes over a part of the entries.
Fork(s, n) ==
  /\ process = "chat" /\ call = "idle" /\ session # None /\ s # session
  /\ n <= Len(entries[session])
  /\ entries' = [entries EXCEPT ![s] = Injected(SubSeq(entries[session], 1, n))]
  /\ session' = s
  /\ UNCHANGED <<file, edits, process, packet, call, told, variants, scores>>

Quit ==
  /\ process # "none"
  /\ process' = "none" /\ packet' = None /\ session' = None /\ call' = "idle" /\ variants' = <<>>
  /\ UNCHANGED <<file, edits, entries, told, scores>>

----------------------------------------------------------------------------
(* The tool *)

\* executeServerlessMemoryRecallTool; asked for a snapshot it may also refresh.
Recall(cached) ==
  /\ process = "chat" /\ session # None /\ call = "idle"
  /\ call' = IF cached THEN "cached" ELSE "refreshed"
  /\ UNCHANGED <<file, edits, process, packet, session, entries, told, variants, scores>>

\* runCommand: the text of a command that exits 0; a failure, the interrupt's too, makes
\* a cached call a refresh and any other an error.
CommandEnds(ok) ==
  /\ call \in {"cached", "refreshed", "fallback"}
  /\ IF ok
     THEN /\ told' = [mode |-> IF call = "cached" THEN "cached" ELSE "refreshed",
                      text |-> IF call = "cached" THEN "snapshot" ELSE "fresh"]
          /\ call' = "idle"
     ELSE IF call = "cached"
     THEN call' = "fallback" /\ UNCHANGED told
     ELSE call' = "idle" /\ told' = [mode |-> "error", text |-> "none"]
  /\ UNCHANGED <<file, edits, process, packet, session, entries, variants, scores>>

----------------------------------------------------------------------------
(* The benchmark *)

\* primaryExpectedMemoryObject: the first object of the first kind there is one of.
Kinds == <<"claim", "preference", "failure", "finality", "evidence">>
OfKind(row, k) == Kept(row.objects, LAMBDA o : o.kind = Kinds[k])
Primary(row) == OfKind(row, Min({k \in DOMAIN Kinds : OfKind(row, k) # <<>>}))[1].value

\* expectedRecallFacts: of the rows with such an object and a paragraph, shown or not.
Expected(rows) ==
  LET facts == Kept(rows, LAMBDA r : r.paragraph /\ \E k \in DOMAIN Kinds : OfKind(r, k) # <<>>)
  IN [i \in DOMAIN facts |-> [id |-> facts[i].id, claim |-> Primary(facts[i])]]

Benchmark ==
  /\ process = "none" /\ file.ok /\ Expected(Parsed(file)) # <<>>
  /\ process' = "bench" /\ packet' = Parsed(file)
  /\ variants' = <<"section-only", "property-only", "org-elements">> /\ scores' = <<>>
  /\ UNCHANGED <<file, edits, session, entries, call, told>>

\* renderOptionsForVariant
Context(v) == Rendered(packet, v # "section-only")

\* What the last answer of a session names of the rows it was shown: of some the id, of
\* some of them the objects too.
Answers(context) ==
  UNION {{[ids |-> {context[i].id : i \in I},
           claims |-> UNION {{o.value : o \in ToSet(context[i].objects)} : i \in J}] : J \in SUBSET I}
         : I \in SUBSET DOMAIN context}

\* scoreBenchmarkAnswer: the verdict is about the first row, the hits about all.
Score(v, answer, thrown) ==
  LET facts == Expected(packet)
      hit(i) == ~thrown /\ facts[i].id \in answer.ids /\ facts[i].claim \in answer.claims
  IN [variant |-> v, passedClaim |-> hit(1), claimHits |-> Cardinality({i \in DOMAIN facts : hit(i)})]

\* runBenchmarkVariant: a session of its own, its entry, one prompt.
RunVariant ==
  /\ process = "bench" /\ variants # <<>>
  /\ \E answer \in Answers(Context(Head(variants))), thrown \in BOOLEAN :
       scores' = Append(scores, Score(Head(variants), answer, thrown))
  /\ variants' = Tail(variants)
  /\ UNCHANGED <<file, edits, process, packet, session, entries, call, told>>

Next ==
  \/ \E p \in Packets : Edit(p)
  \/ \E wanted, chat \in BOOLEAN : Launch(wanted, chat)
  \/ \E s \in Sessions : Open(s) \/ \E n \in 0..(MaxEdits + 1) : Fork(s, n)
  \/ Quit \/ Benchmark \/ RunVariant
  \/ \E b \in BOOLEAN : Recall(b) \/ CommandEnds(b)
Spec == Init /\ [][Next]_vars

----------------------------------------------------------------------------
(* Properties. *)

\* However the file is edited and sessions are begun, forked and resumed, the session on
\* the screen holds the process's packet once: an entry with its ids and its counts.
\* The tool says of its text which way it was got, and the benchmark reports no memory
\* found that the variant did not show.
RecallIsTold ==
  /\ session # None /\ packet # None =>
       \E i \in DOMAIN entries[session] :
         LET e == entries[session][i]
         IN /\ \A k \in DOMAIN entries[session] : entries[session][k].details = e.details => k = i
            /\ e.details = Details(packet)
            /\ Len(e.content) = Lesser(ShownRows, Len(packet))
            /\ \A j \in DOMAIN e.content : e.content[j].id = packet[j].id
  /\ told.text = "snapshot" <=> told.mode = "cached"
  /\ \A i \in DOMAIN scores : scores[i].variant = "section-only" => scores[i].claimHits = 0
=============================================================================
