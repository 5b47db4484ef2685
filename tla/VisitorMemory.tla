---------------------------- MODULE VisitorMemory ----------------------------
(***************************************************************************)
(* What is remembered about one visitor of one chatbot                     *)
(* (app/services/nuvrag_mem, app/repositories/memory_entry.py): notes that *)
(* the workers extract from the visitor's transcript, that are erased on   *)
(* request, and that a nightly sweep takes.                                *)
(*                                                                         *)
(* The visitor has at most one transcript at a time (a unique index); a    *)
(* new one, with an id and an extraction lock of its own, follows one that *)
(* has been deleted.  Two notes are of one fact when they are within       *)
(* dedupe_similarity.  When a note was last used is not told apart, so a   *)
(* recall and a restatement, which refresh it, change nothing here.  A     *)
(* statement sees what is committed and what its own transaction wrote.    *)
(***************************************************************************)
EXTENDS Naturals, FiniteSets

CONSTANTS
    Facts, Workers,
    MaxEntries,   \* max_entries_per_subject
    MaxProposed,  \* max_entries_per_extraction
    MaxTranscripts, MaxCopies  \* bounds

VARIABLES
    transcript,  \* the visitor's, or 0
    born,        \* how many there have been
    erased,      \* those deleted on request
    ticketState, \* of the transcript; "unresolved" while one of its tickets is
    note,        \* [Facts -> [Copies -> NoteRecord]]
    asked,       \* transcripts of which there are extraction messages, any number
    lock,        \* [Transcripts -> token]: nuvrag-mem:extract:<id>
    run,         \* [Workers -> RunRecord]
    erasure      \* delete_conversation, between its two statements

notesVars == <<transcript, born, erased, ticketState, note, asked, lock, run, erasure>>

Transcripts == 1 .. MaxTranscripts
Copies == 1 .. MaxCopies
Notes == Facts \X Copies

\* Values of the lock's key: nothing, or the token of a run that is dead.
Free == "free"
Dead == "dead"

ASSUME NotesConstants ==
    /\ MaxEntries \in Nat \ {0} /\ MaxProposed \in Nat \ {0}
    /\ MaxTranscripts \in Nat /\ MaxCopies \in Nat
    /\ IsFiniteSet(Facts)
    /\ Free \notin Workers /\ Dead \notin Workers

NoteRecord ==
    [there : BOOLEAN,
     from : 0 .. MaxTranscripts,  \* the transcript it was learned in
     late : BOOLEAN,              \* stored by a run that had lost its lock
     raced : BOOLEAN]             \* stored while that transcript was being deleted
NoNote == [there |-> FALSE, from |-> 0, late |-> FALSE, raced |-> FALSE]

RunRecord ==
    [pc : {"idle", "model", "store"}, conv : 0 .. MaxTranscripts,
     late : BOOLEAN,              \* its lock has expired
     left : 0 .. MaxProposed,     \* proposals still to be looked at
     held : Nat, ins : SUBSET Facts]
IdleRun == [pc |-> "idle", conv |-> 0, late |-> FALSE, left |-> 0, held |-> 0, ins |-> {}]

NoErasure == [busy |-> FALSE, conv |-> 0, doomed |-> {}]

NotesInit ==
    /\ transcript = 0 /\ born = 0 /\ erased = {}
    /\ ticketState = "none"
    /\ note = [f \in Facts |-> [i \in Copies |-> NoNote]]
    /\ asked = {}
    /\ lock = [c \in Transcripts |-> Free]
    /\ run = [w \in Workers |-> IdleRun]
    /\ erasure = NoErasure

There == {n \in Notes : note[n[1]][n[2]].there}
Known == {f \in Facts : \E i \in Copies : note[f][i].there}

\* The rows N without which the table is left.
Without(N) ==
    [f \in Facts |-> [i \in Copies |-> IF <<f, i>> \in N THEN NoNote ELSE note[f][i]]]
-----------------------------------------------------------------------------
\* The transcript of a turn or a contact form: the one there is, or a new one.
Ensured ==
    IF transcript # 0 THEN UNCHANGED <<transcript, born>>
    ELSE born < MaxTranscripts /\ born' = born + 1 /\ transcript' = born + 1

\* A turn is persisted, and asks for an extraction when there is a ticket; the
\* broker may refuse it.  (What its transactions meet is Conversations' matter.)
Turn ==
    /\ Ensured
    /\ \/ ticketState # "none" /\ asked' = asked \cup {transcript}
       \/ UNCHANGED asked
    /\ UNCHANGED <<erased, ticketState, note, lock, run, erasure>>

\* create_ticket
OpenTicket ==
    /\ Ensured
    /\ ticketState' = "unresolved"
    /\ UNCHANGED <<erased, note, asked, lock, run, erasure>>

\* update_ticket and replies: the last ticket is settled, or one taken up again.
UpdateTicket ==
    /\ ticketState # "none"
    /\ ticketState' \in {"unresolved", "settled"} \ {ticketState}
    /\ UNCHANGED <<transcript, born, erased, note, asked, lock, run, erasure>>
-----------------------------------------------------------------------------
\* Mutant: a plain DEL.
ReleasedBlindly(w) == Free

\* _RELEASE_IF_HELD: a run gives back only its own lock.
Released(w) == IF lock[run[w].conv] = w THEN Free ELSE lock[run[w].conv]

\* A run ends and its lock is released.
EndRun(w) ==
    /\ lock' = [lock EXCEPT ![run[w].conv] = Released(w)]
    /\ run' = [run EXCEPT ![w] = IdleRun]

\* The gate: the transcript has a ticket.  A replica that is behind may still
\* show a transcript that has gone.
Gate(c) == c <= born /\ (c = transcript => ticketState # "none")

\* held_lock: SET NX.
Acquires(c) == lock[c] = Free

\* A worker takes a message, and with it the lock and the history.  (A message
\* that finds the lock taken or the gate shut is dropped, and nothing changes.
\* Each turn sends one, and one is sent again when its worker is lost.)
BeginExtraction(w, c) ==
    /\ run[w].pc = "idle" /\ c \in asked
    /\ Acquires(c) /\ Gate(c)
    /\ lock' = [lock EXCEPT ![c] = w]
    /\ run' = [run EXCEPT ![w] = [pc |-> "model", conv |-> c, late |-> FALSE, left |-> 0,
                                  held |-> 0, ins |-> {}]]
    /\ UNCHANGED <<transcript, born, erased, ticketState, note, asked, erasure>>

\* The model has proposed, the provider has embedded; _store counts.
Propose(w) ==
    /\ run[w].pc = "model"
    /\ \E k \in 1 .. MaxProposed :
          run' = [run EXCEPT ![w].pc = "store", ![w].left = k, ![w].held = Cardinality(There)]
    /\ UNCHANGED <<transcript, born, erased, ticketState, note, asked, lock, erasure>>

\* Nothing to do, no provider, an upstream failure, another width; or the
\* transaction fails and is rolled back.
GiveUp(w) ==
    /\ run[w].pc # "idle"
    /\ EndRun(w)
    /\ UNCHANGED <<transcript, born, erased, ticketState, note, asked, erasure>>

\* Mutant: one more than the ceiling.
FullAfterOneMore(w) == run[w].held > MaxEntries

Full(w) == run[w].held >= MaxEntries

\* The visitor is at capacity: the rest of the proposals is refused.
StoreFull(w) ==
    /\ run[w].pc = "store" /\ run[w].left > 0 /\ Full(w)
    /\ run' = [run EXCEPT ![w].left = 0]
    /\ UNCHANGED <<transcript, born, erased, ticketState, note, asked, lock, erasure>>

\* Mutant: only the batch itself is looked at.
NearestInBatch(w, f) == f \in run[w].ins

\* nearest: the fact is known from before, or from this very batch.
NearestIs(w, f) == f \in Known \/ f \in run[w].ins

\* The next proposal restates a fact.
StoreKnown(w) ==
    /\ run[w].pc = "store" /\ run[w].left > 0 /\ ~Full(w)
    /\ \E f \in Facts : NearestIs(w, f)
    /\ run' = [run EXCEPT ![w].left = @ - 1]
    /\ UNCHANGED <<transcript, born, erased, ticketState, note, asked, lock, erasure>>

\* Mutant: no foreign key.
SourceAnything(w) == TRUE

\* The foreign key of source_conversation_id: the transcript is there, and stays
\* until the transaction ends.
SourceThere(w) == run[w].conv = transcript

\* The next proposal is new, and is inserted.
StoreNew(w) ==
    /\ run[w].pc = "store" /\ run[w].left > 0 /\ ~Full(w)
    /\ SourceThere(w)
    /\ \E f \in Facts :
          /\ ~NearestIs(w, f)
          /\ run' = [run EXCEPT ![w].left = @ - 1, ![w].ins = @ \cup {f}, ![w].held = @ + 1]
    /\ UNCHANGED <<transcript, born, erased, ticketState, note, asked, lock, erasure>>

Stored(w) ==
    [there |-> TRUE, from |-> run[w].conv, late |-> run[w].late,
     raced |-> erasure.busy /\ erasure.conv = run[w].conv]

\* Everything proposed has been looked at: commit, and release the lock.
StoreCommit(w) ==
    /\ run[w].pc = "store" /\ run[w].left = 0
    /\ \E at \in [run[w].ins -> Copies] :
          /\ \A f \in run[w].ins :
                ~note[f][at[f]].there /\ \A i \in 1 .. (at[f] - 1) : note[f][i].there
          /\ note' = [f \in Facts |-> [i \in Copies |->
                IF f \in run[w].ins /\ at[f] = i THEN Stored(w) ELSE note[f][i]]]
    /\ EndRun(w)
    /\ UNCHANGED <<transcript, born, erased, ticketState, asked, erasure>>

\* LOCK_TTL_SECONDS are over: the key goes, whatever its holder is doing.
LockExpires(c) ==
    /\ lock[c] # Free
    /\ lock' = [lock EXCEPT ![c] = Free]
    /\ run' = [w \in Workers |-> IF lock[c] = w THEN [run[w] EXCEPT !.late = TRUE] ELSE run[w]]
    /\ UNCHANGED <<transcript, born, erased, ticketState, note, asked, erasure>>

\* A worker is lost: its transaction is rolled back and its lock stays.
WorkerLost(w) ==
    LET c == run[w].conv IN
    /\ run[w].pc # "idle"
    /\ run' = [run EXCEPT ![w] = IdleRun]
    /\ lock' = [lock EXCEPT ![c] = IF @ = w THEN Dead ELSE @]
    /\ UNCHANGED <<transcript, born, erased, ticketState, note, asked, erasure>>
-----------------------------------------------------------------------------
\* No transaction holds the foreign key of transcript c.
Deletable(c) == \A w \in Workers : run[w].conv = c => run[w].ins = {}

\* delete_conversation deletes the visitor's notes ...
DeleteNotes ==
    /\ transcript # 0 /\ ~erasure.busy
    /\ erasure' = [busy |-> TRUE, conv |-> transcript, doomed |-> There]
    /\ UNCHANGED <<transcript, born, erased, ticketState, note, asked, lock, run>>

\* ... and then the transcript, with its ticket, and commits.
DeleteTranscript ==
    /\ erasure.busy /\ Deletable(erasure.conv)
    /\ note' = Without(erasure.doomed)
    /\ erased' = erased \cup {erasure.conv}
    /\ IF transcript = erasure.conv THEN transcript' = 0 /\ ticketState' = "none"
       ELSE UNCHANGED <<transcript, ticketState>>
    /\ erasure' = NoErasure
    /\ UNCHANGED <<born, asked, lock, run>>

\* The transaction fails, and with it the deletion of the notes.
DeleteFails ==
    /\ erasure.busy
    /\ erasure' = NoErasure
    /\ UNCHANGED <<transcript, born, erased, ticketState, note, asked, lock, run>>

\* forget_ticket_visitor: one statement, which waits for rows being deleted.
Forget ==
    /\ ticketState # "none" /\ ~erasure.busy
    /\ note' = Without(There)
    /\ UNCHANGED <<transcript, born, erased, ticketState, asked, lock, run, erasure>>

\* The conversation sweep takes the transcript, which it has selected a statement
\* earlier, idle and held by no unresolved ticket; the notes stay.
TranscriptSwept ==
    /\ transcript # 0 /\ Deletable(transcript)
    /\ transcript' = 0 /\ ticketState' = "none"
    /\ UNCHANGED <<born, erased, note, asked, lock, run, erasure>>

\* purge_expired_memory deletes a batch of the visitor's notes.  It has selected
\* them a statement earlier, unused and held by no unresolved ticket, which need
\* not be so any more: any notes but those being deleted can go.
Sweep ==
    /\ \E N \in SUBSET (There \ erasure.doomed) : N # {} /\ note' = Without(N)
    /\ UNCHANGED <<transcript, born, erased, ticketState, asked, lock, run, erasure>>
-----------------------------------------------------------------------------
RunStep(w) ==
    \/ \E c \in Transcripts : BeginExtraction(w, c)
    \/ Propose(w) \/ GiveUp(w)
    \/ StoreFull(w) \/ StoreKnown(w) \/ StoreNew(w) \/ StoreCommit(w)
    \/ WorkerLost(w)

NotesNext ==
    \/ Turn \/ OpenTicket \/ UpdateTicket
    \/ \E w \in Workers : RunStep(w)
    \/ \E c \in Transcripts : LockExpires(c)
    \/ DeleteNotes \/ DeleteTranscript \/ DeleteFails
    \/ Forget \/ TranscriptSwept \/ Sweep

NotesSpec == NotesInit /\ [][NotesNext]_notesVars
-----------------------------------------------------------------------------
NotesTypeOK ==
    /\ transcript \in 0 .. MaxTranscripts /\ born \in 0 .. MaxTranscripts
    /\ erased \subseteq Transcripts
    /\ ticketState \in {"none", "unresolved", "settled"}
    /\ note \in [Facts -> [Copies -> NoteRecord]]
    /\ asked \subseteq Transcripts
    /\ lock \in [Transcripts -> Workers \cup {Free, Dead}]
    /\ run \in [Workers -> RunRecord]
    /\ erasure \in [busy : BOOLEAN, conv : 0 .. MaxTranscripts, doomed : SUBSET Notes]

\* redis_client.py:43-45: a run whose lock has not expired holds it, so no two of
\* them work on one transcript.
HoldsItsLock ==
    \A w \in Workers : run[w].pc # "idle" /\ ~run[w].late => lock[run[w].conv] = w

\* extraction.py:136-139: a fact is written down once, unless a run has outlived
\* its lock.
OncePerFact ==
    \A f \in Facts, i, j \in Copies :
        note[f][i].there /\ note[f][j].there /\ i # j => note[f][i].late \/ note[f][j].late

Punctual == {n \in There : ~note[n[1]][n[2]].late}

\* config.py:256-258: the runs that kept their lock never take a visitor past the
\* ceiling.
WithinCapacity == Cardinality(Punctual) <= MaxEntries

\* conversation.py:46-51: nothing learned in a transcript that was deleted on
\* request is kept or comes back, but what was stored while it was being deleted.
ErasureIsFinal ==
    \A n \in There : note[n[1]][n[2]].from \in erased => note[n[1]][n[2]].raced
-----------------------------------------------------------------------------
(* What makes the four inductive. *)

\* Ids are never used again, and what is under way is about a transcript there has been.
TranscriptsInOrder ==
    /\ transcript \in {0, born} /\ transcript \notin erased
    /\ ticketState # "none" => transcript # 0
    /\ erased \subseteq 1 .. born /\ asked \subseteq 1 .. born
    /\ erasure.busy => erasure.conv \in 1 .. born
    /\ \A w \in Workers : run[w].pc # "idle" => run[w].conv \in 1 .. born

\* A run with rows of its own holds the foreign key, so that their transcript is there.
SourceStays ==
    \A w \in Workers : run[w].ins # {} => run[w].pc = "store" /\ run[w].conv = transcript

\* An erasure has seen every note of its transcript but those stored since it began.
ErasureSeesAll ==
    erasure.busy =>
        \A n \in There : note[n[1]][n[2]].from = erasure.conv =>
            n \in erasure.doomed \/ note[n[1]][n[2]].raced

\* What a run that kept its lock is about to write down, only those that lost theirs have.
NewToPunctual ==
    \A w \in Workers : ~run[w].late =>
        \A f \in run[w].ins, i \in Copies : note[f][i].there => note[f][i].late

\* Its count covers every punctual note and its own rows, which end at the ceiling.
CountCovers ==
    \A w \in Workers :
        /\ run[w].pc = "store" /\ ~run[w].late /\ run[w].conv = transcript =>
              Cardinality(Punctual) + Cardinality(run[w].ins) <= run[w].held
        /\ run[w].ins # {} => run[w].held <= MaxEntries

MemoryInv ==
    /\ NotesTypeOK /\ TranscriptsInOrder /\ SourceStays
    /\ HoldsItsLock
    /\ ErasureIsFinal /\ ErasureSeesAll
    /\ OncePerFact /\ NewToPunctual
    /\ WithinCapacity /\ CountCovers
-----------------------------------------------------------------------------
\* conversation.py:46-51: "Same transaction, so either both go or neither does."
ErasedWithTranscript == \A n \in There : note[n[1]][n[2]].from \notin erased
=============================================================================
