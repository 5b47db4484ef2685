---------------------------- MODULE Conversations ----------------------------
(***************************************************************************)
(* One chatbot's transcripts and the tickets opened from them              *)
(* (app/services/rag.py, ticket.py, conversation.py): visitors' turns and  *)
(* contact forms, the staff's updates and replies, deletion on request,    *)
(* and the nightly sweep.                                                  *)
(*                                                                         *)
(* A request reads its rows, and writes them in a later statement of the   *)
(* same READ COMMITTED transaction, which no lock separates from another   *)
(* request's commit.  The ORM writes only the columns whose value differs  *)
(* from the one it has loaded.                                             *)
(***************************************************************************)
EXTENDS Naturals, Sequences, FiniteSets

CONSTANTS
    Sessions,     \* the visitors' session ids
    Tickets,      \* ids of tickets; an id is never used again
    Requests,
    MaxMessages,  \* bound on the messages of one transcript
    BatchSize, MaxBatches

VARIABLES
    conv,    \* [Sessions -> ConversationRecord]
    order,   \* sessions with a transcript, the longest idle first
    ticket,  \* [Tickets -> TicketRecord]
    req,     \* [Requests -> RequestRecord]
    sweep,   \* the one sweep its lock lets run
    renewed  \* history: transcripts of its batch that were written, or had a ticket
             \* written, since they were selected

vars == <<conv, order, ticket, req, sweep, renewed>>

Kinds == {"turn", "contact", "update", "reply"}

ASSUME ConstantsAssumption ==
    /\ MaxMessages \in Nat /\ BatchSize \in Nat \ {0} /\ MaxBatches \in Nat \ {0}
    /\ Sessions # {} /\ Tickets # {}

Statuses == {"open", "pending", "resolved", "closed"}
Unresolved == {"open", "pending"}
Unchanged == "unchanged"
None == "none"

ConversationRecord ==
    [there : BOOLEAN, messages : Nat, count : Nat,
     aged : BOOLEAN]  \* not updated since the cutoff
NoConversation == [there |-> FALSE, messages |-> 0, count |-> 0, aged |-> FALSE]

TicketRecord ==
    [session : Sessions \cup {None}, status : Statuses \cup {"unused", "gone"},
     stamped : BOOLEAN]  \* resolved_at
NoTicket == [session |-> None, status |-> "unused", stamped |-> FALSE]

RequestRecord ==
    [pc : {"idle", "create", "stream", "persist", "write"},
     kind : Kinds, session : Sessions \cup {None}, ticket : Tickets \cup {None},
     found : BOOLEAN, count : Nat,  \* the conversation, as loaded
     lost : BOOLEAN,                \* that row has been deleted since
     loaded : TicketRecord,
     ask : Statuses \cup {"claim", Unchanged},
     messages : 0 .. 2]             \* how many it adds

\* A request of kind that adds n messages to s, of which it has loaded c.
OfVisitor(pc, kind, s, c, n) ==
    [pc |-> pc, kind |-> kind, session |-> s, ticket |-> None, found |-> c.there,
     count |-> c.count, lost |-> FALSE, loaded |-> NoTicket, ask |-> Unchanged, messages |-> n]
IdleRequest == OfVisitor("idle", "turn", None, NoConversation, 0)

\* The same of ticket t, asking for a status.
OfStaff(kind, t, s, c, ask, n) ==
    [pc |-> "write", kind |-> kind, session |-> s, ticket |-> t, found |-> c.there,
     count |-> c.count, lost |-> FALSE, loaded |-> ticket[t], ask |-> ask, messages |-> n]

SweepRecord ==
    [pc : {"off", "select", "delete"}, ids : SUBSET Sessions,
     full : BOOLEAN,  \* as many as a batch may have were selected
     batch : Nat]
NoSweep == [pc |-> "off", ids |-> {}, full |-> FALSE, batch |-> 0]

Init ==
    /\ conv = [s \in Sessions |-> NoConversation]
    /\ order = <<>>
    /\ ticket = [t \in Tickets |-> NoTicket]
    /\ req = [r \in Requests |-> IdleRequest]
    /\ sweep = NoSweep
    /\ renewed = {}

Exists(t) == ticket[t].status \in Statuses

\* Mutant: only a ticket nobody has claimed holds its transcript.
PinnedWhileOpen(s) ==
    \E t \in Tickets : ticket[t].session = s /\ ticket[t].status = "open"

\* A transcript held open by a ticket.
Pinned(s) ==
    \E t \in Tickets : ticket[t].session = s /\ ticket[t].status \in Unresolved
-----------------------------------------------------------------------------
Finish(r) == req' = [req EXCEPT ![r] = IdleRequest]
Goto(r, pc) == req' = [req EXCEPT ![r].pc = pc]
Starts(r, q) == req[r].pc = "idle" /\ req' = [req EXCEPT ![r] = q]

\* What the history keeps of a step.
Recorded ==
    renewed' = {s \in sweep'.ids :
        /\ sweep.pc = "delete"
        /\ \/ s \in renewed \/ conv'[s] # conv[s]
           \/ \E t \in Tickets : ticket'[t].session = s /\ ticket'[t] # ticket[t]}

WithoutSession(s) == SelectSeq(order, LAMBDA o : o # s)

\* stream_answer's first transaction: the conversation is found or created,
\* unless the chatbot has spent its month.
BeginTurn(r, s) ==
    \E pc \in {"persist", IF conv[s].there THEN "stream" ELSE "create"} :
        /\ Starts(r, OfVisitor(pc, "turn", s, NoConversation, 2))
        /\ UNCHANGED <<conv, order, ticket, sweep>>
        /\ Recorded

\* The INSERT, which a concurrent one makes fail.
CreateConversation(r) ==
    LET s == req[r].session IN
    /\ req[r].pc = "create"
    /\ \/ /\ ~conv[s].there
          /\ conv' = [conv EXCEPT ![s] = [there |-> TRUE, messages |-> 0, count |-> 0, aged |-> FALSE]]
          /\ order' = Append(order, s)
          /\ Goto(r, "stream")
       \/ conv[s].there /\ Finish(r) /\ UNCHANGED <<conv, order>>
    /\ UNCHANGED <<ticket, sweep>>
    /\ Recorded

\* The model answers; it fails, says nothing, or the visitor has gone.
Stream(r) ==
    /\ req[r].pc = "stream"
    /\ Goto(r, "persist") \/ Finish(r)
    /\ UNCHANGED <<conv, order, ticket, sweep>>
    /\ Recorded

\* _persist_turn finds the conversation again ...
ReadConversation(r) ==
    /\ req[r].pc = "persist"
    /\ LET s == req[r].session IN
          req' = [req EXCEPT ![r] = OfVisitor("write", "turn", s, conv[s], 2)]
    /\ UNCHANGED <<conv, order, ticket, sweep>>
    /\ Recorded

\* create_ticket does the same, for a form with or without a message.
BeginContact(r, s) ==
    \E n \in 0 .. 1 :
        /\ Starts(r, OfVisitor("write", "contact", s, conv[s], n))
        /\ UNCHANGED <<conv, order, ticket, sweep>>
        /\ Recorded

\* message_count += n, of the value loaded.
Counted(q) == q.count + q.messages

\* ... and adds its messages, which renews updated_at, in the row it has found or
\* in one it inserts.  A foreign key fails when the row found is gone, the unique
\* index when another request has inserted it.
AddMessages(q) ==
    LET s == q.session
        row == [there |-> TRUE, messages |-> conv[s].messages + q.messages,
                count |-> Counted(q), aged |-> FALSE] IN
    /\ IF q.found THEN ~q.lost ELSE ~conv[s].there
    /\ conv[s].messages + q.messages <= MaxMessages
    /\ IF q.found /\ q.messages = 0
         THEN UNCHANGED <<conv, order>>
         ELSE /\ conv' = [conv EXCEPT ![s] = row]
              /\ order' = Append(WithoutSession(s), s)

WriteTurn(r) ==
    /\ req[r].pc = "write" /\ req[r].kind = "turn"
    /\ AddMessages(req[r])
    /\ Finish(r)
    /\ UNCHANGED <<ticket, sweep>>
    /\ Recorded

WriteContact(r) ==
    /\ req[r].pc = "write" /\ req[r].kind = "contact"
    /\ AddMessages(req[r])
    /\ \E t \in Tickets :
          /\ ticket[t].status = "unused"
          /\ ticket' = [ticket EXCEPT
                ![t] = [session |-> req[r].session, status |-> "open", stamped |-> FALSE]]
    /\ Finish(r)
    /\ UNCHANGED sweep
    /\ Recorded

\* The transaction fails: a constraint, a timeout, a lost connection.
RollBack(r) ==
    /\ req[r].pc = "write"
    /\ Finish(r)
    /\ UNCHANGED <<conv, order, ticket, sweep>>
    /\ Recorded
-----------------------------------------------------------------------------
\* update_ticket with a status, or a claim of the ticket, or neither; the priority
\* and the assignee's name are left out.
BeginUpdate(r, t) ==
    \E ask \in Statuses \cup {"claim", Unchanged} :
        /\ Exists(t)
        /\ Starts(r, OfStaff("update", t, None, NoConversation, ask, 0))
        /\ UNCHANGED <<conv, order, ticket, sweep>>
        /\ Recorded

\* reply_to_ticket
BeginReply(r, t) ==
    LET s == ticket[t].session IN
    /\ Exists(t)
    /\ Starts(r, OfStaff("reply", t, s, conv[s], Unchanged, 1))
    /\ UNCHANGED <<conv, order, ticket, sweep>>
    /\ Recorded

\* What the ORM flushes of a column.
Flushed(new, loaded, current) == IF new # loaded THEN new ELSE current

\* Mutant: reopening keeps the stamp.
StampKept(q, row) == row.stamped \/ q.ask = "resolved"

\* _apply_status: a resolution is stamped, and leaving one drops the stamp.
Stamp(q, row) ==
    IF q.ask = "resolved" THEN TRUE
    ELSE IF q.ask \in Statuses /\ q.loaded.status \in {"resolved", "closed"}
      THEN Flushed(FALSE, q.loaded.stamped, row.stamped)
    ELSE row.stamped

\* An explicit status, or the claim of an unclaimed ticket.
NewStatus(q) ==
    IF q.ask \in Statuses THEN q.ask
    ELSE IF q.ask = "claim" /\ q.loaded.status = "open" THEN "pending"
    ELSE q.loaded.status

WriteUpdate(r) ==
    LET q == req[r]
        row == ticket[q.ticket] IN
    /\ q.pc = "write" /\ q.kind = "update" /\ Exists(q.ticket)
    /\ ticket' = [ticket EXCEPT ![q.ticket] =
          [session |-> row.session,
           status |-> Flushed(NewStatus(q), q.loaded.status, row.status),
           stamped |-> Stamp(q, row)]]
    /\ Finish(r)
    /\ UNCHANGED <<conv, order, sweep>>
    /\ Recorded

\* Only a ticket nobody has claimed is taken up.
TakesUp(q) == IF q.loaded.status = "open" THEN "pending" ELSE q.loaded.status

WriteReply(r) ==
    LET q == req[r] IN
    /\ q.pc = "write" /\ q.kind = "reply" /\ Exists(q.ticket)
    /\ AddMessages(q)
    /\ ticket' = [ticket EXCEPT
          ![q.ticket].status = Flushed(TakesUp(q), q.loaded.status, @)]
    /\ Finish(r)
    /\ UNCHANGED sweep
    /\ Recorded
-----------------------------------------------------------------------------
\* Transcripts go with their messages and tickets, and nobody who holds such a
\* row can write it any more.
DeleteAll(S) ==
    /\ conv' = [s \in Sessions |-> IF s \in S THEN NoConversation ELSE conv[s]]
    /\ order' = SelectSeq(order, LAMBDA s : s \notin S)
    /\ ticket' = [t \in Tickets |->
          IF Exists(t) /\ ticket[t].session \in S THEN [ticket[t] EXCEPT !.status = "gone"]
          ELSE ticket[t]]
    /\ req' = [r \in Requests |->
          IF req[r].pc = "write" /\ req[r].session \in S THEN [req[r] EXCEPT !.lost = TRUE]
          ELSE req[r]]

\* delete_conversation, on request.
DeleteConversation(s) ==
    /\ conv[s].there
    /\ DeleteAll({s})
    /\ sweep' = [sweep EXCEPT !.ids = @ \ {s}]
    /\ Recorded

\* Time passes: the longest idle transcript that is younger than the cutoff is
\* not any more.
Age ==
    \E i \in 1 .. Len(order) :
        /\ ~conv[order[i]].aged
        /\ \A j \in 1 .. (i - 1) : conv[order[j]].aged
        /\ conv' = [conv EXCEPT ![order[i]].aged = TRUE]
        /\ UNCHANGED <<order, ticket, req, sweep>>
        /\ Recorded

\* Beat fires; the lock lets one sweep run.
SweepStart ==
    /\ sweep.pc = "off"
    /\ sweep' = [NoSweep EXCEPT !.pc = "select"]
    /\ UNCHANGED <<conv, order, ticket, req>>
    /\ Recorded

Expired == {s \in Sessions : conv[s].there /\ conv[s].aged /\ ~Pinned(s)}

Before(o, s) == \E i, j \in 1 .. Len(order) : i < j /\ order[i] = o /\ order[j] = s

\* Mutant: the youngest go first.
BatchOfYoungest == {s \in Expired : Cardinality({o \in Expired : Before(s, o)}) < BatchSize}

\* Oldest first.
Batch == {s \in Expired : Cardinality({o \in Expired : Before(o, s)}) < BatchSize}

\* expired_ids
SweepSelect ==
    /\ sweep.pc = "select"
    /\ sweep' = IF Batch = {} THEN NoSweep
                ELSE [pc |-> "delete", ids |-> Batch,
                      full |-> Cardinality(Batch) = BatchSize, batch |-> sweep.batch]
    /\ UNCHANGED <<conv, order, ticket, req>>
    /\ Recorded

\* delete_by_ids; a short batch is the last, and so is the last allowed.
SweepDelete ==
    /\ sweep.pc = "delete"
    /\ DeleteAll(sweep.ids)
    /\ sweep' = IF ~sweep.full \/ sweep.batch + 1 = MaxBatches THEN NoSweep
                ELSE [NoSweep EXCEPT !.pc = "select", !.batch = sweep.batch + 1]
    /\ Recorded

\* The worker is killed, or a statement fails; what was committed stays.
SweepFail ==
    /\ sweep.pc # "off"
    /\ sweep' = NoSweep
    /\ UNCHANGED <<conv, order, ticket, req>>
    /\ Recorded
-----------------------------------------------------------------------------
VisitorStep(r) ==
    \/ \E s \in Sessions : BeginTurn(r, s)
    \/ CreateConversation(r)
    \/ Stream(r)
    \/ ReadConversation(r)
    \/ WriteTurn(r)
    \/ \E s \in Sessions : BeginContact(r, s)
    \/ WriteContact(r)

StaffStep(r) ==
    \/ \E t \in Tickets : BeginUpdate(r, t)
    \/ WriteUpdate(r)
    \/ \E t \in Tickets : BeginReply(r, t)
    \/ WriteReply(r)

RequestStep(r) == VisitorStep(r) \/ StaffStep(r) \/ RollBack(r)

SweepStep == SweepStart \/ SweepSelect \/ SweepDelete \/ SweepFail

Next ==
    \/ \E r \in Requests : RequestStep(r)
    \/ SweepStep
    \/ \E s \in Sessions : DeleteConversation(s)
    \/ Age

\* Beat fires again every night, and not every sweep fails.
Fairness ==
    /\ WF_vars(SweepStart) /\ SF_vars(SweepSelect) /\ SF_vars(SweepDelete)

Spec == Init /\ [][Next]_vars
FairSpec == Spec /\ Fairness
-----------------------------------------------------------------------------
RowsOK ==
    /\ conv \in [Sessions -> ConversationRecord]
    /\ ticket \in [Tickets -> TicketRecord]
    /\ req \in [Requests -> RequestRecord]
    /\ sweep \in SweepRecord

TypeOK == RowsOK /\ order \in Seq(Sessions) /\ renewed \subseteq Sessions

\* A transcript's recorded length is never more than it holds (rag.py:204,
\* ticket.py:107, 254), however the increments overlap.
CountWithin == \A s \in Sessions : conv[s].count <= conv[s].messages

\* ticket.py:353-354: the resolution stamp describes the status the row is in.
StampRight(t) == Exists(t) => (ticket[t].stamped <=> ticket[t].status = "resolved")

StampDescribesStatus == \A t \in Tickets : StampRight(t)

\* As far as the code keeps it: it ceases to only when an update or a reply is written
\* to a row that is no longer as it was loaded.
StampWrongInARace ==
    [][\A t \in Tickets : StampRight(t) =>
          \/ StampRight(t)'
          \/ \E r \in Requests :
                /\ req[r].pc = "write" /\ req[r].ticket = t /\ req'[r].pc = "idle"
                /\ req[r].loaded # ticket[t]]_vars

Swept(s) == sweep.pc = "delete" /\ sweep'.pc # "delete" /\ conv[s].there /\ ~conv'[s].there

IdleAndSettled(s) ==
    /\ conv[s].aged
    /\ \A t \in Tickets :
          ticket[t].session = s => ticket[t].status \notin {"open", "pending"}

\* README.md:525-526, 541: the sweep takes no transcript that an unresolved ticket
\* holds, or that is still being added to.
SweepSparesHeld == [][\A s \in Sessions : Swept(s) => IdleAndSettled(s)]_vars

\* As far as the code keeps it: it takes one only when that was written since it was
\* selected.
SweepTakesHeldInARace ==
    [][\A s \in Sessions : Swept(s) /\ s \notin renewed => IdleAndSettled(s)]_vars

\* README.md:541-543: an expired transcript that nothing holds goes in the end,
\* however small the batches.
EventuallyPurged ==
    \A s \in Sessions : []<>(~conv[s].there \/ ~conv[s].aged \/ Pinned(s))
=============================================================================
