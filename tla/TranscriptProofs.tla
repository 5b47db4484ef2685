--------------------------- MODULE TranscriptProofs ---------------------------
(***************************************************************************)
(* What is kept of a visitor's transcripts, proved for every instance: the *)
(* conversations, tickets and their retention (Conversations, for any      *)
(* number of sessions, tickets and requests and any batches), and the      *)
(* notes extracted from them (VisitorMemory, for any number of workers,    *)
(* facts and transcripts).  The two share no state; each half below is     *)
(* about one of them.                                                      *)
(***************************************************************************)
EXTENDS Conversations, VisitorMemory, FiniteSetTheorems, TLAPS

(* Conversations: whatever overlaps, what it may not break, and which      *)
(* overlaps break the rest.                                                *)

\* Requests and tickets name what their next step uses.
Named ==
    /\ \A t \in Tickets : Exists(t) => ticket[t].session \in Sessions
    /\ \A r \in Requests :
          /\ req[r].pc \in {"create", "stream", "persist"} => req[r].kind = "turn"
          /\ req[r].pc # "idle" /\ req[r].kind # "update" => req[r].session \in Sessions
          /\ req[r].pc # "idle" /\ req[r].kind \in {"update", "reply"} =>
                req[r].ticket \in Tickets

RowsInv == RowsOK /\ Named

LEMMA VisitorType ==
    ASSUME NEW pc \in {"idle", "create", "stream", "persist", "write"}, NEW kind \in Kinds,
           NEW s \in Sessions \cup {None}, NEW c \in ConversationRecord, NEW n \in 0 .. 2
    PROVE  OfVisitor(pc, kind, s, c, n) \in RequestRecord
BY DEF OfVisitor, RequestRecord, ConversationRecord, NoTicket, TicketRecord, Unchanged

LEMMA StaffType ==
    ASSUME RowsInv, NEW kind \in Kinds, NEW t \in Tickets, NEW s \in Sessions \cup {None},
           NEW c \in ConversationRecord, NEW ask \in Statuses \cup {"claim", Unchanged},
           NEW n \in 0 .. 2
    PROVE  OfStaff(kind, t, s, c, ask, n) \in RequestRecord
<1>1. ticket[t] \in TicketRecord
  BY DEF RowsInv, RowsOK
<1> QED BY <1>1 DEF OfStaff, RequestRecord, ConversationRecord

LEMMA NoConversationType == NoConversation \in ConversationRecord
BY DEF NoConversation, ConversationRecord

LEMMA IdleType == IdleRequest \in RequestRecord /\ IdleRequest.pc = "idle"
<1>1. "turn" \in Kinds
  BY DEF Kinds
<1>2. IdleRequest \in RequestRecord
  BY <1>1, NoConversationType, VisitorType DEF IdleRequest
<1>3. IdleRequest.pc = "idle"
  BY DEF IdleRequest, OfVisitor
<1> QED BY <1>2, <1>3

LEMMA FinishType ==
    ASSUME RowsInv, NEW r \in Requests, Finish(r)
    PROVE  /\ req' \in [Requests -> RequestRecord]
           /\ req'[r] = IdleRequest /\ req'[r].pc = "idle"
           /\ \A o \in Requests \ {r} : req'[o] = req[o]
BY IdleType DEF RowsInv, RowsOK, Finish

\* The rows' part of a step that leaves tickets alone or lets them end.
LEMMA NamedByOne ==
    ASSUME RowsInv, NEW r \in Requests,
           \A o \in Requests \ {r} : req'[o] = req[o],
           /\ req'[r].pc \in {"create", "stream", "persist"} => req'[r].kind = "turn"
           /\ req'[r].pc # "idle" /\ req'[r].kind # "update" => req'[r].session \in Sessions
           /\ req'[r].pc # "idle" /\ req'[r].kind \in {"update", "reply"} =>
                req'[r].ticket \in Tickets,
           \A t \in Tickets : Exists(t)' => ticket'[t].session \in Sessions
    PROVE  Named'
BY DEF RowsInv, Named

LEMMA AddType ==
    ASSUME RowsInv, NEW r \in Requests, req[r].pc = "write", req[r].kind # "update",
           AddMessages(req[r])
    PROVE  conv' \in [Sessions -> ConversationRecord]
<1>1. req[r] \in RequestRecord /\ req[r].session \in Sessions
  BY DEF RowsInv, RowsOK, Named
<1>2. conv[req[r].session] \in ConversationRecord
  BY <1>1 DEF RowsInv, RowsOK
<1>3. CASE UNCHANGED conv
  BY <1>3 DEF RowsInv, RowsOK
<1>4. CASE conv' = [conv EXCEPT ![req[r].session] =
              [there |-> TRUE, messages |-> conv[req[r].session].messages + req[r].messages,
               count |-> Counted(req[r]), aged |-> FALSE]]
  <2>1. /\ conv[req[r].session].messages + req[r].messages \in Nat
        /\ req[r].count + req[r].messages \in Nat
    BY <1>1, <1>2 DEF ConversationRecord, RequestRecord
  <2> QED BY <1>4, <2>1 DEF RowsInv, RowsOK, ConversationRecord, Counted
<1> QED BY <1>3, <1>4 DEF AddMessages

LEMMA VisitorRows ==
    ASSUME RowsInv, NEW r \in Requests, VisitorStep(r)
    PROVE  RowsInv'
<1>0. req[r] \in RequestRecord
  BY DEF RowsInv, RowsOK
<1>1. ASSUME NEW s \in Sessions, BeginTurn(r, s) PROVE RowsInv'
  <2>1. PICK pc \in {"persist", "stream", "create"} :
            req' = [req EXCEPT ![r] = OfVisitor(pc, "turn", s, NoConversation, 2)]
    BY <1>1 DEF BeginTurn, Starts
  <2>2. UNCHANGED <<conv, ticket, sweep>>
    BY <1>1 DEF BeginTurn
  <2>3. OfVisitor(pc, "turn", s, NoConversation, 2) \in RequestRecord
    BY VisitorType, NoConversationType DEF Kinds
  <2>4. req' \in [Requests -> RequestRecord] /\ \A o \in Requests \ {r} : req'[o] = req[o]
    BY <2>1, <2>3 DEF RowsInv, RowsOK
  <2>5. req'[r].session = s /\ req'[r].kind = "turn"
    BY <2>1 DEF RowsInv, RowsOK, OfVisitor
  <2>6. Named'
    BY <2>2, <2>4, <2>5, NamedByOne DEF RowsInv, Named, Exists
  <2> QED BY <2>2, <2>4, <2>6 DEF RowsInv, RowsOK
<1>2. CASE CreateConversation(r)
  <2>1. req[r].session \in Sessions /\ req[r].kind = "turn"
    BY <1>2 DEF CreateConversation, RowsInv, Named
  <2>2. /\ req' \in [Requests -> RequestRecord] /\ \A o \in Requests \ {r} : req'[o] = req[o]
        /\ req'[r].pc = "idle" \/ (req'[r].session = req[r].session /\ req'[r].kind = "turn")
    <3>1. CASE Finish(r)
      BY <3>1, FinishType
    <3>2. CASE Goto(r, "stream")
      BY <3>2, <2>1 DEF Goto, RowsInv, RowsOK, RequestRecord
    <3> QED BY <1>2, <3>1, <3>2 DEF CreateConversation
  <2>3. conv' \in [Sessions -> ConversationRecord]
    <3>1. CASE UNCHANGED conv
      BY <3>1 DEF RowsInv, RowsOK
    <3>2. CASE conv' = [conv EXCEPT ![req[r].session] = 
              [there |-> TRUE, messages |-> 0, count |-> 0, aged |-> FALSE]]
      BY <2>1, <3>2 DEF RowsInv, RowsOK, ConversationRecord
    <3> QED BY <1>2, <3>1, <3>2 DEF CreateConversation
  <2>4. UNCHANGED <<ticket, sweep>>
    BY <1>2 DEF CreateConversation
  <2>5. Named'
    BY <2>1, <2>2, <2>4, NamedByOne DEF RowsInv, Named, Exists
  <2> QED BY <2>2, <2>3, <2>4, <2>5 DEF RowsInv, RowsOK
<1>3. CASE Stream(r)
  <2>1. req[r].session \in Sessions /\ req[r].kind = "turn"
    BY <1>3 DEF Stream, RowsInv, Named
  <2>2. /\ req' \in [Requests -> RequestRecord] /\ \A o \in Requests \ {r} : req'[o] = req[o]
        /\ req'[r].pc = "idle" \/ (req'[r].session = req[r].session /\ req'[r].kind = "turn")
    <3>1. CASE Finish(r)
      BY <3>1, FinishType
    <3>2. CASE Goto(r, "persist")
      BY <3>2, <2>1 DEF Goto, RowsInv, RowsOK, RequestRecord
    <3> QED BY <1>3, <3>1, <3>2 DEF Stream
  <2>3. UNCHANGED <<conv, ticket, sweep>>
    BY <1>3 DEF Stream
  <2>4. Named'
    BY <2>1, <2>2, <2>3, NamedByOne DEF RowsInv, Named, Exists
  <2> QED BY <2>2, <2>3, <2>4 DEF RowsInv, RowsOK
<1>4. CASE ReadConversation(r)
  <2>1. req[r].session \in Sessions /\ req[r].kind = "turn"
    BY <1>4 DEF ReadConversation, RowsInv, Named
  <2>2. OfVisitor("write", "turn", req[r].session, conv[req[r].session], 2) \in RequestRecord
    <3>1. conv[req[r].session] \in ConversationRecord
      BY <2>1 DEF RowsInv, RowsOK
    <3> QED BY <2>1, <3>1, VisitorType DEF Kinds
  <2>3. /\ req' \in [Requests -> RequestRecord] /\ \A o \in Requests \ {r} : req'[o] = req[o]
        /\ req'[r].session = req[r].session /\ req'[r].kind = "turn"
    BY <1>4, <2>2 DEF ReadConversation, RowsInv, RowsOK, OfVisitor
  <2>4. UNCHANGED <<conv, ticket, sweep>>
    BY <1>4 DEF ReadConversation
  <2>5. Named'
    BY <2>1, <2>3, <2>4, NamedByOne DEF RowsInv, Named, Exists
  <2> QED BY <2>3, <2>4, <2>5 DEF RowsInv, RowsOK
<1>5. CASE WriteTurn(r)
  <2>1. conv' \in [Sessions -> ConversationRecord]
    BY <1>5, AddType DEF WriteTurn
  <2>2. /\ req' \in [Requests -> RequestRecord] /\ req'[r].pc = "idle"
        /\ \A o \in Requests \ {r} : req'[o] = req[o]
    BY <1>5, FinishType DEF WriteTurn
  <2>3. UNCHANGED <<ticket, sweep>>
    BY <1>5 DEF WriteTurn
  <2>4. Named'
    BY <2>2, <2>3, NamedByOne DEF RowsInv, Named, Exists
  <2> QED BY <2>1, <2>2, <2>3, <2>4 DEF RowsInv, RowsOK
<1>6. ASSUME NEW s \in Sessions, BeginContact(r, s) PROVE RowsInv'
  <2>1. PICK n \in 0 .. 1 :
            req' = [req EXCEPT ![r] = OfVisitor("write", "contact", s, conv[s], n)]
    BY <1>6 DEF BeginContact, Starts
  <2>2. UNCHANGED <<conv, ticket, sweep>>
    BY <1>6 DEF BeginContact
  <2>3. conv[s] \in ConversationRecord
    BY DEF RowsInv, RowsOK
  <2>4. OfVisitor("write", "contact", s, conv[s], n) \in RequestRecord
    BY <2>3, VisitorType DEF Kinds
  <2>5. req' \in [Requests -> RequestRecord] /\ \A o \in Requests \ {r} : req'[o] = req[o]
    BY <2>1, <2>4 DEF RowsInv, RowsOK
  <2>6. req'[r].session = s /\ req'[r].kind = "contact" /\ req'[r].pc = "write"
    BY <2>1 DEF RowsInv, RowsOK, OfVisitor
  <2>7. Named'
    BY <2>2, <2>5, <2>6, NamedByOne DEF RowsInv, Named, Exists
  <2> QED BY <2>2, <2>5, <2>7 DEF RowsInv, RowsOK
<1>7. CASE WriteContact(r)
  <2>1. conv' \in [Sessions -> ConversationRecord]
    BY <1>7, AddType DEF WriteContact
  <2>2. /\ req' \in [Requests -> RequestRecord] /\ req'[r].pc = "idle"
        /\ \A o \in Requests \ {r} : req'[o] = req[o]
    BY <1>7, FinishType DEF WriteContact
  <2>3. UNCHANGED sweep /\ req[r].session \in Sessions
    BY <1>7 DEF WriteContact, RowsInv, Named
  <2>4. PICK t \in Tickets : ticket' = [ticket EXCEPT
                ![t] = [session |-> req[r].session, status |-> "open", stamped |-> FALSE]]
    BY <1>7 DEF WriteContact
  <2>5. [session |-> req[r].session, status |-> "open", stamped |-> FALSE] \in TicketRecord
    BY <2>3 DEF TicketRecord, Statuses
  <2>6. ticket' \in [Tickets -> TicketRecord]
    BY <2>4, <2>5 DEF RowsInv, RowsOK
  <2>7. \A u \in Tickets : Exists(u)' => ticket'[u].session \in Sessions
    BY <2>3, <2>4 DEF RowsInv, RowsOK, Named, Exists
  <2>8. Named'
    BY <2>2, <2>7, NamedByOne
  <2> QED BY <2>1, <2>2, <2>3, <2>6, <2>8 DEF RowsInv, RowsOK
<1> QED BY <1>1, <1>2, <1>3, <1>4, <1>5, <1>6, <1>7 DEF VisitorStep

LEMMA StaffRows ==
    ASSUME RowsInv, NEW r \in Requests, StaffStep(r)
    PROVE  RowsInv'
<1>0. req[r] \in RequestRecord
  BY DEF RowsInv, RowsOK
<1>1. ASSUME NEW t \in Tickets, BeginUpdate(r, t) PROVE RowsInv'
  <2>1. PICK ask \in Statuses \cup {"claim", Unchanged} :
            req' = [req EXCEPT ![r] = OfStaff("update", t, None, NoConversation, ask, 0)]
    BY <1>1 DEF BeginUpdate, Starts
  <2>2. UNCHANGED <<conv, ticket, sweep>>
    BY <1>1 DEF BeginUpdate
  <2>3. OfStaff("update", t, None, NoConversation, ask, 0) \in RequestRecord
    <3>1. "update" \in Kinds /\ None \in Sessions \cup {None} /\ 0 \in 0 .. 2
      BY DEF Kinds
    <3> QED BY <3>1, StaffType, NoConversationType
  <2>4. req' \in [Requests -> RequestRecord] /\ \A o \in Requests \ {r} : req'[o] = req[o]
    BY <2>1, <2>3 DEF RowsInv, RowsOK
  <2>5. req'[r].pc = "write" /\ req'[r].kind = "update" /\ req'[r].ticket = t
    BY <2>1 DEF RowsInv, RowsOK, OfStaff
  <2>6. Named'
    BY <2>2, <2>4, <2>5, NamedByOne DEF RowsInv, Named, Exists
  <2> QED BY <2>2, <2>4, <2>6 DEF RowsInv, RowsOK
<1>2. CASE WriteUpdate(r)
  <2>1. req[r].ticket \in Tickets /\ Exists(req[r].ticket)
    BY <1>2 DEF WriteUpdate, RowsInv, Named
  <2>2. /\ req' \in [Requests -> RequestRecord] /\ req'[r].pc = "idle"
        /\ \A o \in Requests \ {r} : req'[o] = req[o]
    BY <1>2, FinishType DEF WriteUpdate
  <2>3. UNCHANGED <<conv, sweep>>
    BY <1>2 DEF WriteUpdate
  <2>4. NewStatus(req[r]) \in Statuses \cup {"unused", "gone"}
    BY <1>0 DEF NewStatus, RequestRecord, TicketRecord, Statuses
  <2>5. Stamp(req[r], ticket[req[r].ticket]) \in BOOLEAN
    BY <2>1 DEF Stamp, Flushed, RowsInv, RowsOK, TicketRecord
  <2>6. ticket' = [ticket EXCEPT ![req[r].ticket] =
          [session |-> ticket[req[r].ticket].session,
           status |-> Flushed(NewStatus(req[r]), req[r].loaded.status,
                              ticket[req[r].ticket].status),
           stamped |-> Stamp(req[r], ticket[req[r].ticket])]]
    BY <1>2 DEF WriteUpdate
  <2>7. Flushed(NewStatus(req[r]), req[r].loaded.status, ticket[req[r].ticket].status)
            \in Statuses \cup {"unused", "gone"}
    BY <2>1, <2>4 DEF Flushed, RowsInv, RowsOK, TicketRecord
  <2>8. ticket' \in [Tickets -> TicketRecord]
    BY <2>1, <2>5, <2>6, <2>7 DEF RowsInv, RowsOK, TicketRecord
  <2>9. \A u \in Tickets : Exists(u)' => ticket'[u].session \in Sessions
    BY <2>1, <2>6 DEF RowsInv, RowsOK, Named, Exists
  <2>10. Named'
    BY <2>2, <2>9, NamedByOne
  <2> QED BY <2>2, <2>3, <2>8, <2>10 DEF RowsInv, RowsOK
<1>3. ASSUME NEW t \in Tickets, BeginReply(r, t) PROVE RowsInv'
  <2> DEFINE s == ticket[t].session
  <2>1. req' = [req EXCEPT ![r] = OfStaff("reply", t, s, conv[s], Unchanged, 1)]
    BY <1>3 DEF BeginReply, Starts
  <2>2. UNCHANGED <<conv, ticket, sweep>>
    BY <1>3 DEF BeginReply
  <2>3. s \in Sessions
    BY <1>3 DEF BeginReply, RowsInv, Named
  <2>4. conv[s] \in ConversationRecord
    BY <2>3 DEF RowsInv, RowsOK
  <2> HIDE DEF s
  <2>5. OfStaff("reply", t, s, conv[s], Unchanged, 1) \in RequestRecord
    BY <2>3, <2>4, StaffType DEF Kinds
  <2>6. req' \in [Requests -> RequestRecord] /\ \A o \in Requests \ {r} : req'[o] = req[o]
    BY <2>1, <2>5 DEF RowsInv, RowsOK
  <2>7. /\ req'[r].pc = "write" /\ req'[r].kind = "reply" /\ req'[r].ticket = t
        /\ req'[r].session = s
    BY <2>1 DEF RowsInv, RowsOK, OfStaff
  <2>8. Named'
    BY <2>2, <2>3, <2>6, <2>7, NamedByOne DEF RowsInv, Named, Exists
  <2> QED BY <2>2, <2>6, <2>8 DEF RowsInv, RowsOK
<1>4. CASE WriteReply(r)
  <2>1. conv' \in [Sessions -> ConversationRecord]
    BY <1>4, AddType DEF WriteReply
  <2>2. /\ req' \in [Requests -> RequestRecord] /\ req'[r].pc = "idle"
        /\ \A o \in Requests \ {r} : req'[o] = req[o]
    BY <1>4, FinishType DEF WriteReply
  <2>3. req[r].ticket \in Tickets /\ Exists(req[r].ticket) /\ UNCHANGED sweep
    BY <1>4 DEF WriteReply, RowsInv, Named
  <2>4. ticket' = [ticket EXCEPT ![req[r].ticket].status =
            Flushed(TakesUp(req[r]), req[r].loaded.status, ticket[req[r].ticket].status)]
    BY <1>4 DEF WriteReply
  <2>5. Flushed(TakesUp(req[r]), req[r].loaded.status, ticket[req[r].ticket].status)
            \in Statuses \cup {"unused", "gone"}
    BY <1>0, <2>3 DEF Flushed, TakesUp, RequestRecord, RowsInv, RowsOK, TicketRecord, Statuses
  <2>6. ticket' \in [Tickets -> TicketRecord]
    BY <2>3, <2>4, <2>5 DEF RowsInv, RowsOK, TicketRecord
  <2>7. \A u \in Tickets : Exists(u)' => ticket'[u].session \in Sessions
    BY <2>3, <2>4 DEF RowsInv, RowsOK, Named, Exists, TicketRecord
  <2>8. Named'
    BY <2>2, <2>7, NamedByOne
  <2> QED BY <2>1, <2>2, <2>3, <2>6, <2>8 DEF RowsInv, RowsOK
<1> QED BY <1>1, <1>2, <1>3, <1>4 DEF StaffStep

\* What a deletion leaves of the rows.
LEMMA DeleteRows ==
    ASSUME RowsInv, NEW S \in SUBSET Sessions, DeleteAll(S)
    PROVE  /\ conv' \in [Sessions -> ConversationRecord]
           /\ ticket' \in [Tickets -> TicketRecord]
           /\ req' \in [Requests -> RequestRecord]
           /\ Named'
<1>1. conv' \in [Sessions -> ConversationRecord]
  BY NoConversationType DEF DeleteAll, RowsInv, RowsOK
<1>2. ASSUME NEW t \in Tickets
      PROVE  /\ ticket'[t] \in TicketRecord
             /\ Exists(t)' => ticket'[t].session \in Sessions
  BY DEF DeleteAll, RowsInv, RowsOK, Named, Exists, TicketRecord, Statuses
<1>3. ASSUME NEW r \in Requests
      PROVE  /\ req'[r] \in RequestRecord
             /\ \/ req'[r] = req[r]
                \/ req[r].pc = "write" /\ req'[r] = [req[r] EXCEPT !.lost = TRUE]
  BY DEF DeleteAll, RowsInv, RowsOK, RequestRecord
<1>4. ticket' \in [Tickets -> TicketRecord]
  BY <1>2 DEF DeleteAll
<1>5. req' \in [Requests -> RequestRecord]
  BY <1>3 DEF DeleteAll
<1>6. ASSUME NEW r \in Requests
      PROVE  /\ req'[r].pc = req[r].pc /\ req'[r].kind = req[r].kind
             /\ req'[r].session = req[r].session /\ req'[r].ticket = req[r].ticket
  BY <1>3 DEF RowsInv, RowsOK, RequestRecord
<1>7. Named'
  BY <1>2, <1>6 DEF RowsInv, Named
<1> QED BY <1>1, <1>4, <1>5, <1>7

LEMMA SweepRows ==
    ASSUME RowsInv, SweepStep
    PROVE  RowsInv'
<1>1. CASE SweepStart \/ SweepSelect \/ SweepFail
  <2>1. UNCHANGED <<conv, ticket, req>>
    BY <1>1 DEF SweepStart, SweepSelect, SweepFail
  <2>2. Batch \subseteq Sessions
    BY DEF Batch, Expired
  <2>3. CASE SweepStart
    BY <2>1, <2>3 DEF SweepStart, NoSweep, SweepRecord, RowsInv, RowsOK, Named, Exists
  <2>4. CASE SweepSelect
    <3>1. sweep \in SweepRecord
      BY DEF RowsInv, RowsOK
    <3>2. sweep' \in SweepRecord
      BY <2>2, <2>4, <3>1 DEF SweepSelect, SweepRecord, NoSweep
    <3> QED BY <2>1, <3>2 DEF RowsInv, RowsOK, Named, Exists
  <2>5. CASE SweepFail
    BY <2>1, <2>5 DEF SweepFail, SweepRecord, NoSweep, RowsInv, RowsOK, Named, Exists
  <2> QED BY <1>1, <2>3, <2>4, <2>5
<1>2. CASE SweepDelete
  <2>1. sweep \in SweepRecord
    BY DEF RowsInv, RowsOK
  <2>2. sweep.ids \in SUBSET Sessions /\ DeleteAll(sweep.ids)
    BY <1>2, <2>1 DEF SweepDelete, SweepRecord
  <2>3. sweep' \in SweepRecord
    <3>1. NoSweep \in SweepRecord /\ sweep.batch \in Nat
      BY <2>1 DEF SweepRecord, NoSweep
    <3>2. [NoSweep EXCEPT !.pc = "select", !.batch = sweep.batch + 1] \in SweepRecord
      <4> DEFINE n == sweep.batch + 1
      <4>1. n \in Nat
        BY <3>1
      <4> HIDE DEF n
      <4>2. [NoSweep EXCEPT !.pc = "select", !.batch = n] \in SweepRecord
        BY <3>1, <4>1, Zenon DEF SweepRecord
      <4> QED BY <4>2 DEF n
    <3>3. \/ sweep' = NoSweep
          \/ sweep' = [NoSweep EXCEPT !.pc = "select", !.batch = sweep.batch + 1]
      BY <1>2, SMT DEF SweepDelete
    <3> QED BY <3>1, <3>2, <3>3
  <2> QED BY <2>2, <2>3, DeleteRows DEF RowsInv, RowsOK
<1> QED BY <1>1, <1>2 DEF SweepStep

LEMMA RowsStep ==
    ASSUME RowsInv, [Next]_vars
    PROVE  RowsInv'
<1>1. ASSUME NEW r \in Requests, RequestStep(r) PROVE RowsInv'
  <2>1. CASE VisitorStep(r)
    BY <2>1, VisitorRows
  <2>2. CASE StaffStep(r)
    BY <2>2, StaffRows
  <2>3. CASE RollBack(r)
    <3>1. UNCHANGED <<conv, ticket, sweep>>
      BY <2>3 DEF RollBack
    <3>2. /\ req' \in [Requests -> RequestRecord] /\ req'[r].pc = "idle"
          /\ \A o \in Requests \ {r} : req'[o] = req[o]
      BY <2>3, FinishType DEF RollBack
    <3>3. Named'
      BY <3>1, <3>2, NamedByOne DEF RowsInv, Named, Exists
    <3> QED BY <3>1, <3>2, <3>3 DEF RowsInv, RowsOK
  <2> QED BY <1>1, <2>1, <2>2, <2>3 DEF RequestStep
<1>2. CASE SweepStep
  BY <1>2, SweepRows
<1>3. ASSUME NEW s \in Sessions, DeleteConversation(s) PROVE RowsInv'
  <2>1. DeleteAll({s}) /\ sweep' = [sweep EXCEPT !.ids = sweep.ids \ {s}]
    BY <1>3 DEF DeleteConversation
  <2>2. {s} \in SUBSET Sessions
    OBVIOUS
  <2>3. sweep' \in SweepRecord
    BY <2>1 DEF RowsInv, RowsOK, SweepRecord
  <2> QED BY <2>1, <2>2, <2>3, DeleteRows DEF RowsInv, RowsOK
<1>4. CASE Age
  <2>1. UNCHANGED <<ticket, req, sweep>>
    BY <1>4 DEF Age
  <2>2. PICK i \in 1 .. Len(order) : conv' = [conv EXCEPT ![order[i]].aged = TRUE]
    BY <1>4 DEF Age
  <2>3. conv' \in [Sessions -> ConversationRecord]
    BY <2>2 DEF RowsInv, RowsOK, ConversationRecord
  <2> QED BY <2>1, <2>3 DEF RowsInv, RowsOK, Named, Exists
<1>5. CASE UNCHANGED vars
  BY <1>5 DEF vars, RowsInv, RowsOK, Named, Exists
<1> QED BY <1>1, <1>2, <1>3, <1>4, <1>5 DEF Next

LEMMA RowsInit == Init => RowsInv
<1> SUFFICES ASSUME Init PROVE RowsInv
  OBVIOUS
<1>1. conv \in [Sessions -> ConversationRecord]
  BY NoConversationType DEF Init
<1>2. req \in [Requests -> RequestRecord] /\ \A r \in Requests : req[r].pc = "idle"
  BY IdleType DEF Init
<1>3. /\ ticket \in [Tickets -> TicketRecord]
      /\ \A t \in Tickets : ticket[t].status = "unused"
  BY DEF Init, NoTicket, TicketRecord
<1>4. sweep \in SweepRecord
  BY DEF Init, NoSweep, SweepRecord
<1>5. Named
  BY <1>2, <1>3 DEF Named, Exists, Statuses
<1> QED BY <1>1, <1>2, <1>3, <1>4, <1>5 DEF RowsInv, RowsOK

\* The rows are of their types, and requests and tickets name what they need
\* (rag.py, ticket.py, conversation.py).
THEOREM RowsCorrect == Spec => []RowsInv
BY RowsInit, RowsStep, PTL DEF Spec
-----------------------------------------------------------------------------
\* A deleted transcript leaves no messages, and what a request has loaded of a row
\* that still is there is behind it at most.
Gone == \A s \in Sessions : ~conv[s].there => conv[s].messages = 0

LoadedWithin ==
    \A r \in Requests : req[r].pc = "write" =>
        /\ req[r].session \in Sessions /\ req[r].found /\ ~req[r].lost =>
              req[r].count <= conv[req[r].session].messages
        /\ ~req[r].found => req[r].count = 0

CountInv == RowsInv /\ CountWithin /\ Gone /\ LoadedWithin

\* Where only r has moved, and it has loaded a row, or none, or is not at its write.
LEMMA CountLoads ==
    ASSUME CountInv, RowsInv', UNCHANGED conv, NEW r \in Requests,
           \A o \in Requests \ {r} : req'[o] = req[o],
           \/ req'[r].pc # "write"
           \/ ~req'[r].found /\ req'[r].count = 0
           \/ /\ req'[r].session \in Sessions
              /\ req'[r].found = conv[req'[r].session].there
              /\ req'[r].count = conv[req'[r].session].count
    PROVE  CountInv'
<1>1. CountWithin' /\ Gone'
  BY DEF CountInv, CountWithin, Gone
<1>2. ASSUME NEW o \in Requests, req'[o].pc = "write"
      PROVE  /\ req'[o].session \in Sessions /\ req'[o].found /\ ~req'[o].lost =>
                    req'[o].count <= conv[req'[o].session].messages
             /\ ~req'[o].found => req'[o].count = 0
  <2>1. CASE o # r
    BY <1>2, <2>1 DEF CountInv, LoadedWithin
  <2>2. CASE o = r /\ ~req'[r].found /\ req'[r].count = 0
    BY <2>2
  <2>3. CASE /\ o = r /\ req'[r].session \in Sessions
             /\ req'[r].found = conv[req'[r].session].there
             /\ req'[r].count = conv[req'[r].session].count
    <3> DEFINE s == req'[r].session
    <3>1. /\ conv[s].count <= conv[s].messages /\ (~conv[s].there => conv[s].messages = 0)
          /\ conv[s].count \in Nat /\ conv[s].messages \in Nat
      BY <2>3 DEF CountInv, CountWithin, Gone, RowsInv, RowsOK, ConversationRecord
    <3> QED BY <2>3, <3>1
  <2> QED BY <1>2, <2>1, <2>2, <2>3
<1>3. LoadedWithin'
  BY <1>2 DEF LoadedWithin
<1> QED BY <1>1, <1>3 DEF CountInv

LEMMA CountAdds ==
    ASSUME CountInv, RowsInv', NEW r \in Requests, req[r].pc = "write", req[r].kind # "update",
           AddMessages(req[r]), Finish(r)
    PROVE  CountInv'
<1> DEFINE s == req[r].session
           n == conv[s].messages + req[r].messages
<1>1. req[r] \in RequestRecord /\ s \in Sessions /\ conv[s] \in ConversationRecord
  BY DEF CountInv, RowsInv, RowsOK, Named
<1>2. /\ req[r].count \in Nat /\ req[r].messages \in Nat
      /\ conv[s].messages \in Nat /\ n \in Nat /\ conv[s].messages <= n
  BY <1>1 DEF RequestRecord, ConversationRecord
<1>3. req[r].count <= conv[s].messages
  <2>1. CASE req[r].found
    BY <1>1, <2>1 DEF AddMessages, CountInv, LoadedWithin
  <2>2. CASE ~req[r].found
    BY <1>2, <2>2 DEF CountInv, LoadedWithin
  <2> QED BY <2>1, <2>2
<1>4. \A o \in Requests \ {r} : req'[o] = req[o]
  BY FinishType DEF CountInv
<1>5. req'[r].pc = "idle"
  BY FinishType DEF CountInv
<1>6. CASE UNCHANGED conv
  BY <1>4, <1>5, <1>6, CountLoads
<1>7. CASE conv' = [conv EXCEPT ![s] = [there |-> TRUE, messages |-> n, count |-> Counted(req[r]),
                                        aged |-> FALSE]]
  <2>1. conv'[s].there /\ conv'[s].messages = n /\ conv'[s].count = req[r].count + req[r].messages
    BY <1>1, <1>7 DEF CountInv, RowsInv, RowsOK, Counted
  <2>2. \A u \in Sessions \ {s} : conv'[u] = conv[u]
    BY <1>1, <1>7 DEF CountInv, RowsInv, RowsOK
  <2>3. conv'[s].count <= conv'[s].messages
    BY <1>2, <1>3, <2>1
  <2> HIDE DEF n
  <2>4. CountWithin' /\ Gone'
    BY <2>1, <2>2, <2>3 DEF CountInv, CountWithin, Gone
  <2>5. ASSUME NEW o \in Requests, req'[o].pc = "write"
        PROVE  /\ req'[o].session \in Sessions /\ req'[o].found /\ ~req'[o].lost =>
                      req'[o].count <= conv'[req'[o].session].messages
               /\ ~req'[o].found => req'[o].count = 0
    <3>1. o # r /\ req'[o] = req[o]
      BY <1>4, <1>5, <2>5
    <3>2. /\ req[o].session \in Sessions /\ req[o].found /\ ~req[o].lost =>
                req[o].count <= conv[req[o].session].messages
          /\ ~req[o].found => req[o].count = 0
      BY <2>5, <3>1 DEF CountInv, LoadedWithin
    <3>3. CASE req[o].session = s
      <4>1. req[o].count \in Nat
        BY DEF CountInv, RowsInv, RowsOK, RequestRecord
      <4> QED BY <1>2, <2>1, <3>1, <3>2, <3>3, <4>1
    <3>4. CASE req[o].session \in Sessions \ {s}
      BY <2>2, <3>1, <3>2, <3>4
    <3>5. CASE req[o].session \notin Sessions
      BY <3>1, <3>2, <3>5
    <3> QED BY <3>3, <3>4, <3>5
  <2>6. LoadedWithin'
    BY <2>5 DEF LoadedWithin
  <2> QED BY <2>4, <2>6 DEF CountInv
<1> QED BY <1>6, <1>7 DEF AddMessages

\* A deletion empties the rows and marks whoever has loaded one of them.
LEMMA CountDeletes ==
    ASSUME CountInv, RowsInv', NEW S \in SUBSET Sessions, DeleteAll(S)
    PROVE  CountInv'
<1>1. \A s \in Sessions : conv'[s] = IF s \in S THEN NoConversation ELSE conv[s]
  BY DEF DeleteAll
<1>2. CountWithin' /\ Gone'
  BY <1>1 DEF CountInv, CountWithin, Gone, NoConversation
<1>3. ASSUME NEW o \in Requests, req'[o].pc = "write"
      PROVE  /\ req'[o].session \in Sessions /\ req'[o].found /\ ~req'[o].lost =>
                    req'[o].count <= conv'[req'[o].session].messages
             /\ ~req'[o].found => req'[o].count = 0
  <2>1. req[o] \in RequestRecord
    BY DEF CountInv, RowsInv, RowsOK
  <2>2. \/ req'[o] = req[o] /\ ~(req[o].pc = "write" /\ req[o].session \in S)
        \/ req'[o] = [req[o] EXCEPT !.lost = TRUE]
    BY DEF DeleteAll
  <2>3. CASE req'[o] = req[o] /\ ~(req[o].pc = "write" /\ req[o].session \in S)
    BY <1>1, <1>3, <2>3 DEF CountInv, LoadedWithin
  <2>4. CASE req'[o] = [req[o] EXCEPT !.lost = TRUE]
    <3>1. /\ req'[o].lost /\ req'[o].found = req[o].found /\ req'[o].count = req[o].count
          /\ req'[o].pc = req[o].pc
      BY <2>1, <2>4 DEF RequestRecord
    <3> QED BY <1>3, <3>1 DEF CountInv, LoadedWithin
  <2> QED BY <2>2, <2>3, <2>4
<1>4. LoadedWithin'
  BY <1>3 DEF LoadedWithin
<1> QED BY <1>2, <1>4 DEF CountInv

LEMMA CountStep ==
    ASSUME CountInv, [Next]_vars
    PROVE  CountInv'
<1>0. RowsInv'
  BY RowsStep DEF CountInv
<1>1. ASSUME NEW r \in Requests, RequestStep(r) PROVE CountInv'
  <2>1. CASE RollBack(r) \/ Stream(r)
    <3>1. UNCHANGED conv
      BY <2>1 DEF RollBack, Stream
    <3>2. (\A o \in Requests \ {r} : req'[o] = req[o]) /\ req'[r].pc # "write"
      <4>1. CASE Finish(r)
        BY <4>1, FinishType DEF CountInv
      <4>2. CASE Goto(r, "persist")
        BY <4>2 DEF Goto, CountInv, RowsInv, RowsOK, RequestRecord
      <4> QED BY <2>1, <4>1, <4>2 DEF RollBack, Stream
    <3> QED BY <1>0, <3>1, <3>2, CountLoads
  <2>2. ASSUME NEW s \in Sessions, BeginTurn(r, s) PROVE CountInv'
    <3>1. UNCHANGED conv
      BY <2>2 DEF BeginTurn
    <3>2. PICK pc \in {"persist", "stream", "create"} :
              req' = [req EXCEPT ![r] = OfVisitor(pc, "turn", s, NoConversation, 2)]
      BY <2>2 DEF BeginTurn, Starts
    <3>3. (\A o \in Requests \ {r} : req'[o] = req[o]) /\ req'[r].pc # "write"
      BY <3>2 DEF CountInv, RowsInv, RowsOK, OfVisitor
    <3> QED BY <1>0, <3>1, <3>3, CountLoads
  <2>3. CASE CreateConversation(r)
    <3>1. (\A o \in Requests \ {r} : req'[o] = req[o]) /\ req'[r].pc # "write"
      <4>1. CASE Finish(r)
        BY <4>1, FinishType DEF CountInv
      <4>2. CASE Goto(r, "stream")
        BY <4>2 DEF Goto, CountInv, RowsInv, RowsOK, RequestRecord
      <4> QED BY <2>3, <4>1, <4>2 DEF CreateConversation
    <3>2. CASE UNCHANGED conv
      BY <1>0, <3>1, <3>2, CountLoads
    <3>3. CASE /\ ~conv[req[r].session].there
               /\ conv' = [conv EXCEPT ![req[r].session] =
                              [there |-> TRUE, messages |-> 0, count |-> 0, aged |-> FALSE]]
      <4> DEFINE s == req[r].session
      <4>1. s \in Sessions /\ conv[s].messages = 0
        BY <2>3, <3>3 DEF CreateConversation, CountInv, RowsInv, Named, Gone
      <4>2. /\ \A u \in Sessions : conv'[u].messages = conv[u].messages
            /\ \A u \in Sessions : conv'[u].count = conv[u].count \/ conv'[u].count = 0
            /\ \A u \in Sessions : conv[u].there => conv'[u].there
        BY <3>3, <4>1 DEF CountInv, RowsInv, RowsOK
      <4>3. \A u \in Sessions : conv[u].messages \in Nat
        BY DEF CountInv, RowsInv, RowsOK, ConversationRecord
      <4>4. CountWithin'
        BY <4>2, <4>3 DEF CountInv, CountWithin
      <4>5. Gone'
        BY <4>2 DEF CountInv, Gone
      <4>6. LoadedWithin'
        BY <3>1, <4>2 DEF CountInv, LoadedWithin
      <4> QED BY <1>0, <4>4, <4>5, <4>6 DEF CountInv
    <3> QED BY <2>3, <3>2, <3>3 DEF CreateConversation
  <2>4. CASE ReadConversation(r)
    <3>1. UNCHANGED conv /\ req[r].session \in Sessions
      BY <2>4 DEF ReadConversation, CountInv, RowsInv, Named
    <3>2. req' = [req EXCEPT ![r] =
                     OfVisitor("write", "turn", req[r].session, conv[req[r].session], 2)]
      BY <2>4 DEF ReadConversation
    <3>3. /\ \A o \in Requests \ {r} : req'[o] = req[o]
          /\ req'[r].session = req[r].session
          /\ req'[r].found = conv[req'[r].session].there
          /\ req'[r].count = conv[req'[r].session].count
      BY <3>2 DEF CountInv, RowsInv, RowsOK, OfVisitor
    <3> QED BY <1>0, <3>1, <3>3, CountLoads
  <2>5. ASSUME NEW s \in Sessions, BeginContact(r, s) PROVE CountInv'
    <3>1. UNCHANGED conv
      BY <2>5 DEF BeginContact
    <3>2. PICK n \in 0 .. 1 :
              req' = [req EXCEPT ![r] = OfVisitor("write", "contact", s, conv[s], n)]
      BY <2>5 DEF BeginContact, Starts
    <3>3. /\ \A o \in Requests \ {r} : req'[o] = req[o]
          /\ req'[r].session = s
          /\ req'[r].found = conv[req'[r].session].there
          /\ req'[r].count = conv[req'[r].session].count
      BY <3>2 DEF CountInv, RowsInv, RowsOK, OfVisitor
    <3> QED BY <1>0, <3>1, <3>3, CountLoads
  <2>6. CASE WriteTurn(r) \/ WriteContact(r) \/ WriteReply(r)
    <3>1. req[r].pc = "write" /\ req[r].kind # "update" /\ AddMessages(req[r]) /\ Finish(r)
      BY <2>6 DEF WriteTurn, WriteContact, WriteReply
    <3> QED BY <1>0, <3>1, CountAdds
  <2>7. ASSUME NEW t \in Tickets, BeginUpdate(r, t) PROVE CountInv'
    <3>1. UNCHANGED conv
      BY <2>7 DEF BeginUpdate
    <3>2. PICK ask \in Statuses \cup {"claim", Unchanged} :
              req' = [req EXCEPT ![r] = OfStaff("update", t, None, NoConversation, ask, 0)]
      BY <2>7 DEF BeginUpdate, Starts
    <3>3. (\A o \in Requests \ {r} : req'[o] = req[o]) /\ ~req'[r].found /\ req'[r].count = 0
      BY <3>2 DEF CountInv, RowsInv, RowsOK, OfStaff, NoConversation
    <3> QED BY <1>0, <3>1, <3>3, CountLoads
  <2>8. CASE WriteUpdate(r)
    <3>1. UNCHANGED conv /\ Finish(r)
      BY <2>8 DEF WriteUpdate
    <3>2. (\A o \in Requests \ {r} : req'[o] = req[o]) /\ req'[r].pc = "idle"
      BY <3>1, FinishType DEF CountInv
    <3> QED BY <1>0, <3>1, <3>2, CountLoads
  <2>9. ASSUME NEW t \in Tickets, BeginReply(r, t) PROVE CountInv'
    <3> DEFINE s == ticket[t].session
    <3>1. UNCHANGED conv /\ s \in Sessions
      BY <2>9 DEF BeginReply, CountInv, RowsInv, Named
    <3>2. req' = [req EXCEPT ![r] = OfStaff("reply", t, s, conv[s], Unchanged, 1)]
      BY <2>9 DEF BeginReply, Starts
    <3> HIDE DEF s
    <3>3. /\ \A o \in Requests \ {r} : req'[o] = req[o]
          /\ req'[r].session = s
          /\ req'[r].found = conv[req'[r].session].there
          /\ req'[r].count = conv[req'[r].session].count
      BY <3>2 DEF CountInv, RowsInv, RowsOK, OfStaff
    <3> QED BY <1>0, <3>1, <3>3, CountLoads
  <2> QED BY <1>1, <2>1, <2>2, <2>3, <2>4, <2>5, <2>6, <2>7, <2>8, <2>9
          DEF RequestStep, VisitorStep, StaffStep
<1>2. ASSUME UNCHANGED <<conv, req>> PROVE CountInv'
  BY <1>0, <1>2 DEF CountInv, CountWithin, Gone, LoadedWithin
<1>3. CASE SweepStep
  <2>1. CASE SweepStart \/ SweepSelect \/ SweepFail
    BY <1>2, <2>1 DEF SweepStart, SweepSelect, SweepFail
  <2>2. CASE SweepDelete
    <3>1. sweep.ids \in SUBSET Sessions /\ DeleteAll(sweep.ids)
      BY <2>2 DEF SweepDelete, CountInv, RowsInv, RowsOK, SweepRecord
    <3> QED BY <1>0, <3>1, CountDeletes
  <2> QED BY <1>3, <2>1, <2>2 DEF SweepStep
<1>4. ASSUME NEW s \in Sessions, DeleteConversation(s) PROVE CountInv'
  <2>1. DeleteAll({s}) /\ {s} \in SUBSET Sessions
    BY <1>4 DEF DeleteConversation
  <2> QED BY <1>0, <2>1, CountDeletes
<1>5. CASE Age
  <2>1. UNCHANGED req
    BY <1>5 DEF Age
  <2>2. PICK i \in 1 .. Len(order) : conv' = [conv EXCEPT ![order[i]].aged = TRUE]
    BY <1>5 DEF Age
  <2>3. \A u \in Sessions : /\ conv'[u].messages = conv[u].messages
                            /\ conv'[u].count = conv[u].count /\ conv'[u].there = conv[u].there
    BY <2>2 DEF CountInv, RowsInv, RowsOK, ConversationRecord
  <2>4. CountWithin' /\ Gone'
    BY <2>3 DEF CountInv, CountWithin, Gone
  <2>5. LoadedWithin'
    BY <2>1, <2>3 DEF CountInv, LoadedWithin
  <2> QED BY <1>0, <2>4, <2>5 DEF CountInv
<1>6. CASE UNCHANGED vars
  BY <1>2, <1>6 DEF vars
<1> QED BY <1>1, <1>3, <1>4, <1>5, <1>6 DEF Next

LEMMA CountInit == Init => CountInv
<1> SUFFICES ASSUME Init PROVE CountInv
  OBVIOUS
<1>1. CountWithin /\ Gone
  BY DEF Init, CountWithin, Gone, NoConversation
<1>2. LoadedWithin
  BY IdleType DEF Init, LoadedWithin
<1> QED BY <1>1, <1>2, RowsInit DEF CountInv

\* A transcript's recorded length never exceeds what it holds, whichever requests
\* overlap and whatever is deleted and begun again meanwhile (rag.py:204,
\* ticket.py:107, 254).
THEOREM CountNeverExceeds == Spec => []CountWithin
<1>1. CountInv => CountWithin
  BY DEF CountInv
<1> QED BY <1>1, CountInit, CountStep, PTL DEF Spec
-----------------------------------------------------------------------------
\* What a staff request that finds its ticket as it was loaded leaves of it.
LEMMA UpdateStamps ==
    ASSUME RowsInv, NEW r \in Requests, NEW t \in Tickets, WriteUpdate(r),
           req[r].ticket = t, req[r].loaded = ticket[t], StampRight(t)
    PROVE  StampRight(t)'
<1> DEFINE q == req[r]
<1>1. /\ t \in Tickets /\ q.loaded = ticket[t] /\ q \in RequestRecord
      /\ ticket[t] \in TicketRecord
  BY DEF WriteUpdate, RowsInv, RowsOK, Named
<1>2. ticket[t].status \in Statuses /\ (ticket[t].stamped <=> ticket[t].status = "resolved")
  BY <1>1 DEF WriteUpdate, Exists, StampRight
<1>3. ticket' = [ticket EXCEPT ![t] =
          [session |-> ticket[t].session,
           status |-> Flushed(NewStatus(q), q.loaded.status, ticket[t].status),
           stamped |-> Stamp(q, ticket[t])]]
  BY DEF WriteUpdate
<1>4. /\ ticket'[t].status = Flushed(NewStatus(q), q.loaded.status, ticket[t].status)
      /\ ticket'[t].stamped = Stamp(q, ticket[t])
  BY <1>1, <1>3 DEF RowsInv, RowsOK
<1>5. ticket'[t].status = NewStatus(q)
  BY <1>1, <1>4 DEF Flushed
<1>6. ticket'[t].stamped <=> ticket'[t].status = "resolved"
  <2> HIDE DEF q
  <2>1. CASE q.ask \in Statuses
    BY <1>1, <1>2, <1>4, <1>5, <2>1 DEF NewStatus, Stamp, Flushed, Statuses, TicketRecord
  <2>2. CASE q.ask \notin Statuses
    BY <1>1, <1>2, <1>4, <1>5, <2>2 DEF NewStatus, Stamp, Statuses
  <2> QED BY <2>1, <2>2
<1> QED BY <1>6 DEF StampRight

LEMMA ReplyStamps ==
    ASSUME RowsInv, NEW r \in Requests, NEW t \in Tickets, WriteReply(r),
           req[r].ticket = t, req[r].loaded = ticket[t], StampRight(t)
    PROVE  StampRight(t)'
<1>1. t \in Tickets /\ req[r].loaded = ticket[t] /\ ticket[t] \in TicketRecord
  BY DEF WriteReply, RowsInv, RowsOK, Named
<1>2. ticket[t].stamped <=> ticket[t].status = "resolved"
  BY <1>1 DEF WriteReply, StampRight
<1>3. ticket' = [ticket EXCEPT ![t].status =
          Flushed(TakesUp(req[r]), req[r].loaded.status, ticket[t].status)]
  BY DEF WriteReply
<1>4. /\ ticket'[t].status = Flushed(TakesUp(req[r]), req[r].loaded.status, ticket[t].status)
      /\ ticket'[t].stamped = ticket[t].stamped
  BY <1>1, <1>3 DEF RowsInv, RowsOK, TicketRecord
<1>5. ticket'[t].stamped <=> ticket'[t].status = "resolved"
  BY <1>1, <1>2, <1>4 DEF Flushed, TakesUp
<1> QED BY <1>5 DEF StampRight

\* A step that writes no such row leaves its stamp right.
LEMMA StampStep ==
    ASSUME RowsInv, [Next]_vars, NEW t \in Tickets, StampRight(t)
    PROVE  \/ StampRight(t)'
           \/ \E r \in Requests :
                /\ req[r].pc = "write" /\ req[r].ticket = t /\ req'[r].pc = "idle"
                /\ req[r].loaded # ticket[t]
<1> DEFINE Raced == \E r \in Requests :
                /\ req[r].pc = "write" /\ req[r].ticket = t /\ req'[r].pc = "idle"
                /\ req[r].loaded # ticket[t]
<1>0. ticket'[t] = ticket[t] => StampRight(t)'
  BY DEF StampRight, Exists
<1>1. ASSUME NEW r \in Requests, RequestStep(r) PROVE StampRight(t)' \/ Raced
  <2>1. CASE WriteContact(r)
    <3>1. PICK u \in Tickets : ticket' = [ticket EXCEPT
                 ![u] = [session |-> req[r].session, status |-> "open", stamped |-> FALSE]]
      BY <2>1 DEF WriteContact
    <3>2. CASE u = t
      <4>1. ticket'[t] = [session |-> req[r].session, status |-> "open", stamped |-> FALSE]
        BY <3>1, <3>2 DEF RowsInv, RowsOK
      <4> QED BY <4>1 DEF StampRight
    <3>3. CASE u # t
      BY <1>0, <3>1, <3>3 DEF RowsInv, RowsOK
    <3> QED BY <3>2, <3>3
  <2>2. CASE WriteUpdate(r) \/ WriteReply(r)
    <3>1. req[r].pc = "write" /\ Finish(r)
      BY <2>2 DEF WriteUpdate, WriteReply
    <3>2. req'[r].pc = "idle"
      BY <3>1, FinishType
    <3>3. CASE req[r].ticket # t
      <4>1. ticket'[t] = ticket[t]
        BY <2>2, <3>3 DEF WriteUpdate, WriteReply, RowsInv, RowsOK
      <4> QED BY <1>0, <4>1
    <3>4. CASE req[r].ticket = t /\ req[r].loaded = ticket[t]
      BY <2>2, <3>4, UpdateStamps, ReplyStamps
    <3>5. CASE req[r].ticket = t /\ req[r].loaded # ticket[t]
      BY <3>1, <3>2, <3>5
    <3> QED BY <3>3, <3>4, <3>5
  <2>3. CASE ~(WriteContact(r) \/ WriteUpdate(r) \/ WriteReply(r))
    <3>1. UNCHANGED ticket
      BY <1>1, <2>3 DEF RequestStep, VisitorStep, StaffStep, BeginTurn, CreateConversation,
         Stream, ReadConversation, WriteTurn, BeginContact, BeginUpdate, BeginReply, RollBack
    <3> QED BY <1>0, <3>1
  <2> QED BY <2>1, <2>2, <2>3
<1>2. ASSUME NEW S \in SUBSET Sessions, DeleteAll(S) PROVE StampRight(t)'
  <2>1. ticket[t] \in TicketRecord
    BY DEF RowsInv, RowsOK
  <2>2. ticket'[t] = ticket[t] \/ ticket'[t].status = "gone"
    BY <1>2, <2>1 DEF DeleteAll, TicketRecord
  <2> QED BY <1>0, <2>2 DEF StampRight, Exists, Statuses
<1>3. CASE SweepStep
  <2>1. CASE SweepStart \/ SweepSelect \/ SweepFail
    BY <1>0, <2>1 DEF SweepStart, SweepSelect, SweepFail
  <2>2. CASE SweepDelete
    <3>1. sweep.ids \in SUBSET Sessions /\ DeleteAll(sweep.ids)
      BY <2>2 DEF SweepDelete, RowsInv, RowsOK, SweepRecord
    <3> QED BY <1>2, <3>1
  <2> QED BY <1>3, <2>1, <2>2 DEF SweepStep
<1>4. ASSUME NEW s \in Sessions, DeleteConversation(s) PROVE StampRight(t)'
  BY <1>2, <1>4 DEF DeleteConversation
<1>5. CASE Age \/ UNCHANGED vars
  BY <1>0, <1>5 DEF Age, vars
<1> QED BY <1>1, <1>3, <1>4, <1>5 DEF Next

\* A ticket's resolution stamp ceases to describe its status only by an update or a
\* reply that another commit has overtaken (ticket.py:349-355), however many overlap.
THEOREM StampWrongInARaceHolds == Spec => StampWrongInARace
<1>1. RowsInv /\ [Next]_vars => RowsInv'
  BY RowsStep
<1>2. RowsInv /\ [Next]_vars
        => [\A t \in Tickets : StampRight(t) =>
              \/ StampRight(t)'
              \/ \E r \in Requests :
                    /\ req[r].pc = "write" /\ req[r].ticket = t /\ req'[r].pc = "idle"
                    /\ req[r].loaded # ticket[t]]_vars
  BY StampStep
<1> QED BY RowsInit, <1>1, <1>2, PTL DEF Spec, StampWrongInARace
-----------------------------------------------------------------------------
LEMMA Remembers ==
    ASSUME Next
    PROVE  Recorded
BY DEF Next, RequestStep, VisitorStep, StaffStep, SweepStep, BeginTurn, CreateConversation,
       Stream, ReadConversation, WriteTurn, BeginContact, WriteContact, BeginUpdate,
       WriteUpdate, BeginReply, WriteReply, RollBack, DeleteConversation, Age, SweepStart,
       SweepSelect, SweepDelete, SweepFail

\* What a sweep has selected, and nobody has written since, is expired until it
\* deletes it.
SweepInv ==
    /\ RowsInv
    /\ sweep.pc = "delete" => \A s \in sweep.ids \ renewed : conv[s].aged /\ ~Pinned(s)

LEMMA SweepKeeps ==
    ASSUME RowsInv, [Next]_vars, sweep'.pc = "delete"
    PROVE  SweepSelect \/ (sweep.pc = "delete" /\ sweep'.ids \subseteq sweep.ids)
<1>1. ASSUME NEW r \in Requests, RequestStep(r) PROVE UNCHANGED sweep
  BY <1>1 DEF RequestStep, VisitorStep, StaffStep, BeginTurn, CreateConversation, Stream,
              ReadConversation, WriteTurn, BeginContact, WriteContact, BeginUpdate,
              WriteUpdate, BeginReply, WriteReply, RollBack
<1>2. SweepStart \/ SweepDelete \/ SweepFail => sweep'.pc # "delete"
  <2>1. /\ NoSweep.pc = "off" /\ [NoSweep EXCEPT !.pc = "select"].pc = "select"
        /\ [NoSweep EXCEPT !.pc = "select", !.batch = sweep.batch + 1].pc = "select"
    BY DEF NoSweep
  <2>2. SweepStart \/ SweepDelete \/ SweepFail =>
          \/ sweep' = NoSweep \/ sweep' = [NoSweep EXCEPT !.pc = "select"]
          \/ sweep' = [NoSweep EXCEPT !.pc = "select", !.batch = sweep.batch + 1]
    BY Zenon DEF SweepStart, SweepDelete, SweepFail
  <2> QED BY <2>1, <2>2
<1>3. ASSUME NEW s \in Sessions, DeleteConversation(s)
      PROVE  sweep'.pc = sweep.pc /\ sweep'.ids \subseteq sweep.ids
  BY <1>3 DEF DeleteConversation, RowsInv, RowsOK, SweepRecord
<1>4. CASE Age \/ UNCHANGED vars
  BY <1>4 DEF Age, vars
<1> QED BY <1>1, <1>2, <1>3, <1>4 DEF Next, SweepStep

LEMMA SweepInvStep ==
    ASSUME SweepInv, [Next]_vars
    PROVE  SweepInv'
<1>0. RowsInv'
  BY RowsStep DEF SweepInv
<1>1. ASSUME sweep'.pc = "delete", NEW s \in sweep'.ids \ renewed'
      PROVE  conv'[s].aged /\ ~Pinned(s)'
  <2>1. CASE SweepSelect
    <3>1. UNCHANGED <<conv, ticket>> /\ sweep'.ids = Batch
      BY <1>1, <2>1 DEF SweepSelect, NoSweep
    <3> QED BY <3>1 DEF Batch, Expired, Pinned
  <2>2. CASE UNCHANGED vars
    BY <1>1, <2>2 DEF vars, SweepInv, Pinned
  <2>3. CASE ~SweepSelect /\ Next
    <3>1. sweep.pc = "delete" /\ s \in sweep.ids
      BY <1>1, <2>3, SweepKeeps DEF SweepInv
    <3>2. /\ s \notin renewed /\ conv'[s] = conv[s]
          /\ \A t \in Tickets : ticket'[t].session = s => ticket'[t] = ticket[t]
      BY <1>1, <2>3, <3>1, Remembers DEF Recorded
    <3>3. conv[s].aged /\ ~Pinned(s)
      BY <3>1, <3>2 DEF SweepInv
    <3> QED BY <3>2, <3>3 DEF Pinned
  <2> QED BY <2>1, <2>2, <2>3
<1> QED BY <1>0, <1>1 DEF SweepInv

\* What a sweep's deletion takes was selected.
LEMMA SweepTakes ==
    ASSUME SweepInv, [Next]_vars, NEW s \in Sessions, Swept(s), s \notin renewed
    PROVE  conv[s].aged /\ ~Pinned(s)
<1>1. CASE SweepDelete
  BY <1>1 DEF SweepDelete, DeleteAll, Swept, SweepInv
<1>2. CASE SweepStart \/ SweepSelect \/ SweepFail
  BY <1>2 DEF SweepStart, SweepSelect, SweepFail, Swept
<1>3. ASSUME NEW r \in Requests, RequestStep(r) PROVE FALSE
  <2>1. UNCHANGED sweep
    BY <1>3 DEF RequestStep, VisitorStep, StaffStep, BeginTurn, CreateConversation, Stream,
                ReadConversation, WriteTurn, BeginContact, WriteContact, BeginUpdate,
                WriteUpdate, BeginReply, WriteReply, RollBack
  <2> QED BY <2>1 DEF Swept
<1>4. ASSUME NEW d \in Sessions, DeleteConversation(d) PROVE FALSE
  BY <1>4 DEF DeleteConversation, SweepInv, RowsInv, RowsOK, SweepRecord, Swept
<1>5. CASE Age \/ UNCHANGED vars
  BY <1>5 DEF Age, vars, Swept
<1> QED BY <1>1, <1>2, <1>3, <1>4, <1>5 DEF Next, SweepStep

\* However requests fall into its batches, the sweep takes a transcript that an
\* unresolved ticket holds, or that was added to since the cutoff, only when that was
\* written between its selection and its deletion (README.md:525-526, 541).
THEOREM SweepTakesHeldInARaceHolds == Spec => SweepTakesHeldInARace
<1>1. Init => SweepInv
  BY RowsInit DEF SweepInv, Init, NoSweep
<1>2. SweepInv /\ [Next]_vars => SweepInv'
  BY SweepInvStep
<1>3. SweepInv /\ [Next]_vars =>
        [\A s \in Sessions : Swept(s) /\ s \notin renewed =>
           /\ conv[s].aged
           /\ \A t \in Tickets :
                 ticket[t].session = s => ticket[t].status \notin {"open", "pending"}]_vars
  BY SweepTakes DEF Pinned, Unresolved
<1> QED BY <1>1, <1>2, <1>3, PTL DEF Spec, SweepTakesHeldInARace, IdleAndSettled

-----------------------------------------------------------------------------
(* VisitorMemory: what the extraction lock, the ceiling and the erasure    *)
(* guarantee about a visitor's notes.                                      *)

-----------------------------------------------------------------------------
(***************************************************************************)
(* The notes are finitely many.                                            *)
(***************************************************************************)
LEMMA NotesFinite == IsFiniteSet(Notes)
<1>1. IsFiniteSet(Facts) /\ IsFiniteSet(Copies)
  BY NotesConstants, FS_Interval DEF Copies
<1> QED BY <1>1, FS_Product DEF Notes

LEMMA SomeNotes ==
    ASSUME NEW N, N \subseteq Notes
    PROVE  IsFiniteSet(N) /\ Cardinality(N) \in Nat
BY NotesFinite, FS_Subset, FS_CardinalityType

LEMMA FewerNotes ==
    ASSUME NEW N, NEW M, M \subseteq Notes, N \subseteq M
    PROVE  Cardinality(N) <= Cardinality(M)
BY SomeNotes, FS_Subset

LEMMA PunctualNotes == Punctual \subseteq There /\ There \subseteq Notes
BY DEF Punctual, There

\* What a run writes down is finite, too.
LEMMA RowsFinite ==
    ASSUME NotesTypeOK, NEW w \in Workers
    PROVE  IsFiniteSet(run[w].ins) /\ Cardinality(run[w].ins) \in Nat
<1>1. run[w].ins \subseteq Facts
  BY DEF NotesTypeOK, RunRecord
<1> QED BY <1>1, NotesConstants, FS_Subset, FS_CardinalityType
-----------------------------------------------------------------------------
(***************************************************************************)
(* What the steps of a run do to the runs and the locks.                   *)
(***************************************************************************)
OthersRunOn(w) == \A v \in Workers \ {w} : run'[v] = run[v]

LEMMA RunFields ==
    ASSUME NotesTypeOK, NEW w \in Workers
    PROVE  /\ run[w].pc \in {"idle", "model", "store"} /\ run[w].conv \in 0 .. MaxTranscripts
           /\ run[w].late \in BOOLEAN /\ run[w].left \in 0 .. MaxProposed
           /\ run[w].held \in Nat /\ run[w].ins \subseteq Facts
           /\ run[w] = [pc |-> run[w].pc, conv |-> run[w].conv, late |-> run[w].late,
                        left |-> run[w].left, held |-> run[w].held, ins |-> run[w].ins]
BY DEF NotesTypeOK, RunRecord

LEMMA BeginFacts ==
    ASSUME NotesTypeOK, NEW w \in Workers, NEW c \in Transcripts, BeginExtraction(w, c)
    PROVE  /\ run' \in [Workers -> RunRecord] /\ lock' \in [Transcripts -> Workers \cup {Free, Dead}]
           /\ OthersRunOn(w)
           /\ run'[w] = [pc |-> "model", conv |-> c, late |-> FALSE, left |-> 0,
                         held |-> 0, ins |-> {}]
           /\ lock[c] = Free /\ lock'[c] = w
           /\ \A d \in Transcripts \ {c} : lock'[d] = lock[d]
<1>1. 0 \in 0 .. MaxProposed /\ c \in 0 .. MaxTranscripts
  BY NotesConstants DEF Transcripts
<1>2. [pc |-> "model", conv |-> c, late |-> FALSE, left |-> 0, held |-> 0, ins |-> {}] \in RunRecord
  BY <1>1 DEF RunRecord
<1> QED BY <1>2 DEF BeginExtraction, Acquires, NotesTypeOK, OthersRunOn

\* A run that ends, commits or is lost leaves only a lock of its own.
LEMMA EndFacts ==
    ASSUME NotesTypeOK, NEW w \in Workers, run[w].conv \in Transcripts, EndRun(w) \/ WorkerLost(w)
    PROVE  /\ run' \in [Workers -> RunRecord] /\ lock' \in [Transcripts -> Workers \cup {Free, Dead}]
           /\ OthersRunOn(w) /\ run'[w] = IdleRun
           /\ \A d \in Transcripts : lock[d] # w => lock'[d] = lock[d]
<1>1. 0 \in 0 .. MaxProposed /\ 0 \in 0 .. MaxTranscripts
  BY NotesConstants
<1>2. IdleRun \in RunRecord
  BY <1>1 DEF RunRecord, IdleRun
<1>3. run' = [run EXCEPT ![w] = IdleRun]
  BY DEF EndRun, WorkerLost
<1>4. run' \in [Workers -> RunRecord] /\ OthersRunOn(w) /\ run'[w] = IdleRun
  BY <1>2, <1>3 DEF NotesTypeOK, OthersRunOn
<1>5. CASE EndRun(w)
  BY <1>4, <1>5 DEF EndRun, Released, NotesTypeOK
<1>6. CASE WorkerLost(w)
  BY <1>4, <1>6 DEF WorkerLost, NotesTypeOK
<1> QED BY <1>5, <1>6

\* A run that goes on keeps its transcript, its lock and what it knows of it.
GoesOn(w) ==
    /\ run' \in [Workers -> RunRecord]
    /\ OthersRunOn(w)
    /\ run[w].pc \in {"model", "store"} /\ run'[w].pc = "store"
    /\ run'[w].conv = run[w].conv /\ run'[w].late = run[w].late

LEMMA ProposeFacts ==
    ASSUME NotesTypeOK, NEW w \in Workers, Propose(w)
    PROVE  /\ GoesOn(w) /\ run[w].pc = "model"
           /\ run'[w].held = Cardinality(There) /\ run'[w].ins = run[w].ins
<1>1. PICK k \in 1 .. MaxProposed :
         run' = [run EXCEPT ![w].pc = "store", ![w].left = k, ![w].held = Cardinality(There)]
  BY DEF Propose
<1> DEFINE n == Cardinality(There)
           r == [run[w] EXCEPT !.pc = "store", !.left = k, !.held = n]
<1>2. n \in Nat /\ k \in 0 .. MaxProposed
  BY NotesConstants, PunctualNotes, SomeNotes
<1>3. run' = [run EXCEPT ![w] = r]
  BY <1>1
<1> HIDE DEF n
<1>4. /\ r \in RunRecord /\ r.pc = "store" /\ r.conv = run[w].conv
      /\ r.late = run[w].late /\ r.held = n /\ r.ins = run[w].ins
  BY <1>2 DEF NotesTypeOK, RunRecord
<1> HIDE DEF r
<1>5. run' \in [Workers -> RunRecord] /\ OthersRunOn(w) /\ run'[w] = r
  BY <1>3, <1>4 DEF NotesTypeOK, OthersRunOn
<1> QED BY <1>4, <1>5 DEF Propose, GoesOn, n

LEMMA StoreNewFacts ==
    ASSUME NotesTypeOK, NEW w \in Workers, NEW f \in Facts, run[w].pc = "store", run[w].left > 0,
           run' = [run EXCEPT ![w].left = @ - 1, ![w].ins = @ \cup {f}, ![w].held = @ + 1]
    PROVE  /\ GoesOn(w)
           /\ run'[w].held = run[w].held + 1 /\ run'[w].ins = run[w].ins \cup {f}
<1> DEFINE r == [run[w] EXCEPT !.left = @ - 1, !.ins = @ \cup {f}, !.held = @ + 1]
<1>1. run' = [run EXCEPT ![w] = r]
  OBVIOUS
<1>2. run[w].left - 1 \in 0 .. MaxProposed /\ run[w].held + 1 \in Nat
  <2>1. run[w].left \in 0 .. MaxProposed /\ run[w].held \in Nat /\ MaxProposed \in Nat
    BY RunFields, NotesConstants
  <2> QED BY <2>1
<1>3. /\ r \in RunRecord /\ r.pc = run[w].pc /\ r.conv = run[w].conv /\ r.late = run[w].late
      /\ r.held = run[w].held + 1 /\ r.ins = run[w].ins \cup {f}
  BY <1>2 DEF NotesTypeOK, RunRecord
<1> HIDE DEF r
<1>4. run' \in [Workers -> RunRecord] /\ OthersRunOn(w) /\ run'[w] = r
  BY <1>1, <1>3 DEF NotesTypeOK, OthersRunOn
<1> QED BY <1>3, <1>4 DEF GoesOn

\* A proposal that is not inserted.
LEMMA PassedOverFacts ==
    ASSUME NotesTypeOK, NEW w \in Workers, StoreFull(w) \/ StoreKnown(w)
    PROVE  /\ GoesOn(w) /\ run[w].pc = "store"
           /\ run'[w].held = run[w].held /\ run'[w].ins = run[w].ins
<1>1. PICK k \in 0 .. MaxProposed : run' = [run EXCEPT ![w].left = k]
  <2>1. run[w].left \in 0 .. MaxProposed /\ MaxProposed \in Nat
    BY RunFields, NotesConstants
  <2>2. 0 \in 0 .. MaxProposed /\ (run[w].left > 0 => run[w].left - 1 \in 0 .. MaxProposed)
    BY <2>1
  <2> QED BY <2>2 DEF StoreFull, StoreKnown
<1> DEFINE r == [run[w] EXCEPT !.left = k]
<1>2. run' = [run EXCEPT ![w] = r]
  BY <1>1
<1>3. /\ r \in RunRecord /\ r.pc = run[w].pc /\ r.conv = run[w].conv /\ r.late = run[w].late
      /\ r.held = run[w].held /\ r.ins = run[w].ins
  BY DEF NotesTypeOK, RunRecord
<1> HIDE DEF r
<1>4. run' \in [Workers -> RunRecord] /\ OthersRunOn(w) /\ run'[w] = r
  BY <1>2, <1>3 DEF NotesTypeOK, OthersRunOn
<1> QED BY <1>3, <1>4 DEF StoreFull, StoreKnown, GoesOn

\* When a lock expires its holder is late, and nothing else about a run changes.
LEMMA ExpiryFacts ==
    ASSUME NotesTypeOK, NEW c \in Transcripts, LockExpires(c)
    PROVE  /\ run' \in [Workers -> RunRecord] /\ lock' \in [Transcripts -> Workers \cup {Free, Dead}]
           /\ \A d \in Transcripts \ {c} : lock'[d] = lock[d]
           /\ \A w \in Workers :
                 /\ run'[w].pc = run[w].pc /\ run'[w].conv = run[w].conv
                 /\ run'[w].held = run[w].held /\ run'[w].ins = run[w].ins
                 /\ run[w].late => run'[w].late
                 /\ lock[c] = w => run'[w].late
<1>1. lock' \in [Transcripts -> Workers \cup {Free, Dead}]
      /\ \A d \in Transcripts \ {c} : lock'[d] = lock[d]
  BY DEF LockExpires, NotesTypeOK
<1>2. ASSUME NEW w \in Workers
      PROVE  /\ run'[w] \in RunRecord
             /\ run'[w].pc = run[w].pc /\ run'[w].conv = run[w].conv
             /\ run'[w].held = run[w].held /\ run'[w].ins = run[w].ins
             /\ run[w].late => run'[w].late
             /\ lock[c] = w => run'[w].late
  <2>1. run'[w] = IF lock[c] = w THEN [run[w] EXCEPT !.late = TRUE] ELSE run[w]
    BY DEF LockExpires
  <2> QED BY <2>1 DEF NotesTypeOK, RunRecord
<1>3. run' \in [Workers -> RunRecord]
  BY <1>2 DEF LockExpires
<1> QED BY <1>1, <1>2, <1>3
-----------------------------------------------------------------------------
(***************************************************************************)
(* The steps of a run, by what they come to.                               *)
(***************************************************************************)
Begins(w) ==
    /\ UNCHANGED note
    /\ \E c \in asked :
          /\ run'[w] = [pc |-> "model", conv |-> c, late |-> FALSE, left |-> 0,
                        held |-> 0, ins |-> {}]
          /\ lock[c] = Free /\ lock'[c] = w
          /\ \A d \in Transcripts \ {c} : lock'[d] = lock[d]

\* The run is over, with or without rows of its own.
Ends(w) ==
    /\ run'[w] = IdleRun
    /\ \A d \in Transcripts : lock[d] # w => lock'[d] = lock[d]

WritesAt(w, at) ==
    /\ \A f \in run[w].ins : ~note[f][at[f]].there
    /\ \A f \in Facts, i \in Copies :
          note'[f][i] = IF f \in run[w].ins /\ at[f] = i THEN Stored(w) ELSE note[f][i]

Counts(w) ==
    run[w].pc = "model" /\ run'[w].held = Cardinality(There) /\ run'[w].ins = run[w].ins

PassesOver(w) ==
    run[w].pc = "store" /\ run'[w].held = run[w].held /\ run'[w].ins = run[w].ins

Inserts(w) ==
    /\ run[w].pc = "store" /\ ~Full(w) /\ SourceThere(w)
    /\ \E f \in Facts \ Known :
          /\ f \notin run[w].ins
          /\ run'[w].held = run[w].held + 1 /\ run'[w].ins = run[w].ins \cup {f}

LEMMA RunStepFacts ==
    ASSUME NotesTypeOK, TranscriptsInOrder, NEW w \in Workers, RunStep(w)
    PROVE  /\ run' \in [Workers -> RunRecord] /\ lock' \in [Transcripts -> Workers \cup {Free, Dead}]
           /\ note' \in [Facts -> [Copies -> NoteRecord]]
           /\ UNCHANGED <<transcript, born, erased, ticketState, asked, erasure>>
           /\ OthersRunOn(w)
           /\ \/ Begins(w)
              \/ Ends(w) /\ UNCHANGED note
              \/ Ends(w) /\ \E at \in [run[w].ins -> Copies] : WritesAt(w, at)
              \/ GoesOn(w) /\ (Counts(w) \/ PassesOver(w) \/ Inserts(w)) /\ UNCHANGED <<note, lock>>
<1>1. ASSUME NEW c \in Transcripts, BeginExtraction(w, c) PROVE Begins(w)
  <2>1. c \in asked /\ UNCHANGED note
    BY <1>1 DEF BeginExtraction
  <2> QED BY <1>1, <2>1, BeginFacts DEF Begins
<1>2. ASSUME run[w].pc # "idle" PROVE run[w].conv \in Transcripts
  <2>1. run[w].conv \in 1 .. born /\ born \in 0 .. MaxTranscripts /\ MaxTranscripts \in Nat
    BY <1>2, NotesConstants DEF TranscriptsInOrder, NotesTypeOK
  <2> QED BY <2>1 DEF Transcripts
<1>3. CASE \E c \in Transcripts : BeginExtraction(w, c)
  <2>1. PICK c \in Transcripts : BeginExtraction(w, c)
    BY <1>3
  <2>2. UNCHANGED <<transcript, born, erased, ticketState, note, asked, erasure>>
    BY <2>1 DEF BeginExtraction
  <2> QED BY <1>1, <2>1, <2>2, BeginFacts DEF NotesTypeOK
<1>4. CASE Propose(w)
  <2>1. UNCHANGED <<transcript, born, erased, ticketState, note, asked, lock, erasure>>
    BY <1>4 DEF Propose
  <2> QED BY <1>4, <2>1, ProposeFacts DEF Counts, GoesOn, NotesTypeOK
<1>5. CASE GiveUp(w)
  <2>1. /\ UNCHANGED <<transcript, born, erased, ticketState, note, asked, erasure>>
        /\ run[w].pc # "idle" /\ EndRun(w)
    BY <1>5 DEF GiveUp
  <2> QED BY <1>2, <2>1, EndFacts DEF Ends, NotesTypeOK
<1>6. CASE StoreFull(w) \/ StoreKnown(w)
  <2>1. UNCHANGED <<transcript, born, erased, ticketState, note, asked, lock, erasure>>
    BY <1>6 DEF StoreFull, StoreKnown
  <2> QED BY <1>6, <2>1, PassedOverFacts DEF PassesOver, GoesOn, NotesTypeOK
<1>7. CASE StoreNew(w)
  <2>1. /\ UNCHANGED <<transcript, born, erased, ticketState, note, asked, lock, erasure>>
        /\ run[w].pc = "store" /\ run[w].left > 0 /\ ~Full(w) /\ SourceThere(w)
    BY <1>7 DEF StoreNew
  <2>2. PICK f \in Facts :
           /\ ~NearestIs(w, f)
           /\ run' = [run EXCEPT ![w].left = @ - 1, ![w].ins = @ \cup {f}, ![w].held = @ + 1]
    BY <1>7 DEF StoreNew
  <2>3. GoesOn(w) /\ run'[w].held = run[w].held + 1 /\ run'[w].ins = run[w].ins \cup {f}
    BY <2>1, <2>2, StoreNewFacts
  <2>4. Inserts(w)
    BY <2>1, <2>2, <2>3 DEF Inserts, NearestIs
  <2> QED BY <2>1, <2>3, <2>4 DEF GoesOn, NotesTypeOK
<1>8. CASE StoreCommit(w)
  <2>1. /\ UNCHANGED <<transcript, born, erased, ticketState, asked, erasure>>
        /\ run[w].pc = "store" /\ EndRun(w)
    BY <1>8 DEF StoreCommit
  <2>2. PICK at \in [run[w].ins -> Copies] :
          /\ \A f \in run[w].ins :
                ~note[f][at[f]].there /\ \A i \in 1 .. (at[f] - 1) : note[f][i].there
          /\ note' = [f \in Facts |-> [i \in Copies |->
                IF f \in run[w].ins /\ at[f] = i THEN Stored(w) ELSE note[f][i]]]
    BY <1>8 DEF StoreCommit
  <2>3. Stored(w) \in NoteRecord
    <3>1. run[w].conv \in 0 .. MaxTranscripts /\ run[w].late \in BOOLEAN
      BY RunFields
    <3>2. (erasure.busy /\ erasure.conv = run[w].conv) \in BOOLEAN
      OBVIOUS
    <3> QED BY <3>1, <3>2 DEF Stored, NoteRecord
  <2>4. note' \in [Facts -> [Copies -> NoteRecord]]
    BY <2>2, <2>3 DEF NotesTypeOK
  <2>5. WritesAt(w, at)
    BY <2>2 DEF WritesAt
  <2> QED BY <1>2, <2>1, <2>4, <2>5, EndFacts DEF Ends, NotesTypeOK
<1>9. CASE WorkerLost(w)
  <2>1. /\ UNCHANGED <<transcript, born, erased, ticketState, note, asked, erasure>>
        /\ run[w].pc # "idle"
    BY <1>9 DEF WorkerLost
  <2> QED BY <1>2, <1>9, <2>1, EndFacts DEF Ends, NotesTypeOK
<1> QED BY <1>3, <1>4, <1>5, <1>6, <1>7, <1>8, <1>9 DEF RunStep
-----------------------------------------------------------------------------
(***************************************************************************)
(* What the statements that take notes away leave.                         *)
(***************************************************************************)
LEMMA WithoutFacts ==
    ASSUME NotesTypeOK, NEW N, note' = Without(N)
    PROVE  /\ note' \in [Facts -> [Copies -> NoteRecord]]
           /\ \A f \in Facts, i \in Copies :
                 note'[f][i] = IF <<f, i>> \in N THEN NoNote ELSE note[f][i]
<1>1. NoNote \in NoteRecord
  BY NotesConstants DEF NoNote, NoteRecord
<1> QED BY <1>1 DEF Without, NotesTypeOK

\* No step but a commit adds a note or changes one.
OnlyTaken == \A f \in Facts, i \in Copies : note'[f][i] \in {note[f][i], NoNote}

LEMMA TakenNotes ==
    ASSUME OnlyTaken
    PROVE  /\ There' \subseteq There /\ Punctual' \subseteq Punctual
           /\ \A f \in Facts, i \in Copies :
                 note'[f][i].there => note[f][i].there /\ note'[f][i] = note[f][i]
<1>1. ASSUME NEW f \in Facts, NEW i \in Copies, note'[f][i].there
      PROVE  note[f][i].there /\ note'[f][i] = note[f][i]
  BY <1>1 DEF OnlyTaken, NoNote
<1> QED BY <1>1 DEF There, Punctual, Notes

LEMMA WithoutTakes ==
    ASSUME NotesTypeOK, NEW N, note' = Without(N)
    PROVE  OnlyTaken /\ There' = There \ N
<1>1. \A f \in Facts, i \in Copies : ~NoNote.there
  BY DEF NoNote
<1>2. OnlyTaken
  BY WithoutFacts DEF OnlyTaken
<1>3. ASSUME NEW f \in Facts, NEW i \in Copies
      PROVE  note'[f][i].there <=> note[f][i].there /\ <<f, i>> \notin N
  BY <1>1, WithoutFacts DEF NotesTypeOK, NoteRecord
<1>4. ASSUME NEW n \in Notes PROVE n \in There' <=> n \in There /\ n \notin N
  <2>1. n[1] \in Facts /\ n[2] \in Copies /\ n = <<n[1], n[2]>>
    BY DEF Notes
  <2>2. (n \in There <=> note[n[1]][n[2]].there) /\ (n \in There' <=> note'[n[1]][n[2]].there)
    BY DEF There
  <2> QED BY <1>3, <2>1, <2>2
<1>5. There \subseteq Notes /\ There' \subseteq Notes
  BY DEF There
<1> QED BY <1>2, <1>4, <1>5

LEMMA TypeStep ==
    ASSUME NotesTypeOK, TranscriptsInOrder, [NotesNext]_notesVars
    PROVE  NotesTypeOK'
<1>1. ASSUME Ensured PROVE transcript' \in 0 .. MaxTranscripts /\ born' \in 0 .. MaxTranscripts
  <2>1. transcript \in 0 .. MaxTranscripts /\ born \in 0 .. MaxTranscripts /\ MaxTranscripts \in Nat
    BY NotesConstants DEF NotesTypeOK
  <2> QED BY <1>1, <2>1 DEF Ensured
<1>2. CASE Turn
  <2>1. UNCHANGED <<erased, ticketState, note, lock, run, erasure>> /\ Ensured
    BY <1>2 DEF Turn
  <2>2. asked' \subseteq Transcripts
    <3>1. transcript \in 0 .. MaxTranscripts /\ (ticketState # "none" => transcript # 0)
      BY DEF NotesTypeOK, TranscriptsInOrder
    <3>2. asked' = asked \/ (ticketState # "none" /\ asked' = asked \cup {transcript})
      BY <1>2 DEF Turn
    <3>3. MaxTranscripts \in Nat /\ asked \subseteq Transcripts
      BY NotesConstants DEF NotesTypeOK
    <3>4. ticketState # "none" => transcript \in 1 .. MaxTranscripts
      BY <3>1, <3>3
    <3> QED BY <3>2, <3>3, <3>4 DEF Transcripts
  <2> QED BY <1>1, <2>1, <2>2 DEF NotesTypeOK
<1>3. CASE OpenTicket
  <2>1. UNCHANGED <<erased, note, asked, lock, run, erasure>> /\ Ensured /\ ticketState' = "unresolved"
    BY <1>3 DEF OpenTicket
  <2>2. transcript' \in 0 .. MaxTranscripts /\ born' \in 0 .. MaxTranscripts
    BY <1>1, <2>1
  <2> QED BY <2>1, <2>2 DEF NotesTypeOK
<1>4. CASE UpdateTicket
  BY <1>4 DEF UpdateTicket, NotesTypeOK
<1>5. ASSUME NEW w \in Workers, RunStep(w) PROVE NotesTypeOK'
  <2>1. /\ run' \in [Workers -> RunRecord] /\ lock' \in [Transcripts -> Workers \cup {Free, Dead}]
        /\ note' \in [Facts -> [Copies -> NoteRecord]]
        /\ UNCHANGED <<transcript, born, erased, ticketState, asked, erasure>>
    BY <1>5, RunStepFacts
  <2> QED BY <2>1 DEF NotesTypeOK
<1>6. ASSUME NEW c \in Transcripts, LockExpires(c) PROVE NotesTypeOK'
  <2>1. UNCHANGED <<transcript, born, erased, ticketState, note, asked, erasure>>
    BY <1>6 DEF LockExpires
  <2> QED BY <1>6, <2>1, ExpiryFacts DEF NotesTypeOK
<1>7. CASE DeleteNotes
  <2>1. There \subseteq Notes
    BY PunctualNotes
  <2> QED BY <1>7, <2>1 DEF DeleteNotes, NotesTypeOK
<1>8. NoErasure \in [busy : BOOLEAN, conv : 0 .. MaxTranscripts, doomed : SUBSET Notes]
  BY NotesConstants DEF NoErasure
<1>9. CASE DeleteTranscript
  <2>1. note' \in [Facts -> [Copies -> NoteRecord]]
    BY <1>9, WithoutFacts DEF DeleteTranscript
  <2>2. erased' \subseteq Transcripts
    <3>1. erasure.conv \in 1 .. born /\ born \in 0 .. MaxTranscripts /\ MaxTranscripts \in Nat
      BY <1>9, NotesConstants DEF DeleteTranscript, TranscriptsInOrder, NotesTypeOK
    <3>2. erasure.conv \in Transcripts /\ erased' = erased \cup {erasure.conv}
      BY <1>9, <3>1 DEF DeleteTranscript, Transcripts
    <3> QED BY <3>2 DEF NotesTypeOK
  <2>3. transcript' \in 0 .. MaxTranscripts /\ ticketState' \in {"none", "unresolved", "settled"}
    BY <1>9, NotesConstants DEF DeleteTranscript, NotesTypeOK
  <2>4. erasure' = NoErasure /\ UNCHANGED <<born, asked, lock, run>>
    BY <1>9 DEF DeleteTranscript
  <2> QED BY <1>8, <2>1, <2>2, <2>3, <2>4 DEF NotesTypeOK
<1>10. CASE DeleteFails
  BY <1>8, <1>10 DEF DeleteFails, NotesTypeOK
<1>11. CASE Forget
  <2>1. UNCHANGED <<transcript, born, erased, ticketState, asked, lock, run, erasure>>
    BY <1>11 DEF Forget
  <2> QED BY <1>11, <2>1, WithoutFacts DEF Forget, NotesTypeOK
<1>12. CASE TranscriptSwept
  BY <1>12, NotesConstants DEF TranscriptSwept, NotesTypeOK
<1>13. CASE Sweep
  <2>1. UNCHANGED <<transcript, born, erased, ticketState, asked, lock, run, erasure>>
    BY <1>13 DEF Sweep
  <2>2. PICK N : note' = Without(N)
    BY <1>13 DEF Sweep
  <2> QED BY <2>1, <2>2, WithoutFacts DEF NotesTypeOK
<1>14. CASE UNCHANGED notesVars
  BY <1>14 DEF notesVars, NotesTypeOK
<1> QED BY <1>2, <1>3, <1>4, <1>5, <1>6, <1>7, <1>9, <1>10, <1>11, <1>12, <1>13, <1>14 DEF NotesNext
-----------------------------------------------------------------------------
(***************************************************************************)
(* Transcripts, sources and locks.                                         *)
(***************************************************************************)
LEMMA Numbers ==
    ASSUME NotesTypeOK
    PROVE  transcript \in 0 .. MaxTranscripts /\ born \in 0 .. MaxTranscripts /\ MaxTranscripts \in Nat
BY NotesConstants DEF NotesTypeOK

LEMMA OrderStep ==
    ASSUME NotesTypeOK, TranscriptsInOrder, [NotesNext]_notesVars
    PROVE  TranscriptsInOrder'
<1> USE DEF TranscriptsInOrder
<1>1. ASSUME Ensured, UNCHANGED <<erased, run, erasure>>,
             asked' \subseteq asked \cup {transcript}, asked' # asked => transcript # 0
      PROVE  TranscriptsInOrder'
  <2>1. CASE UNCHANGED <<transcript, born>> /\ transcript # 0
    BY <1>1, <2>1, Numbers
  <2>2. CASE transcript = 0 /\ born' = born + 1 /\ transcript' = born + 1
    <3>1. 1 .. born \subseteq 1 .. born' /\ transcript' \notin 1 .. born /\ transcript' # 0
      BY <2>2, Numbers
    <3>2. asked' = asked /\ erased' = erased /\ run' = run /\ erasure' = erasure
      BY <1>1, <2>2
    <3> QED BY <2>2, <3>1, <3>2
  <2> QED BY <1>1, <2>1, <2>2 DEF Ensured
<1>2. CASE Turn
  BY <1>1, <1>2 DEF Turn
<1>3. CASE OpenTicket
  BY <1>1, <1>3 DEF OpenTicket
<1>4. CASE UpdateTicket
  BY <1>4 DEF UpdateTicket
<1>5. ASSUME NEW w \in Workers, RunStep(w) PROVE TranscriptsInOrder'
  <2>1. UNCHANGED <<transcript, born, erased, ticketState, asked, erasure>> /\ OthersRunOn(w)
    BY <1>5, RunStepFacts
  <2>2. run'[w].pc # "idle" => run'[w].conv \in 1 .. born
    <3>1. CASE Begins(w)
      BY <3>1 DEF Begins
    <3>2. CASE Ends(w)
      BY <3>2 DEF Ends, IdleRun
    <3>3. CASE GoesOn(w)
      BY <3>3 DEF GoesOn
    <3> QED BY <1>5, <3>1, <3>2, <3>3, RunStepFacts
  <2> QED BY <2>1, <2>2 DEF OthersRunOn
<1>6. ASSUME NEW c \in Transcripts, LockExpires(c) PROVE TranscriptsInOrder'
  <2>1. UNCHANGED <<transcript, born, erased, ticketState, note, asked, erasure>>
    BY <1>6 DEF LockExpires
  <2> QED BY <1>6, <2>1, ExpiryFacts
<1>7. CASE DeleteNotes
  <2>1. transcript \in 1 .. born
    BY <1>7, Numbers DEF DeleteNotes
  <2> QED BY <1>7, <2>1 DEF DeleteNotes
<1>8. CASE DeleteTranscript
  <2>1. 0 \notin 1 .. born /\ erasure.conv \in 1 .. born
    BY <1>8, Numbers DEF DeleteTranscript
  <2>2. /\ erased' = erased \cup {erasure.conv} /\ UNCHANGED <<born, asked, run>>
        /\ ~erasure'.busy
        /\ \/ transcript' = 0 /\ ticketState' = "none"
           \/ transcript # erasure.conv /\ UNCHANGED <<transcript, ticketState>>
    BY <1>8 DEF DeleteTranscript, NoErasure
  <2> QED BY <2>1, <2>2
<1>9. CASE DeleteFails
  BY <1>9 DEF DeleteFails, NoErasure
<1>10. CASE Forget
  BY <1>10 DEF Forget
<1>11. CASE TranscriptSwept
  <2>1. 0 \notin 1 .. born
    BY Numbers
  <2> QED BY <1>11, <2>1 DEF TranscriptSwept
<1>12. CASE Sweep
  BY <1>12 DEF Sweep
<1>13. CASE UNCHANGED notesVars
  BY <1>13 DEF notesVars
<1> QED BY <1>2, <1>3, <1>4, <1>5, <1>6, <1>7, <1>8, <1>9, <1>10, <1>11, <1>12, <1>13 DEF NotesNext

\* Nobody else can have taken a lock that a run still holds.
LEMMA LockStep ==
    ASSUME NotesTypeOK, TranscriptsInOrder, HoldsItsLock, [NotesNext]_notesVars
    PROVE  HoldsItsLock'
<1> USE DEF HoldsItsLock
<1>1. ASSUME NEW v \in Workers, run[v].pc # "idle" PROVE run[v].conv \in Transcripts
  <2>1. run[v].conv \in 1 .. born
    BY <1>1 DEF TranscriptsInOrder
  <2> QED BY <2>1, Numbers DEF Transcripts
<1>2. ASSUME NEW w \in Workers, RunStep(w) PROVE HoldsItsLock'
  <2>1. CASE Begins(w)
    <3>1. PICK c \in asked :
             /\ run'[w] = [pc |-> "model", conv |-> c, late |-> FALSE, left |-> 0,
                           held |-> 0, ins |-> {}]
             /\ lock[c] = Free /\ lock'[c] = w
             /\ \A d \in Transcripts \ {c} : lock'[d] = lock[d]
      BY <2>1 DEF Begins
    <3>2. ASSUME NEW v \in Workers \ {w}, run[v].pc # "idle", ~run[v].late
          PROVE  lock'[run[v].conv] = v
      <4>1. lock[run[v].conv] = v /\ v # Free
        BY <3>2, NotesConstants
      <4> QED BY <1>1, <3>1, <3>2, <4>1
    <3> QED BY <1>2, <3>1, <3>2, RunStepFacts DEF OthersRunOn
  <2>2. CASE Ends(w)
    <3>1. ASSUME NEW v \in Workers \ {w}, run[v].pc # "idle", ~run[v].late
          PROVE  lock'[run[v].conv] = v
      <4>1. lock[run[v].conv] = v
        BY <3>1
      <4> QED BY <1>1, <2>2, <3>1, <4>1 DEF Ends
    <3> QED BY <1>2, <2>2, <3>1, RunStepFacts DEF OthersRunOn, Ends, IdleRun
  <2>3. CASE GoesOn(w) /\ UNCHANGED lock
    BY <2>3 DEF GoesOn, OthersRunOn
  <2> QED BY <1>2, <2>1, <2>2, <2>3, RunStepFacts
<1>3. ASSUME NEW c \in Transcripts, LockExpires(c) PROVE HoldsItsLock'
  <2>1. ASSUME NEW v \in Workers, run'[v].pc # "idle", ~run'[v].late
        PROVE  lock'[run'[v].conv] = v
    <3>1. /\ run[v].pc # "idle" /\ ~run[v].late /\ lock[c] # v
          /\ run'[v].conv = run[v].conv
      BY <1>3, <2>1, ExpiryFacts
    <3>2. run[v].conv # c
      BY <3>1
    <3> QED BY <1>1, <1>3, <3>1, <3>2, ExpiryFacts
  <2> QED BY <2>1
<1>4. ASSUME UNCHANGED <<lock, run>> PROVE HoldsItsLock'
  BY <1>4
<1>5. CASE Turn \/ OpenTicket \/ UpdateTicket
  BY <1>4, <1>5 DEF Turn, OpenTicket, UpdateTicket
<1>6. CASE DeleteNotes \/ DeleteTranscript \/ DeleteFails
  BY <1>4, <1>6 DEF DeleteNotes, DeleteTranscript, DeleteFails
<1>7. CASE Forget \/ TranscriptSwept \/ Sweep
  BY <1>4, <1>7 DEF Forget, TranscriptSwept, Sweep
<1> QED BY <1>2, <1>3, <1>4, <1>5, <1>6, <1>7 DEF NotesNext, notesVars

\* A run with rows of its own keeps its transcript from being deleted.
LEMMA SourceStep ==
    ASSUME NotesTypeOK, TranscriptsInOrder, SourceStays, [NotesNext]_notesVars
    PROVE  SourceStays'
<1> USE DEF SourceStays
<1>1. ASSUME NEW w \in Workers, RunStep(w) PROVE SourceStays'
  <2>1. UNCHANGED transcript /\ OthersRunOn(w)
    BY <1>1, RunStepFacts
  <2>2. run'[w].ins # {} => run'[w].pc = "store" /\ run'[w].conv = transcript
    <3>1. CASE Begins(w)
      BY <3>1 DEF Begins
    <3>2. CASE Ends(w)
      BY <3>2 DEF Ends, IdleRun
    <3>3. CASE GoesOn(w) /\ (Counts(w) \/ PassesOver(w) \/ Inserts(w))
      BY <3>3 DEF GoesOn, Counts, PassesOver, Inserts, SourceThere
    <3> QED BY <1>1, <3>1, <3>2, <3>3, RunStepFacts
  <2> QED BY <2>1, <2>2 DEF OthersRunOn
<1>2. ASSUME NEW c \in Transcripts, LockExpires(c) PROVE SourceStays'
  BY <1>2, ExpiryFacts DEF LockExpires
<1>3. ASSUME Ensured, UNCHANGED run PROVE SourceStays'
  <2>1. ASSUME NEW w \in Workers, run[w].ins # {} PROVE transcript # 0
    <3>1. run[w].conv \in 1 .. born /\ run[w].conv = transcript
      BY <2>1 DEF TranscriptsInOrder
    <3> QED BY <3>1, Numbers
  <2> QED BY <1>3, <2>1 DEF Ensured
<1>4. CASE Turn \/ OpenTicket
  BY <1>3, <1>4 DEF Turn, OpenTicket
<1>5. CASE UpdateTicket \/ DeleteNotes \/ DeleteFails \/ Forget \/ Sweep \/ UNCHANGED notesVars
  BY <1>5 DEF UpdateTicket, DeleteNotes, DeleteFails, Forget, Sweep, notesVars
<1>6. CASE DeleteTranscript
  BY <1>6 DEF DeleteTranscript, Deletable
<1>7. CASE TranscriptSwept
  BY <1>7 DEF TranscriptSwept, Deletable
<1> QED BY <1>1, <1>2, <1>4, <1>5, <1>6, <1>7 DEF NotesNext
-----------------------------------------------------------------------------
(***************************************************************************)
(* Erasure.                                                                *)
(***************************************************************************)
FinalPerNote ==
    \A f \in Facts, i \in Copies :
        note[f][i].there /\ note[f][i].from \in erased => note[f][i].raced

SeenPerNote ==
    erasure.busy =>
        \A f \in Facts, i \in Copies :
            note[f][i].there /\ note[f][i].from = erasure.conv =>
                <<f, i>> \in erasure.doomed \/ note[f][i].raced

LEMMA PerNote == (ErasureIsFinal <=> FinalPerNote) /\ (ErasureSeesAll <=> SeenPerNote)
<1>1. \A n \in Notes : n[1] \in Facts /\ n[2] \in Copies /\ n = <<n[1], n[2]>>
  BY DEF Notes
<1>2. \A f \in Facts, i \in Copies : <<f, i>> \in There <=> note[f][i].there
  BY DEF There, Notes
<1>3. There \subseteq Notes
  BY DEF There
<1>4. ASSUME ErasureIsFinal PROVE FinalPerNote
  BY <1>2, <1>4 DEF ErasureIsFinal, FinalPerNote
<1>5. ASSUME FinalPerNote PROVE ErasureIsFinal
  BY <1>1, <1>3, <1>5 DEF ErasureIsFinal, FinalPerNote, There
<1>6. ASSUME ErasureSeesAll PROVE SeenPerNote
  BY <1>2, <1>6 DEF ErasureSeesAll, SeenPerNote
<1>7. ASSUME SeenPerNote PROVE ErasureSeesAll
  BY <1>1, <1>3, <1>7 DEF ErasureSeesAll, SeenPerNote, There
<1> QED BY <1>4, <1>5, <1>6, <1>7

LEMMA ErasureStep ==
    ASSUME NotesTypeOK, TranscriptsInOrder, SourceStays, FinalPerNote, SeenPerNote, [NotesNext]_notesVars
    PROVE  FinalPerNote' /\ SeenPerNote'
<1> USE DEF FinalPerNote, SeenPerNote
<1>1. ASSUME OnlyTaken, UNCHANGED <<erased, erasure>> PROVE FinalPerNote' /\ SeenPerNote'
  BY <1>1, TakenNotes
<1>2. ASSUME UNCHANGED <<note, erased, erasure>> PROVE FinalPerNote' /\ SeenPerNote'
  BY <1>2
<1>3. CASE Turn \/ OpenTicket \/ UpdateTicket \/ TranscriptSwept \/ UNCHANGED notesVars
  BY <1>2, <1>3 DEF Turn, OpenTicket, UpdateTicket, TranscriptSwept, notesVars
<1>4. ASSUME NEW c \in Transcripts, LockExpires(c) PROVE FinalPerNote' /\ SeenPerNote'
  BY <1>2, <1>4 DEF LockExpires
\* A commit writes about a transcript that is there, so one that has not been deleted.
<1>5. ASSUME NEW w \in Workers, RunStep(w) PROVE FinalPerNote' /\ SeenPerNote'
  <2>1. UNCHANGED <<transcript, born, erased, ticketState, asked, erasure>>
    BY <1>5, RunStepFacts
  <2>2. CASE UNCHANGED note
    BY <1>2, <2>1, <2>2
  <2>3. ASSUME NEW at \in [run[w].ins -> Copies], WritesAt(w, at)
        PROVE  FinalPerNote' /\ SeenPerNote'
    <3>1. ASSUME NEW f \in Facts, NEW i \in Copies
          PROVE  \/ note'[f][i] = note[f][i]
                 \/ /\ note'[f][i] = Stored(w) /\ run[w].conv \notin erased
      BY <2>3 DEF WritesAt, SourceStays, TranscriptsInOrder
    <3>2. Stored(w).from = run[w].conv
          /\ Stored(w).raced = (erasure.busy /\ erasure.conv = run[w].conv)
      BY DEF Stored
    <3>3. ASSUME NEW f \in Facts, NEW i \in Copies
          PROVE  /\ note'[f][i].there /\ note'[f][i].from \in erased => note'[f][i].raced
                 /\ erasure.busy /\ note'[f][i].there /\ note'[f][i].from = erasure.conv =>
                       <<f, i>> \in erasure.doomed \/ note'[f][i].raced
      BY <3>1, <3>2
    <3> QED BY <2>1, <3>3
  <2> QED BY <1>5, <2>2, <2>3, RunStepFacts DEF Begins
<1>6. CASE DeleteNotes
  <2>1. /\ UNCHANGED <<note, erased>>
        /\ erasure'.busy /\ erasure'.conv = transcript /\ erasure'.doomed = There
    BY <1>6 DEF DeleteNotes
  <2>2. \A f \in Facts, i \in Copies : note[f][i].there => <<f, i>> \in There
    BY DEF There, Notes
  <2> QED BY <2>1, <2>2
<1>7. CASE DeleteTranscript
  <2>1. /\ erasure.busy /\ note' = Without(erasure.doomed)
        /\ erased' = erased \cup {erasure.conv} /\ ~erasure'.busy
    BY <1>7 DEF DeleteTranscript, NoErasure
  <2>2. ASSUME NEW f \in Facts, NEW i \in Copies, note'[f][i].there
        PROVE  note'[f][i] = note[f][i] /\ <<f, i>> \notin erasure.doomed
    BY <2>1, <2>2, WithoutFacts DEF NoNote
  <2> QED BY <2>1, <2>2
<1>8. CASE DeleteFails
  BY <1>8 DEF DeleteFails, NoErasure
<1>9. CASE Forget
  BY <1>1, <1>9, WithoutTakes DEF Forget
<1>10. CASE Sweep
  BY <1>1, <1>10, WithoutTakes DEF Sweep
<1> QED BY <1>3, <1>4, <1>5, <1>6, <1>7, <1>8, <1>9, <1>10 DEF NotesNext
-----------------------------------------------------------------------------
(***************************************************************************)
(* One note per fact, and no more than the ceiling.                        *)
(***************************************************************************)
\* Two runs that have kept their locks are not about one transcript.
LEMMA Alone ==
    ASSUME HoldsItsLock, NEW v \in Workers, NEW w \in Workers,
           run[v].pc # "idle", run[w].pc # "idle", run[v].conv = run[w].conv,
           ~run[v].late, ~run[w].late
    PROVE  v = w
BY DEF HoldsItsLock

\* A note is the one that was there, or one of the run's, where nothing was.
LEMMA Written ==
    ASSUME NEW w \in Workers, NEW at \in [run[w].ins -> Copies], WritesAt(w, at),
           NEW f \in Facts, NEW i \in Copies, note'[f][i].there
    PROVE  \/ note[f][i].there /\ note'[f][i] = note[f][i]
           \/ f \in run[w].ins /\ i = at[f] /\ note'[f][i].late = run[w].late
BY DEF WritesAt, Stored

LEMMA OnceStep ==
    ASSUME NotesTypeOK, TranscriptsInOrder, SourceStays, HoldsItsLock,
           OncePerFact, NewToPunctual, [NotesNext]_notesVars
    PROVE  OncePerFact' /\ NewToPunctual'
<1> USE DEF OncePerFact, NewToPunctual
<1>1. ASSUME OnlyTaken, UNCHANGED run PROVE OncePerFact' /\ NewToPunctual'
  <2>1. \A f \in Facts, i \in Copies :
           note'[f][i].there => note[f][i].there /\ note'[f][i] = note[f][i]
    BY <1>1, TakenNotes
  <2>2. \A w \in Workers : run[w].ins \subseteq Facts
    BY RunFields
  <2> QED BY <1>1, <2>1, <2>2
<1>2. ASSUME UNCHANGED <<note, run>> PROVE OncePerFact' /\ NewToPunctual'
  BY <1>2
<1>3. CASE Turn \/ OpenTicket \/ UpdateTicket \/ TranscriptSwept \/ UNCHANGED notesVars
  BY <1>2, <1>3 DEF Turn, OpenTicket, UpdateTicket, TranscriptSwept, notesVars
<1>4. CASE DeleteNotes \/ DeleteFails
  BY <1>2, <1>4 DEF DeleteNotes, DeleteFails
<1>5. CASE DeleteTranscript
  BY <1>1, <1>5, WithoutTakes DEF DeleteTranscript
<1>6. CASE Forget
  BY <1>1, <1>6, WithoutTakes DEF Forget
<1>7. CASE Sweep
  BY <1>1, <1>7, WithoutTakes DEF Sweep
<1>8. ASSUME NEW c \in Transcripts, LockExpires(c) PROVE OncePerFact' /\ NewToPunctual'
  <2>1. UNCHANGED note
    BY <1>8 DEF LockExpires
  <2> QED BY <1>8, <2>1, ExpiryFacts
<1>9. ASSUME NEW w \in Workers, RunStep(w) PROVE OncePerFact' /\ NewToPunctual'
  <2>1. OthersRunOn(w)
    BY <1>9, RunStepFacts
  <2>2. ASSUME UNCHANGED note,
               ~run'[w].late =>
                   \A f \in run'[w].ins, i \in Copies : note[f][i].there => note[f][i].late
        PROVE  OncePerFact' /\ NewToPunctual'
    BY <2>1, <2>2 DEF OthersRunOn
  <2>3. CASE Begins(w)
    BY <2>2, <2>3 DEF Begins
  <2>4. CASE Ends(w) /\ UNCHANGED note
    BY <2>2, <2>4 DEF Ends, IdleRun
  <2>5. CASE GoesOn(w) /\ (Counts(w) \/ PassesOver(w)) /\ UNCHANGED note
    BY <2>2, <2>5 DEF GoesOn, Counts, PassesOver
  <2>6. CASE GoesOn(w) /\ Inserts(w) /\ UNCHANGED note
    <3>1. PICK f \in Facts \ Known : run'[w].ins = run[w].ins \cup {f}
      BY <2>6 DEF Inserts
    <3>2. \A i \in Copies : ~note[f][i].there
      BY <3>1 DEF Known
    <3> QED BY <2>2, <2>6, <3>1, <3>2 DEF GoesOn
  <2>7. ASSUME Ends(w), NEW at \in [run[w].ins -> Copies], WritesAt(w, at)
        PROVE  OncePerFact' /\ NewToPunctual'
    <3>1. OncePerFact'
      <4>1. ASSUME NEW f \in Facts, NEW i \in Copies, NEW j \in Copies, i # j,
                   note'[f][i].there, note'[f][j].there, ~note'[f][i].late, ~note'[f][j].late
            PROVE  FALSE
        BY <2>7, <4>1, Written
      <4> QED BY <4>1
    <3>2. ASSUME NEW v \in Workers, ~run'[v].late, NEW f \in run'[v].ins, NEW i \in Copies,
                 note'[f][i].there
          PROVE  note'[f][i].late
      <4>1. v # w /\ run'[v] = run[v]
        BY <2>1, <2>7, <3>2 DEF Ends, IdleRun, OthersRunOn
      <4>2. f \in Facts /\ ~run[v].late /\ f \in run[v].ins
        BY <3>2, <4>1, RunFields
      <4>3. CASE note[f][i].there /\ note'[f][i] = note[f][i]
        BY <4>2, <4>3
      <4>4. CASE f \in run[w].ins /\ note'[f][i].late = run[w].late
        <5>1. run[w].ins # {} /\ run[v].ins # {}
          BY <4>2, <4>4
        <5>2. run[v].conv = run[w].conv /\ run[v].pc # "idle" /\ run[w].pc # "idle"
          BY <5>1 DEF SourceStays
        <5> QED BY <4>1, <4>2, <4>4, <5>2, Alone, RunFields
      <4> QED BY <2>7, <3>2, <4>2, <4>3, <4>4, Written
    <3> QED BY <3>1, <3>2
  <2> QED BY <1>9, <2>3, <2>4, <2>5, <2>6, <2>7, RunStepFacts
<1> QED BY <1>3, <1>4, <1>5, <1>6, <1>7, <1>8, <1>9 DEF NotesNext

\* The count of the runs that kept their lock, and the ceiling it is held against.
LEMMA CeilingStep ==
    ASSUME NotesTypeOK, NotesTypeOK', TranscriptsInOrder, SourceStays, HoldsItsLock,
           WithinCapacity, CountCovers, [NotesNext]_notesVars
    PROVE  WithinCapacity' /\ CountCovers'
<1> USE DEF WithinCapacity, CountCovers
<1>0. /\ Punctual \subseteq Notes /\ There \subseteq Notes /\ Punctual \subseteq There
      /\ Punctual' \subseteq Notes
      /\ Cardinality(Punctual) \in Nat /\ Cardinality(Punctual') \in Nat
      /\ Cardinality(There) \in Nat /\ MaxEntries \in Nat
  BY SomeNotes, NotesConstants DEF Punctual, There
<1> DEFINE Fewer == Cardinality(Punctual') <= Cardinality(Punctual)
<1>1. ASSUME Punctual' \subseteq Punctual PROVE Fewer
  BY <1>0, <1>1, FewerNotes
<1>2. ASSUME Fewer PROVE WithinCapacity'
  BY <1>0, <1>2
<1>3. ASSUME Fewer, NEW v \in Workers,
             run'[v].pc = run[v].pc, run'[v].conv = run[v].conv,
             run[v].late => run'[v].late, run'[v].held = run[v].held, run'[v].ins = run[v].ins,
             transcript' = transcript \/ transcript' = 0 \/ (run[v].pc = "store" => run[v].conv # transcript')
      PROVE  /\ run'[v].pc = "store" /\ ~run'[v].late /\ run'[v].conv = transcript' =>
                   Cardinality(Punctual') + Cardinality(run'[v].ins) <= run'[v].held
             /\ run'[v].ins # {} => run'[v].held <= MaxEntries
  <2>1. run[v].pc = "store" => run[v].conv # 0
    BY Numbers DEF TranscriptsInOrder
  <2>2. ASSUME run[v].pc = "store", ~run[v].late, run[v].conv = transcript
        PROVE  Cardinality(Punctual') + Cardinality(run[v].ins) <= run[v].held
    <3>1. Cardinality(Punctual) + Cardinality(run[v].ins) <= run[v].held
      BY <2>2
    <3>2. Cardinality(run[v].ins) \in Nat /\ run[v].held \in Nat
      BY RowsFinite, RunFields
    <3> QED BY <1>0, <1>3, <3>1, <3>2
  <2> QED BY <1>3, <2>1, <2>2
<1> HIDE DEF Fewer
<1>4. ASSUME Fewer, UNCHANGED <<run, transcript>> PROVE WithinCapacity' /\ CountCovers'
  BY <1>2, <1>3, <1>4
<1>5. OnlyTaken => Fewer
  BY <1>1, TakenNotes
<1>6. UNCHANGED note => Fewer
  BY <1>0, <1>1 DEF Punctual, There
<1>7. CASE Turn \/ OpenTicket
  <2>1. UNCHANGED <<note, run>> /\ Ensured
    BY <1>7 DEF Turn, OpenTicket
  <2>2. ASSUME NEW v \in Workers, run[v].pc = "store" PROVE run[v].conv # born + 1
    <3>1. run[v].conv \in 1 .. born
      BY <2>2 DEF TranscriptsInOrder
    <3> QED BY <3>1, Numbers
  <2>3. ASSUME NEW v \in Workers
        PROVE  transcript' = transcript \/ (run[v].pc = "store" => run[v].conv # transcript')
    BY <2>1, <2>2 DEF Ensured
  <2> QED BY <1>2, <1>3, <1>6, <2>1, <2>3
<1>8. CASE UpdateTicket \/ DeleteNotes \/ DeleteFails \/ UNCHANGED notesVars
  BY <1>4, <1>6, <1>8 DEF UpdateTicket, DeleteNotes, DeleteFails, notesVars
<1>9. CASE DeleteTranscript
  <2>1. Fewer /\ UNCHANGED run /\ transcript' \in {transcript, 0}
    BY <1>5, <1>9, WithoutTakes DEF DeleteTranscript
  <2> QED BY <1>2, <1>3, <2>1
<1>10. CASE Forget
  BY <1>4, <1>5, <1>10, WithoutTakes DEF Forget
<1>11. CASE Sweep
  BY <1>4, <1>5, <1>11, WithoutTakes DEF Sweep
<1>12. CASE TranscriptSwept
  <2>1. Fewer /\ UNCHANGED run /\ transcript' = 0
    BY <1>6, <1>12 DEF TranscriptSwept
  <2> QED BY <1>2, <1>3, <2>1
<1>13. ASSUME NEW c \in Transcripts, LockExpires(c) PROVE WithinCapacity' /\ CountCovers'
  <2>1. Fewer /\ UNCHANGED transcript
    BY <1>6, <1>13 DEF LockExpires
  <2> QED BY <1>2, <1>3, <1>13, <2>1, ExpiryFacts
<1>14. ASSUME NEW w \in Workers, RunStep(w) PROVE WithinCapacity' /\ CountCovers'
  <2>1. OthersRunOn(w) /\ UNCHANGED transcript
    BY <1>14, RunStepFacts
  <2>2. ASSUME Fewer,
               run'[w].pc = "store" /\ ~run'[w].late /\ run'[w].conv = transcript =>
                   Cardinality(Punctual') + Cardinality(run'[w].ins) <= run'[w].held,
               run'[w].ins # {} => run'[w].held <= MaxEntries
        PROVE  WithinCapacity' /\ CountCovers'
    BY <1>2, <1>3, <2>1, <2>2 DEF OthersRunOn
  <2>3. CASE Begins(w)
    <3>1. UNCHANGED note /\ run'[w].pc = "model" /\ run'[w].ins = {}
      BY <2>3 DEF Begins
    <3> QED BY <1>6, <2>2, <3>1
  <2>4. CASE Ends(w) /\ UNCHANGED note
    <3>1. run'[w].pc = "idle" /\ run'[w].ins = {}
      BY <2>4 DEF Ends, IdleRun
    <3> QED BY <1>6, <2>2, <2>4, <3>1
  <2>5. UNCHANGED note => Cardinality(Punctual') = Cardinality(Punctual)
    BY DEF Punctual, There
  <2>6. /\ run[w].held \in Nat /\ Cardinality(run[w].ins) \in Nat /\ IsFiniteSet(run[w].ins)
    BY RowsFinite, RunFields
  <2>7. CASE GoesOn(w) /\ Counts(w) /\ UNCHANGED note
    <3>1. run'[w].ins = {} /\ run'[w].held = Cardinality(There)
      BY <2>7 DEF Counts, SourceStays
    <3>2. Cardinality(run'[w].ins) = 0
      BY <3>1, FS_EmptySet
    <3>3. Cardinality(Punctual) <= Cardinality(There)
      BY <1>0, FewerNotes
    <3>4. Cardinality(Punctual') + Cardinality(run'[w].ins) <= run'[w].held
      BY <1>0, <2>5, <2>7, <3>1, <3>2, <3>3
    <3> QED BY <1>6, <2>2, <2>7, <3>1, <3>4
  <2>8. CASE GoesOn(w) /\ PassesOver(w) /\ UNCHANGED note
    <3>1. /\ run[w].pc = "store" /\ run'[w].late = run[w].late /\ run'[w].conv = run[w].conv
          /\ run'[w].held = run[w].held /\ run'[w].ins = run[w].ins
      BY <2>8 DEF GoesOn, PassesOver
    <3> QED BY <1>6, <2>1, <2>2, <2>5, <2>8, <3>1
  <2>9. CASE GoesOn(w) /\ Inserts(w) /\ UNCHANGED note
    <3>1. PICK f \in Facts \ Known :
             /\ f \notin run[w].ins
             /\ run'[w].held = run[w].held + 1 /\ run'[w].ins = run[w].ins \cup {f}
      BY <2>9 DEF Inserts
    <3>2. Cardinality(run'[w].ins) = Cardinality(run[w].ins) + 1
      BY <2>6, <3>1, FS_AddElement
    <3>3. run'[w].held <= MaxEntries
      BY <1>0, <2>6, <2>9, <3>1 DEF Inserts, Full
    <3>4. ASSUME ~run'[w].late, run'[w].conv = transcript
          PROVE  Cardinality(Punctual') + Cardinality(run'[w].ins) <= run'[w].held
      <4>1. Cardinality(Punctual) + Cardinality(run[w].ins) <= run[w].held
        BY <2>9, <3>4 DEF GoesOn, Inserts
      <4> QED BY <1>0, <2>5, <2>6, <2>9, <3>1, <3>2, <4>1
    <3> QED BY <1>6, <2>2, <2>9, <3>3, <3>4
  <2>10. ASSUME Ends(w), NEW at \in [run[w].ins -> Copies], WritesAt(w, at)
         PROVE  WithinCapacity' /\ CountCovers'
    <3>1. run'[w].pc = "idle" /\ run'[w].ins = {}
      BY <2>10 DEF Ends, IdleRun
    <3>2. run[w].late \in BOOLEAN
      BY RunFields
    <3>3. ASSUME NEW f \in Facts, NEW i \in Copies, <<f, i>> \in Punctual'
          PROVE  \/ <<f, i>> \in Punctual
                 \/ f \in run[w].ins /\ i = at[f] /\ ~run[w].late
      <4>1. note'[f][i].there /\ ~note'[f][i].late
        BY <3>3 DEF Punctual, There
      <4>2. note[f][i].there /\ ~note[f][i].late => <<f, i>> \in Punctual
        BY DEF Punctual, There, Notes
      <4> QED BY <2>10, <4>1, <4>2, Written
    <3>4. \A n \in Punctual' : n[1] \in Facts /\ n[2] \in Copies /\ n = <<n[1], n[2]>>
      BY <1>0 DEF Notes
    <3>5. CASE run[w].ins = {} \/ run[w].late
      <4>1. Fewer
        BY <1>1, <3>3, <3>4, <3>5
      <4> QED BY <2>2, <3>1, <4>1
    <3>6. CASE run[w].ins # {} /\ ~run[w].late
      <4> DEFINE row == [f \in run[w].ins |-> <<f, at[f]>>]
                 Rows == {row[f] : f \in run[w].ins}
      <4>1. Punctual' \subseteq Punctual \cup Rows
        BY <3>3, <3>4
      <4>2. row \in Surjection(run[w].ins, Rows)
        BY DEF Surjection
      <4> HIDE DEF row, Rows
      <4>3. IsFiniteSet(Rows) /\ Cardinality(Rows) <= Cardinality(run[w].ins)
        BY <2>6, <4>2, FS_Surjection
      <4>4. /\ IsFiniteSet(Punctual \cup Rows) /\ Cardinality(Rows) \in Nat
            /\ Cardinality(Punctual \cup Rows) <= Cardinality(Punctual) + Cardinality(Rows)
        <5>1. IsFiniteSet(Punctual) /\ IsFiniteSet(Punctual \cap Rows)
          BY <1>0, SomeNotes, FS_Subset
        <5>2. /\ Cardinality(Rows) \in Nat /\ Cardinality(Punctual \cap Rows) \in Nat
              /\ IsFiniteSet(Punctual \cup Rows)
              /\ Cardinality(Punctual \cup Rows) =
                    Cardinality(Punctual) + Cardinality(Rows) - Cardinality(Punctual \cap Rows)
          BY <4>3, <5>1, FS_Union, FS_CardinalityType
        <5> QED BY <1>0, <5>2
      <4>5. Cardinality(Punctual') <= Cardinality(Punctual \cup Rows)
        BY <4>1, <4>4, FS_Subset
      <4>6. Cardinality(Punctual \cup Rows) \in Nat
        BY <4>4, FS_CardinalityType
      <4>7. run[w].pc = "store" /\ run[w].conv = transcript
        BY <3>6 DEF SourceStays
      <4>8. /\ Cardinality(Punctual) + Cardinality(run[w].ins) <= run[w].held
            /\ run[w].held <= MaxEntries
        BY <3>6, <4>7
      <4>9. WithinCapacity'
        BY <1>0, <2>6, <4>3, <4>4, <4>5, <4>6, <4>8
      <4>10. ASSUME NEW v \in Workers
             PROVE  /\ ~(run'[v].pc = "store" /\ ~run'[v].late /\ run'[v].conv = transcript)
                    /\ run'[v].ins # {} => run'[v].held <= MaxEntries
        <5>1. CASE v = w
          BY <3>1, <5>1
        <5>2. CASE v # w
          <6>1. run'[v] = run[v]
            BY <2>1, <5>2 DEF OthersRunOn
          <6>2. run[v].pc = "store" /\ run[v].conv = transcript => run[v].late
            BY <3>6, <4>7, <5>2, Alone
          <6> QED BY <6>1, <6>2
        <5> QED BY <5>1, <5>2
      <4> QED BY <2>1, <4>9, <4>10
    <3> QED BY <3>5, <3>6
  <2> QED BY <1>14, <2>3, <2>4, <2>7, <2>8, <2>9, <2>10, RunStepFacts
<1> QED BY <1>7, <1>8, <1>9, <1>10, <1>11, <1>12, <1>13, <1>14 DEF NotesNext
-----------------------------------------------------------------------------
(***************************************************************************)
(* The invariant, and what it contains.                                    *)
(***************************************************************************)
LEMMA MemoryInit == NotesInit => MemoryInv
<1> SUFFICES ASSUME NotesInit PROVE MemoryInv
  OBVIOUS
<1> USE DEF NotesInit
<1>1. NotesTypeOK
  <2>1. NoNote \in NoteRecord /\ IdleRun \in RunRecord
    BY NotesConstants DEF NoNote, NoteRecord, IdleRun, RunRecord
  <2>2. erasure \in [busy : BOOLEAN, conv : 0 .. MaxTranscripts, doomed : SUBSET Notes]
    BY NotesConstants DEF NoErasure
  <2> QED BY <2>1, <2>2, NotesConstants DEF NotesTypeOK
<1>2. There = {} /\ Punctual = {}
  BY DEF There, Punctual, Notes, NoNote
<1>3. \A w \in Workers : run[w].pc = "idle" /\ run[w].ins = {}
  BY DEF IdleRun
<1>4. TranscriptsInOrder /\ ErasureSeesAll
  BY <1>3 DEF TranscriptsInOrder, ErasureSeesAll, NoErasure
<1>5. SourceStays /\ HoldsItsLock /\ NewToPunctual
  BY <1>3 DEF SourceStays, HoldsItsLock, NewToPunctual
<1>6. ErasureIsFinal /\ OncePerFact
  BY <1>2 DEF ErasureIsFinal, OncePerFact, NoNote
<1>7. WithinCapacity
  BY <1>2, FS_EmptySet, NotesConstants DEF WithinCapacity
<1>8. CountCovers
  BY <1>3 DEF CountCovers
<1> QED BY <1>1, <1>4, <1>5, <1>6, <1>7, <1>8 DEF MemoryInv

LEMMA MemoryStep == MemoryInv /\ [NotesNext]_notesVars => MemoryInv'
<1> SUFFICES ASSUME MemoryInv, [NotesNext]_notesVars PROVE MemoryInv'
  OBVIOUS
<1>1. NotesTypeOK' /\ TranscriptsInOrder' /\ SourceStays' /\ HoldsItsLock'
  BY TypeStep, OrderStep, SourceStep, LockStep DEF MemoryInv
<1>2. FinalPerNote' /\ SeenPerNote'
  BY PerNote, ErasureStep DEF MemoryInv
<1>3. (FinalPerNote /\ SeenPerNote => ErasureIsFinal /\ ErasureSeesAll)'
  BY PerNote, PTL
<1>4. OncePerFact' /\ NewToPunctual'
  BY OnceStep DEF MemoryInv
<1>5. WithinCapacity' /\ CountCovers'
  BY <1>1, CeilingStep DEF MemoryInv
<1> QED BY <1>1, <1>2, <1>3, <1>4, <1>5 DEF MemoryInv

LEMMA MemoryInvariant == NotesSpec => []MemoryInv
BY MemoryInit, MemoryStep, PTL DEF NotesSpec

\* Every state is one of the data model: type correctness.
THEOREM TypeCorrect == NotesSpec => []NotesTypeOK
<1>1. MemoryInv => NotesTypeOK
  BY DEF MemoryInv
<1> QED BY <1>1, MemoryInvariant, PTL

\* A run whose lock has not expired holds it, however locks expire and workers
\* are lost, so that no two such runs are about one transcript.
THEOREM HoldsItsLockHolds == NotesSpec => []HoldsItsLock
<1>1. MemoryInv => HoldsItsLock
  BY DEF MemoryInv
<1> QED BY <1>1, MemoryInvariant, PTL

\* A fact is written down once, by any number of workers, unless a run has
\* outlived its lock.
THEOREM OncePerFactHolds == NotesSpec => []OncePerFact
<1>1. MemoryInv => OncePerFact
  BY DEF MemoryInv
<1> QED BY <1>1, MemoryInvariant, PTL

\* The runs that kept their lock never take a visitor past the ceiling, although
\* each counts once and inserts later.
THEOREM WithinCapacityHolds == NotesSpec => []WithinCapacity
<1>1. MemoryInv => WithinCapacity
  BY DEF MemoryInv
<1> QED BY <1>1, MemoryInvariant, PTL

\* What was learned in a transcript that is deleted on request stays deleted, but
\* for what was stored in the course of the deletion.
THEOREM ErasureIsFinalHolds == NotesSpec => []ErasureIsFinal
<1>1. MemoryInv => ErasureIsFinal
  BY DEF MemoryInv
<1> QED BY <1>1, MemoryInvariant, PTL
=============================================================================
