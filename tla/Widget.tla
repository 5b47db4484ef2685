------------------------------- MODULE Widget -------------------------------
(***************************************************************************)
(* The chat frame (frontend/apps/widget/src/widget.js) in the tabs of one  *)
(* visitor's browser, with what the public API (app/api/public/chat.py)    *)
(* keeps of its sessions: turns, the contact form, and the bootstrap that  *)
(* replays a transcript to a visitor who comes back.                       *)
(*                                                                         *)
(* A page runs one callback at a time; a step is a callback, a timer, or   *)
(* what a request does on the server.  Bootstrap, turn and contact form    *)
(* are three promise chains that nothing orders, but for the promise of    *)
(* the embedding site that each of them awaits first.                      *)
(***************************************************************************)
EXTENDS Naturals, Sequences, FiniteSets

CONSTANTS
    Tabs,
    MaxPosts,     \* bound on turns and contact forms, in all tabs
    MaxReplies,   \* bound on staff replies
    ReplayLimit,  \* SESSION_REPLAY_LIMIT
    Durable       \* whether the browser lets the frame write localStorage

VARIABLES
    tab,         \* [Tabs -> TabRecord]
    boot,        \* [Tabs -> BootRecord], the bootstrap's chain
    turn,        \* [Tabs -> TurnRecord], that of the question under way
    contact,     \* [Tabs -> ContactRecord], that of the contact form
    log,         \* [Tabs -> the messages a page shows]
    remembered,  \* localStorage, which the tabs share
    post,        \* [Posts -> PostRecord], the turns and forms sent
    thread,      \* [Sessions -> the messages of its conversation]
    ticket,      \* [Sessions -> the status of its latest ticket]
    told         \* history: the session of the last ticket a visitor was told of

page == <<tab, boot, turn, contact, log>>
server == <<post, thread, ticket>>
vars == <<tab, boot, turn, contact, log, remembered, post, thread, ticket, told>>

ASSUME ConstantsAssumption ==
    /\ MaxPosts \in Nat /\ MaxReplies \in Nat /\ ReplayLimit \in Nat
    /\ Durable \in BOOLEAN

Posts == 1 .. MaxPosts
Sessions == Posts  \* an id is drawn for a post, and is like no other
None == 0
SessionOrNone == Sessions \cup {None}
TicketStatuses == {"none", "open", "settled"}  \* open or pending; resolved or closed

\* The words of a post, the answer to it, a numbered reply, and the greeting.
Message == [of : 0 .. MaxPosts + MaxReplies,
            role : {"user", "assistant", "staff", "greeting"}]
Said(p) == [of |-> p, role |-> "user"]
Answered(p) == [of |-> p, role |-> "assistant"]
Replied(k) == [of |-> k, role |-> "staff"]
Greeting == [of |-> 0, role |-> "greeting"]
Elements(messages) == {messages[i] : i \in DOMAIN messages}

TabRecord ==
    [loaded : BOOLEAN,
     session : SessionOrNone,              \* sessionStorage, which a reload keeps
     ticketOpen : BOOLEAN,                 \* and the footer's control disabled
     offer : {"never", "shown", "taken"}]  \* the contextual offer

BootRecord ==
    [pc : {"site", "sent", "read", "failed", "restored"},
     asked : SessionOrNone,                \* X-Widget-Session
     replay : Seq(Message), status : TicketStatuses,  \* as the server has read them
     owed : SessionOrNone,                 \* history: told, in a tab without a session
     due : SUBSET Message]                 \* history: the replies the replica held of it
NewBoot ==
    [pc |-> "site", asked |-> None, replay |-> <<>>, status |-> "none",
     owed |-> None, due |-> {}]

TurnRecord ==
    [pc : {"none", "site", "open", "ended", "typing"},
     post : 0 .. MaxPosts,
     answer : {"none", "typing", "shown"},  \* its typewriter: behind, or caught up
     escalate : BOOLEAN]
NoTurn == [pc |-> "none", post |-> 0, answer |-> "none", escalate |-> FALSE]

ContactRecord ==
    [pc : {"none", "site", "open"}, post : 0 .. MaxPosts, shown : BOOLEAN]
NoContact == [pc |-> "none", post |-> 0, shown |-> FALSE]

PostRecord ==
    [kind : {"none", "turn", "contact"}, session : SessionOrNone,
     words : BOOLEAN,                      \* a form may come without a message
     state : {"unused", "held", "running", "stored", "failed"},
     early : BOOLEAN]                      \* history: sent before the bootstrap was read
NoPost == [kind |-> "none", session |-> None, words |-> FALSE,
           state |-> "unused", early |-> FALSE]

Init ==
    /\ tab = [t \in Tabs |->
          [loaded |-> FALSE, session |-> None, ticketOpen |-> FALSE, offer |-> "never"]]
    /\ boot = [t \in Tabs |-> NewBoot]
    /\ turn = [t \in Tabs |-> NoTurn]
    /\ contact = [t \in Tabs |-> NoContact]
    /\ log = [t \in Tabs |-> <<>>]
    /\ remembered = None
    /\ post = [p \in Posts |-> NoPost]
    /\ thread = [s \in Sessions |-> <<>>]
    /\ ticket = [s \in Sessions |-> "none"]
    /\ told = None
-----------------------------------------------------------------------------
(* Pages *)

\* A fresh page in t, whose sessionStorage holds s.
Reset(t, loaded, s) ==
    /\ tab' = [tab EXCEPT ![t] =
          [loaded |-> loaded, session |-> s, ticketOpen |-> FALSE, offer |-> "never"]]
    /\ boot' = [boot EXCEPT ![t] = NewBoot]
    /\ turn' = [turn EXCEPT ![t] = NoTurn]
    /\ contact' = [contact EXCEPT ![t] = NoContact]
    /\ log' = [log EXCEPT ![t] = <<>>]
    /\ UNCHANGED <<remembered, told>>

Load(t) == ~tab[t].loaded /\ Reset(t, TRUE, tab[t].session) /\ UNCHANGED server

HeldBy(t) == {p \in {turn[t].post, contact[t].post} \cap Posts : post[p].state = "held"}

\* Posts whose page has not sent them go with it; the others are the server's.
Leave(t) ==
    /\ tab[t].loaded
    /\ \E s \in {tab[t].session, None} : Reset(t, FALSE, s)  \* a reload, or the tab closes
    /\ post' = [p \in Posts |->
          IF p \in HeldBy(t) THEN [post[p] EXCEPT !.state = "failed"] ELSE post[p]]
    /\ UNCHANGED <<thread, ticket>>
-----------------------------------------------------------------------------
(* The session id *)

\* Mutant: only the tab's own storage is asked.
StoredInTab(t) == tab[t].session

\* The id this browser already has.
Stored(t) == IF tab[t].session # None THEN tab[t].session ELSE remembered

\* sessionId(), on behalf of the posts P: the stored one, or a new one.
SessionId(t, P) ==
    IF Stored(t) # None THEN Stored(t) ELSE CHOOSE p \in P : \A q \in P : p <= q

\* The posts P of t go out with its session id, which the tab keeps.
SendAll(t, P, posts) ==
    LET s == SessionId(t, P) IN
    /\ tab' = [tab EXCEPT ![t].session = IF P = {} THEN @ ELSE s]
    /\ post' = [p \in Posts |->
          IF p \in P THEN [posts[p] EXCEPT !.state = "running", !.session = s] ELSE posts[p]]

\* The next post of t, which is held until the site is known.
Posted(t, p, kind, words) ==
    /\ post[p].state = "unused"
    /\ \A q \in 1 .. (p - 1) : post[q].state # "unused"
    /\ SendAll(t, IF boot[t].pc = "site" THEN {} ELSE {p},
          [post EXCEPT ![p] =
             [kind |-> kind, session |-> None, words |-> words, state |-> "held",
              early |-> boot[t].pc \in {"site", "sent"}]])
    /\ UNCHANGED <<thread, ticket>>

Opened(c) == IF c.pc = "site" THEN [c EXCEPT !.pc = "open"] ELSE c

StaffIn(messages) == {m \in Elements(messages) : m.role = "staff"}

\* The host has answered the hello, or two seconds are over: the chains go on in
\* the order they were built, the bootstrap first.
SiteResolves(t) ==
    /\ tab[t].loaded /\ boot[t].pc = "site"
    /\ boot' = [boot EXCEPT ![t] =
          [NewBoot EXCEPT !.pc = "sent", !.asked = Stored(t),
                          !.owed = IF tab[t].session = None THEN told ELSE None]]
    /\ SendAll(t, HeldBy(t), post)
    /\ turn' = [turn EXCEPT ![t] = Opened(@)]
    /\ contact' = [contact EXCEPT ![t] = Opened(@)]
    /\ UNCHANGED <<log, remembered, thread, ticket, told>>
-----------------------------------------------------------------------------
(* The bootstrap *)

Conversation(s) == IF s = None THEN <<>> ELSE thread[s]

\* What a lagging replica may hold of a conversation: any beginning of it, but a
\* turn's two messages together or not at all.
OnReplica(s) ==
    LET c == Conversation(s) IN
    {SubSeq(c, 1, n) : n \in {k \in 0 .. Len(c) : k < Len(c) => c[k + 1].role # "assistant"}}

\* list_for_conversation: in the order they were written, up to a limit.
Replay(c) == SubSeq(c, 1, IF Len(c) < ReplayLimit THEN Len(c) ELSE ReplayLimit)

\* Its ticket may be shown as it was at any moment.
ShownAs(s) ==
    IF s = None \/ ticket[s] = "none" THEN {"none"} ELSE TicketStatuses

\* session_state, on the replica: each of its SELECTs sees a moment of its own.
ReadState(t) ==
    LET b == boot[t] IN
    /\ b.pc = "sent"
    /\ \E c \in OnReplica(b.asked), o \in OnReplica(b.owed), st \in ShownAs(b.asked) :
          /\ b.asked = b.owed => c = o
          /\ boot' = [boot EXCEPT ![t] =
                [NewBoot EXCEPT !.pc = "read", !.asked = b.asked, !.replay = Replay(c),
                                !.status = st, !.due = StaffIn(o)]]
    /\ UNCHANGED <<tab, turn, contact, log, remembered, server, told>>

\* The answer arrives: restore(), or the greeting when there is nothing to restore.
Restore(t) ==
    LET b == boot[t]
        any == b.replay # <<>> IN
    /\ b.pc = "read"
    /\ log' = [log EXCEPT ![t] = @ \o (IF any THEN b.replay ELSE <<Greeting>>)]
    /\ tab' = [tab EXCEPT ![t].ticketOpen =
          IF any /\ b.status # "none" THEN b.status = "open" ELSE @]
    /\ boot' = [boot EXCEPT ![t] = [NewBoot EXCEPT !.pc = "restored", !.due = b.due]]
    /\ UNCHANGED <<turn, contact, remembered, server, told>>

\* It does not, or it is a refusal that may pass.
BootFails(t) ==
    /\ boot[t].pc \in {"sent", "read"}
    /\ boot' = [boot EXCEPT ![t] = [NewBoot EXCEPT !.pc = "failed"]]
    /\ UNCHANGED <<tab, turn, contact, log, remembered, server, told>>

\* It is one of FATAL: the host takes the frame off the page.
Disable(t) ==
    /\ boot[t].pc = "sent"
    /\ Reset(t, FALSE, tab[t].session)
    /\ UNCHANGED server
-----------------------------------------------------------------------------
(* A turn *)

PcOfPost(t) == IF boot[t].pc = "site" THEN "site" ELSE "open"

\* send()
Send(t, p) ==
    /\ tab[t].loaded /\ turn[t].pc = "none"
    /\ ~contact[t].shown  \* the form stands in the composer's place
    /\ Posted(t, p, "turn", TRUE)
    /\ log' = [log EXCEPT ![t] = Append(@, Said(p))]
    /\ turn' = [turn EXCEPT ![t] =
          [pc |-> PcOfPost(t), post |-> p, answer |-> "none", escalate |-> FALSE]]
    /\ UNCHANGED <<boot, contact, remembered, told>>

\* Mutant: each token gets a bubble of its own.
BubblePerToken(q) == <<Answered(q.post)>>

\* The first token brings the bubble.
BubbleFor(q) == IF q.answer = "none" THEN <<Answered(q.post)>> ELSE <<>>

\* A token event; who asks for reduced motion sees it at once.
Token(t) ==
    /\ turn[t].pc = "open"
    /\ post[turn[t].post].state \in {"running", "stored"}
    /\ log' = [log EXCEPT ![t] = @ \o BubbleFor(turn[t])]
    /\ \E a \in {"typing", "shown"} : turn' = [turn EXCEPT ![t].answer = a]
    /\ UNCHANGED <<tab, boot, contact, remembered, server, told>>

\* The typewriter's timer fires until it has caught up.
Type(t) ==
    /\ turn[t].answer = "typing"
    /\ turn' = [turn EXCEPT ![t].answer = "shown"]
    /\ UNCHANGED <<tab, boot, contact, log, remembered, server, told>>

\* The done event, with can_escalate.
Done(t) ==
    /\ turn[t].pc = "open" /\ turn[t].answer # "none"
    /\ post[turn[t].post].state = "stored"
    /\ \E miss \in BOOLEAN :
          turn' = [turn EXCEPT ![t] =
             [pc |-> "ended", post |-> turn[t].post, answer |-> turn[t].answer,
              escalate |-> miss]]
    /\ UNCHANGED <<tab, boot, contact, log, remembered, server, told>>

\* The error event.
Error(t) ==
    /\ turn[t].pc = "open" /\ post[turn[t].post].state = "failed"
    /\ turn' = [turn EXCEPT ![t].pc = "ended"]
    /\ UNCHANGED <<tab, boot, contact, log, remembered, server, told>>

\* The stream has ended; the display has to catch up.
EndOfStream(t) ==
    /\ turn[t].pc = "ended"
    /\ turn' = [turn EXCEPT ![t].pc = "typing"]
    /\ UNCHANGED <<tab, boot, contact, log, remembered, server, told>>

\* offerEscalation: once, and not to who has a ticket or the form before them.
Offered(t) ==
    IF turn[t].escalate /\ tab[t].offer = "never" /\ ~tab[t].ticketOpen /\ ~contact[t].shown
    THEN "shown" ELSE tab[t].offer

\* The chain's finally: the composer comes back.
FinishTurn(t) ==
    /\ turn' = [turn EXCEPT ![t] = NoTurn]
    /\ tab' = [tab EXCEPT ![t].offer = Offered(t)]
    /\ UNCHANGED <<boot, contact, log, remembered, server, told>>

\* Mutant: the display of a turn that failed before its first token is awaited.
AwaitsAnAnswer(q) == q.pc = "typing" /\ q.answer = "shown"

\* typewriter.close() resolves.
Drained(q) == q.pc = "typing" /\ q.answer # "typing"

TurnEnds(t) == Drained(turn[t]) /\ FinishTurn(t)

\* The request is refused, or the connection breaks: the chain's catch.
TurnBreaks(t) == turn[t].pc \in {"open", "ended"} /\ FinishTurn(t)
-----------------------------------------------------------------------------
(* The contact form *)

Shows(t, shown) ==
    /\ contact' = [contact EXCEPT ![t].shown = shown]
    /\ UNCHANGED <<boot, turn, log, remembered, server, told>>

\* From the footer, whose control a ticket disables, or from the offer.
OpenForm(t) ==
    /\ tab[t].loaded /\ ~tab[t].ticketOpen /\ ~contact[t].shown
    /\ Shows(t, TRUE)
    /\ UNCHANGED tab

TakeOffer(t) ==
    /\ tab[t].offer = "shown"
    /\ tab' = [tab EXCEPT ![t].offer = "taken"]
    /\ Shows(t, TRUE)

CancelForm(t) == contact[t].shown /\ Shows(t, FALSE) /\ UNCHANGED tab

Submit(t, p) ==
    /\ contact[t].shown /\ contact[t].pc = "none"
    /\ \E words \in BOOLEAN : Posted(t, p, "contact", words)
    /\ contact' = [contact EXCEPT ![t] = [pc |-> PcOfPost(t), post |-> p, shown |-> TRUE]]
    /\ UNCHANGED <<boot, turn, log, remembered, told>>

\* Mutant: a form that is on its way is taken for a ticket.
CreatedAtOnce(t) == contact[t].pc = "open" /\ post[contact[t].post].state # "failed"

\* The ticket's 201 has arrived.
Created(t) == contact[t].pc = "open" /\ post[contact[t].post].state = "stored"

\* rememberSession
Remember(s) == IF Durable THEN s ELSE remembered

Acknowledge(t) ==
    LET p == contact[t].post
        s == tab[t].session IN
    /\ Created(t)
    /\ remembered' = Remember(s) /\ told' = s
    /\ tab' = [tab EXCEPT ![t].ticketOpen = TRUE]
    /\ contact' = [contact EXCEPT ![t] = NoContact]
    /\ log' = [log EXCEPT ![t] = @ \o (IF post[p].words THEN <<Said(p)>> ELSE <<>>)]
    /\ UNCHANGED <<boot, turn, server>>

\* A refusal, or a lost answer; the form stays as it is.
ContactFails(t) ==
    /\ contact[t].pc = "open"
    /\ contact' = [contact EXCEPT ![t] = [pc |-> "none", post |-> 0, shown |-> @.shown]]
    /\ UNCHANGED <<tab, boot, turn, log, remembered, server, told>>
-----------------------------------------------------------------------------
(* The server *)

\* What a post adds to its conversation.
Messages(p) ==
    IF post[p].kind = "turn" THEN <<Said(p), Answered(p)>>
    ELSE IF post[p].words THEN <<Said(p)>> ELSE <<>>

\* _persist_turn, or create_ticket.
Store(p) ==
    LET s == post[p].session IN
    /\ post[p].state = "running"
    /\ post' = [post EXCEPT ![p].state = "stored"]
    /\ thread' = [thread EXCEPT ![s] = @ \o Messages(p)]
    /\ ticket' = IF post[p].kind = "contact" THEN [ticket EXCEPT ![s] = "open"] ELSE ticket
    /\ UNCHANGED <<page, remembered, told>>

\* A limit, a failure, or a visitor who has gone.
Abandon(p) ==
    /\ post[p].state = "running"
    /\ post' = [post EXCEPT ![p].state = "failed"]
    /\ UNCHANGED <<page, thread, ticket, remembered, told>>

Replies == UNION {StaffIn(thread[s]) : s \in Sessions}

\* reply_to_ticket
Reply(s) ==
    LET k == Cardinality(Replies) + 1 IN
    /\ ticket[s] # "none" /\ k <= MaxReplies
    /\ thread' = [thread EXCEPT ![s] = Append(@, Replied(k))]
    /\ UNCHANGED <<page, remembered, post, ticket, told>>

\* update_ticket: settled, or opened again.
SetStatus(s) ==
    /\ ticket[s] # "none"
    /\ ticket' = [ticket EXCEPT ![s] = IF @ = "open" THEN "settled" ELSE "open"]
    /\ UNCHANGED <<page, remembered, post, thread, told>>
-----------------------------------------------------------------------------
ChainStep(t) ==
    \/ SiteResolves(t)
    \/ ReadState(t) \/ Restore(t) \/ BootFails(t) \/ Disable(t)
    \/ Token(t) \/ Type(t) \/ Done(t) \/ Error(t) \/ EndOfStream(t)
    \/ TurnEnds(t) \/ TurnBreaks(t)
    \/ Acknowledge(t) \/ ContactFails(t)

VisitorStep(t) ==
    \/ Load(t) \/ Leave(t)
    \/ \E p \in Posts : Send(t, p) \/ Submit(t, p)
    \/ OpenForm(t) \/ TakeOffer(t) \/ CancelForm(t)

ServerStep ==
    \/ \E p \in Posts : Store(p) \/ Abandon(p)
    \/ \E s \in Sessions : Reply(s) \/ SetStatus(s)

Next == (\E t \in Tabs : ChainStep(t) \/ VisitorStep(t)) \/ ServerStep

\* The site's timer, the typewriter's, the reading of a stream, and a server that
\* ends what it has begun.
Fairness ==
    /\ \A t \in Tabs :
          /\ WF_vars(SiteResolves(t))
          /\ WF_vars(Token(t) /\ turn[t].answer = "none")
          /\ WF_vars(Type(t)) /\ WF_vars(Done(t)) /\ WF_vars(Error(t))
          /\ WF_vars(EndOfStream(t)) /\ WF_vars(TurnEnds(t))
    /\ \A p \in Posts : WF_vars(Store(p) \/ Abandon(p))

Spec == Init /\ [][Next]_vars
FairSpec == Spec /\ Fairness
-----------------------------------------------------------------------------
TypeOK ==
    /\ tab \in [Tabs -> TabRecord]
    /\ boot \in [Tabs -> BootRecord]
    /\ turn \in [Tabs -> TurnRecord]
    /\ contact \in [Tabs -> ContactRecord]
    /\ log \in [Tabs -> Seq(Message)]
    /\ remembered \in SessionOrNone /\ told \in SessionOrNone
    /\ post \in [Posts -> PostRecord]
    /\ thread \in [Sessions -> Seq(Message)]
    /\ ticket \in [Sessions -> TicketStatuses]

\* widget.js:768-779, 968-980: whatever becomes of a question, the composer takes the
\* next one in the end.
ComposerReturns == \A t \in Tabs : turn[t].pc # "none" ~> turn[t].pc = "none"

\* widget.js:1005-1020: a page shows a message a second time only if it sent it before
\* its bootstrap was read, so that the replay contains it.
NothingTwice ==
    \A t \in Tabs : \A i, j \in DOMAIN log[t] :
        i < j /\ log[t][i] = log[t][j] =>
            log[t][i].role \in {"user", "assistant"} /\ post[log[t][i].of].early

\* README.md:510-511: a visitor who has been told that the reply appears here, and
\* opens the chat in another tab, is shown every reply that the replica holds by then.
ReplyReachesVisitor ==
    Durable => \A t \in Tabs : boot[t].pc = "restored" => boot[t].due \subseteq Elements(log[t])

\* widget.js:58-67, README.md:511: no id is kept on the device but of a visitor who has
\* opened a ticket.
OnlyTicketsAreRemembered ==
    remembered # None =>
        \E p \in Posts : post[p].kind = "contact" /\ post[p].state = "stored"
                         /\ post[p].session = remembered
-----------------------------------------------------------------------------
(* What makes NothingTwice and ReplyReachesVisitor inductive. *)

NoRepeat(messages) ==
    \A i, j \in DOMAIN messages : messages[i] = messages[j] => i = j

OfAPost(m) == m.role \in {"user", "assistant"} /\ m.of \in Posts

\* A conversation holds what was stored, and each reply under its own number, once.
ThreadsInOrder ==
    /\ Cardinality(Replies) <= MaxReplies
    /\ \A s \in Sessions :
          /\ NoRepeat(thread[s])
          /\ \A m \in Elements(thread[s]) :
                \/ OfAPost(m) /\ post[m.of].state = "stored"
                \/ m.role = "staff" /\ m.of \in 1 .. Cardinality(Replies)

\* A replay is a part of the conversation that was asked for, which only grows.
ReplayOfThread ==
    \A t \in Tabs :
        /\ NoRepeat(boot[t].replay)
        /\ boot[t].replay # <<>> =>
              /\ boot[t].asked # None
              /\ Elements(boot[t].replay) \subseteq Elements(thread[boot[t].asked])

OwnPosts(t) == {turn[t].post, contact[t].post} \cap Posts

\* What a page shows or waits for has been sent.
ShowsWhatWasSent(t) ==
    /\ turn[t].pc # "none" => turn[t].post \in Posts
    /\ contact[t].pc # "none" => contact[t].post \in Posts
    /\ \A p \in OwnPosts(t) : post[p].state # "unused"
    /\ \A m \in Elements(log[t]) :
          m.role \in {"user", "assistant"} => OfAPost(m) /\ post[m.of].state # "unused"

\* Until the bootstrap is read, all of that is early.
EarlyUntilRead(t) ==
    boot[t].pc \in {"site", "sent"} =>
        /\ \A p \in OwnPosts(t) : post[p].early
        /\ \A m \in Elements(log[t]) : OfAPost(m) /\ post[m.of].early

\* Then it is early or no part of the replay, whose time is over.
ReplayMeetsEarly(t) ==
    boot[t].pc = "read" =>
        /\ \A p \in OwnPosts(t) :
              post[p].early \/ {Said(p), Answered(p)} \cap Elements(boot[t].replay) = {}
        /\ \A m \in Elements(log[t]) :
              OfAPost(m) /\ (post[m.of].early \/ m \notin Elements(boot[t].replay))

\* What a turn or a form is still to put on the page is not there yet, or early.
NotYetShown(t) ==
    /\ turn[t].post \in Posts /\ turn[t].answer = "none" =>
          post[turn[t].post].early \/ Answered(turn[t].post) \notin Elements(log[t])
    /\ contact[t].post \in Posts =>
          post[contact[t].post].early \/ Said(contact[t].post) \notin Elements(log[t])

PagesInOrder ==
    \A t \in Tabs :
        ShowsWhatWasSent(t) /\ EarlyUntilRead(t) /\ ReplayMeetsEarly(t) /\ NotYetShown(t)

\* On their way to the page, the replies are where the bootstrap looks for them.
DueArrives ==
    Durable =>
        /\ remembered = told
        /\ \A t \in Tabs :
              /\ boot[t].pc = "sent" /\ boot[t].owed # None => boot[t].asked = boot[t].owed
              /\ boot[t].pc = "read" => boot[t].due \subseteq Elements(boot[t].replay)

\* What the form of a page has sent is a contact of its session, and no other page's.
FormsInOrder ==
    \A t \in Tabs :
        LET c == contact[t] IN
        /\ c.pc # "none" => post[c.post].kind = "contact"
        /\ c.pc = "site" => post[c.post].state = "held"
        /\ c.pc = "open" =>
              /\ post[c.post].state \notin {"unused", "held"}
              /\ tab[t].session # None /\ post[c.post].session = tab[t].session
        /\ \A u \in Tabs \ {t} : OwnPosts(t) \cap OwnPosts(u) = {}

WidgetInv ==
    TypeOK /\ ThreadsInOrder /\ ReplayOfThread /\ PagesInOrder /\ NothingTwice

\* No conversation is longer than a replay.
ReplaysAreWhole == \A s \in Sessions : Len(thread[s]) <= ReplayLimit
-----------------------------------------------------------------------------
(* What comments say and the frame does not keep. *)

\* widget.js:1072: the greeting is not said to someone mid-conversation.
GreetingComesFirst ==
    \A t \in Tabs : \A i \in DOMAIN log[t] : log[t][i] = Greeting => i = 1

\* widget.js:97: once a ticket exists, nothing offers to open a second one.
OneTicketAtATime ==
    [][\A t \in Tabs :
          tab[t].ticketOpen /\ contact'[t].shown => contact[t].shown]_vars

\* widget.js:97, 1022-1032: nor does it to who comes back.
TicketIsRecalled ==
    [][\A t \in Tabs : boot[t].status = "open" /\ Restore(t) => tab'[t].ticketOpen]_vars
=============================================================================
