---------------------------- MODULE WidgetProofs ----------------------------
(***************************************************************************)
(* What the pages of the chat frame show, for any number of tabs, posts    *)
(* and replies, and for every order in which a page's three promise chains *)
(* and the server go on.                                                   *)
(***************************************************************************)
EXTENDS Widget, SequenceTheorems, FiniteSetTheorems, TLAPS

-----------------------------------------------------------------------------
(***************************************************************************)
(* What a sequence of messages holds, and what it holds twice.             *)
(***************************************************************************)
Twice(u, m) == \E i, j \in DOMAIN u : i < j /\ u[i] = m /\ u[j] = m

LEMMA ElementsOfSeq ==
    ASSUME NEW S, NEW u \in Seq(S)
    PROVE  /\ Elements(u) \subseteq S
           /\ \A m : m \in Elements(u) <=> \E i \in 1 .. Len(u) : u[i] = m
<1>1. DOMAIN u = 1 .. Len(u) /\ \A i \in 1 .. Len(u) : u[i] \in S
  BY LenProperties
<1> QED BY <1>1 DEF Elements

LEMMA NoElements == Elements(<<>>) = {}
BY DEF Elements

LEMMA NoRepeatTwice ==
    ASSUME NEW S, NEW u \in Seq(S)
    PROVE  NoRepeat(u) <=> \A m : ~Twice(u, m)
<1>1. DOMAIN u = 1 .. Len(u) /\ Len(u) \in Nat
  BY LenProperties
<1>2. ASSUME NoRepeat(u), NEW m, Twice(u, m) PROVE FALSE
  BY <1>1, <1>2 DEF NoRepeat, Twice
<1>3. ASSUME \A m : ~Twice(u, m), NEW i \in DOMAIN u, NEW j \in DOMAIN u, u[i] = u[j], i # j
      PROVE  FALSE
  <2>1. i \in Nat /\ j \in Nat
    BY <1>1
  <2>2. CASE i < j
    BY <1>3, <2>2 DEF Twice
  <2>3. CASE j < i
    BY <1>3, <2>3 DEF Twice
  <2> QED BY <1>3, <2>1, <2>2, <2>3
<1> QED BY <1>2, <1>3 DEF NoRepeat

LEMMA ConcatElements ==
    ASSUME NEW S, NEW u \in Seq(S), NEW v \in Seq(S)
    PROVE  Elements(u \o v) = Elements(u) \cup Elements(v)
<1>1. /\ u \o v \in Seq(S) /\ Len(u \o v) = Len(u) + Len(v)
      /\ \A i \in 1 .. Len(u) + Len(v) :
            (u \o v)[i] = IF i <= Len(u) THEN u[i] ELSE v[i - Len(u)]
      /\ Len(u) \in Nat /\ Len(v) \in Nat
  BY ConcatProperties, LenProperties
<1>2. ASSUME NEW m, m \in Elements(u \o v) PROVE m \in Elements(u) \cup Elements(v)
  <2>1. PICK i \in 1 .. Len(u) + Len(v) : (u \o v)[i] = m
    BY <1>1, <1>2, ElementsOfSeq
  <2>2. CASE i <= Len(u)
    <3>1. i \in 1 .. Len(u) /\ u[i] = m
      BY <1>1, <2>1, <2>2
    <3> QED BY <3>1, ElementsOfSeq
  <2>3. CASE i > Len(u)
    <3>1. i - Len(u) \in 1 .. Len(v) /\ v[i - Len(u)] = m
      BY <1>1, <2>1, <2>3
    <3> QED BY <3>1, ElementsOfSeq
  <2> QED BY <1>1, <2>2, <2>3
<1>3. ASSUME NEW m, m \in Elements(u) PROVE m \in Elements(u \o v)
  <2>1. PICK i \in 1 .. Len(u) : u[i] = m
    BY <1>3, ElementsOfSeq
  <2>2. i \in 1 .. Len(u \o v) /\ (u \o v)[i] = m
    BY <1>1, <2>1
  <2> QED BY <1>1, <2>2, ElementsOfSeq
<1>4. ASSUME NEW m, m \in Elements(v) PROVE m \in Elements(u \o v)
  <2>1. PICK i \in 1 .. Len(v) : v[i] = m
    BY <1>4, ElementsOfSeq
  <2>2. Len(u) + i \in 1 .. Len(u) + Len(v) /\ ~(Len(u) + i <= Len(u)) /\ Len(u) + i - Len(u) = i
    BY <1>1, <2>1
  <2>3. (u \o v)[Len(u) + i] = m
    BY <1>1, <2>1, <2>2
  <2> QED BY <1>1, <2>2, <2>3, ElementsOfSeq
<1> QED BY <1>2, <1>3, <1>4

LEMMA ConcatTwice ==
    ASSUME NEW S, NEW u \in Seq(S), NEW v \in Seq(S), NEW m, Twice(u \o v, m)
    PROVE  Twice(u, m) \/ Twice(v, m) \/ m \in Elements(u) \cap Elements(v)
<1>1. /\ u \o v \in Seq(S) /\ DOMAIN (u \o v) = 1 .. Len(u) + Len(v)
      /\ \A i \in 1 .. Len(u) + Len(v) :
            (u \o v)[i] = IF i <= Len(u) THEN u[i] ELSE v[i - Len(u)]
      /\ Len(u) \in Nat /\ Len(v) \in Nat
      /\ DOMAIN u = 1 .. Len(u) /\ DOMAIN v = 1 .. Len(v)
  <2>1. /\ u \o v \in Seq(S) /\ Len(u \o v) = Len(u) + Len(v)
        /\ \A i \in 1 .. Len(u) + Len(v) :
              (u \o v)[i] = IF i <= Len(u) THEN u[i] ELSE v[i - Len(u)]
    BY ConcatProperties
  <2>2. DOMAIN (u \o v) = 1 .. Len(u \o v)
    BY <2>1, LenProperties
  <2> QED BY <2>1, <2>2, LenProperties
<1>2. PICK i \in 1 .. Len(u) + Len(v), j \in 1 .. Len(u) + Len(v) :
         i < j /\ (u \o v)[i] = m /\ (u \o v)[j] = m
  BY <1>1 DEF Twice
<1>3. CASE j <= Len(u)
  <2>1. i \in DOMAIN u /\ j \in DOMAIN u /\ i < j /\ u[i] = m /\ u[j] = m
    BY <1>1, <1>2, <1>3
  <2> QED BY <2>1 DEF Twice
<1>4. CASE i > Len(u)
  <2> DEFINE a == i - Len(u)
             b == j - Len(u)
  <2>1. a \in DOMAIN v /\ b \in DOMAIN v /\ a < b /\ v[a] = m /\ v[b] = m
    BY <1>1, <1>2, <1>4
  <2> QED BY <2>1 DEF Twice
<1>5. CASE i <= Len(u) /\ j > Len(u)
  <2>1. i \in 1 .. Len(u) /\ u[i] = m /\ j - Len(u) \in 1 .. Len(v) /\ v[j - Len(u)] = m
    BY <1>1, <1>2, <1>5
  <2> QED BY <2>1, ElementsOfSeq
<1> QED BY <1>1, <1>2, <1>3, <1>4, <1>5

\* The same for one message more.
LEMMA AppendMessage ==
    ASSUME NEW S, NEW u \in Seq(S), NEW e \in S
    PROVE  /\ Append(u, e) \in Seq(S) /\ <<e>> \in Seq(S)
           /\ Append(u, e) = u \o <<e>>
           /\ Elements(<<e>>) = {e} /\ NoRepeat(<<e>>)
           /\ Elements(u \o <<e>>) = Elements(u) \cup {e}
<1>1. <<e>> \in Seq(S) /\ Append(u, e) \in Seq(S) /\ Append(u, e) = u \o <<e>>
  BY AppendProperties, AppendIsConcat
<1>2. Elements(<<e>>) = {e} /\ NoRepeat(<<e>>)
  BY DEF Elements, NoRepeat
<1>3. Elements(u \o <<e>>) = Elements(u) \cup Elements(<<e>>)
  BY <1>1, ConcatElements
<1> QED BY <1>1, <1>2, <1>3
-----------------------------------------------------------------------------
(***************************************************************************)
(* Types, and what the steps of a page do to it.                           *)
(***************************************************************************)
LEMMA MessageTypes ==
    /\ \A p \in Posts : Said(p) \in Message /\ Answered(p) \in Message /\ p # 0
    /\ \A k \in 1 .. MaxReplies : Replied(k) \in Message
    /\ Greeting \in Message
<1>1. MaxPosts \in Nat /\ MaxReplies \in Nat
  BY ConstantsAssumption
<1>2. \A p \in Posts : p \in 0 .. MaxPosts + MaxReplies /\ p # 0
  BY <1>1 DEF Posts
<1>3. \A k \in 1 .. MaxReplies : k \in 0 .. MaxPosts + MaxReplies
  BY <1>1
<1>4. 0 \in 0 .. MaxPosts + MaxReplies
  BY <1>1
<1> QED BY <1>2, <1>3, <1>4 DEF Said, Answered, Replied, Greeting, Message

PageTypes ==
    /\ tab \in [Tabs -> TabRecord] /\ boot \in [Tabs -> BootRecord]
    /\ turn \in [Tabs -> TurnRecord] /\ contact \in [Tabs -> ContactRecord]
    /\ log \in [Tabs -> Seq(Message)]

OthersStay(t) ==
    \A u \in Tabs \ {t} :
        /\ tab'[u] = tab[u] /\ boot'[u] = boot[u]
        /\ turn'[u] = turn[u] /\ contact'[u] = contact[u] /\ log'[u] = log[u]

LEMMA Put ==
    ASSUME NEW S, NEW f \in [Tabs -> S], NEW t \in Tabs, NEW r \in S
    PROVE  /\ [f EXCEPT ![t] = r] \in [Tabs -> S] /\ [f EXCEPT ![t] = r][t] = r
           /\ \A u \in Tabs \ {t} : [f EXCEPT ![t] = r][u] = f[u]
OBVIOUS

LEMMA BlankPage ==
    /\ NewBoot \in BootRecord /\ NoTurn \in TurnRecord /\ NoContact \in ContactRecord
    /\ <<>> \in Seq(Message)
<1>1. <<>> \in Seq(Message)
  BY EmptySeq
<1>2. 0 \in 0 .. MaxPosts
  BY ConstantsAssumption
<1> QED BY <1>1, <1>2 DEF NewBoot, BootRecord, NoTurn, TurnRecord, NoContact, ContactRecord,
             SessionOrNone, TicketStatuses

LEMMA ResetFacts ==
    ASSUME TypeOK, NEW t \in Tabs, NEW l \in BOOLEAN, NEW s \in SessionOrNone, Reset(t, l, s)
    PROVE  /\ PageTypes' /\ OthersStay(t)
           /\ tab'[t].loaded = l /\ boot'[t] = NewBoot /\ turn'[t] = NoTurn
           /\ contact'[t] = NoContact /\ log'[t] = <<>>
<1> DEFINE r == [loaded |-> l, session |-> s, ticketOpen |-> FALSE, offer |-> "never"]
<1>1. r \in TabRecord /\ r.loaded = l
  BY DEF TabRecord
<1>2. /\ tab' = [tab EXCEPT ![t] = r] /\ boot' = [boot EXCEPT ![t] = NewBoot]
      /\ turn' = [turn EXCEPT ![t] = NoTurn] /\ contact' = [contact EXCEPT ![t] = NoContact]
      /\ log' = [log EXCEPT ![t] = <<>>]
  BY DEF Reset
<1> HIDE DEF r
<1>3. PageTypes
  BY DEF TypeOK, PageTypes
<1>4. PageTypes'
  BY <1>1, <1>2, <1>3, BlankPage, Put DEF PageTypes
<1>5. OthersStay(t)
  BY <1>2, <1>3 DEF OthersStay, PageTypes
<1>6. tab'[t] = r /\ boot'[t] = NewBoot /\ turn'[t] = NoTurn
      /\ contact'[t] = NoContact /\ log'[t] = <<>>
  BY <1>2, <1>3 DEF PageTypes
<1> QED BY <1>1, <1>4, <1>5, <1>6

\* An id is drawn for a post that is there.
LEMMA SessionIdType ==
    ASSUME TypeOK, NEW t \in Tabs,
           NEW a \in Nat, NEW b \in Nat, NEW P, P \subseteq Posts \cap {a, b}, P # {}
    PROVE  SessionId(t, P) \in SessionOrNone
<1>1. Stored(t) \in SessionOrNone
  BY DEF Stored, TypeOK, TabRecord
<1>2. a <= b \/ b <= a
  OBVIOUS
<1>3. \E p \in P : \A q \in P : p <= q
  <2>1. CASE a \in P /\ (b \in P => a <= b)
    BY <2>1
  <2>2. CASE b \in P /\ (a \in P => b <= a)
    BY <2>2
  <2> QED BY <1>2, <2>1, <2>2
<1>4. (CHOOSE p \in P : \A q \in P : p <= q) \in Sessions
  BY <1>3 DEF Sessions
<1> QED BY <1>1, <1>4 DEF SessionId, SessionOrNone

LEMMA SendAllFacts ==
    ASSUME TypeOK, NEW t \in Tabs, NEW P, P # {} => SessionId(t, P) \in SessionOrNone,
           NEW posts \in [Posts -> PostRecord], SendAll(t, P, posts)
    PROVE  /\ tab' \in [Tabs -> TabRecord] /\ tab'[t].loaded = tab[t].loaded
           /\ \A u \in Tabs \ {t} : tab'[u] = tab[u]
           /\ post' \in [Posts -> PostRecord]
           /\ \A p \in Posts : post'[p].early = posts[p].early
           /\ \A p \in P \cap Posts : post'[p].state = "running"
           /\ \A p \in Posts \ P : post'[p] = posts[p]
<1> DEFINE s == SessionId(t, P)
           r == [tab[t] EXCEPT !.session = IF P = {} THEN @ ELSE s]
<1>1. P # {} => s \in SessionOrNone
  OBVIOUS
<1>2. tab' = [tab EXCEPT ![t] = r]
  BY DEF SendAll
<1>3. \A p \in Posts : post'[p] = IF p \in P THEN [posts[p] EXCEPT !.state = "running", !.session = s]
                                  ELSE posts[p]
  BY DEF SendAll
<1>4. post' = [p \in Posts |-> post'[p]]
  BY DEF SendAll
<1> HIDE DEF s
<1>5. tab[t].session \in SessionOrNone /\ tab[t] \in TabRecord
  BY DEF TypeOK, TabRecord
<1>6. r \in TabRecord /\ r.loaded = tab[t].loaded
  BY <1>1, <1>5 DEF TabRecord
<1> HIDE DEF r
<1>7. ASSUME NEW p \in Posts
      PROVE  /\ post'[p] \in PostRecord /\ post'[p].early = posts[p].early
             /\ p \in P => post'[p].state = "running"
             /\ p \notin P => post'[p] = posts[p]
  BY <1>1, <1>3 DEF PostRecord
<1>8. post' \in [Posts -> PostRecord]
  BY <1>4, <1>7
<1> QED BY <1>2, <1>6, <1>7, <1>8 DEF TypeOK

\* What has been sent stays sent, and when; what is stored stays stored.
PostsGoOn ==
    \A q \in Posts : post[q].state # "unused" =>
        /\ post'[q].state # "unused" /\ post'[q].early = post[q].early
        /\ post[q].state = "stored" => post'[q].state = "stored"

LEMMA PostNumbers ==
    ASSUME TypeOK, NEW t \in Tabs
    PROVE  /\ turn[t].post \in Nat /\ contact[t].post \in Nat
           /\ HeldBy(t) \subseteq Posts \cap {turn[t].post, contact[t].post}
<1>1. turn[t] \in TurnRecord /\ contact[t] \in ContactRecord
  BY DEF TypeOK
<1> QED BY <1>1 DEF TurnRecord, ContactRecord, HeldBy

LEMMA PostedFacts ==
    ASSUME TypeOK, NEW t \in Tabs, NEW p \in Posts, NEW kind \in {"turn", "contact"},
           NEW words \in BOOLEAN, Posted(t, p, kind, words)
    PROVE  /\ tab' \in [Tabs -> TabRecord] /\ tab'[t].loaded = tab[t].loaded
           /\ \A u \in Tabs \ {t} : tab'[u] = tab[u]
           /\ post' \in [Posts -> PostRecord] /\ PostsGoOn
           /\ post[p].state = "unused" /\ post'[p].state # "unused"
           /\ boot[t].pc \in {"site", "sent"} => post'[p].early
           /\ UNCHANGED <<thread, ticket>>
<1> DEFINE P == IF boot[t].pc = "site" THEN {} ELSE {p}
           r == [kind |-> kind, session |-> None, words |-> words, state |-> "held",
                 early |-> boot[t].pc \in {"site", "sent"}]
           posts == [post EXCEPT ![p] = r]
<1>1. SendAll(t, P, posts) /\ post[p].state = "unused" /\ UNCHANGED <<thread, ticket>>
  BY DEF Posted
<1>2. r \in PostRecord /\ r.state = "held" /\ r.early = (boot[t].pc \in {"site", "sent"})
  BY DEF PostRecord, SessionOrNone
<1>3. p \in Nat /\ P \subseteq Posts \cap {p, p}
  BY DEF Posts
<1> HIDE DEF r
<1>4. posts \in [Posts -> PostRecord] /\ posts[p] = r /\ \A q \in Posts \ {p} : posts[q] = post[q]
  BY <1>2 DEF TypeOK
<1> HIDE DEF posts
<1>5. /\ tab' \in [Tabs -> TabRecord] /\ tab'[t].loaded = tab[t].loaded
      /\ \A u \in Tabs \ {t} : tab'[u] = tab[u]
      /\ post' \in [Posts -> PostRecord]
      /\ \A q \in Posts : post'[q].early = posts[q].early
      /\ \A q \in P : post'[q].state = "running"
      /\ \A q \in Posts \ P : post'[q] = posts[q]
  <2>1. P # {} => SessionId(t, P) \in SessionOrNone
    BY <1>3, SessionIdType
  <2>2. \A q \in P : q \in Posts
    OBVIOUS
  <2> HIDE DEF P
  <2> QED BY <1>1, <1>4, <2>1, <2>2, SendAllFacts
<1>6. \A q \in Posts \ {p} : post'[q] = post[q]
  BY <1>4, <1>5
<1>7. post'[p].state # "unused" /\ post'[p].early = r.early
  BY <1>2, <1>4, <1>5
<1>8. PostsGoOn
  BY <1>1, <1>6 DEF PostsGoOn
<1> QED BY <1>1, <1>2, <1>5, <1>7, <1>8

\* A step of the server's, or of another page's, as a page sees it; or one that
\* only lets go of what it waits for.
Quiet(t) ==
    /\ log'[t] = log[t]
    /\ boot'[t].pc \in {"site", "sent"} => boot[t].pc \in {"site", "sent"}
    /\ boot'[t].pc = "read" => boot[t].pc = "read" /\ boot'[t].replay = boot[t].replay
    /\ turn'[t].pc # "none" => turn[t].pc # "none" /\ turn'[t].post = turn[t].post
    /\ turn'[t].post \in Posts =>
          turn'[t].post = turn[t].post /\ (turn'[t].answer = "none" => turn[t].answer = "none")
    /\ contact'[t].pc # "none" => contact[t].pc # "none" /\ contact'[t].post = contact[t].post
    /\ contact'[t].post \in Posts => contact'[t].post = contact[t].post

LEMMA OthersAreQuiet ==
    ASSUME NEW t \in Tabs, OthersStay(t), NEW u \in Tabs \ {t}
    PROVE  Quiet(u)
BY DEF OthersStay, Quiet

\* No post of a page is none.
LEMMA ZeroIsNoPost == 0 \notin Posts
BY DEF Posts

LEMMA SiteFacts ==
    ASSUME TypeOK, NEW t \in Tabs, SiteResolves(t)
    PROVE  /\ PageTypes' /\ post' \in [Posts -> PostRecord] /\ PostsGoOn
           /\ OthersStay(t) /\ Quiet(t)
           /\ boot[t].pc = "site"
           /\ boot'[t].pc = "sent" /\ boot'[t].asked = Stored(t) /\ boot'[t].replay = <<>>
           /\ boot'[t].owed = IF tab[t].session = None THEN told ELSE None
           /\ tab[t].loaded /\ tab'[t].loaded
<1> DEFINE b == [NewBoot EXCEPT !.pc = "sent", !.asked = Stored(t),
                                !.owed = IF tab[t].session = None THEN told ELSE None]
           P == HeldBy(t)
<1>1. /\ boot[t].pc = "site" /\ tab[t].loaded
      /\ boot' = [boot EXCEPT ![t] = b]
      /\ SendAll(t, P, post)
      /\ turn' = [turn EXCEPT ![t] = Opened(turn[t])]
      /\ contact' = [contact EXCEPT ![t] = Opened(contact[t])]
      /\ UNCHANGED log
  BY DEF SiteResolves
<1>2. PageTypes /\ post \in [Posts -> PostRecord]
  BY DEF TypeOK, PageTypes
<1>3. /\ b \in BootRecord
      /\ b.pc = "sent" /\ b.asked = Stored(t) /\ b.replay = <<>>
      /\ b.owed = IF tab[t].session = None THEN told ELSE None
  <2>1. Stored(t) \in SessionOrNone /\ told \in SessionOrNone /\ None \in SessionOrNone
    BY DEF Stored, TypeOK, TabRecord, SessionOrNone
  <2> HIDE DEF P
  <2> QED BY <2>1, BlankPage DEF BootRecord, NewBoot
<1>4. /\ Opened(turn[t]) \in TurnRecord /\ Opened(turn[t]).post = turn[t].post
      /\ Opened(turn[t]).answer = turn[t].answer
      /\ Opened(turn[t]).pc # "none" => turn[t].pc # "none"
  BY DEF TypeOK, TurnRecord, Opened
<1>5. /\ Opened(contact[t]) \in ContactRecord /\ Opened(contact[t]).post = contact[t].post
      /\ Opened(contact[t]).pc # "none" => contact[t].pc # "none"
  BY DEF TypeOK, ContactRecord, Opened
<1>6. /\ tab' \in [Tabs -> TabRecord] /\ tab'[t].loaded = tab[t].loaded
      /\ \A u \in Tabs \ {t} : tab'[u] = tab[u]
      /\ post' \in [Posts -> PostRecord]
      /\ \A p \in Posts : post'[p].early = post[p].early
      /\ \A p \in P : post'[p].state = "running"
      /\ \A p \in Posts \ P : post'[p] = post[p]
  <2> HIDE DEF P, b
  <2>1. P \subseteq Posts \cap {turn[t].post, contact[t].post}
        /\ turn[t].post \in Nat /\ contact[t].post \in Nat
    BY PostNumbers DEF P
  <2>2. P # {} => SessionId(t, P) \in SessionOrNone
    BY <2>1, SessionIdType, Zenon
  <2>3. \A p \in P : p \in Posts
    BY <2>1
  <2> QED BY <1>1, <1>2, <2>2, <2>3, SendAllFacts
<1>7. PostsGoOn
  <2>1. \A p \in P : post[p].state = "held"
    BY DEF HeldBy
  <2> HIDE DEF P, b
  <2> QED BY <1>6, <2>1 DEF PostsGoOn
<1> HIDE DEF P, b
<1>8. PageTypes'
  BY <1>1, <1>2, <1>3, <1>4, <1>5, <1>6, Put DEF PageTypes
<1>9. OthersStay(t)
  BY <1>1, <1>2, <1>6 DEF PageTypes, OthersStay
<1>10. /\ boot'[t] = b /\ turn'[t] = Opened(turn[t]) /\ contact'[t] = Opened(contact[t])
       /\ log'[t] = log[t]
  BY <1>1, <1>2 DEF PageTypes
<1>11. Quiet(t)
  BY <1>1, <1>3, <1>4, <1>5, <1>10 DEF Quiet
<1> QED BY <1>1, <1>3, <1>6, <1>7, <1>8, <1>9, <1>10, <1>11

\* One of a page's parts gets a new value.
LEMMA BootFacts ==
    ASSUME TypeOK, NEW t \in Tabs, NEW b \in BootRecord,
           boot' = [boot EXCEPT ![t] = b], UNCHANGED <<tab, turn, contact, log>>
    PROVE  PageTypes' /\ OthersStay(t) /\ boot'[t] = b
<1>1. PageTypes
  BY DEF TypeOK, PageTypes
<1> QED BY <1>1, Put DEF PageTypes, OthersStay

LEMMA TurnFacts ==
    ASSUME TypeOK, NEW t \in Tabs, NEW q \in TurnRecord,
           turn' = [turn EXCEPT ![t] = q], UNCHANGED <<tab, boot, contact, log>>
    PROVE  PageTypes' /\ OthersStay(t) /\ turn'[t] = q
<1>1. PageTypes
  BY DEF TypeOK, PageTypes
<1> QED BY <1>1, Put DEF PageTypes, OthersStay

LEMMA ContactFacts ==
    ASSUME TypeOK, NEW t \in Tabs, NEW q \in ContactRecord,
           contact' = [contact EXCEPT ![t] = q], UNCHANGED <<tab, boot, turn, log>>
    PROVE  PageTypes' /\ OthersStay(t) /\ contact'[t] = q
<1>1. PageTypes
  BY DEF TypeOK, PageTypes
<1> QED BY <1>1, Put DEF PageTypes, OthersStay

LEMMA BeginningFacts ==
    ASSUME NEW u \in Seq(Message), NEW n \in Nat, n <= Len(u)
    PROVE  /\ SubSeq(u, 1, n) \in Seq(Message) /\ Len(SubSeq(u, 1, n)) = n
           /\ NoRepeat(u) => NoRepeat(SubSeq(u, 1, n))
           /\ Elements(SubSeq(u, 1, n)) \subseteq Elements(u)
           /\ n = Len(u) => SubSeq(u, 1, n) = u
<1> DEFINE v == SubSeq(u, 1, n)
<1>1. /\ Len(u) \in Nat /\ DOMAIN u = 1 .. Len(u) /\ \A i \in 1 .. Len(u) : u[i] \in Message
  BY LenProperties
<1>2. \A i \in 1 .. n : i \in 1 .. Len(u) /\ u[i] \in Message
  <2>1. \A i \in 1 .. n : i \in 1 .. Len(u)
    BY <1>1
  <2> QED BY <1>1, <2>1
<1>3. /\ v \in Seq(Message) /\ Len(v) = n
      /\ \A i \in 1 .. n : v[i] = u[i]
  <2>1. /\ v \in Seq(Message) /\ Len(v) = IF 1 <= n THEN n - 1 + 1 ELSE 0
        /\ \A i \in 1 .. n - 1 + 1 : v[i] = u[1 + i - 1]
    BY <1>2, SubSeqProperties
  <2>2. n - 1 + 1 = n /\ \A i \in 1 .. n : 1 + i - 1 = i
    OBVIOUS
  <2> QED BY <2>1, <2>2
<1>4. n = Len(u) => v = u
  BY SubSeqFull
<1> HIDE DEF v
<1>5. DOMAIN v = 1 .. n
  BY <1>3, LenProperties
<1>6. NoRepeat(u) => NoRepeat(v)
  BY <1>1, <1>2, <1>3, <1>5 DEF NoRepeat
<1>7. Elements(v) \subseteq Elements(u)
  BY <1>1, <1>2, <1>3, <1>5 DEF Elements
<1> QED BY <1>3, <1>4, <1>6, <1>7 DEF v

LEMMA ConversationFacts ==
    ASSUME TypeOK, NEW s \in SessionOrNone
    PROVE  /\ Conversation(s) \in Seq(Message)
           /\ s = None => Conversation(s) = <<>>
           /\ s # None => s \in Sessions /\ Conversation(s) = thread[s]
BY EmptySeq DEF Conversation, SessionOrNone, TypeOK

\* What a replica holds is a beginning of the conversation,
LEMMA ReplicaFacts ==
    ASSUME TypeOK, NEW s \in SessionOrNone, NEW c \in OnReplica(s)
    PROVE  /\ c \in Seq(Message) /\ Len(c) <= Len(Conversation(s))
           /\ s = None => c = <<>>
           /\ s # None => /\ NoRepeat(thread[s]) => NoRepeat(c)
                          /\ Elements(c) \subseteq Elements(thread[s])
<1> DEFINE u == Conversation(s)
<1>1. u \in Seq(Message) /\ Len(u) \in Nat
  BY ConversationFacts, LenProperties
<1>2. PICK n \in 0 .. Len(u) : c = SubSeq(u, 1, n)
  BY DEF OnReplica
<1>3. n \in Nat /\ n <= Len(u)
  BY <1>1, <1>2
<1>4. /\ c \in Seq(Message) /\ Len(c) = n
      /\ NoRepeat(u) => NoRepeat(c)
      /\ Elements(c) \subseteq Elements(u)
      /\ n = Len(u) => c = u
  BY <1>1, <1>2, <1>3, BeginningFacts
<1>5. s = None => u = <<>> /\ Len(u) = 0
  BY ConversationFacts
<1>6. s = None => c = <<>>
  BY <1>3, <1>4, <1>5
<1>7. s # None => u = thread[s]
  BY ConversationFacts
<1> HIDE DEF u
<1> QED BY <1>3, <1>4, <1>6, <1>7 DEF u

\* and a replay a beginning of that.
LEMMA ReplayFacts ==
    ASSUME NEW c \in Seq(Message)
    PROVE  /\ Replay(c) \in Seq(Message)
           /\ c = <<>> => Replay(c) = <<>>
           /\ NoRepeat(c) => NoRepeat(Replay(c))
           /\ Elements(Replay(c)) \subseteq Elements(c)
           /\ Len(c) <= ReplayLimit => Replay(c) = c
<1> DEFINE n == IF Len(c) < ReplayLimit THEN Len(c) ELSE ReplayLimit
<1>1. Len(c) \in Nat /\ ReplayLimit \in Nat
  BY LenProperties, ConstantsAssumption
<1>2. n \in Nat /\ n <= Len(c) /\ (Len(c) <= ReplayLimit => n = Len(c))
  BY <1>1
<1>3. Replay(c) = SubSeq(c, 1, n)
  BY DEF Replay
<1> HIDE DEF n
<1>4. /\ Replay(c) \in Seq(Message)
      /\ NoRepeat(c) => NoRepeat(Replay(c))
      /\ Elements(Replay(c)) \subseteq Elements(c)
      /\ Len(c) <= ReplayLimit => Replay(c) = c
  BY <1>2, <1>3, BeginningFacts
<1>5. c = <<>> => Replay(c) = <<>>
  <2>1. c = <<>> => Len(c) <= ReplayLimit
    <3>1. c = <<>> => Len(c) = 0
      OBVIOUS
    <3> QED BY <1>1, <3>1
  <2> QED BY <1>4, <2>1
<1> QED BY <1>4, <1>5

LEMMA ReadFacts ==
    ASSUME TypeOK, NEW t \in Tabs, ReadState(t)
    PROVE  /\ PageTypes' /\ OthersStay(t)
           /\ boot[t].pc = "sent"
           /\ boot[t].asked \in SessionOrNone /\ boot[t].owed \in SessionOrNone
           /\ boot'[t].pc = "read" /\ boot'[t].asked = boot[t].asked
           /\ \E c \in OnReplica(boot[t].asked), o \in OnReplica(boot[t].owed) :
                 /\ boot[t].asked = boot[t].owed => c = o
                 /\ boot'[t].replay = Replay(c) /\ boot'[t].due = StaffIn(o)
           /\ UNCHANGED <<tab, turn, contact, log, remembered, post, thread, ticket, told>>
<1> DEFINE a == boot[t].asked
           w == boot[t].owed
<1>1. PICK c \in OnReplica(a), o \in OnReplica(w), st \in ShownAs(a) :
         /\ a = w => c = o
         /\ boot' = [boot EXCEPT ![t] =
               [NewBoot EXCEPT !.pc = "read", !.asked = a, !.replay = Replay(c),
                               !.status = st, !.due = StaffIn(o)]]
  BY DEF ReadState
<1> DEFINE b == [NewBoot EXCEPT !.pc = "read", !.asked = a, !.replay = Replay(c),
                                !.status = st, !.due = StaffIn(o)]
<1>2. /\ boot[t].pc = "sent"
      /\ UNCHANGED <<tab, turn, contact, log, remembered, post, thread, ticket, told>>
  BY DEF ReadState, server
<1>3. a \in SessionOrNone /\ w \in SessionOrNone
  BY DEF TypeOK, BootRecord
<1>4. c \in Seq(Message) /\ o \in Seq(Message)
  BY <1>3, ReplicaFacts
<1>5. Replay(c) \in Seq(Message) /\ StaffIn(o) \subseteq Message
  BY <1>4, ReplayFacts, ElementsOfSeq DEF StaffIn
<1>6. st \in TicketStatuses
  BY DEF ShownAs, TicketStatuses
<1> HIDE DEF a, w
<1>7. /\ b \in BootRecord /\ b.pc = "read" /\ b.asked = a
      /\ b.replay = Replay(c) /\ b.due = StaffIn(o)
  BY <1>3, <1>5, <1>6, BlankPage DEF BootRecord, NewBoot
<1>8. boot' = [boot EXCEPT ![t] = b]
  BY <1>1
<1> HIDE DEF b
<1>9. PageTypes' /\ OthersStay(t) /\ boot'[t] = b
  BY <1>2, <1>7, <1>8, BootFacts
<1> QED BY <1>1, <1>2, <1>3, <1>7, <1>9 DEF a, w

LEMMA BootFailsFacts ==
    ASSUME TypeOK, NEW t \in Tabs, BootFails(t)
    PROVE  /\ PageTypes' /\ OthersStay(t) /\ Quiet(t)
           /\ boot'[t].pc = "failed" /\ boot'[t].replay = <<>>
           /\ UNCHANGED <<tab, turn, contact, log, remembered, post, thread, ticket, told>>
<1> DEFINE b == [NewBoot EXCEPT !.pc = "failed"]
<1>1. /\ boot' = [boot EXCEPT ![t] = b]
      /\ UNCHANGED <<tab, turn, contact, log, remembered, post, thread, ticket, told>>
  BY DEF BootFails, server
<1>2. b \in BootRecord /\ b.pc = "failed" /\ b.replay = <<>>
  BY BlankPage DEF BootRecord, NewBoot
<1> HIDE DEF b
<1>3. PageTypes' /\ OthersStay(t) /\ boot'[t] = b
  BY <1>1, <1>2, BootFacts
<1> QED BY <1>1, <1>2, <1>3 DEF Quiet

LEMMA RestoreFacts ==
    ASSUME TypeOK, NEW t \in Tabs, Restore(t)
    PROVE  /\ PageTypes' /\ OthersStay(t)
           /\ boot[t].pc = "read" /\ boot[t].replay \in Seq(Message)
           /\ log'[t] = log[t] \o (IF boot[t].replay # <<>> THEN boot[t].replay ELSE <<Greeting>>)
           /\ boot'[t].pc = "restored" /\ boot'[t].replay = <<>> /\ boot'[t].due = boot[t].due
           /\ tab'[t].loaded = tab[t].loaded
           /\ UNCHANGED <<turn, contact, remembered, post, thread, ticket, told>>
<1> DEFINE any == boot[t].replay # <<>>
           new == IF any THEN boot[t].replay ELSE <<Greeting>>
           open == IF any /\ boot[t].status # "none" THEN boot[t].status = "open"
                   ELSE tab[t].ticketOpen
           x == [tab[t] EXCEPT !.ticketOpen = open]
           b == [NewBoot EXCEPT !.pc = "restored", !.due = boot[t].due]
<1>1. /\ boot[t].pc = "read"
      /\ log' = [log EXCEPT ![t] = log[t] \o new]
      /\ tab' = [tab EXCEPT ![t] = x]
      /\ boot' = [boot EXCEPT ![t] = b]
      /\ UNCHANGED <<turn, contact, remembered, post, thread, ticket, told>>
  BY DEF Restore, server
<1>2. PageTypes /\ boot[t].replay \in Seq(Message) /\ boot[t].due \subseteq Message
  BY DEF TypeOK, PageTypes, BootRecord
<1>3. new \in Seq(Message)
  <2>1. <<Greeting>> \in Seq(Message)
    BY MessageTypes, <1>2, AppendMessage
  <2> QED BY <1>2, <2>1
<1>4. open \in BOOLEAN
  BY DEF TypeOK, TabRecord
<1> HIDE DEF new, open
<1>5. x \in TabRecord /\ x.loaded = tab[t].loaded
  BY <1>4 DEF TypeOK, TabRecord
<1>6. b \in BootRecord /\ b.pc = "restored" /\ b.replay = <<>> /\ b.due = boot[t].due
  BY <1>2, BlankPage DEF BootRecord, NewBoot
<1>7. log[t] \o new \in Seq(Message)
  BY <1>2, <1>3, ConcatProperties DEF PageTypes
<1> HIDE DEF x, b
<1>8. PageTypes' /\ OthersStay(t)
  BY <1>1, <1>2, <1>5, <1>6, <1>7, Put DEF PageTypes, OthersStay
<1>9. log'[t] = log[t] \o new /\ tab'[t] = x /\ boot'[t] = b
  BY <1>1, <1>2 DEF PageTypes
<1> QED BY <1>1, <1>2, <1>5, <1>6, <1>8, <1>9 DEF new

LEMMA SendFacts ==
    ASSUME TypeOK, NEW t \in Tabs, NEW p \in Posts, Send(t, p)
    PROVE  /\ PageTypes' /\ OthersStay(t)
           /\ post' \in [Posts -> PostRecord] /\ PostsGoOn
           /\ post[p].state = "unused" /\ post'[p].state # "unused"
           /\ boot[t].pc \in {"site", "sent"} => post'[p].early
           /\ tab[t].loaded /\ tab'[t].loaded
           /\ turn[t].pc = "none" /\ turn'[t].pc # "none" /\ turn'[t].post = p
           /\ log'[t] = log[t] \o <<Said(p)>>
           /\ UNCHANGED <<boot, contact, remembered, told, thread, ticket>>
<1> DEFINE q == [pc |-> PcOfPost(t), post |-> p, answer |-> "none", escalate |-> FALSE]
           l == Append(log[t], Said(p))
<1>1. /\ tab[t].loaded /\ turn[t].pc = "none" /\ Posted(t, p, "turn", TRUE)
      /\ log' = [log EXCEPT ![t] = l] /\ turn' = [turn EXCEPT ![t] = q]
      /\ UNCHANGED <<boot, contact, remembered, told>>
  BY DEF Send
<1>2. /\ tab' \in [Tabs -> TabRecord] /\ tab'[t].loaded = tab[t].loaded
      /\ \A u \in Tabs \ {t} : tab'[u] = tab[u]
      /\ post' \in [Posts -> PostRecord] /\ PostsGoOn
      /\ post[p].state = "unused" /\ post'[p].state # "unused"
      /\ boot[t].pc \in {"site", "sent"} => post'[p].early
      /\ UNCHANGED <<thread, ticket>>
  BY <1>1, PostedFacts
<1>3. PageTypes
  BY DEF TypeOK, PageTypes
<1>4. q \in TurnRecord /\ q.pc # "none" /\ q.post = p
  <2>1. p \in 0 .. MaxPosts
    BY ConstantsAssumption DEF Posts
  <2> QED BY <2>1 DEF TurnRecord, PcOfPost
<1>5. l \in Seq(Message) /\ l = log[t] \o <<Said(p)>>
  BY <1>3, MessageTypes, AppendMessage DEF PageTypes
<1> HIDE DEF q, l
<1>6. PageTypes' /\ OthersStay(t)
  BY <1>1, <1>2, <1>3, <1>4, <1>5, Put DEF PageTypes, OthersStay
<1>7. log'[t] = l /\ turn'[t] = q
  BY <1>1, <1>3 DEF PageTypes
<1> QED BY <1>1, <1>2, <1>4, <1>5, <1>6, <1>7

LEMMA TokenFacts ==
    ASSUME TypeOK, NEW t \in Tabs, Token(t)
    PROVE  /\ PageTypes' /\ OthersStay(t)
           /\ turn[t].pc = "open" /\ turn'[t].pc = "open" /\ turn'[t].post = turn[t].post
           /\ turn'[t].answer # "none"
           /\ turn[t].post \in Posts =>
                 log'[t] = log[t] \o IF turn[t].answer = "none" THEN <<Answered(turn[t].post)>> ELSE <<>>
           /\ UNCHANGED <<tab, boot, contact, remembered, post, thread, ticket, told>>
<1> DEFINE l == log[t] \o BubbleFor(turn[t])
<1>1. PICK a \in {"typing", "shown"} : turn' = [turn EXCEPT ![t].answer = a]
  BY DEF Token
<1> DEFINE q == [turn[t] EXCEPT !.answer = a]
<1>2. /\ turn[t].pc = "open" /\ log' = [log EXCEPT ![t] = l]
      /\ UNCHANGED <<tab, boot, contact, remembered, post, thread, ticket, told>>
  BY DEF Token, server
<1>3. turn' = [turn EXCEPT ![t] = q]
  BY <1>1
<1>4. q \in TurnRecord /\ q.pc = turn[t].pc /\ q.post = turn[t].post /\ q.answer = a
  BY DEF TypeOK, TurnRecord
<1>5. PageTypes
  BY DEF TypeOK, PageTypes
<1>6. l \in Seq(Message)
  <2>1. turn[t].post \in 0 .. MaxPosts /\ MaxPosts \in Nat /\ MaxReplies \in Nat
    BY ConstantsAssumption DEF TypeOK, TurnRecord
  <2>2. turn[t].post \in 0 .. MaxPosts + MaxReplies
    BY <2>1
  <2>3. Answered(turn[t].post) \in Message
    BY <2>2 DEF Answered, Message
  <2>4. <<Answered(turn[t].post)>> \in Seq(Message) /\ <<>> \in Seq(Message)
    BY <1>5, <2>3, AppendMessage, EmptySeq DEF PageTypes
  <2>5. BubbleFor(turn[t]) \in Seq(Message)
    BY <2>4 DEF BubbleFor
  <2> QED BY <1>5, <2>5, ConcatProperties DEF PageTypes
<1>7. l = log[t] \o IF turn[t].answer = "none" THEN <<Answered(turn[t].post)>> ELSE <<>>
  BY DEF BubbleFor
<1> HIDE DEF l, q
<1>8. PageTypes' /\ OthersStay(t)
  BY <1>2, <1>3, <1>4, <1>5, <1>6, Put DEF PageTypes, OthersStay
<1>9. log'[t] = l /\ turn'[t] = q
  BY <1>2, <1>3, <1>5 DEF PageTypes
<1> QED BY <1>2, <1>4, <1>7, <1>8, <1>9

\* A turn that goes on, with its answer.
LEMMA TurnGoesOn ==
    ASSUME TypeOK, NEW t \in Tabs, Type(t) \/ Done(t) \/ Error(t) \/ EndOfStream(t)
    PROVE  /\ PageTypes' /\ OthersStay(t) /\ Quiet(t)
           /\ turn[t] # NoTurn /\ (turn'[t].pc = "none" => turn[t].pc = "none")
           /\ UNCHANGED <<tab, boot, contact, log, remembered, post, thread, ticket, told>>
<1>1. UNCHANGED <<tab, boot, contact, log, remembered, post, thread, ticket, told>>
  BY DEF Type, Done, Error, EndOfStream, server
<1>2. \E q \in TurnRecord :
         /\ turn' = [turn EXCEPT ![t] = q] /\ q.post = turn[t].post
         /\ q.answer = "none" => turn[t].answer = "none"
         /\ q.pc = "none" <=> turn[t].pc = "none"
         /\ turn[t] # NoTurn
  <2>1. CASE Type(t)
    <3> DEFINE q == [turn[t] EXCEPT !.answer = "shown"]
    <3>1. turn' = [turn EXCEPT ![t] = q] /\ turn[t].answer = "typing"
      BY <2>1 DEF Type
    <3>2. q \in TurnRecord /\ q.post = turn[t].post /\ q.pc = turn[t].pc /\ q.answer = "shown"
      BY DEF TypeOK, TurnRecord
    <3> HIDE DEF q
    <3>3. /\ q \in TurnRecord /\ turn' = [turn EXCEPT ![t] = q] /\ q.post = turn[t].post
          /\ q.answer = "none" => turn[t].answer = "none"
          /\ q.pc = "none" <=> turn[t].pc = "none"
          /\ turn[t] # NoTurn
      BY <3>1, <3>2 DEF NoTurn
    <3> QED BY <3>3, Zenon
  <2>2. CASE Done(t)
    <3>1. PICK miss \in BOOLEAN :
             turn' = [turn EXCEPT ![t] =
               [pc |-> "ended", post |-> turn[t].post, answer |-> turn[t].answer, escalate |-> miss]]
      BY <2>2 DEF Done
    <3> DEFINE q == [pc |-> "ended", post |-> turn[t].post, answer |-> turn[t].answer,
                     escalate |-> miss]
    <3>2. q \in TurnRecord /\ q.post = turn[t].post /\ q.pc = "ended" /\ q.answer = turn[t].answer
      BY DEF TypeOK, TurnRecord
    <3>3. turn[t].pc = "open"
      BY <2>2 DEF Done
    <3>4. turn' = [turn EXCEPT ![t] = q]
      BY <3>1
    <3> HIDE DEF q
    <3>5. /\ q \in TurnRecord /\ turn' = [turn EXCEPT ![t] = q] /\ q.post = turn[t].post
          /\ q.answer = "none" => turn[t].answer = "none"
          /\ q.pc = "none" <=> turn[t].pc = "none"
          /\ turn[t] # NoTurn
      BY <3>2, <3>3, <3>4 DEF NoTurn
    <3> QED BY <3>5, Zenon
  <2>3. CASE Error(t) \/ EndOfStream(t)
    <3>1. PICK x \in {"ended", "typing"} : turn' = [turn EXCEPT ![t].pc = x]
      BY <2>3 DEF Error, EndOfStream
    <3> DEFINE q == [turn[t] EXCEPT !.pc = x]
    <3>2. q \in TurnRecord /\ q.post = turn[t].post /\ q.pc = x /\ q.answer = turn[t].answer
      BY DEF TypeOK, TurnRecord
    <3>3. turn' = [turn EXCEPT ![t] = q]
      BY <3>1
    <3>4. x # "none" /\ turn[t].pc # "none" /\ turn[t] # NoTurn
      BY <2>3 DEF Error, EndOfStream, NoTurn
    <3> HIDE DEF q
    <3>5. /\ q \in TurnRecord /\ turn' = [turn EXCEPT ![t] = q] /\ q.post = turn[t].post
          /\ q.answer = "none" => turn[t].answer = "none"
          /\ q.pc = "none" <=> turn[t].pc = "none"
          /\ turn[t] # NoTurn
      BY <3>2, <3>3, <3>4
    <3> QED BY <3>5, Zenon
  <2> QED BY <2>1, <2>2, <2>3
<1>3. PICK q \in TurnRecord :
         /\ turn' = [turn EXCEPT ![t] = q] /\ q.post = turn[t].post
         /\ q.answer = "none" => turn[t].answer = "none"
         /\ q.pc = "none" <=> turn[t].pc = "none"
         /\ turn[t] # NoTurn
  BY <1>2
<1>4. PageTypes' /\ OthersStay(t) /\ turn'[t] = q
  BY <1>1, <1>3, TurnFacts
<1> QED BY <1>1, <1>3, <1>4 DEF Quiet

\* A turn that is over, however it ended.
LEMMA FinishFacts ==
    ASSUME TypeOK, NEW t \in Tabs, FinishTurn(t)
    PROVE  /\ PageTypes' /\ OthersStay(t) /\ Quiet(t)
           /\ turn'[t] = NoTurn /\ tab'[t].loaded = tab[t].loaded
           /\ UNCHANGED <<boot, contact, log, remembered, post, thread, ticket, told>>
<1> DEFINE o == Offered(t)
           x == [tab[t] EXCEPT !.offer = o]
<1>1. /\ turn' = [turn EXCEPT ![t] = NoTurn] /\ tab' = [tab EXCEPT ![t] = x]
      /\ UNCHANGED <<boot, contact, log, remembered, post, thread, ticket, told>>
  BY DEF FinishTurn, server
<1>2. o \in {"never", "shown", "taken"}
  BY DEF Offered, TypeOK, TabRecord
<1> HIDE DEF o
<1>3. x \in TabRecord /\ x.loaded = tab[t].loaded
  BY <1>2 DEF TypeOK, TabRecord
<1>4. PageTypes
  BY DEF TypeOK, PageTypes
<1> HIDE DEF x
<1>5. PageTypes' /\ OthersStay(t)
  BY <1>1, <1>3, <1>4, BlankPage, Put DEF PageTypes, OthersStay
<1>6. turn'[t] = NoTurn /\ tab'[t] = x
  BY <1>1, <1>4 DEF PageTypes
<1>7. Quiet(t)
  BY <1>1, <1>6, ZeroIsNoPost DEF Quiet, NoTurn
<1> QED BY <1>1, <1>3, <1>5, <1>6, <1>7

\* The form is opened, put away or left as it is, its chain broken off.
LEMMA FormFacts ==
    ASSUME TypeOK, NEW t \in Tabs,
           OpenForm(t) \/ TakeOffer(t) \/ CancelForm(t) \/ ContactFails(t)
    PROVE  /\ PageTypes' /\ OthersStay(t) /\ Quiet(t)
           /\ tab'[t].loaded = tab[t].loaded
           /\ UNCHANGED <<boot, turn, log, remembered, post, thread, ticket, told>>
<1>1. UNCHANGED <<boot, turn, log, remembered, post, thread, ticket, told>>
  BY DEF OpenForm, TakeOffer, CancelForm, ContactFails, Shows, server
<1>2. PageTypes
  BY DEF TypeOK, PageTypes
<1>3. /\ tab' \in [Tabs -> TabRecord] /\ tab'[t].loaded = tab[t].loaded
      /\ \A u \in Tabs \ {t} : tab'[u] = tab[u]
  <2>1. CASE TakeOffer(t)
    <3> DEFINE x == [tab[t] EXCEPT !.offer = "taken"]
    <3>1. tab' = [tab EXCEPT ![t] = x]
      BY <2>1 DEF TakeOffer
    <3>2. x \in TabRecord /\ x.loaded = tab[t].loaded
      BY DEF TypeOK, TabRecord
    <3> HIDE DEF x
    <3> QED BY <1>2, <3>1, <3>2 DEF PageTypes
  <2>2. CASE UNCHANGED tab
    BY <1>2, <2>2 DEF PageTypes
  <2> QED BY <2>1, <2>2 DEF OpenForm, CancelForm, ContactFails
<1>4. \E q \in ContactRecord :
         /\ contact' = [contact EXCEPT ![t] = q]
         /\ q.pc # "none" => contact[t].pc # "none" /\ q.post = contact[t].post
         /\ q.post \in Posts => q.post = contact[t].post
  <2>1. CASE ContactFails(t)
    <3> DEFINE q == [pc |-> "none", post |-> 0, shown |-> contact[t].shown]
    <3>1. contact' = [contact EXCEPT ![t] = q]
      BY <2>1 DEF ContactFails
    <3>2. q \in ContactRecord /\ q.pc = "none" /\ q.post = 0
      BY ConstantsAssumption DEF TypeOK, ContactRecord
    <3> HIDE DEF q
    <3>3. /\ q \in ContactRecord /\ contact' = [contact EXCEPT ![t] = q]
          /\ q.pc # "none" => contact[t].pc # "none" /\ q.post = contact[t].post
          /\ q.post \in Posts => q.post = contact[t].post
      BY <3>1, <3>2, ZeroIsNoPost
    <3> QED BY <3>3, Zenon
  <2>2. CASE OpenForm(t) \/ TakeOffer(t) \/ CancelForm(t)
    <3>1. PICK x \in BOOLEAN : contact' = [contact EXCEPT ![t].shown = x]
      BY <2>2 DEF OpenForm, TakeOffer, CancelForm, Shows
    <3> DEFINE q == [contact[t] EXCEPT !.shown = x]
    <3>2. contact' = [contact EXCEPT ![t] = q]
      BY <3>1
    <3>3. q \in ContactRecord /\ q.pc = contact[t].pc /\ q.post = contact[t].post
      BY DEF TypeOK, ContactRecord
    <3> HIDE DEF q
    <3>4. /\ q \in ContactRecord /\ contact' = [contact EXCEPT ![t] = q]
          /\ q.pc # "none" => contact[t].pc # "none" /\ q.post = contact[t].post
          /\ q.post \in Posts => q.post = contact[t].post
      BY <3>2, <3>3
    <3> QED BY <3>4, Zenon
  <2> QED BY <2>1, <2>2
<1>5. PICK q \in ContactRecord :
         /\ contact' = [contact EXCEPT ![t] = q]
         /\ q.pc # "none" => contact[t].pc # "none" /\ q.post = contact[t].post
         /\ q.post \in Posts => q.post = contact[t].post
  BY <1>4
<1>6. PageTypes' /\ OthersStay(t) /\ contact'[t] = q
  BY <1>1, <1>2, <1>3, <1>5, Put DEF PageTypes, OthersStay
<1>7. Quiet(t)
  BY <1>1, <1>5, <1>6 DEF Quiet
<1> QED BY <1>1, <1>3, <1>6, <1>7

LEMMA SubmitFacts ==
    ASSUME TypeOK, NEW t \in Tabs, NEW p \in Posts, Submit(t, p)
    PROVE  /\ PageTypes' /\ OthersStay(t)
           /\ post' \in [Posts -> PostRecord] /\ PostsGoOn
           /\ post[p].state = "unused" /\ post'[p].state # "unused"
           /\ boot[t].pc \in {"site", "sent"} => post'[p].early
           /\ tab'[t].loaded = tab[t].loaded
           /\ contact'[t].pc # "none" /\ contact'[t].post = p
           /\ UNCHANGED <<boot, turn, log, remembered, told, thread, ticket>>
<1> DEFINE q == [pc |-> PcOfPost(t), post |-> p, shown |-> TRUE]
<1>1. PICK words \in BOOLEAN : Posted(t, p, "contact", words)
  BY DEF Submit
<1>2. contact' = [contact EXCEPT ![t] = q] /\ UNCHANGED <<boot, turn, log, remembered, told>>
  BY DEF Submit
<1>3. /\ tab' \in [Tabs -> TabRecord] /\ tab'[t].loaded = tab[t].loaded
      /\ \A u \in Tabs \ {t} : tab'[u] = tab[u]
      /\ post' \in [Posts -> PostRecord] /\ PostsGoOn
      /\ post[p].state = "unused" /\ post'[p].state # "unused"
      /\ boot[t].pc \in {"site", "sent"} => post'[p].early
      /\ UNCHANGED <<thread, ticket>>
  BY <1>1, PostedFacts
<1>4. PageTypes
  BY DEF TypeOK, PageTypes
<1>5. q \in ContactRecord /\ q.pc # "none" /\ q.post = p
  <2>1. p \in 0 .. MaxPosts
    BY ConstantsAssumption DEF Posts
  <2> QED BY <2>1 DEF ContactRecord, PcOfPost
<1> HIDE DEF q
<1>6. PageTypes' /\ OthersStay(t)
  BY <1>2, <1>3, <1>4, <1>5, Put DEF PageTypes, OthersStay
<1>7. contact'[t] = q
  BY <1>2, <1>4 DEF PageTypes
<1> QED BY <1>2, <1>3, <1>5, <1>6, <1>7

LEMMA AcknowledgeFacts ==
    ASSUME TypeOK, NEW t \in Tabs, Acknowledge(t)
    PROVE  /\ PageTypes' /\ OthersStay(t)
           /\ contact[t].pc = "open" /\ contact'[t] = NoContact
           /\ tab'[t].loaded = tab[t].loaded
           /\ \/ log'[t] = log[t]
              \/ log'[t] = log[t] \o <<Said(contact[t].post)>>
           /\ told' = tab[t].session /\ remembered' = Remember(tab[t].session)
           /\ told' \in SessionOrNone /\ remembered' \in SessionOrNone
           /\ UNCHANGED <<boot, turn, post, thread, ticket>>
<1> DEFINE p == contact[t].post
           v == IF post[p].words THEN <<Said(p)>> ELSE <<>>
           x == [tab[t] EXCEPT !.ticketOpen = TRUE]
           l == log[t] \o v
<1>1. /\ contact[t].pc = "open"
      /\ told' = tab[t].session /\ remembered' = Remember(tab[t].session)
      /\ tab' = [tab EXCEPT ![t] = x] /\ contact' = [contact EXCEPT ![t] = NoContact]
      /\ log' = [log EXCEPT ![t] = l]
      /\ UNCHANGED <<boot, turn, post, thread, ticket>>
  BY DEF Acknowledge, Created, server
<1>2. x \in TabRecord /\ x.loaded = tab[t].loaded /\ tab[t].session \in SessionOrNone
  BY DEF TypeOK, TabRecord
<1>3. remembered' \in SessionOrNone
  BY <1>1, <1>2 DEF Remember, TypeOK
<1>4. PageTypes
  BY DEF TypeOK, PageTypes
<1>5. <<Said(p)>> \in Seq(Message)
  <2>1. p \in 0 .. MaxPosts /\ MaxPosts \in Nat /\ MaxReplies \in Nat
    BY ConstantsAssumption DEF TypeOK, ContactRecord
  <2>2. p \in 0 .. MaxPosts + MaxReplies
    BY <2>1
  <2>3. Said(p) \in Message
    BY <2>2 DEF Said, Message
  <2> QED BY <1>4, <2>3, AppendMessage DEF PageTypes
<1>6. v \in Seq(Message)
  BY <1>5, EmptySeq
<1>7. l \in Seq(Message)
  BY <1>4, <1>6, ConcatProperties DEF PageTypes
<1>8. l = log[t] \/ l = log[t] \o <<Said(p)>>
  BY <1>4, ConcatEmptySeq DEF PageTypes
<1> HIDE DEF p, v, x, l
<1>9. PageTypes' /\ OthersStay(t)
  BY <1>1, <1>2, <1>4, <1>7, BlankPage, Put DEF PageTypes, OthersStay
<1>10. log'[t] = l /\ tab'[t] = x /\ contact'[t] = NoContact
  BY <1>1, <1>4 DEF PageTypes
<1> QED BY <1>1, <1>2, <1>3, <1>8, <1>9, <1>10 DEF p
-----------------------------------------------------------------------------
(***************************************************************************)
(* What the server's steps do to the conversations.                        *)
(***************************************************************************)
LEMMA RepliesFinite ==
    ASSUME thread \in [Sessions -> Seq(Message)]
    PROVE  /\ IsFiniteSet(Replies) /\ Cardinality(Replies) \in Nat
           /\ \A m : m \in Replies <=>
                 m.role = "staff" /\ \E s \in Sessions : m \in Elements(thread[s])
<1> DEFINE N == MaxPosts + MaxReplies
           f == [k \in 0 .. N |-> Replied(k)]
           R == {f[k] : k \in 0 .. N}
<1>1. N \in Nat
  BY ConstantsAssumption
<1>2. \A m : m \in Replies <=> m.role = "staff" /\ \E s \in Sessions : m \in Elements(thread[s])
  BY DEF Replies, StaffIn
<1>3. \A s \in Sessions : Elements(thread[s]) \subseteq Message
  BY ElementsOfSeq
<1>4. ASSUME NEW m \in Replies PROVE m \in R
  <2>1. m \in Message /\ m.role = "staff"
    BY <1>2, <1>3
  <2>2. m.of \in 0 .. N /\ m = Replied(m.of)
    BY <2>1 DEF Message, Replied
  <2> QED BY <2>2
<1>5. f \in Surjection(0 .. N, R)
  BY DEF Surjection
<1>6. IsFiniteSet(0 .. N)
  BY <1>1, FS_Interval
<1> HIDE DEF f, R, N
<1>7. IsFiniteSet(R)
  BY <1>5, <1>6, FS_Surjection
<1>8. IsFiniteSet(Replies)
  BY <1>4, <1>7, FS_Subset
<1> QED BY <1>2, <1>8, FS_CardinalityType

LEMMA StoreFacts ==
    ASSUME TypeOK, NEW p \in Posts, Store(p)
    PROVE  /\ post' \in [Posts -> PostRecord] /\ PostsGoOn
           /\ post[p].state = "running" /\ post'[p].state = "stored"
           /\ thread' \in [Sessions -> Seq(Message)] /\ ticket' \in [Sessions -> TicketStatuses]
           /\ Messages(p) \in Seq(Message) /\ NoRepeat(Messages(p))
           /\ Elements(Messages(p)) \subseteq {Said(p), Answered(p)}
           /\ \A s \in Sessions :
                 thread'[s] = thread[s] \/ thread'[s] = thread[s] \o Messages(p)
           /\ UNCHANGED <<tab, boot, turn, contact, log, remembered, told>>
<1> DEFINE s == post[p].session
           r == [post[p] EXCEPT !.state = "stored"]
           v == Messages(p)
<1>1. /\ post[p].state = "running" /\ post' = [post EXCEPT ![p] = r]
      /\ thread' = [thread EXCEPT ![s] = thread[s] \o v]
      /\ ticket' = IF post[p].kind = "contact" THEN [ticket EXCEPT ![s] = "open"] ELSE ticket
      /\ UNCHANGED <<tab, boot, turn, contact, log, remembered, told>>
  BY DEF Store, page
<1>2. /\ v \in Seq(Message) /\ NoRepeat(v) /\ Elements(v) \subseteq {Said(p), Answered(p)}
  <2>1. Said(p) \in Message /\ Answered(p) \in Message /\ Said(p) # Answered(p)
    BY MessageTypes DEF Said, Answered
  <2>2. CASE v = <<Said(p), Answered(p)>>
    BY <2>1, <2>2 DEF NoRepeat, Elements
  <2>3. CASE v = <<Said(p)>>
    BY <2>1, <2>3 DEF NoRepeat, Elements
  <2>4. CASE v = <<>>
    BY <2>4, EmptySeq DEF NoRepeat, Elements
  <2> QED BY <2>2, <2>3, <2>4 DEF Messages
<1>3. r \in PostRecord /\ r.state = "stored" /\ r.early = post[p].early
  BY DEF TypeOK, PostRecord
<1> HIDE DEF r, v
<1>4. post' \in [Posts -> PostRecord] /\ post'[p] = r /\ \A q \in Posts \ {p} : post'[q] = post[q]
  BY <1>1, <1>3 DEF TypeOK
<1>5. PostsGoOn
  BY <1>3, <1>4 DEF PostsGoOn
<1>6. thread \in [Sessions -> Seq(Message)]
  BY DEF TypeOK
<1> HIDE DEF s
<1>7. ASSUME NEW x \in Sessions PROVE thread'[x] = IF x = s THEN thread[x] \o v ELSE thread[x]
  BY <1>1, <1>6
<1>8. \A x \in Sessions : thread[x] \o v \in Seq(Message)
  BY <1>2, <1>6, ConcatProperties
<1>9. thread' \in [Sessions -> Seq(Message)]
  <2>1. thread' = [x \in Sessions |-> thread'[x]]
    BY <1>1, <1>6
  <2>2. \A x \in Sessions : thread'[x] \in Seq(Message)
    BY <1>6, <1>7, <1>8
  <2> QED BY <2>1, <2>2
<1>10. ticket' \in [Sessions -> TicketStatuses]
  <2>1. "open" \in TicketStatuses /\ ticket \in [Sessions -> TicketStatuses]
    BY DEF TypeOK, TicketStatuses
  <2> QED BY <1>1, <2>1
<1> QED BY <1>1, <1>2, <1>3, <1>4, <1>5, <1>7, <1>9, <1>10 DEF v

LEMMA ReplyFacts ==
    ASSUME TypeOK, NEW s \in Sessions, Reply(s)
    PROVE  /\ thread' \in [Sessions -> Seq(Message)]
           /\ Replied(Cardinality(Replies) + 1) \in Message
           /\ Cardinality(Replies) + 1 <= MaxReplies
           /\ thread'[s] = thread[s] \o <<Replied(Cardinality(Replies) + 1)>>
           /\ \A x \in Sessions \ {s} : thread'[x] = thread[x]
           /\ UNCHANGED <<tab, boot, turn, contact, log, remembered, post, ticket, told>>
<1> DEFINE k == Cardinality(Replies) + 1
           l == Append(thread[s], Replied(k))
<1>1. /\ k <= MaxReplies /\ thread' = [thread EXCEPT ![s] = l]
      /\ UNCHANGED <<tab, boot, turn, contact, log, remembered, post, ticket, told>>
  BY DEF Reply, page
<1>2. thread \in [Sessions -> Seq(Message)]
  BY DEF TypeOK
<1>3. k \in 1 .. MaxReplies
  <2>1. Cardinality(Replies) \in Nat /\ MaxReplies \in Nat
    BY <1>2, RepliesFinite, ConstantsAssumption
  <2> QED BY <1>1, <2>1
<1>4. Replied(k) \in Message
  BY <1>3, MessageTypes
<1> HIDE DEF k
<1>5. l \in Seq(Message) /\ l = thread[s] \o <<Replied(k)>>
  BY <1>2, <1>4, AppendMessage
<1> HIDE DEF l
<1>6. thread' \in [Sessions -> Seq(Message)] /\ thread'[s] = l
      /\ \A x \in Sessions \ {s} : thread'[x] = thread[x]
  BY <1>1, <1>2, <1>5
<1> QED BY <1>1, <1>4, <1>5, <1>6 DEF k

LEMMA AbandonFacts ==
    ASSUME TypeOK, NEW p \in Posts, Abandon(p)
    PROVE  /\ post' \in [Posts -> PostRecord] /\ PostsGoOn
           /\ UNCHANGED <<tab, boot, turn, contact, log, remembered, thread, ticket, told>>
<1> DEFINE r == [post[p] EXCEPT !.state = "failed"]
<1>1. /\ post[p].state = "running" /\ post' = [post EXCEPT ![p] = r]
      /\ UNCHANGED <<tab, boot, turn, contact, log, remembered, thread, ticket, told>>
  BY DEF Abandon, page
<1>2. r \in PostRecord /\ r.state = "failed" /\ r.early = post[p].early
  BY DEF TypeOK, PostRecord
<1> HIDE DEF r
<1>3. post' \in [Posts -> PostRecord] /\ post'[p] = r /\ \A q \in Posts \ {p} : post'[q] = post[q]
  BY <1>1, <1>2 DEF TypeOK
<1> QED BY <1>1, <1>2, <1>3 DEF PostsGoOn

LEMMA LeaveFacts ==
    ASSUME TypeOK, NEW t \in Tabs, Leave(t)
    PROVE  /\ post' \in [Posts -> PostRecord] /\ PostsGoOn
           /\ \E s \in SessionOrNone : Reset(t, FALSE, s)
           /\ UNCHANGED <<thread, ticket>>
<1>1. \A p \in Posts :
         post'[p] = IF p \in HeldBy(t) THEN [post[p] EXCEPT !.state = "failed"] ELSE post[p]
  BY DEF Leave
<1>2. post' = [p \in Posts |-> post'[p]]
  BY DEF Leave
<1>3. ASSUME NEW p \in Posts
      PROVE  /\ post'[p] \in PostRecord /\ post'[p].early = post[p].early
             /\ p \in HeldBy(t) => post[p].state = "held" /\ post'[p].state = "failed"
             /\ p \notin HeldBy(t) => post'[p] = post[p]
  BY <1>1 DEF TypeOK, PostRecord, HeldBy
<1>4. post' \in [Posts -> PostRecord]
  BY <1>2, <1>3
<1>5. PostsGoOn
  BY <1>3 DEF PostsGoOn
<1>6. \E s \in SessionOrNone : Reset(t, FALSE, s)
  BY DEF Leave, TypeOK, TabRecord, SessionOrNone
<1> QED BY <1>4, <1>5, <1>6 DEF Leave

\* A page that is loaded, left, or taken off its host.
Blanks(t) ==
    /\ boot'[t] = NewBoot /\ turn'[t] = NoTurn
    /\ contact'[t] = NoContact /\ log'[t] = <<>>
    /\ \/ ~tab[t].loaded
       \/ ~tab'[t].loaded

LEMMA BlanksFacts ==
    ASSUME TypeOK, NEW t \in Tabs, Load(t) \/ Leave(t) \/ Disable(t)
    PROVE  /\ PageTypes' /\ OthersStay(t) /\ Blanks(t)
           /\ post' \in [Posts -> PostRecord] /\ PostsGoOn
           /\ UNCHANGED <<remembered, thread, ticket, told>>
<1>1. post' \in [Posts -> PostRecord] /\ PostsGoOn /\ UNCHANGED <<thread, ticket>>
  <2>1. CASE Leave(t)
    BY <2>1, LeaveFacts
  <2>2. CASE UNCHANGED server
    BY <2>2 DEF server, TypeOK, PostsGoOn
  <2> QED BY <2>1, <2>2 DEF Load, Disable
<1>2. PICK l \in BOOLEAN, s \in SessionOrNone : Reset(t, l, s) /\ (l => ~tab[t].loaded)
  <2>1. CASE Load(t)
    BY <2>1 DEF Load, TypeOK, TabRecord
  <2>2. CASE Leave(t)
    BY <2>2, LeaveFacts
  <2>3. CASE Disable(t)
    BY <2>3 DEF Disable, TypeOK, TabRecord
  <2> QED BY <2>1, <2>2, <2>3
<1>3. /\ PageTypes' /\ OthersStay(t)
      /\ tab'[t].loaded = l /\ boot'[t] = NewBoot /\ turn'[t] = NoTurn
      /\ contact'[t] = NoContact /\ log'[t] = <<>>
  BY <1>2, ResetFacts
<1>4. UNCHANGED <<remembered, told>>
  BY <1>2 DEF Reset
<1> QED BY <1>1, <1>2, <1>3, <1>4 DEF Blanks
-----------------------------------------------------------------------------
(***************************************************************************)
(* The steps, sorted by what they may disturb.                             *)
(***************************************************************************)
\* Steps of a page that put nothing on it, but the bootstrap's.
QuietStep(t) ==
    \/ SiteResolves(t) \/ BootFails(t)
    \/ Type(t) \/ Done(t) \/ Error(t) \/ EndOfStream(t)
    \/ TurnEnds(t) \/ TurnBreaks(t)
    \/ OpenForm(t) \/ TakeOffer(t) \/ CancelForm(t) \/ ContactFails(t)

PageStep(t) ==
    \/ Load(t) \/ Leave(t) \/ Disable(t)
    \/ QuietStep(t)
    \/ ReadState(t) \/ Restore(t) \/ Token(t) \/ Acknowledge(t)
    \/ \E p \in Posts : Send(t, p) \/ Submit(t, p)

LEMMA Steps ==
    ASSUME [Next]_vars
    PROVE  \/ \E t \in Tabs : PageStep(t)
           \/ \E p \in Posts : Store(p) \/ Abandon(p)
           \/ \E s \in Sessions : Reply(s) \/ SetStatus(s)
           \/ UNCHANGED vars
<1>1. ASSUME NEW t \in Tabs, ChainStep(t) \/ VisitorStep(t) PROVE PageStep(t)
  BY <1>1 DEF ChainStep, VisitorStep, PageStep, QuietStep
<1> QED BY <1>1 DEF Next, ServerStep

LEMMA QuietFacts ==
    ASSUME TypeOK, NEW t \in Tabs, QuietStep(t)
    PROVE  /\ PageTypes' /\ OthersStay(t) /\ Quiet(t)
           /\ post' \in [Posts -> PostRecord] /\ PostsGoOn
           /\ tab'[t].loaded = tab[t].loaded
           /\ UNCHANGED <<log, remembered, thread, ticket, told>>
<1>1. CASE SiteResolves(t)
  BY <1>1, SiteFacts DEF SiteResolves
<1>2. ASSUME UNCHANGED post PROVE post' \in [Posts -> PostRecord] /\ PostsGoOn
  BY <1>2 DEF TypeOK, PostsGoOn
<1>3. CASE BootFails(t)
  BY <1>2, <1>3, BootFailsFacts
<1>4. CASE Type(t) \/ Done(t) \/ Error(t) \/ EndOfStream(t)
  BY <1>2, <1>4, TurnGoesOn
<1>5. CASE TurnEnds(t) \/ TurnBreaks(t)
  BY <1>2, <1>5, FinishFacts DEF TurnEnds, TurnBreaks
<1>6. CASE OpenForm(t) \/ TakeOffer(t) \/ CancelForm(t) \/ ContactFails(t)
  BY <1>2, <1>6, FormFacts
<1> QED BY <1>1, <1>3, <1>4, <1>5, <1>6 DEF QuietStep

LEMMA PageStepFacts ==
    ASSUME TypeOK, NEW t \in Tabs, PageStep(t)
    PROVE  /\ TypeOK' /\ PostsGoOn /\ OthersStay(t)
           /\ UNCHANGED <<thread, ticket>>
<1>1. ASSUME UNCHANGED post PROVE post' \in [Posts -> PostRecord] /\ PostsGoOn
  BY <1>1 DEF TypeOK, PostsGoOn
<1>2. /\ PageTypes' /\ OthersStay(t)
      /\ post' \in [Posts -> PostRecord] /\ PostsGoOn
      /\ UNCHANGED <<thread, ticket>>
      /\ remembered' \in SessionOrNone /\ told' \in SessionOrNone
  <2>1. remembered \in SessionOrNone /\ told \in SessionOrNone
    BY DEF TypeOK
  <2>2. CASE Load(t) \/ Leave(t) \/ Disable(t)
    BY <2>1, <2>2, BlanksFacts
  <2>3. CASE QuietStep(t)
    BY <2>1, <2>3, QuietFacts
  <2>4. CASE ReadState(t)
    BY <1>1, <2>1, <2>4, ReadFacts
  <2>5. CASE Restore(t)
    BY <1>1, <2>1, <2>5, RestoreFacts
  <2>6. CASE Token(t)
    BY <1>1, <2>1, <2>6, TokenFacts
  <2>7. CASE Acknowledge(t)
    BY <1>1, <2>7, AcknowledgeFacts
  <2>8. CASE \E p \in Posts : Send(t, p)
    BY <2>1, <2>8, SendFacts
  <2>9. CASE \E p \in Posts : Submit(t, p)
    BY <2>1, <2>9, SubmitFacts
  <2> QED BY <2>2, <2>3, <2>4, <2>5, <2>6, <2>7, <2>8, <2>9 DEF PageStep
<1>3. TypeOK'
  BY <1>2 DEF TypeOK, PageTypes
<1> QED BY <1>2, <1>3

LEMMA ServerStepFacts ==
    ASSUME TypeOK, (\E p \in Posts : Store(p) \/ Abandon(p))
                   \/ (\E s \in Sessions : Reply(s) \/ SetStatus(s)) \/ UNCHANGED vars
    PROVE  /\ TypeOK' /\ PostsGoOn
           /\ UNCHANGED <<tab, boot, turn, contact, log, remembered, told>>
<1>1. ASSUME UNCHANGED <<tab, boot, turn, contact, log, remembered, told>>,
             post' \in [Posts -> PostRecord], thread' \in [Sessions -> Seq(Message)],
             ticket' \in [Sessions -> TicketStatuses]
      PROVE  TypeOK'
  BY <1>1 DEF TypeOK
<1>2. UNCHANGED post => PostsGoOn
  BY DEF PostsGoOn
<1>3. ASSUME NEW p \in Posts, Store(p)
      PROVE  TypeOK' /\ PostsGoOn /\ UNCHANGED <<tab, boot, turn, contact, log, remembered, told>>
  BY <1>1, <1>3, StoreFacts
<1>4. ASSUME NEW p \in Posts, Abandon(p)
      PROVE  TypeOK' /\ PostsGoOn /\ UNCHANGED <<tab, boot, turn, contact, log, remembered, told>>
  BY <1>1, <1>4, AbandonFacts DEF TypeOK
<1>5. ASSUME NEW s \in Sessions, Reply(s)
      PROVE  TypeOK' /\ PostsGoOn /\ UNCHANGED <<tab, boot, turn, contact, log, remembered, told>>
  BY <1>1, <1>2, <1>5, ReplyFacts DEF TypeOK
<1>6. ASSUME NEW s \in Sessions, SetStatus(s)
      PROVE  TypeOK' /\ PostsGoOn /\ UNCHANGED <<tab, boot, turn, contact, log, remembered, told>>
  <2>1. ticket' \in [Sessions -> TicketStatuses]
    BY <1>6 DEF SetStatus, TypeOK, TicketStatuses
  <2>2. UNCHANGED <<tab, boot, turn, contact, log, remembered, post, thread, told>>
    BY <1>6 DEF SetStatus, page
  <2> QED BY <1>1, <1>2, <2>1, <2>2 DEF TypeOK
<1>7. CASE UNCHANGED vars
  BY <1>1, <1>2, <1>7 DEF vars, TypeOK
<1> QED BY <1>3, <1>4, <1>5, <1>6, <1>7

LEMMA StepFacts ==
    ASSUME TypeOK, [Next]_vars
    PROVE  TypeOK' /\ PostsGoOn
BY Steps, PageStepFacts, ServerStepFacts

\* A conversation only grows.
LEMMA ThreadsGrow ==
    ASSUME TypeOK, [Next]_vars
    PROVE  /\ thread' \in [Sessions -> Seq(Message)]
           /\ \A s \in Sessions : Elements(thread[s]) \subseteq Elements(thread'[s])
<1>1. thread' \in [Sessions -> Seq(Message)] /\ thread \in [Sessions -> Seq(Message)]
  BY StepFacts DEF TypeOK
<1>2. ASSUME UNCHANGED thread PROVE \A s \in Sessions : Elements(thread[s]) \subseteq Elements(thread'[s])
  <2>1. thread' = thread
    BY <1>2
  <2> QED BY <2>1, Zenon
<1>3. ASSUME NEW p \in Posts, Store(p), NEW s \in Sessions
      PROVE  Elements(thread[s]) \subseteq Elements(thread'[s])
  <2>1. Messages(p) \in Seq(Message) /\ (thread'[s] = thread[s] \/ thread'[s] = thread[s] \o Messages(p))
    BY <1>3, StoreFacts
  <2>2. Elements(thread[s] \o Messages(p)) = Elements(thread[s]) \cup Elements(Messages(p))
    BY <1>1, <2>1, ConcatElements
  <2> QED BY <2>1, <2>2
<1>4. ASSUME NEW x \in Sessions, Reply(x), NEW s \in Sessions
      PROVE  Elements(thread[s]) \subseteq Elements(thread'[s])
  <2> DEFINE e == Replied(Cardinality(Replies) + 1)
  <2>1. e \in Message /\ thread'[x] = thread[x] \o <<e>> /\ (s # x => thread'[s] = thread[s])
    BY <1>4, ReplyFacts
  <2> HIDE DEF e
  <2>2. Elements(thread[x] \o <<e>>) = Elements(thread[x]) \cup {e}
    BY <1>1, <2>1, AppendMessage
  <2>3. CASE s = x
    BY <2>1, <2>2, <2>3
  <2>4. CASE s # x
    BY <2>1, <2>4
  <2> QED BY <2>3, <2>4
<1>5. ASSUME \E t \in Tabs : PageStep(t) PROVE UNCHANGED thread
  BY <1>5, PageStepFacts
<1>6. ASSUME NEW p \in Posts, Abandon(p) PROVE UNCHANGED thread
  BY <1>6 DEF Abandon
<1>7. ASSUME NEW s \in Sessions, SetStatus(s) PROVE UNCHANGED thread
  BY <1>7 DEF SetStatus
<1>8. ASSUME UNCHANGED vars PROVE UNCHANGED thread
  BY <1>8 DEF vars
<1> QED BY <1>1, <1>2, <1>3, <1>4, <1>5, <1>6, <1>7, <1>8, Steps

LEMMA RepliesFiniteNext ==
    ASSUME thread' \in [Sessions -> Seq(Message)]
    PROVE  \A m : m \in Replies' <=>
              m.role = "staff" /\ \E s \in Sessions : m \in Elements(thread'[s])
<1>1. \A s \in Sessions : s # None
  BY ZeroIsNoPost DEF Sessions, None
<1> QED BY <1>1 DEF Replies, StaffIn

LEMMA StoreKeepsOrder ==
    ASSUME TypeOK, ThreadsInOrder, NEW p \in Posts, Store(p)
    PROVE  ThreadsInOrder'
<1> DEFINE v == Messages(p)
<1>1. /\ v \in Seq(Message) /\ NoRepeat(v) /\ Elements(v) \subseteq {Said(p), Answered(p)}
      /\ \A s \in Sessions : thread'[s] = thread[s] \/ thread'[s] = thread[s] \o v
      /\ thread \in [Sessions -> Seq(Message)] /\ thread' \in [Sessions -> Seq(Message)]
      /\ PostsGoOn /\ post[p].state = "running" /\ post'[p].state = "stored"
  BY StoreFacts DEF TypeOK
<1>2. \A m \in Elements(v) : OfAPost(m) /\ m.of = p /\ m.role # "staff"
  BY <1>1 DEF Said, Answered, OfAPost
<1> HIDE DEF v
<1>3. \A s \in Sessions : Elements(thread[s] \o v) = Elements(thread[s]) \cup Elements(v)
  BY <1>1, ConcatElements
<1>4. Replies' = Replies
  <2>1. \A m : m \in Replies' <=>
              m.role = "staff" /\ \E s \in Sessions : m \in Elements(thread'[s])
    BY <1>1, RepliesFiniteNext
  <2>2. \A m : m \in Replies <=>
              m.role = "staff" /\ \E s \in Sessions : m \in Elements(thread[s])
    BY <1>1, RepliesFinite
  <2>3. ASSUME NEW m, m.role = "staff", NEW s \in Sessions
        PROVE  m \in Elements(thread'[s]) <=> m \in Elements(thread[s])
    BY <1>1, <1>2, <1>3, <2>3
  <2>4. \A m : m \in Replies' <=> m \in Replies
    BY <2>1, <2>2, <2>3
  <2> QED BY <2>4
<1>5. ASSUME NEW s \in Sessions, NEW m \in Elements(thread'[s])
      PROVE  \/ OfAPost(m) /\ post'[m.of].state = "stored"
             \/ m.role = "staff" /\ m.of \in 1 .. Cardinality(Replies)
  <2>1. CASE m \in Elements(v)
    BY <1>1, <1>2, <2>1
  <2>2. CASE m \in Elements(thread[s])
    BY <1>1, <2>2 DEF ThreadsInOrder, PostsGoOn, OfAPost
  <2> QED BY <1>1, <1>3, <1>5, <2>1, <2>2
<1>6. ASSUME NEW s \in Sessions PROVE NoRepeat(thread'[s])
  <2>1. NoRepeat(thread[s])
    BY DEF ThreadsInOrder
  <2>2. CASE thread'[s] = thread[s] \o v
    <3>1. \A m : ~Twice(thread[s], m) /\ ~Twice(v, m)
      BY <1>1, <2>1, NoRepeatTwice
    <3>2. Elements(thread[s]) \cap Elements(v) = {}
      BY <1>1, <1>2 DEF ThreadsInOrder, OfAPost
    <3>3. \A m : ~Twice(thread[s] \o v, m)
      BY <1>1, <3>1, <3>2, ConcatTwice
    <3> QED BY <1>1, <2>2, <3>3, NoRepeatTwice
  <2> QED BY <1>1, <2>1, <2>2
<1> QED BY <1>4, <1>5, <1>6 DEF ThreadsInOrder, OfAPost

LEMMA ReplyKeepsOrder ==
    ASSUME TypeOK, ThreadsInOrder, NEW x \in Sessions, Reply(x)
    PROVE  ThreadsInOrder'
<1> DEFINE n == Cardinality(Replies)
           e == Replied(n + 1)
<1>1. /\ thread \in [Sessions -> Seq(Message)] /\ thread' \in [Sessions -> Seq(Message)]
      /\ e \in Message /\ thread'[x] = thread[x] \o <<e>>
      /\ \A s \in Sessions \ {x} : thread'[s] = thread[s]
      /\ UNCHANGED post
  BY ReplyFacts DEF TypeOK
<1>2. e.role = "staff" /\ e.of = n + 1
  BY DEF Replied
<1>3. n \in Nat /\ IsFiniteSet(Replies)
  BY <1>1, RepliesFinite
<1>4. e \notin Replies
  <2>1. \A m \in Replies : m.role = "staff" /\ \E s \in Sessions : m \in Elements(thread[s])
    BY <1>1, RepliesFinite
  <2>2. \A m \in Replies : m.of \in 1 .. n
    BY <2>1 DEF ThreadsInOrder, OfAPost
  <2>3. n + 1 \notin 1 .. n
    BY <1>3
  <2> QED BY <1>2, <2>2, <2>3
<1> HIDE DEF e
<1>5. /\ <<e>> \in Seq(Message) /\ Elements(<<e>>) = {e} /\ NoRepeat(<<e>>)
      /\ Elements(thread'[x]) = Elements(thread[x]) \cup {e}
  <2>1. thread[x] \in Seq(Message)
    BY <1>1
  <2> QED BY <1>1, <2>1, AppendMessage
<1>6. Replies' = Replies \cup {e}
  <2>1. \A m : m \in Replies' <=>
              m.role = "staff" /\ \E s \in Sessions : m \in Elements(thread'[s])
    BY <1>1, RepliesFiniteNext
  <2>2. \A m : m \in Replies <=>
              m.role = "staff" /\ \E s \in Sessions : m \in Elements(thread[s])
    BY <1>1, RepliesFinite
  <2>3. \A m : (\E s \in Sessions : m \in Elements(thread'[s])) <=>
               (\E s \in Sessions : m \in Elements(thread[s])) \/ m = e
    BY <1>1, <1>5
  <2>4. \A m : m \in Replies' <=> m \in Replies \/ m = e
    BY <1>2, <2>1, <2>2, <2>3
  <2> QED BY <2>4
<1>7. Cardinality(Replies)' = n + 1 /\ n + 1 <= MaxReplies
  BY <1>3, <1>4, <1>6, FS_AddElement, ReplyFacts
<1> HIDE DEF n
<1>8. ASSUME NEW s \in Sessions, NEW m \in Elements(thread'[s])
      PROVE  \/ OfAPost(m) /\ post'[m.of].state = "stored"
             \/ m.role = "staff" /\ m.of \in 1 .. n + 1
  <2>1. CASE m = e
    BY <1>2, <1>3, <2>1
  <2>2. CASE m \in Elements(thread[s])
    <3>1. \/ OfAPost(m) /\ post[m.of].state = "stored"
          \/ m.role = "staff" /\ m.of \in 1 .. n
      BY <2>2 DEF ThreadsInOrder, n
    <3> QED BY <1>1, <1>3, <3>1
  <2> QED BY <1>1, <1>5, <1>8, <2>1, <2>2
<1>9. ASSUME NEW s \in Sessions PROVE NoRepeat(thread'[s])
  <2>1. NoRepeat(thread[s])
    BY DEF ThreadsInOrder
  <2>2. CASE s = x
    <3>1. \A m : ~Twice(thread[s], m) /\ ~Twice(<<e>>, m)
      BY <1>1, <1>5, <2>1, NoRepeatTwice
    <3>2. e \notin Elements(thread[s])
      BY <1>1, <1>2, <1>4, RepliesFinite
    <3>3. Elements(thread[s]) \cap Elements(<<e>>) = {}
      BY <1>5, <3>2
    <3>4. \A m : ~Twice(thread[s] \o <<e>>, m)
      BY <1>1, <1>5, <3>1, <3>3, ConcatTwice
    <3> QED BY <1>1, <2>2, <3>4, NoRepeatTwice
  <2> QED BY <1>1, <2>1, <2>2
<1> QED BY <1>7, <1>8, <1>9 DEF ThreadsInOrder, OfAPost

LEMMA ThreadsStep ==
    ASSUME TypeOK, ThreadsInOrder, [Next]_vars
    PROVE  ThreadsInOrder'
<1>1. PostsGoOn
  BY StepFacts
<1>2. ASSUME UNCHANGED thread PROVE ThreadsInOrder'
  <2>1. Replies' = Replies
    BY <1>2 DEF Replies, StaffIn
  <2> QED BY <1>1, <1>2, <2>1 DEF ThreadsInOrder, PostsGoOn, OfAPost
<1>3. ASSUME \E t \in Tabs : PageStep(t) PROVE UNCHANGED thread
  BY <1>3, PageStepFacts
<1>4. ASSUME NEW p \in Posts, Abandon(p) PROVE UNCHANGED thread
  BY <1>4 DEF Abandon
<1>5. ASSUME NEW s \in Sessions, SetStatus(s) PROVE UNCHANGED thread
  BY <1>5 DEF SetStatus
<1>6. ASSUME UNCHANGED vars PROVE UNCHANGED thread
  BY <1>6 DEF vars
<1> QED BY <1>2, <1>3, <1>4, <1>5, <1>6, Steps, StoreKeepsOrder, ReplyKeepsOrder

LEMMA BootStep ==
    ASSUME TypeOK, NEW t \in Tabs, PageStep(t)
    PROVE  boot'[t] = boot[t] \/ boot'[t].replay = <<>> \/ ReadState(t)
<1>1. CASE Load(t) \/ Leave(t) \/ Disable(t)
  <2>1. boot'[t] = NewBoot
    BY <1>1, BlanksFacts DEF Blanks
  <2> QED BY <2>1 DEF NewBoot
<1>2. CASE SiteResolves(t)
  BY <1>2, SiteFacts
<1>3. CASE BootFails(t)
  BY <1>3, BootFailsFacts
<1>4. CASE Type(t) \/ Done(t) \/ Error(t) \/ EndOfStream(t)
  BY <1>4, TurnGoesOn
<1>5. CASE TurnEnds(t) \/ TurnBreaks(t)
  BY <1>5, FinishFacts DEF TurnEnds, TurnBreaks
<1>6. CASE OpenForm(t) \/ TakeOffer(t) \/ CancelForm(t) \/ ContactFails(t)
  BY <1>6, FormFacts
<1>7. CASE Restore(t)
  BY <1>7, RestoreFacts
<1>8. CASE Token(t)
  BY <1>8, TokenFacts
<1>9. CASE Acknowledge(t)
  BY <1>9, AcknowledgeFacts
<1>10. CASE \E p \in Posts : Send(t, p)
  BY <1>10, SendFacts
<1>11. CASE \E p \in Posts : Submit(t, p)
  BY <1>11, SubmitFacts
<1> QED BY <1>1, <1>2, <1>3, <1>4, <1>5, <1>6, <1>7, <1>8, <1>9, <1>10, <1>11 DEF PageStep, QuietStep

LEMMA ReplayStep ==
    ASSUME TypeOK, ThreadsInOrder, ReplayOfThread, [Next]_vars
    PROVE  ReplayOfThread'
<1> DEFINE Held(u) ==
             /\ NoRepeat(boot'[u].replay)
             /\ boot'[u].replay # <<>> =>
                   /\ boot'[u].asked # None
                   /\ Elements(boot'[u].replay) \subseteq Elements(thread'[boot'[u].asked])
<1>1. /\ \A s \in Sessions : Elements(thread[s]) \subseteq Elements(thread'[s])
      /\ thread' \in [Sessions -> Seq(Message)]
  BY ThreadsGrow
<1>2. \A u \in Tabs : boot[u].asked # None => boot[u].asked \in Sessions
  BY DEF TypeOK, BootRecord, SessionOrNone
<1>3. ASSUME NEW u \in Tabs, boot'[u] = boot[u] PROVE Held(u)
  <2>1. /\ NoRepeat(boot[u].replay)
        /\ boot[u].replay # <<>> =>
              /\ boot[u].asked # None
              /\ Elements(boot[u].replay) \subseteq Elements(thread[boot[u].asked])
    BY DEF ReplayOfThread
  <2>2. boot[u].replay # <<>> => Elements(boot[u].replay) \subseteq Elements(thread'[boot[u].asked])
    BY <1>1, <1>2, <2>1
  <2> QED BY <1>3, <2>1, <2>2
<1>4. ASSUME NEW u \in Tabs, boot'[u].replay = <<>> PROVE Held(u)
  BY <1>4 DEF NoRepeat
<1>5. ASSUME NEW u \in Tabs, ReadState(u) PROVE Held(u)
  <2> DEFINE s == boot[u].asked
  <2>1. boot'[u].asked = s /\ s \in SessionOrNone
    BY <1>5, ReadFacts
  <2>4. PICK c \in OnReplica(s) : boot'[u].replay = Replay(c)
    BY <1>5, ReadFacts
  <2>5. c \in Seq(Message)
    BY <2>1, ReplicaFacts
  <2>2. CASE s = None
    <3>1. c = <<>>
      BY <2>1, <2>2, ReplicaFacts
    <3> QED BY <1>4, <2>4, <2>5, <3>1, ReplayFacts
  <2>3. CASE s \in Sessions
    <3>1. s # None
      BY <2>3, ZeroIsNoPost DEF Sessions, None
    <3>2. NoRepeat(thread[s])
      BY <2>3 DEF ThreadsInOrder
    <3>3. NoRepeat(c) /\ Elements(c) \subseteq Elements(thread[s])
      BY <2>1, <3>1, <3>2, ReplicaFacts
    <3>4. NoRepeat(Replay(c)) /\ Elements(Replay(c)) \subseteq Elements(c)
      BY <2>5, <3>3, ReplayFacts
    <3> QED BY <1>1, <2>1, <2>3, <2>4, <3>1, <3>3, <3>4
  <2> QED BY <2>1, <2>2, <2>3 DEF SessionOrNone
<1>6. ASSUME NEW t \in Tabs, PageStep(t), NEW u \in Tabs PROVE Held(u)
  <2>1. CASE u = t
    BY <1>3, <1>4, <1>5, <1>6, <2>1, BootStep
  <2>2. CASE u # t
    BY <1>3, <1>6, <2>2, PageStepFacts DEF OthersStay
  <2> QED BY <2>1, <2>2
<1>7. ASSUME UNCHANGED boot, NEW u \in Tabs PROVE Held(u)
  BY <1>3, <1>7
<1> HIDE DEF Held
<1>8. \A u \in Tabs : Held(u)
  BY <1>6, <1>7, Steps, ServerStepFacts
<1> QED BY <1>8 DEF Held, ReplayOfThread

-----------------------------------------------------------------------------
(***************************************************************************)
(* What a page shows and waits for, step by step.                          *)
(***************************************************************************)
PageInOrder(t) ==
    ShowsWhatWasSent(t) /\ EarlyUntilRead(t) /\ ReplayMeetsEarly(t) /\ NotYetShown(t)

LEMMA ReplayStored ==
    ASSUME TypeOK, ThreadsInOrder, ReplayOfThread, NEW t \in Tabs,
           NEW m \in Elements(boot[t].replay)
    PROVE  (OfAPost(m) /\ post[m.of].state = "stored") \/ m.role = "staff"
<1>1. boot[t].replay # <<>>
  BY NoElements
<1>2. boot[t].asked \in Sessions
  BY <1>1 DEF ReplayOfThread, TypeOK, BootRecord, SessionOrNone
<1>3. m \in Elements(thread[boot[t].asked])
  BY <1>1 DEF ReplayOfThread
<1> QED BY <1>2, <1>3 DEF ThreadsInOrder

\* What is shown, and a post's messages.
LEMMA ShownMessages ==
    ASSUME NEW p
    PROVE  /\ Said(p).of = p /\ Answered(p).of = p
           /\ Said(p).role = "user" /\ Answered(p).role = "assistant"
           /\ p \in Posts => OfAPost(Said(p)) /\ OfAPost(Answered(p))
           /\ \A q : Said(p) # Answered(q) /\ (Said(p) = Said(q) => p = q)
                     /\ (Answered(p) = Answered(q) => p = q)
           /\ Greeting.role = "greeting"
BY DEF Said, Answered, OfAPost, Greeting

LEMMA QuietPage ==
    ASSUME NEW t \in Tabs, PostsGoOn, Quiet(t), PageInOrder(t)
    PROVE  PageInOrder(t)'
<1>1. OwnPosts(t)' \subseteq OwnPosts(t)
  BY DEF Quiet, OwnPosts
<1>2. \A p \in OwnPosts(t) : p \in Posts /\ post'[p].state # "unused" /\ post'[p].early = post[p].early
  BY DEF OwnPosts, PageInOrder, ShowsWhatWasSent, PostsGoOn
<1>3. \A m \in Elements(log[t]) : m.role \in {"user", "assistant"} =>
         OfAPost(m) /\ post'[m.of].state # "unused" /\ post'[m.of].early = post[m.of].early
  BY DEF PageInOrder, ShowsWhatWasSent, PostsGoOn, OfAPost
<1>4. log'[t] = log[t]
  BY DEF Quiet
<1>5. ShowsWhatWasSent(t)'
  <2>1. turn'[t].pc # "none" => turn'[t].post \in Posts
    BY DEF Quiet, PageInOrder, ShowsWhatWasSent
  <2>2. contact'[t].pc # "none" => contact'[t].post \in Posts
    BY DEF Quiet, PageInOrder, ShowsWhatWasSent
  <2> QED BY <1>1, <1>2, <1>3, <1>4, <2>1, <2>2 DEF ShowsWhatWasSent, OfAPost
<1>6. EarlyUntilRead(t)'
  <2>1. boot'[t].pc \in {"site", "sent"} =>
          /\ \A p \in OwnPosts(t) : post[p].early
          /\ \A m \in Elements(log[t]) : OfAPost(m) /\ post[m.of].early
    BY DEF Quiet, PageInOrder, EarlyUntilRead
  <2> QED BY <1>1, <1>2, <1>3, <1>4, <2>1 DEF EarlyUntilRead, OfAPost
<1>7. ReplayMeetsEarly(t)'
  <2>1. boot'[t].pc = "read" =>
          /\ boot'[t].replay = boot[t].replay
          /\ \A p \in OwnPosts(t) :
                post[p].early \/ {Said(p), Answered(p)} \cap Elements(boot[t].replay) = {}
          /\ \A m \in Elements(log[t]) :
                OfAPost(m) /\ (post[m.of].early \/ m \notin Elements(boot[t].replay))
    BY DEF Quiet, PageInOrder, ReplayMeetsEarly
  <2> QED BY <1>1, <1>2, <1>3, <1>4, <2>1 DEF ReplayMeetsEarly, OfAPost
<1>8. NotYetShown(t)'
  <2>1. /\ turn[t].post \in Posts => turn[t].post \in OwnPosts(t)
        /\ contact[t].post \in Posts => contact[t].post \in OwnPosts(t)
    BY DEF OwnPosts
  <2>2. turn'[t].post \in Posts /\ turn'[t].answer = "none" =>
          post'[turn'[t].post].early \/ Answered(turn'[t].post) \notin Elements(log'[t])
    BY <1>2, <1>4, <2>1 DEF Quiet, PageInOrder, NotYetShown
  <2>3. contact'[t].post \in Posts =>
          post'[contact'[t].post].early \/ Said(contact'[t].post) \notin Elements(log'[t])
    BY <1>2, <1>4, <2>1 DEF Quiet, PageInOrder, NotYetShown
  <2> QED BY <2>2, <2>3 DEF NotYetShown
<1> QED BY <1>5, <1>6, <1>7, <1>8 DEF PageInOrder

LEMMA BlankPageInOrder ==
    ASSUME NEW t \in Tabs, Blanks(t)
    PROVE  PageInOrder(t)'
<1>1. boot'[t].pc = "site" /\ turn'[t].pc = "none" /\ contact'[t].pc = "none"
      /\ turn'[t].post = 0 /\ contact'[t].post = 0 /\ log'[t] = <<>>
  BY DEF Blanks, NewBoot, NoTurn, NoContact
<1>2. OwnPosts(t)' = {} /\ Elements(log'[t]) = {}
  BY <1>1, ZeroIsNoPost, NoElements DEF OwnPosts
<1>3. ShowsWhatWasSent(t)' /\ EarlyUntilRead(t)'
  BY <1>1, <1>2 DEF ShowsWhatWasSent, EarlyUntilRead
<1>4. ReplayMeetsEarly(t)' /\ NotYetShown(t)'
  BY <1>1, <1>2, ZeroIsNoPost DEF ReplayMeetsEarly, NotYetShown
<1> QED BY <1>3, <1>4 DEF PageInOrder

LEMMA ReadPageInOrder ==
    ASSUME TypeOK, NEW t \in Tabs, PageInOrder(t), ReadState(t)
    PROVE  PageInOrder(t)'
<1>1. boot[t].pc = "sent" /\ boot'[t].pc = "read" /\ UNCHANGED <<turn, contact, log, post>>
  BY ReadFacts
<1>2. OwnPosts(t)' = OwnPosts(t)
  BY <1>1 DEF OwnPosts
<1>3. ShowsWhatWasSent(t)'
  BY <1>1, <1>2 DEF PageInOrder, ShowsWhatWasSent, OfAPost
<1>4. /\ \A p \in OwnPosts(t) : post[p].early
      /\ \A m \in Elements(log[t]) : OfAPost(m) /\ post[m.of].early
  BY <1>1 DEF PageInOrder, EarlyUntilRead
<1>5. EarlyUntilRead(t)' /\ ReplayMeetsEarly(t)'
  BY <1>1, <1>2, <1>4 DEF EarlyUntilRead, ReplayMeetsEarly, OfAPost
<1>6. NotYetShown(t)'
  BY <1>1 DEF PageInOrder, NotYetShown
<1> QED BY <1>3, <1>5, <1>6 DEF PageInOrder

LEMMA RestorePageInOrder ==
    ASSUME TypeOK, ThreadsInOrder, ReplayOfThread, NEW t \in Tabs, PageInOrder(t), Restore(t)
    PROVE  PageInOrder(t)'
<1> DEFINE v == IF boot[t].replay # <<>> THEN boot[t].replay ELSE <<Greeting>>
           R == Elements(boot[t].replay)
           L == Elements(log[t])
<1>1. /\ boot[t].pc = "read" /\ boot'[t].pc = "restored" /\ UNCHANGED <<turn, contact, post>>
      /\ log'[t] = log[t] \o v
  BY RestoreFacts
<1>2. v \in Seq(Message) /\ log[t] \in Seq(Message)
  BY RestoreFacts, MessageTypes, AppendMessage DEF TypeOK
<1>3. Elements(v) \subseteq R \cup {Greeting}
  BY MessageTypes, AppendMessage, RestoreFacts
<1> HIDE DEF v
<1>4. Elements(log'[t]) \subseteq L \cup R \cup {Greeting}
  BY <1>1, <1>2, <1>3, ConcatElements
<1>5. OwnPosts(t)' = OwnPosts(t)
  BY <1>1 DEF OwnPosts
<1>6. \A m \in R : (OfAPost(m) /\ post[m.of].state # "unused") \/ m.role = "staff"
  BY ReplayStored
<1>7. /\ \A p \in OwnPosts(t) : post[p].early \/ {Said(p), Answered(p)} \cap R = {}
      /\ turn[t].post \in Posts => turn[t].post \in OwnPosts(t)
      /\ contact[t].post \in Posts => contact[t].post \in OwnPosts(t)
  BY <1>1 DEF PageInOrder, ReplayMeetsEarly, OwnPosts
<1> HIDE DEF R
<1>8. ShowsWhatWasSent(t)'
  <2>1. \A m \in Elements(log'[t]) :
          m.role \in {"user", "assistant"} => OfAPost(m) /\ post[m.of].state # "unused"
    BY <1>4, <1>6, ShownMessages DEF PageInOrder, ShowsWhatWasSent
  <2> QED BY <1>1, <1>5, <2>1 DEF PageInOrder, ShowsWhatWasSent, OfAPost
<1>9. EarlyUntilRead(t)' /\ ReplayMeetsEarly(t)'
  BY <1>1 DEF EarlyUntilRead, ReplayMeetsEarly
<1>10. NotYetShown(t)'
  <2>1. ASSUME NEW p, NEW m \in {Said(p), Answered(p)}, m \notin L, m \notin R
        PROVE  m \notin Elements(log'[t])
    BY <1>4, <2>1, ShownMessages
  <2>2. turn[t].post \in Posts /\ turn[t].answer = "none" =>
          post[turn[t].post].early \/ Answered(turn[t].post) \notin Elements(log'[t])
    BY <1>7, <2>1 DEF PageInOrder, NotYetShown
  <2>3. contact[t].post \in Posts =>
          post[contact[t].post].early \/ Said(contact[t].post) \notin Elements(log'[t])
    BY <1>7, <2>1 DEF PageInOrder, NotYetShown
  <2> QED BY <1>1, <2>2, <2>3 DEF NotYetShown
<1> QED BY <1>8, <1>9, <1>10 DEF PageInOrder

\* Posts that are not there yet are nowhere on a page, nor in its replay.
LEMMA UnusedIsNowhere ==
    ASSUME TypeOK, ThreadsInOrder, ReplayOfThread, NEW t \in Tabs, PageInOrder(t),
           NEW p \in Posts, post[p].state = "unused"
    PROVE  /\ p \notin OwnPosts(t)
           /\ {Said(p), Answered(p)} \cap Elements(log[t]) = {}
           /\ {Said(p), Answered(p)} \cap Elements(boot[t].replay) = {}
<1>1. p \notin OwnPosts(t)
  BY DEF PageInOrder, ShowsWhatWasSent
<1>2. ASSUME NEW m \in {Said(p), Answered(p)}
      PROVE  m.of = p /\ m.role \in {"user", "assistant"} /\ m.role # "staff"
  BY <1>2, ShownMessages
<1>3. ASSUME NEW m \in {Said(p), Answered(p)} PROVE m \notin Elements(log[t])
  BY <1>2, <1>3 DEF PageInOrder, ShowsWhatWasSent
<1>4. ASSUME NEW m \in {Said(p), Answered(p)} PROVE m \notin Elements(boot[t].replay)
  BY <1>2, <1>4, ReplayStored
<1> QED BY <1>1, <1>3, <1>4

\* What is there already stays in order when posts go on.
LEMMA SentStaysEarly ==
    ASSUME NEW t \in Tabs, PageInOrder(t), PostsGoOn
    PROVE  /\ \A p \in OwnPosts(t) :
                 p \in Posts /\ post'[p].state # "unused" /\ post'[p].early = post[p].early
           /\ \A m \in Elements(log[t]) : m.role \in {"user", "assistant"} =>
                 OfAPost(m) /\ post'[m.of].state # "unused" /\ post'[m.of].early = post[m.of].early
           /\ turn[t].post \in Posts => turn[t].post \in OwnPosts(t)
           /\ contact[t].post \in Posts => contact[t].post \in OwnPosts(t)
BY DEF OwnPosts, PageInOrder, ShowsWhatWasSent, PostsGoOn, OfAPost

LEMMA SendPageInOrder ==
    ASSUME TypeOK, ThreadsInOrder, ReplayOfThread, NEW t \in Tabs, PageInOrder(t),
           NEW p \in Posts, Send(t, p)
    PROVE  PageInOrder(t)'
<1> DEFINE R == Elements(boot[t].replay)
           L == Elements(log[t])
<1>1. /\ PostsGoOn /\ post[p].state = "unused" /\ post'[p].state # "unused"
      /\ boot[t].pc \in {"site", "sent"} => post'[p].early
      /\ turn'[t].pc # "none" /\ turn'[t].post = p
      /\ log'[t] = log[t] \o <<Said(p)>>
      /\ UNCHANGED <<boot, contact>>
  BY SendFacts
<1>2. Elements(log'[t]) = L \cup {Said(p)}
  <2>1. Said(p) \in Message /\ log[t] \in Seq(Message)
    BY MessageTypes DEF TypeOK
  <2> QED BY <1>1, <2>1, AppendMessage
<1>3. /\ p \notin OwnPosts(t) /\ {Said(p), Answered(p)} \cap L = {}
      /\ {Said(p), Answered(p)} \cap R = {}
  BY <1>1, UnusedIsNowhere
<1>4. OwnPosts(t)' \subseteq OwnPosts(t) \cup {p}
  BY <1>1 DEF OwnPosts
<1>5. /\ \A q \in OwnPosts(t) :
            q \in Posts /\ post'[q].state # "unused" /\ post'[q].early = post[q].early
      /\ \A m \in L : m.role \in {"user", "assistant"} =>
            OfAPost(m) /\ post'[m.of].state # "unused" /\ post'[m.of].early = post[m.of].early
      /\ contact[t].post \in Posts => contact[t].post \in OwnPosts(t)
  BY <1>1, SentStaysEarly
<1>6. OfAPost(Said(p)) /\ Said(p).of = p
  BY ShownMessages
<1>7. ShowsWhatWasSent(t)'
  BY <1>1, <1>2, <1>4, <1>5, <1>6 DEF PageInOrder, ShowsWhatWasSent, OfAPost
<1>8. EarlyUntilRead(t)'
  <2>1. boot[t].pc \in {"site", "sent"} =>
          /\ \A q \in OwnPosts(t) : post[q].early
          /\ \A m \in L : OfAPost(m) /\ post[m.of].early
    BY DEF PageInOrder, EarlyUntilRead
  <2> QED BY <1>1, <1>2, <1>4, <1>5, <1>6, <2>1 DEF EarlyUntilRead, OfAPost
<1>9. ReplayMeetsEarly(t)'
  <2>1. boot[t].pc = "read" =>
          /\ \A q \in OwnPosts(t) : post[q].early \/ {Said(q), Answered(q)} \cap R = {}
          /\ \A m \in L : OfAPost(m) /\ (post[m.of].early \/ m \notin R)
    BY DEF PageInOrder, ReplayMeetsEarly
  <2> QED BY <1>1, <1>2, <1>3, <1>4, <1>5, <1>6, <2>1 DEF ReplayMeetsEarly, OfAPost
<1>10. NotYetShown(t)'
  <2>1. Answered(p) \notin Elements(log'[t])
    BY <1>2, <1>3, ShownMessages
  <2>2. contact[t].post \in Posts =>
          post'[contact[t].post].early \/ Said(contact[t].post) \notin Elements(log'[t])
    <3>1. contact[t].post \in Posts => Said(contact[t].post) # Said(p)
      BY <1>3, <1>5, ShownMessages
    <3> QED BY <1>2, <1>5, <3>1 DEF PageInOrder, NotYetShown
  <2> QED BY <1>1, <2>1, <2>2 DEF NotYetShown
<1> QED BY <1>7, <1>8, <1>9, <1>10 DEF PageInOrder

LEMMA SubmitPageInOrder ==
    ASSUME TypeOK, ThreadsInOrder, ReplayOfThread, NEW t \in Tabs, PageInOrder(t),
           NEW p \in Posts, Submit(t, p)
    PROVE  PageInOrder(t)'
<1> DEFINE R == Elements(boot[t].replay)
           L == Elements(log[t])
<1>1. /\ PostsGoOn /\ post[p].state = "unused" /\ post'[p].state # "unused"
      /\ boot[t].pc \in {"site", "sent"} => post'[p].early
      /\ contact'[t].pc # "none" /\ contact'[t].post = p
      /\ UNCHANGED <<boot, turn, log>>
  BY SubmitFacts
<1>2. /\ p \notin OwnPosts(t) /\ {Said(p), Answered(p)} \cap L = {}
      /\ {Said(p), Answered(p)} \cap R = {}
  BY <1>1, UnusedIsNowhere
<1>3. OwnPosts(t)' \subseteq OwnPosts(t) \cup {p}
  BY <1>1 DEF OwnPosts
<1>4. /\ \A q \in OwnPosts(t) :
            q \in Posts /\ post'[q].state # "unused" /\ post'[q].early = post[q].early
      /\ \A m \in L : m.role \in {"user", "assistant"} =>
            OfAPost(m) /\ post'[m.of].state # "unused" /\ post'[m.of].early = post[m.of].early
      /\ turn[t].post \in Posts => turn[t].post \in OwnPosts(t)
  BY <1>1, SentStaysEarly
<1>5. ShowsWhatWasSent(t)'
  BY <1>1, <1>3, <1>4 DEF PageInOrder, ShowsWhatWasSent, OfAPost
<1>6. EarlyUntilRead(t)'
  <2>1. boot[t].pc \in {"site", "sent"} =>
          /\ \A q \in OwnPosts(t) : post[q].early
          /\ \A m \in L : OfAPost(m) /\ post[m.of].early
    BY DEF PageInOrder, EarlyUntilRead
  <2> QED BY <1>1, <1>3, <1>4, <2>1 DEF EarlyUntilRead, OfAPost
<1>7. ReplayMeetsEarly(t)'
  <2>1. boot[t].pc = "read" =>
          /\ \A q \in OwnPosts(t) : post[q].early \/ {Said(q), Answered(q)} \cap R = {}
          /\ \A m \in L : OfAPost(m) /\ (post[m.of].early \/ m \notin R)
    BY DEF PageInOrder, ReplayMeetsEarly
  <2> QED BY <1>1, <1>2, <1>3, <1>4, <2>1 DEF ReplayMeetsEarly, OfAPost
<1>8. NotYetShown(t)'
  <2>1. turn[t].post \in Posts /\ turn[t].answer = "none" =>
          post'[turn[t].post].early \/ Answered(turn[t].post) \notin L
    BY <1>4 DEF PageInOrder, NotYetShown
  <2> QED BY <1>1, <1>2, <2>1 DEF NotYetShown
<1> QED BY <1>5, <1>6, <1>7, <1>8 DEF PageInOrder

LEMMA TokenPageInOrder ==
    ASSUME TypeOK, NEW t \in Tabs, PageInOrder(t), Token(t)
    PROVE  PageInOrder(t)'
<1> DEFINE p == turn[t].post
           R == Elements(boot[t].replay)
           L == Elements(log[t])
<1>1. /\ turn[t].pc = "open" /\ turn'[t].post = p /\ turn'[t].answer # "none"
      /\ UNCHANGED <<boot, contact, post>>
  BY TokenFacts
<1>2. p \in OwnPosts(t) /\ p \in Posts
  BY <1>1 DEF PageInOrder, ShowsWhatWasSent, OwnPosts
<1>3. Elements(log'[t]) \subseteq L \cup {Answered(p)}
  <2>1. log'[t] = log[t] \o IF turn[t].answer = "none" THEN <<Answered(p)>> ELSE <<>>
    BY <1>2, TokenFacts
  <2>2. Answered(p) \in Message /\ log[t] \in Seq(Message)
    BY <1>2, MessageTypes DEF TypeOK
  <2>3. Elements(log[t] \o <<Answered(p)>>) = L \cup {Answered(p)}
    BY <2>2, AppendMessage
  <2>4. log[t] \o <<>> = log[t]
    BY <2>2, ConcatEmptySeq
  <2> QED BY <2>1, <2>3, <2>4
<1>4. OwnPosts(t)' = OwnPosts(t)
  BY <1>1 DEF OwnPosts
<1>5. OfAPost(Answered(p)) /\ Answered(p).of = p
  BY <1>2, ShownMessages
<1> HIDE DEF p
<1>6. ShowsWhatWasSent(t)'
  BY <1>1, <1>2, <1>3, <1>4, <1>5 DEF PageInOrder, ShowsWhatWasSent, OfAPost
<1>7. EarlyUntilRead(t)'
  <2>1. boot[t].pc \in {"site", "sent"} =>
          /\ \A q \in OwnPosts(t) : post[q].early
          /\ \A m \in L : OfAPost(m) /\ post[m.of].early
    BY DEF PageInOrder, EarlyUntilRead
  <2> QED BY <1>1, <1>2, <1>3, <1>4, <1>5, <2>1 DEF EarlyUntilRead, OfAPost
<1>8. ReplayMeetsEarly(t)'
  <2>1. boot[t].pc = "read" =>
          /\ \A q \in OwnPosts(t) : post[q].early \/ {Said(q), Answered(q)} \cap R = {}
          /\ \A m \in L : OfAPost(m) /\ (post[m.of].early \/ m \notin R)
    BY DEF PageInOrder, ReplayMeetsEarly
  <2> QED BY <1>1, <1>2, <1>3, <1>4, <1>5, <2>1 DEF ReplayMeetsEarly, OfAPost
<1>9. NotYetShown(t)'
  <2>1. contact[t].post \in Posts =>
          post[contact[t].post].early \/ Said(contact[t].post) \notin Elements(log'[t])
    BY <1>3, ShownMessages DEF PageInOrder, NotYetShown
  <2> QED BY <1>1, <2>1 DEF NotYetShown
<1> QED BY <1>6, <1>7, <1>8, <1>9 DEF PageInOrder

LEMMA AcknowledgePageInOrder ==
    ASSUME TypeOK, NEW t \in Tabs, PageInOrder(t), Acknowledge(t)
    PROVE  PageInOrder(t)'
<1> DEFINE p == contact[t].post
           R == Elements(boot[t].replay)
           L == Elements(log[t])
<1>1. /\ contact[t].pc = "open" /\ contact'[t].pc = "none" /\ contact'[t].post = 0
      /\ UNCHANGED <<boot, turn, post>>
  <2>1. /\ contact[t].pc = "open" /\ contact'[t] = NoContact
        /\ UNCHANGED <<boot, turn, post>>
    BY AcknowledgeFacts
  <2> QED BY <2>1 DEF NoContact
<1>2. p \in OwnPosts(t) /\ p \in Posts
  BY <1>1 DEF PageInOrder, ShowsWhatWasSent, OwnPosts
<1>3. Elements(log'[t]) \subseteq L \cup {Said(p)}
  <2>1. Said(p) \in Message /\ log[t] \in Seq(Message)
    BY <1>2, MessageTypes DEF TypeOK
  <2>2. Elements(log[t] \o <<Said(p)>>) = L \cup {Said(p)}
    BY <2>1, AppendMessage
  <2> QED BY <2>2, AcknowledgeFacts
<1>4. OwnPosts(t)' \subseteq OwnPosts(t)
  BY <1>1, ZeroIsNoPost DEF OwnPosts
<1>5. OfAPost(Said(p)) /\ Said(p).of = p
  BY <1>2, ShownMessages
<1> HIDE DEF p
<1>6. ShowsWhatWasSent(t)'
  BY <1>1, <1>2, <1>3, <1>4, <1>5 DEF PageInOrder, ShowsWhatWasSent, OfAPost
<1>7. EarlyUntilRead(t)'
  <2>1. boot[t].pc \in {"site", "sent"} =>
          /\ \A q \in OwnPosts(t) : post[q].early
          /\ \A m \in L : OfAPost(m) /\ post[m.of].early
    BY DEF PageInOrder, EarlyUntilRead
  <2> QED BY <1>1, <1>2, <1>3, <1>4, <1>5, <2>1 DEF EarlyUntilRead, OfAPost
<1>8. ReplayMeetsEarly(t)'
  <2>1. boot[t].pc = "read" =>
          /\ \A q \in OwnPosts(t) : post[q].early \/ {Said(q), Answered(q)} \cap R = {}
          /\ \A m \in L : OfAPost(m) /\ (post[m.of].early \/ m \notin R)
    BY DEF PageInOrder, ReplayMeetsEarly
  <2> QED BY <1>1, <1>2, <1>3, <1>4, <1>5, <2>1 DEF ReplayMeetsEarly, OfAPost
<1>9. NotYetShown(t)'
  <2>1. turn[t].post \in Posts /\ turn[t].answer = "none" =>
          post[turn[t].post].early \/ Answered(turn[t].post) \notin Elements(log'[t])
    BY <1>3, ShownMessages DEF PageInOrder, NotYetShown
  <2> QED BY <1>1, <2>1, ZeroIsNoPost DEF NotYetShown
<1> QED BY <1>6, <1>7, <1>8, <1>9 DEF PageInOrder

LEMMA PagesStep ==
    ASSUME TypeOK, ThreadsInOrder, ReplayOfThread, PagesInOrder, [Next]_vars
    PROVE  PagesInOrder'
<1>1. PostsGoOn
  BY StepFacts
<1>2. \A u \in Tabs : PageInOrder(u)
  BY DEF PagesInOrder, PageInOrder
<1>3. ASSUME NEW t \in Tabs, PageStep(t) PROVE PageInOrder(t)'
  <2>1. CASE Load(t) \/ Leave(t) \/ Disable(t)
    BY <2>1, BlanksFacts, BlankPageInOrder
  <2>2. CASE QuietStep(t)
    BY <1>1, <1>2, <2>2, QuietFacts, QuietPage
  <2>3. CASE ReadState(t)
    BY <1>2, <2>3, ReadPageInOrder
  <2>4. CASE Restore(t)
    BY <1>2, <2>4, RestorePageInOrder
  <2>5. CASE Token(t)
    BY <1>2, <2>5, TokenPageInOrder
  <2>6. CASE Acknowledge(t)
    BY <1>2, <2>6, AcknowledgePageInOrder
  <2>7. CASE \E p \in Posts : Send(t, p) \/ Submit(t, p)
    BY <1>2, <2>7, SendPageInOrder, SubmitPageInOrder
  <2> QED BY <1>3, <2>1, <2>2, <2>3, <2>4, <2>5, <2>6, <2>7 DEF PageStep
<1>4. ASSUME NEW t \in Tabs, PageStep(t), NEW u \in Tabs \ {t} PROVE PageInOrder(u)'
  BY <1>1, <1>2, <1>4, PageStepFacts, OthersAreQuiet, QuietPage
<1>5. ASSUME UNCHANGED <<tab, boot, turn, contact, log>>, NEW u \in Tabs PROVE PageInOrder(u)'
  <2>1. Quiet(u)
    BY <1>5 DEF Quiet
  <2> QED BY <1>1, <1>2, <2>1, QuietPage
<1>6. \A u \in Tabs : PageInOrder(u)'
  <2>1. CASE \E t \in Tabs : PageStep(t)
    <3>1. PICK t \in Tabs : PageStep(t)
      BY <2>1
    <3>2. \A u \in Tabs \ {t} : PageInOrder(u)'
      BY <1>4, <3>1
    <3> QED BY <1>3, <3>1, <3>2
  <2>2. CASE UNCHANGED <<tab, boot, turn, contact, log>>
    BY <1>5, <2>2
  <2> QED BY <2>1, <2>2, Steps, ServerStepFacts
<1> QED BY <1>6 DEF PagesInOrder, PageInOrder

-----------------------------------------------------------------------------
(***************************************************************************)
(* What a page shows twice.                                                *)
(***************************************************************************)
SeenTwice(t) ==
    \A m : Twice(log[t], m) => m.role \in {"user", "assistant"} /\ post[m.of].early

LEMMA SeenTwiceIs ==
    ASSUME NEW u, NEW f
    PROVE  (\A i, j \in DOMAIN u :
               i < j /\ u[i] = u[j] => u[i].role \in {"user", "assistant"} /\ f[u[i].of].early)
           <=> \A m : Twice(u, m) => m.role \in {"user", "assistant"} /\ f[m.of].early
<1>1. ASSUME \A i, j \in DOMAIN u :
               i < j /\ u[i] = u[j] => u[i].role \in {"user", "assistant"} /\ f[u[i].of].early,
             NEW m, Twice(u, m)
      PROVE  m.role \in {"user", "assistant"} /\ f[m.of].early
  <2>1. PICK i \in DOMAIN u, j \in DOMAIN u : i < j /\ u[i] = m /\ u[j] = m
    BY <1>1 DEF Twice
  <2>2. u[i].role \in {"user", "assistant"} /\ f[u[i].of].early
    BY <1>1, <2>1
  <2> QED BY <2>1, <2>2
<1>2. ASSUME \A m : Twice(u, m) => m.role \in {"user", "assistant"} /\ f[m.of].early,
             NEW i \in DOMAIN u, NEW j \in DOMAIN u, i < j, u[i] = u[j]
      PROVE  u[i].role \in {"user", "assistant"} /\ f[u[i].of].early
  <2>1. Twice(u, u[i])
    BY <1>2 DEF Twice
  <2> QED BY <1>2, <2>1
<1> QED BY <1>1, <1>2

LEMMA TwiceIsThere ==
    ASSUME NEW u, NEW m, Twice(u, m)
    PROVE  m \in Elements(u)
BY DEF Twice, Elements

LEMMA ShowsMore ==
    ASSUME TypeOK, NEW t \in Tabs, PageInOrder(t), PostsGoOn, SeenTwice(t),
           NEW v \in Seq(Message), log'[t] = log[t] \o v, NoRepeat(v),
           \A m \in Elements(log[t]) \cap Elements(v) :
              m.role \in {"user", "assistant"} /\ post[m.of].early
    PROVE  SeenTwice(t)'
<1>1. log[t] \in Seq(Message)
  BY DEF TypeOK
<1>2. ASSUME NEW m, Twice(log'[t], m)
      PROVE  m.role \in {"user", "assistant"} /\ post'[m.of].early
  <2>1. ~Twice(v, m)
    BY NoRepeatTwice
  <2>2. Twice(log[t], m) \/ m \in Elements(log[t]) \cap Elements(v)
    BY <1>1, <1>2, <2>1, ConcatTwice
  <2>3. m \in Elements(log[t]) /\ m.role \in {"user", "assistant"} /\ post[m.of].early
    BY <2>2, TwiceIsThere DEF SeenTwice
  <2>4. post'[m.of].early = post[m.of].early
    BY <2>3, SentStaysEarly
  <2> QED BY <2>3, <2>4
<1> QED BY <1>2 DEF SeenTwice

LEMMA ShowsTheSame ==
    ASSUME NEW t \in Tabs, PageInOrder(t), PostsGoOn, SeenTwice(t), log'[t] = log[t]
    PROVE  SeenTwice(t)'
<1>1. ASSUME NEW m, Twice(log'[t], m)
      PROVE  m.role \in {"user", "assistant"} /\ post'[m.of].early
  <2>1. m \in Elements(log[t]) /\ m.role \in {"user", "assistant"} /\ post[m.of].early
    BY <1>1, TwiceIsThere DEF SeenTwice
  <2>2. post'[m.of].early = post[m.of].early
    BY <2>1, SentStaysEarly
  <2> QED BY <2>1, <2>2
<1> QED BY <1>1 DEF SeenTwice

LEMMA SendShows ==
    ASSUME TypeOK, ThreadsInOrder, ReplayOfThread, NEW t \in Tabs, PageInOrder(t), SeenTwice(t),
           NEW p \in Posts, Send(t, p)
    PROVE  SeenTwice(t)'
<1>1. PostsGoOn /\ log'[t] = log[t] \o <<Said(p)>> /\ post[p].state = "unused"
  BY SendFacts
<1>2. Said(p) \in Message /\ Said(p) \notin Elements(log[t])
  BY <1>1, MessageTypes, UnusedIsNowhere
<1>3. <<Said(p)>> \in Seq(Message) /\ NoRepeat(<<Said(p)>>) /\ Elements(<<Said(p)>>) = {Said(p)}
  BY <1>2, AppendMessage, EmptySeq
<1> QED BY <1>1, <1>2, <1>3, ShowsMore

LEMMA TokenShows ==
    ASSUME TypeOK, NEW t \in Tabs, PageInOrder(t), SeenTwice(t), Token(t)
    PROVE  SeenTwice(t)'
<1> DEFINE p == turn[t].post
<1>1. turn[t].pc = "open" /\ PostsGoOn
  BY TokenFacts DEF PostsGoOn
<1>2. p \in Posts
  BY <1>1 DEF PageInOrder, ShowsWhatWasSent
<1>3. log'[t] = log[t] \o IF turn[t].answer = "none" THEN <<Answered(p)>> ELSE <<>>
  BY <1>2, TokenFacts
<1>4. CASE turn[t].answer # "none"
  <2>1. log'[t] = log[t]
    BY <1>3, <1>4, ConcatEmptySeq DEF TypeOK
  <2> QED BY <1>1, <2>1, ShowsTheSame
<1>5. CASE turn[t].answer = "none"
  <2>1. post[p].early \/ Answered(p) \notin Elements(log[t])
    BY <1>2, <1>5 DEF PageInOrder, NotYetShown
  <2>2. Answered(p) \in Message /\ Answered(p).of = p /\ Answered(p).role = "assistant"
    BY <1>2, MessageTypes, ShownMessages
  <2>3. /\ <<Answered(p)>> \in Seq(Message) /\ NoRepeat(<<Answered(p)>>)
        /\ Elements(<<Answered(p)>>) = {Answered(p)}
    BY <2>2, AppendMessage, EmptySeq
  <2> QED BY <1>1, <1>3, <1>5, <2>1, <2>2, <2>3, ShowsMore
<1> QED BY <1>4, <1>5

LEMMA AcknowledgeShows ==
    ASSUME TypeOK, NEW t \in Tabs, PageInOrder(t), SeenTwice(t), Acknowledge(t)
    PROVE  SeenTwice(t)'
<1> DEFINE p == contact[t].post
<1>1. /\ contact[t].pc = "open" /\ PostsGoOn
      /\ log'[t] = log[t] \/ log'[t] = log[t] \o <<Said(p)>>
  BY AcknowledgeFacts DEF PostsGoOn
<1>2. p \in Posts
  BY <1>1 DEF PageInOrder, ShowsWhatWasSent
<1>3. CASE log'[t] = log[t]
  BY <1>1, <1>3, ShowsTheSame
<1>4. CASE log'[t] = log[t] \o <<Said(p)>>
  <2>1. post[p].early \/ Said(p) \notin Elements(log[t])
    BY <1>2 DEF PageInOrder, NotYetShown
  <2>2. Said(p) \in Message /\ Said(p).of = p /\ Said(p).role = "user"
    BY <1>2, MessageTypes, ShownMessages
  <2>3. <<Said(p)>> \in Seq(Message) /\ NoRepeat(<<Said(p)>>) /\ Elements(<<Said(p)>>) = {Said(p)}
    BY <2>2, AppendMessage, EmptySeq
  <2> QED BY <1>1, <1>4, <2>1, <2>2, <2>3, ShowsMore
<1> QED BY <1>1, <1>3, <1>4

LEMMA RestoreShows ==
    ASSUME TypeOK, ReplayOfThread, NEW t \in Tabs, PageInOrder(t), SeenTwice(t), Restore(t)
    PROVE  SeenTwice(t)'
<1> DEFINE v == IF boot[t].replay # <<>> THEN boot[t].replay ELSE <<Greeting>>
<1>1. boot[t].pc = "read" /\ log'[t] = log[t] \o v /\ PostsGoOn
  BY RestoreFacts DEF PostsGoOn
<1>2. v \in Seq(Message) /\ NoRepeat(v)
  BY RestoreFacts, MessageTypes, AppendMessage, EmptySeq DEF ReplayOfThread
<1>3. ASSUME NEW m \in Elements(log[t]) \cap Elements(v)
      PROVE  m.role \in {"user", "assistant"} /\ post[m.of].early
  <2>1. OfAPost(m) /\ (post[m.of].early \/ m \notin Elements(boot[t].replay))
    BY <1>1, <1>3 DEF PageInOrder, ReplayMeetsEarly
  <2>2. CASE boot[t].replay # <<>>
    BY <1>3, <2>1, <2>2 DEF OfAPost
  <2>3. CASE boot[t].replay = <<>>
    <3>1. v = <<Greeting>> /\ Elements(<<Greeting>>) = {Greeting}
      BY <2>3, MessageTypes, AppendMessage, EmptySeq
    <3> HIDE DEF v
    <3>2. m = Greeting
      BY <1>3, <3>1
    <3> QED BY <2>1, <3>2, ShownMessages DEF OfAPost
  <2> QED BY <2>2, <2>3
<1> HIDE DEF v
<1> QED BY <1>1, <1>2, <1>3, ShowsMore

LEMMA TwiceStep ==
    ASSUME TypeOK, ThreadsInOrder, ReplayOfThread, PagesInOrder, NothingTwice, [Next]_vars
    PROVE  NothingTwice'
<1>1. PostsGoOn
  BY StepFacts
<1>2. \A u \in Tabs : PageInOrder(u) /\ SeenTwice(u)
  BY SeenTwiceIs DEF PagesInOrder, PageInOrder, NothingTwice, SeenTwice
<1>3. ASSUME NEW t \in Tabs, log'[t] = log[t] PROVE SeenTwice(t)'
  BY <1>1, <1>2, <1>3, ShowsTheSame
<1>4. ASSUME NEW t \in Tabs, PageStep(t) PROVE SeenTwice(t)'
  <2>1. CASE Load(t) \/ Leave(t) \/ Disable(t)
    <3>1. log'[t] = <<>>
      BY <2>1, BlanksFacts DEF Blanks
    <3> QED BY <3>1 DEF SeenTwice, Twice
  <2>2. CASE QuietStep(t) \/ ReadState(t)
    <3>1. UNCHANGED log
      BY <2>2, QuietFacts, ReadFacts
    <3> QED BY <1>3, <3>1
  <2>3. CASE Restore(t)
    BY <1>2, <2>3, RestoreShows
  <2>4. CASE Token(t)
    BY <1>2, <2>4, TokenShows
  <2>5. CASE Acknowledge(t)
    BY <1>2, <2>5, AcknowledgeShows
  <2>6. CASE \E p \in Posts : Send(t, p)
    BY <1>2, <2>6, SendShows
  <2>7. CASE \E p \in Posts : Submit(t, p)
    BY <1>3, <2>7, SubmitFacts
  <2> QED BY <1>4, <2>1, <2>2, <2>3, <2>4, <2>5, <2>6, <2>7 DEF PageStep
<1>5. ASSUME NEW t \in Tabs, PageStep(t), NEW u \in Tabs \ {t} PROVE SeenTwice(u)'
  BY <1>3, <1>5, PageStepFacts DEF OthersStay
<1>6. \A u \in Tabs : SeenTwice(u)'
  <2>1. CASE \E t \in Tabs : PageStep(t)
    <3>1. PICK t \in Tabs : PageStep(t)
      BY <2>1
    <3>2. \A u \in Tabs \ {t} : SeenTwice(u)'
      BY <1>5, <3>1
    <3> QED BY <1>4, <3>1, <3>2
  <2>2. CASE UNCHANGED log
    BY <1>3, <2>2
  <2> QED BY <2>1, <2>2, Steps, ServerStepFacts
<1> QED BY <1>6, SeenTwiceIs DEF NothingTwice, SeenTwice

-----------------------------------------------------------------------------
(***************************************************************************)
(* Turns, and pages that are not there.                                    *)
(***************************************************************************)
-----------------------------------------------------------------------------
(***************************************************************************)
(* The theorems.                                                           *)
(***************************************************************************)
LEMMA InitFacts ==
    ASSUME Init
    PROVE  WidgetInv
<1>1. \A t \in Tabs :
        /\ tab[t] = [loaded |-> FALSE, session |-> None, ticketOpen |-> FALSE, offer |-> "never"]
        /\ boot[t] = NewBoot /\ turn[t] = NoTurn /\ contact[t] = NoContact /\ log[t] = <<>>
  BY DEF Init
<1>2. \A s \in Sessions : thread[s] = <<>>
  BY DEF Init
<1>3. TypeOK
  <2>1. [loaded |-> FALSE, session |-> None, ticketOpen |-> FALSE, offer |-> "never"] \in TabRecord
    BY DEF TabRecord, SessionOrNone
  <2>2. NoPost \in PostRecord
    BY DEF NoPost, PostRecord, SessionOrNone
  <2> QED BY <2>1, <2>2, BlankPage DEF Init, TypeOK, SessionOrNone, TicketStatuses
<1>4. ThreadsInOrder
  <2>1. Replies = {}
    BY <1>2, NoElements DEF Replies, StaffIn
  <2>2. Cardinality(Replies) = 0 /\ MaxReplies \in Nat
    BY <2>1, FS_EmptySet, ConstantsAssumption
  <2> QED BY <1>2, <2>2, NoElements DEF ThreadsInOrder, NoRepeat
<1>5. ReplayOfThread
  BY <1>1 DEF ReplayOfThread, NewBoot, NoRepeat
<1>6. PagesInOrder
  <2>1. ASSUME NEW t \in Tabs
        PROVE  ShowsWhatWasSent(t) /\ EarlyUntilRead(t) /\ ReplayMeetsEarly(t) /\ NotYetShown(t)
    <3>1. boot[t].pc = "site" /\ turn[t].pc = "none" /\ contact[t].pc = "none"
          /\ turn[t].post = 0 /\ contact[t].post = 0 /\ log[t] = <<>>
      BY <1>1 DEF NewBoot, NoTurn, NoContact
    <3>2. OwnPosts(t) = {} /\ Elements(log[t]) = {}
      BY <3>1, ZeroIsNoPost, NoElements DEF OwnPosts
    <3>3. ShowsWhatWasSent(t) /\ EarlyUntilRead(t)
      BY <3>1, <3>2 DEF ShowsWhatWasSent, EarlyUntilRead
    <3>4. ReplayMeetsEarly(t) /\ NotYetShown(t)
      BY <3>1, <3>2, ZeroIsNoPost DEF ReplayMeetsEarly, NotYetShown
    <3> QED BY <3>3, <3>4
  <2> QED BY <2>1 DEF PagesInOrder
<1>7. NothingTwice
  BY <1>1 DEF NothingTwice
<1> QED BY <1>3, <1>4, <1>5, <1>6, <1>7 DEF WidgetInv

LEMMA InvStep ==
    ASSUME WidgetInv, [Next]_vars
    PROVE  WidgetInv'
BY StepFacts, ThreadsStep, ReplayStep, PagesStep, TwiceStep DEF WidgetInv

LEMMA Invariant == Spec => []WidgetInv
<1>1. Init => WidgetInv
  BY InitFacts
<1>2. WidgetInv /\ [Next]_vars => WidgetInv'
  BY InvStep
<1> QED BY <1>1, <1>2, PTL DEF Spec

\* Whatever the three chains do, the parts of a page and what the server keeps have
\* their types; the answers in a replay are messages of the model.
THEOREM TypeCorrect == Spec => []TypeOK
<1>1. WidgetInv => TypeOK
  BY DEF WidgetInv
<1> QED BY <1>1, Invariant, PTL

\* However turn, form and bootstrap interleave, in any number of tabs of one session, a
\* page shows a message again only when it had sent it before its bootstrap was read.
THEOREM NothingTwiceHolds == Spec => []NothingTwice
<1>1. WidgetInv => NothingTwice
  BY DEF WidgetInv
<1> QED BY <1>1, Invariant, PTL

-----------------------------------------------------------------------------
(***************************************************************************)
(* The way of a reply to the visitor it is for.                            *)
(***************************************************************************)
OnItsWay(t) ==
    /\ boot[t].pc = "sent" /\ boot[t].owed # None => boot[t].asked = boot[t].owed
    /\ boot[t].pc = "read" => boot[t].due \subseteq Elements(boot[t].replay)
    /\ boot[t].pc = "restored" => boot[t].due \subseteq Elements(log[t])

ReplyInv == WidgetInv /\ DueArrives /\ ReplyReachesVisitor

LEMMA StaysOnItsWay ==
    ASSUME NEW t \in Tabs, OnItsWay(t), boot'[t] = boot[t],
           Elements(log[t]) \subseteq Elements(log'[t])
    PROVE  OnItsWay(t)'
BY DEF OnItsWay

LEMMA SiteOnItsWay ==
    ASSUME TypeOK, NEW t \in Tabs, remembered = told, SiteResolves(t)
    PROVE  OnItsWay(t)'
<1>1. /\ boot'[t].pc = "sent" /\ boot'[t].asked = Stored(t)
      /\ boot'[t].owed = IF tab[t].session = None THEN told ELSE None
  BY SiteFacts
<1>2. tab[t].session = None => Stored(t) = told
  BY DEF Stored
<1> QED BY <1>1, <1>2 DEF OnItsWay

\* The replica held nothing else of the conversation than what is replayed.
LEMMA ReadOnItsWay ==
    ASSUME TypeOK, ReplaysAreWhole, NEW t \in Tabs, OnItsWay(t), ReadState(t)
    PROVE  OnItsWay(t)'
<1> DEFINE s == boot[t].asked
           w == boot[t].owed
<1>1. /\ boot[t].pc = "sent" /\ s \in SessionOrNone /\ w \in SessionOrNone
      /\ boot'[t].pc = "read"
  BY ReadFacts
<1>2. PICK c \in OnReplica(s), o \in OnReplica(w) :
         (s = w => c = o) /\ boot'[t].replay = Replay(c) /\ boot'[t].due = StaffIn(o)
  BY ReadFacts
<1>3. w # None => s = w
  BY <1>1 DEF OnItsWay
<1>4. CASE w = None
  <2>1. o = <<>>
    BY <1>1, <1>4, ReplicaFacts
  <2>2. StaffIn(o) = {}
    BY <2>1, NoElements DEF StaffIn
  <2> QED BY <1>1, <1>2, <2>2 DEF OnItsWay
<1>5. CASE w # None
  <2>1. c \in Seq(Message) /\ Len(c) <= Len(Conversation(s))
    BY <1>1, ReplicaFacts
  <2>2. Conversation(s) = thread[s] /\ Len(thread[s]) <= ReplayLimit
    BY <1>1, <1>3, <1>5, ConversationFacts DEF ReplaysAreWhole
  <2>3. Len(c) \in Nat /\ Len(Conversation(s)) \in Nat /\ ReplayLimit \in Nat
    BY <1>1, <2>1, ConversationFacts, LenProperties, ConstantsAssumption
  <2>4. Len(c) <= ReplayLimit
    BY <2>1, <2>2, <2>3
  <2>5. Replay(c) = c
    BY <2>1, <2>4, ReplayFacts
  <2>6. StaffIn(o) \subseteq Elements(c)
    BY <1>2, <1>3, <1>5 DEF StaffIn
  <2> QED BY <1>1, <1>2, <2>5, <2>6 DEF OnItsWay
<1> QED BY <1>4, <1>5

LEMMA RestoreOnItsWay ==
    ASSUME TypeOK, NEW t \in Tabs, OnItsWay(t), Restore(t)
    PROVE  OnItsWay(t)'
<1> DEFINE v == IF boot[t].replay # <<>> THEN boot[t].replay ELSE <<Greeting>>
<1>1. /\ boot[t].pc = "read" /\ boot'[t].pc = "restored" /\ boot'[t].due = boot[t].due
      /\ log'[t] = log[t] \o v
  BY RestoreFacts
<1>2. v \in Seq(Message) /\ log[t] \in Seq(Message)
  BY RestoreFacts, MessageTypes, AppendMessage DEF TypeOK
<1>3. boot[t].due \subseteq Elements(boot[t].replay)
  BY <1>1 DEF OnItsWay
<1>4. Elements(boot[t].replay) \subseteq Elements(v)
  BY NoElements
<1> HIDE DEF v
<1>5. Elements(log'[t]) = Elements(log[t]) \cup Elements(v)
  BY <1>1, <1>2, ConcatElements
<1> QED BY <1>1, <1>3, <1>4, <1>5 DEF OnItsWay

LEMMA PageOnItsWay ==
    ASSUME TypeOK, ReplaysAreWhole, PagesInOrder, remembered = told, [Next]_vars,
           NEW t \in Tabs, OnItsWay(t), PageStep(t)
    PROVE  OnItsWay(t)'
<1>1. ASSUME boot'[t] = boot[t], NEW m, m \in Message, log'[t] = log[t] \o <<m>>
      PROVE  OnItsWay(t)'
  <2>1. log[t] \in Seq(Message)
    BY DEF TypeOK
  <2>2. Elements(log'[t]) = Elements(log[t]) \cup {m}
    BY <1>1, <2>1, AppendMessage
  <2> QED BY <1>1, <2>2, StaysOnItsWay
<1>2. ASSUME boot'[t] = boot[t], log'[t] = log[t] PROVE OnItsWay(t)'
  BY <1>2, StaysOnItsWay
<1>3. CASE Load(t) \/ Leave(t) \/ Disable(t)
  <2>1. boot'[t] = NewBoot
    BY <1>3, BlanksFacts DEF Blanks
  <2> QED BY <2>1 DEF NewBoot, OnItsWay
<1>4. CASE SiteResolves(t)
  BY <1>4, SiteOnItsWay
<1>5. CASE BootFails(t)
  BY <1>5, BootFailsFacts DEF OnItsWay
<1>6. CASE Type(t) \/ Done(t) \/ Error(t) \/ EndOfStream(t)
  BY <1>2, <1>6, TurnGoesOn
<1>7. CASE TurnEnds(t) \/ TurnBreaks(t)
  BY <1>2, <1>7, FinishFacts DEF TurnEnds, TurnBreaks
<1>8. CASE OpenForm(t) \/ TakeOffer(t) \/ CancelForm(t) \/ ContactFails(t)
  BY <1>2, <1>8, FormFacts
<1>9. CASE ReadState(t)
  BY <1>9, ReadOnItsWay
<1>10. CASE Restore(t)
  BY <1>10, RestoreOnItsWay
<1>11. CASE Token(t)
  <2>1. turn[t].post \in Posts /\ log[t] \in Seq(Message)
    BY <1>11, TokenFacts DEF PagesInOrder, ShowsWhatWasSent, TypeOK
  <2>2. log[t] \o <<>> = log[t]
    BY <2>1, ConcatEmptySeq
  <2>3. boot'[t] = boot[t]
        /\ (log'[t] = log[t] \/ log'[t] = log[t] \o <<Answered(turn[t].post)>>)
    BY <1>11, <2>1, <2>2, TokenFacts
  <2> QED BY <1>1, <1>2, <2>1, <2>3, MessageTypes
<1>12. CASE Acknowledge(t)
  <2>1. contact[t].post \in Posts
    BY <1>12, AcknowledgeFacts DEF PagesInOrder, ShowsWhatWasSent
  <2>2. boot'[t] = boot[t]
        /\ (log'[t] = log[t] \/ log'[t] = log[t] \o <<Said(contact[t].post)>>)
    BY <1>12, AcknowledgeFacts
  <2> QED BY <1>1, <1>2, <2>1, <2>2, MessageTypes
<1>13. ASSUME NEW p \in Posts, Send(t, p) PROVE OnItsWay(t)'
  <2>1. boot'[t] = boot[t] /\ log'[t] = log[t] \o <<Said(p)>> /\ Said(p) \in Message
    BY <1>13, SendFacts, MessageTypes
  <2> QED BY <1>1, <2>1
<1>14. CASE \E p \in Posts : Submit(t, p)
  BY <1>2, <1>14, SubmitFacts
<1> QED BY <1>3, <1>4, <1>5, <1>6, <1>7, <1>8, <1>9, <1>10, <1>11, <1>12, <1>13, <1>14
        DEF PageStep, QuietStep

LEMMA RememberedIsTold ==
    ASSUME TypeOK, Durable, remembered = told, [Next]_vars
    PROVE  remembered' = told'
<1>1. ASSUME NEW t \in Tabs, PageStep(t) PROVE remembered' = told'
  <2>1. CASE Acknowledge(t)
    BY <2>1, AcknowledgeFacts DEF Remember
  <2>2. CASE Load(t) \/ Leave(t) \/ Disable(t)
    BY <2>2, BlanksFacts
  <2>3. CASE QuietStep(t)
    BY <2>3, QuietFacts
  <2>4. CASE ReadState(t) \/ Restore(t) \/ Token(t)
    BY <2>4, ReadFacts, RestoreFacts, TokenFacts
  <2>5. CASE \E p \in Posts : Send(t, p) \/ Submit(t, p)
    BY <2>5, SendFacts, SubmitFacts
  <2> QED BY <1>1, <2>1, <2>2, <2>3, <2>4, <2>5 DEF PageStep
<1> QED BY <1>1, Steps, ServerStepFacts

LEMMA ReplyStep ==
    ASSUME ReplyInv, ReplaysAreWhole, [Next]_vars
    PROVE  ReplyInv'
<1>1. WidgetInv'
  BY InvStep DEF ReplyInv
<1>2. TypeOK /\ PagesInOrder
  BY DEF ReplyInv, WidgetInv
<1>3. ASSUME Durable
      PROVE  remembered' = told' /\ \A u \in Tabs : OnItsWay(u)'
  <2>1. remembered = told /\ \A u \in Tabs : OnItsWay(u)
    BY <1>3 DEF ReplyInv, DueArrives, ReplyReachesVisitor, OnItsWay
  <2>2. ASSUME NEW u \in Tabs, boot'[u] = boot[u], log'[u] = log[u] PROVE OnItsWay(u)'
    BY <1>2, <2>1, <2>2, StaysOnItsWay
  <2>3. CASE \E t \in Tabs : PageStep(t)
    <3>1. PICK t \in Tabs : PageStep(t)
      BY <2>3
    <3>2. \A u \in Tabs \ {t} : OnItsWay(u)'
      BY <1>2, <2>2, <3>1, PageStepFacts DEF OthersStay
    <3> QED BY <1>2, <1>3, <2>1, <3>1, <3>2, PageOnItsWay, RememberedIsTold
  <2>4. CASE UNCHANGED <<boot, log, remembered, told>>
    BY <2>1, <2>2, <2>4
  <2> QED BY <1>2, <2>3, <2>4, Steps, ServerStepFacts
<1>4. DueArrives' /\ ReplyReachesVisitor'
  BY <1>3 DEF DueArrives, ReplyReachesVisitor, OnItsWay
<1> QED BY <1>1, <1>4 DEF ReplyInv

\* While no conversation has outgrown a replay, a visitor who was told that the reply
\* appears here, and opens the chat in another tab, is shown every reply that the replica
\* holds when the bootstrap reads it.
THEOREM ReplyReachesVisitorHolds == Spec /\ []ReplaysAreWhole => []ReplyReachesVisitor
<1>1. Init => ReplyInv
  <2>1. ASSUME Init PROVE DueArrives /\ ReplyReachesVisitor
    BY <2>1 DEF Init, DueArrives, ReplyReachesVisitor, NewBoot
  <2> QED BY <2>1, InitFacts DEF ReplyInv
<1>2. ReplyInv /\ ReplaysAreWhole /\ [Next]_vars => ReplyInv'
  BY ReplyStep
<1>3. ReplyInv => ReplyReachesVisitor
  BY DEF ReplyInv
<1> QED BY <1>1, <1>2, <1>3, PTL DEF Spec

LEMMA ThreadsAreShort ==
    ASSUME TypeOK, ThreadsInOrder, NEW s \in Sessions
    PROVE  Len(thread[s]) <= 2 * MaxPosts + MaxReplies
<1> DEFINE u == thread[s]
           N == 2 * MaxPosts + MaxReplies
           f == [i \in 1 .. N |->
                    IF i <= MaxPosts THEN Said(i)
                    ELSE IF i <= 2 * MaxPosts THEN Answered(i - MaxPosts)
                    ELSE Replied(i - 2 * MaxPosts)]
           M == {f[i] : i \in 1 .. N}
<1>1. MaxPosts \in Nat /\ MaxReplies \in Nat /\ N \in Nat
  BY ConstantsAssumption
<1>2. u \in Seq(Message)
  BY DEF TypeOK
<1>3. /\ DOMAIN u = 1 .. Len(u) /\ Len(u) \in Nat
      /\ \A i \in 1 .. Len(u) : u[i] \in Elements(u)
  BY <1>2, LenProperties, ElementsOfSeq
<1>4. ASSUME NEW m \in Elements(u) PROVE m \in M
  <2>1. m \in Message
    BY <1>2, ElementsOfSeq
  <2>2. CASE OfAPost(m) /\ m.role = "user"
    <3>1. m = Said(m.of) /\ m.of \in 1 .. MaxPosts
      BY <2>1, <2>2 DEF OfAPost, Message, Said, Posts
    <3>2. m.of \in 1 .. N /\ m.of <= MaxPosts
      BY <1>1, <3>1
    <3> QED BY <3>1, <3>2
  <2>3. CASE OfAPost(m) /\ m.role = "assistant"
    <3>1. m = Answered(m.of) /\ m.of \in 1 .. MaxPosts
      BY <2>1, <2>3 DEF OfAPost, Message, Answered, Posts
    <3> DEFINE i == MaxPosts + m.of
    <3>2. i \in 1 .. N /\ ~(i <= MaxPosts) /\ i <= 2 * MaxPosts /\ i - MaxPosts = m.of
      BY <1>1, <3>1
    <3>3. f[i] = m
      BY <3>1, <3>2
    <3> QED BY <3>2, <3>3
  <2>4. CASE m.role = "staff" /\ m.of \in 1 .. Cardinality(Replies)
    <3>1. m = Replied(m.of)
      BY <2>1, <2>4 DEF Message, Replied
    <3>2. m.of \in 1 .. MaxReplies
      <4>1. Cardinality(Replies) \in Nat /\ Cardinality(Replies) <= MaxReplies
        BY RepliesFinite DEF TypeOK, ThreadsInOrder
      <4> DEFINE n == Cardinality(Replies)
      <4>2. n \in Nat /\ n <= MaxReplies /\ m.of \in 1 .. n
        BY <2>4, <4>1
      <4> HIDE DEF n
      <4> QED BY <1>1, <4>2
    <3> DEFINE i == 2 * MaxPosts + m.of
    <3>3. i \in 1 .. N /\ ~(i <= MaxPosts) /\ ~(i <= 2 * MaxPosts) /\ i - 2 * MaxPosts = m.of
      BY <1>1, <3>2
    <3>4. f[i] = m
      BY <3>1, <3>3
    <3> QED BY <3>3, <3>4
  <2> QED BY <2>2, <2>3, <2>4 DEF ThreadsInOrder, OfAPost
<1>5. f \in Surjection(1 .. N, M)
  BY DEF Surjection
<1> HIDE DEF N, f, M
<1>6. IsFiniteSet(1 .. N) /\ Cardinality(1 .. N) = N
  BY <1>1, FS_Interval
<1>7. IsFiniteSet(M) /\ Cardinality(M) <= N
  BY <1>5, <1>6, FS_Surjection
<1>8. Len(u) <= Cardinality(M)
  <2> DEFINE g == [i \in 1 .. Len(u) |-> u[i]]
  <2>1. g \in Injection(1 .. Len(u), M)
    <3>1. \A i \in 1 .. Len(u), j \in 1 .. Len(u) : u[i] = u[j] => i = j
      BY <1>3 DEF ThreadsInOrder, NoRepeat
    <3>2. g \in [1 .. Len(u) -> M]
      BY <1>3, <1>4
    <3> QED BY <3>1, <3>2 DEF Injection, IsInjective
  <2> HIDE DEF g
  <2>2. Cardinality(1 .. Len(u)) <= Cardinality(M)
    BY <1>7, <2>1, FS_Injection
  <2>3. Cardinality(1 .. Len(u)) = Len(u)
    BY <1>3, FS_Interval
  <2> QED BY <2>2, <2>3
<1>9. Cardinality(M) \in Nat
  BY <1>7, FS_CardinalityType
<1>10. Len(u) <= N
  BY <1>1, <1>3, <1>7, <1>8, <1>9
<1> QED BY <1>10 DEF N

\* So it is whenever all that is ever said fits into a replay.
THEOREM ShortChatsReachVisitor ==
    2 * MaxPosts + MaxReplies <= ReplayLimit => (Spec => []ReplyReachesVisitor)
<1> SUFFICES ASSUME 2 * MaxPosts + MaxReplies <= ReplayLimit
             PROVE  Spec => []ReplyReachesVisitor
  OBVIOUS
<1>1. WidgetInv => ReplaysAreWhole
  <2>1. ASSUME WidgetInv, NEW s \in Sessions PROVE Len(thread[s]) <= ReplayLimit
    <3>1. Len(thread[s]) <= 2 * MaxPosts + MaxReplies /\ Len(thread[s]) \in Nat
      BY <2>1, ThreadsAreShort, LenProperties DEF WidgetInv, TypeOK
    <3> DEFINE n == Len(thread[s])
    <3> HIDE DEF n
    <3>2. n \in Nat /\ n <= 2 * MaxPosts + MaxReplies
      BY <3>1 DEF n
    <3>3. n <= ReplayLimit
      BY <3>2, ConstantsAssumption
    <3> QED BY <3>3 DEF n
  <2> QED BY <2>1 DEF ReplaysAreWhole
<1> QED BY <1>1, Invariant, ReplyReachesVisitorHolds, PTL
-----------------------------------------------------------------------------
(***************************************************************************)
(* The id that a device keeps.                                             *)
(***************************************************************************)
\* What page t does to the posts: those it holds are its own to send or to drop.
KeepsPosts(t) ==
    \A q \in Posts : post[q].state # "unused" =>
        post'[q].kind = post[q].kind /\ (q \notin HeldBy(t) => post'[q] = post[q])

KeepsSession(t) ==
    tab[t].session # None => tab'[t].session = tab[t].session

LEMMA SendAllSession ==
    ASSUME TypeOK, NEW t \in Tabs,
           NEW P, P # {} => \E p \in P : \A q \in P : p <= q, \A p \in P : p \in Posts,
           NEW posts \in [Posts -> PostRecord], SendAll(t, P, posts)
    PROVE  /\ KeepsSession(t)
           /\ \A p \in P : /\ post'[p].kind = posts[p].kind /\ post'[p].state = "running"
                           /\ tab'[t].session # None /\ post'[p].session = tab'[t].session
           /\ \A p \in Posts \ P : post'[p] = posts[p]
<1> DEFINE s == SessionId(t, P)
<1>2. tab[t].session # None => s = tab[t].session
  BY DEF SessionId, Stored
<1>3. P # {} => s # None
  <2>1. CASE Stored(t) # None
    BY <2>1 DEF SessionId
  <2>2. CASE Stored(t) = None /\ P # {}
    <3>1. s = CHOOSE p \in P : \A q \in P : p <= q
      BY <2>2 DEF SessionId
    <3>2. \E p \in P : \A q \in P : p <= q
      BY <2>2
    <3>3. s \in Posts
      BY <3>1, <3>2
    <3> QED BY <3>3, ZeroIsNoPost DEF None
  <2> QED BY <2>1, <2>2
<1>4. tab'[t].session = IF P = {} THEN tab[t].session ELSE s
  <2>1. tab' = [tab EXCEPT ![t].session = IF P = {} THEN tab[t].session ELSE s]
    BY DEF SendAll
  <2> HIDE DEF s
  <2>2. tab[t] \in TabRecord
    BY DEF TypeOK
  <2> QED BY <2>1, <2>2 DEF TypeOK, TabRecord
<1>5. \A p \in Posts :
         post'[p] = IF p \in P THEN [posts[p] EXCEPT !.state = "running", !.session = s]
                    ELSE posts[p]
  BY DEF SendAll
<1> HIDE DEF s
<1>6. \A p \in P : /\ post'[p].kind = posts[p].kind /\ post'[p].state = "running"
                   /\ post'[p].session = s
  <2>1. \A p \in P : posts[p] \in PostRecord
                     /\ post'[p] = [posts[p] EXCEPT !.state = "running", !.session = s]
    BY <1>5
  <2> QED BY <2>1 DEF PostRecord
<1> QED BY <1>2, <1>3, <1>4, <1>5, <1>6 DEF KeepsSession

LEMMA SiteSends ==
    ASSUME TypeOK, NEW t \in Tabs, SiteResolves(t)
    PROVE  /\ KeepsPosts(t) /\ KeepsSession(t)
           /\ contact'[t] = Opened(contact[t])
           /\ \A p \in HeldBy(t) : /\ post'[p].state = "running" /\ tab'[t].session # None
                                   /\ post'[p].session = tab'[t].session
<1> DEFINE P == HeldBy(t)
<1>1. SendAll(t, P, post) /\ contact' = [contact EXCEPT ![t] = Opened(contact[t])]
  BY DEF SiteResolves
<1>2. /\ turn[t].post \in Nat /\ contact[t].post \in Nat
      /\ P \subseteq Posts \cap {turn[t].post, contact[t].post}
      /\ post \in [Posts -> PostRecord]
  BY PostNumbers DEF TypeOK
<1> HIDE DEF P
<1>5. P # {} => \E p \in P : \A q \in P : p <= q
  <2> DEFINE a == turn[t].post
             b == contact[t].post
  <2>1. a \in Nat /\ b \in Nat /\ \A p \in P : p \in {a, b}
    BY <1>2
  <2> HIDE DEF a, b
  <2>2. a <= b \/ b <= a
    BY <2>1
  <2>3. CASE a \in P /\ (b \in P => a <= b)
    BY <2>1, <2>3
  <2>4. CASE b \in P /\ (a \in P => b <= a)
    BY <2>1, <2>4
  <2> QED BY <2>1, <2>2, <2>3, <2>4
<1>6. \A p \in P : p \in Posts
  BY <1>2
<1>3. /\ KeepsSession(t)
      /\ \A p \in P : /\ post'[p].kind = post[p].kind /\ post'[p].state = "running"
                      /\ tab'[t].session # None /\ post'[p].session = tab'[t].session
      /\ \A p \in Posts \ P : post'[p] = post[p]
  BY <1>1, <1>2, <1>5, <1>6, SendAllSession
<1>4. contact'[t] = Opened(contact[t])
  BY <1>1 DEF TypeOK
<1> QED BY <1>3, <1>4 DEF P, KeepsPosts

LEMMA PostedSends ==
    ASSUME TypeOK, NEW t \in Tabs, NEW p \in Posts, NEW kind \in {"turn", "contact"},
           NEW words \in BOOLEAN, Posted(t, p, kind, words)
    PROVE  /\ KeepsPosts(t) /\ KeepsSession(t)
           /\ post[p].state = "unused" /\ post'[p].kind = kind
           /\ \A q \in Posts \ {p} : post'[q] = post[q]
           /\ IF boot[t].pc = "site" THEN post'[p].state = "held"
              ELSE /\ post'[p].state = "running"
                   /\ tab'[t].session # None /\ post'[p].session = tab'[t].session
<1> DEFINE P == IF boot[t].pc = "site" THEN {} ELSE {p}
           r == [kind |-> kind, session |-> None, words |-> words, state |-> "held",
                 early |-> boot[t].pc \in {"site", "sent"}]
           posts == [post EXCEPT ![p] = r]
<1>1. SendAll(t, P, posts) /\ post[p].state = "unused"
  BY DEF Posted
<1>2. r \in PostRecord /\ r.state = "held" /\ r.kind = kind
  BY DEF PostRecord, SessionOrNone
<1>3. /\ P # {} => \E q \in P : \A x \in P : q <= x
      /\ \A q \in P : q \in Posts
  <2>1. p <= p
    BY DEF Posts
  <2> QED BY <2>1
<1> HIDE DEF r
<1>4. posts \in [Posts -> PostRecord] /\ posts[p] = r /\ \A q \in Posts \ {p} : posts[q] = post[q]
  BY <1>2 DEF TypeOK
<1> HIDE DEF posts
<1>5. boot[t].pc = "site" => P = {}
  OBVIOUS
<1>6. boot[t].pc # "site" => P = {p}
  OBVIOUS
<1> HIDE DEF P
<1>7. /\ KeepsSession(t)
      /\ \A q \in P : /\ post'[q].kind = posts[q].kind /\ post'[q].state = "running"
                      /\ tab'[t].session # None /\ post'[q].session = tab'[t].session
      /\ \A q \in Posts \ P : post'[q] = posts[q]
  BY <1>1, <1>3, <1>4, SendAllSession
<1>8. \A q \in Posts \ {p} : post'[q] = post[q]
  BY <1>4, <1>5, <1>6, <1>7
<1>9. KeepsPosts(t)
  BY <1>1, <1>8 DEF KeepsPosts
<1>10. CASE boot[t].pc = "site"
  BY <1>1, <1>2, <1>4, <1>5, <1>7, <1>8, <1>9, <1>10
<1>11. CASE boot[t].pc # "site"
  BY <1>1, <1>2, <1>4, <1>6, <1>7, <1>8, <1>9, <1>11
<1> QED BY <1>10, <1>11

\* What one step of page t does to its form.
LEMMA OwnForm ==
    ASSUME TypeOK, PagesInOrder, FormsInOrder, NEW t \in Tabs, PageStep(t)
    PROVE  /\ KeepsPosts(t)
           /\ LET c == contact'[t] IN
              /\ c.pc # "none" => post'[c.post].kind = "contact"
              /\ c.pc = "site" => post'[c.post].state = "held"
              /\ c.pc = "open" =>
                    /\ post'[c.post].state \notin {"unused", "held"}
                    /\ tab'[t].session # None /\ post'[c.post].session = tab'[t].session
           /\ \A p \in OwnPosts(t)' : p \in OwnPosts(t) \/ post[p].state = "unused"
<1> DEFINE Form == LET c == contact'[t] IN
                     /\ c.pc # "none" => post'[c.post].kind = "contact"
                     /\ c.pc = "site" => post'[c.post].state = "held"
                     /\ c.pc = "open" =>
                          /\ post'[c.post].state \notin {"unused", "held"}
                          /\ tab'[t].session # None /\ post'[c.post].session = tab'[t].session
           New == \A p \in OwnPosts(t)' : p \in OwnPosts(t) \/ post[p].state = "unused"
<1>1. LET c == contact[t] IN
      /\ c.pc # "none" => c.post \in Posts /\ post[c.post].state # "unused"
                          /\ post[c.post].kind = "contact"
      /\ c.pc = "site" => post[c.post].state = "held"
      /\ c.pc = "open" =>
            /\ post[c.post].state \notin {"unused", "held"}
            /\ tab[t].session # None /\ post[c.post].session = tab[t].session
  BY DEF FormsInOrder, PagesInOrder, ShowsWhatWasSent, OwnPosts
<1>2. /\ contact[t].pc \in {"none", "site", "open"}
      /\ turn[t].pc = "none" \/ turn[t].post \in Posts
  BY DEF TypeOK, ContactRecord, PagesInOrder, ShowsWhatWasSent
<1>3. UNCHANGED post => KeepsPosts(t)
  BY DEF KeepsPosts
<1>4. ASSUME Quiet(t) PROVE New
  BY <1>4 DEF Quiet, OwnPosts
<1>5. ASSUME UNCHANGED post, KeepsSession(t),
             \/ contact'[t].pc = "none"
             \/ contact'[t].pc = contact[t].pc /\ contact'[t].post = contact[t].post
      PROVE  Form
  BY <1>1, <1>5 DEF KeepsSession
<1>6. CASE Load(t) \/ Leave(t) \/ Disable(t)
  <2>1. contact'[t] = NoContact /\ turn'[t] = NoTurn
    BY <1>6, BlanksFacts DEF Blanks
  <2>2. Form /\ New
    BY <2>1, ZeroIsNoPost DEF NoContact, NoTurn, OwnPosts
  <2>3. KeepsPosts(t)
    <3>1. CASE Leave(t)
      <4>1. \A p \in Posts :
               post'[p] = IF p \in HeldBy(t) THEN [post[p] EXCEPT !.state = "failed"] ELSE post[p]
        BY <3>1 DEF Leave
      <4>2. \A p \in Posts : post[p] \in PostRecord
        BY DEF TypeOK
      <4> QED BY <4>1, <4>2 DEF KeepsPosts, PostRecord
    <3>2. CASE UNCHANGED post
      BY <1>3, <3>2
    <3> QED BY <1>6, <3>1, <3>2 DEF Load, Disable, server
  <2> QED BY <2>2, <2>3
<1>7. CASE SiteResolves(t)
  <2>1. /\ KeepsPosts(t) /\ KeepsSession(t) /\ contact'[t] = Opened(contact[t])
        /\ \A p \in HeldBy(t) : /\ post'[p].state = "running" /\ tab'[t].session # None
                                /\ post'[p].session = tab'[t].session
    BY <1>7, SiteSends
  <2>2. New
    BY <1>4, <1>7, SiteFacts
  <2>3. CASE contact[t].pc = "none"
    BY <2>1, <2>2, <2>3 DEF Opened
  <2>4. CASE contact[t].pc = "site"
    <3>1. contact[t].post \in HeldBy(t)
      BY <1>1, <2>4 DEF HeldBy
    <3>2. contact'[t].pc = "open" /\ contact'[t].post = contact[t].post
      BY <2>1, <2>4 DEF Opened, TypeOK, ContactRecord
    <3>3. post'[contact[t].post].kind = "contact"
      BY <1>1, <2>1, <2>4 DEF KeepsPosts
    <3> QED BY <2>1, <2>2, <3>1, <3>2, <3>3
  <2>5. CASE contact[t].pc = "open"
    <3>1. contact'[t] = contact[t]
      BY <2>1, <2>5 DEF Opened
    <3>2. contact[t].post \notin HeldBy(t)
      BY <1>1, <2>5 DEF HeldBy
    <3>3. post'[contact[t].post] = post[contact[t].post]
      BY <1>1, <2>1, <2>5, <3>2 DEF KeepsPosts
    <3> QED BY <1>1, <2>1, <2>2, <2>5, <3>1, <3>3 DEF KeepsSession
  <2> QED BY <1>2, <2>3, <2>4, <2>5
<1>8. CASE BootFails(t)
  BY <1>3, <1>4, <1>5, <1>8, BootFailsFacts DEF KeepsSession
<1>9. CASE Type(t) \/ Done(t) \/ Error(t) \/ EndOfStream(t)
  BY <1>3, <1>4, <1>5, <1>9, TurnGoesOn DEF KeepsSession
<1>10. CASE TurnEnds(t) \/ TurnBreaks(t)
  <2>1. FinishTurn(t)
    BY <1>10 DEF TurnEnds, TurnBreaks
  <2>2. KeepsSession(t)
    BY <2>1 DEF FinishTurn, KeepsSession, TypeOK, TabRecord
  <2> QED BY <1>3, <1>4, <1>5, <2>1, <2>2, FinishFacts
<1>11. CASE OpenForm(t) \/ TakeOffer(t) \/ CancelForm(t) \/ ContactFails(t)
  <2>1. KeepsSession(t)
    BY <1>11 DEF OpenForm, TakeOffer, CancelForm, ContactFails, Shows, KeepsSession, TypeOK, TabRecord
  <2>2. \/ contact'[t].pc = "none"
        \/ contact'[t].pc = contact[t].pc /\ contact'[t].post = contact[t].post
    BY <1>11 DEF OpenForm, TakeOffer, CancelForm, ContactFails, Shows, TypeOK, ContactRecord
  <2> QED BY <1>3, <1>4, <1>5, <1>11, <2>1, <2>2, FormFacts
<1>12. CASE ReadState(t) \/ Token(t)
  <2>1. /\ UNCHANGED <<tab, contact, post>>
        /\ turn'[t].post = turn[t].post
    BY <1>12, ReadFacts, TokenFacts
  <2>2. New
    BY <2>1 DEF OwnPosts
  <2> QED BY <1>3, <1>5, <2>1, <2>2 DEF KeepsSession
<1>13. CASE Restore(t)
  <2>1. UNCHANGED <<turn, contact, post>>
    BY <1>13, RestoreFacts
  <2>2. KeepsSession(t)
    BY <1>13 DEF Restore, KeepsSession, TypeOK, TabRecord
  <2>3. New
    BY <2>1 DEF OwnPosts
  <2> QED BY <1>3, <1>5, <2>1, <2>2, <2>3
<1>14. CASE Acknowledge(t)
  <2>1. UNCHANGED <<turn, post>> /\ contact'[t] = NoContact
    BY <1>14, AcknowledgeFacts
  <2>2. Form /\ New
    BY <2>1, ZeroIsNoPost DEF NoContact, OwnPosts
  <2> QED BY <1>3, <2>1, <2>2
<1>15. ASSUME NEW p \in Posts, Send(t, p) PROVE KeepsPosts(t) /\ Form /\ New
  <2>1. /\ UNCHANGED contact /\ turn'[t].post = p /\ post[p].state = "unused"
    BY <1>15, SendFacts
  <2>2. KeepsPosts(t) /\ KeepsSession(t)
    BY <1>15, PostedSends DEF Send
  <2>3. New
    BY <2>1 DEF OwnPosts
  <2>4. contact[t].pc # "none" => post'[contact[t].post] = post[contact[t].post]
    <3>1. \A q \in Posts \ {p} : post'[q] = post[q]
      BY <1>15, PostedSends DEF Send
    <3> QED BY <1>1, <2>1, <3>1
  <2>5. Form
    BY <1>1, <1>2, <2>1, <2>2, <2>4 DEF KeepsSession
  <2> QED BY <2>2, <2>3, <2>5
<1>16. ASSUME NEW p \in Posts, Submit(t, p) PROVE KeepsPosts(t) /\ Form /\ New
  <2>1. /\ UNCHANGED turn /\ contact'[t].post = p /\ contact'[t].pc = PcOfPost(t)
    BY <1>16 DEF Submit, TypeOK
  <2>2. PICK words \in BOOLEAN : Posted(t, p, "contact", words)
    BY <1>16 DEF Submit
  <2>3. /\ KeepsPosts(t) /\ post[p].state = "unused" /\ post'[p].kind = "contact"
        /\ IF boot[t].pc = "site" THEN post'[p].state = "held"
           ELSE /\ post'[p].state = "running"
                /\ tab'[t].session # None /\ post'[p].session = tab'[t].session
    BY <2>2, PostedSends
  <2>4. New
    BY <2>1, <2>3 DEF OwnPosts
  <2>5. CASE boot[t].pc = "site"
    BY <2>1, <2>3, <2>4, <2>5 DEF PcOfPost
  <2>6. CASE boot[t].pc # "site"
    BY <2>1, <2>3, <2>4, <2>6 DEF PcOfPost
  <2> QED BY <2>5, <2>6
<1>17. CASE \E p \in Posts : Send(t, p) \/ Submit(t, p)
  BY <1>15, <1>16, <1>17
<1> QED BY <1>6, <1>7, <1>8, <1>9, <1>10, <1>11, <1>12, <1>13, <1>14, <1>17 DEF PageStep, QuietStep

TicketInv == WidgetInv /\ FormsInOrder /\ OnlyTicketsAreRemembered

\* The server ends what runs, and changes nothing else of a post.
LEMMA ServerKeeps ==
    ASSUME TypeOK, (\E p \in Posts : Store(p) \/ Abandon(p))
                   \/ (\E s \in Sessions : Reply(s) \/ SetStatus(s)) \/ UNCHANGED vars
    PROVE  \A q \in Posts :
             /\ post'[q].kind = post[q].kind /\ post'[q].session = post[q].session
             /\ post'[q].state = post[q].state
                \/ (post[q].state = "running" /\ post'[q].state \in {"stored", "failed"})
<1>1. \A q \in Posts : post[q] \in PostRecord
  BY DEF TypeOK
<1>2. ASSUME NEW p \in Posts, NEW x \in {"stored", "failed"}, post[p].state = "running",
             post' = [post EXCEPT ![p].state = x], NEW q \in Posts
      PROVE  /\ post'[q].kind = post[q].kind /\ post'[q].session = post[q].session
             /\ post'[q].state = post[q].state
                \/ (post[q].state = "running" /\ post'[q].state \in {"stored", "failed"})
  BY <1>1, <1>2 DEF TypeOK, PostRecord
<1>3. CASE \E p \in Posts : Store(p) \/ Abandon(p)
  BY <1>2, <1>3 DEF Store, Abandon
<1>4. CASE UNCHANGED post
  BY <1>4
<1> QED BY <1>3, <1>4 DEF Reply, SetStatus, vars

LEMMA FormsStep ==
    ASSUME WidgetInv, FormsInOrder, [Next]_vars
    PROVE  FormsInOrder'
<1> DEFINE Form(u) == LET c == contact'[u] IN
                        /\ c.pc # "none" => post'[c.post].kind = "contact"
                        /\ c.pc = "site" => post'[c.post].state = "held"
                        /\ c.pc = "open" =>
                             /\ post'[c.post].state \notin {"unused", "held"}
                             /\ tab'[u].session # None /\ post'[c.post].session = tab'[u].session
<1>1. TypeOK /\ PagesInOrder
  BY DEF WidgetInv
<1>2. ASSUME NEW u \in Tabs
      PROVE  LET c == contact[u] IN
             /\ c.pc # "none" => c.post \in OwnPosts(u) /\ c.post \in Posts
                                 /\ post[c.post].kind = "contact"
             /\ c.pc = "site" => post[c.post].state = "held"
             /\ c.pc = "open" =>
                   /\ post[c.post].state \notin {"unused", "held"}
                   /\ tab[u].session # None /\ post[c.post].session = tab[u].session
  BY <1>1 DEF FormsInOrder, PagesInOrder, ShowsWhatWasSent, OwnPosts
<1>3. \A u \in Tabs : \A p \in OwnPosts(u) : p \in Posts /\ post[p].state # "unused"
  BY <1>1 DEF PagesInOrder, ShowsWhatWasSent, OwnPosts
<1>4. \A u \in Tabs, v \in Tabs : u # v => OwnPosts(u) \cap OwnPosts(v) = {}
  BY DEF FormsInOrder
<1>5. ASSUME NEW t \in Tabs, PageStep(t), NEW u \in Tabs \ {t}
      PROVE  Form(u) /\ OwnPosts(u)' = OwnPosts(u)
  <2>1. /\ tab'[u] = tab[u] /\ turn'[u] = turn[u] /\ contact'[u] = contact[u]
    BY <1>1, <1>5, PageStepFacts DEF OthersStay
  <2>2. OwnPosts(u)' = OwnPosts(u)
    BY <2>1 DEF OwnPosts
  <2>3. KeepsPosts(t)
    BY <1>1, <1>5, OwnForm
  <2>4. HeldBy(t) \subseteq OwnPosts(t)
    BY DEF HeldBy, OwnPosts
  <2>5. \A p \in OwnPosts(u) : post'[p] = post[p]
    BY <1>3, <1>4, <1>5, <2>3, <2>4 DEF KeepsPosts
  <2> QED BY <1>2, <2>1, <2>2, <2>5
<1>6. CASE \E t \in Tabs : PageStep(t)
  <2>1. PICK t \in Tabs : PageStep(t)
    BY <1>6
  <2>2. Form(t) /\ \A p \in OwnPosts(t)' : p \in OwnPosts(t) \/ post[p].state = "unused"
    BY <1>1, <2>1, OwnForm
  <2>3. \A u \in Tabs \ {t} : Form(u) /\ OwnPosts(u)' = OwnPosts(u)
    BY <1>5, <2>1
  <2>4. \A u \in Tabs \ {t} : OwnPosts(t)' \cap OwnPosts(u)' = {}
    BY <1>3, <1>4, <2>2, <2>3
  <2>5. \A u \in Tabs, v \in Tabs : u # v => OwnPosts(u)' \cap OwnPosts(v)' = {}
    BY <1>4, <2>3, <2>4
  <2> HIDE DEF Form
  <2>6. \A u \in Tabs : Form(u)
    BY <2>2, <2>3
  <2> QED BY <2>5, <2>6 DEF FormsInOrder, Form
<1>7. CASE ~\E t \in Tabs : PageStep(t)
  <2>1. UNCHANGED <<tab, turn, contact>>
    BY <1>1, <1>7, Steps, ServerStepFacts
  <2>2. \A q \in Posts :
           /\ post'[q].kind = post[q].kind /\ post'[q].session = post[q].session
           /\ post'[q].state = post[q].state
              \/ (post[q].state = "running" /\ post'[q].state \in {"stored", "failed"})
    BY <1>1, <1>7, Steps, ServerKeeps
  <2>3. ASSUME NEW u \in Tabs PROVE Form(u)
    BY <1>2, <2>1, <2>2
  <2>4. \A u \in Tabs : OwnPosts(u)' = OwnPosts(u)
    BY <2>1 DEF OwnPosts
  <2> HIDE DEF Form
  <2> QED BY <1>4, <2>3, <2>4 DEF FormsInOrder, Form
<1> QED BY <1>6, <1>7

LEMMA RememberedStep ==
    ASSUME TicketInv, [Next]_vars
    PROVE  OnlyTicketsAreRemembered'
<1>1. TypeOK /\ PagesInOrder /\ FormsInOrder
  BY DEF TicketInv, WidgetInv
<1>2. ASSUME NEW p \in Posts, post[p].kind = "contact", post[p].state = "stored",
             post[p].session = remembered'
      PROVE  OnlyTicketsAreRemembered'
  <2>1. post'[p].kind = post[p].kind /\ post'[p].session = post[p].session
    <3>1. CASE \E t \in Tabs : PageStep(t)
      <4>1. PICK t \in Tabs : PageStep(t)
        BY <3>1
      <4>2. KeepsPosts(t)
        BY <1>1, <4>1, OwnForm
      <4>3. p \notin HeldBy(t)
        BY <1>2 DEF HeldBy
      <4> QED BY <1>2, <4>2, <4>3 DEF KeepsPosts
    <3>2. CASE ~\E t \in Tabs : PageStep(t)
      BY <1>1, <3>2, Steps, ServerKeeps
    <3> QED BY <3>1, <3>2
  <2>2. post'[p].state = "stored"
    BY <1>1, <1>2, StepFacts DEF PostsGoOn
  <2> QED BY <1>2, <2>1, <2>2 DEF OnlyTicketsAreRemembered
<1>3. ASSUME remembered' = remembered PROVE OnlyTicketsAreRemembered'
  <2>1. CASE remembered = None
    BY <1>3, <2>1 DEF OnlyTicketsAreRemembered
  <2>2. CASE remembered # None
    <3>1. PICK p \in Posts : post[p].kind = "contact" /\ post[p].state = "stored"
                             /\ post[p].session = remembered
      BY <2>2 DEF TicketInv, OnlyTicketsAreRemembered
    <3> QED BY <1>2, <1>3, <3>1
  <2> QED BY <2>1, <2>2
<1>4. ASSUME NEW t \in Tabs, Acknowledge(t) PROVE OnlyTicketsAreRemembered'
  <2> DEFINE p == contact[t].post
  <2>1. contact[t].pc = "open" /\ post[p].state = "stored"
    BY <1>4 DEF Acknowledge, Created
  <2>2. p \in Posts /\ post[p].kind = "contact" /\ post[p].session = tab[t].session
    BY <1>1, <2>1 DEF FormsInOrder, PagesInOrder, ShowsWhatWasSent
  <2>3. CASE remembered' = tab[t].session
    BY <1>2, <2>1, <2>2, <2>3
  <2>4. CASE remembered' = remembered
    BY <1>3, <2>4
  <2> QED BY <1>1, <1>4, <2>3, <2>4, AcknowledgeFacts DEF Remember
<1>5. ASSUME NEW t \in Tabs, PageStep(t), ~Acknowledge(t) PROVE remembered' = remembered
  <2>1. CASE Load(t) \/ Leave(t) \/ Disable(t)
    BY <1>1, <2>1, BlanksFacts
  <2>2. CASE QuietStep(t)
    BY <1>1, <2>2, QuietFacts
  <2>3. CASE ReadState(t) \/ Restore(t) \/ Token(t)
    BY <1>1, <2>3, ReadFacts, RestoreFacts, TokenFacts
  <2>4. CASE \E p \in Posts : Send(t, p) \/ Submit(t, p)
    BY <1>1, <2>4, SendFacts, SubmitFacts
  <2> QED BY <1>5, <2>1, <2>2, <2>3, <2>4 DEF PageStep
<1>6. (\E t \in Tabs : Acknowledge(t)) \/ remembered' = remembered
  BY <1>1, <1>5, Steps, ServerStepFacts
<1> QED BY <1>3, <1>4, <1>6

\* However often and in whatever order posts, forms and bootstraps come through, in any
\* number of tabs: an id that outlives its tab is that of a visitor with a ticket.
THEOREM OnlyTicketsAreRememberedHolds == Spec => []OnlyTicketsAreRemembered
<1>1. Init => TicketInv
  <2>1. ASSUME Init PROVE FormsInOrder /\ OnlyTicketsAreRemembered
    <3>1. /\ remembered = None
          /\ \A t \in Tabs : turn[t] = NoTurn /\ contact[t] = NoContact
      BY <2>1 DEF Init
    <3>2. \A t \in Tabs : OwnPosts(t) = {}
      BY <3>1, ZeroIsNoPost DEF OwnPosts, NoTurn, NoContact
    <3> QED BY <3>1, <3>2 DEF FormsInOrder, OnlyTicketsAreRemembered, NoContact
  <2> QED BY <2>1, InitFacts DEF TicketInv
<1>2. TicketInv /\ [Next]_vars => TicketInv'
  BY InvStep, FormsStep, RememberedStep DEF TicketInv
<1>3. TicketInv => OnlyTicketsAreRemembered
  BY DEF TicketInv
<1> QED BY <1>1, <1>2, <1>3, PTL DEF Spec
=============================================================================
