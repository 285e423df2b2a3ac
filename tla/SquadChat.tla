----------------------------- MODULE SquadChat -----------------------------
(***************************************************************************)
(* The chat of a squad: messages and the pages a client reads them in.      *)
(*                                                                         *)
(* The members go on changing while chat requests run, in the steps module   *)
(* Membership allows (Squads implements it). Every chat request asks        *)
(* IsMember first and touches the messages in a second call. A message gets *)
(* its time when its INSERT begins and is visible when it commits, so       *)
(* messages may become visible in another order than that of their times,   *)
(* and two that begin within the clock's resolution share one.              *)
(***************************************************************************)
EXTENDS Naturals, FiniteSets

CONSTANTS
    Users,          \* ids of registered users
    SquadIds,       \* ids of squads
    MessageIds,     \* ids a messages row can get (bounds their number)
    Chatters,       \* goroutines serving POST /messages and PUT /messages/read
    Readers,        \* clients that read a chat page by page
    Limits,         \* the limits clients ask for
    DefaultLimit,   \* rows of a page when the limit asked for is out of range
    MaxLimit,       \* the largest limit GetMessages accepts
    LastInstant,    \* bound on the clock
    NoRow,          \* the id has no row yet
    Fragile         \* goroutines that may die between two calls of a request

ASSUME MessageAssumption == IsFiniteSet(MessageIds)
ASSUME LimitAssumption ==
    /\ Limits \subseteq Nat
    /\ MaxLimit \in Nat
    /\ DefaultLimit \in 1..MaxLimit
    /\ LastInstant \in Nat

Instant == 0..LastInstant

Message == [squad: SquadIds, sender: Users, at: Instant, readBy: SUBSET Users]

\* What a request still has to do, and what it remembers for it.
Idle == [stage |-> "idle"]
SendRequest   == [stage: {"send", "read"}, user: Users, squad: SquadIds]
CommitRequest == [stage: {"commit"}, user: Users, squad: SquadIds, at: Instant]

\* A client's way through a chat: `cursor` is the time it has come down to,
\* `seen` the messages it was sent, `begun` the ones visible when it began.
Walk == [stage: {"gate", "query", "done"}, user: Users, squad: SquadIds,
         limit: Limits, cursor: 0..(LastInstant + 1),
         seen: SUBSET MessageIds, begun: SUBSET MessageIds]

ASSUME NoMessageAssumption == NoRow \notin Message

VARIABLES
    members,    \* members[s][u]: status of u's squad_members row, or "none"
    joined,     \* history: the users whose row in s has ever been "accepted"
    now,        \* the database's clock
    messages,   \* messages[m]: the row of m, or NoRow
    chatting,   \* chatting[w]: the request goroutine w is serving, or Idle
    walks       \* walks[r]: where client r is on its way, or Idle

chat == <<now, messages, chatting, walks>>
seats == <<members, joined>>
vars == <<seats, chat>>

Membership == INSTANCE Membership

Init ==
    /\ Membership!Init
    /\ now      = 0
    /\ messages = [m \in MessageIds |-> NoRow]
    /\ chatting = [w \in Chatters |-> Idle]
    /\ walks    = [r \in Readers |-> Idle]

\* Mutant: any row of the user in the squad opens the chat.
IsListed(s, u) == members[s][u] # "none"

\* The gate of every chat request (FR-4.5).
IsMember(s, u) == members[s][u] = "accepted"

MessagesOf(s) == {m \in MessageIds : messages[m] # NoRow /\ messages[m].squad = s}

-----------------------------------------------------------------------------
(* POST /squads/{id}/messages and PUT /squads/{id}/messages/read            *)

\* SendMessage or MarkRead up to the check on what IsMember returned.
ChatGate(w, u, s, stage) ==
    /\ chatting[w] = Idle
    /\ IsMember(s, u)
    /\ chatting' = [chatting EXCEPT ![w] = [stage |-> stage, user |-> u, squad |-> s]]
    /\ UNCHANGED <<seats, now, messages, walks>>

\* Mutant: the time is taken from the server's clock, which runs ahead.
SentAtServer == now + 1

\* NOW(): the time the statement begins.
SentAt == now

\* CreateMessage begins.
SendBegin(w) ==
    /\ chatting[w].stage = "send"
    /\ chatting' = [chatting EXCEPT ![w] =
         [stage |-> "commit", user |-> @.user, squad |-> @.squad, at |-> SentAt]]
    /\ UNCHANGED <<seats, now, messages, walks>>

\* CreateMessage commits.
SendCommit(w, m) ==
    LET c == chatting[w] IN
    /\ c.stage = "commit"
    /\ messages[m] = NoRow
    /\ messages' = [messages EXCEPT ![m] =
         [squad |-> c.squad, sender |-> c.user, at |-> c.at, readBy |-> {}]]
    /\ chatting' = [chatting EXCEPT ![w] = Idle]
    /\ UNCHANGED <<seats, now, walks>>

\* The messages after MarkRead of user u.
MarkedRead(s, u) ==
    [m \in MessageIds |->
       IF m \in MessagesOf(s) THEN [messages[m] EXCEPT !.readBy = @ \cup {u}]
       ELSE messages[m]]

MarkRead(w) ==
    LET c == chatting[w] IN
    /\ c.stage = "read"
    /\ messages' = MarkedRead(c.squad, c.user)
    /\ chatting' = [chatting EXCEPT ![w] = Idle]
    /\ UNCHANGED <<seats, now, walks>>

\* The client goes away, the call fails or the process dies.
AbortChat(w) ==
    /\ w \in Fragile
    /\ chatting[w] # Idle
    /\ chatting' = [chatting EXCEPT ![w] = Idle]
    /\ UNCHANGED <<seats, now, messages, walks>>

-----------------------------------------------------------------------------
(* GET /squads/{id}/messages?cursor=&limit=                                 *)

\* The client asks for the newest page: no cursor, so no message is too new.
WalkStart(r, u, s, limit) ==
    /\ walks[r] = Idle \/ walks[r].stage = "done"
    /\ walks' = [walks EXCEPT ![r] =
         [stage |-> "gate", user |-> u, squad |-> s, limit |-> limit,
          cursor |-> LastInstant + 1, seen |-> {}, begun |-> MessagesOf(s)]]
    /\ UNCHANGED <<seats, now, messages, chatting>>

\* GetMessages up to the check on what IsMember returned; the client whose
\* page is refused gives up.
WalkGate(r) ==
    LET k == walks[r] IN
    /\ k.stage = "gate"
    /\ walks' = [walks EXCEPT ![r] =
         IF IsMember(k.squad, k.user) THEN [k EXCEPT !.stage = "query"] ELSE Idle]
    /\ UNCHANGED <<seats, now, messages, chatting>>

\* How many rows GetMessages asks for.
Clamped(limit) == IF limit \in 1..MaxLimit THEN limit ELSE DefaultLimit

\* Mutant: ... AND sent_at <= cursor.
UpToCursor(k) == {m \in MessagesOf(k.squad) : messages[m].at <= k.cursor}

\* The rows of WHERE squad_id = ... AND sent_at < cursor.
OlderThan(k) == {m \in MessagesOf(k.squad) : messages[m].at < k.cursor}

\* Mutant: ORDER BY sent_at.
OldestPage(k, page) ==
    /\ page \subseteq OlderThan(k)
    /\ \A m \in page, n \in OlderThan(k) \ page : messages[m].at <= messages[n].at
    /\ \/ Cardinality(page) = Clamped(k.limit)
       \/ Cardinality(page) < Clamped(k.limit) /\ page = OlderThan(k)

\* `page` is what ORDER BY sent_at DESC LIMIT leaves of them: of messages with
\* one time it may take any.
NewestPage(k, page) ==
    /\ page \subseteq OlderThan(k)
    /\ \A m \in page, n \in OlderThan(k) \ page : messages[m].at >= messages[n].at
    /\ \/ Cardinality(page) = Clamped(k.limit)
       \/ Cardinality(page) < Clamped(k.limit) /\ page = OlderThan(k)

\* `last` is the last row of a page.
LastOf(page, last) == last \in page /\ \A m \in page : messages[last].at <= messages[m].at

\* A page is followed by another one when it has as many rows as were asked
\* for, before the limit was clamped.
Full(k, page) == Cardinality(page) = k.limit

\* The query finds a page that is not followed by another one.
WalkLastPage(r, page) ==
    LET k == walks[r] IN
    /\ k.stage = "query"
    /\ NewestPage(k, page)
    /\ ~Full(k, page)
    /\ walks' = [walks EXCEPT ![r] = [k EXCEPT !.stage = "done", !.seen = k.seen \cup page]]
    /\ UNCHANGED <<seats, now, messages, chatting>>

\* The query finds a full page; next_cursor is the time of its last row.
WalkFullPage(r, page, last) ==
    LET k == walks[r] IN
    /\ k.stage = "query"
    /\ NewestPage(k, page)
    /\ Full(k, page)
    /\ LastOf(page, last)
    /\ walks' = [walks EXCEPT ![r] =
         [k EXCEPT !.stage = "gate", !.seen = k.seen \cup page, !.cursor = messages[last].at]]
    /\ UNCHANGED <<seats, now, messages, chatting>>

\* A page of no rows that fills the limit 0: the last row of it is asked for,
\* the handler panics and the client gets no answer.
WalkPanic(r) ==
    LET k == walks[r] IN
    /\ k.stage = "query"
    /\ NewestPage(k, {})
    /\ Full(k, {})
    /\ walks' = [walks EXCEPT ![r] = Idle]
    /\ UNCHANGED <<seats, now, messages, chatting>>

-----------------------------------------------------------------------------
Tick ==
    /\ now < LastInstant
    /\ now' = now + 1
    /\ UNCHANGED <<seats, messages, chatting, walks>>

Talk == \E w \in Chatters :
          \/ \E u \in Users, s \in SquadIds, stage \in {"send", "read"} :
               ChatGate(w, u, s, stage)
          \/ SendBegin(w)
          \/ \E m \in MessageIds : SendCommit(w, m)
          \/ MarkRead(w)
          \/ AbortChat(w)
Read == \E r \in Readers :
          \/ \E u \in Users, s \in SquadIds, limit \in Limits : WalkStart(r, u, s, limit)
          \/ WalkGate(r)
          \/ \E page \in SUBSET MessageIds :
               WalkLastPage(r, page) \/ \E last \in page : WalkFullPage(r, page, last)
          \/ WalkPanic(r)

Membering == Membership!Next /\ UNCHANGED chat

Next == Talk \/ Read \/ Tick \/ Membering

Spec == Init /\ [][Next]_vars

-----------------------------------------------------------------------------
(* Properties.                                                              *)

\* Rows, requests and walks have the fields and the values the code gives them.
TypeOK ==
    /\ members \in [SquadIds -> [Users -> {"none", "invited", "accepted", "rejected"}]]
    /\ joined \in [SquadIds -> SUBSET Users]
    /\ now \in Instant
    /\ messages \in [MessageIds -> Message \cup {NoRow}]
    /\ chatting \in [Chatters -> SendRequest \cup CommitRequest \cup {Idle}]
    /\ walks \in [Readers -> Walk \cup {Idle}]

\* What is left of FR-4.5 when the gate of a chat request and its second call
\* are two calls and answers run in between: whoever wrote a message, is
\* recorded as a reader of it or was sent one was once an accepted member of
\* its squad. Someone who rejects in between still writes and still reads.
ChatOfMembers ==
    /\ \A m \in MessageIds : messages[m] # NoRow =>
         messages[m].readBy \cup {messages[m].sender} \subseteq joined[messages[m].squad]
    /\ \A r \in Readers : walks[r] # Idle /\ walks[r].seen # {} =>
         walks[r].user \in joined[walks[r].squad]

\* The time of message m is no other message's of its squad.
OneAt(m) ==
    \A n \in MessageIds \ {m} :
        messages[n] # NoRow /\ messages[n].squad = messages[m].squad
          => messages[n].at # messages[m].at

\* A client that pages with a limit the server accepts, and gets to the end, was
\* sent every message that was visible when it began, though messages with
\* earlier and later times become visible while it pages. One that shares its
\* time with another may be missed: it may fall between two pages.
WalkComplete ==
    \A r \in Readers :
        walks[r] # Idle /\ walks[r].stage = "done" /\ walks[r].limit \in 1..MaxLimit =>
          \A m \in walks[r].begun : OneAt(m) => m \in walks[r].seen

\* A page has no message that an earlier page of the same walk had, and its
\* messages are older than all of those.
PagesDescend ==
    [][\A r \in Readers :
         walks[r] # Idle /\ walks[r].stage = "query" /\ walks'[r] # Idle =>
           \A m \in walks'[r].seen \ walks[r].seen, n \in walks[r].seen :
             messages[m].at < messages[n].at]_vars
=============================================================================
