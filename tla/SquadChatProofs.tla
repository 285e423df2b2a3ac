-------------------------- MODULE SquadChatProofs --------------------------
(***************************************************************************)
(* Proofs about SquadChat, for every set of users, squads, messages and     *)
(* clients and every page size: rows and walks are well typed, only those   *)
(* who joined a squad take part in its chat, pages descend, and a finished  *)
(* walk has missed nothing it could have shown.                             *)
(***************************************************************************)
EXTENDS SquadChat, FiniteSetTheorems, TLAPS

(* A request at its second or third call is one of those kinds.               *)
LEMMA ChatStages ==
    ASSUME TypeOK, NEW w \in Chatters
    PROVE  /\ chatting[w].stage \in {"send", "read"} => chatting[w] \in SendRequest
           /\ chatting[w].stage = "commit" => chatting[w] \in CommitRequest
<1>1. chatting[w] \in SendRequest \cup CommitRequest \cup {Idle}
  BY DEF TypeOK
<1> QED BY <1>1 DEF SendRequest, CommitRequest, Idle

(* A walk that is under way is a walk.                                        *)
LEMMA WalkStages ==
    ASSUME TypeOK, NEW r \in Readers
    PROVE  /\ walks[r].stage \in {"gate", "query", "done"} => walks[r] \in Walk
           /\ walks[r] # Idle => walks[r] \in Walk
           /\ walks[r] \in Walk => walks[r] # Idle
BY DEF TypeOK, Walk, Idle

(* What one client does leaves the walks of the others alone.                 *)
LEMMA WalkMoves ==
    ASSUME TypeOK, [Next]_vars, NEW r \in Readers
    PROVE  \/ walks'[r] = walks[r]
           \/ walks'[r] = Idle
           \/ \E u \in Users, s \in SquadIds, limit \in Limits : WalkStart(r, u, s, limit)
           \/ WalkGate(r)
           \/ \E page \in SUBSET MessageIds :
                WalkLastPage(r, page) \/ \E last \in page : WalkFullPage(r, page, last)
<1> SUFFICES ASSUME walks'[r] # walks[r], walks'[r] # Idle
             PROVE  \/ \E u \in Users, s \in SquadIds, limit \in Limits : WalkStart(r, u, s, limit)
                    \/ WalkGate(r)
                    \/ \E page \in SUBSET MessageIds :
                         WalkLastPage(r, page) \/ \E last \in page : WalkFullPage(r, page, last)
  OBVIOUS
<1>1. PICK x \in Readers :
        \/ \E u \in Users, s \in SquadIds, limit \in Limits : WalkStart(x, u, s, limit)
        \/ WalkGate(x)
        \/ \E page \in SUBSET MessageIds :
             WalkLastPage(x, page) \/ \E last \in page : WalkFullPage(x, page, last)
        \/ WalkPanic(x)
  BY DEF Next, Talk, Read, Tick, Membering, vars, chat, ChatGate, SendBegin,
         SendCommit, MarkRead, AbortChat
<1>2. x = r
  BY <1>1 DEF TypeOK, WalkStart, WalkGate, WalkLastPage, WalkFullPage, WalkPanic
<1>3. ~WalkPanic(r)
  BY DEF TypeOK, WalkPanic
<1> QED BY <1>1, <1>2, <1>3

(* The messages only grow, and a row keeps its squad, sender and time.        *)
LEMMA MessageMoves ==
    ASSUME TypeOK, [Next]_vars, NEW m \in MessageIds
    PROVE  \/ messages'[m] = messages[m]
           \/ /\ messages[m] = NoRow
              /\ \E w \in Chatters : /\ chatting[w] \in CommitRequest
                                     /\ messages'[m] =
                                          [squad |-> chatting[w].squad,
                                           sender |-> chatting[w].user,
                                           at |-> chatting[w].at, readBy |-> {}]
           \/ /\ messages[m] \in Message
              /\ \E w \in Chatters : /\ chatting[w] \in SendRequest
                                     /\ messages[m].squad = chatting[w].squad
                                     /\ messages'[m] = [messages[m] EXCEPT !.readBy =
                                          messages[m].readBy \cup {chatting[w].user}]
<1> SUFFICES ASSUME messages'[m] # messages[m]
             PROVE  \/ /\ messages[m] = NoRow
                       /\ \E w \in Chatters :
                            /\ chatting[w] \in CommitRequest
                            /\ messages'[m] =
                                 [squad |-> chatting[w].squad, sender |-> chatting[w].user,
                                  at |-> chatting[w].at, readBy |-> {}]
                    \/ /\ messages[m] \in Message
                       /\ \E w \in Chatters :
                            /\ chatting[w] \in SendRequest
                            /\ messages[m].squad = chatting[w].squad
                            /\ messages'[m] = [messages[m] EXCEPT !.readBy =
                                 messages[m].readBy \cup {chatting[w].user}]
  OBVIOUS
<1>1. \/ \E w \in Chatters, n \in MessageIds : SendCommit(w, n)
      \/ \E w \in Chatters : MarkRead(w)
  BY DEF Next, Talk, Read, Tick, Membering, vars, chat, ChatGate, SendBegin,
         AbortChat, WalkStart, WalkGate, WalkLastPage, WalkFullPage, WalkPanic
<1>2. ASSUME NEW w \in Chatters, NEW n \in MessageIds, SendCommit(w, n)
      PROVE  /\ messages[m] = NoRow
             /\ chatting[w] \in CommitRequest
             /\ messages'[m] =
                  [squad |-> chatting[w].squad, sender |-> chatting[w].user,
                   at |-> chatting[w].at, readBy |-> {}]
  BY <1>2, ChatStages DEF SendCommit, TypeOK
<1>3. ASSUME NEW w \in Chatters, MarkRead(w)
      PROVE  /\ messages[m] \in Message
             /\ chatting[w] \in SendRequest
             /\ messages[m].squad = chatting[w].squad
             /\ messages'[m] = [messages[m] EXCEPT !.readBy =
                  messages[m].readBy \cup {chatting[w].user}]
  BY <1>3, ChatStages DEF MarkRead, MarkedRead, MessagesOf, TypeOK
<1> QED BY <1>1, <1>2, <1>3

LEMMA MessagesStay ==
    ASSUME TypeOK, [Next]_vars, NEW m \in MessageIds, messages[m] # NoRow
    PROVE  /\ messages'[m] # NoRow
           /\ messages'[m].squad = messages[m].squad
           /\ messages'[m].sender = messages[m].sender
           /\ messages'[m].at = messages[m].at
<1>1. messages[m] \in Message
  BY DEF TypeOK
<1>2. ASSUME NEW w \in Chatters, chatting[w] \in SendRequest,
             messages'[m] = [messages[m] EXCEPT !.readBy =
                               messages[m].readBy \cup {chatting[w].user}]
      PROVE  /\ messages'[m] \in Message
             /\ messages'[m].squad = messages[m].squad
             /\ messages'[m].sender = messages[m].sender
             /\ messages'[m].at = messages[m].at
  BY <1>1, <1>2 DEF Message, SendRequest
<1> QED BY <1>2, MessageMoves, NoMessageAssumption

(* What Squads do to the members is well typed, and the history only grows    *)
(* and has everybody who is an accepted member.                               *)
LEMMA MembershipStep ==
    ASSUME TypeOK, [Next]_vars
    PROVE  /\ members' \in [SquadIds ->
                [Users -> {"none", "invited", "accepted", "rejected"}]]
           /\ joined' \in [SquadIds -> SUBSET Users]
           /\ \A s \in SquadIds, u \in Users :
                /\ u \in joined[s] => u \in joined'[s]
                /\ members'[s][u] = "accepted" =>
                     u \in joined'[s] \/ members[s][u] = "accepted"
<1> DEFINE Fine ==
      /\ members' \in [SquadIds -> [Users -> {"none", "invited", "accepted", "rejected"}]]
      /\ joined' \in [SquadIds -> SUBSET Users]
      /\ \A s \in SquadIds, u \in Users :
           /\ u \in joined[s] => u \in joined'[s]
           /\ members'[s][u] = "accepted" =>
                u \in joined'[s] \/ members[s][u] = "accepted"
<1>1. ASSUME Membership!Next PROVE Fine
  <2>1. ASSUME Membership!Observed
        PROVE  /\ joined' \in [SquadIds -> SUBSET Users]
               /\ \A s \in SquadIds, u \in Users :
                    /\ u \in joined[s] => u \in joined'[s]
                    /\ members'[s][u] = "accepted" => u \in joined'[s]
    BY <2>1 DEF Membership!Observed, TypeOK
  <2>2. ASSUME NEW s \in SquadIds, NEW u \in Users, Membership!Found(s, u)
        PROVE  Fine
    BY <2>1, <2>2 DEF Membership!Found, TypeOK
  <2>3. ASSUME NEW s \in SquadIds, NEW u \in Users, Membership!Ask(s, u)
        PROVE  Fine
    BY <2>3 DEF Membership!Ask, TypeOK
  <2>4. ASSUME NEW s \in SquadIds, NEW u \in Users, NEW answer \in {"accepted", "rejected"},
               Membership!Answer(s, u, answer)
        PROVE  Fine
    BY <2>1, <2>4 DEF Membership!Answer, TypeOK
  <2> HIDE DEF Fine
  <2> QED BY <1>1, <2>2, <2>3, <2>4 DEF Membership!Next
<1>2. CASE UNCHANGED seats
  BY <1>2 DEF TypeOK, seats
<1> QED BY <1>1, <1>2
        DEF seats, Next, Talk, Read, Tick, Membering, vars, ChatGate, SendBegin, SendCommit,
            MarkRead, AbortChat, WalkStart, WalkGate, WalkLastPage, WalkFullPage, WalkPanic

-----------------------------------------------------------------------------
LEMMA TypeStep == TypeOK /\ [Next]_vars => TypeOK'
<1> SUFFICES ASSUME TypeOK, [Next]_vars PROVE TypeOK'
  OBVIOUS
<1>1. now' \in Instant
  <2>1. CASE Tick
    BY <2>1, LimitAssumption DEF Tick, TypeOK, Instant
  <2>2. CASE UNCHANGED now
    BY <2>2 DEF TypeOK
  <2> QED BY <2>1, <2>2
          DEF Next, Talk, Read, Membering, vars, chat, ChatGate, SendBegin, SendCommit,
              MarkRead, AbortChat, WalkStart, WalkGate, WalkLastPage, WalkFullPage, WalkPanic
<1>2. messages' \in [MessageIds -> Message \cup {NoRow}]
  <2>1. \A m \in MessageIds : messages'[m] \in Message \cup {NoRow}
    <3> TAKE m \in MessageIds
    <3>1. CASE messages'[m] = messages[m]
      BY <3>1 DEF TypeOK
    <3>2. ASSUME NEW w \in Chatters, chatting[w] \in CommitRequest,
                 messages'[m] = [squad |-> chatting[w].squad, sender |-> chatting[w].user,
                                 at |-> chatting[w].at, readBy |-> {}]
          PROVE  messages'[m] \in Message
      BY <3>2 DEF CommitRequest, Message
    <3>3. ASSUME NEW w \in Chatters, chatting[w] \in SendRequest, messages[m] \in Message,
                 messages'[m] = [messages[m] EXCEPT !.readBy =
                                   messages[m].readBy \cup {chatting[w].user}]
          PROVE  messages'[m] \in Message
      BY <3>3 DEF SendRequest, Message
    <3> QED BY <3>1, <3>2, <3>3, MessageMoves
  <2>2. messages' = [m \in MessageIds |-> messages'[m]]
    BY DEF TypeOK, Next, Talk, Read, Tick, Membering, vars, chat, ChatGate, SendBegin,
           SendCommit, MarkRead, MarkedRead, AbortChat, WalkStart, WalkGate, WalkLastPage,
           WalkFullPage, WalkPanic
  <2> QED BY <2>1, <2>2
<1>3. chatting' \in [Chatters -> SendRequest \cup CommitRequest \cup {Idle}]
  <2>1. ASSUME NEW w \in Chatters, NEW u \in Users, NEW s \in SquadIds,
               NEW stage \in {"send", "read"}, ChatGate(w, u, s, stage)
        PROVE  chatting' \in [Chatters -> SendRequest \cup CommitRequest \cup {Idle}]
    <3>1. [stage |-> stage, user |-> u, squad |-> s] \in SendRequest
      BY DEF SendRequest
    <3> QED BY <2>1, <3>1 DEF ChatGate, TypeOK
  <2>2. ASSUME NEW w \in Chatters, SendBegin(w)
        PROVE  chatting' \in [Chatters -> SendRequest \cup CommitRequest \cup {Idle}]
    <3>1. [stage |-> "commit", user |-> chatting[w].user, squad |-> chatting[w].squad,
           at |-> SentAt] \in CommitRequest
      BY <2>2, ChatStages DEF SendBegin, SendRequest, CommitRequest, SentAt, TypeOK
    <3> QED BY <2>2, <3>1 DEF SendBegin, TypeOK
  <2>3. ASSUME NEW w \in Chatters, chatting' = [chatting EXCEPT ![w] = Idle]
        PROVE  chatting' \in [Chatters -> SendRequest \cup CommitRequest \cup {Idle}]
    BY <2>3 DEF TypeOK
  <2>4. CASE UNCHANGED chatting
    BY <2>4 DEF TypeOK
  <2> QED BY <2>1, <2>2, <2>3, <2>4
          DEF Next, Talk, Read, Tick, Membering, vars, chat, SendCommit, MarkRead, AbortChat,
              WalkStart, WalkGate, WalkLastPage, WalkFullPage, WalkPanic
<1>4. walks' \in [Readers -> Walk \cup {Idle}]
  <2>1. \A r \in Readers : walks'[r] \in Walk \cup {Idle}
    <3> TAKE r \in Readers
    <3>1. CASE walks'[r] = walks[r] \/ walks'[r] = Idle
      BY <3>1 DEF TypeOK
    <3>2. ASSUME NEW u \in Users, NEW s \in SquadIds, NEW limit \in Limits,
                 WalkStart(r, u, s, limit)
          PROVE  walks'[r] \in Walk
      <4>1. LastInstant + 1 \in 0..(LastInstant + 1)
        BY LimitAssumption
      <4>2. MessagesOf(s) \subseteq MessageIds
        BY DEF MessagesOf
      <4> QED BY <3>2, <4>1, <4>2 DEF WalkStart, Walk, TypeOK
    <3>3. ASSUME WalkGate(r) PROVE walks'[r] \in Walk \cup {Idle}
      <4>1. walks[r] \in Walk
        BY <3>3, WalkStages DEF WalkGate
      <4>2. [walks[r] EXCEPT !.stage = "query"] \in Walk
        BY <4>1 DEF Walk
      <4> QED BY <3>3, <4>1, <4>2 DEF WalkGate, TypeOK
    <3>4. ASSUME NEW page \in SUBSET MessageIds, WalkLastPage(r, page)
          PROVE  walks'[r] \in Walk
      <4>1. walks[r] \in Walk
        BY <3>4, WalkStages DEF WalkLastPage
      <4>2. [walks[r] EXCEPT !.stage = "done", !.seen = walks[r].seen \cup page] \in Walk
        BY <4>1 DEF Walk
      <4>3. walks'[r] = [walks[r] EXCEPT !.stage = "done", !.seen = walks[r].seen \cup page]
        BY <3>4 DEF WalkLastPage, TypeOK
      <4> QED BY <4>2, <4>3
    <3>5. ASSUME NEW page \in SUBSET MessageIds, NEW last \in page, WalkFullPage(r, page, last)
          PROVE  walks'[r] \in Walk
      <4>1. walks[r] \in Walk
        BY <3>5, WalkStages DEF WalkFullPage
      <4>2. messages[last].at \in 0..(LastInstant + 1)
        <5>1. messages[last] \in Message
          BY <3>5 DEF WalkFullPage, NewestPage, OlderThan, MessagesOf, TypeOK
        <5> QED BY <5>1, LimitAssumption DEF Message, Instant
      <4>3. [walks[r] EXCEPT !.stage = "gate", !.seen = walks[r].seen \cup page,
                             !.cursor = messages[last].at] \in Walk
        BY <4>1, <4>2 DEF Walk
      <4>4. walks'[r] = [walks[r] EXCEPT !.stage = "gate", !.seen = walks[r].seen \cup page,
                                         !.cursor = messages[last].at]
        BY <3>5 DEF WalkFullPage, TypeOK
      <4> QED BY <4>3, <4>4
    <3> QED BY <3>1, <3>2, <3>3, <3>4, <3>5, WalkMoves
  <2>2. walks' = [r \in Readers |-> walks'[r]]
    BY DEF TypeOK, Next, Talk, Read, Tick, Membering, vars, chat, ChatGate, SendBegin,
           SendCommit, MarkRead, AbortChat, WalkStart, WalkGate, WalkLastPage,
           WalkFullPage, WalkPanic
  <2> QED BY <2>1, <2>2
<1> QED BY <1>1, <1>2, <1>3, <1>4, MembershipStep DEF TypeOK

(* TypeOK: rows, requests and walks have the fields and the values the code   *)
(* gives them.                                                                *)
THEOREM ChatTypes == Spec => []TypeOK
<1>1. Init => TypeOK
  BY LimitAssumption
     DEF Init, TypeOK, Instant, Membership!Init, Membership!Nobody
<1> QED BY <1>1, TypeStep, PTL DEF Spec

-----------------------------------------------------------------------------
(* Whoever is an accepted member, or past the gate of a chat request, has     *)
(* joined the squad.                                                          *)
PastGate ==
    /\ \A s \in SquadIds, u \in Users : members[s][u] = "accepted" => u \in joined[s]
    /\ \A w \in Chatters : chatting[w] # Idle =>
         chatting[w].user \in joined[chatting[w].squad]
    /\ \A r \in Readers : walks[r].stage = "query" =>
         walks[r].user \in joined[walks[r].squad]

MemberInv == PastGate /\ ChatOfMembers

LEMMA MemberStep == TypeOK /\ MemberInv /\ [Next]_vars => MemberInv'
<1> SUFFICES ASSUME TypeOK, MemberInv, [Next]_vars PROVE MemberInv'
  OBVIOUS
<1>0. \A s \in SquadIds, u \in Users : u \in joined[s] => u \in joined'[s]
  BY MembershipStep
<1>a. \A s \in SquadIds, u \in Users : IsMember(s, u) => u \in joined[s]
  BY DEF IsMember, MemberInv, PastGate
<1>1. ASSUME NEW w \in Chatters, chatting'[w] # Idle
      PROVE  \E s \in SquadIds, u \in Users : /\ chatting'[w].squad = s
                                              /\ chatting'[w].user = u
                                              /\ u \in joined[s]
  <2>1. CASE chatting'[w] = chatting[w]
    BY <1>1, <2>1 DEF MemberInv, PastGate, TypeOK, SendRequest, CommitRequest
  <2>2. ASSUME NEW x \in Chatters, NEW u \in Users, NEW s \in SquadIds,
               NEW stage \in {"send", "read"}, ChatGate(x, u, s, stage)
        PROVE  chatting'[w] = chatting[w] \/
               \E t \in SquadIds, v \in Users : /\ chatting'[w].squad = t
                                                /\ chatting'[w].user = v
                                                /\ v \in joined[t]
    BY <1>a, <2>2 DEF ChatGate, TypeOK
  <2>3. ASSUME NEW x \in Chatters, SendBegin(x)
        PROVE  chatting'[w] = chatting[w] \/
               \E t \in SquadIds, v \in Users : /\ chatting'[w].squad = t
                                                /\ chatting'[w].user = v
                                                /\ v \in joined[t]
    <3>1. chatting[x] \in SendRequest /\ chatting[x] # Idle
      BY <2>3, ChatStages DEF SendBegin, Idle
    <3>2. x # w => chatting'[w] = chatting[w]
      BY <2>3 DEF SendBegin, TypeOK
    <3>3. x = w => /\ chatting'[w].squad = chatting[w].squad
                   /\ chatting'[w].user = chatting[w].user
      BY <2>3 DEF SendBegin, TypeOK
    <3> QED BY <3>1, <3>2, <3>3 DEF MemberInv, PastGate, SendRequest
  <2>4. ASSUME NEW x \in Chatters, chatting' = [chatting EXCEPT ![x] = Idle]
        PROVE  chatting'[w] = chatting[w]
    BY <1>1, <2>4 DEF TypeOK
  <2>5. CASE UNCHANGED chatting
    BY <2>1, <2>5
  <2> QED BY <2>1, <2>2, <2>3, <2>4, <2>5
          DEF Next, Talk, Read, Tick, Membering, vars, chat, SendCommit, MarkRead,
              AbortChat, WalkStart, WalkGate, WalkLastPage, WalkFullPage, WalkPanic
<1>2. ASSUME NEW r \in Readers, walks'[r] # Idle,
             walks'[r].stage = "query" \/ walks'[r].seen # {}
      PROVE  \E s \in SquadIds, u \in Users : /\ walks'[r].squad = s
                                              /\ walks'[r].user = u
                                              /\ u \in joined[s]
  <2>1. CASE walks'[r] = walks[r]
    BY <1>2, <2>1, WalkStages DEF MemberInv, PastGate, ChatOfMembers, Walk
  <2>2. ASSUME NEW u \in Users, NEW s \in SquadIds, NEW limit \in Limits,
               WalkStart(r, u, s, limit)
        PROVE  FALSE
    BY <1>2, <2>2 DEF WalkStart, TypeOK
  <2>3. CASE WalkGate(r)
    <3>1. walks[r] \in Walk /\ IsMember(walks[r].squad, walks[r].user)
      BY <1>2, <2>3, WalkStages DEF WalkGate, TypeOK
    <3>2. walks'[r] = [walks[r] EXCEPT !.stage = "query"]
      BY <2>3, <3>1 DEF WalkGate, TypeOK
    <3> QED BY <1>a, <3>1, <3>2 DEF Walk
  <2>4. ASSUME walks[r].stage = "query", walks'[r].squad = walks[r].squad,
               walks'[r].user = walks[r].user
        PROVE  \E s \in SquadIds, u \in Users : /\ walks'[r].squad = s
                                                /\ walks'[r].user = u
                                                /\ u \in joined[s]
    BY <2>4, WalkStages DEF MemberInv, PastGate, Walk
  <2>5. ASSUME NEW page, WalkLastPage(r, page)
        PROVE  /\ walks[r].stage = "query"
               /\ walks'[r].squad = walks[r].squad
               /\ walks'[r].user = walks[r].user
    <3>1. walks[r] \in Walk
      BY <2>5, WalkStages DEF WalkLastPage
    <3> QED BY <2>5, <3>1 DEF WalkLastPage, Walk, TypeOK
  <2>6. ASSUME NEW page, NEW last, WalkFullPage(r, page, last)
        PROVE  /\ walks[r].stage = "query"
               /\ walks'[r].squad = walks[r].squad
               /\ walks'[r].user = walks[r].user
    <3>1. walks[r] \in Walk
      BY <2>6, WalkStages DEF WalkFullPage
    <3> QED BY <2>6, <3>1 DEF WalkFullPage, Walk, TypeOK
  <2> QED BY <1>2, <2>1, <2>2, <2>3, <2>4, <2>5, <2>6, WalkMoves
<1>3. ASSUME NEW m \in MessageIds, messages'[m] # NoRow,
             NEW u \in messages'[m].readBy \cup {messages'[m].sender}
      PROVE  \E s \in SquadIds : /\ messages'[m].squad = s
                                 /\ u \in Users /\ u \in joined[s]
  <2>1. CASE messages'[m] = messages[m]
    <3>1. messages[m] \in Message
      BY <1>3, <2>1 DEF TypeOK
    <3> QED BY <1>3, <2>1, <3>1 DEF MemberInv, ChatOfMembers, Message
  <2>2. ASSUME NEW w \in Chatters, chatting[w] \in CommitRequest,
               messages'[m] = [squad |-> chatting[w].squad, sender |-> chatting[w].user,
                               at |-> chatting[w].at, readBy |-> {}]
        PROVE  \E s \in SquadIds : /\ messages'[m].squad = s
                                   /\ u \in Users /\ u \in joined[s]
    <3>1. chatting[w] # Idle
      BY <2>2 DEF CommitRequest, Idle
    <3> QED BY <1>3, <2>2, <3>1 DEF MemberInv, PastGate, CommitRequest
  <2>3. ASSUME NEW w \in Chatters, chatting[w] \in SendRequest, messages[m] \in Message,
               messages[m].squad = chatting[w].squad,
               messages'[m] = [messages[m] EXCEPT !.readBy =
                                 messages[m].readBy \cup {chatting[w].user}]
        PROVE  \E s \in SquadIds : /\ messages'[m].squad = s
                                   /\ u \in Users /\ u \in joined[s]
    <3>1. chatting[w] # Idle /\ messages[m] # NoRow
      BY <2>3, NoMessageAssumption DEF SendRequest, Idle
    <3>2. /\ messages'[m].squad = messages[m].squad
          /\ u \in messages[m].readBy \cup {messages[m].sender} \cup {chatting[w].user}
      BY <1>3, <2>3 DEF Message
    <3> QED BY <2>3, <3>1, <3>2 DEF MemberInv, PastGate, ChatOfMembers, Message, SendRequest
  <2> QED BY <2>1, <2>2, <2>3, MessageMoves
<1>4. PastGate'
  <2>1. ASSUME NEW w \in Chatters, chatting'[w] # Idle
        PROVE  chatting'[w].user \in joined'[chatting'[w].squad]
    BY <1>0, <1>1, <2>1
  <2>2. ASSUME NEW r \in Readers, walks'[r].stage = "query"
        PROVE  walks'[r].user \in joined'[walks'[r].squad]
    <3>1. walks'[r] # Idle
      BY <2>2 DEF Idle
    <3> QED BY <1>0, <1>2, <2>2, <3>1
  <2>3. ASSUME NEW s \in SquadIds, NEW u \in Users, members'[s][u] = "accepted"
        PROVE  u \in joined'[s]
    BY <1>0, <2>3, MembershipStep DEF MemberInv, PastGate
  <2> QED BY <2>1, <2>2, <2>3 DEF PastGate
<1>5. ChatOfMembers'
  <2>1. ASSUME NEW m \in MessageIds, messages'[m] # NoRow,
               NEW u \in messages'[m].readBy \cup {messages'[m].sender}
        PROVE  u \in joined'[messages'[m].squad]
    BY <1>0, <1>3, <2>1
  <2>2. ASSUME NEW r \in Readers, walks'[r] # Idle, walks'[r].seen # {}
        PROVE  walks'[r].user \in joined'[walks'[r].squad]
    BY <1>0, <1>2, <2>2
  <2> QED BY <2>1, <2>2 DEF ChatOfMembers
<1> QED BY <1>4, <1>5 DEF MemberInv

(* What is left of FR-4.5 when the gate and the second call of a request are  *)
(* two calls: who wrote a message, is marked as its reader or was sent one    *)
(* was an accepted member of its squad at some time before. One who never     *)
(* accepted, whatever he refused, never does.                                 *)
THEOREM MembersChat == Spec => []ChatOfMembers
<1>1. Init => MemberInv
  BY DEF Init, Membership!Init, Membership!Nobody, MemberInv, PastGate, ChatOfMembers,
         Idle
<1>2. MemberInv => ChatOfMembers
  BY DEF MemberInv
<1> QED BY <1>1, <1>2, MemberStep, ChatTypes, PTL DEF Spec

-----------------------------------------------------------------------------
(* What a walk was sent is at or after its cursor; what it was not sent and   *)
(* was visible when it began is before it, or shares its time.                *)
CursorSplits ==
    \A r \in Readers : walks[r] # Idle =>
        /\ walks[r].seen \cup walks[r].begun \subseteq MessagesOf(walks[r].squad)
        /\ walks[r].stage # "done" =>
             /\ \A m \in walks[r].seen : messages[m].at >= walks[r].cursor
             /\ \A m \in walks[r].begun \ walks[r].seen :
                  OneAt(m) => messages[m].at < walks[r].cursor

WalkInv == CursorSplits /\ WalkComplete

(* A message alone at its time has always been alone.                         *)
LEMMA AloneBefore ==
    ASSUME TypeOK, [Next]_vars, NEW m \in MessageIds, messages[m] # NoRow, OneAt(m)'
    PROVE  OneAt(m)
BY MessagesStay DEF OneAt

LEMMA MessagesOfGrow ==
    ASSUME TypeOK, [Next]_vars, NEW s
    PROVE  MessagesOf(s) \subseteq MessagesOf(s)'
BY MessagesStay DEF MessagesOf

(* A page that does not fill a limit the server accepts holds all that is     *)
(* left.                                                                      *)
LEMMA ShortPage ==
    ASSUME TypeOK, NEW r \in Readers, walks[r] \in Walk, NEW page \in SUBSET MessageIds,
           NewestPage(walks[r], page), ~Full(walks[r], page),
           walks[r].limit \in 1..MaxLimit
    PROVE  page = OlderThan(walks[r])
BY DEF NewestPage, Full, Clamped

LEMMA WalkStep == TypeOK /\ WalkInv /\ [Next]_vars => WalkInv'
<1> SUFFICES ASSUME TypeOK, WalkInv, [Next]_vars, NEW r \in Readers, walks'[r] # Idle
             PROVE  /\ walks'[r].seen \cup walks'[r].begun
                         \subseteq MessagesOf(walks[r].squad)'
                    /\ walks'[r].stage # "done" =>
                         /\ \A m \in walks'[r].seen : messages'[m].at >= walks'[r].cursor
                         /\ \A m \in walks'[r].begun \ walks'[r].seen :
                              OneAt(m)' => messages'[m].at < walks'[r].cursor
                    /\ walks'[r].stage = "done" /\ walks'[r].limit \in 1..MaxLimit =>
                         \A m \in walks'[r].begun : OneAt(m)' => m \in walks'[r].seen
  BY DEF WalkInv, CursorSplits, WalkComplete, OneAt
<1> DEFINE k == walks[r]
<1>1. CASE walks'[r] = walks[r]
  <2>1. k.seen \cup k.begun \subseteq MessagesOf(k.squad)
    BY <1>1 DEF WalkInv, CursorSplits
  <2>2. \A m \in k.seen \cup k.begun :
          /\ m \in MessageIds /\ messages[m] # NoRow
          /\ messages'[m].at = messages[m].at
          /\ OneAt(m)' => OneAt(m)
    BY <2>1, MessagesStay, AloneBefore DEF MessagesOf
  <2>3. MessagesOf(walks[r].squad)' = MessagesOf(k.squad)'
    BY <1>1
  <2>4. \A s : MessagesOf(s) \subseteq MessagesOf(s)'
    BY MessagesOfGrow
  <2>5. walks'[r].seen \cup walks'[r].begun \subseteq MessagesOf(walks[r].squad)'
    BY <1>1, <2>1, <2>4 DEF MessagesOf
  <2> QED BY <1>1, <2>2, <2>5 DEF WalkInv, CursorSplits, WalkComplete
<1>2. ASSUME NEW u \in Users, NEW s \in SquadIds, NEW limit \in Limits,
             WalkStart(r, u, s, limit)
      PROVE  /\ walks'[r].seen \cup walks'[r].begun
                  \subseteq MessagesOf(walks[r].squad)'
             /\ walks'[r].stage = "gate"
             /\ \A m \in walks'[r].seen : messages'[m].at >= walks'[r].cursor
             /\ \A m \in walks'[r].begun : messages'[m].at < walks'[r].cursor
  <2>1. walks'[r] = [stage |-> "gate", user |-> u, squad |-> s, limit |-> limit,
                     cursor |-> LastInstant + 1, seen |-> {}, begun |-> MessagesOf(s)]
    BY <1>2 DEF WalkStart, TypeOK
  <2>2. UNCHANGED messages
    BY <1>2 DEF WalkStart
  <2>3. ASSUME NEW m \in MessagesOf(s) PROVE messages[m].at < LastInstant + 1
    <3>1. messages[m] \in Message
      BY <2>3 DEF MessagesOf, TypeOK
    <3> QED BY <3>1, LimitAssumption DEF Message, Instant
  <2> QED BY <2>1, <2>2, <2>3 DEF MessagesOf
<1>3. CASE WalkGate(r)
  <2>1. k \in Walk /\ k # Idle /\ k.stage = "gate"
    BY <1>3, WalkStages DEF WalkGate
  <2>2. walks'[r] = [k EXCEPT !.stage = "query"]
    BY <1>3, <2>1 DEF WalkGate, TypeOK
  <2>3. /\ walks'[r].stage = "query" /\ walks'[r].squad = k.squad
        /\ walks'[r].seen = k.seen /\ walks'[r].begun = k.begun
        /\ walks'[r].cursor = k.cursor
    BY <2>1, <2>2 DEF Walk
  <2>4. UNCHANGED messages
    BY <1>3 DEF WalkGate
  <2> QED BY <2>1, <2>3, <2>4 DEF WalkInv, CursorSplits, MessagesOf, OneAt
<1>4. ASSUME NEW page \in SUBSET MessageIds, WalkLastPage(r, page)
      PROVE  /\ walks'[r].seen \cup walks'[r].begun
                  \subseteq MessagesOf(walks[r].squad)'
             /\ walks'[r].stage = "done"
             /\ walks'[r].limit \in 1..MaxLimit =>
                  \A m \in walks'[r].begun : OneAt(m)' => m \in walks'[r].seen
  <2>1. k \in Walk /\ k # Idle /\ k.stage = "query"
    BY <1>4, WalkStages DEF WalkLastPage
  <2>2. walks'[r] = [k EXCEPT !.stage = "done", !.seen = k.seen \cup page]
    BY <1>4 DEF WalkLastPage, TypeOK
  <2>3. /\ walks'[r].stage = "done" /\ walks'[r].squad = k.squad
        /\ walks'[r].seen = k.seen \cup page /\ walks'[r].begun = k.begun
        /\ walks'[r].limit = k.limit
    BY <2>1, <2>2 DEF Walk
  <2>4. UNCHANGED messages
    BY <1>4 DEF WalkLastPage
  <2>5. page \subseteq OlderThan(k)
    BY <1>4 DEF WalkLastPage, NewestPage
  <2>6. /\ k.seen \cup k.begun \subseteq MessagesOf(k.squad)
        /\ \A m \in k.begun \ k.seen : OneAt(m) => messages[m].at < k.cursor
    BY <2>1 DEF WalkInv, CursorSplits
  <2>7. ASSUME k.limit \in 1..MaxLimit, NEW m \in k.begun, OneAt(m) PROVE m \in k.seen \cup page
    <3>1. page = OlderThan(k)
      BY <1>4, <2>1, <2>7, ShortPage DEF WalkLastPage
    <3> QED BY <2>6, <2>7, <3>1 DEF OlderThan
  <2>8. OlderThan(k) \subseteq MessagesOf(k.squad)
    BY DEF OlderThan
  <2> QED BY <2>3, <2>4, <2>5, <2>6, <2>7, <2>8 DEF MessagesOf, OneAt
<1>5. ASSUME NEW page \in SUBSET MessageIds, NEW last \in page, WalkFullPage(r, page, last)
      PROVE  /\ walks'[r].seen \cup walks'[r].begun
                  \subseteq MessagesOf(walks[r].squad)'
             /\ walks'[r].stage = "gate"
             /\ \A m \in walks'[r].seen : messages'[m].at >= walks'[r].cursor
             /\ \A m \in walks'[r].begun \ walks'[r].seen :
                  OneAt(m)' => messages'[m].at < walks'[r].cursor
  <2>1. k \in Walk /\ k # Idle /\ k.stage = "query"
    BY <1>5, WalkStages DEF WalkFullPage
  <2>2. walks'[r] = [k EXCEPT !.stage = "gate", !.seen = k.seen \cup page,
                              !.cursor = messages[last].at]
    BY <1>5 DEF WalkFullPage, TypeOK
  <2>3. /\ walks'[r].stage = "gate" /\ walks'[r].squad = k.squad
        /\ walks'[r].seen = k.seen \cup page /\ walks'[r].begun = k.begun
        /\ walks'[r].cursor = messages[last].at
    BY <2>1, <2>2 DEF Walk
  <2>4. UNCHANGED messages
    BY <1>5 DEF WalkFullPage
  <2>5. /\ page \subseteq OlderThan(k)
        /\ \A m \in page, n \in OlderThan(k) \ page : messages[m].at >= messages[n].at
        /\ \A m \in page : messages[last].at <= messages[m].at
    BY <1>5 DEF WalkFullPage, NewestPage, LastOf
  <2>6. /\ k.seen \cup k.begun \subseteq MessagesOf(k.squad)
        /\ \A m \in k.seen : messages[m].at >= k.cursor
        /\ \A m \in k.begun \ k.seen : OneAt(m) => messages[m].at < k.cursor
    BY <2>1 DEF WalkInv, CursorSplits
  <2>7. OlderThan(k) \subseteq MessagesOf(k.squad)
    BY DEF OlderThan
  <2>8. /\ \A m \in MessagesOf(k.squad) : messages[m].at \in Nat /\ messages[m] # NoRow
        /\ k.cursor \in Nat
    BY <2>1, LimitAssumption DEF MessagesOf, TypeOK, Message, Instant, Walk
  <2>9. ASSUME NEW m \in k.seen \cup page PROVE messages[m].at >= messages[last].at
    <3>1. CASE m \in page
      BY <2>5, <2>7, <2>8, <3>1
    <3>2. CASE m \in k.seen
      <4>1. messages[last].at < k.cursor /\ last \in MessagesOf(k.squad)
        BY <2>5, <2>7 DEF OlderThan
      <4>2. messages[m].at >= k.cursor /\ m \in MessagesOf(k.squad)
        BY <2>6, <3>2
      <4> QED BY <2>8, <4>1, <4>2
    <3> QED BY <3>1, <3>2
  <2>10. ASSUME NEW m \in k.begun \ (k.seen \cup page), OneAt(m)
         PROVE  messages[m].at < messages[last].at
    <3>1. m \in OlderThan(k) \ page
      BY <2>6, <2>10 DEF OlderThan
    <3>2. messages[last].at >= messages[m].at
      BY <2>5, <3>1
    <3>3. /\ last # m /\ last \in MessageIds /\ messages[last] # NoRow
          /\ messages[last].squad = messages[m].squad
      BY <2>5, <2>7, <3>1 DEF MessagesOf
    <3>4. messages[last].at # messages[m].at
      BY <2>10, <3>3 DEF OneAt
    <3> QED BY <2>5, <2>7, <2>8, <3>1, <3>2, <3>4
  <2> QED BY <2>3, <2>4, <2>5, <2>6, <2>7, <2>9, <2>10 DEF MessagesOf, OneAt
<1>6. walks'[r] = walks[r] \/ walks'[r] # walks[r]
  OBVIOUS
<1> QED BY <1>1, <1>2, <1>3, <1>4, <1>5, WalkMoves

(* A client that gets to the end of a chat was sent every message that was    *)
(* there when it began and shares its time with no other.                     *)
THEOREM WalksComplete == Spec => []WalkComplete
<1>1. Init => WalkInv
  BY DEF Init, WalkInv, CursorSplits, WalkComplete, Idle
<1>2. WalkInv => WalkComplete
  BY DEF WalkInv
<1> QED BY <1>1, <1>2, WalkStep, ChatTypes, PTL DEF Spec

(* Every page is older than the ones before it, so none repeats a message.    *)
THEOREM PagesOrdered == Spec => PagesDescend
<1> DEFINE Descends == \A r \in Readers :
         walks[r] # Idle /\ walks[r].stage = "query" /\ walks'[r] # Idle =>
           \A m \in walks'[r].seen \ walks[r].seen, n \in walks[r].seen :
             messages[m].at < messages[n].at
<1>1. TypeOK /\ CursorSplits /\ [Next]_vars => Descends
  <2> SUFFICES ASSUME TypeOK, CursorSplits, [Next]_vars, NEW r \in Readers,
                      walks[r] # Idle, walks[r].stage = "query", walks'[r] # Idle,
                      NEW m \in walks'[r].seen \ walks[r].seen, NEW n \in walks[r].seen
               PROVE  messages[m].at < messages[n].at
    OBVIOUS
  <2>1. walks[r] \in Walk
    BY WalkStages
  <2>2. messages[n].at >= walks[r].cursor /\ n \in MessagesOf(walks[r].squad)
    BY DEF CursorSplits
  <2>3. ASSUME NEW page, page \subseteq OlderThan(walks[r]),
               walks'[r].seen = walks[r].seen \cup page
        PROVE  messages[m].at < messages[n].at
    <3>1. messages[m].at < walks[r].cursor /\ m \in MessagesOf(walks[r].squad)
      BY <2>3 DEF OlderThan
    <3>2. \A x \in MessagesOf(walks[r].squad) : messages[x].at \in Nat
      BY LimitAssumption DEF MessagesOf, TypeOK, Message, Instant
    <3>3. walks[r].cursor \in Nat
      BY <2>1, LimitAssumption DEF Walk
    <3> QED BY <2>2, <3>1, <3>2, <3>3
  <2>4. ASSUME NEW page \in SUBSET MessageIds, WalkLastPage(r, page)
        PROVE  page \subseteq OlderThan(walks[r]) /\ walks'[r].seen = walks[r].seen \cup page
    BY <2>1, <2>4 DEF WalkLastPage, NewestPage, Walk, TypeOK
  <2>5. ASSUME NEW page \in SUBSET MessageIds, NEW last \in page, WalkFullPage(r, page, last)
        PROVE  page \subseteq OlderThan(walks[r]) /\ walks'[r].seen = walks[r].seen \cup page
    BY <2>1, <2>5 DEF WalkFullPage, NewestPage, Walk, TypeOK
  <2> QED BY <2>3, <2>4, <2>5, WalkMoves DEF WalkStart, WalkGate
<1>2. TypeOK /\ CursorSplits /\ [Next]_vars => [Descends]_vars
  BY <1>1
<1>3. Init => WalkInv
  BY DEF Init, WalkInv, CursorSplits, WalkComplete, Idle
<1>4. WalkInv => CursorSplits
  BY DEF WalkInv
<1> QED BY <1>2, <1>3, <1>4, WalkStep, ChatTypes, PTL DEF Spec, PagesDescend

-----------------------------------------------------------------------------
(* A client that asks for a limit the repository does not accept gets the     *)
(* newest page of the default size, if it gets an answer at all, and is never *)
(* told that there is more.                                                   *)
OnePageOnly ==
    \A r \in Readers : walks[r] # Idle /\ walks[r].limit \notin 1..MaxLimit =>
        /\ walks[r].cursor = LastInstant + 1
        /\ walks[r].stage # "done" => walks[r].seen = {}
        /\ Cardinality(walks[r].seen) <= DefaultLimit

(* The handler compares the rows it got with the limit asked for, and the     *)
(* repository has clamped it: WalkComplete says nothing of such limits, and   *)
(* this theorem says why it cannot. There is no full page with one.           *)
THEOREM OnePageCorrect == Spec => []OnePageOnly
<1>1. Init => OnePageOnly
  BY DEF Init, OnePageOnly
<1>2. TypeOK /\ OnePageOnly /\ [Next]_vars => OnePageOnly'
  <2> SUFFICES ASSUME TypeOK, OnePageOnly, [Next]_vars, NEW r \in Readers, walks'[r] # Idle,
                      walks'[r].limit \notin 1..MaxLimit
               PROVE  /\ walks'[r].cursor = LastInstant + 1
                      /\ walks'[r].stage # "done" => walks'[r].seen = {}
                      /\ Cardinality(walks'[r].seen) <= DefaultLimit
    BY DEF OnePageOnly
  <2>1. CASE walks'[r] = walks[r]
    BY <2>1 DEF OnePageOnly
  <2>2. ASSUME NEW u \in Users, NEW s \in SquadIds, NEW limit \in Limits,
               WalkStart(r, u, s, limit)
        PROVE  /\ walks'[r].cursor = LastInstant + 1 /\ walks'[r].seen = {}
    BY <2>2 DEF WalkStart, TypeOK
  <2>3. Cardinality({}) <= DefaultLimit
    BY FS_EmptySet, LimitAssumption
  <2>4. ASSUME NEW page \in SUBSET MessageIds
        PROVE  Cardinality(page) \in Nat /\ (Cardinality(page) = 0 => page = {})
    BY MessageAssumption, FS_Subset, FS_CardinalityType, FS_EmptySet
  <2>5. CASE WalkGate(r)
    <3>1. walks[r] \in Walk /\ walks[r] # Idle /\ walks[r].stage = "gate"
      BY <2>5, WalkStages DEF WalkGate
    <3>2. walks'[r] = [walks[r] EXCEPT !.stage = "query"]
      BY <2>5, <3>1 DEF WalkGate, TypeOK
    <3>3. /\ walks'[r].limit = walks[r].limit /\ walks'[r].cursor = walks[r].cursor
          /\ walks'[r].seen = walks[r].seen
      BY <3>1, <3>2 DEF Walk
    <3> QED BY <2>3, <3>1, <3>3 DEF OnePageOnly
  <2>6. ASSUME NEW page \in SUBSET MessageIds, WalkLastPage(r, page)
        PROVE  /\ walks'[r].cursor = LastInstant + 1 /\ walks'[r].stage = "done"
               /\ Cardinality(walks'[r].seen) <= DefaultLimit
    <3>1. walks[r] \in Walk /\ walks[r] # Idle /\ walks[r].stage = "query"
      BY <2>6, WalkStages DEF WalkLastPage
    <3>2. walks'[r] = [walks[r] EXCEPT !.stage = "done", !.seen = walks[r].seen \cup page]
      BY <2>6, <3>1 DEF WalkLastPage, TypeOK
    <3>3. /\ walks'[r].limit = walks[r].limit /\ walks'[r].cursor = walks[r].cursor
          /\ walks'[r].seen = walks[r].seen \cup page /\ walks'[r].stage = "done"
      BY <3>1, <3>2 DEF Walk
    <3>4. walks[r].seen = {} /\ walks[r].cursor = LastInstant + 1
      BY <3>1, <3>3 DEF OnePageOnly
    <3>5. Clamped(walks[r].limit) = DefaultLimit
      BY <3>3 DEF Clamped
    <3>6. Cardinality(page) <= DefaultLimit
      BY <2>6, <2>4, <3>5, LimitAssumption DEF WalkLastPage, NewestPage
    <3> QED BY <3>3, <3>4, <3>6
  <2>7. ASSUME NEW page \in SUBSET MessageIds, NEW last \in page, WalkFullPage(r, page, last)
        PROVE  FALSE
    <3>1. walks[r] \in Walk
      BY <2>7, WalkStages DEF WalkFullPage
    <3>2. walks[r].limit \in Nat /\ walks[r].limit = walks'[r].limit
      BY <2>7, <3>1, LimitAssumption DEF WalkFullPage, Walk, TypeOK
    <3>3. walks[r].limit = 0 \/ walks[r].limit > MaxLimit
      BY <3>2, LimitAssumption
    <3>4. Clamped(walks[r].limit) = DefaultLimit
      BY <3>2 DEF Clamped
    <3>5. Cardinality(page) <= DefaultLimit /\ Cardinality(page) = walks[r].limit
      BY <2>7, <2>4, <3>4, LimitAssumption DEF WalkFullPage, NewestPage, Full
    <3>6. Cardinality(page) # 0
      BY <2>7, <2>4
    <3> QED BY <3>2, <3>3, <3>5, <3>6, LimitAssumption
  <2> QED BY <2>1, <2>2, <2>3, <2>5, <2>6, <2>7, WalkMoves
<1> QED BY <1>1, <1>2, ChatTypes, PTL DEF Spec
=============================================================================
