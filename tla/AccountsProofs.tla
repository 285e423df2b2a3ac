--------------------------- MODULE AccountsProofs ---------------------------
(***************************************************************************)
(* Proofs about modules Accounts and EmbeddingWorker composed: for any      *)
(* users, addresses, lookups, concurrent registrations, batch size and      *)
(* number of saved profiles, through failures and deaths of the process.    *)
(***************************************************************************)
EXTENDS EmbeddingWorker, TLAPS

(* Whoever waits for a vector has saved a profile.                            *)
PendingSaved == \A u \in pending : saved[u] > 0

TypeInv == EmbedTypeOK /\ PendingSaved

(* The step of the type invariant, one case per action.                       *)
LEMMA TypeStep == TypeInv /\ [EmbedNext]_embedVars => TypeInv'
<1> SUFFICES ASSUME TypeInv, [EmbedNext]_embedVars PROVE TypeInv'
  OBVIOUS
<1> USE NoUserAssumption, NoTextAssumption, TextAssumption
    DEF TypeInv, EmbedTypeOK, AccountTypeOK, PendingSaved
<1>1. ASSUME NEW u \in Users, NEW email \in Emails, NEW role \in Roles,
             Register(u, email, role), UNCHANGED workerVars
      PROVE  TypeInv'
  <2>1. [email |-> email, role |-> role] \in User
    BY DEF User
  <2> QED BY <1>1, <2>1 DEF Register, workerVars
<1>2. ASSUME NEW email \in Emails, Login(email), UNCHANGED workerVars
      PROVE  TypeInv'
  <2>1. PICK u \in Users : /\ users[u] # NoRow
                           /\ tokens' = tokens \cup TokenPair(u, users[u].role)
    BY <1>2 DEF Login
  <2>2. users[u].role \in Roles
    BY <2>1 DEF User
  <2>3. TokenPair(u, users[u].role) \subseteq Token
    BY <2>2 DEF TokenPair, Token
  <2> QED BY <1>2, <2>1, <2>3 DEF Login, workerVars
<1>3. ASSUME NEW t \in tokens, Refresh(t), UNCHANGED workerVars PROVE TypeInv'
  <2>1. TokenPair(t.user, t.role) \subseteq Token
    BY DEF TokenPair, Token
  <2> QED BY <1>3, <2>1 DEF Refresh, workerVars
<1>4. ASSUME NEW t \in tokens, Expire(t), UNCHANGED workerVars PROVE TypeInv'
  BY <1>4 DEF Expire, workerVars
<1>5. ASSUME NEW u \in Users, SaveProfile(u), UNCHANGED workerVars PROVE TypeInv'
  BY <1>5 DEF SaveProfile, workerVars
<1>6. ASSUME NEW w \in Seekers, NEW u \in Users, LookupFind(w, u),
             UNCHANGED workerVars
      PROVE  TypeInv'
  BY <1>6 DEF LookupFind, workerVars
<1>7. ASSUME NEW w \in Seekers, NEW l \in LookupIds, LookupInsert(w, l),
             UNCHANGED workerVars
      PROVE  TypeInv'
  BY <1>7 DEF LookupInsert, workerVars
<1>8. ASSUME NEW w \in Seekers, LookupAbort(w), UNCHANGED workerVars PROVE TypeInv'
  BY <1>8 DEF LookupAbort, workerVars
<1>9. ASSUME Find PROVE TypeInv'
  <2>1. PICK S \in SUBSET pending : batch' = batch \cup Snapshot(S)
    BY <1>9 DEF Find, Due
  <2>2. Snapshot(S) \subseteq Row
    BY DEF Snapshot, Row
  <2> QED BY <1>9, <2>1, <2>2 DEF Find, Keep
<1>10. ASSUME NEW r \in batch, GenerateOK(r) PROVE TypeInv'
  BY <1>10 DEF GenerateOK, accountVars
<1>11. ASSUME NEW r \in batch, GenerateFail(r) PROVE TypeInv'
  BY <1>11 DEF GenerateFail, accountVars
<1>12. ASSUME UpdateOK PROVE TypeInv'
  <2>1. vector \in Row
    BY <1>12 DEF UpdateOK
  <2> QED BY <1>12, <2>1 DEF UpdateOK, Row
<1>13. ASSUME UpdateFail PROVE TypeInv'
  BY <1>13 DEF UpdateFail, accountVars
<1>14. ASSUME Crash PROVE TypeInv'
  BY <1>14 DEF Crash
<1>15. ASSUME UNCHANGED embedVars PROVE TypeInv'
  BY <1>15 DEF embedVars
<1> QED
  BY <1>1, <1>2, <1>3, <1>4, <1>5, <1>6, <1>7, <1>8, <1>9, <1>10, <1>11, <1>12,
     <1>13, <1>14, <1>15 DEF EmbedNext, AccountNext

LEMMA TypeInvariant == EmbedSpec => []TypeInv
<1>1. EmbedInit => TypeInv
  BY AdminAssumption, TextAssumption, NoTextAssumption
     DEF EmbedInit, AccountInit, TypeInv, EmbedTypeOK, AccountTypeOK, PendingSaved,
         User, Roles
<1> QED BY <1>1, TypeStep, PTL DEF EmbedSpec

(* Rows, requests and the worker keep their fields and values.                *)
THEOREM AccountTypes == EmbedSpec => []EmbedTypeOK
BY TypeInvariant, PTL DEF TypeInv

-----------------------------------------------------------------------------
(* Registration, login and refresh are the only steps that touch users and    *)
(* tokens, apart from tokens expiring.                                        *)
LEMMA RoleStep == TypeInv /\ RolesHold /\ [EmbedNext]_embedVars => RolesHold'
<1> SUFFICES ASSUME TypeInv, RolesHold, [EmbedNext]_embedVars PROVE RolesHold'
  OBVIOUS
<1> USE NoUserAssumption DEF TypeInv, EmbedTypeOK, AccountTypeOK, RolesHold
<1>1. ASSUME NEW u \in Users, NEW email \in Emails, NEW role \in Roles,
             Register(u, email, role)
      PROVE  RolesHold'
  <2> DEFINE row == [email |-> email, role |-> role]
  <2>1. /\ row.email = email
        /\ row.role # "admin"
    BY <1>1 DEF Register, MayRegister
  <2>2. \A v \in Users : v # u => users'[v] = users[v]
    BY <1>1 DEF Register
  <2>3. users'[u] = row /\ users[u] = NoRow /\ tokens' = tokens
    BY <1>1 DEF Register
  <2>4. \A v \in Users : users[v] # NoRow => users[v].email # email
    BY <1>1 DEF Register, Taken
  <2> HIDE DEF row
  <2>5. \A t \in tokens : t.user \in Users /\ t.user # u
    BY <2>3 DEF Token
  <2> QED BY <2>1, <2>2, <2>3, <2>4, <2>5
<1>2. ASSUME NEW email \in Emails, Login(email) PROVE RolesHold'
  <2>1. PICK u \in Users : /\ users[u] # NoRow
                           /\ tokens' = tokens \cup TokenPair(u, users[u].role)
    BY <1>2 DEF Login
  <2>2. \A t \in TokenPair(u, users[u].role) : t.user = u /\ t.role = users[u].role
    BY DEF TokenPair
  <2> QED BY <1>2, <2>1, <2>2 DEF Login
<1>3. ASSUME NEW t \in tokens, Refresh(t) PROVE RolesHold'
  <2>1. \A n \in TokenPair(t.user, t.role) : n.user = t.user /\ n.role = t.role
    BY DEF TokenPair
  <2> QED BY <1>3, <2>1 DEF Refresh
<1>4. ASSUME NEW t \in tokens, Expire(t) PROVE RolesHold'
  BY <1>4 DEF Expire
<1>5. ASSUME UNCHANGED <<users, tokens>> PROVE RolesHold'
  BY <1>5
<1> QED
  BY <1>1, <1>2, <1>3, <1>4, <1>5
     DEF EmbedNext, AccountNext, embedVars, accountVars, SaveProfile, LookupFind,
         LookupInsert, LookupAbort, Find, GenerateOK, GenerateFail, UpdateOK,
         UpdateFail, Crash

(* BR-02: tokens speak for rows and their roles, the only admin is the seeded *)
(* one, and no two rows share an address.                                     *)
THEOREM RolesCorrect == EmbedSpec => []RolesHold
<1>1. EmbedInit => RolesHold
  BY AdminAssumption DEF EmbedInit, AccountInit, RolesHold
<1> QED BY <1>1, TypeInvariant, RoleStep, PTL DEF EmbedSpec

-----------------------------------------------------------------------------
LEMMA LookupStep ==
    TypeInv /\ OneActiveLookup /\ [EmbedNext]_embedVars => OneActiveLookup'
<1> SUFFICES ASSUME TypeInv, OneActiveLookup, [EmbedNext]_embedVars
             PROVE  OneActiveLookup'
  OBVIOUS
<1> USE DEF TypeInv, EmbedTypeOK, AccountTypeOK, OneActiveLookup
<1>1. ASSUME NEW w \in Seekers, NEW l \in LookupIds, LookupInsert(w, l)
      PROVE  OneActiveLookup'
  <2>1. \A k \in LookupIds : lookups[k] # seeking[w]
    BY <1>1 DEF LookupInsert, LookupAllowed, HasLookup
  <2> QED BY <1>1, <2>1 DEF LookupInsert
<1>2. ASSUME UNCHANGED lookups PROVE OneActiveLookup'
  BY <1>2
<1> QED
  BY <1>1, <1>2
     DEF EmbedNext, AccountNext, embedVars, accountVars, Register, Login, Refresh,
         Expire, SaveProfile, LookupFind, LookupAbort, Find, GenerateOK,
         GenerateFail, UpdateOK, UpdateFail, Crash

(* FR-4.1: at most one active lookup a user.                                  *)
THEOREM LookupsCorrect == EmbedSpec => []OneActiveLookup
<1>1. EmbedInit => OneActiveLookup
  BY DEF EmbedInit, AccountInit, OneActiveLookup
<1> QED BY <1>1, TypeInvariant, LookupStep, PTL DEF EmbedSpec

-----------------------------------------------------------------------------
LEMMA VectorStep ==
    TypeInv /\ ClearedHasVector /\ [EmbedNext]_embedVars => ClearedHasVector'
<1> SUFFICES ASSUME TypeInv, ClearedHasVector, [EmbedNext]_embedVars
             PROVE  ClearedHasVector'
  OBVIOUS
<1> USE DEF TypeInv, EmbedTypeOK, AccountTypeOK, ClearedHasVector
<1>1. ASSUME NEW u \in Users, SaveProfile(u), UNCHANGED workerVars
      PROVE  ClearedHasVector'
  BY <1>1 DEF SaveProfile, workerVars
<1>2. ASSUME UpdateOK PROVE ClearedHasVector'
  <2>1. vector.user \in Users /\ vector.text > 0
    BY <1>2, TextAssumption DEF UpdateOK, Row
  <2> QED BY <1>2, <2>1 DEF UpdateOK
<1>3. ASSUME UNCHANGED <<saved, pending, stored>> PROVE ClearedHasVector'
  BY <1>3
<1> QED
  BY <1>1, <1>2, <1>3
     DEF EmbedNext, AccountNext, embedVars, accountVars, workerVars, Register, Login,
         Refresh, Expire, LookupFind, LookupInsert, LookupAbort, Find, Keep,
         GenerateOK, GenerateFail, UpdateFail, Crash

(* Nobody with a profile leaves the queue without a vector.                   *)
THEOREM QueueCorrect == EmbedSpec => []ClearedHasVector
<1>1. EmbedInit => ClearedHasVector
  BY DEF EmbedInit, AccountInit, ClearedHasVector
<1> QED BY <1>1, TypeInvariant, VectorStep, PTL DEF EmbedSpec

-----------------------------------------------------------------------------
(* What the worker holds lies between the stored and the saved text of its    *)
(* user, and is the only row it holds of that user.                           *)
Between(r) == stored[r.user] <= r.text /\ r.text <= saved[r.user]

Ordered ==
    /\ \A u \in Users : stored[u] <= saved[u]
    /\ \A r \in batch : Between(r)
    /\ \A r, s \in batch : r.user = s.user => r = s
    /\ vector # NoRow => /\ Between(vector)
                         /\ \A r \in batch : r.user # vector.user

LEMMA OrderStep == TypeInv /\ Ordered /\ [EmbedNext]_embedVars => Ordered'
<1> SUFFICES ASSUME TypeInv, Ordered, [EmbedNext]_embedVars PROVE Ordered'
  OBVIOUS
<1> USE TextAssumption DEF TypeInv, EmbedTypeOK, AccountTypeOK, Ordered, Between
<1>1. ASSUME NEW u \in Users, SaveProfile(u), UNCHANGED workerVars PROVE Ordered'
  <2>1. \A v \in Users : saved[v] <= saved'[v]
    BY <1>1 DEF SaveProfile
  <2>2. \A v \in Users : saved'[v] \in Nat /\ saved[v] \in Nat /\ stored[v] \in Nat
    BY <1>1 DEF SaveProfile
  <2>3. \A r \in Row : r.user \in Users /\ r.text \in Nat
    BY DEF Row
  <2> QED BY <1>1, <2>1, <2>2, <2>3 DEF workerVars
<1>2. ASSUME Find PROVE Ordered'
  <2>1. PICK S \in SUBSET pending : batch' = batch \cup Snapshot(S)
    BY <1>2 DEF Find, Due
  <2>2. batch = {} /\ vector = NoRow /\ UNCHANGED <<saved, vector, stored>>
    BY <1>2 DEF Find, PassMayBegin
  <2>3. \A r \in Snapshot(S) : r.user \in S /\ r.text = saved[r.user]
    BY DEF Snapshot
  <2>4. \A r, s \in Snapshot(S) : r.user = s.user => r = s
    BY DEF Snapshot
  <2> QED BY <2>1, <2>2, <2>3, <2>4
<1>3. ASSUME NEW r \in batch, GenerateOK(r) PROVE Ordered'
  BY <1>3 DEF GenerateOK, accountVars
<1>4. ASSUME NEW r \in batch, GenerateFail(r) PROVE Ordered'
  BY <1>4 DEF GenerateFail, accountVars
<1>5. ASSUME UpdateOK PROVE Ordered'
  <2>1. vector \in Row /\ vector.user \in Users
    BY <1>5 DEF UpdateOK, Row
  <2>2. /\ stored'[vector.user] = vector.text
        /\ \A v \in Users : v # vector.user => stored'[v] = stored[v]
        /\ UNCHANGED <<saved, batch>>
        /\ vector' = NoRow
    BY <1>5, <2>1 DEF UpdateOK
  <2>3. \A r \in batch : r.user \in Users /\ r.user # vector.user
    BY <1>5 DEF UpdateOK, Row
  <2> QED BY <1>5, <2>1, <2>2, <2>3 DEF UpdateOK
<1>6. ASSUME UpdateFail PROVE Ordered'
  BY <1>6 DEF UpdateFail, accountVars
<1>7. ASSUME Crash PROVE Ordered'
  BY <1>7 DEF Crash
<1>8. ASSUME UNCHANGED <<saved, batch, vector, stored>> PROVE Ordered'
  BY <1>8
<1> QED
  BY <1>1, <1>2, <1>3, <1>4, <1>5, <1>6, <1>7, <1>8
     DEF EmbedNext, AccountNext, embedVars, workerVars, Register, Login, Refresh,
         Expire, LookupFind, LookupInsert, LookupAbort

LEMMA ForwardStep ==
    TypeInv /\ Ordered /\ Ordered' /\ [EmbedNext]_embedVars =>
      \A u \in Users : stored[u] <= stored'[u] /\ stored'[u] <= saved'[u]
<1> SUFFICES ASSUME TypeInv, Ordered, Ordered', [EmbedNext]_embedVars, NEW u \in Users
             PROVE  stored[u] <= stored'[u] /\ stored'[u] <= saved'[u]
  OBVIOUS
<1>1. stored[u] \in Nat
  BY TextAssumption DEF TypeInv, EmbedTypeOK
<1>2. CASE UpdateOK
  BY <1>1, <1>2 DEF UpdateOK, Ordered, Between, TypeInv, EmbedTypeOK
<1>3. CASE UNCHANGED stored
  BY <1>1, <1>3 DEF Ordered
<1> QED
  BY <1>2, <1>3
     DEF EmbedNext, embedVars, workerVars, Find, GenerateOK, GenerateFail, UpdateFail,
         Crash

(* No vector is replaced by that of an older text.                            *)
THEOREM VectorsForward == EmbedSpec => VectorForward
<1>1. EmbedInit => Ordered
  BY DEF EmbedInit, AccountInit, Ordered, Between
<1>2. EmbedSpec => []Ordered
  BY <1>1, TypeInvariant, OrderStep, PTL DEF EmbedSpec
<1>3. TypeInv /\ Ordered /\ Ordered' /\ [EmbedNext]_embedVars =>
        [\A u \in Users : stored[u] <= stored'[u] /\ stored'[u] <= saved'[u]]_embedVars
  BY ForwardStep
<1> QED BY <1>2, <1>3, TypeInvariant, PTL DEF EmbedSpec, VectorForward

-----------------------------------------------------------------------------
(* The profile saved while the worker is at an older one.                     *)

(* The vector of u is of an older text than the profile of u, and u is not in *)
(* the queue for another.                                                     *)
Lost(u) == stored[u] < saved[u] /\ u \notin pending

(* A profile is lost only by the update for a row the worker read before the  *)
(* profile was saved; and a lost one stays lost until its user happens to     *)
(* save another: no tick, restart or later pass finds it.                     *)
LostOnlySo ==
    [][\A u \in Users :
         /\ ~Lost(u) /\ Lost(u)'
              => UpdateOK /\ vector.user = u /\ vector.text < saved[u]
         /\ Lost(u) /\ ~Lost(u)' => SaveProfile(u)]_embedVars

(* Every row the worker holds is of somebody still in the queue: the flag is  *)
(* cleared by the update for the last row of that user.                       *)
HeldPending ==
    /\ \A r \in batch : r.user \in pending
    /\ vector # NoRow => vector.user \in pending

LEMMA HeldStep == TypeInv /\ Ordered /\ HeldPending /\ [EmbedNext]_embedVars => HeldPending'
<1> SUFFICES ASSUME TypeInv, Ordered, HeldPending, [EmbedNext]_embedVars
             PROVE  HeldPending'
  OBVIOUS
<1> USE DEF TypeInv, EmbedTypeOK, AccountTypeOK, HeldPending
<1>1. ASSUME NEW u \in Users, SaveProfile(u), UNCHANGED workerVars PROVE HeldPending'
  BY <1>1 DEF SaveProfile, workerVars
<1>2. ASSUME Find PROVE HeldPending'
  <2>1. PICK S \in SUBSET pending : batch' = batch \cup Snapshot(S)
    BY <1>2 DEF Find, Due
  <2>2. \A r \in Snapshot(S) : r.user \in S
    BY DEF Snapshot
  <2> QED BY <1>2, <2>1, <2>2 DEF Find, Keep
<1>3. ASSUME NEW r \in batch, GenerateOK(r) PROVE HeldPending'
  BY <1>3 DEF GenerateOK, accountVars
<1>4. ASSUME NEW r \in batch, GenerateFail(r) PROVE HeldPending'
  BY <1>4 DEF GenerateFail, accountVars
<1>5. ASSUME UpdateOK PROVE HeldPending'
  BY <1>5 DEF UpdateOK, Ordered
<1>6. ASSUME UpdateFail PROVE HeldPending'
  BY <1>6 DEF UpdateFail, accountVars
<1>7. ASSUME Crash PROVE HeldPending'
  BY <1>7 DEF Crash
<1>8. ASSUME UNCHANGED <<pending, batch, vector>> PROVE HeldPending'
  BY <1>8
<1> QED
  BY <1>1, <1>2, <1>3, <1>4, <1>5, <1>6, <1>7, <1>8
     DEF EmbedNext, AccountNext, embedVars, accountVars, workerVars, Register, Login,
         Refresh, Expire, LookupFind, LookupInsert, LookupAbort

LEMMA HeldHolds == EmbedSpec => []Ordered /\ []HeldPending
<1>1. EmbedInit => Ordered /\ HeldPending
  BY DEF EmbedInit, AccountInit, Ordered, Between, HeldPending
<1> QED BY <1>1, TypeInvariant, OrderStep, HeldStep, PTL DEF EmbedSpec

(* The steps that write what Lost compares.                                   *)
LEMMA LostStep ==
    ASSUME TypeInv, HeldPending, [EmbedNext]_embedVars, NEW u \in Users
    PROVE  /\ ~Lost(u) /\ Lost(u)'
                => UpdateOK /\ vector.user = u /\ vector.text < saved[u]
           /\ Lost(u) /\ ~Lost(u)' => SaveProfile(u)
<1> USE DEF TypeInv, EmbedTypeOK, AccountTypeOK
<1>1. ASSUME NEW v \in Users, SaveProfile(v), UNCHANGED workerVars
      PROVE  /\ ~Lost(u) => ~Lost(u)'
             /\ Lost(u) /\ ~Lost(u)' => SaveProfile(u)
  <2>1. CASE u = v
    BY <1>1, <2>1 DEF SaveProfile, Lost
  <2>2. CASE u # v
    BY <1>1, <2>2 DEF SaveProfile, workerVars, Lost
  <2> QED BY <2>1, <2>2
<1>2. ASSUME UpdateOK
      PROVE  /\ ~Lost(u) /\ Lost(u)' => vector.user = u /\ vector.text < saved[u]
             /\ Lost(u) => Lost(u)'
  <2>1. vector \in Row /\ vector.user \in pending /\ vector.user \in Users
    BY <1>2 DEF UpdateOK, HeldPending, Row
  <2>2. CASE vector.user = u
    <3>1. stored'[u] = vector.text /\ saved'[u] = saved[u]
      BY <1>2, <2>2 DEF UpdateOK
    <3> QED BY <2>1, <2>2, <3>1 DEF Lost
  <2>3. CASE vector.user # u
    <3>1. stored'[u] = stored[u] /\ saved'[u] = saved[u]
          /\ (u \in pending' <=> u \in pending)
      BY <1>2, <2>1, <2>3 DEF UpdateOK
    <3> QED BY <2>3, <3>1 DEF Lost
  <2> QED BY <2>2, <2>3
<1>3. ASSUME UNCHANGED <<saved, pending, stored>> PROVE Lost(u)' <=> Lost(u)
  BY <1>3 DEF Lost
<1> QED
  BY <1>1, <1>2, <1>3
     DEF EmbedNext, AccountNext, embedVars, accountVars, workerVars, Register, Login,
         Refresh, Expire, LookupFind, LookupInsert, LookupAbort, Find, Keep,
         GenerateOK, GenerateFail, UpdateFail, Crash

(* The lost update of the worker, in full: how it happens and that nothing    *)
(* but another save repairs it, for any users, batch size and failures.       *)
THEOREM LostCorrect == EmbedSpec => LostOnlySo
<1>1. TypeInv /\ HeldPending /\ [EmbedNext]_embedVars =>
        [\A u \in Users :
           /\ ~Lost(u) /\ Lost(u)'
                => UpdateOK /\ vector.user = u /\ vector.text < saved[u]
           /\ Lost(u) /\ ~Lost(u)' => SaveProfile(u)]_embedVars
  BY LostStep
<1> QED BY <1>1, TypeInvariant, HeldHolds, PTL DEF EmbedSpec, LostOnlySo

(* Nobody saves a profile while the worker holds a row of theirs.             *)
SavesApart ==
    [][\A u \in Users : SaveProfile(u) =>
         /\ \A r \in batch : r.user # u
         /\ vector # NoRow => vector.user # u]_embedVars

(* Then the rows the worker holds are what the users have saved last.         *)
HeldCurrent ==
    /\ \A r \in batch : r.text = saved[r.user]
    /\ vector # NoRow => vector.text = saved[vector.user]

NoneLost == \A u \in Users : ~Lost(u)

LEMMA CurrentStep ==
    ASSUME TypeInv, HeldCurrent, [EmbedNext]_embedVars,
           [\A u \in Users : SaveProfile(u) =>
              /\ \A r \in batch : r.user # u
              /\ vector # NoRow => vector.user # u]_embedVars
    PROVE  HeldCurrent'
<1> USE DEF TypeInv, EmbedTypeOK, AccountTypeOK, HeldCurrent
<1>0. CASE UNCHANGED embedVars
  BY <1>0 DEF embedVars
<1>1. ASSUME NEW u \in Users, SaveProfile(u), UNCHANGED workerVars,
             \A r \in batch : r.user # u, vector # NoRow => vector.user # u
      PROVE  HeldCurrent'
  BY <1>1 DEF SaveProfile, workerVars, Row
<1>2. ASSUME Find PROVE HeldCurrent'
  <2>1. PICK S \in SUBSET pending : batch' = batch \cup Snapshot(S)
    BY <1>2 DEF Find, Due
  <2>2. \A r \in Snapshot(S) : r.text = saved[r.user]
    BY DEF Snapshot
  <2> QED BY <1>2, <2>1, <2>2 DEF Find
<1>3. ASSUME NEW r \in batch, GenerateOK(r) PROVE HeldCurrent'
  BY <1>3 DEF GenerateOK, accountVars
<1>4. ASSUME NEW r \in batch, GenerateFail(r) PROVE HeldCurrent'
  BY <1>4 DEF GenerateFail, accountVars
<1>5. ASSUME UpdateOK \/ UpdateFail \/ Crash PROVE HeldCurrent'
  BY <1>5 DEF UpdateOK, UpdateFail, Crash, accountVars
<1>6. ASSUME UNCHANGED <<saved, batch, vector>> PROVE HeldCurrent'
  BY <1>6
<1> QED
  BY <1>0, <1>1, <1>2, <1>3, <1>4, <1>5, <1>6
     DEF EmbedNext, AccountNext, accountVars, workerVars, Register, Login,
         Refresh, Expire, LookupFind, LookupInsert, LookupAbort

(* Where saves and passes are kept apart, a user whose flag is clear has the  *)
(* vector of the last profile, through all failures and restarts.             *)
THEOREM NoneLostCorrect == EmbedSpec /\ SavesApart => []NoneLost
<1>1. EmbedInit => HeldCurrent /\ NoneLost
  BY DEF EmbedInit, AccountInit, HeldCurrent, NoneLost, Lost
<1>2. ASSUME TypeInv, HeldPending, HeldCurrent, NoneLost, [EmbedNext]_embedVars
      PROVE  NoneLost'
  <2> SUFFICES ASSUME NEW u \in Users, Lost(u)' PROVE FALSE
    BY DEF NoneLost
  <2>1. vector # NoRow /\ vector.user = u /\ vector.text < saved[u]
    BY <1>2, LostStep DEF NoneLost, UpdateOK
  <2>2. vector.text = saved[u] /\ saved[u] \in Nat
    BY <1>2, <2>1 DEF HeldCurrent, TypeInv, EmbedTypeOK, AccountTypeOK
  <2> QED BY <2>1, <2>2
<1>3. TypeInv /\ HeldCurrent /\ [EmbedNext]_embedVars
        /\ [\A u \in Users : SaveProfile(u) =>
              /\ \A r \in batch : r.user # u
              /\ vector # NoRow => vector.user # u]_embedVars
        => HeldCurrent'
  BY CurrentStep
<1> QED
  BY <1>1, <1>2, <1>3, TypeInvariant, HeldHolds, PTL DEF EmbedSpec, SavesApart
=============================================================================
