------------------------------ MODULE Accounts ------------------------------
(***************************************************************************)
(* Users, their tokens, their lifestyle profiles and their squad lookups.   *)
(*                                                                         *)
(* A token is what its claims say: the server keeps no list, and signs with *)
(* one secret, so `tokens` is the set of claims signed and not expired yet. *)
(* Registration, login, refresh and saving a profile make one call each and *)
(* are one action; registering a lookup checks first and inserts later.     *)
(***************************************************************************)
EXTENDS Naturals

CONSTANTS
    Users,          \* ids a users row can get
    Emails,         \* addresses people register with
    Admin,          \* the user the schema inserts,
    AdminEmail,     \*   and its address
    LookupIds,      \* ids a squad_lookups row can get (bounds their number)
    Seekers,        \* goroutines serving POST /squad-lookups
    LastText,       \* bound on the times a user saves a profile
    NoRow           \* the id has no row yet

ASSUME AdminAssumption == Admin \in Users /\ AdminEmail \in Emails
ASSUME TextAssumption == LastText \in Nat

Roles == {"tenant", "landlord", "admin"}
User  == [email: Emails, role: Roles]
Token == [user: Users, role: Roles, kind: {"access", "refresh"}]

ASSUME NoUserAssumption == NoRow \notin User /\ NoRow \notin Users

VARIABLES
    users,      \* users[u]: the e-mail and role in the row of u, or NoRow
    tokens,     \* the claims of the signed tokens that have not expired
    saved,      \* saved[u]: the profiles u has saved, the last is in the row
    pending,    \* the users with pending_embeddings
    lookups,    \* lookups[l]: whose active lookup l is, or NoRow
    seeking     \* seeking[w]: the user w is about to insert a lookup for

accountVars == <<users, tokens, saved, pending, lookups, seeking>>

AccountInit ==
    /\ users   = [u \in Users |->
                    IF u = Admin THEN [email |-> AdminEmail, role |-> "admin"]
                    ELSE NoRow]
    /\ tokens  = {}
    /\ saved   = [u \in Users |-> 0]
    /\ pending = {}
    /\ lookups = [l \in LookupIds |-> NoRow]
    /\ seeking = [w \in Seekers |-> NoRow]

-----------------------------------------------------------------------------
(* POST /auth/register, /auth/login, /auth/refresh                          *)

\* Mutant: the role is taken as it comes.
MayRegisterAny(role) == TRUE

\* The input's oneof and BR-02.
MayRegister(role) == role # "admin"

Taken(email) == \E u \in Users : users[u] # NoRow /\ users[u].email = email

\* CreateUser; UNIQUE (email) refuses an address that has a row.
Register(u, email, role) ==
    /\ MayRegister(role)
    /\ users[u] = NoRow
    /\ ~Taken(email)
    /\ users' = [users EXCEPT ![u] = [email |-> email, role |-> role]]
    /\ UNCHANGED <<tokens, saved, pending, lookups, seeking>>

\* The pair of tokens generateTokenPair signs.
TokenPair(u, role) == [user: {u}, role: {role}, kind: {"access", "refresh"}]

\* Who gives an address and its password gets tokens for its row. No operation
\* clears is_active, so every account is active.
Login(email) ==
    \E u \in Users :
        /\ users[u] # NoRow
        /\ users[u].email = email
        /\ tokens' = tokens \cup TokenPair(u, users[u].role)
        /\ UNCHANGED <<users, saved, pending, lookups, seeking>>

\* A refresh trusts the claims of the token and reads no row.
Refresh(t) ==
    /\ t \in tokens
    /\ t.kind = "refresh"
    /\ tokens' = tokens \cup TokenPair(t.user, t.role)
    /\ UNCHANGED <<users, saved, pending, lookups, seeking>>

\* An access token lives a day, a refresh token a week.
Expire(t) ==
    /\ t \in tokens
    /\ t.kind = "refresh" => [t EXCEPT !.kind = "access"] \notin tokens
    /\ tokens' = tokens \ {t}
    /\ UNCHANGED <<users, saved, pending, lookups, seeking>>

\* middleware.Auth lets u's requests through: an access token, never a refresh.
Authorized(u) == \E t \in tokens : t.user = u /\ t.kind = "access"

-----------------------------------------------------------------------------
(* PUT /users/me/profile                                                    *)

\* UpdateProfile: the profile and the flag in one statement. The profile may be
\* the one the row has: the flag is raised all the same, any number of times.
SaveProfile(u) ==
    /\ Authorized(u)
    /\ \E text \in {saved[u], saved[u] + 1} \cap (1 .. LastText) :
         saved' = [saved EXCEPT ![u] = text]
    /\ pending' = pending \cup {u}
    /\ UNCHANGED <<users, tokens, lookups, seeking>>

-----------------------------------------------------------------------------
(* POST /squad-lookups                                                     *)

HasLookup(u) == \E l \in LookupIds : lookups[l] = u

\* GetActiveLookup. An answer that came back wrong counts as no lookup, so w
\* may go on whether u has one or not.
LookupFind(w, u) ==
    /\ seeking[w] = NoRow
    /\ Authorized(u)
    /\ seeking' = [seeking EXCEPT ![w] = u]
    /\ UNCHANGED <<users, tokens, saved, pending, lookups>>

\* Mutant: the schema without the partial unique index.
LookupAllowedAlways(u) == TRUE

\* idx_squad_lookups_one_active_per_user.
LookupAllowed(u) == ~HasLookup(u)

\* CreateLookup.
LookupInsert(w, l) ==
    /\ seeking[w] # NoRow
    /\ lookups[l] = NoRow
    /\ LookupAllowed(seeking[w])
    /\ lookups' = [lookups EXCEPT ![l] = seeking[w]]
    /\ seeking' = [seeking EXCEPT ![w] = NoRow]
    /\ UNCHANGED <<users, tokens, saved, pending>>

\* The insert is refused or fails, or the client goes away before it.
LookupAbort(w) ==
    /\ seeking[w] # NoRow
    /\ seeking' = [seeking EXCEPT ![w] = NoRow]
    /\ UNCHANGED <<users, tokens, saved, pending, lookups>>

-----------------------------------------------------------------------------
AccountNext ==
    \/ \E u \in Users, email \in Emails, role \in Roles : Register(u, email, role)
    \/ \E email \in Emails : Login(email)
    \/ \E t \in tokens : Refresh(t) \/ Expire(t)
    \/ \E u \in Users : SaveProfile(u)
    \/ \E w \in Seekers, u \in Users : LookupFind(w, u)
    \/ \E w \in Seekers, l \in LookupIds : LookupInsert(w, l)
    \/ \E w \in Seekers : LookupAbort(w)

AccountSpec == AccountInit /\ [][AccountNext]_accountVars

-----------------------------------------------------------------------------
(* Properties.                                                              *)

\* Rows, claims, profiles and lookups have the values the code gives them.
AccountTypeOK ==
    /\ users \in [Users -> User \cup {NoRow}]
    /\ tokens \subseteq Token
    /\ saved \in [Users -> 0 .. LastText]
    /\ pending \subseteq Users
    /\ lookups \in [LookupIds -> Users \cup {NoRow}]
    /\ seeking \in [Seekers -> Users \cup {NoRow}]

\* BR-02: however long tokens are renewed from tokens without a look at the row,
\* a token speaks for a row and has its role; the only admin is the seeded one;
\* and no two rows share the address people log in with.
RolesHold ==
    /\ \A t \in tokens : users[t.user] # NoRow /\ users[t.user].role = t.role
    /\ \A u \in Users : users[u] # NoRow /\ users[u].role = "admin" => u = Admin
    /\ \A u, v \in Users :
         users[u] # NoRow /\ users[v] # NoRow /\ users[u].email = users[v].email
           => u = v

\* FR-4.1: a user has at most one active lookup, whatever registrations passed
\* the check side by side or took a failed read for an answer.
OneActiveLookup ==
    \A l, k \in LookupIds : lookups[l] # NoRow /\ lookups[l] = lookups[k] => l = k
=============================================================================
