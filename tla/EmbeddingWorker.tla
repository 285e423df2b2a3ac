-------------------------- MODULE EmbeddingWorker --------------------------
(***************************************************************************)
(* The background worker that turns saved profiles into vectors, beside the *)
(* requests of module Accounts.                                             *)
(*                                                                         *)
(* The text of a profile stands for itself by its number: the first profile *)
(* a user saves is 1, and a vector is the number of the text it was         *)
(* generated from. One server process runs, and in it one worker goroutine: *)
(* a tick that comes while a pass runs is dropped or waits in the ticker.   *)
(***************************************************************************)
EXTENDS Accounts, FiniteSets

CONSTANT BatchSize      \* the LIMIT of the query for pending users

ASSUME BatchAssumption == BatchSize \in Nat \ {0}

Row == [user: Users, text: 1 .. LastText]

ASSUME NoTextAssumption == NoRow \notin Row

VARIABLES
    batch,      \* the rows of the current pass that are still to be read
    vector,     \* the row a vector was generated for and is not stored, or NoRow
    stored      \* stored[u]: the text of personality_embedding, 0 when NULL

workerVars == <<batch, vector, stored>>
embedVars  == <<users, tokens, saved, pending, lookups, seeking,
                batch, vector, stored>>

EmbedInit ==
    /\ AccountInit
    /\ batch = {}
    /\ vector = NoRow
    /\ stored = [u \in Users |-> 0]

-----------------------------------------------------------------------------
\* Mutant: every tick starts a pass of its own.
PassMayBeginAlways == TRUE

PassMayBegin == batch = {} /\ vector = NoRow

\* What the query returns for users S: the rows as they are at this moment.
Snapshot(S) == {[user |-> u, text |-> saved[u]] : u \in S}

\* Mutant: the pending users are claimed by clearing their flags.
Claim(S) == pending' = pending \ S

\* The query leaves the flags as they are.
Keep(S) == pending' = pending

\* Mutant: the query without its condition.
DueAll == Users

Due == pending

\* A tick: LIMIT without an order, so any BatchSize of the pending users.
Find ==
    /\ PassMayBegin
    /\ \E S \in SUBSET Due :
         /\ S # {}
         /\ Cardinality(S) <= BatchSize
         /\ Cardinality(S) = BatchSize \/ S = Due
         /\ batch' = batch \cup Snapshot(S)
         /\ Keep(S)
    /\ UNCHANGED <<users, tokens, saved, lookups, seeking, vector, stored>>

\* provider.Generate answers for row r.
GenerateOK(r) ==
    /\ vector = NoRow
    /\ r \in batch
    /\ batch' = batch \ {r}
    /\ vector' = r
    /\ UNCHANGED <<accountVars, stored>>

\* Mutant: a row that fails is taken out of the queue.
GenerateFailDone(r) ==
    /\ r \in batch
    /\ vector = NoRow
    /\ batch' = batch \ {r}
    /\ pending' = pending \ {r.user}
    /\ UNCHANGED <<users, tokens, saved, lookups, seeking, vector, stored>>

\* The provider fails: the row is skipped, and is pending at the next tick.
GenerateFail(r) ==
    /\ r \in batch
    /\ vector = NoRow
    /\ batch' = batch \ {r}
    /\ UNCHANGED <<accountVars, vector, stored>>

\* The update of vector and flag, whatever profile the row has by now.
UpdateOK ==
    /\ vector # NoRow
    /\ stored' = [stored EXCEPT ![vector.user] = vector.text]
    /\ pending' = pending \ {vector.user}
    /\ vector' = NoRow
    /\ UNCHANGED <<users, tokens, saved, lookups, seeking, batch>>

UpdateFail ==
    /\ vector # NoRow
    /\ vector' = NoRow
    /\ UNCHANGED <<accountVars, batch, stored>>

\* The process dies and starts again: requests and the pass are gone, rows and
\* the tokens people hold are not.
Crash ==
    /\ batch' = {}
    /\ vector' = NoRow
    /\ seeking' = [w \in Seekers |-> NoRow]
    /\ UNCHANGED <<users, tokens, saved, pending, lookups, stored>>

-----------------------------------------------------------------------------
Generating(u) == \E r \in batch : r.user = u /\ GenerateOK(r)
Storing(u)    == vector # NoRow /\ vector.user = u /\ UpdateOK
Answering     == \E r \in batch : GenerateOK(r) \/ GenerateFail(r)

EmbedNext ==
    \/ AccountNext /\ UNCHANGED workerVars
    \/ Find
    \/ \E r \in batch : GenerateOK(r) \/ GenerateFail(r)
    \/ UpdateOK
    \/ UpdateFail
    \/ Crash

EmbedSpec == EmbedInit /\ [][EmbedNext]_embedVars

\* The ticker ticks, and an update that is tried again and again for a user
\* succeeds at some time. Nothing is assumed of the provider here: its calls
\* have no timeout and no deadline, so one that hangs keeps the only worker from
\* every pass.
FairEmbedSpec ==
    /\ EmbedSpec
    /\ WF_embedVars(Find)
    /\ \A u \in Users : SF_embedVars(Storing(u))

\* What the provider has to do: no call hangs, and one that is made again and
\* again for user u succeeds at some time.
NoCallHangs == WF_embedVars(Answering)
Serves(u)   == SF_embedVars(Generating(u))

-----------------------------------------------------------------------------
(* Properties.                                                              *)

\* Rows, requests and the worker have the values the code gives them.
EmbedTypeOK ==
    /\ AccountTypeOK
    /\ batch \subseteq Row
    /\ vector \in Row \cup {NoRow}
    /\ stored \in [Users -> 0 .. LastText]

\* A user whose flag is clear and who has a profile has a vector: no failure of
\* the provider or of the update, and no death of the process between the query
\* and the update, takes a user out of the queue without one.
ClearedHasVector ==
    \A u \in Users : saved[u] > 0 /\ u \notin pending => stored[u] > 0

\* A vector is of a text the user has saved and is never replaced by that of
\* an older one, though a pass works on rows it read before.
VectorForward ==
    [][\A u \in Users : stored[u] <= stored'[u] /\ stored'[u] <= saved'[u]]_embedVars

\* Where no call hangs and, from some time on, the queue fits into one batch,
\* everybody whom the provider serves and who has saved a profile has a vector
\* in the end: through failures of others in the batch, deaths of the process,
\* and profiles saved again and again. With a longer queue the LIMIT without an
\* order may pass somebody over for ever.
EmbeddedInTheEnd ==
    NoCallHangs /\ <>[](Cardinality(pending) <= BatchSize) =>
      \A u \in Users : Serves(u) => (saved[u] > 0 ~> stored[u] > 0)
=============================================================================
