---------------------------- MODULE BufferClose ----------------------------
(***************************************************************************)
(* Closing a buffer while traffic for it is in flight (internal/hub        *)
(* networks.go handleCloseBuffer, hub.go persistEvent and the close        *)
(* tombstones, session.go persistOwn, and the store operations they use).  *)
(*                                                                         *)
(* Actors: the hub's event consumer ("hub"), a session handler storing a   *)
(* message it just sent ("own"), the session handlers in Closers serving   *)
(* close_buffer, and one client that sees what the hub broadcasts.         *)
(* bufferMutationMu is the variable mutex; a store operation, which holds  *)
(* Store.mu throughout, is one step.                                       *)
(***************************************************************************)
EXTENDS Naturals, Sequences, FiniteSets, FiniteSetsExt, SequencesExt

CONSTANTS
    Channels,    \* buffer names that are channels
    Queries,     \* buffer names that are private conversations
    Closers,     \* session handlers that serve close_buffer
    Batch,       \* rows one delete chunk takes (pruneChunk)
    MaxTombs,    \* tombstones kept (maxRecentCloses)
    MaxMsgs,     \* bound: inserts ever tried
    Refreshes    \* whether the client asks for get_buffers meanwhile

ASSUME CloseAssumption ==
    /\ Channels \cap Queries = {}
    /\ IsFiniteSet(Channels) /\ IsFiniteSet(Queries)
    /\ Batch \in Nat \ {0} /\ MaxTombs \in Nat \ {0}
    /\ MaxMsgs \in Nat
    /\ Refreshes \in BOOLEAN

Names == Channels \cup Queries
Writers == {"hub", "own"}
Free == "free"

\* What a live event is to the code: conversation, our own JOIN or PART, or
\* someone's presence (QUIT, NICK, MODE, KICK, another's JOIN or PART).
Kinds == {"talk", "join", "part", "presence"}

VARIABLES
    rows,      \* buffers table: name -> row id, 0 when there is no row
    archived,  \* names whose row has archived = 1
    msgs,      \* messages table: [id, buf, name]; name is only observed
    inserts,   \* inserts that found or created their row, failed ones included
    tombs,     \* Hub.recentClose, oldest first
    mutex,     \* who holds bufferMutationMu
    writer,    \* each writer: [pc, name, kind]
    closer,    \* each closer: [pc, name, purge, buf]
    shown,     \* the client's sidebar
    fresh,     \* rows of it that no buffer list has named yet (ephemeral)
    reply      \* get_buffers: the list read and not yet pushed, if any

store == <<rows, archived, msgs, inserts>>
client == <<shown, fresh>>
vars == <<rows, archived, msgs, inserts, tombs, mutex, writer, closer, shown, fresh, reply>>

Idle == [pc |-> "idle", name |-> "none", kind |-> "none"]
Open == [pc |-> "idle", name |-> "none", purge |-> FALSE, buf |-> 0]

Init ==
    /\ rows = [n \in Names |-> 0]
    /\ archived = {} /\ msgs = {} /\ inserts = 0
    /\ tombs = <<>>
    /\ mutex = Free
    /\ writer = [w \in Writers |-> Idle]
    /\ closer = [c \in Closers |-> Open]
    /\ shown = {} /\ fresh = {}
    /\ reply = {}

\* Rows get_buffers lists.
Visible == {n \in Names : rows[n] # 0} \ archived

\* INTEGER PRIMARY KEY without AUTOINCREMENT: one past the largest id in use.
NextRowId == 1 + Max({rows[n] : n \in Names})

RecentlyClosed(n) == n \in ToSet(tombs)

\* Mutant: nothing is evicted past the cap.
MarkClosedNoEvict(n) == Append(Remove(tombs, n), n)

\* markClosed: a fresh entry, the oldest evicted past the cap. The second cap, on
\* the bytes of the keys, also drops the oldest: GraceExpires may do that at any
\* time.
MarkClosed(n) ==
    LET t == Append(Remove(tombs, n), n)
    IN  SubSeq(t, 1 + (IF Len(t) > MaxTombs THEN Len(t) - MaxTombs ELSE 0), Len(t))

UnmarkClosed(n) == Remove(tombs, n)

\* closeGraceMs passes for the oldest entry.
GraceExpires ==
    /\ tombs # <<>>
    /\ tombs' = Tail(tombs)
    /\ UNCHANGED <<store, mutex, writer, closer, client, reply>>

(***************************************************************************)
(* The guarded append.                                                     *)
(***************************************************************************)
\* Mutants: the tombstone is not consulted; it is consulted for channels only.
VetoPartOnly(n, kind) == kind = "part" /\ rows[n] = 0

VetoChannels(n, kind) ==
    \/ kind = "part" /\ rows[n] = 0
    \/ RecentlyClosed(n) /\ n \in Channels

\* graceGuard and its counterparts in persistMembershipLine and persistOwn.
Veto(n, kind) ==
    \/ kind = "part" /\ rows[n] = 0
    \/ RecentlyClosed(n) /\ (n \in Channels \/ kind = "presence")

\* unarchivePolicy for live traffic; AppendFolded always unarchives.
Unarchives(kind) == kind \in {"talk", "join"}

\* AppendFoldedGuardedArchive once the guard let it pass: create the row on
\* demand, insert, settle the archived flag.
AppendTo(n, unarchive) ==
    LET buf == IF rows[n] = 0 THEN NextRowId ELSE rows[n]
    IN  /\ rows' = [rows EXCEPT ![n] = buf]
        /\ msgs' = msgs \cup {[id |-> inserts + 1, buf |-> buf, name |-> n]}
        /\ inserts' = inserts + 1
        /\ archived' = IF unarchive THEN archived \ {n} ELSE archived

\* The insert fails after bufferAndRing created the row, in a statement of its own.
CreateOnly(n) ==
    /\ rows[n] = 0
    /\ rows' = [rows EXCEPT ![n] = NextRowId]
    /\ inserts' = inserts + 1
    /\ UNCHANGED <<archived, msgs>>

\* Room left under the bound, counting what the writers may still insert.
Room == inserts + Cardinality({w \in Writers : writer[w].pc \in {"wait", "locked"}}) < MaxMsgs

(***************************************************************************)
(* Live events: persistEvent and persistMembershipLine on the consumer.    *)
(***************************************************************************)
\* An event arrives and its buffer is chosen. membershipTargets names a query
\* only when FindBuffer finds its row, before the mutex is taken.
LiveEvent(n, kind) ==
    /\ writer["hub"].pc = "idle" /\ Room
    /\ kind \in {"join", "part"} => n \in Channels
    /\ kind = "presence" /\ n \in Queries => rows[n] # 0
    /\ writer' = [writer EXCEPT !["hub"] = [pc |-> "wait", name |-> n, kind |-> kind]]
    /\ UNCHANGED <<store, tombs, mutex, closer, client, reply>>

\* persistOwn: a session stores what it just sent.
OwnMessage(n) ==
    /\ writer["own"].pc = "idle" /\ Room
    /\ writer' = [writer EXCEPT !["own"] = [pc |-> "wait", name |-> n, kind |-> "talk"]]
    /\ UNCHANGED <<store, tombs, mutex, closer, client, reply>>

\* Reopening is an intent: our live JOIN, or a private message we send.
Reopens(w) == writer[w].kind = "join" \/ (w = "own" /\ writer[w].name \in Queries)

\* Mutant: the append does not take the mutex.
LockWriterFree(w) ==
    /\ writer[w].pc = "wait"
    /\ writer' = [writer EXCEPT ![w].pc = "locked"]
    /\ tombs' = IF Reopens(w) THEN UnmarkClosed(writer[w].name) ELSE tombs
    /\ UNCHANGED <<store, mutex, closer, client, reply>>

LockWriter(w) ==
    /\ writer[w].pc = "wait" /\ mutex = Free
    /\ mutex' = w
    /\ writer' = [writer EXCEPT ![w].pc = "locked"]
    /\ tombs' = IF Reopens(w) THEN UnmarkClosed(writer[w].name) ELSE tombs
    /\ UNCHANGED <<store, closer, client, reply>>

\* The mutex as a deferred Unlock leaves it.
Unlock(actor) == mutex' = IF mutex = actor THEN Free ELSE mutex

\* The append; what is vetoed, or stays archived, is not published.
Store(w) ==
    LET n == writer[w].name
        veto == Veto(n, writer[w].kind)
        hidden == n \in archived /\ ~Unarchives(writer[w].kind)
    IN  /\ writer[w].pc = "locked"
        /\ IF veto THEN UNCHANGED store ELSE AppendTo(n, Unarchives(writer[w].kind))
        /\ IF veto \/ hidden
           THEN writer' = [writer EXCEPT ![w] = Idle] /\ Unlock(w)
           ELSE writer' = [writer EXCEPT ![w].pc = "publish"] /\ UNCHANGED mutex
        /\ UNCHANGED <<tombs, closer, client, reply>>

\* The append fails (or its msgid is a duplicate): nothing is published, no
\* message is stored, but an append that was not vetoed may have created the row.
StoreFails(w) ==
    /\ writer[w].pc = "locked"
    /\ \/ UNCHANGED store
       \/ ~Veto(writer[w].name, writer[w].kind) /\ CreateOnly(writer[w].name)
    /\ writer' = [writer EXCEPT ![w] = Idle] /\ Unlock(w)
    /\ UNCHANGED <<tombs, closer, client, reply>>

\* makeBuffer: a name the sidebar does not have gets an ephemeral row.
MakeBuffer(n) == shown' = shown \cup {n} /\ fresh' = fresh \cup ({n} \ shown)

\* broadcast("event"): the client grows a sidebar row for it.
Publish(w) ==
    /\ writer[w].pc = "publish"
    /\ MakeBuffer(writer[w].name)
    /\ writer' = [writer EXCEPT ![w] = Idle] /\ Unlock(w)
    /\ UNCHANGED <<store, tombs, closer, reply>>

\* A replayed line: no mutex, never a reopen, never published on its own.
Replay(n, kind) ==
    /\ writer["hub"].pc = "idle" /\ Room
    /\ kind \in {"join", "part"} => n \in Channels
    /\ ~RecentlyClosed(n)
    /\ kind = "part" => rows[n] # 0
    /\ AppendTo(n, FALSE) \/ CreateOnly(n)
    /\ UNCHANGED <<tombs, mutex, writer, closer, client, reply>>

(***************************************************************************)
(* close_buffer.                                                           *)
(***************************************************************************)
CloseRequest(c, n, purge) ==
    /\ closer[c].pc = "idle"
    /\ closer' = [closer EXCEPT ![c] =
           [pc |-> IF purge THEN "resolve" ELSE "lock", name |-> n, purge |-> purge, buf |-> 0]]
    /\ UNCHANGED <<store, tombs, mutex, writer, client, reply>>

\* PurgeBufferMessages resolves the row id, then releases Store.mu.
ResolveForPurge(c) ==
    /\ closer[c].pc = "resolve"
    /\ closer' = [closer EXCEPT ![c].buf = rows[closer[c].name],
                                ![c].pc = IF rows[closer[c].name] = 0 THEN "lock" ELSE "purge"]
    /\ UNCHANGED <<store, tombs, mutex, writer, client, reply>>

\* Mutant: the chunk does not select by buffer.
DeleteChunkAnyBuffer(c, after) ==
    LET size == Min({Batch, Cardinality(msgs)})
    IN  /\ \E gone \in kSubset(size, msgs) : msgs' = msgs \ gone
        /\ closer' = [closer EXCEPT ![c].pc = IF size < Batch THEN after ELSE @]
        /\ UNCHANGED <<rows, archived, inserts, tombs, mutex, writer, client, reply>>

\* One chunk of deleteChunked: by row id, at most Batch rows; a short chunk
\* is the last.
DeleteChunk(c, after) ==
    LET own == {m \in msgs : m.buf = closer[c].buf}
        size == Min({Batch, Cardinality(own)})
    IN  /\ \E gone \in kSubset(size, own) : msgs' = msgs \ gone
        /\ closer' = [closer EXCEPT ![c].pc = IF size < Batch THEN after ELSE @]
        /\ UNCHANGED <<rows, archived, inserts, tombs, mutex, writer, client, reply>>

PurgeChunk(c) == closer[c].pc = "purge" /\ DeleteChunk(c, "lock")

\* A store call fails: the client gets an error, what was deleted stays deleted.
CloseFails(c) ==
    /\ closer[c].pc \in {"resolve", "purge", "archive", "resolveLocked", "purgeLocked", "delete"}
    /\ closer' = [closer EXCEPT ![c] = Open] /\ Unlock(c)
    /\ UNCHANGED <<store, tombs, writer, client, reply>>

LockCloser(c) ==
    /\ closer[c].pc = "lock" /\ mutex = Free
    /\ mutex' = c
    /\ closer' = [closer EXCEPT ![c].pc = IF closer[c].purge THEN "resolveLocked" ELSE "archive"]
    /\ UNCHANGED <<store, tombs, writer, client, reply>>

\* ArchiveBufferFolded: a name without a row is left alone.
Archive(c) ==
    /\ closer[c].pc = "archive"
    /\ archived' = archived \cup ({closer[c].name} \cap {n \in Names : rows[n] # 0})
    /\ closer' = [closer EXCEPT ![c].pc = "publish"]
    /\ UNCHANGED <<rows, msgs, inserts, tombs, mutex, writer, client, reply>>

\* Mutant: a row that is already gone makes the close start over.
ResolveForDeleteRetries(c) ==
    LET n == closer[c].name
    IN  /\ closer[c].pc = "resolveLocked"
        /\ closer' = [closer EXCEPT ![c].buf = rows[n],
                                    ![c].pc = IF rows[n] = 0 THEN "lock" ELSE "purgeLocked"]
        /\ IF rows[n] = 0 THEN Unlock(c) ELSE UNCHANGED mutex
        /\ UNCHANGED <<store, tombs, writer, client, reply>>

\* DeleteBufferFolded resolves again; without a row it only leaves a tombstone.
ResolveForDelete(c) ==
    LET n == closer[c].name
    IN  /\ closer[c].pc = "resolveLocked"
        /\ closer' = [closer EXCEPT ![c].buf = rows[n],
                                    ![c].pc = IF rows[n] = 0 THEN "publish" ELSE "purgeLocked"]
        /\ tombs' = IF rows[n] = 0 THEN MarkClosed(n) ELSE tombs
        /\ UNCHANGED <<store, mutex, writer, client, reply>>

PurgeLockedChunk(c) == closer[c].pc = "purgeLocked" /\ DeleteChunk(c, "delete")

\* Mutant: the row delete does not cascade.
DeleteRowNoCascade(c) ==
    LET gone == {n \in Names : rows[n] = closer[c].buf}
    IN  /\ closer[c].pc = "delete"
        /\ rows' = [n \in Names |-> IF n \in gone THEN 0 ELSE rows[n]]
        /\ archived' = archived \ gone
        /\ tombs' = MarkClosed(closer[c].name)
        /\ closer' = [closer EXCEPT ![c].pc = "publish"]
        /\ UNCHANGED <<msgs, inserts, mutex, writer, client, reply>>

\* The row delete, by id, with its cascade and the tombstone.
DeleteRow(c) ==
    LET gone == {n \in Names : rows[n] = closer[c].buf}
    IN  /\ closer[c].pc = "delete"
        /\ rows' = [n \in Names |-> IF n \in gone THEN 0 ELSE rows[n]]
        /\ archived' = archived \ gone
        /\ msgs' = {m \in msgs : m.buf # closer[c].buf}
        /\ tombs' = MarkClosed(closer[c].name)
        /\ closer' = [closer EXCEPT ![c].pc = "publish"]
        /\ UNCHANGED <<inserts, mutex, writer, client, reply>>

ForgetBuffer(n) == shown' = shown \ {n} /\ fresh' = fresh \ {n}

\* broadcast("buffer_closed"), then the deferred Unlock.
PublishClosed(c) ==
    /\ closer[c].pc = "publish"
    /\ ForgetBuffer(closer[c].name)
    /\ closer' = [closer EXCEPT ![c] = Open] /\ Unlock(c)
    /\ UNCHANGED <<store, tombs, writer, reply>>

(***************************************************************************)
(* get_buffers: the list is read, and pushed in a later step; the client   *)
(* installs it (mergeServerBuffers).                                       *)
(***************************************************************************)
ReadBuffers ==
    /\ Refreshes /\ reply = {}
    /\ reply' = {Visible}
    /\ UNCHANGED <<store, tombs, mutex, writer, closer, client>>

\* The list replaces the sidebar, save for ephemeral rows it does not name. (A
\* list cut short by the response's size limit would drop nothing; the few names
\* here never reach the limit.)
MergeServerBuffers(list) == shown' = list \cup fresh /\ fresh' = fresh \ list

PushBuffers ==
    /\ reply # {}
    /\ MergeServerBuffers(UNION reply)
    /\ reply' = {}
    /\ UNCHANGED <<store, tombs, mutex, writer, closer>>

WriterStep(w) == LockWriter(w) \/ Store(w) \/ StoreFails(w) \/ Publish(w)

CloserStep(c) ==
    \/ ResolveForPurge(c) \/ PurgeChunk(c) \/ CloseFails(c) \/ LockCloser(c) \/ Archive(c)
    \/ ResolveForDelete(c) \/ PurgeLockedChunk(c) \/ DeleteRow(c) \/ PublishClosed(c)

Next ==
    \/ \E n \in Names, k \in Kinds : LiveEvent(n, k)
    \/ \E n \in Names, k \in Kinds : Replay(n, k)
    \/ \E n \in Names : OwnMessage(n)
    \/ \E w \in Writers : WriterStep(w)
    \/ \E c \in Closers, n \in Names, p \in BOOLEAN : CloseRequest(c, n, p)
    \/ \E c \in Closers : CloserStep(c)
    \/ GraceExpires
    \/ ReadBuffers
    \/ PushBuffers

Spec == Init /\ [][Next]_vars

\* Every goroutine keeps running, and a Go mutex hands itself to whoever has
\* waited long enough (sync.Mutex starvation mode): a lock that is free again
\* and again is obtained.
Fairness ==
    /\ \A w \in Writers : WF_vars(WriterStep(w)) /\ SF_vars(LockWriter(w))
    /\ \A c \in Closers : WF_vars(CloserStep(c)) /\ SF_vars(LockCloser(c))

FairSpec == Spec /\ Fairness

(***************************************************************************)
(* Properties.                                                             *)
(***************************************************************************)
\* Every variable keeps its type; no two buffers share a row id, only a stored
\* buffer is archived, and markClosed keeps one tombstone per name within its cap.
TypeOK ==
    /\ rows \in [Names -> 0 .. MaxMsgs]
    /\ \A n, m \in Names : rows[n] = rows[m] /\ n # m => rows[n] = 0
    /\ archived \subseteq {n \in Names : rows[n] # 0}
    /\ msgs \subseteq [id : 1 .. MaxMsgs, buf : 1 .. MaxMsgs, name : Names]
    /\ inserts \in 0 .. MaxMsgs
    /\ tombs \in Seq(Names) /\ Len(tombs) <= MaxTombs /\ IsInjective(tombs)
    /\ mutex \in {Free} \cup Writers \cup Closers
    /\ fresh \subseteq shown /\ shown \subseteq Names

\* A channel under a close tombstone has no row: no straggler, echo of our own
\* PART, replayed line or message of ours re-creates it during the grace
\* (hub.go:1580-1582, the guard evaluated under the store lock at store.go:558).
ClosedStaysClosed == \A n \in Channels : RecentlyClosed(n) => rows[n] = 0

\* Under a close tombstone a query comes back only with conversation, never for a
\* QUIT or NICK line whose target was looked up before the close, nor for replay
\* (hub.go:1863-1943: membershipTargets finds the row, the mutex comes later).
ReopenedByTalk ==
    [][\A n \in Queries : RecentlyClosed(n) /\ rows[n] = 0 /\ rows'[n] # 0
          => \E w \in Writers : writer[w].pc = "locked" /\ writer[w].name = n
                                 /\ writer[w].kind = "talk"]_vars

\* Every message row belongs to a live buffer row of its own name: neither a
\* cascade nor a re-used row id files a line under another buffer
\* (netconfigs.go:553-577, DeleteBufferFolded 614-650).
RowsBelong == \A m \in msgs : rows[m.name] = m.buf

\* When nobody is in the middle of a mutation, the client shows no buffer that
\* the store does not list (hub.go:127-131: an append completed before a delete
\* must not broadcast its event after buffer_closed).
NoPhantom == mutex = Free => shown \subseteq Visible

\* Messages disappear only while a purge of their own buffer is under way
\* (netconfigs.go:545-548: "its message rows are chunk-deleted").
PurgesOnlyItsBuffer ==
    [][\A m \in msgs \ msgs' : \E c \in Closers : closer[c].purge /\ closer[c].name = m.name]_vars

\* close_buffer always answers: neither the mutex nor traffic for the buffer
\* holds it up for ever (networks.go:757-834).
CloseAnswers == \A c \in Closers : closer[c].pc # "idle" ~> closer[c].pc = "idle"
=============================================================================
