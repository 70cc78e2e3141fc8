----------------------------- MODULE RingCache -----------------------------
(***************************************************************************)
(* The message store's hot rings (internal/store: ring.go, the append,     *)
(* paging, redaction and eviction parts of store.go, prune.go, and the      *)
(* chunked purges of netconfigs.go).                                        *)
(*                                                                         *)
(* disk is the messages table.  A resident ring caches the newest rows of  *)
(* its buffer; all rings share one byte budget.  Every operation below is  *)
(* one hold of Store.mu; the pruner and a buffer purge give the lock up    *)
(* between their chunks, so everything else interleaves with them.         *)
(***************************************************************************)
EXTENDS Integers, Sequences, FiniteSets, FiniteSetsExt, SequencesExt, Functions, TLC

CONSTANTS
    Buffers,      \* buffer names
    Times,        \* message timestamps
    MsgIds,       \* IRCv3 message ids
    NoId,         \* a row without one
    Now,          \* the time every prune runs at
    RingSize,     \* ring.max
    MaxRingBytes, \* Store.maxRingBytes
    PruneChunk,   \* pruneChunk
    DaysChoices,  \* retention.days values the operator sets, 0 = off
    MaxChoices,   \* retention.maxPerBuffer values the operator sets, 0 = off
    Purges,       \* BOOLEAN: buffers are closed with purge
    MaxRows       \* bound: messages ever inserted, and the buffer ids a failing append takes

ASSUME RingAssumption ==
    /\ Times \subseteq Nat \ {0} /\ Now \in Nat /\ MaxRows \in Nat
    /\ RingSize \in Nat \ {0} /\ MaxRingBytes \in Nat \ {0} /\ PruneChunk \in Nat \ {0}
    /\ DaysChoices \subseteq Nat /\ MaxChoices \subseteq Nat
    /\ NoId \notin MsgIds /\ Purges \in BOOLEAN

VARIABLES
    disk,       \* the messages table: a set of rows
    bufs,       \* the buffers table: a function from names to row ids
    inserted,   \* rows inserted so far
    rings,      \* Store.rings: a function from the ids of resident buffers to rings
    ringBytes,  \* Store.ringBytes
    lru,        \* ids of resident buffers, least recently used first (lastUsed)
    retention,  \* Store.retention
    prune,      \* where the pruner is, and its locals
    purge       \* where the purge of a buffer is

vars == <<disk, bufs, inserted, rings, ringBytes, lru, retention, prune, purge>>
cacheVars == <<rings, ringBytes, lru>>

-----------------------------------------------------------------------------
(***************************************************************************)
(* Rows, cursors and rings.  A ring's entries are a set: their order is    *)
(* the cursor order.                                                       *)
(***************************************************************************)
Row(i, b, t, m) ==
    [id |-> i, buf |-> b, ts |-> t, msgid |-> m, body |-> "text", seq |-> inserted]

\* INTEGER PRIMARY KEY without AUTOINCREMENT: one more than the largest id in
\* use, so the id of a deleted newest row is given out again
NextRowId(ids) == Max(ids \cup {0}) + 1

CursorLess(x, y) == x.ts < y.ts \/ (x.ts = y.ts /\ x.id < y.id)

\* the order of a ring: a new entry goes behind those with the same cursor
Before(x, y) == CursorLess(x, y) \/ (~CursorLess(y, x) /\ x.seq < y.seq)

Oldest(S) == CHOOSE x \in S : \A y \in S : ~Before(y, x)

\* the n newest rows of S
NewestOf(S, n) == {x \in S : Cardinality({y \in S : Before(x, y)}) < n}

\* the n oldest rows of S
OldestOf(S, n) == {x \in S : Cardinality({y \in S : Before(y, x)}) < n}

\* msgBytes: an overhead, a text that a redaction replaces by a reason (none,
\* or one longer than the text), a msgid if there is one
MsgOverhead == 1
BodyBytes == [text |-> 1, blank |-> 0, reason |-> 2]
MsgBytes(m) == MsgOverhead + BodyBytes[m.body] + (IF m.msgid = NoId THEN 0 ELSE 1)
Bytes(S) == MapThenSumSet(MsgBytes, S)

EmptyRing == [msgs |-> {}, complete |-> TRUE, bytes |-> 0]

\* Mutants: an old message is put in front of a suffix; the ring grows to max + 1.
RingInsertAnywhere(r, m) ==
    LET grown == r.msgs \cup {m}
    IN  IF Cardinality(grown) > RingSize
          THEN [msgs |-> grown \ {Oldest(grown)}, complete |-> FALSE,
                bytes |-> r.bytes + MsgBytes(m) - MsgBytes(Oldest(grown))]
          ELSE [r EXCEPT !.msgs = grown, !.bytes = @ + MsgBytes(m)]

RingInsertOffByOne(r, m) ==
    IF ~r.complete /\ r.msgs # {} /\ CursorLess(m, Oldest(r.msgs)) THEN r
    ELSE LET grown == r.msgs \cup {m}
         IN  IF Cardinality(grown) > RingSize + 1
               THEN [msgs |-> grown \ {Oldest(grown)}, complete |-> FALSE,
                     bytes |-> r.bytes + MsgBytes(m) - MsgBytes(Oldest(grown))]
               ELSE [r EXCEPT !.msgs = grown, !.bytes = @ + MsgBytes(m)]

\* insert: refused below a suffix, over capacity the oldest goes
RingInsert(r, m) ==
    IF ~r.complete /\ r.msgs # {} /\ CursorLess(m, Oldest(r.msgs)) THEN r
    ELSE LET grown == r.msgs \cup {m}
         IN  IF Cardinality(grown) > RingSize
               THEN [msgs |-> grown \ {Oldest(grown)}, complete |-> FALSE,
                     bytes |-> r.bytes + MsgBytes(m) - MsgBytes(Oldest(grown))]
               ELSE [r EXCEPT !.msgs = grown, !.bytes = @ + MsgBytes(m)]

\* the ring without the entries a retention criterion or a byte limit drops
RingDrop(r, gone) ==
    IF gone = {} THEN r
    ELSE [msgs |-> r.msgs \ gone, complete |-> FALSE, bytes |-> r.bytes - Bytes(gone)]

\* trimToBytes: drop as few of the oldest as needed, never the newest
TrimToBytes(r, limit) ==
    LET drops == {n \in 0..(Cardinality(r.msgs) - 1) :
                     n = Cardinality(r.msgs) - 1
                       \/ r.bytes - Bytes(OldestOf(r.msgs, n)) <= limit}
    IN  IF r.msgs = {} THEN r ELSE RingDrop(r, OldestOf(r.msgs, Min(drops)))

\* applyRetention: first the age cutoff, then the newest maxPer of what is left
ApplyRetention(r, cutoff, maxPer) ==
    LET aged == RingDrop(r, {m \in r.msgs : cutoff > 0 /\ m.ts < cutoff})
    IN  IF maxPer > 0
          THEN RingDrop(aged, aged.msgs \ NewestOf(aged.msgs, maxPer))
          ELSE aged

\* Mutants: the ring misses a redaction; a msgid is stamped without its cost.
RingRedactMissed(r, m, body) == r

RingAdoptUncounted(r, i, m) ==
    LET hits == {x \in r.msgs : x.id = i}
    IN  IF hits = {} THEN r
        ELSE [r EXCEPT !.msgs = (@ \ {Oldest(hits)}) \cup {[Oldest(hits) EXCEPT !.msgid = m]}]

\* redact, adoptMsgID: the first entry that matches is rewritten
RingRedact(r, m, body) ==
    LET hits == {x \in r.msgs : x.msgid = m}
        new == [Oldest(hits) EXCEPT !.body = body]
    IN  IF hits = {} THEN r
        ELSE [r EXCEPT !.msgs = (@ \ {Oldest(hits)}) \cup {new},
                       !.bytes = @ + MsgBytes(new) - MsgBytes(Oldest(hits))]

RingAdopt(r, i, m) ==
    LET hits == {x \in r.msgs : x.id = i}
        new == [Oldest(hits) EXCEPT !.msgid = m]
    IN  IF hits = {} THEN r
        ELSE [r EXCEPT !.msgs = (@ \ {Oldest(hits)}) \cup {new},
                       !.bytes = @ + MsgBytes(new) - MsgBytes(Oldest(hits))]

\* pageBefore and pageAfter: the page, and whether the ring alone can answer
PageOf(S, c, limit, after) ==
    IF after THEN OldestOf({m \in S : CursorLess(c, m)}, limit)
             ELSE NewestOf({m \in S : CursorLess(m, c)}, limit)

\* Mutant: any non-empty ring answers an After page.
AuthoritativeNonEmpty(r, c, limit, after) ==
    \/ r.complete
    \/ after /\ r.msgs # {}
    \/ ~after /\ Cardinality(PageOf(r.msgs, c, limit, FALSE)) = limit

Authoritative(r, c, limit, after) ==
    \/ r.complete
    \/ after /\ r.msgs # {} /\ ~CursorLess(c, Oldest(r.msgs))
    \/ ~after /\ Cardinality(PageOf(r.msgs, c, limit, FALSE)) = limit

-----------------------------------------------------------------------------
(***************************************************************************)
(* The caches: a state of them is a record, so that the operations of one  *)
(* hold of the lock compose.                                               *)
(***************************************************************************)
RowsOf(i) == {m \in disk : m.buf = i}

Cache == [rings |-> rings, total |-> ringBytes, lru |-> lru]

SetCache(c) == rings' = c.rings /\ ringBytes' = c.total /\ lru' = c.lru

Without(f, S) == [x \in DOMAIN f \ S |-> f[x]]

Touch(c, b) == [c EXCEPT !.lru = Append(SelectSeq(@, LAMBDA x : x # b), b)]

PutRing(c, b, r) ==
    [c EXCEPT !.rings = [x \in DOMAIN @ \cup {b} |-> IF x = b THEN r ELSE @[x]],
              !.total = @ + r.bytes - (IF b \in DOMAIN c.rings THEN c.rings[b].bytes ELSE 0)]

DropRings(c, S) ==
    [rings |-> Without(c.rings, S),
     total |-> c.total - MapThenSumSet(LAMBDA b : c.rings[b].bytes, S \cap DOMAIN c.rings),
     lru |-> SelectSeq(c.lru, LAMBDA x : x \notin S)]

\* evictRings: the least recently used rings other than keep go, as few as
\* bring the total within the budget; when none is left, keep is trimmed
Evict(c, keep) ==
    LET others == SelectSeq(c.lru, LAMBDA x : x # keep)
        enough == {n \in 0..Len(others) :
                      n = Len(others)
                        \/ DropRings(c, {others[i] : i \in 1..n}).total <= MaxRingBytes}
        d == DropRings(c, {others[i] : i \in 1..Min(enough)})
    IN  IF d.total > MaxRingBytes /\ keep \in DOMAIN d.rings
          THEN PutRing(d, keep, TrimToBytes(d.rings[keep], MaxRingBytes))
          ELSE d

\* bufferAndRing's warm-up: the newest rows, cut short by the byte budget
WarmLimit == Min({RingSize + 1, (MaxRingBytes \div MsgOverhead) + 1})

WarmRing(i) ==
    LET newest == NewestOf(RowsOf(i), WarmLimit)
        stops == {n \in 1..Cardinality(newest) : Bytes(NewestOf(newest, n)) >= MaxRingBytes}
        scanned == IF stops = {} THEN newest ELSE NewestOf(newest, Min(stops))
        kept == IF Cardinality(scanned) > RingSize THEN NewestOf(scanned, RingSize) ELSE scanned
    IN  [msgs |-> kept, bytes |-> Bytes(kept),
         complete |-> stops = {} /\ Cardinality(scanned) < WarmLimit]

\* Mutant: a warm-up does not enforce the budget.
ResolveNoEvict(i) ==
    IF i \in DOMAIN rings THEN Touch(Cache, i) ELSE Touch(PutRing(Cache, i, WarmRing(i)), i)

\* bufferAndRing on an existing buffer: a touch, or a warm-up that may evict
Resolve(i) ==
    IF i \in DOMAIN rings THEN Touch(Cache, i)
    ELSE Evict(Touch(PutRing(Cache, i, WarmRing(i)), i), i)

-----------------------------------------------------------------------------
NoPrune == [at |-> "idle", cutoff |-> 0, maxPer |-> 0, appliedCutoff |-> 0, appliedMax |-> 0,
            n |-> 0, todo |-> {}, buf |-> 0, keep |-> NoId]
NoPurge == [at |-> "idle", name |-> NoId, buf |-> 0]

Init ==
    /\ disk = {} /\ bufs = <<>> /\ inserted = 0
    /\ rings = <<>> /\ ringBytes = 0 /\ lru = <<>>
    /\ retention \in [days : DaysChoices, maxPer : MaxChoices]
    /\ prune = NoPrune /\ purge = NoPurge

\* bufferAndRing: a buffer is created on demand, in a statement of its own, with
\* a ring that is all of its history
BufferId(b) == IF b \in DOMAIN bufs THEN bufs[b] ELSE NextRowId(Range(bufs))

BufferAndRing(b) ==
    LET i == BufferId(b)
    IN  IF b \in DOMAIN bufs THEN Resolve(i) ELSE Touch(PutRing(Cache, i, EmptyRing), i)

\* append and commitAppendLocked: a row with a known msgid is not stored again;
\* the ring is updated after the commit, then the budget is enforced
AppendMsg(b, t, m) ==
    /\ inserted < MaxRows
    /\ LET i == BufferId(b)
           c == BufferAndRing(b)
           row == Row(NextRowId({x.id : x \in disk}), i, t, m)
           dup == m # NoId /\ \E x \in RowsOf(i) : x.msgid = m
       IN  /\ bufs' = (b :> i) @@ bufs
           /\ IF dup
                THEN SetCache(c) /\ UNCHANGED <<disk, inserted>>
                ELSE /\ disk' = disk \cup {row}
                     /\ inserted' = inserted + 1
                     /\ SetCache(Evict(PutRing(c, i, RingInsert(c.rings[i], row)), i))
    /\ UNCHANGED <<retention, prune, purge>>

\* the insert or its commit fails: the message is gone, the buffer and its ring stay
AppendFails(b) ==
    /\ BufferId(b) <= MaxRows
    /\ bufs' = (b :> BufferId(b)) @@ bufs
    /\ SetCache(BufferAndRing(b))
    /\ UNCHANGED <<disk, inserted, retention, prune, purge>>

\* Before, After, Latest: reading a page warms the ring
ReadPage(b) ==
    /\ b \in DOMAIN bufs
    /\ SetCache(Resolve(bufs[b]))
    /\ UNCHANGED <<disk, bufs, inserted, retention, prune, purge>>

\* the resident ring of a changed row: rewritten, touched, the budget enforced
Rewrite(i, r) ==
    IF i \in DOMAIN rings THEN SetCache(Evict(Touch(PutRing(Cache, i, r), i), i))
                          ELSE UNCHANGED cacheVars

\* SetRedacted
Redact(row, body) ==
    /\ row.msgid # NoId /\ row.body = "text"
    /\ disk' = (disk \ {row}) \cup {[row EXCEPT !.body = body]}
    /\ Rewrite(row.buf, RingRedact(rings[row.buf], row.msgid, body))
    /\ UNCHANGED <<bufs, inserted, retention, prune, purge>>

\* Mutant: the buffer is not searched for the msgid first.
AdoptOwnMsgIDTwice(row, m) ==
    /\ row.msgid = NoId
    /\ disk' = (disk \ {row}) \cup {[row EXCEPT !.msgid = m]}
    /\ Rewrite(row.buf, RingAdopt(rings[row.buf], row.id, m))
    /\ UNCHANGED <<bufs, inserted, retention, prune, purge>>

\* AdoptOwnMsgID: a msgid-less row gets the msgid of its replayed copy, unless
\* the buffer already has it
AdoptOwnMsgID(row, m) ==
    /\ row.msgid = NoId
    /\ ~\E x \in RowsOf(row.buf) : x.msgid = m
    /\ disk' = (disk \ {row}) \cup {[row EXCEPT !.msgid = m]}
    /\ Rewrite(row.buf, RingAdopt(rings[row.buf], row.id, m))
    /\ UNCHANGED <<bufs, inserted, retention, prune, purge>>

\* SetRetention: the live policy changes; a running prune keeps its own copy
SetRetention(days, maxPer) ==
    /\ retention' = [days |-> days, maxPer |-> maxPer]
    /\ retention' # retention
    /\ UNCHANGED <<disk, bufs, inserted, cacheVars, prune, purge>>

-----------------------------------------------------------------------------
(***************************************************************************)
(* pruneOnce.                                                              *)
(***************************************************************************)
pruneFrame == <<bufs, inserted, cacheVars, retention, purge>>

\* the policy is read once; which dimension runs first depends on it
PruneStart ==
    /\ prune.at = "idle" /\ (retention.days > 0 \/ retention.maxPer > 0)
    /\ prune' = [NoPrune EXCEPT
                    !.at = IF retention.days > 0 THEN "age" ELSE "list",
                    !.maxPer = retention.maxPer,
                    !.cutoff = IF retention.days > 0 THEN Now - retention.days ELSE 0]
    /\ UNCHANGED <<disk, pruneFrame>>

\* Mutant: the live policy is not looked at again.
AgeGuardStale == TRUE

AgeGuard == retention.days > 0 /\ prune.cutoff <= Now - retention.days

\* a chunk removes any PruneChunk of the matching rows, or all when fewer are left
Chunks(S) == {D \in SUBSET S : Cardinality(D) = Min({PruneChunk, Cardinality(S)})}

AfterAge(p) == [p EXCEPT !.appliedCutoff = p.cutoff, !.n = 0,
                         !.at = IF p.maxPer > 0 THEN "list" ELSE "reconcile"]

\* pruneByAge: one chunk, or the end because the live policy was loosened
AgeChunk ==
    /\ prune.at = "age"
    /\ IF ~AgeGuard
         THEN prune' = AfterAge(prune) /\ UNCHANGED disk
         ELSE \E D \in Chunks({m \in disk : m.ts < prune.cutoff}) :
                /\ disk' = disk \ D
                /\ prune' = IF Cardinality(D) < PruneChunk THEN AfterAge(prune)
                            ELSE [prune EXCEPT !.n = @ + Cardinality(D)]
    /\ UNCHANGED pruneFrame

\* Mutant: a failed prune leaves the rings alone.
AgeFailsUnapplied ==
    /\ prune.at = "age"
    /\ prune' = [prune EXCEPT !.at = "reconcile"]
    /\ UNCHANGED <<disk, pruneFrame>>

\* a chunk's DELETE fails: the criterion counts as applied if rows are gone
AgeFails ==
    /\ prune.at = "age"
    /\ prune' = [prune EXCEPT !.at = "reconcile",
                              !.appliedCutoff = IF prune.n > 0 THEN prune.cutoff ELSE 0]
    /\ UNCHANGED <<disk, pruneFrame>>

\* pruneByCount: the buffers are listed once
CountList ==
    /\ prune.at = "list"
    /\ prune' = [prune EXCEPT !.at = "pick", !.todo = Range(bufs)]
    /\ UNCHANGED <<disk, pruneFrame>>

\* Mutant: the live cap is not looked at again.
CountGuardStale == TRUE

CountGuard == retention.maxPer > 0 /\ retention.maxPer <= prune.maxPer

\* the next buffer, if the live cap still allows this prune
CountPick ==
    /\ prune.at = "pick"
    /\ IF prune.todo = {} \/ ~CountGuard
         THEN prune' = [prune EXCEPT !.at = "reconcile", !.appliedMax = prune.maxPer]
         ELSE \E b \in prune.todo :
                prune' = [prune EXCEPT !.at = "cursor", !.todo = @ \ {b}, !.buf = b]
    /\ UNCHANGED <<disk, pruneFrame>>

\* the cursor of the last row to keep, read in a hold of the lock of its own
CountCursor ==
    /\ prune.at = "cursor"
    /\ LET newest == NewestOf(RowsOf(prune.buf), prune.maxPer)
       IN  prune' = IF Cardinality(newest) < prune.maxPer
                      THEN [prune EXCEPT !.at = "pick"]
                      ELSE [prune EXCEPT !.at = "count", !.keep = Oldest(newest)]
    /\ UNCHANGED <<disk, pruneFrame>>

CountChunk ==
    /\ prune.at = "count"
    /\ IF ~CountGuard
         THEN prune' = [prune EXCEPT !.at = "pick"] /\ UNCHANGED disk
         ELSE \E D \in Chunks({m \in RowsOf(prune.buf) : CursorLess(m, prune.keep)}) :
                /\ disk' = disk \ D
                /\ prune' = [prune EXCEPT !.n = @ + Cardinality(D),
                                          !.at = IF Cardinality(D) < PruneChunk THEN "pick" ELSE "count"]
    /\ UNCHANGED pruneFrame

\* Mutant: a failed prune leaves the rings alone.
CountFailsUnapplied ==
    /\ prune.at \in {"list", "cursor", "count"}
    /\ prune' = [prune EXCEPT !.at = "reconcile"]
    /\ UNCHANGED <<disk, pruneFrame>>

CountFails ==
    /\ prune.at \in {"list", "cursor", "count"}
    /\ prune' = [prune EXCEPT !.at = "reconcile",
                              !.appliedMax = IF prune.n > 0 THEN prune.maxPer ELSE 0]
    /\ UNCHANGED <<disk, pruneFrame>>

\* the deferred reconcileRings, with the criteria that count as applied
ReconcileRings ==
    /\ prune.at = "reconcile"
    /\ LET trimmed == [b \in DOMAIN rings |->
                         ApplyRetention(rings[b], prune.appliedCutoff, prune.appliedMax)]
       IN  /\ rings' = trimmed
           /\ ringBytes' = ringBytes
                 + MapThenSumSet(LAMBDA b : trimmed[b].bytes - rings[b].bytes, DOMAIN rings)
    /\ prune' = NoPrune
    /\ UNCHANGED <<disk, bufs, inserted, lru, retention, purge>>

-----------------------------------------------------------------------------
(***************************************************************************)
(* DeleteBufferFolded: the rows go chunk by chunk, the ring is dropped,    *)
(* then the buffer row goes and its remaining rows with it.                *)
(***************************************************************************)
PurgeStart(b) ==
    /\ Purges /\ purge.at = "idle" /\ b \in DOMAIN bufs
    /\ purge' = [at |-> "chunk", name |-> b, buf |-> bufs[b]]
    /\ UNCHANGED <<disk, bufs, inserted, cacheVars, retention, prune>>

PurgeChunk ==
    /\ purge.at = "chunk"
    /\ \E D \in Chunks(RowsOf(purge.buf)) :
         /\ disk' = disk \ D
         /\ purge' = IF Cardinality(D) < PruneChunk THEN [purge EXCEPT !.at = "ring"] ELSE purge
    /\ UNCHANGED <<bufs, inserted, cacheVars, retention, prune>>

\* a chunk fails, or the loop is done: the ring is dropped either way
PurgeRing ==
    /\ purge.at \in {"chunk", "ring"}
    /\ SetCache(DropRings(Cache, {purge.buf}))
    /\ purge' = IF purge.at = "ring" THEN [purge EXCEPT !.at = "row"] ELSE NoPurge
    /\ UNCHANGED <<disk, bufs, inserted, retention, prune>>

\* the buffer row goes, with what was appended meanwhile
PurgeRow ==
    /\ purge.at = "row"
    /\ disk' = disk \ RowsOf(purge.buf)
    /\ bufs' = Without(bufs, {purge.name})
    /\ SetCache(DropRings(Cache, {purge.buf}))
    /\ purge' = NoPurge
    /\ UNCHANGED <<inserted, retention, prune>>

\* its DELETE fails: what was appended meanwhile stays
PurgeRowFails ==
    /\ purge.at = "row"
    /\ purge' = NoPurge
    /\ UNCHANGED <<disk, bufs, inserted, cacheVars, retention, prune>>

\* the process ends and starts again: only the tables survive
Restart ==
    /\ rings' = <<>> /\ ringBytes' = 0 /\ lru' = <<>>
    /\ prune' = NoPrune /\ purge' = NoPurge
    /\ UNCHANGED <<disk, bufs, inserted, retention>>

PrunerStep == PruneStart \/ AgeChunk \/ AgeFails \/ CountList \/ CountPick \/ CountCursor
                \/ CountChunk \/ CountFails \/ ReconcileRings
PurgeStep == (\E b \in Buffers : PurgeStart(b)) \/ PurgeChunk \/ PurgeRing \/ PurgeRow \/ PurgeRowFails

Next ==
    \/ \E b \in Buffers, t \in Times, m \in MsgIds \cup {NoId} : AppendMsg(b, t, m)
    \/ \E b \in Buffers : AppendFails(b)
    \/ \E b \in Buffers : ReadPage(b)
    \/ \E row \in disk, body \in {"blank", "reason"} : Redact(row, body)
    \/ \E row \in disk, m \in MsgIds : AdoptOwnMsgID(row, m)
    \/ \E d \in DaysChoices, n \in MaxChoices : SetRetention(d, n)
    \/ PrunerStep
    \/ PurgeStep
    \/ Restart

Spec == Init /\ [][Next]_vars

-----------------------------------------------------------------------------
(***************************************************************************)
(* Properties.                                                             *)
(***************************************************************************)
Rings == DOMAIN rings

\* The caches hold what their types say; every resident ring belongs to a
\* buffer and stands in the LRU order once; no two rows of a buffer share a
\* msgid (the unique index insertTx and AdoptOwnMsgID rely on).
TypeOK ==
    /\ IsInjective(bufs) /\ Rings \subseteq Range(bufs)
    /\ ToSet(lru) = Rings /\ Len(lru) = Cardinality(Rings)
    /\ \A i \in Rings : Cardinality(rings[i].msgs) <= RingSize
    /\ \A x, y \in disk : (x # y /\ x.buf = y.buf /\ x.msgid # NoId) => x.msgid # y.msgid
    /\ retention.days \in DaysChoices /\ retention.maxPer \in MaxChoices

\* ring.go:33-35 and 91-98: a resident ring is a contiguous newest suffix of its
\* buffer's rows, all of them when it is complete.
NewestSuffix ==
    \A i \in Rings : \A m \in RowsOf(i) :
        (rings[i].complete \/ (rings[i].msgs # {} /\ ~CursorLess(m, Oldest(rings[i].msgs))))
            => \E x \in rings[i].msgs : x.id = m.id /\ x.ts = m.ts

Quiet == prune.at = "idle" /\ purge.at = "idle"
Cursors == [ts : 0..(Now + 1), id : 0..(MaxRows + 1)]

\* Store.Before/After: while no prune or purge is between two chunks, a page
\* that the ring answers alone is the page the table would give, redactions
\* and msgids included.
PagesAgree ==
    Quiet => \A i \in Rings : \A c \in Cursors : \A limit \in 1..MaxRows : \A after \in BOOLEAN :
        Authoritative(rings[i], c, limit, after)
            => PageOf(rings[i].msgs, c, limit, after) = PageOf(RowsOf(i), c, limit, after)

\* prune.go:400-404: once a prune or purge is over, no ring still holds a row (or a
\* version of a row) that the table no longer has.
NothingDeletedServed == Quiet => \A i \in Rings : rings[i].msgs \subseteq RowsOf(i)

\* Store.ringBytes is the cost of what is resident, whatever mixture of
\* inserts, rewrites, trims, drops and evictions led here.
BytesExact ==
    /\ ringBytes = MapThenSumSet(LAMBDA i : Bytes(rings[i].msgs), Rings)
    /\ \A i \in Rings : rings[i].bytes = Bytes(rings[i].msgs)

\* evictRings: the budget holds after every operation, except that one ring
\* may keep a single message larger than it.
WithinBudget ==
    ringBytes <= MaxRingBytes \/ \E i \in Rings : Rings = {i} /\ Cardinality(rings[i].msgs) = 1

Prunable(m) ==
    \/ retention.days > 0 /\ m.ts < Now - retention.days
    \/ retention.maxPer > 0 /\ m \notin NewestOf(RowsOf(m.buf), retention.maxPer)

\* prune.go:235-242 and 334-336: a prune never removes a row that the policy in
\* force at that moment keeps, though it runs on the policy it read at its start.
PruneWithinPolicy == [][prune' # prune => \A m \in disk \ disk' : Prunable(m)]_vars

=============================================================================
