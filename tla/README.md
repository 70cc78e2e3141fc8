# ircthing: TLA+ models and proofs

ircthing is a self-hosted, always-connected web IRC client: one Go process keeps
the IRC connections, stores history in SQLite and serves a web client over a
WebSocket. This directory models parts of it in TLA+, checks the models with TLC
on small instances and proves theorems about one of them with TLAPS.

Paths below are relative to `src/internal/` unless they start with `web/` or `cmd/`.

## What is here

| Module | Models | Checked by |
|---|---|---|
| `SendQueue` | the outbound half of a connection (`irc/manager.go`) | runs `send_*`, proofs in `SendQueueProofs` |
| `RingCache` | the store's in-memory rings, retention and purges (`store/`) | runs `ring_*` |
| `BufferClose` | closing a buffer while traffic for it is in flight (`hub/`, `store/`) | runs `close_*` |

`MCSendQueue`, `MCRingCache` and `MCBufferClose` give the constants values for TLC.
`PROJECT.json` maps every definition to the source lines it stands for, and lists
the runs, the mutants that show each property can fail, the hazards and the findings.
A definition marked `\* Mutant:` is a deliberately wrong variant and is not part of
any specification.

## Inventory

| Part | State | Operations | What is hard about it | Modelled |
|---|---|---|---|---|
| Send path and connection lifecycle (`irc/manager.go`) | send queue, two lanes per connection, rejoin set, contexts | connect, register, rejoin, send, write, stop | the queue outlives a connection; writers are not joined; random choice in `select` | `SendQueue` |
| Registration and SASL (`irc/handshake.go`, `sasl.go`, `scram.go`) | phase, offered and acknowledged capabilities, mechanism, nick | CAP LS/ACK/NAK, AUTHENTICATE, 001, nick in use | replies in any order, fallbacks | no |
| STS (`irc/sts.go`, `store/sts.go`) | local policy with revision and epoch, stored record | load, apply, reschedule | failed writes; two networks on one hostname | no |
| MONITOR (`irc/manager.go`, `store/monitor.go`) | active set, learned limit, rebuild flag, generation | reconcile, 734 | a 734 names no command | no |
| Roster and lazy NAMES (`irc/roster.go`) | members per channel | JOIN, PART, NICK, MODE, NAMES | a NAMES list built up while members change | no |
| Join intent and keys (`irc/manager.go`) | rejoin set, keys | self JOIN, PART, KICK, errors | a key is noted before the JOIN is answered | set only |
| Multiline, ISUPPORT, framing, backoff, rate limit (`irc/`) | small per-connection values | parse, delay | limits that shrink while lines wait | no |
| Hub event loop (`hub/hub.go`) | open history batches, page counts, gates | persist and publish events, backfill | what counts as replay decides what is published | persist path only |
| Buffer close (`hub/networks.go`, `hub/hub.go`) | buffer rows, tombstones, mutex | close, archive, append | a close races lines already in flight | `BufferClose` |
| Sessions (`hub/session.go`) | bounded queues, byte budgets | push, evict, disconnect, release | a slow client must not stall the others | no |
| Network lifecycle (`hub/networks.go`, `store/netconfigs.go`) | definitions, running networks | put, delete, restart, roll back | storage and runtime change in separate steps | no |
| Push (`hub/push.go`, `store/push.go`, `api/push.go`, `webpush/`) | pending pushes, job queue, epochs | admit, cancel, fire, deliver | a job in a worker's hands outlives the reason for it | no |
| Message store (`store/`) | tables, rings, byte budget, retention | append, page, redact, prune, purge | locks given up between chunks | `RingCache` |
| Markers and settings (`store/`) | read markers, key-value rows | set, read | monotone under late updates | no |
| Migrations (`store/migrate.go`) | schema version | migrate | a stop between two steps | no |
| Login and tokens (`api/api.go`, `loginlimit.go`, `password.go`) | tokens, cancel registries, login counters | log in, log out, register a socket, drain | revocation against registration | no |
| Media, previews, thumbnails (`api/`) | TTL cache, slots | fetch, cache | mostly I/O | no |
| Dialers and address checks (`wgdial`, `proxydial`, `netguard`) | none of interest | dial, classify | I/O | no |
| Configuration parsing (`netconf`, `irc/config.go`) | none | parse, validate | data | no |
| Start-up (`cmd/ircd-web/main.go`) | seeding decision, started rows | seed, start, reset password | the runtime cap across pages | no |
| Web client (`web/src/`) | buffers, pending sends, preferences | merge, reconnect | late replies after broadcasts | sidebar only |

## SendQueue

One goroutine runs `Run`/`runOnce` (`phase`), one writer (`wpc`) and one closer belong
to each connection, and any goroutine may call `SendAll`. `m.out` is shared by all
connections; `urgent` and `internal` belong to one. A line carries the number of the
connection that was current when it was queued. The three selects of `nextOutbound`
are `Poll1`, `Poll2` and `Select`; a writer parked in the last one is handed a line
directly, as Go's channels do. The token bucket is a writer that may wait in `write`.

The Run goroutine sends on the two lanes through a `select` with the connection's
context: `sending` is the line it is blocked on, `LaneSend` takes the lane and
`LaneSendGivesUp` the ended context. While it is blocked there it reads nothing. A
line the server had sent before the socket was closed is still read and handled, so
no read-loop action asks for an open socket; `ReadFail` may end the loop at any read.

`runOnce` does not wait for its writer, and neither does the model: the writer of an
ended connection may stay unscheduled until after the next registration. Having passed
its polls it may then take a line accepted for the new connection, and writes it on
its own socket or loses it there (`send_own`).

| Run | Shows | Instance |
|---|---|---|
| `send_lanes` | `TypeOK`, `AtMostOneOvertakes`, `SentInOrder`, `RejoinNeverWaits`, `Quiesces` (liveness) | one connection, one channel, a batch of two (one of three is refused), two lines read |
| `send_linger` | `NoStaleDelivery`, `AtMostOneStray`, `Quiesces` (liveness) | two connections, a batch of two |
| `send_own` | violated: `OwnConnectionOnly` | two connections, a batch of two |
| `send_overtake` | violated: `JoinsBeforeUserMessages` | one connection, one channel |

Two connections are the least that let one meet the next; a batch of two is the least
in which more than one line could overtake a JOIN or be diverted. Two lines read are
the least that fill a lane of one and block the read loop on it. `SentInOrder` is
about one connection: with two, a lingering writer may take the head of a batch, and
the rest is then sent without it. `RejoinNeverWaits` is about at most `InternalCap`
waiting handshake lines; the code's headroom is 16. `MaxReads` bounds the lines one
connection handles; in `send_linger` none are, so its states stay few enough for the
liveness check.

Fairness: each writer and each closer is weakly fair, because a write has a deadline
and the closer waits at most `quitTimeout`. The Run goroutine is weakly fair except
while it waits for the peer on an open socket (`AwaitsPeer`): nothing is assumed about
when, or whether, the server sends a line. That `Quiesces` holds all the same is due
to the closer, and to the context among the cases of every `select`.

### Proofs

`SendQueueProofs` proves, for all values of the constants allowed by
`BoundsAssumption` and `ChannelsAssumption`:

* `TypeCorrect`: `Spec => []TypeOK`;
* `NeverConsumedByTheNext`: `Spec => []NoStaleDelivery`;
* `OldWriterDivertsAtMostOne`: `Spec => []AtMostOneStray`.

`NoStaleDelivery` speaks of lines on the wire and is not inductive: one must know what
the queues and the writers hold. `IInv` adds that `m.out` holds only lines of the
current connection (`OutInv`; `StartConn` empties it before a new number is used),
that each lane and `sending` hold their own connection's lines (`LaneInv`,
`SendingInv`) and that a writer holds only a line it may write and none runs for a
connection not yet started (`WriterInv`). `PhaseInv` ties `registered` to the phase.

`AtMostOneStray` rests on two more invariants. `LiveInv`: only the current
connection's context can be live, and a parked writer's is. `StrayInv`: a writer that
holds a line of a later connection has an ended context and none such on its wire yet,
and one that has written such a line is back at the first poll, in a write or ending.
With an ended context a writer gets past no poll, so it never reaches the select that
reads `m.out` again. `Invariance` and the two invariants have one step per action. The
ordering properties, `RejoinNeverWaits` and the liveness property are only
model-checked; liveness under fairness is out of the prover's reach.

## RingCache

`disk` is the messages table, `rings` the resident rings. Each action is one hold of
`Store.mu`; the pruner and a purge give it up between chunks, and their locals are in
`prune` and `purge`. Row ids are given out again after the newest row is deleted, as
SQLite does without AUTOINCREMENT. A message's cost is a small number that depends on
its text, its redaction and its msgid. An append whose insert fails leaves the buffer
row and the ring it created or warmed. The cap on a network's buffers, which refuses a
new buffer, is left out: it would need thousands of them. `MaxRows` bounds the
messages inserted and the ids failing appends take; deletions never free the bound, so
a behaviour has finitely many insertions.

| Run | Shows | Instance |
|---|---|---|
| `ring_count` | `NewestSuffix`, `PagesAgree`, `NothingDeletedServed`, `PruneWithinPolicy` | one buffer, four rows in any order, count retention changed and failing mid-prune |
| `ring_aging` | `NothingDeletedServed`, `PruneWithinPolicy` | the same with age retention |
| `ring_budget` | `TypeOK`, `PagesAgree`, `BytesExact`, `WithinBudget` | two buffers, failing appends, redactions, msgids, purges, a budget of five |
| `ring_age` | violated: `NewestSuffix` | age retention |

Rings of two or three rows and chunks of one or two make every boundary (full ring,
short chunk, exhausted budget) occur within three or four rows. The runs split the
features, and two restrictions are there because the property fails beyond them:

* `NewestSuffix` and `PagesAgree` are not claimed under age retention, where `ring_age`
  finds a hole;
* `NothingDeletedServed` is checked under each limit alone. With both limits on, TLC
  finds it violated: the hole lets a row into the ring that the count prune deletes on
  disk and the trimmed ring keeps.

No passing run has one prune apply both limits, or retention together with msgids and
purges; so redactions do not fall between the chunks of a prune. `PagesAgree` and `NothingDeletedServed` are stated between prunes and purges,
since the code accepts stale rings between chunks.

## BufferClose

The hub's consumer and a session storing its own message (`writer`), the sessions
serving `close_buffer` (`closer`) and one client (`shown`). `bufferMutationMu` is
`mutex`. Tombstones are a sequence, oldest first; their grace may end at any time,
which also stands for the byte cap on them. A failing append may leave the row it
created. A row that an event adds to the sidebar is ephemeral (`fresh`) until a buffer
list names it, and a list that does not name it leaves it alone. Lists cut short by
the response limit, which drop nothing, do not occur with so few names.

| Run | Shows | Instance |
|---|---|---|
| `close_traffic` | `TypeOK`, `ClosedStaysClosed`, `ReopenedByTalk`, `RowsBelong`, `PurgesOnlyItsBuffer` | one closer, one channel, one query, three inserts, `get_buffers` |
| `close_closers` | `ClosedStaysClosed`, `NoPhantom`, `RowsBelong`, `CloseAnswers` (liveness) | two closers, two inserts, no `get_buffers` |
| `close_refresh` | violated: `NoPhantom` | one closer, `get_buffers` |
| `close_reuse` | violated: `PurgesOnlyItsBuffer` | two closers |

`NoPhantom` holds without `get_buffers` and `PurgesOnlyItsBuffer` with a single closer;
the two violated runs show that neither restriction can be lifted. The bound on inserts
ends the traffic, so `CloseAnswers` is about closes that compete with each other and
with two inserts, not with endless traffic. Fairness: every
goroutine is weakly fair; taking the mutex is strongly fair, because Go's `sync.Mutex`
hands itself to a waiter that has starved for a millisecond.

## Disagreements met while modelling

* `ring_age`: after an age prune empties a ring, an older row that arrives late is
  taken in although newer rows may be on disk only, so the ring has a hole. With both
  retention limits on, a row deleted on disk is then still served from memory.
* `send_overtake`: one user line can precede a queued rejoin JOIN, because both may
  arrive between the writer's second poll and its final select. `send_lanes` shows
  that it is never more than one.
* `close_reuse`: a bulk purge runs by row id without the mutex; after a second close
  of the same buffer the id may belong to another one, whose messages are deleted.
* `close_refresh`: a buffer list read before a close and delivered after it shows the
  closed buffer again until the next refresh.
* `send_own`: a line accepted for a connection can go to the previous connection's
  writer, which writes it on the old socket or loses it. `send_linger` and
  `OldWriterDivertsAtMostOne` bound this by one line for each old writer.

## Plan

In this order; each module gets its runs and, where marked (P), proofs.

1. `StsPolicy` (P): two managers of one hostname and the stored record. A verified
   policy is not dropped for an older one; abstract specification: a register with
   compare-and-swap on the revision.
2. `SessionQueue` (P): byte accounting equals what is queued or owned by a writer, the
   budgets hold, an evicted session's frames are released once.
3. `AuthSession` (P): no socket or stream outlives its token's deletion.
4. `Monitor` (P): after the replies to what was sent have arrived, the server's list
   equals the active set; a 734 causes finitely many rebuilds.
5. `Pusher`: nothing redacted, closed or archived before the final re-check is sent.
6. `NetworkLifecycle`: a network runs only under its stored definition, or is shown as
   stopped, after any failure.
7. `Handshake`, `Roster`, `JoinIntent`: registration ends; the roster follows the
   server's membership; what is rejoined is what the user is in.
8. `HubSync`: registration burst, MOTD gate, backfill pages, history batches, composed
   with `BufferClose`'s persist path.
9. Backoff, token bucket, login limiter and TTL cache as functions against reference
   definitions; read markers; migrations; start-up under the runtime cap.
10. Web client: reconnect, pending sends, preference sync.
11. Proofs for `BufferClose` (`RowsBelong` and `ClosedStaysClosed`, with mutual exclusion
    as the strengthening) and the byte accounting of `RingCache`.

## Not modelled

Media proxying, thumbnails and previews, the dialers and address checks, configuration
parsing, full-text search and vacuuming are I/O or pure data handling with no protocol
of their own. Everything else in the inventory marked "no" is in the plan.

Within the modelled parts: `SendQueue` leaves out what `runOnce` resets for other parts
(roster, NAMES, channel keys, MONITOR), STS and the keys `sendAll` notes; `BufferClose`
leaves out push candidates and cancels and treats a name as its folded form; `RingCache`
leaves out search, vacuuming and the listing queries. The three modules stand for about
2,400 of the 36,600 lines of Go and JavaScript, about 7 %.
