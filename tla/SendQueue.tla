----------------------------- MODULE SendQueue -----------------------------
(***************************************************************************)
(* The outbound half of one network connection (internal/irc/manager.go):  *)
(* the reconnect loop Run/runOnce, the send queue m.out shared by every     *)
(* connection, the two lanes (urgent, internal) of each connection, its    *)
(* writer goroutine with the staged select of nextOutbound, the goroutine  *)
(* that closes the socket, and the callers of Send/SendAll.                 *)
(*                                                                         *)
(* Actors: the Run goroutine (phase), one writer per connection (wpc), one *)
(* closer per connection, the callers of SendAll, the owner of the         *)
(* network's context (Stop).  runOnce does not wait for its writer, so the *)
(* writer of an earlier connection may still run beside the current one.   *)
(***************************************************************************)
EXTENDS Naturals, Sequences, FiniteSets

CONSTANTS
    Channels,     \* channel names
    OutCap,       \* cap(m.out), 512 in the code
    InternalCap,  \* headroom of the internal lane, 16 in the code
    UrgentCap,    \* cap(urgent), 8 in the code
    MaxBatch,     \* longest batch one SendAll call queues
    MaxConns,     \* bound: calls of runOnce
    MaxAccepts,   \* bound: batches accepted over the whole behaviour
    MaxReads      \* bound: lines (or silences) one connection's read loop handles

ASSUME BoundsAssumption ==
    /\ OutCap \in Nat \ {0} /\ InternalCap \in Nat \ {0} /\ UrgentCap \in Nat \ {0}
    /\ MaxBatch \in Nat \ {0} /\ MaxConns \in Nat \ {0}
    /\ MaxAccepts \in Nat /\ MaxReads \in Nat

ASSUME ChannelsAssumption == IsFiniteSet(Channels)

VARIABLES
    conn,        \* number of the current (or last) runOnce call, 0 before the first
    phase,       \* where the Run goroutine is
    registered,  \* m.registered
    parentDone,  \* the network's context has ended (StopNetwork or shutdown)
    out,         \* m.out, shared by all connections
    joined,      \* m.joined: the channels to rejoin
    todo,        \* rejoins still to be queued by this runOnce
    icap,        \* capacity of this connection's internal lane
    accepts,     \* batches accepted so far
    reads,       \* lines (or silences) this connection's read loop has handled
    sending,     \* the line the Run goroutine is sending on a lane, or NoLine
    urgent, internal,  \* the lanes of each connection
    cctx,        \* each connection's context: none, live, or the cause of its end
    sock,        \* each connection's socket
    wpc, wmsg,   \* each connection's writer and the message it holds
    wire,        \* lines written on each connection
    overlong     \* lines the writers dropped because LINELEN had shrunk

runVars == <<conn, phase, registered, joined, todo, icap, reads, sending>>
writerVars == <<wpc, wmsg>>
laneVars == <<urgent, internal>>
vars == <<conn, phase, registered, parentDone, out, joined, todo, icap, accepts,
          reads, sending, urgent, internal, cctx, sock, wpc, wmsg, wire, overlong>>

Conns == 1..MaxConns

(***************************************************************************)
(* A line is its lane, the connection it was queued for and enough to tell *)
(* it from the others: the batch and place of a user line, the channel of  *)
(* a rejoin JOIN.                                                          *)
(***************************************************************************)
UserLine(g, b, i) == [lane |-> "out", gen |-> g, batch |-> b, part |-> i]
JoinLine(g, ch) == [lane |-> "join", gen |-> g, chan |-> ch]
ServiceLine(g) == [lane |-> "service", gen |-> g]
PongLine(g) == [lane |-> "pong", gen |-> g]
QuitLine(g) == [lane |-> "quit", gen |-> g]

UserLines == [lane : {"out"}, gen : Conns, batch : 1..MaxAccepts, part : 1..MaxBatch]
Lines == UserLines
           \cup [lane : {"join"}, gen : Conns, chan : Channels]
           \cup [lane : {"service", "pong", "quit"}, gen : Conns]
NoLine == [lane |-> "none"]

Ended(c) == cctx[c] \in {"canceled", "failed"}

Init ==
    /\ conn = 0 /\ phase = "backoff" /\ registered = FALSE /\ parentDone = FALSE
    /\ out = <<>> /\ joined \in SUBSET Channels /\ todo = {} /\ icap = InternalCap
    /\ accepts = 0 /\ reads = 0 /\ sending = NoLine
    /\ urgent = [c \in Conns |-> <<>>] /\ internal = [c \in Conns |-> <<>>]
    /\ cctx = [c \in Conns |-> "none"] /\ sock = [c \in Conns |-> "none"]
    /\ wpc = [c \in Conns |-> "none"] /\ wmsg = [c \in Conns |-> NoLine]
    /\ wire = [c \in Conns |-> <<>>] /\ overlong = {}

-----------------------------------------------------------------------------
(***************************************************************************)
(* Go channel semantics.  A send finds the writer parked in its last       *)
(* select and hands the line over, or appends it to the buffer.  A parked  *)
(* writer has a live context: the end of the context wakes it.             *)
(***************************************************************************)
Parked(c) == wpc[c] = "parked"

HandOver(c, line) ==
    /\ wpc' = [wpc EXCEPT ![c] = "write"]
    /\ wmsg' = [wmsg EXCEPT ![c] = line]

\* a send on the internal lane of connection c; not possible while the lane is full
SendInternal(c, line) ==
    \/ /\ Parked(c)
       /\ HandOver(c, line) /\ UNCHANGED laneVars
    \/ /\ ~Parked(c) /\ Len(internal[c]) < icap
       /\ internal' = [internal EXCEPT ![c] = Append(@, line)]
       /\ UNCHANGED <<urgent, wpc, wmsg>>

\* the same on the urgent lane
SendUrgent(c, line) ==
    \/ /\ Parked(c)
       /\ HandOver(c, line) /\ UNCHANGED laneVars
    \/ /\ ~Parked(c) /\ Len(urgent[c]) < UrgentCap
       /\ urgent' = [urgent EXCEPT ![c] = Append(@, line)]
       /\ UNCHANGED <<internal, wpc, wmsg>>

\* the context of connection c ends with a cause; the first cause stays
EndContext(c, cause) ==
    /\ cctx' = IF cctx[c] = "live" THEN [cctx EXCEPT ![c] = cause] ELSE cctx
    /\ wpc' = IF Parked(c) THEN [wpc EXCEPT ![c] = "quit"] ELSE wpc

-----------------------------------------------------------------------------
(***************************************************************************)
(* Run and runOnce.                                                        *)
(***************************************************************************)

\* Mutant: runOnce does not drain the queue.
StartConnNoDrain ==
    /\ phase = "backoff" /\ conn < MaxConns
    /\ conn' = conn + 1
    /\ reads' = 0
    /\ phase' = "dialing"
    /\ UNCHANGED <<registered, parentDone, out, joined, todo, icap, accepts, sending, laneVars,
                   cctx, sock, writerVars, wire, overlong>>

\* drainSendQueue at the top of runOnce: what an earlier connection left
\* queued is dropped before anything of the new connection exists
StartConn ==
    /\ phase = "backoff" /\ conn < MaxConns
    /\ conn' = conn + 1
    /\ out' = <<>>
    /\ reads' = 0
    /\ phase' = "dialing"
    /\ UNCHANGED <<registered, parentDone, joined, todo, icap, accepts, sending, laneVars,
                   cctx, sock, writerVars, wire, overlong>>

\* dial failed: back to the loop, which ends once the network's context has
DialFail ==
    /\ phase = "dialing"
    /\ phase' = IF parentDone THEN "stopped" ELSE "backoff"
    /\ UNCHANGED <<conn, registered, parentDone, out, joined, todo, icap, accepts, reads,
                   sending, laneVars, cctx, sock, writerVars, wire, overlong>>

\* Mutant: the internal lane is not sized for the rejoins.
DialOKUnsized ==
    /\ phase = "dialing"
    /\ phase' = "registering"
    /\ todo' = joined
    /\ icap' = InternalCap
    /\ cctx' = [cctx EXCEPT ![conn] = IF parentDone THEN "canceled" ELSE "live"]
    /\ sock' = [sock EXCEPT ![conn] = "open"]
    /\ wpc' = [wpc EXCEPT ![conn] = "poll1"]
    /\ UNCHANGED <<conn, registered, parentDone, out, joined, accepts, reads, sending,
                   laneVars, wmsg, wire, overlong>>

\* dial succeeded: snapshot the rejoins, size the internal lane to hold them
\* all, start the writer and the closer; the connection's context is a child of
\* the network's, so it has ended if that has
DialOK ==
    /\ phase = "dialing"
    /\ phase' = "registering"
    /\ todo' = joined
    /\ icap' = InternalCap + Cardinality(joined)
    /\ cctx' = [cctx EXCEPT ![conn] = IF parentDone THEN "canceled" ELSE "live"]
    /\ sock' = [sock EXCEPT ![conn] = "open"]
    /\ wpc' = [wpc EXCEPT ![conn] = "poll1"]
    /\ UNCHANGED <<conn, registered, parentDone, out, joined, accepts, reads, sending,
                   laneVars, wmsg, wire, overlong>>

\* register: the opening lines, or the answer to one line of the exchange, go
\* to the internal lane
HandshakeLine ==
    /\ phase = "registering" /\ sending = NoLine /\ reads < MaxReads
    /\ reads' = reads + 1
    /\ sending' = ServiceLine(conn)
    /\ UNCHANGED <<conn, phase, registered, parentDone, out, joined, todo, icap, accepts,
                   laneVars, cctx, sock, writerVars, wire, overlong>>

\* Mutant: send-readiness is exposed before the rejoins are queued.
WelcomeRegisters ==
    /\ phase = "registering" /\ sending = NoLine
    /\ phase' = "rejoining"
    /\ registered' = TRUE
    /\ UNCHANGED <<conn, parentDone, out, joined, todo, icap, accepts, reads, sending,
                   laneVars, cctx, sock, writerVars, wire, overlong>>

\* 001 was read: register returns, the rejoins come next
Welcome ==
    /\ phase = "registering" /\ sending = NoLine
    /\ phase' = "rejoining"
    /\ UNCHANGED <<conn, registered, parentDone, out, joined, todo, icap, accepts, reads,
                   sending, laneVars, cctx, sock, writerVars, wire, overlong>>

\* every rejoin JOIN is sent to the internal lane before send-readiness is exposed
Rejoin(ch) ==
    /\ phase = "rejoining" /\ sending = NoLine /\ ch \in todo
    /\ sending' = JoinLine(conn, ch)
    /\ todo' = todo \ {ch}
    /\ UNCHANGED <<conn, phase, registered, parentDone, out, joined, icap, accepts, reads,
                   laneVars, cctx, sock, writerVars, wire, overlong>>

\* setRegistered(true) and the start of serveLoop
SetRegistered ==
    /\ phase = "rejoining" /\ sending = NoLine /\ todo = {}
    /\ registered' = TRUE
    /\ phase' = "serving"
    /\ UNCHANGED <<conn, parentDone, out, joined, todo, icap, accepts, reads, sending,
                   laneVars, cctx, sock, writerVars, wire, overlong>>

\* serveLoop handles one more line; a line that was buffered before the socket
\* was closed is still read
Serves ==
    /\ phase = "serving" /\ sending = NoLine /\ reads < MaxReads
    /\ reads' = reads + 1

\* our own JOIN or PART: the rejoin set follows
SelfJoin(ch) ==
    /\ Serves
    /\ ch \notin joined
    /\ joined' = joined \cup {ch}
    /\ UNCHANGED <<conn, phase, registered, parentDone, out, todo, icap, accepts, sending,
                   laneVars, cctx, sock, writerVars, wire, overlong>>

SelfPart(ch) ==
    /\ Serves
    /\ ch \in joined
    /\ joined' = joined \ {ch}
    /\ UNCHANGED <<conn, phase, registered, parentDone, out, todo, icap, accepts, sending,
                   laneVars, cctx, sock, writerVars, wire, overlong>>

\* a PING is answered on the urgent lane
AnswerPing ==
    /\ Serves
    /\ sending' = PongLine(conn)
    /\ UNCHANGED <<conn, phase, registered, parentDone, out, joined, todo, icap, accepts,
                   laneVars, cctx, sock, writerVars, wire, overlong>>

\* a keepalive PING, a CAP REQ or a WHO goes to the internal lane
ServeLine ==
    /\ Serves
    /\ sending' = ServiceLine(conn)
    /\ UNCHANGED <<conn, phase, registered, parentDone, out, joined, todo, icap, accepts,
                   laneVars, cctx, sock, writerVars, wire, overlong>>

\* the select of send and sendUrgent takes the lane's case; until the lane has
\* room, or the context ends, the goroutine is blocked in it and reads nothing
LaneSend ==
    /\ sending # NoLine
    /\ IF sending.lane = "pong" THEN SendUrgent(conn, sending) ELSE SendInternal(conn, sending)
    /\ sending' = NoLine
    /\ UNCHANGED <<conn, phase, registered, parentDone, out, joined, todo, icap, accepts, reads,
                   cctx, sock, wire, overlong>>

\* where the Run goroutine goes when runOnce returns an error: past
\* setRegistered(true) the deferred setRegistered(false) runs first
Leaving == IF phase = "serving" THEN "closing" ELSE "unregistered"

\* the same select takes the case of the ended context: send returns its cause,
\* which ends runOnce, and sendUrgent drops the PONG and goes on
LaneSendGivesUp ==
    /\ sending # NoLine /\ Ended(conn)
    /\ sending' = NoLine
    /\ phase' = IF sending.lane = "pong" THEN phase ELSE Leaving
    /\ UNCHANGED <<conn, registered, parentDone, out, joined, todo, icap, accepts, reads,
                   laneVars, cctx, sock, writerVars, wire, overlong>>

\* ReadMessage fails (an error, the closed socket, the handshake's deadline or
\* the ping timeout), or the line read is refused: the loop ends
ReadFail ==
    /\ phase \in {"registering", "serving"} /\ sending = NoLine
    /\ phase' = Leaving
    /\ UNCHANGED <<conn, registered, parentDone, out, joined, todo, icap, accepts, reads,
                   sending, laneVars, cctx, sock, writerVars, wire, overlong>>

\* the deferred setRegistered(false), before the deferred cancel
Unregister ==
    /\ phase = "closing"
    /\ registered' = FALSE
    /\ phase' = "unregistered"
    /\ UNCHANGED <<conn, parentDone, out, joined, todo, icap, accepts, reads, sending,
                   laneVars, cctx, sock, writerVars, wire, overlong>>

\* the deferred cancel(nil) and the return to Run
CancelConn ==
    /\ phase = "unregistered"
    /\ EndContext(conn, "canceled")
    /\ todo' = {}
    /\ phase' = IF parentDone THEN "stopped" ELSE "backoff"
    /\ UNCHANGED <<conn, registered, parentDone, out, joined, icap, accepts, reads, sending,
                   laneVars, sock, wmsg, wire, overlong>>

\* Run gives up in a backoff or policy wait because the context ended
StopInBackoff ==
    /\ phase = "backoff" /\ parentDone
    /\ phase' = "stopped"
    /\ UNCHANGED <<conn, registered, parentDone, out, joined, todo, icap, accepts, reads,
                   sending, laneVars, cctx, sock, writerVars, wire, overlong>>

\* Mutant: the connection's context is not derived from the network's.
StopDetached ==
    /\ ~parentDone
    /\ parentDone' = TRUE
    /\ UNCHANGED <<runVars, out, accepts, laneVars, cctx, sock, writerVars, wire, overlong>>

\* the owner ends the network's context, which ends every live child context
Stop ==
    /\ ~parentDone
    /\ parentDone' = TRUE
    /\ cctx' = [c \in Conns |-> IF cctx[c] = "live" THEN "canceled" ELSE cctx[c]]
    /\ wpc' = [c \in Conns |-> IF Parked(c) THEN "quit" ELSE wpc[c]]
    /\ UNCHANGED <<runVars, out, accepts, laneVars, sock, wmsg, wire, overlong>>

-----------------------------------------------------------------------------
(***************************************************************************)
(* The callers of Send, SendAll and SendMultiline.  Under sendMu a batch    *)
(* is refused (not connected, or no room for all of it) or queued whole.    *)
(* (sendAll also notes the keys of outgoing JOINs, a state of its own.)     *)
(***************************************************************************)
Batch(n) == [i \in 1..n |-> UserLine(conn, accepts + 1, i)]

\* Mutant: the room left in the queue is computed one too large.
SendAllOffByOne(n) ==
    /\ registered /\ accepts < MaxAccepts
    /\ Len(out) + n <= OutCap + 1
    /\ accepts' = accepts + 1
    /\ out' = out \o Batch(n)
    /\ UNCHANGED <<runVars, parentDone, laneVars, cctx, sock, writerVars, wire, overlong>>

SendAll(n) ==
    /\ registered /\ accepts < MaxAccepts
    /\ Len(out) + n <= OutCap
    /\ accepts' = accepts + 1
    /\ IF \E c \in Conns : Parked(c)
         THEN \E c \in Conns :
                /\ Parked(c)
                /\ HandOver(c, Head(out \o Batch(n)))
                /\ out' = Tail(out \o Batch(n))
         ELSE out' = out \o Batch(n) /\ UNCHANGED writerVars
    /\ UNCHANGED <<runVars, parentDone, laneVars, cctx, sock, wire, overlong>>

-----------------------------------------------------------------------------
(***************************************************************************)
(* The writer of connection c: nextOutbound's three selects.  A select     *)
(* takes any one of its ready cases; the first two fall through and the    *)
(* third parks when none is ready.                                         *)
(***************************************************************************)
Take(c, line) == HandOver(c, line)

SeeDone(c) ==
    /\ Ended(c)
    /\ wpc' = [wpc EXCEPT ![c] = "quit"]
    /\ UNCHANGED <<wmsg, laneVars, out>>

TakeUrgent(c) ==
    /\ urgent[c] # <<>>
    /\ Take(c, Head(urgent[c]))
    /\ urgent' = [urgent EXCEPT ![c] = Tail(@)]
    /\ UNCHANGED <<internal, out>>

TakeInternal(c) ==
    /\ internal[c] # <<>>
    /\ Take(c, Head(internal[c]))
    /\ internal' = [internal EXCEPT ![c] = Tail(@)]
    /\ UNCHANGED <<urgent, out>>

TakeOut(c) ==
    /\ out # <<>>
    /\ Take(c, Head(out))
    /\ out' = Tail(out)
    /\ UNCHANGED laneVars

FallThrough(c, next) ==
    /\ wpc' = [wpc EXCEPT ![c] = next]
    /\ UNCHANGED <<wmsg, laneVars, out>>

writerFrame == <<runVars, parentDone, accepts, cctx, sock, wire, overlong>>

Poll1(c) ==
    /\ wpc[c] = "poll1"
    /\ \/ SeeDone(c)
       \/ TakeUrgent(c)
       \/ ~Ended(c) /\ urgent[c] = <<>> /\ FallThrough(c, "poll2")
    /\ UNCHANGED writerFrame

Poll2(c) ==
    /\ wpc[c] = "poll2"
    /\ \/ SeeDone(c)
       \/ TakeUrgent(c)
       \/ TakeInternal(c)
       \/ /\ ~Ended(c) /\ urgent[c] = <<>> /\ internal[c] = <<>>
          /\ FallThrough(c, "select")
    /\ UNCHANGED writerFrame

Select(c) ==
    /\ wpc[c] = "select"
    /\ \/ SeeDone(c)
       \/ TakeUrgent(c)
       \/ TakeInternal(c)
       \/ TakeOut(c)
       \/ /\ ~Ended(c) /\ urgent[c] = <<>> /\ internal[c] = <<>> /\ out = <<>>
          /\ FallThrough(c, "parked")
    /\ UNCHANGED writerFrame

(***************************************************************************)
(* writeOne.                                                               *)
(***************************************************************************)
\* Mutant: the writer goes back to the last select, not to the first poll.
WrittenNoPolls(c) ==
    /\ wpc[c] = "write" /\ sock[c] = "open"
    /\ wire' = [wire EXCEPT ![c] = Append(@, wmsg[c])]
    /\ wpc' = [wpc EXCEPT ![c] = "select"]
    /\ wmsg' = [wmsg EXCEPT ![c] = NoLine]
    /\ UNCHANGED <<runVars, parentDone, out, accepts, laneVars, cctx, sock, overlong>>

\* the line is on the wire, and nextOutbound starts over
Written(c) ==
    /\ wpc[c] = "write" /\ sock[c] = "open"
    /\ wire' = [wire EXCEPT ![c] = Append(@, wmsg[c])]
    /\ wpc' = [wpc EXCEPT ![c] = "poll1"]
    /\ wmsg' = [wmsg EXCEPT ![c] = NoLine]
    /\ UNCHANGED <<runVars, parentDone, out, accepts, laneVars, cctx, sock, overlong>>

\* a 005 shrank LINELEN while the line waited: it is dropped, the writer goes on
DropOverlong(c) ==
    /\ wpc[c] = "write"
    /\ overlong' = overlong \cup {wmsg[c]}
    /\ wpc' = [wpc EXCEPT ![c] = "poll1"]
    /\ wmsg' = [wmsg EXCEPT ![c] = NoLine]
    /\ UNCHANGED <<runVars, parentDone, out, accepts, laneVars, cctx, sock, wire>>

\* the context ends while the token bucket makes the line wait; PONGs skip the bucket
WaitFails(c) ==
    /\ wpc[c] = "write" /\ Ended(c) /\ wmsg[c].lane # "pong"
    /\ wpc' = [wpc EXCEPT ![c] = "quit"]
    /\ wmsg' = [wmsg EXCEPT ![c] = NoLine]
    /\ UNCHANGED <<runVars, parentDone, out, accepts, laneVars, cctx, sock, wire, overlong>>

\* Mutant: a failed write is treated like an over-length line.
WriteFailsGoesOn(c) ==
    /\ wpc[c] = "write"
    /\ wpc' = [wpc EXCEPT ![c] = "poll1"]
    /\ wmsg' = [wmsg EXCEPT ![c] = NoLine]
    /\ UNCHANGED <<runVars, parentDone, out, accepts, laneVars, cctx, sock, wire, overlong>>

\* a write (or the framing guard) fails: the context ends with that error
WriteFails(c) ==
    /\ wpc[c] = "write"
    /\ cctx' = IF cctx[c] = "live" THEN [cctx EXCEPT ![c] = "failed"] ELSE cctx
    /\ wpc' = [wpc EXCEPT ![c] = "quit"]
    /\ wmsg' = [wmsg EXCEPT ![c] = NoLine]
    /\ UNCHANGED <<runVars, parentDone, out, accepts, laneVars, sock, wire, overlong>>

\* sayQuit, the writer's last act: only on a deliberate teardown
SayQuit(c) ==
    /\ wpc[c] = "quit"
    /\ wpc' = [wpc EXCEPT ![c] = "done"]
    /\ wire' = IF parentDone /\ cctx[c] = "canceled" /\ sock[c] = "open"
                 THEN [wire EXCEPT ![c] = Append(@, QuitLine(c))] ELSE wire
    /\ UNCHANGED <<runVars, parentDone, out, accepts, laneVars, cctx, sock, wmsg, overlong>>

\* the closer: waits for the context, and on a deliberate teardown for the
\* writer or quitTimeout, which may pass at any moment
CloseSocket(c) ==
    /\ sock[c] = "open" /\ Ended(c)
    /\ sock' = [sock EXCEPT ![c] = "closed"]
    /\ UNCHANGED <<runVars, parentDone, out, accepts, laneVars, cctx, writerVars, wire, overlong>>

-----------------------------------------------------------------------------
RunStep ==
    \/ StartConn \/ DialFail \/ DialOK \/ HandshakeLine \/ Welcome
    \/ \E ch \in Channels : Rejoin(ch) \/ SelfJoin(ch) \/ SelfPart(ch)
    \/ SetRegistered \/ AnswerPing \/ ServeLine \/ LaneSend \/ LaneSendGivesUp
    \/ ReadFail \/ Unregister \/ CancelConn \/ StopInBackoff

WriterStep(c) ==
    \/ Poll1(c) \/ Poll2(c) \/ Select(c)
    \/ Written(c) \/ DropOverlong(c) \/ WaitFails(c) \/ WriteFails(c)
    \/ SayQuit(c)

\* Run has returned and its goroutines are gone
Terminated ==
    /\ phase = "stopped" /\ \A c \in Conns : wpc[c] \in {"none", "done"} /\ sock[c] # "open"
    /\ UNCHANGED vars

Next ==
    \/ RunStep
    \/ Stop
    \/ \E n \in 1..MaxBatch : SendAll(n)
    \/ \E c \in Conns : WriterStep(c) \/ CloseSocket(c)
    \/ Terminated

Spec == Init /\ [][Next]_vars

\* the read loop waits for the peer, who may keep it waiting (or busy) for ever
AwaitsPeer ==
    phase \in {"registering", "serving"} /\ sending = NoLine /\ sock[conn] = "open"

\* Every goroutine keeps running: a dial has a deadline, a read of a closed
\* socket fails, each select has the context among its cases, and the closer
\* waits at most quitTimeout.  Nothing is asked of a peer on an open socket.
Fairness ==
    /\ WF_vars(~AwaitsPeer /\ RunStep)
    /\ \A c \in Conns : WF_vars(WriterStep(c)) /\ WF_vars(CloseSocket(c))

FairSpec == Spec /\ Fairness

-----------------------------------------------------------------------------
(***************************************************************************)
(* Properties.                                                             *)
(***************************************************************************)
Phases == {"backoff", "dialing", "registering", "rejoining", "serving", "closing",
           "unregistered", "stopped"}
WriterStates == {"none", "poll1", "poll2", "select", "parked", "write", "quit", "done"}

\* Every variable keeps its type, and m.out never exceeds its capacity (sendAll
\* checks the room for a whole batch before it queues the first line).
TypeOK ==
    /\ conn \in 0..MaxConns /\ phase \in Phases
    /\ registered \in BOOLEAN /\ parentDone \in BOOLEAN
    /\ out \in Seq(UserLines) /\ Len(out) <= OutCap
    /\ joined \subseteq Channels /\ todo \subseteq Channels
    /\ icap \in Nat /\ accepts \in 0..MaxAccepts /\ reads \in 0..MaxReads
    /\ sending \in Lines \cup {NoLine}
    /\ urgent \in [Conns -> Seq(Lines)] /\ internal \in [Conns -> Seq(Lines)]
    /\ cctx \in [Conns -> {"none", "live", "canceled", "failed"}]
    /\ sock \in [Conns -> {"none", "open", "closed"}]
    /\ wpc \in [Conns -> WriterStates]
    /\ wmsg \in [Conns -> Lines \cup {NoLine}]
    /\ wire \in [Conns -> Seq(Lines)]
    /\ overlong \subseteq Lines

\* manager.go:1067-1071: a message enqueued for one connection is never
\* consumed by a later one, whatever the writers' scheduling.
NoStaleDelivery ==
    \A c \in Conns : \A i \in 1..Len(wire[c]) : wire[c][i].gen >= c

\* manager.go:1044: "Send queues msg for delivery on the current connection": a
\* message is delivered on the connection that was current when Send accepted
\* it, and on no other.
OwnConnectionOnly ==
    \A c \in Conns : \A i \in 1..Len(wire[c]) : wire[c][i].gen = c

\* The damage of a writer that outlives its connection is bounded: it writes at
\* most one line of a later connection, the one its last select had reached,
\* because the polls of nextOutbound end it before the next.
AtMostOneStray ==
    \A c \in Conns : \A i, j \in 1..Len(wire[c]) :
        wire[c][i].gen > c /\ wire[c][j].gen > c => i = j

Earlier(a, b) == a.batch < b.batch \/ (a.batch = b.batch /\ a.part < b.part)

\* manager.go:1078-1090: user lines leave in the order they were accepted, and a
\* line of a batch leaves only after every earlier line of its batch did (or
\* was dropped for its length): the receiver never sees a batch with a hole.
SentInOrder ==
    \A c \in Conns : \A i \in 1..Len(wire[c]) : wire[c][i].lane = "out" =>
        /\ \A j \in 1..(i - 1) : wire[c][j].lane = "out" => Earlier(wire[c][j], wire[c][i])
        /\ \A q \in 1..(wire[c][i].part - 1) :
              LET prev == [wire[c][i] EXCEPT !.part = q]
              IN  prev \in overlong \/ \E j \in 1..(i - 1) : wire[c][j] = prev

Overtakers(c) ==
    {i \in 1..Len(wire[c]) :
        /\ wire[c][i].lane = "out"
        /\ \E j \in (i + 1)..Len(wire[c]) : wire[c][j].lane = "join"}

\* The staged select bounds what a user line may overtake: at most the one line
\* the writer picks in a select it had reached before the JOINs were queued.
AtMostOneOvertakes == \A c \in Conns : Cardinality(Overtakers(c)) <= 1

\* manager.go:1594-1597: "every JOIN reaches the wire before any user message".
JoinsBeforeUserMessages == \A c \in Conns : Overtakers(c) = {}

\* manager.go:1591-1592: "The internal lane was sized for the whole set, so this
\* is instant": after at most the lane's headroom of handshake lines, a rejoin
\* never waits for the paced writer, however little that has written.
RejoinNeverWaits ==
    (phase = "rejoining" /\ sending # NoLine /\ reads <= InternalCap)
        => Parked(conn) \/ Len(internal[conn]) < icap

\* Once the network's context ended, Run returns, every writer ends and every
\* socket is closed: nobody waits for a lane, a lock or a peer for ever.
Quiesces ==
    parentDone ~> /\ phase = "stopped"
                  /\ \A c \in Conns : wpc[c] \in {"none", "done"} /\ sock[c] # "open"

=============================================================================
