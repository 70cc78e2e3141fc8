-------------------------- MODULE SendQueueProofs --------------------------
(***************************************************************************)
(* TLAPS proofs about SendQueue, for every number of connections, batches, *)
(* channels and queue capacities: the type invariant, on which connection  *)
(* a queued line may end up, and how many lines a writer that outlives its *)
(* connection can divert.                                                  *)
(***************************************************************************)
EXTENDS SendQueue, SequenceTheorems, FiniteSetTheorems, TLAPS

(***************************************************************************)
(* The inductive invariant.  What makes NoStaleDelivery hold is that m.out *)
(* only ever holds lines of the current connection (OutInv), because       *)
(* runOnce drains it before the connection's number can be given to a      *)
(* line, and that no writer of a connection not yet started exists         *)
(* (WriterInv).                                                            *)
(***************************************************************************)
LinesOf(c) == {l \in Lines : l.gen = c}
LinesOn(c) == {l \in Lines : l.gen >= c}
UserLinesOf(c) == {l \in UserLines : l.gen = c}

ScalarInv ==
    /\ conn \in 0..MaxConns /\ phase \in Phases
    /\ registered \in BOOLEAN /\ parentDone \in BOOLEAN
    /\ joined \subseteq Channels /\ todo \subseteq Channels
    /\ icap \in Nat /\ accepts \in 0..MaxAccepts /\ reads \in 0..MaxReads
    /\ cctx \in [Conns -> {"none", "live", "canceled", "failed"}]
    /\ sock \in [Conns -> {"none", "open", "closed"}]
    /\ overlong \subseteq Lines

PhaseInv ==
    /\ phase \notin {"backoff", "stopped"} => conn \in Conns
    /\ registered => phase \in {"serving", "closing"}

\* what the Run goroutine sends on a lane is a line of the current connection
SendingInv ==
    /\ sending \in LinesOf(conn) \cup {NoLine}
    /\ sending # NoLine => phase \in {"registering", "rejoining", "serving"}

OutInv == out \in Seq(UserLinesOf(conn)) /\ Len(out) <= OutCap

LaneInv ==
    /\ urgent \in [Conns -> Seq(Lines)] /\ internal \in [Conns -> Seq(Lines)]
    /\ \A c \in Conns : urgent[c] \in Seq(LinesOf(c)) /\ internal[c] \in Seq(LinesOf(c))

WriterInv ==
    /\ wpc \in [Conns -> WriterStates]
    /\ wmsg \in [Conns -> Lines \cup {NoLine}]
    /\ \A c \in Conns : wpc[c] = "write" => wmsg[c] \in LinesOn(c)
    /\ \A c \in Conns : wpc[c] # "none" => c <= conn

WireInv ==
    /\ wire \in [Conns -> Seq(Lines)]
    /\ \A c \in Conns : wire[c] \in Seq(LinesOn(c))

IInv == ScalarInv /\ PhaseInv /\ SendingInv /\ OutInv /\ LaneInv /\ WriterInv /\ WireInv

-----------------------------------------------------------------------------
\* Taking the head of a sequence or appending to it stays within its elements.
LEMMA TakeHead ==
    ASSUME NEW S, NEW s \in Seq(S), s # <<>>
    PROVE  Head(s) \in S /\ Tail(s) \in Seq(S) /\ Len(Tail(s)) = Len(s) - 1
BY HeadTailProperties

\* The same for a sequence that grows by one.
LEMMA AppendOne ==
    ASSUME NEW S, NEW s \in Seq(S), NEW x \in S
    PROVE  Append(s, x) \in Seq(S)
BY AppendProperties

\* Every line the connection queues for itself is one of its lines.
LEMMA OwnLines ==
    ASSUME NEW c \in Conns
    PROVE  /\ \A ch \in Channels : JoinLine(c, ch) \in LinesOf(c)
           /\ ServiceLine(c) \in LinesOf(c) /\ PongLine(c) \in LinesOf(c)
           /\ QuitLine(c) \in LinesOf(c)
           /\ LinesOf(c) \subseteq LinesOn(c) /\ LinesOn(c) \subseteq Lines
           /\ UserLinesOf(c) \subseteq LinesOf(c)
BY BoundsAssumption
   DEF JoinLine, ServiceLine, PongLine, QuitLine, LinesOf, LinesOn, UserLinesOf, Lines, UserLines, Conns

\* A user line of m.out belongs to the current connection: its writer and that
\* of any earlier connection may write it.
LEMMA OutLinesOn ==
    ASSUME IInv, NEW c \in Conns, c <= conn
    PROVE  UserLinesOf(conn) \subseteq LinesOn(c)
<1>1. conn \in Conns
  BY BoundsAssumption DEF IInv, ScalarInv, Conns
<1> QED
  BY <1>1, BoundsAssumption DEF UserLinesOf, LinesOn, UserLines, Lines, Conns

\* Handing a line over to a writer keeps the writers' part of the invariant.
LEMMA HandOverKeeps ==
    ASSUME IInv, NEW c \in Conns, wpc[c] # "none", NEW line \in LinesOn(c),
           HandOver(c, line), conn' = conn
    PROVE  WriterInv'
<1>1. line \in Lines
  BY OwnLines
<1> QED
  BY <1>1 DEF HandOver, IInv, WriterInv, WriterStates, LinesOn

\* A send on the internal lane of the current connection.
LEMMA InternalSendKeeps ==
    ASSUME IInv, conn \in Conns, NEW line \in LinesOf(conn), SendInternal(conn, line), conn' = conn
    PROVE  LaneInv' /\ WriterInv'
<1>1. CASE Parked(conn) /\ HandOver(conn, line) /\ UNCHANGED laneVars
  <2>1. line \in LinesOn(conn)
    BY OwnLines
  <2>2. wpc[conn] # "none"
    BY <1>1 DEF Parked
  <2>3. LaneInv'
    BY <1>1 DEF laneVars, IInv, LaneInv
  <2> QED
    BY <1>1, <2>1, <2>2, <2>3, HandOverKeeps
<1>2. CASE /\ internal' = [internal EXCEPT ![conn] = Append(@, line)]
           /\ UNCHANGED <<urgent, wpc, wmsg>>
  <2>1. Append(internal[conn], line) \in Seq(LinesOf(conn))
    BY AppendOne DEF IInv, LaneInv
  <2>2. Append(internal[conn], line) \in Seq(Lines)
    BY AppendOne, OwnLines DEF IInv, LaneInv
  <2>3. LaneInv'
    BY <1>2, <2>1, <2>2 DEF IInv, LaneInv
  <2>4. WriterInv'
    BY <1>2 DEF IInv, WriterInv
  <2> QED
    BY <2>3, <2>4
<1> QED
  BY <1>1, <1>2 DEF SendInternal

\* A send on its urgent lane.
LEMMA UrgentSendKeeps ==
    ASSUME IInv, conn \in Conns, NEW line \in LinesOf(conn), SendUrgent(conn, line), conn' = conn
    PROVE  LaneInv' /\ WriterInv'
<1>1. CASE Parked(conn) /\ HandOver(conn, line) /\ UNCHANGED laneVars
  <2>1. line \in LinesOn(conn)
    BY OwnLines
  <2>2. wpc[conn] # "none"
    BY <1>1 DEF Parked
  <2>3. LaneInv'
    BY <1>1 DEF laneVars, IInv, LaneInv
  <2> QED
    BY <1>1, <2>1, <2>2, <2>3, HandOverKeeps
<1>2. CASE /\ urgent' = [urgent EXCEPT ![conn] = Append(@, line)]
           /\ UNCHANGED <<internal, wpc, wmsg>>
  <2>1. Append(urgent[conn], line) \in Seq(LinesOf(conn))
    BY AppendOne DEF IInv, LaneInv
  <2>2. Append(urgent[conn], line) \in Seq(Lines)
    BY AppendOne, OwnLines DEF IInv, LaneInv
  <2>3. LaneInv'
    BY <1>2, <2>1, <2>2 DEF IInv, LaneInv
  <2>4. WriterInv'
    BY <1>2 DEF IInv, WriterInv
  <2> QED
    BY <2>3, <2>4
<1> QED
  BY <1>1, <1>2 DEF SendUrgent

-----------------------------------------------------------------------------
\* The invariant holds before the first connection.
LEMMA InitIInv == Init => IInv
<1> SUFFICES ASSUME Init PROVE IInv
  OBVIOUS
<1>1. ScalarInv /\ PhaseInv
  <2>1. /\ cctx \in [Conns -> {"none", "live", "canceled", "failed"}]
        /\ sock \in [Conns -> {"none", "open", "closed"}]
    BY DEF Init
  <2>2. joined \subseteq Channels /\ todo \subseteq Channels /\ overlong \subseteq Lines
    BY DEF Init
  <2>3. /\ conn \in 0..MaxConns /\ icap \in Nat
        /\ accepts \in 0..MaxAccepts /\ reads \in 0..MaxReads
    BY BoundsAssumption DEF Init
  <2> QED
    BY <2>1, <2>2, <2>3 DEF Init, ScalarInv, PhaseInv, Phases
<1>2. OutInv /\ LaneInv /\ WireInv
  BY EmptySeq, BoundsAssumption DEF Init, OutInv, LaneInv, WireInv
<1>3. WriterInv /\ SendingInv
  BY DEF Init, WriterInv, WriterStates, SendingInv
<1> QED
  BY <1>1, <1>2, <1>3 DEF IInv

\* The steps of the Run goroutine and of the network's owner.
LEMMA RunKeepsIInv ==
    ASSUME IInv, RunStep \/ Stop
    PROVE  IInv'
<1> USE DEF IInv
<1>1. CASE StartConn
  <2>1. ScalarInv' /\ PhaseInv'
    BY <1>1, BoundsAssumption DEF StartConn, Phases, Conns, ScalarInv, PhaseInv
  <2>2. OutInv' /\ SendingInv'
    BY <1>1, EmptySeq, BoundsAssumption DEF StartConn, OutInv, SendingInv
  <2>3. WriterInv'
    BY <1>1 DEF StartConn, writerVars, WriterInv, ScalarInv, Conns
  <2> QED
    BY <1>1, <2>1, <2>2, <2>3 DEF StartConn, laneVars, LaneInv, WireInv
<1>2. CASE DialFail
  BY <1>2 DEF DialFail, Phases, laneVars, writerVars, ScalarInv, PhaseInv, SendingInv, OutInv,
              LaneInv, WriterInv, WireInv
<1>3. CASE DialOK
  <2>1. conn \in Conns
    BY <1>3 DEF DialOK, PhaseInv
  <2>2. Cardinality(joined) \in Nat
    BY ChannelsAssumption, FS_Subset, FS_CardinalityType DEF ScalarInv
  <2>3. ScalarInv' /\ PhaseInv' /\ SendingInv'
    BY <1>3, <2>1, <2>2, BoundsAssumption DEF DialOK, Phases, ScalarInv, PhaseInv, SendingInv
  <2>4. WriterInv'
    BY <1>3, <2>1 DEF DialOK, WriterInv, WriterStates, Conns
  <2> QED
    BY <1>3, <2>3, <2>4 DEF DialOK, laneVars, OutInv, LaneInv, WireInv
<1>4. CASE HandshakeLine \/ AnswerPing \/ ServeLine \/ \E ch \in Channels : Rejoin(ch)
  <2>1. conn \in Conns
    BY <1>4 DEF HandshakeLine, AnswerPing, ServeLine, Serves, Rejoin, PhaseInv
  <2>2. SendingInv'
    BY <1>4, <2>1, OwnLines DEF HandshakeLine, AnswerPing, ServeLine, Serves, Rejoin, SendingInv
  <2>3. ScalarInv' /\ PhaseInv'
    BY <1>4, BoundsAssumption
       DEF HandshakeLine, AnswerPing, ServeLine, Serves, Rejoin, ScalarInv, PhaseInv
  <2> QED
    BY <1>4, <2>2, <2>3
       DEF HandshakeLine, AnswerPing, ServeLine, Serves, Rejoin, laneVars, writerVars, OutInv,
           LaneInv, WriterInv, WireInv
<1>5. CASE Welcome
  BY <1>5 DEF Welcome, Phases, laneVars, writerVars, ScalarInv, PhaseInv, SendingInv, OutInv,
              LaneInv, WriterInv, WireInv
<1>6. CASE LaneSend
  <2>1. conn \in Conns /\ sending \in LinesOf(conn)
    BY <1>6 DEF LaneSend, SendingInv, PhaseInv
  <2>2. LaneInv' /\ WriterInv'
    BY <1>6, <2>1, InternalSendKeeps, UrgentSendKeeps DEF LaneSend
  <2> QED
    BY <1>6, <2>2 DEF LaneSend, ScalarInv, PhaseInv, SendingInv, OutInv, WireInv
<1>7. CASE \E ch \in Channels : SelfJoin(ch) \/ SelfPart(ch)
  <2>1. ScalarInv' /\ PhaseInv' /\ SendingInv'
    BY <1>7, BoundsAssumption DEF SelfJoin, SelfPart, Serves, ScalarInv, PhaseInv, SendingInv
  <2> QED
    BY <1>7, <2>1 DEF SelfJoin, SelfPart, laneVars, writerVars, OutInv, LaneInv, WriterInv, WireInv
<1>8. CASE LaneSendGivesUp
  BY <1>8 DEF LaneSendGivesUp, Leaving, Phases, laneVars, writerVars, ScalarInv, PhaseInv,
              SendingInv, OutInv, LaneInv, WriterInv, WireInv
<1>9. CASE SetRegistered
  BY <1>9 DEF SetRegistered, Phases, laneVars, writerVars, ScalarInv, PhaseInv, SendingInv, OutInv,
              LaneInv, WriterInv, WireInv
<1>10. CASE ReadFail
  BY <1>10 DEF ReadFail, Leaving, Phases, laneVars, writerVars, ScalarInv, PhaseInv, SendingInv,
               OutInv, LaneInv, WriterInv, WireInv
<1>11. CASE Unregister
  BY <1>11 DEF Unregister, Phases, laneVars, writerVars, ScalarInv, PhaseInv, SendingInv, OutInv,
               LaneInv, WriterInv, WireInv
<1>12. CASE StopInBackoff
  BY <1>12 DEF StopInBackoff, Phases, laneVars, writerVars, ScalarInv, PhaseInv, SendingInv, OutInv,
               LaneInv, WriterInv, WireInv
<1>13. CASE CancelConn
  <2>1. ScalarInv' /\ PhaseInv' /\ SendingInv'
    BY <1>13 DEF CancelConn, EndContext, Phases, ScalarInv, PhaseInv, SendingInv
  <2>2. WriterInv'
    BY <1>13 DEF CancelConn, EndContext, Parked, WriterInv, WriterStates
  <2> QED
    BY <1>13, <2>1, <2>2 DEF CancelConn, laneVars, OutInv, LaneInv, WireInv
<1>14. CASE Stop
  <2>1. ScalarInv' /\ PhaseInv' /\ SendingInv'
    BY <1>14 DEF Stop, runVars, ScalarInv, PhaseInv, SendingInv
  <2>2. WriterInv'
    BY <1>14 DEF Stop, runVars, Parked, WriterInv, WriterStates
  <2> QED
    BY <1>14, <2>1, <2>2 DEF Stop, runVars, laneVars, OutInv, LaneInv, WireInv
<1> QED
  BY <1>1, <1>2, <1>3, <1>4, <1>5, <1>6, <1>7, <1>8, <1>9, <1>10, <1>11, <1>12, <1>13, <1>14
     DEF RunStep

\* What SendAll queues are lines of the current connection, n of them.
LEMMA BatchLines ==
    ASSUME IInv, NEW n \in 1..MaxBatch, SendAll(n)
    PROVE  Batch(n) \in Seq(UserLinesOf(conn)) /\ Len(Batch(n)) = n /\ n >= 1
<1>1. conn \in Conns
  BY DEF SendAll, IInv, PhaseInv
<1>2. \A i \in 1..n : UserLine(conn, accepts + 1, i) \in UserLinesOf(conn)
  BY <1>1, BoundsAssumption
     DEF SendAll, IInv, ScalarInv, UserLine, UserLines, UserLinesOf
<1> QED
  BY <1>2, BoundsAssumption, IsASeq DEF Batch

\* SendAll queues a batch of the current connection, whole.
LEMMA SendAllKeepsIInv ==
    ASSUME IInv, NEW n \in 1..MaxBatch, SendAll(n)
    PROVE  IInv'
<1> DEFINE q == out \o Batch(n)
<1>1. conn \in Conns /\ conn' = conn
  BY DEF SendAll, IInv, PhaseInv, runVars
<1>2. Batch(n) \in Seq(UserLinesOf(conn)) /\ Len(Batch(n)) = n
  BY BatchLines
<1>3. q \in Seq(UserLinesOf(conn)) /\ Len(q) <= OutCap /\ q # <<>>
  <2>1. q \in Seq(UserLinesOf(conn)) /\ Len(q) = Len(out) + n
    BY <1>2, ConcatProperties DEF IInv, OutInv
  <2> QED
    BY <2>1, LenProperties, BoundsAssumption DEF SendAll, IInv, OutInv
<1>4. OutInv' /\ WriterInv'
  <2>1. CASE \E c \in Conns : Parked(c)
    <3>1. PICK c \in Conns : Parked(c) /\ HandOver(c, Head(q)) /\ out' = Tail(q)
      BY <2>1 DEF SendAll
    <3>2. OutInv'
      <4>1. Tail(q) \in Seq(UserLinesOf(conn)) /\ Len(Tail(q)) = Len(q) - 1 /\ Len(q) \in Nat
        BY <1>3, TakeHead, LenProperties
      <4> HIDE DEF q
      <4> QED
        BY <3>1, <4>1, <1>1, <1>3, BoundsAssumption DEF OutInv
    <3>3. c <= conn /\ wpc[c] # "none"
      BY <3>1 DEF Parked, IInv, WriterInv
    <3>4. Head(q) \in LinesOn(c)
      BY <3>3, <1>3, TakeHead, OutLinesOn
    <3> QED
      BY <3>1, <3>2, <3>3, <3>4, <1>1, HandOverKeeps
  <2>2. CASE ~ \E c \in Conns : Parked(c)
    <3>1. out' = q /\ UNCHANGED writerVars
      BY <2>2 DEF SendAll
    <3>2. OutInv'
      BY <3>1, <1>1, <1>3 DEF OutInv
    <3> QED
      BY <3>1, <3>2, <1>1 DEF writerVars, IInv, WriterInv
  <2> QED
    BY <2>1, <2>2
<1>5. ScalarInv' /\ PhaseInv' /\ SendingInv'
  BY BoundsAssumption DEF SendAll, runVars, IInv, ScalarInv, PhaseInv, SendingInv
<1> QED
  BY <1>4, <1>5 DEF SendAll, laneVars, IInv, LaneInv, WireInv

\* A select of the writer takes one line or none.
LEMMA SelectKeepsIInv ==
    ASSUME IInv, NEW c \in Conns, Poll1(c) \/ Poll2(c) \/ Select(c)
    PROVE  IInv'
<1>1. c <= conn /\ wpc[c] # "none" /\ conn' = conn
  BY SMTT(30) DEF Poll1, Poll2, Select, writerFrame, runVars, IInv, WriterInv
<1>2. ScalarInv' /\ PhaseInv' /\ SendingInv' /\ WireInv'
  BY DEF Poll1, Poll2, Select, writerFrame, runVars, IInv, ScalarInv, PhaseInv, SendingInv, WireInv
<1>3. CASE SeeDone(c) \/ FallThrough(c, "poll2") \/ FallThrough(c, "select")
                       \/ FallThrough(c, "parked")
  <2>1. WriterInv'
    BY <1>1, <1>3 DEF SeeDone, FallThrough, IInv, WriterInv, WriterStates
  <2> QED
    BY <1>1, <1>2, <1>3, <2>1 DEF SeeDone, FallThrough, laneVars, IInv, OutInv, LaneInv
<1>4. CASE TakeUrgent(c)
  <2>1. /\ Head(urgent[c]) \in LinesOf(c) /\ Tail(urgent[c]) \in Seq(LinesOf(c))
        /\ Tail(urgent[c]) \in Seq(Lines)
    BY <1>4, TakeHead DEF TakeUrgent, IInv, LaneInv
  <2>2. LaneInv' /\ OutInv'
    BY <1>1, <1>4, <2>1 DEF TakeUrgent, IInv, LaneInv, OutInv
  <2>3. WriterInv'
    BY <1>1, <1>4, <2>1, OwnLines, HandOverKeeps DEF TakeUrgent, Take
  <2> QED
    BY <1>2, <2>2, <2>3 DEF IInv
<1>5. CASE TakeInternal(c)
  <2>1. /\ Head(internal[c]) \in LinesOf(c) /\ Tail(internal[c]) \in Seq(LinesOf(c))
        /\ Tail(internal[c]) \in Seq(Lines)
    BY <1>5, TakeHead DEF TakeInternal, IInv, LaneInv
  <2>2. LaneInv' /\ OutInv'
    BY <1>1, <1>5, <2>1 DEF TakeInternal, IInv, LaneInv, OutInv
  <2>3. WriterInv'
    BY <1>1, <1>5, <2>1, OwnLines, HandOverKeeps DEF TakeInternal, Take
  <2> QED
    BY <1>2, <2>2, <2>3 DEF IInv
<1>6. CASE TakeOut(c)
  <2>1. Head(out) \in UserLinesOf(conn) /\ Tail(out) \in Seq(UserLinesOf(conn))
        /\ Len(Tail(out)) = Len(out) - 1 /\ Len(out) \in Nat
    BY <1>6, TakeHead, LenProperties DEF TakeOut, IInv, OutInv
  <2>2. Head(out) \in LinesOn(c)
    BY <1>1, <2>1, OutLinesOn
  <2>3. LaneInv' /\ OutInv'
    BY <1>1, <1>6, <2>1, BoundsAssumption DEF TakeOut, laneVars, IInv, LaneInv, OutInv
  <2>4. WriterInv'
    BY <1>1, <1>6, <2>2, HandOverKeeps DEF TakeOut, Take
  <2> QED
    BY <1>2, <2>3, <2>4 DEF IInv
<1> QED
  BY <1>3, <1>4, <1>5, <1>6 DEF Poll1, Poll2, Select

\* writeOne, sayQuit and the closer.
LEMMA WriteKeepsIInv ==
    ASSUME IInv, NEW c \in Conns,
           \/ Written(c) \/ DropOverlong(c) \/ WaitFails(c) \/ WriteFails(c)
           \/ SayQuit(c) \/ CloseSocket(c)
    PROVE  IInv'
<1> USE DEF IInv
<1>1. CASE Written(c)
  <2>1. wmsg[c] \in LinesOn(c) /\ wmsg[c] \in Lines
    BY <1>1, OwnLines DEF Written, WriterInv
  <2>2. Append(wire[c], wmsg[c]) \in Seq(LinesOn(c)) /\ Append(wire[c], wmsg[c]) \in Seq(Lines)
    BY <2>1, AppendOne, SMTT(30) DEF WireInv
  <2>3. WireInv'
    BY <1>1, <2>2 DEF Written, WireInv
  <2>4. WriterInv'
    BY <1>1 DEF Written, runVars, WriterInv, WriterStates
  <2> QED
    BY <1>1, <2>3, <2>4
       DEF Written, runVars, laneVars, ScalarInv, PhaseInv, SendingInv, OutInv, LaneInv
<1>2. CASE DropOverlong(c)
  <2>1. wmsg[c] \in Lines
    BY <1>2, OwnLines DEF DropOverlong, WriterInv
  <2>2. WriterInv'
    BY <1>2 DEF DropOverlong, runVars, WriterInv, WriterStates
  <2> QED
    BY <1>2, <2>1, <2>2
       DEF DropOverlong, runVars, laneVars, ScalarInv, PhaseInv, SendingInv, OutInv, LaneInv, WireInv
<1>3. CASE WaitFails(c)
  <2>1. WriterInv'
    BY <1>3 DEF WaitFails, runVars, WriterInv, WriterStates
  <2> QED
    BY <1>3, <2>1
       DEF WaitFails, runVars, laneVars, ScalarInv, PhaseInv, SendingInv, OutInv, LaneInv, WireInv
<1>4. CASE WriteFails(c)
  <2>1. WriterInv'
    BY <1>4 DEF WriteFails, runVars, WriterInv, WriterStates
  <2> QED
    BY <1>4, <2>1
       DEF WriteFails, runVars, laneVars, ScalarInv, PhaseInv, SendingInv, OutInv, LaneInv, WireInv
<1>5. CASE SayQuit(c)
  <2>1. QuitLine(c) \in LinesOn(c) /\ QuitLine(c) \in Lines
    BY OwnLines
  <2>2. Append(wire[c], QuitLine(c)) \in Seq(LinesOn(c)) /\ Append(wire[c], QuitLine(c)) \in Seq(Lines)
    BY <2>1, AppendOne DEF WireInv
  <2>3. WireInv'
    BY <1>5, <2>2 DEF SayQuit, WireInv
  <2>4. WriterInv'
    BY <1>5 DEF SayQuit, runVars, WriterInv, WriterStates
  <2> QED
    BY <1>5, <2>3, <2>4
       DEF SayQuit, runVars, laneVars, ScalarInv, PhaseInv, SendingInv, OutInv, LaneInv
<1>6. CASE CloseSocket(c)
  BY <1>6 DEF CloseSocket, runVars, laneVars, writerVars, ScalarInv, PhaseInv, SendingInv, OutInv,
              LaneInv, WriterInv, WireInv
<1> QED
  BY <1>1, <1>2, <1>3, <1>4, <1>5, <1>6

\* Every step keeps the invariant.
LEMMA NextKeepsIInv == IInv /\ [Next]_vars => IInv'
<1> SUFFICES ASSUME IInv, [Next]_vars PROVE IInv'
  OBVIOUS
<1>1. CASE RunStep \/ Stop
  BY <1>1, RunKeepsIInv
<1>2. CASE \E n \in 1..MaxBatch : SendAll(n)
  BY <1>2, SendAllKeepsIInv
<1>3. CASE \E c \in Conns : WriterStep(c) \/ CloseSocket(c)
  BY <1>3, SelectKeepsIInv, WriteKeepsIInv DEF WriterStep
<1>4. CASE UNCHANGED vars
  BY <1>4 DEF vars, IInv, ScalarInv, PhaseInv, SendingInv, OutInv, LaneInv, WriterInv, WireInv
<1> QED
  BY <1>1, <1>2, <1>3, <1>4 DEF Next, Terminated

-----------------------------------------------------------------------------
(***************************************************************************)
(* Writers that outlive their connection.  Only the current connection's   *)
(* context can be live (LiveInv), so a writer that takes a line of a later *)
(* connection has seen its own end.  From its write it returns to the      *)
(* first poll, which such a writer does not get past: it takes no second   *)
(* line of m.out (StrayInv).                                               *)
(***************************************************************************)
LiveInv ==
    /\ \A c \in Conns : cctx[c] = "live" =>
          c = conn /\ phase \notin {"backoff", "dialing", "stopped"}
    /\ \A c \in Conns : c > conn \/ (c = conn /\ phase = "dialing") => cctx[c] = "none"
    /\ \A c \in Conns : wpc[c] # "none" => cctx[c] # "none"
    /\ \A c \in Conns : wpc[c] = "parked" => cctx[c] = "live"

NoStray(c, s) == \A i \in 1..Len(s) : s[i].gen <= c
OneStray(c, s) == \A i, j \in 1..Len(s) : s[i].gen > c /\ s[j].gen > c => i = j
HoldsStray(c) == wpc[c] = "write" /\ wmsg[c].gen > c

StrayInv ==
    \A c \in Conns :
        /\ OneStray(c, wire[c])
        /\ HoldsStray(c) => Ended(c) /\ NoStray(c, wire[c])
        /\ NoStray(c, wire[c])
             \/ (Ended(c) /\ wpc[c] \in {"poll1", "write", "quit", "done"})

SInv == IInv /\ LiveInv /\ StrayInv

\* A line names the connection it was queued for.
LEMMA GenNat == \A l \in Lines : l.gen \in Nat
BY BoundsAssumption DEF Lines, UserLines, Conns

\* A line appended to the wire adds a stray only if it is one.
LEMMA AppendStray ==
    ASSUME NEW c \in Conns, NEW s \in Seq(Lines), NEW x \in Lines
    PROVE  /\ NoStray(c, s) => OneStray(c, Append(s, x))
           /\ NoStray(c, s) /\ x.gen <= c => NoStray(c, Append(s, x))
           /\ OneStray(c, s) /\ x.gen <= c => OneStray(c, Append(s, x))
<1>1. Len(Append(s, x)) = Len(s) + 1 /\ Len(s) \in Nat
  BY AppendProperties, LenProperties
<1>2. /\ \A i \in 1..Len(s) : Append(s, x)[i] = s[i] /\ s[i] \in Lines
      /\ Append(s, x)[Len(s) + 1] = x
  BY AppendProperties, ElementOfSeq
<1>3. \A l \in Lines : l.gen \in Nat
  BY GenNat
<1>4. c \in Nat
  BY BoundsAssumption DEF Conns
<1>5. \A i \in 1..(Len(s) + 1) : i \in 1..Len(s) \/ i = Len(s) + 1
  BY <1>1
<1> QED
  BY <1>1, <1>2, <1>3, <1>4, <1>5 DEF NoStray, OneStray

\* No context is live and no writer runs before the first connection.
LEMMA InitSInv == Init => SInv
BY InitIInv DEF Init, SInv, LiveInv, StrayInv, NoStray, OneStray, HoldsStray

\* A step that writes nothing keeps StrayInv when each writer stays as it is,
\* goes towards its end, takes a line of its own connection, falls through a
\* select with its context live, or takes any line in its last select.
LEMMA StrayFrame ==
    ASSUME StrayInv, UNCHANGED wire,
           \A c \in Conns : Ended(c) => Ended(c)',
           \A c \in Conns :
              \/ wpc'[c] = wpc[c] /\ wmsg'[c] = wmsg[c]
              \/ wpc'[c] \in {"poll1", "quit", "done"}
              \/ wpc'[c] = "write" /\ wmsg'[c].gen = c
              \/ wpc'[c] \in {"poll2", "select", "parked"} /\ ~Ended(c)
              \/ wpc'[c] = "write" /\ wpc[c] = "select" /\ Ended(c)
    PROVE  StrayInv'
<1> SUFFICES ASSUME NEW c \in Conns
             PROVE  /\ OneStray(c, wire[c])
                    /\ HoldsStray(c)' => Ended(c)' /\ NoStray(c, wire[c])
                    /\ NoStray(c, wire[c])
                         \/ (Ended(c)' /\ wpc'[c] \in {"poll1", "write", "quit", "done"})
  BY DEF StrayInv, OneStray, NoStray
<1>1. c \in Nat
  BY BoundsAssumption DEF Conns
<1>2. /\ OneStray(c, wire[c])
      /\ HoldsStray(c) => Ended(c) /\ NoStray(c, wire[c])
      /\ NoStray(c, wire[c])
           \/ (Ended(c) /\ wpc[c] \in {"poll1", "write", "quit", "done"})
  BY DEF StrayInv
<1> QED
  BY <1>1, <1>2, SMTT(30) DEF HoldsStray

\* The steps of the Run goroutine, of the network's owner and of the callers of
\* SendAll: a parked writer is the current connection's.
LEMMA RunKeepsSInv ==
    ASSUME SInv, RunStep \/ Stop \/ \E n \in 1..MaxBatch : SendAll(n)
    PROVE  LiveInv' /\ StrayInv'
<1> USE DEF SInv
<1>1. CASE \/ DialFail \/ Welcome \/ SetRegistered \/ ReadFail \/ Unregister \/ StopInBackoff
           \/ HandshakeLine \/ AnswerPing \/ ServeLine \/ LaneSendGivesUp
           \/ \E ch \in Channels : Rejoin(ch) \/ SelfJoin(ch) \/ SelfPart(ch)
  <2>1. UNCHANGED <<conn, cctx, wpc, wmsg, wire>>
    BY <1>1, ZenonT(60) DEF DialFail, Welcome, SetRegistered, ReadFail, Unregister, StopInBackoff,
                HandshakeLine, AnswerPing, ServeLine, Serves, LaneSendGivesUp, Rejoin, SelfJoin,
                SelfPart, writerVars
  <2>2. /\ phase' \in {"backoff", "dialing", "stopped"} => phase \in {"backoff", "dialing", "stopped"}
        /\ phase' = "dialing" => phase = "dialing"
    BY <1>1, ZenonT(60) DEF DialFail, Welcome, SetRegistered, ReadFail, Unregister, StopInBackoff,
                HandshakeLine, AnswerPing, ServeLine, Serves, LaneSendGivesUp, Leaving, Rejoin,
                SelfJoin, SelfPart
  <2>3. LiveInv'
    BY <2>1, <2>2, SMTT(30) DEF LiveInv
  <2> QED
    BY <2>1, <2>3, StrayFrame DEF Ended
<1>2. CASE StartConn
  <2>1. /\ UNCHANGED <<cctx, wpc, wmsg, wire>> /\ phase = "backoff"
        /\ conn' = conn + 1 /\ conn \in Nat /\ Conns \subseteq Nat
    BY <1>2, BoundsAssumption DEF StartConn, writerVars, IInv, ScalarInv, Conns
  <2>2. LiveInv'
    BY <2>1 DEF LiveInv
  <2> QED
    BY <2>1, <2>2, StrayFrame DEF Ended
<1>3. CASE DialOK
  <2>1. conn \in Conns /\ phase = "dialing" /\ UNCHANGED <<conn, wmsg, wire>>
    BY <1>3 DEF DialOK, IInv, PhaseInv
  <2>2. /\ cctx' = [cctx EXCEPT ![conn] = IF parentDone THEN "canceled" ELSE "live"]
        /\ wpc' = [wpc EXCEPT ![conn] = "poll1"] /\ phase' = "registering"
    BY <1>3 DEF DialOK
  <2>3. LiveInv'
    BY <2>1, <2>2 DEF LiveInv, IInv, ScalarInv, WriterInv
  <2>4. \A c \in Conns : Ended(c) => Ended(c)'
    BY <2>1, <2>2 DEF Ended, LiveInv, IInv, ScalarInv
  <2>5. \A c \in Conns : wpc'[c] = "poll1" \/ (wpc'[c] = wpc[c] /\ wmsg'[c] = wmsg[c])
    BY <2>1, <2>2, SMTT(30) DEF IInv, WriterInv
  <2> QED
    BY <2>1, <2>3, <2>4, <2>5, StrayFrame
<1>4. CASE LaneSend
  <2>1. conn \in Conns /\ sending \in LinesOf(conn) /\ UNCHANGED <<conn, phase, cctx, wire>>
    BY <1>4 DEF LaneSend, IInv, SendingInv, PhaseInv
  <2>2. \/ UNCHANGED <<wpc, wmsg>>
        \/ Parked(conn) /\ HandOver(conn, sending)
    BY <1>4 DEF LaneSend, SendInternal, SendUrgent
  <2>3. LiveInv'
    BY <2>1, <2>2 DEF LiveInv, Parked, HandOver, IInv, WriterInv
  <2>4. \A c \in Conns : \/ wpc'[c] = wpc[c] /\ wmsg'[c] = wmsg[c]
                         \/ wpc'[c] = "write" /\ wmsg'[c].gen = c
    BY <2>1, <2>2, SMTT(30) DEF HandOver, LinesOf, IInv, WriterInv
  <2> QED
    BY <2>1, <2>3, <2>4, StrayFrame DEF Ended
<1>5. CASE CancelConn
  <2>1. conn \in Conns /\ UNCHANGED <<conn, wmsg, wire>>
    BY <1>5 DEF CancelConn, IInv, PhaseInv
  <2>2. /\ cctx' = IF cctx[conn] = "live" THEN [cctx EXCEPT ![conn] = "canceled"] ELSE cctx
        /\ wpc' = IF Parked(conn) THEN [wpc EXCEPT ![conn] = "quit"] ELSE wpc
    BY <1>5 DEF CancelConn, EndContext
  <2>3. LiveInv'
    BY <1>5, <2>1, <2>2 DEF CancelConn, LiveInv, Parked, IInv, ScalarInv, WriterInv
  <2>4. \A c \in Conns : Ended(c) => Ended(c)'
    BY <2>1, <2>2 DEF Ended, IInv, ScalarInv
  <2>5. \A c \in Conns : wpc'[c] = "quit" \/ (wpc'[c] = wpc[c] /\ wmsg'[c] = wmsg[c])
    BY <2>1, <2>2, SMTT(30) DEF IInv, WriterInv
  <2> QED
    BY <2>1, <2>3, <2>4, <2>5, StrayFrame
<1>6. CASE Stop
  <2>1. UNCHANGED <<conn, phase, wmsg, wire>>
    BY <1>6, ZenonT(60) DEF Stop, runVars
  <2>2. /\ cctx' = [c \in Conns |-> IF cctx[c] = "live" THEN "canceled" ELSE cctx[c]]
        /\ wpc' = [c \in Conns |-> IF Parked(c) THEN "quit" ELSE wpc[c]]
    BY <1>6 DEF Stop
  <2>3. LiveInv'
    BY <2>1, <2>2 DEF LiveInv, Parked
  <2>4. \A c \in Conns : Ended(c) => Ended(c)'
    BY <2>2 DEF Ended
  <2>5. \A c \in Conns : wpc'[c] = "quit" \/ (wpc'[c] = wpc[c] /\ wmsg'[c] = wmsg[c])
    BY <2>1, <2>2
  <2> QED
    BY <2>1, <2>3, <2>4, <2>5, StrayFrame
<1>7. CASE \E n \in 1..MaxBatch : SendAll(n)
  <2> PICK n \in 1..MaxBatch : SendAll(n)
    BY <1>7
  <2>1. UNCHANGED <<conn, phase, cctx, wire>>
    BY DEF SendAll, runVars
  <2>2. CASE \E c \in Conns : Parked(c)
    <3>1. PICK c \in Conns : Parked(c) /\ HandOver(c, Head(out \o Batch(n)))
      BY <2>2, ZenonT(60) DEF SendAll
    <3>2. c = conn
      BY <3>1 DEF Parked, LiveInv
    <3>3. Head(out \o Batch(n)) \in UserLinesOf(conn)
      <4>1. Batch(n) \in Seq(UserLinesOf(conn)) /\ Len(Batch(n)) = n /\ n >= 1
        BY BatchLines
      <4>2. out \o Batch(n) \in Seq(UserLinesOf(conn)) /\ Len(out \o Batch(n)) = Len(out) + n
            /\ Len(out) \in Nat
        BY <4>1, ConcatProperties, LenProperties DEF IInv, OutInv
      <4>3. out \o Batch(n) # <<>>
        BY <4>1, <4>2
      <4> QED
        BY <4>2, <4>3, TakeHead
    <3>4. LiveInv'
      BY <2>1, <3>1 DEF LiveInv, Parked, HandOver, IInv, WriterInv
    <3>5. \A d \in Conns : \/ wpc'[d] = wpc[d] /\ wmsg'[d] = wmsg[d]
                           \/ wpc'[d] = "write" /\ wmsg'[d].gen = d
      BY <3>1, <3>2, <3>3, ZenonT(60) DEF HandOver, UserLinesOf, IInv, WriterInv
    <3> QED
      BY <2>1, <3>4, <3>5, StrayFrame DEF Ended
  <2>3. CASE ~ \E c \in Conns : Parked(c)
    <3>1. UNCHANGED <<wpc, wmsg>>
      BY <2>3 DEF SendAll, writerVars
    <3>2. LiveInv'
      BY <2>1, <3>1, SMTT(30) DEF LiveInv
    <3> QED
      BY <2>1, <3>1, <3>2, StrayFrame DEF Ended
  <2> QED
    BY <2>2, <2>3
<1> QED
  BY <1>1, <1>2, <1>3, <1>4, <1>5, <1>6, <1>7 DEF RunStep

\* A select of a writer: with its context ended it takes a line of m.out only
\* from the last select.
LEMMA SelectKeepsSInv ==
    ASSUME SInv, NEW c \in Conns, Poll1(c) \/ Poll2(c) \/ Select(c)
    PROVE  LiveInv' /\ StrayInv'
<1> USE DEF SInv
<1>1. UNCHANGED <<conn, phase, cctx, wire>> /\ wpc[c] \notin {"none", "parked"}
  BY DEF Poll1, Poll2, Select, writerFrame, runVars
<1>2. c \in Nat /\ conn \in Nat
  BY BoundsAssumption DEF Conns, IInv, ScalarInv
<1>3. CASE SeeDone(c)
  <2>1. wpc' = [wpc EXCEPT ![c] = "quit"] /\ UNCHANGED wmsg
    BY <1>3 DEF SeeDone
  <2>2. LiveInv'
    BY <1>1, <2>1 DEF LiveInv, IInv, WriterInv
  <2> QED
    BY <1>1, <2>1, <2>2, StrayFrame DEF Ended, IInv, WriterInv
<1>4. CASE ~Ended(c) /\ \E next \in {"poll2", "select", "parked"} : FallThrough(c, next)
  <2>1. PICK next \in {"poll2", "select", "parked"} : wpc' = [wpc EXCEPT ![c] = next] /\ UNCHANGED wmsg
    BY <1>4, ZenonT(60) DEF FallThrough
  <2>2. cctx[c] = "live"
    BY <1>1, <1>4 DEF Ended, LiveInv, IInv, ScalarInv
  <2>3. LiveInv'
    BY <1>1, <2>1, <2>2 DEF LiveInv, IInv, WriterInv
  <2>4. \A d \in Conns : \/ wpc'[d] = wpc[d] /\ wmsg'[d] = wmsg[d]
                         \/ wpc'[d] \in {"poll2", "select", "parked"} /\ ~Ended(d)
    BY <1>4, <2>1 DEF IInv, WriterInv
  <2> QED
    BY <1>1, <2>3, <2>4, StrayFrame DEF Ended
<1>5. CASE TakeUrgent(c) \/ TakeInternal(c)
  <2>1. PICK line \in LinesOf(c) : HandOver(c, line)
    BY <1>5, TakeHead DEF TakeUrgent, TakeInternal, Take, IInv, LaneInv
  <2>2. LiveInv'
    BY <1>1, <2>1 DEF HandOver, LiveInv, IInv, WriterInv
  <2>3. \A d \in Conns : \/ wpc'[d] = wpc[d] /\ wmsg'[d] = wmsg[d]
                         \/ wpc'[d] = "write" /\ wmsg'[d].gen = d
    BY <2>1 DEF HandOver, LinesOf, IInv, WriterInv
  <2> QED
    BY <1>1, <2>2, <2>3, StrayFrame, ZenonT(60) DEF Ended
<1>6. CASE wpc[c] = "select" /\ TakeOut(c)
  <2>1. PICK line \in UserLinesOf(conn) : HandOver(c, line)
    BY <1>6, TakeHead DEF TakeOut, Take, IInv, OutInv
  <2>2. LiveInv'
    BY <1>1, <2>1 DEF HandOver, LiveInv, IInv, WriterInv
  <2>3. c = conn \/ Ended(c)
    BY <1>1 DEF Ended, LiveInv, IInv, ScalarInv
  <2>4. \A d \in Conns : \/ wpc'[d] = wpc[d] /\ wmsg'[d] = wmsg[d]
                         \/ wpc'[d] = "write" /\ wmsg'[d].gen = d
                         \/ wpc'[d] = "write" /\ wpc[d] = "select" /\ Ended(d)
    BY <1>6, <2>1, <2>3 DEF HandOver, UserLinesOf, IInv, WriterInv
  <2> QED
    BY <1>1, <2>2, <2>4, StrayFrame, ZenonT(60) DEF Ended
<1> QED
  BY <1>3, <1>4, <1>5, <1>6, SMTT(30) DEF Poll1, Poll2, Select

\* writeOne, sayQuit and the closer: the one stray a writer holds may reach the
\* wire, and none follows it.
LEMMA WriteKeepsSInv ==
    ASSUME SInv, NEW c \in Conns,
           \/ Written(c) \/ DropOverlong(c) \/ WaitFails(c) \/ WriteFails(c)
           \/ SayQuit(c) \/ CloseSocket(c)
    PROVE  LiveInv' /\ StrayInv'
<1> USE DEF SInv
<1>1. c \in Nat /\ wire[c] \in Seq(Lines)
  BY BoundsAssumption DEF Conns, IInv, WireInv
<1>2. CASE Written(c)
  <2>1. /\ wpc[c] = "write" /\ UNCHANGED <<conn, phase, cctx>>
        /\ wpc' = [wpc EXCEPT ![c] = "poll1"] /\ wmsg' = [wmsg EXCEPT ![c] = NoLine]
        /\ wire' = [wire EXCEPT ![c] = Append(@, wmsg[c])]
    BY <1>2 DEF Written, runVars
  <2>2. LiveInv'
    BY <2>1 DEF LiveInv, IInv, WriterInv
  <2>3. wmsg[c] \in Lines /\ wmsg[c].gen \in Nat
    <3>1. wmsg[c] \in Lines
      BY <2>1, OwnLines DEF IInv, WriterInv
    <3> QED
      BY <3>1, GenNat
  <2>4. /\ OneStray(c, Append(wire[c], wmsg[c]))
        /\ NoStray(c, Append(wire[c], wmsg[c])) \/ Ended(c)
    <3>1. CASE wmsg[c].gen <= c
      BY <1>1, <2>3, <3>1, AppendStray DEF StrayInv
    <3>2. CASE wmsg[c].gen > c
      <4>1. Ended(c) /\ NoStray(c, wire[c])
        BY <2>1, <3>2, SMTT(30) DEF StrayInv, HoldsStray
      <4> QED
        BY <1>1, <2>3, <4>1, AppendStray
    <3>3. wmsg[c].gen <= c \/ wmsg[c].gen > c
      BY <1>1, <2>3
    <3> QED
      BY <3>1, <3>2, <3>3, Zenon
  <2>5. ASSUME NEW d \in Conns
        PROVE  /\ OneStray(d, wire'[d])
               /\ HoldsStray(d)' => Ended(d)' /\ NoStray(d, wire'[d])
               /\ NoStray(d, wire'[d])
                    \/ (Ended(d)' /\ wpc'[d] \in {"poll1", "write", "quit", "done"})
    <3>1. CASE d = c
      <4>1. wire'[c] = Append(wire[c], wmsg[c]) /\ wpc'[c] = "poll1" /\ (Ended(c)' <=> Ended(c))
        BY <2>1 DEF IInv, WireInv, WriterInv, Ended
      <4> QED
        BY <2>4, <3>1, <4>1, ZenonT(60) DEF HoldsStray
    <3>2. CASE d # c
      <4>1. /\ wire'[d] = wire[d] /\ wpc'[d] = wpc[d] /\ wmsg'[d] = wmsg[d]
            /\ Ended(d)' <=> Ended(d)
        BY <2>1, <3>2 DEF IInv, WireInv, WriterInv, Ended
      <4> QED
        BY <4>1, ZenonT(60) DEF HoldsStray, StrayInv
    <3> QED
      BY <3>1, <3>2
  <2>6. StrayInv'
    BY <2>5, ZenonT(60) DEF StrayInv, OneStray, NoStray
  <2> QED
    BY <2>2, <2>6, Zenon
<1>3. CASE DropOverlong(c) \/ WaitFails(c)
  <2>1. /\ UNCHANGED <<conn, phase, cctx, wire>> /\ wpc[c] = "write"
        /\ \E to \in {"poll1", "quit"} : wpc' = [wpc EXCEPT ![c] = to]
        /\ wmsg' = [wmsg EXCEPT ![c] = NoLine]
    BY <1>3, ZenonT(60) DEF DropOverlong, WaitFails, runVars
  <2>2. LiveInv'
    BY <2>1 DEF LiveInv, IInv, WriterInv
  <2>3. \A d \in Conns : \/ wpc'[d] = wpc[d] /\ wmsg'[d] = wmsg[d]
                         \/ wpc'[d] \in {"poll1", "quit", "done"}
    BY <2>1 DEF IInv, WriterInv
  <2> QED
    BY <2>1, <2>2, <2>3, StrayFrame DEF Ended
<1>4. CASE WriteFails(c)
  <2>1. /\ UNCHANGED <<conn, phase, wire>> /\ wpc[c] = "write"
        /\ cctx' = IF cctx[c] = "live" THEN [cctx EXCEPT ![c] = "failed"] ELSE cctx
        /\ wpc' = [wpc EXCEPT ![c] = "quit"]
        /\ wmsg' = [wmsg EXCEPT ![c] = NoLine]
    BY <1>4, SMTT(30) DEF WriteFails, runVars
  <2>2. LiveInv'
    BY <2>1 DEF LiveInv, IInv, ScalarInv, WriterInv
  <2>3. \A d \in Conns : \/ wpc'[d] = wpc[d] /\ wmsg'[d] = wmsg[d]
                         \/ wpc'[d] \in {"poll1", "quit", "done"}
    BY <2>1 DEF IInv, WriterInv
  <2>4. \A d \in Conns : Ended(d) => Ended(d)'
    BY <2>1 DEF Ended, IInv, ScalarInv
  <2> QED
    BY <2>1, <2>2, <2>3, <2>4, StrayFrame
<1>5. CASE SayQuit(c)
  <2>1. /\ wpc[c] = "quit" /\ UNCHANGED <<conn, phase, cctx, wmsg>>
        /\ wpc' = [wpc EXCEPT ![c] = "done"]
        /\ wire' = wire \/ wire' = [wire EXCEPT ![c] = Append(@, QuitLine(c))]
    BY <1>5, ZenonT(60) DEF SayQuit, runVars
  <2>2. LiveInv'
    BY <2>1 DEF LiveInv, IInv, WriterInv
  <2>3. QuitLine(c) \in Lines /\ QuitLine(c).gen = c
    BY OwnLines DEF LinesOf
  <2>4. /\ OneStray(c, Append(wire[c], QuitLine(c)))
        /\ NoStray(c, wire[c]) => NoStray(c, Append(wire[c], QuitLine(c)))
    BY <1>1, <2>3, AppendStray, SMTT(30) DEF StrayInv
  <2>5. ASSUME NEW d \in Conns
        PROVE  /\ OneStray(d, wire'[d])
               /\ HoldsStray(d)' => Ended(d)' /\ NoStray(d, wire'[d])
               /\ NoStray(d, wire'[d])
                    \/ (Ended(d)' /\ wpc'[d] \in {"poll1", "write", "quit", "done"})
    <3>1. CASE d = c
      <4>1. /\ wire'[c] = wire[c] \/ wire'[c] = Append(wire[c], QuitLine(c))
            /\ wpc'[c] = "done" /\ (Ended(c)' <=> Ended(c))
        BY <2>1 DEF IInv, WireInv, WriterInv, Ended
      <4> QED
        BY <2>4, <3>1, <4>1, ZenonT(60) DEF HoldsStray, StrayInv
    <3>2. CASE d # c
      <4>1. /\ wire'[d] = wire[d] /\ wpc'[d] = wpc[d] /\ wmsg'[d] = wmsg[d]
            /\ Ended(d)' <=> Ended(d)
        BY <2>1, <3>2 DEF IInv, WireInv, WriterInv, Ended
      <4> QED
        BY <4>1, ZenonT(60) DEF HoldsStray, StrayInv
    <3> QED
      BY <3>1, <3>2
  <2>6. StrayInv'
    BY <2>5, ZenonT(60) DEF StrayInv, OneStray, NoStray
  <2> QED
    BY <2>2, <2>6, Zenon
<1>6. CASE CloseSocket(c)
  <2>1. UNCHANGED <<conn, phase, cctx, wpc, wmsg, wire>>
    BY <1>6 DEF CloseSocket, runVars, writerVars
  <2>2. LiveInv'
    BY <2>1, SMTT(30) DEF LiveInv
  <2> QED
    BY <2>1, <2>2, StrayFrame, ZenonT(60) DEF Ended
<1> QED
  BY <1>2, <1>3, <1>4, <1>5, <1>6

\* Every step keeps the strengthened invariant.
LEMMA NextKeepsSInv == SInv /\ [Next]_vars => SInv'
<1> SUFFICES ASSUME SInv, [Next]_vars PROVE LiveInv' /\ StrayInv'
  BY NextKeepsIInv DEF SInv
<1>1. CASE RunStep \/ Stop \/ \E n \in 1..MaxBatch : SendAll(n)
  BY <1>1, RunKeepsSInv
<1>2. CASE \E c \in Conns : WriterStep(c) \/ CloseSocket(c)
  BY <1>2, SelectKeepsSInv, WriteKeepsSInv, SMTT(30) DEF WriterStep
<1>3. CASE UNCHANGED vars
  <2>1. UNCHANGED <<conn, phase, cctx, wpc, wmsg, wire>>
    BY <1>3 DEF vars
  <2>2. LiveInv'
    BY <2>1 DEF SInv, LiveInv
  <2> QED
    BY <2>1, <2>2, StrayFrame DEF SInv, Ended
<1> QED
  BY <1>1, <1>2, <1>3 DEF Next, Terminated

-----------------------------------------------------------------------------
\* What the invariant says of the lines on the wire.
LEMMA IInvImplies == IInv => TypeOK /\ NoStaleDelivery
<1> SUFFICES ASSUME IInv PROVE TypeOK /\ NoStaleDelivery
  OBVIOUS
<1>1. TypeOK
  <2>1. UserLinesOf(conn) \subseteq UserLines
    BY DEF UserLinesOf
  <2>2. out \in Seq(UserLines)
    BY <2>1 DEF IInv, OutInv
  <2>3. sending \in Lines \cup {NoLine}
    BY DEF IInv, SendingInv, LinesOf
  <2> QED
    BY <2>2, <2>3 DEF IInv, TypeOK, ScalarInv, OutInv, LaneInv, WriterInv, WireInv
<1>2. \A c \in Conns : \A i \in 1..Len(wire[c]) : wire[c][i] \in LinesOn(c)
  BY ElementOfSeq DEF IInv, WireInv
<1> QED
  BY <1>1, <1>2 DEF NoStaleDelivery, LinesOn

\* The inductive invariants hold in every reachable state of the send path.
THEOREM Invariance == Spec => []SInv
<1> QED
  BY InitSInv, NextKeepsSInv, PTL DEF Spec

\* Every variable keeps its type, and m.out its capacity, for any number of
\* connections, channels and batches (sendAll checks the room for the whole
\* batch under sendMu).
THEOREM TypeCorrect == Spec => []TypeOK
<1>1. SInv => TypeOK
  BY IInvImplies DEF SInv
<1> QED
  BY <1>1, Invariance, PTL

\* No line queued for one connection is ever written on a later one
\* (manager.go:1067-1071), whatever the scheduling of the writers.
THEOREM NeverConsumedByTheNext == Spec => []NoStaleDelivery
<1>1. SInv => NoStaleDelivery
  BY IInvImplies, SMTT(30) DEF SInv
<1> QED
  BY <1>1, Invariance, PTL

\* runOnce never waits for its writer (manager.go:1526-1569), but a writer that
\* outlives its connection writes at most one line meant for a later one.
THEOREM OldWriterDivertsAtMostOne == Spec => []AtMostOneStray
<1>1. SInv => AtMostOneStray
  BY DEF SInv, StrayInv, OneStray, AtMostOneStray
<1> QED
  BY <1>1, Invariance, PTL

=============================================================================
