------------------------ MODULE BlockIngest_proofs ------------------------
(* Proofs about BlockIngest: its types, the order of the notified blocks,  *)
(* the hand-over to VirtualProcessor, the count of the gap fillers, and the *)
(* durable ledger of cursor and gap rows that no block drops out of.       *)
EXTENDS BlockIngest, FiniteSetTheorems, SequenceTheorems, TLAPS

USE DEF NoBlock, NoFiller

-----------------------------------------------------------------------------
(* Types of what the actions put together.                                 *)

LEMMA BudgetType == ASSUME TypeOK, NEW k \in FaultKinds, Fault(k)
                    PROVE used' \in [FaultKinds -> Nat]
BY DEF TypeOK, Fault

LEMMA MsgType ==
    ASSUME NEW k \in {"connected", "disconnected", "block", "shutdown"},
           NEW n \in Blocks, NEW early \in BOOLEAN
    PROVE  Msg(k, n, early) \in NotifMsgs
BY DEF Msg, NotifMsgs

LEMMA ZeroBlock == 0 \in Blocks
BY BoundsAssumption DEF Blocks

LEMMA IdleType == IdleFiller \in Tasks
BY ZeroBlock DEF IdleFiller, Tasks

\* A task with another state, interrupt flag, request position or progress.
LEMMA StateType ==
    ASSUME NEW t \in Tasks, NEW st \in {"none", "loop", "asked", "parked", "done"}
    PROVE  [t EXCEPT !.st = st] \in Tasks
BY DEF Tasks

LEMMA IntrType ==
    ASSUME NEW t \in Tasks, NEW intr \in {"open", "sent", "closed"}
    PROVE  [t EXCEPT !.intr = intr] \in Tasks
BY DEF Tasks

LEMMA FromType ==
    ASSUME NEW t \in Tasks, NEW b \in Blocks,
           NEW st \in {"none", "loop", "asked", "parked", "done"}
    PROVE  [t EXCEPT !.st = st, !.from = b] \in Tasks
BY DEF Tasks

LEMMA PosType ==
    ASSUME NEW t \in Tasks, NEW n \in Nat
    PROVE  [t EXCEPT !.pos = n] \in Tasks
BY DEF Tasks

LEMMA NewFillerType ==
    ASSUME NEW from \in Blocks, NEW to \in Blocks, NEW intr \in {"open", "sent", "closed"}
    PROVE  NewFiller(from, to, intr) \in Tasks
BY BoundsAssumption DEF NewFiller, Tasks, Blocks

LEMMA CursorPosType == ASSUME TypeOK PROVE CursorPos \in Blocks
BY ZeroBlock DEF TypeOK, CursorPos

LEMMA DroppedType == ASSUME TypeOK, NEW to \in Blocks
                     PROVE Dropped(to) \in [FillerIds -> Tasks]
<1>1. \A f \in FillerIds : fillers[f] \in Tasks
  BY DEF TypeOK
<1>2. \A f \in FillerIds : [fillers[f] EXCEPT !.intr = "closed"] \in Tasks
  BY <1>1, IntrType
<1> QED BY <1>1, <1>2 DEF Dropped

LEMMA InterruptType == ASSUME TypeOK, InterruptAll
                       PROVE /\ fillers' \in [FillerIds -> Tasks]
                             /\ gapsFillers' \in [Blocks -> FillerIds \cup {NoFiller}]
<1>1. \A f \in FillerIds : fillers[f] \in Tasks
  BY DEF TypeOK
<1>2. \A f \in FillerIds : [fillers[f] EXCEPT !.intr = "sent"] \in Tasks
  BY <1>1, IntrType
<1> QED BY <1>1, <1>2 DEF InterruptAll

\* The usize arithmetic of gaps_filling_in_progress stays in its range.
LEMMA ModType == ASSUME NEW k \in Int PROVE k % UsizeMod \in 0..(UsizeMod - 1)
<1>1. UsizeMod \in Nat /\ UsizeMod > 0
  BY BoundsAssumption
<1> QED BY <1>1

\* The counter is an integer before and after one more or one fewer filler.
LEMMA CountType == ASSUME TypeOK PROVE inProgress + 1 \in Int /\ inProgress - 1 \in Int
<1>1. inProgress \in 0..(UsizeMod - 1)
  BY DEF TypeOK
<1> QED BY <1>1

LEMMA FillerEndsType == ASSUME TypeOK, NEW to \in Blocks, FillerEnds(to)
                        PROVE /\ fillers' \in [FillerIds -> Tasks]
                              /\ gapsFillers' \in [Blocks -> FillerIds \cup {NoFiller}]
                              /\ inProgress' \in 0..(UsizeMod - 1)
<1>1. fillers' \in [FillerIds -> Tasks]
  BY DroppedType DEF FillerEnds
<1>2. gapsFillers' \in [Blocks -> FillerIds \cup {NoFiller}]
  BY DEF FillerEnds, TypeOK
<1>3. inProgress' \in 0..(UsizeMod - 1)
  <2>1. inProgress' = (inProgress - 1) % UsizeMod
    BY DEF FillerEnds
  <2> QED BY <2>1, CountType, ModType
<1> QED BY <1>1, <1>2, <1>3

LEMMA ResultType ==
    ASSUME TypeOK, NEW f \in FillerIds, NEW lo \in Blocks, NEW hi \in Blocks,
           NEW kind \in {"update", "finished", "interrupted", "error"},
           lo <= hi, SendResult(f, kind, lo, hi)
    PROVE  results' \in Seq(GapResults)
<1>1. fillers[f] \in Tasks
  BY DEF TypeOK
<1>2. [src |-> f, kind |-> kind, to |-> fillers[f].to, lo |-> lo, hi |-> hi] \in GapResults
  BY <1>1 DEF GapResults, Tasks
<1> QED BY <1>2, AppendProperties DEF SendResult, TypeOK

LEMMA TypeInit == Init => TypeOK
<1> SUFFICES ASSUME Init PROVE TypeOK
  OBVIOUS
<1>1. fillers \in [FillerIds -> Tasks]
  BY IdleType DEF Init
<1>2. nodeQ \in Seq(NodeMsgs) /\ notif \in Seq(NotifMsgs) /\ results \in Seq(GapResults)
  BY DEF Init
<1>3. inProgress \in 0..(UsizeMod - 1) /\ fresh \in 0..MaxFresh
  BY BoundsAssumption DEF Init
<1> QED BY <1>1, <1>2, <1>3, ZeroBlock DEF Init, TypeOK

LEMMA TypeNode ==
    ASSUME TypeOK,
           NewBlock \/ Register \/ ConnectOk \/ ConnectFails \/ LinkDrops
             \/ HandleDisconnect \/ HandleNotification \/ HandleShutdown \/ HandleVccClosed
    PROVE  TypeOK'
<1> USE DEF nodeVars, bpVars, dbVars, histVars
<1>1. CASE NewBlock
  <2>1. tip' \in Blocks
    BY <1>1, BoundsAssumption DEF NewBlock, TypeOK, Blocks
  <2>a. [n |-> tip + 1, early |-> FALSE] \in NodeMsgs
    BY <1>1, <2>1 DEF NewBlock, NodeMsgs
  <2>2. nodeQ' \in Seq(NodeMsgs)
    BY <1>1, <2>a, AppendProperties DEF NewBlock, TypeOK
  <2> QED BY <1>1, <2>1, <2>2 DEF TypeOK, NewBlock
<1>2. CASE Register
  BY <1>2 DEF TypeOK, Register
<1>3. CASE ConnectOk
  <2>a. Msg("connected", tip, FALSE) \in NotifMsgs
    BY MsgType, ZeroBlock DEF TypeOK
  <2>1. notif' \in Seq(NotifMsgs)
    BY <1>3, <2>a, AppendProperties DEF ConnectOk, TypeOK
  <2>2. fillers' \in [FillerIds -> Tasks]
    <3>1. \A f \in FillerIds : fillers[f] \in Tasks
      BY DEF TypeOK
    <3>2. \A f \in FillerIds : [fillers[f] EXCEPT !.st = "asked"] \in Tasks
      BY <3>1, StateType
    <3> QED BY <1>3, <3>1, <3>2 DEF ConnectOk
  <2> QED BY <1>3, <2>1, <2>2 DEF TypeOK, ConnectOk
<1>4. CASE ConnectFails
  <2>a. Msg("disconnected", 0, FALSE) \in NotifMsgs
    BY MsgType, ZeroBlock DEF TypeOK
  <2>1. notif' \in Seq(NotifMsgs)
    BY <1>4, <2>a, AppendProperties DEF ConnectFails, TypeOK
  <2>2. nodeQ' \in Seq(NodeMsgs)
    <3>1. \A i \in DOMAIN nodeQ : nodeQ[i] \in NodeMsgs
      BY DEF TypeOK
    <3>2. \A i \in DOMAIN nodeQ : [nodeQ[i] EXCEPT !.early = @ \/ nodeQ[i].n > regTip] \in NodeMsgs
      BY <3>1 DEF NodeMsgs
    <3>3. Len(nodeQ) \in Nat /\ DOMAIN nodeQ = 1..Len(nodeQ)
      BY DEF TypeOK
    <3> QED BY <1>4, <3>2, <3>3 DEF ConnectFails
  <2>3. used' \in [FaultKinds -> Nat]
    BY <1>4, BudgetType DEF ConnectFails, FaultKinds
  <2> QED BY <1>4, <2>1, <2>2, <2>3 DEF TypeOK, ConnectFails
<1>5. CASE LinkDrops
  BY <1>5, BudgetType DEF TypeOK, LinkDrops, FaultKinds
<1>6. CASE HandleDisconnect
  <2>a. Msg("disconnected", 0, FALSE) \in NotifMsgs
    BY MsgType, ZeroBlock DEF TypeOK
  <2>1. notif' \in Seq(NotifMsgs)
    BY <1>6, <2>a, AppendProperties DEF HandleDisconnect, TypeOK
  <2> QED BY <1>6, <2>1 DEF TypeOK, HandleDisconnect
<1>7. CASE HandleNotification
  <2>1. Head(nodeQ) \in NodeMsgs /\ Tail(nodeQ) \in Seq(NodeMsgs)
    BY <1>7 DEF HandleNotification, TypeOK
  <2>2. Msg("block", Head(nodeQ).n, Head(nodeQ).early) \in NotifMsgs
    BY <2>1, MsgType DEF NodeMsgs
  <2> QED BY <1>7, <2>1, <2>2 DEF TypeOK, HandleNotification
<1>8. CASE HandleShutdown
  <2>a. Msg("shutdown", 0, FALSE) \in NotifMsgs
    BY MsgType, ZeroBlock DEF TypeOK
  <2>1. notif' \in Seq(NotifMsgs)
    BY <1>8, <2>a, AppendProperties DEF HandleShutdown, TypeOK
  <2>2. used' \in [FaultKinds -> Nat]
    BY <1>8, BudgetType DEF HandleShutdown, FaultKinds
  <2> QED BY <1>8, <2>1, <2>2 DEF TypeOK, HandleShutdown
<1>9. CASE HandleVccClosed
  <2>a. Msg("shutdown", 0, FALSE) \in NotifMsgs
    BY MsgType, ZeroBlock DEF TypeOK
  <2>1. notif' \in Seq(NotifMsgs)
    BY <1>9, <2>a, AppendProperties DEF HandleVccClosed, TypeOK
  <2>2. used' \in [FaultKinds -> Nat]
    BY <1>9, BudgetType DEF HandleVccClosed, FaultKinds
  <2> QED BY <1>9, <2>1, <2>2 DEF TypeOK, HandleVccClosed
<1> QED BY <1>1, <1>2, <1>3, <1>4, <1>5, <1>6, <1>7, <1>8, <1>9

LEMMA TypeFillers ==
    ASSUME TypeOK, NEW f \in FillerIds,
           FillerLoop(f) \/ ParkRequest(f) \/ RefuseRequest(f) \/ AnswerRequest(f)
             \/ FailRequest(f)
    PROVE  TypeOK'
<1> USE DEF nodeVars, bpVars, dbVars, histVars
<1>0. fillers[f] \in Tasks /\ fillers \in [FillerIds -> Tasks]
  BY DEF TypeOK
<1>s. \A st \in {"none", "loop", "asked", "parked", "done"} :
        [fillers EXCEPT ![f].st = st] \in [FillerIds -> Tasks]
  BY <1>0, StateType
<1>1. CASE FillerLoop(f)
  <2>1. fillers' \in [FillerIds -> Tasks]
    BY <1>1, <1>s DEF FillerLoop
  <2>2. results' \in Seq(GapResults)
    <3>1. CASE fillers[f].intr # "open"
      BY <1>1, <3>1, ResultType, ZeroBlock DEF FillerLoop
    <3>2. CASE fillers[f].intr = "open"
      BY <1>1, <3>2 DEF FillerLoop, TypeOK
    <3> QED BY <3>1, <3>2
  <2> QED BY <1>1, <2>1, <2>2 DEF TypeOK, FillerLoop
<1>2. CASE ParkRequest(f)
  BY <1>2, <1>s DEF TypeOK, ParkRequest
<1>3. CASE RefuseRequest(f)
  BY <1>3, <1>s DEF TypeOK, RefuseRequest
<1>4. CASE AnswerRequest(f)
  <2> DEFINE lo == fillers[f].from
             finished(hi) == lo <= fillers[f].to /\ fillers[f].to <= hi
  <2>1. PICK hi \in Answers(f) :
          /\ SendResult(f, IF finished(hi) THEN "finished" ELSE "update", lo, hi)
          /\ fillers' = [fillers EXCEPT ![f].st = IF finished(hi) THEN "done" ELSE "loop",
                                        ![f].from = IF finished(hi) THEN @ ELSE hi]
    BY <1>4 DEF AnswerRequest
  <2>2. lo \in Blocks
    BY <1>0 DEF Tasks
  <2>3. hi \in Blocks /\ lo <= hi
    BY <2>2, BoundsAssumption DEF Answers, TypeOK, Blocks
  <2>4. results' \in Seq(GapResults)
    BY <2>1, <2>2, <2>3, ResultType
  <2>5. fillers' \in [FillerIds -> Tasks]
    <3>1. CASE finished(hi)
      <4>1. [fillers[f] EXCEPT !.st = "done", !.from = lo] \in Tasks
        BY <1>0, <2>2, FromType
      <4> QED BY <2>1, <3>1, <4>1, <1>0
    <3>2. CASE ~finished(hi)
      <4>1. [fillers[f] EXCEPT !.st = "loop", !.from = hi] \in Tasks
        BY <1>0, <2>3, FromType
      <4> QED BY <2>1, <3>2, <4>1, <1>0
    <3> QED BY <3>1, <3>2
  <2> QED BY <1>4, <2>4, <2>5 DEF TypeOK, AnswerRequest
<1>5. CASE FailRequest(f)
  <2>1. results' \in Seq(GapResults)
    BY <1>5, ResultType, ZeroBlock DEF FailRequest
  <2>2. used' \in [FaultKinds -> Nat]
    BY <1>5, BudgetType DEF FailRequest, FaultKinds
  <2> QED BY <1>5, <1>s, <2>1, <2>2 DEF TypeOK, FailRequest
<1> QED BY <1>1, <1>2, <1>3, <1>4, <1>5

\* The receives of the two channels.
LEMMA ReceivesType == ASSUME TypeOK, NEW k, Receives(k)
                      PROVE /\ Head(notif) \in NotifMsgs /\ Head(notif).n \in Blocks
                            /\ Head(notif).early \in BOOLEAN
                            /\ notif' \in Seq(NotifMsgs)
<1>1. Head(notif) \in NotifMsgs /\ Tail(notif) \in Seq(NotifMsgs)
  BY DEF Receives, TypeOK
<1> QED BY <1>1 DEF Receives, NotifMsgs

LEMMA HeadResultType ==
    ASSUME TypeOK, results # <<>>
    PROVE  /\ Head(results) \in GapResults
           /\ Head(results).src \in FillerIds /\ Head(results).to \in Blocks
           /\ Head(results).lo \in Blocks /\ Head(results).hi \in Blocks
           /\ Head(results).lo <= Head(results).hi
           /\ Tail(results) \in Seq(GapResults)
<1>1. Head(results) \in GapResults /\ Tail(results) \in Seq(GapResults)
  BY DEF TypeOK
<1> QED BY <1>1 DEF GapResults

LEMMA EndTurnType == ASSUME NEW shut, NEW n, EndTurn(shut, n) PROVE bp' \in {"running", "stopped"}
BY DEF EndTurn

LEMMA MaxType == ASSUME NEW a \in Blocks, NEW b \in Blocks PROVE MaxOf(a, b) \in Blocks
BY DEF MaxOf

LEMMA IntervalType == ASSUME NEW a \in Blocks, NEW b \in Blocks
                      PROVE (a + 1)..b \subseteq Blocks /\ (a + 1)..(b - 1) \subseteq Blocks
BY BoundsAssumption DEF Blocks

LEMMA ProcessBlockType ==
    ASSUME TypeOK, NEW b \in Blocks, ProcessBlock(b)
    PROVE  daaIndex' \subseteq Blocks /\ headers' \subseteq Blocks /\ announced' \subseteq Blocks
BY DEF ProcessBlock, TypeOK

LEMMA RowsType == ASSUME TypeOK
                  PROVE  /\ Rows \subseteq Blocks /\ IsFiniteSet(Rows)
                         /\ \A sink \in Blocks :
                              /\ Cardinality(Rows \cup {sink}) \in 0..(UsizeMod - 1)
                              /\ Cardinality(Rows) \in 0..(UsizeMod - 1)
<1>1. IsFiniteSet(Blocks) /\ Cardinality(Blocks) = MaxBlock + 1
  BY BoundsAssumption, FS_Interval DEF Blocks
<1>2. \A S \in SUBSET Blocks : IsFiniteSet(S) /\ Cardinality(S) \in 0..(UsizeMod - 1)
  <2> SUFFICES ASSUME NEW S \in SUBSET Blocks
               PROVE IsFiniteSet(S) /\ Cardinality(S) \in 0..(UsizeMod - 1)
    OBVIOUS
  <2>1. IsFiniteSet(S) /\ Cardinality(S) <= Cardinality(Blocks)
    BY <1>1, FS_Subset
  <2>2. Cardinality(S) \in Nat
    BY <2>1, FS_CardinalityType
  <2> QED BY <1>1, <2>1, <2>2, BoundsAssumption
<1>3. Rows \in SUBSET Blocks /\ \A sink \in Blocks : Rows \cup {sink} \in SUBSET Blocks
  BY DEF Rows
<1> QED BY <1>2, <1>3

LEMMA TypeFirstConnect == ASSUME TypeOK, FirstConnect PROVE TypeOK'
<1> USE DEF nodeVars, bpVars, dbVars, histVars
<1> DEFINE sink == Head(notif).n
           isNew == cursor # sink
           id == MaxBlock + 1 + fresh
<1>1. sink \in Blocks /\ notif' \in Seq(NotifMsgs)
  BY ReceivesType DEF FirstConnect
<1>2. fresh \in 0..MaxFresh /\ (isNew => id \in FillerIds /\ fresh + 1 \in 0..MaxFresh)
  BY BoundsAssumption DEF FirstConnect, TypeOK, FillerIds
<1>3. fresh' \in 0..MaxFresh
  BY <1>2 DEF FirstConnect
<1>4. CursorPos \in Blocks
  BY CursorPosType
<1>5. gaps' \in [Blocks -> Blocks \cup {NoBlock}] /\ lost' \subseteq Blocks
  <2>1. CASE isNew
    BY <1>1, <1>4, <2>1 DEF FirstConnect, InsertGap, Replaced, TypeOK
  <2>2. CASE ~isNew
    BY <2>2 DEF FirstConnect, TypeOK
  <2> QED BY <2>1, <2>2
<1>6. fillers' \in [FillerIds -> Tasks]
  <2>1. \A f \in FillerIds : fillers[f] \in Tasks
    BY DEF TypeOK
  <2>2. NewFiller(CursorPos, sink, "open") \in Tasks
    BY <1>1, <1>4, NewFillerType
  <2>3. \A f \in Rows : /\ NewFiller(gaps[f], f, "open") \in Tasks
                         /\ NewFiller(gaps[f], f, "closed") \in Tasks
    BY NewFillerType DEF Rows, TypeOK
  <2>4. fillers' = [f \in FillerIds |->
                IF isNew /\ f = id THEN NewFiller(CursorPos, sink, "open")
                ELSE IF f \in Rows
                       THEN NewFiller(gaps[f], f, IF isNew /\ f = sink THEN "closed" ELSE "open")
                       ELSE fillers[f]]
    BY DEF FirstConnect
  <2> QED BY <2>1, <2>2, <2>3, <2>4
<1>7. gapsFillers' \in [Blocks -> FillerIds \cup {NoFiller}]
  <2>1. Blocks \subseteq FillerIds
    BY BoundsAssumption DEF Blocks, FillerIds
  <2>2. gapsFillers' = [to \in Blocks |->
                IF isNew /\ to = sink THEN id ELSE IF to \in Rows THEN to ELSE NoFiller]
    BY DEF FirstConnect
  <2> QED BY <1>2, <2>1, <2>2
<1>8. inProgress' \in 0..(UsizeMod - 1)
  <2>1. CASE isNew
    BY <1>1, <2>1, RowsType DEF FirstConnect
  <2>2. CASE ~isNew
    <3>1. inProgress' = Cardinality(Rows \cup {})
      BY <2>2 DEF FirstConnect
    <3>2. Rows \cup {} = Rows
      OBVIOUS
    <3> QED BY <1>1, <3>1, <3>2, RowsType
  <2> QED BY <2>1, <2>2
<1>9. horizon' \in Blocks
  BY <1>1, MaxType DEF FirstConnect, TypeOK
<1>10. bp' \in {"running", "stopped"}
  BY EndTurnType DEF FirstConnect
<1> QED BY <1>1, <1>3, <1>5, <1>6, <1>7, <1>8, <1>9, <1>10 DEF TypeOK, FirstConnect

LEMMA TypeReconnect == ASSUME TypeOK, Reconnect PROVE TypeOK'
<1> USE DEF nodeVars, bpVars, dbVars, histVars
<1> DEFINE sink == Head(notif).n
           id == MaxBlock + 1 + fresh
<1>1. sink \in Blocks /\ notif' \in Seq(NotifMsgs)
  BY ReceivesType DEF Reconnect
<1>2. id \in FillerIds /\ fresh' \in 0..MaxFresh
  BY BoundsAssumption DEF Reconnect, TypeOK, FillerIds
<1>3. lpb \in Blocks
  BY DEF Reconnect, TypeOK
<1>5. gaps' \in [Blocks -> Blocks \cup {NoBlock}] /\ lost' \subseteq Blocks
  BY <1>1, <1>3 DEF Reconnect, InsertGap, Replaced, TypeOK
<1>6. fillers' \in [FillerIds -> Tasks]
  <2>1. NewFiller(lpb, sink, "open") \in Tasks
    BY <1>1, <1>3, NewFillerType
  <2>2. Dropped(sink) \in [FillerIds -> Tasks]
    BY <1>1, DroppedType
  <2>3. fillers' = [Dropped(sink) EXCEPT ![id] = NewFiller(lpb, sink, "open")]
    BY DEF Reconnect
  <2> QED BY <2>1, <2>2, <2>3
<1>7. gapsFillers' \in [Blocks -> FillerIds \cup {NoFiller}]
  BY <1>1, <1>2 DEF Reconnect, TypeOK
<1>8. inProgress' \in 0..(UsizeMod - 1)
  <2>1. inProgress' = (inProgress + 1) % UsizeMod
    BY DEF Reconnect
  <2> QED BY <2>1, CountType, ModType
<1>9. horizon' \in Blocks
  BY <1>1, MaxType DEF Reconnect, TypeOK
<1>10. bp' \in {"running", "stopped"}
  BY EndTurnType DEF Reconnect
<1> QED BY <1>1, <1>2, <1>5, <1>6, <1>7, <1>8, <1>9, <1>10 DEF TypeOK, Reconnect

LEMMA TypeNotification ==
    ASSUME TypeOK, BlindReconnect \/ Disconnected \/ Shutdown \/ BlockNotification
    PROVE  TypeOK'
<1> USE DEF nodeVars, bpVars, dbVars, histVars
<1> DEFINE n == Head(notif).n
<1>1. CASE BlindReconnect
  <2>1. n \in Blocks /\ notif' \in Seq(NotifMsgs)
    BY <1>1, ReceivesType DEF BlindReconnect
  <2>2. horizon' \in Blocks
    BY <1>1, <2>1, MaxType DEF BlindReconnect, TypeOK
  <2>3. lost' \subseteq Blocks
    BY <1>1, <2>1, IntervalType DEF BlindReconnect, TypeOK
  <2> QED BY <1>1, <2>1, <2>2, <2>3, EndTurnType DEF BlindReconnect, TypeOK
<1>2. CASE Disconnected
  <2>1. notif' \in Seq(NotifMsgs)
    BY <1>2, ReceivesType DEF Disconnected
  <2> QED BY <1>2, <2>1, InterruptType, EndTurnType DEF Disconnected, TypeOK
<1>3. CASE Shutdown
  <2>1. notif' \in Seq(NotifMsgs)
    BY <1>3, ReceivesType DEF Shutdown
  <2> QED BY <1>3, <2>1, InterruptType, EndTurnType DEF Shutdown, TypeOK
<1>4. CASE BlockNotification
  <2>1. n \in Blocks /\ notif' \in Seq(NotifMsgs)
    BY <1>4, ReceivesType DEF BlockNotification
  <2>2. horizon' \in Blocks
    BY <1>4, <2>1, MaxType DEF BlockNotification, TypeOK
  <2>3. lost' \subseteq Blocks
    BY <1>4, <2>1, IntervalType DEF BlockNotification, TypeOK
  <2>4. daaIndex' \subseteq Blocks /\ headers' \subseteq Blocks /\ announced' \subseteq Blocks
    BY <1>4, <2>1, ProcessBlockType DEF BlockNotification
  <2> QED BY <1>4, <2>1, <2>2, <2>3, <2>4, EndTurnType DEF BlockNotification, TypeOK
<1> QED BY <1>1, <1>2, <1>3, <1>4

LEMMA TypeResult == ASSUME TypeOK, GapAborted \/ GapBlock PROVE TypeOK'
<1> USE DEF nodeVars, bpVars, dbVars, histVars
<1> DEFINE r == Head(results)
<1>1. CASE GapAborted
  <2>1. r.to \in Blocks /\ Tail(results) \in Seq(GapResults)
    BY <1>1, HeadResultType DEF GapAborted
  <2> QED BY <1>1, <2>1, FillerEndsType, EndTurnType DEF GapAborted, TypeOK
<1>2. CASE GapBlock
  <2> DEFINE last == r.lo = r.hi
             end == RemovesRow(r)
             moved == [fillers EXCEPT ![r.src].pos = MaxOf(@, r.lo + 1)]
  <2>1. /\ r \in GapResults /\ r.src \in FillerIds /\ r.to \in Blocks /\ r.lo \in Blocks
        /\ r.hi \in Blocks /\ r.lo <= r.hi /\ Tail(results) \in Seq(GapResults)
    BY <1>2, HeadResultType DEF GapBlock
  <2>2. daaIndex' \subseteq Blocks /\ headers' \subseteq Blocks /\ announced' \subseteq Blocks
    BY <1>2, <2>1, ProcessBlockType DEF GapBlock
  <2>3. gaps' \in [Blocks -> Blocks \cup {NoBlock}]
    BY <1>2, <2>1 DEF GapBlock, TypeOK
  <2>4. results' \in Seq(GapResults)
    <3>1. CASE last
      BY <1>2, <2>1, <3>1 DEF GapBlock
    <3>2. CASE ~last
      <4>1. r.lo + 1 \in Blocks /\ r.lo + 1 <= r.hi
        BY <2>1, <3>2, BoundsAssumption DEF Blocks
      <4>2. [r EXCEPT !.lo = r.lo + 1] \in GapResults
        BY <2>1, <4>1 DEF GapResults
      <4>3. results[1] = r /\ 1 \in 1..Len(results) /\ results \in Seq(GapResults)
        BY <1>2 DEF GapBlock, TypeOK
      <4>4. results' = [results EXCEPT ![1] = [r EXCEPT !.lo = r.lo + 1]]
        BY <1>2, <3>2, <4>3 DEF GapBlock
      <4> HIDE DEF r
      <4> QED BY <4>2, <4>3, <4>4, ExceptSeq
    <3> QED BY <3>1, <3>2
  <2>5. moved \in [FillerIds -> Tasks]
    <3>1. fillers[r.src] \in Tasks /\ fillers \in [FillerIds -> Tasks]
      BY <2>1 DEF TypeOK
    <3>2. MaxOf(fillers[r.src].pos, r.lo + 1) \in Nat
      BY <2>1, <3>1, BoundsAssumption DEF MaxOf, Tasks, Blocks
    <3>3. [fillers[r.src] EXCEPT !.pos = MaxOf(fillers[r.src].pos, r.lo + 1)] \in Tasks
      BY <3>1, <3>2, PosType
    <3>4. moved = [fillers EXCEPT ![r.src] =
                     [fillers[r.src] EXCEPT !.pos = MaxOf(fillers[r.src].pos, r.lo + 1)]]
      BY <2>1, <3>1
    <3> QED BY <3>1, <3>3, <3>4, <2>1
  <2>6. /\ fillers' \in [FillerIds -> Tasks] /\ inProgress' \in 0..(UsizeMod - 1)
        /\ gapsFillers' \in [Blocks -> FillerIds \cup {NoFiller}]
    <3>1. CASE end
      <4>1. \A f \in FillerIds : Dropped(r.to)[f].intr \in {"open", "sent", "closed"}
        BY <2>1, DroppedType DEF Tasks
      <4>2. \A f \in FillerIds : [moved[f] EXCEPT !.intr = Dropped(r.to)[f].intr] \in Tasks
        BY <2>5, <4>1, IntrType
      <4>3. fillers' = [f \in FillerIds |-> [moved[f] EXCEPT !.intr = Dropped(r.to)[f].intr]]
        BY <1>2, <3>1 DEF GapBlock
      <4>4. fillers' \in [FillerIds -> Tasks]
        BY <4>2, <4>3
      <4>5. inProgress' \in 0..(UsizeMod - 1)
        <5>1. inProgress' = (inProgress - 1) % UsizeMod
          BY <1>2, <3>1 DEF GapBlock
        <5> QED BY <5>1, CountType, ModType
      <4>6. gapsFillers' \in [Blocks -> FillerIds \cup {NoFiller}]
        BY <1>2, <3>1, <2>1 DEF GapBlock, TypeOK
      <4> QED BY <4>4, <4>5, <4>6
    <3>2. CASE ~end
      <4>1. fillers' = moved /\ UNCHANGED <<gapsFillers, inProgress>>
        BY <1>2, <3>2 DEF GapBlock
      <4> QED BY <4>1, <2>5 DEF TypeOK
    <3> QED BY <3>1, <3>2
  <2>7. bp' \in {"running", "stopped"} /\ busy' \in BOOLEAN
    <3>1. busy' \in BOOLEAN
      BY <1>2 DEF GapBlock
    <3>2. bp' \in {"running", "stopped"}
      BY <1>2, EndTurnType DEF GapBlock, TypeOK
    <3> QED BY <3>1, <3>2
  <2> QED BY <1>2, <2>2, <2>3, <2>4, <2>6, <2>7 DEF GapBlock, TypeOK
<1> QED BY <1>1, <1>2

LEMMA TypeRestart == ASSUME TypeOK, Restart PROVE TypeOK'
<1>1. used' \in [FaultKinds -> Nat]
  BY BudgetType DEF Restart, FaultKinds
<1>2. InHand \subseteq Blocks
  <2>1. notif # <<>> => Head(notif).n \in Blocks
    <3>1. notif # <<>> => Head(notif) \in NotifMsgs
      BY DEF TypeOK
    <3> QED BY <3>1 DEF NotifMsgs
  <2>2. results # <<>> => Head(results).lo \in Blocks
    BY HeadResultType
  <2> QED BY <2>1, <2>2 DEF InHand
<1>3. daaIndex' \subseteq Blocks
  BY <1>2 DEF Restart, TypeOK
<1>4. fillers' \in [FillerIds -> Tasks]
  BY IdleType DEF Restart
<1>5. nodeQ' \in Seq(NodeMsgs) /\ notif' \in Seq(NotifMsgs) /\ results' \in Seq(GapResults)
  BY DEF Restart
<1>6. inProgress' \in 0..(UsizeMod - 1) /\ fresh' \in 0..MaxFresh
  BY BoundsAssumption DEF Restart
<1> QED BY <1>1, <1>3, <1>4, <1>5, <1>6 DEF Restart, TypeOK, histVars

LEMMA TypeNext == ASSUME TypeOK, Next PROVE TypeOK'
<1>1. CASE FillerNext
  <2>1. PICK f \in FillerIds : FillerLoop(f) \/ ParkRequest(f) \/ RefuseRequest(f)
                                 \/ AnswerRequest(f) \/ FailRequest(f)
    BY <1>1 DEF FillerNext
  <2> QED BY <2>1, TypeFillers
<1>2. CASE TakeNotification
  BY <1>2, TypeFirstConnect, TypeReconnect, TypeNotification DEF TakeNotification
<1>3. CASE TakeResult
  BY <1>3, TypeResult DEF TakeResult
<1>4. CASE NewBlock \/ LinkDrops \/ DataSourceNext
  BY <1>4, TypeNode DEF DataSourceNext
<1> QED BY <1>1, <1>2, <1>3, <1>4, TypeRestart DEF Next

LEMMA TypeStutter == ASSUME TypeOK, UNCHANGED vars PROVE TypeOK'
BY DEF TypeOK, vars, nodeVars, bpVars, dbVars, histVars

\* Every variable of the ingest path keeps its type; in particular a batch in
\* the gap_result channel is never taken past its last block, and
\* gaps_filling_in_progress stays a usize.
THEOREM TypeCorrect == Spec => []TypeOK
<1>1. TypeOK /\ [Next]_vars => TypeOK'
  BY TypeNext, TypeStutter
<1> QED BY TypeInit, <1>1, PTL DEF Spec

-----------------------------------------------------------------------------
(* The order of the cursor, the hand-over to VirtualProcessor, and the     *)
(* notifications on their way.                                             *)

USE DEF NoBlock, NoFiller

-----------------------------------------------------------------------------
(* Positions of a sequence after an Append and after a Tail.               *)

LEMMA AppendAt ==
    ASSUME NEW S, NEW q \in Seq(S), NEW x \in S, NEW a, a = Append(q, x)
    PROVE  /\ \A i \in DOMAIN a : \/ i \in DOMAIN q /\ a[i] = q[i]
                                  \/ i = Len(q) + 1 /\ a[i] = x
           /\ \A i \in DOMAIN q : i \in DOMAIN a /\ a[i] = q[i] /\ i < Len(q) + 1
           /\ Len(q) + 1 \in DOMAIN a /\ a[Len(q) + 1] = x
           /\ DOMAIN q \subseteq Nat /\ Len(q) \in Nat
<1>1. /\ Len(q) \in Nat /\ DOMAIN q = 1..Len(q)
      /\ a \in Seq(S) /\ Len(a) = Len(q) + 1
      /\ DOMAIN a = 1..(Len(q) + 1)
      /\ \A i \in 1..Len(q) : a[i] = q[i]
      /\ a[Len(q) + 1] = x
  BY AppendProperties
<1> QED BY <1>1

LEMMA TailAt ==
    ASSUME NEW S, NEW q \in Seq(S), q # <<>>, NEW t, t = Tail(q)
    PROVE  /\ 1 \in DOMAIN q /\ Head(q) = q[1]
           /\ \A i \in DOMAIN t : i + 1 \in DOMAIN q /\ t[i] = q[i + 1] /\ 1 < i + 1
           /\ \A i \in DOMAIN q : i # 1 => i - 1 \in DOMAIN t /\ t[i - 1] = q[i]
           /\ DOMAIN q \subseteq Nat \ {0} /\ DOMAIN t \subseteq Nat
<1>1. /\ Len(q) \in Nat /\ DOMAIN q = 1..Len(q) /\ Len(q) > 0
      /\ t \in Seq(S) /\ Len(t) = Len(q) - 1
      /\ \A i \in 1..Len(t) : t[i] = q[i + 1]
      /\ DOMAIN t = 1..Len(t)
  BY HeadTailProperties, EmptySeq
<1> QED BY <1>1

-----------------------------------------------------------------------------
(* The hand-over to VirtualProcessor.                                      *)

\* A step either leaves the index alone, processes a block, receives the
\* shutdown or restarts.
LEMMA HandoverStep == ASSUME Handover, Next PROVE Handover'
<1> USE DEF nodeVars, bpVars, dbVars, histVars
<1>1. CASE Restart
  BY <1>1 DEF Restart, Handover, HandoverComplete
<1>2. CASE BlockNotification
  BY <1>2 DEF BlockNotification, ProcessBlock, Handover, HandoverComplete
<1>3. CASE GapBlock
  BY <1>3 DEF GapBlock, ProcessBlock, Handover, HandoverComplete
<1>4. CASE Shutdown
  BY <1>4 DEF Shutdown, Handover, HandoverComplete
<1>5. CASE FirstConnect
  BY <1>5 DEF FirstConnect, Handover, HandoverComplete
<1>6. CASE Reconnect
  BY <1>6 DEF Reconnect, Handover, HandoverComplete
<1>7. CASE BlindReconnect \/ Disconnected \/ GapAborted
  BY <1>7 DEF BlindReconnect, Disconnected, GapAborted, Handover, HandoverComplete
<1>8. CASE NewBlock \/ LinkDrops \/ DataSourceNext
  BY <1>8 DEF NewBlock, LinkDrops, DataSourceNext, Register, ConnectOk, ConnectFails,
       HandleDisconnect, HandleNotification, HandleShutdown, HandleVccClosed,
       Handover, HandoverComplete
<1>9. CASE FillerNext
  BY <1>9 DEF FillerNext, FillerLoop, ParkRequest, RefuseRequest, AnswerRequest,
       FailRequest, Handover, HandoverComplete
<1> QED BY <1>1, <1>2, <1>3, <1>4, <1>5, <1>6, <1>7, <1>8, <1>9
        DEF Next, TakeNotification, TakeResult

\* Until it has received a shutdown, BlockProcessor has passed the header of
\* every block it committed to VirtualProcessor, over any crash: the DAA index
\* that a restart loads is never behind the headers.
THEOREM HandoverTheorem == Spec => []HandoverComplete
<1>1. Init => Handover
  BY DEF Init, Handover, HandoverComplete
<1>2. Handover /\ [Next]_vars => Handover'
  BY HandoverStep DEF vars, bpVars, dbVars, Handover, HandoverComplete
<1>3. Handover => HandoverComplete
  BY DEF Handover
<1> QED BY <1>1, <1>2, <1>3, PTL DEF Spec

-----------------------------------------------------------------------------
(* The order of the notified blocks and of the cursor.                     *)

LEMMA BlocksNat == Blocks \subseteq Nat
BY BoundsAssumption DEF Blocks

LEMMA QueueTypes == ASSUME TypeOK
    PROVE  /\ \A i \in DOMAIN notif : notif[i] \in NotifMsgs /\ notif[i].n \in Nat
           /\ \A i \in DOMAIN nodeQ : nodeQ[i] \in NodeMsgs /\ nodeQ[i].n \in Nat
           /\ DOMAIN notif \subseteq Nat /\ DOMAIN nodeQ \subseteq Nat
<1>1. \A i \in DOMAIN notif : notif[i] \in NotifMsgs
  BY DEF TypeOK
<1>2. \A i \in DOMAIN nodeQ : nodeQ[i] \in NodeMsgs
  BY DEF TypeOK
<1>3. Blocks \subseteq Nat
  BY BoundsAssumption DEF Blocks
<1>4. DOMAIN notif \subseteq Nat /\ DOMAIN nodeQ \subseteq Nat
  BY DEF TypeOK
<1> QED BY <1>1, <1>2, <1>3, <1>4 DEF NotifMsgs, NodeMsgs

\* A message other than a block is added.
LEMMA OrderedControl ==
    ASSUME TypeOK, Ordered, NEW m \in NotifMsgs, m.k # "block", m.n <= tip,
           notif' = Append(notif, m), UNCHANGED <<tip, nodeQ, cursor>>
    PROVE  Ordered'
<1>1. /\ \A i \in DOMAIN notif' : \/ i \in DOMAIN notif /\ notif'[i] = notif[i]
                                  \/ notif'[i] = m
  BY AppendAt DEF TypeOK
<1> QED BY <1>1 DEF Ordered, CursorPos

\* A message is taken; a block becomes the cursor.
LEMMA OrderedTake ==
    ASSUME TypeOK, Ordered, notif # <<>>, notif' = Tail(notif), UNCHANGED <<tip, nodeQ>>,
           cursor' = cursor \/ (Head(notif).k = "block" /\ cursor' = Head(notif).n)
    PROVE  Ordered'
<1>1. /\ 1 \in DOMAIN notif /\ Head(notif) = notif[1]
      /\ \A i \in DOMAIN notif' : i + 1 \in DOMAIN notif /\ notif'[i] = notif[i + 1] /\ 1 < i + 1
      /\ DOMAIN notif' \subseteq Nat
  BY TailAt DEF TypeOK
<1>2. \A i, j \in DOMAIN notif' : i < j => i + 1 < j + 1
  BY <1>1
<1>3. /\ \A i \in DOMAIN notif' : notif'[i].n <= tip'
      /\ \A i \in DOMAIN nodeQ' : nodeQ'[i].n <= tip'
      /\ \A i, j \in DOMAIN nodeQ' : i < j => nodeQ'[i].n < nodeQ'[j].n
      /\ \A i, j \in DOMAIN notif' :
          i < j /\ notif'[i].k = "block" /\ notif'[j].k = "block" => notif'[i].n < notif'[j].n
      /\ \A i \in DOMAIN notif', j \in DOMAIN nodeQ' :
          notif'[i].k = "block" => notif'[i].n < nodeQ'[j].n
  BY <1>1, <1>2 DEF Ordered
<1>4. CASE cursor' = cursor
  <2>1. CursorPos' = CursorPos
    BY <1>4 DEF CursorPos
  <2> QED BY <1>1, <1>3, <2>1 DEF Ordered
<1>5. CASE Head(notif).k = "block" /\ cursor' = Head(notif).n
  <2>1. notif[1].n \in Nat
    BY <1>1, QueueTypes
  <2>2. CursorPos' = notif[1].n
    BY <1>1, <1>5, <2>1 DEF CursorPos
  <2>3. /\ CursorPos' <= tip'
        /\ \A i \in DOMAIN nodeQ' : CursorPos' < nodeQ'[i].n
        /\ \A i \in DOMAIN notif' : notif'[i].k = "block" => CursorPos' < notif'[i].n
    BY <1>1, <1>5, <2>2 DEF Ordered
  <2> QED BY <1>3, <2>3 DEF Ordered
<1> QED BY <1>4, <1>5

LEMMA OrderedStep == ASSUME TypeOK, TypeOK', Ordered, Next PROVE Ordered'
<1> USE DEF nodeVars, bpVars, dbVars, histVars
<1>t. tip \in Nat /\ CursorPos \in Nat
  <2>1. tip \in Blocks /\ CursorPos \in Blocks
    BY CursorPosType DEF TypeOK
  <2> QED BY <2>1, BlocksNat
<1>1. CASE NewBlock
  <2>1. CASE nodeQ' = nodeQ
    <3>1. CursorPos' = CursorPos /\ tip' = tip + 1 /\ notif' = notif
      BY <1>1 DEF NewBlock, CursorPos
    <3> QED BY <1>t, <2>1, <3>1, QueueTypes DEF Ordered
  <2>2. CASE nodeQ' = Append(nodeQ, [n |-> tip + 1, early |-> FALSE])
    <3> DEFINE m == [n |-> tip + 1, early |-> FALSE]
    <3>1. m \in NodeMsgs /\ m.n = tip + 1
      BY <1>1 DEF NewBlock, TypeOK, NodeMsgs
    <3>2. /\ \A i \in DOMAIN nodeQ' : \/ i \in DOMAIN nodeQ /\ nodeQ'[i] = nodeQ[i]
                                      \/ i = Len(nodeQ) + 1 /\ nodeQ'[i] = m
          /\ \A i \in DOMAIN nodeQ : i < Len(nodeQ) + 1
          /\ DOMAIN nodeQ \subseteq Nat /\ Len(nodeQ) \in Nat
      BY <2>2, <3>1, AppendAt DEF TypeOK
    <3> HIDE DEF m
    <3>3. CursorPos' = CursorPos /\ tip' = tip + 1 /\ notif' = notif
      BY <1>1 DEF NewBlock, CursorPos
    <3>4. \A i, j \in DOMAIN nodeQ' : i < j => nodeQ'[i].n < nodeQ'[j].n
      BY <3>1, <3>2, <1>t, QueueTypes DEF Ordered
    <3> QED BY <3>1, <3>2, <3>3, <3>4, <1>t, QueueTypes DEF Ordered
  <2> QED BY <1>1, <2>1, <2>2 DEF NewBlock
<1>2. CASE ConnectOk
  <2>1. Msg("connected", tip, FALSE) \in NotifMsgs
    BY MsgType DEF TypeOK
  <2> QED BY <1>2, <2>1, <1>t, OrderedControl DEF ConnectOk, Msg
<1>3. CASE ConnectFails
  <2> DEFINE m == Msg("disconnected", 0, FALSE)
  <2>1. m \in NotifMsgs /\ m.n = 0 /\ m.k = "disconnected"
    BY MsgType, ZeroBlock DEF Msg
  <2>2. \A i \in DOMAIN notif' : \/ i \in DOMAIN notif /\ notif'[i] = notif[i]
                                 \/ notif'[i] = m
    <3>1. notif' = Append(notif, m) /\ notif \in Seq(NotifMsgs)
      BY <1>3 DEF ConnectFails, TypeOK
    <3> HIDE DEF m
    <3> QED BY <2>1, <3>1, AppendAt
  <2>3. DOMAIN nodeQ' = DOMAIN nodeQ /\ \A i \in DOMAIN nodeQ : nodeQ'[i].n = nodeQ[i].n
    BY <1>3, QueueTypes DEF ConnectFails, NodeMsgs
  <2>4. CursorPos' = CursorPos /\ tip' = tip
    BY <1>3 DEF ConnectFails, CursorPos
  <2> HIDE DEF m
  <2> QED BY <1>t, <2>1, <2>2, <2>3, <2>4 DEF Ordered
<1>4. CASE HandleDisconnect \/ HandleShutdown \/ HandleVccClosed
  <2>1. /\ Msg("disconnected", 0, FALSE) \in NotifMsgs
        /\ Msg("shutdown", 0, FALSE) \in NotifMsgs
    BY MsgType, ZeroBlock
  <2>2. Msg("disconnected", 0, FALSE).n = 0 /\ Msg("shutdown", 0, FALSE).n = 0
        /\ Msg("disconnected", 0, FALSE).k # "block" /\ Msg("shutdown", 0, FALSE).k # "block"
    BY DEF Msg
  <2>3. PICK m \in NotifMsgs : m.k # "block" /\ m.n = 0 /\ notif' = Append(notif, m)
    BY <1>4, <2>1, <2>2 DEF HandleDisconnect, HandleShutdown, HandleVccClosed
  <2>4. UNCHANGED <<tip, nodeQ, cursor>>
    BY <1>4 DEF HandleDisconnect, HandleShutdown, HandleVccClosed
  <2> QED BY <2>3, <2>4, <1>t, OrderedControl
<1>5. CASE HandleNotification
  <2> DEFINE h == Head(nodeQ)
             m == Msg("block", h.n, h.early)
  <2>1. /\ 1 \in DOMAIN nodeQ /\ h = nodeQ[1]
        /\ \A i \in DOMAIN nodeQ' : i + 1 \in DOMAIN nodeQ /\ nodeQ'[i] = nodeQ[i + 1] /\ 1 < i + 1
        /\ DOMAIN nodeQ' \subseteq Nat
    BY <1>5, TailAt DEF HandleNotification, TypeOK
  <2>2. h.n \in Blocks /\ h.early \in BOOLEAN
    BY <2>1, QueueTypes DEF NodeMsgs
  <2>3. m \in NotifMsgs /\ m.n = nodeQ[1].n
    BY <2>1, <2>2, MsgType DEF Msg
  <2>4. /\ \A i \in DOMAIN notif' : \/ i \in DOMAIN notif /\ notif'[i] = notif[i]
                                    \/ i = Len(notif) + 1 /\ notif'[i] = m
        /\ \A i \in DOMAIN notif : i < Len(notif) + 1
        /\ DOMAIN notif \subseteq Nat /\ Len(notif) \in Nat
    BY <1>5, <2>3, AppendAt DEF HandleNotification, TypeOK
  <2>5. CursorPos' = CursorPos /\ tip' = tip
    BY <1>5 DEF HandleNotification, CursorPos
  <2> HIDE DEF h, m
  <2>6. \A i, j \in DOMAIN notif' :
          i < j /\ notif'[i].k = "block" /\ notif'[j].k = "block" => notif'[i].n < notif'[j].n
    BY <2>1, <2>3, <2>4 DEF Ordered
  <2>7. \A i, j \in DOMAIN nodeQ' : i < j => nodeQ'[i].n < nodeQ'[j].n
    <3>1. \A i, j \in DOMAIN nodeQ' : i < j => i + 1 < j + 1
      BY <2>1
    <3> QED BY <2>1, <3>1 DEF Ordered
  <2>8. \A i \in DOMAIN notif', j \in DOMAIN nodeQ' :
          notif'[i].k = "block" => notif'[i].n < nodeQ'[j].n
    BY <2>1, <2>3, <2>4 DEF Ordered
  <2>9. /\ \A i \in DOMAIN notif' : notif'[i].n <= tip'
        /\ \A i \in DOMAIN nodeQ' : nodeQ'[i].n <= tip'
        /\ \A i \in DOMAIN nodeQ' : CursorPos' < nodeQ'[i].n
        /\ \A i \in DOMAIN notif' : notif'[i].k = "block" => CursorPos' < notif'[i].n
    BY <2>1, <2>3, <2>4, <2>5 DEF Ordered
  <2> QED BY <2>5, <2>6, <2>7, <2>8, <2>9 DEF Ordered
<1>6. CASE TakeNotification
  <2>1. /\ notif # <<>> /\ notif' = Tail(notif) /\ UNCHANGED <<tip, nodeQ>>
        /\ cursor' = cursor \/ (Head(notif).k = "block" /\ cursor' = Head(notif).n)
    BY <1>6 DEF TakeNotification, FirstConnect, Reconnect, BlindReconnect, Disconnected,
         Shutdown, BlockNotification, Receives
  <2> QED BY <2>1, OrderedTake
<1>7. CASE Restart
  BY <1>7, <1>t DEF Restart, Ordered, CursorPos
<1>8. CASE Register \/ LinkDrops \/ FillerNext \/ TakeResult
  <2>1. UNCHANGED <<tip, nodeQ, notif, cursor>>
    BY <1>8 DEF Register, LinkDrops, FillerNext, FillerLoop, ParkRequest, RefuseRequest,
         AnswerRequest, FailRequest, TakeResult, GapAborted, GapBlock
  <2> QED BY <2>1 DEF Ordered, CursorPos
<1> QED BY <1>1, <1>2, <1>3, <1>4, <1>5, <1>6, <1>7, <1>8 DEF Next, DataSourceNext

LEMMA OrderedInit == Init => Ordered
BY BoundsAssumption DEF Init, Ordered, CursorPos

\* LatestBlockCursor never moves back: the notifications that reach
\* BlockProcessor are in the order of the node and all ahead of the cursor,
\* over reconnects, leaked notifications and restarts.
THEOREM CursorTheorem == Spec => CursorMonotone
<1>1. TypeOK /\ [Next]_vars => TypeOK'
  BY TypeNext, TypeStutter
<1>2. TypeOK /\ TypeOK' /\ Ordered /\ [Next]_vars => Ordered'
  BY OrderedStep DEF vars, nodeVars, dbVars, Ordered, CursorPos
<1>3. TypeOK /\ Ordered /\ [Next]_vars => [cursor' >= cursor]_vars
  <2> SUFFICES ASSUME TypeOK, Ordered, Next PROVE cursor' >= cursor
    OBVIOUS
  <2> USE DEF nodeVars, bpVars, dbVars, histVars
  <2>0. cursor \in Int /\ CursorPos >= cursor
    BY BoundsAssumption DEF TypeOK, CursorPos, Blocks
  <2>1. CASE BlockNotification
    <3>1. 1 \in DOMAIN notif /\ Head(notif) = notif[1]
      BY <2>1, TailAt DEF BlockNotification, Receives, TypeOK
    <3>2. CursorPos < cursor' /\ CursorPos \in Int /\ cursor' \in Int
      BY <2>1, <3>1, QueueTypes, CursorPosType, BoundsAssumption
         DEF BlockNotification, Receives, Ordered, Blocks
    <3> QED BY <2>0, <3>2
  <2>2. CASE cursor' = cursor
    BY <2>0, <2>2
  <2>3. BlockNotification \/ cursor' = cursor
    BY DEF Next, DataSourceNext, FillerNext, TakeNotification, TakeResult, NewBlock, LinkDrops,
         Restart, Register, ConnectOk, ConnectFails, HandleDisconnect, HandleNotification,
         HandleShutdown, HandleVccClosed, FillerLoop, ParkRequest, RefuseRequest,
         AnswerRequest, FailRequest, FirstConnect, Reconnect, BlindReconnect, Disconnected,
         Shutdown, GapAborted, GapBlock
  <2> QED BY <2>1, <2>2, <2>3
<1> QED BY TypeInit, OrderedInit, <1>1, <1>2, <1>3, PTL DEF Spec, CursorMonotone

-----------------------------------------------------------------------------
(* What BlockProcessor has been told of, and what is on its way.           *)

\* What each step does to the notification channel.
LEMMA NotifStep ==
    ASSUME TypeOK, Next
    PROVE  \/ notif' = notif
           \/ \E m \in NotifMsgs :
                /\ notif' = Append(notif, m)
                /\ \/ ConnectOk /\ m.k = "connected" /\ m.n = tip
                   \/ /\ ConnectFails \/ HandleDisconnect \/ HandleShutdown \/ HandleVccClosed
                      /\ m.k \in {"disconnected", "shutdown"} /\ m.n = 0
                   \/ /\ HandleNotification /\ m.k = "block"
                      /\ m.n = Head(nodeQ).n /\ m.early = Head(nodeQ).early
           \/ TakeNotification /\ notif # <<>> /\ notif' = Tail(notif)
           \/ Restart /\ notif' = <<>>
<1> USE DEF nodeVars, bpVars, dbVars, histVars
<1>1. CASE ConnectOk
  <2>1. Msg("connected", tip, FALSE) \in NotifMsgs
    BY MsgType DEF TypeOK
  <2>2. Msg("connected", tip, FALSE).k = "connected" /\ Msg("connected", tip, FALSE).n = tip
    BY DEF Msg
  <2>3. notif' = Append(notif, Msg("connected", tip, FALSE))
    BY <1>1 DEF ConnectOk
  <2> QED BY <1>1, <2>1, <2>2, <2>3
<1>2. CASE ConnectFails \/ HandleDisconnect \/ HandleShutdown \/ HandleVccClosed
  <2>1. \A k \in {"disconnected", "shutdown"} :
          /\ Msg(k, 0, FALSE) \in NotifMsgs
          /\ Msg(k, 0, FALSE).k = k /\ Msg(k, 0, FALSE).n = 0
    <3>1. \A k \in {"disconnected", "shutdown"} : Msg(k, 0, FALSE) \in NotifMsgs
      BY MsgType, ZeroBlock
    <3> QED BY <3>1 DEF Msg
  <2>2. \E k \in {"disconnected", "shutdown"} : notif' = Append(notif, Msg(k, 0, FALSE))
    BY <1>2 DEF ConnectFails, HandleDisconnect, HandleShutdown, HandleVccClosed
  <2> QED BY <1>2, <2>1, <2>2
<1>3. CASE HandleNotification
  <2> DEFINE m == Msg("block", Head(nodeQ).n, Head(nodeQ).early)
  <2>1. Head(nodeQ) \in NodeMsgs
    BY <1>3 DEF HandleNotification, TypeOK
  <2>2. m \in NotifMsgs
    BY <2>1, MsgType DEF NodeMsgs
  <2>3. m.k = "block" /\ m.n = Head(nodeQ).n /\ m.early = Head(nodeQ).early
    BY DEF Msg
  <2>4. notif' = Append(notif, m)
    BY <1>3 DEF HandleNotification
  <2> HIDE DEF m
  <2> QED BY <1>3, <2>2, <2>3, <2>4
<1>4. CASE TakeNotification
  BY <1>4 DEF TakeNotification, FirstConnect, Reconnect, BlindReconnect, Disconnected,
       Shutdown, BlockNotification, Receives
<1>5. CASE Restart
  BY <1>5 DEF Restart
<1>6. CASE NewBlock \/ LinkDrops \/ Register \/ FillerNext \/ TakeResult
  BY <1>6 DEF NewBlock, LinkDrops, Register, FillerNext, FillerLoop, ParkRequest, RefuseRequest,
       AnswerRequest, FailRequest, TakeResult, GapAborted, GapBlock
<1> QED BY <1>1, <1>2, <1>3, <1>4, <1>5, <1>6 DEF Next, DataSourceNext

\* A message that is taken is one the processor has been told of.
LEMMA HorizonTake ==
    ASSUME TypeOK, Ordered, Positions, TakeNotification
    PROVE  /\ horizon \in Nat /\ horizon' \in Nat
           /\ horizon <= horizon' /\ Head(notif).n <= horizon'
           /\ horizon' = horizon \/ horizon' = Head(notif).n
<1> USE DEF nodeVars, bpVars, dbVars, histVars
<1>1. notif # <<>>
  BY DEF TakeNotification, FirstConnect, Reconnect, BlindReconnect, Disconnected,
       Shutdown, BlockNotification, Receives
<1>2. 1 \in DOMAIN notif /\ Head(notif) = notif[1]
  BY <1>1, TailAt DEF TypeOK
<1>3. Head(notif).n \in Nat /\ horizon \in Nat
  BY <1>2, QueueTypes, BlocksNat DEF TypeOK
<1>4. CASE FirstConnect \/ Reconnect \/ BlindReconnect \/ BlockNotification
  <2>1. horizon' = MaxOf(horizon, Head(notif).n)
    BY <1>4 DEF FirstConnect, Reconnect, BlindReconnect, BlockNotification
  <2> QED BY <1>3, <2>1 DEF MaxOf
<1>5. CASE Disconnected \/ Shutdown
  <2>1. horizon' = horizon /\ Head(notif).k \in {"disconnected", "shutdown"}
    BY <1>5 DEF Disconnected, Shutdown, Receives
  <2>2. Head(notif).n = 0
    BY <1>2, <2>1 DEF Positions
  <2> QED BY <1>3, <2>1, <2>2
<1> QED BY <1>4, <1>5 DEF TakeNotification

LEMMA HorizonKept == ASSUME Next, ~TakeNotification PROVE UNCHANGED horizon
BY DEF Next, DataSourceNext, FillerNext, TakeNotification, TakeResult, NewBlock, LinkDrops,
     Restart, Register, ConnectOk, ConnectFails, HandleDisconnect, HandleNotification,
     HandleShutdown, HandleVccClosed, FillerLoop, ParkRequest, RefuseRequest,
     AnswerRequest, FailRequest, GapAborted, GapBlock, histVars

LEMMA TipStep == ASSUME TypeOK, Next
                 PROVE  /\ tip \in Nat /\ tip' \in Nat
                        /\ tip' = tip \/ (NewBlock /\ tip' = tip + 1)
<1>1. tip' = tip \/ (NewBlock /\ tip' = tip + 1)
  BY DEF Next, DataSourceNext, FillerNext, TakeNotification, TakeResult, NewBlock, LinkDrops,
     Restart, Register, ConnectOk, ConnectFails, HandleDisconnect, HandleNotification,
     HandleShutdown, HandleVccClosed, FillerLoop, ParkRequest, RefuseRequest,
     AnswerRequest, FailRequest, GapAborted, GapBlock, FirstConnect, Reconnect,
     BlindReconnect, Disconnected, Shutdown, BlockNotification, nodeVars
<1>2. tip \in Nat
  BY BlocksNat DEF TypeOK
<1> QED BY <1>1, <1>2

LEMMA PositionsStep ==
    ASSUME TypeOK, TypeOK', Ordered, Positions, Next
    PROVE  Positions'
<1> USE DEF nodeVars, bpVars, dbVars, histVars
<1>t. /\ CursorPos \in Nat /\ CursorPos' \in Nat /\ horizon \in Nat /\ horizon' \in Nat
      /\ regTip \in Nat
  <2>1. CursorPos \in Blocks
    BY CursorPosType
  <2>2. CursorPos' \in Blocks
    BY ZeroBlock DEF TypeOK, CursorPos
  <2>3. horizon \in Blocks /\ horizon' \in Blocks /\ regTip \in Blocks
    BY DEF TypeOK
  <2> QED BY <2>1, <2>2, <2>3, BlocksNat
<1>1. horizon' <= tip'
  <2>1. CASE TakeNotification
    <3>1. 1 \in DOMAIN notif /\ Head(notif) = notif[1]
      BY <2>1, TailAt DEF TypeOK, TakeNotification, FirstConnect, Reconnect, BlindReconnect,
           Disconnected, Shutdown, BlockNotification, Receives
    <3>2. Head(notif).n <= tip /\ Head(notif).n \in Nat
      BY <3>1, QueueTypes DEF Ordered
    <3> QED BY <2>1, <3>2, <1>t, HorizonTake, TipStep DEF Positions
  <2>2. CASE ~TakeNotification
    BY <2>2, <1>t, HorizonKept, TipStep DEF Positions
  <2> QED BY <2>1, <2>2
<1>2. CursorPos' <= horizon' /\ (lpb' # NoBlock => lpb' = cursor')
  <2>1. CASE BlockNotification
    <3>1. cursor' = Head(notif).n /\ lpb' = Head(notif).n
      BY <2>1 DEF BlockNotification
    <3>2. Head(notif).n \in Nat
      BY <2>1, ReceivesType, BlocksNat DEF BlockNotification
    <3>3. Head(notif).n <= horizon'
      BY <2>1, HorizonTake DEF TakeNotification
    <3> QED BY <3>1, <3>2, <3>3 DEF CursorPos
  <2>2. CASE ~BlockNotification
    <3>1. cursor' = cursor /\ (lpb' = lpb \/ lpb' = NoBlock)
      BY <2>2 DEF Next, DataSourceNext, FillerNext, TakeNotification, TakeResult, NewBlock,
         LinkDrops, Restart, Register, ConnectOk, ConnectFails, HandleDisconnect,
         HandleNotification, HandleShutdown, HandleVccClosed, FillerLoop, ParkRequest,
         RefuseRequest, AnswerRequest, FailRequest, GapAborted, GapBlock, FirstConnect,
         Reconnect, BlindReconnect, Disconnected, Shutdown
    <3>2. CursorPos' = CursorPos
      BY <3>1 DEF CursorPos
    <3>3. horizon <= horizon'
      BY HorizonTake, HorizonKept, <1>t
    <3> QED BY <3>1, <3>2, <3>3, <1>t DEF Positions
  <2> QED BY <2>1, <2>2
<1>3. regTip' <= tip'
  <2>1. regTip' = regTip \/ (regTip' = tip /\ tip' = tip)
    BY DEF Next, DataSourceNext, FillerNext, TakeNotification, TakeResult, NewBlock,
         LinkDrops, Restart, Register, ConnectOk, ConnectFails, HandleDisconnect,
         HandleNotification, HandleShutdown, HandleVccClosed, FillerLoop, ParkRequest,
         RefuseRequest, AnswerRequest, FailRequest, GapAborted, GapBlock, FirstConnect,
         Reconnect, BlindReconnect, Disconnected, Shutdown, BlockNotification
  <2> QED BY <2>1, <1>t, TipStep DEF Positions
<1>4. \A i \in DOMAIN notif' : notif'[i].k \in {"disconnected", "shutdown"} => notif'[i].n = 0
  <2>1. CASE notif' = notif
    BY <2>1 DEF Positions
  <2>2. ASSUME NEW m \in NotifMsgs, notif' = Append(notif, m),
               m.k \in {"disconnected", "shutdown"} => m.n = 0
        PROVE  <1>4!:
    <3>1. \A i \in DOMAIN notif' : \/ i \in DOMAIN notif /\ notif'[i] = notif[i]
                                   \/ notif'[i] = m
      BY <2>2, AppendAt DEF TypeOK
    <3> QED BY <2>2, <3>1 DEF Positions
  <2>3. CASE notif # <<>> /\ notif' = Tail(notif)
    <3>1. \A i \in DOMAIN notif' : i + 1 \in DOMAIN notif /\ notif'[i] = notif[i + 1]
      BY <2>3, TailAt DEF TypeOK
    <3> QED BY <3>1 DEF Positions
  <2>4. CASE notif' = <<>>
    BY <2>4
  <2> QED BY <2>1, <2>2, <2>3, <2>4, NotifStep
<1> QED BY <1>1, <1>2, <1>3, <1>4 DEF Positions

\* A control message is added and the link, if it changes, is down.
LEMMA ContiguousControl ==
    ASSUME TypeOK, Contiguous, NEW m \in NotifMsgs, m.k # "block",
           notif' = Append(notif, m), UNCHANGED <<tip, regTip, nodeQ, horizon>>,
           link' = link \/ (link # "registering" /\ link' = "down")
    PROVE  Contiguous'
<1>1. /\ \A i \in DOMAIN notif' : \/ i \in DOMAIN notif /\ notif'[i] = notif[i]
                                  \/ i = Len(notif) + 1 /\ notif'[i] = m
      /\ \A i \in DOMAIN notif : i \in DOMAIN notif' /\ notif'[i] = notif[i]
  BY AppendAt DEF TypeOK
<1> QED BY <1>1 DEF Contiguous

\* A message is taken.
LEMMA ContiguousTake ==
    ASSUME TypeOK, Ordered, Positions, Contiguous, TakeNotification
    PROVE  Contiguous'
<1>1. notif # <<>> /\ notif' = Tail(notif) /\ UNCHANGED <<tip, regTip, nodeQ, link>>
  BY DEF TakeNotification, FirstConnect, Reconnect, BlindReconnect, Disconnected,
       Shutdown, BlockNotification, Receives, nodeVars
<1>2. /\ 1 \in DOMAIN notif /\ Head(notif) = notif[1]
      /\ \A i \in DOMAIN notif' : i + 1 \in DOMAIN notif /\ notif'[i] = notif[i + 1] /\ 1 < i + 1
      /\ \A i \in DOMAIN notif : i # 1 => i - 1 \in DOMAIN notif' /\ notif'[i - 1] = notif[i]
      /\ DOMAIN notif \subseteq Nat \ {0} /\ DOMAIN notif' \subseteq Nat
  BY <1>1, TailAt DEF TypeOK
<1>3. /\ horizon \in Nat /\ horizon' \in Nat /\ horizon <= horizon' /\ notif[1].n <= horizon'
  BY <1>2, HorizonTake
<1>4. tip \in Nat
  BY BlocksNat DEF TypeOK
<1>5. \A j \in DOMAIN notif, n \in Int :
        n <= notif[j].n => n <= horizon' \/ (j # 1 /\ n <= notif'[j - 1].n)
  BY <1>2, <1>3, QueueTypes
<1>6. \A i \in DOMAIN notif' :
         notif'[i].k = "block" /\ ~notif'[i].early =>
           \/ notif'[i].n - 1 <= horizon'
           \/ \E j \in DOMAIN notif' : j < i /\ notif'[i].n - 1 <= notif'[j].n
  <2> SUFFICES ASSUME NEW i \in DOMAIN notif', notif'[i].k = "block", ~notif'[i].early,
                      ~(notif'[i].n - 1 <= horizon')
               PROVE  \E j \in DOMAIN notif' : j < i /\ notif'[i].n - 1 <= notif'[j].n
    OBVIOUS
  <2>1. i + 1 \in DOMAIN notif /\ notif'[i] = notif[i + 1] /\ notif[i + 1].n - 1 \in Int
    BY <1>2, QueueTypes
  <2>2. ~(notif[i + 1].n - 1 <= horizon)
    BY <1>3, <2>1
  <2>3. PICK j \in DOMAIN notif : j < i + 1 /\ notif[i + 1].n - 1 <= notif[j].n
    BY <2>1, <2>2 DEF Contiguous
  <2>4. j # 1 /\ notif'[i].n - 1 <= notif'[j - 1].n
    BY <1>5, <2>1, <2>3
  <2>5. j - 1 \in DOMAIN notif' /\ j - 1 < i
    BY <1>2, <2>3, <2>4
  <2> QED BY <2>4, <2>5
<1>7. \A j \in DOMAIN notif, n \in Int : n <= notif[j].n =>
         n <= horizon' \/ \E k \in DOMAIN notif' : n <= notif'[k].n
  BY <1>2, <1>5
<1>8. \A i \in DOMAIN nodeQ' : ~nodeQ'[i].early =>
           \/ link' = "registering" /\ nodeQ'[i].n > regTip'
           \/ nodeQ'[i].n - 1 <= horizon'
           \/ \E j \in DOMAIN notif' : nodeQ'[i].n - 1 <= notif'[j].n
           \/ \E j \in DOMAIN nodeQ' : j < i /\ nodeQ'[i].n - 1 <= nodeQ'[j].n
  <2> SUFFICES ASSUME NEW i \in DOMAIN nodeQ, ~nodeQ[i].early
               PROVE \/ link = "registering" /\ nodeQ[i].n > regTip
                     \/ nodeQ[i].n - 1 <= horizon'
                     \/ \E j \in DOMAIN notif' : nodeQ[i].n - 1 <= notif'[j].n
                     \/ \E j \in DOMAIN nodeQ : j < i /\ nodeQ[i].n - 1 <= nodeQ[j].n
    BY <1>1
  <2>1. nodeQ[i].n - 1 \in Int
    BY QueueTypes
  <2>2. nodeQ[i].n - 1 <= horizon => nodeQ[i].n - 1 <= horizon'
    BY <1>3, <2>1
  <2> QED BY <1>7, <2>1, <2>2 DEF Contiguous
<1>9. link' = "up" =>
           \/ tip' <= horizon'
           \/ \E j \in DOMAIN notif' : tip' <= notif'[j].n
           \/ \E j \in DOMAIN nodeQ' : tip' <= nodeQ'[j].n
  <2>1. tip <= horizon => tip <= horizon'
    BY <1>3, <1>4
  <2> QED BY <1>1, <1>4, <1>7, <2>1 DEF Contiguous
<1> QED BY <1>6, <1>8, <1>9 DEF Contiguous

LEMMA ContiguousNewBlock ==
    ASSUME TypeOK, TypeOK', Ordered, Positions, Contiguous, NewBlock
    PROVE  Contiguous'
<1>1. /\ tip \in Nat /\ regTip \in Nat /\ horizon \in Nat /\ tip' = tip + 1
      /\ UNCHANGED <<regTip, link, notif, horizon>>
  BY BlocksNat DEF TypeOK, NewBlock, histVars
<1>2. CASE link \in {"registering", "up"}
  <2> DEFINE m == [n |-> tip + 1, early |-> FALSE]
  <2>1. m \in NodeMsgs /\ m.n = tip + 1 /\ nodeQ' = Append(nodeQ, m)
    BY <1>2 DEF NewBlock, TypeOK, NodeMsgs
  <2>2. /\ \A i \in DOMAIN nodeQ' : \/ i \in DOMAIN nodeQ /\ nodeQ'[i] = nodeQ[i]
                                    \/ i = Len(nodeQ) + 1 /\ nodeQ'[i] = m
        /\ \A i \in DOMAIN nodeQ : i \in DOMAIN nodeQ' /\ nodeQ'[i] = nodeQ[i]
                                     /\ i < Len(nodeQ) + 1
        /\ Len(nodeQ) + 1 \in DOMAIN nodeQ' /\ nodeQ'[Len(nodeQ) + 1] = m
    BY <2>1, AppendAt DEF TypeOK
  <2> HIDE DEF m
  <2>3. m.n - 1 = tip
    BY <1>1, <2>1
  <2>4. \/ link = "registering" /\ m.n > regTip
        \/ tip <= horizon
        \/ \E j \in DOMAIN notif : tip <= notif[j].n
        \/ \E j \in DOMAIN nodeQ : tip <= nodeQ[j].n
    BY <1>1, <1>2, <2>1 DEF Contiguous, Positions
  <2>5. \A i \in DOMAIN nodeQ' : ~nodeQ'[i].early =>
           \/ link' = "registering" /\ nodeQ'[i].n > regTip'
           \/ nodeQ'[i].n - 1 <= horizon'
           \/ \E j \in DOMAIN notif' : nodeQ'[i].n - 1 <= notif'[j].n
           \/ \E j \in DOMAIN nodeQ' : j < i /\ nodeQ'[i].n - 1 <= nodeQ'[j].n
    <3> SUFFICES ASSUME NEW i \in DOMAIN nodeQ', ~nodeQ'[i].early
                 PROVE \/ link = "registering" /\ nodeQ'[i].n > regTip
                       \/ nodeQ'[i].n - 1 <= horizon
                       \/ \E j \in DOMAIN notif : nodeQ'[i].n - 1 <= notif[j].n
                       \/ \E j \in DOMAIN nodeQ' : j < i /\ nodeQ'[i].n - 1 <= nodeQ'[j].n
      BY <1>1
    <3>1. CASE i \in DOMAIN nodeQ /\ nodeQ'[i] = nodeQ[i]
      BY <2>2, <3>1 DEF Contiguous
    <3>2. CASE i = Len(nodeQ) + 1 /\ nodeQ'[i] = m
      BY <2>2, <2>3, <2>4, <3>2
    <3> QED BY <2>2, <3>1, <3>2
  <2>6. \E j \in DOMAIN nodeQ' : tip' <= nodeQ'[j].n
    BY <1>1, <2>1, <2>2
  <2> QED BY <1>1, <2>5, <2>6 DEF Contiguous
<1>3. CASE link \notin {"registering", "up"}
  <2>1. nodeQ' = nodeQ
    BY <1>3 DEF NewBlock
  <2> QED BY <1>1, <1>3, <2>1 DEF Contiguous
<1> QED BY <1>2, <1>3

LEMMA ContiguousForward ==
    ASSUME TypeOK, Contiguous, HandleNotification
    PROVE  Contiguous'
<1> DEFINE h == Head(nodeQ)
           m == Msg("block", h.n, h.early)
<1>0. /\ nodeQ # <<>> /\ nodeQ' = Tail(nodeQ) /\ notif' = Append(notif, m)
      /\ UNCHANGED <<tip, regTip, link, horizon>> /\ link # "registering"
  BY DEF HandleNotification, DataSourceIdle, histVars
<1>1. /\ 1 \in DOMAIN nodeQ /\ h = nodeQ[1]
      /\ \A i \in DOMAIN nodeQ' : i + 1 \in DOMAIN nodeQ /\ nodeQ'[i] = nodeQ[i + 1] /\ 1 < i + 1
      /\ \A i \in DOMAIN nodeQ : i # 1 => i - 1 \in DOMAIN nodeQ' /\ nodeQ'[i - 1] = nodeQ[i]
      /\ DOMAIN nodeQ \subseteq Nat \ {0} /\ DOMAIN nodeQ' \subseteq Nat
  BY <1>0, TailAt DEF TypeOK
<1>2. h.n \in Blocks /\ h.early \in BOOLEAN
  BY <1>1, QueueTypes DEF NodeMsgs
<1>3. m \in NotifMsgs /\ m.n = nodeQ[1].n /\ m.early = nodeQ[1].early
  BY <1>1, <1>2, MsgType DEF Msg
<1>4. /\ \A i \in DOMAIN notif' : \/ i \in DOMAIN notif /\ notif'[i] = notif[i]
                                  \/ i = Len(notif) + 1 /\ notif'[i] = m
      /\ \A i \in DOMAIN notif : i \in DOMAIN notif' /\ notif'[i] = notif[i]
                                   /\ i < Len(notif) + 1
      /\ Len(notif) + 1 \in DOMAIN notif' /\ notif'[Len(notif) + 1] = m
  BY <1>0, <1>3, AppendAt DEF TypeOK
<1> HIDE DEF m, h
<1>5. \A i \in DOMAIN notif' :
         notif'[i].k = "block" /\ ~notif'[i].early =>
           \/ notif'[i].n - 1 <= horizon'
           \/ \E j \in DOMAIN notif' : j < i /\ notif'[i].n - 1 <= notif'[j].n
  <2> SUFFICES ASSUME NEW i \in DOMAIN notif', notif'[i].k = "block", ~notif'[i].early
               PROVE \/ notif'[i].n - 1 <= horizon
                     \/ \E j \in DOMAIN notif' : j < i /\ notif'[i].n - 1 <= notif'[j].n
    BY <1>0
  <2>1. CASE i \in DOMAIN notif /\ notif'[i] = notif[i]
    BY <1>4, <2>1 DEF Contiguous
  <2>2. CASE i = Len(notif) + 1 /\ notif'[i] = m
    <3>1. ~nodeQ[1].early
      BY <1>3, <2>2
    <3>2. ~ \E j \in DOMAIN nodeQ : j < 1
      BY <1>1
    <3>3. \/ nodeQ[1].n - 1 <= horizon
          \/ \E j \in DOMAIN notif : nodeQ[1].n - 1 <= notif[j].n
      BY <1>0, <1>1, <3>1, <3>2 DEF Contiguous
    <3> QED BY <1>3, <1>4, <2>2, <3>3
  <2> QED BY <1>4, <2>1, <2>2
<1>6. \A i \in DOMAIN nodeQ' : ~nodeQ'[i].early =>
           \/ link' = "registering" /\ nodeQ'[i].n > regTip'
           \/ nodeQ'[i].n - 1 <= horizon'
           \/ \E j \in DOMAIN notif' : nodeQ'[i].n - 1 <= notif'[j].n
           \/ \E j \in DOMAIN nodeQ' : j < i /\ nodeQ'[i].n - 1 <= nodeQ'[j].n
  <2> SUFFICES ASSUME NEW i \in DOMAIN nodeQ', ~nodeQ'[i].early
               PROVE \/ nodeQ'[i].n - 1 <= horizon
                     \/ \E j \in DOMAIN notif' : nodeQ'[i].n - 1 <= notif'[j].n
                     \/ \E j \in DOMAIN nodeQ' : j < i /\ nodeQ'[i].n - 1 <= nodeQ'[j].n
    BY <1>0
  <2>1. \/ nodeQ[i + 1].n - 1 <= horizon
        \/ \E j \in DOMAIN notif : nodeQ[i + 1].n - 1 <= notif[j].n
        \/ \E j \in DOMAIN nodeQ : j < i + 1 /\ nodeQ[i + 1].n - 1 <= nodeQ[j].n
    BY <1>0, <1>1 DEF Contiguous
  <2>2. ASSUME NEW j \in DOMAIN nodeQ, j < i + 1, nodeQ[i + 1].n - 1 <= nodeQ[j].n
        PROVE \/ \E k \in DOMAIN notif' : nodeQ'[i].n - 1 <= notif'[k].n
              \/ \E k \in DOMAIN nodeQ' : k < i /\ nodeQ'[i].n - 1 <= nodeQ'[k].n
    <3>1. CASE j = 1
      BY <1>1, <1>3, <1>4, <2>2, <3>1
    <3>2. CASE j # 1
      <4>1. j - 1 \in DOMAIN nodeQ' /\ j - 1 < i /\ nodeQ'[j - 1] = nodeQ[j]
        BY <1>1, <2>2, <3>2
      <4> QED BY <1>1, <2>2, <4>1
    <3> QED BY <3>1, <3>2
  <2> QED BY <1>1, <1>4, <2>1, <2>2
<1>7. link' = "up" =>
           \/ tip' <= horizon'
           \/ \E j \in DOMAIN notif' : tip' <= notif'[j].n
           \/ \E j \in DOMAIN nodeQ' : tip' <= nodeQ'[j].n
  <2> SUFFICES ASSUME link = "up"
               PROVE  \/ tip <= horizon
                      \/ \E j \in DOMAIN notif' : tip <= notif'[j].n
                      \/ \E j \in DOMAIN nodeQ' : tip <= nodeQ'[j].n
    BY <1>0
  <2>1. ASSUME NEW j \in DOMAIN nodeQ, tip <= nodeQ[j].n
        PROVE \/ \E k \in DOMAIN notif' : tip <= notif'[k].n
              \/ \E k \in DOMAIN nodeQ' : tip <= nodeQ'[k].n
    <3>1. CASE j = 1
      BY <1>3, <1>4, <2>1, <3>1
    <3>2. CASE j # 1
      BY <1>1, <2>1, <3>2
    <3> QED BY <3>1, <3>2
  <2> QED BY <1>4, <2>1 DEF Contiguous
<1> QED BY <1>5, <1>6, <1>7 DEF Contiguous

LEMMA ContiguousConnect ==
    ASSUME TypeOK, Ordered, Contiguous, ConnectOk
    PROVE  Contiguous'
<1> DEFINE m == Msg("connected", tip, FALSE)
<1>1. m \in NotifMsgs /\ m.k = "connected" /\ m.n = tip
  <2>1. m \in NotifMsgs
    BY MsgType DEF TypeOK
  <2> QED BY <2>1 DEF Msg
<1>2. notif' = Append(notif, m) /\ UNCHANGED <<tip, regTip, nodeQ, horizon>> /\ link' = "up"
  BY DEF ConnectOk, histVars
<1> HIDE DEF m
<1>3. /\ \A i \in DOMAIN notif' : \/ i \in DOMAIN notif /\ notif'[i] = notif[i]
                                  \/ i = Len(notif) + 1 /\ notif'[i] = m
      /\ \A i \in DOMAIN notif : i \in DOMAIN notif' /\ notif'[i] = notif[i]
      /\ Len(notif) + 1 \in DOMAIN notif' /\ notif'[Len(notif) + 1] = m
  BY <1>1, <1>2, AppendAt DEF TypeOK
<1>4. tip \in Nat /\ \A i \in DOMAIN nodeQ : nodeQ[i].n \in Nat /\ nodeQ[i].n - 1 <= tip
  <2>1. tip \in Nat
    BY BlocksNat DEF TypeOK
  <2> QED BY <2>1, QueueTypes DEF Ordered
<1>5. \A i \in DOMAIN nodeQ : \E j \in DOMAIN notif' : nodeQ[i].n - 1 <= notif'[j].n
  BY <1>1, <1>3, <1>4
<1>6. \E j \in DOMAIN notif' : tip <= notif'[j].n
  BY <1>1, <1>3, <1>4
<1>7. \A i \in DOMAIN notif' :
         notif'[i].k = "block" /\ ~notif'[i].early =>
           \/ notif'[i].n - 1 <= horizon'
           \/ \E j \in DOMAIN notif' : j < i /\ notif'[i].n - 1 <= notif'[j].n
  BY <1>1, <1>2, <1>3 DEF Contiguous
<1> QED BY <1>2, <1>5, <1>6, <1>7 DEF Contiguous

LEMMA ContiguousFails ==
    ASSUME TypeOK, Contiguous, ConnectFails
    PROVE  Contiguous'
<1> DEFINE m == Msg("disconnected", 0, FALSE)
<1>1. m \in NotifMsgs /\ m.k = "disconnected"
  <2>1. m \in NotifMsgs
    BY MsgType, ZeroBlock
  <2> QED BY <2>1 DEF Msg
<1>2. /\ notif' = Append(notif, m) /\ UNCHANGED <<tip, regTip, horizon>>
      /\ link' = "down" /\ link = "registering"
  BY DEF ConnectFails, histVars
<1>q. nodeQ' = [i \in DOMAIN nodeQ |->
                  [nodeQ[i] EXCEPT !.early = nodeQ[i].early \/ nodeQ[i].n > regTip]]
  BY DEF ConnectFails
<1> HIDE DEF m
<1>3. /\ \A i \in DOMAIN notif' : \/ i \in DOMAIN notif /\ notif'[i] = notif[i]
                                  \/ i = Len(notif) + 1 /\ notif'[i] = m
      /\ \A i \in DOMAIN notif : i \in DOMAIN notif' /\ notif'[i] = notif[i]
  BY <1>1, <1>2, AppendAt DEF TypeOK
<1>4. DOMAIN nodeQ' = DOMAIN nodeQ
  BY <1>q
<1>5. \A i \in DOMAIN nodeQ : nodeQ[i] \in NodeMsgs
  BY QueueTypes
<1>6. \A i \in DOMAIN nodeQ : /\ nodeQ'[i].n = nodeQ[i].n
                              /\ nodeQ'[i].early = (nodeQ[i].early \/ nodeQ[i].n > regTip)
  <2>1. \A t \in NodeMsgs, e \in BOOLEAN :
          [t EXCEPT !.early = e].n = t.n /\ [t EXCEPT !.early = e].early = e
    BY DEF NodeMsgs
  <2>2. \A i \in DOMAIN nodeQ : (nodeQ[i].early \/ nodeQ[i].n > regTip) \in BOOLEAN
    BY <1>5 DEF NodeMsgs
  <2> QED BY <1>q, <1>5, <2>1, <2>2
<1>7. \A i \in DOMAIN nodeQ' : ~nodeQ'[i].early =>
           \/ nodeQ'[i].n - 1 <= horizon'
           \/ \E j \in DOMAIN notif' : nodeQ'[i].n - 1 <= notif'[j].n
           \/ \E j \in DOMAIN nodeQ' : j < i /\ nodeQ'[i].n - 1 <= nodeQ'[j].n
  <2> SUFFICES ASSUME NEW i \in DOMAIN nodeQ, ~nodeQ[i].early, ~(nodeQ[i].n > regTip)
               PROVE \/ nodeQ[i].n - 1 <= horizon
                     \/ \E j \in DOMAIN notif' : nodeQ[i].n - 1 <= notif'[j].n
                     \/ \E j \in DOMAIN nodeQ : j < i /\ nodeQ[i].n - 1 <= nodeQ[j].n
    BY <1>2, <1>4, <1>6
  <2> QED BY <1>3 DEF Contiguous
<1>8. \A i \in DOMAIN notif' :
         notif'[i].k = "block" /\ ~notif'[i].early =>
           \/ notif'[i].n - 1 <= horizon'
           \/ \E j \in DOMAIN notif' : j < i /\ notif'[i].n - 1 <= notif'[j].n
  BY <1>1, <1>2, <1>3 DEF Contiguous
<1> QED BY <1>2, <1>7, <1>8 DEF Contiguous

LEMMA ContiguousStep ==
    ASSUME TypeOK, TypeOK', Ordered, Positions, Contiguous, Next
    PROVE  Contiguous'
<1> USE DEF nodeVars, bpVars, dbVars, histVars
<1>1. CASE HandleDisconnect \/ HandleShutdown \/ HandleVccClosed
  <2>1. \A k \in {"disconnected", "shutdown"} :
          Msg(k, 0, FALSE) \in NotifMsgs /\ Msg(k, 0, FALSE).k # "block"
    <3>1. \A k \in {"disconnected", "shutdown"} : Msg(k, 0, FALSE) \in NotifMsgs
      BY MsgType, ZeroBlock
    <3> QED BY <3>1 DEF Msg
  <2>2. /\ \E k \in {"disconnected", "shutdown"} : notif' = Append(notif, Msg(k, 0, FALSE))
        /\ UNCHANGED <<tip, regTip, nodeQ, horizon>>
        /\ link' = link \/ (link # "registering" /\ link' = "down")
    BY <1>1 DEF HandleDisconnect, HandleShutdown, HandleVccClosed, DataSourceIdle
  <2> QED BY <2>1, <2>2, ContiguousControl
<1>2. CASE Register \/ LinkDrops
  <2>1. /\ UNCHANGED <<tip, nodeQ, notif, horizon>>
        /\ link # "registering" /\ link' # "up"
    BY <1>2 DEF Register, LinkDrops
  <2> QED BY <2>1 DEF Contiguous
<1>3. CASE Restart
  BY <1>3 DEF Restart, Contiguous
<1>4. CASE FillerNext \/ TakeResult
  <2>1. UNCHANGED <<tip, regTip, link, nodeQ, notif, horizon>>
    BY <1>4 DEF FillerNext, FillerLoop, ParkRequest, RefuseRequest, AnswerRequest,
         FailRequest, TakeResult, GapAborted, GapBlock
  <2> QED BY <2>1 DEF Contiguous
<1> QED BY <1>1, <1>2, <1>3, <1>4, ContiguousTake, ContiguousNewBlock, ContiguousForward,
           ContiguousConnect, ContiguousFails DEF Next, DataSourceNext

-----------------------------------------------------------------------------
(* The count of the fillers: gaps_filling_in_progress.                     *)

Running == {"loop", "asked", "parked"}

LEMMA LiveAt ==
    ASSUME TypeOK, NEW f
    PROVE  f \in LiveFillers <=>
             f \in FillerIds /\ (\/ fillers[f].st \in Running
                                 \/ \E i \in Ended : results[i].src = f)
<1>1. \A i \in Ended : results[i].src \in FillerIds
  BY DEF Ended, TypeOK, GapResults
<1> QED BY <1>1 DEF LiveFillers, Running

\* There are too few fillers for their number to wrap round.
LEMMA LiveBound ==
    ASSUME TypeOK
    PROVE  /\ LiveFillers \in SUBSET FillerIds /\ IsFiniteSet(LiveFillers)
           /\ Cardinality(LiveFillers) \in 0..(UsizeMod - 1)
<1>1. IsFiniteSet(FillerIds) /\ Cardinality(FillerIds) = MaxBlock + MaxFresh + 1
  BY BoundsAssumption, FS_Interval DEF FillerIds
<1>2. LiveFillers \in SUBSET FillerIds
  BY LiveAt
<1>3. IsFiniteSet(LiveFillers) /\ Cardinality(LiveFillers) <= Cardinality(FillerIds)
  BY <1>1, <1>2, FS_Subset
<1>4. Cardinality(LiveFillers) \in Nat
  BY <1>3, FS_CardinalityType
<1> QED BY <1>1, <1>2, <1>3, <1>4, BoundsAssumption

LEMMA ModSmall == ASSUME NEW k \in 0..(UsizeMod - 1) PROVE k % UsizeMod = k
BY BoundsAssumption

\* Fillers that go on, and results that stay in their places.
LEMMA CountKept ==
    ASSUME TypeOK, TypeOK', Counted, UNCHANGED <<hasFirst, fresh, inProgress>>,
           ~hasFirst => UNCHANGED gaps,
           DOMAIN results' = DOMAIN results,
           \A i \in DOMAIN results :
               results'[i].src = results[i].src /\ results'[i].kind = results[i].kind,
           \A f \in FillerIds : \/ fillers'[f].st = fillers[f].st
                                \/ fillers[f].st \in Running /\ fillers'[f].st \in Running
    PROVE  Counted'
<1>1. Ended' = Ended /\ \A i \in Ended : i \in DOMAIN results
  BY DEF Ended
<1>2. \A i \in Ended : results[i].src \in FillerIds
  BY <1>1 DEF TypeOK, GapResults
<1>3. LiveFillers' = LiveFillers
  <2>1. \A i \in Ended : results'[i].src = results[i].src
    BY <1>1
  <2>2. \A f : f \in LiveFillers' <=>
                 f \in FillerIds /\ (\/ fillers'[f].st \in Running
                                     \/ \E i \in Ended : results'[i].src = f)
    BY <1>1, <1>2, <2>1 DEF LiveFillers, Running
  <2> QED BY <2>1, <2>2, LiveAt
<1>4. \A f \in FillerIds : Spawned(f)' <=> Spawned(f)
  BY DEF Spawned, Running
<1>5. ~hasFirst => Rows' = Rows
  BY DEF Rows
<1>6. results = <<>> => results' = <<>>
  BY DEF TypeOK
<1>7. \A i \in Ended : fillers'[results[i].src].st = "done"
  BY <1>2 DEF Counted, Running
<1> QED BY <1>1, <1>3, <1>4, <1>5, <1>6, <1>7 DEF Counted

\* A filler sends an end, which is its only one, or a batch that is not the last.
LEMMA CountSends ==
    ASSUME TypeOK, TypeOK', Counted, UNCHANGED <<hasFirst, fresh, inProgress>>,
           NEW f \in FillerIds, fillers[f].st \in Running,
           NEW kind, NEW lo, NEW hi, SendResult(f, kind, lo, hi),
           kind = "update" => fillers'[f].st \in Running,
           kind # "update" => fillers'[f].st = "done",
           \A g \in FillerIds \ {f} : fillers'[g].st = fillers[g].st
    PROVE  Counted'
<1> DEFINE x == [src |-> f, kind |-> kind, to |-> fillers[f].to, lo |-> lo, hi |-> hi]
           n == Len(results) + 1
<1>1. results' = Append(results, x) /\ x.src = f /\ x.kind = kind
  BY DEF SendResult
<1>2. /\ n \in DOMAIN results' /\ results'[n] = x
      /\ \A i \in DOMAIN results : i \in DOMAIN results' /\ results'[i] = results[i]
      /\ \A i \in DOMAIN results' : i \in DOMAIN results \/ i = n
      /\ n \notin DOMAIN results
  BY <1>1, AppendProperties DEF TypeOK
<1>3. /\ \A i \in Ended : i \in Ended' /\ results'[i] = results[i]
      /\ \A i \in Ended' : \/ i \in Ended /\ results'[i] = results[i]
                           \/ i = n /\ kind # "update"
      /\ kind # "update" => n \in Ended'
  BY <1>1, <1>2 DEF Ended
<1>4. hasFirst
  BY DEF Counted, Spawned, Running
<1>5. \A i \in Ended : results[i].src \in FillerIds \ {f}
  BY DEF Counted, Running, Ended, TypeOK, GapResults
<1>6. LiveFillers' = LiveFillers
  <2>1. \A g : g \in LiveFillers' <=>
                 g \in FillerIds /\ (\/ fillers'[g].st \in Running
                                     \/ \E i \in Ended' : results'[i].src = g)
    BY DEF LiveFillers, Running, Ended, TypeOK, GapResults
  <2>2. f \in LiveFillers /\ f \in LiveFillers'
    BY <1>1, <1>2, <1>3, <2>1, LiveAt
  <2>3. \A g \in FillerIds \ {f} : g \in LiveFillers' <=> g \in LiveFillers
    <3> SUFFICES ASSUME NEW g \in FillerIds \ {f} PROVE g \in LiveFillers' <=> g \in LiveFillers
      OBVIOUS
    <3>1. (\E i \in Ended' : results'[i].src = g) <=> \E i \in Ended : results[i].src = g
      BY <1>1, <1>2, <1>3
    <3> QED BY <2>1, <3>1, LiveAt
  <2>4. LiveFillers' \subseteq FillerIds /\ LiveFillers \subseteq FillerIds
    BY <2>1, LiveAt
  <2> QED BY <2>2, <2>3, <2>4
<1>7. \A g \in FillerIds : Spawned(g)' <=> Spawned(g)
  BY DEF Spawned, Running
<1>8. ASSUME NEW i \in Ended'
      PROVE  /\ fillers'[results'[i].src].st = "done"
             /\ \A j \in Ended' : results'[j].src = results'[i].src => j = i
  <2> HIDE DEF x, n
  <2>1. CASE i \in Ended /\ results'[i] = results[i]
    <3>1. results[i].src \in FillerIds \ {f}
      BY <1>5, <2>1
    <3>2. fillers[results[i].src].st = "done"
      BY <2>1 DEF Counted
    <3>3. \A j \in Ended' : results'[j].src = results'[i].src => j \in Ended /\ results'[j] = results[j]
      BY <1>1, <1>2, <1>3, <2>1, <3>1
    <3> QED BY <2>1, <3>1, <3>2, <3>3 DEF Counted
  <2>2. CASE i = n /\ kind # "update"
    <3>1. results'[i].src = f
      BY <1>1, <1>2, <2>2
    <3>2. \A j \in Ended' : results'[j].src = f => j = n
      BY <1>3, <1>5
    <3> QED BY <2>2, <3>1, <3>2
  <2> QED BY <1>3, <2>1, <2>2
<1> QED BY <1>4, <1>6, <1>7, <1>8 DEF Counted

\* The processor takes a result: one filler fewer with an end.
LEMMA CountTakes ==
    ASSUME TypeOK, TypeOK', Counted, UNCHANGED <<hasFirst, fresh>>,
           results # <<>>, results' = Tail(results),
           \A f \in FillerIds : fillers'[f].st = fillers[f].st,
           inProgress' = IF Head(results).kind = "update" THEN inProgress
                                                          ELSE (inProgress - 1) % UsizeMod
    PROVE  Counted'
<1> DEFINE f == Head(results).src
<1>1. /\ 1 \in DOMAIN results /\ Head(results) = results[1]
      /\ \A i \in DOMAIN results' : i + 1 \in DOMAIN results /\ results'[i] = results[i + 1]
                                      /\ 1 < i + 1
      /\ \A i \in DOMAIN results : i # 1 => i - 1 \in DOMAIN results'
                                              /\ results'[i - 1] = results[i]
      /\ DOMAIN results \subseteq Nat \ {0} /\ DOMAIN results' \subseteq Nat
  BY TailAt DEF TypeOK
<1>2. /\ \A i \in Ended' : i + 1 \in Ended /\ results'[i] = results[i + 1] /\ i + 1 # 1
      /\ \A i \in Ended : i # 1 => i - 1 \in Ended' /\ results'[i - 1] = results[i]
      /\ Ended \subseteq Nat /\ Ended' \subseteq Nat
      /\ 1 \in Ended <=> Head(results).kind # "update"
  BY <1>1 DEF Ended
<1>3. hasFirst
  BY DEF Counted
<1>9. \A i \in Ended' : \E j \in Ended : j # 1 /\ results[j] = results'[i]
  <2> SUFFICES ASSUME NEW i \in Ended' PROVE \E j \in Ended : j # 1 /\ results[j] = results'[i]
    OBVIOUS
  <2>1. i + 1 \in Ended /\ results[i + 1] = results'[i] /\ i + 1 # 1
    BY <1>2
  <2> QED BY <2>1
<1>10. \A i \in Ended : i # 1 => \E j \in Ended' : results'[j] = results[i]
  <2> SUFFICES ASSUME NEW i \in Ended, i # 1 PROVE \E j \in Ended' : results'[j] = results[i]
    OBVIOUS
  <2>1. i - 1 \in Ended' /\ results'[i - 1] = results[i]
    BY <1>2
  <2> QED BY <2>1
<1>4. \A i \in Ended : results[i].src \in FillerIds
  BY DEF Ended, TypeOK, GapResults
<1>5. \A g : g \in LiveFillers' <=>
               g \in FillerIds /\ (\/ fillers'[g].st \in Running
                                   \/ \E i \in Ended' : results'[i].src = g)
  BY DEF LiveFillers, Running, Ended, TypeOK, GapResults
<1>6. inProgress' = Cardinality(LiveFillers')
  <2>1. CASE Head(results).kind = "update"
    <3>1. \A g : (\E i \in Ended' : results'[i].src = g) <=> \E i \in Ended : results[i].src = g
      <4>1. \A g : (\E i \in Ended' : results'[i].src = g) => \E i \in Ended : results[i].src = g
        BY <1>9
      <4>2. \A g : (\E i \in Ended : results[i].src = g) => \E i \in Ended' : results'[i].src = g
        <5>1. 1 \notin Ended
          BY <1>2, <2>1
        <5>2. \A i \in Ended : i # 1
          BY <5>1
        <5> QED BY <1>10, <5>2
      <4> QED BY <4>1, <4>2
    <3>2. \A g : g \in LiveFillers' <=> g \in LiveFillers
      BY <1>5, <3>1, LiveAt
    <3>3. LiveFillers' = LiveFillers
      BY <3>2
    <3> QED BY <2>1, <3>3 DEF Counted
  <2>2. CASE Head(results).kind # "update"
    <3>1. f \in LiveFillers /\ f \in FillerIds /\ fillers[f].st = "done"
      BY <1>1, <1>2, <1>4, <2>2, LiveAt DEF Counted
    <3>2. f \notin LiveFillers'
      <4>1. f = results[1].src /\ 1 \in Ended
        BY <1>1, <1>2, <2>2
      <4>2. \A i \in Ended' : results'[i].src # f
        <5>1. \A i \in Ended : results[i].src = results[1].src => i = 1
          BY <4>1 DEF Counted
        <5> QED BY <1>9, <4>1, <5>1
      <4> QED BY <1>5, <3>1, <4>2 DEF Running
    <3>3. \A g \in FillerIds \ {f} : g \in LiveFillers' <=> g \in LiveFillers
      <4> SUFFICES ASSUME NEW g \in FillerIds \ {f} PROVE g \in LiveFillers' <=> g \in LiveFillers
        OBVIOUS
      <4>1. (\E i \in Ended' : results'[i].src = g) => \E i \in Ended : results[i].src = g
        BY <1>9
      <4>2. (\E i \in Ended : results[i].src = g) => \E i \in Ended' : results'[i].src = g
        <5>1. \A i \in Ended : results[i].src = g => i # 1
          BY <1>1
        <5> QED BY <1>10, <5>1
      <4> QED BY <1>5, <4>1, <4>2, LiveAt
    <3>4. LiveFillers' = LiveFillers \ {f}
      BY <1>5, <3>2, <3>3, LiveAt
    <3>5. /\ Cardinality(LiveFillers') = Cardinality(LiveFillers) - 1
          /\ Cardinality(LiveFillers') \in Nat
      BY <3>1, <3>4, LiveBound, FS_RemoveElement, FS_CardinalityType
    <3>6. inProgress - 1 \in 0..(UsizeMod - 1)
      BY <3>5, LiveBound, BoundsAssumption DEF Counted
    <3>7. (inProgress - 1) % UsizeMod = inProgress - 1
      BY <3>6, ModSmall
    <3> QED BY <2>2, <3>5, <3>7 DEF Counted
  <2> QED BY <2>1, <2>2
<1>7. \A g \in FillerIds : Spawned(g)' <=> Spawned(g)
  BY DEF Spawned
<1>8. ASSUME NEW i \in Ended'
      PROVE  /\ fillers'[results'[i].src].st = "done"
             /\ \A j \in Ended' : results'[j].src = results'[i].src => j = i
  <2>1. i + 1 \in Ended /\ results'[i] = results[i + 1]
    BY <1>2
  <2>2. fillers'[results'[i].src].st = "done"
    BY <1>4, <2>1 DEF Counted
  <2>3. ASSUME NEW j \in Ended', results'[j].src = results'[i].src PROVE j = i
    <3>1. j + 1 \in Ended /\ results'[j] = results[j + 1]
      BY <1>2
    <3>2. j + 1 = i + 1
      BY <2>1, <2>3, <3>1 DEF Counted
    <3> QED BY <1>2, <3>2
  <2> QED BY <2>2, <2>3
<1> QED BY <1>3, <1>6, <1>7, <1>8 DEF Counted

\* A gap is made: one filler more, under a free serial number.
LEMMA CountSpawns ==
    ASSUME TypeOK, TypeOK', Counted, UNCHANGED results, hasFirst',
           NEW id \in FillerIds, id = MaxBlock + 1 + fresh, fresh' = fresh + 1,
           fillers'[id].st = "loop",
           \A f \in FillerIds \ {id} : fillers'[f].st = fillers[f].st,
           inProgress' = (inProgress + 1) % UsizeMod
    PROVE  Counted'
<1>1. fillers[id].st = "none"
  BY BoundsAssumption DEF Counted, Spawned, TypeOK
<1>2. Ended' = Ended /\ \A i \in Ended : results[i].src \in FillerIds \ {id}
  BY <1>1 DEF Ended, Counted, TypeOK, GapResults
<1>3. LiveFillers' = LiveFillers \cup {id} /\ id \notin LiveFillers
  <2>1. \A g : g \in LiveFillers' <=>
                 g \in FillerIds /\ (\/ fillers'[g].st \in Running
                                     \/ \E i \in Ended : results[i].src = g)
    BY DEF LiveFillers, Running, Ended, TypeOK, GapResults
  <2>2. id \in LiveFillers' /\ id \notin LiveFillers
    BY <1>1, <1>2, <2>1, LiveAt DEF Running
  <2>3. \A g \in FillerIds \ {id} : g \in LiveFillers' <=> g \in LiveFillers
    BY <2>1, LiveAt
  <2> QED BY <2>1, <2>2, <2>3, LiveAt
<1>4. /\ Cardinality(LiveFillers') = inProgress + 1
      /\ inProgress + 1 \in 0..(UsizeMod - 1)
  <2>1. Cardinality(LiveFillers') = Cardinality(LiveFillers) + 1
    BY <1>3, LiveBound, FS_AddElement
  <2>2. Cardinality(LiveFillers') <= MaxBlock + MaxFresh + 1
    <3>1. IsFiniteSet(FillerIds) /\ Cardinality(FillerIds) = MaxBlock + MaxFresh + 1
      BY BoundsAssumption, FS_Interval DEF FillerIds
    <3>2. LiveFillers' \in SUBSET FillerIds
      BY <1>3, LiveBound
    <3> QED BY <3>1, <3>2, FS_Subset
  <2>3. inProgress = Cardinality(LiveFillers) /\ Cardinality(LiveFillers) \in Nat
    BY LiveBound DEF Counted
  <2> QED BY <2>1, <2>2, <2>3, BoundsAssumption
<1>5. inProgress' = Cardinality(LiveFillers')
  BY <1>4, ModSmall
<1>6. \A f \in FillerIds : f > MaxBlock + fresh' => fillers'[f].st = "none"
  <2> SUFFICES ASSUME NEW f \in FillerIds, f > MaxBlock + fresh' PROVE fillers'[f].st = "none"
    OBVIOUS
  <2>1. f > MaxBlock + fresh /\ f # id
    BY BoundsAssumption DEF TypeOK, FillerIds
  <2> QED BY <2>1 DEF Counted, Spawned
<1>7. \A i \in Ended : fillers'[results[i].src].st = "done"
  BY <1>2 DEF Counted
<1> QED BY <1>2, <1>5, <1>6, <1>7 DEF Counted, Spawned

LEMMA CountFirst == ASSUME TypeOK, TypeOK', Counted, FirstConnect PROVE Counted'
<1> DEFINE sink == Head(notif).n
           isNew == cursor # sink
           id == MaxBlock + 1 + fresh
<1>1. Rows = {} /\ results = <<>> /\ \A f \in FillerIds : fillers[f].st = "none"
  BY DEF FirstConnect, Counted, Spawned
<1>2. Ended = {} /\ LiveFillers = {} /\ inProgress = 0
  <2>1. Ended = {}
    BY <1>1 DEF Ended
  <2>2. LiveFillers = {}
    BY <1>1, <2>1 DEF LiveFillers
  <2> QED BY <2>1, <2>2, FS_EmptySet DEF Counted
<1>3. UNCHANGED results /\ hasFirst'
  BY DEF FirstConnect
<1>4. CASE isNew
  <2>1. id \in FillerIds /\ fresh' = fresh + 1
    BY <1>4, BoundsAssumption DEF FirstConnect, TypeOK, FillerIds
  <2>2. /\ fillers'[id].st = "loop"
        /\ \A f \in FillerIds \ {id} : fillers'[f].st = fillers[f].st
    BY <1>1, <1>4, <2>1 DEF FirstConnect, NewFiller
  <2>3. inProgress' = (inProgress + 1) % UsizeMod
    <3>1. inProgress' = Cardinality({} \cup {sink})
      BY <1>1, <1>4 DEF FirstConnect
    <3>2. {} \cup {sink} = {sink}
      OBVIOUS
    <3>3. inProgress' = 1
      BY <3>1, <3>2, FS_Singleton
    <3>4. 1 \in 0..(UsizeMod - 1)
      BY BoundsAssumption
    <3>5. 1 % UsizeMod = 1
      BY <3>4, ModSmall
    <3> QED BY <1>2, <3>3, <3>5
  <2> QED BY <1>3, <2>1, <2>2, <2>3, CountSpawns
<1>5. CASE ~isNew
  <2>1. UNCHANGED fresh /\ \A f \in FillerIds : fillers'[f] = fillers[f]
    BY <1>1, <1>5 DEF FirstConnect
  <2>2. inProgress' = 0
    <3>1. inProgress' = Cardinality({} \cup {})
      BY <1>1, <1>5 DEF FirstConnect
    <3> QED BY <3>1, FS_EmptySet
  <2>3. Ended' = {} /\ LiveFillers' = {}
    <3>1. Ended' = {}
      BY <1>1, <1>3 DEF Ended
    <3> QED BY <1>1, <2>1, <3>1 DEF LiveFillers
  <2> QED BY <1>1, <1>3, <2>1, <2>2, <2>3, FS_EmptySet DEF Counted, Spawned
<1> QED BY <1>4, <1>5

LEMMA CountReconnect == ASSUME TypeOK, TypeOK', Counted, Reconnect PROVE Counted'
<1> DEFINE sink == Head(notif).n
           id == MaxBlock + 1 + fresh
<1>1. id \in FillerIds /\ fresh' = fresh + 1 /\ sink \in Blocks
  BY BoundsAssumption, ReceivesType DEF Reconnect, TypeOK, FillerIds
<1>2. fillers' = [Dropped(sink) EXCEPT ![id] = NewFiller(lpb, sink, "open")]
  BY DEF Reconnect
<1>3. \A f \in FillerIds : Dropped(sink)[f].st = fillers[f].st
  BY DEF Dropped, TypeOK, Tasks
<1>4. Dropped(sink) \in [FillerIds -> Tasks]
  BY <1>1, DroppedType
<1>5. /\ fillers'[id].st = "loop"
      /\ \A f \in FillerIds \ {id} : fillers'[f].st = fillers[f].st
  BY <1>1, <1>2, <1>3, <1>4 DEF NewFiller
<1> QED BY <1>1, <1>5, CountSpawns DEF Reconnect, bpVars

LEMMA CountFillers ==
    ASSUME TypeOK, TypeOK', Counted, NEW f \in FillerIds,
           FillerLoop(f) \/ ParkRequest(f) \/ RefuseRequest(f) \/ AnswerRequest(f) \/ FailRequest(f)
    PROVE  Counted'
<1> USE DEF bpVars, dbVars, nodeVars
<1>1. fillers[f].st \in Running
  BY DEF FillerLoop, ParkRequest, RefuseRequest, AnswerRequest, FailRequest, Running
<1>2. fillers \in [FillerIds -> Tasks] /\ fillers[f] \in Tasks
  BY DEF TypeOK
<1>3. CASE FillerLoop(f) /\ fillers[f].intr # "open"
  <2>1. SendResult(f, "interrupted", 0, 0) /\ fillers' = [fillers EXCEPT ![f].st = "done"]
    BY <1>3 DEF FillerLoop
  <2>2. fillers'[f].st = "done" /\ \A g \in FillerIds \ {f} : fillers'[g].st = fillers[g].st
    BY <1>2, <2>1 DEF Tasks
  <2> QED BY <1>1, <1>3, <2>1, <2>2, CountSends DEF FillerLoop
<1>4. CASE \/ FillerLoop(f) /\ fillers[f].intr = "open"
           \/ ParkRequest(f) \/ RefuseRequest(f)
  <2>1. PICK st \in Running : fillers' = [fillers EXCEPT ![f].st = st]
    BY <1>4 DEF FillerLoop, ParkRequest, RefuseRequest, Running
  <2>2. \A g \in FillerIds : \/ fillers'[g].st = fillers[g].st
                             \/ fillers[g].st \in Running /\ fillers'[g].st \in Running
    BY <1>1, <1>2, <2>1 DEF Tasks
  <2>3. UNCHANGED <<results, hasFirst, fresh, inProgress, gaps>>
    BY <1>4 DEF FillerLoop, ParkRequest, RefuseRequest
  <2> QED BY <2>2, <2>3, CountKept
<1>5. CASE AnswerRequest(f)
  <2> DEFINE lo == fillers[f].from
  <2>1. PICK hi \in Answers(f) :
          LET finished == lo <= fillers[f].to /\ fillers[f].to <= hi
          IN  /\ SendResult(f, IF finished THEN "finished" ELSE "update", lo, hi)
              /\ fillers' = [fillers EXCEPT ![f].st = IF finished THEN "done" ELSE "loop",
                                            ![f].from = IF finished THEN @ ELSE hi]
    BY <1>5 DEF AnswerRequest
  <2>2. PICK kind \in {"finished", "update"} :
          /\ SendResult(f, kind, lo, hi)
          /\ kind = "update" => fillers'[f].st = "loop"
          /\ kind # "update" => fillers'[f].st = "done"
          /\ \A g \in FillerIds \ {f} : fillers'[g].st = fillers[g].st
    <3>1. CASE lo <= fillers[f].to /\ fillers[f].to <= hi
      BY <1>2, <2>1, <3>1 DEF Tasks
    <3>2. CASE ~(lo <= fillers[f].to /\ fillers[f].to <= hi)
      BY <1>2, <2>1, <3>2 DEF Tasks
    <3> QED BY <3>1, <3>2
  <2>3. UNCHANGED <<hasFirst, fresh, inProgress>>
    BY <1>5 DEF AnswerRequest
  <2> QED BY <1>1, <2>2, <2>3, CountSends DEF Running
<1>6. CASE FailRequest(f)
  <2>1. SendResult(f, "error", 0, 0) /\ fillers' = [fillers EXCEPT ![f].st = "done"]
    BY <1>6 DEF FailRequest
  <2>2. fillers'[f].st = "done" /\ \A g \in FillerIds \ {f} : fillers'[g].st = fillers[g].st
    BY <1>2, <2>1 DEF Tasks
  <2> QED BY <1>1, <1>6, <2>1, <2>2, CountSends DEF FailRequest
<1> QED BY <1>3, <1>4, <1>5, <1>6

LEMMA CountDropped ==
    ASSUME TypeOK, NEW to \in Blocks
    PROVE  \A f \in FillerIds : Dropped(to)[f].st = fillers[f].st
BY DEF Dropped, TypeOK, Tasks

LEMMA CountResult == ASSUME TypeOK, TypeOK', Counted, GapAborted \/ GapBlock PROVE Counted'
<1> DEFINE r == Head(results)
<1>1. /\ r \in GapResults /\ r.src \in FillerIds /\ r.to \in Blocks /\ hasFirst
      /\ results # <<>> /\ UNCHANGED <<hasFirst, fresh>>
  BY HeadResultType DEF GapAborted, GapBlock, Counted
<1>2. CASE GapAborted
  <2>1. /\ fillers' = Dropped(r.to) /\ inProgress' = (inProgress - 1) % UsizeMod
        /\ results' = Tail(results) /\ r.kind # "update"
    BY <1>2 DEF GapAborted, FillerEnds
  <2> QED BY <1>1, <2>1, CountDropped, CountTakes
<1>3. CASE GapBlock
  <2> DEFINE last == r.lo = r.hi
             end == RemovesRow(r)
             moved == [fillers EXCEPT ![r.src].pos = MaxOf(@, r.lo + 1)]
  <2>1. \A f \in FillerIds : moved[f].st = fillers[f].st
    BY <1>1 DEF TypeOK, Tasks
  <2>2. \A f \in FillerIds : fillers'[f].st = fillers[f].st
    <3>1. CASE end
      <4>1. fillers' = [f \in FillerIds |-> [moved[f] EXCEPT !.intr = Dropped(r.to)[f].intr]]
        BY <1>3, <3>1 DEF GapBlock
      <4>2. ASSUME NEW f \in FillerIds, NEW intr
            PROVE  [moved[f] EXCEPT !.intr = intr].st = fillers[f].st
        <5>1. fillers[f] \in Tasks /\ fillers[r.src] \in Tasks /\ fillers \in [FillerIds -> Tasks]
          BY <1>1 DEF TypeOK
        <5>2. CASE f = r.src
          <6>1. moved[f] = [fillers[f] EXCEPT !.pos = MaxOf(fillers[f].pos, r.lo + 1)]
            BY <1>1, <5>1, <5>2
          <6> QED BY <5>1, <6>1 DEF Tasks
        <5>3. CASE f # r.src
          <6>1. moved[f] = fillers[f]
            BY <1>1, <5>1, <5>3
          <6> QED BY <5>1, <6>1 DEF Tasks
        <5> QED BY <5>2, <5>3
      <4> QED BY <4>1, <4>2
    <3>2. CASE ~end
      BY <1>3, <2>1, <3>2 DEF GapBlock
    <3> QED BY <3>1, <3>2
  <2>3. CASE last
    <3>1. results' = Tail(results) /\ (end <=> r.kind # "update")
      BY <1>3, <2>3 DEF GapBlock, RemovesRow
    <3>2. inProgress' = IF end THEN (inProgress - 1) % UsizeMod ELSE inProgress
      BY <1>3 DEF GapBlock
    <3> QED BY <1>1, <2>2, <3>1, <3>2, CountTakes
  <2>4. CASE ~last
    <3>1. ~end /\ UNCHANGED inProgress
      BY <1>3, <2>4 DEF GapBlock, RemovesRow
    <3>2. results' = [results EXCEPT ![1] = [r EXCEPT !.lo = r.lo + 1]]
      <4>1. results' = [results EXCEPT ![1].lo = @ + 1]
        BY <1>3, <2>4 DEF GapBlock
      <4>2. results \in Seq(GapResults) /\ r = results[1] /\ 1 \in DOMAIN results
        BY <1>1 DEF TypeOK
      <4> QED BY <4>1, <4>2
    <3>3. /\ DOMAIN results' = DOMAIN results
          /\ \A i \in DOMAIN results :
               results'[i].src = results[i].src /\ results'[i].kind = results[i].kind
      <4>1. results \in Seq(GapResults) /\ r = results[1] /\ 1 \in DOMAIN results
        BY <1>1 DEF TypeOK
      <4>2. [r EXCEPT !.lo = r.lo + 1].src = r.src /\ [r EXCEPT !.lo = r.lo + 1].kind = r.kind
        BY <1>1 DEF GapResults
      <4> HIDE DEF r
      <4> QED BY <3>2, <4>1, <4>2
    <3> QED BY <1>1, <2>2, <3>1, <3>3, CountKept
  <2> QED BY <2>3, <2>4
<1> QED BY <1>2, <1>3

\* Without a crash so far a step was none.
LEMMA CountStep == ASSUME CountInv, TypeOK', Next PROVE CountInv'
<1> SUFFICES ASSUME used'["crash"] = 0 PROVE Counted'
  BY DEF CountInv
<1> USE DEF nodeVars, bpVars, dbVars, histVars
<1>1. used["crash"] = 0 /\ ~Restart
  <2>1. Restart => used'["crash"] = used["crash"] + 1
    BY DEF Restart, Fault, CountInv, TypeOK, FaultKinds
  <2>2. used["crash"] \in Nat
    BY DEF CountInv, TypeOK, FaultKinds
  <2>3. CASE UNCHANGED used
    BY <2>1, <2>2, <2>3
  <2>4. CASE \E k \in FaultKinds : Fault(k)
    BY <2>1, <2>2, <2>4 DEF Fault, CountInv, TypeOK
  <2>5. UNCHANGED used \/ \E k \in FaultKinds : Fault(k)
    BY DEF Next, NewBlock, LinkDrops, Restart, DataSourceNext, Register, ConnectOk, ConnectFails,
       HandleDisconnect, HandleNotification, HandleShutdown, HandleVccClosed, FillerNext,
       FillerLoop, ParkRequest, RefuseRequest, AnswerRequest, FailRequest, TakeNotification,
       FirstConnect, Reconnect, BlindReconnect, Disconnected, Shutdown, BlockNotification,
       TakeResult, GapAborted, GapBlock, FaultKinds
  <2> QED BY <2>1, <2>2, <2>3, <2>4, <2>5
<1>2. TypeOK /\ TypeOK' /\ Counted
  BY <1>1 DEF CountInv
<1>3. CASE NewBlock \/ LinkDrops \/ (DataSourceNext /\ ~ConnectOk)
  <2>1. UNCHANGED <<fillers, results, hasFirst, fresh, inProgress, gaps>>
    BY <1>3 DEF NewBlock, LinkDrops, DataSourceNext, Register, ConnectFails,
       HandleDisconnect, HandleNotification, HandleShutdown, HandleVccClosed
  <2> QED BY <1>2, <2>1, CountKept
<1>4. CASE ConnectOk
  <2>1. \A f \in FillerIds : \/ fillers'[f].st = fillers[f].st
                             \/ fillers[f].st \in Running /\ fillers'[f].st \in Running
    BY <1>2, <1>4 DEF ConnectOk, Running, TypeOK, Tasks
  <2>2. UNCHANGED <<results, hasFirst, fresh, inProgress, gaps>>
    BY <1>4 DEF ConnectOk
  <2> QED BY <1>2, <2>1, <2>2, CountKept
<1>5. CASE BlindReconnect \/ Disconnected \/ Shutdown \/ BlockNotification
  <2>1. \A f \in FillerIds : fillers'[f].st = fillers[f].st
    <3>1. CASE InterruptAll
      BY <1>2, <3>1 DEF InterruptAll, TypeOK, Tasks
    <3>2. CASE UNCHANGED fillers
      BY <3>2
    <3> QED BY <1>5, <3>1, <3>2 DEF BlindReconnect, Disconnected, Shutdown, BlockNotification
  <2>2. UNCHANGED <<results, hasFirst, fresh, inProgress, gaps>>
    BY <1>5 DEF BlindReconnect, Disconnected, Shutdown, BlockNotification
  <2> QED BY <1>2, <2>1, <2>2, CountKept
<1>6. CASE FillerNext
  BY <1>2, <1>6, CountFillers DEF FillerNext
<1> QED BY <1>1, <1>2, <1>3, <1>4, <1>5, <1>6, CountFirst, CountReconnect, CountResult
        DEF Next, TakeNotification, TakeResult

\* Until a restart gaps_filling_in_progress is the number of fillers whose end is
\* still to come, however connections break, requests are parked, refused or fail
\* and results wait in the channel (BlockProcessor::process).
THEOREM CountTheorem == Spec => []InProgressCounts
<1>1. Init => CountInv
  <2> SUFFICES ASSUME Init PROVE Counted
    BY TypeInit DEF CountInv
  <2>1. Ended = {} /\ LiveFillers = {}
    BY DEF Init, Ended, LiveFillers, IdleFiller
  <2>2. Rows = {}
    BY DEF Init, Rows
  <2> QED BY <2>1, <2>2, FS_EmptySet DEF Init, Counted, Spawned, IdleFiller
<1>2. CountInv /\ [Next]_vars => CountInv'
  <2>1. ASSUME CountInv, Next PROVE CountInv'
    BY <2>1, CountStep, TypeNext DEF CountInv
  <2>2. ASSUME CountInv, UNCHANGED vars PROVE CountInv'
    BY <2>2, TypeStutter
       DEF CountInv, Counted, Rows, Spawned, Ended, LiveFillers, vars, bpVars, dbVars, nodeVars
  <2> QED BY <2>1, <2>2
<1>3. CountInv => InProgressCounts
  BY DEF CountInv, Counted, InProgressCounts
<1> QED BY <1>1, <1>2, <1>3, PTL DEF Spec

-----------------------------------------------------------------------------
(* The tasks and the batches.                                              *)

LEMMA TaskTypes ==
    ASSUME TypeOK, NEW f \in FillerIds
    PROVE  /\ fillers[f] \in Tasks
           /\ fillers[f].from \in Nat /\ fillers[f].to \in Nat /\ fillers[f].to \in Blocks
           /\ fillers[f].start \in Nat /\ fillers[f].pos \in Nat
<1>1. fillers[f] \in Tasks
  BY DEF TypeOK
<1> QED BY <1>1, BlocksNat DEF Tasks

LEMMA BatchTypes ==
    ASSUME TypeOK, NEW i \in DOMAIN results
    PROVE  /\ results[i] \in GapResults
           /\ results[i].src \in FillerIds /\ results[i].to \in Blocks
           /\ results[i].lo \in Nat /\ results[i].hi \in Nat /\ results[i].lo <= results[i].hi
           /\ i \in Nat
<1>1. results[i] \in GapResults /\ i \in Nat
  BY DEF TypeOK
<1> QED BY <1>1, BlocksNat DEF GapResults

\* What a step other than a connect, a gap block and a restart leaves of a task.
SameTask(f) == /\ fillers'[f].start = fillers[f].start
               /\ fillers'[f].pos = fillers[f].pos
               /\ fillers'[f].to = fillers[f].to
               /\ fillers'[f].st = "none" <=> fillers[f].st = "none"
               /\ fillers'[f].from = fillers[f].from \/ AnswerRequest(f)

\* The steps that neither start a filler nor commit a gap block.
Plain == \/ NewBlock \/ LinkDrops \/ DataSourceNext \/ FillerNext
         \/ BlindReconnect \/ Disconnected \/ Shutdown \/ BlockNotification \/ GapAborted

LEMMA SameStep ==
    ASSUME TypeOK, Plain
    PROVE  /\ \A f \in FillerIds : SameTask(f)
           /\ fresh' = fresh /\ hasFirst' = hasFirst /\ gaps' = gaps
<1> USE DEF nodeVars, bpVars, dbVars, histVars
<1>0. \A f \in FillerIds : fillers[f] \in Tasks
  BY DEF TypeOK
<1>s. ASSUME NEW f \in FillerIds, NEW st, fillers'[f] = [fillers[f] EXCEPT !.st = st],
             fillers[f].st = "none" <=> st = "none"
      PROVE  SameTask(f)
  <2>1. fillers[f] \in Tasks
    BY <1>0
  <2> QED BY <1>s, <2>1 DEF SameTask, Tasks
<1>i. ASSUME NEW f \in FillerIds, NEW intr, fillers'[f] = [fillers[f] EXCEPT !.intr = intr]
      PROVE  SameTask(f)
  <2>1. fillers[f] \in Tasks
    BY <1>0
  <2> QED BY <1>i, <2>1 DEF SameTask, Tasks
<1>e. ASSUME NEW f \in FillerIds, fillers'[f] = fillers[f]
      PROVE  SameTask(f)
  BY <1>e DEF SameTask
<1>1. CASE UNCHANGED <<fillers, fresh, hasFirst, gaps>>
  BY <1>1 DEF SameTask
<1>2. CASE ConnectOk
  <2>1. \A f \in FillerIds : \/ fillers'[f] = fillers[f]
                             \/ /\ fillers'[f] = [fillers[f] EXCEPT !.st = "asked"]
                                /\ fillers[f].st = "parked"
    BY <1>2 DEF ConnectOk
  <2> QED BY <1>s, <1>e, <1>2, <2>1 DEF ConnectOk
<1>3. CASE Disconnected \/ Shutdown
  <2>1. \A f \in FillerIds : \/ fillers'[f] = fillers[f]
                             \/ fillers'[f] = [fillers[f] EXCEPT !.intr = "sent"]
    BY <1>3 DEF Disconnected, Shutdown, InterruptAll
  <2>2. UNCHANGED <<fresh, hasFirst, gaps>>
    BY <1>3 DEF Disconnected, Shutdown
  <2> QED BY <1>i, <1>e, <2>1, <2>2
<1>4. CASE GapAborted
  <2>1. \A f \in FillerIds : \/ fillers'[f] = fillers[f]
                             \/ fillers'[f] = [fillers[f] EXCEPT !.intr = "closed"]
    BY <1>4 DEF GapAborted, FillerEnds, Dropped
  <2>2. UNCHANGED <<fresh, hasFirst, gaps>>
    BY <1>4 DEF GapAborted
  <2> QED BY <1>i, <1>e, <2>1, <2>2
<1>5. CASE FillerNext
  <2>1. PICK g \in FillerIds : FillerLoop(g) \/ ParkRequest(g) \/ RefuseRequest(g)
                                 \/ AnswerRequest(g) \/ FailRequest(g)
    BY <1>5 DEF FillerNext
  <2>2. UNCHANGED <<fresh, hasFirst, gaps>>
    BY <2>1 DEF FillerLoop, ParkRequest, RefuseRequest, AnswerRequest, FailRequest
  <2>3. fillers[g].st \in {"loop", "asked"}
    BY <2>1 DEF FillerLoop, ParkRequest, RefuseRequest, AnswerRequest, FailRequest
  <2>4. CASE AnswerRequest(g)
    <3>1. PICK st \in {"done", "loop"}, b \in Int :
            fillers' = [fillers EXCEPT ![g] = [fillers[g] EXCEPT !.st = st, !.from = b]]
      <4>1. PICK hi \in Answers(g) :
              LET finished == fillers[g].from <= fillers[g].to /\ fillers[g].to <= hi
              IN fillers' = [fillers EXCEPT ![g].st = IF finished THEN "done" ELSE "loop",
                                           ![g].from = IF finished THEN @ ELSE hi]
        BY <2>4 DEF AnswerRequest
      <4>2. hi \in Int /\ fillers[g].from \in Int /\ fillers \in [FillerIds -> Tasks]
        BY TaskTypes, BlocksNat DEF Answers, TypeOK
      <4>3. CASE fillers[g].from <= fillers[g].to /\ fillers[g].to <= hi
        <5>1. fillers' = [fillers EXCEPT ![g] =
                            [fillers[g] EXCEPT !.st = "done", !.from = fillers[g].from]]
          BY <4>1, <4>2, <4>3
        <5> QED BY <4>2, <5>1
      <4>4. CASE ~(fillers[g].from <= fillers[g].to /\ fillers[g].to <= hi)
        <5>1. fillers' = [fillers EXCEPT ![g] = [fillers[g] EXCEPT !.st = "loop", !.from = hi]]
          BY <4>1, <4>2, <4>4
        <5> QED BY <4>2, <5>1
      <4> QED BY <4>3, <4>4
    <3>2. ASSUME NEW f \in FillerIds, f = g,
                 fillers'[f] = [fillers[f] EXCEPT !.st = st, !.from = b]
          PROVE  SameTask(f)
      <4>1. fillers[f] \in Tasks
        BY <1>0
      <4> QED BY <2>3, <2>4, <3>2, <4>1 DEF SameTask, Tasks
    <3>3. \A f \in FillerIds :
            \/ f # g /\ fillers'[f] = fillers[f]
            \/ f = g /\ fillers'[f] = [fillers[f] EXCEPT !.st = st, !.from = b]
      BY <3>1 DEF TypeOK
    <3> QED BY <1>e, <2>2, <3>2, <3>3
  <2>5. CASE FillerLoop(g) \/ ParkRequest(g) \/ RefuseRequest(g) \/ FailRequest(g)
    <3>1. PICK st \in {"done", "loop", "asked", "parked"} : fillers' = [fillers EXCEPT ![g].st = st]
      BY <2>5 DEF FillerLoop, ParkRequest, RefuseRequest, FailRequest
    <3>2. \A f \in FillerIds :
            \/ f # g /\ fillers'[f] = fillers[f]
            \/ f = g /\ fillers'[f] = [fillers[f] EXCEPT !.st = st]
      BY <3>1 DEF TypeOK
    <3> QED BY <1>s, <1>e, <2>2, <2>3, <3>2
  <2> QED BY <2>1, <2>4, <2>5
<1>6. CASE NewBlock \/ LinkDrops \/ Register \/ ConnectFails \/ HandleDisconnect
             \/ HandleNotification \/ HandleShutdown \/ HandleVccClosed
             \/ BlindReconnect \/ BlockNotification
  <2>1. UNCHANGED <<fillers, fresh, hasFirst, gaps>>
    BY <1>6 DEF NewBlock, LinkDrops, Register, ConnectFails, HandleDisconnect,
         HandleNotification, HandleShutdown, HandleVccClosed, BlindReconnect, BlockNotification
  <2> QED BY <1>1, <2>1
<1> QED BY <1>2, <1>3, <1>4, <1>5, <1>6 DEF Plain, DataSourceNext

\* The answered request and the batch it becomes.
LEMMA AnswerFacts ==
    ASSUME TypeOK, NEW g \in FillerIds, AnswerRequest(g)
    PROVE  \E r \in GapResults :
             /\ results' = Append(results, r)
             /\ r.src = g /\ r.to = fillers[g].to /\ r.lo = fillers[g].from /\ r.lo <= r.hi
             /\ \/ r.kind = "update" /\ fillers'[g].from = r.hi
                \/ r.kind = "finished" /\ r.to <= r.hi /\ fillers'[g].from = fillers[g].from
             /\ Spawned(g)
             /\ \A f \in FillerIds : f # g => fillers'[f] = fillers[f]
<1> DEFINE lo == fillers[g].from
           finished(hi) == lo <= fillers[g].to /\ fillers[g].to <= hi
<1>0. fillers[g] \in Tasks /\ fillers \in [FillerIds -> Tasks] /\ lo \in Blocks
  BY DEF TypeOK, Tasks
<1>1. PICK hi \in Answers(g) :
        /\ SendResult(g, IF finished(hi) THEN "finished" ELSE "update", lo, hi)
        /\ fillers' = [fillers EXCEPT ![g].st = IF finished(hi) THEN "done" ELSE "loop",
                                      ![g].from = IF finished(hi) THEN @ ELSE hi]
  BY DEF AnswerRequest
<1>2. hi \in Blocks /\ lo <= hi
  BY <1>0, BoundsAssumption DEF Answers, TypeOK, Blocks
<1>3. fillers[g].to \in Blocks
  BY <1>0 DEF Tasks
<1> DEFINE r == [src |-> g, kind |-> IF finished(hi) THEN "finished" ELSE "update",
                 to |-> fillers[g].to, lo |-> lo, hi |-> hi]
<1>4. r \in GapResults
  BY <1>0, <1>2, <1>3 DEF GapResults
<1>5. results' = Append(results, r)
  BY <1>1 DEF SendResult
<1>6. Spawned(g)
  BY DEF AnswerRequest, Spawned
<1>7. \A f \in FillerIds : f # g => fillers'[f] = fillers[f]
  BY <1>0, <1>1
<1>8. fillers'[g].from = IF finished(hi) THEN lo ELSE hi
  BY <1>0, <1>1 DEF Tasks
<1>9. /\ r.src = g /\ r.to = fillers[g].to /\ r.lo = fillers[g].from /\ r.lo <= r.hi
      /\ \/ r.kind = "update" /\ fillers'[g].from = r.hi
         \/ r.kind = "finished" /\ r.to <= r.hi /\ fillers'[g].from = fillers[g].from
  BY <1>2, <1>8
<1> HIDE DEF r
<1> QED BY <1>4, <1>5, <1>6, <1>7, <1>9

\* What a plain step does to the channel of batches.
LEMMA PlainResults ==
    ASSUME TypeOK, Plain
    PROVE  \/ results' = results /\ \A f \in FillerIds : fillers'[f].from = fillers[f].from
           \/ \E r \in GapResults :
                /\ results' = Append(results, r)
                /\ r.kind \in {"interrupted", "error"} /\ Spawned(r.src)
                /\ r.to = fillers[r.src].to
                /\ \A f \in FillerIds : fillers'[f].from = fillers[f].from
           \/ \E g \in FillerIds : AnswerRequest(g)
           \/ /\ results # <<>> /\ results' = Tail(results)
              /\ Head(results).kind \in {"interrupted", "error"}
              /\ \A f \in FillerIds : fillers'[f].from = fillers[f].from
<1> USE DEF nodeVars, bpVars, dbVars, histVars
<1> SUFFICES ASSUME ~ \E g \in FillerIds : AnswerRequest(g)
             PROVE \/ results' = results
                   \/ \E r \in GapResults :
                        /\ results' = Append(results, r)
                        /\ r.kind \in {"interrupted", "error"} /\ Spawned(r.src)
                        /\ r.to = fillers[r.src].to
                   \/ /\ results # <<>> /\ results' = Tail(results)
                      /\ Head(results).kind \in {"interrupted", "error"}
  <2>1. \A f \in FillerIds : fillers'[f].from = fillers[f].from \/ AnswerRequest(f)
    BY SameStep DEF SameTask
  <2> QED BY <2>1
<1>1. ASSUME NEW g \in FillerIds, NEW kind \in {"interrupted", "error"}, Spawned(g),
             SendResult(g, kind, 0, 0)
      PROVE  \E r \in GapResults :
                /\ results' = Append(results, r)
                /\ r.kind \in {"interrupted", "error"} /\ Spawned(r.src)
                /\ r.to = fillers[r.src].to
  <2> DEFINE r == [src |-> g, kind |-> kind, to |-> fillers[g].to, lo |-> 0, hi |-> 0]
  <2>1. r \in GapResults
    BY <1>1, TaskTypes, ZeroBlock DEF GapResults
  <2>2. results' = Append(results, r) /\ r.kind = kind /\ r.src = g /\ r.to = fillers[g].to
    BY <1>1 DEF SendResult
  <2> HIDE DEF r
  <2> QED BY <1>1, <2>1, <2>2
<1>2. CASE FillerNext
  <2>1. PICK g \in FillerIds : FillerLoop(g) \/ ParkRequest(g) \/ RefuseRequest(g) \/ FailRequest(g)
    BY <1>2 DEF FillerNext
  <2>2. Spawned(g)
    BY <2>1 DEF FillerLoop, ParkRequest, RefuseRequest, FailRequest, Spawned
  <2>3. \/ results' = results
        \/ \E kind \in {"interrupted", "error"} : SendResult(g, kind, 0, 0)
    BY <2>1 DEF FillerLoop, ParkRequest, RefuseRequest, FailRequest
  <2> QED BY <1>1, <2>2, <2>3
<1>3. CASE GapAborted
  BY <1>3 DEF GapAborted
<1>4. CASE \/ NewBlock \/ LinkDrops \/ DataSourceNext
           \/ BlindReconnect \/ Disconnected \/ Shutdown \/ BlockNotification
  <2>1. results' = results
    BY <1>4 DEF NewBlock, LinkDrops, DataSourceNext, Register, ConnectOk, ConnectFails,
         HandleDisconnect, HandleNotification, HandleShutdown, HandleVccClosed,
         BlindReconnect, Disconnected, Shutdown, BlockNotification
  <2> QED BY <2>1
<1> QED BY <1>2, <1>3, <1>4 DEF Plain

\* The filler is at a position that is committed or announced by an update.
Announced(f) == \/ fillers[f].from <= fillers[f].pos
                \/ \E j \in DOMAIN results : /\ results[j].src = f
                                              /\ results[j].kind = "update"
                                              /\ fillers[f].from <= results[j].hi

LEMMA PlainFillers ==
    ASSUME TypeOK, Fillers, Plain
    PROVE  Fillers'
<1>1. /\ \A f \in FillerIds : SameTask(f) /\ (Spawned(f)' <=> Spawned(f))
      /\ fresh' = fresh /\ hasFirst' = hasFirst
  BY SameStep DEF SameTask, Spawned
<1>2. \A f \in FillerIds : Spawned(f) =>
        fillers[f].start <= fillers[f].from /\ Announced(f)
  BY DEF Fillers, Announced
<1>3. /\ ~hasFirst => results' = <<>>
      /\ \A f \in FillerIds : Spawned(f) =>
           fillers'[f].start <= fillers'[f].from /\ Announced(f)'
  <2>1. CASE results' = results /\ \A f \in FillerIds : fillers'[f].from = fillers[f].from
    BY <1>1, <1>2, <2>1 DEF Announced, SameTask, Fillers
  <2>2. ASSUME NEW r \in GapResults, results' = Append(results, r), Spawned(r.src),
               \A f \in FillerIds : fillers'[f].from = fillers[f].from
        PROVE  <1>3!:
    <3>1. \A j \in DOMAIN results : j \in DOMAIN results' /\ results'[j] = results[j]
      BY <2>2, AppendAt DEF TypeOK
    <3>2. hasFirst
      BY <2>2 DEF Fillers, GapResults
    <3> QED BY <1>1, <1>2, <2>2, <3>1, <3>2 DEF Announced, SameTask
  <2>3. CASE \E g \in FillerIds : AnswerRequest(g)
    <3>1. PICK g \in FillerIds : AnswerRequest(g)
      BY <2>3
    <3>2. PICK r \in GapResults :
             /\ results' = Append(results, r)
             /\ r.src = g /\ r.to = fillers[g].to /\ r.lo = fillers[g].from /\ r.lo <= r.hi
             /\ \/ r.kind = "update" /\ fillers'[g].from = r.hi
                \/ r.kind = "finished" /\ r.to <= r.hi /\ fillers'[g].from = fillers[g].from
             /\ Spawned(g)
             /\ \A f \in FillerIds : f # g => fillers'[f] = fillers[f]
      BY <3>1, AnswerFacts
    <3>3. /\ \A j \in DOMAIN results : j \in DOMAIN results' /\ results'[j] = results[j]
          /\ Len(results) + 1 \in DOMAIN results' /\ results'[Len(results) + 1] = r
      BY <3>2, AppendAt DEF TypeOK
    <3>4. hasFirst
      BY <3>2 DEF Fillers
    <3>5. \A f \in FillerIds : f # g /\ Spawned(f) =>
            fillers'[f].start <= fillers'[f].from /\ Announced(f)'
      BY <1>2, <3>2, <3>3 DEF Announced
    <3>6. fillers'[g].start <= fillers'[g].from /\ Announced(g)'
      <4>0. r.hi \in Nat /\ fillers[g].start \in Nat /\ fillers[g].from \in Nat
        BY TaskTypes, BlocksNat DEF GapResults
      <4>1. CASE r.kind = "update" /\ fillers'[g].from = r.hi
        <5>1. fillers'[g].start = fillers[g].start /\ fillers[g].start <= fillers[g].from
          BY <1>1, <1>2, <3>2 DEF SameTask
        <5>2. Announced(g)'
          BY <3>2, <3>3, <4>0, <4>1 DEF Announced
        <5> QED BY <3>2, <4>0, <4>1, <5>1, <5>2
      <4>2. CASE fillers'[g].from = fillers[g].from
        BY <1>1, <1>2, <3>2, <3>3, <4>2 DEF Announced, SameTask
      <4> QED BY <3>2, <4>1, <4>2
    <3> QED BY <3>4, <3>5, <3>6
  <2>4. CASE /\ results # <<>> /\ results' = Tail(results)
             /\ Head(results).kind \in {"interrupted", "error"}
             /\ \A f \in FillerIds : fillers'[f].from = fillers[f].from
    <3>1. /\ Head(results) = results[1]
          /\ \A j \in DOMAIN results : j # 1 => j - 1 \in DOMAIN results' /\ results'[j - 1] = results[j]
      BY <2>4, TailAt DEF TypeOK
    <3>2. \A j \in DOMAIN results : results[j].kind = "update" =>
            j - 1 \in DOMAIN results' /\ results'[j - 1] = results[j]
      BY <2>4, <3>1
    <3>3. hasFirst
      BY <2>4 DEF Fillers
    <3> QED BY <1>1, <1>2, <2>4, <3>2, <3>3 DEF Announced, SameTask
  <2> QED BY <2>1, <2>2, <2>3, <2>4, PlainResults
<1> QED BY <1>1, <1>3 DEF Fillers, Announced

\* Batches, for one batch.
Follows(i) == \/ results[i].lo <= fillers[results[i].src].pos
              \/ \E j \in DOMAIN results :
                   /\ j < i /\ results[j].src = results[i].src
                   /\ results[j].kind = "update" /\ results[i].lo <= results[j].hi

BatchOk(i) ==
    /\ Spawned(results[i].src) /\ results[i].to = fillers[results[i].src].to
    /\ results[i].kind \in {"update", "finished"} =>
         fillers[results[i].src].start <= results[i].lo /\ Follows(i)
    /\ results[i].kind = "finished" => results[i].to <= results[i].hi

LEMMA BatchesOk == Batches <=> \A i \in DOMAIN results : BatchOk(i)
BY DEF Batches, BatchOk, Follows

LEMMA BatchesOkPrime == Batches' <=> \A i \in DOMAIN results' : BatchOk(i)'
BY DEF Batches, BatchOk, Follows

LEMMA PlainBatches ==
    ASSUME TypeOK, Fillers, Batches, Plain
    PROVE  Batches'
<1>1. \A f \in FillerIds : SameTask(f) /\ (Spawned(f)' <=> Spawned(f))
  BY SameStep DEF SameTask, Spawned
<1>2. \A i \in DOMAIN results : BatchOk(i) /\ results[i].src \in FillerIds
  BY BatchesOk, BatchTypes
<1>3. \A i \in DOMAIN results' : BatchOk(i)'
  <2>1. CASE results' = results
    BY <1>1, <1>2, <2>1 DEF BatchOk, Follows, SameTask
  <2>2. ASSUME NEW r \in GapResults, results' = Append(results, r), Spawned(r.src),
               r.to = fillers[r.src].to,
               \/ r.kind \in {"interrupted", "error"}
               \/ /\ r.lo = fillers[r.src].from
                  /\ r.kind = "finished" => r.to <= r.hi
        PROVE  <1>3!:
    <3>1. /\ \A i \in DOMAIN results' : \/ i \in DOMAIN results /\ results'[i] = results[i]
                                        \/ i = Len(results) + 1 /\ results'[i] = r
          /\ \A i \in DOMAIN results : i \in DOMAIN results' /\ results'[i] = results[i]
                                       /\ i < Len(results) + 1
      BY <2>2, AppendAt DEF TypeOK
    <3>2. r.src \in FillerIds
      BY DEF GapResults
    <3>3. SUFFICES ASSUME NEW i \in DOMAIN results' PROVE BatchOk(i)'
      OBVIOUS
    <3>4. CASE i \in DOMAIN results /\ results'[i] = results[i]
      <4>1. BatchOk(i) /\ results[i].src \in FillerIds
        BY <1>2, <3>4
      <4>2. Follows(i) => Follows(i)'
        BY <1>1, <3>1, <3>4, <4>1 DEF Follows, SameTask
      <4> QED BY <1>1, <3>4, <4>1, <4>2 DEF BatchOk, SameTask
    <3>5. CASE i = Len(results) + 1 /\ results'[i] = r
      <4>1. CASE r.kind \in {"interrupted", "error"}
        BY <1>1, <2>2, <3>2, <3>5, <4>1 DEF BatchOk, SameTask
      <4>2. CASE r.lo = fillers[r.src].from /\ (r.kind = "finished" => r.to <= r.hi)
        <5>1. fillers[r.src].start <= r.lo /\ Announced(r.src)
          BY <2>2, <3>2, <4>2 DEF Fillers, Announced
        <5>2. Follows(i)'
          BY <1>1, <3>1, <3>2, <3>5, <4>2, <5>1 DEF Announced, Follows, SameTask
        <5> QED BY <1>1, <2>2, <3>2, <3>5, <4>2, <5>1, <5>2 DEF BatchOk, SameTask
      <4> QED BY <2>2, <4>1, <4>2
    <3> QED BY <3>1, <3>4, <3>5
  <2>3. CASE \E g \in FillerIds : AnswerRequest(g)
    <3>1. PICK g \in FillerIds : AnswerRequest(g)
      BY <2>3
    <3>2. PICK r \in GapResults :
             /\ results' = Append(results, r)
             /\ r.src = g /\ r.to = fillers[g].to /\ r.lo = fillers[g].from /\ r.lo <= r.hi
             /\ \/ r.kind = "update" /\ fillers'[g].from = r.hi
                \/ r.kind = "finished" /\ r.to <= r.hi /\ fillers'[g].from = fillers[g].from
             /\ Spawned(g)
             /\ \A f \in FillerIds : f # g => fillers'[f] = fillers[f]
      BY <3>1, AnswerFacts
    <3>3. Spawned(r.src) /\ r.to = fillers[r.src].to /\ r.lo = fillers[r.src].from
          /\ (r.kind = "finished" => r.to <= r.hi)
      BY <3>2
    <3> QED BY <2>2, <3>2, <3>3
  <2>4. CASE /\ results # <<>> /\ results' = Tail(results)
             /\ Head(results).kind \in {"interrupted", "error"}
    <3>1. /\ Head(results) = results[1]
          /\ \A i \in DOMAIN results' : i + 1 \in DOMAIN results /\ results'[i] = results[i + 1]
          /\ \A j \in DOMAIN results : j # 1 => j - 1 \in DOMAIN results' /\ results'[j - 1] = results[j]
          /\ DOMAIN results \subseteq Nat /\ DOMAIN results' \subseteq Nat
      BY <2>4, TailAt DEF TypeOK
    <3>2. SUFFICES ASSUME NEW i \in DOMAIN results' PROVE BatchOk(i)'
      OBVIOUS
    <3>3. /\ BatchOk(i + 1) /\ results[i + 1].src \in FillerIds /\ results'[i] = results[i + 1]
      BY <1>2, <3>1
    <3>4. Follows(i + 1) => Follows(i)'
      <4>1. CASE results[i + 1].lo <= fillers[results[i + 1].src].pos
        BY <1>1, <3>3, <4>1 DEF Follows, SameTask
      <4>2. ASSUME NEW j \in DOMAIN results, j < i + 1, results[j].src = results[i + 1].src,
                   results[j].kind = "update", results[i + 1].lo <= results[j].hi
            PROVE  Follows(i)'
        <5>1. j # 1
          BY <2>4, <3>1, <4>2
        <5>2. j - 1 \in DOMAIN results' /\ results'[j - 1] = results[j] /\ j - 1 < i
          BY <3>1, <4>2, <5>1
        <5> QED BY <3>3, <4>2, <5>2 DEF Follows
      <4> QED BY <4>1, <4>2 DEF Follows
    <3> QED BY <1>1, <3>3, <3>4 DEF BatchOk, SameTask
  <2> QED BY <2>1, <2>2, <2>3, <2>4, PlainResults
<1> QED BY <1>3, BatchesOkPrime

-----------------------------------------------------------------------------
(* A gap block.                                                            *)

\* GapBlock, seen by the tasks, the ledger and the channel of batches.
LEMMA GapBlockFacts ==
    ASSUME TypeOK, GapBlock
    PROVE  LET r == results[1]
           IN  /\ 1 \in DOMAIN results /\ r.kind \in {"update", "finished"}
               /\ r.src \in FillerIds /\ r.to \in Blocks /\ r.lo \in Nat /\ r.hi \in Nat
               /\ r.lo <= r.hi
               /\ \A f \in FillerIds :
                    /\ fillers'[f].st = fillers[f].st /\ fillers'[f].start = fillers[f].start
                    /\ fillers'[f].to = fillers[f].to /\ fillers'[f].from = fillers[f].from
                    /\ f # r.src => fillers'[f].pos = fillers[f].pos
               /\ fillers'[r.src].pos = MaxOf(fillers[r.src].pos, r.lo + 1)
               /\ gaps' = [gaps EXCEPT ![r.to] = IF RemovesRow(r) THEN NoBlock ELSE r.lo]
               /\ headers' = headers \cup {r.lo}
               /\ UNCHANGED <<fresh, hasFirst, cursor, horizon, lost>>
               /\ \/ r.lo = r.hi /\ results # <<>> /\ results' = Tail(results)
                  \/ /\ r.lo < r.hi /\ DOMAIN results' = DOMAIN results
                     /\ \A i \in DOMAIN results : i # 1 => results'[i] = results[i]
                     /\ results'[1] = [r EXCEPT !.lo = r.lo + 1]
<1> USE DEF nodeVars, bpVars, dbVars, histVars
<1> DEFINE r == results[1]
           moved == [fillers EXCEPT ![r.src].pos = MaxOf(@, r.lo + 1)]
<1>1. 1 \in DOMAIN results /\ Head(results) = r /\ results # <<>>
  BY TailAt DEF GapBlock, TypeOK
<1>2. /\ r \in GapResults /\ r.src \in FillerIds /\ r.to \in Blocks /\ r.lo \in Nat
      /\ r.hi \in Nat /\ r.lo <= r.hi
  BY <1>1, BatchTypes
<1>3. r.kind \in {"update", "finished"}
  BY <1>1 DEF GapBlock
<1>4. \A f \in FillerIds : fillers[f] \in Tasks
  BY DEF TypeOK
<1>5. /\ \A f \in FillerIds : f # r.src => moved[f] = fillers[f]
      /\ moved[r.src] = [fillers[r.src] EXCEPT !.pos = MaxOf(fillers[r.src].pos, r.lo + 1)]
      /\ moved \in [FillerIds -> Tasks]
  <2>1. MaxOf(fillers[r.src].pos, r.lo + 1) \in Nat
    BY <1>2, TaskTypes DEF MaxOf
  <2>2. [fillers[r.src] EXCEPT !.pos = MaxOf(fillers[r.src].pos, r.lo + 1)] \in Tasks
    BY <1>2, <1>4, <2>1, PosType
  <2>3. moved = [fillers EXCEPT ![r.src] =
                   [fillers[r.src] EXCEPT !.pos = MaxOf(fillers[r.src].pos, r.lo + 1)]]
    OBVIOUS
  <2> QED BY <1>2, <2>2, <2>3 DEF TypeOK
<1>6. \A f \in FillerIds : \/ fillers'[f] = moved[f]
                           \/ \E intr : fillers'[f] = [moved[f] EXCEPT !.intr = intr]
  <2>1. \/ fillers' = moved
        \/ fillers' = [f \in FillerIds |-> [moved[f] EXCEPT !.intr = Dropped(r.to)[f].intr]]
    BY <1>1 DEF GapBlock
  <2> QED BY <2>1
<1>7. \A f \in FillerIds :
        /\ fillers'[f].st = moved[f].st /\ fillers'[f].start = moved[f].start
        /\ fillers'[f].to = moved[f].to /\ fillers'[f].from = moved[f].from
        /\ fillers'[f].pos = moved[f].pos
  <2> SUFFICES ASSUME NEW f \in FillerIds
               PROVE /\ fillers'[f].st = moved[f].st /\ fillers'[f].start = moved[f].start
                     /\ fillers'[f].to = moved[f].to /\ fillers'[f].from = moved[f].from
                     /\ fillers'[f].pos = moved[f].pos
    OBVIOUS
  <2>1. moved[f] \in Tasks
    BY <1>5
  <2> HIDE DEF moved
  <2>2. CASE fillers'[f] = moved[f]
    BY <2>2
  <2>3. CASE \E intr : fillers'[f] = [moved[f] EXCEPT !.intr = intr]
    <3>1. PICK intr : fillers'[f] = [moved[f] EXCEPT !.intr = intr]
      BY <2>3
    <3> QED BY <2>1, <3>1 DEF Tasks
  <2>4. \/ fillers'[f] = moved[f]
        \/ \E intr : fillers'[f] = [moved[f] EXCEPT !.intr = intr]
    BY <1>6
  <2> QED BY <2>2, <2>3, <2>4
<1>8. /\ moved[r.src].st = fillers[r.src].st /\ moved[r.src].start = fillers[r.src].start
      /\ moved[r.src].to = fillers[r.src].to /\ moved[r.src].from = fillers[r.src].from
      /\ moved[r.src].pos = MaxOf(fillers[r.src].pos, r.lo + 1)
  <2>1. fillers[r.src] \in Tasks
    BY <1>2, <1>4
  <2> HIDE DEF r
  <2> QED BY <1>5, <2>1 DEF Tasks
<1>9. \A f \in FillerIds :
        /\ fillers'[f].st = fillers[f].st /\ fillers'[f].start = fillers[f].start
        /\ fillers'[f].to = fillers[f].to /\ fillers'[f].from = fillers[f].from
        /\ f # r.src => fillers'[f].pos = fillers[f].pos
  <2> SUFFICES ASSUME NEW f \in FillerIds
               PROVE /\ fillers'[f].st = fillers[f].st /\ fillers'[f].start = fillers[f].start
                     /\ fillers'[f].to = fillers[f].to /\ fillers'[f].from = fillers[f].from
                     /\ f # r.src => fillers'[f].pos = fillers[f].pos
    OBVIOUS
  <2> HIDE DEF moved, r
  <2>1. CASE f = r.src
    BY <1>2, <1>7, <1>8, <2>1
  <2>2. CASE f # r.src
    <3>1. moved[f] = fillers[f]
      BY <1>5, <2>2
    <3> QED BY <1>7, <2>2, <3>1
  <2> QED BY <2>1, <2>2
<1>10. fillers'[r.src].pos = MaxOf(fillers[r.src].pos, r.lo + 1)
  <2> HIDE DEF moved, r
  <2> QED BY <1>2, <1>7, <1>8
<1>11. /\ gaps' = [gaps EXCEPT ![r.to] = IF RemovesRow(r) THEN NoBlock ELSE r.lo]
       /\ headers' = headers \cup {r.lo}
       /\ UNCHANGED <<fresh, hasFirst, cursor, horizon, lost>>
  BY <1>1 DEF GapBlock, ProcessBlock
<1>12. \/ r.lo = r.hi /\ results # <<>> /\ results' = Tail(results)
       \/ /\ r.lo < r.hi /\ DOMAIN results' = DOMAIN results
          /\ \A i \in DOMAIN results : i # 1 => results'[i] = results[i]
          /\ results'[1] = [r EXCEPT !.lo = r.lo + 1]
  <2>1. CASE r.lo = r.hi
    BY <1>1, <2>1 DEF GapBlock
  <2>2. CASE r.lo # r.hi
    <3>1. results' = [results EXCEPT ![1].lo = @ + 1]
      BY <1>1, <2>2 DEF GapBlock
    <3>2. results' = [results EXCEPT ![1] = [r EXCEPT !.lo = r.lo + 1]]
      BY <3>1
    <3> QED BY <1>1, <1>2, <2>2, <3>2
  <2> QED BY <2>1, <2>2
<1> HIDE DEF r
<1> QED BY <1>1, <1>2, <1>3, <1>9, <1>10, <1>11, <1>12 DEF r

\* How far a gap block takes its filler.
LEMMA GapProgress ==
    ASSUME TypeOK, GapBlock
    PROVE  /\ \A f \in FillerIds : /\ Spawned(f)' <=> Spawned(f)
                                   /\ fillers[f].pos \in Nat /\ fillers'[f].pos \in Nat
                                   /\ fillers[f].pos <= fillers'[f].pos
           /\ results[1].lo + 1 <= fillers'[results[1].src].pos
<1> DEFINE r == results[1]
<1>1. /\ r.src \in FillerIds /\ r.lo \in Nat
      /\ \A f \in FillerIds : /\ fillers'[f].st = fillers[f].st
                              /\ f # r.src => fillers'[f].pos = fillers[f].pos
      /\ fillers'[r.src].pos = MaxOf(fillers[r.src].pos, r.lo + 1)
  BY GapBlockFacts
<1> HIDE DEF r
<1>2. /\ fillers'[r.src].pos \in Nat /\ fillers[r.src].pos <= fillers'[r.src].pos
      /\ r.lo + 1 <= fillers'[r.src].pos
  BY <1>1, TaskTypes DEF MaxOf
<1>3. \A f \in FillerIds : /\ Spawned(f)' <=> Spawned(f)
                           /\ fillers[f].pos \in Nat /\ fillers'[f].pos \in Nat
                           /\ fillers[f].pos <= fillers'[f].pos
  <2> SUFFICES ASSUME NEW f \in FillerIds
               PROVE /\ Spawned(f)' <=> Spawned(f)
                     /\ fillers[f].pos \in Nat /\ fillers'[f].pos \in Nat
                     /\ fillers[f].pos <= fillers'[f].pos
    OBVIOUS
  <2>1. CASE f = r.src
    BY <1>1, <1>2, <2>1, TaskTypes DEF Spawned
  <2>2. CASE f # r.src
    BY <1>1, <2>2, TaskTypes DEF Spawned
  <2> QED BY <2>1, <2>2
<1> QED BY <1>2, <1>3 DEF r

LEMMA GapFillers ==
    ASSUME TypeOK, Fillers, GapBlock
    PROVE  Fillers'
<1> DEFINE r == results[1]
<1>1. /\ 1 \in DOMAIN results /\ r.src \in FillerIds /\ r.lo \in Nat /\ r.hi \in Nat
      /\ \A f \in FillerIds :
           fillers'[f].start = fillers[f].start /\ fillers'[f].from = fillers[f].from
      /\ UNCHANGED <<fresh, hasFirst>>
      /\ \/ r.lo = r.hi /\ results # <<>> /\ results' = Tail(results)
         \/ /\ r.lo < r.hi /\ DOMAIN results' = DOMAIN results
            /\ \A i \in DOMAIN results : i # 1 => results'[i] = results[i]
            /\ results'[1] = [r EXCEPT !.lo = r.lo + 1]
  BY GapBlockFacts
<1>2. hasFirst
  BY <1>1 DEF Fillers
<1>3. ASSUME NEW f \in FillerIds, Spawned(f)
      PROVE  Announced(f)'
  <2>0. Announced(f) /\ fillers[f].from \in Nat
    BY <1>3, TaskTypes DEF Fillers, Announced
  <2>1. CASE fillers[f].from <= fillers[f].pos
    BY <1>1, <2>0, <2>1, GapProgress DEF Announced
  <2>2. ASSUME NEW j \in DOMAIN results, results[j].src = f, results[j].kind = "update",
               fillers[f].from <= results[j].hi
        PROVE  Announced(f)'
    <3>1. CASE r.lo = r.hi /\ results # <<>> /\ results' = Tail(results)
      <4>1. CASE j = 1
        <5>1. fillers'[f].pos \in Nat /\ r.lo + 1 <= fillers'[f].pos
          BY <1>1, <2>2, <4>1, GapProgress
        <5> QED BY <1>1, <2>0, <2>2, <3>1, <4>1, <5>1 DEF Announced
      <4>2. CASE j # 1
        <5>1. j - 1 \in DOMAIN results' /\ results'[j - 1] = results[j]
          BY <3>1, <4>2, TailAt DEF TypeOK
        <5> QED BY <1>1, <2>2, <5>1 DEF Announced
      <4> QED BY <4>1, <4>2
    <3>2. CASE /\ r.lo < r.hi /\ DOMAIN results' = DOMAIN results
               /\ \A i \in DOMAIN results : i # 1 => results'[i] = results[i]
               /\ results'[1] = [r EXCEPT !.lo = r.lo + 1]
      <4>1. results'[j].src = results[j].src /\ results'[j].kind = results[j].kind
            /\ results'[j].hi = results[j].hi
        <5>1. r \in GapResults
          BY <1>1, BatchTypes
        <5>2. LET u == [r EXCEPT !.lo = r.lo + 1]
              IN u.src = r.src /\ u.kind = r.kind /\ u.hi = r.hi
          <6> HIDE DEF r
          <6> QED BY <5>1 DEF GapResults
        <5> QED BY <3>2, <5>2
      <4> QED BY <1>1, <2>2, <3>2, <4>1 DEF Announced
    <3> QED BY <1>1, <3>1, <3>2
  <2> QED BY <2>0, <2>1, <2>2 DEF Announced
<1>4. \A f \in FillerIds : Spawned(f)' <=> Spawned(f)
  BY GapProgress
<1>5. \A f \in FillerIds : Spawned(f)' => fillers'[f].start <= fillers'[f].from /\ Announced(f)'
  BY <1>1, <1>3, <1>4 DEF Fillers
<1> HIDE DEF r
<1> QED BY <1>1, <1>2, <1>4, <1>5 DEF Fillers, Announced

LEMMA GapBatches ==
    ASSUME TypeOK, Batches, GapBlock
    PROVE  Batches'
<1> DEFINE r == results[1]
<1>1. /\ 1 \in DOMAIN results /\ r.src \in FillerIds /\ r.lo \in Nat /\ r.hi \in Nat
      /\ \A f \in FillerIds :
           fillers'[f].start = fillers[f].start /\ fillers'[f].to = fillers[f].to
      /\ \/ r.lo = r.hi /\ results # <<>> /\ results' = Tail(results)
         \/ /\ r.lo < r.hi /\ DOMAIN results' = DOMAIN results
            /\ \A i \in DOMAIN results : i # 1 => results'[i] = results[i]
            /\ results'[1] = [r EXCEPT !.lo = r.lo + 1]
  BY GapBlockFacts
<1>2. \A i \in DOMAIN results :
        BatchOk(i) /\ results[i].src \in FillerIds /\ results[i].lo \in Nat /\ results[i].hi \in Nat
  BY BatchesOk, BatchTypes
<1>3. /\ \A f \in FillerIds : /\ Spawned(f)' <=> Spawned(f)
                              /\ fillers[f].pos \in Nat /\ fillers'[f].pos \in Nat
                              /\ fillers[f].pos <= fillers'[f].pos
      /\ r.lo + 1 <= fillers'[r.src].pos
  BY GapProgress
<1>4. CASE r.lo = r.hi /\ results # <<>> /\ results' = Tail(results)
  <2>1. /\ \A i \in DOMAIN results' : i + 1 \in DOMAIN results /\ results'[i] = results[i + 1]
        /\ \A j \in DOMAIN results : j # 1 => j - 1 \in DOMAIN results' /\ results'[j - 1] = results[j]
        /\ DOMAIN results \subseteq Nat /\ DOMAIN results' \subseteq Nat
    BY <1>4, TailAt DEF TypeOK
  <2>2. ASSUME NEW i \in DOMAIN results' PROVE BatchOk(i)'
    <3>1. /\ BatchOk(i + 1) /\ results[i + 1].src \in FillerIds /\ results[i + 1].lo \in Nat
          /\ results'[i] = results[i + 1] /\ i + 1 \in DOMAIN results
      BY <1>2, <2>1, <2>2
    <3>2. Follows(i + 1) => Follows(i)'
      <4>1. CASE results[i + 1].lo <= fillers[results[i + 1].src].pos
        BY <1>3, <3>1, <4>1 DEF Follows
      <4>2. ASSUME NEW j \in DOMAIN results, j < i + 1, results[j].src = results[i + 1].src,
                   results[j].kind = "update", results[i + 1].lo <= results[j].hi
            PROVE  Follows(i)'
        <5>1. CASE j = 1
          <6>1. results[i + 1].lo <= fillers'[results[i + 1].src].pos
            BY <1>1, <1>3, <1>4, <3>1, <4>2, <5>1
          <6> QED BY <3>1, <6>1 DEF Follows
        <5>2. CASE j # 1
          <6>1. j - 1 \in DOMAIN results' /\ results'[j - 1] = results[j] /\ j - 1 < i
            BY <2>1, <2>2, <4>2, <5>2
          <6> QED BY <3>1, <4>2, <6>1 DEF Follows
        <5> QED BY <5>1, <5>2
      <4> QED BY <4>1, <4>2 DEF Follows
    <3> QED BY <1>1, <1>3, <3>1, <3>2 DEF BatchOk
  <2> QED BY <2>2, BatchesOkPrime
<1>5. CASE /\ r.lo < r.hi /\ DOMAIN results' = DOMAIN results
           /\ \A i \in DOMAIN results : i # 1 => results'[i] = results[i]
           /\ results'[1] = [r EXCEPT !.lo = r.lo + 1]
  <2>1. /\ results'[1].src = r.src /\ results'[1].kind = r.kind /\ results'[1].hi = r.hi
        /\ results'[1].to = r.to /\ results'[1].lo = r.lo + 1
    <3>1. r \in GapResults
      BY <1>1, BatchTypes
    <3> HIDE DEF r
    <3> QED BY <1>5, <3>1 DEF GapResults
  <2>2. \A j \in DOMAIN results : /\ results'[j].src = results[j].src
                                  /\ results'[j].kind = results[j].kind
                                  /\ results'[j].hi = results[j].hi
    BY <1>5, <2>1
  <2>3. ASSUME NEW i \in DOMAIN results' PROVE BatchOk(i)'
    <3>0. i \in DOMAIN results /\ BatchOk(i) /\ results[i].src \in FillerIds /\ results[i].lo \in Nat
      BY <1>2, <1>5, <2>3
    <3>1. CASE i = 1
      <4>1. fillers[r.src].start \in Nat
        BY <1>1, TaskTypes
      <4>2. Follows(i)'
        BY <1>3, <2>1, <3>1 DEF Follows
      <4>3. /\ Spawned(r.src)' /\ results'[1].to = fillers'[r.src].to
            /\ results'[1].kind = "finished" => results'[1].to <= results'[1].hi
            /\ results'[1].kind \in {"update", "finished"} =>
                 fillers'[r.src].start <= results'[1].lo
        BY <1>1, <1>3, <2>1, <3>0, <3>1, <4>1 DEF BatchOk
      <4> QED BY <2>1, <3>1, <4>2, <4>3 DEF BatchOk
    <3>2. CASE i # 1
      <4>1. results'[i] = results[i]
        BY <1>5, <3>0, <3>2
      <4>2. Follows(i) => Follows(i)'
        BY <1>3, <1>5, <2>2, <3>0, <4>1 DEF Follows
      <4> QED BY <1>1, <1>3, <3>0, <4>1, <4>2 DEF BatchOk
    <3> QED BY <3>1, <3>2
  <2> QED BY <2>3, BatchesOkPrime
<1> QED BY <1>1, <1>4, <1>5

-----------------------------------------------------------------------------
(* New fillers, and the restart.                                           *)

\* A task that has just been spawned.
Starts(f, from, to) == /\ fillers'[f].st = "loop" /\ fillers'[f].to = to
                       /\ fillers'[f].from = from /\ fillers'[f].start = from
                       /\ fillers'[f].pos = from

\* The filler for a new gap has a name nobody had before.
LEMMA ReconnectFacts ==
    ASSUME TypeOK, Positions, Fillers, Reconnect
    PROVE  LET id == MaxBlock + 1 + fresh
               sink == Head(notif).n
           IN  /\ id \in FillerIds /\ sink \in Blocks /\ CursorPos \in Blocks
               /\ ~Spawned(id) /\ Starts(id, CursorPos, sink)
               /\ \A f \in FillerIds : f # id => SameTask(f) /\ fillers'[f].from = fillers[f].from
               /\ gaps' = [gaps EXCEPT ![sink] = CursorPos]
               /\ lost' = lost \cup Replaced(CursorPos, sink)
               /\ horizon' = MaxOf(horizon, sink)
               /\ fresh' = fresh + 1 /\ hasFirst /\ hasFirst'
               /\ UNCHANGED <<results, cursor, headers>>
<1> DEFINE id == MaxBlock + 1 + fresh
           sink == Head(notif).n
<1>1. id \in FillerIds /\ id > MaxBlock + fresh /\ fresh \in Nat
  BY BoundsAssumption DEF Reconnect, TypeOK, FillerIds
<1>2. sink \in Blocks
  BY ReceivesType DEF Reconnect
<1>3. lpb = CursorPos /\ CursorPos \in Blocks
  BY CursorPosType DEF Reconnect, Positions, CursorPos
<1>4. ~Spawned(id)
  BY <1>1 DEF Fillers
<1>5. fillers' = [Dropped(sink) EXCEPT ![id] = NewFiller(CursorPos, sink, "open")]
  BY <1>3 DEF Reconnect
<1>6. Dropped(sink) \in [FillerIds -> Tasks]
  BY <1>2, DroppedType
<1>7. fillers'[id] = NewFiller(CursorPos, sink, "open")
      /\ \A f \in FillerIds : f # id => fillers'[f] = Dropped(sink)[f]
  <2> HIDE DEF id, sink
  <2> QED BY <1>1, <1>5, <1>6
<1>8. Starts(id, CursorPos, sink)
  <2> HIDE DEF id, sink
  <2> QED BY <1>7 DEF Starts, NewFiller
<1>9. \A f \in FillerIds : f # id => SameTask(f) /\ fillers'[f].from = fillers[f].from
  <2> SUFFICES ASSUME NEW f \in FillerIds, f # id
               PROVE SameTask(f) /\ fillers'[f].from = fillers[f].from
    OBVIOUS
  <2>1. \/ fillers'[f] = fillers[f]
        \/ fillers'[f] = [fillers[f] EXCEPT !.intr = "closed"]
    BY <1>7 DEF Dropped
  <2>2. fillers[f] \in Tasks
    BY TaskTypes
  <2> QED BY <2>1, <2>2 DEF SameTask, Tasks
<1>10. /\ gaps' = [gaps EXCEPT ![sink] = CursorPos]
       /\ lost' = lost \cup Replaced(CursorPos, sink)
       /\ horizon' = MaxOf(horizon, sink)
       /\ fresh' = fresh + 1 /\ hasFirst /\ hasFirst'
       /\ UNCHANGED <<results, cursor, headers>>
  BY <1>3 DEF Reconnect, InsertGap
<1> HIDE DEF id, sink
<1> QED BY <1>1, <1>2, <1>3, <1>4, <1>8, <1>9, <1>10 DEF id, sink

\* The first Connected starts from no filler at all.
LEMMA FirstFacts ==
    ASSUME TypeOK, Fillers, FirstConnect
    PROVE  LET id == MaxBlock + 1 + fresh
               sink == Head(notif).n
               isNew == cursor # sink
           IN  /\ sink \in Blocks /\ CursorPos \in Blocks
               /\ isNew => id \in FillerIds /\ Starts(id, CursorPos, sink)
               /\ \A f \in FillerIds : /\ ~Spawned(f)
                                       /\ ~(isNew /\ f = id) => 
                                            IF f \in Rows THEN Starts(f, gaps[f], f)
                                                          ELSE ~Spawned(f)'
               /\ results = <<>> /\ results' = <<>> /\ hasFirst'
               /\ fresh' = IF isNew THEN fresh + 1 ELSE fresh
               /\ gaps' = IF isNew THEN [gaps EXCEPT ![sink] = CursorPos] ELSE gaps
               /\ lost' = IF isNew THEN lost \cup Replaced(CursorPos, sink) ELSE lost
               /\ horizon' = MaxOf(horizon, sink)
               /\ UNCHANGED <<cursor, headers>>
<1> DEFINE id == MaxBlock + 1 + fresh
           sink == Head(notif).n
           isNew == cursor # sink
<1>1. isNew => id \in FillerIds
  BY BoundsAssumption DEF FirstConnect, TypeOK, FillerIds
<1>2. sink \in Blocks /\ CursorPos \in Blocks
  BY ReceivesType, CursorPosType DEF FirstConnect
<1>3. /\ results = <<>> /\ results' = <<>> /\ hasFirst' /\ \A f \in FillerIds : ~Spawned(f)
  BY DEF FirstConnect, Fillers
<1>4. fillers' = [f \in FillerIds |->
                IF isNew /\ f = id THEN NewFiller(CursorPos, sink, "open")
                ELSE IF f \in Rows
                       THEN NewFiller(gaps[f], f, IF isNew /\ f = sink THEN "closed" ELSE "open")
                       ELSE fillers[f]]
  BY DEF FirstConnect
<1>5. /\ fresh' = IF isNew THEN fresh + 1 ELSE fresh
      /\ gaps' = IF isNew THEN [gaps EXCEPT ![sink] = CursorPos] ELSE gaps
      /\ lost' = IF isNew THEN lost \cup Replaced(CursorPos, sink) ELSE lost
      /\ horizon' = MaxOf(horizon, sink)
      /\ UNCHANGED <<cursor, headers>>
  BY DEF FirstConnect, InsertGap
<1> HIDE DEF id, sink, isNew
<1>6. isNew => Starts(id, CursorPos, sink)
  BY <1>1, <1>4 DEF Starts, NewFiller
<1>7. ASSUME NEW f \in FillerIds, ~(isNew /\ f = id)
      PROVE  IF f \in Rows THEN Starts(f, gaps[f], f) ELSE ~Spawned(f)'
  <2>1. CASE f \in Rows
    <3>1. PICK intr : fillers'[f] = NewFiller(gaps[f], f, intr)
      BY <1>4, <1>7, <2>1
    <3> QED BY <2>1, <3>1 DEF Starts, NewFiller
  <2>2. CASE f \notin Rows
    <3>1. fillers'[f] = fillers[f]
      BY <1>4, <1>7, <2>2
    <3> QED BY <1>3, <2>2, <3>1 DEF Spawned
  <2> QED BY <2>1, <2>2
<1> QED BY <1>1, <1>2, <1>3, <1>5, <1>6, <1>7 DEF id, sink, isNew

LEMMA RestartFacts ==
    ASSUME Restart
    PROVE  /\ \A f \in FillerIds : ~Spawned(f)'
           /\ results' = <<>> /\ UNCHANGED <<gaps, cursor, headers, horizon, lost>>
BY DEF Restart, Spawned, IdleFiller, histVars

LEMMA StartFillers ==
    ASSUME TypeOK, Positions, Fillers, FirstConnect \/ Reconnect \/ Restart
    PROVE  Fillers'
<1>0. fresh \in Nat /\ FillerIds \subseteq Nat
  BY BoundsAssumption DEF TypeOK, FillerIds
<1>1. CASE Restart
  BY <1>1, RestartFacts DEF Fillers
<1>2. CASE Reconnect
  <2> DEFINE id == MaxBlock + 1 + fresh
             sink == Head(notif).n
  <2>1. /\ id \in FillerIds /\ ~Spawned(id) /\ Starts(id, CursorPos, sink)
        /\ \A f \in FillerIds : f # id => SameTask(f) /\ fillers'[f].from = fillers[f].from
        /\ fresh' = fresh + 1 /\ hasFirst' /\ results' = results
        /\ CursorPos \in Blocks
    BY <1>2, ReconnectFacts
  <2>2. CursorPos \in Nat
    BY <2>1, BlocksNat
  <2>3. \A f \in FillerIds : f > MaxBlock + fresh' => ~Spawned(f)'
    BY <1>0, <2>1, BoundsAssumption DEF Fillers, SameTask, Spawned
  <2> HIDE DEF sink, id
  <2>4. ASSUME NEW f \in FillerIds, Spawned(f)'
        PROVE  fillers'[f].start <= fillers'[f].from /\ Announced(f)'
    <3>1. CASE f = id
      BY <2>1, <2>2, <3>1 DEF Starts, Announced
    <3>2. CASE f # id
      BY <2>1, <2>4, <3>2 DEF Fillers, SameTask, Spawned, Announced
    <3> QED BY <3>1, <3>2
  <2> QED BY <2>1, <2>3, <2>4 DEF Fillers, Announced
<1>3. CASE FirstConnect
  <2> DEFINE id == MaxBlock + 1 + fresh
             sink == Head(notif).n
             isNew == cursor # sink
  <2>1. /\ CursorPos \in Blocks
        /\ isNew => id \in FillerIds /\ Starts(id, CursorPos, sink)
        /\ \A f \in FillerIds : ~(isNew /\ f = id) =>
              IF f \in Rows THEN Starts(f, gaps[f], f) ELSE ~Spawned(f)'
        /\ hasFirst' /\ fresh' = IF isNew THEN fresh + 1 ELSE fresh
    BY <1>3, FirstFacts
  <2>2. CursorPos \in Nat /\ \A f \in Rows : gaps[f] \in Nat /\ f \in Nat /\ f <= MaxBlock
    BY <2>1, BoundsAssumption DEF Rows, TypeOK, Blocks
  <2>3. \A f \in FillerIds : f > MaxBlock + fresh' => ~Spawned(f)'
    BY <1>0, <2>1, <2>2, BoundsAssumption
  <2> HIDE DEF sink, id, isNew
  <2>4. ASSUME NEW f \in FillerIds, Spawned(f)'
        PROVE  fillers'[f].start <= fillers'[f].from /\ Announced(f)'
    <3>1. CASE isNew /\ f = id
      BY <2>1, <2>2, <3>1 DEF Starts, Announced
    <3>2. CASE ~(isNew /\ f = id)
      BY <2>1, <2>2, <2>4, <3>2 DEF Starts, Announced
    <3> QED BY <3>1, <3>2
  <2> QED BY <2>1, <2>3, <2>4 DEF Fillers, Announced
<1> QED BY <1>1, <1>2, <1>3

LEMMA StartBatches ==
    ASSUME TypeOK, Positions, Fillers, Batches, FirstConnect \/ Reconnect \/ Restart
    PROVE  Batches'
<1>1. CASE FirstConnect \/ Restart
  <2>1. results' = <<>>
    BY <1>1, RestartFacts, FirstFacts
  <2> QED BY <2>1 DEF Batches
<1>2. CASE Reconnect
  <2> DEFINE id == MaxBlock + 1 + fresh
  <2>1. /\ ~Spawned(id) /\ results' = results
        /\ \A f \in FillerIds : f # id => SameTask(f) /\ (Spawned(f)' <=> Spawned(f))
    BY <1>2, ReconnectFacts DEF SameTask, Spawned
  <2> HIDE DEF id
  <2>2. ASSUME NEW i \in DOMAIN results PROVE BatchOk(i)'
    <3>1. BatchOk(i) /\ results[i].src \in FillerIds
      BY BatchesOk, BatchTypes
    <3>2. results[i].src # id
      BY <2>1, <3>1 DEF BatchOk
    <3> QED BY <2>1, <3>1, <3>2 DEF BatchOk, Follows, SameTask
  <2> QED BY <2>1, <2>2, BatchesOkPrime
<1> QED BY <1>1, <1>2

-----------------------------------------------------------------------------
(* The ledger.                                                             *)

LEMMA Grows == ASSUME Next
               PROVE  headers \subseteq headers' /\ lost \subseteq lost'
BY DEF Next, DataSourceNext, FillerNext, TakeNotification, TakeResult, NewBlock, LinkDrops,
     Restart, Register, ConnectOk, ConnectFails, HandleDisconnect, HandleNotification,
     HandleShutdown, HandleVccClosed, FillerLoop, ParkRequest, RefuseRequest,
     AnswerRequest, FailRequest, GapAborted, GapBlock, FirstConnect, Reconnect,
     BlindReconnect, Disconnected, Shutdown, BlockNotification, ProcessBlock, dbVars, histVars

LEMMA OkGrows == ASSUME Next, NEW b, Ok(b) PROVE Ok(b)'
BY Grows DEF Ok

LEMMA RowTypes ==
    ASSUME TypeOK, NEW to \in Blocks
    PROVE  /\ RowFrom(to) \in Nat /\ to \in Nat /\ gaps[to] \in Blocks \cup {NoBlock}
           /\ gaps[to] # NoBlock => gaps[to] \in Nat
<1>1. to \in Nat /\ gaps[to] \in Blocks \cup {NoBlock}
  BY BlocksNat DEF TypeOK
<1>2. gaps[to] # NoBlock => gaps[to] \in Nat
  BY <1>1, BlocksNat
<1> QED BY <1>1, <1>2 DEF RowFrom

LEMMA CursorNat == ASSUME TypeOK PROVE CursorPos \in Nat
BY CursorPosType, BlocksNat

\* The three facts of Streams about one filler and one block.
StreamOk(f, b) ==
    /\ fillers[f].start <= b /\ b < fillers[f].pos => Ok(b)
    /\ b <= fillers[f].to /\ fillers[f].start <= b /\ b < RowFrom(fillers[f].to) => Ok(b)
    /\ b <= fillers[f].to /\ RowFrom(fillers[f].to) <= b /\ b < fillers[f].start => Ok(b)

LEMMA StreamsOk == Streams <=> \A f \in FillerIds, b \in 1..MaxBlock : Spawned(f) => StreamOk(f, b)
BY DEF Streams, StreamOk

LEMMA StreamsOkPrime ==
    Streams' <=> \A f \in FillerIds, b \in 1..MaxBlock : Spawned(f)' => StreamOk(f, b)'
BY DEF Streams, StreamOk

\* RowsAhead for one target.
Tracked(to) == gaps[to] # NoBlock \/ (\E f \in FillerIds : Spawned(f) /\ fillers[f].to = to)
AheadOk(to) == \A b \in 1..MaxBlock : b <= to /\ CursorPos <= b /\ b < RowFrom(to) => Ok(b)

LEMMA PlainLedger ==
    ASSUME TypeOK, Next, Plain, Streams
    PROVE  Streams'
<1>1. /\ \A f \in FillerIds : SameTask(f) /\ (Spawned(f)' <=> Spawned(f))
      /\ gaps' = gaps
  BY SameStep DEF SameTask, Spawned
<1>2. ASSUME NEW f \in FillerIds, NEW b \in 1..MaxBlock, Spawned(f)'
      PROVE  StreamOk(f, b)'
  <2>1. StreamOk(f, b)
    BY <1>1, <1>2, StreamsOk
  <2>2. /\ fillers'[f].start = fillers[f].start /\ fillers'[f].pos = fillers[f].pos
        /\ fillers'[f].to = fillers[f].to /\ RowFrom(fillers[f].to)' = RowFrom(fillers[f].to)
    BY <1>1 DEF SameTask, RowFrom
  <2>3. Ok(b) => Ok(b)'
    BY OkGrows
  <2> QED BY <2>1, <2>2, <2>3 DEF StreamOk
<1> QED BY <1>2, StreamsOkPrime

LEMMA PlainCursor == ASSUME TypeOK, Ordered, Plain
                     PROVE  CursorPos' \in Nat /\ CursorPos <= CursorPos'
<1> USE DEF nodeVars, bpVars, dbVars, histVars
<1>1. CASE BlockNotification
  <2>1. 1 \in DOMAIN notif /\ Head(notif) = notif[1]
    BY <1>1, TailAt DEF BlockNotification, Receives, TypeOK
  <2>2. notif[1].n \in Nat /\ notif[1].k = "block"
    BY <1>1, <2>1, QueueTypes DEF BlockNotification, Receives
  <2>3. CursorPos' = notif[1].n
    BY <1>1, <2>1, <2>2 DEF BlockNotification, CursorPos
  <2>4. CursorPos < notif[1].n
    BY <2>1, <2>2 DEF Ordered
  <2> QED BY <2>2, <2>3, <2>4, CursorNat
<1>2. CASE ~BlockNotification
  <2>1. cursor' = cursor
    BY <1>2 DEF Plain, NewBlock, LinkDrops, DataSourceNext, Register, ConnectOk, ConnectFails,
         HandleDisconnect, HandleNotification, HandleShutdown, HandleVccClosed, FillerNext,
         FillerLoop, ParkRequest, RefuseRequest, AnswerRequest, FailRequest,
         BlindReconnect, Disconnected, Shutdown, GapAborted
  <2>2. CursorPos' = CursorPos
    BY <2>1 DEF CursorPos
  <2> QED BY <2>2, CursorNat
<1> QED BY <1>1, <1>2

LEMMA PlainRows ==
    ASSUME TypeOK, Ordered, Next, Plain, RowsAhead
    PROVE  RowsAhead'
<1>1. /\ \A f \in FillerIds : SameTask(f) /\ (Spawned(f)' <=> Spawned(f))
      /\ gaps' = gaps
  BY SameStep DEF SameTask, Spawned
<1>2. CursorPos \in Nat /\ CursorPos' \in Nat /\ CursorPos <= CursorPos'
  BY PlainCursor, CursorNat
<1>3. ASSUME NEW to \in Blocks, Tracked(to)', NEW b \in 1..MaxBlock,
             b <= to, CursorPos' <= b, b < RowFrom(to)'
      PROVE  Ok(b)'
  <2>1. Tracked(to)
    BY <1>1, <1>3 DEF Tracked, SameTask
  <2>2. CursorPos <= b
    BY <1>2, <1>3
  <2>3. RowFrom(to)' = RowFrom(to)
    BY <1>1 DEF RowFrom
  <2>4. Ok(b)
    BY <1>3, <2>1, <2>2, <2>3 DEF RowsAhead, Tracked
  <2> QED BY <2>4, OkGrows
<1> QED BY <1>3 DEF RowsAhead, Tracked

LEMMA PlainAccounted ==
    ASSUME TypeOK, Ordered, Positions, Contiguous, Next, Plain, Accounted
    PROVE  Accounted'
<1> USE DEF nodeVars, bpVars, dbVars, histVars
<1>1. gaps' = gaps
  BY SameStep
<1>2. Covered' = Covered
  BY <1>1 DEF Covered, Rows
<1>3. \A b \in 1..horizon : b \in headers' \cup Covered' \cup lost'
  BY <1>2, Grows DEF Accounted
<1>4. horizon \in Nat
  BY BlocksNat DEF TypeOK
<1>5. ASSUME TakeNotification, NEW b \in 1..horizon', b \notin 1..horizon
      PROVE  b \in headers' \cup lost'
  <2> DEFINE n == Head(notif).n
  <2>1. notif # <<>> /\ 1 \in DOMAIN notif /\ Head(notif) = notif[1]
    <3>1. notif # <<>>
      BY <1>5 DEF TakeNotification, FirstConnect, Reconnect, BlindReconnect, Disconnected,
           Shutdown, BlockNotification, Receives
    <3> QED BY <3>1, TailAt DEF TypeOK
  <2>2. n \in Nat
    BY <2>1, QueueTypes
  <2>3. horizon' = n /\ b \in Nat /\ horizon < b /\ b <= n
    BY <1>4, <1>5, HorizonTake
  <2>4. CASE BlindReconnect
    BY <2>2, <2>3, <2>4, <1>4 DEF BlindReconnect
  <2>5. CASE BlockNotification
    <3>1. CASE b = n
      BY <2>5, <3>1 DEF BlockNotification, ProcessBlock
    <3>2. CASE b # n /\ Head(notif).early
      <4>1. lost' = lost \cup ((horizon + 1)..(n - 1))
        BY <2>5, <3>2 DEF BlockNotification
      <4> QED BY <1>4, <2>2, <2>3, <3>2, <4>1
    <3>3. CASE b # n /\ ~Head(notif).early
      <4>1. notif[1].k = "block"
        BY <2>1, <2>5 DEF BlockNotification, Receives
      <4>2. ~ \E j \in DOMAIN notif : j < 1
        BY <2>1, TailAt DEF TypeOK
      <4>3. n - 1 <= horizon
        BY <2>1, <3>3, <4>1, <4>2 DEF Contiguous
      <4> QED BY <1>4, <2>2, <2>3, <3>3, <4>3
    <3> QED BY <3>1, <3>2, <3>3
  <2>6. CASE Disconnected \/ Shutdown
    <3>1. horizon' = horizon
      BY <2>6 DEF Disconnected, Shutdown
    <3>2. n = horizon
      BY <2>3, <3>1
    <3> HIDE DEF n
    <3> QED BY <1>4, <2>3, <3>2
  <2>7. \/ BlindReconnect \/ BlockNotification \/ Disconnected \/ Shutdown
        \/ (FirstConnect \/ Reconnect)
    BY <1>5 DEF TakeNotification
  <2>8. CASE FirstConnect \/ Reconnect
    <3>1. fresh' = fresh /\ hasFirst' = hasFirst
      BY SameStep
    <3>2. fresh \in Nat
      BY BoundsAssumption DEF TypeOK
    <3> QED BY <2>8, <3>1, <3>2 DEF FirstConnect, Reconnect
  <2> QED BY <2>4, <2>5, <2>6, <2>7, <2>8
<1>6. CASE TakeNotification
  BY <1>3, <1>5, <1>6 DEF Accounted
<1>7. CASE ~TakeNotification
  BY <1>3, <1>7, HorizonKept DEF Accounted
<1> QED BY <1>6, <1>7

\* What the batch at the head of the channel says of its filler and its row.
LEMMA HeadBatch ==
    ASSUME TypeOK, Batches, GapBlock
    PROVE  LET r == results[1]
           IN  /\ r.src \in FillerIds /\ Spawned(r.src) /\ fillers[r.src].to = r.to
               /\ r.to \in Blocks /\ r.lo \in Nat
               /\ fillers[r.src].start \in Nat /\ fillers[r.src].pos \in Nat
               /\ fillers[r.src].start <= r.lo /\ r.lo <= fillers[r.src].pos
               /\ RemovesRow(r) => r.to <= r.lo
<1> DEFINE r == results[1]
<1>1. /\ 1 \in DOMAIN results /\ r.kind \in {"update", "finished"}
      /\ r.src \in FillerIds /\ r.to \in Blocks /\ r.lo \in Nat
  BY GapBlockFacts
<1>2. BatchOk(1)
  BY <1>1, BatchesOk
<1>3. ~ \E j \in DOMAIN results : j < 1
  BY DEF TypeOK
<1>4. /\ Spawned(r.src) /\ fillers[r.src].to = r.to /\ fillers[r.src].start <= r.lo
      /\ r.lo <= fillers[r.src].pos
      /\ RemovesRow(r) => r.to <= r.lo
  BY <1>1, <1>2, <1>3 DEF BatchOk, Follows, RemovesRow
<1> HIDE DEF r
<1> QED BY <1>1, <1>4, TaskTypes DEF r

\* The row of the batch moves to the block; no other row changes.
LEMMA GapRow ==
    ASSUME TypeOK, Batches, GapBlock,
           NEW to \in Blocks, NEW lo \in Nat, to = results[1].to, lo = results[1].lo
    PROVE  /\ \A u \in Blocks : u # to => gaps'[u] = gaps[u] /\ RowFrom(u)' = RowFrom(u)
           /\ \A b \in Nat : b <= to /\ b < RowFrom(to)' => b <= lo
           /\ \A b \in Nat : b <= to /\ RowFrom(to)' <= b => lo <= b
           /\ \A b \in Nat : b <= to /\ lo <= b =>
                               b = lo \/ (gaps'[to] # NoBlock /\ gaps'[to] <= b)
<1>1. gaps' = [gaps EXCEPT ![to] = IF RemovesRow(results[1]) THEN NoBlock ELSE lo]
  BY GapBlockFacts
<1>2. \A u \in Blocks : u # to => gaps'[u] = gaps[u] /\ RowFrom(u)' = RowFrom(u)
  BY <1>1 DEF TypeOK, RowFrom
<1>3. to \in Nat
  BY BlocksNat
<1>4. CASE RemovesRow(results[1])
  <2>1. gaps'[to] = NoBlock
    BY <1>1, <1>4 DEF TypeOK
  <2>2. RowFrom(to)' = to + 1 /\ to <= lo
    BY <1>4, <2>1, HeadBatch DEF RowFrom
  <2> QED BY <1>2, <1>3, <2>2
<1>5. CASE ~RemovesRow(results[1])
  <2>1. gaps'[to] = lo
    BY <1>1, <1>5 DEF TypeOK
  <2>2. RowFrom(to)' = lo /\ lo # NoBlock
    BY <2>1 DEF RowFrom
  <2> QED BY <1>2, <1>3, <2>1, <2>2
<1> QED BY <1>4, <1>5

\* Nothing is owed between the old place of the row and the block.
LEMMA RowMove ==
    ASSUME TypeOK, Batches, Streams, Next, GapBlock, NEW b \in 1..MaxBlock,
           b <= results[1].to, RowFrom(results[1].to) <= b, b <= results[1].lo
    PROVE  Ok(b)'
<1> DEFINE r == results[1]
<1>1. /\ r.src \in FillerIds /\ Spawned(r.src) /\ fillers[r.src].to = r.to /\ r.lo \in Nat
      /\ fillers[r.src].start \in Nat /\ fillers[r.src].pos \in Nat
      /\ r.lo <= fillers[r.src].pos
  BY HeadBatch
<1>2. headers' = headers \cup {r.lo}
  BY GapBlockFacts
<1>3. CASE b = r.lo
  BY <1>2, <1>3 DEF Ok
<1>4. CASE b # r.lo
  <2>1. StreamOk(r.src, b)
    BY <1>1, StreamsOk
  <2>2. b < fillers[r.src].pos /\ b \in Nat
    BY <1>1, <1>4
  <2>3. Ok(b)
    BY <1>1, <2>1, <2>2 DEF StreamOk
  <2> QED BY <2>3, OkGrows
<1> QED BY <1>3, <1>4

LEMMA GapStreams ==
    ASSUME TypeOK, Batches, Streams, Next, GapBlock
    PROVE  Streams'
<1>0. PICK src \in FillerIds, to \in Blocks, lo \in Nat :
         src = results[1].src /\ to = results[1].to /\ lo = results[1].lo
  BY HeadBatch
<1>1. /\ \A u \in Blocks : u # to => gaps'[u] = gaps[u] /\ RowFrom(u)' = RowFrom(u)
      /\ \A b \in Nat : b <= to /\ b < RowFrom(to)' => b <= lo
      /\ \A b \in Nat : b <= to /\ RowFrom(to)' <= b => lo <= b
  BY <1>0, GapRow
<1>2. /\ Spawned(src) /\ fillers[src].to = to
      /\ fillers[src].start \in Nat /\ fillers[src].pos \in Nat
      /\ fillers[src].start <= lo /\ lo <= fillers[src].pos
  BY <1>0, HeadBatch
<1>3. /\ \A f \in FillerIds :
           /\ fillers'[f].st = fillers[f].st /\ fillers'[f].start = fillers[f].start
           /\ fillers'[f].to = fillers[f].to
           /\ f # src => fillers'[f].pos = fillers[f].pos
      /\ fillers'[src].pos = MaxOf(fillers[src].pos, lo + 1)
      /\ headers' = headers \cup {lo}
  BY <1>0, GapBlockFacts
<1>4. \A f \in FillerIds, b \in 1..MaxBlock : Spawned(f) => StreamOk(f, b)
  BY StreamsOk
<1>5. ASSUME NEW f \in FillerIds, NEW b \in 1..MaxBlock, Spawned(f)'
      PROVE  StreamOk(f, b)'
  <2>1. Spawned(f) /\ StreamOk(f, b) /\ b \in Nat
    BY <1>3, <1>4, <1>5 DEF Spawned
  <2>2. Ok(b) => Ok(b)'
    BY OkGrows
  <2>3. fillers'[f].start <= b /\ b < fillers'[f].pos => Ok(b)'
    <3>1. CASE f = src
      <4>1. CASE b < fillers[src].pos
        BY <1>3, <2>1, <2>2, <3>1, <4>1 DEF StreamOk
      <4>2. CASE b = lo
        BY <1>3, <4>2 DEF Ok
      <4>3. b < fillers'[f].pos => b < fillers[src].pos \/ b = lo
        BY <1>2, <1>3, <2>1, <3>1 DEF MaxOf
      <4> QED BY <4>1, <4>2, <4>3
    <3>2. CASE f # src
      BY <1>3, <2>1, <2>2, <3>2 DEF StreamOk
    <3> QED BY <3>1, <3>2
  <2>4. CASE fillers[f].to # to
    <3>1. fillers[f].to \in Blocks
      BY TaskTypes
    <3>2. RowFrom(fillers[f].to)' = RowFrom(fillers[f].to) /\ fillers'[f].to = fillers[f].to
      <4>1. PICK u \in Blocks : u = fillers[f].to
        BY <3>1
      <4>2. RowFrom(u)' = RowFrom(u) /\ fillers'[f].to = u
        BY <1>1, <1>3, <2>4, <4>1
      <4> QED BY <4>1, <4>2 DEF RowFrom
    <3> QED BY <1>3, <2>1, <2>2, <2>3, <3>2 DEF StreamOk
  <2>5. CASE fillers[f].to = to
    <3>0. /\ fillers'[f].to = to /\ RowFrom(fillers[f].to)' = RowFrom(to)'
          /\ RowFrom(to) \in Nat /\ to \in Nat /\ fillers'[f].start = fillers[f].start
          /\ fillers[f].start \in Nat
      BY <1>3, <2>5, RowTypes, TaskTypes DEF RowFrom
    <3>1. b <= to /\ fillers[f].start <= b /\ b < RowFrom(to)' => Ok(b)'
      <4> SUFFICES ASSUME b <= to, fillers[f].start <= b, b < RowFrom(to)' PROVE Ok(b)'
        OBVIOUS
      <4>1. b <= lo
        BY <1>1, <2>1
      <4>2. CASE b < RowFrom(to)
        BY <2>1, <2>2, <2>5, <4>2 DEF StreamOk
      <4>3. CASE RowFrom(to) <= b
        BY <1>0, <4>1, <4>3, RowMove
      <4> QED BY <2>1, <3>0, <4>2, <4>3
    <3>2. b <= to /\ RowFrom(to)' <= b /\ b < fillers[f].start => Ok(b)'
      <4> SUFFICES ASSUME b <= to, RowFrom(to)' <= b, b < fillers[f].start PROVE Ok(b)'
        OBVIOUS
      <4>1. lo <= b
        BY <1>1, <2>1
      <4>2. CASE b < RowFrom(to)
        <5>1. StreamOk(src, b) /\ fillers[src].start <= b
          BY <1>2, <1>4, <2>1, <4>1
        <5> QED BY <1>2, <2>2, <4>2, <5>1 DEF StreamOk
      <4>3. CASE RowFrom(to) <= b
        BY <2>1, <2>2, <2>5, <4>3 DEF StreamOk
      <4> QED BY <2>1, <3>0, <4>2, <4>3
    <3> QED BY <2>3, <3>0, <3>1, <3>2 DEF StreamOk
  <2> QED BY <2>4, <2>5
<1> QED BY <1>5, StreamsOkPrime

LEMMA GapAhead ==
    ASSUME TypeOK, Batches, Streams, RowsAhead, Next, GapBlock
    PROVE  RowsAhead'
<1>0. PICK src \in FillerIds, to \in Blocks, lo \in Nat :
         src = results[1].src /\ to = results[1].to /\ lo = results[1].lo
  BY HeadBatch
<1>1. /\ \A u \in Blocks : u # to => gaps'[u] = gaps[u] /\ RowFrom(u)' = RowFrom(u)
      /\ \A b \in Nat : b <= to /\ b < RowFrom(to)' => b <= lo
  BY <1>0, GapRow
<1>2. Spawned(src) /\ fillers[src].to = to
  BY <1>0, HeadBatch
<1>3. /\ \A f \in FillerIds : fillers'[f].st = fillers[f].st /\ fillers'[f].to = fillers[f].to
      /\ cursor' = cursor
  BY <1>0, GapBlockFacts
<1>4. CursorPos' = CursorPos
  BY <1>3 DEF CursorPos
<1>5. ASSUME NEW u \in Blocks, Tracked(u)', NEW b \in 1..MaxBlock,
             b <= u, CursorPos' <= b, b < RowFrom(u)'
      PROVE  Ok(b)'
  <2>0. b \in Nat /\ RowFrom(u) \in Nat
    BY RowTypes
  <2>1. CASE u # to
    <3>1. Tracked(u) /\ RowFrom(u)' = RowFrom(u)
      BY <1>1, <1>3, <1>5, <2>1 DEF Tracked, Spawned
    <3>2. Ok(b)
      BY <1>4, <1>5, <3>1 DEF RowsAhead, Tracked
    <3> QED BY <3>2, OkGrows
  <2>2. CASE u = to
    <3>1. b <= lo
      BY <1>1, <1>5, <2>0, <2>2
    <3>2. CASE b < RowFrom(to)
      <4>1. Ok(b)
        BY <1>2, <1>4, <1>5, <2>2, <3>2 DEF RowsAhead
      <4> QED BY <4>1, OkGrows
    <3>3. CASE RowFrom(to) <= b
      BY <1>0, <1>5, <2>2, <3>1, <3>3, RowMove
    <3> QED BY <2>0, <2>2, <3>2, <3>3
  <2> QED BY <2>1, <2>2
<1> QED BY <1>5 DEF RowsAhead, Tracked

LEMMA GapAccounted ==
    ASSUME TypeOK, Batches, Streams, Accounted, Next, GapBlock
    PROVE  Accounted'
<1>0. PICK to \in Blocks, lo \in Nat : to = results[1].to /\ lo = results[1].lo
  BY HeadBatch
<1>1. /\ \A u \in Blocks : u # to => gaps'[u] = gaps[u]
      /\ \A b \in Nat : b <= to /\ lo <= b =>
                          b = lo \/ (gaps'[to] # NoBlock /\ gaps'[to] <= b)
  BY <1>0, GapRow
<1>2. headers' = headers \cup {lo} /\ UNCHANGED <<horizon, lost>>
  BY <1>0, GapBlockFacts
<1>3. horizon \in Nat /\ horizon <= MaxBlock /\ MaxBlock \in Nat
  BY BoundsAssumption DEF TypeOK, Blocks
<1>4. ASSUME NEW b \in 1..horizon
      PROVE  b \in headers' \cup Covered' \cup lost'
  <2>0. b \in 1..MaxBlock /\ b \in Nat /\ b \in Blocks
    BY <1>3 DEF Blocks
  <2>1. CASE b \in headers \cup lost
    BY <1>2, <2>1
  <2>2. ASSUME NEW u \in Rows, gaps[u] <= b, b <= u
        PROVE  b \in headers' \cup Covered' \cup lost'
    <3>1. u \in Blocks /\ gaps[u] # NoBlock
      BY DEF Rows
    <3>2. CASE u # to
      <4>1. u \in Rows' /\ gaps'[u] <= b
        BY <1>1, <2>2, <3>1, <3>2 DEF Rows
      <4> QED BY <2>0, <2>2, <4>1 DEF Covered
    <3>3. CASE u = to /\ b <= lo
      <4>1. RowFrom(to) = gaps[to]
        BY <3>1, <3>3 DEF RowFrom
      <4>2. Ok(b)'
        BY <1>0, <2>0, <2>2, <3>3, <4>1, RowMove
      <4> QED BY <4>2 DEF Ok
    <3>4. CASE u = to /\ ~(b <= lo)
      <4>1. gaps'[to] # NoBlock /\ gaps'[to] <= b
        BY <1>1, <2>0, <2>2, <3>4
      <4>2. to \in Rows'
        BY <4>1 DEF Rows
      <4> QED BY <2>0, <2>2, <3>4, <4>1, <4>2 DEF Covered
    <3> QED BY <3>2, <3>3, <3>4
  <2> QED BY <2>1, <2>2 DEF Accounted, Covered
<1> QED BY <1>2, <1>4 DEF Accounted

\* A row from the cursor on replaces the row of its target.
LEMMA InsertFacts ==
    ASSUME TypeOK, NEW sink \in Blocks, NEW c \in Blocks, c = CursorPos,
           gaps' = [gaps EXCEPT ![sink] = CursorPos],
           lost' = lost \cup Replaced(CursorPos, sink), UNCHANGED headers
    PROVE  /\ \A u \in Blocks : u # sink => gaps'[u] = gaps[u] /\ RowFrom(u)' = RowFrom(u)
           /\ gaps'[sink] = c /\ c # NoBlock /\ RowFrom(sink)' = c
           /\ \A b \in Blocks : RowFrom(sink) <= b /\ b < c /\ b <= sink => Ok(b)'
           /\ \A b \in Blocks : b \in Covered => Ok(b)' \/ b \in Covered'
           /\ \A b \in Blocks : c <= b /\ b <= sink => b \in Covered'
<1>1. /\ \A u \in Blocks : u # sink => gaps'[u] = gaps[u] /\ RowFrom(u)' = RowFrom(u)
      /\ gaps'[sink] = c
  BY DEF TypeOK, RowFrom
<1>2. c # NoBlock /\ RowFrom(sink)' = c
  BY <1>1, BlocksNat DEF RowFrom
<1>3. \A b \in Blocks : RowFrom(sink) <= b /\ b < c /\ b <= sink => Ok(b)'
  <2> SUFFICES ASSUME NEW b \in Blocks, RowFrom(sink) <= b, b < c, b <= sink PROVE Ok(b)'
    OBVIOUS
  <2>1. gaps[sink] # NoBlock /\ RowFrom(sink) = gaps[sink]
    BY BlocksNat DEF RowFrom
  <2>2. b \in headers \/ b \in Replaced(CursorPos, sink)
    BY <2>1 DEF Replaced
  <2> QED BY <2>2 DEF Ok
<1>4. \A b \in Blocks : c <= b /\ b <= sink => b \in Covered'
  <2>1. sink \in Rows'
    BY <1>1, <1>2 DEF Rows
  <2> QED BY <1>1, <2>1 DEF Covered
<1>5. \A b \in Blocks : b \in Covered => Ok(b)' \/ b \in Covered'
  <2> SUFFICES ASSUME NEW b \in Blocks, NEW u \in Rows, gaps[u] <= b, b <= u
               PROVE Ok(b)' \/ b \in Covered'
    BY DEF Covered
  <2>1. u \in Blocks /\ gaps[u] # NoBlock
    BY DEF Rows
  <2>2. CASE u # sink
    <3>1. u \in Rows' /\ gaps'[u] <= b
      BY <1>1, <2>1, <2>2 DEF Rows
    <3> QED BY <3>1 DEF Covered
  <2>3. CASE u = sink
    <3>1. RowFrom(sink) <= b
      BY <2>1, <2>3 DEF RowFrom
    <3>2. b < c \/ c <= b
      BY BlocksNat
    <3> QED BY <1>3, <1>4, <2>3, <3>1, <3>2
  <2> QED BY <2>2, <2>3
<1> QED BY <1>1, <1>2, <1>3, <1>4, <1>5

\* A filler that starts at its row owes nothing before it.
LEMMA StartStream ==
    ASSUME NEW f \in FillerIds, NEW from \in Nat, NEW to \in Nat, Starts(f, from, to),
           RowFrom(to)' = from, NEW b \in 1..MaxBlock
    PROVE  StreamOk(f, b)'
<1>1. fillers'[f].start = from /\ fillers'[f].pos = from /\ RowFrom(fillers[f].to)' = from
  BY DEF Starts, RowFrom
<1>2. b \in Nat /\ ~(from <= b /\ b < from)
  OBVIOUS
<1> QED BY <1>1, <1>2 DEF StreamOk

LEMMA ReconnectLedger ==
    ASSUME TypeOK, Positions, Fillers, Streams, RowsAhead, Accounted, Next, Reconnect
    PROVE  Streams' /\ RowsAhead' /\ Accounted'
<1>0. PICK id \in FillerIds, sink \in Blocks, c \in Blocks :
        id = MaxBlock + 1 + fresh /\ sink = Head(notif).n /\ c = CursorPos
  BY ReconnectFacts
<1>1. /\ ~Spawned(id) /\ Starts(id, c, sink)
      /\ \A f \in FillerIds : f # id => SameTask(f)
      /\ gaps' = [gaps EXCEPT ![sink] = CursorPos]
      /\ lost' = lost \cup Replaced(CursorPos, sink)
      /\ horizon' = MaxOf(horizon, sink) /\ UNCHANGED <<cursor, headers>>
  BY <1>0, ReconnectFacts
<1>2. /\ \A u \in Blocks : u # sink => gaps'[u] = gaps[u] /\ RowFrom(u)' = RowFrom(u)
      /\ gaps'[sink] = c /\ c # NoBlock /\ RowFrom(sink)' = c
      /\ \A b \in Blocks : RowFrom(sink) <= b /\ b < c /\ b <= sink => Ok(b)'
      /\ \A b \in Blocks : b \in Covered => Ok(b)' \/ b \in Covered'
      /\ \A b \in Blocks : c <= b /\ b <= sink => b \in Covered'
  BY <1>0, <1>1, InsertFacts
<1>3. CursorPos' = c /\ c \in Nat /\ sink \in Nat /\ RowFrom(sink) \in Nat
  BY <1>0, <1>1, BlocksNat, RowTypes DEF CursorPos
<1>4. 1..MaxBlock \subseteq Blocks /\ 1..MaxBlock \subseteq Nat
  BY BoundsAssumption DEF Blocks
<1>5. Streams'
  <2> SUFFICES ASSUME NEW f \in FillerIds, NEW b \in 1..MaxBlock, Spawned(f)'
               PROVE  StreamOk(f, b)'
    BY StreamsOkPrime
  <2>1. CASE f = id
    BY <1>1, <1>2, <1>3, <2>1, StartStream
  <2>2. CASE f # id
    <3>1. SameTask(f) /\ Spawned(f) /\ StreamOk(f, b)
      BY <1>1, <2>2, StreamsOk DEF SameTask, Spawned
    <3>2. Ok(b) => Ok(b)'
      BY OkGrows
    <3>3. CASE fillers[f].to # sink
      <4>1. fillers[f].to \in Blocks
        BY TaskTypes
      <4>2. PICK u \in Blocks : u = fillers[f].to
        BY <4>1
      <4>3. RowFrom(u)' = RowFrom(u) /\ fillers'[f].to = u
        BY <1>2, <3>1, <3>3, <4>2 DEF SameTask
      <4>4. RowFrom(fillers[f].to)' = RowFrom(fillers[f].to)
        BY <4>2, <4>3 DEF RowFrom
      <4> QED BY <3>1, <3>2, <4>4 DEF StreamOk, SameTask
    <3>4. CASE fillers[f].to = sink
      <4>1. RowFrom(fillers[f].to)' = c /\ fillers'[f].to = sink
        BY <1>2, <3>1, <3>4 DEF RowFrom, SameTask
      <4>2. fillers[f].start \in Nat /\ b \in Nat /\ b \in Blocks
        BY <1>4, TaskTypes
      <4>3. b <= sink /\ fillers[f].start <= b /\ b < c => Ok(b)'
        <5>1. CASE b < RowFrom(sink)
          BY <3>1, <3>2, <3>4, <5>1 DEF StreamOk
        <5>2. CASE RowFrom(sink) <= b
          BY <1>2, <4>2, <5>2
        <5> QED BY <1>3, <4>2, <5>1, <5>2
      <4>4. b <= sink /\ c <= b /\ b < fillers[f].start => Ok(b)'
        <5>1. CASE b < RowFrom(sink)
          <6>1. b <= sink /\ c <= b => Ok(b)
            BY <1>0, <3>1, <3>4, <5>1 DEF RowsAhead
          <6> QED BY <3>2, <6>1
        <5>2. CASE RowFrom(sink) <= b
          BY <3>1, <3>2, <3>4, <5>2 DEF StreamOk
        <5> QED BY <1>3, <4>2, <5>1, <5>2
      <4> QED BY <3>1, <3>2, <4>1, <4>3, <4>4 DEF StreamOk, SameTask
    <3> QED BY <3>3, <3>4
  <2> QED BY <2>1, <2>2
<1>6. RowsAhead'
  <2>1. ASSUME NEW u \in Blocks, Tracked(u)', NEW b \in 1..MaxBlock,
               b <= u, CursorPos' <= b, b < RowFrom(u)'
        PROVE  Ok(b)'
    <3>1. CASE u = sink
      BY <1>2, <1>3, <1>4, <2>1, <3>1
    <3>2. CASE u # sink
      <4>1. Tracked(u)
        <5>1. ASSUME NEW f \in FillerIds, Spawned(f)', fillers'[f].to = u
              PROVE  Spawned(f) /\ fillers[f].to = u
          BY <1>1, <3>2, <5>1 DEF Starts, SameTask, Spawned
        <5> QED BY <1>2, <2>1, <3>2, <5>1 DEF Tracked
      <4>2. Ok(b)
        BY <1>0, <1>2, <1>3, <2>1, <3>2, <4>1 DEF RowsAhead, Tracked
      <4> QED BY <4>2, OkGrows
    <3> QED BY <3>1, <3>2
  <2> QED BY <2>1 DEF RowsAhead, Tracked
<1>7. Accounted'
  <2>0. horizon \in Nat /\ c <= horizon /\ horizon <= MaxBlock /\ MaxBlock \in Nat /\ sink <= MaxBlock
    BY <1>0, BoundsAssumption DEF TypeOK, Blocks, Positions
  <2> SUFFICES ASSUME NEW b \in 1..horizon' PROVE b \in headers' \cup Covered' \cup lost'
    BY DEF Accounted
  <2>1. b \in Nat /\ b \in Blocks
    BY <1>1, <1>3, <2>0 DEF Blocks, MaxOf
  <2>2. CASE b <= horizon
    <3>1. b \in headers \cup Covered \cup lost
      BY <2>1, <2>2 DEF Accounted
    <3> QED BY <1>2, <2>1, <3>1, Grows DEF Ok
  <2>3. CASE ~(b <= horizon)
    <3>1. b <= sink /\ c <= b
      BY <1>1, <1>3, <2>0, <2>1, <2>3 DEF MaxOf
    <3> QED BY <1>2, <2>1, <3>1
  <2> QED BY <2>2, <2>3
<1> QED BY <1>5, <1>6, <1>7

\* The first Connected when the cursor is already at the sink: the rows stay.
LEMMA FirstLedgerKept ==
    ASSUME TypeOK, Positions, Fillers, RowsAhead, Accounted, Next, FirstConnect,
           cursor = Head(notif).n
    PROVE  Streams' /\ RowsAhead' /\ Accounted'
<1>1. /\ Head(notif).n \in Blocks
      /\ \A f \in FillerIds : IF f \in Rows THEN Starts(f, gaps[f], f) ELSE ~Spawned(f)'
      /\ UNCHANGED <<gaps, lost, cursor, headers>>
      /\ horizon' = MaxOf(horizon, Head(notif).n)
  BY FirstFacts
<1>2. horizon' = horizon
  <2>1. CursorPos = cursor /\ cursor \in Nat /\ horizon \in Nat
    BY <1>1, BlocksNat DEF CursorPos, TypeOK
  <2> QED BY <1>1, <2>1 DEF Positions, MaxOf
<1>3. Streams'
  <2> SUFFICES ASSUME NEW f \in FillerIds, NEW b \in 1..MaxBlock, Spawned(f)'
               PROVE  StreamOk(f, b)'
    BY StreamsOkPrime
  <2>1. f \in Rows /\ Starts(f, gaps[f], f)
    BY <1>1
  <2>2. f \in Nat /\ gaps[f] \in Nat /\ gaps[f] # NoBlock
    BY <2>1, RowTypes DEF Rows
  <2>3. PICK g \in Nat : g = gaps[f]
    BY <2>2
  <2>4. RowFrom(f)' = g
    BY <1>1, <2>2, <2>3 DEF RowFrom
  <2> QED BY <2>1, <2>2, <2>3, <2>4, StartStream
<1>4. RowsAhead'
  <2>1. ASSUME NEW u \in Blocks, Tracked(u)', NEW b \in 1..MaxBlock,
               b <= u, CursorPos' <= b, b < RowFrom(u)'
        PROVE  Ok(b)'
    <3>1. Tracked(u)
      <4>1. ASSUME NEW f \in FillerIds, Spawned(f)', fillers'[f].to = u
            PROVE  gaps[u] # NoBlock
        BY <1>1, <4>1 DEF Starts, Rows
      <4> QED BY <1>1, <2>1, <4>1 DEF Tracked
    <3>2. CursorPos' = CursorPos /\ RowFrom(u)' = RowFrom(u)
      BY <1>1 DEF CursorPos, RowFrom
    <3>3. Ok(b)
      BY <2>1, <3>1, <3>2 DEF RowsAhead, Tracked
    <3> QED BY <3>3, OkGrows
  <2> QED BY <2>1 DEF RowsAhead, Tracked
<1>5. Accounted'
  BY <1>1, <1>2 DEF Accounted, Covered, Rows
<1> QED BY <1>3, <1>4, <1>5

\* The first Connected with a new gap from the cursor to the sink.
LEMMA FirstLedgerNew ==
    ASSUME TypeOK, Positions, Fillers, RowsAhead, Accounted, Next, FirstConnect,
           cursor # Head(notif).n
    PROVE  Streams' /\ RowsAhead' /\ Accounted'
<1>0. PICK id \in FillerIds, sink \in Blocks, c \in Blocks :
        id = MaxBlock + 1 + fresh /\ sink = Head(notif).n /\ c = CursorPos
  BY FirstFacts
<1>1. /\ Starts(id, c, sink)
      /\ \A f \in FillerIds : f # id =>
           IF f \in Rows THEN Starts(f, gaps[f], f) ELSE ~Spawned(f)'
      /\ gaps' = [gaps EXCEPT ![sink] = CursorPos]
      /\ lost' = lost \cup Replaced(CursorPos, sink)
      /\ horizon' = MaxOf(horizon, sink) /\ UNCHANGED <<cursor, headers>>
  BY <1>0, FirstFacts
<1>2. /\ \A u \in Blocks : u # sink => gaps'[u] = gaps[u] /\ RowFrom(u)' = RowFrom(u)
      /\ gaps'[sink] = c /\ c # NoBlock /\ RowFrom(sink)' = c
      /\ \A b \in Blocks : RowFrom(sink) <= b /\ b < c /\ b <= sink => Ok(b)'
      /\ \A b \in Blocks : b \in Covered => Ok(b)' \/ b \in Covered'
      /\ \A b \in Blocks : c <= b /\ b <= sink => b \in Covered'
  BY <1>0, <1>1, InsertFacts
<1>3. CursorPos' = c /\ c \in Nat /\ sink \in Nat
  BY <1>0, <1>1, BlocksNat DEF CursorPos
<1>4. 1..MaxBlock \subseteq Blocks /\ 1..MaxBlock \subseteq Nat
  BY BoundsAssumption DEF Blocks
<1>5. Streams'
  <2> SUFFICES ASSUME NEW f \in FillerIds, NEW b \in 1..MaxBlock, Spawned(f)'
               PROVE  StreamOk(f, b)'
    BY StreamsOkPrime
  <2>1. CASE f = id
    BY <1>1, <1>2, <1>3, <2>1, StartStream
  <2>2. CASE f # id
    <3>1. f \in Rows /\ Starts(f, gaps[f], f)
      BY <1>1, <2>2
    <3>2. f \in Blocks /\ f \in Nat /\ gaps[f] \in Nat /\ gaps[f] # NoBlock
      BY <3>1, RowTypes DEF Rows
    <3>3. PICK g \in Nat : g = gaps[f]
      BY <3>2
    <3>4. CASE f # sink
      <4>1. RowFrom(f)' = g
        BY <1>2, <3>2, <3>3, <3>4 DEF RowFrom
      <4> QED BY <3>1, <3>2, <3>3, <4>1, StartStream
    <3>5. CASE f = sink
      <4>1. /\ fillers'[f].start = g /\ fillers'[f].pos = g /\ fillers'[f].to = sink
            /\ RowFrom(fillers[f].to)' = c /\ RowFrom(sink) = g
        BY <1>2, <3>1, <3>2, <3>3, <3>5 DEF Starts, RowFrom
      <4>2. b \in Nat /\ b \in Blocks
        BY <1>4
      <4>3. b <= sink /\ g <= b /\ b < c => Ok(b)'
        BY <1>2, <4>1, <4>2
      <4>4. b <= sink /\ c <= b /\ b < g => Ok(b)'
        <5>1. b <= sink /\ c <= b /\ b < g => Ok(b)
          BY <1>0, <3>2, <3>5, <4>1 DEF RowsAhead
        <5> QED BY <5>1, OkGrows
      <4>5. ~(g <= b /\ b < g)
        BY <4>2
      <4> QED BY <4>1, <4>3, <4>4, <4>5 DEF StreamOk
    <3> QED BY <3>4, <3>5
  <2> QED BY <2>1, <2>2
<1>6. RowsAhead'
  <2>1. ASSUME NEW u \in Blocks, Tracked(u)', NEW b \in 1..MaxBlock,
               b <= u, CursorPos' <= b, b < RowFrom(u)'
        PROVE  Ok(b)'
    <3>1. CASE u = sink
      BY <1>2, <1>3, <1>4, <2>1, <3>1
    <3>2. CASE u # sink
      <4>1. Tracked(u)
        <5>1. ASSUME NEW f \in FillerIds, Spawned(f)', fillers'[f].to = u
              PROVE  gaps[u] # NoBlock
          <6>1. f # id
            BY <1>1, <3>2, <5>1 DEF Starts
          <6> QED BY <1>1, <5>1, <6>1 DEF Starts, Rows
        <5> QED BY <1>2, <2>1, <3>2, <5>1 DEF Tracked
      <4>2. Ok(b)
        BY <1>0, <1>2, <1>3, <2>1, <3>2, <4>1 DEF RowsAhead, Tracked
      <4> QED BY <4>2, OkGrows
    <3> QED BY <3>1, <3>2
  <2> QED BY <2>1 DEF RowsAhead, Tracked
<1>7. Accounted'
  <2>0. horizon \in Nat /\ c <= horizon /\ horizon <= MaxBlock /\ MaxBlock \in Nat /\ sink <= MaxBlock
    BY <1>0, BoundsAssumption DEF TypeOK, Blocks, Positions
  <2> SUFFICES ASSUME NEW b \in 1..horizon' PROVE b \in headers' \cup Covered' \cup lost'
    BY DEF Accounted
  <2>1. b \in Nat /\ b \in Blocks
    BY <1>1, <1>3, <2>0 DEF Blocks, MaxOf
  <2>2. CASE b <= horizon
    <3>1. b \in headers \cup Covered \cup lost
      BY <2>1, <2>2 DEF Accounted
    <3> QED BY <1>2, <2>1, <3>1, Grows DEF Ok
  <2>3. CASE ~(b <= horizon)
    <3>1. b <= sink /\ c <= b
      BY <1>1, <1>3, <2>0, <2>1, <2>3 DEF MaxOf
    <3> QED BY <1>2, <2>1, <3>1
  <2> QED BY <2>2, <2>3
<1> QED BY <1>5, <1>6, <1>7

LEMMA RestartLedger ==
    ASSUME RowsAhead, Accounted, Restart
    PROVE  Streams' /\ RowsAhead' /\ Accounted'
<1>1. /\ \A f \in FillerIds : ~Spawned(f)'
      /\ UNCHANGED <<gaps, cursor, headers, horizon, lost>>
  BY RestartFacts
<1>2. Streams'
  BY <1>1 DEF Streams
<1>3. RowsAhead'
  <2>1. ASSUME NEW u \in Blocks, Tracked(u)' PROVE gaps[u] # NoBlock
    BY <1>1, <2>1 DEF Tracked
  <2> QED BY <1>1, <2>1 DEF RowsAhead, Tracked, CursorPos, RowFrom, Ok
<1>4. Accounted'
  BY <1>1 DEF Accounted, Covered, Rows
<1> QED BY <1>2, <1>3, <1>4

-----------------------------------------------------------------------------
LEMMA IndInit == Init => IndInv
<1> SUFFICES ASSUME Init PROVE IndInv
  OBVIOUS
<1>1. Positions
  BY DEF Init, Positions, CursorPos
<1>2. Contiguous /\ Batches
  BY DEF Init, Contiguous, Batches
<1>3. \A f \in FillerIds : ~Spawned(f)
  BY DEF Init, Spawned, IdleFiller
<1>4. Fillers /\ Streams
  BY <1>3 DEF Init, Fillers, Streams
<1>5. RowsAhead
  BY <1>3 DEF Init, RowsAhead
<1>6. Accounted /\ Handover
  BY DEF Init, Accounted, Handover, HandoverComplete
<1> QED BY <1>1, <1>2, <1>4, <1>5, <1>6, TypeInit, OrderedInit DEF IndInv

LEMMA IndStep == ASSUME IndInv, Next PROVE IndInv'
<1> USE DEF IndInv
<1>1. TypeOK'
  BY TypeNext
<1>2. Ordered' /\ Positions' /\ Contiguous' /\ Handover'
  BY <1>1, OrderedStep, PositionsStep, ContiguousStep, HandoverStep
<1>3. CASE Plain
  BY <1>1, <1>2, <1>3, PlainFillers, PlainBatches, PlainLedger, PlainRows, PlainAccounted
<1>4. CASE GapBlock
  BY <1>1, <1>2, <1>4, GapFillers, GapBatches, GapStreams, GapAhead, GapAccounted
<1>5. CASE Reconnect
  BY <1>1, <1>2, <1>5, StartFillers, StartBatches, ReconnectLedger
<1>6. CASE FirstConnect
  BY <1>1, <1>2, <1>6, StartFillers, StartBatches, FirstLedgerKept, FirstLedgerNew
<1>7. CASE Restart
  BY <1>1, <1>2, <1>7, StartFillers, StartBatches, RestartLedger
<1> QED BY <1>3, <1>4, <1>5, <1>6, <1>7 DEF Next, Plain, TakeNotification, TakeResult

LEMMA IndStutter == ASSUME IndInv, UNCHANGED vars PROVE IndInv'
BY DEF IndInv, TypeOK, Ordered, Positions, Contiguous, Fillers, Batches, Streams, RowsAhead,
     Accounted, Handover, HandoverComplete, CursorPos, RowFrom, Ok, Spawned, Covered, Rows,
     vars, nodeVars, bpVars, dbVars, histVars

\* Every block BlockProcessor was told of is processed, promised by a gap row,
\* or one of those given up by a blind reconnect, a replaced row or an early
\* notification: the gap fillers, their batches, crashes and restarts lose none.
THEOREM AccountedTheorem == Spec => []Accounted
<1>1. IndInv /\ [Next]_vars => IndInv'
  BY IndStep, IndStutter
<1>2. IndInv => Accounted
  BY DEF IndInv
<1> QED BY IndInit, <1>1, <1>2, PTL DEF Spec
=============================================================================
