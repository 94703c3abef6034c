------------------------- MODULE VirtualChain_proofs -------------------------
(***************************************************************************)
(* VirtualProcessor and its syncer hand one token back and forth, for any  *)
(* block tree, any chunks and capacities, and any faults: while the        *)
(* processor is syncing a request, a response, a parked response or a      *)
(* Continue is under way, and never two of them.                           *)
(*                                                                         *)
(* Once the processor has caught up, the accepting blocks are the chain of *)
(* the sink, for any block tree, any chunks, capacities and faults.  The   *)
(* invariant has two halves.  Every response is an answer to a request     *)
(* from the last block applied (Token), so that the database is exact      *)
(* until the processor is synced; and what it has queued meanwhile is the  *)
(* sequence of changes from a block it has already reached up to the sink  *)
(* (Replay), so that their replay ends where the chain ends, however far   *)
(* the syncer was ahead of it.                                             *)
(*                                                                         *)
(* No unwrap, assert! or unreachable! of the processor is reached before   *)
(* the chain has broken: what a responder sends carries blocks or says the *)
(* replay is over (Steps), its answers reach the processor that asked      *)
(* (Addressed), changes come after the Connected that opens them (Opened), *)
(* and an accepting block that leaves the chain is still in the ring       *)
(* (Backed), as long as no processed block has been evicted from it        *)
(* (Whole).                                                                *)
(***************************************************************************)
EXTENDS VirtualChain, FiniteSetTheorems, SequenceTheorems, TLAPS

NotifMsgs == [k : {"connected", "disconnected", "vcc", "shutdown"}, n : Blocks,
              pp : Blocks, v : Changes \cup {None}, stray : BOOLEAN]
SyncMsgs  == [id : SyncerIds, k : {"vc", "stopped"}, v : Changes \cup {None}]
NodeMsgs  == [v : Changes, stray : BOOLEAN]
Syncers   == [st : {"none", "asked", "parked", "waiting", "done"},
              from : Blocks, ack : {"none", "continue", "stop"}]

\* A queue carries messages, and a change or a response carries a change.
NotifsOK(q) == /\ q \in Seq(NotifMsgs)
               /\ \A i \in 1..Len(q) : q[i].k = "vcc" => q[i].v \in Changes
SyncsOK(q)  == /\ q \in Seq(SyncMsgs)
               /\ \A i \in 1..Len(q) : q[i].k = "vc" => q[i].v \in Changes

\* The types, by the parts that actions leave alone together.
NodeT == /\ sink \in Blocks /\ pp \in Blocks
         /\ link \in {"down", "registering", "up", "dropped"} /\ shuttingDown \in BOOLEAN
         /\ nodeQ \in Seq(NodeMsgs)
ProcT == /\ rtq \in Seq(Changes) /\ draining \in BOOLEAN /\ vshut \in BOOLEAN
         /\ vp \in {"running", "stopped", "failed", "panicked"}
SyncT == /\ mode \in {"initial", "syncing", "synced"} /\ last \in Blocks
         /\ sid \in SyncerIds /\ target \in Blocks /\ sq \in Changes \cup {None}
DbT   == /\ cursor \in Blocks \cup {NoBlock} /\ applied \subseteq 1..MaxBlock

Types ==
    /\ NodeT /\ ProcT /\ SyncT /\ DbT
    /\ NotifsOK(notif) /\ SyncsOK(syncQ)
    /\ syncers \in [SyncerIds -> Syncers]
    /\ ring \in Seq(1..MaxBlock) /\ indexed \subseteq 1..MaxBlock
    /\ used \in [FaultKinds -> Nat] /\ strayed \in BOOLEAN

-----------------------------------------------------------------------------
(* Lemmas about the operators.                                             *)

\* The constants, without the shape of the tree.
LEMMA Bounds ==
    /\ MaxBlock \in Nat /\ MaxSyncers \in Nat \ {0} /\ Capacity \in Nat \ {0}
    /\ SyncerIds \subseteq Nat /\ 0 \in SyncerIds
    /\ Blocks \subseteq Nat /\ 0 \in Blocks /\ 1..MaxBlock \subseteq Blocks
BY ChainBounds DEF Blocks, SyncerIds

LEMMA ChangeType ==
    ASSUME NEW a \in Blocks, NEW b \in Blocks
    PROVE  Change(a, b) \in Changes
<1>1. Chain[a] \subseteq 1..MaxBlock /\ Chain[b] \subseteq 1..MaxBlock
    BY ChainIsTree
<1>. QED
    BY <1>1 DEF Change, Changes

LEMMA NoneIsNoChange == None \notin Changes
<1>1. -1 \notin Blocks
    BY Bounds
<1>. QED
    BY <1>1 DEF None, NoBlock, Changes

LEMMA AnswersType ==
    ASSUME NEW from \in Blocks, sink \in Blocks
    PROVE  \A v \in Answers(from) : v \in Changes /\ v.last \in Blocks
<1>. SUFFICES ASSUME NEW v \in Answers(from)
              PROVE  v \in Changes /\ v.last \in Blocks
    OBVIOUS
<1>. DEFINE full == Change(from, sink)
<1>1. full.rem \in SUBSET (1..MaxBlock) /\ full.add \in SUBSET (1..MaxBlock)
    BY ChangeType DEF Changes
<1>2. full.add \subseteq Blocks
    BY <1>1, Bounds
<1>3. \/ v = [full EXCEPT !.last = from]
      \/ \E c \in full.add : v = [full EXCEPT !.add = {d \in full.add : d <= c}, !.last = c]
    BY Zenon DEF Answers
<1>4. full = [rem |-> full.rem, add |-> full.add, last |-> sink]
    BY DEF Change
<1>5. CASE v = [full EXCEPT !.last = from]
    <2>1. v = [rem |-> full.rem, add |-> full.add, last |-> from]
        BY <1>4, <1>5
    <2>. QED
        BY <1>1, <2>1 DEF Changes
<1>6. ASSUME NEW c \in full.add,
             v = [full EXCEPT !.add = {d \in full.add : d <= c}, !.last = c]
      PROVE  v \in Changes /\ v.last \in Blocks
    <2>. DEFINE upto == {d \in full.add : d <= c}
    <2>1. upto \in SUBSET (1..MaxBlock)
        BY <1>1
    <2>2. v = [rem |-> full.rem, add |-> upto, last |-> c]
        BY <1>4, <1>6, Zenon DEF Change
    <2>. HIDE DEF upto, full
    <2>. QED
        BY <1>1, <1>2, <1>6, <2>1, <2>2 DEF Changes
<1>. HIDE DEF full
<1>. QED
    BY <1>3, <1>5, <1>6

\* The ring keeps its type when a block is inserted.
LEMMA RingType ==
    ASSUME NEW r \in Seq(1..MaxBlock), NEW b \in 1..MaxBlock
    PROVE  /\ Inserted(r, b) \in Seq(1..MaxBlock)
           /\ Inserted(Evicted(r), b) \in Seq(1..MaxBlock)
<1>1. \A q \in Seq(1..MaxBlock) : Inserted(q, b) \in Seq(1..MaxBlock)
    <2>. TAKE q \in Seq(1..MaxBlock)
    <2>1. Append(q, b) \in Seq(1..MaxBlock)
        OBVIOUS
    <2>. QED
        BY <2>1, Zenon DEF Inserted
<1>2. CASE Len(r) + 1 > Capacity
    <2>. DEFINE from == Len(r) + 2 - Capacity
    <2>1. from \in Int /\ Len(r) \in Int /\ \A i \in from..Len(r) : r[i] \in 1..MaxBlock
        BY <1>2, Bounds
    <2>. HIDE DEF from
    <2>2. SubSeq(r, from, Len(r)) \in Seq(1..MaxBlock)
        BY <2>1, SubSeqProperties
    <2>. QED
        BY <1>1, <1>2, <2>2 DEF Evicted, from
<1>3. CASE ~(Len(r) + 1 > Capacity)
    BY <1>1, <1>3 DEF Evicted
<1>. QED
    BY <1>1, <1>2, <1>3

\* In a set of n numbers there is one with i of them up to it, for every i in
\* 1..n: counting them is injective, and so reaches every i.
LEMMA Ranks ==
    ASSUME NEW S \in SUBSET Nat, IsFiniteSet(S), NEW i \in 1..Cardinality(S)
    PROVE  \E b \in S : Cardinality({c \in S : c <= b}) = i
<1>. DEFINE Upto(b) == {c \in S : c <= b}
            n       == Cardinality(S)
            f       == [b \in S |-> Cardinality(Upto(b))]
<1>1. n \in Nat
    BY FS_CardinalityType
<1>2. \A b \in S : IsFiniteSet(Upto(b)) /\ Cardinality(Upto(b)) \in 1..n
    <2>. TAKE b \in S
    <2>1. Upto(b) \in SUBSET S
        OBVIOUS
    <2>2. IsFiniteSet(Upto(b)) /\ Cardinality(Upto(b)) <= n
        BY <2>1, FS_Subset
    <2>3. Cardinality(Upto(b)) \in Nat
        BY <2>2, FS_CardinalityType
    <2>4. Upto(b) # {}
        OBVIOUS
    <2>. HIDE DEF Upto, n, f
    <2>5. Cardinality(Upto(b)) # 0
        BY <2>2, <2>4, FS_EmptySet
    <2>. QED
        BY <1>1, <2>2, <2>3, <2>5
<1>3. \A a, b \in S : a < b => Cardinality(Upto(a)) < Cardinality(Upto(b))
    <2>. SUFFICES ASSUME NEW a \in S, NEW b \in S, a < b
                  PROVE  Cardinality(Upto(a)) < Cardinality(Upto(b))
        OBVIOUS
    <2>1. /\ \A c \in S : c <= a => c <= b
          /\ b <= b /\ ~(b <= a)
        OBVIOUS
    <2>2. Upto(a) \in SUBSET Upto(b) /\ b \in Upto(b) /\ b \notin Upto(a)
        BY <2>1, Zenon
    <2>. HIDE DEF Upto, n, f
    <2>3. Cardinality(Upto(a)) <= Cardinality(Upto(b))
          /\ Cardinality(Upto(a)) # Cardinality(Upto(b))
        BY <1>2, <2>2, FS_Subset
    <2>4. Cardinality(Upto(a)) \in 1..n /\ Cardinality(Upto(b)) \in 1..n
        BY <1>2
    <2>. QED
        BY <1>1, <2>3, <2>4
<1>4. f \in Injection(S, 1..n)
    <2>1. f \in [S -> 1..n]
        BY <1>2
    <2>2. \A a, b \in S : f[a] = f[b] => a = b
        <3>. SUFFICES ASSUME NEW a \in S, NEW b \in S, f[a] = f[b], a # b
                      PROVE  FALSE
            OBVIOUS
        <3>1. a < b \/ b < a
            OBVIOUS
        <3>2. Cardinality(Upto(a)) \in 1..n /\ Cardinality(Upto(b)) \in 1..n
            BY <1>2
        <3>3. Cardinality(Upto(a)) = Cardinality(Upto(b))
            OBVIOUS
        <3>. HIDE DEF Upto
        <3>. QED
            BY <1>1, <1>3, <3>1, <3>2, <3>3
    <2>. HIDE DEF f
    <2>. QED
        BY <2>1, <2>2 DEF Injection, IsInjective
<1>5. IsFiniteSet(1..n) /\ Cardinality(1..n) = n
    BY <1>1, FS_Interval
<1>6. f \in Surjection(S, 1..n)
    <2>. HIDE DEF f
    <2>. QED
        BY <1>4, <1>5, FS_Injection
<1>7. \E b \in S : f[b] = i
    <2>. HIDE DEF f
    <2>. QED
        BY <1>6 DEF Surjection
<1>8. \A b \in S : f[b] = Cardinality({c \in S : c <= b})
    OBVIOUS
<1>. HIDE DEF f
<1>. QED
    BY <1>7, <1>8

LEMMA LoadRingType ==
    ASSUME NEW S \in SUBSET (1..MaxBlock)
    PROVE  LoadRing(S) \in Seq(S) /\ LoadRing(S) \in Seq(1..MaxBlock)
<1>. DEFINE n   == Cardinality(S)
            asc == [i \in 1..n |-> CHOOSE b \in S : Cardinality({c \in S : c <= b}) = i]
<1>1. IsFiniteSet(S) /\ n \in Nat
    <2>1. IsFiniteSet(1..MaxBlock)
        BY Bounds, FS_Interval
    <2>2. IsFiniteSet(S)
        BY <2>1, FS_Subset
    <2>. QED
        BY <2>2, FS_CardinalityType
<1>2. S \in SUBSET Nat
    BY Bounds
<1>3. \A i \in 1..n : asc[i] \in S
    <2>. TAKE i \in 1..n
    <2>1. \E b \in S : Cardinality({c \in S : c <= b}) = i
        BY <1>1, <1>2, Ranks
    <2>. QED
        BY <2>1
<1>4. LoadRing(S) = IF n > Capacity THEN SubSeq(asc, n + 1 - Capacity, n) ELSE asc
    BY Zenon DEF LoadRing
<1>5. asc = [i \in 1..n |-> asc[i]]
    <2>1. \A i \in 1..n : asc[i] = CHOOSE b \in S : Cardinality({c \in S : c <= b}) = i
        BY Zenon
    <2>2. [i \in 1..n |-> asc[i]] = asc
        BY <2>1, Zenon
    <2>. QED
        BY <2>2
<1>. HIDE DEF asc, n
<1>6. asc \in Seq(S)
    <2>1. \A i \in 1..n : asc[i] \in S
        BY <1>3, Zenon
    <2>2. [i \in 1..n |-> asc[i]] \in [1..n -> S]
        BY <2>1, Zenon
    <2>3. asc \in [1..n -> S]
        BY <1>5, <2>2
    <2>. QED
        BY <1>1, <2>3, SeqDef, Zenon
<1>7. ASSUME n > Capacity
      PROVE  LoadRing(S) \in Seq(S)
    <2>. DEFINE from == n + 1 - Capacity
    <2>1. from \in Int /\ n \in Int /\ from..n \subseteq 1..n
        BY <1>1, <1>7, Bounds
    <2>. HIDE DEF from
    <2>2. SubSeq(asc, from, n) \in Seq(S)
        <3>1. \A i \in from..n : asc[i] \in S
            BY <1>3, <2>1, Zenon
        <3>. QED
            BY <2>1, <3>1, SubSeqProperties
    <2>. QED
        BY <1>4, <1>7, <2>2 DEF from
<1>8. ASSUME ~(n > Capacity)
      PROVE  LoadRing(S) \in Seq(S)
    BY <1>4, <1>6, <1>8
<1>9. \A q \in Seq(S) : q \in Seq(1..MaxBlock)
    <2>. TAKE q \in Seq(S)
    <2>1. Len(q) \in Nat /\ q \in [1..Len(q) -> S]
        BY LenProperties
    <2>2. q \in [1..Len(q) -> 1..MaxBlock]
        BY <2>1
    <2>3. \E k \in Nat : q \in [1..k -> 1..MaxBlock]
        BY <2>1, <2>2, Zenon
    <2>4. q \in UNION {[1..k -> 1..MaxBlock] : k \in Nat}
        BY <2>3, Zenon
    <2>. QED
        BY <2>4, SeqDef, Zenon
<1>. QED
    BY <1>7, <1>8, <1>9

-----------------------------------------------------------------------------
(* Types.                                                                  *)

LEMMA TypesSuffice == Types => TypeOK
BY DEF Types, NodeT, ProcT, SyncT, DbT, NotifsOK, SyncsOK, TypeOK,
       NotifMsgs, SyncMsgs, NodeMsgs, Syncers

\* Messages put into a queue, and taken from it.
LEMMA NotifsAppend ==
    ASSUME NEW q, NotifsOK(q), NEW m \in NotifMsgs, m.k = "vcc" => m.v \in Changes
    PROVE  NotifsOK(Append(q, m))
<1>1. /\ Append(q, m) \in Seq(NotifMsgs) /\ Len(q) \in Nat
      /\ Len(Append(q, m)) = Len(q) + 1
      /\ \A i \in 1..(Len(q) + 1) : Append(q, m)[i] = IF i = Len(q) + 1 THEN m ELSE q[i]
    BY DEF NotifsOK
<1>. QED
    BY <1>1 DEF NotifsOK

LEMMA SyncsAppend ==
    ASSUME NEW q, SyncsOK(q), NEW m \in SyncMsgs, m.k = "vc" => m.v \in Changes
    PROVE  SyncsOK(Append(q, m))
<1>1. /\ Append(q, m) \in Seq(SyncMsgs) /\ Len(q) \in Nat
      /\ Len(Append(q, m)) = Len(q) + 1
      /\ \A i \in 1..(Len(q) + 1) : Append(q, m)[i] = IF i = Len(q) + 1 THEN m ELSE q[i]
    BY DEF SyncsOK
<1>. QED
    BY <1>1 DEF SyncsOK

LEMMA NotifsTake ==
    ASSUME NEW q, NotifsOK(q), q # <<>>
    PROVE  /\ NotifsOK(Tail(q)) /\ Head(q) \in NotifMsgs
           /\ Head(q).k = "vcc" => Head(q).v \in Changes
<1>1. /\ Tail(q) \in Seq(NotifMsgs) /\ Len(q) \in Nat \ {0}
      /\ Len(Tail(q)) = Len(q) - 1 /\ Head(q) = q[1] /\ q[1] \in NotifMsgs
      /\ \A i \in 1..(Len(q) - 1) : Tail(q)[i] = q[i + 1]
    BY DEF NotifsOK
<1>. QED
    BY <1>1 DEF NotifsOK

LEMMA SyncsTake ==
    ASSUME NEW q, SyncsOK(q), q # <<>>
    PROVE  /\ SyncsOK(Tail(q)) /\ Head(q) \in SyncMsgs
           /\ Head(q).k = "vc" => Head(q).v \in Changes
<1>1. /\ Tail(q) \in Seq(SyncMsgs) /\ Len(q) \in Nat \ {0}
      /\ Len(Tail(q)) = Len(q) - 1 /\ Head(q) = q[1] /\ q[1] \in SyncMsgs
      /\ \A i \in 1..(Len(q) - 1) : Tail(q)[i] = q[i + 1]
    BY DEF SyncsOK
<1>. QED
    BY <1>1 DEF SyncsOK

\* The messages without a change that DataSource sends.
LEMMA MsgType ==
    ASSUME NEW k \in {"connected", "disconnected", "vcc", "shutdown"},
           NEW v \in Changes \cup {None}, NEW stray \in BOOLEAN
    PROVE  /\ Msg(k, v, stray) \in NotifMsgs
           /\ Msg(k, v, stray).k = k /\ Msg(k, v, stray).v = v
<1>1. Msg(k, v, stray) \in NotifMsgs
    BY Bounds, Zenon DEF Msg, NotifMsgs
<1>2. Msg(k, v, stray).k = k /\ Msg(k, v, stray).v = v
    BY DEF Msg
<1>. QED
    BY <1>1, <1>2

LEMMA ConnectedType ==
    ASSUME NEW m \in NotifMsgs, NEW n \in Blocks, NEW p \in Blocks
    PROVE  /\ [m EXCEPT !.n = n, !.pp = p] \in NotifMsgs
           /\ [m EXCEPT !.n = n, !.pp = p].k = m.k
BY DEF NotifMsgs

LEMMA FaultType ==
    ASSUME Types, NEW k \in FaultKinds, Fault(k)
    PROVE  used' \in [FaultKinds -> Nat]
BY DEF Types, Fault

LEMMA AckType ==
    ASSUME Types, NEW a \in {"continue", "stop"}, Ack(a)
    PROVE  /\ syncers' \in [SyncerIds -> Syncers]
           /\ vp' \in {"running", "stopped", "failed", "panicked"}
BY DEF Types, Ack, ProcT, SyncT, Syncers

LEMMA SpawnType ==
    ASSUME Types, NEW s, NEW from \in Blocks, SpawnSyncer(s, from)
    PROVE  syncers' \in [SyncerIds -> Syncers]
BY DEF Types, SpawnSyncer, Syncers

LEMMA ApplyType ==
    ASSUME Types, NEW v \in Changes, Apply(v)
    PROVE  DbT' /\ v.last \in Blocks
BY DEF Types, Apply, DbT, Changes

LEMMA SyncStepType ==
    ASSUME Types, NEW v \in Changes, NEW r, SyncStep(v, r)
    PROVE  ProcT' /\ SyncT' /\ DbT' /\ syncers' \in [SyncerIds -> Syncers]
<1>. DEFINE reached == v.last = target \/ v.last > target
            gone    == syncers[sid].st = "done"
<1>1. CASE ~(reached /\ gone) /\ Unwraps(v, r)
    BY <1>1 DEF SyncStep, Types, ProcT, SyncT, DbT, syncVars, dbVars
<1>2. CASE ~(~(reached /\ gone) /\ Unwraps(v, r))
    <2>1. /\ Ack(IF reached THEN "stop" ELSE "continue")
          /\ IF reached /\ gone THEN UNCHANGED <<dbVars, syncVars>>
             ELSE /\ Apply(v)
                  /\ last' = v.last /\ sq' = None
                  /\ mode' = IF reached THEN "synced" ELSE "syncing"
                  /\ UNCHANGED <<sid, target>>
          /\ UNCHANGED <<rtq, draining, vshut>>
        BY <1>2, Zenon DEF SyncStep
    <2>2. /\ syncers' \in [SyncerIds -> Syncers]
          /\ vp' \in {"running", "stopped", "failed", "panicked"}
        BY <2>1, AckType
    <2>3. ProcT'
        BY <2>1, <2>2 DEF Types, ProcT
    <2>4. CASE reached /\ gone
        BY <2>1, <2>2, <2>3, <2>4 DEF Types, SyncT, DbT, syncVars, dbVars
    <2>5. CASE ~(reached /\ gone)
        <3>. HIDE DEF reached, gone
        <3>1. DbT' /\ v.last \in Blocks
            BY <2>1, <2>5, ApplyType
        <3>2. SyncT'
            BY <2>1, <2>5, <3>1 DEF Types, SyncT
        <3>. QED
            BY <2>2, <2>3, <3>1, <3>2
    <2>. QED
        BY <2>4, <2>5
<1>. QED
    BY <1>1, <1>2

\* A record of a syncer with another state, or another acknowledgement.
LEMMA SyncerType ==
    ASSUME NEW r \in Syncers,
           NEW st \in {"none", "asked", "parked", "waiting", "done"}, NEW b \in Blocks,
           NEW ack \in {"none", "continue", "stop"}
    PROVE  /\ [r EXCEPT !.st = st] \in Syncers /\ [r EXCEPT !.st = st, !.ack = ack] \in Syncers
           /\ [r EXCEPT !.st = st, !.from = b] \in Syncers
BY DEF Syncers

\* The end of a syncer.
LEMMA EndsType ==
    ASSUME Types, NEW s \in SyncerIds, SyncerEnds(s)
    PROVE  syncers' \in [SyncerIds -> Syncers] /\ SyncsOK(syncQ')
<1>1. syncers' = [syncers EXCEPT ![s] = [@ EXCEPT !.st = "done", !.ack = "none"]]
    BY DEF SyncerEnds
<1>2. [syncers[s] EXCEPT !.st = "done", !.ack = "none"] \in Syncers
    BY SyncerType, Bounds DEF Types
<1>3. [id |-> s, k |-> "stopped", v |-> None] \in SyncMsgs
    BY DEF SyncMsgs
<1>4. SyncsOK(syncQ')
    BY <1>3, SyncsAppend DEF SyncerEnds, Types
<1>. QED
    BY <1>1, <1>2, <1>4 DEF Types

\* What the connection and its notifications leave.
LEMMA HangupType ==
    ASSUME Types, Hangup
    PROVE  NodeT' /\ NotifsOK(notif')
<1>1. NotifsOK(notif')
    <2>1. notif' = Append(notif, Msg("disconnected", None, FALSE))
        BY DEF Hangup
    <2>. QED
        BY <2>1, MsgType, NotifsAppend DEF Types
<1>2. nodeQ' \in Seq(NodeMsgs)
    <2>1. nodeQ \in Seq(NodeMsgs)
        BY DEF Types, NodeT
    <2>2. \A m \in NodeMsgs : [m EXCEPT !.stray = TRUE] \in NodeMsgs
        BY DEF NodeMsgs
    <2>3. \A i \in 1..Len(nodeQ) : [nodeQ[i] EXCEPT !.stray = TRUE] \in NodeMsgs
        BY <2>1, <2>2
    <2>4. nodeQ' = [i \in 1..Len(nodeQ) |-> [nodeQ[i] EXCEPT !.stray = TRUE]] /\ Len(nodeQ) \in Nat
        BY <2>1 DEF Hangup
    <2>5. nodeQ' \in [1..Len(nodeQ) -> NodeMsgs]
        BY <2>3, <2>4, Zenon
    <2>. QED
        BY <2>4, <2>5, SeqDef, Zenon
<1>. QED
    BY <1>1, <1>2 DEF Hangup, Types, NodeT

\* Types hold initially.
LEMMA TypesInit == Init => Types
<1>. SUFFICES ASSUME Init
              PROVE  Types
    OBVIOUS
<1>1. IdleSyncer \in Syncers
    BY Bounds DEF IdleSyncer, Syncers
<1>2. syncers \in [SyncerIds -> Syncers]
    BY <1>1, Zenon DEF Init
<1>3. used \in [FaultKinds -> Nat]
    BY Zenon, Bounds DEF Init
<1>4. NotifsOK(notif) /\ SyncsOK(syncQ)
    BY DEF Init, NotifsOK, SyncsOK
<1>5. <<>> \in Seq(NodeMsgs) /\ <<>> \in Seq(Changes) /\ <<>> \in Seq(1..MaxBlock)
    OBVIOUS
<1>6. NodeT /\ DbT
    BY <1>5, Bounds, Zenon DEF Init, NodeT, DbT
<1>7. ProcT
    BY <1>5, Zenon DEF Init, ProcT
<1>8. SyncT
    BY Bounds DEF Init, SyncT
<1>9. ring \in Seq(1..MaxBlock) /\ indexed \subseteq 1..MaxBlock /\ strayed \in BOOLEAN
    BY <1>5, Zenon DEF Init
<1>. QED
    BY <1>2, <1>3, <1>4, <1>6, <1>7, <1>8, <1>9 DEF Types

\* A step of the node or of DataSource.
LEMMA TypesNode ==
    ASSUME Types, NodeNext \/ DataSourceNext
    PROVE  Types'
<1>. USE DEF nodeVars, syncVars, vpVars, dbVars
<1>1. CASE NewSink
    <2>1. sink + 1 \in Blocks
        BY <1>1, Bounds DEF NewSink, Types, NodeT, Blocks
    <2>2. Change(sink, sink + 1) \in Changes
        BY <2>1, ChangeType DEF Types, NodeT
    <2>3. [v |-> Change(sink, sink + 1), stray |-> FALSE] \in NodeMsgs
        BY <2>2, Zenon DEF NodeMsgs
    <2>4. nodeQ' \in Seq(NodeMsgs)
        BY <1>1, <2>3 DEF NewSink, Types, NodeT
    <2>5. NodeT'
        BY <1>1, <2>1, <2>4 DEF NewSink, Types, NodeT
    <2>. QED
        BY <1>1, <2>5 DEF NewSink, Types, ProcT, SyncT, DbT
<1>2. CASE Prune
    <2>1. used' \in [FaultKinds -> Nat]
        BY <1>2, FaultType DEF Prune, FaultKinds
    <2>2. pp' \in Blocks
        <3>1. Chain[sink] \in SUBSET (1..MaxBlock)
            BY ChainIsTree DEF Types, NodeT
        <3>. QED
            BY <1>2, <3>1, Bounds DEF Prune
    <2>3. NodeT'
        BY <1>2, <2>2 DEF Prune, Types, NodeT
    <2>. QED
        BY <1>2, <2>1, <2>3 DEF Prune, Types, ProcT, SyncT, DbT
<1>3. CASE LinkDrops
    <2>1. used' \in [FaultKinds -> Nat]
        BY <1>3, FaultType DEF LinkDrops, FaultKinds
    <2>. QED
        BY <1>3, <2>1 DEF LinkDrops, Types, NodeT, ProcT, SyncT, DbT
<1>4. CASE Register
    BY <1>4 DEF Register, Types, NodeT, ProcT, SyncT, DbT
<1>5. CASE ConnectOk
    <2>1. NotifsOK(notif')
        <3>. DEFINE m == Msg("connected", None, FALSE)
        <3>1. m \in NotifMsgs /\ m.k = "connected"
            BY MsgType
        <3>. HIDE DEF m
        <3>2. [m EXCEPT !.n = sink, !.pp = pp] \in NotifMsgs
              /\ [m EXCEPT !.n = sink, !.pp = pp].k = "connected"
            BY <3>1, ConnectedType DEF Types, NodeT
        <3>3. notif' = Append(notif, [m EXCEPT !.n = sink, !.pp = pp])
            BY <1>5 DEF ConnectOk, m
        <3>. QED
            BY <3>2, <3>3, NotifsAppend DEF Types
    <2>2. syncers' \in [SyncerIds -> Syncers]
        <3>1. \A s \in SyncerIds : [syncers[s] EXCEPT !.st = "asked"] \in Syncers
            BY SyncerType, Bounds DEF Types
        <3>. QED
            BY <1>5, <3>1 DEF ConnectOk, Types
    <2>. QED
        BY <1>5, <2>1, <2>2 DEF ConnectOk, Types, NodeT, ProcT, SyncT, DbT
<1>6. CASE ConnectFails
    <2>1. used' \in [FaultKinds -> Nat]
        BY <1>6, FaultType DEF ConnectFails, FaultKinds
    <2>2. NodeT' /\ NotifsOK(notif')
        BY <1>6, HangupType DEF ConnectFails
    <2>. QED
        BY <1>6, <2>1, <2>2 DEF ConnectFails, Hangup, Types, ProcT, SyncT, DbT
<1>7. CASE HandleDisconnect
    <2>1. NodeT' /\ NotifsOK(notif')
        BY <1>7, HangupType DEF HandleDisconnect
    <2>. QED
        BY <1>7, <2>1 DEF HandleDisconnect, Hangup, Types, ProcT, SyncT, DbT
<1>8. CASE HandleNotification
    <2>1. Head(nodeQ) \in NodeMsgs /\ Tail(nodeQ) \in Seq(NodeMsgs)
        BY <1>8 DEF HandleNotification, Types, NodeT
    <2>2. Head(nodeQ).v \in Changes /\ Head(nodeQ).stray \in BOOLEAN
        BY <2>1 DEF NodeMsgs
    <2>3. NotifsOK(notif')
        <3>1. notif' = Append(notif, Msg("vcc", Head(nodeQ).v, Head(nodeQ).stray))
            BY <1>8 DEF HandleNotification
        <3>. QED
            BY <2>2, <3>1, MsgType, NotifsAppend DEF Types
    <2>. QED
        BY <1>8, <2>1, <2>3 DEF HandleNotification, Types, NodeT, ProcT, SyncT, DbT
<1>9. CASE HandleShutdown
    <2>1. used' \in [FaultKinds -> Nat]
        BY <1>9, FaultType DEF HandleShutdown, FaultKinds
    <2>2. NotifsOK(notif')
        <3>1. notif' = Append(notif, Msg("shutdown", None, FALSE))
            BY <1>9 DEF HandleShutdown
        <3>. QED
            BY <3>1, MsgType, NotifsAppend DEF Types
    <2>. QED
        BY <1>9, <2>1, <2>2 DEF HandleShutdown, Types, NodeT, ProcT, SyncT, DbT
<1>10. CASE HandleBlockClosed
    <2>1. used' \in [FaultKinds -> Nat]
        BY <1>10, FaultType DEF HandleBlockClosed, FaultKinds
    <2>2. NotifsOK(notif')
        <3>1. notif' = Append(notif, Msg("shutdown", None, FALSE))
            BY <1>10 DEF HandleBlockClosed
        <3>. QED
            BY <3>1, MsgType, NotifsAppend DEF Types
    <2>3. NodeT'
        BY <1>10 DEF HandleBlockClosed, Types, NodeT
    <2>4. ProcT' /\ SyncT' /\ DbT'
        BY <1>10 DEF HandleBlockClosed, Types, ProcT, SyncT, DbT
    <2>5. UNCHANGED <<syncQ, syncers, ring, indexed, strayed>>
        BY <1>10 DEF HandleBlockClosed
    <2>. QED
        BY <2>1, <2>2, <2>3, <2>4, <2>5 DEF Types
<1>. QED
    BY <1>1, <1>2, <1>3, <1>4, <1>5, <1>6, <1>7, <1>8, <1>9, <1>10
       DEF NodeNext, DataSourceNext

\* A step of a syncer.
LEMMA TypesSyncer ==
    ASSUME Types, SyncerNext
    PROVE  Types'
<1>. USE DEF nodeVars, syncVars, vpVars, dbVars
<1>1. PICK s \in SyncerIds :
        \/ ParkRequest(s) \/ RefuseRequest(s) \/ AnswerRequest(s)
        \/ PrunedRequest(s) \/ FailRequest(s) \/ TakeStop(s) \/ TakeContinue(s)
    BY DEF SyncerNext
<1>2. syncers[s] \in Syncers
    BY DEF Types
<1>3. CASE ParkRequest(s)
    <2>1. syncers' = [syncers EXCEPT ![s] = [@ EXCEPT !.st = "parked"]]
        BY <1>3 DEF ParkRequest
    <2>2. syncers' \in [SyncerIds -> Syncers]
        BY <1>2, <2>1, SyncerType, Bounds DEF Types
    <2>. QED
        BY <1>3, <2>2 DEF ParkRequest, Types, NodeT, ProcT, SyncT, DbT
<1>4. CASE RefuseRequest(s)
    <2>1. syncers' \in [SyncerIds -> Syncers] /\ SyncsOK(syncQ')
        BY <1>4, EndsType DEF RefuseRequest
    <2>. QED
        BY <1>4, <2>1 DEF RefuseRequest, Types, NodeT, ProcT, SyncT, DbT
<1>5. CASE AnswerRequest(s)
    <2>1. PICK v \in Answers(syncers[s].from) :
            /\ syncQ' = Append(syncQ, [id |-> s, k |-> "vc", v |-> v])
            /\ syncers' = [syncers EXCEPT ![s] = [@ EXCEPT !.st = "waiting", !.from = v.last]]
        BY <1>5 DEF AnswerRequest
    <2>2. v \in Changes /\ v.last \in Blocks
        <3>1. syncers[s].from \in Blocks
            BY <1>2 DEF Syncers
        <3>. QED
            BY <3>1, AnswersType DEF Types, NodeT
    <2>3. syncers' \in [SyncerIds -> Syncers]
        BY <1>2, <2>1, <2>2, SyncerType DEF Types
    <2>4. [id |-> s, k |-> "vc", v |-> v] \in SyncMsgs
        BY <2>2 DEF SyncMsgs
    <2>5. SyncsOK(syncQ')
        BY <2>1, <2>2, <2>4, SyncsAppend DEF Types
    <2>. QED
        BY <1>5, <2>3, <2>5 DEF AnswerRequest, Types, NodeT, ProcT, SyncT, DbT
<1>6. CASE PrunedRequest(s)
    <2>1. syncers' \in [SyncerIds -> Syncers] /\ SyncsOK(syncQ')
        BY <1>6, EndsType DEF PrunedRequest
    <2>. QED
        BY <1>6, <2>1 DEF PrunedRequest, Types, NodeT, ProcT, SyncT, DbT
<1>7. CASE FailRequest(s)
    <2>1. syncers' \in [SyncerIds -> Syncers] /\ SyncsOK(syncQ')
        BY <1>7, EndsType DEF FailRequest
    <2>2. used' \in [FaultKinds -> Nat]
        BY <1>7, FaultType DEF FailRequest, FaultKinds
    <2>. QED
        BY <1>7, <2>1, <2>2 DEF FailRequest, Types, NodeT, ProcT, SyncT, DbT
<1>8. CASE TakeStop(s)
    <2>1. syncers' \in [SyncerIds -> Syncers] /\ SyncsOK(syncQ')
        BY <1>8, EndsType DEF TakeStop
    <2>. QED
        BY <1>8, <2>1 DEF TakeStop, Types, NodeT, ProcT, SyncT, DbT
<1>9. CASE TakeContinue(s)
    <2>1. syncers' = [syncers EXCEPT ![s] = [@ EXCEPT !.st = "asked", !.ack = "none"]]
        BY <1>9 DEF TakeContinue
    <2>2. syncers' \in [SyncerIds -> Syncers]
        BY <1>2, <2>1, SyncerType, Bounds DEF Types
    <2>. QED
        BY <1>9, <2>2 DEF TakeContinue, Types, NodeT, ProcT, SyncT, DbT
<1>. QED
    BY <1>1, <1>3, <1>4, <1>5, <1>6, <1>7, <1>8, <1>9

\* A step of the processor: a notification.
LEMMA TypesNotification ==
    ASSUME Types, TakeNotification
    PROVE  Types'
<1>. USE DEF nodeVars, syncVars, vpVars, dbVars
<1>. DEFINE m == Head(notif)
<1>1. notif # <<>> /\ notif' = Tail(notif)
    BY DEF TakeNotification, Connected, Disconnected, Shutdown, RealtimeVcc, Receives
<1>2. NotifsOK(notif') /\ m \in NotifMsgs /\ (m.k = "vcc" => m.v \in Changes)
    BY <1>1, NotifsTake DEF Types
<1>3. m.n \in Blocks /\ m.pp \in Blocks /\ m.stray \in BOOLEAN
    BY <1>2 DEF NotifMsgs
<1>. HIDE DEF m
<1>4. CASE Connected
    <2>. DEFINE from == IF mode = "initial" THEN SyncFrom(m) ELSE last
                id   == IF mode = "initial" THEN 0 ELSE sid + 1
    <2>1. from \in Blocks
        BY <1>3, Zenon DEF SyncFrom, Types, SyncT, DbT, NoBlock
    <2>2. IF mode = "synced" /\ (last = m.n \/ last > m.n)
            THEN UNCHANGED <<syncVars, syncers>>
            ELSE /\ target' = m.n
                 /\ IF mode = "syncing"
                      THEN UNCHANGED <<mode, last, sid, sq, syncers>>
                      ELSE /\ SpawnSyncer(id, from)
                           /\ mode' = "syncing" /\ sid' = id /\ last' = from /\ sq' = None
        BY <1>4, Zenon DEF Connected, m
    <2>. HIDE DEF id, from
    <2>3. SyncT' /\ syncers' \in [SyncerIds -> Syncers]
        <3>1. CASE mode = "synced" /\ (last = m.n \/ last > m.n)
            BY <2>2, <3>1 DEF Types, SyncT
        <3>2. CASE ~(mode = "synced" /\ (last = m.n \/ last > m.n)) /\ mode = "syncing"
            BY <1>3, <2>2, <3>2 DEF Types, SyncT
        <3>3. CASE ~(mode = "synced" /\ (last = m.n \/ last > m.n)) /\ mode # "syncing"
            <4>1. /\ target' = m.n /\ SpawnSyncer(id, from)
                  /\ mode' = "syncing" /\ sid' = id /\ last' = from /\ sq' = None
                BY <2>2, <3>3
            <4>2. id \in SyncerIds /\ syncers' \in [SyncerIds -> Syncers]
                BY <2>1, <4>1, SpawnType DEF SpawnSyncer
            <4>. QED
                BY <1>3, <2>1, <4>1, <4>2 DEF SyncT
        <3>. QED
            BY <3>1, <3>2, <3>3
    <2>. QED
        BY <1>2, <1>4, <2>3 DEF Connected, Types, NodeT, ProcT, DbT
<1>5. CASE Disconnected
    <2>1. strayed' \in BOOLEAN
        BY <1>5, Zenon DEF Disconnected
    <2>. QED
        BY <1>2, <1>5, <2>1 DEF Disconnected, Types, NodeT, ProcT, SyncT, DbT
<1>6. CASE Shutdown
    <2>1. /\ syncers' \in [SyncerIds -> Syncers]
          /\ vp' \in {"running", "stopped", "failed", "panicked"}
        <3>1. CASE mode = "syncing"
            BY <1>6, <3>1, AckType DEF Shutdown, StopsSyncer
        <3>2. CASE mode # "syncing"
            BY <1>6, <3>2 DEF Shutdown, Types
        <3>. QED
            BY <3>1, <3>2
    <2>. QED
        BY <1>2, <1>6, <2>1 DEF Shutdown, Types, NodeT, ProcT, SyncT, DbT
<1>7. CASE RealtimeVcc
    <2>1. m.k = "vcc" /\ m.v \in Changes
        BY <1>2, <1>7 DEF RealtimeVcc, Receives, m
    <2>2. \/ Panic
          \/ /\ rtq' = Append(rtq, m.v)
             /\ UNCHANGED <<ring, draining, vshut, vp, syncVars, syncers, dbVars>>
          \/ /\ Apply(m.v) /\ last' = m.v.last
             /\ UNCHANGED <<ring, rtq, draining, vshut, vp, mode, sid, target, sq, syncers>>
        BY <1>7, Zenon DEF RealtimeVcc, m
    <2>3. strayed' \in BOOLEAN
        BY <1>3, <1>7, Zenon DEF RealtimeVcc, m, Types
    <2>4. UNCHANGED <<nodeVars, syncQ, indexed, used>>
        BY <1>7 DEF RealtimeVcc
    <2>5. CASE Panic
        BY <1>2, <2>3, <2>4, <2>5 DEF Panic, Types, NodeT, ProcT, SyncT, DbT
    <2>6. CASE /\ rtq' = Append(rtq, m.v)
               /\ UNCHANGED <<ring, draining, vshut, vp, syncVars, syncers, dbVars>>
        <3>1. rtq' \in Seq(Changes)
            BY <2>1, <2>6 DEF Types, ProcT
        <3>. QED
            BY <1>2, <2>3, <2>4, <2>6, <3>1 DEF Types, NodeT, ProcT, SyncT, DbT
    <2>7. CASE /\ Apply(m.v) /\ last' = m.v.last
               /\ UNCHANGED <<ring, rtq, draining, vshut, vp, mode, sid, target, sq, syncers>>
        <3>1. DbT' /\ last' \in Blocks
            BY <2>1, <2>7, ApplyType
        <3>. QED
            BY <1>2, <2>3, <2>4, <2>7, <3>1 DEF Types, NodeT, ProcT, SyncT
    <2>. QED
        BY <2>2, <2>5, <2>6, <2>7
<1>. QED
    BY <1>4, <1>5, <1>6, <1>7 DEF TakeNotification

\* A step of the processor: a message of a syncer.
LEMMA TypesSyncerMessage ==
    ASSUME Types, TakeSyncer
    PROVE  Types'
<1>. USE DEF nodeVars, syncVars, vpVars, dbVars
<1>. DEFINE m == Head(syncQ)
<1>1. syncQ # <<>> /\ syncQ' = Tail(syncQ)
    BY DEF TakeSyncer, SyncerVc, SyncerStopped
<1>2. SyncsOK(syncQ') /\ m \in SyncMsgs /\ (m.k = "vc" => m.v \in Changes)
    BY <1>1, SyncsTake DEF Types
<1>. HIDE DEF m
<1>3. CASE SyncerVc
    <2>1. m.v \in Changes
        BY <1>2, <1>3 DEF SyncerVc, m
    <2>2. \/ Panic
          \/ /\ AskAgain
             /\ UNCHANGED <<ring, rtq, draining, vshut, syncVars, dbVars>>
          \/ /\ HoldBack(m.v)
             /\ UNCHANGED <<ring, rtq, draining, vshut, mode, last, sid, target, dbVars>>
          \/ SyncStep(m.v, ring) /\ UNCHANGED ring
        BY <1>3, Zenon DEF SyncerVc, m
    <2>3. UNCHANGED <<nodeVars, notif, indexed, used, strayed>>
        BY <1>3 DEF SyncerVc
    <2>4. CASE Panic
        BY <1>2, <2>3, <2>4 DEF Panic, Types, NodeT, ProcT, SyncT, DbT
    <2>5. CASE AskAgain /\ UNCHANGED <<ring, rtq, draining, vshut, syncVars, dbVars>>
        <3>1. /\ syncers' \in [SyncerIds -> Syncers]
              /\ vp' \in {"running", "stopped", "failed", "panicked"}
            BY <2>5, AckType DEF AskAgain
        <3>. QED
            BY <1>2, <2>3, <2>5, <3>1 DEF Types, NodeT, ProcT, SyncT, DbT
    <2>6. CASE /\ HoldBack(m.v)
               /\ UNCHANGED <<ring, rtq, draining, vshut, mode, last, sid, target, dbVars>>
        BY <1>2, <2>1, <2>3, <2>6 DEF HoldBack, Types, NodeT, ProcT, SyncT, DbT
    <2>7. CASE SyncStep(m.v, ring) /\ UNCHANGED ring
        <3>1. ProcT' /\ SyncT' /\ DbT' /\ syncers' \in [SyncerIds -> Syncers]
            BY <2>1, <2>7, SyncStepType
        <3>. QED
            BY <1>2, <2>3, <2>7, <3>1 DEF Types, NodeT
    <2>. QED
        BY <2>2, <2>4, <2>5, <2>6, <2>7
<1>4. CASE SyncerStopped
    <2>1. vp' \in {"running", "stopped", "failed", "panicked"}
        BY <1>4 DEF SyncerStopped
    <2>. QED
        BY <1>2, <1>4, <2>1 DEF SyncerStopped, Types, NodeT, ProcT, SyncT, DbT
<1>. QED
    BY <1>3, <1>4 DEF TakeSyncer

\* A step of the processor: a processed block, and the changes it lets through.
LEMMA TypesBlock ==
    ASSUME Types, NEW b \in 1..MaxBlock, ProcessedBlock(b)
    PROVE  Types'
<1>. USE DEF nodeVars, syncVars, vpVars, dbVars
<1>. DEFINE r == Inserted(IF mode = "initial" THEN ring ELSE Evicted(ring), b)
<1>1. r \in Seq(1..MaxBlock)
    BY RingType DEF Types
<1>2. /\ ring' = r
      /\ IF mode = "syncing" /\ sq # None /\ Known(sq, r)
           THEN SyncStep(sq, r)
           ELSE /\ draining' = (mode = "synced" /\ CanDrain(rtq, r))
                /\ UNCHANGED <<rtq, vshut, vp, syncVars, syncers, dbVars>>
      /\ indexed' = indexed \cup {b}
      /\ UNCHANGED <<nodeVars, notif, syncQ, used, strayed>>
    BY Zenon DEF ProcessedBlock
<1>. HIDE DEF r
<1>3. ProcT' /\ SyncT' /\ DbT' /\ syncers' \in [SyncerIds -> Syncers]
    <2>1. CASE mode = "syncing" /\ sq # None /\ Known(sq, r)
        <3>1. sq \in Changes /\ SyncStep(sq, r)
            BY <1>2, <2>1 DEF Types, SyncT
        <3>. QED
            BY <3>1, SyncStepType
    <2>2. CASE ~(mode = "syncing" /\ sq # None /\ Known(sq, r))
        <3>1. draining' \in BOOLEAN /\ UNCHANGED <<rtq, vshut, vp, syncVars, syncers, dbVars>>
            BY <1>2, <2>2, Zenon
        <3>. QED
            BY <3>1 DEF Types, ProcT, SyncT, DbT
    <2>. QED
        BY <2>1, <2>2
<1>4. indexed' \subseteq 1..MaxBlock
    BY <1>2 DEF Types
<1>. QED
    BY <1>1, <1>2, <1>3, <1>4 DEF Types, NodeT

LEMMA TypesDrain ==
    ASSUME Types, Drain, rtq # <<>>
    PROVE  Types'
<1>. USE DEF nodeVars, syncVars, vpVars, dbVars
<1>1. Head(rtq) \in Changes /\ Tail(rtq) \in Seq(Changes)
    BY DEF Types, ProcT
<1>2. CASE Panic /\ UNCHANGED <<nodeVars, notif, syncQ, indexed, used, strayed>>
    BY <1>2 DEF Panic, Types, NodeT, ProcT, SyncT, DbT
<1>3. CASE /\ Apply(Head(rtq))
           /\ last' = Head(rtq).last
           /\ rtq' = Tail(rtq)
           /\ draining' = CanDrain(Tail(rtq), ring)
           /\ UNCHANGED <<ring, vshut, vp, mode, sid, target, sq, syncers>>
           /\ UNCHANGED <<nodeVars, notif, syncQ, indexed, used, strayed>>
    <2>1. DbT' /\ last' \in Blocks
        BY <1>1, <1>3, ApplyType
    <2>2. draining' \in BOOLEAN
        BY <1>3, Zenon DEF CanDrain
    <2>. QED
        BY <1>1, <1>3, <2>1, <2>2 DEF Types, NodeT, ProcT, SyncT
<1>. QED
    BY <1>2, <1>3, Zenon DEF Drain

LEMMA TypesRestart ==
    ASSUME Types, Restart
    PROVE  Types'
<1>. USE DEF nodeVars, syncVars, vpVars, dbVars
<1>1. used' \in [FaultKinds -> Nat]
    BY FaultType DEF Restart, FaultKinds
<1>2. indexed' \subseteq 1..MaxBlock /\ ring' = LoadRing(indexed')
    <2>1. PICK more \in SUBSET (1..sink) : indexed' = indexed \cup more /\ ring' = LoadRing(indexed')
        BY DEF Restart
    <2>2. 1..sink \subseteq 1..MaxBlock
        BY Bounds DEF Types, NodeT, Blocks
    <2>. QED
        BY <2>1, <2>2 DEF Types
<1>3. ring' \in Seq(1..MaxBlock)
    BY <1>2, LoadRingType
<1>4. syncers' \in [SyncerIds -> Syncers]
    <2>1. IdleSyncer \in Syncers
        BY Bounds DEF IdleSyncer, Syncers
    <2>. QED
        BY <2>1, Zenon DEF Restart
<1>5. NotifsOK(notif') /\ SyncsOK(syncQ')
    BY DEF Restart, NotifsOK, SyncsOK
<1>6. <<>> \in Seq(NodeMsgs) /\ <<>> \in Seq(Changes)
    OBVIOUS
<1>7. NodeT' /\ DbT'
    BY <1>6, Zenon DEF Restart, Types, NodeT, DbT
<1>8. ProcT'
    BY <1>6, Zenon DEF Restart, ProcT
<1>9. SyncT'
    BY Bounds DEF Restart, SyncT
<1>10. strayed' \in BOOLEAN
    BY Zenon DEF Restart
<1>. QED
    BY <1>1, <1>2, <1>3, <1>4, <1>5, <1>7, <1>8, <1>9, <1>10 DEF Types

-----------------------------------------------------------------------------
(* The hand-over between the processor and its syncer.                     *)

\* The messages of syncer s in the queue q.
Sent(q, s) == Cardinality({i \in DOMAIN q : q[i].id = s})

\* The changes that are worked off are there.
DrainOK == draining => rtq # <<>>

\* A syncer that the processor has not spawned yet has sent nothing.
Fresh == \A s \in SyncerIds : mode = "initial" \/ s > sid =>
           /\ syncers[s].st = "none"
           /\ \A i \in 1..Len(syncQ) : syncQ[i].id # s

\* The one it has spawned is there, and a Stop is only on its way to it when
\* the processor is synced or stopping.
Spawned == /\ mode # "initial" => syncers[sid].st # "none"
           /\ vp = "running" /\ mode = "syncing" /\ ~vshut => syncers[sid].ack # "stop"

Handover == DrainOK /\ Fresh /\ Spawned /\ SyncerInStep

LEMMA SentType ==
    ASSUME NEW q, SyncsOK(q), NEW s
    PROVE  /\ IsFiniteSet({i \in DOMAIN q : q[i].id = s}) /\ Sent(q, s) \in Nat
           /\ (\A i \in 1..Len(q) : q[i].id # s) => Sent(q, s) = 0
<1>. DEFINE S == {i \in DOMAIN q : q[i].id = s}
<1>1. DOMAIN q = 1..Len(q) /\ Len(q) \in Nat
    BY DEF SyncsOK
<1>2. IsFiniteSet(DOMAIN q)
    BY <1>1, FS_Interval
<1>3. IsFiniteSet(S)
    BY <1>2, FS_Subset
<1>4. (\A i \in 1..Len(q) : q[i].id # s) => S = {}
    BY <1>1
<1>. HIDE DEF S
<1>5. Sent(q, s) = Cardinality(S)
    BY DEF Sent, S
<1>. QED
    BY <1>3, <1>4, <1>5, FS_CardinalityType, FS_EmptySet DEF S

LEMMA SentAppend ==
    ASSUME NEW q, SyncsOK(q), NEW m \in SyncMsgs, NEW s
    PROVE  Sent(Append(q, m), s) = Sent(q, s) + (IF m.id = s THEN 1 ELSE 0)
<1>. DEFINE S == {i \in DOMAIN q : q[i].id = s}
            T == {i \in DOMAIN Append(q, m) : Append(q, m)[i].id = s}
            n == Len(q) + 1
<1>1. /\ DOMAIN q = 1..Len(q) /\ Len(q) \in Nat /\ DOMAIN Append(q, m) = 1..n
      /\ \A i \in 1..n : Append(q, m)[i] = IF i = n THEN m ELSE q[i]
    BY DEF SyncsOK
<1>2. IsFiniteSet(S) /\ Cardinality(S) \in Nat
    BY SentType DEF Sent
<1>3. Sent(q, s) = Cardinality(S) /\ Sent(Append(q, m), s) = Cardinality(T)
    BY DEF Sent
<1>4. n \notin S
    BY <1>1
<1>5. CASE m.id = s
    <2>1. T = S \cup {n}
        BY <1>1, <1>5
    <2>. HIDE DEF S, T, n
    <2>2. Cardinality(T) = Cardinality(S) + 1
        BY <1>2, <1>4, <2>1, FS_AddElement
    <2>. QED
        BY <1>3, <1>5, <2>2
<1>6. CASE m.id # s
    <2>1. T = S
        BY <1>1, <1>6
    <2>. HIDE DEF S, T, n
    <2>. QED
        BY <1>2, <1>3, <1>6, <2>1
<1>. QED
    BY <1>5, <1>6

LEMMA SentTail ==
    ASSUME NEW q, SyncsOK(q), q # <<>>, NEW s
    PROVE  Sent(Tail(q), s) = Sent(q, s) - (IF Head(q).id = s THEN 1 ELSE 0)
<1>. DEFINE S == {i \in DOMAIN q : q[i].id = s}
            T == {i \in DOMAIN Tail(q) : Tail(q)[i].id = s}
            f == [i \in S \ {1} |-> i - 1]
<1>1. /\ DOMAIN q = 1..Len(q) /\ Len(q) \in Nat \ {0} /\ Head(q) = q[1]
      /\ DOMAIN Tail(q) = 1..(Len(q) - 1)
      /\ \A i \in 1..(Len(q) - 1) : Tail(q)[i] = q[i + 1]
    BY DEF SyncsOK
<1>2. IsFiniteSet(S) /\ Cardinality(S) \in Nat
    BY SentType DEF Sent
<1>3. Sent(q, s) = Cardinality(S) /\ Sent(Tail(q), s) = Cardinality(T)
    BY DEF Sent
<1>4. 1 \in S <=> Head(q).id = s
    BY <1>1
<1>5. f \in Bijection(S \ {1}, T)
    <2>1. \A i \in S \ {1} : i - 1 \in T /\ f[i] = i - 1
        BY <1>1
    <2>2. \A i \in T : i + 1 \in S \ {1} /\ f[i + 1] = i
        BY <1>1
    <2>3. f \in [S \ {1} -> T]
        BY <2>1
    <2>4. \A i, j \in S \ {1} : f[i] = f[j] => i = j
        <3>1. S \subseteq Nat
            BY <1>1
        <3>. HIDE DEF S, T, f
        <3>. QED
            BY <2>1, <3>1
    <2>. HIDE DEF S, T, f
    <2>. QED
        BY <2>2, <2>3, <2>4 DEF Bijection, Injection, Surjection, IsInjective
<1>. HIDE DEF S, T, f
<1>6. Cardinality(S \ {1}) = Cardinality(S) - (IF Head(q).id = s THEN 1 ELSE 0)
      /\ IsFiniteSet(S \ {1})
    BY <1>2, <1>4, FS_RemoveElement
<1>7. Cardinality(T) = Cardinality(S \ {1})
    BY <1>5, <1>6, FS_Bijection DEF ExistsBijection
<1>. QED
    BY <1>3, <1>6, <1>7

\* What is under way, in terms of Sent.
LEMMA UnderWayIs ==
    UnderWay = (IF syncers[sid].st \in {"asked", "parked"} THEN 1 ELSE 0) + Sent(syncQ, sid)
               + (IF sq # None THEN 1 ELSE 0)
               + (IF syncers[sid].ack = "continue" THEN 1 ELSE 0)
BY DEF UnderWay, Sent

LEMMA HandoverInit == Init => Handover
<1>. SUFFICES ASSUME Init
              PROVE  Handover
    OBVIOUS
<1>1. \A s \in SyncerIds : syncers[s].st = "none"
    BY DEF Init, IdleSyncer
<1>. QED
    BY <1>1 DEF Init, Handover, DrainOK, Fresh, Spawned, SyncerInStep

\* A step that leaves the processor, the syncers and their channel alone.
LEMMA HandoverSame ==
    ASSUME Handover, DrainOK',
           UNCHANGED <<syncers, syncQ, mode, sid, sq, vshut, vp>>
    PROVE  Handover'
<1>1. UnderWay' = UnderWay
    BY DEF UnderWay
<1>. QED
    BY <1>1 DEF Handover, Fresh, Spawned, SyncerInStep

\* A syncer ends, at work or with a Stop.
LEMMA HandoverEnds ==
    ASSUME Types, Handover, NEW s \in SyncerIds, SyncerEnds(s),
           UNCHANGED <<rtq, draining, mode, sid, sq, vshut, vp>>,
           \/ syncers[s].st \in {"asked", "parked"}
           \/ syncers[s].st = "waiting" /\ syncers[s].ack = "stop"
    PROVE  Handover'
<1>. DEFINE m == [id |-> s, k |-> "stopped", v |-> None]
<1>1. /\ syncQ' = Append(syncQ, m) /\ SyncsOK(syncQ) /\ m \in SyncMsgs /\ m.id = s
      /\ syncers \in [SyncerIds -> Syncers] /\ sid \in SyncerIds
    BY DEF SyncerEnds, Types, SyncT, SyncMsgs
<1>. HIDE DEF m
<1>2. /\ syncers'[s].st = "done" /\ syncers'[s].ack = "none"
      /\ \A t \in SyncerIds : t # s => syncers'[t] = syncers[t]
    BY <1>1 DEF SyncerEnds, Syncers
<1>3. ~(mode = "initial" \/ s > sid)
    BY DEF Handover, Fresh
<1>4. /\ syncQ \in Seq(SyncMsgs) /\ Len(syncQ) \in Nat /\ Len(syncQ') = Len(syncQ) + 1
      /\ \A i \in 1..(Len(syncQ) + 1) : syncQ'[i] = IF i = Len(syncQ) + 1 THEN m ELSE syncQ[i]
    BY <1>1 DEF SyncsOK
<1>5. Fresh'
    <2>. SUFFICES ASSUME NEW t \in SyncerIds, mode = "initial" \/ t > sid
                  PROVE  /\ syncers'[t].st = "none"
                         /\ \A i \in 1..Len(syncQ') : syncQ'[i].id # t
        BY DEF Fresh
    <2>1. t # s
        BY <1>3
    <2>. QED
        BY <1>1, <1>2, <1>4, <2>1 DEF Handover, Fresh
<1>6. Spawned'
    BY <1>1, <1>2 DEF Handover, Spawned
<1>7. DrainOK'
    BY DEF Handover, DrainOK
<1>8. SyncerInStep'
    <2>. SUFFICES ASSUME vp = "running", mode = "syncing", ~vshut
                  PROVE  /\ UnderWay' = 1
                         /\ syncers'[sid].ack = "continue" => syncers'[sid].st = "waiting"
        BY DEF SyncerInStep
    <2>1. UnderWay = 1 /\ syncers[sid].ack # "stop"
          /\ (syncers[sid].ack = "continue" => syncers[sid].st = "waiting")
        BY DEF Handover, SyncerInStep, Spawned
    <2>2. Sent(syncQ', sid) = Sent(syncQ, sid) + (IF s = sid THEN 1 ELSE 0)
          /\ Sent(syncQ, sid) \in Nat
        BY <1>1, SentAppend, SentType
    <2>3. UnderWay' = (IF syncers'[sid].st \in {"asked", "parked"} THEN 1 ELSE 0)
                      + Sent(syncQ', sid) + (IF sq # None THEN 1 ELSE 0)
                      + (IF syncers'[sid].ack = "continue" THEN 1 ELSE 0)
        BY DEF UnderWay, Sent
    <2>4. CASE s = sid
        <3>1. syncers[sid].st \in {"asked", "parked"}
            BY <2>1, <2>4
        <3>. QED
            BY <1>2, <2>1, <2>2, <2>3, <2>4, <3>1, UnderWayIs
    <2>5. CASE s # sid
        <3>1. syncers'[sid] = syncers[sid]
            BY <1>1, <1>2, <2>5
        <3>. QED
            BY <2>1, <2>2, <2>3, <2>5, <3>1, UnderWayIs
    <2>. QED
        BY <2>4, <2>5
<1>. QED
    BY <1>5, <1>6, <1>7, <1>8 DEF Handover

\* A syncer that is at work goes to another state without sending anything: a
\* request is parked or sent again, a Continue is taken.
LEMMA HandoverMoves ==
    ASSUME Types, Handover, NEW s \in SyncerIds, syncers[s].st # "none",
           UNCHANGED <<rtq, draining, syncQ, mode, sid, sq, vshut, vp>>,
           \A t \in SyncerIds : t # s => syncers'[t] = syncers[t],
           \/ /\ syncers[s].st \in {"asked", "parked"}
              /\ syncers'[s].st \in {"asked", "parked"}
              /\ syncers'[s].ack = syncers[s].ack
           \/ /\ syncers[s].st = "waiting" /\ syncers[s].ack = "continue"
              /\ syncers'[s].st = "asked" /\ syncers'[s].ack = "none"
    PROVE  Handover'
<1>1. sid \in SyncerIds /\ SyncsOK(syncQ) /\ Sent(syncQ, sid) \in Nat
    BY SentType DEF Types, SyncT
<1>2. ~(mode = "initial" \/ s > sid)
    BY DEF Handover, Fresh
<1>3. Fresh'
    BY <1>2 DEF Handover, Fresh
<1>4. Spawned'
    BY <1>1 DEF Handover, Spawned
<1>5. SyncerInStep'
    <2>. SUFFICES ASSUME vp = "running", mode = "syncing", ~vshut
                  PROVE  /\ UnderWay' = 1
                         /\ syncers'[sid].ack = "continue" => syncers'[sid].st = "waiting"
        BY DEF SyncerInStep
    <2>1. UnderWay = 1
          /\ (syncers[sid].ack = "continue" => syncers[sid].st = "waiting")
        BY DEF Handover, SyncerInStep
    <2>2. UnderWay' = (IF syncers'[sid].st \in {"asked", "parked"} THEN 1 ELSE 0)
                      + Sent(syncQ, sid) + (IF sq # None THEN 1 ELSE 0)
                      + (IF syncers'[sid].ack = "continue" THEN 1 ELSE 0)
        BY DEF UnderWay, Sent
    <2>3. CASE s = sid
        BY <1>1, <2>1, <2>2, <2>3, UnderWayIs
    <2>4. CASE s # sid
        <3>1. syncers'[sid] = syncers[sid]
            BY <1>1, <2>4
        <3>. QED
            BY <2>1, <2>2, <3>1, UnderWayIs
    <2>. QED
        BY <2>3, <2>4
<1>. QED
    BY <1>3, <1>4, <1>5 DEF Handover, DrainOK

\* A step of a syncer.
LEMMA HandoverSyncer ==
    ASSUME Types, Handover, SyncerNext
    PROVE  Handover'
<1>. USE DEF syncVars, vpVars
<1>1. PICK s \in SyncerIds :
        \/ ParkRequest(s) \/ RefuseRequest(s) \/ AnswerRequest(s)
        \/ PrunedRequest(s) \/ FailRequest(s) \/ TakeStop(s) \/ TakeContinue(s)
    BY DEF SyncerNext
<1>2. syncers \in [SyncerIds -> Syncers] /\ syncers[s] \in Syncers /\ sid \in SyncerIds
    BY DEF Types, SyncT
<1>3. CASE ParkRequest(s)
    <2>1. /\ \A t \in SyncerIds : t # s => syncers'[t] = syncers[t]
          /\ syncers'[s].st = "parked" /\ syncers'[s].ack = syncers[s].ack
        BY <1>2, <1>3 DEF ParkRequest, Syncers
    <2>. QED
        BY <1>3, <2>1, HandoverMoves DEF ParkRequest
<1>4. CASE TakeContinue(s)
    <2>1. /\ \A t \in SyncerIds : t # s => syncers'[t] = syncers[t]
          /\ syncers'[s].st = "asked" /\ syncers'[s].ack = "none"
        BY <1>2, <1>4 DEF TakeContinue, Syncers
    <2>. QED
        BY <1>4, <2>1, HandoverMoves DEF TakeContinue
<1>5. CASE RefuseRequest(s)
    BY <1>5, HandoverEnds DEF RefuseRequest
<1>6. CASE PrunedRequest(s)
    BY <1>6, HandoverEnds DEF PrunedRequest
<1>7. CASE FailRequest(s)
    BY <1>7, HandoverEnds DEF FailRequest
<1>8. CASE TakeStop(s)
    BY <1>8, HandoverEnds DEF TakeStop
<1>9. CASE AnswerRequest(s)
    <2>1. PICK v \in Answers(syncers[s].from) :
            /\ syncQ' = Append(syncQ, [id |-> s, k |-> "vc", v |-> v])
            /\ syncers' = [syncers EXCEPT ![s] = [@ EXCEPT !.st = "waiting", !.from = v.last]]
        BY <1>9 DEF AnswerRequest
    <2>. DEFINE m == [id |-> s, k |-> "vc", v |-> v]
    <2>2. v \in Changes
        <3>1. syncers[s].from \in Blocks
            BY <1>2 DEF Syncers
        <3>. QED
            BY <3>1, AnswersType DEF Types, NodeT
    <2>3. m \in SyncMsgs /\ m.id = s /\ SyncsOK(syncQ) /\ syncQ' = Append(syncQ, m)
        BY <2>1, <2>2 DEF SyncMsgs, Types
    <2>. HIDE DEF m
    <2>4. /\ syncers'[s].st = "waiting" /\ syncers'[s].ack = syncers[s].ack
          /\ \A t \in SyncerIds : t # s => syncers'[t] = syncers[t]
        BY <1>2, <2>1 DEF Syncers
    <2>5. syncers[s].st = "asked"
        BY <1>9 DEF AnswerRequest
    <2>6. ~(mode = "initial" \/ s > sid)
        BY <2>5 DEF Handover, Fresh
    <2>7. /\ syncQ \in Seq(SyncMsgs) /\ Len(syncQ) \in Nat /\ Len(syncQ') = Len(syncQ) + 1
          /\ \A i \in 1..(Len(syncQ) + 1) : syncQ'[i] = IF i = Len(syncQ) + 1 THEN m ELSE syncQ[i]
        BY <2>3 DEF SyncsOK
    <2>8. UNCHANGED <<rtq, draining, mode, sid, sq, vshut, vp>>
        BY <1>9 DEF AnswerRequest
    <2>9. Fresh'
        <3>. SUFFICES ASSUME NEW t \in SyncerIds, mode = "initial" \/ t > sid
                      PROVE  /\ syncers'[t].st = "none"
                             /\ \A i \in 1..Len(syncQ') : syncQ'[i].id # t
            BY <2>8 DEF Fresh
        <3>1. t # s
            BY <2>6
        <3>. QED
            BY <2>3, <2>4, <2>7, <3>1 DEF Handover, Fresh
    <2>10. Spawned'
        BY <1>2, <2>4, <2>8 DEF Handover, Spawned
    <2>11. SyncerInStep'
        <3>. SUFFICES ASSUME vp = "running", mode = "syncing", ~vshut
                      PROVE  /\ UnderWay' = 1
                             /\ syncers'[sid].ack = "continue" => syncers'[sid].st = "waiting"
            BY <2>8 DEF SyncerInStep
        <3>1. UnderWay = 1
              /\ (syncers[sid].ack = "continue" => syncers[sid].st = "waiting")
            BY DEF Handover, SyncerInStep
        <3>2. Sent(syncQ', sid) = Sent(syncQ, sid) + (IF s = sid THEN 1 ELSE 0)
              /\ Sent(syncQ, sid) \in Nat
            BY <2>3, SentAppend, SentType
        <3>3. UnderWay' = (IF syncers'[sid].st \in {"asked", "parked"} THEN 1 ELSE 0)
                          + Sent(syncQ', sid) + (IF sq # None THEN 1 ELSE 0)
                          + (IF syncers'[sid].ack = "continue" THEN 1 ELSE 0)
            BY <2>8 DEF UnderWay, Sent
        <3>4. CASE s = sid
            BY <2>4, <2>5, <3>1, <3>2, <3>3, <3>4, UnderWayIs
        <3>5. CASE s # sid
            <4>1. syncers'[sid] = syncers[sid]
                BY <1>2, <2>4, <3>5
            <4>. QED
                BY <3>1, <3>2, <3>3, <3>5, <4>1, UnderWayIs
        <3>. QED
            BY <3>4, <3>5
    <2>. QED
        BY <2>8, <2>9, <2>10, <2>11 DEF Handover, DrainOK
<1>. QED
    BY <1>1, <1>3, <1>4, <1>5, <1>6, <1>7, <1>8, <1>9

\* A step after which the processor does not wait for its syncer.
LEMMA HandoverQuiet ==
    ASSUME Types, Handover, DrainOK', sid' = sid,
           mode' = "initial" <=> mode = "initial",
           ~(vp' = "running" /\ mode' = "syncing" /\ ~vshut'),
           \A t \in SyncerIds : syncers'[t].st = syncers[t].st,
           syncQ' = syncQ \/ (syncQ # <<>> /\ syncQ' = Tail(syncQ))
    PROVE  Handover'
<1>1. syncQ \in Seq(SyncMsgs)
    BY DEF Types, SyncsOK
<1>2. \A i \in 1..Len(syncQ') : \E j \in 1..Len(syncQ) : syncQ'[i] = syncQ[j]
    <2>1. CASE syncQ' = syncQ
        BY <2>1
    <2>2. CASE syncQ # <<>> /\ syncQ' = Tail(syncQ)
        <3>. TAKE i \in 1..Len(syncQ')
        <3>1. i + 1 \in 1..Len(syncQ) /\ syncQ'[i] = syncQ[i + 1]
            BY <1>1, <2>2
        <3>. QED
            BY <3>1
    <2>. QED
        BY <2>1, <2>2
<1>3. Fresh'
    BY <1>2 DEF Handover, Fresh
<1>4. Spawned'
    BY DEF Handover, Spawned, Types, SyncT
<1>5. SyncerInStep'
    BY DEF SyncerInStep
<1>. QED
    BY <1>3, <1>4, <1>5 DEF Handover

\* A step that takes the token from where it is and acknowledges with Continue,
\* or that keeps a response back: what was under way is gone, and one thing is.
LEMMA HandoverPasses ==
    ASSUME Types, Types', Handover, DrainOK', mode = "syncing",
           UNCHANGED <<sid, mode, vshut, vp>>, vp = "running",
           \A t \in SyncerIds : syncers'[t].st = syncers[t].st,
           syncers[sid].st \in {"waiting", "done"}, Sent(syncQ', sid) = 0,
           syncQ' = syncQ \/ (syncQ # <<>> /\ syncQ' = Tail(syncQ)),
           \/ sq' = None /\ syncers'[sid].ack = "continue" /\ syncers[sid].st # "done"
           \/ sq' # None /\ syncers'[sid].ack = "none"
    PROVE  Handover'
<1>1. syncQ \in Seq(SyncMsgs) /\ sid \in SyncerIds
    BY DEF Types, SyncsOK, SyncT
<1>2. \A i \in 1..Len(syncQ') : \E j \in 1..Len(syncQ) : syncQ'[i] = syncQ[j]
    <2>1. CASE syncQ' = syncQ
        BY <2>1
    <2>2. CASE syncQ # <<>> /\ syncQ' = Tail(syncQ)
        <3>. TAKE i \in 1..Len(syncQ')
        <3>1. i + 1 \in 1..Len(syncQ) /\ syncQ'[i] = syncQ[i + 1]
            BY <1>1, <2>2
        <3>. QED
            BY <3>1
    <2>. QED
        BY <2>1, <2>2
<1>3. Fresh'
    <2>. SUFFICES ASSUME NEW t \in SyncerIds, mode = "initial" \/ t > sid
                  PROVE  /\ syncers'[t].st = "none"
                         /\ \A i \in 1..Len(syncQ') : syncQ'[i].id # t
        BY DEF Fresh
    <2>1. syncers[t].st = "none" /\ \A i \in 1..Len(syncQ) : syncQ[i].id # t
        BY DEF Handover, Fresh
    <2>2. syncers'[t].st = "none"
        BY <2>1
    <2>. QED
        BY <1>2, <2>1, <2>2
<1>4. Spawned'
    <2>1. syncers'[sid].st # "none" /\ syncers'[sid].ack # "stop"
        BY <1>1
    <2>. QED
        BY <2>1 DEF Spawned
<1>5. UnderWay' = (IF syncers'[sid].st \in {"asked", "parked"} THEN 1 ELSE 0)
                  + Sent(syncQ', sid) + (IF sq' # None THEN 1 ELSE 0)
                  + (IF syncers'[sid].ack = "continue" THEN 1 ELSE 0)
    BY DEF UnderWay, Sent
<1>6. syncers'[sid].st = syncers[sid].st
    BY <1>1
<1>7. UnderWay' = 1
    <2>1. CASE sq' = None /\ syncers'[sid].ack = "continue"
        BY <1>5, <1>6, <2>1
    <2>2. CASE sq' # None /\ syncers'[sid].ack = "none"
        BY <1>5, <1>6, <2>2
    <2>. QED
        BY <2>1, <2>2
<1>8. syncers'[sid].ack = "continue" => syncers'[sid].st = "waiting"
    BY <1>6
<1>9. SyncerInStep'
    BY <1>7, <1>8 DEF SyncerInStep
<1>. QED
    BY <1>3, <1>4, <1>9 DEF Handover

\* An acknowledgement is taken in, or the processor fails.
LEMMA AckEffect ==
    ASSUME Types, NEW a \in {"continue", "stop"}, Ack(a)
    PROVE  /\ \A t \in SyncerIds : syncers'[t].st = syncers[t].st
           /\ \/ vp' = "failed"
              \/ vp' = vp /\ syncers[sid].st # "done" /\ syncers'[sid].ack = a
<1>1. syncers \in [SyncerIds -> Syncers] /\ sid \in SyncerIds /\ syncers[sid] \in Syncers
    BY DEF Types, SyncT
<1>2. CASE syncers[sid].st = "done"
    BY <1>2 DEF Ack
<1>3. CASE syncers[sid].st # "done"
    <2>1. syncers' = [syncers EXCEPT ![sid] = [syncers[sid] EXCEPT !.ack = a]] /\ vp' = vp
        BY <1>3 DEF Ack
    <2>2. /\ [syncers[sid] EXCEPT !.ack = a].st = syncers[sid].st
          /\ [syncers[sid] EXCEPT !.ack = a].ack = a
        BY <1>1 DEF Syncers
    <2>3. \A t \in SyncerIds :
            syncers'[t] = IF t = sid THEN [syncers[sid] EXCEPT !.ack = a] ELSE syncers[t]
        BY <1>1, <2>1
    <2>. QED
        BY <1>1, <1>3, <2>1, <2>2, <2>3
<1>. QED
    BY <1>2, <1>3

LEMMA SyncStepEffect ==
    ASSUME Types, mode = "syncing", NEW v, NEW r, SyncStep(v, r)
    PROVE  /\ \A t \in SyncerIds : syncers'[t].st = syncers[t].st
           /\ UNCHANGED <<sid, vshut, draining, rtq>>
           /\ mode' \in {"syncing", "synced"}
           /\ vp' = "running" /\ mode' = "syncing" =>
                vp = "running" /\ syncers[sid].st # "done" /\ syncers'[sid].ack = "continue"
                /\ sq' = None
<1>. DEFINE reached == v.last = target \/ v.last > target
            gone    == syncers[sid].st = "done"
<1>1. CASE ~(reached /\ gone) /\ Unwraps(v, r)
    BY <1>1 DEF SyncStep, syncVars
<1>2. CASE ~(~(reached /\ gone) /\ Unwraps(v, r))
    <2>1. /\ Ack(IF reached THEN "stop" ELSE "continue")
          /\ IF reached /\ gone THEN UNCHANGED <<dbVars, syncVars>>
             ELSE /\ Apply(v)
                  /\ last' = v.last /\ sq' = None
                  /\ mode' = IF reached THEN "synced" ELSE "syncing"
                  /\ UNCHANGED <<sid, target>>
          /\ UNCHANGED <<rtq, draining, vshut>>
        BY <1>2, Zenon DEF SyncStep
    <2>2. CASE reached
        <3>1. Ack("stop")
            BY <2>1, <2>2
        <3>2. /\ \A t \in SyncerIds : syncers'[t].st = syncers[t].st
              /\ vp' = "failed" \/ ~gone
            BY <3>1, AckEffect
        <3>3. CASE gone
            BY <2>1, <2>2, <3>2, <3>3 DEF syncVars
        <3>4. CASE ~gone
            BY <2>1, <2>2, <3>2, <3>4
        <3>. QED
            BY <3>3, <3>4
    <2>3. CASE ~reached
        <3>1. Ack("continue")
            BY <2>1, <2>3
        <3>2. /\ \A t \in SyncerIds : syncers'[t].st = syncers[t].st
              /\ \/ vp' = "failed"
                 \/ vp' = vp /\ ~gone /\ syncers'[sid].ack = "continue"
            BY <3>1, AckEffect
        <3>. HIDE DEF reached
        <3>. QED
            BY <2>1, <2>3, <3>2
    <2>. QED
        BY <2>2, <2>3
<1>. QED
    BY <1>1, <1>2

\* What the token tells: with a message of the syncer in the channel, or a
\* response kept back, nothing else is under way.
LEMMA TokenInQueue ==
    ASSUME Types, Handover, vp = "running", mode = "syncing", ~vshut,
           \/ syncQ # <<>> /\ Head(syncQ).id = sid
           \/ sq # None
    PROVE  /\ syncers[sid].st \in {"waiting", "done"} /\ syncers[sid].ack = "none"
           /\ IF sq # None THEN Sent(syncQ, sid) = 0 ELSE Sent(Tail(syncQ), sid) = 0
<1>1. /\ sid \in SyncerIds /\ SyncsOK(syncQ) /\ Sent(syncQ, sid) \in Nat
      /\ syncers[sid] \in Syncers
    BY SentType DEF Types, SyncT
<1>2. UnderWay = 1 /\ syncers[sid].ack # "stop" /\ syncers[sid].st # "none"
    BY DEF Handover, SyncerInStep, Spawned
<1>3. CASE sq # None
    <2>1. /\ syncers[sid].st \notin {"asked", "parked"} /\ Sent(syncQ, sid) = 0
          /\ syncers[sid].ack # "continue"
        BY <1>1, <1>2, <1>3, UnderWayIs
    <2>. QED
        BY <1>1, <1>2, <1>3, <2>1 DEF Syncers
<1>4. CASE sq = None /\ syncQ # <<>> /\ Head(syncQ).id = sid
    <2>1. Sent(Tail(syncQ), sid) = Sent(syncQ, sid) - 1
        BY <1>1, <1>4, SentTail
    <2>2. SyncsOK(Tail(syncQ))
        BY <1>1, <1>4, SyncsTake
    <2>3. Sent(Tail(syncQ), sid) \in Nat
        BY <2>2, SentType
    <2>4. /\ syncers[sid].st \notin {"asked", "parked"} /\ Sent(syncQ, sid) = 1
          /\ syncers[sid].ack # "continue"
        BY <1>1, <1>2, <1>4, <2>1, <2>3, UnderWayIs
    <2>. QED
        BY <1>1, <1>2, <1>4, <2>1, <2>4 DEF Syncers
<1>. QED
    BY <1>3, <1>4

\* A step of the processor: a notification.
LEMMA HandoverNotification ==
    ASSUME Types, Types', Handover, TakeNotification
    PROVE  Handover'
<1>. USE DEF syncVars, vpVars
<1>1. vp = "running" /\ ~draining
    BY DEF TakeNotification, Connected, Disconnected, Shutdown, RealtimeVcc, Receives, Ready
<1>2. /\ syncers \in [SyncerIds -> Syncers] /\ sid \in SyncerIds /\ SyncsOK(syncQ)
      /\ SyncerIds \subseteq Nat
    BY Bounds DEF Types, SyncT
<1>3. CASE Connected
    <2>. DEFINE m    == Head(notif)
                from == IF mode = "initial" THEN SyncFrom(m) ELSE last
                id   == IF mode = "initial" THEN 0 ELSE sid + 1
    <2>1. /\ IF mode = "synced" /\ (last = m.n \/ last > m.n)
               THEN UNCHANGED <<syncVars, syncers>>
               ELSE /\ target' = m.n
                    /\ IF mode = "syncing"
                         THEN UNCHANGED <<mode, last, sid, sq, syncers>>
                         ELSE /\ SpawnSyncer(id, from)
                              /\ mode' = "syncing" /\ sid' = id /\ last' = from /\ sq' = None
          /\ UNCHANGED <<syncQ, rtq, draining, vshut, vp>>
        BY <1>3, Zenon DEF Connected
    <2>2. DrainOK'
        BY <1>1, <2>1 DEF DrainOK
    <2>. HIDE DEF m, from
    <2>3. CASE UNCHANGED <<mode, sid, sq, syncers>>
        BY <2>1, <2>2, <2>3, HandoverSame
    <2>4. CASE /\ mode # "syncing"
               /\ SpawnSyncer(id, from)
               /\ mode' = "syncing" /\ sid' = id /\ last' = from /\ sq' = None
        <3>1. /\ id \in SyncerIds /\ syncers'[id].st = "asked" /\ syncers'[id].ack = "none"
              /\ \A t \in SyncerIds : t # id => syncers'[t] = syncers[t]
            BY <1>2, <2>4 DEF SpawnSyncer
        <3>2. (mode = "initial" \/ id > sid)
              /\ \A t \in SyncerIds : t > id => mode = "initial" \/ t > sid
            BY <1>2, <3>1
        <3>. HIDE DEF id
        <3>3. Fresh'
            <4>. SUFFICES ASSUME NEW t \in SyncerIds, t > id
                          PROVE  /\ syncers'[t].st = "none"
                                 /\ \A i \in 1..Len(syncQ) : syncQ[i].id # t
                BY <2>1, <2>4 DEF Fresh
            <4>1. t # id
                BY <1>2, <3>1
            <4>2. mode = "initial" \/ t > sid
                BY <3>2
            <4>. QED
                BY <3>1, <4>1, <4>2 DEF Handover, Fresh
        <3>4. Spawned'
            BY <2>4, <3>1 DEF Spawned
        <3>5. Sent(syncQ, id) = 0
            <4>1. \A i \in 1..Len(syncQ) : syncQ[i].id # id
                BY <3>1, <3>2 DEF Handover, Fresh
            <4>. QED
                BY <1>2, <4>1, SentType
        <3>6. UnderWay' = (IF syncers'[id].st \in {"asked", "parked"} THEN 1 ELSE 0)
                          + Sent(syncQ, id) + (IF sq' # None THEN 1 ELSE 0)
                          + (IF syncers'[id].ack = "continue" THEN 1 ELSE 0)
            BY <2>1, <2>4 DEF UnderWay, Sent
        <3>7. UnderWay' = 1
            BY <2>4, <3>1, <3>5, <3>6
        <3>8. SyncerInStep'
            BY <2>4, <3>1, <3>7 DEF SyncerInStep
        <3>. QED
            BY <2>2, <3>3, <3>4, <3>8 DEF Handover
    <2>. QED
        BY <2>1, <2>3, <2>4
<1>4. CASE Disconnected
    <2>1. DrainOK'
        BY <1>1, <1>4 DEF Disconnected, DrainOK
    <2>. QED
        BY <1>4, <2>1, HandoverSame DEF Disconnected
<1>5. CASE Shutdown
    <2>1. \A t \in SyncerIds : syncers'[t].st = syncers[t].st
        <3>1. CASE mode = "syncing"
            BY <1>5, <3>1, AckEffect DEF Shutdown, StopsSyncer
        <3>2. CASE mode # "syncing"
            BY <1>5, <3>2 DEF Shutdown
        <3>. QED
            BY <3>1, <3>2
    <2>2. DrainOK'
        BY <1>1, <1>5 DEF Shutdown, DrainOK
    <2>. QED
        BY <1>5, <2>1, <2>2, HandoverQuiet DEF Shutdown
<1>6. CASE RealtimeVcc
    <2>1. \/ Panic
          \/ UNCHANGED <<draining, vshut, vp, mode, sid, sq, syncers>>
        BY <1>6, Zenon DEF RealtimeVcc
    <2>2. DrainOK' /\ UNCHANGED syncQ
        BY <1>1, <1>6, <2>1 DEF RealtimeVcc, DrainOK, Panic
    <2>3. CASE Panic
        BY <2>2, <2>3, HandoverQuiet DEF Panic
    <2>4. CASE UNCHANGED <<draining, vshut, vp, mode, sid, sq, syncers>>
        BY <2>2, <2>4, HandoverSame
    <2>. QED
        BY <2>1, <2>3, <2>4
<1>. QED
    BY <1>3, <1>4, <1>5, <1>6 DEF TakeNotification

\* A step of the processor: a message of a syncer.
LEMMA HandoverSyncerMessage ==
    ASSUME Types, Types', Handover, TakeSyncer
    PROVE  Handover'
<1>. USE DEF syncVars, vpVars
<1>1. vp = "running" /\ ~draining /\ syncQ # <<>> /\ syncQ' = Tail(syncQ)
    BY DEF TakeSyncer, SyncerVc, SyncerStopped, Ready
<1>2. /\ syncers \in [SyncerIds -> Syncers] /\ sid \in SyncerIds /\ SyncsOK(syncQ)
      /\ syncers[sid] \in Syncers
    BY DEF Types, SyncT
<1>3. CASE SyncerVc
    <2>. DEFINE m == Head(syncQ)
    <2>1. \/ Panic
          \/ /\ mode = "syncing" /\ m.id = sid
             /\ \/ AskAgain /\ UNCHANGED <<rtq, draining, vshut, syncVars>>
                \/ /\ ~IsEmpty(m.v) /\ sq = None /\ HoldBack(m.v)
                   /\ UNCHANGED <<rtq, draining, vshut, mode, last, sid, target>>
                \/ SyncStep(m.v, ring)
        BY <1>3, Zenon DEF SyncerVc, dbVars
    <2>2. CASE Panic
        <3>1. DrainOK'
            BY <1>1, <2>2 DEF Panic, DrainOK
        <3>. QED
            BY <1>1, <2>2, <3>1, HandoverQuiet DEF Panic
    <2>3. CASE mode = "syncing" /\ m.id = sid
               /\ AskAgain /\ UNCHANGED <<rtq, draining, vshut, syncVars>>
        <3>1. DrainOK'
            BY <1>1, <2>3 DEF DrainOK
        <3>2. /\ \A t \in SyncerIds : syncers'[t].st = syncers[t].st
              /\ \/ vp' = "failed"
                 \/ vp' = vp /\ syncers[sid].st # "done" /\ syncers'[sid].ack = "continue"
            BY <2>3, AckEffect DEF AskAgain
        <3>3. CASE vp' = "running" /\ ~vshut
            <4>1. /\ syncers[sid].st \in {"waiting", "done"}
                  /\ IF sq # None THEN Sent(syncQ, sid) = 0 ELSE Sent(Tail(syncQ), sid) = 0
                BY <1>1, <2>3, <3>3, TokenInQueue
            <4>2. Sent(syncQ, sid) # 0
                <5>1. Sent(Tail(syncQ), sid) = Sent(syncQ, sid) - 1
                    BY <1>1, <1>2, <2>3, SentTail
                <5>2. Sent(Tail(syncQ), sid) \in Nat /\ Sent(syncQ, sid) \in Nat
                    BY <1>1, <1>2, SentType, SyncsTake
                <5>. QED
                    BY <5>1, <5>2
            <4>3. sq = None /\ Sent(syncQ', sid) = 0
                BY <1>1, <4>1, <4>2
            <4>. QED
                BY <1>1, <2>3, <3>1, <3>2, <3>3, <4>1, <4>3, HandoverPasses
        <3>4. CASE ~(vp' = "running" /\ ~vshut)
            BY <1>1, <2>3, <3>1, <3>2, <3>4, HandoverQuiet
        <3>. QED
            BY <3>3, <3>4
    <2>4. CASE /\ mode = "syncing" /\ m.id = sid
               /\ ~IsEmpty(m.v) /\ sq = None /\ HoldBack(m.v)
               /\ UNCHANGED <<rtq, draining, vshut, mode, last, sid, target>>
        <3>1. DrainOK'
            BY <1>1, <2>4 DEF DrainOK
        <3>2. sq' # None /\ UNCHANGED <<vp, syncers>>
            BY <2>4 DEF HoldBack, IsEmpty, None
        <3>3. CASE ~vshut
            <4>1. /\ syncers[sid].st \in {"waiting", "done"} /\ syncers[sid].ack = "none"
                  /\ Sent(Tail(syncQ), sid) = 0
                BY <1>1, <2>4, <3>3, TokenInQueue
            <4>. QED
                BY <1>1, <2>4, <3>1, <3>2, <4>1, HandoverPasses
        <3>4. CASE vshut
            BY <1>1, <2>4, <3>1, <3>2, <3>4, HandoverQuiet
        <3>. QED
            BY <3>3, <3>4
    <2>5. CASE mode = "syncing" /\ m.id = sid /\ SyncStep(m.v, ring)
        <3>1. /\ \A t \in SyncerIds : syncers'[t].st = syncers[t].st
              /\ UNCHANGED <<sid, vshut, draining, rtq>>
              /\ mode' \in {"syncing", "synced"}
              /\ vp' = "running" /\ mode' = "syncing" =>
                   vp = "running" /\ syncers[sid].st # "done" /\ syncers'[sid].ack = "continue"
                   /\ sq' = None
            BY <2>5, SyncStepEffect
        <3>2. DrainOK'
            BY <1>1, <3>1 DEF DrainOK
        <3>3. CASE vp' = "running" /\ mode' = "syncing" /\ ~vshut
            <4>1. /\ syncers[sid].st \in {"waiting", "done"}
                  /\ IF sq # None THEN Sent(syncQ, sid) = 0 ELSE Sent(Tail(syncQ), sid) = 0
                BY <1>1, <2>5, <3>3, TokenInQueue
            <4>2. Sent(syncQ, sid) # 0
                <5>1. Sent(Tail(syncQ), sid) = Sent(syncQ, sid) - 1
                    BY <1>1, <1>2, <2>5, SentTail
                <5>2. Sent(Tail(syncQ), sid) \in Nat /\ Sent(syncQ, sid) \in Nat
                    BY <1>1, <1>2, SentType, SyncsTake
                <5>. QED
                    BY <5>1, <5>2
            <4>3. sq = None /\ Sent(syncQ', sid) = 0
                BY <1>1, <4>1, <4>2
            <4>. QED
                BY <1>1, <2>5, <3>1, <3>2, <3>3, <4>1, <4>3, HandoverPasses
        <3>4. CASE ~(vp' = "running" /\ mode' = "syncing" /\ ~vshut)
            BY <1>1, <2>5, <3>1, <3>2, <3>4, HandoverQuiet
        <3>. QED
            BY <3>3, <3>4
    <2>. QED
        BY <2>1, <2>2, <2>3, <2>4, <2>5
<1>4. CASE SyncerStopped
    <2>1. UNCHANGED <<syncers, rtq, draining, vshut, mode, sid, sq>>
        BY <1>4 DEF SyncerStopped
    <2>2. DrainOK'
        BY <1>1, <2>1 DEF DrainOK
    <2>3. CASE vp' = "running" /\ mode = "syncing" /\ ~vshut
        <3>1. Head(syncQ).id # sid
            <4>. SUFFICES ASSUME Head(syncQ).id = sid
                          PROVE  vp' = "failed"
                BY <2>3
            <4>. QED
                BY <1>4, <2>3, Zenon DEF SyncerStopped
        <3>2. Sent(syncQ', sid) = Sent(syncQ, sid) /\ Sent(syncQ, sid) \in Nat
            <4>1. Sent(Tail(syncQ), sid) = Sent(syncQ, sid) - 0 /\ Sent(syncQ, sid) \in Nat
                BY <1>1, <1>2, <3>1, SentTail, SentType
            <4>. QED
                BY <1>1, <4>1
        <3>3. UnderWay' = (IF syncers[sid].st \in {"asked", "parked"} THEN 1 ELSE 0)
                          + Sent(syncQ', sid) + (IF sq # None THEN 1 ELSE 0)
                          + (IF syncers[sid].ack = "continue" THEN 1 ELSE 0)
            BY <2>1 DEF UnderWay, Sent
        <3>4. UnderWay' = UnderWay
            BY <3>2, <3>3, UnderWayIs
        <3>5. SyncerInStep' /\ Spawned'
            BY <1>1, <2>1, <2>3, <3>4 DEF Handover, SyncerInStep, Spawned
        <3>6. Fresh'
            <4>1. \A i \in 1..Len(syncQ') : i + 1 \in 1..Len(syncQ) /\ syncQ'[i] = syncQ[i + 1]
                BY <1>1, <1>2 DEF SyncsOK
            <4>. QED
                BY <2>1, <4>1 DEF Handover, Fresh
        <3>. QED
            BY <2>2, <3>5, <3>6 DEF Handover
    <2>4. CASE ~(vp' = "running" /\ mode = "syncing" /\ ~vshut)
        BY <1>1, <2>1, <2>2, <2>4, HandoverQuiet
    <2>. QED
        BY <2>3, <2>4
<1>. QED
    BY <1>3, <1>4 DEF TakeSyncer

\* A step of the processor: a processed block.
LEMMA HandoverBlock ==
    ASSUME Types, Types', Handover, NEW b \in 1..MaxBlock, ProcessedBlock(b)
    PROVE  Handover'
<1>. USE DEF syncVars, vpVars
<1>. DEFINE r == Inserted(IF mode = "initial" THEN ring ELSE Evicted(ring), b)
<1>1. /\ IF mode = "syncing" /\ sq # None /\ Known(sq, r)
           THEN SyncStep(sq, r)
           ELSE /\ draining' = (mode = "synced" /\ CanDrain(rtq, r))
                /\ UNCHANGED <<rtq, vshut, vp, syncVars, syncers, dbVars>>
      /\ UNCHANGED syncQ /\ vp = "running" /\ ~draining
    BY Zenon DEF ProcessedBlock, Ready
<1>. HIDE DEF r
<1>2. CASE mode = "syncing" /\ sq # None /\ Known(sq, r)
    <2>1. /\ \A t \in SyncerIds : syncers'[t].st = syncers[t].st
          /\ UNCHANGED <<sid, vshut, draining, rtq>>
          /\ mode' \in {"syncing", "synced"}
          /\ vp' = "running" /\ mode' = "syncing" =>
               vp = "running" /\ syncers[sid].st # "done" /\ syncers'[sid].ack = "continue"
               /\ sq' = None
        BY <1>1, <1>2, SyncStepEffect
    <2>2. DrainOK'
        BY <1>1, <2>1 DEF DrainOK
    <2>3. CASE vp' = "running" /\ mode' = "syncing" /\ ~vshut
        <3>1. syncers[sid].st \in {"waiting", "done"} /\ Sent(syncQ, sid) = 0
            BY <1>1, <1>2, <2>3, TokenInQueue
        <3>. QED
            BY <1>1, <1>2, <2>1, <2>2, <2>3, <3>1, HandoverPasses
    <2>4. CASE ~(vp' = "running" /\ mode' = "syncing" /\ ~vshut)
        BY <1>1, <1>2, <2>1, <2>2, <2>4, HandoverQuiet
    <2>. QED
        BY <2>3, <2>4
<1>3. CASE ~(mode = "syncing" /\ sq # None /\ Known(sq, r))
    <2>1. /\ draining' = (mode = "synced" /\ CanDrain(rtq, r))
          /\ UNCHANGED <<rtq, vshut, vp, syncVars, syncers, dbVars>>
        BY <1>1, <1>3, Zenon
    <2>2. DrainOK'
        BY <2>1, Zenon DEF DrainOK, CanDrain
    <2>. QED
        BY <1>1, <2>1, <2>2, HandoverSame
<1>. QED
    BY <1>2, <1>3

LEMMA HandoverDrain ==
    ASSUME Types, Handover, Drain
    PROVE  Handover'
<1>. USE DEF syncVars, vpVars
<1>1. CASE Panic /\ UNCHANGED syncQ
    <2>1. DrainOK'
        BY <1>1 DEF Panic, Handover, DrainOK
    <2>. QED
        BY <1>1, <2>1, HandoverQuiet DEF Panic
<1>2. CASE /\ rtq' = Tail(rtq) /\ draining' = CanDrain(Tail(rtq), ring)
           /\ UNCHANGED <<vshut, vp, mode, sid, sq, syncers, syncQ>>
    <2>1. DrainOK'
        BY <1>2, Zenon DEF DrainOK, CanDrain
    <2>. QED
        BY <1>2, <2>1, HandoverSame
<1>. QED
    BY <1>1, <1>2, Zenon DEF Drain

LEMMA HandoverRestart ==
    ASSUME Types, Restart
    PROVE  Handover'
<1>1. \A s \in SyncerIds : syncers'[s].st = "none"
    BY DEF Restart, IdleSyncer
<1>2. mode' = "initial" /\ ~draining' /\ syncQ' = <<>>
    BY DEF Restart
<1>. QED
    BY <1>1, <1>2 DEF Handover, DrainOK, Fresh, Spawned, SyncerInStep

\* A step of the node or of DataSource.
LEMMA HandoverNode ==
    ASSUME Types, Handover, NodeNext \/ DataSourceNext
    PROVE  Handover'
<1>. USE DEF syncVars, vpVars
<1>1. CASE ConnectOk
    <2>1. syncers \in [SyncerIds -> Syncers] /\ sid \in SyncerIds
        BY DEF Types, SyncT
    <2>2. /\ UNCHANGED <<syncQ, mode, sid, sq, vshut, vp, rtq, draining>>
          /\ \A s \in SyncerIds :
               /\ syncers'[s].st = IF syncers[s].st = "parked" THEN "asked" ELSE syncers[s].st
               /\ syncers'[s].ack = syncers[s].ack
        BY <1>1, <2>1 DEF ConnectOk, Syncers
    <2>3. UnderWay' = UnderWay
        BY <2>1, <2>2 DEF UnderWay
    <2>4. Fresh'
        BY <2>2 DEF Handover, Fresh
    <2>5. Spawned'
        BY <2>1, <2>2 DEF Handover, Spawned
    <2>6. SyncerInStep'
        BY <2>1, <2>2, <2>3 DEF Handover, SyncerInStep
    <2>. QED
        BY <2>2, <2>4, <2>5, <2>6 DEF Handover, DrainOK
<1>2. CASE ~ConnectOk
    <2>1. UNCHANGED <<syncers, syncQ, mode, sid, sq, vshut, vp, rtq, draining>>
        BY <1>2 DEF NodeNext, DataSourceNext, NewSink, Prune, LinkDrops, Register, ConnectFails,
           HandleDisconnect, Hangup, HandleNotification, HandleShutdown, HandleBlockClosed,
           nodeVars
    <2>2. DrainOK'
        BY <2>1 DEF Handover, DrainOK
    <2>. QED
        BY <2>1, <2>2, HandoverSame
<1>. QED
    BY <1>1, <1>2

-----------------------------------------------------------------------------
(* The theorems.                                                           *)

\* Types and the hand-over are an inductive invariant.
THEOREM Inductive == Spec => [](Types /\ Handover)
<1>1. Init => Types /\ Handover
    BY TypesInit, HandoverInit
<1>2. Types /\ Handover /\ [Next]_vars => Types' /\ Handover'
    <2>. SUFFICES ASSUME Types, Handover, [Next]_vars
                  PROVE  Types' /\ Handover'
        OBVIOUS
    <2>1. CASE NodeNext \/ DataSourceNext
        BY <2>1, TypesNode, HandoverNode
    <2>2. CASE SyncerNext
        BY <2>2, TypesSyncer, HandoverSyncer
    <2>3. CASE TakeNotification
        <3>1. Types'
            BY <2>3, TypesNotification
        <3>. QED
            BY <2>3, <3>1, HandoverNotification
    <2>4. CASE TakeSyncer
        <3>1. Types'
            BY <2>4, TypesSyncerMessage
        <3>. QED
            BY <2>4, <3>1, HandoverSyncerMessage
    <2>5. CASE Drain
        <3>1. rtq # <<>>
            BY <2>5 DEF Drain, Handover, DrainOK
        <3>. QED
            BY <2>5, <3>1, TypesDrain, HandoverDrain
    <2>6. ASSUME NEW b \in 1..MaxBlock, ProcessedBlock(b)
          PROVE  Types' /\ Handover'
        <3>1. Types'
            BY <2>6, TypesBlock
        <3>. QED
            BY <2>6, <3>1, HandoverBlock
    <2>7. CASE Restart
        BY <2>7, TypesRestart, HandoverRestart
    <2>8. CASE UNCHANGED vars
        <3>. USE <2>8 DEF vars, nodeVars, vpVars, syncVars, dbVars
        <3>1. Types'
            BY DEF Types, NodeT, ProcT, SyncT, DbT
        <3>2. DrainOK'
            BY DEF Handover, DrainOK
        <3>3. UNCHANGED <<syncers, syncQ, mode, sid, sq, vshut, vp>>
            OBVIOUS
        <3>. QED
            BY <3>1, <3>2, <3>3, HandoverSame
    <2>. QED
        BY <2>1, <2>2, <2>3, <2>4, <2>5, <2>6, <2>7, <2>8 DEF Next
<1>. QED
    BY <1>1, <1>2, PTL DEF Spec

\* Every cursor, queue and syncer position is a block or a change the code could
\* name, for any tree: also the ring that a restart loads from the DAA index.
THEOREM TypeTheorem == Spec => []TypeOK
BY Inductive, TypesSuffice, PTL

\* While the processor is syncing exactly one of a request, a response, a response
\* kept back, a Continue and the end of the syncer is under way, so that neither
\* blocks the other on the channels of capacity 1, whatever is lost or restarted.
THEOREM StepTheorem == Spec => []SyncerInStep
<1>1. Handover => SyncerInStep
    BY DEF Handover
<1>. QED
    BY <1>1, Inductive, PTL

-----------------------------------------------------------------------------
(* The chain of the sink.                                                    *)

\* The change by which block x became the sink, and the messages from i on that
\* are changes.
Step(x) == Change(x - 1, x)
ChangesFrom(i) == \A j \in i..Len(notif) : notif[j].k = "vcc"
Down == link \in {"down", "registering"} /\ ~shuttingDown

\* Nothing that was delivered before a disconnect is on its way.
Clean == /\ ~strayed
         /\ \A i \in 1..Len(nodeQ) : ~nodeQ[i].stray
         /\ \A i \in 1..Len(notif) : ~notif[i].stray

\* No later chain leaves the pruning point.
PruneOK == pp # 0 => \A b \in Blocks : b >= sink => pp \in Chain[b]

\* Every change leads to a block there is.
Reached ==
    /\ \A i \in 1..Len(nodeQ) : nodeQ[i].v.last <= sink
    /\ \A i \in 1..Len(notif) : notif[i].k = "vcc" => notif[i].v.last <= sink
    /\ \A i \in 1..Len(rtq) : rtq[i].last <= sink
    /\ \A i \in 1..Len(syncQ) : syncQ[i].k = "vc" => syncQ[i].v.last <= sink
    /\ sq # None => sq.last <= sink
    /\ last <= sink /\ cursor <= sink

\* What the node notifies is forwarded in its order, and what a connection left
\* behind is marked.
NodeOrder ==
    /\ shuttingDown => link = "down"
    /\ link = "down" /\ ~shuttingDown => \A i \in 1..Len(nodeQ) : nodeQ[i].stray
    /\ link \in {"registering", "up"} =>
         \A i \in 1..Len(nodeQ) : ~nodeQ[i].stray =>
           LET x == sink - Len(nodeQ) + i IN x >= 1 /\ nodeQ[i].v = Step(x)

LiveOrder ==
    link = "up" => \A i \in 1..Len(notif) : ChangesFrom(i) /\ ~notif[i].stray =>
      LET x == sink - Len(nodeQ) - (Len(notif) - i) IN x >= 1 /\ notif[i].v = Step(x)

\* A Connected names a sink that no later change has passed, and what comes before
\* it belongs to no connection.
ConnectedOrder ==
    \A i \in 1..Len(notif) : notif[i].k = "connected" =>
      /\ notif[i].n <= sink
      /\ notif[i].pp # 0 => notif[i].pp \in Chain[pp]
      /\ link = "up" /\ ChangesFrom(i + 1) =>
           notif[i].n >= sink - Len(nodeQ) - (Len(notif) - i)
      /\ \A j \in 1..(i - 1) : (\A m \in j..(i - 1) : notif[m].k = "vcc") => notif[j].stray
      /\ \A j \in 1..(i - 1) : notif[j].k = "connected" =>
           \E m \in (j + 1)..(i - 1) : notif[m].k = "disconnected"

DownOrder ==
    Down => \A i \in 1..Len(notif) :
      /\ ChangesFrom(i) => notif[i].stray
      /\ notif[i].k = "connected" => \E m \in (i + 1)..Len(notif) : notif[m].k = "disconnected"

\* While it is up, the Connected of a new connection is behind the Disconnected of
\* the last one.
UpOrder == link = "up" => \A i \in 1..Len(notif) :
             notif[i].k = "disconnected" => ~ChangesFrom(i + 1)

AppliedIs(b) == {d \in applied : AbovePruning(d)} = {d \in Chain[b] : AbovePruning(d)}

\* An answer to a request from block b while the sink was at most n.
Answer(v, b, n) ==
    \/ IsEmpty(v) /\ v.last = b
    \/ \E k \in Blocks : k <= n /\ \E c \in Chain[k] \ Chain[b] :
         v = [rem |-> Chain[b] \ Chain[k], add |-> {d \in Chain[k] \ Chain[b] : d <= c}, last |-> c]

Vc(i) == syncQ[i].k = "vc" /\ syncQ[i].id = sid

\* What is under way between the processor and its syncer starts at last.
Token ==
    /\ \A s \in SyncerIds : syncers[s].st \in {"asked", "parked"} \/ syncers[s].ack = "continue" =>
         s = sid /\ mode = "syncing"
    /\ mode = "syncing" =>
         /\ syncers[sid].st \in {"asked", "parked"} =>
              /\ syncers[sid].from = last /\ sq = None
              /\ \A i \in 1..Len(syncQ) : ~Vc(i)
         /\ \A i \in 1..Len(syncQ) : Vc(i) =>
              /\ Answer(syncQ[i].v, last, sink) /\ sq = None
              /\ syncers[sid].st = "waiting" => syncers[sid].from = syncQ[i].v.last
              /\ \A j \in 1..Len(syncQ) : Vc(j) => i = j
         /\ sq # None => /\ Answer(sq, last, sink) /\ ~IsEmpty(sq)
                         /\ syncers[sid].st = "waiting" => syncers[sid].from = sq.last
         /\ syncers[sid].ack = "continue" =>
              /\ syncers[sid].st = "waiting" /\ syncers[sid].from = last /\ sq = None
              /\ \A i \in 1..Len(syncQ) : ~Vc(i)

\* A processor that was told to stop stays with its syncer; one that replays is
\* synced.
Stopping == /\ vp = "running" /\ vshut =>
                 mode = "syncing" /\ (syncers[sid].ack = "stop" \/ syncers[sid].st = "done")
            /\ draining => mode = "synced"

\* The database, apart from a replay.
Stored ==
    /\ mode = "initial" => rtq = <<>>
    /\ mode = "syncing" => cursor \in {NoBlock, last}
    /\ mode = "synced" => cursor = last
    /\ ~strayed /\ mode # "synced" => DbConsistent
    /\ ~strayed /\ mode = "syncing" => AppliedIs(last)

\* Between two connections nothing is queued and the database is exact.
Quiet ==
    /\ vp = "running" /\ ~vshut /\ ~strayed
    /\ \/ Down /\ ChangesFrom(1)
       \/ \E i \in 1..Len(notif) : /\ notif[i].k = "connected"
                                   /\ \A j \in 1..(i - 1) : notif[j].k = "vcc"
    => rtq = <<>> /\ DbConsistent

\* Blocks whose place in the chain does not change from p to c are stored as they
\* are in the chain of c.
Agrees(p, c) ==
    \A d \in 1..MaxBlock :
      AbovePruning(d) /\ (\A q \in p..c : d \in Chain[q] <=> d \in Chain[c])
        => (d \in applied <=> d \in Chain[c])

\* The last change that has left the queues.
Passed == sink - Len(nodeQ) - Len(notif) - Len(rtq)

\* A connection of which nothing has been lost.
Live == vp = "running" /\ ~vshut /\ Clean /\ link = "up" /\ ChangesFrom(1) /\ mode # "initial"

Replay ==
    Live =>
      /\ Passed >= 0
      /\ \A i \in 1..Len(rtq) : rtq[i] = Step(Passed + i)
      /\ mode = "syncing" => Passed <= target
      /\ mode = "synced" => \E c \in Passed..sink : Agrees(Passed, c) /\ cursor \in {Passed, c}

Order == PruneOK /\ NodeOrder /\ LiveOrder /\ ConnectedOrder /\ DownOrder
Exact == Order /\ UpOrder /\ Reached /\ Stopping /\ Token /\ Stored /\ Quiet /\ Replay

-----------------------------------------------------------------------------
(* Lemmas about chains.                                                    *)

LEMMA ChainFacts ==
    ASSUME NEW b \in Blocks
    PROVE  /\ Chain[b] \subseteq 1..MaxBlock /\ Chain[b] \subseteq Blocks
           /\ \A c \in Chain[b] : c >= 1 /\ c <= b /\ Chain[c] = {d \in Chain[b] : d <= c}
           /\ b # 0 => b \in Chain[b]
<1>1. Chain[b] \subseteq 1..MaxBlock
    BY ChainIsTree
<1>2. b # 0 => b \in 1..MaxBlock
    BY Bounds DEF Blocks
<1>3. \A c \in Chain[b] : c <= b /\ Chain[c] = {d \in Chain[b] : d <= c}
    BY ChainIsTree
<1>. QED
    BY <1>1, <1>2, <1>3, Bounds, ChainIsTree

LEMMA StepType ==
    ASSUME NEW x \in Blocks, x >= 1
    PROVE  Step(x) \in Changes /\ Step(x).last = x /\ x - 1 \in Blocks
<1>1. x - 1 \in Blocks
    BY Bounds DEF Blocks
<1>. QED
    BY <1>1, ChangeType DEF Step, Change

\* The pruning point only moves along the chain.
LEMMA PruneMoves ==
    ASSUME Types, PruneOK, Prune
    PROVE  /\ \A d \in Blocks : AbovePruning(d)' => AbovePruning(d)
           /\ \A q \in Blocks : (q # 0 => q \in Chain[pp]) => (q # 0 => q \in Chain[pp'])
           /\ PruneOK'
<1>1. /\ sink \in Blocks /\ pp \in Blocks /\ UNCHANGED sink
      /\ pp' \in Chain[sink] /\ pp' > pp /\ \A b \in Blocks : b > sink => pp' \in Chain[b]
    BY DEF Types, NodeT, Prune
<1>2. pp' \in Blocks /\ pp' # 0
    BY <1>1, ChainFacts, Bounds
<1>3. pp # 0 => pp \in Chain[pp']
    BY <1>1, ChainFacts, Bounds DEF PruneOK
<1>4. PruneOK'
    <2>1. \A b \in Blocks : b >= sink => b = sink \/ b > sink
        BY <1>1, Bounds
    <2>. QED
        BY <1>1, <2>1 DEF PruneOK
<1>5. \A q \in Blocks : (q # 0 => q \in Chain[pp]) => (q # 0 => q \in Chain[pp'])
    <2>. SUFFICES ASSUME NEW q \in Blocks, q # 0, q \in Chain[pp]
                  PROVE  q \in Chain[pp']
        OBVIOUS
    <2>1. pp # 0
        BY ChainIsTree
    <2>2. Chain[pp] \subseteq Chain[pp']
        BY <1>2, <1>3, <2>1, ChainFacts
    <2>. QED
        BY <2>2
<1>6. \A d \in Blocks : AbovePruning(d)' => AbovePruning(d)
    <2>. SUFFICES ASSUME NEW d \in Blocks, pp' \in Chain[d], pp # 0
                  PROVE  pp \in Chain[d] /\ d # pp
        BY <1>2 DEF AbovePruning
    <2>1. Chain[pp'] \subseteq Chain[d] /\ pp' <= d
        BY ChainFacts
    <2>. QED
        BY <1>1, <1>2, <1>3, <2>1, Bounds
<1>. QED
    BY <1>4, <1>5, <1>6

-----------------------------------------------------------------------------
(* The order of what is notified.                                          *)

LEMMA OrderInit == Init => Order
<1>. SUFFICES ASSUME Init
              PROVE  Order
    OBVIOUS
<1>1. nodeQ = <<>> /\ notif = <<>> /\ pp = 0 /\ link = "down"
    BY DEF Init
<1>. QED
    BY <1>1 DEF Order, PruneOK, NodeOrder, LiveOrder, ConnectedOrder, DownOrder

\* The queues as functions.
LEMMA Queues ==
    ASSUME Types
    PROVE  /\ Len(nodeQ) \in Nat /\ Len(notif) \in Nat /\ Len(rtq) \in Nat /\ Len(syncQ) \in Nat
           /\ \A i \in 1..Len(nodeQ) : nodeQ[i] \in NodeMsgs
           /\ \A i \in 1..Len(notif) : notif[i] \in NotifMsgs
           /\ \A i \in 1..Len(rtq) : rtq[i] \in Changes
           /\ \A i \in 1..Len(syncQ) : syncQ[i] \in SyncMsgs
           /\ sink \in Nat /\ sink \in Blocks
BY Bounds DEF Types, NodeT, ProcT, NotifsOK, SyncsOK

\* The next message is taken.
LEMMA OrderTake ==
    ASSUME Types, Order, notif # <<>>, notif' = Tail(notif), UNCHANGED nodeVars
    PROVE  Order'
<1>1. /\ Len(notif) \in Nat \ {0} /\ Len(notif') = Len(notif) - 1
      /\ \A i \in 1..Len(notif') : notif'[i] = notif[i + 1] /\ i + 1 \in 1..Len(notif)
    BY DEF Types, NotifsOK
<1>2. UNCHANGED <<sink, pp, link, shuttingDown, nodeQ>> /\ sink \in Nat /\ Len(nodeQ) \in Nat
    BY Queues DEF nodeVars
<1>3. \A i \in 1..(Len(notif') + 1) : ChangesFrom(i)' => ChangesFrom(i + 1)
    <2>. SUFFICES ASSUME NEW i \in 1..(Len(notif') + 1), ChangesFrom(i)',
                         NEW j \in (i + 1)..Len(notif)
                  PROVE  notif[j].k = "vcc"
        BY DEF ChangesFrom
    <2>1. j - 1 \in i..Len(notif') /\ j - 1 \in 1..Len(notif') /\ (j - 1) + 1 = j
        BY <1>1
    <2>2. notif'[j - 1].k = "vcc"
        BY <2>1 DEF ChangesFrom
    <2>. QED
        BY <1>1, <2>1, <2>2
<1>4. PruneOK' /\ NodeOrder'
    BY <1>2 DEF Order, PruneOK, NodeOrder, Step, Change
<1>5. LiveOrder'
    <2>. SUFFICES ASSUME link = "up", NEW i \in 1..Len(notif'), ChangesFrom(i)', ~notif'[i].stray
                  PROVE  LET x == sink - Len(nodeQ) - (Len(notif') - i)
                         IN  x >= 1 /\ notif'[i].v = Step(x)
        BY <1>2 DEF LiveOrder, Step, Change
    <2>1. i + 1 \in 1..Len(notif) /\ notif'[i] = notif[i + 1] /\ ChangesFrom(i + 1)
        BY <1>1, <1>3
    <2>2. Len(notif') - i = Len(notif) - (i + 1)
        BY <1>1
    <2>. QED
        BY <2>1, <2>2 DEF Order, LiveOrder
<1>6. ConnectedOrder'
    <2>. SUFFICES ASSUME NEW i \in 1..Len(notif'), notif'[i].k = "connected"
                  PROVE  /\ notif'[i].n <= sink
                         /\ notif'[i].pp # 0 => notif'[i].pp \in Chain[pp]
                         /\ link = "up" /\ ChangesFrom(i + 1)' =>
                              notif'[i].n >= sink - Len(nodeQ) - (Len(notif') - i)
                         /\ \A j \in 1..(i - 1) :
                              (\A m \in j..(i - 1) : notif'[m].k = "vcc") => notif'[j].stray
                         /\ \A j \in 1..(i - 1) : notif'[j].k = "connected" =>
                              \E m \in (j + 1)..(i - 1) : notif'[m].k = "disconnected"
        BY <1>2 DEF ConnectedOrder
    <2>1. i + 1 \in 1..Len(notif) /\ notif'[i] = notif[i + 1]
        BY <1>1
    <2>2. /\ notif[i + 1].n <= sink
          /\ notif[i + 1].pp # 0 => notif[i + 1].pp \in Chain[pp]
          /\ link = "up" /\ ChangesFrom((i + 1) + 1) =>
               notif[i + 1].n >= sink - Len(nodeQ) - (Len(notif) - (i + 1))
          /\ \A j \in 1..((i + 1) - 1) :
               (\A m \in j..((i + 1) - 1) : notif[m].k = "vcc") => notif[j].stray
          /\ \A j \in 1..((i + 1) - 1) : notif[j].k = "connected" =>
               \E m \in (j + 1)..((i + 1) - 1) : notif[m].k = "disconnected"
        BY <2>1 DEF Order, ConnectedOrder
    <2>3. link = "up" /\ ChangesFrom(i + 1)' =>
            notif'[i].n >= sink - Len(nodeQ) - (Len(notif') - i)
        <3>1. ChangesFrom(i + 1)' => ChangesFrom((i + 1) + 1)
            BY <1>1, <1>3
        <3>2. Len(notif') - i = Len(notif) - (i + 1)
            BY <1>1
        <3>. QED
            BY <2>1, <2>2, <3>1, <3>2
    <2>4. ASSUME NEW j \in 1..(i - 1), \A m \in j..(i - 1) : notif'[m].k = "vcc"
          PROVE  notif'[j].stray
        <3>1. j + 1 \in 1..((i + 1) - 1) /\ j \in 1..Len(notif')
            BY <1>1
        <3>2. \A m \in (j + 1)..((i + 1) - 1) : notif[m].k = "vcc"
            <4>. TAKE m \in (j + 1)..((i + 1) - 1)
            <4>1. m - 1 \in j..(i - 1) /\ m - 1 \in 1..Len(notif') /\ (m - 1) + 1 = m
                BY <1>1
            <4>. QED
                BY <1>1, <2>4, <4>1
        <3>. QED
            BY <1>1, <2>2, <3>1, <3>2
    <2>5. ASSUME NEW j \in 1..(i - 1), notif'[j].k = "connected"
          PROVE  \E m \in (j + 1)..(i - 1) : notif'[m].k = "disconnected"
        <3>1. j + 1 \in 1..((i + 1) - 1) /\ j \in 1..Len(notif') /\ notif[j + 1].k = "connected"
            BY <1>1, <2>5
        <3>2. PICK m \in ((j + 1) + 1)..((i + 1) - 1) : notif[m].k = "disconnected"
            BY <2>2, <3>1
        <3>3. m - 1 \in (j + 1)..(i - 1) /\ m - 1 \in 1..Len(notif') /\ (m - 1) + 1 = m
            BY <1>1
        <3>4. notif'[m - 1].k = "disconnected"
            BY <1>1, <3>2, <3>3
        <3>. QED
            BY <3>3, <3>4
    <2>. QED
        BY <2>1, <2>2, <2>3, <2>4, <2>5
<1>7. DownOrder'
    <2>. SUFFICES ASSUME Down, NEW i \in 1..Len(notif')
                  PROVE  /\ ChangesFrom(i)' => notif'[i].stray
                         /\ notif'[i].k = "connected" =>
                              \E m \in (i + 1)..Len(notif') : notif'[m].k = "disconnected"
        BY <1>2 DEF DownOrder, Down
    <2>1. i + 1 \in 1..Len(notif) /\ notif'[i] = notif[i + 1]
        BY <1>1
    <2>2. ChangesFrom(i)' => notif'[i].stray
        BY <1>3, <2>1 DEF Order, DownOrder
    <2>3. ASSUME notif'[i].k = "connected"
          PROVE  \E m \in (i + 1)..Len(notif') : notif'[m].k = "disconnected"
        <3>1. PICK m \in ((i + 1) + 1)..Len(notif) : notif[m].k = "disconnected"
            BY <2>1, <2>3 DEF Order, DownOrder
        <3>2. m - 1 \in (i + 1)..Len(notif') /\ m - 1 \in 1..Len(notif') /\ (m - 1) + 1 = m
            BY <1>1
        <3>3. notif'[m - 1].k = "disconnected"
            BY <1>1, <3>1, <3>2
        <3>. QED
            BY <3>2, <3>3
    <2>. QED
        BY <2>2, <2>3
<1>. QED
    BY <1>4, <1>5, <1>6, <1>7 DEF Order

\* The queue with a message appended.
LEMMA Appended ==
    ASSUME Types, NEW m \in NotifMsgs, notif' = Append(notif, m)
    PROVE  /\ Len(notif) \in Nat /\ Len(notif') = Len(notif) + 1 /\ notif'[Len(notif) + 1] = m
           /\ \A i \in 1..Len(notif) : notif'[i] = notif[i]
           /\ m.k # "vcc" => \A i \in 1..Len(notif') : ~ChangesFrom(i)'
           /\ \A i \in 1..Len(notif) : ChangesFrom(i)' => ChangesFrom(i)
           /\ \A i \in 1..Len(notif) : ChangesFrom(i + 1)' => ChangesFrom(i + 1)
<1>1. /\ Len(notif) \in Nat /\ Len(notif') = Len(notif) + 1 /\ notif'[Len(notif) + 1] = m
      /\ \A i \in 1..Len(notif) : notif'[i] = notif[i]
    BY DEF Types, NotifsOK
<1>2. m.k # "vcc" => \A i \in 1..Len(notif') : ~ChangesFrom(i)'
    <2>. SUFFICES ASSUME m.k # "vcc", NEW i \in 1..Len(notif')
                  PROVE  \E j \in i..Len(notif') : notif'[j].k # "vcc"
        BY DEF ChangesFrom
    <2>1. Len(notif) + 1 \in i..Len(notif')
        BY <1>1
    <2>. QED
        BY <1>1, <2>1
<1>3. \A i \in 1..(Len(notif) + 1) : ChangesFrom(i)' => ChangesFrom(i)
    <2>. SUFFICES ASSUME NEW i \in 1..(Len(notif) + 1), ChangesFrom(i)', NEW j \in i..Len(notif)
                  PROVE  notif[j].k = "vcc"
        BY DEF ChangesFrom
    <2>1. j \in i..Len(notif') /\ j \in 1..Len(notif)
        BY <1>1
    <2>. QED
        BY <1>1, <2>1 DEF ChangesFrom
<1>. QED
    BY <1>1, <1>2, <1>3

\* What was said of the Connecteds in the queue still holds when a message is
\* appended.
LEMMA ConnectedStay ==
    ASSUME Types, Order, NEW m \in NotifMsgs, notif' = Append(notif, m), UNCHANGED <<sink, pp>>,
           NEW i \in 1..Len(notif), notif'[i].k = "connected"
    PROVE  /\ notif'[i].n <= sink
           /\ notif'[i].pp # 0 => notif'[i].pp \in Chain[pp]
           /\ \A j \in 1..(i - 1) : (\A l \in j..(i - 1) : notif'[l].k = "vcc") => notif'[j].stray
           /\ \A j \in 1..(i - 1) : notif'[j].k = "connected" =>
                \E l \in (j + 1)..(i - 1) : notif'[l].k = "disconnected"
<1>1. \A j \in 1..i : notif'[j] = notif[j]
    BY Appended
<1>2. /\ notif[i].n <= sink
      /\ notif[i].pp # 0 => notif[i].pp \in Chain[pp]
      /\ \A j \in 1..(i - 1) : (\A l \in j..(i - 1) : notif[l].k = "vcc") => notif[j].stray
      /\ \A j \in 1..(i - 1) : notif[j].k = "connected" =>
           \E l \in (j + 1)..(i - 1) : notif[l].k = "disconnected"
    BY <1>1 DEF Order, ConnectedOrder
<1>3. \A j \in 1..(i - 1) : \A l \in j..(i - 1) : l \in 1..i
    OBVIOUS
<1>4. \A j \in 1..(i - 1) : \A l \in (j + 1)..(i - 1) : l \in 1..i
    OBVIOUS
<1>5. i \in 1..i
    OBVIOUS
<1>6. \A j \in 1..(i - 1) : (\A l \in j..(i - 1) : notif'[l].k = "vcc") => notif'[j].stray
    <2>. TAKE j \in 1..(i - 1)
    <2>. HAVE \A l \in j..(i - 1) : notif'[l].k = "vcc"
    <2>1. \A l \in j..(i - 1) : notif[l].k = "vcc"
        BY <1>1, <1>3
    <2>2. j \in 1..i
        OBVIOUS
    <2>. QED
        BY <1>1, <1>2, <2>1, <2>2
<1>7. \A j \in 1..(i - 1) : notif'[j].k = "connected" =>
           \E l \in (j + 1)..(i - 1) : notif'[l].k = "disconnected"
    <2>. TAKE j \in 1..(i - 1)
    <2>. HAVE notif'[j].k = "connected"
    <2>1. j \in 1..i
        OBVIOUS
    <2>2. PICK l \in (j + 1)..(i - 1) : notif[l].k = "disconnected"
        BY <1>1, <1>2, <2>1
    <2>. QED
        BY <1>1, <1>4, <2>2
<1>. QED
    BY <1>1, <1>2, <1>5, <1>6, <1>7

\* A Disconnected or a Shutdown is sent.
LEMMA OrderSays ==
    ASSUME Types, Order, NEW m \in NotifMsgs, notif' = Append(notif, m),
           m.k \in {"disconnected", "shutdown"}, UNCHANGED <<sink, pp>>,
           Down' => Down \/ m.k = "disconnected"
    PROVE  PruneOK' /\ LiveOrder' /\ ConnectedOrder' /\ DownOrder'
<1>1. \A i \in 1..Len(notif') : ~ChangesFrom(i)'
    BY Appended
<1>2. /\ Len(notif) \in Nat /\ Len(notif') = Len(notif) + 1 /\ notif'[Len(notif) + 1] = m
      /\ \A i \in 1..Len(notif) : notif'[i] = notif[i]
    BY Appended
<1>3. LiveOrder' /\ PruneOK'
    BY <1>1 DEF LiveOrder, Order, PruneOK
<1>4. ConnectedOrder'
    <2>. SUFFICES ASSUME NEW i \in 1..Len(notif'), notif'[i].k = "connected"
                  PROVE  /\ notif'[i].n <= sink
                         /\ notif'[i].pp # 0 => notif'[i].pp \in Chain[pp]
                         /\ ~ChangesFrom(i + 1)'
                         /\ \A j \in 1..(i - 1) :
                              (\A l \in j..(i - 1) : notif'[l].k = "vcc") => notif'[j].stray
                         /\ \A j \in 1..(i - 1) : notif'[j].k = "connected" =>
                              \E l \in (j + 1)..(i - 1) : notif'[l].k = "disconnected"
        BY DEF ConnectedOrder
    <2>1. i \in 1..Len(notif) /\ i + 1 \in 1..Len(notif')
        BY <1>2
    <2>. QED
        BY <1>1, <2>1, ConnectedStay
<1>5. DownOrder'
    <2>. SUFFICES ASSUME Down', NEW i \in 1..Len(notif'), notif'[i].k = "connected"
                  PROVE  \E l \in (i + 1)..Len(notif') : notif'[l].k = "disconnected"
        BY <1>1 DEF DownOrder
    <2>1. i \in 1..Len(notif) /\ notif[i].k = "connected"
        BY <1>2
    <2>2. CASE m.k = "disconnected"
        <3>1. Len(notif) + 1 \in (i + 1)..Len(notif')
            BY <1>2, <2>1
        <3>. QED
            BY <1>2, <2>2, <3>1
    <2>3. CASE Down
        <3>1. PICK l \in (i + 1)..Len(notif) : notif[l].k = "disconnected"
            BY <2>1, <2>3 DEF Order, DownOrder
        <3>2. l \in (i + 1)..Len(notif') /\ l \in 1..Len(notif)
            BY <1>2
        <3>. QED
            BY <1>2, <3>1, <3>2
    <2>. QED
        BY <2>2, <2>3
<1>. QED
    BY <1>3, <1>4, <1>5

LEMMA OrderHangup ==
    ASSUME Types, Order, Hangup, ~shuttingDown
    PROVE  Order'
<1>. DEFINE m == Msg("disconnected", None, FALSE)
<1>1. m \in NotifMsgs /\ m.k = "disconnected"
    BY MsgType
<1>2. /\ notif' = Append(notif, m) /\ link' = "down" /\ UNCHANGED <<sink, pp, shuttingDown>>
      /\ nodeQ' = [i \in DOMAIN nodeQ |-> [nodeQ[i] EXCEPT !.stray = TRUE]]
    BY DEF Hangup
<1>. HIDE DEF m
<1>3. \A i \in 1..Len(nodeQ') : nodeQ'[i].stray
    <2>1. nodeQ \in Seq(NodeMsgs) /\ DOMAIN nodeQ = 1..Len(nodeQ) /\ Len(nodeQ) \in Nat
        BY DEF Types, NodeT
    <2>2. nodeQ' = [i \in 1..Len(nodeQ) |-> [nodeQ[i] EXCEPT !.stray = TRUE]]
        BY <1>2, <2>1
    <2>3. Len(nodeQ') = Len(nodeQ)
        BY <2>1, <2>2
    <2>4. \A i \in 1..Len(nodeQ) : nodeQ'[i] = [nodeQ[i] EXCEPT !.stray = TRUE]
        BY <2>2
    <2>5. \A x \in NodeMsgs : [x EXCEPT !.stray = TRUE].stray
        BY Zenon DEF NodeMsgs
    <2>6. \A i \in 1..Len(nodeQ) : nodeQ[i] \in NodeMsgs
        BY Queues
    <2>7. \A i \in 1..Len(nodeQ) : nodeQ'[i].stray
        BY <2>4, <2>5, <2>6, Zenon
    <2>. QED
        BY <2>3, <2>7, Zenon
<1>4. NodeOrder'
    BY <1>2, <1>3, Zenon DEF NodeOrder
<1>5. PruneOK' /\ LiveOrder' /\ ConnectedOrder' /\ DownOrder'
    BY <1>1, <1>2, OrderSays
<1>. QED
    BY <1>4, <1>5 DEF Order

\* A new sink is notified.
LEMMA OrderNewSink ==
    ASSUME Types, Order, NewSink
    PROVE  Order'
<1>1. /\ sink' = sink + 1 /\ UNCHANGED <<pp, link, shuttingDown, notif>>
      /\ link \notin {"registering", "up"} => UNCHANGED nodeQ
      /\ link \in {"registering", "up"} =>
           nodeQ' = Append(nodeQ, [v |-> Change(sink, sink + 1), stray |-> FALSE])
    BY DEF NewSink
<1>2. sink \in Nat /\ Len(nodeQ) \in Nat /\ Len(notif) \in Nat
      /\ \A i \in 1..Len(notif) : notif[i] \in NotifMsgs
    BY Queues
<1>3. link \in {"registering", "up"} =>
        /\ Len(nodeQ') = Len(nodeQ) + 1
        /\ \A i \in 1..Len(nodeQ) : nodeQ'[i] = nodeQ[i]
        /\ nodeQ'[Len(nodeQ) + 1].v = Change(sink, sink + 1)
    <2>1. nodeQ \in Seq(NodeMsgs)
        BY DEF Types, NodeT
    <2>. DEFINE m == [v |-> Change(sink, sink + 1), stray |-> FALSE]
    <2>2. m.v = Change(sink, sink + 1)
        OBVIOUS
    <2>3. m \in NodeMsgs
        <3>1. sink + 1 \in Blocks /\ sink \in Blocks
            BY Bounds DEF NewSink, Types, NodeT, Blocks
        <3>2. Change(sink, sink + 1) \in Changes
            BY <3>1, ChangeType
        <3>. QED
            BY <3>2, Zenon DEF NodeMsgs
    <2>. HIDE DEF m
    <2>4. link \in {"registering", "up"} => nodeQ' = Append(nodeQ, m)
        BY <1>1 DEF m
    <2>. QED
        BY <2>1, <2>2, <2>3, <2>4
<1>4. PruneOK'
    <2>1. \A b \in Blocks : b >= sink + 1 => b >= sink
        BY <1>2, Bounds DEF Blocks
    <2>2. sink' = sink + 1 /\ pp' = pp
        BY <1>1
    <2>3. PruneOK
        BY DEF Order
    <2>. QED
        BY <2>1, <2>2, <2>3 DEF PruneOK
<1>5. NodeOrder'
    <2>1. CASE link \in {"registering", "up"}
        <3>. SUFFICES ASSUME NEW i \in 1..Len(nodeQ'), ~nodeQ'[i].stray
                      PROVE  /\ sink' - Len(nodeQ') + i >= 1
                             /\ nodeQ'[i].v = Step(sink' - Len(nodeQ') + i)
            BY <1>1, <2>1 DEF NodeOrder, Order, Step, Change
        <3>1. CASE i \in 1..Len(nodeQ)
            <4>1. sink' - Len(nodeQ') + i = sink - Len(nodeQ) + i
                BY <1>1, <1>2, <1>3, <2>1
            <4>. QED
                BY <1>3, <2>1, <3>1, <4>1 DEF Order, NodeOrder
        <3>2. CASE i = Len(nodeQ) + 1
            <4>2. sink' = sink + 1 /\ Len(nodeQ') = Len(nodeQ) + 1
                BY <1>1, <1>3, <2>1
            <4>3. sink \in Nat /\ Len(nodeQ) \in Nat
                BY <1>2
            <4>1. sink' - Len(nodeQ') + i = sink + 1 /\ (sink + 1) - 1 = sink /\ sink + 1 >= 1
                BY <3>2, <4>2, <4>3
            <4>. QED
                BY <1>3, <2>1, <3>2, <4>1 DEF Step
        <3>. QED
            BY <1>2, <1>3, <2>1, <3>1, <3>2
    <2>2. CASE link \notin {"registering", "up"}
        <3>1. nodeQ' = nodeQ /\ link' = link /\ shuttingDown' = shuttingDown
            BY <1>1, <2>2
        <3>. QED
            BY <2>2, <3>1, Zenon DEF NodeOrder, Order
    <2>. QED
        BY <2>1, <2>2
<1>6. link = "up" => \A n \in Int : sink' - Len(nodeQ') - n = sink - Len(nodeQ) - n
    BY <1>1, <1>2, <1>3
<1>7. \A i : ChangesFrom(i)' <=> ChangesFrom(i)
    BY <1>1 DEF ChangesFrom
<1>8. LiveOrder'
    <2>. SUFFICES ASSUME link = "up", NEW i \in 1..Len(notif), ChangesFrom(i), ~notif[i].stray
                  PROVE  /\ sink' - Len(nodeQ') - (Len(notif) - i) >= 1
                         /\ notif[i].v = Step(sink' - Len(nodeQ') - (Len(notif) - i))
        BY <1>1, <1>7 DEF LiveOrder, Step, Change
    <2>. QED
        BY <1>2, <1>6 DEF Order, LiveOrder
<1>9. ConnectedOrder'
    <2>. SUFFICES ASSUME NEW i \in 1..Len(notif'), notif'[i].k = "connected"
                  PROVE  /\ notif'[i].n <= sink'
                         /\ notif'[i].pp # 0 => notif'[i].pp \in Chain[pp']
                         /\ link' = "up" /\ ChangesFrom(i + 1)' =>
                              notif'[i].n >= sink' - Len(nodeQ') - (Len(notif') - i)
                         /\ \A j \in 1..(i - 1) :
                              (\A m \in j..(i - 1) : notif'[m].k = "vcc") => notif'[j].stray
                         /\ \A j \in 1..(i - 1) : notif'[j].k = "connected" =>
                              \E m \in (j + 1)..(i - 1) : notif'[m].k = "disconnected"
        BY Zenon DEF ConnectedOrder
    <2>0. /\ notif' = notif /\ pp' = pp /\ link' = link
          /\ i \in 1..Len(notif) /\ notif[i].k = "connected" /\ i + 1 \in Int
        BY <1>1, <1>2
    <2>1. notif[i].n \in Nat
        BY <1>2, <2>0, Bounds DEF NotifMsgs
    <2>2. /\ notif[i].n <= sink
          /\ notif[i].pp # 0 => notif[i].pp \in Chain[pp]
          /\ link = "up" /\ ChangesFrom(i + 1) =>
               notif[i].n >= sink - Len(nodeQ) - (Len(notif) - i)
          /\ \A j \in 1..(i - 1) :
               (\A m \in j..(i - 1) : notif[m].k = "vcc") => notif[j].stray
          /\ \A j \in 1..(i - 1) : notif[j].k = "connected" =>
               \E m \in (j + 1)..(i - 1) : notif[m].k = "disconnected"
        BY <2>0 DEF Order, ConnectedOrder
    <2>3. link' = "up" /\ ChangesFrom(i + 1)' =>
            notif'[i].n >= sink' - Len(nodeQ') - (Len(notif') - i)
        BY <1>2, <1>6, <1>7, <2>0, <2>2
    <2>4. notif'[i].n <= sink'
        BY <1>1, <1>2, <2>0, <2>1, <2>2
    <2>. QED
        BY <2>0, <2>2, <2>3, <2>4, Zenon
<1>10. DownOrder'
    BY <1>1, <1>7 DEF Order, DownOrder, Down
<1>. QED
    BY <1>4, <1>5, <1>8, <1>9, <1>10 DEF Order

\* The message that announces a connection.
LEMMA ConnectedMsg ==
    ASSUME Types
    PROVE  LET m == [Msg("connected", None, FALSE) EXCEPT !.n = sink, !.pp = pp]
           IN  m \in NotifMsgs /\ m.k = "connected" /\ m.n = sink /\ m.pp = pp
<1>. DEFINE m == [Msg("connected", None, FALSE) EXCEPT !.n = sink, !.pp = pp]
<1>. SUFFICES m \in NotifMsgs /\ m.k = "connected" /\ m.n = sink /\ m.pp = pp
    OBVIOUS
<1>. DEFINE m0 == Msg("connected", None, FALSE)
<1>1. m0 \in NotifMsgs /\ m0.k = "connected"
    BY MsgType
<1>2. \A x \in NotifMsgs : \A n, p \in Blocks : \A y :
        y = [x EXCEPT !.n = n, !.pp = p] => y.n = n /\ y.pp = p
    BY DEF NotifMsgs
<1>3. sink \in Blocks /\ pp \in Blocks
    BY DEF Types, NodeT
<1>4. m = [m0 EXCEPT !.n = sink, !.pp = pp]
    OBVIOUS
<1>. HIDE DEF m0, m
<1>5. m \in NotifMsgs /\ m.k = m0.k
    BY <1>1, <1>3, <1>4, ConnectedType, Zenon
<1>6. m.n = sink /\ m.pp = pp
    BY <1>1, <1>3, <1>4 DEF NotifMsgs
<1>. QED
    BY <1>1, <1>5, <1>6

\* The listeners are registered and the sink is announced.
LEMMA OrderConnectOk ==
    ASSUME Types, Order, ConnectOk
    PROVE  Order'
<1>. DEFINE m == [Msg("connected", None, FALSE) EXCEPT !.n = sink, !.pp = pp]
<1>1. m \in NotifMsgs /\ m.k = "connected" /\ m.n = sink /\ m.pp = pp
    BY ConnectedMsg
<1>2. /\ notif' = Append(notif, m) /\ link = "registering" /\ link' = "up"
      /\ UNCHANGED <<sink, pp, shuttingDown, nodeQ>>
    BY DEF ConnectOk
<1>. HIDE DEF m
<1>3. ~shuttingDown /\ Down
    BY <1>2 DEF Order, NodeOrder, Down
<1>4. \A i \in 1..Len(notif') : ~ChangesFrom(i)'
    BY <1>1, <1>2, Appended
<1>5. /\ Len(notif) \in Nat /\ Len(notif') = Len(notif) + 1 /\ notif'[Len(notif) + 1] = m
      /\ \A i \in 1..Len(notif) : notif'[i] = notif[i]
    BY <1>1, <1>2, Appended
<1>6. PruneOK' /\ NodeOrder'
    BY <1>2, <1>3 DEF Order, PruneOK, NodeOrder, Step, Change
<1>7. LiveOrder' /\ DownOrder'
    BY <1>2, <1>4 DEF LiveOrder, DownOrder, Down
<1>8. ConnectedOrder'
    <2>. SUFFICES ASSUME NEW i \in 1..Len(notif'), notif'[i].k = "connected"
                  PROVE  /\ notif'[i].n <= sink
                         /\ notif'[i].pp # 0 => notif'[i].pp \in Chain[pp]
                         /\ ChangesFrom(i + 1)' =>
                              notif'[i].n >= sink - Len(nodeQ) - (Len(notif') - i)
                         /\ \A j \in 1..(i - 1) :
                              (\A l \in j..(i - 1) : notif'[l].k = "vcc") => notif'[j].stray
                         /\ \A j \in 1..(i - 1) : notif'[j].k = "connected" =>
                              \E l \in (j + 1)..(i - 1) : notif'[l].k = "disconnected"
        BY <1>2 DEF ConnectedOrder
    <2>1. CASE i \in 1..Len(notif)
        <3>1. ~ChangesFrom(i + 1)'
            BY <1>4, <1>5, <2>1
        <3>. QED
            BY <1>1, <1>2, <2>1, <3>1, ConnectedStay
    <2>2. CASE i = Len(notif) + 1
        <3>1. sink \in Nat /\ Len(nodeQ) \in Nat
            BY Queues
        <3>2. pp # 0 => pp \in Chain[pp]
            BY ChainFacts DEF Types, NodeT
        <3>3. notif'[i].n = sink /\ notif'[i].pp = pp /\ i - 1 = Len(notif)
            BY <1>1, <1>5, <2>2
        <3>4. ASSUME NEW j \in 1..Len(notif), \A l \in j..Len(notif) : notif'[l].k = "vcc"
              PROVE  notif'[j].stray
            <4>1. ChangesFrom(j)
                <5>1. \A l \in j..Len(notif) : l \in 1..Len(notif)
                    OBVIOUS
                <5>. QED
                    BY <1>5, <3>4, <5>1 DEF ChangesFrom
            <4>. QED
                BY <1>3, <1>5, <4>1 DEF Order, DownOrder
        <3>5. ASSUME NEW j \in 1..Len(notif), notif'[j].k = "connected"
              PROVE  \E l \in (j + 1)..Len(notif) : notif'[l].k = "disconnected"
            <4>1. PICK l \in (j + 1)..Len(notif) : notif[l].k = "disconnected"
                BY <1>3, <1>5, <3>5 DEF Order, DownOrder
            <4>2. l \in 1..Len(notif)
                OBVIOUS
            <4>. QED
                BY <1>5, <4>1, <4>2
        <3>6. sink >= sink - Len(nodeQ) - (Len(notif') - i)
            BY <1>5, <2>2, <3>1
        <3>. QED
            BY <3>1, <3>2, <3>3, <3>4, <3>5, <3>6
    <2>. QED
        BY <1>5, <2>1, <2>2
<1>. QED
    BY <1>6, <1>7, <1>8 DEF Order

\* A change is forwarded.
LEMMA OrderForward ==
    ASSUME Types, Order, HandleNotification
    PROVE  Order'
<1>. DEFINE m == Msg("vcc", Head(nodeQ).v, Head(nodeQ).stray)
<1>1. /\ nodeQ \in Seq(NodeMsgs) /\ nodeQ # <<>> /\ Len(nodeQ) \in Nat \ {0} /\ sink \in Nat
      /\ Head(nodeQ) = nodeQ[1] /\ nodeQ[1] \in NodeMsgs
    BY Queues DEF HandleNotification, Types, NodeT
<1>2. nodeQ[1].v \in Changes /\ nodeQ[1].stray \in BOOLEAN
    BY <1>1, Zenon DEF NodeMsgs
<1>3. m \in NotifMsgs /\ m.k = "vcc" /\ m.v = nodeQ[1].v /\ m.stray = nodeQ[1].stray
    <2>1. m \in NotifMsgs /\ m.k = "vcc" /\ m.v = nodeQ[1].v
        BY <1>1, <1>2, MsgType
    <2>2. m.stray = Head(nodeQ).stray
        BY Zenon DEF Msg
    <2>. QED
        BY <1>1, <2>1, <2>2
<1>4. /\ notif' = Append(notif, m) /\ nodeQ' = Tail(nodeQ) /\ link # "registering"
      /\ UNCHANGED <<sink, pp, link, shuttingDown>>
    BY DEF HandleNotification, DataSourceIdle
<1>. HIDE DEF m
<1>5. /\ Len(notif) \in Nat /\ Len(notif') = Len(notif) + 1 /\ notif'[Len(notif) + 1] = m
      /\ \A i \in 1..Len(notif) : notif'[i] = notif[i]
      /\ \A i \in 1..Len(notif) : ChangesFrom(i)' => ChangesFrom(i)
      /\ \A i \in 1..Len(notif) : ChangesFrom(i + 1)' => ChangesFrom(i + 1)
    BY <1>3, <1>4, Appended
<1>6. /\ Len(nodeQ') = Len(nodeQ) - 1
      /\ \A i \in 1..Len(nodeQ') : nodeQ'[i] = nodeQ[i + 1] /\ i + 1 \in 1..Len(nodeQ)
    BY <1>1, <1>4
<1>7. PruneOK'
    BY <1>4 DEF Order, PruneOK
<1>8. NodeOrder'
    <2>1. shuttingDown' => link' = "down"
        BY <1>4 DEF Order, NodeOrder
    <2>2. link' = "down" /\ ~shuttingDown' => \A i \in 1..Len(nodeQ') : nodeQ'[i].stray
        BY <1>4, <1>6, Zenon DEF Order, NodeOrder
    <2>3. ASSUME link' \in {"registering", "up"}, NEW i \in 1..Len(nodeQ'), ~nodeQ'[i].stray
          PROVE  sink' - Len(nodeQ') + i >= 1 /\ nodeQ'[i].v = Step(sink' - Len(nodeQ') + i)
        <3>1. i + 1 \in 1..Len(nodeQ) /\ ~nodeQ[i + 1].stray /\ nodeQ'[i].v = nodeQ[i + 1].v
            BY <1>6, <2>3
        <3>2. sink' - Len(nodeQ') + i = sink - Len(nodeQ) + (i + 1)
            BY <1>1, <1>4, <1>6
        <3>. QED
            BY <1>4, <2>3, <3>1, <3>2 DEF Order, NodeOrder
    <2>. QED
        BY <2>1, <2>2, <2>3 DEF NodeOrder, Step, Change
<1>9. LiveOrder'
    <2>. SUFFICES ASSUME link = "up", NEW i \in 1..Len(notif'), ChangesFrom(i)', ~notif'[i].stray
                  PROVE  /\ sink - Len(nodeQ') - (Len(notif') - i) >= 1
                         /\ notif'[i].v = Step(sink - Len(nodeQ') - (Len(notif') - i))
        BY <1>4 DEF LiveOrder, Step, Change
    <2>1. CASE i \in 1..Len(notif)
        <3>1. sink - Len(nodeQ') - (Len(notif') - i) = sink - Len(nodeQ) - (Len(notif) - i)
            BY <1>1, <1>5, <1>6
        <3>. QED
            BY <1>5, <2>1, <3>1 DEF Order, LiveOrder
    <2>2. CASE i = Len(notif) + 1
        <3>1. sink - Len(nodeQ') - (Len(notif') - i) = sink - Len(nodeQ) + 1
            BY <1>1, <1>5, <1>6, <2>2
        <3>2. ~nodeQ[1].stray /\ 1 \in 1..Len(nodeQ)
            BY <1>1, <1>3, <1>5, <2>2
        <3>3. sink - Len(nodeQ) + 1 >= 1 /\ nodeQ[1].v = Step(sink - Len(nodeQ) + 1)
            BY <3>2 DEF Order, NodeOrder
        <3>. QED
            BY <1>3, <1>5, <2>2, <3>1, <3>3
    <2>. QED
        BY <1>5, <2>1, <2>2
<1>10. ConnectedOrder'
    <2>. SUFFICES ASSUME NEW i \in 1..Len(notif'), notif'[i].k = "connected"
                  PROVE  /\ notif'[i].n <= sink
                         /\ notif'[i].pp # 0 => notif'[i].pp \in Chain[pp]
                         /\ link = "up" /\ ChangesFrom(i + 1)' =>
                              notif'[i].n >= sink - Len(nodeQ') - (Len(notif') - i)
                         /\ \A j \in 1..(i - 1) :
                              (\A l \in j..(i - 1) : notif'[l].k = "vcc") => notif'[j].stray
                         /\ \A j \in 1..(i - 1) : notif'[j].k = "connected" =>
                              \E l \in (j + 1)..(i - 1) : notif'[l].k = "disconnected"
        BY <1>4 DEF ConnectedOrder
    <2>1. i \in 1..Len(notif)
        BY <1>3, <1>5
    <2>2. sink - Len(nodeQ') - (Len(notif') - i) = sink - Len(nodeQ) - (Len(notif) - i)
        BY <1>1, <1>5, <1>6
    <2>3. link = "up" /\ ChangesFrom(i + 1)' =>
            notif'[i].n >= sink - Len(nodeQ') - (Len(notif') - i)
        BY <1>5, <2>1, <2>2 DEF Order, ConnectedOrder
    <2>. QED
        BY <1>3, <1>4, <2>1, <2>3, ConnectedStay
<1>11. DownOrder'
    <2>. SUFFICES ASSUME Down, NEW i \in 1..Len(notif')
                  PROVE  /\ ChangesFrom(i)' => notif'[i].stray
                         /\ notif'[i].k = "connected" =>
                              \E l \in (i + 1)..Len(notif') : notif'[l].k = "disconnected"
        BY <1>4 DEF DownOrder, Down
    <2>1. CASE i \in 1..Len(notif)
        <3>1. ChangesFrom(i)' => notif'[i].stray
            BY <1>5, <2>1 DEF Order, DownOrder
        <3>2. ASSUME notif'[i].k = "connected"
              PROVE  \E l \in (i + 1)..Len(notif') : notif'[l].k = "disconnected"
            <4>1. PICK l \in (i + 1)..Len(notif) : notif[l].k = "disconnected"
                BY <1>5, <2>1, <3>2 DEF Order, DownOrder
            <4>2. l \in 1..Len(notif) /\ l \in (i + 1)..Len(notif')
                BY <1>5, <2>1
            <4>. QED
                BY <1>5, <4>1, <4>2
        <3>. QED
            BY <3>1, <3>2
    <2>2. CASE i = Len(notif) + 1
        <3>1. link = "down" /\ ~shuttingDown /\ 1 \in 1..Len(nodeQ)
            BY <1>1, <1>4 DEF Down
        <3>2. nodeQ[1].stray
            BY <3>1, Zenon DEF Order, NodeOrder
        <3>3. notif'[i].stray /\ notif'[i].k = "vcc"
            BY <1>3, <1>5, <2>2, <3>2
        <3>. QED
            BY <3>3
    <2>. QED
        BY <1>5, <2>1, <2>2
<1>. QED
    BY <1>7, <1>8, <1>9, <1>10, <1>11 DEF Order

\* A step that leaves the node, the connection and the queue of the processor alone.
LEMMA OrderSame ==
    ASSUME Order, UNCHANGED <<nodeVars, notif>>
    PROVE  Order'
<1>1. UNCHANGED <<sink, pp, link, shuttingDown, nodeQ, notif>>
    BY DEF nodeVars
<1>2. PruneOK' /\ LiveOrder'
    BY <1>1 DEF Order, PruneOK, LiveOrder, ChangesFrom, Step, Change
<1>5. NodeOrder'
    <2>1. shuttingDown' => link' = "down"
        BY <1>1 DEF Order, NodeOrder
    <2>2. link' = "down" /\ ~shuttingDown' => \A i \in 1..Len(nodeQ') : nodeQ'[i].stray
        BY <1>1, Zenon DEF Order, NodeOrder
    <2>3. ASSUME link' \in {"registering", "up"}, NEW i \in 1..Len(nodeQ'), ~nodeQ'[i].stray
          PROVE  sink' - Len(nodeQ') + i >= 1 /\ nodeQ'[i].v = Step(sink' - Len(nodeQ') + i)
        BY <1>1, <2>3 DEF Order, NodeOrder
    <2>. QED
        BY <2>1, <2>2, <2>3 DEF NodeOrder, Step, Change
<1>3. ConnectedOrder'
    <2>. SUFFICES ASSUME NEW i \in 1..Len(notif'), notif'[i].k = "connected"
                  PROVE  /\ notif'[i].n <= sink'
                         /\ notif'[i].pp # 0 => notif'[i].pp \in Chain[pp']
                         /\ link' = "up" /\ ChangesFrom(i + 1)' =>
                              notif'[i].n >= sink' - Len(nodeQ') - (Len(notif') - i)
                         /\ \A j \in 1..(i - 1) :
                              (\A m \in j..(i - 1) : notif'[m].k = "vcc") => notif'[j].stray
                         /\ \A j \in 1..(i - 1) : notif'[j].k = "connected" =>
                              \E m \in (j + 1)..(i - 1) : notif'[m].k = "disconnected"
        BY Zenon DEF ConnectedOrder
    <2>1. i \in 1..Len(notif) /\ notif[i].k = "connected"
        BY <1>1
    <2>2. ChangesFrom(i + 1)' <=> ChangesFrom(i + 1)
        BY <1>1 DEF ChangesFrom
    <2>3. /\ notif[i].n <= sink
          /\ notif[i].pp # 0 => notif[i].pp \in Chain[pp]
          /\ link = "up" /\ ChangesFrom(i + 1) =>
               notif[i].n >= sink - Len(nodeQ) - (Len(notif) - i)
          /\ \A j \in 1..(i - 1) :
               (\A m \in j..(i - 1) : notif[m].k = "vcc") => notif[j].stray
          /\ \A j \in 1..(i - 1) : notif[j].k = "connected" =>
               \E m \in (j + 1)..(i - 1) : notif[m].k = "disconnected"
        BY <2>1 DEF Order, ConnectedOrder
    <2>. QED
        BY <1>1, <2>2, <2>3, Zenon
<1>4. DownOrder'
    BY <1>1 DEF Order, DownOrder, Down, ChangesFrom
<1>. QED
    BY <1>2, <1>3, <1>4, <1>5 DEF Order

\* The order is kept by the node and DataSource.
LEMMA OrderNode ==
    ASSUME Types, Order, NodeNext \/ DataSourceNext
    PROVE  Order'
<1>1. CASE NewSink
    BY <1>1, OrderNewSink
<1>2. CASE Prune
    <2>1. /\ UNCHANGED <<sink, link, shuttingDown, nodeQ, notif>>
          /\ PruneOK /\ PruneOK'
          /\ \A q \in Blocks : (q # 0 => q \in Chain[pp]) => (q # 0 => q \in Chain[pp'])
        BY <1>2, PruneMoves DEF Order, Prune
    <2>2. NodeOrder' /\ LiveOrder' /\ DownOrder'
        BY <2>1 DEF Order, NodeOrder, LiveOrder, DownOrder, Down, ChangesFrom, Step, Change
    <2>3. \A i \in 1..Len(notif) : notif[i].pp \in Blocks
        BY Queues DEF NotifMsgs
    <2>4. ConnectedOrder'
        BY <2>1, <2>3 DEF Order, ConnectedOrder, ChangesFrom
    <2>. QED
        BY <2>1, <2>2, <2>4 DEF Order
<1>3. CASE LinkDrops
    <2>1. UNCHANGED <<sink, pp, shuttingDown, nodeQ, notif>> /\ link = "up" /\ link' = "dropped"
        BY <1>3 DEF LinkDrops
    <2>2. PruneOK' /\ NodeOrder' /\ LiveOrder' /\ DownOrder'
        BY <2>1 DEF Order, PruneOK, NodeOrder, LiveOrder, DownOrder, Down
    <2>3. ConnectedOrder'
        BY <2>1 DEF Order, ConnectedOrder
    <2>. QED
        BY <2>2, <2>3 DEF Order
<1>4. CASE Register
    <2>1. /\ UNCHANGED <<sink, pp, shuttingDown, nodeQ, notif>> /\ link = "down" /\ ~shuttingDown
          /\ link' = "registering"
        BY <1>4 DEF Register
    <2>2. PruneOK' /\ NodeOrder' /\ LiveOrder'
        BY <2>1 DEF Order, PruneOK, NodeOrder, LiveOrder
    <2>3. DownOrder'
        BY <2>1 DEF Order, DownOrder, Down, ChangesFrom
    <2>4. ConnectedOrder'
        BY <2>1 DEF Order, ConnectedOrder
    <2>. QED
        BY <2>2, <2>3, <2>4 DEF Order
<1>5. CASE ConnectOk
    BY <1>5, OrderConnectOk
<1>6. CASE ConnectFails \/ HandleDisconnect
    <2>1. Hangup /\ link # "down"
        BY <1>6 DEF ConnectFails, HandleDisconnect
    <2>2. ~shuttingDown
        BY <2>1 DEF Order, NodeOrder
    <2>. QED
        BY <2>1, <2>2, OrderHangup
<1>7. CASE HandleNotification
    BY <1>7, OrderForward
<1>8. CASE HandleShutdown \/ HandleBlockClosed
    <2>. DEFINE m == Msg("shutdown", None, FALSE)
    <2>1. m \in NotifMsgs /\ m.k = "shutdown"
        BY MsgType
    <2>2. /\ notif' = Append(notif, m) /\ UNCHANGED <<sink, pp, nodeQ>>
          /\ \/ shuttingDown' /\ link' = "down"
             \/ UNCHANGED <<link, shuttingDown>>
        BY <1>8 DEF HandleShutdown, HandleBlockClosed, nodeVars
    <2>. HIDE DEF m
    <2>3. Down' => Down
        BY <2>2 DEF Down
    <2>4. PruneOK' /\ LiveOrder' /\ ConnectedOrder' /\ DownOrder'
        BY <2>1, <2>2, <2>3, OrderSays
    <2>5. NodeOrder'
        BY <2>2 DEF Order, NodeOrder, Step, Change
    <2>. QED
        BY <2>4, <2>5 DEF Order
<1>. QED
    BY <1>1, <1>2, <1>3, <1>4, <1>5, <1>6, <1>7, <1>8 DEF NodeNext, DataSourceNext

\* The order is kept by every step.
LEMMA OrderNext ==
    ASSUME Types, Order, [Next]_vars
    PROVE  Order'
<1>1. CASE NodeNext \/ DataSourceNext
    BY <1>1, OrderNode
<1>2. CASE TakeNotification
    <2>1. notif # <<>> /\ notif' = Tail(notif) /\ UNCHANGED nodeVars
        BY <1>2 DEF TakeNotification, Connected, Disconnected, Shutdown, RealtimeVcc, Receives
    <2>. QED
        BY <2>1, OrderTake
<1>3. CASE Restart
    <2>1. /\ nodeQ' = <<>> /\ notif' = <<>> /\ link' = "down" /\ ~shuttingDown'
          /\ UNCHANGED <<sink, pp>>
        BY <1>3 DEF Restart
    <2>. QED
        BY <2>1 DEF Order, PruneOK, NodeOrder, LiveOrder, ConnectedOrder, DownOrder
<1>4. CASE SyncerNext
    <2>1. UNCHANGED <<nodeVars, notif>>
        BY <1>4 DEF SyncerNext, ParkRequest, RefuseRequest, AnswerRequest, PrunedRequest,
                    FailRequest, TakeStop, TakeContinue
    <2>. QED
        BY <2>1, OrderSame
<1>5. CASE TakeSyncer \/ Drain \/ \E b \in 1..MaxBlock : ProcessedBlock(b)
    <2>1. UNCHANGED <<nodeVars, notif>>
        BY <1>5 DEF TakeSyncer, SyncerVc, SyncerStopped, Drain, ProcessedBlock
    <2>. QED
        BY <2>1, OrderSame
<1>6. CASE UNCHANGED vars
    BY <1>6, OrderSame DEF vars
<1>. QED
    BY <1>1, <1>2, <1>3, <1>4, <1>5, <1>6 DEF Next

\* The queue without its first message.
LEMMA Taken ==
    ASSUME Types, notif # <<>>, notif' = Tail(notif)
    PROVE  /\ Len(notif) \in Nat \ {0} /\ Len(notif') = Len(notif) - 1 /\ Head(notif) = notif[1]
           /\ \A i \in 1..Len(notif') : notif'[i] = notif[i + 1] /\ i + 1 \in 1..Len(notif)
           /\ \A i \in 2..Len(notif) : i - 1 \in 1..Len(notif') /\ notif'[i - 1] = notif[i]
           /\ \A i \in 1..(Len(notif') + 1) : ChangesFrom(i)' => ChangesFrom(i + 1)
<1>1. /\ Len(notif) \in Nat \ {0} /\ Len(notif') = Len(notif) - 1 /\ Head(notif) = notif[1]
      /\ \A i \in 1..Len(notif') : notif'[i] = notif[i + 1] /\ i + 1 \in 1..Len(notif)
    BY DEF Types, NotifsOK
<1>2. \A i \in 2..Len(notif) : i - 1 \in 1..Len(notif') /\ notif'[i - 1] = notif[i]
    <2>. TAKE i \in 2..Len(notif)
    <2>1. i - 1 \in 1..Len(notif') /\ (i - 1) + 1 = i
        BY <1>1
    <2>. QED
        BY <1>1, <2>1
<1>3. \A i \in 1..(Len(notif') + 1) : ChangesFrom(i)' => ChangesFrom(i + 1)
    <2>. SUFFICES ASSUME NEW i \in 1..(Len(notif') + 1), ChangesFrom(i)',
                         NEW j \in (i + 1)..Len(notif)
                  PROVE  notif[j].k = "vcc"
        BY DEF ChangesFrom
    <2>1. j - 1 \in i..Len(notif') /\ j \in 2..Len(notif)
        BY <1>1
    <2>2. notif'[j - 1].k = "vcc"
        BY <2>1 DEF ChangesFrom
    <2>. QED
        BY <1>2, <2>1, <2>2
<1>. QED
    BY <1>1, <1>2, <1>3

LEMMA UpOrderNext ==
    ASSUME Types, UpOrder, [Next]_vars
    PROVE  UpOrder'
<1>1. ASSUME UNCHANGED notif, link' = "up" => link = "up"
      PROVE  UpOrder'
    BY <1>1 DEF UpOrder, ChangesFrom
<1>2. ASSUME NEW m \in NotifMsgs, notif' = Append(notif, m),
             \/ m.k # "vcc" /\ m.k # "disconnected"
             \/ m.k = "vcc" /\ UNCHANGED link
             \/ link' # "up"
      PROVE  UpOrder'
    <2>. SUFFICES ASSUME link' = "up", NEW i \in 1..Len(notif'), notif'[i].k = "disconnected"
                  PROVE  ~ChangesFrom(i + 1)'
        BY DEF UpOrder
    <2>1. /\ Len(notif) \in Nat /\ Len(notif') = Len(notif) + 1 /\ notif'[Len(notif) + 1] = m
          /\ \A j \in 1..Len(notif) : notif'[j] = notif[j]
          /\ m.k # "vcc" => \A j \in 1..Len(notif') : ~ChangesFrom(j)'
          /\ \A j \in 1..Len(notif) : ChangesFrom(j + 1)' => ChangesFrom(j + 1)
        BY <1>2, Appended
    <2>2. i \in 1..Len(notif) /\ notif[i].k = "disconnected" /\ i + 1 \in 1..Len(notif')
        BY <1>2, <2>1
    <2>. QED
        BY <1>2, <2>1, <2>2 DEF UpOrder
<1>3. CASE NodeNext
    <2>1. UNCHANGED notif /\ (link' = "up" => link = "up")
        BY <1>3 DEF NodeNext, NewSink, Prune, LinkDrops
    <2>. QED
        BY <1>1, <2>1
<1>4. CASE DataSourceNext
    <2>1. CASE Register
        BY <1>1, <2>1 DEF Register
    <2>2. CASE ConnectOk
        <3>. DEFINE m == [Msg("connected", None, FALSE) EXCEPT !.n = sink, !.pp = pp]
        <3>1. m \in NotifMsgs /\ m.k = "connected"
            BY ConnectedMsg
        <3>2. notif' = Append(notif, m)
            BY <2>2 DEF ConnectOk
        <3>. HIDE DEF m
        <3>. QED
            BY <1>2, <3>1, <3>2
    <2>3. CASE ConnectFails \/ HandleDisconnect
        <3>. DEFINE m == Msg("disconnected", None, FALSE)
        <3>1. m \in NotifMsgs
            BY MsgType
        <3>2. notif' = Append(notif, m) /\ link' # "up"
            BY <2>3 DEF ConnectFails, HandleDisconnect, Hangup
        <3>. HIDE DEF m
        <3>. QED
            BY <1>2, <3>1, <3>2
    <2>4. CASE HandleNotification
        <3>. DEFINE m == Msg("vcc", Head(nodeQ).v, Head(nodeQ).stray)
        <3>1. Head(nodeQ).v \in Changes /\ Head(nodeQ).stray \in BOOLEAN
            <4>1. Head(nodeQ) \in NodeMsgs
                BY <2>4 DEF HandleNotification, Types, NodeT
            <4>. QED
                BY <4>1, Zenon DEF NodeMsgs
        <3>2. m \in NotifMsgs /\ m.k = "vcc"
            BY <3>1, MsgType
        <3>3. notif' = Append(notif, m) /\ UNCHANGED link
            BY <2>4 DEF HandleNotification
        <3>. HIDE DEF m
        <3>. QED
            BY <1>2, <3>2, <3>3
    <2>5. CASE HandleShutdown \/ HandleBlockClosed
        <3>. DEFINE m == Msg("shutdown", None, FALSE)
        <3>1. m \in NotifMsgs /\ m.k = "shutdown"
            BY MsgType
        <3>2. notif' = Append(notif, m)
            BY <2>5 DEF HandleShutdown, HandleBlockClosed
        <3>. HIDE DEF m
        <3>. QED
            BY <1>2, <3>1, <3>2
    <2>. QED
        BY <1>4, <2>1, <2>2, <2>3, <2>4, <2>5 DEF DataSourceNext
<1>5. CASE TakeNotification
    <2>1. notif # <<>> /\ notif' = Tail(notif) /\ link' = link
        BY <1>5 DEF TakeNotification, Connected, Disconnected, Shutdown, RealtimeVcc, Receives,
                    nodeVars
    <2>. SUFFICES ASSUME link = "up", NEW i \in 1..Len(notif'), notif'[i].k = "disconnected",
                         ChangesFrom(i + 1)'
                  PROVE  FALSE
        BY <2>1 DEF UpOrder
    <2>2. /\ i + 1 \in 1..Len(notif) /\ notif[i + 1].k = "disconnected"
          /\ ChangesFrom((i + 1) + 1)
        BY <2>1, Taken
    <2>. QED
        BY <2>2 DEF UpOrder
<1>6. CASE Restart
    BY <1>6 DEF Restart, UpOrder
<1>7. CASE SyncerNext \/ TakeSyncer \/ Drain \/ (\E b \in 1..MaxBlock : ProcessedBlock(b))
             \/ UNCHANGED vars
    <2>1. UNCHANGED notif /\ link' = link
        BY <1>7 DEF SyncerNext, ParkRequest, RefuseRequest, AnswerRequest, PrunedRequest,
                    FailRequest, TakeStop, TakeContinue, TakeSyncer, SyncerVc, SyncerStopped,
                    Drain, ProcessedBlock, nodeVars, vars
    <2>. QED
        BY <1>1, <2>1
<1>. QED
    BY <1>3, <1>4, <1>5, <1>6, <1>7 DEF Next

-----------------------------------------------------------------------------
(* What a response does.                                                   *)

\* handle_vc_resp: it is applied, and the syncer is asked to go on or to stop; or
\* the processor ends.
StepsOn(v) ==
    /\ UNCHANGED <<rtq, draining, vshut, sid, target>>
    /\ \A t \in SyncerIds : /\ syncers'[t].st = syncers[t].st /\ syncers'[t].from = syncers[t].from
                            /\ t # sid => syncers'[t].ack = syncers[t].ack
    /\ \/ /\ vp' \in {"panicked", "failed"}
          /\ UNCHANGED <<mode, last, sq, cursor, applied, syncers>>
       \/ /\ vp' = "failed" /\ UNCHANGED <<mode, syncers>> /\ syncers[sid].st = "done"
          /\ Apply(v) /\ last' = v.last /\ sq' = None
       \/ /\ vp' = vp /\ syncers[sid].st # "done" /\ syncers[sid].ack = "none"
          /\ Apply(v) /\ last' = v.last /\ sq' = None
          /\ \/ mode' = "syncing" /\ syncers'[sid].ack = "continue"
             \/ mode' = "synced" /\ syncers'[sid].ack = "stop" /\ v.last >= target

LEMMA SyncStepIs ==
    ASSUME Types, NEW v \in Changes, NEW r, SyncStep(v, r), mode = "syncing"
    PROVE  StepsOn(v)
<1>. DEFINE reached == v.last = target \/ v.last > target
            gone    == syncers[sid].st = "done"
            panics  == ~(reached /\ gone) /\ Unwraps(v, r)
<1>1. sid \in SyncerIds /\ syncers \in [SyncerIds -> Syncers] /\ v.last \in Nat /\ target \in Nat
    BY Bounds DEF Types, SyncT, Changes
<1>2. CASE panics
    BY <1>2, <1>1 DEF SyncStep, syncVars, dbVars, StepsOn
<1>3. CASE ~panics
    <2>1. /\ AckRoom /\ Ack(IF reached THEN "stop" ELSE "continue")
          /\ IF reached /\ gone THEN UNCHANGED <<dbVars, syncVars>>
             ELSE /\ Apply(v) /\ last' = v.last /\ sq' = None
                  /\ mode' = IF reached THEN "synced" ELSE "syncing"
                  /\ UNCHANGED <<sid, target>>
          /\ UNCHANGED <<rtq, draining, vshut>>
        BY <1>3 DEF SyncStep
    <2>2. CASE gone
        <3>1. vp' = "failed" /\ UNCHANGED syncers
            BY <2>1, <2>2 DEF Ack
        <3>2. UNCHANGED <<rtq, draining, vshut, sid, target>>
            BY <2>1 DEF syncVars
        <3>3. \/ UNCHANGED <<mode, last, sq, cursor, applied>>
              \/ mode' = mode /\ Apply(v) /\ last' = v.last /\ sq' = None
            BY <2>1, <2>2 DEF dbVars, syncVars
        <3>. QED
            BY <2>2, <3>1, <3>2, <3>3 DEF StepsOn
    <2>3. CASE ~gone
        <3>1. /\ UNCHANGED vp /\ syncers[sid].ack = "none"
              /\ syncers' = [syncers EXCEPT ![sid].ack = IF reached THEN "stop" ELSE "continue"]
            BY <2>1, <2>3 DEF Ack, AckRoom
        <3>2. /\ \A t \in SyncerIds : /\ syncers'[t].st = syncers[t].st
                                      /\ syncers'[t].from = syncers[t].from
                                      /\ t # sid => syncers'[t].ack = syncers[t].ack
              /\ syncers'[sid].ack = IF reached THEN "stop" ELSE "continue"
            BY <1>1, <3>1 DEF Syncers
        <3>3. reached => v.last >= target
            BY <1>1
        <3>. QED
            BY <2>1, <2>3, <3>1, <3>2, <3>3 DEF StepsOn
    <2>. QED
        BY <2>2, <2>3
<1>. QED
    BY <1>2, <1>3

-----------------------------------------------------------------------------
(* What a step leaves alone, by the actors.                                *)

LEMMA NodeEffect ==
    ASSUME NodeNext \/ DataSourceNext
    PROVE  /\ UNCHANGED <<syncQ, rtq, draining, vshut, vp, mode, last, sid, target, sq, cursor,
                          applied, strayed>>
           /\ UNCHANGED syncers \/ ConnectOk
           /\ UNCHANGED sink \/ NewSink
           /\ UNCHANGED pp \/ Prune
BY DEF NodeNext, DataSourceNext, NewSink, Prune, LinkDrops, Register, ConnectOk, ConnectFails,
       HandleDisconnect, Hangup, HandleNotification, HandleShutdown, HandleBlockClosed,
       nodeVars, vpVars, syncVars, dbVars

\* Either the request of s is parked, or s is told to go on, or it ends, or it has
\* an answer.
LEMMA SyncerEffect ==
    ASSUME SyncerNext
    PROVE  /\ UNCHANGED <<nodeVars, sink, pp, link, shuttingDown, nodeQ, notif, rtq, draining,
                          vshut, vp, mode, last, sid, target, sq, applied, strayed>>
           /\ \E s \in SyncerIds :
                \/ ParkRequest(s) /\ UNCHANGED cursor
                \/ TakeContinue(s) /\ UNCHANGED cursor
                \/ AnswerRequest(s) /\ UNCHANGED cursor
                \/ SyncerEnds(s) /\ UNCHANGED cursor
                \/ PrunedRequest(s)
<1>1. PICK s \in SyncerIds :
         \/ ParkRequest(s) \/ RefuseRequest(s) \/ AnswerRequest(s)
         \/ PrunedRequest(s) \/ FailRequest(s) \/ TakeStop(s) \/ TakeContinue(s)
    BY DEF SyncerNext
<1>. USE DEF nodeVars, vpVars, syncVars, dbVars
<1>2. CASE ParkRequest(s)
    BY <1>2 DEF ParkRequest
<1>3. CASE RefuseRequest(s)
    BY <1>3 DEF RefuseRequest
<1>4. CASE AnswerRequest(s)
    BY <1>4 DEF AnswerRequest
<1>5. CASE PrunedRequest(s)
    BY <1>5 DEF PrunedRequest
<1>6. CASE FailRequest(s)
    BY <1>6 DEF FailRequest
<1>7. CASE TakeStop(s)
    BY <1>7 DEF TakeStop
<1>8. CASE TakeContinue(s)
    BY <1>8 DEF TakeContinue
<1>. QED
    BY <1>1, <1>2, <1>3, <1>4, <1>5, <1>6, <1>7, <1>8

LEMMA ConnectedEffect ==
    ASSUME Types, Connected
    PROVE  /\ vp = "running" /\ ~draining /\ notif # <<>> /\ notif' = Tail(notif)
           /\ notif[1].k = "connected" /\ notif[1].n \in Blocks /\ notif[1].pp \in Blocks
           /\ UNCHANGED <<sink, pp, link, shuttingDown, nodeQ, syncQ, rtq, draining, vshut, vp,
                          cursor, applied, strayed>>
           /\ \/ /\ mode = "synced" /\ last >= notif[1].n
                 /\ UNCHANGED <<mode, last, sid, target, sq, syncers>>
              \/ /\ mode = "syncing" /\ target' = notif[1].n
                 /\ UNCHANGED <<mode, last, sid, sq, syncers>>
              \/ /\ mode' = "syncing" /\ target' = notif[1].n /\ sq' = None
                 /\ SpawnSyncer(sid', last')
                 /\ \/ mode = "synced" /\ last < notif[1].n /\ sid' = sid + 1 /\ last' = last
                    \/ mode = "initial" /\ sid' = 0 /\ last' = SyncFrom(notif[1])
<1>. DEFINE m == Head(notif)
<1>1. m = notif[1] /\ m \in NotifMsgs
    BY NotifsTake, Taken DEF Connected, Receives, Types
<1>2. m.n \in Blocks /\ m.pp \in Blocks /\ m.n \in Nat /\ last \in Nat
    BY <1>1, Bounds DEF NotifMsgs, Types, SyncT
<1>. DEFINE from == IF mode = "initial" THEN SyncFrom(m) ELSE last
            id   == IF mode = "initial" THEN 0 ELSE sid + 1
<1>3. IF mode = "synced" /\ (last = m.n \/ last > m.n)
        THEN UNCHANGED <<syncVars, syncers>>
        ELSE /\ target' = m.n
             /\ IF mode = "syncing"
                  THEN UNCHANGED <<mode, last, sid, sq, syncers>>
                  ELSE /\ SpawnSyncer(id, from)
                       /\ mode' = "syncing" /\ sid' = id /\ last' = from /\ sq' = None
    BY Zenon DEF Connected
<1>4. /\ vp = "running" /\ ~draining /\ notif # <<>> /\ notif' = Tail(notif) /\ m.k = "connected"
      /\ UNCHANGED <<sink, pp, link, shuttingDown, nodeQ, syncQ, rtq, draining, vshut, vp,
                     cursor, applied, strayed>>
    BY DEF Connected, Receives, Ready, nodeVars, dbVars
<1>5. mode \in {"initial", "syncing", "synced"}
    BY DEF Types, SyncT
<1>. HIDE DEF m
<1>6. CASE mode = "synced" /\ (last = m.n \/ last > m.n)
    BY <1>1, <1>2, <1>3, <1>4, <1>6 DEF syncVars
<1>7. CASE ~(mode = "synced" /\ (last = m.n \/ last > m.n))
    <2>1. CASE mode = "syncing"
        BY <1>1, <1>2, <1>3, <1>4, <1>7, <2>1
    <2>2. CASE mode = "initial"
        BY <1>1, <1>2, <1>3, <1>4, <1>7, <2>2
    <2>3. CASE mode = "synced"
        <3>1. last < m.n
            BY <1>2, <1>7, <2>3
        <3>. QED
            BY <1>1, <1>2, <1>3, <1>4, <1>7, <2>3, <3>1
    <2>. QED
        BY <1>5, <2>1, <2>2, <2>3
<1>. QED
    BY <1>6, <1>7

LEMMA RealtimeEffect ==
    ASSUME Types, RealtimeVcc
    PROVE  /\ vp = "running" /\ ~draining /\ notif # <<>> /\ notif' = Tail(notif)
           /\ notif[1].k = "vcc" /\ notif[1].v \in Changes
           /\ UNCHANGED <<sink, pp, link, shuttingDown, nodeQ, syncQ, syncers, draining, vshut,
                          mode, sid, target, sq>>
           /\ strayed' = (strayed \/ notif[1].stray)
           /\ \/ vp' = "panicked" /\ UNCHANGED <<last, rtq, cursor, applied>>
              \/ /\ vp' = vp /\ mode # "initial" /\ rtq' = Append(rtq, notif[1].v)
                 /\ UNCHANGED <<last, cursor, applied>>
              \/ /\ vp' = vp /\ mode = "synced" /\ rtq = <<>> /\ rtq' = rtq
                 /\ Apply(notif[1].v) /\ last' = notif[1].v.last
<1>. DEFINE m == Head(notif)
<1>1. m = notif[1] /\ m \in NotifMsgs /\ (m.k = "vcc" => m.v \in Changes)
    BY NotifsTake, Taken DEF RealtimeVcc, Receives, Types
<1>2. /\ vp = "running" /\ ~draining /\ notif # <<>> /\ notif' = Tail(notif) /\ m.k = "vcc"
      /\ UNCHANGED <<sink, pp, link, shuttingDown, nodeQ, syncQ>>
    BY DEF RealtimeVcc, Receives, Ready, nodeVars
<1>3. strayed' = (strayed \/ m.stray)
    BY Zenon DEF RealtimeVcc
<1>4. \/ Panic
      \/ /\ mode # "initial" /\ rtq' = Append(rtq, m.v)
         /\ UNCHANGED <<ring, draining, vshut, vp, syncVars, syncers, dbVars>>
      \/ /\ ~(mode = "initial") /\ ~MustQueue(m.v) /\ Apply(m.v) /\ last' = m.v.last
         /\ UNCHANGED <<ring, rtq, draining, vshut, vp, mode, sid, target, sq, syncers>>
    BY Zenon DEF RealtimeVcc
<1>5. mode \in {"initial", "syncing", "synced"}
    BY DEF Types, SyncT
<1>. HIDE DEF m
<1>6. CASE Panic
    BY <1>1, <1>2, <1>3, <1>6 DEF Panic, syncVars, dbVars
<1>7. CASE /\ mode # "initial" /\ rtq' = Append(rtq, m.v)
           /\ UNCHANGED <<ring, draining, vshut, vp, syncVars, syncers, dbVars>>
    BY <1>1, <1>2, <1>3, <1>7 DEF syncVars, dbVars
<1>8. CASE /\ ~(mode = "initial") /\ ~MustQueue(m.v) /\ Apply(m.v) /\ last' = m.v.last
           /\ UNCHANGED <<ring, rtq, draining, vshut, vp, mode, sid, target, sq, syncers>>
    <2>1. mode = "synced" /\ rtq = <<>>
        BY <1>5, <1>8 DEF MustQueue
    <2>. QED
        BY <1>1, <1>2, <1>3, <1>8, <2>1
<1>. QED
    BY <1>4, <1>6, <1>7, <1>8

LEMMA ShutdownEffect ==
    ASSUME Types, Shutdown
    PROVE  /\ vp = "running" /\ ~draining /\ notif # <<>> /\ notif' = Tail(notif)
           /\ notif[1].k = "shutdown" /\ vshut'
           /\ UNCHANGED <<sink, pp, link, shuttingDown, nodeQ, syncQ, rtq, draining, strayed,
                          mode, last, sid, target, sq, cursor, applied>>
           /\ \A t \in SyncerIds : /\ syncers'[t].st = syncers[t].st
                                   /\ syncers'[t].from = syncers[t].from
                                   /\ syncers'[t].ack \in {"stop", syncers[t].ack}
           /\ vp' = "running" => mode = "syncing" /\ syncers'[sid].ack = "stop"
<1>1. Head(notif) = notif[1]
    BY Taken DEF Shutdown, Receives
<1>2. /\ vp = "running" /\ ~draining /\ notif # <<>> /\ notif' = Tail(notif)
      /\ Head(notif).k = "shutdown" /\ vshut'
      /\ UNCHANGED <<sink, pp, link, shuttingDown, nodeQ, syncQ, rtq, draining, strayed,
                     mode, last, sid, target, sq, cursor, applied>>
    BY DEF Shutdown, Receives, Ready, nodeVars, syncVars, dbVars
<1>3. sid \in SyncerIds /\ syncers \in [SyncerIds -> Syncers]
    BY DEF Types, SyncT
<1>4. CASE mode = "syncing"
    <2>1. Ack("stop")
        BY <1>4 DEF Shutdown, StopsSyncer
    <2>2. CASE syncers[sid].st = "done"
        BY <1>1, <1>2, <2>1, <2>2 DEF Ack
    <2>3. CASE syncers[sid].st # "done"
        <3>1. syncers' = [syncers EXCEPT ![sid].ack = "stop"]
            BY <2>1, <2>3 DEF Ack
        <3>2. /\ \A t \in SyncerIds : /\ syncers'[t].st = syncers[t].st
                                      /\ syncers'[t].from = syncers[t].from
                                      /\ syncers'[t].ack \in {"stop", syncers[t].ack}
              /\ syncers'[sid].ack = "stop"
            BY <1>3, <3>1 DEF Syncers
        <3>. QED
            BY <1>1, <1>2, <1>4, <3>2
    <2>. QED
        BY <2>2, <2>3
<1>5. CASE mode # "syncing"
    BY <1>1, <1>2, <1>5 DEF Shutdown
<1>. QED
    BY <1>4, <1>5

\* The response v of the current syncer is at the head of its channel, or was kept
\* back.
Responds(v) ==
    /\ v \in Changes /\ mode = "syncing"
    /\ \/ syncQ # <<>> /\ Vc(1) /\ syncQ[1].v = v /\ ~IsEmpty(v) /\ syncQ' = Tail(syncQ)
       \/ sq = v /\ UNCHANGED syncQ

\* A response, the end of a syncer, a processed block: the processor takes it in or
\* ends, asks the syncer again, keeps the response back, or applies one.
LEMMA WorkEffect ==
    ASSUME Types, TakeSyncer \/ \E b \in 1..MaxBlock : ProcessedBlock(b)
    PROVE  /\ vp = "running" /\ ~draining
           /\ UNCHANGED <<sink, pp, link, shuttingDown, nodeQ, notif, strayed, vshut, sid,
                          target, rtq>>
           /\ \/ /\ UNCHANGED <<mode, last, sq, cursor, applied, syncers>>
                 /\ draining' => mode = "synced"
                 /\ \/ UNCHANGED <<syncQ, vp>>
                    \/ syncQ # <<>> /\ ~Vc(1) /\ syncQ' = Tail(syncQ)
                    \/ vp' # "running" /\ syncQ # <<>> /\ syncQ' = Tail(syncQ)
                 /\ vp' = "running" /\ syncQ # <<>> /\ syncQ' = Tail(syncQ) =>
                      mode # "syncing" \/ syncQ[1].id # sid \/ syncQ[1].k # "stopped"
              \/ /\ UNCHANGED <<mode, last, sq, cursor, applied, draining>>
                 /\ mode = "syncing" /\ syncQ # <<>> /\ Vc(1) /\ IsEmpty(syncQ[1].v)
                 /\ syncQ' = Tail(syncQ) /\ AckRoom /\ Ack("continue")
              \/ /\ UNCHANGED <<mode, last, cursor, applied, draining, syncers, vp>>
                 /\ sq = None /\ sq' = syncQ[1].v /\ syncQ # <<>> /\ Responds(syncQ[1].v)
                 /\ syncQ' = Tail(syncQ)
              \/ \E v \in Changes : Responds(v) /\ StepsOn(v)
<1>. DEFINE Idle  == /\ UNCHANGED <<mode, last, sq, cursor, applied, syncers>>
                     /\ draining' => mode = "synced"
                     /\ \/ UNCHANGED <<syncQ, vp>>
                        \/ syncQ # <<>> /\ ~Vc(1) /\ syncQ' = Tail(syncQ)
                        \/ vp' # "running" /\ syncQ # <<>> /\ syncQ' = Tail(syncQ)
                     /\ vp' = "running" /\ syncQ # <<>> /\ syncQ' = Tail(syncQ) =>
                          mode # "syncing" \/ syncQ[1].id # sid \/ syncQ[1].k # "stopped"
            Again == /\ UNCHANGED <<mode, last, sq, cursor, applied, draining>>
                     /\ mode = "syncing" /\ syncQ # <<>> /\ Vc(1) /\ IsEmpty(syncQ[1].v)
                     /\ syncQ' = Tail(syncQ) /\ AckRoom /\ Ack("continue")
            Holds == /\ UNCHANGED <<mode, last, cursor, applied, draining, syncers, vp>>
                     /\ sq = None /\ sq' = syncQ[1].v /\ syncQ # <<>> /\ Responds(syncQ[1].v)
                     /\ syncQ' = Tail(syncQ)
            Steps == \E v \in Changes : Responds(v) /\ StepsOn(v)
<1>1. CASE SyncerVc
    <2>1. /\ vp = "running" /\ ~draining /\ syncQ # <<>> /\ Head(syncQ).k = "vc"
          /\ syncQ' = Tail(syncQ)
          /\ UNCHANGED <<sink, pp, link, shuttingDown, nodeQ, notif, strayed>>
        BY <1>1 DEF SyncerVc, Ready, nodeVars
    <2>2. PICK v : v = Head(syncQ).v
        OBVIOUS
    <2>3. Head(syncQ) = syncQ[1] /\ v \in Changes /\ sq \in Changes \cup {None}
        BY <2>1, <2>2, SyncsTake DEF Types, SyncT, SyncsOK
    <2>. DEFINE expected == mode = "syncing" /\ Head(syncQ).id = sid
    <2>4. \/ Panic
          \/ /\ expected /\ IsEmpty(v) /\ AskAgain
             /\ UNCHANGED <<ring, rtq, draining, vshut, syncVars, dbVars>>
          \/ /\ expected /\ ~IsEmpty(v) /\ sq = None /\ HoldBack(v)
             /\ UNCHANGED <<ring, rtq, draining, vshut, mode, last, sid, target, dbVars>>
          \/ expected /\ ~IsEmpty(v) /\ SyncStep(v, ring)
        BY <1>1, <2>2, Zenon DEF SyncerVc
    <2>5. CASE Panic
        BY <2>1, <2>3, <2>5 DEF Panic, syncVars, dbVars
    <2>6. CASE /\ expected /\ IsEmpty(v) /\ AskAgain
               /\ UNCHANGED <<ring, rtq, draining, vshut, syncVars, dbVars>>
        BY <2>1, <2>2, <2>3, <2>6 DEF AskAgain, syncVars, dbVars, Vc
    <2>7. CASE /\ expected /\ ~IsEmpty(v) /\ sq = None /\ HoldBack(v)
               /\ UNCHANGED <<ring, rtq, draining, vshut, mode, last, sid, target, dbVars>>
        BY <2>1, <2>2, <2>3, <2>7 DEF HoldBack, syncVars, dbVars, Vc, Responds
    <2>8. CASE expected /\ ~IsEmpty(v) /\ SyncStep(v, ring)
        <3>1. StepsOn(v)
            BY <2>3, <2>8, SyncStepIs
        <3>2. Responds(v)
            BY <2>1, <2>2, <2>3, <2>8 DEF Responds, Vc
        <3>3. UNCHANGED <<vshut, sid, target, rtq>>
            BY <3>1 DEF StepsOn
        <3>. QED
            BY <2>1, <2>3, <3>1, <3>2, <3>3
    <2>. QED
        BY <2>4, <2>5, <2>6, <2>7, <2>8
<1>2. CASE SyncerStopped
    <2>1. /\ vp = "running" /\ ~draining /\ syncQ # <<>> /\ Head(syncQ).k = "stopped"
          /\ syncQ' = Tail(syncQ)
          /\ UNCHANGED <<sink, pp, link, shuttingDown, nodeQ, notif, strayed, vshut, sid,
                         target, rtq, mode, last, sq, cursor, applied, syncers, draining>>
          /\ vp' = CASE mode = "initial" -> "panicked"
               [] Head(syncQ).id = sid /\ vshut -> "stopped"
               [] Head(syncQ).id = sid /\ ~vshut /\ mode = "syncing" -> "failed"
               [] OTHER -> "running"
        BY <1>2 DEF SyncerStopped, Ready, nodeVars, syncVars, dbVars
    <2>2. Head(syncQ) = syncQ[1]
        BY <2>1 DEF Types, SyncsOK
    <2>3. ~Vc(1)
        BY <2>1, <2>2 DEF Vc
    <2>4. vp' = "running" => mode # "syncing" \/ syncQ[1].id # sid
        BY <2>1, <2>2
    <2>. QED
        BY <2>1, <2>2, <2>3, <2>4
<1>3. ASSUME NEW b \in 1..MaxBlock, ProcessedBlock(b)
      PROVE  /\ vp = "running" /\ ~draining
             /\ UNCHANGED <<sink, pp, link, shuttingDown, nodeQ, notif, strayed, vshut, sid,
                            target, rtq>>
             /\ Idle \/ Again \/ Holds \/ Steps
    <2>1. /\ vp = "running" /\ ~draining
          /\ UNCHANGED <<sink, pp, link, shuttingDown, nodeQ, notif, strayed, syncQ>>
        BY <1>3 DEF ProcessedBlock, Ready, nodeVars
    <2>2. \/ \E r : mode = "syncing" /\ sq # None /\ SyncStep(sq, r)
          \/ /\ draining' = (mode = "synced" /\ CanDrain(rtq, ring'))
             /\ UNCHANGED <<rtq, vshut, vp, syncVars, syncers, dbVars>>
        BY <1>3, Zenon DEF ProcessedBlock
    <2>3. ASSUME NEW r, mode = "syncing", sq # None, SyncStep(sq, r)
          PROVE  UNCHANGED <<vshut, sid, target, rtq>> /\ (Idle \/ Steps)
        <3>1. PICK v : v = sq
            OBVIOUS
        <3>2. v \in Changes
            BY <2>3, <3>1 DEF Types, SyncT
        <3>3. StepsOn(v)
            BY <2>3, <3>1, <3>2, SyncStepIs
        <3>4. UNCHANGED <<vshut, sid, target, rtq>>
            BY <3>3 DEF StepsOn
        <3>. QED
            BY <2>1, <2>3, <3>1, <3>2, <3>3, <3>4 DEF Responds
    <2>4. CASE /\ draining' = (mode = "synced" /\ CanDrain(rtq, ring'))
               /\ UNCHANGED <<rtq, vshut, vp, syncVars, syncers, dbVars>>
        <3>1. draining' => mode = "synced"
            BY <2>4, Zenon
        <3>2. UNCHANGED <<mode, last, sq, cursor, applied, syncers, vshut, sid, target, rtq, vp>>
            BY <2>4 DEF syncVars, dbVars
        <3>. QED
            BY <2>1, <3>1, <3>2
    <2>. QED
        BY <2>1, <2>2, <2>3, <2>4
<1>. QED
    BY <1>1, <1>2, <1>3 DEF TakeSyncer

LEMMA DrainEffect ==
    ASSUME Types, DrainOK, Drain
    PROVE  /\ vp = "running" /\ draining /\ rtq # <<>> /\ Head(rtq) = rtq[1] /\ rtq[1] \in Changes
           /\ UNCHANGED <<sink, pp, link, shuttingDown, nodeQ, notif, syncQ, strayed, vshut,
                          mode, sid, target, sq, syncers>>
           /\ \/ vp' = "panicked" /\ UNCHANGED <<rtq, last, cursor, applied, draining>>
              \/ /\ vp' = vp /\ rtq' = Tail(rtq) /\ draining' \in BOOLEAN
                 /\ Apply(rtq[1]) /\ last' = rtq[1].last
<1>1. vp = "running" /\ draining /\ rtq # <<>> /\ Head(rtq) = rtq[1] /\ rtq[1] \in Changes
    BY DEF Drain, DrainOK, Types, ProcT
<1>2. UNCHANGED <<sink, pp, link, shuttingDown, nodeQ, notif, syncQ, strayed>>
    BY DEF Drain, nodeVars
<1>3. \/ Panic
      \/ /\ Apply(Head(rtq)) /\ last' = Head(rtq).last /\ rtq' = Tail(rtq)
         /\ draining' = CanDrain(Tail(rtq), ring)
         /\ UNCHANGED <<ring, vshut, vp, mode, sid, target, sq, syncers>>
    BY Zenon DEF Drain
<1>4. CASE Panic
    BY <1>1, <1>2, <1>4 DEF Panic, syncVars, dbVars
<1>5. CASE /\ Apply(Head(rtq)) /\ last' = Head(rtq).last /\ rtq' = Tail(rtq)
           /\ draining' = CanDrain(Tail(rtq), ring)
           /\ UNCHANGED <<ring, vshut, vp, mode, sid, target, sq, syncers>>
    <2>1. draining' \in BOOLEAN
        BY <1>5 DEF CanDrain
    <2>. QED
        BY <1>1, <1>2, <1>5, <2>1
<1>. QED
    BY <1>3, <1>4, <1>5

\* The queues that the processor takes from.
LEMMA TakenChanges ==
    ASSUME Types, rtq # <<>>
    PROVE  /\ Len(rtq) \in Nat \ {0} /\ Len(Tail(rtq)) = Len(rtq) - 1 /\ Head(rtq) = rtq[1]
           /\ \A i \in 1..(Len(rtq) - 1) : Tail(rtq)[i] = rtq[i + 1] /\ i + 1 \in 1..Len(rtq)
BY DEF Types, ProcT

LEMMA TakenSyncs ==
    ASSUME Types, syncQ # <<>>, syncQ' = Tail(syncQ)
    PROVE  /\ Len(syncQ) \in Nat \ {0} /\ Len(syncQ') = Len(syncQ) - 1 /\ Head(syncQ) = syncQ[1]
           /\ \A i \in 1..Len(syncQ') : syncQ'[i] = syncQ[i + 1] /\ i + 1 \in 1..Len(syncQ)
BY DEF Types, SyncsOK

LEMMA SyncsAppended ==
    ASSUME Types, NEW m, syncQ' = Append(syncQ, m)
    PROVE  /\ Len(syncQ) \in Nat /\ Len(syncQ') = Len(syncQ) + 1 /\ syncQ'[Len(syncQ) + 1] = m
           /\ \A i \in 1..Len(syncQ) : syncQ'[i] = syncQ[i]
BY DEF Types, SyncsOK

-----------------------------------------------------------------------------
(* Every change leads to a block there is.                                 *)

\* The end of an answer is a block of the chain of the sink, or the block asked
\* from.
LEMMA AnswerEnds ==
    ASSUME Types, NEW b \in Blocks, b <= sink, NEW v \in Answers(b)
    PROVE  v \in Changes /\ v.last <= sink /\ Answer(v, b, sink)
<1>1. v \in Changes
    BY AnswersType DEF Types, NodeT
<1>. DEFINE full == Change(b, sink)
<1>2. \/ /\ v = [full EXCEPT !.last = b] /\ full.add = {}
      \/ \E c \in full.add : v = [full EXCEPT !.add = {d \in full.add : d <= c}, !.last = c]
    BY Zenon DEF Answers
<1>3. full = [rem |-> Chain[b] \ Chain[sink], add |-> Chain[sink] \ Chain[b], last |-> sink]
    BY DEF Change
<1>4. /\ sink \in Blocks /\ sink \in Nat /\ b \in Nat /\ Chain[sink] \subseteq Blocks
      /\ \A c \in Chain[sink] : c <= sink
      /\ sink # 0 => sink \in Chain[sink]
      /\ \A c \in Chain[b] : c <= b
    BY ChainFacts, Bounds DEF Types, NodeT
<1>5. CASE v = [full EXCEPT !.last = b] /\ full.add = {}
    <2>1. Chain[sink] \ Chain[b] = {}
        BY <1>3, <1>5
    <2>2. v = [rem |-> Chain[b] \ Chain[sink], add |-> {}, last |-> b]
        BY <1>3, <1>5, <2>1
    <2>3. sink = b
        BY <1>4, <2>1
    <2>4. v.rem = {} /\ v.add = {} /\ v.last = b
        BY <2>2, <2>3
    <2>. QED
        BY <1>1, <2>4 DEF Answer, IsEmpty
<1>6. ASSUME NEW c \in Chain[sink] \ Chain[b],
             v = [full EXCEPT !.add = {d \in full.add : d <= c}, !.last = c]
      PROVE  v.last <= sink /\ Answer(v, b, sink)
    <2>. DEFINE upto == {d \in full.add : d <= c}
    <2>1. v = [rem |-> Chain[b] \ Chain[sink], add |-> {d \in Chain[sink] \ Chain[b] : d <= c},
               last |-> c]
        <3>1. v = [rem |-> full.rem, add |-> upto, last |-> c]
            BY <1>6, Zenon DEF Change
        <3>2. full.rem = Chain[b] \ Chain[sink] /\ full.add = Chain[sink] \ Chain[b]
            BY <1>3
        <3>. HIDE DEF full
        <3>. QED
            BY <3>1, <3>2
    <2>2. v.last = c /\ c <= sink /\ sink <= sink
        BY <1>4, <2>1
    <2>3. Answer(v, b, sink)
        BY <1>4, <2>1, <2>2, Zenon DEF Answer
    <2>. QED
        BY <2>2, <2>3
<1>7. full.add = Chain[sink] \ Chain[b]
    BY <1>3
<1>. HIDE DEF full
<1>. QED
    BY <1>1, <1>2, <1>5, <1>6, <1>7

LEMMA ReachTypes ==
    ASSUME Types
    PROVE  /\ \A v \in Changes : v.last \in Int
           /\ \A i \in 1..Len(nodeQ) : nodeQ[i].v \in Changes
           /\ \A i \in 1..Len(notif) : notif[i].k = "vcc" => notif[i].v \in Changes
           /\ \A i \in 1..Len(rtq) : rtq[i] \in Changes
           /\ \A i \in 1..Len(syncQ) : syncQ[i].k = "vc" => syncQ[i].v \in Changes
           /\ (sq # None => sq \in Changes) /\ last \in Int /\ cursor \in Int /\ sink \in Int
<1>1. \A v \in Changes : v.last \in Int
    <2>1. \A v \in Changes : v.last \in Blocks
        BY Zenon DEF Changes
    <2>2. \A b \in Blocks : b \in Int
        BY Bounds
    <2>. QED
        BY <2>1, <2>2
<1>2. \A i \in 1..Len(nodeQ) : nodeQ[i].v \in Changes
    <2>1. \A m \in NodeMsgs : m.v \in Changes
        BY Zenon DEF NodeMsgs
    <2>. QED
        BY <2>1, Queues
<1>3. sq # None => sq \in Changes
    BY DEF Types, SyncT
<1>4. last \in Int /\ cursor \in Int /\ sink \in Int
    BY Queues, Bounds DEF Types, SyncT, DbT, NoBlock
<1>5. \A i \in 1..Len(notif) : notif[i].k = "vcc" => notif[i].v \in Changes
    BY Zenon DEF Types, NotifsOK
<1>6. \A i \in 1..Len(syncQ) : syncQ[i].k = "vc" => syncQ[i].v \in Changes
    BY Zenon DEF Types, SyncsOK
<1>7. \A i \in 1..Len(rtq) : rtq[i] \in Changes
    BY Queues
<1>. QED
    BY <1>1, <1>2, <1>3, <1>4, <1>5, <1>6, <1>7, Zenon

LEMMA ReachedNode ==
    ASSUME Types, Reached, NodeNext \/ DataSourceNext
    PROVE  Reached'
<1>1. UNCHANGED <<syncQ, rtq, last, sq, cursor>>
    BY NodeEffect
<1>2. sink' \in Int /\ sink <= sink'
    BY NodeEffect, ReachTypes DEF NewSink
<1>3. /\ \A i \in 1..Len(rtq') : rtq'[i].last <= sink'
      /\ \A i \in 1..Len(syncQ') : syncQ'[i].k = "vc" => syncQ'[i].v.last <= sink'
      /\ (sq' # None => sq'.last <= sink') /\ last' <= sink' /\ cursor' <= sink'
    <2>1. \A i \in 1..Len(rtq) : rtq[i].last <= sink /\ rtq[i].last \in Int
        BY ReachTypes DEF Reached
    <2>2. \A i \in 1..Len(syncQ) : syncQ[i].k = "vc" =>
            syncQ[i].v.last <= sink /\ syncQ[i].v.last \in Int
        BY ReachTypes DEF Reached
    <2>3. sq # None => sq.last <= sink /\ sq.last \in Int
        BY ReachTypes DEF Reached
    <2>4. last <= sink /\ cursor <= sink /\ last \in Int /\ cursor \in Int /\ sink \in Int
        BY ReachTypes DEF Reached
    <2>. QED
        BY <1>1, <1>2, <2>1, <2>2, <2>3, <2>4
<1>4. /\ \A i \in 1..Len(nodeQ) : nodeQ[i].v.last <= sink' /\ nodeQ[i].v.last \in Int
      /\ \A i \in 1..Len(notif) : notif[i].k = "vcc" => notif[i].v.last <= sink'
    <2>1. \A i \in 1..Len(nodeQ) : nodeQ[i].v.last <= sink /\ nodeQ[i].v.last \in Int
        BY ReachTypes DEF Reached
    <2>2. \A i \in 1..Len(notif) : notif[i].k = "vcc" =>
            notif[i].v.last <= sink /\ notif[i].v.last \in Int
        BY ReachTypes DEF Reached
    <2>. QED
        BY <1>2, <2>1, <2>2, ReachTypes
<1>5. ASSUME NEW m \in NotifMsgs, m.k = "vcc" => m.v.last <= sink', notif' = Append(notif, m)
      PROVE  \A i \in 1..Len(notif') : notif'[i].k = "vcc" => notif'[i].v.last <= sink'
    <2>1. /\ Len(notif) \in Nat /\ Len(notif') = Len(notif) + 1 /\ notif'[Len(notif) + 1] = m
          /\ \A i \in 1..Len(notif) : notif'[i] = notif[i]
        BY <1>5, Appended
    <2>2. \A i \in 1..Len(notif') : i \in 1..Len(notif) \/ i = Len(notif) + 1
        BY <2>1
    <2>. QED
        BY <1>4, <1>5, <2>1, <2>2
<1>6. \/ UNCHANGED notif
      \/ \E m \in NotifMsgs : (m.k = "vcc" => m.v.last <= sink') /\ notif' = Append(notif, m)
    <2>1. CASE NewSink \/ Prune \/ LinkDrops \/ Register
        BY <2>1 DEF NewSink, Prune, LinkDrops, Register
    <2>2. CASE ConnectOk
        <3>. DEFINE m == [Msg("connected", None, FALSE) EXCEPT !.n = sink, !.pp = pp]
        <3>1. m \in NotifMsgs /\ m.k = "connected" /\ notif' = Append(notif, m)
            BY <2>2, ConnectedMsg DEF ConnectOk
        <3>. HIDE DEF m
        <3>. QED
            BY <3>1
    <2>3. CASE ConnectFails \/ HandleDisconnect
        <3>. DEFINE m == Msg("disconnected", None, FALSE)
        <3>1. m \in NotifMsgs /\ m.k = "disconnected" /\ notif' = Append(notif, m)
            BY <2>3, MsgType DEF ConnectFails, HandleDisconnect, Hangup
        <3>. HIDE DEF m
        <3>. QED
            BY <3>1
    <2>4. CASE HandleNotification
        <3>. DEFINE m == Msg("vcc", Head(nodeQ).v, Head(nodeQ).stray)
        <3>1. nodeQ # <<>> /\ Head(nodeQ) = nodeQ[1] /\ 1 \in 1..Len(nodeQ) /\ nodeQ[1] \in NodeMsgs
            BY <2>4 DEF HandleNotification, Types, NodeT
        <3>2. nodeQ[1].v \in Changes /\ nodeQ[1].stray \in BOOLEAN
            BY <3>1, Zenon DEF NodeMsgs
        <3>3. m \in NotifMsgs /\ m.k = "vcc" /\ m.v = nodeQ[1].v /\ notif' = Append(notif, m)
            BY <2>4, <3>1, <3>2, MsgType DEF HandleNotification
        <3>. HIDE DEF m
        <3>. QED
            BY <1>4, <3>1, <3>3
    <2>5. CASE HandleShutdown \/ HandleBlockClosed
        <3>. DEFINE m == Msg("shutdown", None, FALSE)
        <3>1. m \in NotifMsgs /\ m.k = "shutdown" /\ notif' = Append(notif, m)
            BY <2>5, MsgType DEF HandleShutdown, HandleBlockClosed
        <3>. HIDE DEF m
        <3>. QED
            BY <3>1
    <2>. QED
        BY <2>1, <2>2, <2>3, <2>4, <2>5 DEF NodeNext, DataSourceNext
<1>7. \A i \in 1..Len(notif') : notif'[i].k = "vcc" => notif'[i].v.last <= sink'
    BY <1>4, <1>5, <1>6
<1>8. \A i \in 1..Len(nodeQ') : nodeQ'[i].v.last <= sink'
    <2>1. CASE NewSink
        <3>. DEFINE m == [v |-> Change(sink, sink + 1), stray |-> FALSE]
        <3>1. m.v.last = sink + 1 /\ sink' = sink + 1
            BY <2>1 DEF NewSink, Change
        <3>2. nodeQ' = nodeQ \/ nodeQ' = Append(nodeQ, m)
            BY <2>1, Zenon DEF NewSink
        <3>3. Len(nodeQ) \in Nat /\ nodeQ \in Seq(NodeMsgs)
            BY DEF Types, NodeT
        <3>. HIDE DEF m
        <3>4. CASE nodeQ' = Append(nodeQ, m)
            <4>1. /\ Len(nodeQ') = Len(nodeQ) + 1 /\ nodeQ'[Len(nodeQ) + 1] = m
                  /\ \A i \in 1..Len(nodeQ) : nodeQ'[i] = nodeQ[i]
                BY <3>3, <3>4
            <4>2. \A i \in 1..Len(nodeQ') : i \in 1..Len(nodeQ) \/ i = Len(nodeQ) + 1
                BY <3>3, <4>1
            <4>3. m.v.last <= sink'
                BY <1>2, <3>1
            <4>. QED
                BY <1>4, <4>1, <4>2, <4>3
        <3>. QED
            BY <1>4, <3>2, <3>4
    <2>2. CASE Prune \/ LinkDrops \/ Register \/ ConnectOk \/ HandleShutdown \/ HandleBlockClosed
        <3>1. UNCHANGED nodeQ
            BY <2>2 DEF Prune, LinkDrops, Register, ConnectOk, HandleShutdown, HandleBlockClosed,
                        nodeVars
        <3>. QED
            BY <1>4, <3>1
    <2>3. CASE ConnectFails \/ HandleDisconnect
        <3>1. nodeQ' = [i \in DOMAIN nodeQ |-> [nodeQ[i] EXCEPT !.stray = TRUE]]
            BY <2>3 DEF ConnectFails, HandleDisconnect, Hangup
        <3>2. DOMAIN nodeQ = 1..Len(nodeQ) /\ Len(nodeQ) \in Nat /\ \A i \in 1..Len(nodeQ) : nodeQ[i] \in NodeMsgs
            BY DEF Types, NodeT
        <3>3. \A m \in NodeMsgs : [m EXCEPT !.stray = TRUE].v = m.v
            BY DEF NodeMsgs
        <3>4. Len(nodeQ') = Len(nodeQ)
            <4>1. nodeQ' \in Seq(NodeMsgs)
                BY <2>3, HangupType DEF ConnectFails, HandleDisconnect, NodeT
            <4>2. DOMAIN nodeQ' = 1..Len(nodeQ)
                BY <3>1, <3>2
            <4>. QED
                BY <3>2, <4>1, <4>2
        <3>5. \A i \in 1..Len(nodeQ) : nodeQ'[i].v = nodeQ[i].v
            BY <3>1, <3>2, <3>3
        <3>. QED
            BY <1>4, <3>4, <3>5
    <2>4. CASE HandleNotification
        <3>1. nodeQ # <<>> /\ nodeQ' = Tail(nodeQ) /\ nodeQ \in Seq(NodeMsgs)
            BY <2>4 DEF HandleNotification, Types, NodeT
        <3>2. \A i \in 1..Len(nodeQ') : nodeQ'[i] = nodeQ[i + 1] /\ i + 1 \in 1..Len(nodeQ)
            BY <3>1
        <3>. QED
            BY <1>4, <3>2
    <2>. QED
        BY <2>1, <2>2, <2>3, <2>4 DEF NodeNext, DataSourceNext
<1>. QED
    BY <1>3, <1>7, <1>8 DEF Reached

LEMMA DisconnectedEffect ==
    ASSUME Types, Disconnected
    PROVE  /\ vp = "running" /\ ~draining /\ notif # <<>> /\ notif' = Tail(notif)
           /\ notif[1].k = "disconnected" /\ rtq' = <<>> /\ strayed' = (strayed \/ ~DbConsistent)
           /\ UNCHANGED <<sink, pp, link, shuttingDown, nodeQ, syncQ, syncers, draining, vshut,
                          vp, mode, last, sid, target, sq, cursor, applied>>
<1>1. Head(notif) = notif[1]
    BY Taken DEF Disconnected, Receives
<1>. QED
    BY <1>1 DEF Disconnected, Receives, Ready, nodeVars, syncVars, dbVars

\* The block of a Connected is a block of every later chain.
LEMMA ConnectedIs ==
    ASSUME Types, Order, notif # <<>>, notif[1].k = "connected"
    PROVE  /\ notif[1].n \in Blocks /\ notif[1].pp \in Blocks
           /\ notif[1].n <= sink /\ notif[1].pp <= sink
           /\ notif[1].pp # 0 => notif[1].pp \in Chain[pp] /\ pp # 0 /\ pp \in Chain[sink]
           /\ notif[1].pp # 0 => \A b \in Blocks : b >= sink => notif[1].pp \in Chain[b]
<1>1. 1 \in 1..Len(notif) /\ notif[1] \in NotifMsgs
    BY DEF Types, NotifsOK
<1>2. notif[1].n \in Blocks /\ notif[1].pp \in Blocks
    BY <1>1, Zenon DEF NotifMsgs
<1>3. notif[1].n <= sink /\ (notif[1].pp # 0 => notif[1].pp \in Chain[pp])
    BY <1>1, Zenon DEF Order, ConnectedOrder
<1>4. sink \in Blocks /\ pp \in Blocks /\ sink >= sink /\ 0 <= sink
    BY Bounds DEF Types, NodeT
<1>5. ASSUME notif[1].pp # 0
      PROVE  /\ notif[1].pp \in Chain[pp] /\ pp # 0 /\ pp \in Chain[sink]
             /\ \A b \in Blocks : b >= sink => notif[1].pp \in Chain[b]
    <2>1. notif[1].pp \in Chain[pp]
        BY <1>3, <1>5
    <2>2. pp # 0
        BY <2>1, ChainIsTree
    <2>3. \A b \in Blocks : b >= sink => pp \in Chain[b] /\ Chain[pp] \subseteq Chain[b]
        BY <2>2, ChainFacts DEF Order, PruneOK
    <2>. QED
        BY <1>4, <2>1, <2>2, <2>3
<1>6. notif[1].pp <= sink
    <2>1. CASE notif[1].pp # 0
        <3>1. notif[1].pp \in Chain[sink]
            BY <1>4, <1>5, <2>1
        <3>. QED
            BY <1>4, <3>1, ChainFacts
    <2>. QED
        BY <1>4, <2>1
<1>. QED
    BY <1>2, <1>3, <1>5, <1>6

LEMMA ReachedSyncer ==
    ASSUME Types, Reached, Token, SyncerNext
    PROVE  Reached'
<1>1. UNCHANGED <<sink, nodeQ, notif, rtq, last, sq>>
    BY SyncerEffect
<1>2. PICK s \in SyncerIds :
           \/ ParkRequest(s) /\ UNCHANGED cursor
           \/ TakeContinue(s) /\ UNCHANGED cursor
           \/ AnswerRequest(s) /\ UNCHANGED cursor
           \/ SyncerEnds(s) /\ UNCHANGED cursor
           \/ PrunedRequest(s)
    BY SyncerEffect
<1>3. cursor' <= sink
    BY <1>2, Queues DEF PrunedRequest, NoBlock, Reached
<1>4. \A i \in 1..Len(syncQ) : syncQ[i].k = "vc" => syncQ[i].v.last <= sink
    BY DEF Reached
<1>5. \A i \in 1..Len(syncQ') : syncQ'[i].k = "vc" => syncQ'[i].v.last <= sink
    <2>1. ASSUME NEW m, syncQ' = Append(syncQ, m), m.k = "vc" => m.v.last <= sink
          PROVE  \A i \in 1..Len(syncQ') : syncQ'[i].k = "vc" => syncQ'[i].v.last <= sink
        <3>1. /\ Len(syncQ) \in Nat /\ Len(syncQ') = Len(syncQ) + 1 /\ syncQ'[Len(syncQ) + 1] = m
              /\ \A i \in 1..Len(syncQ) : syncQ'[i] = syncQ[i]
            BY <2>1, SyncsAppended
        <3>2. \A i \in 1..Len(syncQ') : i \in 1..Len(syncQ) \/ i = Len(syncQ) + 1
            BY <3>1
        <3>. QED
            BY <1>4, <2>1, <3>1, <3>2
    <2>2. CASE ParkRequest(s) \/ TakeContinue(s)
        BY <1>4, <2>2 DEF ParkRequest, TakeContinue
    <2>3. CASE SyncerEnds(s) \/ PrunedRequest(s)
        <3>. DEFINE m == [id |-> s, k |-> "stopped", v |-> None]
        <3>1. syncQ' = Append(syncQ, m) /\ m.k # "vc"
            BY <2>3 DEF PrunedRequest, SyncerEnds
        <3>. HIDE DEF m
        <3>. QED
            BY <2>1, <3>1
    <2>4. CASE AnswerRequest(s)
        <3>1. syncers[s].from = last /\ last \in Blocks /\ last <= sink
            <4>1. s = sid /\ mode = "syncing" /\ syncers[s].st = "asked"
                BY <2>4 DEF AnswerRequest, Token
            <4>. QED
                BY <4>1 DEF Token, Reached, Types, SyncT
        <3>2. PICK v \in Answers(syncers[s].from) : syncQ' = Append(syncQ, [id |-> s, k |-> "vc", v |-> v])
            BY <2>4 DEF AnswerRequest
        <3>3. v.last <= sink
            BY <3>1, <3>2, AnswerEnds
        <3>. DEFINE m == [id |-> s, k |-> "vc", v |-> v]
        <3>4. syncQ' = Append(syncQ, m) /\ m.v.last <= sink
            BY <3>2, <3>3
        <3>. HIDE DEF m
        <3>. QED
            BY <2>1, <3>4
    <2>. QED
        BY <1>2, <2>2, <2>3, <2>4
<1>. QED
    BY <1>1, <1>3, <1>5 DEF Reached

LEMMA ReachedProcessor ==
    ASSUME Types, Order, DrainOK, Reached, Token,
           TakeNotification \/ TakeSyncer \/ Drain \/ (\E b \in 1..MaxBlock : ProcessedBlock(b))
    PROVE  Reached'
<1>1. /\ \A i \in 1..Len(nodeQ) : nodeQ[i].v.last <= sink
      /\ \A i \in 1..Len(notif) : notif[i].k = "vcc" => notif[i].v.last <= sink
      /\ \A i \in 1..Len(rtq) : rtq[i].last <= sink
      /\ \A i \in 1..Len(syncQ) : syncQ[i].k = "vc" => syncQ[i].v.last <= sink
      /\ sq # None => sq.last <= sink
      /\ last <= sink /\ cursor <= sink
    BY DEF Reached
<1>2. UNCHANGED <<sink, nodeQ>>
    BY ConnectedEffect, DisconnectedEffect, ShutdownEffect, RealtimeEffect, WorkEffect, DrainEffect
       DEF TakeNotification
<1>3. \A i \in 1..Len(notif') : notif'[i].k = "vcc" => notif'[i].v.last <= sink
    <2>1. \/ UNCHANGED notif
          \/ notif # <<>> /\ notif' = Tail(notif)
        BY ConnectedEffect, DisconnectedEffect, ShutdownEffect, RealtimeEffect, WorkEffect, DrainEffect
           DEF TakeNotification
    <2>2. CASE notif # <<>> /\ notif' = Tail(notif)
        BY <1>1, <2>2, Taken
    <2>. QED
        BY <1>1, <2>1, <2>2
<1>4. \A i \in 1..Len(syncQ') : syncQ'[i].k = "vc" => syncQ'[i].v.last <= sink
    <2>1. \/ UNCHANGED syncQ
          \/ syncQ # <<>> /\ syncQ' = Tail(syncQ)
        BY ConnectedEffect, DisconnectedEffect, ShutdownEffect, RealtimeEffect, WorkEffect, DrainEffect
           DEF TakeNotification, Responds
    <2>2. CASE syncQ # <<>> /\ syncQ' = Tail(syncQ)
        BY <1>1, <2>2, TakenSyncs
    <2>. QED
        BY <1>1, <2>1, <2>2
<1>5. /\ \A i \in 1..Len(rtq') : rtq'[i].last <= sink
      /\ sq' # None => sq'.last <= sink
      /\ last' <= sink /\ cursor' <= sink
    <2>1. CASE Connected
        <3>1. UNCHANGED <<rtq, cursor>> /\ (sq' = sq \/ sq' = None)
              /\ (last' = last \/ last' = SyncFrom(notif[1])) /\ notif # <<>> /\ notif[1].k = "connected"
            BY <2>1, ConnectedEffect
        <3>2. SyncFrom(notif[1]) <= sink
            BY <1>1, <3>1, ConnectedIs, Zenon DEF SyncFrom
        <3>. QED
            BY <1>1, <3>1, <3>2
    <2>2. CASE Disconnected
        BY <1>1, <2>2, DisconnectedEffect
    <2>3. CASE Shutdown
        BY <1>1, <2>3, ShutdownEffect
    <2>4. CASE RealtimeVcc
        <3>. DEFINE v == notif[1].v
        <3>1. /\ UNCHANGED sq /\ notif # <<>> /\ notif[1].k = "vcc" /\ v \in Changes
              /\ \/ UNCHANGED <<last, rtq, cursor>>
                 \/ rtq' = Append(rtq, v) /\ UNCHANGED <<last, cursor>>
                 \/ rtq' = rtq /\ last' = v.last /\ cursor' = v.last
            BY <2>4, RealtimeEffect DEF Apply
        <3>2. v.last <= sink
            <4>1. 1 \in 1..Len(notif)
                BY <3>1, Queues DEF Types, NotifsOK
            <4>. QED
                BY <1>1, <3>1, <4>1
        <3>. HIDE DEF v
        <3>3. CASE rtq' = Append(rtq, v)
            <4>1. /\ Len(rtq) \in Nat /\ Len(rtq') = Len(rtq) + 1 /\ rtq'[Len(rtq) + 1] = v
                  /\ \A i \in 1..Len(rtq) : rtq'[i] = rtq[i]
                BY <3>1, <3>3 DEF Types, ProcT
            <4>2. \A i \in 1..Len(rtq') : i \in 1..Len(rtq) \/ i = Len(rtq) + 1
                BY <4>1
            <4>3. \A i \in 1..Len(rtq') : rtq'[i].last <= sink
                BY <1>1, <3>2, <4>1, <4>2
            <4>. QED
                BY <1>1, <3>1, <3>2, <4>3
        <3>. QED
            BY <1>1, <3>1, <3>2, <3>3
    <2>5. CASE TakeSyncer \/ (\E b \in 1..MaxBlock : ProcessedBlock(b))
        <3>1. UNCHANGED rtq
            BY <2>5, WorkEffect
        <3>2. ASSUME NEW v, Responds(v)
              PROVE  v.last <= sink
            <4>1. CASE syncQ # <<>> /\ Vc(1) /\ syncQ[1].v = v
                <5>1. 1 \in 1..Len(syncQ)
                    BY <4>1 DEF Types, SyncsOK
                <5>. QED
                    BY <1>1, <4>1, <5>1 DEF Vc
            <4>2. CASE sq = v
                BY <1>1, <3>2, <4>2, NoneIsNoChange DEF Responds
            <4>. QED
                BY <3>2, <4>1, <4>2 DEF Responds
        <3>3. \/ UNCHANGED <<last, sq, cursor>>
              \/ UNCHANGED <<last, cursor>> /\ sq' = syncQ[1].v /\ Responds(syncQ[1].v)
              \/ \E v \in Changes : Responds(v) /\ StepsOn(v)
            BY <2>5, WorkEffect
        <3>4. ASSUME NEW v \in Changes, Responds(v), StepsOn(v)
              PROVE  (sq' # None => sq'.last <= sink) /\ last' <= sink /\ cursor' <= sink
            <4>1. v.last <= sink
                BY <3>2, <3>4
            <4>2. \/ UNCHANGED <<last, sq, cursor>>
                  \/ cursor' = v.last /\ last' = v.last /\ sq' = None
                BY <3>4, Zenon DEF StepsOn, Apply
            <4>. QED
                BY <1>1, <4>1, <4>2
        <3>. QED
            BY <1>1, <3>1, <3>2, <3>3, <3>4
    <2>6. CASE Drain
        <3>1. /\ UNCHANGED sq /\ rtq # <<>>
              /\ \/ UNCHANGED <<last, rtq, cursor>>
                 \/ rtq' = Tail(rtq) /\ last' = rtq[1].last /\ cursor' = rtq[1].last
            BY <2>6, DrainEffect DEF Apply
        <3>2. /\ rtq[1].last <= sink
              /\ \A i \in 1..Len(Tail(rtq)) : Tail(rtq)[i].last <= sink
            BY <1>1, <3>1, TakenChanges
        <3>. QED
            BY <1>1, <3>1, <3>2
    <2>. QED
        BY <2>1, <2>2, <2>3, <2>4, <2>5, <2>6 DEF TakeNotification
<1>. QED
    BY <1>2, <1>3, <1>4, <1>5 DEF Reached

LEMMA ReachedNext ==
    ASSUME Types, Order, DrainOK, Reached, Token, [Next]_vars
    PROVE  Reached'
<1>1. CASE Restart
    <2>1. /\ nodeQ' = <<>> /\ notif' = <<>> /\ syncQ' = <<>> /\ rtq' = <<>> /\ sq' = None
          /\ last' = 0 /\ UNCHANGED <<sink, cursor>>
        BY <1>1 DEF Restart, dbVars
    <2>. QED
        BY <2>1, Queues DEF Reached
<1>2. CASE UNCHANGED vars
    BY <1>2 DEF vars, nodeVars, vpVars, syncVars, dbVars, Reached
<1>. QED
    BY <1>1, <1>2, ReachedNode, ReachedSyncer, ReachedProcessor DEF Next

-----------------------------------------------------------------------------
(* A processor that is told to stop.                                       *)

\* The records of the syncers after a step of one of them.
LEMMA SyncerStates ==
    ASSUME Types, NEW s \in SyncerIds
    PROVE  /\ ParkRequest(s) =>
                /\ \A t \in SyncerIds : t # s => syncers'[t] = syncers[t]
                /\ syncers[s].st = "asked" /\ syncers'[s].st = "parked"
                /\ syncers'[s].from = syncers[s].from /\ syncers'[s].ack = syncers[s].ack
                /\ UNCHANGED syncQ
           /\ TakeContinue(s) =>
                /\ \A t \in SyncerIds : t # s => syncers'[t] = syncers[t]
                /\ syncers[s].st = "waiting" /\ syncers[s].ack = "continue"
                /\ syncers'[s].st = "asked" /\ syncers'[s].ack = "none"
                /\ syncers'[s].from = syncers[s].from
                /\ UNCHANGED syncQ
           /\ SyncerEnds(s) =>
                /\ \A t \in SyncerIds : t # s => syncers'[t] = syncers[t]
                /\ syncers'[s].st = "done" /\ syncers'[s].ack = "none"
                /\ syncQ' = Append(syncQ, [id |-> s, k |-> "stopped", v |-> None])
           /\ AnswerRequest(s) =>
                /\ \A t \in SyncerIds : t # s => syncers'[t] = syncers[t]
                /\ syncers[s].st = "asked" /\ syncers'[s].st = "waiting"
                /\ syncers'[s].ack = syncers[s].ack
                /\ \E v \in Answers(syncers[s].from) :
                     /\ syncers'[s].from = v.last
                     /\ syncQ' = Append(syncQ, [id |-> s, k |-> "vc", v |-> v])
<1>1. syncers \in [SyncerIds -> Syncers] /\ syncers[s] \in Syncers
    BY DEF Types
<1>2. ASSUME NEW r, syncers' = [syncers EXCEPT ![s] = r]
      PROVE  syncers'[s] = r /\ \A t \in SyncerIds : t # s => syncers'[t] = syncers[t]
    BY <1>1, <1>2
<1>3. ASSUME ParkRequest(s)
      PROVE  /\ \A t \in SyncerIds : t # s => syncers'[t] = syncers[t]
             /\ syncers[s].st = "asked" /\ syncers'[s].st = "parked"
             /\ syncers'[s].from = syncers[s].from /\ syncers'[s].ack = syncers[s].ack
             /\ UNCHANGED syncQ
    <2>. DEFINE y == [syncers[s] EXCEPT !.st = "parked"]
    <2>1. y.st = "parked" /\ y.from = syncers[s].from /\ y.ack = syncers[s].ack
        BY <1>1 DEF Syncers
    <2>2. syncers' = [syncers EXCEPT ![s] = y] /\ syncers[s].st = "asked" /\ UNCHANGED syncQ
        BY <1>3 DEF ParkRequest
    <2>. HIDE DEF y
    <2>. QED
        BY <1>2, <2>1, <2>2
<1>4. ASSUME TakeContinue(s)
      PROVE  /\ \A t \in SyncerIds : t # s => syncers'[t] = syncers[t]
             /\ syncers[s].st = "waiting" /\ syncers[s].ack = "continue"
             /\ syncers'[s].st = "asked" /\ syncers'[s].ack = "none"
             /\ syncers'[s].from = syncers[s].from
             /\ UNCHANGED syncQ
    <2>. DEFINE y == [syncers[s] EXCEPT !.st = "asked", !.ack = "none"]
    <2>1. y.st = "asked" /\ y.from = syncers[s].from /\ y.ack = "none"
        BY <1>1 DEF Syncers
    <2>2. /\ syncers' = [syncers EXCEPT ![s] = y] /\ UNCHANGED syncQ
          /\ syncers[s].st = "waiting" /\ syncers[s].ack = "continue"
        BY <1>4 DEF TakeContinue
    <2>. HIDE DEF y
    <2>. QED
        BY <1>2, <2>1, <2>2
<1>5. ASSUME SyncerEnds(s)
      PROVE  /\ \A t \in SyncerIds : t # s => syncers'[t] = syncers[t]
             /\ syncers'[s].st = "done" /\ syncers'[s].ack = "none"
             /\ syncQ' = Append(syncQ, [id |-> s, k |-> "stopped", v |-> None])
    <2>. DEFINE y == [syncers[s] EXCEPT !.st = "done", !.ack = "none"]
    <2>1. y.st = "done" /\ y.ack = "none"
        BY <1>1 DEF Syncers
    <2>2. /\ syncers' = [syncers EXCEPT ![s] = y]
          /\ syncQ' = Append(syncQ, [id |-> s, k |-> "stopped", v |-> None])
        BY <1>5 DEF SyncerEnds
    <2>. HIDE DEF y
    <2>. QED
        BY <1>2, <2>1, <2>2
<1>6. ASSUME AnswerRequest(s)
      PROVE  /\ \A t \in SyncerIds : t # s => syncers'[t] = syncers[t]
             /\ syncers[s].st = "asked" /\ syncers'[s].st = "waiting"
             /\ syncers'[s].ack = syncers[s].ack
             /\ \E v \in Answers(syncers[s].from) :
                  /\ syncers'[s].from = v.last
                  /\ syncQ' = Append(syncQ, [id |-> s, k |-> "vc", v |-> v])
    <2>1. PICK v \in Answers(syncers[s].from) :
             /\ syncQ' = Append(syncQ, [id |-> s, k |-> "vc", v |-> v])
             /\ syncers' = [syncers EXCEPT ![s].st = "waiting", ![s].from = v.last]
        BY <1>6 DEF AnswerRequest
    <2>. DEFINE y == [syncers[s] EXCEPT !.st = "waiting", !.from = v.last]
    <2>2. y.st = "waiting" /\ y.from = v.last /\ y.ack = syncers[s].ack
        BY <1>1 DEF Syncers
    <2>3. syncers' = [syncers EXCEPT ![s] = y]
        BY <2>1
    <2>4. syncers[s].st = "asked"
        BY <1>6 DEF AnswerRequest
    <2>. HIDE DEF y
    <2>. QED
        BY <1>2, <2>1, <2>2, <2>3, <2>4
<1>. QED
    BY <1>3, <1>4, <1>5, <1>6, Zenon

\* ConnectOk sends the parked requests.
LEMMA SyncersConnectOk ==
    ASSUME Types, ConnectOk
    PROVE  \A t \in SyncerIds :
             /\ syncers'[t].from = syncers[t].from /\ syncers'[t].ack = syncers[t].ack
             /\ syncers'[t].st = IF syncers[t].st = "parked" THEN "asked" ELSE syncers[t].st
<1>. TAKE t \in SyncerIds
<1>1. syncers[t] \in Syncers
    BY DEF Types
<1>2. syncers'[t] = IF syncers[t].st = "parked" THEN [syncers[t] EXCEPT !.st = "asked"]
                                                ELSE syncers[t]
    BY DEF ConnectOk
<1>. QED
    BY <1>1, <1>2 DEF Syncers

\* An Ack to a processor that was told to stop is its end.
LEMMA StoppingNext ==
    ASSUME Types, DrainOK, Stopping, [Next]_vars
    PROVE  Stopping'
<1>. USE DEF Stopping
<1>1. sid \in SyncerIds
    BY DEF Types, SyncT
<1>2. CASE NodeNext \/ DataSourceNext
    <2>1. /\ UNCHANGED <<vp, vshut, mode, sid, draining>>
          /\ UNCHANGED syncers \/ ConnectOk
        BY <1>2, NodeEffect
    <2>2. CASE ConnectOk
        BY <1>1, <2>1, <2>2, SyncersConnectOk
    <2>. QED
        BY <2>1, <2>2
<1>3. CASE SyncerNext
    <2>1. UNCHANGED <<vp, vshut, mode, sid, draining>>
        BY <1>3, SyncerEffect
    <2>2. PICK s \in SyncerIds :
             ParkRequest(s) \/ TakeContinue(s) \/ AnswerRequest(s) \/ SyncerEnds(s)
        BY <1>3, SyncerEffect DEF PrunedRequest
    <2>3. /\ s # sid => syncers'[sid] = syncers[sid]
          /\ s = sid /\ (syncers[sid].ack = "stop" \/ syncers[sid].st = "done") =>
               syncers'[sid].ack = "stop" \/ syncers'[sid].st = "done"
        BY <1>1, <2>2, SyncerStates
    <2>. QED
        BY <2>1, <2>3
<1>4. CASE TakeNotification
    <2>1. CASE Connected
        BY <2>1, ConnectedEffect
    <2>2. CASE Disconnected
        BY <2>2, DisconnectedEffect
    <2>3. CASE Shutdown
        BY <2>3, ShutdownEffect
    <2>4. CASE RealtimeVcc
        BY <2>4, RealtimeEffect
    <2>. QED
        BY <1>4, <2>1, <2>2, <2>3, <2>4 DEF TakeNotification
<1>5. CASE TakeSyncer \/ \E b \in 1..MaxBlock : ProcessedBlock(b)
    <2>1. vp = "running" /\ ~draining /\ UNCHANGED <<vshut, sid>>
        BY <1>5, WorkEffect
    <2>2. \/ UNCHANGED <<mode, syncers>> /\ (draining' => mode = "synced")
          \/ UNCHANGED <<mode, draining>> /\ AckRoom /\ Ack("continue")
          \/ \E v \in Changes : StepsOn(v)
        BY <1>5, <2>1, WorkEffect
    <2>3. CASE UNCHANGED <<mode, draining>> /\ AckRoom /\ Ack("continue")
        <3>1. vshut => syncers[sid].ack = "stop" \/ syncers[sid].st = "done"
            BY <2>1
        <3>2. vshut => vp' = "failed"
            BY <2>3, <3>1 DEF AckRoom, Ack
        <3>. QED
            BY <2>1, <2>3, <3>2
    <2>4. ASSUME NEW v \in Changes, StepsOn(v)
          PROVE  Stopping'
        <3>1. UNCHANGED draining
            BY <2>4 DEF StepsOn
        <3>2. vshut => syncers[sid].ack = "stop" \/ syncers[sid].st = "done"
            BY <2>1
        <3>3. vshut => vp' # "running"
            BY <2>4, <3>2, Zenon DEF StepsOn
        <3>. QED
            BY <2>1, <3>1, <3>3
    <2>. QED
        BY <2>1, <2>2, <2>3, <2>4
<1>6. CASE Drain
    BY <1>6, DrainEffect
<1>7. CASE Restart
    BY <1>7 DEF Restart
<1>8. CASE UNCHANGED vars
    BY <1>8 DEF vars, nodeVars, vpVars, syncVars
<1>. QED
    BY <1>2, <1>3, <1>4, <1>5, <1>6, <1>7, <1>8 DEF Next

-----------------------------------------------------------------------------
(* What is under way between the processor and its syncer.                 *)

\* The responses of the current syncer in a channel that loses its first message,
\* or gets another one.
LEMMA VcTail ==
    ASSUME Types, UNCHANGED sid, UNCHANGED syncQ \/ (syncQ # <<>> /\ syncQ' = Tail(syncQ))
    PROVE  /\ \A i \in 1..Len(syncQ') : Vc(i)' => \E j \in 1..Len(syncQ) :
                Vc(j) /\ syncQ'[i] = syncQ[j] /\ (syncQ' = Tail(syncQ) => j = i + 1)
           /\ \A i, j \in 1..Len(syncQ') : Vc(i)' /\ Vc(j)' /\ i # j =>
                \E k, l \in 1..Len(syncQ) : Vc(k) /\ Vc(l) /\ k # l
<1>1. CASE UNCHANGED syncQ /\ syncQ' # Tail(syncQ)
    BY <1>1 DEF Vc
<1>2. CASE syncQ # <<>> /\ syncQ' = Tail(syncQ)
    <2>1. /\ Len(syncQ) \in Nat \ {0} /\ Len(syncQ') = Len(syncQ) - 1
          /\ \A i \in 1..Len(syncQ') : syncQ'[i] = syncQ[i + 1] /\ i + 1 \in 1..Len(syncQ)
        BY <1>2, TakenSyncs
    <2>2. \A i \in 1..Len(syncQ') : Vc(i)' => Vc(i + 1)
        BY <2>1 DEF Vc
    <2>3. \A i, j \in 1..Len(syncQ') : i # j => i + 1 # j + 1
        OBVIOUS
    <2>. QED
        BY <2>1, <2>2, <2>3
<1>3. CASE UNCHANGED syncQ /\ syncQ = <<>>
    BY <1>3
<1>4. CASE syncQ # <<>> /\ UNCHANGED syncQ /\ syncQ' = Tail(syncQ)
    BY <1>2, <1>4
<1>. QED
    BY <1>1, <1>2, <1>3, <1>4

LEMMA VcAppend ==
    ASSUME Types, UNCHANGED sid, NEW m, syncQ' = Append(syncQ, m)
    PROVE  \A i \in 1..Len(syncQ') :
             \/ i \in 1..Len(syncQ) /\ syncQ'[i] = syncQ[i] /\ (Vc(i)' => Vc(i))
             \/ i = Len(syncQ) + 1 /\ syncQ'[i] = m
<1>1. /\ Len(syncQ) \in Nat /\ Len(syncQ') = Len(syncQ) + 1 /\ syncQ'[Len(syncQ) + 1] = m
      /\ \A i \in 1..Len(syncQ) : syncQ'[i] = syncQ[i]
    BY SyncsAppended
<1>2. \A i \in 1..Len(syncQ') : i \in 1..Len(syncQ) \/ i = Len(syncQ) + 1
    BY <1>1
<1>. QED
    BY <1>1, <1>2 DEF Vc

\* An answer stays one when the sink moves on.
LEMMA AnswerStays ==
    ASSUME Types, sink' \in Int, sink <= sink', NEW v, NEW b, Answer(v, b, sink)
    PROVE  Answer(v, b, sink')
<1>1. \A k \in Blocks : k <= sink => k <= sink'
    BY Bounds DEF Types, NodeT
<1>. QED
    BY <1>1, Zenon DEF Answer, IsEmpty

\* An answer says where it ends; an empty one ends where it started.
LEMMA AnswerEmpty ==
    ASSUME NEW v, NEW b, NEW n, Answer(v, b, n), IsEmpty(v)
    PROVE  v.last = b
<1>1. ASSUME NEW k \in Blocks, NEW c \in Chain[k] \ Chain[b],
             v = [rem |-> Chain[b] \ Chain[k], add |-> {d \in Chain[k] \ Chain[b] : d <= c}, last |-> c]
      PROVE  FALSE
    <2>1. c \in Int
        BY ChainFacts, Bounds
    <2>2. c <= c /\ c \in {d \in Chain[k] \ Chain[b] : d <= c}
        BY <2>1
    <2>. QED
        BY <1>1, <2>2 DEF IsEmpty
<1>. QED
    BY <1>1 DEF Answer

\* A step that leaves the processor's part alone and no more under way.
LEMMA TokenSame ==
    ASSUME Types, Token, sink' \in Int, sink <= sink', UNCHANGED <<mode, last, sid, sq>>,
           \A t \in SyncerIds :
             /\ syncers'[t].from = syncers[t].from /\ syncers'[t].ack \in {"stop", syncers[t].ack}
             /\ syncers'[t].st \in {"asked", "parked"} <=> syncers[t].st \in {"asked", "parked"}
             /\ syncers'[t].st = "waiting" <=> syncers[t].st = "waiting",
           UNCHANGED syncQ \/ (syncQ # <<>> /\ syncQ' = Tail(syncQ))
    PROVE  Token'
<1>1. sid \in SyncerIds
    BY DEF Types, SyncT
<1>2. \A s \in SyncerIds : syncers'[s].st \in {"asked", "parked"} \/ syncers'[s].ack = "continue" =>
        s = sid' /\ mode' = "syncing"
    BY DEF Token
<1>3. ASSUME mode = "syncing"
      PROVE  /\ syncers'[sid].st \in {"asked", "parked"} =>
                  /\ syncers'[sid].from = last /\ sq = None
                  /\ \A i \in 1..Len(syncQ') : ~Vc(i)'
             /\ syncers'[sid].ack = "continue" =>
                  /\ syncers'[sid].st = "waiting" /\ syncers'[sid].from = last /\ sq = None
                  /\ \A i \in 1..Len(syncQ') : ~Vc(i)'
    <2>1. (\A i \in 1..Len(syncQ) : ~Vc(i)) => \A i \in 1..Len(syncQ') : ~Vc(i)'
        BY VcTail
    <2>. QED
        BY <1>1, <1>3, <2>1 DEF Token
<1>4. ASSUME mode = "syncing", NEW i \in 1..Len(syncQ'), Vc(i)'
      PROVE  /\ Answer(syncQ'[i].v, last, sink') /\ sq = None
             /\ syncers'[sid].st = "waiting" => syncers'[sid].from = syncQ'[i].v.last
             /\ \A j \in 1..Len(syncQ') : Vc(j)' => i = j
    <2>1. PICK k \in 1..Len(syncQ) : Vc(k) /\ syncQ'[i] = syncQ[k]
        BY <1>4, VcTail
    <2>2. /\ Answer(syncQ[k].v, last, sink) /\ sq = None
          /\ syncers[sid].st = "waiting" => syncers[sid].from = syncQ[k].v.last
          /\ \A j \in 1..Len(syncQ) : Vc(j) => k = j
        BY <1>4, <2>1 DEF Token
    <2>5. Answer(syncQ'[i].v, last, sink')
        BY <2>1, <2>2, AnswerStays
    <2>6. \A j \in 1..Len(syncQ') : Vc(j)' => i = j
        BY <1>4, <2>1, <2>2, VcTail
    <2>. QED
        BY <1>1, <2>1, <2>2, <2>5, <2>6
<1>5. ASSUME mode = "syncing", sq # None
      PROVE  /\ Answer(sq, last, sink') /\ ~IsEmpty(sq)
             /\ syncers'[sid].st = "waiting" => syncers'[sid].from = sq.last
    <2>1. /\ Answer(sq, last, sink) /\ ~IsEmpty(sq)
          /\ syncers[sid].st = "waiting" => syncers[sid].from = sq.last
        BY <1>5 DEF Token
    <2>2. Answer(sq, last, sink')
        BY <2>1, AnswerStays
    <2>. QED
        BY <1>1, <2>1, <2>2
<1>. QED
    BY <1>2, <1>3, <1>4, <1>5, Zenon DEF Token

\* Outside of syncing nothing is under way.
LEMMA TokenOut ==
    ASSUME Types, Token, mode # "syncing", UNCHANGED <<mode, syncers>>
    PROVE  Token'
BY Zenon DEF Token

LEMMA TokenNode ==
    ASSUME Types, Token, NodeNext \/ DataSourceNext
    PROVE  Token'
<1>1. /\ UNCHANGED <<syncQ, mode, last, sid, sq>>
      /\ UNCHANGED syncers \/ ConnectOk
      /\ sink' \in Int /\ sink <= sink'
    BY NodeEffect, ReachTypes DEF NewSink
<1>2. CASE ConnectOk
    <2>1. \A t \in SyncerIds :
             /\ syncers'[t].from = syncers[t].from /\ syncers'[t].ack = syncers[t].ack
             /\ syncers'[t].st = IF syncers[t].st = "parked" THEN "asked" ELSE syncers[t].st
        BY <1>2, SyncersConnectOk
    <2>. QED
        BY <1>1, <2>1, TokenSame
<1>. QED
    BY <1>1, <1>2, TokenSame

\* A syncer asks, has an answer, or ends.
LEMMA TokenSyncer ==
    ASSUME Types, Reached, Token, SyncerNext
    PROVE  Token'
<1>1. UNCHANGED <<sink, mode, last, sid, sq>> /\ sink \in Int /\ sid \in SyncerIds
    BY SyncerEffect, ReachTypes DEF Types, SyncT
<1>2. PICK s \in SyncerIds :
             ParkRequest(s) \/ TakeContinue(s) \/ AnswerRequest(s) \/ SyncerEnds(s)
    BY SyncerEffect DEF PrunedRequest
<1>3. CASE ParkRequest(s)
    <2>1. /\ \A t \in SyncerIds : t # s => syncers'[t] = syncers[t]
          /\ syncers[s].st = "asked" /\ syncers'[s].st = "parked"
          /\ syncers'[s].from = syncers[s].from /\ syncers'[s].ack = syncers[s].ack
          /\ UNCHANGED syncQ
        BY <1>3, SyncerStates
    <2>2. sink' \in Int /\ sink <= sink'
        BY <1>1
    <2>3. \A t \in SyncerIds :
             /\ syncers'[t].from = syncers[t].from /\ syncers'[t].ack \in {"stop", syncers[t].ack}
             /\ syncers'[t].st \in {"asked", "parked"} <=> syncers[t].st \in {"asked", "parked"}
             /\ syncers'[t].st = "waiting" <=> syncers[t].st = "waiting"
        BY <2>1
    <2>. QED
        BY <1>1, <2>1, <2>2, <2>3, TokenSame
<1>4. CASE TakeContinue(s)
    <2>1. /\ \A t \in SyncerIds : t # s => syncers'[t] = syncers[t]
          /\ syncers[s].st = "waiting" /\ syncers[s].ack = "continue"
          /\ syncers'[s].st = "asked" /\ syncers'[s].ack = "none"
          /\ syncers'[s].from = syncers[s].from
          /\ UNCHANGED syncQ
        BY <1>4, SyncerStates
    <2>2. /\ s = sid /\ mode = "syncing" /\ syncers[s].from = last /\ sq = None
          /\ \A i \in 1..Len(syncQ) : ~Vc(i)
        BY <2>1 DEF Token
    <2>3. \A i \in 1..Len(syncQ') : ~Vc(i)'
        BY <1>1, <2>1, <2>2 DEF Vc
    <2>4. \A t \in SyncerIds : syncers'[t].st \in {"asked", "parked"} \/ syncers'[t].ack = "continue" =>
            t = sid' /\ mode' = "syncing"
        BY <1>1, <2>1, <2>2 DEF Token
    <2>5. /\ syncers'[sid'].st = "asked" /\ syncers'[sid'].from = last' /\ sq' = None
          /\ syncers'[sid'].ack = "none"
        BY <1>1, <2>1, <2>2
    <2>. QED
        BY <2>3, <2>4, <2>5 DEF Token
<1>5. CASE AnswerRequest(s)
    <2>1. /\ \A t \in SyncerIds : t # s => syncers'[t] = syncers[t]
          /\ syncers[s].st = "asked" /\ syncers'[s].st = "waiting"
          /\ syncers'[s].ack = syncers[s].ack
          /\ \E v \in Answers(syncers[s].from) :
               /\ syncers'[s].from = v.last
               /\ syncQ' = Append(syncQ, [id |-> s, k |-> "vc", v |-> v])
        BY <1>5, SyncerStates
    <2>2. /\ s = sid /\ mode = "syncing" /\ syncers[s].from = last /\ sq = None
          /\ \A i \in 1..Len(syncQ) : ~Vc(i)
          /\ syncers[s].ack # "continue"
        BY <2>1 DEF Token
    <2>3. PICK v \in Answers(last) :
            /\ syncers'[s].from = v.last
            /\ syncQ' = Append(syncQ, [id |-> s, k |-> "vc", v |-> v])
        BY <2>1, <2>2
    <2>4. Answer(v, last, sink)
        BY AnswerEnds DEF Types, SyncT, Reached
    <2>5. \A i \in 1..Len(syncQ') : Vc(i)' => i = Len(syncQ) + 1 /\ syncQ'[i].v = v
        <3>. DEFINE m == [id |-> s, k |-> "vc", v |-> v]
        <3>1. syncQ' = Append(syncQ, m) /\ m.v = v
            BY <2>3
        <3>. HIDE DEF m
        <3>. QED
            BY <1>1, <2>2, <3>1, VcAppend
    <2>6. \A t \in SyncerIds : syncers'[t].st \in {"asked", "parked"} \/ syncers'[t].ack = "continue" =>
            t = sid' /\ mode' = "syncing"
        BY <1>1, <2>1, <2>2 DEF Token
    <2>7. /\ syncers'[sid'].st = "waiting" /\ syncers'[sid'].from = v.last /\ sq' = None
          /\ syncers'[sid'].ack # "continue"
        BY <1>1, <2>1, <2>2, <2>3
    <2>8. \A i \in 1..Len(syncQ') : Vc(i)' =>
              /\ Answer(syncQ'[i].v, last', sink') /\ sq' = None
              /\ syncers'[sid'].st = "waiting" => syncers'[sid'].from = syncQ'[i].v.last
              /\ \A j \in 1..Len(syncQ') : Vc(j)' => i = j
        BY <1>1, <2>4, <2>5, <2>7
    <2>. QED
        BY <2>6, <2>7, <2>8 DEF Token
<1>6. CASE SyncerEnds(s)
    <2>1. /\ \A t \in SyncerIds : t # s => syncers'[t] = syncers[t]
          /\ syncers'[s].st = "done" /\ syncers'[s].ack = "none"
          /\ syncQ' = Append(syncQ, [id |-> s, k |-> "stopped", v |-> None])
        BY <1>6, SyncerStates
    <2>2. \A i \in 1..Len(syncQ') : Vc(i)' => i \in 1..Len(syncQ) /\ Vc(i) /\ syncQ'[i] = syncQ[i]
        <3>. DEFINE m == [id |-> s, k |-> "stopped", v |-> None]
        <3>1. syncQ' = Append(syncQ, m) /\ m.k # "vc"
            BY <2>1
        <3>. HIDE DEF m
        <3>. QED
            BY <1>1, <3>1, VcAppend DEF Vc
    <2>3. \A t \in SyncerIds : syncers'[t].st \in {"asked", "parked"} \/ syncers'[t].ack = "continue" =>
            syncers'[t] = syncers[t]
        BY <2>1
    <2>4. \A t \in SyncerIds : syncers'[t].st = "waiting" => syncers'[t] = syncers[t]
        BY <2>1
    <2>. HIDE DEF Vc
    <2>5. \A t \in SyncerIds : syncers'[t].st \in {"asked", "parked"} \/ syncers'[t].ack = "continue" =>
            t = sid' /\ mode' = "syncing"
        BY <1>1, <2>3 DEF Token
    <2>6. mode' = "syncing" =>
            /\ syncers'[sid'].st \in {"asked", "parked"} =>
                 /\ syncers'[sid'].from = last' /\ sq' = None
                 /\ \A i \in 1..Len(syncQ') : ~Vc(i)'
            /\ syncers'[sid'].ack = "continue" =>
                 /\ syncers'[sid'].st = "waiting" /\ syncers'[sid'].from = last' /\ sq' = None
                 /\ \A i \in 1..Len(syncQ') : ~Vc(i)'
        BY <1>1, <2>2, <2>3 DEF Token
    <2>7. mode' = "syncing" => \A i \in 1..Len(syncQ') : Vc(i)' =>
              /\ Answer(syncQ'[i].v, last', sink') /\ sq' = None
              /\ syncers'[sid'].st = "waiting" => syncers'[sid'].from = syncQ'[i].v.last
              /\ \A j \in 1..Len(syncQ') : Vc(j)' => i = j
        BY <1>1, <2>2, <2>4 DEF Token
    <2>8. mode' = "syncing" /\ sq' # None =>
              /\ Answer(sq', last', sink') /\ ~IsEmpty(sq')
              /\ syncers'[sid'].st = "waiting" => syncers'[sid'].from = sq'.last
        BY <1>1, <2>4 DEF Token
    <2>9. ~IsEmpty(sq') => ~IsEmpty(sq)'
        BY DEF IsEmpty
    <2>. QED
        BY <2>5, <2>6, <2>7, <2>8, <2>9, Zenon DEF Token
<1>. QED
    BY <1>2, <1>3, <1>4, <1>5, <1>6

\* The processor takes a notification.
LEMMA TokenNotification ==
    ASSUME Types, Handover, Token, TakeNotification
    PROVE  Token'
<1>1. sink \in Int /\ sid \in SyncerIds /\ mode \in {"initial", "syncing", "synced"} /\ sid \in Int
    BY ReachTypes, Bounds DEF Types, SyncT
<1>2. ASSUME UNCHANGED <<sink, mode, last, sid, sq, syncers, syncQ>>
      PROVE  Token'
    <2>1. sink' \in Int /\ sink <= sink'
        BY <1>1, <1>2
    <2>. QED
        BY <1>2, <2>1, TokenSame
<1>3. CASE Connected
    <2>1. UNCHANGED <<sink, syncQ>>
        BY <1>3, ConnectedEffect
    <2>2. \/ UNCHANGED <<mode, last, sid, sq, syncers>>
          \/ /\ mode' = "syncing" /\ sq' = None /\ SpawnSyncer(sid', last')
             /\ \/ mode = "synced" /\ sid' = sid + 1
                \/ mode = "initial"
        BY <1>3, ConnectedEffect
    <2>3. CASE /\ mode' = "syncing" /\ sq' = None /\ SpawnSyncer(sid', last')
               /\ \/ mode = "synced" /\ sid' = sid + 1
                  \/ mode = "initial"
        <3>1. /\ sid' \in SyncerIds
              /\ syncers' = [syncers EXCEPT ![sid'] = [st |-> "asked", from |-> last', ack |-> "none"]]
            BY <2>3 DEF SpawnSyncer
        <3>2. \A i \in 1..Len(syncQ) : syncQ[i].id # sid'
            <4>1. mode = "initial" \/ sid' > sid
                BY <1>1, <2>3
            <4>. QED
                BY <3>1, <4>1 DEF Handover, Fresh
        <3>3. /\ syncers'[sid'].st = "asked" /\ syncers'[sid'].from = last'
              /\ syncers'[sid'].ack = "none"
              /\ \A t \in SyncerIds : t # sid' => syncers'[t] = syncers[t]
            BY <3>1 DEF Types
        <3>4. \A i \in 1..Len(syncQ') : ~Vc(i)'
            BY <2>1, <3>2 DEF Vc
        <3>5. \A t \in SyncerIds : syncers[t].st \notin {"asked", "parked"} /\ syncers[t].ack # "continue"
            BY <2>3, Zenon DEF Token
        <3>6. \A t \in SyncerIds : syncers'[t].st \in {"asked", "parked"} \/ syncers'[t].ack = "continue" =>
                t = sid' /\ mode' = "syncing"
            BY <2>3, <3>3, <3>5
        <3>. QED
            BY <2>3, <3>3, <3>4, <3>6 DEF Token
    <2>. QED
        BY <1>2, <2>1, <2>2, <2>3
<1>4. CASE Disconnected
    BY <1>2, <1>4, DisconnectedEffect
<1>5. CASE Shutdown
    <2>1. /\ UNCHANGED <<sink, syncQ, mode, last, sid, sq>>
          /\ \A t \in SyncerIds : /\ syncers'[t].st = syncers[t].st
                                  /\ syncers'[t].from = syncers[t].from
                                  /\ syncers'[t].ack \in {"stop", syncers[t].ack}
        BY <1>5, ShutdownEffect
    <2>2. sink' \in Int /\ sink <= sink'
        BY <1>1, <2>1
    <2>. QED
        BY <2>1, <2>2, TokenSame
<1>6. CASE RealtimeVcc
    <2>1. UNCHANGED <<sink, mode, sid, sq, syncers, syncQ>> /\ (last' = last \/ mode = "synced")
        BY <1>6, RealtimeEffect
    <2>. QED
        BY <1>2, <2>1, TokenOut
<1>. QED
    BY <1>3, <1>4, <1>5, <1>6 DEF TakeNotification

\* The response that the processor has is the only thing under way, and an answer
\* to a request from last.
LEMMA RespondsIs ==
    ASSUME Types, Spawned, Token, NEW v, Responds(v), UNCHANGED sid
    PROVE  /\ Answer(v, last, sink) /\ ~IsEmpty(v)
           /\ syncers[sid].st \in {"waiting", "done"} /\ syncers[sid].ack # "continue"
           /\ syncers[sid].st = "waiting" => syncers[sid].from = v.last
           /\ \A i \in 1..Len(syncQ') : ~Vc(i)'
<1>1. mode = "syncing" /\ sid \in SyncerIds /\ syncers[sid] \in Syncers /\ syncers[sid].st # "none"
    BY DEF Responds, Spawned, Types, SyncT
<1>2. \A x \in Syncers : x.st \in {"none", "asked", "parked", "waiting", "done"}
    BY Zenon DEF Syncers
<1>3. CASE syncQ # <<>> /\ Vc(1) /\ syncQ[1].v = v /\ ~IsEmpty(v) /\ syncQ' = Tail(syncQ)
    <2>1. 1 \in 1..Len(syncQ) /\ Vc(1)
        BY <1>3 DEF Types, SyncsOK
    <2>2. /\ Answer(v, last, sink) /\ sq = None
          /\ syncers[sid].st = "waiting" => syncers[sid].from = v.last
          /\ \A j \in 1..Len(syncQ) : Vc(j) => 1 = j
        BY <1>1, <1>3, <2>1 DEF Token
    <2>3. syncers[sid].st \notin {"asked", "parked"} /\ syncers[sid].ack # "continue"
        BY <1>1, <2>1 DEF Token
    <2>4. \A i \in 1..Len(syncQ') : ~Vc(i)'
        <3>. SUFFICES ASSUME NEW i \in 1..Len(syncQ'), Vc(i)'
                      PROVE  FALSE
            OBVIOUS
        <3>1. PICK j \in 1..Len(syncQ) : Vc(j) /\ j = i + 1
            BY <1>3, VcTail
        <3>2. i + 1 # 1
            OBVIOUS
        <3>. QED
            BY <2>2, <3>1, <3>2
    <2>. QED
        BY <1>1, <1>2, <1>3, <2>2, <2>3, <2>4
<1>4. CASE sq = v /\ UNCHANGED syncQ
    <2>1. sq # None
        BY <1>4, NoneIsNoChange DEF Responds
    <2>2. /\ Answer(sq, last, sink) /\ ~IsEmpty(sq)
          /\ syncers[sid].st = "waiting" => syncers[sid].from = sq.last
          /\ \A i \in 1..Len(syncQ) : ~Vc(i)
          /\ syncers[sid].st \notin {"asked", "parked"} /\ syncers[sid].ack # "continue"
        BY <1>1, <2>1 DEF Token
    <2>3. \A i \in 1..Len(syncQ') : ~Vc(i)'
        BY <1>4, <2>2 DEF Vc
    <2>. QED
        BY <1>1, <1>2, <1>4, <2>2, <2>3
<1>. QED
    BY <1>3, <1>4 DEF Responds

\* The processor works on a response.
LEMMA TokenWork ==
    ASSUME Types, Spawned, Token, TakeSyncer \/ \E b \in 1..MaxBlock : ProcessedBlock(b)
    PROVE  Token'
<1>1. /\ UNCHANGED <<sink, sid>> /\ sink' \in Int /\ sink <= sink' /\ sid \in SyncerIds
      /\ syncers \in [SyncerIds -> Syncers]
    BY WorkEffect, ReachTypes DEF Types, SyncT
<1>2. ASSUME UNCHANGED <<mode, last, sq, syncers>>,
             UNCHANGED syncQ \/ (syncQ # <<>> /\ syncQ' = Tail(syncQ))
      PROVE  Token'
    BY <1>1, <1>2, TokenSame
<1>3. CASE /\ UNCHANGED <<mode, last, sq>>
           /\ mode = "syncing" /\ syncQ # <<>> /\ Vc(1) /\ IsEmpty(syncQ[1].v)
           /\ syncQ' = Tail(syncQ) /\ AckRoom /\ Ack("continue")
    <2>1. CASE syncers[sid].st = "done"
        <3>1. UNCHANGED syncers
            BY <2>1, <1>3 DEF Ack
        <3>. QED
            BY <1>2, <1>3, <3>1
    <2>2. CASE syncers[sid].st # "done"
        <3>. DEFINE y == [syncers[sid] EXCEPT !.ack = "continue"]
        <3>1. syncers' = [syncers EXCEPT ![sid] = y]
            BY <1>3, <2>2 DEF Ack
        <3>2. y.st = syncers[sid].st /\ y.from = syncers[sid].from /\ y.ack = "continue"
            BY <1>1 DEF Syncers
        <3>. HIDE DEF y
        <3>3. syncers'[sid] = y /\ \A t \in SyncerIds : t # sid => syncers'[t] = syncers[t]
            BY <1>1, <3>1
        <3>4. 1 \in 1..Len(syncQ)
            BY <1>3 DEF Types, SyncsOK
        <3>5. /\ Answer(syncQ[1].v, last, sink) /\ sq = None
              /\ syncers[sid].st = "waiting" => syncers[sid].from = syncQ[1].v.last
              /\ \A j \in 1..Len(syncQ) : Vc(j) => 1 = j
              /\ syncers[sid].st \notin {"asked", "parked"}
            BY <1>3, <3>4 DEF Token
        <3>6. syncQ[1].v.last = last
            BY <1>3, <3>5, AnswerEmpty
        <3>7. syncers[sid].st = "waiting"
            <4>1. syncers[sid].st # "none"
                BY <1>3 DEF Spawned
            <4>2. \A x \in Syncers : x.st \in {"none", "asked", "parked", "waiting", "done"}
                BY Zenon DEF Syncers
            <4>. QED
                BY <1>1, <2>2, <3>5, <4>1, <4>2
        <3>8. \A i \in 1..Len(syncQ') : ~Vc(i)'
            <4>. SUFFICES ASSUME NEW i \in 1..Len(syncQ'), Vc(i)'
                          PROVE  FALSE
                OBVIOUS
            <4>1. PICK j \in 1..Len(syncQ) : Vc(j) /\ j = i + 1
                BY <1>1, <1>3, VcTail
            <4>2. i + 1 # 1
                OBVIOUS
            <4>. QED
                BY <3>5, <4>1, <4>2
        <3>9. \A t \in SyncerIds : syncers'[t].st \in {"asked", "parked"} \/ syncers'[t].ack = "continue" =>
                t = sid' /\ mode' = "syncing"
            BY <1>1, <1>3, <3>3 DEF Token
        <3>10. /\ syncers'[sid'].st = "waiting" /\ syncers'[sid'].from = last' /\ sq' = None
            BY <1>1, <1>3, <3>2, <3>3, <3>5, <3>6, <3>7
        <3>. QED
            BY <3>8, <3>9, <3>10 DEF Token
    <2>. QED
        BY <2>1, <2>2
<1>4. CASE /\ UNCHANGED <<mode, last, syncers>>
           /\ sq = None /\ sq' = syncQ[1].v /\ Responds(syncQ[1].v)
    <2>1. PICK v : v = syncQ[1].v
        OBVIOUS
    <2>2. /\ Answer(v, last, sink) /\ ~IsEmpty(v)
          /\ syncers[sid].st \in {"waiting", "done"} /\ syncers[sid].ack # "continue"
          /\ syncers[sid].st = "waiting" => syncers[sid].from = v.last
          /\ \A i \in 1..Len(syncQ') : ~Vc(i)'
        BY <1>1, <1>4, <2>1, RespondsIs
    <2>3. \A t \in SyncerIds : syncers'[t].st \in {"asked", "parked"} \/ syncers'[t].ack = "continue" =>
            t = sid' /\ mode' = "syncing"
        BY <1>1, <1>4 DEF Token
    <2>4. /\ syncers'[sid'].st \notin {"asked", "parked"} /\ syncers'[sid'].ack # "continue"
          /\ syncers'[sid'].st = "waiting" => syncers'[sid'].from = sq'.last
          /\ Answer(sq', last', sink') /\ ~IsEmpty(sq')
        BY <1>1, <1>4, <2>1, <2>2
    <2>5. ~IsEmpty(sq') => ~IsEmpty(sq)'
        BY DEF IsEmpty
    <2>. QED
        BY <2>2, <2>3, <2>4, <2>5 DEF Token
<1>5. ASSUME NEW v \in Changes, Responds(v), StepsOn(v)
      PROVE  Token'
    <2>1. /\ Answer(v, last, sink) /\ ~IsEmpty(v)
          /\ syncers[sid].st \in {"waiting", "done"} /\ syncers[sid].ack # "continue"
          /\ syncers[sid].st = "waiting" => syncers[sid].from = v.last
          /\ \A i \in 1..Len(syncQ') : ~Vc(i)'
        BY <1>1, <1>5, RespondsIs
    <2>2. \A t \in SyncerIds : /\ syncers'[t].st = syncers[t].st /\ syncers'[t].from = syncers[t].from
                               /\ t # sid => syncers'[t].ack = syncers[t].ack
        BY <1>5 DEF StepsOn
    <2>3. \/ UNCHANGED <<mode, last, sq, syncers>>
          \/ /\ UNCHANGED <<mode, syncers>> /\ syncers[sid].st = "done" /\ last' = v.last /\ sq' = None
          \/ /\ syncers[sid].st # "done" /\ last' = v.last /\ sq' = None
             /\ \/ mode' = "syncing" /\ syncers'[sid].ack = "continue"
                \/ mode' = "synced" /\ syncers'[sid].ack = "stop"
        BY <1>5, Zenon DEF StepsOn
    <2>4. mode = "syncing" /\ (UNCHANGED syncQ \/ (syncQ # <<>> /\ syncQ' = Tail(syncQ)))
        BY <1>5 DEF Responds
    <2>5. CASE UNCHANGED <<mode, last, sq, syncers>>
        BY <1>2, <2>4, <2>5
    <2>6. CASE /\ UNCHANGED <<mode, syncers>> /\ syncers[sid].st = "done" /\ last' = v.last /\ sq' = None
        <3>1. \A t \in SyncerIds : syncers'[t].st \in {"asked", "parked"} \/ syncers'[t].ack = "continue" =>
                t = sid' /\ mode' = "syncing"
            BY <1>1, <2>6 DEF Token
        <3>2. syncers'[sid'].st = "done" /\ syncers'[sid'].ack # "continue"
            BY <1>1, <2>1, <2>6
        <3>. QED
            BY <2>1, <2>6, <3>1, <3>2 DEF Token
    <2>7. CASE /\ syncers[sid].st # "done" /\ last' = v.last /\ sq' = None
               /\ mode' = "syncing" /\ syncers'[sid].ack = "continue"
        <3>1. \A t \in SyncerIds : syncers'[t].st \in {"asked", "parked"} \/ syncers'[t].ack = "continue" =>
                t = sid' /\ mode' = "syncing"
            BY <1>1, <2>1, <2>2, <2>7 DEF Token
        <3>2. /\ syncers'[sid'].st = "waiting" /\ syncers'[sid'].from = last'
            BY <1>1, <2>1, <2>2, <2>7
        <3>. QED
            BY <2>1, <2>7, <3>1, <3>2 DEF Token
    <2>8. CASE mode' = "synced" /\ syncers'[sid].ack = "stop"
        <3>1. \A t \in SyncerIds : syncers[t].st \in {"asked", "parked"} \/ syncers[t].ack = "continue" =>
                t = sid
            BY DEF Token
        <3>2. \A t \in SyncerIds : syncers'[t].st \notin {"asked", "parked"} /\ syncers'[t].ack # "continue"
            BY <1>1, <2>1, <2>2, <2>8, <3>1
        <3>. QED
            BY <2>8, <3>2 DEF Token
    <2>. QED
        BY <2>3, <2>5, <2>6, <2>7, <2>8
<1>6. \/ /\ UNCHANGED <<mode, last, sq, syncers>>
         /\ UNCHANGED syncQ \/ (syncQ # <<>> /\ syncQ' = Tail(syncQ))
      \/ /\ UNCHANGED <<mode, last, sq>>
         /\ mode = "syncing" /\ syncQ # <<>> /\ Vc(1) /\ IsEmpty(syncQ[1].v)
         /\ syncQ' = Tail(syncQ) /\ AckRoom /\ Ack("continue")
      \/ /\ UNCHANGED <<mode, last, syncers>>
         /\ sq = None /\ sq' = syncQ[1].v /\ Responds(syncQ[1].v)
      \/ \E v \in Changes : Responds(v) /\ StepsOn(v)
    BY WorkEffect
<1>. QED
    BY <1>2, <1>3, <1>4, <1>5, <1>6

LEMMA TokenNext ==
    ASSUME Types, Handover, Reached, Stopping, Token, [Next]_vars
    PROVE  Token'
<1>1. CASE Drain
    <2>1. UNCHANGED <<mode, syncers>> /\ mode = "synced"
        BY <1>1, DrainEffect DEF Handover, Stopping
    <2>. QED
        BY <2>1, TokenOut
<1>2. CASE Restart
    <2>1. mode' = "initial" /\ \A t \in SyncerIds : syncers'[t] = IdleSyncer
        BY <1>2 DEF Restart
    <2>. QED
        BY <2>1 DEF Token, IdleSyncer
<1>3. CASE UNCHANGED vars
    BY <1>3 DEF vars, nodeVars, vpVars, syncVars, Token, Vc, IsEmpty
<1>. QED
    BY <1>1, <1>2, <1>3, TokenNode, TokenSyncer, TokenNotification, TokenWork DEF Next, Handover

-----------------------------------------------------------------------------
(* The database until the processor is synced.                             *)

\* The blocks above the pruning point only become fewer.
LEMMA AbovePruningNext ==
    ASSUME Types, Order, UNCHANGED pp \/ Prune
    PROVE  \A d \in Blocks : AbovePruning(d)' => AbovePruning(d)
BY PruneMoves DEF Order, AbovePruning

\* DbConsistent and AppliedIs block by block.
LEMMA Blockwise ==
    ASSUME Types, NEW b \in Blocks
    PROVE  /\ AppliedIs(b) <=> \A d \in 1..MaxBlock : AbovePruning(d) => (d \in applied <=> d \in Chain[b])
           /\ DbConsistent <=> AppliedIs(Position)
           /\ Position \in Blocks
<1>1. applied \subseteq 1..MaxBlock /\ Chain[b] \subseteq 1..MaxBlock
    BY ChainFacts DEF Types, DbT
<1>2. Position \in Blocks
    BY Bounds DEF Position, Types, DbT
<1>3. AppliedIs(b) <=> \A d \in 1..MaxBlock : AbovePruning(d) => (d \in applied <=> d \in Chain[b])
    <2>. HIDE DEF AbovePruning
    <2>. QED
        BY <1>1 DEF AppliedIs
<1>4. DbConsistent <=> AppliedIs(Position)
    BY DEF DbConsistent, AppliedIs
<1>. QED
    BY <1>2, <1>3, <1>4

\* What is exact stays so when the pruning point moves.
LEMMA DbStays ==
    ASSUME Types, Order, UNCHANGED applied, UNCHANGED pp \/ Prune, NEW b \in Blocks
    PROVE  /\ {d \in applied : AbovePruning(d)} = {d \in Chain[b] : AbovePruning(d)} =>
                {d \in applied' : AbovePruning(d)'} = {d \in Chain[b] : AbovePruning(d)'}
           /\ UNCHANGED cursor /\ DbConsistent => DbConsistent'
<1>1. \A d \in 1..MaxBlock : AbovePruning(d)' => AbovePruning(d)
    BY AbovePruningNext, Bounds
<1>2. \A S \in SUBSET (1..MaxBlock) :
        {d \in applied : AbovePruning(d)} = {d \in S : AbovePruning(d)} =>
          {d \in applied : AbovePruning(d)'} = {d \in S : AbovePruning(d)'}
    <2>1. applied \subseteq 1..MaxBlock
        BY DEF Types, DbT
    <2>2. \A S \in SUBSET (1..MaxBlock) : \A d \in S :
            {x \in applied : AbovePruning(x)} = {x \in S : AbovePruning(x)} /\ AbovePruning(d)' =>
              d \in {x \in applied : AbovePruning(x)'}
        BY <1>1
    <2>3. \A S \in SUBSET (1..MaxBlock) : \A d \in applied :
            {x \in applied : AbovePruning(x)} = {x \in S : AbovePruning(x)} /\ AbovePruning(d)' =>
              d \in {x \in S : AbovePruning(x)'}
        BY <1>1, <2>1
    <2>. QED
        BY <2>2, <2>3
<1>3. /\ Position \in Blocks /\ Chain[Position] \in SUBSET (1..MaxBlock)
      /\ Chain[b] \in SUBSET (1..MaxBlock)
    BY Blockwise, ChainFacts
<1>4. UNCHANGED cursor => Position' = Position
    BY DEF Position
<1>5. UNCHANGED cursor /\ DbConsistent => DbConsistent'
    BY <1>2, <1>3, <1>4, Zenon DEF DbConsistent
<1>. QED
    BY <1>2, <1>3, <1>5, Zenon

\* A step that leaves the database and the place in it alone.
LEMMA StoredSame ==
    ASSUME Types, Types', Order, Stored, UNCHANGED <<mode, last, cursor, applied>>,
           UNCHANGED pp \/ Prune,
           mode = "initial" => rtq' = rtq \/ rtq' = <<>>, ~strayed' => ~strayed
    PROVE  Stored'
<1>1. last \in Blocks
    BY DEF Types, SyncT
<1>2. DbConsistent => DbConsistent'
    BY <1>1, DbStays
<1>3. AppliedIs(last) => AppliedIs(last)'
    BY <1>1, DbStays, Zenon DEF AppliedIs
<1>. QED
    BY <1>2, <1>3, Zenon DEF Stored

\* Applying an answer to a request from b, to the chain of b, gives the chain of
\* the block in which it ends: what both chains have lies before what it adds.
LEMMA AnswerApplied ==
    ASSUME Types, NEW b \in Blocks, NEW v, NEW n, Answer(v, b, n), ~IsEmpty(v), AppliedIs(b),
           Apply(v), UNCHANGED pp
    PROVE  AppliedIs(v.last)' /\ v.last \in Blocks
<1>0. PICK k \in Blocks : \E c \in Chain[k] \ Chain[b] :
        v = [rem |-> Chain[b] \ Chain[k], add |-> {d \in Chain[k] \ Chain[b] : d <= c}, last |-> c]
    BY DEF Answer
<1>1. PICK c \in Chain[k] \ Chain[b] :
        v = [rem |-> Chain[b] \ Chain[k], add |-> {d \in Chain[k] \ Chain[b] : d <= c}, last |-> c]
    BY <1>0
<1>2. /\ c \in Blocks /\ Chain[c] = {d \in Chain[k] : d <= c} /\ v.last = c
      /\ Chain[k] \subseteq 1..MaxBlock /\ Chain[b] \subseteq 1..MaxBlock /\ applied \subseteq 1..MaxBlock
    BY <1>1, ChainFacts DEF Types, DbT
<1>3. ASSUME NEW d \in Chain[b], d \in Chain[k]
      PROVE  d <= c
    <2>1. Chain[d] = {e \in Chain[k] : e <= d} /\ Chain[d] \subseteq Chain[b] /\ d \in Int /\ c \in Int
        BY <1>2, <1>3, ChainFacts, Bounds
    <2>2. c \notin Chain[d]
        BY <1>1, <2>1
    <2>. QED
        BY <1>1, <2>1, <2>2
<1>4. applied' = (applied \ (Chain[b] \ Chain[k])) \cup {d \in Chain[k] \ Chain[b] : d <= c}
    BY <1>1 DEF Apply
<1>5. \A d \in 1..MaxBlock : AbovePruning(d)' <=> AbovePruning(d)
    BY DEF AbovePruning
<1>6. \A d \in 1..MaxBlock : AbovePruning(d) => (d \in applied <=> d \in Chain[b])
    BY Blockwise
<1>7. \A d \in 1..MaxBlock : AbovePruning(d) => (d \in applied' <=> d \in Chain[c])
    <2>. TAKE d \in 1..MaxBlock
    <2>. HAVE AbovePruning(d)
    <2>1. d \in applied <=> d \in Chain[b]
        BY <1>6
    <2>2. d \in applied' <=> (d \in Chain[b] /\ d \in Chain[k]) \/ (d \in Chain[k] /\ d \notin Chain[b] /\ d <= c)
        BY <1>4, <2>1
    <2>3. d \in Chain[c] <=> d \in Chain[k] /\ d <= c
        BY <1>2
    <2>4. d \in Chain[b] /\ d \in Chain[k] => d <= c
        BY <1>3
    <2>. QED
        BY <2>2, <2>3, <2>4
<1>8. applied' \subseteq 1..MaxBlock /\ Chain[c] \subseteq 1..MaxBlock
    BY <1>2, <1>4
<1>9. {d \in applied' : AbovePruning(d)'} = {d \in Chain[c] : AbovePruning(d)'}
    <2>. HIDE DEF AbovePruning
    <2>. QED
        BY <1>5, <1>7, <1>8
<1>. QED
    BY <1>2, <1>9, Zenon DEF AppliedIs

\* A block that the node no longer has a header of has no block of its chain above
\* the pruning point.
LEMMA PrunedAway ==
    ASSUME Types, NEW b \in Blocks, ~HasHeader(b) \/ b = 0
    PROVE  {d \in Chain[b] : AbovePruning(d)} = {}
<1>1. CASE b = 0
    BY <1>1, ChainIsTree
<1>2. CASE ~HasHeader(b)
    <2>. SUFFICES ASSUME NEW d \in Chain[b], AbovePruning(d)
                  PROVE  FALSE
        OBVIOUS
    <2>1. b # pp /\ pp # 0 /\ pp \notin Chain[b]
        BY <1>2 DEF HasHeader, AbovePruning
    <2>2. pp \in Chain[d] /\ Chain[d] \subseteq Chain[b]
        BY <2>1, ChainFacts DEF AbovePruning
    <2>. QED
        BY <2>1, <2>2
<1>. QED
    BY <1>1, <1>2

LEMMA StoredSyncer ==
    ASSUME Types, Types', Order, Token, Stored, SyncerNext
    PROVE  Stored'
<1>1. UNCHANGED <<pp, mode, last, applied, rtq, strayed>>
    BY SyncerEffect
<1>2. PICK s \in SyncerIds : UNCHANGED cursor \/ PrunedRequest(s)
    BY SyncerEffect
<1>3. CASE UNCHANGED cursor
    BY <1>1, <1>3, StoredSame
<1>4. CASE PrunedRequest(s)
    <2>1. /\ syncers[s].st = "asked" /\ ~HasHeader(syncers[s].from) /\ cursor' = NoBlock
        BY <1>4 DEF PrunedRequest
    <2>2. s = sid /\ mode = "syncing" /\ syncers[s].from = last /\ last \in Blocks
        BY <2>1 DEF Token, Types, SyncT
    <2>3. {d \in Chain[last] : AbovePruning(d)} = {}
        BY <2>1, <2>2, PrunedAway
    <2>4. Position' = 0 /\ Chain[0] = {}
        BY <2>1, ChainIsTree DEF Position
    <2>5. ~strayed => AppliedIs(last)
        BY <2>2 DEF Stored
    <2>6. AppliedIs(last) => AppliedIs(last)' /\ DbConsistent'
        <3>1. \A d : AbovePruning(d)' <=> AbovePruning(d)
            BY <1>1 DEF AbovePruning
        <3>. HIDE DEF AbovePruning
        <3>. QED
            BY <1>1, <2>3, <2>4, <3>1 DEF AppliedIs, DbConsistent
    <2>. QED
        BY <1>1, <2>1, <2>2, <2>5, <2>6, Zenon DEF Stored
<1>. QED
    BY <1>2, <1>3, <1>4

\* The first syncer starts where the database is.
LEMMA StoredConnected ==
    ASSUME Types, Types', Order, Stopping, Stored, Quiet, Connected
    PROVE  Stored'
<1>1. /\ vp = "running" /\ notif # <<>> /\ notif[1].k = "connected"
      /\ notif[1].n \in Blocks /\ notif[1].pp \in Blocks
      /\ UNCHANGED <<pp, rtq, cursor, applied, strayed>>
      /\ \/ UNCHANGED <<mode, last>>
         \/ mode' = "syncing" /\ mode = "synced" /\ last' = last
         \/ mode' = "syncing" /\ mode = "initial" /\ last' = SyncFrom(notif[1])
    BY ConnectedEffect
<1>2. /\ \A d : AbovePruning(d)' <=> AbovePruning(d)
      /\ Position' = Position /\ Position \in Blocks
    BY <1>1, Blockwise DEF AbovePruning, Position, Types, SyncT
<1>3. DbConsistent => DbConsistent'
    <2>. HIDE DEF AbovePruning
    <2>. QED
        BY <1>1, <1>2 DEF DbConsistent
<1>4. CASE UNCHANGED <<mode, last>>
    BY <1>1, <1>4, StoredSame
<1>5. CASE mode' = "syncing" /\ mode = "synced" /\ last' = last
    <2>1. ~strayed => DbConsistent
        <3>1. ~vshut
            BY <1>1, <1>5 DEF Stopping
        <3>2. 1 \in 1..Len(notif) /\ \A j \in 1..(1 - 1) : notif[j].k = "vcc"
            BY <1>1 DEF Types, NotifsOK
        <3>. QED
            BY <1>1, <3>1, <3>2 DEF Quiet
    <2>2. cursor = last /\ Position = last
        BY <1>5, Bounds DEF Stored, Position, Types, SyncT, NoBlock
    <2>3. DbConsistent => AppliedIs(last)'
        <3>1. DbConsistent => {d \in applied : AbovePruning(d)} = {d \in Chain[last] : AbovePruning(d)}
            BY <2>2 DEF DbConsistent
        <3>. HIDE DEF AbovePruning
        <3>. QED
            BY <1>1, <1>2, <1>5, <3>1 DEF AppliedIs
    <2>. QED
        BY <1>1, <1>3, <1>5, <2>1, <2>2, <2>3, Zenon DEF Stored
<1>6. CASE mode' = "syncing" /\ mode = "initial" /\ last' = SyncFrom(notif[1])
    <2>1. ~strayed => DbConsistent
        BY <1>6 DEF Stored
    <2>2. cursor \in {NoBlock, last'}
        BY <1>6, Zenon DEF SyncFrom
    <2>3. \A d \in 1..MaxBlock : AbovePruning(d) => (d \in Chain[Position] <=> d \in Chain[last'])
        <3>1. CASE cursor # NoBlock
            BY <1>6, <3>1 DEF SyncFrom, Position
        <3>2. CASE cursor = NoBlock /\ notif[1].pp = 0
            BY <1>6, <3>2 DEF SyncFrom, Position
        <3>3. CASE cursor = NoBlock /\ notif[1].pp # 0
            <4>1. last' = notif[1].pp /\ Position = 0 /\ Chain[0] = {}
                BY <1>6, <3>3, ChainIsTree DEF SyncFrom, Position
            <4>2. notif[1].pp \in Chain[pp] /\ pp # 0 /\ pp \in Blocks
                BY <1>1, <3>3, ConnectedIs DEF Types, NodeT
            <4>3. ASSUME NEW d \in Chain[notif[1].pp], AbovePruning(d)
                  PROVE  FALSE
                <5>1. d \in Chain[pp] /\ d <= pp /\ d \in Blocks
                    BY <1>1, <4>2, ChainFacts
                <5>2. pp \in Chain[d] /\ d # pp /\ pp <= d
                    BY <4>2, <4>3, <5>1, ChainFacts DEF AbovePruning
                <5>. QED
                    BY <4>2, <5>1, <5>2, Bounds
            <4>. QED
                BY <4>1, <4>3
        <3>. QED
            BY <3>1, <3>2, <3>3
    <2>4. DbConsistent => AppliedIs(last)'
        <3>1. last' \in Blocks
            BY DEF Types, SyncT
        <3>2. DbConsistent => \A d \in 1..MaxBlock : AbovePruning(d) => (d \in applied <=> d \in Chain[Position])
            BY <1>2, Blockwise
        <3>3. applied \subseteq 1..MaxBlock /\ Chain[last'] \subseteq 1..MaxBlock
            BY <3>1, ChainFacts DEF Types, DbT
        <3>4. DbConsistent => {d \in applied : AbovePruning(d)'} = {d \in Chain[last'] : AbovePruning(d)'}
            <4>. HIDE DEF AbovePruning
            <4>. QED
                BY <1>2, <2>3, <3>2, <3>3
        <3>. QED
            BY <1>1, <3>4, Zenon DEF AppliedIs
    <2>. QED
        BY <1>1, <1>3, <1>6, <2>1, <2>2, <2>4, Zenon DEF Stored
<1>. QED
    BY <1>1, <1>4, <1>5, <1>6

\* Every response leaves the database exact.
LEMMA StepsApplied ==
    ASSUME Types, Order, Spawned, Token, Stored, NEW v \in Changes, Responds(v), StepsOn(v),
           UNCHANGED <<pp, sid>>, ~strayed
    PROVE  AppliedIs(last)' /\ DbConsistent'
<1>1. Answer(v, last, sink) /\ ~IsEmpty(v) /\ mode = "syncing" /\ last \in Blocks
    BY RespondsIs DEF Responds, Types, SyncT
<1>2. AppliedIs(last) /\ DbConsistent
    BY <1>1 DEF Stored
<1>3. \/ UNCHANGED <<last, cursor, applied>>
      \/ Apply(v) /\ last' = v.last
    BY <1>1, Zenon DEF StepsOn
<1>4. CASE UNCHANGED <<last, cursor, applied>>
    <2>1. DbConsistent'
        BY <1>1, <1>2, <1>4, DbStays
    <2>2. AppliedIs(last)'
        BY <1>1, <1>2, <1>4, DbStays, Zenon DEF AppliedIs
    <2>. QED
        BY <2>1, <2>2
<1>5. CASE Apply(v) /\ last' = v.last
    <2>1. AppliedIs(v.last)' /\ v.last \in Blocks
        BY <1>1, <1>2, <1>5, AnswerApplied
    <2>2. Position' = v.last
        BY <1>5, <2>1, Bounds DEF Apply, Position, NoBlock
    <2>. QED
        BY <1>5, <2>1, <2>2, Zenon DEF AppliedIs, DbConsistent
<1>. QED
    BY <1>3, <1>4, <1>5

LEMMA StoredWork ==
    ASSUME Types, Types', Order, Spawned, Token, Stored,
           TakeSyncer \/ \E b \in 1..MaxBlock : ProcessedBlock(b)
    PROVE  Stored'
<1>1. UNCHANGED <<pp, sid, strayed, rtq>>
    BY WorkEffect
<1>2. \/ UNCHANGED <<mode, last, cursor, applied>>
      \/ \E v \in Changes : Responds(v) /\ StepsOn(v)
    BY WorkEffect
<1>3. ASSUME NEW v \in Changes, Responds(v), StepsOn(v)
      PROVE  Stored'
    <2>1. \/ UNCHANGED <<mode, last, cursor, applied>>
          \/ cursor' = v.last /\ last' = v.last /\ mode' \in {"syncing", "synced"}
        BY <1>3, Zenon DEF StepsOn, Apply, Responds
    <2>2. CASE cursor' = v.last /\ last' = v.last /\ mode' \in {"syncing", "synced"}
        <3>1. ~strayed => AppliedIs(last)' /\ DbConsistent'
            BY <1>1, <1>3, StepsApplied
        <3>. QED
            BY <1>1, <2>2, <3>1, Zenon DEF Stored
    <2>. QED
        BY <1>1, <2>1, <2>2, StoredSame
<1>. QED
    BY <1>1, <1>2, <1>3, StoredSame

LEMMA StoredNext ==
    ASSUME Types, Types', Order, Handover, Stopping, Token, Stored, Quiet, [Next]_vars
    PROVE  Stored'
<1>1. CASE NodeNext \/ DataSourceNext
    <2>1. /\ UNCHANGED <<mode, last, cursor, applied, strayed, rtq>>
          /\ UNCHANGED pp \/ Prune
        BY <1>1, NodeEffect
    <2>. QED
        BY <2>1, StoredSame
<1>2. CASE SyncerNext
    BY <1>2, StoredSyncer
<1>3. CASE TakeNotification
    <2>1. CASE Connected
        BY <2>1, StoredConnected
    <2>2. CASE Disconnected
        <3>1. /\ UNCHANGED <<mode, last, cursor, applied, pp>> /\ rtq' = <<>>
              /\ strayed' = (strayed \/ ~DbConsistent)
            BY <2>2, DisconnectedEffect
        <3>2. ~strayed' => ~strayed
            BY <3>1
        <3>. QED
            BY <3>1, <3>2, StoredSame
    <2>3. CASE Shutdown
        <3>1. UNCHANGED <<mode, last, cursor, applied, pp, rtq, strayed>>
            BY <2>3, ShutdownEffect
        <3>. QED
            BY <3>1, StoredSame
    <2>4. CASE RealtimeVcc
        <3>1. /\ UNCHANGED <<mode, pp>> /\ strayed' = (strayed \/ notif[1].stray)
              /\ \/ UNCHANGED <<last, cursor, applied, rtq>>
                 \/ mode # "initial" /\ UNCHANGED <<last, cursor, applied>>
                 \/ mode = "synced" /\ cursor' = last'
            BY <2>4, RealtimeEffect DEF Apply
        <3>2. ~strayed' => ~strayed
            BY <3>1
        <3>3. CASE mode = "synced" /\ cursor' = last'
            BY <3>1, <3>3 DEF Stored
        <3>. QED
            BY <3>1, <3>2, <3>3, StoredSame
    <2>. QED
        BY <1>3, <2>1, <2>2, <2>3, <2>4 DEF TakeNotification
<1>4. CASE TakeSyncer \/ \E b \in 1..MaxBlock : ProcessedBlock(b)
    BY <1>4, StoredWork DEF Handover
<1>5. CASE Drain
    <2>1. /\ UNCHANGED <<mode, pp, strayed>> /\ mode = "synced"
          /\ \/ UNCHANGED <<last, cursor, applied>>
             \/ cursor' = last'
        BY <1>5, DrainEffect DEF Apply, Handover, Stopping
    <2>2. CASE cursor' = last'
        BY <2>1, <2>2 DEF Stored
    <2>. QED
        BY <2>1, <2>2, StoredSame
<1>6. CASE Restart
    <2>1. /\ mode' = "initial" /\ rtq' = <<>> /\ strayed' = (strayed \/ ~DbConsistent)
          /\ UNCHANGED <<cursor, applied, pp>>
        BY <1>6 DEF Restart, dbVars
    <2>2. DbConsistent => DbConsistent'
        BY <2>1, Zenon DEF DbConsistent, Position, AbovePruning
    <2>. QED
        BY <2>1, <2>2 DEF Stored
<1>7. CASE UNCHANGED vars
    <2>1. UNCHANGED <<mode, last, cursor, applied, pp, rtq, strayed>>
        BY <1>7 DEF vars, nodeVars, vpVars, syncVars, dbVars
    <2>. QED
        BY <2>1, StoredSame
<1>. QED
    BY <1>1, <1>2, <1>3, <1>4, <1>5, <1>6, <1>7 DEF Next

-----------------------------------------------------------------------------
(* Between two connections.                                                *)

\* Nothing but changes comes before the end of the queue or a Connected.
Between == \/ Down /\ ChangesFrom(1)
           \/ \E i \in 1..Len(notif) : /\ notif[i].k = "connected"
                                       /\ \A j \in 1..(i - 1) : notif[j].k = "vcc"

LEMMA BetweenNode ==
    ASSUME Types, Order, NodeNext \/ DataSourceNext, Between'
    PROVE  Between
<1>1. ASSUME UNCHANGED notif, Down' => Down
      PROVE  Between
    BY <1>1 DEF Between, ChangesFrom
<1>2. ASSUME NEW m \in NotifMsgs, notif' = Append(notif, m),
             \/ m.k = "connected" /\ Down /\ ~Down'
             \/ m.k # "connected" /\ m.k # "vcc"
             \/ m.k = "vcc" /\ (Down' => Down)
      PROVE  Between
    <2>1. /\ Len(notif) \in Nat /\ Len(notif') = Len(notif) + 1 /\ notif'[Len(notif) + 1] = m
          /\ \A i \in 1..Len(notif) : notif'[i] = notif[i]
          /\ m.k # "vcc" => \A i \in 1..Len(notif') : ~ChangesFrom(i)'
          /\ \A i \in 1..Len(notif) : ChangesFrom(i)' => ChangesFrom(i)
        BY <1>2, Appended
    <2>2. CASE Down' /\ ChangesFrom(1)'
        <3>1. 1 \in 1..Len(notif') /\ m.k = "vcc" /\ Down
            BY <1>2, <2>1, <2>2
        <3>2. ChangesFrom(1)
            BY <2>1, <2>2 DEF ChangesFrom
        <3>. QED
            BY <3>1, <3>2 DEF Between
    <2>3. ASSUME NEW i \in 1..Len(notif'), notif'[i].k = "connected",
                 \A j \in 1..(i - 1) : notif'[j].k = "vcc"
          PROVE  Between
        <3>1. CASE i \in 1..Len(notif)
            <4>1. \A j \in 1..(i - 1) : notif[j].k = "vcc"
                <5>. TAKE j \in 1..(i - 1)
                <5>1. j \in 1..Len(notif)
                    BY <3>1, <2>1
                <5>. QED
                    BY <2>1, <2>3, <5>1
            <4>. QED
                BY <2>1, <2>3, <3>1, <4>1 DEF Between
        <3>2. CASE i = Len(notif) + 1
            <4>1. Down
                BY <1>2, <2>1, <2>3, <3>2
            <4>2. ChangesFrom(1)
                <5>. SUFFICES ASSUME NEW j \in 1..Len(notif)
                              PROVE  notif[j].k = "vcc"
                    BY DEF ChangesFrom
                <5>1. j \in 1..(i - 1)
                    BY <2>1, <3>2
                <5>. QED
                    BY <2>1, <2>3, <5>1
            <4>. QED
                BY <4>1, <4>2 DEF Between
        <3>. QED
            BY <2>1, <3>1, <3>2
    <2>. QED
        BY <2>2, <2>3 DEF Between
<1>3. CASE NodeNext
    <2>1. UNCHANGED notif /\ (Down' => Down)
        BY <1>3 DEF NodeNext, NewSink, Prune, LinkDrops, Down
    <2>. QED
        BY <1>1, <2>1
<1>4. CASE Register
    <2>1. UNCHANGED notif /\ (Down' => Down)
        BY <1>4 DEF Register, Down
    <2>. QED
        BY <1>1, <2>1
<1>5. CASE ConnectOk
    <2>. DEFINE m == [Msg("connected", None, FALSE) EXCEPT !.n = sink, !.pp = pp]
    <2>1. m \in NotifMsgs /\ m.k = "connected" /\ notif' = Append(notif, m)
        BY <1>5, ConnectedMsg DEF ConnectOk
    <2>2. Down /\ ~Down'
        BY <1>5 DEF ConnectOk, Down, Order, NodeOrder
    <2>. HIDE DEF m
    <2>. QED
        BY <1>2, <2>1, <2>2
<1>6. CASE ConnectFails \/ HandleDisconnect
    <2>. DEFINE m == Msg("disconnected", None, FALSE)
    <2>1. m \in NotifMsgs /\ m.k = "disconnected" /\ notif' = Append(notif, m)
        BY <1>6, MsgType DEF ConnectFails, HandleDisconnect, Hangup
    <2>. HIDE DEF m
    <2>. QED
        BY <1>2, <2>1
<1>7. CASE HandleNotification
    <2>. DEFINE m == Msg("vcc", Head(nodeQ).v, Head(nodeQ).stray)
    <2>1. Head(nodeQ) \in NodeMsgs
        BY <1>7 DEF HandleNotification, Types, NodeT
    <2>2. Head(nodeQ).v \in Changes /\ Head(nodeQ).stray \in BOOLEAN
        BY <2>1, Zenon DEF NodeMsgs
    <2>3. m \in NotifMsgs /\ m.k = "vcc" /\ notif' = Append(notif, m)
        BY <1>7, <2>2, MsgType DEF HandleNotification
    <2>4. Down' => Down
        BY <1>7 DEF HandleNotification, Down
    <2>. HIDE DEF m
    <2>. QED
        BY <1>2, <2>3, <2>4
<1>8. CASE HandleShutdown \/ HandleBlockClosed
    <2>. DEFINE m == Msg("shutdown", None, FALSE)
    <2>1. m \in NotifMsgs /\ m.k = "shutdown" /\ notif' = Append(notif, m)
        BY <1>8, MsgType DEF HandleShutdown, HandleBlockClosed
    <2>. HIDE DEF m
    <2>. QED
        BY <1>2, <2>1
<1>. QED
    BY <1>3, <1>4, <1>5, <1>6, <1>7, <1>8 DEF DataSourceNext

\* Taking a Connected puts the processor in a connection, and a change that comes
\* before one was left behind.
LEMMA BetweenTakes ==
    ASSUME Types, Order, notif # <<>>, notif' = Tail(notif), UNCHANGED <<link, shuttingDown>>,
           notif[1].k \in {"connected", "vcc"}, Between'
    PROVE  notif[1].k = "vcc" /\ notif[1].stray
<1>1. /\ Len(notif) \in Nat \ {0} /\ Len(notif') = Len(notif) - 1
      /\ \A i \in 1..Len(notif') : notif'[i] = notif[i + 1] /\ i + 1 \in 1..Len(notif)
      /\ \A i \in 2..Len(notif) : i - 1 \in 1..Len(notif') /\ notif'[i - 1] = notif[i]
      /\ ChangesFrom(1)' => ChangesFrom(1 + 1)
      /\ 1 \in 1..Len(notif)
    BY Taken
<1>2. CASE Down' /\ ChangesFrom(1)'
    <2>1. Down /\ ChangesFrom(2)
        BY <1>1, <1>2 DEF Down
    <2>2. CASE notif[1].k = "connected"
        <3>1. PICK m \in (1 + 1)..Len(notif) : notif[m].k = "disconnected"
            BY <1>1, <2>1, <2>2 DEF Order, DownOrder
        <3>. QED
            BY <2>1, <3>1 DEF ChangesFrom
    <2>3. CASE notif[1].k = "vcc"
        <3>1. ChangesFrom(1)
            BY <1>1, <2>1, <2>3 DEF ChangesFrom
        <3>. QED
            BY <1>1, <2>1, <2>3, <3>1 DEF Order, DownOrder
    <2>. QED
        BY <2>2, <2>3
<1>3. ASSUME NEW i \in 1..Len(notif'), notif'[i].k = "connected",
             \A j \in 1..(i - 1) : notif'[j].k = "vcc"
      PROVE  notif[1].k = "vcc" /\ notif[1].stray
    <2>1. i + 1 \in 1..Len(notif) /\ notif[i + 1].k = "connected" /\ 1 \in 1..((i + 1) - 1)
        BY <1>1, <1>3
    <2>2. \A m \in 2..((i + 1) - 1) : notif[m].k = "vcc"
        <3>. TAKE m \in 2..((i + 1) - 1)
        <3>1. m - 1 \in 1..(i - 1) /\ m \in 2..Len(notif)
            BY <1>1
        <3>. QED
            BY <1>1, <1>3, <3>1
    <2>3. /\ \A j \in 1..((i + 1) - 1) :
               (\A m \in j..((i + 1) - 1) : notif[m].k = "vcc") => notif[j].stray
          /\ \A j \in 1..((i + 1) - 1) : notif[j].k = "connected" =>
               \E m \in (j + 1)..((i + 1) - 1) : notif[m].k = "disconnected"
        BY <2>1 DEF Order, ConnectedOrder
    <2>4. CASE notif[1].k = "connected"
        <3>1. PICK m \in (1 + 1)..((i + 1) - 1) : notif[m].k = "disconnected"
            BY <2>1, <2>3, <2>4
        <3>. QED
            BY <2>2, <3>1
    <2>5. CASE notif[1].k = "vcc"
        <3>1. \A m \in 1..((i + 1) - 1) : notif[m].k = "vcc"
            BY <2>2, <2>5
        <3>. QED
            BY <2>1, <2>3, <2>5, <3>1
    <2>. QED
        BY <2>4, <2>5
<1>. QED
    BY <1>2, <1>3 DEF Between

LEMMA QuietNext ==
    ASSUME Types, Order, Handover, Stopping, Token, Stored, Stored', Quiet, [Next]_vars
    PROVE  Quiet'
<1>1. Quiet <=> (vp = "running" /\ ~vshut /\ ~strayed /\ Between => rtq = <<>> /\ DbConsistent)
    BY Zenon DEF Quiet, Between
<1>. SUFFICES ASSUME vp' = "running", ~vshut', ~strayed', Between'
              PROVE  rtq' = <<>> /\ DbConsistent'
    BY Zenon DEF Quiet, Between
<1>2. 0 \in Blocks
    BY Bounds
<1>3. CASE NodeNext \/ DataSourceNext
    <2>1. /\ UNCHANGED <<rtq, vshut, vp, cursor, applied, strayed>>
          /\ UNCHANGED pp \/ Prune
        BY <1>3, NodeEffect
    <2>2. Between
        BY <1>3, BetweenNode
    <2>3. rtq = <<>> /\ DbConsistent
        BY <1>1, <2>1, <2>2
    <2>. QED
        BY <1>2, <2>1, <2>3, DbStays
<1>4. CASE SyncerNext
    <2>1. UNCHANGED <<rtq, vshut, vp, applied, strayed, link, shuttingDown, notif, mode, pp>>
        BY <1>4, SyncerEffect
    <2>2. Between
        BY <2>1 DEF Between, Down, ChangesFrom
    <2>3. rtq = <<>> /\ DbConsistent
        BY <1>1, <2>1, <2>2
    <2>4. UNCHANGED cursor \/ mode = "syncing"
        BY <1>4, SyncerEffect DEF PrunedRequest, Token
    <2>5. CASE UNCHANGED cursor
        BY <1>2, <2>1, <2>3, <2>5, DbStays
    <2>6. CASE mode = "syncing"
        BY <2>1, <2>3, <2>6 DEF Stored
    <2>. QED
        BY <2>4, <2>5, <2>6
<1>5. CASE TakeNotification
    <2>1. CASE Connected
        <3>1. /\ notif # <<>> /\ notif' = Tail(notif) /\ notif[1].k = "connected"
              /\ UNCHANGED <<link, shuttingDown>>
            BY <2>1, ConnectedEffect
        <3>. QED
            BY <3>1, BetweenTakes
    <2>2. CASE Disconnected
        <3>1. /\ UNCHANGED <<cursor, applied, pp>> /\ rtq' = <<>>
              /\ strayed' = (strayed \/ ~DbConsistent)
            BY <2>2, DisconnectedEffect
        <3>. QED
            BY <1>2, <3>1, DbStays
    <2>3. CASE Shutdown
        BY <2>3, ShutdownEffect
    <2>4. CASE RealtimeVcc
        <3>1. /\ notif # <<>> /\ notif' = Tail(notif) /\ notif[1].k = "vcc"
              /\ UNCHANGED <<link, shuttingDown>> /\ strayed' = (strayed \/ notif[1].stray)
            BY <2>4, RealtimeEffect
        <3>. QED
            BY <3>1, BetweenTakes
    <2>. QED
        BY <1>5, <2>1, <2>2, <2>3, <2>4 DEF TakeNotification
<1>6. CASE TakeSyncer \/ \E b \in 1..MaxBlock : ProcessedBlock(b)
    <2>1. vp = "running" /\ UNCHANGED <<rtq, vshut, strayed, link, shuttingDown, notif, pp, sid>>
        BY <1>6, WorkEffect
    <2>2. Between
        BY <2>1 DEF Between, Down, ChangesFrom
    <2>3. rtq = <<>> /\ DbConsistent
        BY <1>1, <2>1, <2>2
    <2>4. \/ UNCHANGED <<cursor, applied>>
          \/ \E v \in Changes : Responds(v) /\ StepsOn(v)
        BY <1>6, WorkEffect
    <2>5. DbConsistent'
        BY <1>2, <2>1, <2>3, <2>4, DbStays, StepsApplied DEF Handover
    <2>. QED
        BY <2>1, <2>3, <2>5
<1>7. CASE Drain
    <2>1. /\ vp = "running" /\ rtq # <<>>
          /\ UNCHANGED <<vshut, strayed, link, shuttingDown, notif>>
        BY <1>7, DrainEffect DEF Handover
    <2>2. Between
        BY <2>1 DEF Between, Down, ChangesFrom
    <2>. QED
        BY <1>1, <2>1, <2>2
<1>8. CASE Restart
    <2>1. /\ UNCHANGED <<cursor, applied, pp>> /\ rtq' = <<>> /\ strayed' = (strayed \/ ~DbConsistent)
        BY <1>8 DEF Restart, dbVars
    <2>. QED
        BY <1>2, <2>1, DbStays
<1>9. CASE UNCHANGED vars
    <2>1. UNCHANGED <<rtq, vshut, vp, cursor, applied, strayed, link, shuttingDown, notif, pp>>
        BY <1>9 DEF vars, nodeVars, vpVars, dbVars
    <2>2. Between
        BY <2>1 DEF Between, Down, ChangesFrom
    <2>. QED
        BY <1>1, <1>2, <2>1, <2>2, DbStays
<1>. QED
    BY <1>3, <1>4, <1>5, <1>6, <1>7, <1>8, <1>9 DEF Next

-----------------------------------------------------------------------------
(* The replay of what was queued.                                          *)

LEMMA PassedType ==
    ASSUME Types
    PROVE  /\ Passed \in Int /\ Passed <= sink /\ sink \in Nat /\ sink <= MaxBlock
           /\ Len(nodeQ) \in Nat /\ Len(notif) \in Nat /\ Len(rtq) \in Nat
BY Queues, Bounds DEF Passed, Blocks

\* What is left alone is replayed as before.
LEMMA AgreesStays ==
    ASSUME Types, Order, UNCHANGED applied, UNCHANGED pp \/ Prune, NEW p, NEW c, Agrees(p, c)
    PROVE  Agrees(p, c)'
<1>1. \A d \in 1..MaxBlock : AbovePruning(d)' => AbovePruning(d)
    BY AbovePruningNext, Bounds
<1>. QED
    BY <1>1, Zenon DEF Agrees

\* What the replay needs to know of the next state, with the last change that has
\* passed by then.
LEMMA ReplaySuffice ==
    ASSUME NEW p \in Int, Passed' = p, p >= 0, \A i \in 1..Len(rtq') : rtq'[i] = Step(p + i),
           mode' = "syncing" => p <= target',
           mode' = "synced" => \E c \in p..sink' : Agrees(p, c)' /\ cursor' \in {p, c}
    PROVE  Replay'
<1>1. \A i \in 1..Len(rtq') : rtq'[i] = Step(Passed' + i)
    OBVIOUS
<1>2. mode' = "synced" => \E c \in Passed'..sink' : Agrees(Passed, c)' /\ cursor' \in {Passed', c}
    BY Zenon DEF Agrees
<1>. QED
    BY <1>1, <1>2, Zenon DEF Replay, Step, Change

LEMMA ReplaySame ==
    ASSUME Types, Order, Replay, Live' => Live, Passed' = Passed, sink' \in Int, sink <= sink',
           UNCHANGED <<rtq, mode, applied>>, UNCHANGED target \/ mode # "syncing",
           UNCHANGED cursor \/ mode = "syncing", UNCHANGED pp \/ Prune
    PROVE  Replay'
<1>. SUFFICES ASSUME Live'
              PROVE  Replay'
    BY Zenon DEF Replay
<1>1. PICK p : p = Passed
    OBVIOUS
<1>2. p \in Int
    BY <1>1, PassedType
<1>3. /\ p >= 0 /\ \A i \in 1..Len(rtq) : rtq[i] = Step(p + i)
      /\ mode = "syncing" => p <= target
      /\ mode = "synced" => \E c \in p..sink : Agrees(p, c) /\ cursor \in {p, c}
    BY <1>1, Zenon DEF Replay
<1>4. mode' = "synced" => \E c \in p..sink' : Agrees(p, c)' /\ cursor' \in {p, c}
    <2>. HAVE mode' = "synced"
    <2>1. PICK c \in p..sink : Agrees(p, c) /\ cursor \in {p, c}
        BY <1>3
    <2>2. Agrees(p, c)' /\ cursor' = cursor
        BY <2>1, AgreesStays
    <2>3. c \in p..sink'
        BY <1>2, PassedType
    <2>. QED
        BY <2>1, <2>2, <2>3
<1>. QED
    BY <1>1, <1>2, <1>3, <1>4, ReplaySuffice

\* An exact database agrees with the chain of its cursor.
LEMMA AgreesAt ==
    ASSUME Types, DbConsistent, NEW c \in Blocks, cursor = c, NEW p
    PROVE  Agrees(p, c)
<1>1. Position = c
    BY Bounds DEF Position, NoBlock
<1>2. \A d \in 1..MaxBlock : AbovePruning(d) => (d \in applied <=> d \in Chain[c])
    BY <1>1, Blockwise
<1>. QED
    BY <1>2, Zenon DEF Agrees

\* The next change moves what agrees with the chain of c: a block whose place does
\* not change from p + 1 on either has the same place in p, or is put there.
LEMMA AgreesStep ==
    ASSUME Types, NEW p \in Int, NEW c \in Int, p <= c, Agrees(p, c), Apply(Step(p + 1)), UNCHANGED pp
    PROVE  Agrees(p + 1, IF c > p THEN c ELSE p + 1)'
<1>1. PICK e : e = IF c > p THEN c ELSE p + 1
    OBVIOUS
<1>2. /\ e \in Int /\ p + 1 <= e /\ p + 1 \in (p + 1)..e /\ p \in p..c
      /\ \A q \in p..c : q = p \/ q \in (p + 1)..e
      /\ (c = p /\ e = p + 1) \/ c = e
    BY <1>1
<1>3. applied' = (applied \ (Chain[p] \ Chain[p + 1])) \cup (Chain[p + 1] \ Chain[p])
    <2>1. (p + 1) - 1 = p
        OBVIOUS
    <2>2. Step(p + 1) = [rem |-> Chain[p] \ Chain[p + 1], add |-> Chain[p + 1] \ Chain[p], last |-> p + 1]
        BY <2>1 DEF Step, Change
    <2>. QED
        BY <2>2 DEF Apply
<1>4. \A d \in 1..MaxBlock : AbovePruning(d)' <=> AbovePruning(d)
    BY DEF AbovePruning
<1>5. ASSUME NEW d \in 1..MaxBlock, AbovePruning(d),
             \A q \in (p + 1)..e : d \in Chain[q] <=> d \in Chain[e]
      PROVE  d \in applied' <=> d \in Chain[e]
    <2>1. d \in Chain[p + 1] <=> d \in Chain[e]
        BY <1>2, <1>5
    <2>2. CASE d \in Chain[p] <=> d \in Chain[p + 1]
        <3>1. \A q \in p..c : d \in Chain[q] <=> d \in Chain[c]
            BY <1>2, <1>5, <2>1, <2>2
        <3>2. d \in applied <=> d \in Chain[c]
            BY <1>5, <3>1 DEF Agrees
        <3>. QED
            BY <1>2, <1>3, <2>1, <2>2, <3>2
    <2>3. CASE ~(d \in Chain[p] <=> d \in Chain[p + 1])
        BY <1>3, <2>1, <2>3
    <2>. QED
        BY <2>2, <2>3
<1>6. Agrees(p + 1, e)'
    BY <1>4, <1>5, Zenon DEF Agrees
<1>. QED
    BY <1>1, <1>6

LEMMA ReplayNode ==
    ASSUME Types, Order, Replay, NodeNext \/ DataSourceNext
    PROVE  Replay'
<1>1. /\ UNCHANGED <<rtq, vshut, vp, mode, target, cursor, applied, strayed>>
      /\ UNCHANGED pp \/ Prune
      /\ sink' \in Int /\ sink <= sink' /\ sink \in Int
    BY NodeEffect, ReachTypes DEF NewSink
<1>2. ASSUME Live' => Live, Live' => Passed' = Passed
      PROVE  Replay'
    <2>1. CASE Live'
        BY <1>1, <1>2, <2>1, ReplaySame
    <2>2. CASE ~Live'
        BY <2>2, Zenon DEF Replay
    <2>. QED
        BY <2>1, <2>2
<1>3. ASSUME NEW m \in NotifMsgs, notif' = Append(notif, m), m.k # "vcc"
      PROVE  Replay'
    <2>1. 1 \in 1..Len(notif') /\ \A i \in 1..Len(notif') : ~ChangesFrom(i)'
        BY <1>3, Appended
    <2>. QED
        BY <2>1, Zenon DEF Replay, Live
<1>4. CASE NewSink
    <2>. DEFINE m == [v |-> Change(sink, sink + 1), stray |-> FALSE]
    <2>1. /\ sink' = sink + 1 /\ UNCHANGED <<link, notif>> /\ m.stray = FALSE
          /\ nodeQ' = IF link \in {"registering", "up"} THEN Append(nodeQ, m) ELSE nodeQ
        BY <1>4 DEF NewSink
    <2>. HIDE DEF m
    <2>2. Len(nodeQ) \in Nat /\ nodeQ \in Seq(NodeMsgs)
        BY DEF Types, NodeT
    <2>3. ASSUME Live'
          PROVE  Live /\ Passed' = Passed
        <3>1. link = "up" /\ nodeQ' = Append(nodeQ, m)
            BY <2>1, <2>3 DEF Live
        <3>2. /\ Len(nodeQ') = Len(nodeQ) + 1
              /\ \A i \in 1..Len(nodeQ) : i \in 1..Len(nodeQ') /\ nodeQ'[i] = nodeQ[i]
            BY <2>2, <3>1
        <3>3. Clean
            BY <1>1, <2>1, <2>3, <3>2 DEF Live, Clean
        <3>4. Passed' = Passed
            BY <1>1, <2>1, <2>2, <3>2, PassedType DEF Passed
        <3>. QED
            BY <1>1, <2>1, <2>3, <3>1, <3>3, <3>4 DEF Live, ChangesFrom
    <2>. QED
        BY <1>2, <2>3
<1>5. CASE Prune \/ LinkDrops \/ Register
    <2>1. UNCHANGED <<sink, nodeQ, notif>> /\ (link' = "up" => link = "up")
        BY <1>5 DEF Prune, LinkDrops, Register
    <2>2. (Live' => Live) /\ Passed' = Passed
        BY <1>1, <2>1 DEF Live, Clean, ChangesFrom, Passed
    <2>. QED
        BY <1>2, <2>2
<1>6. CASE ConnectOk
    <2>. DEFINE m == [Msg("connected", None, FALSE) EXCEPT !.n = sink, !.pp = pp]
    <2>1. m \in NotifMsgs /\ m.k # "vcc" /\ notif' = Append(notif, m)
        BY <1>6, ConnectedMsg DEF ConnectOk
    <2>. HIDE DEF m
    <2>. QED
        BY <1>3, <2>1
<1>7. CASE ConnectFails \/ HandleDisconnect
    <2>. DEFINE m == Msg("disconnected", None, FALSE)
    <2>1. m \in NotifMsgs /\ m.k # "vcc" /\ notif' = Append(notif, m)
        BY <1>7, MsgType DEF ConnectFails, HandleDisconnect, Hangup
    <2>. HIDE DEF m
    <2>. QED
        BY <1>3, <2>1
<1>8. CASE HandleShutdown \/ HandleBlockClosed
    <2>. DEFINE m == Msg("shutdown", None, FALSE)
    <2>1. m \in NotifMsgs /\ m.k # "vcc" /\ notif' = Append(notif, m)
        BY <1>8, MsgType DEF HandleShutdown, HandleBlockClosed
    <2>. HIDE DEF m
    <2>. QED
        BY <1>3, <2>1
<1>9. CASE HandleNotification
    <2>. DEFINE m == Msg("vcc", Head(nodeQ).v, Head(nodeQ).stray)
    <2>1. /\ nodeQ # <<>> /\ nodeQ' = Tail(nodeQ) /\ notif' = Append(notif, m)
          /\ UNCHANGED <<sink, link>>
        BY <1>9 DEF HandleNotification
    <2>2. /\ nodeQ \in Seq(NodeMsgs) /\ Head(nodeQ) = nodeQ[1] /\ nodeQ[1] \in NodeMsgs
          /\ Len(nodeQ) \in Nat \ {0}
        BY <2>1 DEF Types, NodeT
    <2>3. nodeQ[1].v \in Changes /\ nodeQ[1].stray \in BOOLEAN
        BY <2>2, Zenon DEF NodeMsgs
    <2>4. m \in NotifMsgs
        BY <2>2, <2>3, MsgType
    <2>5. m.stray = nodeQ[1].stray
        BY <2>2, Zenon DEF Msg
    <2>. HIDE DEF m
    <2>6. /\ Len(notif) \in Nat /\ Len(notif') = Len(notif) + 1 /\ notif'[Len(notif) + 1] = m
          /\ \A i \in 1..Len(notif) : notif'[i] = notif[i] /\ i \in 1..Len(notif')
        BY <2>1, <2>4, Appended
    <2>7. /\ Len(nodeQ') = Len(nodeQ) - 1
          /\ \A i \in 2..Len(nodeQ) : i - 1 \in 1..Len(nodeQ') /\ nodeQ'[i - 1] = nodeQ[i]
        <3>1. /\ Len(nodeQ') = Len(nodeQ) - 1
              /\ \A i \in 1..(Len(nodeQ) - 1) : nodeQ'[i] = nodeQ[i + 1]
            BY <2>1, <2>2
        <3>2. \A i \in 2..Len(nodeQ) : i - 1 \in 1..(Len(nodeQ) - 1) /\ (i - 1) + 1 = i
            BY <2>2
        <3>. QED
            BY <3>1, <3>2
    <2>8. ASSUME Live'
          PROVE  Live
        <3>1. ~strayed' /\ (\A i \in 1..Len(nodeQ') : ~nodeQ'[i].stray)
              /\ (\A i \in 1..Len(notif') : ~notif'[i].stray)
            BY <2>8, Zenon DEF Live, Clean
        <3>2. Len(notif) + 1 \in 1..Len(notif')
            BY <2>6
        <3>3. ~nodeQ[1].stray
            BY <2>5, <2>6, <3>1, <3>2
        <3>4. \A i \in 1..Len(nodeQ) : i = 1 \/ i \in 2..Len(nodeQ)
            BY <2>2
        <3>5. Clean
            BY <1>1, <2>6, <2>7, <3>1, <3>3, <3>4, Zenon DEF Clean
        <3>6. ChangesFrom(1)
            <4>. SUFFICES ASSUME NEW j \in 1..Len(notif)
                          PROVE  notif[j].k = "vcc"
                BY DEF ChangesFrom
            <4>1. j \in 1..Len(notif') /\ notif'[j] = notif[j]
                BY <2>6
            <4>. QED
                BY <2>8, <4>1 DEF Live, ChangesFrom
        <3>. QED
            BY <1>1, <2>1, <2>8, <3>5, <3>6 DEF Live
    <2>9. Passed' = Passed
        BY <1>1, <2>1, <2>2, <2>6, <2>7, PassedType DEF Passed
    <2>. QED
        BY <1>2, <2>8, <2>9
<1>. QED
    BY <1>4, <1>5, <1>6, <1>7, <1>8, <1>9 DEF NodeNext, DataSourceNext

\* A step that leaves the queues alone.
LEMMA ReplayKeeps ==
    ASSUME Types, Order, Replay, mode # "initial" \/ UNCHANGED mode,
           UNCHANGED <<link, notif, nodeQ, sink, rtq, vshut, strayed>>, vp' = "running" => vp = "running"
    PROVE  (Live' => Live) /\ Passed' = Passed
BY DEF Live, Clean, ChangesFrom, Passed

LEMMA ReplaySyncer ==
    ASSUME Types, Order, Token, Replay, SyncerNext
    PROVE  Replay'
<1>1. UNCHANGED <<sink, pp, link, nodeQ, notif, rtq, vshut, vp, mode, target, applied, strayed>>
    BY SyncerEffect
<1>2. UNCHANGED cursor \/ mode = "syncing"
    BY SyncerEffect DEF PrunedRequest, Token
<1>3. (Live' => Live) /\ Passed' = Passed
    BY <1>1, ReplayKeeps
<1>4. sink \in Int
    BY ReachTypes
<1>. QED
    BY <1>1, <1>2, <1>3, <1>4, ReplaySame

\* An exact database agrees with the chain of its cursor after the step.
LEMMA AgreesAtNext ==
    ASSUME Types', DbConsistent', NEW c \in Blocks, cursor' = c, NEW p
    PROVE  Agrees(p, c)'
<1>1. applied' \subseteq 1..MaxBlock /\ Chain[c] \subseteq 1..MaxBlock
    BY ChainFacts DEF Types, DbT
<1>2. Position' = c
    BY Bounds DEF Position, NoBlock
<1>3. {d \in applied' : AbovePruning(d)'} = {d \in Chain[c] : AbovePruning(d)'}
    BY <1>2, Zenon DEF DbConsistent
<1>4. \A d \in 1..MaxBlock : AbovePruning(d)' => (d \in applied' <=> d \in Chain[c])
    BY <1>3, Zenon
<1>. QED
    BY <1>4, Zenon DEF Agrees

\* The last response ends at or behind the target, which no change that has passed
\* has left behind.
LEMMA ReplayWork ==
    ASSUME Types, Types', Order, Spawned, Reached', Token, Stored, Replay,
           TakeSyncer \/ \E b \in 1..MaxBlock : ProcessedBlock(b)
    PROVE  Replay'
<1>1. vp = "running" /\ UNCHANGED <<sink, pp, link, nodeQ, notif, rtq, vshut, strayed, target, sid>>
    BY WorkEffect
<1>2. \/ UNCHANGED <<mode, cursor, applied>>
      \/ \E v \in Changes : Responds(v) /\ StepsOn(v)
    BY WorkEffect
<1>3. sink \in Int
    BY ReachTypes
<1>4. CASE UNCHANGED <<mode, cursor, applied>>
    <2>1. (Live' => Live) /\ Passed' = Passed
        BY <1>1, <1>4, ReplayKeeps
    <2>. QED
        BY <1>1, <1>3, <1>4, <2>1, ReplaySame
<1>5. ASSUME NEW v \in Changes, Responds(v), StepsOn(v)
      PROVE  Replay'
    <2>. SUFFICES ASSUME Live'
                  PROVE  Replay'
        BY Zenon DEF Replay
    <2>1. mode = "syncing"
        BY <1>5 DEF Responds
    <2>2. Live /\ Passed' = Passed
        BY <1>1, <2>1, ReplayKeeps
    <2>3. PICK p : p = Passed
        OBVIOUS
    <2>4. p \in Int /\ p <= sink
        BY <2>3, PassedType
    <2>5. p >= 0 /\ p <= target /\ \A i \in 1..Len(rtq) : rtq[i] = Step(p + i)
        BY <2>1, <2>2, <2>3, Zenon DEF Replay
    <2>6. ASSUME mode' = "synced"
          PROVE  \E c \in p..sink' : Agrees(p, c)' /\ cursor' \in {p, c}
        <3>1. cursor' = v.last /\ v.last >= target
            <4>1. vp' = "running"
                BY Zenon DEF Live
            <4>2. Apply(v) /\ v.last >= target
                BY <1>1, <1>5, <2>1, <2>6, <4>1 DEF StepsOn
            <4>. QED
                BY <4>2 DEF Apply
        <3>2. v.last \in Blocks /\ v.last \in Int /\ target \in Int /\ cursor' <= sink'
            <4>1. v.last \in Blocks
                BY Zenon DEF Changes
            <4>2. target \in Blocks
                BY DEF Types, SyncT
            <4>3. cursor' <= sink'
                BY Zenon DEF Reached
            <4>4. \A b \in Blocks : b \in Int
                BY Bounds
            <4>. QED
                BY <4>1, <4>2, <4>3, <4>4, Zenon
        <3>3. ~strayed
            BY <2>2 DEF Live, Clean
        <3>4. DbConsistent'
            BY <1>1, <1>5, <3>3, StepsApplied
        <3>5. Agrees(p, v.last)'
            BY <3>1, <3>2, <3>4, AgreesAtNext
        <3>6. v.last \in p..sink'
            BY <1>1, <2>4, <2>5, <3>1, <3>2
        <3>. QED
            BY <3>1, <3>5, <3>6
    <2>. QED
        BY <1>1, <2>2, <2>3, <2>4, <2>5, <2>6, ReplaySuffice
<1>. QED
    BY <1>2, <1>4, <1>5

\* The next change is applied.
LEMMA ReplayMoves ==
    ASSUME Types, NEW p \in Int, p >= 0, p + 1 <= sink, UNCHANGED <<sink, pp>>,
           \E c \in p..sink : Agrees(p, c), Apply(Step(p + 1))
    PROVE  \E e \in (p + 1)..sink' : Agrees(p + 1, e)' /\ cursor' \in {p + 1, e}
<1>1. cursor' = p + 1
    BY DEF Apply, Step, Change
<1>2. PICK c \in p..sink : Agrees(p, c)
    OBVIOUS
<1>3. c \in Int /\ p <= c /\ sink \in Int
    BY PassedType
<1>4. PICK e : e = IF c > p THEN c ELSE p + 1
    OBVIOUS
<1>5. Agrees(p + 1, e)'
    BY <1>2, <1>3, <1>4, AgreesStep
<1>6. e \in (p + 1)..sink'
    BY <1>2, <1>3, <1>4
<1>. QED
    BY <1>1, <1>5, <1>6

\* The change at the head of the queue is the next one.
LEMMA ReplayDrain ==
    ASSUME Types, Types', Order, DrainOK, Stopping, Reached', Replay, Drain
    PROVE  Replay'
<1>1. /\ vp = "running" /\ rtq # <<>> /\ rtq[1] \in Changes /\ mode = "synced"
      /\ UNCHANGED <<sink, pp, link, nodeQ, notif, strayed, vshut, mode, target>>
      /\ \/ vp' = "panicked"
         \/ vp' = vp /\ rtq' = Tail(rtq) /\ Apply(rtq[1])
    BY DrainEffect DEF Stopping
<1>. SUFFICES ASSUME Live'
              PROVE  Replay'
    BY Zenon DEF Replay
<1>2. vp' = "running" /\ rtq' = Tail(rtq) /\ Apply(rtq[1])
    BY <1>1 DEF Live
<1>3. Live
    BY <1>1 DEF Live, Clean, ChangesFrom
<1>4. PICK p : p = Passed
    OBVIOUS
<1>5. /\ p \in Int /\ p <= sink /\ sink \in Int /\ sink' = sink
      /\ p = sink - Len(nodeQ) - Len(notif) - Len(rtq)
      /\ Len(nodeQ) \in Nat /\ Len(notif) \in Nat
    BY <1>1, <1>4, PassedType DEF Passed
<1>6. /\ p >= 0 /\ \A i \in 1..Len(rtq) : rtq[i] = Step(p + i)
      /\ \E c \in p..sink : Agrees(p, c) /\ cursor \in {p, c}
    BY <1>1, <1>3, <1>4, Zenon DEF Replay
<1>7. /\ Len(rtq) \in Nat \ {0} /\ Len(rtq') = Len(rtq) - 1
      /\ \A i \in 1..(Len(rtq) - 1) : rtq'[i] = rtq[i + 1] /\ i + 1 \in 1..Len(rtq)
    BY <1>1, <1>2, TakenChanges
<1>8. Passed' = p + 1 /\ p + 1 <= sink
    BY <1>1, <1>5, <1>7 DEF Passed
<1>9. \A i \in 1..Len(rtq') : rtq'[i] = Step((p + 1) + i)
    <2>. TAKE i \in 1..Len(rtq')
    <2>1. rtq'[i] = Step(p + (i + 1))
        BY <1>6, <1>7
    <2>2. p + (i + 1) = (p + 1) + i
        BY <1>5, <1>7
    <2>. QED
        BY <2>1, <2>2
<1>10. Apply(Step(p + 1))
    <2>1. rtq[1] = Step(p + 1)
        BY <1>6, <1>7
    <2>. QED
        BY <1>2, <2>1
<1>11. \E e \in (p + 1)..sink' : Agrees(p + 1, e)' /\ cursor' \in {p + 1, e}
    <2>1. \E c \in p..sink : Agrees(p, c)
        BY <1>6
    <2>. QED
        BY <1>1, <1>5, <1>6, <1>8, <1>10, <2>1, ReplayMoves
<1>12. p + 1 \in Int /\ p + 1 >= 0 /\ mode' # "syncing"
    BY <1>1, <1>5, <1>6
<1>. QED
    BY <1>8, <1>9, <1>11, <1>12, ReplaySuffice

\* The changes on their way are those up to the sink, so that the first of them
\* leaves from a block there is.
LEMMA PassedBefore ==
    ASSUME Types', Order', Clean', link' = "up", ChangesFrom(1)'
    PROVE  sink' - Len(nodeQ') - Len(notif') >= 0
<1>1. Len(nodeQ') \in Nat /\ Len(notif') \in Nat /\ sink' \in Nat
    BY Bounds DEF Types, NodeT, NotifsOK
<1>2. CASE Len(notif') >= 1
    <2>1. 1 \in 1..Len(notif')
        BY <1>1, <1>2
    <2>2. ~notif'[1].stray
        BY <2>1, Zenon DEF Clean
    <2>3. sink' - Len(nodeQ') - (Len(notif') - 1) >= 1
        BY <2>1, <2>2, Zenon DEF Order, LiveOrder
    <2>. QED
        BY <1>1, <2>3
<1>3. CASE Len(notif') = 0 /\ Len(nodeQ') >= 1
    <2>1. 1 \in 1..Len(nodeQ') /\ link' \in {"registering", "up"}
        BY <1>1, <1>3
    <2>2. ~nodeQ'[1].stray
        BY <2>1, Zenon DEF Clean
    <2>3. sink' - Len(nodeQ') + 1 >= 1
        BY <2>1, <2>2, Zenon DEF Order, NodeOrder
    <2>. QED
        BY <1>1, <1>3, <2>3
<1>. QED
    BY <1>1, <1>2, <1>3

\* At a Connected nothing is queued, and its block is the target or behind the
\* processor.
LEMMA ReplayConnected ==
    ASSUME Types, Types', Order, Order', Reached, Stored, Quiet, Connected
    PROVE  Replay'
<1>. SUFFICES ASSUME Live'
              PROVE  Replay'
    BY Zenon DEF Replay
<1>1. /\ vp = "running" /\ notif # <<>> /\ notif' = Tail(notif) /\ notif[1].k = "connected"
      /\ notif[1].n \in Blocks
      /\ UNCHANGED <<sink, pp, link, nodeQ, rtq, vshut, cursor, applied, strayed>>
    BY ConnectedEffect
<1>2. link = "up" /\ ~vshut /\ ~strayed /\ Clean' /\ ChangesFrom(1)' /\ link' = "up"
    BY <1>1, Zenon DEF Live, Clean
<1>3. /\ Len(notif) \in Nat \ {0} /\ Len(notif') = Len(notif) - 1
      /\ ChangesFrom(2) /\ 1 \in 1..Len(notif)
    <2>1. /\ Len(notif) \in Nat \ {0} /\ Len(notif') = Len(notif) - 1
          /\ ChangesFrom(1)' => ChangesFrom(1 + 1)
        BY <1>1, Taken
    <2>. QED
        BY <1>2, <2>1
<1>4. rtq = <<>> /\ DbConsistent
    <2>1. \A j \in 1..(1 - 1) : notif[j].k = "vcc"
        OBVIOUS
    <2>. QED
        BY <1>1, <1>2, <1>3, <2>1, Zenon DEF Quiet
<1>5. PICK p : p = sink - Len(nodeQ) - (Len(notif) - 1)
    OBVIOUS
<1>6. p \in Int /\ p <= sink /\ sink \in Int /\ Len(nodeQ) \in Nat
    BY <1>3, <1>5, Queues
<1>7. p >= 0 /\ Passed' = p
    <2>1. sink' - Len(nodeQ') - Len(notif') >= 0
        BY <1>2, PassedBefore
    <2>2. Len(rtq') = 0
        BY <1>1, <1>4
    <2>. QED
        BY <1>1, <1>3, <1>5, <1>6, <2>1, <2>2 DEF Passed
<1>8. p <= notif[1].n
    <2>1. 1 + 1 = 2
        OBVIOUS
    <2>2. notif[1].n >= sink - Len(nodeQ) - (Len(notif) - 1)
        BY <1>1, <1>2, <1>3, <2>1, Zenon DEF Order, ConnectedOrder
    <2>. QED
        BY <1>1, <1>5, <1>6, <2>2, Bounds
<1>9. \A i \in 1..Len(rtq') : rtq'[i] = Step(p + i)
    BY <1>1, <1>4
<1>10. \/ mode' = "syncing" /\ target' = notif[1].n
       \/ mode' = "synced" /\ mode = "synced" /\ last >= notif[1].n
    BY ConnectedEffect, Zenon
<1>11. CASE mode' = "syncing" /\ target' = notif[1].n
    BY <1>6, <1>7, <1>8, <1>9, <1>11, ReplaySuffice
<1>12. CASE mode' = "synced" /\ mode = "synced" /\ last >= notif[1].n
    <2>1. cursor = last /\ last \in Blocks /\ last \in Int /\ last <= sink
        BY <1>12, ReachTypes DEF Stored, Reached, Types, SyncT
    <2>2. last \in p..sink' /\ cursor' = last
        <3>1. \A b \in Blocks : b \in Int
            BY Bounds
        <3>2. notif[1].n \in Int
            BY <1>1, <3>1, Zenon
        <3>. QED
            BY <1>1, <1>6, <1>8, <1>12, <2>1, <3>2
    <2>3. Agrees(p, last)
        BY <1>4, <2>1, AgreesAt
    <2>4. PICK c : c = last
        OBVIOUS
    <2>5. Agrees(p, c)'
        BY <1>1, <2>3, <2>4, AgreesStays
    <2>. QED
        BY <1>6, <1>7, <1>9, <1>12, <2>2, <2>4, <2>5, ReplaySuffice
<1>. QED
    BY <1>10, <1>11, <1>12

\* A change of the connection is the next one of the chain: it is queued behind the
\* others, or applied when there are none.
LEMMA ReplayRealtime ==
    ASSUME Types, Types', Order, Replay, RealtimeVcc
    PROVE  Replay'
<1>. SUFFICES ASSUME Live'
              PROVE  Replay'
    BY Zenon DEF Replay
<1>1. /\ vp = "running" /\ notif # <<>> /\ notif' = Tail(notif) /\ notif[1].k = "vcc"
      /\ UNCHANGED <<sink, pp, link, nodeQ, vshut, mode, target>>
      /\ strayed' = (strayed \/ notif[1].stray)
      /\ \/ vp' = "panicked"
         \/ rtq' = Append(rtq, notif[1].v) /\ UNCHANGED <<cursor, applied>>
         \/ mode = "synced" /\ rtq = <<>> /\ rtq' = rtq /\ Apply(notif[1].v)
    BY RealtimeEffect
<1>2. ~strayed /\ ~notif[1].stray /\ link = "up" /\ vp' = "running"
    BY <1>1, Zenon DEF Live, Clean
<1>3. /\ Len(notif) \in Nat \ {0} /\ Len(notif') = Len(notif) - 1 /\ 1 \in 1..Len(notif)
      /\ \A i \in 2..Len(notif) : i - 1 \in 1..Len(notif') /\ notif'[i - 1] = notif[i]
      /\ \A i \in 1..Len(notif) : i = 1 \/ i \in 2..Len(notif)
      /\ ChangesFrom(1)' => ChangesFrom(2)
    <2>1. /\ Len(notif) \in Nat \ {0} /\ Len(notif') = Len(notif) - 1
          /\ \A i \in 2..Len(notif) : i - 1 \in 1..Len(notif') /\ notif'[i - 1] = notif[i]
          /\ ChangesFrom(1)' => ChangesFrom(1 + 1)
        BY <1>1, Taken
    <2>. QED
        BY <2>1
<1>4. Live
    <2>1. ~strayed' /\ (\A i \in 1..Len(nodeQ') : ~nodeQ'[i].stray)
          /\ (\A i \in 1..Len(notif') : ~notif'[i].stray)
        BY Zenon DEF Live, Clean
    <2>2. \A i \in 1..Len(notif) : ~notif[i].stray
        BY <1>2, <1>3, <2>1, Zenon
    <2>3. Clean
        BY <1>1, <1>2, <2>1, <2>2 DEF Clean
    <2>4. ChangesFrom(1)
        <3>1. ChangesFrom(2)
            BY <1>3 DEF Live
        <3>. QED
            BY <1>1, <1>3, <3>1, Zenon DEF ChangesFrom
    <2>. QED
        BY <1>1, <1>2, <2>3, <2>4 DEF Live
<1>5. PICK p : p = Passed
    OBVIOUS
<1>6. /\ p \in Int /\ p <= sink /\ sink \in Int
      /\ p = sink - Len(nodeQ) - Len(notif) - Len(rtq)
      /\ Len(nodeQ) \in Nat /\ Len(rtq) \in Nat
    BY <1>5, PassedType DEF Passed
<1>7. /\ p >= 0 /\ \A i \in 1..Len(rtq) : rtq[i] = Step(p + i)
      /\ mode = "syncing" => p <= target
      /\ mode = "synced" => \E c \in p..sink : Agrees(p, c) /\ cursor \in {p, c}
    BY <1>4, <1>5, Zenon DEF Replay
<1>8. notif[1].v = Step(p + Len(rtq) + 1)
    <2>1. notif[1].v = Step(sink - Len(nodeQ) - (Len(notif) - 1))
        BY <1>2, <1>3, <1>4, Zenon DEF Order, LiveOrder, Live
    <2>2. sink - Len(nodeQ) - (Len(notif) - 1) = p + Len(rtq) + 1
        BY <1>3, <1>6
    <2>. QED
        BY <2>1, <2>2
<1>9. CASE rtq' = Append(rtq, notif[1].v) /\ UNCHANGED <<cursor, applied>>
    <2>1. rtq \in Seq(Changes)
        BY DEF Types, ProcT
    <2>2. /\ Len(rtq') = Len(rtq) + 1 /\ rtq'[Len(rtq) + 1] = Step(p + Len(rtq) + 1)
          /\ \A i \in 1..Len(rtq) : rtq'[i] = rtq[i]
        BY <1>8, <1>9, <2>1
    <2>3. Passed' = p
        BY <1>1, <1>3, <1>6, <2>2 DEF Passed
    <2>4. \A i \in 1..Len(rtq') : rtq'[i] = Step(p + i)
        <3>. TAKE i \in 1..Len(rtq')
        <3>1. CASE i \in 1..Len(rtq)
            BY <1>7, <2>2, <3>1
        <3>2. CASE i = Len(rtq) + 1
            <4>1. p + Len(rtq) + 1 = p + (Len(rtq) + 1)
                BY <1>6
            <4>. QED
                BY <2>2, <3>2, <4>1
        <3>. QED
            BY <1>6, <2>2, <3>1, <3>2
    <2>5. mode' = "synced" => \E c \in p..sink' : Agrees(p, c)' /\ cursor' \in {p, c}
        <3>. HAVE mode' = "synced"
        <3>1. PICK c \in p..sink : Agrees(p, c) /\ cursor \in {p, c}
            BY <1>1, <1>7
        <3>2. Agrees(p, c)' /\ cursor' = cursor /\ sink' = sink
            BY <1>1, <1>9, <3>1, AgreesStays
        <3>. QED
            BY <3>1, <3>2
    <2>6. mode' = "syncing" => p <= target'
        BY <1>1, <1>7
    <2>. QED
        BY <1>6, <1>7, <2>3, <2>4, <2>5, <2>6, ReplaySuffice
<1>10. CASE mode = "synced" /\ rtq = <<>> /\ rtq' = rtq /\ Apply(notif[1].v)
    <2>1. Len(rtq) = 0 /\ Len(rtq') = 0
        BY <1>10
    <2>2. Passed' = p + 1 /\ p + 1 <= sink /\ p + 1 \in Int /\ p + 1 >= 0 /\ mode' # "syncing"
        BY <1>1, <1>3, <1>6, <1>7, <1>10, <2>1 DEF Passed
    <2>3. Apply(Step(p + 1))
        <3>1. p + Len(rtq) + 1 = p + 1
            BY <1>6, <2>1
        <3>. QED
            BY <1>8, <1>10, <3>1
    <2>4. \E c \in p..sink : Agrees(p, c)
        BY <1>7, <1>10
    <2>5. \E e \in (p + 1)..sink' : Agrees(p + 1, e)' /\ cursor' \in {p + 1, e}
        BY <1>1, <1>6, <1>7, <2>2, <2>3, <2>4, ReplayMoves
    <2>6. \A i \in 1..Len(rtq') : rtq'[i] = Step((p + 1) + i)
        BY <2>1
    <2>. QED
        BY <2>2, <2>5, <2>6, ReplaySuffice
<1>. QED
    BY <1>1, <1>2, <1>9, <1>10

LEMMA ReplayNext ==
    ASSUME Types, Types', Order, Order', Handover, Reached, Reached', Stopping, UpOrder, Token,
           Stored, Quiet, Replay, [Next]_vars
    PROVE  Replay'
<1>1. CASE NodeNext \/ DataSourceNext
    BY <1>1, ReplayNode
<1>2. CASE SyncerNext
    BY <1>2, ReplaySyncer
<1>3. CASE TakeNotification
    <2>1. CASE Connected
        BY <2>1, ReplayConnected
    <2>2. CASE Disconnected
        <3>1. /\ notif # <<>> /\ notif' = Tail(notif) /\ notif[1].k = "disconnected"
              /\ UNCHANGED link
            BY <2>2, DisconnectedEffect
        <3>2. 1 \in 1..Len(notif) /\ (ChangesFrom(1)' => ChangesFrom(1 + 1))
            BY <3>1, Taken
        <3>3. ~Live'
            BY <3>1, <3>2, Zenon DEF Live, UpOrder
        <3>. QED
            BY <3>3, Zenon DEF Replay
    <2>3. CASE Shutdown
        <3>1. ~Live'
            BY <2>3, ShutdownEffect DEF Live
        <3>. QED
            BY <3>1, Zenon DEF Replay
    <2>4. CASE RealtimeVcc
        BY <2>4, ReplayRealtime
    <2>. QED
        BY <1>3, <2>1, <2>2, <2>3, <2>4 DEF TakeNotification
<1>4. CASE TakeSyncer \/ \E b \in 1..MaxBlock : ProcessedBlock(b)
    BY <1>4, ReplayWork DEF Handover
<1>5. CASE Drain
    BY <1>5, ReplayDrain DEF Handover
<1>6. CASE Restart
    <2>1. ~Live'
        BY <1>6 DEF Restart, Live
    <2>. QED
        BY <2>1, Zenon DEF Replay
<1>7. CASE UNCHANGED vars
    <2>1. UNCHANGED <<sink, pp, link, nodeQ, notif, rtq, vshut, vp, mode, target, cursor,
                      applied, strayed>>
        BY <1>7 DEF vars, nodeVars, vpVars, syncVars, dbVars
    <2>2. (Live' => Live) /\ Passed' = Passed /\ sink \in Int
        BY <2>1, ReplayKeeps, ReachTypes
    <2>. QED
        BY <2>1, <2>2, ReplaySame
<1>. QED
    BY <1>1, <1>2, <1>3, <1>4, <1>5, <1>6, <1>7 DEF Next

-----------------------------------------------------------------------------
(* The theorem.                                                            *)

LEMMA ExactInit == Init => Exact
<1>. SUFFICES ASSUME Init
              PROVE  Exact
    OBVIOUS
<1>1. /\ sink = 0 /\ pp = 0 /\ link = "down" /\ nodeQ = <<>> /\ notif = <<>> /\ syncQ = <<>>
      /\ rtq = <<>> /\ ~draining /\ ~vshut /\ mode = "initial" /\ last = 0 /\ sq = None
      /\ cursor = -1 /\ applied = {} /\ syncers = [s \in SyncerIds |-> IdleSyncer]
    BY DEF Init, NoBlock
<1>2. DbConsistent
    <2>1. Chain[Position] = {}
        BY <1>1, ChainIsTree DEF Position, NoBlock
    <2>. QED
        BY <1>1, <2>1 DEF DbConsistent
<1>3. Order /\ UpOrder
    BY <1>1, OrderInit DEF UpOrder
<1>4. Reached
    BY <1>1 DEF Reached
<1>5. Stopping
    BY <1>1 DEF Stopping
<1>6. Token
    BY <1>1 DEF Token, IdleSyncer
<1>7. Stored /\ Quiet
    BY <1>1, <1>2, Zenon DEF Stored, Quiet
<1>8. Replay
    BY <1>1 DEF Replay, Live
<1>. QED
    BY <1>3, <1>4, <1>5, <1>6, <1>7, <1>8 DEF Exact

LEMMA ExactNext ==
    ASSUME Types, Types', Handover, Exact, [Next]_vars
    PROVE  Exact'
<1>1. /\ Order /\ UpOrder /\ Reached /\ Stopping /\ Token /\ Stored /\ Quiet /\ Replay
      /\ DrainOK
    BY DEF Exact, Handover
<1>2. Order'
    BY <1>1, OrderNext
<1>3. UpOrder'
    BY <1>1, UpOrderNext
<1>4. Reached'
    BY <1>1, ReachedNext
<1>5. Stopping'
    BY <1>1, StoppingNext
<1>6. Token'
    BY <1>1, TokenNext
<1>7. Stored'
    BY <1>1, StoredNext
<1>8. Quiet'
    BY <1>1, <1>7, QuietNext
<1>9. Replay'
    BY <1>1, <1>2, <1>4, ReplayNext
<1>. QED
    BY <1>2, <1>3, <1>4, <1>5, <1>6, <1>7, <1>8, <1>9, Zenon DEF Exact

\* With nothing on its way the last change that has passed is that to the sink, and
\* there is no later one for a block to change its place in.
LEMMA ExactSuffices ==
    ASSUME Types, Exact
    PROVE  ChainExact
<1>. SUFFICES ASSUME ~strayed
              PROVE  /\ CaughtUp => DbConsistent /\ cursor = sink
                     /\ mode # "synced" => DbConsistent
    BY DEF ChainExact
<1>1. mode # "synced" => DbConsistent
    BY DEF Exact, Stored
<1>2. ASSUME CaughtUp
      PROVE  DbConsistent /\ cursor = sink
    <2>1. /\ vp = "running" /\ mode = "synced" /\ link = "up"
          /\ nodeQ = <<>> /\ notif = <<>> /\ rtq = <<>>
        BY <1>2 DEF CaughtUp
    <2>2. Live
        BY <2>1 DEF Live, Clean, ChangesFrom, Exact, Stopping
    <2>3. Passed = sink /\ sink \in Int /\ sink \in Blocks
        BY <2>1, Queues DEF Passed
    <2>4. PICK c \in sink..sink : Agrees(sink, c) /\ cursor \in {sink, c}
        BY <2>1, <2>2, <2>3 DEF Exact, Replay
    <2>5. c = sink /\ cursor = sink /\ sink \in sink..sink
        BY <2>3, <2>4
    <2>6. \A d \in 1..MaxBlock : AbovePruning(d) => (d \in applied <=> d \in Chain[sink])
        <3>1. \A q \in sink..sink : q = sink
            BY <2>3
        <3>. QED
            BY <2>4, <2>5, <3>1, Zenon DEF Agrees
    <2>7. Position = sink
        BY <2>3, <2>5, Bounds DEF Position, NoBlock
    <2>. QED
        BY <2>3, <2>5, <2>6, <2>7, Blockwise
<1>. QED
    BY <1>1, <1>2

\* Once the processor has caught up the accepting blocks are the chain blocks of the
\* sink, none of an abandoned branch and none missing, and until it is synced they
\* are the chain of the cursor after every commit, unless a change of a connection
\* that had ended was forwarded, or a disconnect or a restart fell into a replay.
THEOREM ExactTheorem == Spec => []ChainExact
<1>1. Init => Exact
    BY ExactInit
<1>2. Types /\ Types' /\ Handover /\ Exact /\ [Next]_vars => Exact'
    BY ExactNext
<1>3. Types /\ Exact => ChainExact
    BY ExactSuffices
<1>4. Spec => [](Types /\ Handover)
    BY Inductive
<1>. QED
    BY <1>1, <1>2, <1>3, <1>4, PTL DEF Spec
-----------------------------------------------------------------------------
(* The processor panics only after the chain has broken or when the ring   *)
(* no longer holds a processed block.                                      *)

\* Every change is the step to some sink.
IsStep(n, v) == \E x \in 1..n : v = Step(x)
Steps ==
    /\ \A i \in 1..Len(nodeQ) : IsStep(sink, nodeQ[i].v)
    /\ \A i \in 1..Len(notif) : notif[i].k = "vcc" => IsStep(sink, notif[i].v)
    /\ \A i \in 1..Len(rtq) : IsStep(sink, rtq[i])

\* A response is for the syncer whose answer the processor waits for.
Addressed == \A i \in 1..Len(syncQ) : syncQ[i].k = "vc" => mode = "syncing" /\ syncQ[i].id = sid

\* Until the first Connected has been taken, it is ahead of the changes of its
\* connection.
Greeted(s, n) == \E j \in 1..n : s[j].k = "connected"
Opened ==
    mode = "initial" =>
      /\ \A i \in 1..Len(notif) : notif[i].k = "vcc" /\ ~notif[i].stray => Greeted(notif, i - 1)
      /\ \/ link \in {"up", "dropped"}
         \/ shuttingDown /\ \E i \in 1..Len(nodeQ) : ~nodeQ[i].stray
         => Greeted(notif, Len(notif))

\* Only processed blocks are applied, and a replay has those of its next change.
Backed == /\ applied \subseteq indexed /\ Processed \subseteq indexed
          /\ draining => CanDrain(rtq, ring)

\* The ring holds every processed block.
Whole == indexed \subseteq Processed

Calm == Steps /\ Addressed /\ Opened /\ Backed /\ (Whole => NoPanic)

\* The change to a block adds this block.
LEMMA StepAdds ==
    ASSUME sink \in Blocks, NEW v, IsStep(sink, v)
    PROVE  v \in Changes /\ v.add # {}
<1>1. PICK x \in 1..sink : v = Step(x)
    BY DEF IsStep
<1>2. x \in Blocks /\ x >= 1 /\ x \in Int
    BY Bounds DEF Blocks
<1>3. x - 1 \in Blocks /\ v \in Changes
    BY <1>1, <1>2, StepType
<1>4. x \in Chain[x] /\ x \notin Chain[x - 1]
    <2>1. \A c \in Chain[x - 1] : c <= x - 1
        BY <1>3, ChainFacts
    <2>. QED
        BY <1>2, <2>1, ChainFacts
<1>5. v.add = Chain[x] \ Chain[x - 1]
    BY <1>1 DEF Step, Change
<1>. QED
    BY <1>3, <1>4, <1>5

\* What the node and DataSource put into the channel to the processor.
LEMMA NodeSends ==
    ASSUME Types, NodeNext \/ DataSourceNext
    PROVE  \/ UNCHANGED notif /\ ~ConnectOk
           \/ \E m \in NotifMsgs :
                /\ notif' = Append(notif, m) /\ (ConnectOk => m.k = "connected")
                /\ m.k = "vcc" => /\ HandleNotification /\ nodeQ # <<>>
                                  /\ m.v = nodeQ[1].v /\ m.stray = nodeQ[1].stray
<1>1. CASE NewSink \/ Prune \/ LinkDrops \/ Register
    <2>1. UNCHANGED notif /\ (link' # "up" \/ link = "up" \/ UNCHANGED link)
        BY <1>1 DEF NewSink, Prune, LinkDrops, Register
    <2>2. ~ConnectOk
        BY <2>1 DEF ConnectOk
    <2>. QED
        BY <2>1, <2>2
<1>2. CASE ConnectOk
    <2>1. PICK m : m = [Msg("connected", None, FALSE) EXCEPT !.n = sink, !.pp = pp]
        OBVIOUS
    <2>2. m \in NotifMsgs /\ m.k = "connected" /\ notif' = Append(notif, m)
        BY <1>2, <2>1, ConnectedMsg DEF ConnectOk
    <2>. QED
        BY <2>2
<1>3. CASE ConnectFails \/ HandleDisconnect
    <2>1. PICK m : m = Msg("disconnected", None, FALSE)
        OBVIOUS
    <2>2. m \in NotifMsgs /\ m.k = "disconnected" /\ notif' = Append(notif, m) /\ link' = "down"
        BY <1>3, <2>1, MsgType DEF ConnectFails, HandleDisconnect, Hangup
    <2>3. ~ConnectOk
        BY <2>2 DEF ConnectOk
    <2>. QED
        BY <2>2, <2>3
<1>4. CASE HandleNotification
    <2>1. PICK m : m = Msg("vcc", Head(nodeQ).v, Head(nodeQ).stray)
        OBVIOUS
    <2>2. nodeQ # <<>> /\ Head(nodeQ) = nodeQ[1] /\ 1 \in 1..Len(nodeQ) /\ nodeQ[1] \in NodeMsgs
        BY <1>4 DEF HandleNotification, Types, NodeT
    <2>3. nodeQ[1].v \in Changes /\ nodeQ[1].stray \in BOOLEAN
        BY <2>2, Zenon DEF NodeMsgs
    <2>4. m \in NotifMsgs /\ m.k = "vcc" /\ m.v = nodeQ[1].v /\ notif' = Append(notif, m)
        BY <1>4, <2>1, <2>2, <2>3, MsgType DEF HandleNotification
    <2>5. m.stray = nodeQ[1].stray
        BY <2>1, <2>2, Zenon DEF Msg
    <2>6. ~ConnectOk
        BY <1>4 DEF HandleNotification, DataSourceIdle, ConnectOk
    <2>. QED
        BY <1>4, <2>2, <2>4, <2>5, <2>6
<1>5. CASE HandleShutdown \/ HandleBlockClosed
    <2>1. PICK m : m = Msg("shutdown", None, FALSE)
        OBVIOUS
    <2>2. m \in NotifMsgs /\ m.k = "shutdown" /\ notif' = Append(notif, m)
        BY <1>5, <2>1, MsgType DEF HandleShutdown, HandleBlockClosed
    <2>3. ~ConnectOk
        BY <1>5 DEF HandleShutdown, HandleBlockClosed, DataSourceIdle, ConnectOk
    <2>. QED
        BY <2>2, <2>3
<1>. QED
    BY <1>1, <1>2, <1>3, <1>4, <1>5 DEF NodeNext, DataSourceNext

\* What is on its way from the node stays what it is, or has lost its connection.
LEMMA NodeDelivers ==
    ASSUME Types, NodeNext \/ DataSourceNext, NEW i \in 1..Len(nodeQ')
    PROVE  \/ \E j \in 1..Len(nodeQ) : /\ nodeQ'[i].v = nodeQ[j].v
                                       /\ nodeQ'[i].stray \/ ~nodeQ[j].stray
           \/ /\ NewSink /\ link \in {"registering", "up"} /\ nodeQ'[i].v = Step(sink')
<1>1. Len(nodeQ) \in Nat /\ nodeQ \in Seq(NodeMsgs) /\ DOMAIN nodeQ = 1..Len(nodeQ) /\ sink \in Int
    BY Queues DEF Types, NodeT
<1>2. CASE UNCHANGED nodeQ
    BY <1>2
<1>3. CASE NewSink /\ link \in {"registering", "up"}
    <2>1. PICK m : m = [v |-> Change(sink, sink + 1), stray |-> FALSE]
        OBVIOUS
    <2>2. m.v = Change(sink, sink + 1) /\ nodeQ' = Append(nodeQ, m) /\ sink' = sink + 1
        BY <1>3, <2>1 DEF NewSink
    <2>3. m.v = Step(sink')
        <3>1. sink' - 1 = sink
            BY <1>1, <2>2
        <3>. QED
            BY <2>2, <3>1 DEF Step
    <2>4. /\ Len(nodeQ') = Len(nodeQ) + 1 /\ nodeQ'[Len(nodeQ) + 1] = m
          /\ \A j \in 1..Len(nodeQ) : nodeQ'[j] = nodeQ[j]
        BY <1>1, <2>2
    <2>5. i \in 1..Len(nodeQ) \/ i = Len(nodeQ) + 1
        BY <1>1, <2>4
    <2>. QED
        BY <1>3, <2>3, <2>4, <2>5
<1>4. CASE ConnectFails \/ HandleDisconnect
    <2>1. nodeQ' = [j \in DOMAIN nodeQ |-> [nodeQ[j] EXCEPT !.stray = TRUE]]
        BY <1>4 DEF ConnectFails, HandleDisconnect, Hangup
    <2>2. \A m \in NodeMsgs : [m EXCEPT !.stray = TRUE].v = m.v /\ [m EXCEPT !.stray = TRUE].stray
        BY DEF NodeMsgs
    <2>3. Len(nodeQ') = Len(nodeQ)
        <3>1. nodeQ' \in Seq(NodeMsgs)
            BY <1>4, HangupType DEF ConnectFails, HandleDisconnect, NodeT
        <3>2. DOMAIN nodeQ' = 1..Len(nodeQ)
            BY <1>1, <2>1
        <3>. QED
            BY <1>1, <3>1, <3>2
    <2>4. \A j \in 1..Len(nodeQ) : nodeQ[j] \in NodeMsgs
        BY <1>1
    <2>. QED
        BY <1>1, <2>1, <2>2, <2>3, <2>4
<1>5. CASE HandleNotification
    <2>1. nodeQ # <<>> /\ nodeQ' = Tail(nodeQ)
        BY <1>5 DEF HandleNotification
    <2>2. nodeQ'[i] = nodeQ[i + 1] /\ i + 1 \in 1..Len(nodeQ)
        BY <1>1, <2>1
    <2>. QED
        BY <2>2
<1>6. NewSink /\ link \notin {"registering", "up"} => UNCHANGED nodeQ
    BY DEF NewSink
<1>7. Prune \/ LinkDrops \/ Register \/ ConnectOk \/ HandleShutdown \/ HandleBlockClosed => UNCHANGED nodeQ
    BY DEF Prune, LinkDrops, Register, ConnectOk, HandleShutdown, HandleBlockClosed, nodeVars
<1>. QED
    BY <1>2, <1>3, <1>4, <1>5, <1>6, <1>7 DEF NodeNext, DataSourceNext

LEMMA StepsNext ==
    ASSUME Types, DrainOK, Steps, [Next]_vars
    PROVE  Steps'
<1>1. sink \in Blocks /\ sink \in Nat /\ Len(nodeQ) \in Nat /\ Len(notif) \in Nat /\ Len(rtq) \in Nat
    BY Queues
<1>2. CASE Restart
    BY <1>2 DEF Restart, Steps
<1>3. sink' \in Nat /\ sink <= sink' /\ (NewSink => sink' = sink + 1)
    <2>1. UNCHANGED sink \/ NewSink
        BY NodeEffect, SyncerEffect, ConnectedEffect, DisconnectedEffect, ShutdownEffect, RealtimeEffect,
           WorkEffect, DrainEffect DEF Next, TakeNotification, Restart, vars, nodeVars
    <2>. QED
        BY <1>1, <2>1 DEF NewSink
<1>4. \A v : IsStep(sink, v) => IsStep(sink', v)
    <2>1. 1..sink \subseteq 1..sink'
        BY <1>1, <1>3
    <2>. QED
        BY <2>1, Zenon DEF IsStep
<1>5. NewSink => IsStep(sink', Step(sink'))
    <2>1. NewSink => sink' \in 1..sink'
        BY <1>1, <1>3
    <2>. QED
        BY <2>1, Zenon DEF IsStep
<1>6. CASE NodeNext \/ DataSourceNext
    <2>1. \A i \in 1..Len(nodeQ') : IsStep(sink', nodeQ'[i].v)
        <3>. TAKE i \in 1..Len(nodeQ')
        <3>1. (\E j \in 1..Len(nodeQ) : nodeQ'[i].v = nodeQ[j].v) \/ (NewSink /\ nodeQ'[i].v = Step(sink'))
            BY <1>6, NodeDelivers
        <3>. QED
            BY <1>4, <1>5, <3>1 DEF Steps
    <2>2. \A i \in 1..Len(notif') : notif'[i].k = "vcc" => IsStep(sink', notif'[i].v)
        <3>1. CASE UNCHANGED notif
            BY <1>4, <3>1 DEF Steps
        <3>2. ASSUME NEW m \in NotifMsgs, notif' = Append(notif, m),
                     m.k = "vcc" => nodeQ # <<>> /\ m.v = nodeQ[1].v
              PROVE  \A i \in 1..Len(notif') : notif'[i].k = "vcc" => IsStep(sink', notif'[i].v)
            <4>1. /\ Len(notif') = Len(notif) + 1 /\ notif'[Len(notif) + 1] = m
                  /\ \A i \in 1..Len(notif) : notif'[i] = notif[i]
                BY <3>2, Appended
            <4>2. \A i \in 1..Len(notif') : i \in 1..Len(notif) \/ i = Len(notif) + 1
                BY <1>1, <4>1
            <4>3. m.k = "vcc" => IsStep(sink', m.v)
                <5>1. nodeQ # <<>> => 1 \in 1..Len(nodeQ)
                    BY DEF Types, NodeT
                <5>. QED
                    BY <1>4, <3>2, <5>1 DEF Steps
            <4>. QED
                BY <1>4, <4>1, <4>2, <4>3 DEF Steps
        <3>. QED
            BY <1>6, <3>1, <3>2, NodeSends
    <2>3. UNCHANGED rtq
        BY <1>6, NodeEffect
    <2>. QED
        BY <1>4, <2>1, <2>2, <2>3 DEF Steps
<1>7. CASE TakeNotification
    <2>1. notif # <<>> /\ notif' = Tail(notif) /\ UNCHANGED nodeQ
        BY <1>7, ConnectedEffect, DisconnectedEffect, ShutdownEffect, RealtimeEffect DEF TakeNotification
    <2>2. \A i \in 1..Len(notif') : notif'[i] = notif[i + 1] /\ i + 1 \in 1..Len(notif)
        BY <2>1, Taken
    <2>3. rtq' = rtq \/ rtq' = <<>> \/ (rtq' = Append(rtq, notif[1].v) /\ notif[1].k = "vcc")
        BY <1>7, ConnectedEffect, DisconnectedEffect, ShutdownEffect, RealtimeEffect DEF TakeNotification
    <2>4. \A i \in 1..Len(rtq') : IsStep(sink', rtq'[i])
        <3>1. CASE rtq' = rtq \/ rtq' = <<>>
            BY <1>4, <3>1 DEF Steps
        <3>2. CASE rtq' = Append(rtq, notif[1].v) /\ notif[1].k = "vcc"
            <4>1. 1 \in 1..Len(notif) /\ rtq \in Seq(Changes)
                BY <2>1, Taken DEF Types, ProcT
            <4>2. IsStep(sink', notif[1].v)
                BY <1>4, <3>2, <4>1 DEF Steps
            <4>3. /\ Len(rtq') = Len(rtq) + 1 /\ rtq'[Len(rtq) + 1] = notif[1].v
                  /\ \A i \in 1..Len(rtq) : rtq'[i] = rtq[i]
                BY <3>2, <4>1
            <4>4. \A i \in 1..Len(rtq') : i \in 1..Len(rtq) \/ i = Len(rtq) + 1
                BY <1>1, <4>3
            <4>. QED
                BY <1>4, <4>2, <4>3, <4>4 DEF Steps
        <3>. QED
            BY <2>3, <3>1, <3>2
    <2>. QED
        BY <1>4, <2>1, <2>2, <2>4 DEF Steps
<1>8. CASE Drain
    <2>1. rtq # <<>> /\ UNCHANGED <<nodeQ, notif>> /\ (rtq' = rtq \/ rtq' = Tail(rtq))
        BY <1>8, DrainEffect
    <2>2. \A i \in 1..Len(rtq') : \E j \in 1..Len(rtq) : rtq'[i] = rtq[j]
        BY <2>1, TakenChanges
    <2>. QED
        BY <1>4, <2>1, <2>2 DEF Steps
<1>9. CASE SyncerNext \/ TakeSyncer \/ (\E b \in 1..MaxBlock : ProcessedBlock(b)) \/ UNCHANGED vars
    <2>1. UNCHANGED <<nodeQ, notif, rtq>>
        BY <1>9, SyncerEffect, WorkEffect DEF vars, nodeVars, vpVars
    <2>. QED
        BY <1>4, <2>1 DEF Steps
<1>. QED
    BY <1>2, <1>6, <1>7, <1>8, <1>9 DEF Next

LEMMA AddressedNext ==
    ASSUME Types, Spawned, DrainOK, Token, Addressed, [Next]_vars
    PROVE  Addressed'
<1>1. ASSUME UNCHANGED <<mode, sid>>,
             \A i \in 1..Len(syncQ') : syncQ'[i].k = "vc" =>
               (\E j \in 1..Len(syncQ) : syncQ'[i] = syncQ[j]) \/ (mode = "syncing" /\ syncQ'[i].id = sid)
      PROVE  Addressed'
    BY <1>1 DEF Addressed
<1>2. CASE SyncerNext
    <2>1. UNCHANGED <<mode, sid>>
        BY <1>2, SyncerEffect
    <2>2. PICK s \in SyncerIds :
               ParkRequest(s) \/ TakeContinue(s) \/ AnswerRequest(s) \/ SyncerEnds(s) \/ PrunedRequest(s)
        BY <1>2, SyncerEffect
    <2>3. ASSUME NEW m, syncQ' = Append(syncQ, m), m.k = "vc" => mode = "syncing" /\ m.id = sid
          PROVE  Addressed'
        <3>1. /\ Len(syncQ) \in Nat /\ Len(syncQ') = Len(syncQ) + 1 /\ syncQ'[Len(syncQ) + 1] = m
              /\ \A i \in 1..Len(syncQ) : syncQ'[i] = syncQ[i]
            BY <2>3, SyncsAppended
        <3>2. \A i \in 1..Len(syncQ') : i \in 1..Len(syncQ) \/ i = Len(syncQ) + 1
            BY <3>1
        <3>. QED
            BY <1>1, <2>1, <2>3, <3>1, <3>2
    <2>4. CASE ParkRequest(s) \/ TakeContinue(s)
        <3>1. UNCHANGED syncQ
            BY <2>4 DEF ParkRequest, TakeContinue
        <3>. QED
            BY <1>1, <2>1, <3>1
    <2>5. CASE SyncerEnds(s) \/ PrunedRequest(s)
        <3>1. PICK m : m = [id |-> s, k |-> "stopped", v |-> None]
            OBVIOUS
        <3>2. syncQ' = Append(syncQ, m) /\ m.k # "vc"
            BY <2>5, <3>1 DEF PrunedRequest, SyncerEnds
        <3>. QED
            BY <2>3, <3>2
    <2>6. CASE AnswerRequest(s)
        <3>1. s = sid /\ mode = "syncing"
            BY <2>6 DEF AnswerRequest, Token
        <3>2. PICK v : syncQ' = Append(syncQ, [id |-> s, k |-> "vc", v |-> v])
            BY <2>6 DEF AnswerRequest
        <3>3. PICK m : m = [id |-> s, k |-> "vc", v |-> v]
            OBVIOUS
        <3>4. syncQ' = Append(syncQ, m) /\ m.id = sid
            BY <3>1, <3>2, <3>3
        <3>. QED
            BY <2>3, <3>1, <3>4
    <2>. QED
        BY <2>2, <2>4, <2>5, <2>6
<1>3. CASE TakeNotification
    <2>1. UNCHANGED syncQ
        BY <1>3, ConnectedEffect, DisconnectedEffect, ShutdownEffect, RealtimeEffect DEF TakeNotification
    <2>2. CASE UNCHANGED <<mode, sid>>
        BY <1>1, <2>1, <2>2
    <2>3. CASE Connected /\ mode # "syncing"
        BY <2>1, <2>3 DEF Addressed
    <2>4. Connected => UNCHANGED <<mode, sid>> \/ mode # "syncing"
        BY ConnectedEffect
    <2>. QED
        BY <1>3, <2>2, <2>3, <2>4, DisconnectedEffect, ShutdownEffect, RealtimeEffect DEF TakeNotification
<1>4. CASE TakeSyncer \/ \E b \in 1..MaxBlock : ProcessedBlock(b)
    <2>1. UNCHANGED sid /\ (UNCHANGED syncQ \/ (syncQ # <<>> /\ syncQ' = Tail(syncQ)))
        BY <1>4, WorkEffect DEF Responds
    <2>2. \A i \in 1..Len(syncQ') : \E j \in 1..Len(syncQ) : syncQ'[i] = syncQ[j]
        <3>1. CASE UNCHANGED syncQ
            BY <3>1
        <3>2. CASE syncQ # <<>> /\ syncQ' = Tail(syncQ)
            BY <3>2, TakenSyncs
        <3>. QED
            BY <2>1, <3>1, <3>2
    <2>3. CASE UNCHANGED mode
        BY <1>1, <2>1, <2>2, <2>3
    <2>4. ASSUME NEW v, Responds(v)
          PROVE  Addressed'
        <3>1. \A i \in 1..Len(syncQ') : ~Vc(i)'
            BY <2>1, <2>4, RespondsIs
        <3>2. \A i \in 1..Len(syncQ') : syncQ'[i].k # "vc"
            <4>. SUFFICES ASSUME NEW i \in 1..Len(syncQ'), syncQ'[i].k = "vc"
                          PROVE  FALSE
                OBVIOUS
            <4>1. syncQ'[i].id = sid
                BY <2>2 DEF Addressed
            <4>. QED
                BY <2>1, <3>1, <4>1 DEF Vc
        <3>. QED
            BY <3>2 DEF Addressed
    <2>5. UNCHANGED mode \/ \E v : Responds(v)
        BY <1>4, WorkEffect
    <2>. QED
        BY <2>3, <2>4, <2>5
<1>5. CASE NodeNext \/ DataSourceNext \/ Drain \/ UNCHANGED vars
    <2>1. UNCHANGED <<syncQ, mode, sid>>
        <3>1. NodeNext \/ DataSourceNext => UNCHANGED <<syncQ, mode, sid>>
            BY NodeEffect DEF NodeNext, DataSourceNext, NewSink, Prune, LinkDrops, Register, ConnectOk,
               ConnectFails, HandleDisconnect, Hangup, HandleNotification, HandleShutdown, HandleBlockClosed,
               vpVars, syncVars
        <3>. QED
            BY <1>5, <3>1, DrainEffect DEF vars, vpVars, syncVars
    <2>. QED
        BY <1>1, <2>1
<1>6. CASE Restart
    BY <1>6 DEF Restart, Addressed
<1>. QED
    BY <1>2, <1>3, <1>4, <1>5, <1>6 DEF Next

LEMMA OpenedNext ==
    ASSUME Types, Order, DrainOK, Opened, [Next]_vars
    PROVE  Opened'
<1>1. Len(notif) \in Nat /\ Len(nodeQ) \in Nat /\ link \in {"down", "registering", "up", "dropped"}
    BY Queues DEF Types, NodeT
<1>2. CASE mode' # "initial"
    BY <1>2 DEF Opened
<1>3. CASE mode' = "initial" /\ mode = "initial" /\ (NodeNext \/ DataSourceNext)
    <2>1. /\ \A i \in 1..Len(notif) : notif[i].k = "vcc" /\ ~notif[i].stray => Greeted(notif, i - 1)
          /\ \/ link \in {"up", "dropped"}
             \/ shuttingDown /\ \E i \in 1..Len(nodeQ) : ~nodeQ[i].stray
             => Greeted(notif, Len(notif))
        BY <1>3 DEF Opened
    <2>2. PICK m : \/ UNCHANGED notif /\ ~ConnectOk
                   \/ /\ m \in NotifMsgs /\ notif' = Append(notif, m) /\ (ConnectOk => m.k = "connected")
                      /\ m.k = "vcc" => /\ HandleNotification /\ nodeQ # <<>>
                                        /\ m.v = nodeQ[1].v /\ m.stray = nodeQ[1].stray
        BY <1>3, NodeSends
    <2>3. \/ UNCHANGED notif
          \/ /\ Len(notif') = Len(notif) + 1 /\ notif'[Len(notif) + 1] = m
             /\ \A i \in 1..Len(notif) : notif'[i] = notif[i]
        BY <2>2, Appended
    <2>4. ASSUME NEW n \in 0..Len(notif), Greeted(notif, n)
          PROVE  Greeted(notif', n)
        BY <1>1, <2>3, <2>4 DEF Greeted
    <2>5. Greeted(notif, Len(notif)) => Greeted(notif', Len(notif)) /\ Greeted(notif', Len(notif'))
        <3>. SUFFICES ASSUME Greeted(notif, Len(notif))
                      PROVE  Greeted(notif', Len(notif)) /\ Greeted(notif', Len(notif'))
            OBVIOUS
        <3>1. PICK j \in 1..Len(notif) : notif[j].k = "connected"
            BY DEF Greeted
        <3>2. notif'[j].k = "connected" /\ j \in 1..Len(notif')
            BY <1>1, <2>3, <3>1
        <3>. QED
            BY <3>1, <3>2 DEF Greeted
    <2>6. (\/ link' \in {"up", "dropped"}
           \/ shuttingDown' /\ \E i \in 1..Len(nodeQ') : ~nodeQ'[i].stray) => Greeted(notif', Len(notif'))
        <3>1. CASE ConnectOk
            <4>1. Len(notif') = Len(notif) + 1 /\ notif'[Len(notif) + 1].k = "connected"
                BY <2>2, <2>3, <3>1
            <4>2. Len(notif) + 1 \in 1..Len(notif')
                BY <1>1, <4>1
            <4>. QED
                BY <4>1, <4>2 DEF Greeted
        <3>2. CASE ~ConnectOk /\ link' \in {"up", "dropped"}
            <4>1. link \in {"up", "dropped"}
                BY <1>3, <3>2 DEF NodeNext, DataSourceNext, NewSink, Prune, LinkDrops, Register, ConnectFails,
                   HandleDisconnect, Hangup, HandleNotification, HandleShutdown, HandleBlockClosed, nodeVars
            <4>. QED
                BY <2>1, <2>5, <4>1
        <3>3. ASSUME ~ConnectOk, link' \notin {"up", "dropped"}, shuttingDown', NEW i \in 1..Len(nodeQ'), ~nodeQ'[i].stray
              PROVE  Greeted(notif', Len(notif'))
            <4>1. CASE NewSink /\ link \in {"registering", "up"}
                <5>1. shuttingDown /\ link # "down"
                    BY <3>3, <4>1 DEF NewSink
                <5>. QED
                    BY <5>1 DEF Order, NodeOrder
            <4>2. ASSUME NEW j \in 1..Len(nodeQ), ~nodeQ[j].stray
                  PROVE  Greeted(notif', Len(notif'))
                <5>1. CASE shuttingDown
                    BY <2>1, <2>5, <4>2, <5>1
                <5>2. CASE ~shuttingDown
                    <6>1. HandleShutdown
                        BY <1>3, <3>3, <5>2 DEF NodeNext, DataSourceNext, NewSink, Prune, LinkDrops, Register, ConnectFails,
                           HandleDisconnect, Hangup, HandleNotification, HandleBlockClosed, nodeVars
                    <6>2. link # "registering"
                        BY <6>1 DEF HandleShutdown, DataSourceIdle
                    <6>3. link # "down"
                        BY <4>2, <5>2 DEF Order, NodeOrder
                    <6>. QED
                        BY <1>1, <2>1, <2>5, <6>2, <6>3
                <5>. QED
                    BY <5>1, <5>2
            <4>. QED
                BY <1>3, <3>3, <4>1, <4>2, NodeDelivers
        <3>. QED
            BY <3>1, <3>2, <3>3
    <2>7. ASSUME NEW i \in 1..Len(notif'), notif'[i].k = "vcc", ~notif'[i].stray
          PROVE  Greeted(notif', i - 1)
        <3>1. CASE i \in 1..Len(notif) /\ notif'[i] = notif[i]
            <4>1. Greeted(notif, i - 1) /\ i - 1 \in 0..Len(notif)
                BY <1>1, <2>1, <2>7, <3>1
            <4>. QED
                BY <2>4, <4>1
        <3>2. CASE i = Len(notif) + 1 /\ notif'[i] = m
            <4>1. HandleNotification /\ nodeQ # <<>> /\ ~nodeQ[1].stray
                BY <1>1, <2>2, <2>7, <3>2
            <4>2. 1 \in 1..Len(nodeQ) /\ link # "registering"
                BY <4>1 DEF Types, NodeT, HandleNotification, DataSourceIdle
            <4>3. link = "down" => shuttingDown
                BY <4>1, <4>2 DEF Order, NodeOrder
            <4>4. Greeted(notif, Len(notif))
                BY <1>1, <2>1, <4>1, <4>2, <4>3
            <4>5. i - 1 = Len(notif)
                BY <1>1, <3>2
            <4>. QED
                BY <2>5, <4>4, <4>5
        <3>. QED
            BY <1>1, <2>3, <3>1, <3>2
    <2>. QED
        BY <2>6, <2>7 DEF Opened
<1>4. CASE mode' = "initial" /\ mode = "initial" /\ TakeNotification
    <2>1. /\ notif # <<>> /\ notif' = Tail(notif) /\ notif[1].k # "connected"
          /\ UNCHANGED <<link, shuttingDown, nodeQ>>
        <3>1. ~Connected
            BY <1>4, ConnectedEffect
        <3>. QED
            BY <1>4, <3>1, DisconnectedEffect, ShutdownEffect, RealtimeEffect DEF TakeNotification
    <2>2. /\ Len(notif') = Len(notif) - 1
          /\ \A i \in 1..Len(notif') : notif'[i] = notif[i + 1] /\ i + 1 \in 1..Len(notif)
        BY <2>1, Taken
    <2>3. ASSUME NEW n \in Nat, n <= Len(notif'), Greeted(notif, n + 1)
          PROVE  Greeted(notif', n)
        <3>1. PICK j \in 1..(n + 1) : notif[j].k = "connected"
            BY <2>3 DEF Greeted
        <3>2. j # 1
            BY <2>1, <3>1
        <3>3. j - 1 \in 1..n /\ j - 1 \in 1..Len(notif') /\ (j - 1) + 1 = j
            BY <1>1, <2>2, <2>3, <3>1, <3>2
        <3>4. notif'[j - 1].k = "connected"
            BY <2>2, <3>1, <3>3
        <3>. QED
            BY <3>3, <3>4 DEF Greeted
    <2>4. ASSUME NEW i \in 1..Len(notif'), notif'[i].k = "vcc", ~notif'[i].stray
          PROVE  Greeted(notif', i - 1)
        <3>1. Greeted(notif, (i + 1) - 1)
            BY <1>4, <2>2, <2>4 DEF Opened
        <3>2. (i + 1) - 1 = (i - 1) + 1 /\ i - 1 \in Nat /\ i - 1 <= Len(notif')
            BY <1>1, <2>2
        <3>. QED
            BY <2>3, <3>1, <3>2
    <2>5. (\/ link' \in {"up", "dropped"}
           \/ shuttingDown' /\ \E i \in 1..Len(nodeQ') : ~nodeQ'[i].stray) => Greeted(notif', Len(notif'))
        <3>1. Len(notif) = Len(notif') + 1 /\ Len(notif') \in Nat
            BY <1>1, <2>1, <2>2, Taken
        <3>2. Greeted(notif, Len(notif)) => Greeted(notif', Len(notif'))
            BY <2>3, <3>1
        <3>. QED
            BY <1>4, <2>1, <3>2 DEF Opened
    <2>. QED
        BY <2>4, <2>5 DEF Opened
<1>5. CASE Restart
    <2>1. notif' = <<>> /\ nodeQ' = <<>> /\ link' = "down"
        BY <1>5 DEF Restart
    <2>. QED
        BY <2>1 DEF Opened
<1>6. CASE SyncerNext \/ Drain \/ TakeSyncer \/ (\E b \in 1..MaxBlock : ProcessedBlock(b)) \/ UNCHANGED vars
    <2>1. UNCHANGED <<notif, nodeQ, link, shuttingDown>>
        BY <1>6, SyncerEffect, WorkEffect, DrainEffect DEF vars, nodeVars
    <2>2. mode' = "initial" => mode = "initial"
        <3>1. SyncerNext \/ Drain \/ UNCHANGED vars => UNCHANGED mode
            BY SyncerEffect, DrainEffect DEF vars, vpVars, syncVars
        <3>2. TakeSyncer \/ (\E b \in 1..MaxBlock : ProcessedBlock(b)) => UNCHANGED mode \/ mode' # "initial"
            <4>1. \A v : Responds(v) /\ StepsOn(v) => UNCHANGED mode \/ mode' # "initial"
                BY Zenon DEF StepsOn, Responds
            <4>. QED
                BY <4>1, WorkEffect
        <3>. QED
            BY <1>6, <3>1, <3>2
    <2>. QED
        BY <2>1, <2>2 DEF Opened, Greeted
<1>7. mode' = "initial" /\ (NodeNext \/ DataSourceNext) => mode = "initial"
    BY NodeEffect
<1>8. mode' = "initial" /\ TakeNotification => mode = "initial"
    BY ConnectedEffect, DisconnectedEffect, ShutdownEffect, RealtimeEffect DEF TakeNotification
<1>. QED
    BY <1>2, <1>3, <1>4, <1>5, <1>6, <1>7, <1>8 DEF Next

-----------------------------------------------------------------------------
(* The ring of processed blocks.                                           *)

LEMMA RingHolds ==
    ASSUME NEW r \in Seq(1..MaxBlock), NEW b \in 1..MaxBlock
    PROVE  Ring(Inserted(r, b)) \subseteq Ring(r) \cup {b} /\ Ring(Inserted(Evicted(r), b)) \subseteq Ring(r) \cup {b}
<1>1. \A q \in Seq(1..MaxBlock) : Ring(Inserted(q, b)) \subseteq Ring(q) \cup {b}
    <2>. TAKE q \in Seq(1..MaxBlock)
    <2>1. Ring(Append(q, b)) \subseteq Ring(q) \cup {b}
        BY DEF Ring
    <2>. QED
        BY <2>1, Zenon DEF Inserted
<1>2. Evicted(r) \in Seq(1..MaxBlock) /\ Ring(Evicted(r)) \subseteq Ring(r)
    <2>1. CASE Len(r) + 1 > Capacity
        <3>1. PICK from : from = Len(r) + 2 - Capacity
            OBVIOUS
        <3>2. from \in Int /\ Len(r) \in Int /\ from >= 1 /\ \A i \in from..Len(r) : r[i] \in 1..MaxBlock
            BY <2>1, <3>1, Bounds
        <3>3. /\ SubSeq(r, from, Len(r)) \in Seq(1..MaxBlock)
              /\ \A i \in 1..Len(SubSeq(r, from, Len(r))) :
                   SubSeq(r, from, Len(r))[i] = r[from + i - 1] /\ from + i - 1 \in 1..Len(r)
            BY <3>2, SubSeqProperties
        <3>4. PICK q : q = SubSeq(r, from, Len(r))
            OBVIOUS
        <3>5. Evicted(r) = q /\ q \in Seq(1..MaxBlock) /\ \A i \in 1..Len(q) : q[i] = r[from + i - 1] /\ from + i - 1 \in 1..Len(r)
            BY <2>1, <3>1, <3>3, <3>4 DEF Evicted
        <3>6. DOMAIN q = 1..Len(q) /\ DOMAIN r = 1..Len(r)
            BY <3>5
        <3>. QED
            BY <3>5, <3>6 DEF Ring
    <2>2. CASE ~(Len(r) + 1 > Capacity)
        BY <2>2 DEF Evicted
    <2>. QED
        BY <2>1, <2>2
<1>. QED
    BY <1>1, <1>2

LEMMA RingStays ==
    ASSUME Types, NodeNext \/ DataSourceNext \/ SyncerNext \/ TakeNotification \/ TakeSyncer \/ Drain
    PROVE  UNCHANGED <<ring, indexed>>
<1>1. NodeNext \/ DataSourceNext => UNCHANGED <<ring, indexed>>
    BY DEF NodeNext, DataSourceNext, NewSink, Prune, LinkDrops, Register, ConnectOk, ConnectFails, HandleDisconnect,
       Hangup, HandleNotification, HandleShutdown, HandleBlockClosed, vpVars
<1>2. SyncerNext => UNCHANGED <<ring, indexed>>
    BY DEF SyncerNext, ParkRequest, RefuseRequest, AnswerRequest, PrunedRequest, FailRequest, TakeStop, TakeContinue,
       vpVars
<1>3. Connected \/ Disconnected \/ Shutdown => UNCHANGED <<ring, indexed>>
    BY DEF Connected, Disconnected, Shutdown
<1>4. RealtimeVcc => UNCHANGED <<ring, indexed>>
    BY DEF RealtimeVcc, Panic
<1>5. SyncerVc => UNCHANGED <<ring, indexed>>
    BY Zenon DEF SyncerVc, Panic
<1>6. SyncerStopped => UNCHANGED <<ring, indexed>>
    BY DEF SyncerStopped
<1>7. Drain => UNCHANGED <<ring, indexed>>
    BY DEF Drain, Panic
<1>. QED
    BY <1>1, <1>2, <1>3, <1>4, <1>5, <1>6, <1>7 DEF TakeNotification, TakeSyncer

\* What is applied is known, and a response panics only on its own blocks.
LEMMA SyncStepApplies ==
    ASSUME NEW v, NEW r, SyncStep(v, r)
    PROVE  /\ UNCHANGED applied \/ Apply(v)
           /\ UNCHANGED <<draining, rtq>>
           /\ vp' = "panicked" => vp = "panicked" \/ Unwraps(v, r)
<1>1. PICK reached, gone : /\ reached = (v.last = target \/ v.last > target)
                           /\ gone = (syncers[sid].st = "done")
    OBVIOUS
<1>2. CASE ~(reached /\ gone) /\ Unwraps(v, r)
    BY <1>1, <1>2, Zenon DEF SyncStep, dbVars
<1>3. CASE ~(~(reached /\ gone) /\ Unwraps(v, r))
    <2>1. /\ Ack(IF reached THEN "stop" ELSE "continue") /\ UNCHANGED <<draining, rtq>>
          /\ UNCHANGED dbVars \/ Apply(v)
        BY <1>1, <1>3, Zenon DEF SyncStep
    <2>2. vp' = "failed" \/ vp' = vp
        BY <2>1, Zenon DEF Ack
    <2>. QED
        BY <2>1, <2>2 DEF dbVars
<1>. QED
    BY <1>2, <1>3

LEMMA SyncerVcSteps ==
    ASSUME Types, SyncerVc
    PROVE  \/ vp' = "panicked" /\ ~(mode = "syncing" /\ Vc(1)) /\ UNCHANGED applied
           \/ vp' # "panicked" /\ UNCHANGED applied
           \/ vp' = "panicked" /\ sq # None /\ mode = "syncing" /\ Vc(1) /\ UNCHANGED applied
           \/ /\ mode = "syncing" /\ Vc(1) /\ ~IsEmpty(syncQ[1].v) /\ Known(syncQ[1].v, ring)
              /\ SyncStep(syncQ[1].v, ring)
<1>1. syncQ # <<>> /\ Head(syncQ) = syncQ[1] /\ vp = "running"
    BY DEF SyncerVc, Types, SyncsOK, Ready
<1>2. PICK v : v = syncQ[1].v
    OBVIOUS
<1>3. PICK e : e = (mode = "syncing" /\ syncQ[1].id = sid)
    OBVIOUS
<1>4. syncQ[1].k = "vc" /\ (e <=> mode = "syncing" /\ Vc(1))
    BY <1>1, <1>3 DEF SyncerVc, Vc
<1>5. CASE ~e
    <2>1. Panic
        BY <1>1, <1>3, <1>5, Zenon DEF SyncerVc
    <2>. QED
        BY <1>4, <1>5, <2>1 DEF Panic, dbVars
<1>6. CASE e /\ IsEmpty(v)
    <2>1. AskAgain /\ UNCHANGED dbVars
        BY <1>1, <1>2, <1>3, <1>6, Zenon DEF SyncerVc
    <2>2. vp' = "failed" \/ vp' = vp
        BY <2>1, Zenon DEF AskAgain, Ack
    <2>. QED
        BY <1>1, <2>1, <2>2 DEF dbVars
<1>7. CASE e /\ ~IsEmpty(v) /\ ~Known(v, ring)
    <2>1. IF sq # None THEN Panic ELSE HoldBack(v) /\ UNCHANGED dbVars
        BY <1>1, <1>2, <1>3, <1>7, Zenon DEF SyncerVc
    <2>2. CASE sq # None
        BY <1>4, <1>7, <2>1, <2>2 DEF Panic, dbVars
    <2>3. CASE sq = None
        BY <1>1, <2>1, <2>3 DEF HoldBack, dbVars
    <2>. QED
        BY <2>2, <2>3
<1>8. CASE e /\ ~IsEmpty(v) /\ Known(v, ring)
    <2>1. SyncStep(v, ring)
        BY <1>1, <1>2, <1>3, <1>8, Zenon DEF SyncerVc
    <2>. QED
        BY <1>2, <1>4, <1>8, <2>1
<1>. QED
    BY <1>5, <1>6, <1>7, <1>8

LEMMA RealtimeSteps ==
    ASSUME Types, RealtimeVcc
    PROVE  /\ vp' = "panicked" => mode = "initial" \/ Unwraps(notif[1].v, ring)
           /\ UNCHANGED applied \/ (Apply(notif[1].v) /\ Known(notif[1].v, ring))
<1>1. notif # <<>> /\ Head(notif) = notif[1] /\ vp = "running"
    BY Taken DEF RealtimeVcc, Receives, Ready
<1>2. PICK v, q : v = notif[1].v /\ q = MustQueue(v)
    OBVIOUS
<1>3. CASE mode = "initial"
    <2>1. Panic
        BY <1>1, <1>2, <1>3, Zenon DEF RealtimeVcc
    <2>. QED
        BY <1>3, <2>1 DEF Panic, dbVars
<1>4. CASE mode # "initial" /\ q
    <2>1. UNCHANGED vp /\ UNCHANGED dbVars
        BY <1>1, <1>2, <1>4, Zenon DEF RealtimeVcc
    <2>. QED
        BY <1>1, <2>1 DEF dbVars
<1>5. CASE mode # "initial" /\ ~q /\ Unwraps(v, ring)
    <2>1. Panic
        BY <1>1, <1>2, <1>5, Zenon DEF RealtimeVcc
    <2>. QED
        BY <1>2, <1>5, <2>1 DEF Panic, dbVars
<1>6. CASE mode # "initial" /\ ~q /\ ~Unwraps(v, ring)
    <2>1. Apply(v) /\ UNCHANGED vp
        BY <1>1, <1>2, <1>6, Zenon DEF RealtimeVcc
    <2>. QED
        BY <1>1, <1>2, <1>6, <2>1, Zenon DEF MustQueue
<1>. QED
    BY <1>3, <1>4, <1>5, <1>6

LEMMA BackedNext ==
    ASSUME Types, DrainOK, Backed, [Next]_vars
    PROVE  Backed'
<1>0. /\ applied \subseteq indexed /\ Processed \subseteq indexed /\ (draining => CanDrain(rtq, ring))
      /\ ring \in Seq(1..MaxBlock) /\ indexed \subseteq 1..MaxBlock
    BY DEF Backed, Types
<1>1. ASSUME NEW v, NEW r, Apply(v) \/ UNCHANGED applied, Apply(v) => Known(v, r), Ring(r) \subseteq indexed', indexed \subseteq indexed'
      PROVE  applied' \subseteq indexed'
    BY <1>0, <1>1 DEF Apply, Known
<1>2. ASSUME UNCHANGED <<ring, indexed>>, applied' \subseteq indexed', draining' => CanDrain(rtq', ring)
      PROVE  Backed'
    BY <1>0, <1>2 DEF Backed, Processed, Ring, CanDrain, Known
<1>3. CASE NodeNext \/ DataSourceNext \/ SyncerNext
    BY <1>0, <1>2, <1>3, RingStays, NodeEffect, SyncerEffect
<1>4. CASE TakeNotification
    <2>1. UNCHANGED <<ring, indexed>> /\ ~draining'
        BY <1>4, RingStays, ConnectedEffect, DisconnectedEffect, ShutdownEffect, RealtimeEffect DEF TakeNotification
    <2>2. Connected \/ Disconnected \/ Shutdown => UNCHANGED applied
        BY ConnectedEffect, DisconnectedEffect, ShutdownEffect
    <2>3. UNCHANGED applied \/ (Apply(notif[1].v) /\ Known(notif[1].v, ring))
        BY <1>4, <2>2, RealtimeSteps DEF TakeNotification
    <2>4. applied' \subseteq indexed'
        BY <1>0, <1>1, <2>1, <2>3 DEF Processed
    <2>. QED
        BY <1>2, <2>1, <2>4
<1>5. CASE TakeSyncer
    <2>1. UNCHANGED <<ring, indexed>> /\ ~draining /\ vp = "running"
        BY <1>5, RingStays, WorkEffect
    <2>2. ~draining'
        <3>1. CASE SyncerVc
            <4>1. UNCHANGED draining
                <5>1. Panic \/ UNCHANGED draining \/ \E v : SyncStep(v, ring)
                    BY <3>1, Zenon DEF SyncerVc
                <5>2. Panic => UNCHANGED draining
                    BY DEF Panic
                <5>. QED
                    BY <5>1, <5>2, SyncStepApplies
            <4>. QED
                BY <2>1, <4>1
        <3>2. CASE SyncerStopped
            BY <2>1, <3>2 DEF SyncerStopped
        <3>. QED
            BY <1>5, <3>1, <3>2 DEF TakeSyncer
    <2>3. SyncerStopped => UNCHANGED applied
        BY DEF SyncerStopped, dbVars
    <2>4. UNCHANGED applied \/ (Apply(syncQ[1].v) /\ Known(syncQ[1].v, ring))
        <3>1. SyncerVc => UNCHANGED applied \/ (SyncStep(syncQ[1].v, ring) /\ Known(syncQ[1].v, ring))
            BY SyncerVcSteps
        <3>. QED
            BY <1>5, <2>3, <3>1, SyncStepApplies DEF TakeSyncer
    <2>5. applied' \subseteq indexed'
        BY <1>0, <1>1, <2>1, <2>4 DEF Processed
    <2>. QED
        BY <1>2, <2>1, <2>2, <2>5
<1>6. CASE Drain
    <2>1. UNCHANGED <<ring, indexed>> /\ draining /\ rtq # <<>> /\ Head(rtq) = rtq[1]
        BY <1>6, RingStays, DrainEffect
    <2>2. CASE Panic
        BY <1>0, <1>2, <2>1, <2>2 DEF Panic, dbVars
    <2>3. CASE Apply(rtq[1]) /\ draining' = CanDrain(rtq', ring)
        <3>1. Known(rtq[1], ring)
            BY <1>0, <2>1 DEF CanDrain
        <3>2. applied' \subseteq indexed'
            BY <1>0, <1>1, <2>1, <2>3, <3>1 DEF Processed
        <3>. QED
            BY <1>2, <2>1, <2>3, <3>2
    <2>4. Panic \/ (Apply(rtq[1]) /\ draining' = CanDrain(rtq', ring))
        BY <1>6, <2>1, Zenon DEF Drain
    <2>. QED
        BY <2>2, <2>3, <2>4
<1>7. ASSUME NEW b \in 1..MaxBlock, ProcessedBlock(b)
      PROVE  Backed'
    <2>1. PICK r : r = Inserted(IF mode = "initial" THEN ring ELSE Evicted(ring), b)
        OBVIOUS
    <2>2. /\ ring' = r /\ indexed' = indexed \cup {b} /\ ~draining
          /\ \/ SyncStep(sq, r) /\ Known(sq, r)
             \/ draining' = (mode = "synced" /\ CanDrain(rtq, r)) /\ UNCHANGED <<rtq, applied>>
        BY <1>7, <2>1, Zenon DEF ProcessedBlock, Ready, dbVars
    <2>3. Ring(r) \subseteq indexed'
        <3>1. Ring(r) \subseteq Ring(ring) \cup {b}
            BY <1>0, <2>1, RingHolds
        <3>. QED
            BY <1>0, <2>2, <3>1 DEF Processed
    <2>4. applied' \subseteq indexed'
        <3>1. UNCHANGED applied \/ (Apply(sq) /\ Known(sq, r))
            BY <2>2, SyncStepApplies
        <3>2. indexed \subseteq indexed'
            BY <2>2
        <3>3. CASE UNCHANGED applied
            BY <1>0, <3>2, <3>3
        <3>4. CASE Apply(sq) /\ Known(sq, r)
            BY <1>1, <2>3, <3>2, <3>4, Zenon
        <3>. QED
            BY <3>1, <3>3, <3>4
    <2>5. draining' => CanDrain(rtq', ring')
        <3>1. CASE SyncStep(sq, r)
            BY <2>2, <3>1, SyncStepApplies
        <3>2. CASE draining' = (mode = "synced" /\ CanDrain(rtq, r)) /\ UNCHANGED rtq
            BY <2>2, <3>2
        <3>. QED
            BY <2>2, <3>1, <3>2
    <2>. QED
        BY <2>2, <2>3, <2>4, <2>5 DEF Backed, Processed, Ring, CanDrain, Known
<1>8. CASE Restart
    <2>1. /\ UNCHANGED applied /\ ~draining'
          /\ \E more \in SUBSET (1..sink) : indexed' = indexed \cup more /\ ring' = LoadRing(indexed')
        BY <1>8 DEF Restart, dbVars
    <2>2. indexed' \in SUBSET (1..MaxBlock)
        <3>1. sink \in Nat /\ sink \in 0..MaxBlock /\ MaxBlock \in Nat
            BY Queues, Bounds DEF Blocks
        <3>2. 1..sink \subseteq 1..MaxBlock
            BY <3>1
        <3>3. PICK more \in SUBSET (1..sink) : indexed' = indexed \cup more
            BY <2>1, Zenon
        <3>. QED
            BY <1>0, <3>2, <3>3
    <2>3. ring' \in Seq(indexed')
        BY <2>1, <2>2, LoadRingType
    <2>4. Ring(ring') \subseteq indexed'
        BY <2>3 DEF Ring
    <2>. QED
        BY <1>0, <2>1, <2>4 DEF Backed, Processed, Ring
<1>9. CASE UNCHANGED vars
    BY <1>0, <1>2, <1>9 DEF vars, vpVars, dbVars
<1>. QED
    BY <1>3, <1>4, <1>5, <1>6, <1>7, <1>8, <1>9 DEF Next

-----------------------------------------------------------------------------
(* The panics.                                                             *)

LEMMA AnswerAdds ==
    ASSUME NEW v, NEW b, NEW n, Answer(v, b, n), ~IsEmpty(v)
    PROVE  v.add # {}
<1>0. PICK k \in Blocks : \E c \in Chain[k] \ Chain[b] :
           v = [rem |-> Chain[b] \ Chain[k], add |-> {d \in Chain[k] \ Chain[b] : d <= c}, last |-> c]
    BY DEF Answer
<1>1. PICK c \in Chain[k] \ Chain[b] :
           v = [rem |-> Chain[b] \ Chain[k], add |-> {d \in Chain[k] \ Chain[b] : d <= c}, last |-> c]
    BY <1>0
<1>2. c \in Int
    BY <1>1, ChainFacts, Bounds
<1>3. c \in {d \in Chain[k] \ Chain[b] : d <= c}
    BY <1>2
<1>. QED
    BY <1>1, <1>3

LEMMA CalmNext ==
    ASSUME Types, Fresh, DrainOK, Stopping, Token, Steps, Addressed, Opened, Backed, Backed', Whole => NoPanic, [Next]_vars
    PROVE  Whole' => NoPanic'
<1>. SUFFICES ASSUME Whole', vp' = "panicked"
              PROVE  strayed'
    BY DEF NoPanic
<1>0. applied \subseteq indexed /\ sink \in Blocks
    BY Queues DEF Backed
<1>1. ASSUME NEW v, NEW r, Unwraps(v, r), v.add # {}, Ring(r) = Processed', indexed \subseteq indexed'
      PROVE  FALSE
    BY <1>0, <1>1 DEF Unwraps, Whole
<1>2. CASE vp = "panicked"
    <2>1. CASE NodeNext \/ UNCHANGED vars
        <3>1. UNCHANGED <<ring, indexed, strayed>>
            BY <2>1, RingStays, NodeEffect DEF vars, vpVars
        <3>. QED
            BY <1>2, <3>1 DEF Whole, Processed, Ring, NoPanic
    <2>2. CASE Restart
        BY <2>2 DEF Restart
    <2>3. ~DataSourceNext
        BY <1>2 DEF DataSourceNext, Register, ConnectOk, ConnectFails, HandleDisconnect, HandleNotification,
           HandleShutdown, HandleBlockClosed, DataSourceIdle
    <2>4. ~SyncerNext
        BY <1>2 DEF SyncerNext, ParkRequest, RefuseRequest, AnswerRequest, PrunedRequest, FailRequest, TakeStop,
           TakeContinue, DataSourceIdle
    <2>5. ~TakeNotification /\ ~TakeSyncer /\ ~Drain /\ \A b \in 1..MaxBlock : ~ProcessedBlock(b)
        BY <1>2, ConnectedEffect, DisconnectedEffect, ShutdownEffect, RealtimeEffect, WorkEffect, DrainEffect
           DEF TakeNotification
    <2>. QED
        BY <2>1, <2>2, <2>3, <2>4, <2>5 DEF Next
<1>3. CASE vp # "panicked"
    <2>1. CASE NodeNext \/ DataSourceNext \/ SyncerNext \/ UNCHANGED vars
        BY <1>3, <2>1, NodeEffect, SyncerEffect DEF vars, vpVars
    <2>2. CASE Connected \/ Disconnected
        BY <1>3, <2>2, ConnectedEffect, DisconnectedEffect
    <2>3. CASE Shutdown
        <3>1. vp' = "stopped" \/ vp' = "failed" \/ vp' = vp
            BY <2>3, Zenon DEF Shutdown, StopsSyncer, Ack
        <3>. QED
            BY <1>3, <3>1
    <2>4. CASE RealtimeVcc
        <3>1. notif # <<>> /\ notif[1].k = "vcc" /\ strayed' = (strayed \/ notif[1].stray) /\ UNCHANGED <<ring, indexed>>
            BY <2>4, RealtimeEffect, RingStays DEF TakeNotification
        <3>2. 1 \in 1..Len(notif)
            BY <3>1, Taken DEF Types, NotifsOK
        <3>3. CASE mode = "initial"
            <4>1. ~Greeted(notif, 1 - 1)
                BY DEF Greeted
            <4>. QED
                BY <3>1, <3>2, <3>3, <4>1, Zenon DEF Opened
        <3>4. CASE Unwraps(notif[1].v, ring)
            <4>1. notif[1].v.add # {}
                BY <1>0, <3>1, <3>2, StepAdds DEF Steps
            <4>. QED
                BY <1>1, <3>1, <3>4, <4>1 DEF Processed
        <3>. QED
            BY <2>4, <3>3, <3>4, RealtimeSteps
    <2>5. CASE SyncerVc
        <3>1. UNCHANGED <<ring, indexed>> /\ syncQ # <<>> /\ Head(syncQ).k = "vc"
            BY <2>5, RingStays DEF TakeSyncer, SyncerVc
        <3>2. Head(syncQ) = syncQ[1] /\ 1 \in 1..Len(syncQ)
            BY <3>1 DEF Types, SyncsOK
        <3>3. mode = "syncing" /\ Vc(1)
            BY <3>1, <3>2 DEF Addressed, Vc
        <3>4. sq = None /\ Answer(syncQ[1].v, last, sink)
            BY <3>2, <3>3 DEF Token
        <3>5. ~IsEmpty(syncQ[1].v) /\ SyncStep(syncQ[1].v, ring)
            BY <2>5, <3>3, <3>4, SyncerVcSteps
        <3>6. Unwraps(syncQ[1].v, ring) /\ syncQ[1].v.add # {}
            BY <1>3, <3>4, <3>5, SyncStepApplies, AnswerAdds
        <3>. QED
            BY <1>1, <3>1, <3>6 DEF Processed
    <2>6. CASE SyncerStopped
        <3>1. syncQ # <<>> /\ mode = "initial"
            BY <2>6, <1>3 DEF SyncerStopped
        <3>2. 1 \in 1..Len(syncQ)
            BY <3>1 DEF Types, SyncsOK
        <3>3. syncQ[1] \in SyncMsgs
            BY <3>2, Queues
        <3>4. syncQ[1].id \in SyncerIds
            BY <3>3, Zenon DEF SyncMsgs
        <3>. QED
            BY <3>1, <3>2, <3>4 DEF Fresh
    <2>7. ASSUME NEW b \in 1..MaxBlock, ProcessedBlock(b)
          PROVE  strayed'
        <3>1. PICK r : r = ring'
            OBVIOUS
        <3>2. /\ ring' = r /\ indexed' = indexed \cup {b}
              /\ \/ SyncStep(sq, r) /\ mode = "syncing" /\ sq # None
                 \/ UNCHANGED vp
            BY <2>7, <3>1, Zenon DEF ProcessedBlock
        <3>3. SyncStep(sq, r) /\ mode = "syncing" /\ sq # None
            BY <1>3, <3>2
        <3>4. Answer(sq, last, sink) /\ ~IsEmpty(sq)
            BY <3>3 DEF Token
        <3>5. Unwraps(sq, r) /\ sq.add # {}
            BY <1>3, <3>3, <3>4, SyncStepApplies, AnswerAdds
        <3>. QED
            BY <1>1, <3>2, <3>5 DEF Processed
    <2>8. CASE Drain
        <3>1. UNCHANGED <<ring, indexed>> /\ rtq # <<>> /\ Head(rtq) = rtq[1]
            BY <2>8, RingStays, DrainEffect
        <3>2. Unwraps(rtq[1], ring)
            BY <1>3, <2>8, <3>1, Zenon DEF Drain
        <3>3. rtq[1].add # {}
            <4>1. 1 \in 1..Len(rtq)
                BY <3>1, TakenChanges
            <4>. QED
                BY <1>0, <4>1, StepAdds DEF Steps
        <3>. QED
            BY <1>1, <3>1, <3>2, <3>3 DEF Processed
    <2>9. CASE Restart
        BY <2>9 DEF Restart
    <2>. QED
        BY <2>1, <2>2, <2>3, <2>4, <2>5, <2>6, <2>7, <2>8, <2>9 DEF Next, TakeNotification, TakeSyncer
<1>. QED
    BY <1>2, <1>3

LEMMA CalmInit == Init => Calm
<1>. SUFFICES ASSUME Init
              PROVE  Calm
    OBVIOUS
<1>1. /\ nodeQ = <<>> /\ notif = <<>> /\ rtq = <<>> /\ syncQ = <<>> /\ ring = <<>> /\ ~draining /\ link = "down"
      /\ vp = "running" /\ applied = {} /\ indexed = {}
    BY DEF Init
<1>2. Steps /\ Addressed /\ Opened
    BY <1>1 DEF Steps, Addressed, Opened
<1>3. Backed
    BY <1>1 DEF Backed, Processed, Ring
<1>. QED
    BY <1>1, <1>2, <1>3 DEF Calm, NoPanic

LEMMA CalmExactNext ==
    ASSUME Types, Types', Handover, Exact, Calm, [Next]_vars
    PROVE  Exact' /\ Calm'
<1>1. /\ Fresh /\ Spawned /\ DrainOK /\ Order /\ Stopping /\ Token
      /\ Steps /\ Addressed /\ Opened /\ Backed /\ (Whole => NoPanic)
    BY DEF Handover, Exact, Calm
<1>2. Backed'
    BY <1>1, BackedNext
<1>3. Steps' /\ Addressed' /\ Opened'
    BY <1>1, StepsNext, AddressedNext, OpenedNext
<1>4. Whole' => NoPanic'
    BY <1>1, <1>2, CalmNext
<1>. QED
    BY <1>2, <1>3, <1>4, ExactNext, Zenon DEF Calm

\* No unreachable!, assert! or unwrap of the processor is reached before the chain has
\* broken, whatever the tree, the chunks, the order of the blocks and the faults, as
\* long as no processed block has left the ring (virtual_chain_processor.rs,
\* handle_realtime_vcc, handle_syncer_vc, handle_vcc_removal).
THEOREM PanicTheorem == Spec => [](Whole => NoPanic)
<1>1. Init => Exact /\ Calm
    BY ExactInit, CalmInit
<1>2. Types /\ Types' /\ Handover /\ Exact /\ Calm /\ [Next]_vars => Exact' /\ Calm'
    BY CalmExactNext
<1>3. Calm => (Whole => NoPanic)
    BY DEF Calm
<1>4. Spec => [](Types /\ Handover)
    BY Inductive
<1>. QED
    BY <1>1, <1>2, <1>3, <1>4, PTL DEF Spec

=============================================================================
