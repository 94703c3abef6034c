---------------------------- MODULE VirtualChain ----------------------------
(***************************************************************************)
(* How kasia-indexer follows the virtual chain: VirtualProcessor           *)
(* (indexer-actors/src/virtual_chain_processor.rs), its VirtualChainSyncer *)
(* tasks (virtual_chain_syncer.rs) and the virtual chain half of           *)
(* DataSource (data_source.rs), over the two partitions that hold the      *)
(* result: the accepting blocks and LatestAcceptingBlockCursor.            *)
(*                                                                         *)
(* Blocks are numbered in the order of their blue work, which is the order *)
(* in which they become the sink; Chain[b] is the selected chain that ends *)
(* in b, without block 0.  A virtual chain change is the difference of two *)
(* such chains.  The transactions a chain block accepts, and the           *)
(* resolution of their senders, are left out.                              *)
(***************************************************************************)
EXTENDS Integers, Sequences, FiniteSets

CONSTANTS
    MaxBlock,   \* bound: the last block the node adds
    Chain,      \* the selected chain of each block
    Chunk,      \* most added blocks in one GetVirtualChainFromBlock response
    SyncCap,    \* capacity of the syncer channel
    Capacity,   \* synced_capacity of the ring of processed blocks
    MaxSyncers, \* bound: syncers spawned by one process
    Budgets     \* bounds: how often each fault, and a shutdown, may happen

FaultKinds == {"drop", "handshake", "rpc", "crash", "block", "shutdown", "prune"}
Blocks     == 0..MaxBlock
SyncerIds  == 0..(MaxSyncers - 1)

ASSUME ChainBounds ==
    /\ MaxBlock \in Nat /\ MaxSyncers \in Nat \ {0}
    /\ Chunk \in Nat \ {0} /\ SyncCap \in Nat \ {0} /\ Capacity \in Nat \ {0}
    /\ Budgets \subseteq [FaultKinds -> Nat]

\* Selected chains: they end in their block, agree with the chains of the
\* blocks on them, and carry increasing blue work.
ASSUME ChainIsTree ==
    /\ Chain \in [Blocks -> SUBSET (1..MaxBlock)]
    /\ Chain[0] = {}
    /\ \A b \in 1..MaxBlock : b \in Chain[b]
    /\ \A b \in Blocks : \A c \in Chain[b] : c <= b
    /\ \A b \in Blocks : \A c \in Chain[b] : Chain[c] = {d \in Chain[b] : d <= c}

NoBlock == -1
None    == [rem |-> {}, add |-> {}, last |-> NoBlock]

VARIABLES
    sink,         \* node: the last block of the virtual chain
    pp,           \* node: the pruning point
    link,         \* node connection as DataSource sees it
    shuttingDown, \* DataSource.shutting_down
    nodeQ,        \* DataSource.notification_channel
    notif,        \* vcc_sender: DataSource -> VirtualProcessor
    syncers,      \* the VirtualChainSyncer tasks, where their request is, their ack_rx
    syncQ,        \* syncer channel: syncers -> VirtualProcessor
    ring,         \* VirtualProcessor: processed_blocks, oldest first
    rtq,          \* VirtualProcessor: realtime_queue_vcc
    draining,     \* handle_processed_block is working off realtime_queue_vcc
    vshut,        \* VirtualProcessor: shutting_down
    vp,           \* "running", or how process() ended
    mode,         \* SyncState: "initial", "syncing" or "synced"
    last,         \* SyncState: last_accepting_block
    sid,          \* SyncState: syncer_id, last_syncer_id
    target,       \* SyncState: target_block
    sq,           \* SyncState: sync_queue
    cursor,       \* DB: LatestAcceptingBlockCursor
    applied,      \* DB: the keys of accepting_block_to_tx_id
    indexed,      \* DB: daa_index
    used,         \* faults so far
    strayed       \* history: one of the three events that break the chain

nodeVars == <<sink, pp, link, shuttingDown, nodeQ>>
syncVars == <<mode, last, sid, target, sq>>
vpVars   == <<ring, rtq, draining, vshut, vp, syncVars>>
dbVars   == <<cursor, applied>>
vars     == <<nodeVars, notif, syncers, syncQ, vpVars, dbVars, indexed, used, strayed>>

IdleSyncer == [st |-> "none", from |-> 0, ack |-> "none"]

Ring(r) == {r[i] : i \in DOMAIN r}
Processed == Ring(ring)

\* The change from the chain that ends in a to the one that ends in b.
Change(a, b) == [rem |-> Chain[a] \ Chain[b], add |-> Chain[b] \ Chain[a], last |-> b]

IsEmpty(v) == v.rem = {} /\ v.add = {}

Msg(k, v, stray) == [k |-> k, n |-> 0, pp |-> 0, v |-> v, stray |-> stray]

\* The blocks above the pruning point, for which the node has headers.
AbovePruning(b) == pp = 0 \/ (pp \in Chain[b] /\ b # pp)
HasHeader(b) == b = pp \/ AbovePruning(b)

Position == IF cursor = NoBlock THEN 0 ELSE cursor

\* The accepting blocks are the chain up to the cursor.
DbConsistent == {b \in applied : AbovePruning(b)} = {b \in Chain[Position] : AbovePruning(b)}

-----------------------------------------------------------------------------
Init ==
    /\ sink = 0 /\ pp = 0 /\ link = "down" /\ shuttingDown = FALSE
    /\ nodeQ = <<>> /\ notif = <<>> /\ syncQ = <<>>
    /\ syncers = [s \in SyncerIds |-> IdleSyncer]
    /\ ring = <<>> /\ rtq = <<>> /\ draining = FALSE /\ vshut = FALSE
    /\ vp = "running"
    /\ mode = "initial" /\ last = 0 /\ sid = 0 /\ target = 0 /\ sq = None
    /\ cursor = NoBlock /\ applied = {} /\ indexed = {}
    /\ used = [k \in FaultKinds |-> 0] /\ strayed = FALSE

Fault(k) == /\ used' = [used EXCEPT ![k] = @ + 1]
            /\ \E budget \in Budgets : \A f \in FaultKinds : used'[f] <= budget[f]

-----------------------------------------------------------------------------
(* The node and DataSource.                                                *)

\* External: a block becomes the sink, and the change is notified.
NewSink ==
    /\ sink < MaxBlock
    /\ sink' = sink + 1
    /\ nodeQ' = IF link \in {"registering", "up"}
                  THEN Append(nodeQ, [v |-> Change(sink, sink + 1), stray |-> FALSE])
                  ELSE nodeQ
    /\ UNCHANGED <<pp, link, shuttingDown, notif, syncers, syncQ, vpVars, dbVars,
                   indexed, used, strayed>>

\* External: the pruning point moves to a block that no later chain leaves.
Prune ==
    /\ Fault("prune")
    /\ \E p \in Chain[sink] : /\ p > pp
                              /\ \A b \in Blocks : b > sink => p \in Chain[b]
                              /\ pp' = p
    /\ UNCHANGED <<sink, link, shuttingDown, nodeQ, notif, syncers, syncQ, vpVars,
                   dbVars, indexed, strayed>>

\* handle_connect up to the registration of the listeners.
Register ==
    /\ vp = "running" /\ link = "down" /\ ~shuttingDown
    /\ link' = "registering"
    /\ UNCHANGED <<sink, pp, shuttingDown, nodeQ, notif, syncers, syncQ, vpVars,
                   dbVars, indexed, used, strayed>>

\* Mutant of ConnectOk: the parked requests are dropped.
ConnectOkForgets ==
    /\ vp = "running" /\ link = "registering"
    /\ link' = "up"
    /\ notif' = Append(notif, [Msg("connected", None, FALSE) EXCEPT !.n = sink, !.pp = pp])
    /\ UNCHANGED <<sink, pp, shuttingDown, nodeQ, syncers, syncQ, vpVars, dbVars, indexed,
                   used, strayed>>

\* handle_connect_impl from get_block_dag_info on: announce the sink and the
\* pruning point, and send the parked requests through the command channel.
ConnectOk ==
    /\ vp = "running" /\ link = "registering"
    /\ link' = "up"
    /\ notif' = Append(notif, [Msg("connected", None, FALSE) EXCEPT !.n = sink, !.pp = pp])
    /\ syncers' = [s \in SyncerIds |->
                     IF syncers[s].st = "parked" THEN [syncers[s] EXCEPT !.st = "asked"]
                                                 ELSE syncers[s]]
    /\ UNCHANGED <<sink, pp, shuttingDown, nodeQ, syncQ, vpVars, dbVars, indexed,
                   used, strayed>>

\* The connection is over; what its listeners delivered stays in
\* notification_channel and is forwarded behind the Disconnected.
Hangup ==
    /\ link' = "down"
    /\ notif' = Append(notif, Msg("disconnected", None, FALSE))
    /\ nodeQ' = [i \in DOMAIN nodeQ |-> [nodeQ[i] EXCEPT !.stray = TRUE]]
    /\ UNCHANGED <<sink, pp, shuttingDown, syncers, syncQ, vpVars, dbVars, indexed,
                   strayed>>

ConnectFails == /\ vp = "running" /\ link = "registering"
                /\ Fault("handshake")
                /\ Hangup

HandleDisconnect == /\ vp = "running" /\ link = "dropped"
                    /\ Hangup
                    /\ UNCHANGED used

\* External: the connection breaks; DataSource has not seen it yet.
LinkDrops ==
    /\ link = "up"
    /\ Fault("drop")
    /\ link' = "dropped"
    /\ UNCHANGED <<sink, pp, shuttingDown, nodeQ, notif, syncers, syncQ, vpVars,
                   dbVars, indexed, strayed>>

\* DataSource is one task: while it negotiates a connection it handles nothing.
DataSourceIdle == vp = "running" /\ link # "registering"

HandleNotification ==
    /\ DataSourceIdle
    /\ nodeQ # <<>>
    /\ notif' = Append(notif, Msg("vcc", Head(nodeQ).v, Head(nodeQ).stray))
    /\ nodeQ' = Tail(nodeQ)
    /\ UNCHANGED <<sink, pp, link, shuttingDown, syncers, syncQ, vpVars, dbVars,
                   indexed, used, strayed>>

\* handle_shutdown; requests_queue is left as it is.
HandleShutdown ==
    /\ DataSourceIdle
    /\ ~shuttingDown
    /\ Fault("shutdown")
    /\ shuttingDown' = TRUE
    /\ link' = "down"
    /\ notif' = Append(notif, Msg("shutdown", None, FALSE))
    /\ UNCHANGED <<sink, pp, nodeQ, syncers, syncQ, vpVars, dbVars, indexed, strayed>>

\* MarkBlockSenderClosed: the block processor ended first.
HandleBlockClosed ==
    /\ DataSourceIdle
    /\ Fault("block")
    /\ notif' = Append(notif, Msg("shutdown", None, FALSE))
    /\ UNCHANGED <<nodeVars, syncers, syncQ, vpVars, dbVars, indexed, strayed>>

-----------------------------------------------------------------------------
(* A syncer and its RequestVirtualChain.                                   *)

\* Its Drop sends Stopped, however process() ends.
SyncerEnds(s) ==
    /\ Len(syncQ) < SyncCap
    /\ syncers' = [syncers EXCEPT ![s].st = "done", ![s].ack = "none"]
    /\ syncQ' = Append(syncQ, [id |-> s, k |-> "stopped", v |-> None])

\* handle_command, no connection: the request waits in requests_queue.
ParkRequest(s) ==
    /\ DataSourceIdle
    /\ syncers[s].st = "asked" /\ ~shuttingDown /\ link # "up"
    /\ syncers' = [syncers EXCEPT ![s].st = "parked"]
    /\ UNCHANGED <<nodeVars, notif, syncQ, vpVars, dbVars, indexed, used, strayed>>

\* handle_command while shutting down: the error ends the syncer.
RefuseRequest(s) ==
    /\ DataSourceIdle
    /\ syncers[s].st = "asked" /\ shuttingDown
    /\ SyncerEnds(s)
    /\ UNCHANGED <<nodeVars, notif, vpVars, dbVars, indexed, used, strayed>>

\* GetVirtualChainFromBlock answers with what has to be removed, and added up to
\* the sink or to the last of Chunk blocks.
Answers(from) ==
    LET full == Change(from, sink)
    IN  {[full EXCEPT !.add = {d \in full.add : d <= c}, !.last = c] :
           c \in {d \in full.add : Cardinality({e \in full.add : e <= d}) <= Chunk}}
          \cup (IF full.add = {} THEN {[full EXCEPT !.last = from]} ELSE {})

\* The answer arrives before a Stop, and the syncer passes it on.
AnswerRequest(s) ==
    /\ DataSourceIdle
    /\ syncers[s].st = "asked" /\ ~shuttingDown /\ link = "up"
    /\ HasHeader(syncers[s].from)
    /\ Len(syncQ) < SyncCap
    /\ \E v \in Answers(syncers[s].from) :
         /\ syncQ' = Append(syncQ, [id |-> s, k |-> "vc", v |-> v])
         /\ syncers' = [syncers EXCEPT ![s].st = "waiting", ![s].from = v.last]
    /\ UNCHANGED <<nodeVars, notif, vpVars, dbVars, indexed, used, strayed>>

\* The node no longer has the block: the cursor is cleared before Stopped.
PrunedRequest(s) ==
    /\ DataSourceIdle
    /\ syncers[s].st = "asked" /\ ~shuttingDown /\ link = "up"
    /\ ~HasHeader(syncers[s].from)
    /\ SyncerEnds(s)
    /\ cursor' = NoBlock
    /\ UNCHANGED <<nodeVars, notif, vpVars, applied, indexed, used, strayed>>

\* Any other RPC error ends the syncer.
FailRequest(s) ==
    /\ DataSourceIdle
    /\ syncers[s].st = "asked" /\ ~shuttingDown /\ link = "up"
    /\ Fault("rpc")
    /\ SyncerEnds(s)
    /\ UNCHANGED <<nodeVars, notif, vpVars, dbVars, indexed, strayed>>

\* An ack is taken: Stop at any time, Continue between two requests.
TakeStop(s) ==
    /\ vp = "running"
    /\ syncers[s].st \in {"asked", "parked", "waiting"} /\ syncers[s].ack = "stop"
    /\ SyncerEnds(s)
    /\ UNCHANGED <<nodeVars, notif, vpVars, dbVars, indexed, used, strayed>>

TakeContinue(s) ==
    /\ vp = "running"
    /\ syncers[s].st = "waiting" /\ syncers[s].ack = "continue"
    /\ syncers' = [syncers EXCEPT ![s].st = "asked", ![s].ack = "none"]
    /\ UNCHANGED <<nodeVars, notif, syncQ, vpVars, dbVars, indexed, used, strayed>>

-----------------------------------------------------------------------------
(* VirtualProcessor.process: one message of notif or of syncQ, or one      *)
(* processed block, at a time.                                             *)

Ready == vp = "running" /\ ~draining

Receives(k) ==
    /\ Ready
    /\ notif # <<>>
    /\ Head(notif).k = k
    /\ notif' = Tail(notif)

Panic == /\ vp' = "panicked"
         /\ UNCHANGED <<ring, rtq, draining, vshut, syncVars, syncers, dbVars>>

Known(v, r) == v.add \subseteq Ring(r)

\* The unwrap on the last added block and, in handle_vcc_removal, on the
\* processed block of a row that is there.
Unwraps(v, r) == v.add = {} \/ ~(v.rem \cap applied \subseteq Ring(r))

\* Mutant of Apply: the removed chain blocks stay.
ApplyKeepsRemoved(v) ==
    /\ applied' = applied \cup v.add
    /\ cursor' = v.last

\* handle_vcc and handle_vc_resp: removals, additions and the cursor in one
\* transaction.
Apply(v) ==
    /\ applied' = (applied \ v.rem) \cup v.add
    /\ cursor' = v.last

\* send_blocking on the ack channel waits for room and fails once the syncer
\* is gone.
AckRoom == syncers[sid].st = "done" \/ syncers[sid].ack = "none"
Ack(a) == IF syncers[sid].st = "done" THEN /\ vp' = "failed" /\ UNCHANGED syncers
                                      ELSE /\ syncers' = [syncers EXCEPT ![sid].ack = a]
                                           /\ UNCHANGED vp

SpawnSyncer(s, from) ==
    /\ s \in SyncerIds
    /\ syncers' = [syncers EXCEPT ![s] = [st |-> "asked", from |-> from, ack |-> "none"]]

\* Mutant of SyncFrom: a missing cursor is used.
SyncFromCursor(m) == cursor

\* Where the first syncer starts: at the cursor, or at the pruning point.
SyncFrom(m) == IF cursor = NoBlock THEN m.pp ELSE cursor

\* handle_connect.
Connected ==
    /\ Receives("connected")
    /\ LET m    == Head(notif)
           from == IF mode = "initial" THEN SyncFrom(m) ELSE last
           id   == IF mode = "initial" THEN 0 ELSE sid + 1
       IN  IF mode = "synced" /\ (last = m.n \/ last > m.n)
             THEN UNCHANGED <<syncVars, syncers>>
             ELSE /\ target' = m.n
                  /\ IF mode = "syncing"
                       THEN UNCHANGED <<mode, last, sid, sq, syncers>>
                       ELSE /\ SpawnSyncer(id, from)
                            /\ mode' = "syncing" /\ sid' = id /\ last' = from /\ sq' = None
    /\ UNCHANGED <<nodeVars, syncQ, ring, rtq, draining, vshut, vp, dbVars, indexed,
                   used, strayed>>

Disconnected ==
    /\ Receives("disconnected")
    /\ rtq' = <<>>
    /\ strayed' = (strayed \/ ~DbConsistent)
    /\ UNCHANGED <<nodeVars, syncers, syncQ, ring, draining, vshut, vp, syncVars,
                   dbVars, indexed, used>>

\* Mutant of StopsSyncer: a shutdown waits for the syncer to finish by itself.
StopsSyncerLater == UNCHANGED <<vp, syncers>>

\* A syncer that is at work is asked to stop.
StopsSyncer == AckRoom /\ Ack("stop")

\* handle_shutdown.
Shutdown ==
    /\ Receives("shutdown")
    /\ vshut' = TRUE
    /\ IF mode = "syncing" THEN StopsSyncer
                           ELSE vp' = "stopped" /\ UNCHANGED syncers
    /\ UNCHANGED <<nodeVars, syncQ, ring, rtq, draining, syncVars, dbVars, indexed,
                   used, strayed>>

\* A change waits for the syncer, for the changes before it and for its blocks.
MustQueue(v) == mode = "syncing" \/ rtq # <<>> \/ ~Known(v, ring)

\* handle_realtime_vcc.
RealtimeVcc ==
    /\ Receives("vcc")
    /\ LET v     == Head(notif).v
           queue == MustQueue(v)
       IN  CASE mode = "initial" -> Panic
             [] mode # "initial" /\ queue ->
                  /\ rtq' = Append(rtq, v)
                  /\ UNCHANGED <<ring, draining, vshut, vp, syncVars, syncers, dbVars>>
             [] mode # "initial" /\ ~queue /\ Unwraps(v, ring) -> Panic
             [] OTHER ->
                  /\ Apply(v)
                  /\ last' = v.last
                  /\ UNCHANGED <<ring, rtq, draining, vshut, vp, mode, sid, target, sq, syncers>>
    /\ strayed' = (strayed \/ Head(notif).stray)
    /\ UNCHANGED <<nodeVars, syncQ, indexed, used>>

\* A syncer's response whose blocks are all processed.  On the way to Synced
\* the Stop is sent first, otherwise the response is committed first.
SyncStep(v, r) ==
    LET reached == v.last = target \/ v.last > target
        gone    == syncers[sid].st = "done"
    IN  IF ~(reached /\ gone) /\ Unwraps(v, r)
          THEN vp' = "panicked" /\ UNCHANGED <<rtq, draining, vshut, syncVars, syncers, dbVars>>
          ELSE /\ AckRoom
               /\ Ack(IF reached THEN "stop" ELSE "continue")
               /\ IF reached /\ gone THEN UNCHANGED <<dbVars, syncVars>>
                  ELSE /\ Apply(v)
                       /\ last' = v.last /\ sq' = None
                       /\ mode' = IF reached THEN "synced" ELSE "syncing"
                       /\ UNCHANGED <<sid, target>>
               /\ UNCHANGED <<rtq, draining, vshut>>

\* Mutant of AskAgain: an empty response is not answered.
AskAgainSilent == UNCHANGED <<vp, syncers>>

\* An empty response: the syncer asks again at once.
AskAgain == AckRoom /\ Ack("continue")

\* Mutant of HoldBack: the syncer goes on meanwhile.
HoldBackEager(v) == sq' = v /\ AckRoom /\ Ack("continue")

\* A response with unprocessed blocks waits in sync_queue, and the syncer with it.
HoldBack(v) == sq' = v /\ UNCHANGED <<vp, syncers>>

\* handle_syncer_vc.
SyncerVc ==
    /\ Ready
    /\ syncQ # <<>> /\ Head(syncQ).k = "vc"
    /\ syncQ' = Tail(syncQ)
    /\ LET v == Head(syncQ).v
           expected == mode = "syncing" /\ Head(syncQ).id = sid
       IN  CASE ~expected -> Panic
             [] expected /\ IsEmpty(v) ->
                  /\ AskAgain
                  /\ UNCHANGED <<ring, rtq, draining, vshut, syncVars, dbVars>>
             [] expected /\ ~IsEmpty(v) /\ ~Known(v, ring) ->
                  IF sq # None THEN Panic
                  ELSE /\ HoldBack(v)
                       /\ UNCHANGED <<ring, rtq, draining, vshut, mode, last, sid, target, dbVars>>
             [] OTHER -> SyncStep(v, ring) /\ UNCHANGED ring
    /\ UNCHANGED <<nodeVars, notif, indexed, used, strayed>>

\* handle_syncer_stopped: the end of the current syncer ends the processor, with
\* an error unless a shutdown was received; earlier syncers are ignored.
SyncerStopped ==
    /\ Ready
    /\ syncQ # <<>> /\ Head(syncQ).k = "stopped"
    /\ syncQ' = Tail(syncQ)
    /\ vp' = CASE mode = "initial" -> "panicked"
               [] Head(syncQ).id = sid /\ vshut -> "stopped"
               [] Head(syncQ).id = sid /\ ~vshut /\ mode = "syncing" -> "failed"
               [] OTHER -> "running"
    /\ UNCHANGED <<nodeVars, notif, syncers, ring, rtq, draining, vshut, syncVars,
                   dbVars, indexed, used, strayed>>

\* The ring with a block inserted: room is made first, a known block keeps its
\* place.
Evicted(r) ==
    IF Len(r) + 1 > Capacity THEN SubSeq(r, Len(r) + 2 - Capacity, Len(r)) ELSE r
Inserted(r, b) == IF b \in Ring(r) THEN r ELSE Append(r, b)

CanDrain(q, r) == q # <<>> /\ Known(q[1], r)

\* handle_processed_block: BlockProcessor has processed a block, in any order
\* and possibly again (a gap filler and a notification both deliver it).
ProcessedBlock(b) ==
    /\ Ready
    /\ b <= sink
    /\ indexed' = indexed \cup {b}
    /\ LET r == Inserted(IF mode = "initial" THEN ring ELSE Evicted(ring), b)
       IN  /\ ring' = r
           /\ IF mode = "syncing" /\ sq # None /\ Known(sq, r)
                THEN SyncStep(sq, r)
                ELSE /\ draining' = (mode = "synced" /\ CanDrain(rtq, r))
                     /\ UNCHANGED <<rtq, vshut, vp, syncVars, syncers, dbVars>>
    /\ UNCHANGED <<nodeVars, notif, syncQ, used, strayed>>

\* One change of realtime_queue_vcc and its transaction; the loop goes on while
\* the blocks of the next one are processed.
Drain ==
    /\ vp = "running" /\ draining
    /\ IF Unwraps(Head(rtq), ring) THEN Panic
       ELSE /\ Apply(Head(rtq))
            /\ last' = Head(rtq).last
            /\ rtq' = Tail(rtq)
            /\ draining' = CanDrain(Tail(rtq), ring)
            /\ UNCHANGED <<ring, vshut, vp, mode, sid, target, sq, syncers>>
    /\ UNCHANGED <<nodeVars, notif, syncQ, indexed, used, strayed>>

-----------------------------------------------------------------------------
\* The blocks of the DAA index in ascending order, the latest Capacity of them.
LoadRing(S) ==
    LET n == Cardinality(S)
        asc == [i \in 1..n |-> CHOOSE b \in S : Cardinality({c \in S : c <= b}) = i]
    IN  IF n > Capacity THEN SubSeq(asc, n + 1 - Capacity, n) ELSE asc

\* The process ends, at any point, and is started again; BlockProcessor may
\* have indexed blocks that VirtualProcessor had not received yet.
Restart ==
    /\ Fault("crash")
    /\ \E more \in SUBSET (1..sink) : /\ indexed' = indexed \cup more
                                      /\ ring' = LoadRing(indexed')
    /\ link' = "down" /\ shuttingDown' = FALSE
    /\ nodeQ' = <<>> /\ notif' = <<>> /\ syncQ' = <<>>
    /\ syncers' = [s \in SyncerIds |-> IdleSyncer]
    /\ rtq' = <<>> /\ draining' = FALSE /\ vshut' = FALSE /\ vp' = "running"
    /\ mode' = "initial" /\ last' = 0 /\ sid' = 0 /\ target' = 0 /\ sq' = None
    /\ strayed' = (strayed \/ ~DbConsistent)
    /\ UNCHANGED <<sink, pp, dbVars>>

-----------------------------------------------------------------------------
NodeNext == NewSink \/ Prune \/ LinkDrops
DataSourceNext == \/ Register \/ ConnectOk \/ ConnectFails \/ HandleDisconnect
                  \/ HandleNotification \/ HandleShutdown \/ HandleBlockClosed
SyncerNext == \E s \in SyncerIds :
                \/ ParkRequest(s) \/ RefuseRequest(s) \/ AnswerRequest(s)
                \/ PrunedRequest(s) \/ FailRequest(s) \/ TakeStop(s) \/ TakeContinue(s)
TakeNotification == Connected \/ Disconnected \/ Shutdown \/ RealtimeVcc
TakeSyncer == SyncerVc \/ SyncerStopped

Next == NodeNext \/ Restart \/ DataSourceNext \/ SyncerNext
        \/ TakeNotification \/ TakeSyncer \/ Drain \/ \E b \in 1..MaxBlock : ProcessedBlock(b)

Spec == Init /\ [][Next]_vars

(* Every actor keeps running and select_input, a flume Selector, starts at *)
(* a random channel, so that no channel starves another.  BlockProcessor   *)
(* hands over every block of the node.  Faults are never forced.           *)
Fairness ==
    /\ WF_vars(Register) /\ WF_vars(ConnectOk) /\ WF_vars(HandleDisconnect)
    /\ WF_vars(HandleNotification)
    /\ \A s \in SyncerIds :
         /\ WF_vars(ParkRequest(s) \/ RefuseRequest(s) \/ AnswerRequest(s) \/ PrunedRequest(s))
         /\ WF_vars(TakeStop(s)) /\ WF_vars(TakeContinue(s))
    /\ SF_vars(TakeNotification) /\ SF_vars(TakeSyncer) /\ WF_vars(Drain)
    /\ \A b \in 1..MaxBlock : SF_vars(b \notin Processed /\ ProcessedBlock(b))

FairSpec == Spec /\ Fairness

-----------------------------------------------------------------------------
(* Properties.                                                             *)

Changes == [rem : SUBSET (1..MaxBlock), add : SUBSET (1..MaxBlock), last : Blocks]

\* The types of the states: every cursor, queue and syncer position is a block the
\* code could name, and no request starts from nowhere.
TypeOK ==
    /\ sink \in Blocks /\ pp \in Blocks
    /\ link \in {"down", "registering", "up", "dropped"} /\ shuttingDown \in BOOLEAN
    /\ nodeQ \in Seq([v : Changes, stray : BOOLEAN])
    /\ notif \in Seq([k : {"connected", "disconnected", "vcc", "shutdown"}, n : Blocks,
                      pp : Blocks, v : Changes \cup {None}, stray : BOOLEAN])
    /\ syncers \in [SyncerIds -> [st : {"none", "asked", "parked", "waiting", "done"},
                                  from : Blocks, ack : {"none", "continue", "stop"}]]
    /\ syncQ \in Seq([id : SyncerIds, k : {"vc", "stopped"}, v : Changes \cup {None}])
    /\ ring \in Seq(1..MaxBlock) /\ rtq \in Seq(Changes) /\ draining \in BOOLEAN
    /\ vshut \in BOOLEAN /\ vp \in {"running", "stopped", "failed", "panicked"}
    /\ mode \in {"initial", "syncing", "synced"}
    /\ last \in Blocks /\ sid \in SyncerIds /\ target \in Blocks /\ sq \in Changes \cup {None}
    /\ cursor \in Blocks \cup {NoBlock} /\ applied \subseteq 1..MaxBlock
    /\ indexed \subseteq 1..MaxBlock
    /\ used \in [FaultKinds -> Nat] /\ strayed \in BOOLEAN

\* Nothing the node has notified is still on its way to the database.
CaughtUp == /\ vp = "running" /\ mode = "synced" /\ link = "up"
            /\ nodeQ = <<>> /\ notif = <<>> /\ rtq = <<>>

\* Once it has caught up the index is the node's virtual chain exactly: the
\* accepting blocks are the chain blocks up to the sink, none of an abandoned
\* branch and none missing, whatever reorganisations, syncers and queued changes
\* led there.  Except after one of three events: a change forwarded after its
\* connection had ended, and a disconnect or a restart in the middle of the
\* replay of changes that a syncer had already applied. And until the processor is
\* synced every commit leaves the accepting blocks equal to the chain of the
\* cursor, so that a restart resumes from an exact position.
ChainExact ==
    ~strayed =>
      /\ CaughtUp => DbConsistent /\ cursor = sink
      /\ mode # "synced" => DbConsistent

\* The unreachable!, assert! and unwrap of the processor hold.
NoPanic == vp = "panicked" => strayed

\* The same with no exception: SyncState::Initial => unreachable!() in
\* handle_realtime_vcc is never reached.
NeverPanics == vp # "panicked"

\* A Continue is only on its way to a syncer that waits for one, and while the
\* processor is syncing there is exactly one thing under way between it and its
\* syncer: a request, a response, a parked response, an ack or the end.
UnderWay ==
    (IF syncers[sid].st \in {"asked", "parked"} THEN 1 ELSE 0)
    + Cardinality({i \in DOMAIN syncQ : syncQ[i].id = sid})
    + (IF sq # None THEN 1 ELSE 0)
    + (IF syncers[sid].ack = "continue" THEN 1 ELSE 0)
SyncerInStep ==
    vp = "running" /\ mode = "syncing" /\ ~vshut =>
      /\ UnderWay = 1
      /\ syncers[sid].ack = "continue" => syncers[sid].st = "waiting"

\* A shutdown ends the processor, with or without an error.
ShutdownCompletes == vshut ~> vp # "running"

\* The processor reaches Synced whenever its chain is behind the node's.
EventuallySynced ==
    mode = "syncing" /\ last # sink ~> mode = "synced" \/ vp # "running"

=============================================================================
