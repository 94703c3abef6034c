---------------------------- MODULE BlockIngest ----------------------------
(***************************************************************************)
(* How kasia-indexer keeps its block index complete: the block half of     *)
(* DataSource (indexer-actors/src/data_source.rs), BlockProcessor          *)
(* (block_processor.rs) and its BlockGapFiller tasks (block_gap_filler.rs),*)
(* over the fjall partitions that survive a restart.                       *)
(*                                                                         *)
(* Blocks are numbered 0..MaxBlock in the order in which the node adds     *)
(* them; block 0 is the pruning point.  Block contents, hashes and blue    *)
(* work are left out: what counts here is which blocks have been           *)
(* processed, and which ones the durable ledger (cursor and gap rows)      *)
(* still knows it has to fetch.                                            *)
(***************************************************************************)
EXTENDS Integers, Sequences, FiniteSets

CONSTANTS
    MaxBlock,   \* bound: the last block the node adds
    MaxFresh,   \* bound: gap fillers spawned for new gaps by one process
    Chunk,      \* most blocks past low_hash in one GetBlocks response
    GapCap,     \* capacity of the gap_result channel
    UsizeMod,   \* gaps_filling_in_progress is a usize: arithmetic modulo this
    Budget      \* bound: how often each fault, and a shutdown, may happen

FaultKinds == {"drop", "handshake", "rpc", "crash", "vcc", "shutdown"}

ASSUME BoundsAssumption ==
    /\ MaxBlock \in Nat
    /\ MaxFresh \in Nat
    /\ Chunk \in Nat \ {0}
    /\ GapCap \in Nat \ {0}
    /\ UsizeMod \in Nat /\ UsizeMod > MaxBlock + MaxFresh + 1
    /\ Budget \in [FaultKinds -> Nat]

NoBlock   == -1
NoFiller  == -1
Blocks    == 0..MaxBlock
\* A filler that resumes a persisted gap is named by the gap's key, a filler
\* for a new gap by a serial number above the block numbers.
FillerIds == 0..(MaxBlock + MaxFresh)

VARIABLES
    tip,          \* node: the last block added
    link,         \* node connection as DataSource sees it
    regTip,       \* tip when the listeners of this connection were registered
    shuttingDown, \* DataSource.shutting_down
    nodeQ,        \* DataSource.notification_channel
    notif,        \* block_sender: DataSource -> BlockProcessor
    fillers,      \* the BlockGapFiller tasks and where their request is
    fresh,        \* fillers spawned for new gaps so far
    results,      \* gap_result channel: fillers -> BlockProcessor
    hasFirst,     \* BlockProcessor: has_first_connect
    lpb,          \* BlockProcessor: last_processed_block
    gapsFillers,  \* BlockProcessor: gaps_fillers, target -> holder of interrupt_rx
    inProgress,   \* BlockProcessor: gaps_filling_in_progress
    isShutdown,   \* BlockProcessor: is_shutdown
    busy,         \* BlockProcessor is inside the batch at the head of results
    bp,           \* "running", or "stopped" once process() has returned
    announced,    \* blocks whose header VirtualProcessor holds
    cursor,       \* DB: LatestBlockCursor
    gaps,         \* DB: block_gaps, target -> from (NoBlock: no row)
    headers,      \* DB: block_compact_header, the blocks already processed
    daaIndex,     \* DB: daa_index, written outside the block's transaction
    used,         \* faults so far
    horizon,      \* history: highest block BlockProcessor was told of
    lost          \* history: blocks the ledger stopped tracking unprocessed

nodeVars  == <<tip, link, regTip, shuttingDown, nodeQ>>
bpVars    == <<hasFirst, lpb, gapsFillers, inProgress, isShutdown, busy, bp, announced>>
dbVars    == <<cursor, gaps, headers, daaIndex>>
histVars  == <<horizon, lost>>
vars      == <<nodeVars, notif, fillers, fresh, results, bpVars, dbVars, used, histVars>>

IdleFiller == [st |-> "none", from |-> 0, to |-> 0, intr |-> "open",
               start |-> 0, pos |-> 0]

Msg(k, n, early) == [k |-> k, n |-> n, early |-> early]

MaxOf(a, b) == IF a > b THEN a ELSE b

Rows == {to \in Blocks : gaps[to] # NoBlock}

\* The blocks a gap row still promises to fetch.
Covered == {b \in Blocks : \E to \in Rows : gaps[to] <= b /\ b <= to}

\* Mutant of CursorPos: with no cursor yet the gap starts at the sink instead of
\* at the pruning point.
CursorPosFromSink == IF cursor = NoBlock THEN tip ELSE cursor

CursorPos == IF cursor = NoBlock THEN 0 ELSE cursor

-----------------------------------------------------------------------------
Init ==
    /\ tip = 0 /\ link = "down" /\ regTip = 0 /\ shuttingDown = FALSE
    /\ nodeQ = <<>> /\ notif = <<>> /\ results = <<>>
    /\ fillers = [f \in FillerIds |-> IdleFiller]
    /\ fresh = 0
    /\ hasFirst = FALSE /\ lpb = NoBlock
    /\ gapsFillers = [b \in Blocks |-> NoFiller]
    /\ inProgress = 0 /\ isShutdown = FALSE /\ busy = FALSE
    /\ bp = "running" /\ announced = {}
    /\ cursor = NoBlock /\ gaps = [b \in Blocks |-> NoBlock] /\ headers = {}
    /\ daaIndex = {}
    /\ used = [k \in FaultKinds |-> 0]
    /\ horizon = 0 /\ lost = {}

Fault(k) == /\ used[k] < Budget[k]
            /\ used' = [used EXCEPT ![k] = @ + 1]

-----------------------------------------------------------------------------
(* The node and DataSource.                                                *)

\* External: the node adds a block and notifies it if a listener is up.
NewBlock ==
    /\ tip < MaxBlock
    /\ tip' = tip + 1
    /\ nodeQ' = IF link \in {"registering", "up"}
                  THEN Append(nodeQ, [n |-> tip + 1, early |-> FALSE])
                  ELSE nodeQ
    /\ UNCHANGED <<link, regTip, shuttingDown, notif, fillers, fresh, results,
                   bpVars, dbVars, used, histVars>>

\* handle_connect up to the registration of the listeners.
Register ==
    /\ bp = "running" /\ link = "down" /\ ~shuttingDown
    /\ link' = "registering"
    /\ regTip' = tip
    /\ UNCHANGED <<tip, shuttingDown, nodeQ, notif, fillers, fresh, results,
                   bpVars, dbVars, used, histVars>>

\* handle_connect_impl after get_block_dag_info: announce the sink, and send
\* the parked requests through the command channel again.
ConnectOk ==
    /\ bp = "running" /\ link = "registering"
    /\ link' = "up"
    /\ notif' = Append(notif, Msg("connected", tip, FALSE))
    /\ fillers' = [f \in FillerIds |->
                     IF fillers[f].st = "parked" THEN [fillers[f] EXCEPT !.st = "asked"]
                                                 ELSE fillers[f]]
    /\ UNCHANGED <<tip, regTip, shuttingDown, nodeQ, fresh, results,
                   bpVars, dbVars, used, histVars>>

\* handle_connect_impl fails after the listeners were registered; the forced
\* disconnect then reaches handle_disconnect.  What the listeners delivered
\* meanwhile stays in notification_channel.
ConnectFails ==
    /\ bp = "running" /\ link = "registering"
    /\ Fault("handshake")
    /\ link' = "down"
    /\ notif' = Append(notif, Msg("disconnected", 0, FALSE))
    /\ nodeQ' = [i \in DOMAIN nodeQ |->
                   [nodeQ[i] EXCEPT !.early = @ \/ nodeQ[i].n > regTip]]
    /\ UNCHANGED <<tip, regTip, shuttingDown, fillers, fresh, results,
                   bpVars, dbVars, histVars>>

\* External: the connection breaks; DataSource has not seen it yet.
LinkDrops ==
    /\ link = "up"
    /\ Fault("drop")
    /\ link' = "dropped"
    /\ UNCHANGED <<tip, regTip, shuttingDown, nodeQ, notif, fillers, fresh,
                   results, bpVars, dbVars, histVars>>

HandleDisconnect ==
    /\ bp = "running" /\ link = "dropped"
    /\ link' = "down"
    /\ notif' = Append(notif, Msg("disconnected", 0, FALSE))
    /\ UNCHANGED <<tip, regTip, shuttingDown, nodeQ, fillers, fresh, results,
                   bpVars, dbVars, used, histVars>>

\* DataSource is one task: while it negotiates a connection it handles nothing.
DataSourceIdle == bp = "running" /\ link # "registering"

\* Mutant of HandleNotification: the notifications are taken from the back.
HandleNotificationLifo ==
    /\ DataSourceIdle
    /\ nodeQ # <<>>
    /\ LET m == nodeQ[Len(nodeQ)] IN notif' = Append(notif, Msg("block", m.n, m.early))
    /\ nodeQ' = SubSeq(nodeQ, 1, Len(nodeQ) - 1)
    /\ UNCHANGED <<tip, link, regTip, shuttingDown, fillers, fresh, results,
                   bpVars, dbVars, used, histVars>>

\* handle_notification forwards whether or not a connection is up.
HandleNotification ==
    /\ DataSourceIdle
    /\ nodeQ # <<>>
    /\ notif' = Append(notif, Msg("block", Head(nodeQ).n, Head(nodeQ).early))
    /\ nodeQ' = Tail(nodeQ)
    /\ UNCHANGED <<tip, link, regTip, shuttingDown, fillers, fresh, results,
                   bpVars, dbVars, used, histVars>>

\* handle_shutdown; requests_queue is left as it is.
HandleShutdown ==
    /\ DataSourceIdle
    /\ ~shuttingDown
    /\ Fault("shutdown")
    /\ shuttingDown' = TRUE
    /\ link' = "down"
    /\ notif' = Append(notif, Msg("shutdown", 0, FALSE))
    /\ UNCHANGED <<tip, regTip, nodeQ, fillers, fresh, results,
                   bpVars, dbVars, histVars>>

\* MarkVccSenderClosed: the virtual chain processor ended first.
HandleVccClosed ==
    /\ DataSourceIdle
    /\ Fault("vcc")
    /\ notif' = Append(notif, Msg("shutdown", 0, FALSE))
    /\ UNCHANGED <<nodeVars, fillers, fresh, results, bpVars, dbVars, histVars>>

-----------------------------------------------------------------------------
(* A gap filler and its RequestBlocks.                                     *)

\* send_async waits for room; a filler that waits still counts as asking.
SendResult(f, kind, lo, hi) ==
    /\ Len(results) < GapCap
    /\ results' = Append(results,
         [src |-> f, kind |-> kind, to |-> fillers[f].to, lo |-> lo, hi |-> hi])

\* Top of the loop of sync(): an interrupt or a dropped sender ends it,
\* otherwise it asks for the blocks from its position on.
FillerLoop(f) ==
    /\ bp = "running"
    /\ fillers[f].st = "loop"
    /\ IF fillers[f].intr # "open"
         THEN /\ fillers' = [fillers EXCEPT ![f].st = "done"]
              /\ SendResult(f, "interrupted", 0, 0)
         ELSE /\ fillers' = [fillers EXCEPT ![f].st = "asked"]
              /\ UNCHANGED results
    /\ UNCHANGED <<nodeVars, notif, fresh, bpVars, dbVars, used, histVars>>

\* handle_command, no connection: the request waits in requests_queue.
ParkRequest(f) ==
    /\ DataSourceIdle
    /\ fillers[f].st = "asked" /\ ~shuttingDown /\ link \in {"down", "dropped"}
    /\ fillers' = [fillers EXCEPT ![f].st = "parked"]
    /\ UNCHANGED <<nodeVars, notif, fresh, results, bpVars, dbVars, used, histVars>>

\* Mutant of RefuseRequest: a request that comes during a shutdown is parked.
RefuseRequestParks(f) ==
    /\ DataSourceIdle
    /\ fillers[f].st = "asked" /\ shuttingDown
    /\ fillers' = [fillers EXCEPT ![f].st = "parked"]
    /\ UNCHANGED <<nodeVars, notif, fresh, results, bpVars, dbVars, used, histVars>>

\* handle_command while shutting down: the filler goes round its loop.
RefuseRequest(f) ==
    /\ DataSourceIdle
    /\ fillers[f].st = "asked" /\ shuttingDown
    /\ fillers' = [fillers EXCEPT ![f].st = "loop"]
    /\ UNCHANGED <<nodeVars, notif, fresh, results, bpVars, dbVars, used, histVars>>

\* GetBlocks(low_hash) answers low_hash and up to Chunk blocks after it.
Answers(f) ==
    LET lo == fillers[f].from
    IN  {hi \in lo..tip : hi <= lo + Chunk /\ (hi > lo \/ lo = tip)}

\* handle_command answers, and sync() passes the batch on: the last one if
\* the target is among the blocks.
AnswerRequest(f) ==
    /\ DataSourceIdle
    /\ fillers[f].st = "asked" /\ ~shuttingDown /\ link = "up"
    /\ \E hi \in Answers(f) :
         LET lo == fillers[f].from
             finished == lo <= fillers[f].to /\ fillers[f].to <= hi
         IN  /\ SendResult(f, IF finished THEN "finished" ELSE "update", lo, hi)
             /\ fillers' = [fillers EXCEPT ![f].st = IF finished THEN "done" ELSE "loop",
                                           ![f].from = IF finished THEN @ ELSE hi]
    /\ UNCHANGED <<nodeVars, notif, fresh, bpVars, dbVars, used, histVars>>

\* Any other RPC error ends the filler.
FailRequest(f) ==
    /\ DataSourceIdle
    /\ fillers[f].st = "asked" /\ ~shuttingDown /\ link = "up"
    /\ Fault("rpc")
    /\ fillers' = [fillers EXCEPT ![f].st = "done"]
    /\ SendResult(f, "error", 0, 0)
    /\ UNCHANGED <<nodeVars, notif, fresh, bpVars, dbVars, histVars>>

-----------------------------------------------------------------------------
(* BlockProcessor.process: one message of notif or of results at a time.   *)

Receives(k) ==
    /\ bp = "running" /\ ~busy
    /\ notif # <<>>
    /\ Head(notif).k = k
    /\ notif' = Tail(notif)

\* The test at the end of every turn of the loop.
EndTurn(shut, n) == bp' = IF shut /\ n = 0 THEN "stopped" ELSE "running"

\* insert_gap: keyed by the target, so a row with that target is replaced.
InsertGap(from, to) == gaps' = [gaps EXCEPT ![to] = from]

\* What replacing the row gives up.
Replaced(from, to) ==
    IF gaps[to] = NoBlock THEN {}
    ELSE {b \in Blocks : gaps[to] <= b /\ b < from /\ b <= to} \ headers

\* start and pos are history: where the filler began, and the block before
\* which everything from there on is committed.
NewFiller(from, to, intr) ==
    [st |-> "loop", from |-> from, to |-> to, intr |-> intr,
     start |-> from, pos |-> from]

\* handle_first_connect and the spawning of one filler per gap.  Two gaps with
\* one target leave one entry in the map: the first sender is dropped.
FirstConnect ==
    /\ Receives("connected")
    /\ ~hasFirst
    /\ LET sink  == Head(notif).n
           isNew == cursor # sink
           id    == MaxBlock + 1 + fresh
       IN  /\ isNew => fresh < MaxFresh
           /\ hasFirst' = TRUE
           /\ IF isNew
                THEN /\ InsertGap(CursorPos, sink)
                     /\ lost' = lost \cup Replaced(CursorPos, sink)
                     /\ fresh' = fresh + 1
                ELSE UNCHANGED <<gaps, lost, fresh>>
           /\ fillers' = [f \in FillerIds |->
                IF isNew /\ f = id THEN NewFiller(CursorPos, sink, "open")
                ELSE IF f \in Rows
                       THEN NewFiller(gaps[f], f, IF isNew /\ f = sink THEN "closed" ELSE "open")
                       ELSE fillers[f]]
           /\ gapsFillers' = [to \in Blocks |->
                IF isNew /\ to = sink THEN id ELSE IF to \in Rows THEN to ELSE NoFiller]
           /\ inProgress' = Cardinality(Rows \cup (IF isNew THEN {sink} ELSE {}))
           /\ horizon' = MaxOf(horizon, sink)
    /\ EndTurn(isShutdown, inProgress')
    /\ UNCHANGED <<nodeVars, results, lpb, isShutdown, busy, announced,
                   cursor, headers, daaIndex, used>>

\* Dropping the interrupt sender stored under a target closes its receiver.
Dropped(to) ==
    [f \in FillerIds |->
       IF f = gapsFillers[to] /\ fillers[f].intr = "open"
         THEN [fillers[f] EXCEPT !.intr = "closed"] ELSE fillers[f]]

\* A later Connected with a real-time block since the previous one.
Reconnect ==
    /\ Receives("connected")
    /\ hasFirst /\ lpb # NoBlock
    /\ fresh < MaxFresh
    /\ LET sink == Head(notif).n
           id   == MaxBlock + 1 + fresh
       IN  /\ InsertGap(lpb, sink)
           /\ lost' = lost \cup Replaced(lpb, sink)
           /\ fillers' = [Dropped(sink) EXCEPT ![id] = NewFiller(lpb, sink, "open")]
           /\ gapsFillers' = [gapsFillers EXCEPT ![sink] = id]
           /\ horizon' = MaxOf(horizon, sink)
    /\ fresh' = fresh + 1
    /\ lpb' = NoBlock
    /\ inProgress' = (inProgress + 1) % UsizeMod
    /\ EndTurn(isShutdown, inProgress')
    /\ UNCHANGED <<nodeVars, results, hasFirst, isShutdown, busy, announced,
                   cursor, headers, daaIndex, used>>

\* A later Connected without one: nothing is done.
BlindReconnect ==
    /\ Receives("connected")
    /\ hasFirst /\ lpb = NoBlock
    /\ horizon' = MaxOf(horizon, Head(notif).n)
    /\ lost' = lost \cup ((horizon + 1)..Head(notif).n)
    /\ EndTurn(isShutdown, inProgress)
    /\ UNCHANGED <<nodeVars, fillers, fresh, results, hasFirst, lpb, gapsFillers,
                   inProgress, isShutdown, busy, announced, dbVars, used>>

InterruptAll ==
    /\ fillers' = [f \in FillerIds |->
                     IF \E to \in Blocks : gapsFillers[to] = f
                       THEN [fillers[f] EXCEPT !.intr = "sent"] ELSE fillers[f]]
    /\ gapsFillers' = [to \in Blocks |-> NoFiller]

Disconnected ==
    /\ Receives("disconnected")
    /\ InterruptAll
    /\ EndTurn(isShutdown, inProgress)
    /\ UNCHANGED <<nodeVars, fresh, results, hasFirst, lpb, inProgress, isShutdown,
                   busy, announced, dbVars, used, histVars>>

Shutdown ==
    /\ Receives("shutdown")
    /\ InterruptAll
    /\ isShutdown' = TRUE
    /\ EndTurn(TRUE, inProgress)
    /\ UNCHANGED <<nodeVars, fresh, results, hasFirst, lpb, inProgress,
                   busy, announced, dbVars, used, histVars>>

\* Mutant of ProcessBlock: a block behind the cursor is not passed on.
ProcessBlockAhead(b) ==
    /\ daaIndex' = daaIndex \cup {b}
    /\ headers' = headers \cup {b}
    /\ announced' = IF isShutdown \/ b <= CursorPos THEN announced ELSE announced \cup {b}

\* handle_block enters the block in the DAA index at once and commits its
\* header with its content; the header then goes to VirtualProcessor unless a
\* shutdown was received.
ProcessBlock(b) ==
    /\ daaIndex' = daaIndex \cup {b}
    /\ headers' = headers \cup {b}
    /\ announced' = IF isShutdown THEN announced ELSE announced \cup {b}

\* Real-time block: content and cursor in one transaction.
BlockNotification ==
    /\ Receives("block")
    /\ LET b == Head(notif).n
       IN  /\ ProcessBlock(b)
           /\ cursor' = b
           /\ lpb' = b
           /\ horizon' = MaxOf(horizon, b)
           /\ lost' = IF Head(notif).early THEN lost \cup ((horizon + 1)..(b - 1)) ELSE lost
    /\ EndTurn(isShutdown, inProgress)
    /\ UNCHANGED <<nodeVars, fillers, fresh, results, hasFirst, gapsFillers,
                   inProgress, isShutdown, busy, gaps, used>>

\* Mutants of FillerEnds: the filler stays counted; the count is not a usize.
FillerEndsUncounted(to) ==
    /\ fillers' = Dropped(to)
    /\ gapsFillers' = [gapsFillers EXCEPT ![to] = NoFiller]
    /\ UNCHANGED inProgress
FillerEndsSigned(to) ==
    /\ fillers' = Dropped(to)
    /\ gapsFillers' = [gapsFillers EXCEPT ![to] = NoFiller]
    /\ inProgress' = inProgress - 1

\* The end of a filler: forget its interrupt sender, one filler fewer.
FillerEnds(to) ==
    /\ fillers' = Dropped(to)
    /\ gapsFillers' = [gapsFillers EXCEPT ![to] = NoFiller]
    /\ inProgress' = (inProgress - 1) % UsizeMod

\* Interrupted or Error: the row stays.
GapAborted ==
    /\ bp = "running" /\ ~busy
    /\ results # <<>> /\ Head(results).kind \in {"interrupted", "error"}
    /\ FillerEnds(Head(results).to)
    /\ results' = Tail(results)
    /\ EndTurn(isShutdown, inProgress')
    /\ UNCHANGED <<nodeVars, notif, fresh, hasFirst, lpb, isShutdown, busy,
                   announced, dbVars, used, histVars>>

\* Mutants of RemovesRow: the row goes with the first block of the last batch;
\* it goes only if the target is the last block of the batch.
RemovesRowFirst(r) == r.kind = "finished"
RemovesRowAtTarget(r) == r.kind = "finished" /\ r.lo = r.hi /\ r.lo = r.to

\* The block of a batch whose transaction removes the row.
RemovesRow(r) == r.kind = "finished" /\ r.lo = r.hi

\* One block of an Update or Finished batch and the row's new state, in one
\* transaction; lo is the next block of the batch.
GapBlock ==
    /\ bp = "running"
    /\ results # <<>> /\ Head(results).kind \in {"update", "finished"}
    /\ LET r    == Head(results)
           last == r.lo = r.hi
           end  == RemovesRow(r)
           moved == [fillers EXCEPT ![r.src].pos = MaxOf(@, r.lo + 1)]
       IN  /\ ProcessBlock(r.lo)
           /\ gaps' = [gaps EXCEPT ![r.to] = IF end THEN NoBlock ELSE r.lo]
           /\ results' = IF last THEN Tail(results)
                         ELSE [results EXCEPT ![1].lo = @ + 1]
           /\ busy' = ~last
           /\ IF end
                THEN /\ gapsFillers' = [gapsFillers EXCEPT ![r.to] = NoFiller]
                     /\ inProgress' = (inProgress - 1) % UsizeMod
                     /\ fillers' = [f \in FillerIds |->
                          [moved[f] EXCEPT !.intr = Dropped(r.to)[f].intr]]
                ELSE /\ fillers' = moved
                     /\ UNCHANGED <<gapsFillers, inProgress>>
           /\ IF last THEN EndTurn(isShutdown, inProgress') ELSE UNCHANGED bp
    /\ UNCHANGED <<nodeVars, notif, fresh, hasFirst, lpb, isShutdown,
                   cursor, used, histVars>>

-----------------------------------------------------------------------------
(* The process ends, at any point or after a shutdown, and is started      *)
(* again: only the database is left.  VirtualProcessor loads the DAA index.*)

\* The block whose transaction may be open when the process ends.
InHand ==
    (IF ~busy /\ notif # <<>> /\ Head(notif).k = "block" THEN {Head(notif).n} ELSE {})
      \cup (IF results # <<>> /\ Head(results).kind \in {"update", "finished"}
              THEN {Head(results).lo} ELSE {})

Restart ==
    /\ Fault("crash")
    /\ \/ daaIndex' = daaIndex
       \/ \E b \in InHand : bp = "running" /\ daaIndex' = daaIndex \cup {b}
    /\ link' = "down" /\ regTip' = tip /\ shuttingDown' = FALSE
    /\ nodeQ' = <<>> /\ notif' = <<>> /\ results' = <<>>
    /\ fillers' = [f \in FillerIds |-> IdleFiller]
    /\ fresh' = 0
    /\ hasFirst' = FALSE /\ lpb' = NoBlock
    /\ gapsFillers' = [b \in Blocks |-> NoFiller]
    /\ inProgress' = 0 /\ isShutdown' = FALSE /\ busy' = FALSE
    /\ bp' = "running" /\ announced' = daaIndex'
    /\ UNCHANGED <<tip, cursor, gaps, headers, histVars>>

-----------------------------------------------------------------------------
DataSourceNext == \/ Register \/ ConnectOk \/ ConnectFails \/ HandleDisconnect
                  \/ HandleNotification \/ HandleShutdown \/ HandleVccClosed
FillerNext == \E f \in FillerIds : \/ FillerLoop(f) \/ ParkRequest(f) \/ RefuseRequest(f)
                                   \/ AnswerRequest(f) \/ FailRequest(f)
TakeNotification == \/ FirstConnect \/ Reconnect \/ BlindReconnect \/ Disconnected
                    \/ Shutdown \/ BlockNotification
TakeResult == GapAborted \/ GapBlock

Next == NewBlock \/ LinkDrops \/ Restart \/ DataSourceNext \/ FillerNext
        \/ TakeNotification \/ TakeResult

Spec == Init /\ [][Next]_vars

(* The actors keep running: DataSource finishes a negotiation and works    *)
(* off its channels, and the runtime polls every filler.  select_input is  *)
(* a flume Selector, which starts at a random channel: neither channel     *)
(* starves the other, so taking a notification is strongly fair (a batch   *)
(* disables it).  Faults and the shutdown signal are never forced.         *)
Fairness ==
    /\ WF_vars(Register) /\ WF_vars(ConnectOk) /\ WF_vars(HandleDisconnect)
    /\ WF_vars(HandleNotification)
    /\ \A f \in FillerIds :
         WF_vars(FillerLoop(f) \/ ParkRequest(f) \/ RefuseRequest(f) \/ AnswerRequest(f))
    /\ SF_vars(TakeNotification) /\ WF_vars(TakeResult)

FairSpec == Spec /\ Fairness

-----------------------------------------------------------------------------
(* Properties.                                                             *)

NodeMsgs   == [n : Blocks, early : BOOLEAN]
NotifMsgs  == [k : {"connected", "disconnected", "block", "shutdown"},
               n : Blocks, early : BOOLEAN]
Tasks      == [st : {"none", "loop", "asked", "parked", "done"},
               from : Blocks, to : Blocks, intr : {"open", "sent", "closed"},
               start : Nat, pos : Nat]
GapResults == {r \in [src : FillerIds, to : Blocks, lo : Blocks, hi : Blocks,
                      kind : {"update", "finished", "interrupted", "error"}] : r.lo <= r.hi}

\* The types of the states: gaps_filling_in_progress stays a usize, no batch is
\* empty and no position leaves the chain.
TypeOK ==
    /\ tip \in Blocks /\ regTip \in Blocks
    /\ link \in {"down", "registering", "up", "dropped"}
    /\ shuttingDown \in BOOLEAN
    /\ nodeQ \in Seq(NodeMsgs)
    /\ notif \in Seq(NotifMsgs)
    /\ fillers \in [FillerIds -> Tasks]
    /\ fresh \in 0..MaxFresh
    /\ results \in Seq(GapResults)
    /\ hasFirst \in BOOLEAN /\ lpb \in Blocks \cup {NoBlock}
    /\ gapsFillers \in [Blocks -> FillerIds \cup {NoFiller}]
    /\ inProgress \in 0..(UsizeMod - 1)
    /\ isShutdown \in BOOLEAN /\ busy \in BOOLEAN /\ bp \in {"running", "stopped"}
    /\ announced \subseteq Blocks
    /\ cursor \in Blocks \cup {NoBlock}
    /\ gaps \in [Blocks -> Blocks \cup {NoBlock}]
    /\ headers \subseteq Blocks /\ daaIndex \subseteq Blocks
    /\ used \in [FaultKinds -> Nat]
    /\ horizon \in Blocks /\ lost \subseteq Blocks

\* Every block the processor was told of is processed or promised by a gap row,
\* except for the blocks given up by one of three events: a reconnect
\* with no real-time block since the last one (BlindReconnect), a gap row
\* replaced by one with the same target (Replaced), and a real-time block of a
\* connection whose negotiation failed (early).
Accounted == \A b \in 1..horizon : b \in headers \cup Covered \cup lost

\* LatestBlockCursor never moves back, over reconnects and restarts.
CursorMonotone == [][cursor' >= cursor]_vars

\* Until a shutdown VirtualProcessor holds the header of every processed block.
HandoverComplete == ~isShutdown => headers \subseteq announced

\* The results that end a filler.
Ended == {i \in DOMAIN results : results[i].kind # "update"}

LiveFillers == {f \in FillerIds : fillers[f].st \in {"loop", "asked", "parked"}}
                 \cup {results[i].src : i \in Ended}

\* gaps_filling_in_progress counts the fillers whose end is still to come, so that
\* process() returns neither before the last of them nor never.  Except after a
\* restart, where a new gap with the target of a persisted one is counted once.
InProgressCounts == used["crash"] = 0 => inProgress = Cardinality(LiveFillers)

Stopping == shuttingDown \/ isShutdown

\* After a shutdown message the processor returns.
ShutdownCompletes == isShutdown ~> bp = "stopped"

\* Every block the node adds is processed, unless a shutdown comes first.
EventuallyIndexed == \A b \in 1..MaxBlock : (tip >= b) ~> (b \in headers \/ Stopping)

\* A gap row, once written, is closed again, unless a shutdown comes first.
GapsClose == (Rows # {}) ~> (Rows = {} \/ Stopping)

-----------------------------------------------------------------------------
(* The inductive invariant behind Accounted and CursorMonotone.            *)

Ok(b) == b \in headers \cup lost

\* A row that is gone counts as advanced past its target.
RowFrom(to) == IF gaps[to] = NoBlock THEN to + 1 ELSE gaps[to]

Spawned(f) == fillers[f].st # "none"

\* Blocks travel in the order of the node, all of them new to the cursor.
Ordered ==
    /\ CursorPos <= tip
    /\ \A i \in DOMAIN notif : notif[i].n <= tip
    /\ \A i \in DOMAIN nodeQ : nodeQ[i].n <= tip
    /\ \A i \in DOMAIN nodeQ : CursorPos < nodeQ[i].n
    /\ \A i \in DOMAIN notif : notif[i].k = "block" => CursorPos < notif[i].n
    /\ \A i, j \in DOMAIN nodeQ : i < j => nodeQ[i].n < nodeQ[j].n
    /\ \A i, j \in DOMAIN notif :
         i < j /\ notif[i].k = "block" /\ notif[j].k = "block" => notif[i].n < notif[j].n
    /\ \A i \in DOMAIN notif, j \in DOMAIN nodeQ :
         notif[i].k = "block" => notif[i].n < nodeQ[j].n

\* No position runs ahead of the node; last_processed_block is the cursor.
Positions ==
    /\ CursorPos <= horizon /\ horizon <= tip /\ regTip <= tip
    /\ lpb # NoBlock => lpb = cursor
    /\ \A i \in DOMAIN notif : notif[i].k \in {"disconnected", "shutdown"} => notif[i].n = 0

\* A notified block that does not come early follows on what precedes it.
Contiguous ==
    /\ \A i \in DOMAIN notif :
         notif[i].k = "block" /\ ~notif[i].early =>
           \/ notif[i].n - 1 <= horizon
           \/ \E j \in DOMAIN notif : j < i /\ notif[i].n - 1 <= notif[j].n
    /\ \A i \in DOMAIN nodeQ : ~nodeQ[i].early =>
           \/ link = "registering" /\ nodeQ[i].n > regTip
           \/ nodeQ[i].n - 1 <= horizon
           \/ \E j \in DOMAIN notif : nodeQ[i].n - 1 <= notif[j].n
           \/ \E j \in DOMAIN nodeQ : j < i /\ nodeQ[i].n - 1 <= nodeQ[j].n
    /\ link = "up" =>
           \/ tip <= horizon
           \/ \E j \in DOMAIN notif : tip <= notif[j].n
           \/ \E j \in DOMAIN nodeQ : tip <= nodeQ[j].n

\* Before the first Connected there is no filler, and serial numbers are fresh.
Fillers ==
    /\ ~hasFirst => /\ results = <<>>
                    /\ \A f \in FillerIds : ~Spawned(f)
    /\ \A f \in FillerIds : f > MaxBlock + fresh => ~Spawned(f)
    /\ \A f \in FillerIds : Spawned(f) =>
         /\ fillers[f].start <= fillers[f].from
         /\ \/ fillers[f].from <= fillers[f].pos
            \/ \E j \in DOMAIN results : /\ results[j].src = f
                                          /\ results[j].kind = "update"
                                          /\ fillers[f].from <= results[j].hi

\* The batches of one filler follow on each other and on its position.
Batches ==
    \A i \in DOMAIN results :
      LET r == results[i]
      IN  /\ Spawned(r.src) /\ r.to = fillers[r.src].to
          /\ r.kind \in {"update", "finished"} =>
               /\ fillers[r.src].start <= r.lo
               /\ \/ r.lo <= fillers[r.src].pos
                  \/ \E j \in DOMAIN results :
                       /\ j < i /\ results[j].src = r.src
                       /\ results[j].kind = "update" /\ r.lo <= results[j].hi
          /\ r.kind = "finished" => r.to <= r.hi

\* A filler has committed what lies between its start and its position, and
\* nothing is owed between its start and its row, whichever is the lower.
Streams ==
    \A f \in FillerIds : Spawned(f) => \A b \in 1..MaxBlock :
      /\ fillers[f].start <= b /\ b < fillers[f].pos => Ok(b)
      /\ b <= fillers[f].to /\ fillers[f].start <= b /\ b < RowFrom(fillers[f].to) => Ok(b)
      /\ b <= fillers[f].to /\ RowFrom(fillers[f].to) <= b /\ b < fillers[f].start => Ok(b)

\* Nothing is owed between the cursor and a row ahead of it.
RowsAhead ==
    \A to \in Blocks :
      gaps[to] # NoBlock \/ (\E f \in FillerIds : Spawned(f) /\ fillers[f].to = to) =>
        \A b \in 1..MaxBlock : b <= to /\ CursorPos <= b /\ b < RowFrom(to) => Ok(b)

\* A restart hands over the DAA index.
Handover == headers \subseteq daaIndex /\ HandoverComplete

IndInv == /\ TypeOK /\ Ordered /\ Positions /\ Contiguous /\ Fillers /\ Batches
          /\ Streams /\ RowsAhead /\ Accounted
          /\ Handover

\* Until a restart: no filler, result or row precedes the first Connected, a
\* serial number is free until its gap is made, and a filler sends one end, after
\* which it does nothing.
Counted ==
    /\ ~hasFirst => results = <<>> /\ Rows = {} /\ \A f \in FillerIds : ~Spawned(f)
    /\ \A f \in FillerIds : f > MaxBlock + fresh => ~Spawned(f)
    /\ \A i \in Ended : /\ fillers[results[i].src].st = "done"
                        /\ \A j \in Ended : results[j].src = results[i].src => j = i
    /\ inProgress = Cardinality(LiveFillers)

CountInv == TypeOK /\ (used["crash"] = 0 => Counted)
=============================================================================
