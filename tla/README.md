# Verification of the KaChat indexer

TLA+ specifications of the KaChat indexer, TLC configurations that check them on small
instances, and TLAPS proofs of the properties that matter most for every instance.
`PROJECT.json` lists the components, the runs, the lines every definition models, the
hazards, the findings and the theorems.

Run a configuration with `tlc -config BlockIngest_faults.cfg MCBlockIngest`, check proofs
with `tlapm BlockIngest_proofs.tla`.

## 1. The system

The repository holds several Rust programs around a Kaspa node.

| Part | State | Operations | Hard behaviour |
|---|---|---|---|
| **kasia-indexer** | a fjall database: block headers, DAA index, gap rows, cursors, accepting blocks, acceptance rows, pending senders, messages, group bindings, push registrations | actors joined by channels (below); HTTP API; push dispatcher | reconnects, gaps, reorganisations, restarts, deferred senders |
| **push service** of kasia-indexer | device rows with three reverse indexes; caches, nonces, sent keys and rates in memory | register, update, unregister; match, filter, route, send | requests replayed or overtaken, steps between awaits, restarts that forget |
| **kachat-names** | the names registry: gaps, names, offers and price shards by outpoint, an undo journal | `apply`, `undo_block`, `prune_journal` | exact undo, split and merge of gaps |
| **kachat-names-follower** | Postgres: registry, journal, checkpoint, history, profiles | fetch a batch, undo, apply, persist, self-test, bootstrap | crash between steps, reorganisation below the journal, a pruned checkpoint |
| **kachat-transaction-processor** | Postgres: posts, votes, polls, follows, blocks, profiles, broadcasts, tips, a durable retry queue | LISTEN/NOTIFY, worker pool, retries, reindex, startup sweep | workers that race, lost or repeated notifications, replays |
| **kachat-webserver** | Postgres, scheduled posts, chess games, rate limits | paged queries, scheduled sends, chess rules | pages over rows that change, claim and retry of scheduled work |
| **kachat-admin** | settings and processes | an operator's panel | |

### The actors of kasia-indexer

```
              commands                 BlockAdded / VirtualChainChanged
 Gap fillers ----------> DataSource <------------------------------------ node
 Syncer      ---------->     |  |
      ^                      |  +--- Connected, Disconnected, blocks ---> BlockProcessor
      |  ack                 |                                              |   ^ batches
      |                      +--- Connected, Disconnected, changes,         |   Gap fillers
 VirtualProcessor <------------- sender answers                             |
      ^       |                                                             |
      |       +--- push events ---> push dispatcher <--- push events -------+
      |                                  | questions ^
      |                                  v           | signed requests of the phones
      |                             PushRegistry <---+
      +----------------------- headers of processed blocks -----------------+
```

* **DataSource** owns the connection. It registers its listeners, then negotiates; it
  forwards notifications, answers the requests of the other actors with RPCs, parks requests
  while disconnected and refuses them while shutting down.
* **BlockProcessor** stores every block and its messages, with a cursor of the last real-time
  block. What it missed is a *gap*, a persisted row `target -> from`, filled by a
  **BlockGapFiller** task in batches. It hands each header to VirtualProcessor.
* **VirtualProcessor** follows the selected chain: a **VirtualChainSyncer** task fetches it
  from the saved cursor to the sink, then real-time changes take over. A change can only be
  applied once the headers of its blocks have come from BlockProcessor; until then it waits
  in a queue.
* **Acceptance**: a message whose sender is not known from an indexed parent is stored with
  deferred entries; when a chain block accepts its transaction the sender is asked of the
  node and a pending row is kept until the answer has been applied.
* **Push**: one registry actor runs one command at a time; the dispatcher asks it which
  devices an event concerns, filters and routes them, and asks again between its awaits.

### The other programs

```
 node --> ingester --> transactions --NOTIFY--> queue --> workers --> Postgres tables
   |                                              ^          |             ^
   |                       reindex, recovered ----+          +-> pending   | read
   |                                                     Retrier <-+       |
   +--> names follower: registry, journal, checkpoint, history     web server, scheduler
   +--> profiles task: profiles, saves, checkpoint
```

The web server reads what the workers and the follower write and shares no other state with
them; its scheduler sends the posts that their owners signed in advance.

What makes each part correct:

* ingestion: no block is lost over any order of drops, failures and restarts; the cursor
  never moves back; every processed header is handed over; every gap is closed; a shutdown ends;
* virtual chain: the index holds exactly the accepting blocks of the node's chain, whatever
  reorganisations happened, and processor and syncer never wait for each other;
* acceptance: a sender, once stored, is the true one; a message waiting for its sender is
  tracked until it gets it; one sender per group;
* push: the indexes and caches say what the rows say; a signed request works once and in the
  order of its counter; nobody is told twice, and everybody reachable is told;
* names and profiles: registry and tables are those of the followed chain, through undo, crash,
  rewind and bootstrap, and the follower ends at the node's sink;
* transaction processor: the order of the chain decides, not the order of the workers; a
  replay changes nothing; nothing recovered is forgotten; every queue drains;
* web: a walk over the pages shows every row once; the numbers agree with the lists;
* scheduled posts: sent when due and not before, once, and settled in the end.

## 2. Modules

| Module | Models | State | Actions |
|---|---|---|---|
| `BlockIngest` | BlockProcessor, BlockGapFiller, the block half of DataSource | connection, both channels, filler tasks with the place of their request, `process()`'s locals, cursor, gap rows, headers, DAA index | one per arm of `process`, of `sync` and of `task`/`handle_command`; node, drop, crash |
| `VirtualChain` | VirtualProcessor, VirtualChainSyncer, the chain half of DataSource | sync state, queues, ring of processed headers, syncers with their ack channel, cursor, accepting blocks | one per arm of `process`, of the syncer and of DataSource; node, pruning, drop, crash |
| `Acceptance` | `handle_transaction`, `handle_vcc_addition`/`_removal`, `handle_sender_address`, RequestSender | acceptance rows with their entries, output-0 owners, messages, bindings, pending senders, accepting blocks, requests and answers in flight | HandleBlock, VirtualChainChange, SenderResolution, AnswerSender, RefuseSender, Restart |
| `PushRegistry` | `PushRegistry` of push.rs | device rows, the address, group and primary indexes, filter caches, the block processor's gate | Register, Update, Unregister, Discard, SetEnv, LookUp, Reload |
| `PushService` | the push API, the registry's queue, the dispatcher, the watched outputs of BlockProcessor | nonces, requests in flight, command queue, four event queues, the job in hand with its place, sent keys, strikes, rates | Challenge, Arrive, ServePhone, Emit, FundsSeen, Take, Answer..., Send, Forget, Crash |
| `NamesRegistry` | `apply`, `undo_block`, `prune_journal` and the transitions, as operators on [utxos, journal] | none | |
| `NamesNode` | a node whose blocks carry valid registry transactions; `blocks[b].utxos` is the ledger each block leaves | the blocks, the sink, the pruning floor | NewBlock |
| `NamesFollower` | the loop of kachat-names-follower, its commits, rewind, self-test, REST bootstrap | place of the loop, registry, checkpoint, flags, walk, tables | Start, Rewind, Follow, Push, BootStart, WalkRound, WalkStops, WalkDone, Crash, Pruning, SwitchNode |
| `ProfilesFollower` | the profiles task over the same node | newest records, undo journal, anchor, tables | StartProfiles, FollowProfiles, FetchFails, ReAnchor, CrashProfiles, SwitchProfilesNode |
| `KStore` | the SQL statements of k_protocol.rs as operators on the tables | none | |
| `KPosts` | every handler of k_protocol.rs, one step per statement | tables, denylist in memory, what each worker does, pushes | Entry, SignatureIsFresh, Save, DropIfDeleted, Erase, CommitVote, EditContent, SaveFollow, PurgeTarget, ..., about forty |
| `KPending` | broadcasts and tips: the question to the node, parking, the retry loop, the startup sweep | raw and recovered rows, pending rows, node, clock | RouteBroadcast, TipGates, Resolve, GiveUp, StoreBroadcast, StoreTip, TakePending, ... |
| `KPipeline` | trigger and LISTEN, the round-robin queue, workers, startup catch-up, reindex | inboxes, startup tasks, the walk, its status rows | Ingest, Listen, Fetch, StatementFails, Crash, Start, CatchUp, Requeue, BeginWalk, WalkStores, ... |
| `Feed`, `FeedContents`, `FeedPeople` | the queries of the web server: rows, order, cursor, page and flags, as operators on the tables | none | |
| `WebApi` | api_handlers.rs: validation, the query, the answer, threads | none | |
| `WebServer` | routes, rate limit and its pruner; a client that follows the cursors while the tables change | tables, clock, limiter, request in hand, the client's walk | one per route, QueryFails, Complete, ThreadLookup, Write, Tick, PruneLimits |
| `PostQueue` | abstract: what a queue of posts signed in advance promises | promises, held, sent, stray posts, time | Accept, Withdraw, Hold, Send, Confirm, Fail, Release, Forget, Pass |
| `Scheduled` | scheduled.rs: the requests of the owners beside the scheduler's tick | rows, calls, tick, coins, the clock | SchedulePost, ScheduleAsksNode, ScheduleInserts, CancelScheduledPost, Select, CheckCoins, Relay, LeaveWaiting, Mark, Prune, CrashScheduler |
| `..._proofs`, `KPipeline_delivery` | proofs about the module they extend | | |
| `MC...` | the instances for TLC | | |

How they are composed. `NamesFollower` and `ProfilesFollower` run over one `NamesNode`.
`KPipeline` extends `KPending`, which extends `KPosts`: a worker carries out a handler step by step
while other workers, the retry loop, the reindex and faults take theirs. `PushService` runs the
commands of `PushRegistry` for phones and dispatcher alike. `WebServer` serves
`WebApi` over the `Feed` modules. `Scheduled` implements `PostQueue` under the mapping
`Queue` (its `PromiseKept` is the abstract specification, liveness included).

The specifications of the indexer's core share no variables. `BlockIngest` promises VirtualProcessor the
headers (`HandoverComplete`); `VirtualChain` takes the arrival of a header as the input
`ProcessedBlock(b)`, in any order, and leaves out what a chain block accepts; `Acceptance`
takes a change of the accepting blocks as one step and adds what it accepts; `PushService` takes
the events that both processors emit as inputs.

### Abstractions

* **Blocks.** In `BlockIngest` blocks are numbered in the order in which the node adds and
  returns them: GetBlocks answers in that order and the order is all the gap logic uses. In
  `VirtualChain` they are numbered by blue work and `Chain[b]` is the selected chain of b, any
  tree; a change is the difference of two chains. In `Acceptance` chain blocks are a set.
* **Transactions and commits.** A write transaction is one step; the commit conflict that
  fjall detects only repeats it. `daa_index.insert` and `insert_gap`, which the code writes
  outside the transaction, are visible apart from it. In Postgres a step is one statement, or
  the part of a database transaction up to its next statement.
* **Channels.** The notification channels are unbounded, the result channel of the gap fillers,
  the syncer channel and the ack channel have their capacity. The command channel is a set of
  outstanding requests, answered in any order. The push queues and the registry's command queue
  have their capacity.
* **Answers.** An RPC and the sending of its result are one step of DataSource. The biased
  select of DataSource is over-approximated by any order; `select_input` of the processors is
  any order in the code too.
* **Faults**, each bounded by `Budgets` or the behaviour's plan: `drop` (the connection breaks),
  `handshake` (the negotiation fails), `rpc` (a request fails for another reason), `crash` (the
  process is started again on its database, at any point, also between the DAA entry and the
  commit), `shutdown` (a signal), `vcc`/`block` (the other actor ends and DataSource is told),
  `prune`, and in the other programs failed statements, failed fetches, lost notifications.
* **Acceptance.** The seven message kinds are one: a message row per transaction and block
  that carries its sender, and a deferred entry. Every transaction carries an operation that
  the index stores (the personal-mode filter of `handle_transaction` is left out), outputs pay
  standard addresses, a block holds at most one of the transactions. Requests and answers are
  sets. The node's chain is the processor's: a node that is ahead shows as the fault `rpc`.
  `LocalSender` finds every parent indexed before. The code's lookup reads the committed state, so it misses a
  parent written in the same write transaction and asks the node instead: the model's case of a parent that is not
  indexed.
* **Push.** Texts, encryption, Android channel ids and the limit of 512 devices per event are
  left out, and so is the pruning of watched outpoints. The rate limit of calls is a refusal at
  any time. The capability cache is left out; a hydration caches all watchers it looks at.
* **Names.** A script is the state it commits to. Transactions are those that the contracts allow
  (`NewTxs`), so the ledger of a block is determined without the follower's code. `--min-confirmations` (10 in
  the code) is `plan.confirm`: a fetch leaves the newest blocks of the added chain out and never a removed one
  (`Confirmed`, `node.rs:67`); depth stands for blue score, and since scores may jump and the window after a
  timeout trims too, an answer carries any number of the confirmed blocks, none included. The
  resolver's next node knows the same blocks, pruned or not, and may have an older or another sink
  (`OtherNode`); one that lacks the header of the checkpoint altogether is not modelled (the code takes
  it for pruned).
* **KaPosts.** A key is `<<x, parity>>`, since several statements compare only x. Texts are "fine",
  "bad" or opaque; hashtags, the legacy prefixes and message decoding are left out. Each behaviour
  follows one *plan*, a handful of transactions and faults that meet in one part of the tables. A payload
  that has the prefix in its bytes and is no UTF-8 text is the text "garbled" (`Readable`).
* **Web.** A row is its keys, its time and what the queries filter by; texts are numbers to search
  for. One client, one endpoint and at most five writes per behaviour.

### History variables

`BlockIngest`: `horizon` is the highest block the processor was told of, by a Connected or by
a block; `lost` collects the blocks that the code stops tracking without processing them, at
three places only: a reconnect with no real-time block since the last one (`BlindReconnect`),
a gap row overwritten by one with the same target, a real-time block of a connection whose
negotiation failed. `VirtualChain`: `strayed` is set when a change is forwarded after its
connection ended, and by a disconnect or a restart in the middle of the replay of changes the
syncer had already applied. `Acceptance`: `late` collects the transactions seen in a block
after a chain block had accepted them. `NamesFollower`: `at`, the block whose
registry the memory should hold (the checkpoint, or the fork below it when a batch only removed), and
`astray`; `ProfilesFollower`: `upto`, the same for the profiles, and `unsure`;
`KPosts`: `raced` (what two workers changed at once, what the gate turned away, edits older than the row
they are about), `cut` (interrupted handlers), `torn` (content interrupted after its save), `owed` (authors
whose last purge was interrupted), `half` (edits, follows and blocks interrupted at the rows they change and
not processed since), `missed` (recovered rows given up since the last start because a statement failed),
`unwritten` (the last write of the reindex status failed). The properties with these exceptions say that nothing
else leads there; section 4 lists the exceptions. `WebServer`: `kept` and `ever` are the rows wanted
all the time and at some time since the walk began. `PushService`: `served` and `pushed` record
which requests took effect and whom a push reached.

## 3. Passing runs

| Run | Bounds | Shows |
|---|---|---|
| `ingest_faults` | 2 blocks, batches of 2, one of each of drop, handshake, rpc, crash | `Accounted`: every block up to the horizon is processed, promised by a gap row, or in `lost`; `CursorMonotone`; `HandoverComplete`; `TypeOK` |
| `ingest_live` | fairness, 2 blocks, batches of 1, both shutdown paths | `EventuallyIndexed`, `GapsClose`, `ShutdownCompletes`, `InProgressCounts`: the counter that decides when `process()` may return |
| `chain_faults` | 3 blocks, two reorganisations; a drop and a crash, or a failed negotiation, a failed RPC and the end of the block processor, or a failed RPC and a restart with a pruned cursor | `ChainExact`: the accepting blocks are the chain of the cursor while syncing and the node's chain once caught up, with the self-heal of `spawn_syncer`; `SyncerInStep`: exactly one thing is under way between processor and syncer; `NoPanic`: no unwrap, assert or unreachable is hit; `TypeOK` |
| `chain_live` | fairness, 2 blocks, a drop, an rpc error, a shutdown | `EventuallySynced`; `ShutdownCompletes` |
| `accept_faults` | fairness, 3 chained transactions in 7 blocks, 3 chain blocks of which two compete at one DAA score, 2 changes, rpc, crash | `SenderTrue`, `GroupHasOneSender`, `OpenIsPending`, `SenderArrives` |
| `push_devices` | fairness, 6 plans, 2 devices, 2 addresses, 1 group, 2 aliases; limits of 2 | `ReadsTrue`: indexes, caches and gate say what the rows say; `RequestsHold`: a signed request works once and, while one key signs, in the order of its counter; `PushedOnce`; `Heard`: a reachable device that wants an event hears of it, through every await, move of host and restart that forgets nothing it needs |
| `names_follow` | fairness, 10 plans of up to 4 blocks and 3 transactions, up to 2 in a block, keys 1 and 2 between 0 and 3, no or one confirmation, a crash, a pruning, up to two changes of node; a journal of 1 entry, of 2 for the profiles | `RegistryExact` in memory, `TablesExact` in Postgres, `ProfilesExact`, `CleanTestIsExact`: a clean self-test proves the registry right even after an exception; `Settles` |
| `kposts` | fairness, 2 workers and the Retrier, 27 plans of up to five transactions | `DeleteWins`, `NewestWins`, `CompanionRows`, `DeniedStaysOut`, `PushedOnce`, `ReplayChangesNothing`, `NothingForgotten`, `NeverDroppedEarly`, `Drains` |
| `web_pages` | every endpoint with pages of 1 or 2, 2 to 5 writes between the pages, a rate limit of 12 with 2 plans that meet it; scheduled: 3 transactions, 2 coins, 3 sets of requests, 2 callers, a failure | `WalkExact`, `CountsAgree`, `ThreadWhole`; `PromiseKept`: `Scheduled` implements `PostQueue` |

Why the bounds are enough: two blocks and a batch of two give a gap with an inner block, a
batch that ends before the target, a real-time block beside a gap, and two rows with
different targets. Every interaction in the code is between at most two fillers (they
share nothing but a target) and one notification. For `Accounted`, `CursorMonotone` and
`HandoverComplete` the proofs remove the bounds. In `VirtualChain` block 2 abandons block 1 and
block 3 returns to it, which makes a change that removes, one that re-adds and a syncer that
starts on an abandoned block. In `Acceptance` the chain o, p, q makes every combination of a
parent known, unknown and known later, one group claimed by two senders, and a change that
moves p from one accepting block to another; for the three safety properties the proofs remove
the bounds. In the names runs two keys make two splits and both merges, a journal of one entry is
outrun by a reorganisation of two blocks and keeps half of a block of two transactions; two changes of
node are one that lags, so that a batch only removes, and one that has the removed blocks on its chain again. Each
exception of `GoesAstray` is needed: without any one of them TLC violates `RegistryExact` or `TablesExact`. In
`kposts` every pair of handlers that share a table meets in some plan with two workers, and the
code has no table that three transactions share otherwise than in pairs. Pages of one row put
every row at the end of a page. Two devices are one that a step is about and one beside it.

Deadlock is not checked: the node stops at the last block, plans end, and a processor that has
returned or panicked takes no step.

**Fairness.** Ingestion and chain: weak fairness of every step of DataSource, of the tasks and of
the processors: tokio and the two threads run whatever is ready. Strong fairness of taking a
notification (and a syncer message, and a header in `VirtualChain`): `flume::Selector` picks among
the ready channels at random, so a channel that is ready again and again is taken in the end. In
`VirtualChain` the arrival of each header is strongly fair, which is what `EventuallyIndexed`
of `BlockIngest` gives. Acceptance: AnswerSender and SenderResolution, weakly. Names: weak fairness of the
follower's one task, strong fairness of a round of the walk that sees the whole chain (the REST
service catches up in the end), with ENABLED written out. `kposts`: every worker and every background
task, weakly. `Scheduled`: its loop, for ever. `PushService`: the registry actor and the
dispatcher, weakly. No fairness for the node's blocks, for faults, for phones, clients and owners,
for a shutdown, nor for a failed negotiation or refused RPC.

## 4. Runs that show a disagreement, and known exceptions

| Run | Property | What happens |
|---|---|---|
| `ingest_stop` | `ShutdownCompletes` | a request parked at a shutdown is never answered |
| `chain_initial` | `NeverPanics` | a change before any Connected meets `unreachable!()` |
| `accept_rows` | `OneRow` | a transaction in two blocks gets two rows when its parent is indexed between them |

`PROJECT.json` quotes the line of the repository that each contradicts.

The properties of the passing runs name further exceptions, which the models reproduce.

*Ingestion*

* `Accounted` (`lost`): a reconnect without a real-time block since the last one creates no gap; a
  block notified on a connection whose negotiation then fails moves the cursor over a hole; a
  restart with an unchanged sink overwrites the persisted gap row of the same target.
* `InProgressCounts` (`used["crash"] = 0`): after a restart two gaps with one target spawn two
  fillers and are counted once (`gaps_fillers.len()`).
* `GapsClose`, `EventuallyIndexed` are checked on a steady connection without a restart: with
  two fillers of one target an update can re-create the row behind the one that finished, and
  the row waits for the next start.

*Virtual chain*

* `ChainExact`, `NoPanic` (`strayed`): a change forwarded after Disconnected survives the reconnect;
  a crash or a disconnect during the replay of queued changes leaves accepting blocks above the cursor.
* `NoPanic` needs a ring of processed headers that is deep enough: when a block has left the ring and is then
  reorganised away, the unwrap of its header fails (TLC reaches this with room for two blocks; `main.rs:391`
  gives the ring room for 3,000,000).
* `ShutdownCompletes` allows an end with an error: DataSource refuses the syncer's request before
  the processor has seen Shutdown, and `process()` ends with it.
* At the step from Syncing to Synced the queued changes wait for the next processed block (the todo
  at `virtual_chain_processor.rs:190`). The blocking of bounded channels is not covered.

*Acceptance*

* `OpenIsPending`, `SenderArrives` (`late`): a block processed after the acceptance leaves entries that no
  pending row tracks. A refused RPC is asked again at the next start only. Two rows of one
  transaction stop the processor (`accept_rows`).

*Push.* The properties hold; what they do not promise:

* a key is marked as sent before the push is sent, so a failed send is not tried again; after a
  restart or an hour the same event may be pushed again (a comment at `push.rs:2578` says 60 seconds);
* `unregister` forgets the device's counter with the row, so an older request can register again;
* the counter is compared with the key that is stored and no other (`push.rs:4221`): when two keys
  of one wallet take turns on a device, an older request of the first works again, so
  `RequestsHold` orders the requests of a key only while no other key signs one between;
* the count of invalid answers is not reset by a new registration, and a drop decided before it can
  remove it;
* one transaction that pays an address twice is one funds push with the amount of the first output
  (the documentation says that the amounts are added up).

*Names* (`astray`, `unsure`)

* a batch may remove blocks and add none: `added` is trimmed by confirmations and window, `removed` is not
  (`node.rs:67`), and another node may lag. The blocks are then undone and the checkpoint stays on one of
  them (`follower.rs:67`, `main.rs:676`, `profiles.rs:352`). As long as the next batch adds the blocks of the
  other branch nothing is wrong: the same blocks are reported as removed again and undoing them twice changes
  nothing, also across a crash. But when the chain swings back, so that the undone blocks are on it again, the
  node reports what follows the checkpoint and nobody applies them: the registry lacks their transactions until the
  self-test or an operator finds it, and the profiles lack their records. `GoesAstray` and the mark "back" of
  `unsure` name exactly that case; TLC violates `RegistryExact` and `ProfilesExact` without them;
* `prune_journal` counts transactions, so a block can be left half in the journal; transactions
  skipped as known to the bootstrap are skipped after a reorganisation too; a walk's progress,
  the refuted rows and pushes after a commit are in memory only; a bootstrap cannot see offers;
* the undo journal of the profiles is not persisted, and a re-anchored task leaves the saves of
  blocks it never saw removed.

*KaPosts* (`raced`, `cut`, `torn`, `owed`, `half`, `missed`, `unwritten`)

* content whose handler failed between the save and the second look survives its delete, and so
  does content whose delete was interrupted and is turned away when it comes again, because its author was
  denied in between (the gate is before the handler; the proof of `DeleteWins` asked for this case, and TLC
  then reached it with a post, its delete, a block of the author and one restart); a poll interrupted
  between its two inserts stays without options;
* what an author on the operator's denylist has stored stays when the block is interrupted between its denylist
  row and its purge, until the block is carried out again; it never is when an unblock of the pair overtook its
  claim to be the newest, for then the block that comes again is an older one (TLC reached this with a post, a
  block and an unblock handled side by side, and one crash). So does what passed the gate before the
  block and is saved after the purge, or passes it before the memory has caught up with the table;
* two relations, or two profiles of one person, handled at the same moment may both pass the check
  for the newest one; and the rows of an author whom the operator blocked are purged, the record of the newest
  action stays;
* a delete takes the votes of its post away and leaves their notifications. A second worker that has the
  post from a reindex and was past the tombstone check saves it once more, and until it looks again (for good
  if it is interrupted there) the post stands beside the notification of a vote that is gone;
* content that was purged and comes again has its first text: its edits are on record and are not applied;
* a vote, tip, edit or follow processed before its post is dropped for good; unvote and unquote look
  at no time, so a reindex that replays them in another order can undo a newer vote or quote;
* a recovered row whose payload has the prefix and is no UTF-8 text is dropped by the worker without being
  consumed, queued or failed (no branch in `worker.rs:53` nor in the retry at `worker.rs:195`). It is queued
  again at every start until the prune of the recovered rows after 30 days; `NothingForgotten` and `Drains` except
  such rows. A live one leaves its catch-up mark behind;
* a recovered row waits for the next start when a statement about it fails: its handler's, the fetch and all its
  retries, the mark that it is consumed, or the one query at startup that queues such rows again
  (`requeue_unconsumed` only warns). `set_var` only warns too: when the write that ends a walk fails, the panel
  shows it running, and refuses requests, until a restart. (`del_var` of the request is taken to succeed.)
* a retry after a failed fetch forgets that it was a catch-up and pushes again; a reindex of a
  transaction that the ingester still holds is loud;
* the retry of a tip looks at neither feature flags nor denylist;
* with broadcasts switched off (`k_protocol.rs:1192`) the retry loop takes every broadcast it finds off its queue
  unstored, those that the startup sweep has just put there included. `NeverDroppedEarly` is about broadcasts
  switched on; the proof asked for this case, and TLC then reached it with one broadcast and one crash.

*Web*

* `WalkExact` excepts messages of a room at the very time where a page ends (the cursor is a time
  alone) and notifications behind a page of which every subject is gone (`has_more` without a cursor);
* poll mentions are stored as kind "post", so they are dropped as orphans by the list while the count
  counts them; follow lists show a person twice who has a profile under both keys.

*Scheduled posts* (the promises `PostQueue` does not make)

* a cancellation after the relay accepted the post is confirmed, though the post is out; after a
  lost answer of the relay the next tick may mark as failed what was sent (`stray`);
* two requests at once, or one under each key of a person, can reserve the same coin;
* asking again for a transaction that already has a row is answered with the new time, which is not kept.

## 5. Proofs

Each theorem is about its module's specification for every value of the constants, from the
assumptions named in that module.

**`BlockIngest`**, from `BoundsAssumption`: any number of blocks and fillers, any
batch size, channel capacity and fault budgets, and a counter modulus above the number of
fillers that can exist.

* `TypeCorrect` (`BlockIngest_proofs`): `TypeOK`. Inductive as it stands.
* `HandoverTheorem` (`BlockIngest_proofs`): `HandoverComplete`, with `headers \subseteq daaIndex`,
  which a restart needs since it hands over the DAA index.
* `CursorTheorem` (`BlockIngest_proofs`): `CursorMonotone`, from `Ordered`: what waits in the two
  notification channels is increasing and above the cursor.
* `CountTheorem` (`BlockIngest_proofs`): `InProgressCounts`, from `Counted`: until a restart a filler
  sends at most one end and does nothing after it, the serial number of the next gap is free, and no row
  precedes the first Connected. There are fewer fillers than a usize counts, so
  neither the one more nor the one fewer wraps round.
* `AccountedTheorem` (`BlockIngest_proofs`): `Accounted`, from the inductive invariant `IndInv`.

`Accounted` is not inductive: a batch removes its row, or moves it up, and the step must know
that what the row promised below has been committed. `IndInv` adds

* `Positions` and `Contiguous`: no position runs ahead of the node, and a notified block follows
  on the horizon, on an earlier message or on the block before it, so a block that is processed
  does not leave a hole under the horizon;
* `Fillers` and `Batches`: the batches of one filler in the result channel follow on each other
  and on the position up to which it has committed; the last reaches the target;
* `Streams`: what lies between the start of a filler and its position is processed, and nothing
  is owed between its start and its row, whichever of the two is lower (two fillers may share a
  target and move one row);
* `RowsAhead`: nothing is owed between the cursor and a row ahead of it, which the first connect
  after a restart needs when its new row replaces an old one.

Each is preserved action by action; a step that touches none of the state of a conjunct is
dealt with once (`Plain...`), the batch (`Gap...`) and the connects (`Reconnect...`, `First...`,
`Restart...`) have lemmas of their own.

**`VirtualChain`** (`VirtualChain_proofs`), from `ChainBounds` and `ChainIsTree`: any tree of blocks, any
chunk and capacities, any faults. `TypeTheorem`, for `TypeOK`, and `StepTheorem`, for `SyncerInStep`, from one
inductive invariant, `Types /\ Handover`. `Types` adds to `TypeOK` that a forwarded change and a syncer's
response carry a change. `Handover` adds to `SyncerInStep` that there is a change to work
off while changes are worked off (`DrainOK`), that a syncer not spawned yet has sent nothing (`Fresh`), and
that the spawned one is there and has no Stop on its way while the processor is syncing (`Spawned`). How
often `UnderWay` counts a message is a lemma for each way the channel of the syncers changes.

`ExactTheorem`, for `ChainExact`, is about the same specification. `ChainExact`
is far from inductive: what a step applies was computed from a block that was the sink some time ago. The
invariant `Exact` says what is known of everything on its way, in two halves.

* *Syncing* (`Token`, `Stored`). There is one request or one response under way (the token of
  `SyncerInStep`), and the response is the change from the last block applied to a block of the tree; so each
  response extends the chain whose accepting blocks are stored, and the last of them names the cursor.
* *Replaying and synced* (`Order`, `UpOrder`, `Replay`). What is queued is the sequence of changes
  from a block that syncing has already reached up to the sink: it may repeat what the syncer has applied.
  `Agrees(p, c)` says what is stored while the repetition catches up: on the blocks whose place is the
  same in the chains of p and c, what the chain of c says.
* `Reached` and `Stopping` say from when a syncer has passed the first queued change; `Quiet` says that
  nothing of an earlier connection is left when a new one starts, unless `strayed` recorded that it is.

TLC checked `Exact` as an invariant of a smaller instance (1.6 million states) before it was proved.

`PanicTheorem`, for `NoPanic`, assumes nothing about the size of the ring and says that nothing panics
while no processed block has left the ring (`Whole`). `NoPanic` without `Whole` is false of a ring that is
outgrown, see 4. The invariant `Calm` has one part for each way to panic: what a responder sends carries blocks or says that it is done (`Steps`),
its answers reach the processor that asked (`Addressed`), a change comes after the Connected that opens its
connection (`Opened`), and an accepting block that leaves the chain is in the ring (`Backed`). TLC checked `Calm`
with room for two blocks (3 million states) before it was proved.

**`Acceptance`** (`Acceptance_proofs`): `SenderTheorem`, `GroupTheorem` and `PendingTheorem`, for
`SenderTrue`, `GroupHasOneSender` and `OpenIsPending`. None is inductive. Their common part `Sound` says
that the tables have their shapes; that the recorded owner of output 0 is its owner, and is recorded
whenever a row is keyed by another address (so that a late entry resolves to the right one); that two
blocks of the chain accept no transaction in common (so that taking one back never closes what the
other opened); and that whoever is asked about, answered or pending has a row. `Senders` adds the
first two properties, `Waiting` the third, and `IndInv` is both.

**`PushRegistry`** (in `PushService_proofs`), from `NoneAssumption`: `RegistryReadsTrue`, for `ReadsTrue`.
Every command that writes is one `Put` of one row, and `Put` moves index entries by the difference of what the
old and the new row list; the indexes stay exact only because they were exact before.

**`PushService`** (`PushService_proofs`), for any plan of calls, events, transactions and faults
(`PlanSound`: ids of calls are their own, no event has the key of a call that rings), any limits and any transports.
`RegistryTheorem`: every step of the service is one of the registry's or leaves it, so that `ReadsTheorem`
follows from `RegistryReadsTrue`. `RequestsTheorem` and `PushedTheorem`, for `RequestsHold` and
`PushedOnce`, from one inductive invariant:

* `InQueue`, `InHand`: the actor's queue holds at most one question of the dispatcher, and only when
  the job in hand is at a step that asks; no signed request waits twice. So an answer always meets the job
  that asked for it, across crashes too;
* `InPlace`: a signed request holds a nonce, or waits in the queue, or is done, and is never in two
  of the three; a nonce is issued once per request and a crash drops nonces and queue together;
* `InOrder`: as long as one key signs, the row carries the device of the latest request it signed, whose
  counter none before exceeds. Only the pair of the two is inductive: the code compares with the row;
* `Remembered`, `Unsaid`: whatever was pushed is among the keys taken as sent, and nobody on a route
  still to serve was told under the key in hand. `mark_seen` comes at another step for each line
  (before the match for ext and funds, after the filter for chat), which `Unsaid` follows.

**`Scheduled`** (`Scheduled_proofs`): `QueueTheorem`, every step of `scheduled.rs` is a step of `PostQueue`
or leaves the queue as it is; with the initial states, `SpecScheduled` implements `Queue!Safe`,
the safe half of `PromiseKept`. The invariant (`HeldSound`) says that what the scheduler holds was waiting when it
was selected and can since only have been cancelled, that its list names no post twice, and that what
it takes for submitted the node has accepted.

**`KPipeline`** (`KPipeline_proofs`), for any workers, plan of transactions and faults, and times, from
`PlansAssumption` (transactions are numbered as they are mined, their times and the budgets of faults are numbers) and `WorkersAssumption` (workers are numbered
from 1). `DeleteWinsTheorem`, for `DeleteWins`. Its invariant `KInv` says where the handlers of content and of
deletes can be (`Staged`), that rows of content are the plan's (`RowsSound`), that a signature has one owner
(`UsedSound`), and of every tombstone (`TombsSound`) that its delete is at work, was cut short, was turned away,
or is done: what is left of its author's content is on its way to the second look (`Done`). The order of the two
pairs of statements carries it: a delete buries before it looks, content is saved before it looks.
`ForgottenTheorem`, for `NothingForgotten`, adds `QInv`: boxes are sequences, an idle worker holds nothing, no
walk runs before the rows of the last one are queued again, and from then on an unconsumed row is in a box, in a
worker's hands or given up by a failed statement since the last start, or its payload is no text (`Remembered`): what failed before is back too. That a batch loses nothing on its way into the boxes is `SendFact`:
`Share` gives each worker the ids at its places, and every place is some worker's.
`DeniedTheorem`, for `DeniedStaysOut`, adds `Dealt`: an author on the denylist has a purge to come or owed, or was
overtaken, or has nothing stored and nothing between the gate and the save (`Clean`). `Clean` stays because the
handlers let content only move on (`Steps`) and the gate, which looks at the memory, lets in an author of the
table only where `raced` says so. Before the proof the property counted every interrupted block as an exception until
it had run again, which hid the block that is overtaken and missed that a rerun need not purge; `owed`
says what is meant.
`ReplayTheorem`, for the action property `ReplayChangesNothing`, adds `CInv`: a worker that is past the signature, a
broadcast's apart, holds a transaction that owns it (`ClaimStage`), and the contents, votes and mentions are about
such transactions only (`Names`). So a copy's handler is turned away at the signature, and the content it would hard-delete on a
tombstone's word has no rows. What each SQL statement may add to `Names` is `StatementsAdd`.
`CompanionTheorem`, for `CompanionRows`, adds `MInv`: rows and notifications of votes are what their transactions
say (`VotesPaired`), so a vote has one notification and a replaced vote takes its own with it; a notification
without its row is about a post whose author's delete is done (`Gone`, by `Done` of `KInv`: whoever still has the
post in hand will look again); and a row is a poll only if its transaction is, and has options, a worker at
them, or was torn (`PollsWhole`). What each statement does to the three tables is `Sound`. Before the proof the
property had no exception for the post that is stored once more; a plan with a post, a vote, a delete and a reindex
then showed it to TLC, and two more plans the exceptions of `NewestWins` that `half` and the edit marks state.
`NewestTheorem`, for `NewestWins`, adds `NInv`. Follows and blocks: `last` has one entry for a pair and no row of the
pair is younger (`LastSound`), an accepted action is recorded there, or is about to be, or was interrupted
(`AllRecorded`), and a pair that no two workers met at is as its entry says, or a worker has exactly that
action in hand, or was interrupted at it (`AllCarried`). That the worker at the rows is alone with the pair's newest
action (`OrderStage`) is what makes its statement, which compares times with the row it finds, end as the entry says.
Edits: rows on record are accepted edits (`EditsSound`) and the property carries itself from there. Profiles: unless
two broadcasts of a person met, the person has one row, as new as all that the ledger accepted (`ProfilesSound`),
and what a worker read before it saves is still there. `StatementsFrame` says which tables each statement leaves alone.
In `KPipeline_delivery`: `NeverDroppedTheorem`, for the action property `NeverDroppedEarly`, adds `RInv`: the retry loop is at a step that
handles broadcasts, and past the insert only with the row there (`RetryStage`); no statement takes a stored
broadcast away (`StatementsHold`), so what leaves the queue as stored is stored.
`PushedOnceTheorem`, for `PushedOnce`, adds `UInv`. Broadcasts and tips are pushed by whoever adds their row, and
a row is added once (`GateOnce`, `GatePushed`). Everything else is counted by place: a transaction is in at most one
box or pair of hands that is not quiet, in none once it has been pushed, and the catch-up may add one more, which it
marks (`Once`). The marks outlive the workers that read them only until a statement fails or a reindex comes, which is
where the property ends; `PlansAssumption` therefore says that budgets of faults are numbers.

**`WebServer`** (`WebServer_proofs`): `ThreadTheorem`, for `ThreadWhole`, for any tables, any caps with
`MaxAncestors <= MaxWalk` (`ThreadBounds`) and any plan of failures. `ThreadPlans` says what a plan of a thread is: ids
are unique, no chain of replies comes back to where it was (a reply names a content by the hash of its
transaction, which was there first: the references that `Descends` orders by age), and the writes between the
statements are moderation (deletes, edits, withdrawals, relations). A post stored meanwhile is left out, because its
mentions are a fold. The invariant `ThreadInv` says that every row shown is a row of the first tables but for its text
(`FromDb`), that the rows are linked, and that the walk either has the next parent ahead of it, younger in age at each
step (`Going`, so the guard against cycles never cuts a thread), or has ended at a content that is no reply, at
a parent that is gone, or at a failed lookup (`Ended`).

Only model-checked: every liveness property (TLAPS does not reach fairness), among them the second
half of `PromiseKept` and `Heard`; the names modules (`RegistryExact`, `TablesExact`, `ProfilesExact`,
`CleanTestIsExact`); and of the web modules `WalkExact` and `CountsAgree`. What `Apply` and `UndoBlock` compute is
a fold over the spends of a transaction and a poll's total in `CountsAgree` is one over its options: a claim about
every input of a fold needs induction over data. `WalkExact` is about sorted pages of a dozen endpoints, each with
its own join, and would need a proof for each that its sort is complete; it stays with TLC.

## 6. Not modelled

* **Chess, PeriodicProcessor**: planned, below.
* **Names API and translation, Indexer API**: reads over the stores, and calls of a translation service.
* **Admin panel**: an operator's interface to processes and settings; it keeps no state of its own
  that a property is about.
* **Database migration**: one version bump before anything else runs.
* **Wire protocol**: parses strings; the modules take transactions as parsed.
* **Metrics, deployment**: counters for display, container files.
* In modelled parts: the personal-mode filter, byte layouts of partitions, texts and encryption of
  pushes, the refresh of provider tokens, the fee backfill and expiry reminders of the follower, statistics and
  health pages of the web server.

## 7. Plan

1. `SenderLoop`: the bounded command and change channels, the draining of parked requests into
   the channel its own task reads, and the circular wait of VirtualProcessor and DataSource.
2. Proofs for `ProfilesFollower` (`ProfilesExact` with an empty `unsure`).
3. `Chess`: game state, clocks and ratings; `PeriodicProcessor`: pruning beside VirtualProcessor.
