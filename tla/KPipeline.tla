------------------------------ MODULE KPipeline ------------------------------
(***************************************************************************)
(* How transactions reach the workers of kachat-transaction-processor: the *)
(* insert trigger of the ingester's table and LISTEN, the round-robin      *)
(* queue, the startup catch-up, and the reindex walk over the node's       *)
(* blocks with its table of recovered transactions. Transactions are mined *)
(* in the order of their ids.                                              *)
(***************************************************************************)
EXTENDS KPending

VARIABLES mined,     \* transactions 1 .. mined are in the node's blocks
          up,        \* the process runs
          todo,      \* startup tasks that have not run: "catch_up", "requeue", "sweep"
          listening, \* LISTEN is active
          inbox,     \* worker -> ids sent to it
          turn,      \* the worker that gets the next id
          catchUp,   \* CATCH_UP
          walk,      \* the reindex: [at, found], at = 0 when none runs
          status,    \* kaposts_reindex_status: "none", "running", "done", "failed"
          request,   \* kaposts_reindex_request is set
          torn,      \* history: content whose handler was interrupted after the save
          missed,    \* history: recovered rows given up since the last start, because a statement failed
          unwritten, \* history: the last write of the status failed
          budget     \* faults and requests left

pipeVars == <<mined, up, todo, listening, inbox, turn, catchUp, walk, status, request, torn, missed, unwritten,
              budget>>
vars == <<plan, storeVars, pendingVars, nodeVars, pipeVars>>

Ids == DOMAIN plan.txs
NoWalk == [at |-> 0, found |-> FALSE]
Tasks == {"catch_up", "requeue", "sweep"}

Init ==
  /\ plan \in Plans
  /\ db = EmptyTables /\ denied = {} /\ pushed = EmptyBag /\ raced = {} /\ cut = {} /\ owed = {} /\ half = {}
  /\ work = [w \in Everyone |-> Idle]
  /\ raw = {} /\ rec = {} /\ pending = {} /\ dropped = {}
  /\ node = [connected |-> TRUE, accepted |-> {}] /\ now = 0
  /\ mined = 0 /\ up = TRUE /\ todo = {} /\ listening = TRUE
  /\ inbox = [w \in Workers |-> <<>>] /\ turn = 1
  /\ catchUp = {} /\ walk = NoWalk /\ status = "none" /\ request = FALSE
  /\ torn = {} /\ missed = {} /\ unwritten = FALSE /\ budget = plan.budget

Spend(fault) == budget[fault] > 0 /\ budget' = [budget EXCEPT ![fault] = @ - 1]

------------------------------------------------------------------------------
(* The queue. *)

\* The members of a set of numbers, in order.
Rank(ids, id) == Cardinality({i \in ids : i <= id})
Ordered(ids) == [k \in 1 .. Cardinality(ids) |-> CHOOSE id \in ids : Rank(ids, id) = k]

\* distribute_to_worker: the queue task moves ids on at once, in order, each to
\* the next worker.
Receiver(i) == ((turn + i - 2) % Cardinality(Workers)) + 1
Share(w, ids) ==
  LET places == Ordered({i \in DOMAIN ids : Receiver(i) = w}) IN [k \in DOMAIN places |-> ids[places[k]]]
Send(ids) ==
  /\ inbox' = [w \in Workers |-> inbox[w] \o Share(w, ids)]
  /\ turn' = Receiver(Len(ids) + 1)

\* The ingester stores the next transaction; the trigger notifies who listens.
Ingest ==
  /\ mined < Cardinality(Ids)
  /\ mined' = mined + 1
  /\ raw' = raw \cup {mined + 1}
  /\ IF up /\ listening THEN Send(<<mined + 1>>) ELSE UNCHANGED <<inbox, turn>>
  /\ UNCHANGED <<plan, storeVars, rec, pending, dropped, nodeVars, up, todo, listening, catchUp, walk, status,
                 request, torn, missed, unwritten, budget>>

\* The ingester keeps raw transactions for an hour.
PruneRaw(id) ==
  /\ id \in raw /\ Spend("prune")
  /\ raw' = raw \ {id}
  /\ UNCHANGED <<plan, storeVars, rec, pending, dropped, nodeVars, mined, up, todo, listening, inbox, turn,
                 catchUp, walk, status, request, torn, missed, unwritten>>

\* connect_and_listen: what is notified while it is not connected is lost.
Listen ==
  /\ up /\ ~listening
  /\ listening' = TRUE
  /\ UNCHANGED <<plan, storeVars, pendingVars, nodeVars, mined, up, todo, inbox, turn, catchUp, walk, status,
                 request, torn, missed, unwritten, budget>>
ListenerFails ==
  /\ up /\ listening /\ Spend("listen")
  /\ listening' = FALSE
  /\ UNCHANGED <<plan, storeVars, pendingVars, nodeVars, mined, up, todo, inbox, turn, catchUp, walk, status,
                 request, torn, missed, unwritten>>

------------------------------------------------------------------------------
(* A worker and one transaction. *)

Recovered(id) == id \notin raw
\* The gates: a payload that only has the prefix, as the bytes that the trigger,
\* the catch-up and the reindex compare, is no text and is dropped here: that is
\* no error, and its recovered row is not marked.
Fetched(id) == Held(id) /\ Readable(plan.txs[id])
\* The gate looks at the denylist in memory, which may be older than the table.
Take(w, id, quiet) ==
  LET by == plan.txs[id].by
  IN /\ raced' = raced \cup (IF by \in db.denylist \ denied THEN {<<"deny", by, 0>>} ELSE {})
                       \cup (IF by \in denied THEN {<<"gate", id, 0>>} ELSE {})
     /\ work' = [work EXCEPT ![w] = [id |-> id, pc |-> Entry(plan.txs[id]), quiet |-> quiet, memo |-> {}]]

\* process_transaction: the fetch, the quiet rule and the gates.
Fetch(w) ==
  LET id == Head(inbox[w])
  IN /\ At(w, "idle") /\ inbox[w] # <<>>
     /\ inbox' = [inbox EXCEPT ![w] = Tail(@)]
     /\ IF Fetched(id)
        THEN Take(w, id, Recovered(id) \/ id \in catchUp) /\ catchUp' = catchUp \ {id}
        ELSE UNCHANGED <<work, raced, catchUp>>
     /\ UNCHANGED <<plan, db, denied, pushed, cut, owed, half, pendingVars, nodeVars, mined, up, todo, listening,
                    turn, walk, status, request, torn, missed, unwritten, budget>>

\* The fetch fails: retry_transaction fetches again and processes without the
\* quiet scope, and leaves the catch-up mark.
FetchFails(w) ==
  /\ At(w, "idle") /\ inbox[w] # <<>> /\ Spend("error")
  /\ work' = [work EXCEPT ![w] = [id |-> Head(inbox[w]), pc |-> "refetch", quiet |-> FALSE, memo |-> {}]]
  /\ inbox' = [inbox EXCEPT ![w] = Tail(@)]
  /\ UNCHANGED <<plan, db, denied, pushed, raced, cut, owed, half, pendingVars, nodeVars, mined, up, todo, listening, turn,
                 catchUp, walk, status, request, torn, missed, unwritten>>
\* Mutant of Refetch: a transaction that is gone is fetched for ever.
RefetchForEver(w) ==
  /\ At(w, "refetch") /\ Fetched(work[w].id) /\ Take(w, work[w].id, FALSE)
  /\ UNCHANGED <<plan, db, denied, pushed, cut, owed, half, pendingVars, nodeVars, mined, up, todo, listening, inbox,
                 turn, catchUp, walk, status, request, torn, missed, unwritten, budget>>
Refetch(w) ==
  LET id == work[w].id
  IN /\ At(w, "refetch")
     /\ IF Fetched(id) THEN Take(w, id, FALSE) ELSE work' = [work EXCEPT ![w] = Idle] /\ UNCHANGED raced
     /\ UNCHANGED <<plan, db, denied, pushed, cut, owed, half, pendingVars, nodeVars, mined, up, todo, listening, inbox,
                    turn, catchUp, walk, status, request, torn, missed, unwritten, budget>>

\* Every attempt fails, and the worker gives the transaction up.
RefetchFails(w) ==
  /\ At(w, "refetch") /\ Spend("error")
  /\ work' = [work EXCEPT ![w] = Idle]
  /\ missed' = missed \cup {work[w].id}
  /\ UNCHANGED <<plan, db, denied, pushed, raced, cut, owed, half, pendingVars, nodeVars, mined, up, todo, listening, inbox, turn,
                 catchUp, walk, status, request, torn, unwritten>>

\* mark_recovered_consumed, after the handler returned without an error.
Consume(w) ==
  LET id == work[w].id
  IN /\ At(w, "done")
     /\ rec' = {IF r.id = id THEN [r EXCEPT !.consumed = TRUE] ELSE r : r \in rec}
     /\ work' = [work EXCEPT ![w] = Idle]
     /\ cut' = cut \ {id}
     /\ UNCHANGED <<plan, db, denied, pushed, raced, owed, half, raw, pending, dropped, nodeVars, mined, up, todo, listening,
                    inbox, turn, catchUp, walk, status, request, torn, missed, unwritten, budget>>
\* The row cannot be marked: a warning, and the worker goes on.
MarkFails(w) ==
  LET id == work[w].id
  IN /\ At(w, "done") /\ (\E r \in rec : r.id = id /\ ~r.consumed) /\ Spend("error")
     /\ work' = [work EXCEPT ![w] = Idle]
     /\ cut' = cut \ {id}
     /\ missed' = missed \cup {id}
     /\ UNCHANGED <<plan, db, denied, pushed, raced, owed, half, pendingVars, nodeVars, mined, up, todo, listening, inbox, turn,
                    catchUp, walk, status, request, torn, unwritten>>

Busy(w) == work[w].pc \notin {"idle", "refetch", "done", "unknown"}
SavedPart(w) == Tx(w).kind \in Content /\ work[w].pc \in {"options", "mentions", "notify", "drop", "erase"}

Owing(ws) == {Tx(w).who[1] : w \in {v \in ws : At(v, "purge")}}
Halved(ws) == {work[w].id : w \in {v \in ws : work[v].pc \in {"apply", "newest", "relate"}}}

\* A statement fails: the handler ends, the row is not marked.
StatementFails(w) ==
  /\ Busy(w) /\ Spend("error")
  /\ work' = [work EXCEPT ![w] = IF w = Retrier THEN [@ EXCEPT !.pc = "unknown"] ELSE Idle]
  /\ cut' = cut \cup {work[w].id}
  /\ owed' = owed \cup Owing({w}) /\ half' = half \cup Halved({w})
  /\ torn' = IF SavedPart(w) THEN torn \cup {work[w].id} ELSE torn
  /\ missed' = IF w = Retrier THEN missed ELSE missed \cup {work[w].id}
  /\ UNCHANGED <<plan, db, denied, pushed, raced, pendingVars, nodeVars, mined, up, todo, listening, inbox, turn,
                 catchUp, walk, status, request, unwritten>>

------------------------------------------------------------------------------
(* Restarts. *)

Crash ==
  /\ up /\ Spend("crash")
  /\ up' = FALSE /\ listening' = FALSE
  /\ work' = [w \in Everyone |-> Idle]
  /\ cut' = cut \cup {work[w].id : w \in {v \in Everyone : Busy(v)}}
  /\ owed' = owed \cup Owing(Everyone) /\ half' = half \cup Halved(Everyone)
  /\ torn' = torn \cup {work[w].id : w \in {v \in Everyone : Busy(v) /\ SavedPart(v)}}
  /\ inbox' = [w \in Workers |-> <<>>] /\ catchUp' = {} /\ denied' = {} /\ walk' = NoWalk /\ todo' = {}
  /\ UNCHANGED <<plan, db, pushed, raced, pendingVars, nodeVars, mined, turn, status, request, missed, unwritten>>

\* main: the tasks start, each on its own.
Start ==
  /\ ~up
  /\ up' = TRUE /\ todo' = Tasks /\ missed' = {}
  /\ UNCHANGED <<plan, storeVars, pendingVars, nodeVars, mined, listening, inbox, turn, catchUp, walk, status,
                 request, torn, unwritten, budget>>

\* set_var of the status: what fails is a warning.
Written(s) == status' = s /\ unwritten' = FALSE
Unwritten == status' = status /\ unwritten' = TRUE
Show(s) == (Written(s) /\ UNCHANGED budget) \/ (Unwritten /\ Spend("error"))

\* startup_catch_up: what is still in the ingester's table, marked quiet; or the
\* query fails.
CatchUp ==
  /\ up /\ "catch_up" \in todo
  /\ todo' = todo \ {"catch_up"}
  /\ \/ catchUp' = catchUp \cup raw /\ Send(Ordered(raw)) /\ UNCHANGED budget
     \/ Spend("error") /\ UNCHANGED <<catchUp, inbox, turn>>
  /\ UNCHANGED <<plan, storeVars, pendingVars, nodeVars, mined, up, listening, walk, status, request, torn, missed,
                 unwritten>>

\* reset_stale_status and requeue_unconsumed, before reindex::run's loop: a stale
\* "running" becomes "failed".
ResetStale ==
  IF status = "running" THEN Show("failed") ELSE Written(status) /\ UNCHANGED budget
Unconsumed == {r.id : r \in {q \in rec : ~q.consumed}}
\* Mutant of Requeue: nothing is queued again.
NoRequeue ==
  /\ up /\ "requeue" \in todo
  /\ todo' = todo \ {"requeue"}
  /\ ResetStale
  /\ UNCHANGED <<plan, storeVars, pendingVars, nodeVars, mined, up, listening, inbox, turn, catchUp, walk, request,
                 torn, missed>>
Requeue ==
  /\ up /\ "requeue" \in todo
  /\ todo' = todo \ {"requeue"}
  /\ Send(Ordered(Unconsumed))
  /\ ResetStale
  /\ UNCHANGED <<plan, storeVars, pendingVars, nodeVars, mined, up, listening, catchUp, walk, request, torn, missed>>
\* The rows cannot be read: they wait for the next start.
RequeueFails ==
  /\ up /\ "requeue" \in todo
  /\ todo' = todo \ {"requeue"}
  /\ missed' = missed \cup Unconsumed /\ Spend("error")
  /\ IF status = "running" THEN Written("failed") \/ Unwritten ELSE Written(status)
  /\ UNCHANGED <<plan, storeVars, pendingVars, nodeVars, mined, up, listening, inbox, turn, catchUp, walk, request,
                 torn>>

\* sweep: the insert of the broadcasts fails, or the one of the tips alone.
SweepPending ==
  /\ up /\ "sweep" \in todo
  /\ todo' = todo \ {"sweep"}
  /\ \/ pending' = (IF plan.node THEN Swept ELSE pending) /\ UNCHANGED budget
     \/ plan.node /\ Spend("error")
        /\ pending' \in {pending, {r \in Swept : r \in pending \/ plan.txs[r.id].kind = "bcast"}}
  /\ UNCHANGED <<plan, storeVars, raw, rec, dropped, nodeVars, mined, up, listening, inbox, turn, catchUp, walk,
                 status, request, torn, missed, unwritten>>

------------------------------------------------------------------------------
(* The reindex. *)

\* The admin panel asks for a walk, not while one runs unless it is forced.
RequestReindex(force) ==
  /\ force \/ (status # "running" /\ ~request)
  /\ Spend("reindex")
  /\ request' = TRUE
  /\ UNCHANGED <<plan, storeVars, pendingVars, nodeVars, mined, up, todo, listening, inbox, turn, catchUp, walk,
                 status, torn, missed, unwritten>>

\* The request is claimed before the walk begins. A walk that ends before its
\* first page leaves "running" shown when only its last write fails.
BeginWalk ==
  /\ up /\ "requeue" \notin todo /\ request /\ walk.at = 0
  /\ request' = FALSE
  /\ IF plan.node /\ node.connected /\ mined > 0
     THEN Show("running") /\ walk' = [at |-> 1, found |-> FALSE]
     ELSE /\ \/ Show(IF plan.node /\ node.connected THEN "done" ELSE "failed")
             \/ status' = "running" /\ unwritten' = TRUE /\ Spend("error")
          /\ UNCHANGED walk
  /\ UNCHANGED <<plan, storeVars, pendingVars, nodeVars, mined, up, todo, listening, inbox, turn, catchUp,
                 torn, missed>>

AlreadyIndexed(id) == Indexed(db, id) \/ \E r \in rec : r.id = id /\ r.consumed
Walked(at) ==
  IF at < mined THEN walk' = [at |-> at + 1, found |-> FALSE] /\ UNCHANGED <<status, unwritten, budget>>
                ELSE walk' = NoWalk /\ Show("done")

\* One transaction of the walk: is it indexed ...
WalkChecks ==
  /\ walk.at # 0 /\ ~walk.found
  /\ IF AlreadyIndexed(walk.at) THEN Walked(walk.at)
     ELSE walk' = [walk EXCEPT !.found = TRUE] /\ UNCHANGED <<status, unwritten, budget>>
  /\ UNCHANGED <<plan, storeVars, pendingVars, nodeVars, mined, up, todo, listening, inbox, turn, catchUp, request,
                 torn, missed>>

\* ... and when it is not, its row is stored (unless it was consumed) and queued.
WalkStores ==
  LET known == {r \in rec : r.id = walk.at}
  IN /\ walk.at # 0 /\ walk.found
     /\ IF \E r \in known : r.consumed THEN UNCHANGED <<rec, inbox, turn>>
        ELSE /\ rec' = rec \cup {[id |-> walk.at, consumed |-> FALSE]}
             /\ Send(<<walk.at>>)
     /\ Walked(walk.at)
     /\ UNCHANGED <<plan, storeVars, raw, pending, dropped, nodeVars, mined, up, todo, listening, catchUp, request,
                    torn, missed>>

\* A page or a statement fails, and perhaps the write that says so too.
WalkFails ==
  /\ walk.at # 0 /\ Spend("error")
  /\ walk' = NoWalk
  /\ Written("failed") \/ Unwritten
  /\ UNCHANGED <<plan, storeVars, pendingVars, nodeVars, mined, up, todo, listening, inbox, turn, catchUp, request,
                 torn, missed>>

\* The hourly prune of recovered rows: a week after the walk when consumed,
\* 30 days otherwise.
PruneRecovered ==
  /\ up /\ Spend("forget")
  /\ \E r \in rec : rec' = rec \ {r}
  /\ UNCHANGED <<plan, storeVars, raw, pending, dropped, nodeVars, mined, up, todo, listening, inbox, turn, catchUp,
                 walk, status, request, torn, missed, unwritten>>

------------------------------------------------------------------------------
Handling(w) == Handle(w) /\ UNCHANGED <<pendingVars, nodeVars, pipeVars>>
HandlingPending(w) == HandlePending(w) /\ UNCHANGED pipeVars
Refresh == up /\ RefreshDenylist /\ UNCHANGED <<pendingVars, nodeVars, pipeVars>>
Retrying == up /\ "sweep" \notin todo /\ Retry /\ UNCHANGED pipeVars

NodeSteps ==
  /\ \/ Spend("node") /\ Connection
     \/ ((\E id \in raw : plan.txs[id].kind = "bcast" /\ Acceptance(id)) \/ Tick) /\ UNCHANGED budget
  /\ UNCHANGED <<plan, storeVars, pendingVars, mined, up, todo, listening, inbox, turn, catchUp, walk, status,
                 request, torn, missed, unwritten>>

WorkerSteps(w) == Fetch(w) \/ Refetch(w) \/ Consume(w)

Next ==
  \/ Ingest \/ (\E id \in raw : PruneRaw(id)) \/ Listen \/ ListenerFails
  \/ \E w \in Workers : WorkerSteps(w) \/ FetchFails(w) \/ RefetchFails(w) \/ MarkFails(w)
  \/ \E w \in Everyone : Handling(w) \/ HandlingPending(w) \/ StatementFails(w)
  \/ Refresh \/ Retrying \/ NodeSteps
  \/ Crash \/ Start \/ CatchUp \/ Requeue \/ RequeueFails \/ SweepPending
  \/ (\E force \in BOOLEAN : RequestReindex(force)) \/ BeginWalk \/ WalkChecks \/ WalkStores \/ WalkFails
  \/ PruneRecovered

Spec == Init /\ [][Next]_vars

------------------------------------------------------------------------------
(* Properties. *)

Acts(w) == work[w].pc # work'[w].pc /\ work[w].id # 0
InHand(id, pcs) == \E w \in Everyone : work[w].id = id /\ work[w].pc \in pcs

\* A copy of a signed action under another transaction id changes nothing,
\* even while the original is still being processed by another worker.
Copied(tx) == \E u \in db.used : u.sig = tx.sig /\ u.id # tx.id
ReplayChangesNothing ==
  [][\A w \in Everyone : Acts(w) /\ up' /\ Tx(w).kind # "bcast" /\ Copied(Tx(w)) => db' = db]_vars

\* Content never survives its author's delete, in whatever order and on
\* whatever workers the two are processed: one of them is still at it, was
\* interrupted (the content's handler between the save and its second look), or is
\* a delete that the gate turned away when it came again.
DeleteWins ==
  \A c \in db.contents, t \in db.tombs :
    t.post = c.id /\ t.by = c.by =>
      \/ InHand(c.id, {"options", "mentions", "notify", "drop", "erase"}) \/ c.id \in torn
      \/ \E d \in Ids :
           /\ plan.txs[d].kind = "delete" /\ plan.txs[d].ref = c.id /\ plan.txs[d].by = c.by
           /\ InHand(d, {"original", "record", "erase"}) \/ d \in cut \/ <<"gate", d, 0>> \in raced

\* The last action on chain decides, whatever order the workers take them in: a
\* follow or block row stands exactly when the newest recorded action of its pair
\* makes one, and no accepted action is newer than that (a follow between people
\* without content is not recorded). Excepted are two workers at the same pair at
\* once, an action interrupted at its rows until it is processed again, and authors
\* whom the operator blocked, whose rows are purged.
RowOf(pair) ==
  {r \in (IF pair[1] = "follow" THEN db.follows ELSE db.blocks) : r.by = pair[2] /\ XOnly(r.who) = pair[3]}
AtPair(pair) == {id \in Ids : plan.txs[id].kind = pair[1] /\ PairOf(plan.txs[id]) = pair}
Accepted(id) == \E u \in db.used : u.id = id
Processed(pair) ==
  {id \in AtPair(pair) : Accepted(id) /\ plan.txs[id].as # "follow" /\ ~InHand(id, {"newest"})}
Settled(pair) == \A id \in AtPair(pair) : ~InHand(id, {"relate"}) /\ id \notin half
Blocked(k) ==
  \E id \in Ids : LET tx == plan.txs[id]
                  IN tx.kind = "block" /\ tx.as = "block" /\ IsOperator(tx.by) /\ tx.who[1] = k /\ Accepted(id)
LastWins(pair) ==
  LET last == {l \in db.last : l.pair = pair}
  IN /\ RowOf(pair) # {} <=> \E l \in last : l.as = pair[1]
     /\ \A id \in Processed(pair) : \E l \in last : l.time >= plan.txs[id].time
Pairs == {PairOf(plan.txs[id]) : id \in {i \in Ids : plan.txs[i].kind \in {"follow", "block"}}}
RelationsNewest ==
  \A pair \in Pairs : Settled(pair) /\ pair \notin raced /\ ~Blocked(pair[2]) => LastWins(pair)

\* A person has one profile, the newest one accepted, unless two of their
\* broadcasts were being saved at the same moment.
ProfileNewest ==
  \A l \in db.ledger :
    LET tx == plan.txs[l.id]
        own == {p \in db.profiles : SamePerson(p.by, tx.by)}
    IN <<"profile", XOnly(tx.by), 0>> \notin raced =>
         Cardinality(own) = 1 /\ \A p \in own : p.time >= tx.time

\* Content shows its newest accepted edit, whatever order edits arrive in, but for
\* an edit that was interrupted before the row and not processed since, and those
\* older than the row itself: content that was removed and is stored once more has
\* its first text.
EditNewest ==
  \A c \in db.contents :
    /\ \A e \in db.edits :
         e.post = c.id /\ Supersedes(e, c) => InHand(e.id, {"apply"}) \/ e.id \in half \/ <<"edit", e.id, 0>> \in raced
    /\ c.edited # 0 => \E e \in db.edits : e.post = c.id /\ e.time = c.edited /\ e.text = c.text

\* Follows, blocks, profiles and edits show the newest action by chain time,
\* however the workers interleave; the three parts name the races that the
\* code leaves open.
NewestWins == RelationsNewest /\ ProfileNewest /\ EditNewest

\* Rows of several tables that belong together come and go together: a vote has
\* exactly one notification. What a deleted post leaves behind is the notification
\* alone, and a worker that was past the tombstone check may store the post once
\* more before it looks again. A poll has its options unless its handler was
\* interrupted between the two inserts (processing it again does not add them).
CompanionRows ==
  LET of(id) == {m \in db.mentions : m.kind = "vote" /\ m.content = id}
  IN /\ \A v \in db.votes : Cardinality(of(v.id)) = 1
     /\ \A id \in Ids :
          of(id) # {} =>
            \/ \E v \in db.votes : v.id = id
            \/ \A c \in ContentOf(db, plan.txs[id].ref) :
                 InHand(c.id, {"options", "mentions", "notify", "drop", "erase"}) \/ c.id \in torn
     /\ \A c \in db.contents :
          c.kind = "poll" => (\E p \in db.polls : p.id = c.id) \/ InHand(c.id, {"options"}) \/ c.id \in torn

\* Nothing by an author on the operator's denylist is stored, unless the purge is
\* still to come or was interrupted and not run since, or one of their transactions
\* was between the gate and the save when the purge ran, or passed the gate before
\* the memory caught up with the table.
DeniedStaysOut ==
  \A c \in db.contents :
    c.by \in db.denylist =>
      \/ <<"deny", c.by, 0>> \in raced \/ c.by \in owed
      \/ \E id \in Ids : plan.txs[id].kind = "block" /\ plan.txs[id].who[1] = c.by /\ InHand(id, {"purge"})

\* One transaction never pushes the same thing twice through crashes and
\* catch-ups: only a fetch that failed (its retry forgets the quiet mark) or a
\* reindex of a transaction the ingester still holds can repeat one.
PushedOnce ==
  \A p \in BagToSet(pushed) :
    pushed[p] = 1 \/ budget.error < plan.budget.error \/ budget.reindex < plan.budget.reindex

\* A recovered transaction that no worker finished is queued or in a worker's
\* hands, unless a statement failed since the last start: a restart forgets none,
\* those included that failed before it. (A row whose payload is no text is queued
\* again at every start and dropped by the worker each time.) And a walk that is shown as running runs,
\* unless the last write of the status failed: a restart does not leave the panel
\* refusing new requests.
NothingForgotten ==
  up /\ "requeue" \notin todo =>
    /\ \A r \in rec :
         \/ r.consumed \/ r.id \in missed \/ ~Readable(plan.txs[r.id])
         \/ \E w \in Workers : work[w].id = r.id \/ r.id \in Range(inbox[w])
    /\ (status = "running") = (walk.at # 0) \/ unwritten

\* A genuine broadcast leaves the pending queue stored, or after the whole
\* hour and enough connected attempts, however often the node came and went.
\* (A tip also leaves when its post is not indexed yet. And while broadcasts are
\* switched off, the retry loop takes every one it finds off the queue unstored,
\* those that the startup sweep has just put there included.)
NeverDroppedEarly ==
  [][\A r \in pending :
       LET tx == plan.txs[r.id]
       IN tx.kind = "bcast" /\ tx.as = "genuine" /\ tx.text # "bad" /\ plan.broadcasts
            /\ (\A q \in pending' : q.id # r.id) =>
            \/ \E b \in db.bcasts : b.id = r.id
            \/ r.attempts + 1 >= MinAttempts /\ now - r.first >= RetryFor]_vars

\* Under fair workers every queue drains: no worker waits for ever, startup
\* tasks finish, and recovered rows are all consumed or failed, but for those
\* whose payload is no text, which stay.
Drained ==
  /\ up /\ todo = {} /\ walk.at = 0
  /\ \A w \in Workers : At(w, "idle") /\ inbox[w] = <<>>
  /\ \A r \in rec : r.consumed \/ r.id \in missed \/ ~Readable(plan.txs[r.id])
Drains == <>[]Drained

Working(w) == IF w = Retrier THEN Handling(w) \/ HandlingPending(w)
              ELSE WorkerSteps(w) \/ Handling(w) \/ HandlingPending(w)
Background == Start \/ CatchUp \/ Requeue \/ SweepPending \/ WalkChecks \/ WalkStores
CanRun == ~up \/ todo # {} \/ walk.at # 0
Fairness ==
  /\ \A w \in Workers : WF_vars(Working(w))
  /\ []<>(~CanRun) \/ []<><<Background>>_vars
==============================================================================
