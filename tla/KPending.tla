------------------------------ MODULE KPending ------------------------------
(***************************************************************************)
(* Broadcasts and tips (process_broadcast_mode, process_k_tip_mode,        *)
(* bcast_pending.rs): both need an answer of the node. A worker that does  *)
(* not get one in time parks the transaction in kachat_bcast_pending, and  *)
(* one more actor, Retrier, asks again with a growing delay. It runs the   *)
(* same handlers, so it is one more entry of work.                         *)
(***************************************************************************)
EXTENDS KPosts

CONSTANTS Retrier,
          RetryFor,      \* RETRY_FOR_MS
          MinAttempts,   \* MIN_ATTEMPTS
          MaxBackoff,    \* MAX_BACKOFF_MS; FIRST_BACKOFF_MS is the unit
          PushMaxAge     \* PUSH_MAX_AGE_MS

\* Workers are numbered, as WORKER_COUNT makes them.
ASSUME WorkersAssumption ==
  /\ IsFiniteSet(Workers) /\ Workers # {} /\ Workers = 1 .. Cardinality(Workers)
  /\ Retrier \notin Workers
ASSUME PendingBounds == {RetryFor, MinAttempts, MaxBackoff, PushMaxAge} \subseteq Nat

VARIABLES raw,       \* ids in the ingester's transactions table
          rec,       \* kachat_recovered_transactions: [id, consumed]
          pending,   \* kachat_bcast_pending: [id, first, attempts, next]
          node,      \* [connected, accepted: ids a chain block accepts]
          now,
          dropped    \* history: transactions given up for good

nodeVars == <<node, now>>
pendingVars == <<raw, rec, pending, dropped>>

Everyone == Workers \cup {Retrier}
Live(w) == w # Retrier
Held(id) == id \in raw \/ \E r \in rec : r.id = id
Unparked == UNCHANGED <<pendingVars, nodeVars>>

\* backoff_ms and exhausted.
Backoff(attempts) == LET d == 2 ^ attempts IN IF d < MaxBackoff THEN d ELSE MaxBackoff
\* Mutant of Exhausted: the hour or the attempts, not both.
ExhaustedByEither(row, attempts) == now - row.first >= RetryFor \/ attempts >= MinAttempts
Exhausted(row, attempts) == now - row.first >= RetryFor /\ attempts >= MinAttempts

Parked(id) == \E r \in pending : r.id = id
Enqueued(id) ==
  IF Parked(id) THEN pending ELSE pending \cup {[id |-> id, first |-> now, attempts |-> 0, next |-> now + 1]}

\* Channel, length and content gates, then the block that holds it.
RouteBroadcast(w) ==
  /\ At(w, "route")
  /\ Goto(w, IF Tx(w).text # "bad" /\ (Live(w) => Held(Tx(w).id)) THEN "ask" ELSE "done")
  /\ Reads /\ Unparked

TipGates(w) ==
  /\ At(w, "target") /\ Handles(w, {"tip"})
  /\ Goto(w, IF TipTarget(db, Tx(w)) /\ (Live(w) => Held(Tx(w).id)) /\ plan.node THEN "ask" ELSE "done")
  /\ Reads /\ Unparked

\* resolve and judge: input 0 of the accepted transaction must be paid by
\* output 0. fetch_tx_outputs: the outputs of the block's transaction.
Answers(tx) == plan.node /\ node.connected /\ (tx.kind = "bcast" => tx.id \in node.accepted)
Judged(tx) == IF tx.as = "genuine" THEN "store" ELSE "done"

Resolve(w) ==
  /\ At(w, "ask") /\ Answers(Tx(w))
  /\ Goto(w, Judged(Tx(w)))
  /\ Reads /\ Unparked

\* No answer after the live attempts: parked, or dropped when no node is
\* configured; the retrier reports that it is still unknown.
GiveUp(w) ==
  LET park == Live(w) /\ plan.node
  IN /\ At(w, "ask") /\ ~Answers(Tx(w))
     /\ Goto(w, IF Live(w) THEN "done" ELSE "unknown")
     /\ pending' = IF park THEN Enqueued(Tx(w).id) ELSE pending
     /\ dropped' = IF Live(w) /\ ~park THEN dropped \cup {Tx(w).id} ELSE dropped
     /\ Reads /\ UNCHANGED <<raw, rec, nodeVars>>

NewBroadcast(d, tx) == \A b \in d.bcasts : b.id # tx.id
Stale(w) == ~Live(w) /\ now - Tx(w).time > PushMaxAge

StoreBroadcast(w) ==
  /\ At(w, "store") /\ Handles(w, {"bcast"})
  /\ db' = [db EXCEPT !.bcasts = @ \cup {[id |-> Tx(w).id, time |-> Tx(w).time, from |-> Tx(w).by]}]
  /\ Goto(w, IF NewBroadcast(db, Tx(w)) /\ ~Stale(w) /\ Tx(w).text # "reaction" THEN "notify" ELSE "done")
  /\ Writes /\ Unparked

StoreTip(w) ==
  /\ At(w, "store") /\ Handles(w, {"tip"})
  /\ db' = IF NewTip(db, Tx(w)) THEN SaveTip(db, Tx(w)) ELSE db
  /\ Goto(w, IF NewTip(db, Tx(w)) /\ ~Stale(w) THEN "notify" ELSE "done")
  /\ Writes /\ Unparked

NotifyStored(w) ==
  /\ At(w, "notify") /\ Handles(w, {"bcast", "tip"})
  /\ Push(w, {APush(Tx(w).kind, IF Handles(w, {"tip"}) THEN Tx(w).who[1] ELSE Tx(w).by, Tx(w))})
  /\ Goto(w, "done")
  /\ UNCHANGED <<plan, db, denied, raced, cut, owed, half>> /\ Unparked

\* The retry loop takes a due row while the node is connected.
TakePending ==
  /\ At(Retrier, "idle") /\ plan.node /\ node.connected
  /\ \E r \in pending :
       /\ r.next <= now
       /\ work' = [work EXCEPT ![Retrier] =
            [id |-> r.id, quiet |-> FALSE, memo |-> {},
             pc |-> IF plan.txs[r.id].kind = "tip" THEN "fresh" ELSE IF plan.broadcasts THEN "route" ELSE "done"]]
  /\ Reads /\ Unparked

PendingDone ==
  /\ At(Retrier, "done")
  /\ pending' = {r \in pending : r.id # work[Retrier].id}
  /\ work' = [work EXCEPT ![Retrier] = Idle]
  /\ Reads /\ UNCHANGED <<raw, rec, dropped, nodeVars>>

\* Still unknown: one more attempt, unless the node was lost meanwhile.
PendingUnknown ==
  /\ At(Retrier, "unknown")
  /\ \E r \in pending :
       /\ r.id = work[Retrier].id
       /\ LET n == r.attempts + 1
              give == node.connected /\ Exhausted(r, n)
          IN /\ pending' = CASE ~node.connected -> pending
                             [] give            -> pending \ {r}
                             [] OTHER           -> (pending \ {r}) \cup {[r EXCEPT !.attempts = n, !.next = now + Backoff(n)]}
             /\ dropped' = IF give THEN dropped \cup {r.id} ELSE dropped
  /\ work' = [work EXCEPT ![Retrier] = Idle]
  /\ Reads /\ UNCHANGED <<raw, rec, nodeVars>>

\* Startup sweep: broadcasts and tips of the last hour that are not stored.
Unstored(id) ==
  LET tx == plan.txs[id]
  IN /\ tx.time >= now - RetryFor
     /\ \/ tx.kind = "bcast" /\ NewBroadcast(db, tx)
        \/ tx.kind = "tip" /\ \A t \in db.tips : t.id # id
Swept ==
  pending \cup {[id |-> id, first |-> now, attempts |-> 0, next |-> now] : id \in {i \in raw : Unstored(i) /\ ~Parked(i)}}

HandlePending(w) ==
  \/ RouteBroadcast(w) \/ TipGates(w) \/ Resolve(w) \/ GiveUp(w)
  \/ StoreBroadcast(w) \/ StoreTip(w) \/ NotifyStored(w)
Retry == TakePending \/ PendingDone \/ PendingUnknown

\* The node comes and goes, chain blocks accept, time passes.
Connection ==
  /\ node' = [node EXCEPT !.connected = ~@]
  /\ UNCHANGED <<now>>
Acceptance(id) ==
  /\ id \in raw \ node.accepted
  /\ node' = [node EXCEPT !.accepted = @ \cup {id}]
  /\ UNCHANGED <<now>>
Tick ==
  /\ now < plan.until
  /\ now' = now + 1
  /\ UNCHANGED <<node>>
==============================================================================
