------------------------- MODULE KPipeline_delivery --------------------------
(***************************************************************************)
(* What leaves the transaction processor, for any workers, any plan of     *)
(* transactions and faults and any times: no broadcast leaves the queue    *)
(* of retries before its time, and nothing is pushed twice.                *)
(*                                                                         *)
(* The retry loop is never past the insert of a genuine broadcast that is  *)
(* not stored (RetryStage), and no statement takes a stored one away.      *)
(*                                                                         *)
(* Broadcasts and tips are pushed by whoever adds their row (GateOnce).    *)
(* Everything else is pushed by a worker that has it to itself; a second   *)
(* copy is in a box only if the catch-up put it there and marked it quiet  *)
(* (Once), as long as no statement failed and no reindex was asked for.    *)
(***************************************************************************)
EXTENDS KPipeline_proofs

-----------------------------------------------------------------------------
(* The retry loop.                                                         *)

\* Broadcasts that nothing but the node's answer keeps from being stored.
Clear(id) == Kind(id) = "bcast" /\ plan.txs[id].as = "genuine" /\ plan.txs[id].text # "bad" /\ plan.broadcasts
Stored(id) == \E b \in db.bcasts : b.id = id

\* Where the retry loop is with one of them: it is not past the insert unstored.
RetryPcs == {"idle", "route", "ask", "store", "notify", "done", "unknown"}
RetryStage ==
    work[Retrier].pc # "idle" /\ Clear(work[Retrier].id) =>
        /\ work[Retrier].pc \in RetryPcs
        /\ work[Retrier].pc \in {"notify", "done"} => Stored(work[Retrier].id)
RowLike(r) == r = [id |-> r.id, first |-> r.first, attempts |-> r.attempts, next |-> r.next]
RInv == CInv /\ {"bcasts", "tips"} \subseteq DOMAIN db /\ (\A r \in pending : RowLike(r)) /\ RetryStage

\* No statement takes a broadcast or a tip away.
Holds(d) == {"bcasts", "tips"} \subseteq DOMAIN d /\ db.bcasts \subseteq d.bcasts /\ db.tips \subseteq d.tips

LEMMA StatementsHold ==
    ASSUME TableLike(db), {"bcasts", "tips"} \subseteq DOMAIN db, NEW tx
    PROVE  /\ Holds(db) /\ Holds(SavePollOptions(db, tx)) /\ Holds(RecordDelete(db, tx))
           /\ Holds(SaveBallot(db, tx)) /\ Holds(Bury(db, tx)) /\ Holds(SavePollMentions(db, tx))
           /\ Holds(SaveTip(db, tx)) /\ Holds(Unvote(db, tx)) /\ Holds(Unquote(db, tx))
           /\ \A memo : Holds(CastVote(db, tx, memo))
           /\ \A kind : Holds(AddEditMentions(db, tx, kind))
           /\ \A who : Holds(Deny(db, who)) /\ Holds(Allow(db, who)) /\ Holds(Purge(db, who))
           /\ \A post, author : Holds(HardDelete(db, post, author))
           /\ Holds(Claimed(db, tx)) /\ Holds(RecordEdit(db, tx)) /\ Holds(ApplyEdit(db, tx))
           /\ Holds(RecordRelation(db, tx)) /\ Holds(Follow(db, tx)) /\ Holds(Unfollow(db, tx))
           /\ Holds(Block(db, tx)) /\ Holds(Unblock(db, tx))
           /\ \A seen : Holds(SaveProfile(db, tx, seen))
           /\ tx.kind \in Content => Holds(SaveContent(db, tx))
<1>1. Holds(db) /\ Holds(SavePollOptions(db, tx)) /\ Holds(RecordDelete(db, tx)) /\ Holds(SaveBallot(db, tx))
    BY DEF Holds, SavePollOptions, RecordDelete, SaveBallot
<1>2. Holds(Bury(db, tx)) /\ Holds(SavePollMentions(db, tx)) /\ Holds(SaveTip(db, tx))
    BY DEF Holds, Bury, SavePollMentions, SaveTip
<1>3. Holds(Unvote(db, tx)) /\ Holds(Unquote(db, tx))
    BY DEF Holds, Unvote, Unquote
<1>4. ASSUME NEW memo
      PROVE  Holds(CastVote(db, tx, memo))
    <2> DEFINE cleared == [db EXCEPT !.votes = @ \ memo, !.mentions = @ \ VoteMentions(db, memo)]
    <2>1. DOMAIN cleared = DOMAIN db /\ cleared = [f \in DOMAIN cleared |-> cleared[f]] /\ cleared.bcasts = db.bcasts
           /\ cleared.tips = db.tips
        OBVIOUS
    <2> HIDE DEF cleared
    <2>2. PICK row : row = [id |-> tx.id, by |-> tx.by, sig |-> tx.sig, time |-> tx.time, post |-> tx.ref, vote |-> tx.as]
        OBVIOUS
    <2>3. PICK m : m = Mention(tx.id, "vote", tx.who[1], tx.by)
        OBVIOUS
    <2>4. \/ CastVote(db, tx, memo) = cleared
          \/ CastVote(db, tx, memo) = [cleared EXCEPT !.votes = @ \cup {row}, !.mentions = @ \cup {m}]
        BY <2>2, <2>3 DEF CastVote, cleared
    <2>5. Holds(cleared) /\ Holds([cleared EXCEPT !.votes = @ \cup {row}, !.mentions = @ \cup {m}])
        BY <2>1 DEF Holds
    <2> QED  BY <2>4, <2>5
<1>5. \A kind : Holds(AddEditMentions(db, tx, kind))
    BY DEF Holds, AddEditMentions
<1>6. \A who : Holds(Deny(db, who)) /\ Holds(Allow(db, who)) /\ Holds(Purge(db, who))
    BY DEF Holds, Deny, Allow, Purge
<1>7. \A post, author : Holds(HardDelete(db, post, author))
    BY DEF Holds, HardDelete
<1>8. Holds(Claimed(db, tx)) /\ Holds(RecordEdit(db, tx)) /\ Holds(ApplyEdit(db, tx)) /\ Holds(RecordRelation(db, tx))
    BY DEF Holds, Claimed, RecordEdit, ApplyEdit, RecordRelation
<1>9. Holds(Follow(db, tx)) /\ Holds(Unfollow(db, tx)) /\ Holds(Block(db, tx)) /\ Holds(Unblock(db, tx))
    BY DEF Holds, Follow, Unfollow, Block, Unblock
<1>10. \A seen : Holds(SaveProfile(db, tx, seen))
    BY DEF Holds, SaveProfile
<1>11. tx.kind \in Content => Holds(SaveContent(db, tx))
    <2>1. Holds(SavePost(db, tx)) /\ Holds(SaveReply(db, tx)) /\ Holds(SaveQuote(db, tx)) /\ Holds(SavePoll(db, tx))
        BY DEF Holds, SavePost, SaveReply, SaveQuote, SavePoll
    <2> QED  BY <2>1 DEF SaveContent, Content
<1> QED  BY <1>1, <1>2, <1>3, <1>4, <1>5, <1>6, <1>7, <1>8, <1>9, <1>10, <1>11

LEMMA HandlersHold ==
    ASSUME CInv, {"bcasts", "tips"} \subseteq DOMAIN db, NEW w \in Everyone, Handle(w) \/ HandlePending(w)
    PROVE  Holds(db')
<1> DEFINE tx == Tx(w)
<1>0. TableLike(db) /\ KInv
    BY DEF CInv
<1>1. CASE \/ DeletedBefore(w) \/ NotifyContent(w) \/ DropIfDeleted(w) \/ TargetIndexed(w) \/ ReplaceVote(w)
           \/ NotifyVote(w) \/ Original(w) \/ Related(w) \/ NotifyFollow(w) \/ DenyInMemory(w) \/ OpenLedger(w)
           \/ RouteBroadcast(w) \/ TipGates(w) \/ Resolve(w) \/ GiveUp(w) \/ NotifyStored(w)
    <2>1. db' = db
        BY <1>1 DEF DeletedBefore, NotifyContent, DropIfDeleted, TargetIndexed, ReplaceVote, NotifyVote, Original, Related,
                    NotifyFollow, DenyInMemory, OpenLedger, RouteBroadcast, TipGates, Resolve, GiveUp, NotifyStored, Reads
    <2> QED  BY <1>0, <2>1, StatementsHold
<1>2. CASE \/ SaveOptions(w) \/ SaveMentions(w) \/ PollVote(w) \/ Tombstone(w) \/ AuditDelete(w) \/ EditMentions(w)
           \/ AuditEdit(w) \/ EditContent(w) \/ RelationIsNewest(w) \/ CommitProfile(w)
    BY <1>0, <1>2, StatementsHold DEF SaveOptions, SaveMentions, PollVote, Tombstone, AuditDelete, EditMentions,
           AuditEdit, EditContent, RelationIsNewest, CommitProfile
<1>3. CASE CommitVote(w) \/ StoreTip(w) \/ DenyTarget(w) \/ AllowTarget(w) \/ PurgeTarget(w)
    <2>1. db' \in {db, CastVote(db, tx, work[w].memo), SaveTip(db, tx), Deny(db, tx.who[1]), Allow(db, tx.who[1]),
                   Purge(db, tx.who[1])}
        BY <1>3 DEF CommitVote, StoreTip, DenyTarget, AllowTarget, PurgeTarget
    <2> QED  BY <1>0, <2>1, StatementsHold
<1>4. CASE Withdraw(w) \/ Erase(w) \/ SaveFollow(w) \/ SaveBlock(w) \/ SignatureIsFresh(w)
    <2>1. \/ db' \in {db, Unquote(db, tx), Unvote(db, tx), Follow(db, tx), Unfollow(db, tx), Block(db, tx), Unblock(db, tx),
                      Claimed(db, tx)}
          \/ \E post, author : db' = HardDelete(db, post, author)
        BY <1>4 DEF Withdraw, Erase, SaveFollow, SaveBlock, SignatureIsFresh
    <2> QED  BY <1>0, <2>1, StatementsHold
<1>5. CASE Save(w)
    <2>1. tx.kind \in Content /\ db' \in {db, SaveContent(db, tx)}
        BY <1>0, <1>5 DEF Save, At, KInv, Staged, InStage, Tx, Kind
    <2> QED  BY <1>0, <2>1, StatementsHold
<1>6. CASE StoreBroadcast(w)
    <2>1. PICK row : db' = [db EXCEPT !.bcasts = @ \cup {row}]
        BY <1>6 DEF StoreBroadcast
    <2> QED  BY <1>0, <2>1 DEF TableLike, Holds
<1> QED  BY <1>1, <1>2, <1>3, <1>4, <1>5, <1>6 DEF Handle, HandlePending

\* What the handlers do with a broadcast.
LEMMA BroadcastsStep ==
    ASSUME RInv, Handle(Retrier) \/ HandlePending(Retrier), Clear(work[Retrier].id)
    PROVE  \E next \in RetryPcs :
               Goto(Retrier, next) /\ (next \in {"notify", "done"} => Stored(work[Retrier].id)')
<1> DEFINE w == Retrier
           id == work[w].id
           tx == Tx(w)
<1>1. CInv /\ KInv /\ w \in Everyone /\ {"bcasts", "tips"} \subseteq DOMAIN db
    BY DEF RInv, CInv, Everyone
<1>2. tx = plan.txs[id] /\ tx.kind = "bcast" /\ tx.as = "genuine" /\ tx.text # "bad"
    BY DEF Clear, Tx, Kind
<1>3. work[w].pc # "idle"
    BY DEF Handle, HandlePending, DeletedBefore, SignatureIsFresh, Save, SaveOptions, SaveMentions, NotifyContent,
           DropIfDeleted, Erase, Withdraw, TargetIndexed, ReplaceVote, CommitVote, NotifyVote, PollVote, Original, AuditEdit,
           EditContent, EditMentions, Tombstone, AuditDelete, Related, RelationIsNewest, SaveFollow, NotifyFollow, SaveBlock,
           DenyTarget, PurgeTarget, DenyInMemory, AllowTarget, OpenLedger, CommitProfile, RouteBroadcast, TipGates, Resolve,
           GiveUp, StoreBroadcast, StoreTip, NotifyStored, At
<1>4. work[w].pc \in {"route", "ask", "store", "notify"} /\ (work[w].pc = "notify" => Stored(id))
    <2>1. work[w].pc \in RetryPcs /\ (work[w].pc = "notify" => Stored(id))
        BY <1>3 DEF RInv, RetryStage
    <2>2. work[w].pc \notin {"done", "unknown"}
        BY DEF Handle, HandlePending, DeletedBefore, SignatureIsFresh, Save, SaveOptions, SaveMentions, NotifyContent,
           DropIfDeleted, Erase, Withdraw, TargetIndexed, ReplaceVote, CommitVote, NotifyVote, PollVote, Original, AuditEdit,
           EditContent, EditMentions, Tombstone, AuditDelete, Related, RelationIsNewest, SaveFollow, NotifyFollow, SaveBlock,
           DenyTarget, PurgeTarget, DenyInMemory, AllowTarget, OpenLedger, CommitProfile, RouteBroadcast, TipGates, Resolve,
           GiveUp, StoreBroadcast, StoreTip, NotifyStored, At
    <2> QED  BY <1>3, <2>1, <2>2 DEF RetryPcs
<1>5. RouteBroadcast(w) \/ Resolve(w) \/ GiveUp(w) \/ StoreBroadcast(w) \/ NotifyStored(w)
    <2>1. ~(\/ DeletedBefore(w) \/ SignatureIsFresh(w) \/ Save(w) \/ SaveOptions(w) \/ SaveMentions(w) \/ DropIfDeleted(w)
            \/ Erase(w) \/ Withdraw(w) \/ TargetIndexed(w) \/ ReplaceVote(w) \/ CommitVote(w) \/ PollVote(w) \/ Original(w)
            \/ AuditEdit(w) \/ EditContent(w) \/ EditMentions(w) \/ Tombstone(w) \/ AuditDelete(w))
        BY <1>4 DEF DeletedBefore, SignatureIsFresh, Save, SaveOptions, SaveMentions, DropIfDeleted, Erase, Withdraw,
                    TargetIndexed, ReplaceVote, CommitVote, PollVote, Original, AuditEdit, EditContent, EditMentions,
                    Tombstone, AuditDelete, At
    <2>2. ~(\/ Related(w) \/ RelationIsNewest(w) \/ SaveFollow(w) \/ SaveBlock(w) \/ DenyTarget(w) \/ PurgeTarget(w)
            \/ DenyInMemory(w) \/ AllowTarget(w) \/ OpenLedger(w) \/ CommitProfile(w) \/ TipGates(w))
        BY <1>4 DEF Related, RelationIsNewest, SaveFollow, SaveBlock, DenyTarget, PurgeTarget, DenyInMemory, AllowTarget,
                    OpenLedger, CommitProfile, TipGates, At
    <2>3. ~(NotifyContent(w) \/ NotifyVote(w) \/ NotifyFollow(w) \/ StoreTip(w))
        BY <1>2 DEF NotifyContent, NotifyVote, NotifyFollow, StoreTip, Handles, Content
    <2> QED  BY <2>1, <2>2, <2>3 DEF Handle, HandlePending
<1>6. CASE RouteBroadcast(w)
    BY <1>2, <1>6 DEF RouteBroadcast, Live, RetryPcs
<1>7. CASE Resolve(w)
    BY <1>2, <1>7 DEF Resolve, Judged, RetryPcs
<1>8. CASE GiveUp(w)
    BY <1>8 DEF GiveUp, Live, RetryPcs
<1>9. CASE StoreBroadcast(w)
    <2>1. PICK row : row = [id |-> tx.id, time |-> tx.time, from |-> tx.by]
        OBVIOUS
    <2>2. tx.id = id
        BY <1>1, <1>2, <1>3, <1>4, IdsFact, PlansAssumption DEF KInv, Known, Staged, InStage, Ids
    <2>3. row \in db'.bcasts /\ row.id = id
        BY <1>1, <1>9, <2>1, <2>2 DEF StoreBroadcast, CInv, TableLike
    <2>4. work'[w].id = id
        BY <1>1, <1>9, MemoMoves DEF StoreBroadcast, Moves, KInv, Shaped
    <2>5. Stored(work[w].id)'
        BY <2>3, <2>4 DEF Stored
    <2> QED  BY <1>9, <2>5 DEF StoreBroadcast, RetryPcs
<1>10. CASE NotifyStored(w)
    <2>1. db' = db /\ Goto(w, "done") /\ work[w].pc = "notify"
        BY <1>10 DEF NotifyStored, At
    <2>2. work'[w].id = id
        BY <1>1, <2>1, MemoMoves DEF Moves, KInv, Shaped
    <2> QED  BY <1>4, <2>1, <2>2 DEF Stored, RetryPcs
<1> QED  BY <1>5, <1>6, <1>7, <1>8, <1>9, <1>10

\* What a step that takes no broadcast away and leaves the retry loop where it is,
\* or puts it where nothing is asked of it, keeps.
Waits(v) ==
    \/ work'[v] = work[v]
    \/ work'[v].pc \in {"idle", "route", "unknown"}
    \/ ~Clear(work'[v].id)

LEMMA AroundHolds ==
    ASSUME RInv, CInv', plan' = plan, Holds(db'), \A r \in pending' : RowLike(r), Waits(Retrier)
    PROVE  RInv'
<1>1. Ids' = Ids /\ \A id : Clear(id)' = Clear(id)
    BY DEF Ids, Clear, Kind
<1>2. ASSUME NEW id, Stored(id)
      PROVE  Stored(id)'
    BY <1>2 DEF Stored, Holds
<1>3. RetryStage'
    <2>1. CASE work'[Retrier] = work[Retrier]
        <3>1. PICK id : id = work[Retrier].id
            OBVIOUS
        <3>2. Stored(id) => Stored(id)'
            BY <1>2
        <3>3. work'[Retrier].id = id /\ work'[Retrier].pc = work[Retrier].pc /\ (Stored(work[Retrier].id) => Stored(id)')
            BY <2>1, <3>1, <3>2
        <3>4. Stored(work[Retrier].id)' = Stored(id)'
            BY <3>3 DEF Stored
        <3>5. Clear(work[Retrier].id)' => Clear(work[Retrier].id)
            BY <2>1 DEF Clear, Kind
        <3> QED  BY <2>1, <3>3, <3>4, <3>5 DEF RInv, RetryStage
    <2>2. CASE work'[Retrier].pc \in {"idle", "route", "unknown"}
        BY <2>2 DEF RetryStage, RetryPcs
    <2>3. CASE ~Clear(work'[Retrier].id)
        <3>1. ~(Clear(work[Retrier].id)')
            BY <2>3 DEF Clear, Kind
        <3> QED  BY <3>1 DEF RetryStage
    <2> QED  BY <2>1, <2>2, <2>3 DEF Waits
<1>4. (\A r \in pending : RowLike(r))'
    BY DEF RowLike
<1> QED  BY <1>3, <1>4 DEF RInv, Holds

LEMMA HandlersKeepR ==
    ASSUME RInv, CInv', NEW w \in Everyone, Handling(w) \/ HandlingPending(w)
    PROVE  RInv'
<1>1. /\ CInv /\ KInv /\ WorkShape /\ (Handle(w) \/ HandlePending(w)) /\ Holds(db') /\ UNCHANGED torn
    BY HandlersHold DEF RInv, CInv, KInv, Shaped, Handling, HandlingPending, pipeVars
<1>2. plan' = plan
    <2>1. PICK next : Steps(w, next)
        BY <1>1, HandlersStep
    <2> QED  BY <2>1 DEF Steps
<1>3. \A r \in pending' : RowLike(r)
    <2>1. CASE GiveUp(w)
        <3>1. pending' = pending \/ pending' = Enqueued(Tx(w).id)
            BY <2>1 DEF GiveUp
        <3>2. ASSUME NEW id
              PROVE  \A r \in Enqueued(id) : RowLike(r)
            BY DEF Enqueued, RInv, RowLike
        <3> QED  BY <3>1, <3>2 DEF RInv
    <2>2. CASE ~GiveUp(w)
        <3>1. pending' = pending
            BY <2>2 DEF Handling, HandlingPending, HandlePending, RouteBroadcast, TipGates, Resolve, StoreBroadcast, StoreTip,
                        NotifyStored, Unparked, pendingVars
        <3> QED  BY <3>1 DEF RInv
    <2> QED  BY <2>1, <2>2
<1>4. PICK to : Moves(w, to)
    BY <1>1, HandlersLead
<1>5. work'[w].id = work[w].id /\ \A v \in Everyone : v # w => work'[v] = work[v]
    BY <1>1, <1>4, MemoMoves
<1>6. CASE w # Retrier
    <2>1. Waits(Retrier)
        BY <1>5, <1>6 DEF Waits, Everyone
    <2> QED  BY <1>1, <1>2, <1>3, <2>1, AroundHolds
<1>7. CASE w = Retrier /\ ~Clear(work[Retrier].id)
    <2>1. Waits(Retrier)
        BY <1>2, <1>5, <1>7 DEF Waits, Clear, Kind
    <2> QED  BY <1>1, <1>2, <1>3, <2>1, AroundHolds
<1>8. CASE w = Retrier /\ Clear(work[Retrier].id)
    <2>1. PICK next \in RetryPcs : Goto(Retrier, next) /\ (next \in {"notify", "done"} => Stored(work[Retrier].id)')
        BY <1>1, <1>8, BroadcastsStep
    <2>2. work'[Retrier].pc = next
        BY <1>1, <1>8, <2>1, MemoMoves
    <2>3. RetryStage'
        BY <2>1, <2>2 DEF RetryStage, RetryPcs
    <2>4. (\A r \in pending : RowLike(r))'
        BY <1>3 DEF RowLike
    <2> QED  BY <1>1, <2>3, <2>4 DEF RInv, Holds
<1> QED  BY <1>6, <1>7, <1>8

LEMMA LaterRow ==
    ASSUME NEW r, RowLike(r), NEW n, NEW t
    PROVE  /\ RowLike([r EXCEPT !.attempts = n, !.next = t])
           /\ [r EXCEPT !.attempts = n, !.next = t].id = r.id
<1> DEFINE q == [r EXCEPT !.attempts = n]
<1>1. q = [id |-> r.id, first |-> r.first, attempts |-> n, next |-> r.next]
    BY DEF RowLike
<1> HIDE DEF q
<1>2. [q EXCEPT !.next = t] = [id |-> r.id, first |-> r.first, attempts |-> n, next |-> t]
    BY <1>1
<1>3. [r EXCEPT !.attempts = n, !.next = t] = [q EXCEPT !.next = t]
    BY DEF q
<1> QED  BY <1>2, <1>3 DEF RowLike

LEMMA RetryKeepsR ==
    ASSUME RInv, CInv', Retrying
    PROVE  RInv'
<1>1. CInv /\ WorkShape /\ UNCHANGED <<plan, db>> /\ Retrier \in Everyone
    BY DEF RInv, CInv, KInv, Shaped, Retrying, Retry, TakePending, PendingDone, PendingUnknown, Reads, pipeVars, Everyone
<1>2. Holds(db')
    BY <1>1 DEF RInv, Holds
<1>3. CASE TakePending
    <2>1. PICK r \in pending :
            work' = [work EXCEPT ![Retrier] =
              [id |-> r.id, quiet |-> FALSE, memo |-> {},
               pc |-> IF plan.txs[r.id].kind = "tip" THEN "fresh" ELSE IF plan.broadcasts THEN "route" ELSE "done"]]
        BY <1>3 DEF TakePending
    <2> DEFINE pc == IF plan.txs[r.id].kind = "tip" THEN "fresh" ELSE IF plan.broadcasts THEN "route" ELSE "done"
    <2>2. work'[Retrier].pc = pc /\ work'[Retrier].id = r.id
        BY <1>1, <2>1, PlacesAre
    <2>3. Waits(Retrier)
        BY <1>1, <2>2 DEF Waits, Clear, Kind
    <2>4. pending' = pending
        BY <1>3 DEF TakePending, Unparked, pendingVars
    <2> QED  BY <1>1, <1>2, <2>3, <2>4, AroundHolds DEF RInv
<1>4. CASE PendingDone \/ PendingUnknown
    <2>1. work' = [work EXCEPT ![Retrier] = Idle]
        BY <1>4 DEF PendingDone, PendingUnknown
    <2>2. Waits(Retrier)
        BY <1>1, <2>1, PlacesAre DEF Waits, Idle
    <2>3. \A r \in pending' : RowLike(r)
        <3>1. CASE PendingDone
            BY <3>1 DEF PendingDone, RInv
        <3>2. CASE PendingUnknown
            <4>1. PICK r \in pending :
                    pending' \in {pending, pending \ {r},
                                  (pending \ {r}) \cup {[r EXCEPT !.attempts = r.attempts + 1, !.next = now + Backoff(r.attempts + 1)]}}
                BY <3>2 DEF PendingUnknown
            <4>2. \A q \in pending' : q \in pending \/ \E n, t : q = [r EXCEPT !.attempts = n, !.next = t]
                BY <4>1
            <4>3. \A q \in pending : RowLike(q)
                BY DEF RInv
            <4>4. ASSUME NEW q \in pending', q \notin pending
                  PROVE  RowLike(q)
                <5>1. PICK n, t : q = [r EXCEPT !.attempts = n, !.next = t]
                    BY <4>2, <4>4
                <5> QED  BY <4>3, <5>1, LaterRow
            <4> QED  BY <4>3, <4>4
        <3> QED  BY <1>4, <3>1, <3>2
    <2> QED  BY <1>1, <1>2, <2>2, <2>3, AroundHolds
<1> QED  BY <1>3, <1>4 DEF Retrying, Retry

LEMMA OthersKeepR ==
    ASSUME RInv, CInv',
           \/ \E w \in Workers : WorkerSteps(w) \/ FetchFails(w) \/ RefetchFails(w) \/ MarkFails(w)
           \/ Crash \/ \E w \in Everyone : StatementFails(w)
    PROVE  RInv'
<1>1. CInv /\ WorkShape /\ Retrier \in Everyone
    BY DEF RInv, CInv, KInv, Shaped, Everyone
<1>2. UNCHANGED <<plan, db, pending>>
    BY DEF WorkerSteps, Fetch, Refetch, Consume, FetchFails, RefetchFails, MarkFails, Crash, StatementFails, pendingVars
<1>3. Holds(db')
    BY <1>2 DEF RInv, Holds
<1>4. ASSUME Waits(Retrier)
      PROVE  RInv'
    BY <1>2, <1>3, <1>4, AroundHolds DEF RInv
<1>5. ASSUME NEW w \in Workers, WorkerSteps(w) \/ FetchFails(w) \/ RefetchFails(w) \/ MarkFails(w)
      PROVE  RInv'
    <2>1. work' = work \/ \E r : work' = [work EXCEPT ![w] = r]
        BY <1>5 DEF WorkerSteps, Fetch, Refetch, Consume, FetchFails, RefetchFails, MarkFails, Take
    <2>2. work'[Retrier] = work[Retrier]
        BY <1>1, <2>1, PlacesAre, WorkersAssumption
    <2> QED  BY <1>4, <2>2 DEF Waits
<1>6. CASE Crash
    <2>1. work'[Retrier] = Idle
        BY <1>1, <1>6 DEF Crash
    <2> QED  BY <1>4, <2>1 DEF Waits, Idle
<1>7. ASSUME NEW w \in Everyone, StatementFails(w)
      PROVE  RInv'
    <2>1. w # Retrier => work' = [work EXCEPT ![w] = Idle]
        BY <1>7 DEF StatementFails
    <2>2. w = Retrier => work'[Retrier].pc = "unknown"
        <3> DEFINE old == work[w]
        <3>1. w = Retrier => work' = [work EXCEPT ![w] = [old EXCEPT !.pc = "unknown"]]
            BY <1>1, <1>7, PlacesAre DEF StatementFails
        <3>2. [old EXCEPT !.pc = "unknown"].pc = "unknown"
            BY <1>1, PlacesAre
        <3> QED  BY <1>1, <3>1, <3>2, PlacesAre
    <2> QED  BY <1>1, <1>4, <2>1, <2>2, PlacesAre DEF Waits
<1> QED  BY <1>5, <1>6, <1>7

LEMMA StillKeepsR ==
    ASSUME RInv, CInv',
           \/ Ingest \/ (\E id \in raw : PruneRaw(id)) \/ Listen \/ ListenerFails
           \/ Refresh \/ NodeSteps \/ Start \/ CatchUp \/ Requeue \/ RequeueFails \/ SweepPending
           \/ (\E force \in BOOLEAN : RequestReindex(force))
           \/ BeginWalk \/ WalkChecks \/ WalkStores \/ WalkFails \/ PruneRecovered \/ UNCHANGED vars
    PROVE  RInv'
<1>1. UNCHANGED <<plan, db, work>>
    BY DEF Ingest, PruneRaw, Listen, ListenerFails, Refresh, RefreshDenylist, NodeSteps, Start, CatchUp, Requeue,
           RequeueFails, SweepPending, RequestReindex, BeginWalk, WalkChecks, WalkStores, WalkFails, PruneRecovered,
           storeVars, pendingVars, pipeVars, vars
<1>2. \A r \in pending' : RowLike(r)
    <2>1. CASE SweepPending
        <3>1. \A r \in Swept : RowLike(r)
            BY DEF Swept, RInv, RowLike
        <3> QED  BY <2>1, <3>1 DEF SweepPending, RInv
    <2>2. CASE ~SweepPending
        <3>1. pending' = pending
            BY <2>2 DEF Ingest, PruneRaw, Listen, ListenerFails, Refresh, RefreshDenylist, NodeSteps, Start, CatchUp, Requeue,
                   RequeueFails, RequestReindex, BeginWalk, WalkChecks, WalkStores, WalkFails, PruneRecovered,
                   storeVars, pendingVars, pipeVars, vars
        <3> QED  BY <3>1 DEF RInv
    <2> QED  BY <2>1, <2>2
<1>3. Holds(db')
    BY <1>1 DEF RInv, Holds
<1> QED  BY <1>1, <1>2, <1>3, AroundHolds DEF Waits

LEMMA InitHoldsR ==
    ASSUME Init
    PROVE  RInv
<1>1. CInv
    BY InitClaims
<1>2. {"bcasts", "tips"} \subseteq DOMAIN db /\ pending = {} /\ work[Retrier].pc = "idle"
    BY DEF Init, EmptyTables, Idle, Everyone
<1> QED  BY <1>1, <1>2 DEF RInv, RetryStage

LEMMA NextKeepsR ==
    ASSUME RInv, [Next]_vars
    PROVE  RInv'
<1>1. CInv'
    BY NextClaims DEF RInv
<1>2. CASE \E w \in Everyone : Handling(w) \/ HandlingPending(w) \/ StatementFails(w)
    BY <1>1, <1>2, HandlersKeepR, OthersKeepR
<1> QED  BY <1>1, <1>2, RetryKeepsR, OthersKeepR, StillKeepsR DEF Next

\* A row that leaves the queue: the retry loop is done with it, or gives it up.
LEMMA LeavesStored ==
    ASSUME RInv, [Next]_vars, NEW r \in pending, \A q \in pending' : q.id # r.id
    PROVE  \/ Clear(r.id) => Stored(r.id)
           \/ r.attempts + 1 >= MinAttempts /\ now - r.first >= RetryFor
<1>1. r \notin pending'
    OBVIOUS
<1>2. CASE Retrying
    <2>1. CASE TakePending
        BY <1>1, <2>1 DEF TakePending, Unparked, pendingVars
    <2>2. CASE PendingDone
        <3>1. r.id = work[Retrier].id /\ work[Retrier].pc = "done"
            BY <1>1, <2>2 DEF PendingDone, At
        <3> QED  BY <3>1 DEF RInv, RetryStage
    <2>3. CASE PendingUnknown
        <3>1. PICK q \in pending :
                /\ pending' = CASE ~node.connected -> pending
                                [] node.connected /\ Exhausted(q, q.attempts + 1) -> pending \ {q}
                                [] OTHER -> (pending \ {q}) \cup
                                     {[q EXCEPT !.attempts = q.attempts + 1, !.next = now + Backoff(q.attempts + 1)]}
            BY <2>3 DEF PendingUnknown
        <3>2. q = r
            BY <1>1, <3>1
        <3>3. ASSUME NEW n, NEW t
              PROVE  [r EXCEPT !.attempts = n, !.next = t].id = r.id
            <4>1. RowLike(r)
                BY DEF RInv
            <4>2. PICK later : later = [r EXCEPT !.attempts = n, !.next = t]
                OBVIOUS
            <4>3. later.id = r.id
                BY <4>1, <4>2, LaterRow, Zenon
            <4> QED  BY <4>2, <4>3
        <3>4. Exhausted(r, r.attempts + 1)
            BY <1>1, <3>1, <3>2, <3>3
        <3> QED  BY <3>4 DEF Exhausted
    <2> QED  BY <1>2, <2>1, <2>2, <2>3 DEF Retrying, Retry
<1>3. CASE SweepPending
    BY <1>1, <1>3 DEF SweepPending, Swept
<1>4. CASE \E w \in Everyone : Handling(w) \/ HandlingPending(w)
    BY <1>1, <1>4 DEF Handling, HandlingPending, HandlePending, RouteBroadcast, TipGates, Resolve, GiveUp, Enqueued,
                      StoreBroadcast, StoreTip, NotifyStored, Unparked, pendingVars
<1>5. CASE ~Retrying /\ ~SweepPending /\ ~\E w \in Everyone : Handling(w) \/ HandlingPending(w)
    <2>1. pending' = pending
        <3>1. CASE \/ \E w \in Workers : WorkerSteps(w) \/ FetchFails(w) \/ RefetchFails(w) \/ MarkFails(w)
                   \/ Crash \/ \E w \in Everyone : StatementFails(w)
            BY <3>1 DEF WorkerSteps, Fetch, Refetch, Consume, FetchFails, RefetchFails, MarkFails, Crash, StatementFails,
                        pendingVars
        <3>2. CASE \/ Ingest \/ (\E id \in raw : PruneRaw(id)) \/ Listen \/ ListenerFails
                   \/ Refresh \/ NodeSteps \/ Start \/ CatchUp \/ Requeue \/ RequeueFails
                   \/ (\E force \in BOOLEAN : RequestReindex(force))
                   \/ BeginWalk \/ WalkChecks \/ WalkStores \/ WalkFails \/ PruneRecovered \/ UNCHANGED vars
            BY <3>2 DEF Ingest, PruneRaw, Listen, ListenerFails, Refresh, RefreshDenylist, NodeSteps, Start, CatchUp, Requeue,
                   RequeueFails, RequestReindex, BeginWalk, WalkChecks, WalkStores, WalkFails, PruneRecovered,
                   storeVars, pendingVars, pipeVars, vars
        <3> QED  BY <1>5, <3>1, <3>2 DEF Next
    <2> QED  BY <1>1, <2>1
<1> QED  BY <1>2, <1>3, <1>4, <1>5

\* While broadcasts are switched on, a genuine one leaves the pending queue stored,
\* or after the whole hour and enough connected attempts, whatever the node, the
\* workers and restarts do meanwhile (bcast_pending.rs run, retry_broadcast).
THEOREM NeverDroppedTheorem == Spec => NeverDroppedEarly
<1>1. Init => RInv
    BY InitHoldsR
<1>2. RInv /\ [Next]_vars => RInv'
    BY NextKeepsR
<1> DEFINE Leaves ==
        \A r \in pending :
            LET tx == plan.txs[r.id]
            IN tx.kind = "bcast" /\ tx.as = "genuine" /\ tx.text # "bad" /\ plan.broadcasts
                 /\ (\A q \in pending' : q.id # r.id) =>
                   \/ \E b \in db.bcasts : b.id = r.id
                   \/ r.attempts + 1 >= MinAttempts /\ now - r.first >= RetryFor
<1>3. RInv /\ [Next]_vars => Leaves
    BY LeavesStored DEF Clear, Stored, Kind
<1>4. RInv /\ [Next]_vars => [Leaves]_vars
    BY <1>3
<1> QED  BY <1>1, <1>2, <1>4, PTL DEF Spec, NeverDroppedEarly
-----------------------------------------------------------------------------
(* Nothing is pushed twice.                                                *)

\* Broadcasts and tips are pushed by whoever adds their row.
NodeKinds == {"bcast", "tip"}
InTables(id) == IF Kind(id) = "tip" THEN \E t \in db.tips : t.id = id ELSE Stored(id)
PushedFor(id) == \E p \in DOMAIN pushed : p.tx = id
Announces(w, id) == work[w].pc = "notify" /\ work[w].id = id /\ Kind(id) \in NodeKinds
GateOnce ==
    \A id : \A w \in Everyone : Announces(w, id) =>
        InTables(id) /\ ~PushedFor(id) /\ \A v \in Everyone : Announces(v, id) => v = w
GatePushed == \A id : Kind(id) \in NodeKinds /\ PushedFor(id) => InTables(id)

\* Everything else is pushed at most once by a worker that is not quiet about it.
\* Such a worker has what it pushes to itself: no other has it, and it lies in no
\* box, unless the catch-up has queued it once more and marked it.
Told == {"drop", "erase", "done", "unknown"}
LoudAt(w, id) == work[w].pc # "idle" /\ work[w].id = id /\ ~work[w].quiet
Heard(id) == PushedFor(id) \/ \E w \in Workers : LoudAt(w, id)
Once(id) ==
    /\ \A v, w \in Workers : LoudAt(v, id) /\ LoudAt(w, id) => v = w
    /\ \A w \in Workers : LoudAt(w, id) /\ work[w].pc \notin Told => ~PushedFor(id)
    /\ id \in catchUp => AtMostTwo(Places(id)) /\ (Heard(id) => AtMostOne(Places(id)))
    /\ id \notin catchUp => AtMostOne(Places(id)) /\ (Heard(id) => Places(id) = {})
OnceEach == \A id \in Ids : Kind(id) \notin NodeKinds => Once(id)

\* What anybody has is mined.
MinedOnly ==
    /\ raw \subseteq 1 .. mined
    /\ \A r \in rec : r.id \in 1 .. mined
    /\ \A w \in Workers : work[w].pc # "idle" => work[w].id \in 1 .. mined
    /\ \A id : Places(id) # {} => id \in 1 .. mined
    /\ \A id : Kind(id) \notin NodeKinds /\ PushedFor(id) => id \in 1 .. mined

\* While no statement has failed and no reindex was asked for.
Unspent == budget.error = plan.budget.error /\ budget.reindex = plan.budget.reindex
Still ==
    /\ rec = {} /\ ~request /\ walk.at = 0
    /\ \A w \in Workers : work[w].pc # "refetch"
    /\ "catch_up" \in todo \/ ~up => catchUp = {}
    /\ \A p \in DOMAIN pushed : pushed[p] = 1
Budgeted ==
    /\ plan \in Plans /\ budget \in [Faults -> Nat]
    /\ budget.error <= plan.budget.error /\ budget.reindex <= plan.budget.reindex
UInv ==
    /\ NInv /\ QInv /\ {"bcasts", "tips"} \subseteq DOMAIN db /\ Budgeted
    /\ GateOnce /\ GatePushed /\ MinedOnly
    /\ Unspent => Still /\ OnceEach

\* The budgets only go down.
LEMMA BudgetsFall ==
    ASSUME Budgeted, plan' = plan, budget' = budget \/ \E f \in Faults : Spend(f)
    PROVE  /\ Budgeted' /\ (Unspent' => Unspent)
           /\ Spend("error") \/ Spend("reindex") => ~Unspent'
<1>1. plan.budget \in [Faults -> Nat]
    BY PlansAssumption DEF Budgeted
<1>2. {"error", "reindex"} \subseteq Faults
    BY DEF Faults
<1>3. CASE budget' = budget
    <2>1. ~Spend("error") /\ ~Spend("reindex")
        BY <1>2, <1>3 DEF Spend, Budgeted
    <2> QED  BY <1>3, <2>1 DEF Budgeted, Unspent
<1>4. ASSUME NEW f \in Faults, Spend(f)
      PROVE  /\ Budgeted' /\ (Unspent' => Unspent)
             /\ Spend("error") \/ Spend("reindex") => ~Unspent'
    <2>1. /\ budget \in [Faults -> Nat] /\ budget[f] > 0
          /\ budget' = [g \in Faults |-> IF g = f THEN budget[g] - 1 ELSE budget[g]]
        BY <1>4 DEF Spend, Budgeted
    <2>2. budget' \in [Faults -> Nat] /\ \A g \in Faults : budget'[g] <= budget[g]
        BY <2>1
    <2>3. Budgeted'
        BY <1>1, <1>2, <2>1, <2>2 DEF Budgeted
    <2>4. Unspent' => Unspent
        BY <1>1, <1>2, <2>1, <2>2 DEF Budgeted, Unspent
    <2>5. ASSUME NEW g \in {"error", "reindex"}, Spend(g)
          PROVE  ~Unspent'
        <3>1. budget'[g] = budget[g] - 1 /\ budget[g] \in Nat /\ plan.budget[g] \in Nat /\ budget[g] <= plan.budget[g]
            BY <1>1, <1>2, <2>5 DEF Spend, Budgeted
        <3>2. budget'[g] # plan.budget[g]
            BY <3>1
        <3> QED  BY <3>2 DEF Unspent
    <2> QED  BY <2>3, <2>4, <2>5
<1> QED  BY <1>3, <1>4

\* What a handler's step has to do with pushes.
Tells(w, next) ==
    /\ next \notin {"idle", "refetch"}
    /\ work[w].pc \in Told => next \in Told
    /\ \/ pushed' = pushed
       \/ \E ps : /\ work[w].pc = "notify" /\ next \in Told
                  /\ (\A p \in ps : p.tx = work[w].id) /\ Push(w, ps)
    /\ \A id : id = work[w].id /\ next = "notify" /\ Kind(id) \in NodeKinds => ~InTables(id) /\ InTables(id)'

LEMMA HandlersTell ==
    ASSUME NInv, {"bcasts", "tips"} \subseteq DOMAIN db, NEW w \in Everyone, Handle(w) \/ HandlePending(w), plan' = plan
    PROVE  \E next : Moves(w, next) /\ Tells(w, next)
<1> DEFINE Past == {"done", "drop", "erase", "unknown"}
           Plain == Past \cup {"fresh", "newest", "related", "relate", "operator", "purge", "deny", "profile", "record",
                               "original", "store", "ask", "save", "options", "mentions", "replace", "vote", "audit", "apply",
                               "withdraw", "target", "bury", "ballot", "ledger"}
<1>0. CInv /\ KInv /\ WorkShape /\ TableLike(db) /\ InStage(w) /\ ClaimStage(w)
    BY DEF NInv, MInv, CInv, KInv, Shaped, Staged
<1>1. ASSUME NEW next \in Plain, Moves(w, next), work[w].pc \notin Told \/ next \in Past, pushed' = pushed
      PROVE  \E n : Moves(w, n) /\ Tells(w, n)
    BY <1>1 DEF Tells, Told
<1>2. ASSUME NEW kind, NEW to
      PROVE  work[w].pc = "notify" => APush(kind, to, Tx(w)).tx = work[w].id
    <2>1. work[w].pc = "notify" => Tx(w).id = work[w].id
        BY HandledTx
    <2> QED  BY <2>1 DEF APush
<1>3. ASSUME NEW next \in {"done", "drop"}, NEW ps, work[w].pc = "notify", Push(w, ps), Goto(w, next),
             \A p \in ps : \E kind, to : p = APush(kind, to, Tx(w))
      PROVE  \E n : Moves(w, n) /\ Tells(w, n)
    <2>1. \A p \in ps : p.tx = work[w].id
        BY <1>2, <1>3
    <2>2. Tells(w, next)
        BY <1>3, <2>1 DEF Tells, Told
    <2> QED  BY <1>3, <2>2 DEF Moves
<1>4. ASSUME Moves(w, "notify"), work[w].pc \notin Told, pushed' = pushed, Kind(work[w].id) \notin NodeKinds
      PROVE  \E n : Moves(w, n) /\ Tells(w, n)
    <2>1. Tells(w, "notify")
        BY <1>4 DEF Tells
    <2> QED  BY <1>4, <2>1
<1> HIDE DEF Plain, Past
<1>5. CASE \/ DeletedBefore(w) \/ DropIfDeleted(w) \/ Erase(w) \/ SaveOptions(w) \/ Withdraw(w) \/ PollVote(w)
           \/ TargetIndexed(w) \/ ReplaceVote(w) \/ EditMentions(w) \/ Tombstone(w) \/ AuditDelete(w) \/ AuditEdit(w)
    BY <1>1, <1>5 DEF DeletedBefore, DropIfDeleted, Erase, SaveOptions, Withdraw, PollVote, TargetIndexed, ReplaceVote,
                      EditMentions, Tombstone, AuditDelete, AuditEdit, Reads, Writes, Moves, Plain, Past, Told, At
<1>6. CASE \/ EditContent(w) \/ Related(w) \/ RelationIsNewest(w) \/ SaveBlock(w)
           \/ DenyTarget(w) \/ PurgeTarget(w) \/ DenyInMemory(w) \/ AllowTarget(w) \/ CommitProfile(w)
    BY <1>1, <1>6 DEF EditContent, Related, RelationIsNewest, SaveBlock, DenyTarget, PurgeTarget, DenyInMemory, AllowTarget,
                      CommitProfile, Reads, Writes, Moves, Plain, Past, Told, At
<1>7. CASE Original(w) \/ OpenLedger(w) \/ RouteBroadcast(w) \/ TipGates(w) \/ Resolve(w) \/ GiveUp(w)
    <2>1. pushed' = pushed /\ work[w].pc \notin Told
        BY <1>7 DEF Original, OpenLedger, RouteBroadcast, TipGates, Resolve, GiveUp, Reads, Told, At
    <2>2. \E next \in {"audit", "done", "record", "profile", "ask", "store", "unknown"} : Moves(w, next)
        BY <1>7 DEF Original, OpenLedger, RouteBroadcast, TipGates, Resolve, GiveUp, Judged, Moves
    <2> QED  BY <1>1, <2>1, <2>2 DEF Plain, Past
<1>8. CASE SignatureIsFresh(w)
    <2> DEFINE fits == SignatureHolds(Tx(w)) /\ ProfileAllowed(Tx(w))
               next == IF fits /\ Owns(db, Tx(w)) THEN Continue(Tx(w)) ELSE Return(Tx(w))
    <2>1. work[w].pc = "fresh" /\ Goto(w, next) /\ pushed' = pushed
        BY <1>8 DEF SignatureIsFresh, At, Writes
    <2>2. Return(Tx(w)) \in {"drop", "done"}
        BY DEF Return
    <2>3. Tx(w).kind \in Kinds \ {"unknown", "bcast"}
        BY <1>0, <2>1, IdsFact DEF KInv, Known, InStage, Kind, Tx
    <2>4. Continue(Tx(w)) \in {"save", "drop", "withdraw", "target", "related", "newest", "original", "done", "bury",
                               "ballot", "ledger"}
        BY <2>3 DEF Kinds, Content, Continue
    <2>5. next \in Plain /\ work[w].pc \notin Told
        BY <2>1, <2>2, <2>4 DEF Plain, Past, Told
    <2> HIDE DEF next
    <2> QED  BY <1>1, <2>1, <2>5 DEF Moves
<1>9. CASE Save(w)
    <2>1. work[w].pc = "save" /\ pushed' = pushed /\ Kind(work[w].id) \in Content
        BY <1>0, <1>9 DEF Save, At, InStage
    <2>2. \E next \in {"options", "drop", "notify"} : Moves(w, next)
        BY <1>9 DEF Save, Moves
    <2>3. Kind(work[w].id) \notin NodeKinds /\ work[w].pc \notin Told
        BY <2>1 DEF Content, NodeKinds, Told
    <2> QED  BY <1>1, <1>4, <2>1, <2>2, <2>3 DEF Plain, Past
<1>10. CASE SaveMentions(w) \/ CommitVote(w) \/ SaveFollow(w)
    <2>1. pushed' = pushed /\ work[w].pc \in {"mentions", "vote", "relate"} /\ Kind(work[w].id) \in {"poll", "vote", "follow"}
        BY <1>0, <1>10 DEF SaveMentions, CommitVote, SaveFollow, At, ClaimStage, Handles, Kind, Tx, Writes
    <2>2. \E next \in {"done", "notify"} : Moves(w, next)
        BY <1>10 DEF SaveMentions, CommitVote, SaveFollow, Moves
    <2>3. Kind(work[w].id) \notin NodeKinds /\ work[w].pc \notin Told
        BY <2>1 DEF NodeKinds, Told
    <2> QED  BY <1>1, <1>4, <2>1, <2>2, <2>3 DEF Plain, Past
<1>11. CASE NotifyVote(w) \/ NotifyFollow(w) \/ NotifyStored(w)
    <2>1. /\ work[w].pc = "notify" /\ Goto(w, "done")
          /\ \E ps : Push(w, ps) /\ \A p \in ps : \E kind, to : p = APush(kind, to, Tx(w))
        BY <1>11 DEF NotifyVote, NotifyFollow, NotifyStored, At
    <2> QED  BY <1>3, <2>1
<1>12. CASE NotifyContent(w)
    <2>1. work[w].pc = "notify" /\ Goto(w, "drop") /\ Tx(w).kind \in Content
          /\ Push(w, ContentPushes(Tx(w), "new" \in work[w].memo, AuthorsOf(db, Tx(w).ref)))
        BY <1>12 DEF NotifyContent, At, Handles
    <2>2. ASSUME NEW new, NEW parents
          PROVE  \A p \in ContentPushes(Tx(w), new, parents) : \E kind, to : p = APush(kind, to, Tx(w))
        BY <2>1 DEF ContentPushes, Content
    <2> QED  BY <1>3, <2>1, <2>2
<1>13. CASE StoreBroadcast(w)
    <2> DEFINE tx == Tx(w)
    <2>1. work[w].pc = "store" /\ pushed' = pushed /\ tx.kind = "bcast"
        BY <1>13 DEF StoreBroadcast, At, Handles, Writes
    <2>2. tx.id = work[w].id /\ tx.kind = Kind(work[w].id)
        BY <2>1, HandledTx
    <2>3. PICK row : row.id = tx.id /\ db' = [db EXCEPT !.bcasts = @ \cup {row}]
        BY <1>13 DEF StoreBroadcast
    <2>4. row \in db'.bcasts
        BY <1>0, <2>3 DEF TableLike
    <2>5. CASE Goto(w, "notify") /\ NewBroadcast(db, tx)
        <3>1. ASSUME NEW id, id = work[w].id
              PROVE  ~InTables(id) /\ InTables(id)'
            <4>1. Kind(id) = "bcast" /\ Kind(id)' = "bcast" /\ row.id = id
                BY <2>1, <2>2, <2>3, <3>1 DEF Kind
            <4>2. Stored(id)' /\ ~Stored(id)
                BY <2>2, <2>4, <2>5, <3>1, <4>1 DEF Stored, NewBroadcast
            <4> QED  BY <4>1, <4>2 DEF InTables
        <3>2. Tells(w, "notify")
            BY <2>1, <3>1 DEF Tells, Told
        <3> QED  BY <2>5, <3>2 DEF Moves
    <2>6. CASE Goto(w, "done")
        BY <1>1, <2>1, <2>6 DEF Moves, Plain, Past
    <2> QED  BY <1>13, <2>5, <2>6 DEF StoreBroadcast
<1>14. CASE StoreTip(w)
    <2> DEFINE tx == Tx(w)
    <2>1. work[w].pc = "store" /\ pushed' = pushed /\ tx.kind = "tip"
        BY <1>14 DEF StoreTip, At, Handles, Writes
    <2>2. tx.id = work[w].id /\ tx.kind = Kind(work[w].id)
        BY <2>1, HandledTx
    <2>3. CASE Goto(w, "notify") /\ NewTip(db, tx)
        <3>1. db' = SaveTip(db, tx)
            BY <1>14, <2>3 DEF StoreTip
        <3>2. PICK row, m : row.id = tx.id /\ db' = [db EXCEPT !.tips = @ \cup {row}, !.mentions = @ \cup {m}]
            BY <3>1 DEF SaveTip
        <3>3. row \in db'.tips
            BY <1>0, <3>2 DEF TableLike
        <3>4. ASSUME NEW id, id = work[w].id
              PROVE  ~InTables(id) /\ InTables(id)'
            <4>1. Kind(id) = "tip" /\ Kind(id)' = "tip" /\ row.id = id
                BY <2>1, <2>2, <3>2, <3>4 DEF Kind
            <4>2. \A t \in db.tips : t.id # id
                BY <2>2, <2>3, <3>4 DEF NewTip
            <4> QED  BY <3>3, <4>1, <4>2 DEF InTables
        <3>5. Tells(w, "notify")
            BY <2>1, <3>4 DEF Tells, Told
        <3> QED  BY <2>3, <3>5 DEF Moves
    <2>4. CASE Goto(w, "done")
        BY <1>1, <2>1, <2>4 DEF Moves, Plain, Past
    <2> QED  BY <1>14, <2>3, <2>4 DEF StoreTip
<1> QED  BY <1>5, <1>6, <1>7, <1>8, <1>9, <1>10, <1>11, <1>12, <1>13, <1>14 DEF Handle, HandlePending

LEMMA BagFact ==
    ASSUME NEW b, NEW ps
    PROVE  /\ DOMAIN (b (+) SetToBag(ps)) = DOMAIN b \cup ps
           /\ (\A p \in DOMAIN b : b[p] = 1) /\ (\A p \in ps : p \notin DOMAIN b) =>
                  \A p \in DOMAIN b \cup ps : (b (+) SetToBag(ps))[p] = 1
BY DEF SetToBag, (+)

LEMMA UTables ==
    ASSUME plan' = plan, Holds(db')
    PROVE  /\ Ids' = Ids /\ \A id : Kind(id)' = Kind(id) /\ (InTables(id) => InTables(id)')
           /\ ({"bcasts", "tips"} \subseteq DOMAIN db)'
<1>1. \A id : Kind(id)' = Kind(id)
    BY DEF Kind
<1>2. ASSUME NEW id, InTables(id)
      PROVE  InTables(id)'
    BY <1>2 DEF InTables, Stored, Holds, Kind
<1> QED  BY <1>1, <1>2 DEF Ids, Holds

\* A handler's step keeps the invariant.
LEMMA HandlersKeepU ==
    ASSUME UInv, NInv', QInv', NEW w \in Everyone, Handling(w) \/ HandlingPending(w)
    PROVE  UInv'
<1>0. /\ NInv /\ QInv /\ CInv /\ KInv /\ WorkShape /\ Budgeted /\ GateOnce /\ GatePushed /\ MinedOnly
      /\ {"bcasts", "tips"} \subseteq DOMAIN db
    BY DEF UInv, NInv, MInv, CInv, KInv, Shaped
<1>1. /\ (Handle(w) \/ HandlePending(w))
      /\ UNCHANGED <<raw, rec, mined, up, todo, inbox, catchUp, walk, request, budget, torn>>
    BY DEF Handling, HandlingPending, HandlePending, pendingVars, pipeVars, Unparked, GiveUp, RouteBroadcast, TipGates,
           Resolve, StoreBroadcast, StoreTip, NotifyStored
<1>2. plan' = plan /\ work[w].pc # "idle"
    <2>1. PICK next : Steps(w, next)
        BY <1>0, <1>1, HandlersStep
    <2> QED  BY <2>1 DEF Steps, Moved
<1>3. Holds(db')
    BY <1>0, <1>1, HandlersHold
<1>4. PICK next : Moves(w, next) /\ Tells(w, next)
    BY <1>0, <1>1, <1>2, HandlersTell
<1>5. /\ work'[w].id = work[w].id /\ work'[w].pc = next /\ work'[w].quiet = work[w].quiet
      /\ \A v \in Everyone : v # w => work'[v] = work[v]
    BY <1>0, <1>4, MemoMoves
<1>6. next \notin {"idle", "refetch"} /\ (work[w].pc \in Told => next \in Told)
    BY <1>4 DEF Tells
<1>7. \/ pushed' = pushed
      \/ \E ps : /\ work[w].pc = "notify" /\ next \in Told /\ ~work[w].quiet
                 /\ (\A p \in ps : p.tx = work[w].id) /\ pushed' = pushed (+) SetToBag(ps)
    BY <1>4 DEF Tells, Push
<1>8. ASSUME NEW id, PushedFor(id)', ~PushedFor(id)
      PROVE  id = work[w].id /\ work[w].pc = "notify" /\ next \in Told /\ ~work[w].quiet
    <2>1. pushed' # pushed
        BY <1>8 DEF PushedFor
    <2>2. PICK ps : /\ work[w].pc = "notify" /\ next \in Told /\ ~work[w].quiet
                    /\ (\A p \in ps : p.tx = work[w].id) /\ pushed' = pushed (+) SetToBag(ps)
        BY <1>7, <2>1
    <2>3. DOMAIN pushed' = DOMAIN pushed \cup ps
        BY <2>2, BagFact
    <2> QED  BY <1>8, <2>2, <2>3 DEF PushedFor
<1>9. /\ Ids' = Ids /\ \A id : Kind(id)' = Kind(id) /\ (InTables(id) => InTables(id)')
      /\ ({"bcasts", "tips"} \subseteq DOMAIN db)'
    BY <1>2, <1>3, UTables
<1>10. Everyone' = Everyone /\ Workers \subseteq Everyone /\ \A id : Places(id)' = Places(id)
    BY <1>1 DEF Everyone, Places
<1>11. \A id : \A v \in Everyone : v # w => (Announces(v, id)' <=> Announces(v, id))
    BY <1>5, <1>9 DEF Announces
<1>12. \A id : Announces(w, id)' => next = "notify" /\ id = work[w].id /\ Kind(id) \in NodeKinds
    BY <1>5, <1>9 DEF Announces
<1>13. \A id : id = work[w].id /\ next = "notify" /\ Kind(id) \in NodeKinds => ~InTables(id) /\ InTables(id)'
    BY <1>4 DEF Tells
<1>14. "notify" \notin Told
    BY DEF Told
<1>15. GateOnce'
    <2>1. ASSUME NEW id, NEW v \in Everyone, Announces(v, id)'
          PROVE  InTables(id)' /\ ~PushedFor(id)' /\ \A u \in Everyone : Announces(u, id)' => u = v
        <3>1. CASE v = w
            <4>1. next = "notify" /\ ~InTables(id) /\ InTables(id)' /\ Kind(id) \in NodeKinds
                BY <1>12, <1>13, <2>1, <3>1
            <4>2. ~PushedFor(id)
                BY <1>0, <4>1 DEF GatePushed
            <4>3. ~PushedFor(id)'
                BY <1>8, <1>14, <4>1, <4>2
            <4>4. \A u \in Everyone : ~Announces(u, id)
                BY <1>0, <4>1 DEF GateOnce
            <4> QED  BY <1>11, <3>1, <4>1, <4>3, <4>4
        <3>2. CASE v # w
            <4>1. Announces(v, id) /\ InTables(id) /\ ~PushedFor(id) /\ \A u \in Everyone : Announces(u, id) => u = v
                BY <1>0, <1>11, <2>1, <3>2 DEF GateOnce
            <4>2. ~PushedFor(id)'
                <5>1. PushedFor(id)' => Announces(w, id)
                    BY <1>8, <4>1 DEF Announces
                <5> QED  BY <3>2, <4>1, <5>1
            <4>3. ~Announces(w, id)'
                BY <1>12, <1>13, <4>1
            <4> QED  BY <1>9, <1>11, <4>1, <4>2, <4>3
        <3> QED  BY <3>1, <3>2
    <2> QED  BY <1>10, <2>1 DEF GateOnce
<1>16. GatePushed'
    <2>1. ASSUME NEW id, Kind(id)' \in NodeKinds, PushedFor(id)'
          PROVE  InTables(id)'
        <3>1. CASE PushedFor(id)
            BY <1>0, <1>9, <2>1, <3>1 DEF GatePushed
        <3>2. CASE ~PushedFor(id)
            <4>1. Announces(w, id)
                BY <1>8, <1>9, <2>1, <3>2 DEF Announces
            <4> QED  BY <1>0, <1>9, <4>1 DEF GateOnce
        <3> QED  BY <3>1, <3>2
    <2> QED  BY <2>1 DEF GatePushed
<1>17. work[w].pc = "notify" /\ Kind(work[w].id) \notin NodeKinds => w \in Workers /\ work[w].id \in Ids
    <2>1. OrderStage(w) /\ InStage(w)
        BY <1>0 DEF NInv, KInv, Staged
    <2> QED  BY <2>1 DEF OrderStage, InStage, NodeKinds, Everyone
<1>18. MinedOnly'
    <2>1. ASSUME NEW id, Kind(id)' \notin NodeKinds, PushedFor(id)'
          PROVE  id \in 1 .. mined'
        BY <1>0, <1>1, <1>2, <1>8, <1>9, <1>17, <2>1 DEF MinedOnly
    <2>2. \A v \in Workers : work'[v].pc # "idle" => work'[v].id \in 1 .. mined'
        BY <1>0, <1>1, <1>2, <1>5, <1>10 DEF MinedOnly
    <2>3. raw' \subseteq 1 .. mined' /\ (\A r \in rec' : r.id \in 1 .. mined') /\ \A id : Places(id)' # {} => id \in 1 .. mined'
        BY <1>0, <1>1, <1>10 DEF MinedOnly
    <2> QED  BY <2>1, <2>2, <2>3 DEF MinedOnly
<1>19. Budgeted' /\ (Unspent' => Unspent)
    BY <1>0, <1>1, <1>2, BudgetsFall
<1>20. ASSUME NEW id, Kind(id) \notin NodeKinds, NEW v \in Workers
       PROVE  /\ LoudAt(v, id)' <=> LoudAt(v, id)
              /\ v # w => work'[v].pc = work[v].pc
    BY <1>2, <1>5, <1>6, <1>10 DEF LoudAt
<1>21. ASSUME Unspent
       PROVE  Still' /\ OnceEach'
    <2>0. Still /\ OnceEach
        BY <1>21 DEF UInv
    <2>1. work[w].pc = "notify" /\ ~work[w].quiet => ~PushedFor(work[w].id)
        <3>1. CASE Kind(work[w].id) \in NodeKinds
            BY <1>0, <3>1 DEF GateOnce, Announces
        <3>2. CASE work[w].pc = "notify" /\ ~work[w].quiet /\ Kind(work[w].id) \notin NodeKinds
            <4>1. w \in Workers /\ Once(work[w].id)
                BY <1>17, <2>0, <3>2 DEF OnceEach
            <4> QED  BY <1>14, <3>2, <4>1 DEF Once, LoudAt
        <3> QED  BY <3>1, <3>2
    <2>2. \A p \in DOMAIN pushed' : pushed'[p] = 1
        <3>1. CASE pushed' = pushed
            BY <2>0, <3>1 DEF Still
        <3>2. ASSUME NEW ps, work[w].pc = "notify", ~work[w].quiet, \A p \in ps : p.tx = work[w].id,
                     pushed' = pushed (+) SetToBag(ps)
              PROVE  \A p \in DOMAIN pushed' : pushed'[p] = 1
            <4>1. \A p \in ps : p \notin DOMAIN pushed
                BY <2>1, <3>2 DEF PushedFor
            <4> QED  BY <2>0, <3>2, <4>1, BagFact DEF Still
        <3> QED  BY <1>7, <3>1, <3>2
    <2>3. \A v \in Workers : work'[v].pc # "refetch"
        BY <1>5, <1>6, <1>10, <2>0 DEF Still
    <2>4. Still'
        BY <1>1, <2>0, <2>2, <2>3 DEF Still
    <2>5. ASSUME NEW id \in Ids, Kind(id) \notin NodeKinds
          PROVE  Once(id)'
        <3>0. Once(id)
            BY <2>0, <2>5 DEF OnceEach
        <3>1. PushedFor(id)' /\ ~PushedFor(id) => w \in Workers /\ LoudAt(w, id) /\ next \in Told
            BY <1>2, <1>8, <1>17, <2>5 DEF LoudAt
        <3>2. Heard(id)' => Heard(id)
            BY <1>20, <2>5, <3>1 DEF Heard
        <3>3. \A v, u \in Workers : LoudAt(v, id)' /\ LoudAt(u, id)' => v = u
            BY <1>20, <2>5, <3>0 DEF Once
        <3>4. ASSUME NEW v \in Workers, LoudAt(v, id)', work'[v].pc \notin Told
              PROVE  ~PushedFor(id)'
            <4>1. LoudAt(v, id) /\ work[v].pc \notin Told
                BY <1>5, <1>6, <1>20, <2>5, <3>4
            <4>2. ~PushedFor(id)
                BY <3>0, <4>1 DEF Once
            <4>3. PushedFor(id)' => v = w
                BY <3>0, <3>1, <4>1, <4>2 DEF Once
            <4> QED  BY <1>5, <3>1, <3>4, <4>2, <4>3
        <3> QED  BY <1>1, <1>10, <3>0, <3>2, <3>3, <3>4 DEF Once
    <2> QED  BY <1>9, <2>4, <2>5 DEF OnceEach
<1> QED  BY <1>9, <1>15, <1>16, <1>18, <1>19, <1>21 DEF UInv

\* What the steps around the handlers have to show.
LEMMA GatesKept ==
    ASSUME GateOnce, GatePushed, UNCHANGED <<plan, db, pushed>>,
           \A v \in Everyone : work'[v] = work[v] \/ work'[v].pc # "notify"
    PROVE  GateOnce' /\ GatePushed'
<1>1. /\ \A id : Kind(id)' = Kind(id) /\ (InTables(id)' <=> InTables(id)) /\ (PushedFor(id)' <=> PushedFor(id))
      /\ Everyone' = Everyone
    BY DEF Kind, InTables, Stored, PushedFor, Everyone
<1>2. \A id : \A v \in Everyone : Announces(v, id)' => Announces(v, id)
    BY <1>1 DEF Announces
<1> QED  BY <1>1, <1>2 DEF GateOnce, GatePushed

LEMMA OnceKept ==
    ASSUME NEW id, Once(id), pushed' = pushed, Places(id)' \subseteq Places(id), id \in catchUp' <=> id \in catchUp,
           \A v \in Workers : LoudAt(v, id)' => LoudAt(v, id) /\ work'[v].pc = work[v].pc
    PROVE  Once(id)'
<1>1. (PushedFor(id)' <=> PushedFor(id)) /\ (Heard(id)' => Heard(id))
    BY DEF PushedFor, Heard
<1>2. /\ AtMostOne(Places(id)) => AtMostOne(Places(id)')
      /\ AtMostTwo(Places(id)) => AtMostTwo(Places(id)')
    BY DEF AtMostOne, AtMostTwo
<1>3. /\ AtMostOne(Places(id)') <=> AtMostOne(Places(id))'
      /\ AtMostTwo(Places(id)') <=> AtMostTwo(Places(id))'
    BY DEF AtMostOne, AtMostTwo
<1> QED  BY <1>1, <1>2, <1>3 DEF Once

LEMMA MinedKept ==
    ASSUME MinedOnly, UNCHANGED <<plan, pushed>>, mined \in Nat, mined' \in Nat, mined <= mined',
           raw' \subseteq raw \cup 1 .. mined', \A r \in rec' : r \in rec \/ r.id \in 1 .. mined',
           \A v \in Workers : work'[v] = work[v] \/ work'[v].pc = "idle" \/ work'[v].id \in 1 .. mined',
           \A id : Places(id)' # {} => Places(id) # {} \/ id \in 1 .. mined'
    PROVE  MinedOnly'
<1>1. 1 .. mined \subseteq 1 .. mined'
    OBVIOUS
<1>2. \A id : Kind(id)' = Kind(id) /\ (PushedFor(id)' <=> PushedFor(id))
    BY DEF Kind, PushedFor
<1>3. raw' \subseteq 1 .. mined' /\ \A r \in rec' : r.id \in 1 .. mined'
    BY <1>1 DEF MinedOnly
<1>4. \A v \in Workers : work'[v].pc # "idle" => work'[v].id \in 1 .. mined'
    BY <1>1 DEF MinedOnly
<1>5. /\ \A id : Places(id)' # {} => id \in 1 .. mined'
      /\ \A id : Kind(id)' \notin NodeKinds /\ PushedFor(id)' => id \in 1 .. mined'
    BY <1>1, <1>2 DEF MinedOnly
<1> QED  BY <1>3, <1>4, <1>5 DEF MinedOnly

LEMMA AroundKeepsU ==
    ASSUME UInv, NInv', QInv', UNCHANGED <<plan, db, pushed>>, MinedOnly',
           \A v \in Everyone : work'[v] = work[v] \/ work'[v].pc # "notify",
           budget' = budget \/ \E f \in Faults : Spend(f),
           Unspent /\ Unspent' /\ Still /\ OnceEach => Still' /\ OnceEach'
    PROVE  UInv'
<1>1. GateOnce' /\ GatePushed'
    BY GatesKept DEF UInv
<1>2. Budgeted' /\ (Unspent' => Unspent)
    BY BudgetsFall DEF UInv
<1>3. Unspent' => Still' /\ OnceEach'
    BY <1>2 DEF UInv
<1> QED  BY <1>1, <1>2, <1>3 DEF UInv

\* The steps that leave workers and boxes where they are.
LEMMA StillKeepsU ==
    ASSUME UInv, NInv', QInv',
           \/ (\E id \in raw : PruneRaw(id)) \/ Listen \/ ListenerFails \/ Refresh \/ NodeSteps \/ Start
           \/ RequeueFails \/ SweepPending \/ (\E force \in BOOLEAN : RequestReindex(force))
           \/ BeginWalk \/ WalkChecks \/ WalkFails \/ PruneRecovered \/ UNCHANGED vars
    PROVE  UInv'
<1>0. MinedOnly /\ mined \in Nat /\ plan \in Plans /\ Budgeted
    BY DEF UInv, QInv, KInv, Known
<1>1. UNCHANGED <<plan, db, pushed, work, inbox, mined, catchUp>> /\ rec' \subseteq rec /\ raw' \subseteq raw
    BY DEF PruneRaw, Listen, ListenerFails, Refresh, RefreshDenylist, NodeSteps, Start, RequeueFails, SweepPending, RequestReindex,
           BeginWalk, WalkChecks, WalkFails, PruneRecovered, storeVars, pendingVars, pipeVars, vars
<1>2. \A id : Places(id)' = Places(id)
    BY <1>1 DEF Places
<1>3. MinedOnly'
    BY <1>0, <1>1, <1>2, MinedKept
<1>4. Ids' = Ids /\ \A id : Kind(id)' = Kind(id) /\ \A v : (LoudAt(v, id)' <=> LoudAt(v, id))
    BY <1>1 DEF Ids, Kind, LoudAt
<1>5. OnceEach => OnceEach'
    <2>1. ASSUME NEW id, Once(id)
          PROVE  Once(id)'
        BY <1>1, <1>2, <1>4, <2>1, OnceKept
    <2> QED  BY <1>4, <2>1 DEF OnceEach
<1>6. ASSUME budget' = budget \/ \E f \in Faults : Spend(f),
             Unspent /\ Unspent' /\ Still => ~request' /\ walk'.at = 0 /\ ("catch_up" \in todo' \/ ~up' => "catch_up" \in todo \/ ~up)
      PROVE  UInv'
    <2>1. Unspent /\ Unspent' /\ Still => Still'
        BY <1>1, <1>6 DEF Still
    <2> QED  BY <1>1, <1>3, <1>5, <1>6, <2>1, AroundKeepsU
<1>7. CASE UNCHANGED vars
    BY <1>6, <1>7 DEF vars, pipeVars, Still
<1>8. CASE (\E id \in raw : PruneRaw(id)) \/ ListenerFails \/ Listen \/ Refresh \/ NodeSteps
    <2>1. UNCHANGED <<request, walk, todo, up>>
        BY <1>8 DEF PruneRaw, ListenerFails, Listen, Refresh, NodeSteps, pipeVars
    <2>2. budget' = budget \/ \E f \in Faults : Spend(f)
        BY <1>8 DEF PruneRaw, ListenerFails, Listen, Refresh, NodeSteps, pipeVars, Faults
    <2> QED  BY <1>6, <2>1, <2>2 DEF Still
<1>9. CASE Start \/ SweepPending \/ PruneRecovered
    <2>1. UNCHANGED <<request, walk>> /\ ("catch_up" \in todo' \/ ~up' => "catch_up" \in todo \/ ~up)
        BY <1>9 DEF Start, SweepPending, PruneRecovered
    <2>2. budget' = budget \/ \E f \in Faults : Spend(f)
        BY <1>9 DEF Start, SweepPending, PruneRecovered, Faults
    <2> QED  BY <1>6, <2>1, <2>2 DEF Still
<1>10. CASE RequeueFails \/ WalkFails \/ \E force \in BOOLEAN : RequestReindex(force)
    <2>1. Spend("error") \/ Spend("reindex")
        BY <1>10 DEF RequeueFails, WalkFails, RequestReindex
    <2>2. \E f \in Faults : Spend(f)
        BY <2>1 DEF Faults
    <2>3. ~Unspent'
        BY <1>0, <1>1, <2>1, <2>2, BudgetsFall
    <2> QED  BY <1>6, <2>2, <2>3
<1>11. CASE BeginWalk \/ WalkChecks
    <2>1. ~Still
        BY <1>11 DEF BeginWalk, WalkChecks, Still
    <2>2. budget' = budget \/ Spend("error")
        BY <1>11 DEF BeginWalk, WalkChecks, Walked, Show, Written, Unwritten
    <2>3. budget' = budget \/ \E f \in Faults : Spend(f)
        BY <2>2 DEF Faults
    <2> QED  BY <1>6, <2>1, <2>3
<1> QED  BY <1>7, <1>8, <1>9, <1>10, <1>11

\* Steps of one worker, or of the retry loop, that do not look into a box.
LEMMA LeavesKeepU ==
    ASSUME UInv, NInv', QInv',
           \/ Retrying \/ (\E w \in Workers : Refetch(w) \/ RefetchFails(w) \/ Consume(w) \/ MarkFails(w))
           \/ \E w \in Everyone : StatementFails(w)
    PROVE  UInv'
<1>0. MinedOnly /\ mined \in Nat /\ plan \in Plans /\ Budgeted /\ WorkShape /\ Retrier \in Everyone /\ Workers \subseteq Everyone
    BY DEF UInv, QInv, KInv, Known, Shaped, Everyone
<1>1. UNCHANGED <<plan, db, pushed, inbox, mined, catchUp, raw, request, walk, todo, up>>
    BY DEF Retrying, Retry, TakePending, PendingDone, PendingUnknown, Refetch, RefetchFails, Consume, MarkFails, StatementFails,
           Reads, Unparked, pendingVars, pipeVars
<1>2. \A id : Places(id)' = Places(id)
    BY <1>1 DEF Places
<1>3. Ids' = Ids /\ \A id : Kind(id)' = Kind(id)
    BY <1>1 DEF Ids, Kind
<1>4. ASSUME NEW w \in Everyone, \A v \in Everyone : v # w => work'[v] = work[v],
             work'[w].pc # "notify", w \in Workers => work'[w].pc = "idle" \/ work'[w].id \in 1 .. mined,
             rec' = rec \/ rec' = {IF r.id = work[w].id THEN [r EXCEPT !.consumed = TRUE] ELSE r : r \in rec},
             budget' = budget \/ \E f \in Faults : Spend(f),
             Unspent /\ Unspent' /\ Still /\ w \in Workers => work'[w].pc = "idle"
      PROVE  UInv'
    <2>1. \A r \in rec' : r.id \in 1 .. mined
        <3>1. \A r \in rec : r.id \in 1 .. mined /\ [r EXCEPT !.consumed = TRUE].id = r.id
            <4>1. \A r \in rec : r \in [id : Ids, consumed : BOOLEAN]
                BY DEF UInv, QInv, KInv, Known
            <4> QED  BY <1>0, <4>1 DEF MinedOnly
        <3>2. CASE rec' = rec
            BY <3>1, <3>2
        <3>3. CASE rec' = {IF r.id = work[w].id THEN [r EXCEPT !.consumed = TRUE] ELSE r : r \in rec}
            <4>1. \A q \in rec' : \E r \in rec : q = r \/ q = [r EXCEPT !.consumed = TRUE]
                BY <3>3
            <4> QED  BY <3>1, <4>1
        <3> QED  BY <1>4, <3>2, <3>3
    <2>2. MinedOnly'
        <3>1. \A v \in Workers : work'[v] = work[v] \/ work'[v].pc = "idle" \/ work'[v].id \in 1 .. mined'
            BY <1>0, <1>1, <1>4
        <3> QED  BY <1>0, <1>1, <1>2, <2>1, <3>1, MinedKept
    <2>3. ASSUME Unspent, Unspent', Still, OnceEach
          PROVE  Still' /\ OnceEach'
        <3>1. \A v \in Workers : work'[v] = work[v] \/ work'[v].pc = "idle"
            BY <1>0, <1>4, <2>3
        <3>2. \A id : \A v \in Workers : LoudAt(v, id)' => LoudAt(v, id) /\ work'[v].pc = work[v].pc
            BY <3>1 DEF LoudAt
        <3>3. ASSUME NEW id, Once(id)
              PROVE  Once(id)'
            BY <1>1, <1>2, <3>2, <3>3, OnceKept
        <3>4. OnceEach'
            BY <1>3, <2>3, <3>3 DEF OnceEach
        <3>5. rec' = {}
            BY <1>4, <2>3 DEF Still
        <3>6. Still'
            BY <1>1, <2>3, <3>1, <3>5 DEF Still
        <3> QED  BY <3>4, <3>6
    <2>4. \A v \in Everyone : work'[v] = work[v] \/ work'[v].pc # "notify"
        BY <1>4
    <2> QED  BY <1>1, <1>4, <2>2, <2>3, <2>4, AroundKeepsU
<1>5. CASE Retrying
    <2>1. UNCHANGED <<budget, rec>>
        BY <1>5 DEF Retrying, Retry, TakePending, PendingDone, PendingUnknown, Reads, Unparked, pendingVars, pipeVars
    <2>2. \E r : work' = [work EXCEPT ![Retrier] = r] /\ r.pc # "notify"
        <3>1. CASE TakePending
            <4>1. PICK r \in pending :
                    work' = [work EXCEPT ![Retrier] =
                      [id |-> r.id, quiet |-> FALSE, memo |-> {},
                       pc |-> IF plan.txs[r.id].kind = "tip" THEN "fresh" ELSE IF plan.broadcasts THEN "route" ELSE "done"]]
                BY <3>1 DEF TakePending
            <4>2. PICK q : q = [id |-> r.id, quiet |-> FALSE, memo |-> {},
                       pc |-> IF plan.txs[r.id].kind = "tip" THEN "fresh" ELSE IF plan.broadcasts THEN "route" ELSE "done"]
                OBVIOUS
            <4>3. work' = [work EXCEPT ![Retrier] = q] /\ q.pc # "notify"
                BY <4>1, <4>2
            <4> QED  BY <4>3
        <3>2. CASE PendingDone \/ PendingUnknown
            <4>1. work' = [work EXCEPT ![Retrier] = Idle] /\ Idle.pc # "notify"
                BY <3>2 DEF PendingDone, PendingUnknown, Idle
            <4> QED  BY <4>1
        <3> QED  BY <1>5, <3>1, <3>2 DEF Retrying, Retry
    <2>3. work'[Retrier].pc # "notify" /\ \A v \in Everyone : v # Retrier => work'[v] = work[v]
        BY <1>0, <2>2, PlacesAre
    <2> QED  BY <1>0, <1>4, <2>1, <2>3, WorkersAssumption
<1>6. ASSUME NEW w \in Workers, RefetchFails(w) \/ Consume(w) \/ MarkFails(w)
      PROVE  UInv'
    <2>1. work' = [work EXCEPT ![w] = Idle]
        BY <1>6 DEF RefetchFails, Consume, MarkFails
    <2>2. work'[w] = Idle /\ \A v \in Everyone : v # w => work'[v] = work[v]
        BY <1>0, <2>1, PlacesAre
    <2>3. budget' = budget \/ \E f \in Faults : Spend(f)
        BY <1>6 DEF RefetchFails, Consume, MarkFails, Faults
    <2>4. rec' = rec \/ rec' = {IF r.id = work[w].id THEN [r EXCEPT !.consumed = TRUE] ELSE r : r \in rec}
        BY <1>6 DEF RefetchFails, Consume, MarkFails, pendingVars
    <2>5. work'[w].pc = "idle"
        BY <2>2 DEF Idle
    <2> QED  BY <1>0, <1>4, <2>2, <2>3, <2>4, <2>5
<1>7. ASSUME NEW w \in Workers, Refetch(w)
      PROVE  UInv'
    <2>1. UNCHANGED <<budget, rec>> /\ work[w].pc = "refetch"
        BY <1>7 DEF Refetch, At, pendingVars
    <2>2. ~Still
        BY <2>1 DEF Still
    <2>3. \/ work' = [work EXCEPT ![w] = Idle]
          \/ work' = [work EXCEPT ![w] = [id |-> work[w].id, pc |-> Entry(plan.txs[work[w].id]), quiet |-> FALSE, memo |-> {}]]
        BY <1>7 DEF Refetch, Take
    <2>4. Entry(plan.txs[work[w].id]) # "notify"
        BY DEF Entry
    <2>5. /\ work'[w].pc # "notify" /\ (work'[w].pc = "idle" \/ work'[w].id = work[w].id)
          /\ \A v \in Everyone : v # w => work'[v] = work[v]
        BY <1>0, <2>3, <2>4, PlacesAre DEF Idle
    <2>6. work[w].id \in 1 .. mined
        BY <1>0, <2>1 DEF MinedOnly
    <2> QED  BY <1>0, <1>4, <2>1, <2>2, <2>5, <2>6
<1>8. ASSUME NEW w \in Everyone, StatementFails(w)
      PROVE  UInv'
    <2>1. Spend("error") /\ rec' = rec
        BY <1>8 DEF StatementFails, pendingVars
    <2>2. \E f \in Faults : Spend(f)
        BY <2>1 DEF Faults
    <2>3. ~Unspent'
        BY <1>0, <1>1, <2>1, <2>2, BudgetsFall
    <2>4. \A v \in Everyone : v # w => work'[v] = work[v]
        <3>1. \E r : work' = [work EXCEPT ![w] = r]
            BY <1>8 DEF StatementFails
        <3> QED  BY <1>0, <3>1, PlacesAre
    <2>5. work'[w].pc \in {"idle", "unknown"} /\ (w \in Workers => work'[w].pc = "idle")
        <3>1. w # Retrier => work' = [work EXCEPT ![w] = Idle]
            BY <1>8 DEF StatementFails
        <3>2. w = Retrier => work'[w].pc = "unknown"
            <4> DEFINE old == work[w]
            <4>1. w = Retrier => work' = [work EXCEPT ![w] = [old EXCEPT !.pc = "unknown"]]
                BY <1>0, <1>8, PlacesAre DEF StatementFails
            <4>2. [old EXCEPT !.pc = "unknown"].pc = "unknown"
                BY <1>0, PlacesAre
            <4> QED  BY <1>0, <4>1, <4>2, PlacesAre
        <3> QED  BY <1>0, <3>1, <3>2, PlacesAre, WorkersAssumption DEF Idle
    <2> QED  BY <1>4, <2>1, <2>2, <2>3, <2>4, <2>5
<1> QED  BY <1>5, <1>6, <1>7, <1>8

\* A worker takes the first of its box.
LEMMA FetchKeepsU ==
    ASSUME UInv, NInv', QInv', NEW w \in Workers, Fetch(w) \/ FetchFails(w)
    PROVE  UInv'
<1>0. /\ MinedOnly /\ mined \in Nat /\ plan \in Plans /\ Budgeted /\ WorkShape /\ Boxes /\ Workers \subseteq Everyone
      /\ raw \subseteq 1 .. mined
    BY DEF UInv, QInv, KInv, Known, Shaped, Everyone, MinedOnly
<1>1. /\ UNCHANGED <<plan, db, pushed, mined, raw, rec, request, walk, todo, up>>
      /\ work[w].pc = "idle" /\ inbox[w] # <<>> /\ inbox' = [inbox EXCEPT ![w] = Tail(@)]
    BY DEF Fetch, FetchFails, pendingVars, At
<1>2. PICK id : id = Head(inbox[w])
    OBVIOUS
<1>3. ASSUME NEW i
      PROVE  /\ AtMostTwo(Places(i)) => AtMostTwo(Places(i))'
             /\ AtMostOne(Places(i)) => AtMostOne(Places(i))'
             /\ Places(i) = {} => Places(i)' = {} /\ id # i
             /\ id = i => /\ AtMostTwo(Places(i)) => AtMostOne(Places(i))'
                          /\ AtMostOne(Places(i)) => Places(i)' = {}
    <2>1. /\ AtMostOne(Places(i)') <=> AtMostOne(Places(i))'
          /\ AtMostTwo(Places(i)') <=> AtMostTwo(Places(i))'
        BY DEF AtMostOne, AtMostTwo
    <2> QED  BY <1>0, <1>1, <1>2, <2>1, FetchPlaces
<1>4. Places(id) # {} /\ id \in 1 .. mined
    <2>1. Places(id) # {}
        BY <1>3
    <2> QED  BY <1>0, <2>1 DEF MinedOnly
<1>5. Ids' = Ids /\ \A i : Kind(i)' = Kind(i) /\ (PushedFor(i)' <=> PushedFor(i))
    BY <1>1 DEF Ids, Kind, PushedFor
<1>6. ASSUME NEW r, work' = [work EXCEPT ![w] = r]
      PROVE  work'[w] = r /\ \A v \in Everyone : v # w => work'[v] = work[v]
    BY <1>0, <1>6, PlacesAre
<1>7. ASSUME \A v \in Everyone : v # w => work'[v] = work[v],
             work'[w] = work[w] \/ (work'[w].id = id /\ work'[w].pc # "notify"),
             budget' = budget \/ \E f \in Faults : Spend(f),
             Unspent /\ Unspent' /\ Still /\ OnceEach => Still' /\ OnceEach'
      PROVE  UInv'
    <2>1. MinedOnly'
        <3>1. \A v \in Workers : work'[v] = work[v] \/ work'[v].pc = "idle" \/ work'[v].id \in 1 .. mined'
            BY <1>0, <1>1, <1>4, <1>7
        <3> QED  BY <1>0, <1>1, <1>3, <3>1, MinedKept
    <2>2. \A v \in Everyone : work'[v] = work[v] \/ work'[v].pc # "notify"
        BY <1>7
    <2> QED  BY <1>1, <1>7, <2>1, <2>2, AroundKeepsU
<1>8. CASE FetchFails(w)
    <2>1. Spend("error") /\ work' = [work EXCEPT ![w] = [id |-> id, pc |-> "refetch", quiet |-> FALSE, memo |-> {}]]
        BY <1>2, <1>8 DEF FetchFails
    <2>2. \E f \in Faults : Spend(f)
        BY <2>1 DEF Faults
    <2>3. ~Unspent'
        BY <1>0, <1>1, <2>1, <2>2, BudgetsFall
    <2>4. PICK r : r = [id |-> id, pc |-> "refetch", quiet |-> FALSE, memo |-> {}]
        OBVIOUS
    <2>5. work' = [work EXCEPT ![w] = r] /\ r.id = id /\ r.pc # "notify"
        BY <2>1, <2>4
    <2>6. /\ work'[w].id = id /\ work'[w].pc # "notify" /\ \A v \in Everyone : v # w => work'[v] = work[v]
        BY <1>6, <2>5
    <2> QED  BY <1>7, <2>2, <2>3, <2>6
<1>9. CASE Fetch(w) /\ ~Fetched(id)
    <2>1. UNCHANGED <<work, catchUp, budget>>
        BY <1>2, <1>9 DEF Fetch
    <2>2. ASSUME Still, OnceEach
          PROVE  Still' /\ OnceEach'
        <3>1. Still'
            BY <1>1, <2>1, <2>2 DEF Still
        <3>2. ASSUME NEW i, Once(i)
              PROVE  Once(i)'
            <4>1. (Heard(i)' <=> Heard(i)) /\ \A v : LoudAt(v, i)' <=> LoudAt(v, i)
                BY <1>5, <2>1 DEF Heard, LoudAt
            <4> QED  BY <1>3, <1>5, <2>1, <3>2, <4>1 DEF Once
        <3> QED  BY <1>5, <2>2, <3>1, <3>2 DEF OnceEach
    <2> QED  BY <1>7, <2>1, <2>2
<1>10. CASE Fetch(w) /\ Fetched(id)
    <2>1. PICK q : q = (Recovered(id) \/ id \in catchUp)
        OBVIOUS
    <2>2. /\ work' = [work EXCEPT ![w] = [id |-> id, pc |-> Entry(plan.txs[id]), quiet |-> q, memo |-> {}]]
          /\ catchUp' = catchUp \ {id} /\ budget' = budget
        BY <1>2, <1>10, <2>1 DEF Fetch, Take
    <2>3. PICK r : /\ r = [id |-> id, pc |-> Entry(plan.txs[id]), quiet |-> q, memo |-> {}]
                   /\ r.id = id /\ r.pc \notin {"notify", "refetch", "idle"} /\ r.quiet = q
        <3>1. Entry(plan.txs[id]) \notin {"notify", "refetch", "idle"}
            BY DEF Entry
        <3>2. PICK r : r = [id |-> id, pc |-> Entry(plan.txs[id]), quiet |-> q, memo |-> {}]
            OBVIOUS
        <3>3. r.id = id /\ r.pc = Entry(plan.txs[id])
            BY <3>2
        <3>4. r.quiet = q
            BY <3>2, Zenon
        <3> QED  BY <3>1, <3>2, <3>3, <3>4
    <2>4. /\ work'[w].id = id /\ work'[w].pc \notin {"notify", "refetch", "idle"} /\ work'[w].quiet = q
          /\ \A v \in Everyone : v # w => work'[v] = work[v]
        <3>1. work' = [work EXCEPT ![w] = r]
            BY <2>2, <2>3
        <3> QED  BY <1>6, <2>3, <3>1
    <2>5. \A i : \A v \in Workers : v # w => (LoudAt(v, i)' <=> LoudAt(v, i)) /\ work'[v].pc = work[v].pc
        BY <1>0, <2>4 DEF LoudAt
    <2>6. \A i : ~LoudAt(w, i) /\ (LoudAt(w, i)' => i = id /\ ~q)
        BY <1>1, <2>4 DEF LoudAt
    <2>7. ASSUME Still, OnceEach
          PROVE  Still' /\ OnceEach'
        <3>1. Still'
            <4>1. \A v \in Workers : work'[v].pc # "refetch"
                BY <1>0, <2>4, <2>7 DEF Still
            <4> QED  BY <1>1, <2>2, <2>7, <4>1 DEF Still
        <3>2. ASSUME NEW i, Once(i), i # id
              PROVE  Once(i)'
            <4>1. \A v \in Workers : LoudAt(v, i)' => LoudAt(v, i) /\ work'[v].pc = work[v].pc
                BY <2>5, <2>6, <3>2
            <4>2. Heard(i)' => Heard(i)
                BY <1>5, <4>1 DEF Heard
            <4>3. i \in catchUp' <=> i \in catchUp
                BY <2>2, <3>2
            <4> QED  BY <1>3, <1>5, <3>2, <4>1, <4>2, <4>3 DEF Once
        <3>3. q = (id \in catchUp)
            BY <1>10, <2>1, <2>7 DEF Still, Fetched, Held, Recovered
        <3>4. ASSUME Once(id), Kind(id) \notin NodeKinds
              PROVE  Once(id)'
            <4>1. CASE id \in catchUp
                <5>1. \A v \in Workers : LoudAt(v, id)' => LoudAt(v, id) /\ work'[v].pc = work[v].pc
                    BY <2>5, <2>6, <3>3, <4>1
                <5>2. Heard(id)' => Heard(id)
                    BY <1>5, <5>1 DEF Heard
                <5>3. AtMostOne(Places(id))' /\ (Heard(id)' => Places(id)' = {})
                    BY <1>3, <3>4, <4>1, <5>2 DEF Once
                <5> QED  BY <1>5, <2>2, <3>4, <5>1, <5>3 DEF Once
            <4>2. CASE id \notin catchUp
                <5>1. ~Heard(id) /\ AtMostOne(Places(id))
                    BY <1>4, <3>4, <4>2 DEF Once
                <5>2. \A v \in Workers : LoudAt(v, id)' => v = w
                    BY <2>5, <5>1 DEF Heard
                <5>3. ~PushedFor(id)'
                    BY <1>5, <5>1 DEF Heard
                <5>4. Places(id)' = {} /\ AtMostOne(Places(id))'
                    BY <1>3, <5>1
                <5> QED  BY <2>2, <5>2, <5>3, <5>4 DEF Once
            <4> QED  BY <4>1, <4>2
        <3> QED  BY <1>5, <2>7, <3>1, <3>2, <3>4 DEF OnceEach
    <2> QED  BY <1>7, <2>2, <2>4, <2>7
<1> QED  BY <1>8, <1>9, <1>10

\* A crash empties hands and boxes.
LEMMA CrashKeepsU ==
    ASSUME UInv, NInv', QInv', Crash
    PROVE  UInv'
<1>0. MinedOnly /\ mined \in Nat
    BY DEF UInv, QInv, KInv, Known
<1>1. /\ UNCHANGED <<plan, db, pushed, mined, raw, rec, request>>
      /\ (\A v \in Everyone : work'[v] = Idle) /\ inbox' = [v \in Workers |-> <<>>] /\ catchUp' = {} /\ walk'.at = 0
      /\ todo' = {} /\ \E f \in Faults : Spend(f)
    BY DEF Crash, pendingVars, NoWalk, Faults
<1>2. \A v \in Everyone : work'[v].pc = "idle"
    BY <1>1 DEF Idle
<1>3. \A id : Places(id)' = {}
    <2>1. DOMAIN <<>> = {}
        OBVIOUS
    <2> QED  BY <1>1, <2>1 DEF Places
<1>4. MinedOnly'
    BY <1>0, <1>1, <1>2, <1>3, MinedKept DEF Everyone
<1>5. Still => Still'
    BY <1>1, <1>2 DEF Still, Everyone
<1>6. OnceEach'
    <2>1. ASSUME NEW id
          PROVE  Once(id)'
        <3>1. \A v \in Workers : ~LoudAt(v, id)'
            BY <1>2 DEF LoudAt, Everyone
        <3>2. AtMostOne(Places(id))' /\ AtMostTwo(Places(id))'
            BY <1>3 DEF AtMostOne, AtMostTwo
        <3> QED  BY <1>3, <3>1, <3>2 DEF Once
    <2> QED  BY <2>1 DEF OnceEach
<1> QED  BY <1>1, <1>2, <1>4, <1>5, <1>6, AroundKeepsU

LEMMA SendOnce ==
    ASSUME Boxes, NEW ids, Boxed(ids), Send(ids), NEW id, \A i, j \in DOMAIN ids : ids[i] = ids[j] => i = j
    PROVE  /\ AtMostOne(Places(id)) => AtMostTwo(Places(id))'
           /\ Places(id) = {} => AtMostOne(Places(id))'
           /\ (\A i \in DOMAIN ids : ids[i] # id) => Places(id)' \subseteq Places(id)
<1>1. PICK new : /\ Places(id)' \subseteq Places(id) \cup new /\ AtMostOne(new)
                 /\ ((\A i \in DOMAIN ids : ids[i] # id) => new = {})
    BY SendPlaces
<1>2. AtMostOne(Places(id)) => AtMostTwo(Places(id)')
    BY <1>1 DEF AtMostOne, AtMostTwo
<1>3. Places(id) = {} => AtMostOne(Places(id)')
    BY <1>1 DEF AtMostOne
<1>4. /\ AtMostOne(Places(id)') <=> AtMostOne(Places(id))'
      /\ AtMostTwo(Places(id)') <=> AtMostTwo(Places(id))'
    BY DEF AtMostOne, AtMostTwo
<1> QED  BY <1>1, <1>2, <1>3, <1>4

\* The steps that send.
LEMMA SendingKeepsU ==
    ASSUME UInv, NInv', QInv', Ingest \/ CatchUp \/ Requeue \/ WalkStores
    PROVE  UInv'
<1>0. /\ MinedOnly /\ mined \in Nat /\ plan \in Plans /\ Budgeted /\ Boxes
      /\ raw \subseteq 1 .. mined /\ walk.at \in Nat /\ walk.at <= mined
    BY DEF UInv, QInv, KInv, Known, MinedOnly
<1>1. UNCHANGED <<plan, db, pushed, work, request>>
    BY DEF Ingest, CatchUp, Requeue, WalkStores, storeVars
<1>2. \A x : Boxed(<<x>>) /\ DOMAIN <<x>> = 1 .. 1 /\ <<x>>[1] = x /\ \A i, j \in DOMAIN <<x>> : <<x>>[i] = <<x>>[j] => i = j
    <2>1. ASSUME NEW x
          PROVE  Boxed(<<x>>) /\ DOMAIN <<x>> = 1 .. 1 /\ <<x>>[1] = x /\ \A i, j \in DOMAIN <<x>> : <<x>>[i] = <<x>>[j] => i = j
        <3>1. <<x>> \in Seq({x})
            OBVIOUS
        <3>2. Boxed(<<x>>)
            BY <3>1, BoxedFacts
        <3>3. DOMAIN <<x>> = 1 .. 1 /\ <<x>>[1] = x
            OBVIOUS
        <3>4. \A i, j \in 1 .. 1 : i = j
            OBVIOUS
        <3> QED  BY <3>2, <3>3, <3>4
    <2> QED  BY <2>1
<1>3. ASSUME NEW S \in SUBSET (1 .. mined)
      PROVE  /\ Boxed(Ordered(S)) /\ \A i \in DOMAIN Ordered(S) : Ordered(S)[i] \in S
             /\ \A i, j \in DOMAIN Ordered(S) : Ordered(S)[i] = Ordered(S)[j] => i = j
    <2>1. IsFiniteSet(1 .. mined) /\ S \in SUBSET Nat
        BY <1>0, FS_Interval
    <2>2. IsFiniteSet(S)
        BY <2>1, FS_Subset
    <2> QED  BY <2>1, <2>2, OrderedMembers
<1>4. /\ Ids' = Ids
      /\ \A id : /\ Kind(id)' = Kind(id) /\ (PushedFor(id)' <=> PushedFor(id)) /\ (Heard(id)' <=> Heard(id))
                 /\ \A v : LoudAt(v, id)' <=> LoudAt(v, id)
    BY <1>1 DEF Ids, Kind, PushedFor, Heard, LoudAt
<1>5. ASSUME NEW id, Once(id), Places(id)' \subseteq Places(id), id \in catchUp' <=> id \in catchUp
      PROVE  Once(id)'
    BY <1>1, <1>4, <1>5, OnceKept
<1>6. ASSUME mined' \in Nat, mined <= mined', raw' \subseteq raw \cup 1 .. mined', \A r \in rec' : r \in rec \/ r.id \in 1 .. mined',
             \A id : id \notin 1 .. mined' => Places(id)' \subseteq Places(id),
             budget' = budget \/ \E f \in Faults : Spend(f),
             Unspent /\ Unspent' /\ Still /\ OnceEach => Still' /\ OnceEach'
      PROVE  UInv'
    <2>1. MinedOnly'
        BY <1>0, <1>1, <1>6, MinedKept
    <2> QED  BY <1>1, <1>6, <2>1, AroundKeepsU
<1>7. CASE Ingest
    <2>1. PICK x : x = mined + 1
        OBVIOUS
    <2>2. /\ mined' = x /\ raw' = raw \cup {x} /\ UNCHANGED <<rec, catchUp, walk, up, todo, budget>>
          /\ Send(<<x>>) \/ inbox' = inbox
        BY <1>7, <2>1 DEF Ingest
    <2>3. ASSUME NEW id, id # x
          PROVE  Places(id)' \subseteq Places(id)
        <3>1. CASE Send(<<x>>)
            BY <1>0, <1>2, <2>3, <3>1, SendOnce
        <3>2. CASE inbox' = inbox
            BY <3>2 DEF Places
        <3> QED  BY <2>2, <3>1, <3>2
    <2>4. ASSUME Kind(x) \notin NodeKinds
          PROVE  Once(x)'
        <3>1. x \notin 1 .. mined
            BY <1>0, <2>1
        <3>2. Places(x) = {} /\ ~PushedFor(x) /\ \A v \in Workers : ~LoudAt(v, x)
            BY <1>0, <2>4, <3>1 DEF MinedOnly, LoudAt
        <3>3. AtMostOne(Places(x))'
            <4>1. CASE Send(<<x>>)
                BY <1>0, <1>2, <3>2, <4>1, SendOnce
            <4>2. CASE inbox' = inbox
                BY <3>2, <4>2 DEF Places, AtMostOne
            <4> QED  BY <2>2, <4>1, <4>2
        <3>4. AtMostTwo(Places(x))'
            BY <3>3 DEF AtMostOne, AtMostTwo
        <3>5. ~PushedFor(x)' /\ \A v \in Workers : ~LoudAt(v, x)'
            BY <1>4, <3>2
        <3>6. ~Heard(x)'
            BY <3>5 DEF Heard
        <3> QED  BY <3>3, <3>4, <3>5, <3>6 DEF Once
    <2>5. ASSUME Still, OnceEach
          PROVE  Still' /\ OnceEach'
        <3>1. Still'
            BY <1>1, <2>2, <2>5 DEF Still
        <3>2. ASSUME NEW id \in Ids, Kind(id) \notin NodeKinds
              PROVE  Once(id)'
            BY <1>5, <2>2, <2>3, <2>4, <2>5, <3>2 DEF OnceEach
        <3> QED  BY <1>4, <3>1, <3>2 DEF OnceEach
    <2>6. x \in 1 .. mined' /\ mined' \in Nat /\ mined <= mined'
        BY <1>0, <2>1, <2>2
    <2> QED  BY <1>6, <2>2, <2>3, <2>5, <2>6
<1>8. CASE CatchUp
    <2>1. UNCHANGED <<rec, raw, mined, walk, up>> /\ todo' = todo \ {"catch_up"} /\ "catch_up" \in todo /\ up
        BY <1>8 DEF CatchUp, pendingVars
    <2>2. CASE catchUp' = catchUp \cup raw /\ Send(Ordered(raw)) /\ budget' = budget
        <3>1. \A id \in raw : id \in 1 .. mined
            BY <1>0
        <3>2. ASSUME NEW id
              PROVE  /\ AtMostOne(Places(id)) => AtMostTwo(Places(id))'
                     /\ Places(id) = {} => AtMostOne(Places(id))'
                     /\ id \notin raw => Places(id)' \subseteq Places(id)
            BY <1>0, <1>3, <2>2, SendOnce
        <3>3. ASSUME Still, OnceEach
              PROVE  Still' /\ OnceEach'
            <4>1. catchUp = {}
                BY <2>1, <3>3 DEF Still
            <4>2. Still'
                BY <1>1, <2>1, <3>3 DEF Still
            <4>3. ASSUME NEW id \in Ids, Kind(id) \notin NodeKinds
                  PROVE  Once(id)'
                <5>0. Once(id)
                    BY <3>3, <4>3 DEF OnceEach
                <5>1. CASE id \in raw
                    <6>1. AtMostTwo(Places(id))' /\ (Heard(id)' => AtMostOne(Places(id))')
                        BY <1>4, <3>2, <4>1, <5>0 DEF Once
                    <6> QED  BY <1>1, <1>4, <2>2, <5>0, <5>1, <6>1 DEF Once
                <5>2. CASE id \notin raw
                    BY <1>5, <2>2, <3>2, <5>0, <5>2
                <5> QED  BY <5>1, <5>2
            <4> QED  BY <1>4, <4>2, <4>3 DEF OnceEach
        <3>4. \A id : id \notin 1 .. mined' => Places(id)' \subseteq Places(id)
            BY <2>1, <3>1, <3>2
        <3>5. mined' \in Nat /\ mined <= mined' /\ raw' \subseteq raw \cup 1 .. mined' /\ \A r \in rec' : r \in rec
            BY <1>0, <2>1
        <3> QED  BY <1>6, <2>2, <3>3, <3>4, <3>5
    <2>3. CASE Spend("error") /\ inbox' = inbox
        <3>1. \E f \in Faults : Spend(f)
            BY <2>3 DEF Faults
        <3>2. ~Unspent'
            BY <1>0, <1>1, <2>3, <3>1, BudgetsFall
        <3>3. \A id : Places(id)' = Places(id)
            BY <2>3 DEF Places
        <3> QED  BY <1>0, <1>6, <2>1, <3>1, <3>2, <3>3
    <2> QED  BY <1>8, <2>2, <2>3 DEF CatchUp
<1>9. CASE Requeue
    <2>1. PICK S : S = Unconsumed
        OBVIOUS
    <2>2. /\ UNCHANGED <<rec, raw, mined, walk, up, catchUp>> /\ todo' = todo \ {"requeue"} /\ Send(Ordered(S))
          /\ budget' = budget \/ Spend("error")
        BY <1>9, <2>1 DEF Requeue, ResetStale, Show, Written, Unwritten, pendingVars
    <2>3. S \in SUBSET (1 .. mined) /\ (rec = {} => S = {})
        BY <1>0, <2>1 DEF Unconsumed, MinedOnly
    <2>4. ASSUME NEW id, id \notin S
          PROVE  Places(id)' \subseteq Places(id)
        BY <1>0, <1>3, <2>2, <2>3, <2>4, SendOnce
    <2>5. ASSUME Still, OnceEach
          PROVE  Still' /\ OnceEach'
        <3>1. S = {} /\ Still'
            BY <1>1, <2>2, <2>3, <2>5 DEF Still
        <3>2. ASSUME NEW id, Once(id)
              PROVE  Once(id)'
            BY <1>5, <2>2, <2>4, <3>1, <3>2
        <3> QED  BY <1>4, <2>5, <3>1, <3>2 DEF OnceEach
    <2>6. budget' = budget \/ \E f \in Faults : Spend(f)
        BY <2>2 DEF Faults
    <2>7. \A id : id \notin 1 .. mined' => Places(id)' \subseteq Places(id)
        BY <2>2, <2>3, <2>4
    <2> QED  BY <1>0, <1>6, <2>2, <2>5, <2>6, <2>7
<1>10. CASE WalkStores
    <2>1. PICK x : x = walk.at
        OBVIOUS
    <2>2. /\ UNCHANGED <<raw, mined>> /\ x # 0
          /\ \/ rec' = rec /\ inbox' = inbox
             \/ rec' = rec \cup {[id |-> x, consumed |-> FALSE]} /\ Send(<<x>>)
        BY <1>10, <2>1 DEF WalkStores
    <2>3. x \in 1 .. mined /\ ~Still
        BY <1>0, <2>1, <2>2 DEF Still
    <2>4. budget' = budget \/ \E f \in Faults : Spend(f)
        BY <1>10 DEF WalkStores, Walked, Show, Faults
    <2>5. ASSUME NEW id, id # x
          PROVE  Places(id)' \subseteq Places(id)
        <3>1. CASE Send(<<x>>)
            BY <1>0, <1>2, <2>5, <3>1, SendOnce
        <3>2. CASE inbox' = inbox
            BY <3>2 DEF Places
        <3> QED  BY <2>2, <3>1, <3>2
    <2>6. \A r \in rec' : r \in rec \/ r.id \in 1 .. mined'
        BY <2>2, <2>3
    <2>7. \A id : id \notin 1 .. mined' => Places(id)' \subseteq Places(id)
        BY <2>2, <2>3, <2>5
    <2> QED  BY <1>0, <1>6, <2>2, <2>3, <2>4, <2>6, <2>7
<1> QED  BY <1>7, <1>8, <1>9, <1>10

LEMMA InitHoldsU ==
    ASSUME Init
    PROVE  UInv
<1>1. /\ plan \in Plans /\ budget = plan.budget /\ pushed = EmptyBag /\ raw = {} /\ rec = {} /\ ~request /\ walk.at = 0
      /\ (\A v \in Everyone : work[v].pc = "idle") /\ inbox = [v \in Workers |-> <<>>] /\ catchUp = {}
      /\ {"bcasts", "tips"} \subseteq DOMAIN db
    BY DEF Init, NoWalk, Idle, EmptyTables
<1>2. Budgeted
    BY <1>1, PlansAssumption DEF Budgeted, Faults
<1>3. DOMAIN pushed = {}
    BY <1>1 DEF EmptyBag, SetToBag
<1>4. \A id : Places(id) = {}
    <2>1. DOMAIN <<>> = {}
        OBVIOUS
    <2> QED  BY <1>1, <2>1 DEF Places
<1>5. GateOnce /\ GatePushed
    BY <1>1, <1>3 DEF GateOnce, GatePushed, Announces, PushedFor
<1>6. MinedOnly
    BY <1>1, <1>3, <1>4 DEF MinedOnly, PushedFor, Everyone
<1>7. Still
    BY <1>1, <1>3 DEF Still, Everyone
<1>8. OnceEach
    <2>1. ASSUME NEW id
          PROVE  Once(id)
        <3>1. \A v \in Workers : ~LoudAt(v, id)
            BY <1>1 DEF LoudAt, Everyone
        <3>2. AtMostOne(Places(id)) /\ AtMostTwo(Places(id))
            BY <1>4 DEF AtMostOne, AtMostTwo
        <3> QED  BY <1>4, <3>1, <3>2 DEF Once
    <2> QED  BY <2>1 DEF OnceEach
<1> QED  BY <1>1, <1>2, <1>5, <1>6, <1>7, <1>8, InitOrder, InitHoldsQ DEF UInv

LEMMA NextKeepsU ==
    ASSUME UInv, [Next]_vars
    PROVE  UInv'
<1>1. NInv' /\ QInv'
    BY NextOrder, NextKeepsQ DEF UInv
<1>2. CASE \E w \in Workers : WorkerSteps(w) \/ FetchFails(w) \/ RefetchFails(w) \/ MarkFails(w)
    BY <1>1, <1>2, FetchKeepsU, LeavesKeepU DEF WorkerSteps
<1>3. CASE \E w \in Everyone : Handling(w) \/ HandlingPending(w) \/ StatementFails(w)
    BY <1>1, <1>3, HandlersKeepU, LeavesKeepU
<1>4. CASE Retrying
    BY <1>1, <1>4, LeavesKeepU
<1>5. CASE Crash
    BY <1>1, <1>5, CrashKeepsU
<1> QED  BY <1>1, <1>2, <1>3, <1>4, <1>5, StillKeepsU, SendingKeepsU DEF Next

\* One transaction never pushes the same thing twice, through crashes and
\* catch-ups, unless a statement failed or a reindex was asked for
\* (k_transaction_queue.rs startup_catch_up, worker.rs process_transaction).
THEOREM PushedOnceTheorem == Spec => []PushedOnce
<1>1. Init => UInv
    BY InitHoldsU
<1>2. UInv /\ [Next]_vars => UInv'
    BY NextKeepsU
<1>3. UInv => PushedOnce
    <2> SUFFICES ASSUME UInv, NEW p \in DOMAIN pushed, pushed[p] # 1
                 PROVE  budget.error < plan.budget.error \/ budget.reindex < plan.budget.reindex
        BY DEF PushedOnce, BagToSet
    <2>1. ~Unspent /\ Budgeted
        BY DEF UInv, Still
    <2>2. plan.budget \in [Faults -> Nat] /\ {"error", "reindex"} \subseteq Faults
        BY <2>1, PlansAssumption DEF Budgeted, Faults
    <2> QED  BY <2>1, <2>2 DEF Unspent, Budgeted
<1> QED  BY <1>1, <1>2, <1>3, PTL DEF Spec
=============================================================================
