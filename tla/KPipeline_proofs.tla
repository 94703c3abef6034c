--------------------------- MODULE KPipeline_proofs ---------------------------
(***************************************************************************)
(* Proofs about the transaction processor, for any workers, any plan of    *)
(* transactions and faults and any times: content does not survive its     *)
(* author's delete, what a denied author has stored is purged, a copied    *)
(* signature changes nothing, the newest action decides, rows that belong  *)
(* together stay together, and a restart forgets no recovered transaction. *)
(*                                                                         *)
(* Only content and delete transactions matter to that (Protected); the    *)
(* other handlers only take content away. A delete writes its tombstone    *)
(* before it looks for the content, and content looks at the tombstones    *)
(* after it is saved, so a delete that is done has left no content of its  *)
(* author that is not in a worker's hands, on its way to that second look  *)
(* (Done). It stays so, because new content comes by the same look.        *)
(*                                                                         *)
(* A denied author has a purge to come, or owed, or nothing stored and     *)
(* nothing between the gate and the save (Dealt).                          *)
(*                                                                         *)
(* A worker past the signature holds a transaction that owns it, so a copy *)
(* is before it or on its way out (ClaimStage). All that way out can do is *)
(* remove rows about the copy, and rows are about transactions that own    *)
(* their signatures (Names).                                               *)
(*                                                                         *)
(* Rows and notifications of votes are what their transactions say; the    *)
(* only statement that takes a row and leaves its notification is the      *)
(* erase of a post, and then the delete is done (MInv).                    *)
(*                                                                         *)
(* A pair of people is as its newest recorded action says, unless a worker *)
(* has that action in hand or was interrupted at it (AllCarried): who has  *)
(* just recorded the newest action is alone at the rows, or the pair is    *)
(* raced. An edit compares times in the statement that shows it. A profile *)
(* goes by what was read before, so its person may have no other at work.  *)
(*                                                                         *)
(* A recovered transaction's row outlives its place in memory. From the    *)
(* requeue at startup on, a row that is not consumed is in a worker's      *)
(* hands, in a worker's box or given up, or its payload is no text         *)
(* (Remembered). The numbers of a batch are shared out among the boxes by  *)
(* position (Share), so none that is sent is left out.                     *)
(***************************************************************************)
EXTENDS KPipeline, FiniteSetTheorems, SequenceTheorems, TLAPS

-----------------------------------------------------------------------------
(* The invariant.                                                          *)

Kind(id) == plan.txs[id].kind
Protected == Content \cup {"delete"}

\* Where content is once its row may be there, and a delete once its tombstone is.
Late == {"options", "mentions", "notify", "drop", "erase"}
Burying == {"original", "record", "erase"}
ContentPcs == Late \cup {"tomb", "fresh", "save", "done", "refetch"}
DeletePcs == Burying \cup {"fresh", "bury", "done", "refetch"}

WorkShape ==
    work = [w \in Everyone |-> [id |-> work[w].id, pc |-> work[w].pc, quiet |-> work[w].quiet, memo |-> work[w].memo]]
TablesShape == {"contents", "tombs", "used", "denylist"} \subseteq DOMAIN db

\* The transactions that any part of the pipeline knows are those of the plan,
\* and the retry loop has no content and no delete.
Known ==
    /\ plan \in Plans
    /\ mined \in Nat /\ mined <= Cardinality(Ids)
    /\ walk = [at |-> walk.at, found |-> walk.found] /\ walk.at \in Nat /\ walk.at <= mined
    /\ raw \subseteq Ids
    /\ rec \subseteq [id : Ids, consumed : BOOLEAN]
    /\ \A r \in pending : {"id"} \subseteq DOMAIN r /\ r.id \in Ids /\ Kind(r.id) \notin Protected

InStage(w) ==
    LET id == work[w].id
    IN work[w].pc \notin {"idle", "refetch"} =>
         /\ id \in Ids
         /\ Kind(id) \in Content => work[w].pc \in ContentPcs
         /\ Kind(id) = "delete" => work[w].pc \in DeletePcs
         /\ work[w].pc \in {"tomb", "save"} => Kind(id) \in Content
         /\ work[w].pc = "bury" => Kind(id) = "delete"
         /\ work[w].pc = "fresh" => Kind(id) \notin {"unknown", "bcast"}
         /\ work[w].pc \in {"operator", "purge"} => Kind(id) = "block"
         /\ Kind(id) = "delete" /\ work[w].pc # "done" => plan.kaposts
         /\ w = Retrier => Kind(id) \notin Protected

RowsSound ==
    \A c \in db.contents :
        /\ {"id", "by"} \subseteq DOMAIN c
        /\ c.id \in Ids /\ Kind(c.id) \in Content /\ c.by = plan.txs[c.id].by

\* A signature has one owner.
UsedSound ==
    /\ \A u \in db.used : u.id \in Ids /\ (Kind(u.id) = "delete" => plan.kaposts /\ plan.txs[u.id].signed)
    /\ \A u, v \in db.used : u.sig = v.sig => u.id = v.id

Claims(id) == \E u \in db.used : u.sig = plan.txs[id].sig /\ u.id = id
Unclaimable(id) ==
    \/ ~plan.kaposts \/ ~plan.txs[id].signed
    \/ \E u \in db.used : u.sig = plan.txs[id].sig /\ u.id # id
Gated(id) == <<"gate", id, 0>> \in raced

\* What a delete that is done has seen to.
Buried(d) == \E t \in db.tombs : t.post = plan.txs[d].ref /\ t.by = plan.txs[d].by
Fits(d, c) == c.id = plan.txs[d].ref /\ c.by = plan.txs[d].by
Kept(c) == InHand(c.id, Late) \/ c.id \in torn
Done(d) == Buried(d) /\ \A c \in db.contents : Fits(d, c) => Kept(c)

TombsSound ==
    \A t \in db.tombs :
        /\ t.id \in Ids /\ Kind(t.id) = "delete" /\ t.post = plan.txs[t.id].ref /\ t.by = plan.txs[t.id].by
        /\ Claims(t.id)
        /\ Done(t.id) \/ Gated(t.id) \/ t.id \in cut \/ InHand(t.id, Burying)

DeleteStage(w) ==
    LET id == work[w].id
    IN work[w].pc \notin {"idle", "refetch"} /\ Kind(id) = "delete" =>
         /\ work[w].pc \in Burying \cup {"bury"} => Claims(id)
         /\ work[w].pc \in Burying => Buried(id)
         /\ work[w].pc = "done" => Gated(id) \/ Unclaimable(id) \/ (Claims(id) /\ Done(id))

Staged == \A w \in Everyone : InStage(w) /\ DeleteStage(w)
Shaped == WorkShape /\ TablesShape
KInv == Known /\ Shaped /\ Staged /\ RowsSound /\ UsedSound /\ TombsSound

-----------------------------------------------------------------------------
(* Lemmas.                                                                 *)

LEMMA IdsFact ==
    ASSUME plan \in Plans
    PROVE  /\ Cardinality(Ids) \in Nat
           /\ Ids = 1 .. Cardinality(Ids)
           /\ \A i \in Ids : plan.txs[i].id = i /\ plan.txs[i].kind \in Kinds
BY PlansAssumption, FS_CardinalityType DEF Ids

\* The invariant is what has to be shown of a state.
LEMMA DeleteWinsHolds ==
    ASSUME KInv
    PROVE  DeleteWins
<1> SUFFICES ASSUME NEW c \in db.contents, NEW t \in db.tombs, t.post = c.id, t.by = c.by
             PROVE  \/ Kept(c)
                    \/ \E d \in Ids :
                         /\ plan.txs[d].kind = "delete" /\ plan.txs[d].ref = c.id /\ plan.txs[d].by = c.by
                         /\ InHand(d, Burying) \/ d \in cut \/ <<"gate", d, 0>> \in raced
    BY DEF DeleteWins, Kept, Late, Burying
<1>1. /\ t.id \in Ids /\ Kind(t.id) = "delete" /\ t.post = plan.txs[t.id].ref /\ t.by = plan.txs[t.id].by
      /\ Done(t.id) \/ Gated(t.id) \/ t.id \in cut \/ InHand(t.id, Burying)
    BY DEF KInv, TombsSound
<1>2. CASE Done(t.id)
    BY <1>1, <1>2 DEF Done, Fits
<1>3. CASE ~Done(t.id)
    BY <1>1, <1>3 DEF Gated, Kind
<1> QED  BY <1>2, <1>3
\* A worker's step changes its own place only.
Moved(w, pc) ==
    /\ WorkShape'
    /\ work[w].pc # "idle"
    /\ \A v \in Everyone :
           work'[v].id = work[v].id /\ work'[v].pc = IF v = w THEN pc ELSE work[v].pc

LEMMA PlacesAre ==
    ASSUME WorkShape
    PROVE  /\ DOMAIN work = Everyone
           /\ \A w \in Everyone :
                  work[w] = [id |-> work[w].id, pc |-> work[w].pc, quiet |-> work[w].quiet, memo |-> work[w].memo]
BY DEF WorkShape

LEMMA PutMoves ==
    ASSUME WorkShape, NEW w \in Everyone, NEW r, work' = [work EXCEPT ![w] = r],
           r = [id |-> r.id, pc |-> r.pc, quiet |-> r.quiet, memo |-> r.memo]
    PROVE  /\ WorkShape'
           /\ work'[w] = r
           /\ \A v \in Everyone \ {w} : work'[v] = work[v]
<1>1. work' = [v \in Everyone |-> IF v = w THEN r ELSE work[v]]
    BY PlacesAre
<1>2. Everyone' = Everyone
    BY DEF Everyone
<1>3. \A v \in Everyone :
        work'[v] = [id |-> work'[v].id, pc |-> work'[v].pc, quiet |-> work'[v].quiet, memo |-> work'[v].memo]
    BY <1>1, PlacesAre
<1>4. work' = [v \in Everyone |-> work'[v]]
    BY <1>1
<1> QED  BY <1>1, <1>2, <1>3, <1>4 DEF WorkShape

LEMMA GotoMoves ==
    ASSUME WorkShape, NEW w \in Everyone, work[w].pc # "idle", NEW pc,
           Goto(w, pc) \/ \E memo : Recall(w, pc, memo)
    PROVE  Moved(w, pc)
<1> DEFINE old == work[w]
<1>0. old = [id |-> old.id, pc |-> old.pc, quiet |-> old.quiet, memo |-> old.memo]
    BY PlacesAre
<1>1. CASE Goto(w, pc)
    <2> DEFINE r == [old EXCEPT !.pc = pc]
    <2>1. work' = [work EXCEPT ![w] = r]
        BY <1>1 DEF Goto
    <2>2. r = [id |-> old.id, pc |-> pc, quiet |-> old.quiet, memo |-> old.memo]
        BY <1>0
    <2> HIDE DEF r
    <2>3. WorkShape' /\ work'[w] = r /\ \A v \in Everyone \ {w} : work'[v] = work[v]
        BY <2>1, <2>2, PutMoves
    <2> QED  BY <2>2, <2>3 DEF Moved
<1>2. ASSUME NEW memo, Recall(w, pc, memo)
      PROVE  Moved(w, pc)
    <2> DEFINE r0 == [old EXCEPT !.pc = pc]
               r == [r0 EXCEPT !.memo = memo]
    <2>1. work' = [work EXCEPT ![w] = r]
        BY <1>2, PlacesAre DEF Recall
    <2>0. r0 = [id |-> old.id, pc |-> pc, quiet |-> old.quiet, memo |-> old.memo]
        BY <1>0
    <2> HIDE DEF r0
    <2>2. r = [id |-> old.id, pc |-> pc, quiet |-> old.quiet, memo |-> memo]
        BY <2>0
    <2> HIDE DEF r
    <2>3. WorkShape' /\ work'[w] = r /\ \A v \in Everyone \ {w} : work'[v] = work[v]
        BY <2>1, <2>2, PutMoves
    <2> QED  BY <2>2, <2>3 DEF Moved
<1> QED  BY <1>1, <1>2
-----------------------------------------------------------------------------
(* The tables.                                                             *)

\* Tables that have lost some content, perhaps, and neither gained content nor
\* changed a tombstone or a signature.
Spares(d) ==
    /\ {"contents", "tombs", "used", "denylist"} \subseteq DOMAIN d
    /\ d.tombs = db.tombs /\ d.used = db.used
    /\ \A c \in d.contents :
           {"id", "by"} \subseteq DOMAIN c /\ \E b \in db.contents : b.id = c.id /\ b.by = c.by

\* Every statement spares what it is not about.
LEMMA StatementsSpare ==
    ASSUME TablesShape, RowsSound, NEW tx
    PROVE  /\ Spares(db)
           /\ Spares(SavePollOptions(db, tx)) /\ Spares(SavePollMentions(db, tx))
           /\ Spares(RecordEdit(db, tx)) /\ Spares(RecordDelete(db, tx))
           /\ \A kind : Spares(AddEditMentions(db, tx, kind))
           /\ Spares(Unvote(db, tx)) /\ Spares(SaveBallot(db, tx)) /\ Spares(SaveTip(db, tx))
           /\ \A replaced : Spares(CastVote(db, tx, replaced))
           /\ Spares(RecordRelation(db, tx))
           /\ Spares(Follow(db, tx)) /\ Spares(Unfollow(db, tx)) /\ Spares(Block(db, tx)) /\ Spares(Unblock(db, tx))
           /\ \A who : Spares(Deny(db, who)) /\ Spares(Allow(db, who))
           /\ \A seen : Spares(SaveProfile(db, tx, seen))
           /\ \A rows : Spares([db EXCEPT !.bcasts = rows])
<1>1. Spares(db)
    BY DEF Spares, TablesShape, RowsSound
<1>2. /\ Spares(SavePollOptions(db, tx)) /\ Spares(SavePollMentions(db, tx))
      /\ Spares(RecordEdit(db, tx)) /\ Spares(RecordDelete(db, tx))
      /\ \A kind : Spares(AddEditMentions(db, tx, kind))
    BY <1>1 DEF Spares, SavePollOptions, SavePollMentions, RecordEdit, RecordDelete, AddEditMentions
<1>3. Spares(Unvote(db, tx)) /\ Spares(SaveBallot(db, tx)) /\ Spares(SaveTip(db, tx))
    BY <1>1 DEF Spares, Unvote, SaveBallot, SaveTip
<1>4. \A replaced : Spares(CastVote(db, tx, replaced))
    BY <1>1 DEF Spares, CastVote
<1>5. /\ Spares(RecordRelation(db, tx))
      /\ Spares(Follow(db, tx)) /\ Spares(Unfollow(db, tx)) /\ Spares(Block(db, tx)) /\ Spares(Unblock(db, tx))
      /\ \A who : Spares(Deny(db, who)) /\ Spares(Allow(db, who))
    BY <1>1 DEF Spares, RecordRelation, Follow, Unfollow, Block, Unblock, Deny, Allow
<1>6. /\ \A seen : Spares(SaveProfile(db, tx, seen))
      /\ \A rows : Spares([db EXCEPT !.bcasts = rows])
    BY <1>1 DEF Spares, SaveProfile
<1> QED  BY <1>1, <1>2, <1>3, <1>4, <1>5, <1>6

\* The statements that take content away.
LEMMA RemovalsSpare ==
    ASSUME TablesShape, RowsSound, NEW tx
    PROVE  /\ Spares(Unquote(db, tx)) /\ Spares(ApplyEdit(db, tx))
           /\ \A who : Spares(Purge(db, who))
           /\ \A post, author :
                  /\ Spares(HardDelete(db, post, author))
                  /\ \A c \in HardDelete(db, post, author).contents : ~(c.id = post /\ c.by = author)
<1>1. Spares(db)
    BY DEF Spares, TablesShape, RowsSound
<1>2. Spares(Unquote(db, tx))
    BY <1>1 DEF Spares, Unquote
<1>3. Spares(ApplyEdit(db, tx))
    <2>1. \A c \in db.contents :
            /\ {"id", "by"} \subseteq DOMAIN c
            /\ {"id", "by"} \subseteq DOMAIN [c EXCEPT !.text = tx.text, !.edited = tx.time]
            /\ [c EXCEPT !.text = tx.text, !.edited = tx.time].id = c.id
            /\ [c EXCEPT !.text = tx.text, !.edited = tx.time].by = c.by
        BY DEF RowsSound
    <2>2. \A c \in ApplyEdit(db, tx).contents :
            \E b \in db.contents :
               c = IF b.id = tx.ref /\ Supersedes(tx, b) THEN [b EXCEPT !.text = tx.text, !.edited = tx.time] ELSE b
        BY DEF ApplyEdit, TablesShape
    <2>3. /\ {"contents", "tombs", "used", "denylist"} \subseteq DOMAIN ApplyEdit(db, tx)
          /\ ApplyEdit(db, tx).tombs = db.tombs /\ ApplyEdit(db, tx).used = db.used
        BY <1>1 DEF Spares, ApplyEdit
    <2> QED  BY <2>1, <2>2, <2>3 DEF Spares
<1>4. \A who : Spares(Purge(db, who))
    BY <1>1 DEF Spares, Purge
<1>5. ASSUME NEW post, NEW author
      PROVE  /\ Spares(HardDelete(db, post, author))
             /\ \A c \in HardDelete(db, post, author).contents : ~(c.id = post /\ c.by = author)
    BY <1>1 DEF Spares, HardDelete
<1> QED  BY <1>2, <1>3, <1>4, <1>5
-----------------------------------------------------------------------------
(* What a handler's step does to protected transactions.                   *)

\* Where a step may take a worker that holds content, and a delete.
ContentGoes(w, next) ==
    LET id == work[w].id
    IN /\ next \in ContentPcs
       /\ work[w].pc \in Late /\ next \notin Late =>
            \/ At(w, "drop") /\ ~DeletedByAuthor(db, Tx(w))
            \/ At(w, "erase") /\ \A c \in db'.contents : ~(c.id = id /\ c.by = Tx(w).by)
DeleteGoes(w, next) ==
    LET id == work[w].id
    IN /\ next \in DeletePcs
       /\ next \in Burying \cup {"bury"} => Claims(id)'
       /\ next \in Burying => Buried(id)'
       /\ next = "done" => Unclaimable(id)' \/ (work[w].pc \in Burying /\ \A c \in db'.contents : ~Fits(id, c))
       /\ work[w].pc \in Burying => next \in Burying \cup {"done"}

Steps(w, next) ==
    LET id == work[w].id
    IN /\ Moved(w, next) /\ work[w].pc \notin {"idle", "refetch", "done"} /\ next \notin {"idle", "refetch", "tomb"}
       /\ UNCHANGED <<plan, cut, torn>> /\ raced \subseteq raced'
       /\ TablesShape'
       /\ \A c \in db'.contents :
            /\ {"id", "by"} \subseteq DOMAIN c
            /\ \/ \E b \in db.contents : b.id = c.id /\ b.by = c.by
               \/ Kind(id) \in Content /\ c.id = id /\ c.by = Tx(w).by /\ next \in Late /\ At(w, "save")
       /\ \/ db'.used = db.used
          \/ Tx(w).signed /\ At(w, "fresh") /\ db'.used = Claimed(db, Tx(w)).used
       /\ \/ db'.tombs = db.tombs
          \/ At(w, "bury") /\ next \in Burying /\ db'.tombs = Bury(db, Tx(w)).tombs
       /\ Kind(id) \in Content => ContentGoes(w, next)
       /\ Kind(id) = "delete" => DeleteGoes(w, next)
       /\ next = "save" => At(w, "fresh") /\ Kind(id) \in Content
       /\ next = "bury" => Kind(id) = "delete"
       /\ next = "fresh" => At(w, "tomb") /\ Kind(id) \in Content
       /\ next \in {"operator", "purge"} => Kind(id) = "block"

Histories == UNCHANGED <<plan, cut, torn>> /\ raced \subseteq raced'

\* A step of a handler that has nothing to do with protected transactions.
LEMMA AsideSteps ==
    ASSUME KInv, NEW w \in Everyone, work[w].pc \notin {"idle", "refetch", "done"},
           Kind(work[w].id) \notin Protected,
           NEW next, next \notin {"idle", "refetch", "tomb", "save", "bury", "fresh"},
           next \in {"operator", "purge"} => Kind(work[w].id) = "block",
           Goto(w, next) \/ \E memo : Recall(w, next, memo),
           Histories, Spares(db')
    PROVE  Steps(w, next)
<1>1. Moved(w, next)
    BY GotoMoves DEF KInv, Shaped
<1> QED  BY <1>1 DEF Steps, Histories, Spares, Protected, TablesShape

\* A worker at a step that only other handlers have holds nothing protected.
LEMMA Elsewhere ==
    ASSUME KInv, NEW w \in Everyone,
           work[w].pc \notin ContentPcs \cup DeletePcs \cup {"idle"}
    PROVE  Kind(work[w].id) \notin Protected /\ work[w].pc \notin {"idle", "refetch", "done"}
BY DEF KInv, Staged, InStage, Protected, ContentPcs
\* The handlers of votes, edits, follows, blocks and profiles.
LEMMA OtherHandlersStep ==
    ASSUME KInv, NEW w \in Everyone, UNCHANGED torn,
           \/ Withdraw(w) \/ TargetIndexed(w) \/ ReplaceVote(w) \/ CommitVote(w) \/ PollVote(w)
           \/ AuditEdit(w) \/ EditContent(w) \/ Related(w) \/ RelationIsNewest(w) \/ SaveFollow(w)
           \/ SaveBlock(w) \/ DenyTarget(w) \/ PurgeTarget(w) \/ DenyInMemory(w) \/ AllowTarget(w)
           \/ OpenLedger(w) \/ CommitProfile(w)
    PROVE  \E next : Steps(w, next)
<1> DEFINE Aside == {"withdraw", "target", "replace", "vote", "ballot", "audit", "apply", "related", "newest",
                     "relate", "operator", "purge", "deny", "ledger", "profile"}
           Free == {"done", "replace", "vote", "notify", "apply", "mentions", "newest", "relate", "operator",
                    "purge", "deny", "profile"}
<1>1. ASSUME work[w].pc \in Aside, NEW next \in Free, next \in {"operator", "purge"} => Kind(work[w].id) = "block",
             Goto(w, next) \/ \E memo : Recall(w, next, memo),
             UNCHANGED <<plan, cut>>, raced \subseteq raced', Spares(db')
      PROVE  Steps(w, next)
    <2>1. work[w].pc \notin ContentPcs \cup DeletePcs \cup {"idle"}
        BY <1>1 DEF ContentPcs, DeletePcs, Late, Burying
    <2>2. Kind(work[w].id) \notin Protected /\ work[w].pc \notin {"idle", "refetch", "done"}
        BY <2>1, Elsewhere
    <2>3. Histories
        BY <1>1 DEF Histories
    <2> QED  BY <1>1, <2>2, <2>3, AsideSteps
<1>2. /\ Spares(db)
      /\ \A tx : /\ Spares(Unvote(db, tx)) /\ Spares(SaveBallot(db, tx)) /\ Spares(RecordEdit(db, tx))
                 /\ \A replaced : Spares(CastVote(db, tx, replaced))
                 /\ Spares(RecordRelation(db, tx))
                 /\ Spares(Follow(db, tx)) /\ Spares(Unfollow(db, tx)) /\ Spares(Block(db, tx)) /\ Spares(Unblock(db, tx))
                 /\ \A seen : Spares(SaveProfile(db, tx, seen))
                 /\ Spares(Unquote(db, tx)) /\ Spares(ApplyEdit(db, tx))
      /\ \A who : Spares(Deny(db, who)) /\ Spares(Allow(db, who)) /\ Spares(Purge(db, who))
    BY StatementsSpare, RemovalsSpare DEF KInv, Shaped
<1> HIDE DEF Aside, Free
<1>3. CASE Withdraw(w)
    <2> DEFINE next == "done"
    <2>1. next \in Free \ {"operator", "purge"}
        BY DEF Free
    <2>2. /\ work[w].pc \in Aside /\ UNCHANGED <<plan, cut>> /\ raced \subseteq raced'
          /\ Goto(w, next) \/ \E memo : Recall(w, next, memo)
        BY <1>3 DEF Withdraw, At, Aside, Reads, Writes
    <2>3. Spares(db')
        BY <1>3, <1>2 DEF Withdraw, Reads, Writes
    <2> QED  BY <1>1, <2>1, <2>2, <2>3
<1>4. CASE TargetIndexed(w)
    <2> DEFINE next == IF ContentOf(db, Tx(w).ref) # {} THEN "replace" ELSE "done"
    <2>1. next \in Free \ {"operator", "purge"}
        BY DEF Free
    <2>2. /\ work[w].pc \in Aside /\ UNCHANGED <<plan, cut>> /\ raced \subseteq raced'
          /\ Goto(w, next) \/ \E memo : Recall(w, next, memo)
        BY <1>4 DEF TargetIndexed, At, Aside, Reads, Writes
    <2>3. Spares(db')
        BY <1>4, <1>2 DEF TargetIndexed, Reads, Writes
    <2> QED  BY <1>1, <2>1, <2>2, <2>3
<1>5. CASE ReplaceVote(w)
    <2> DEFINE next == "vote"
    <2>1. next \in Free \ {"operator", "purge"}
        BY DEF Free
    <2>2. /\ work[w].pc \in Aside /\ UNCHANGED <<plan, cut>> /\ raced \subseteq raced'
          /\ Goto(w, next) \/ \E memo : Recall(w, next, memo)
        BY <1>5 DEF ReplaceVote, At, Aside, Reads, Writes
    <2>3. Spares(db')
        BY <1>5, <1>2 DEF ReplaceVote, Reads, Writes
    <2> QED  BY <1>1, <2>1, <2>2, <2>3
<1>6. CASE CommitVote(w)
    <2> DEFINE next == IF VoteFits(db, Tx(w), work[w].memo) /\ ~(\E v \in work[w].memo : v.vote = Tx(w).as) THEN "notify" ELSE "done"
    <2>1. next \in Free \ {"operator", "purge"}
        BY DEF Free
    <2>2. /\ work[w].pc \in Aside /\ UNCHANGED <<plan, cut>> /\ raced \subseteq raced'
          /\ Goto(w, next) \/ \E memo : Recall(w, next, memo)
        BY <1>6 DEF CommitVote, At, Aside, Reads, Writes
    <2>3. Spares(db')
        BY <1>6, <1>2 DEF CommitVote, Reads, Writes
    <2> QED  BY <1>1, <2>1, <2>2, <2>3
<1>7. CASE PollVote(w)
    <2> DEFINE next == "done"
    <2>1. next \in Free \ {"operator", "purge"}
        BY DEF Free
    <2>2. /\ work[w].pc \in Aside /\ UNCHANGED <<plan, cut>> /\ raced \subseteq raced'
          /\ Goto(w, next) \/ \E memo : Recall(w, next, memo)
        BY <1>7 DEF PollVote, At, Aside, Reads, Writes
    <2>3. Spares(db')
        BY <1>7, <1>2 DEF PollVote, Reads, Writes
    <2> QED  BY <1>1, <2>1, <2>2, <2>3
<1>8. CASE AuditEdit(w)
    <2> DEFINE next == "apply"
    <2>1. next \in Free \ {"operator", "purge"}
        BY DEF Free
    <2>2. /\ work[w].pc \in Aside /\ UNCHANGED <<plan, cut>> /\ raced \subseteq raced'
          /\ Goto(w, next) \/ \E memo : Recall(w, next, memo)
        BY <1>8 DEF AuditEdit, At, Aside, Reads, Writes
    <2>3. Spares(db')
        BY <1>8, <1>2 DEF AuditEdit, Reads, Writes
    <2> QED  BY <1>1, <2>1, <2>2, <2>3
<1>9. CASE EditContent(w)
    <2> DEFINE next == IF EditApplies(db, Tx(w)) THEN "mentions" ELSE "done"
    <2>1. next \in Free \ {"operator", "purge"}
        BY DEF Free
    <2>2. /\ work[w].pc \in Aside /\ UNCHANGED <<plan, cut>> /\ raced \subseteq raced'
          /\ Goto(w, next) \/ \E memo : Recall(w, next, memo)
        BY <1>9 DEF EditContent, At, Aside, Reads, Writes
    <2>3. Spares(db')
        BY <1>9, <1>2 DEF EditContent, Reads, Writes
    <2> QED  BY <1>1, <2>1, <2>2, <2>3
<1>10. CASE Related(w)
    <2> DEFINE next == IF KachatRelated(db, Tx(w)) THEN "newest" ELSE "done"
    <2>1. next \in Free \ {"operator", "purge"}
        BY DEF Free
    <2>2. /\ work[w].pc \in Aside /\ UNCHANGED <<plan, cut>> /\ raced \subseteq raced'
          /\ Goto(w, next) \/ \E memo : Recall(w, next, memo)
        BY <1>10 DEF Related, At, Aside, Reads, Writes
    <2>3. Spares(db')
        BY <1>10, <1>2 DEF Related, Reads, Writes
    <2> QED  BY <1>1, <2>1, <2>2, <2>3
<1>11. CASE RelationIsNewest(w)
    <2> DEFINE next == IF IsNewest(db, Tx(w)) THEN "relate" ELSE "done"
    <2>1. next \in Free \ {"operator", "purge"}
        BY DEF Free
    <2>2. /\ work[w].pc \in Aside /\ UNCHANGED <<plan, cut>> /\ raced \subseteq raced'
          /\ Goto(w, next) \/ \E memo : Recall(w, next, memo)
        BY <1>11 DEF RelationIsNewest, At, Aside, Reads, Writes
    <2>3. Spares(db')
        BY <1>11, <1>2 DEF RelationIsNewest, Reads, Writes
    <2> QED  BY <1>1, <2>1, <2>2, <2>3
<1>12. CASE SaveFollow(w)
    <2> DEFINE next == IF Tx(w).as = "follow" /\ NewFollow(db, Tx(w)) THEN "notify" ELSE "done"
    <2>1. next \in Free \ {"operator", "purge"}
        BY DEF Free
    <2>2. /\ work[w].pc \in Aside /\ UNCHANGED <<plan, cut>> /\ raced \subseteq raced'
          /\ Goto(w, next) \/ \E memo : Recall(w, next, memo)
        BY <1>12 DEF SaveFollow, At, Aside, Reads, Writes
    <2>3. Spares(db')
        BY <1>12, <1>2 DEF SaveFollow, Reads, Writes
    <2> QED  BY <1>1, <2>1, <2>2, <2>3
<1>13. CASE SaveBlock(w)
    <2> DEFINE next == IF IsOperator(Tx(w).by) THEN "operator" ELSE "done"
    <2>1. next \in Free /\ next # "purge" /\ Kind(work[w].id) = "block"
        BY <1>13 DEF Free, SaveBlock, Handles, Tx, Kind
    <2>2. /\ work[w].pc \in Aside /\ UNCHANGED <<plan, cut>> /\ raced \subseteq raced'
          /\ Goto(w, next) \/ \E memo : Recall(w, next, memo)
        BY <1>13 DEF SaveBlock, At, Aside, Reads, Writes
    <2>3. Spares(db')
        BY <1>13, <1>2 DEF SaveBlock, Reads, Writes
    <2> QED  BY <1>1, <2>1, <2>2, <2>3
<1>14. CASE DenyTarget(w)
    <2> DEFINE next == "purge"
    <2>1. next \in Free /\ Kind(work[w].id) = "block"
        BY <1>14 DEF Free, DenyTarget, At, KInv, Staged, InStage
    <2>2. /\ work[w].pc \in Aside /\ UNCHANGED <<plan, cut>> /\ raced \subseteq raced'
          /\ Goto(w, next) \/ \E memo : Recall(w, next, memo)
        BY <1>14 DEF DenyTarget, At, Aside, Reads, Writes
    <2>3. Spares(db')
        BY <1>14, <1>2 DEF DenyTarget, Reads, Writes
    <2> QED  BY <1>1, <2>1, <2>2, <2>3
<1>15. CASE PurgeTarget(w)
    <2> DEFINE next == "deny"
    <2>1. next \in Free \ {"operator", "purge"}
        BY DEF Free
    <2>2. /\ work[w].pc \in Aside /\ UNCHANGED <<plan, cut>> /\ raced \subseteq raced'
          /\ Goto(w, next) \/ \E memo : Recall(w, next, memo)
        BY <1>15 DEF PurgeTarget, At, Aside, Reads, Writes
    <2>3. Spares(db')
        BY <1>15, <1>2 DEF PurgeTarget, Reads, Writes
    <2> QED  BY <1>1, <2>1, <2>2, <2>3
<1>16. CASE DenyInMemory(w)
    <2> DEFINE next == "done"
    <2>1. next \in Free \ {"operator", "purge"}
        BY DEF Free
    <2>2. /\ work[w].pc \in Aside /\ UNCHANGED <<plan, cut>> /\ raced \subseteq raced'
          /\ Goto(w, next) \/ \E memo : Recall(w, next, memo)
        BY <1>16 DEF DenyInMemory, At, Aside, Reads, Writes
    <2>3. Spares(db')
        BY <1>16, <1>2 DEF DenyInMemory, Reads, Writes
    <2> QED  BY <1>1, <2>1, <2>2, <2>3
<1>17. CASE AllowTarget(w)
    <2> DEFINE next == "done"
    <2>1. next \in Free \ {"operator", "purge"}
        BY DEF Free
    <2>2. /\ work[w].pc \in Aside /\ UNCHANGED <<plan, cut>> /\ raced \subseteq raced'
          /\ Goto(w, next) \/ \E memo : Recall(w, next, memo)
        BY <1>17 DEF AllowTarget, At, Aside, Reads, Writes
    <2>3. Spares(db')
        BY <1>17, <1>2 DEF AllowTarget, Reads, Writes
    <2> QED  BY <1>1, <2>1, <2>2, <2>3
<1>18. CASE OpenLedger(w)
    <2> DEFINE next == IF LedgerAllows(db, Tx(w)) THEN "profile" ELSE "done"
    <2>1. next \in Free \ {"operator", "purge"}
        BY DEF Free
    <2>2. /\ work[w].pc \in Aside /\ UNCHANGED <<plan, cut>> /\ raced \subseteq raced'
          /\ Goto(w, next) \/ \E memo : Recall(w, next, memo)
        BY <1>18 DEF OpenLedger, At, Aside, Reads, Writes
    <2>3. Spares(db')
        BY <1>18, <1>2 DEF OpenLedger, Reads, Writes
    <2> QED  BY <1>1, <2>1, <2>2, <2>3
<1>19. CASE CommitProfile(w)
    <2> DEFINE next == "done"
    <2>1. next \in Free \ {"operator", "purge"}
        BY DEF Free
    <2>2. /\ work[w].pc \in Aside /\ UNCHANGED <<plan, cut>> /\ raced \subseteq raced'
          /\ Goto(w, next) \/ \E memo : Recall(w, next, memo)
        BY <1>19 DEF CommitProfile, At, Aside, Reads, Writes
    <2>3. Spares(db')
        BY <1>19, <1>2 DEF CommitProfile, Reads, Writes
    <2> QED  BY <1>1, <2>1, <2>2, <2>3
<1> QED  BY <1>3, <1>4, <1>5, <1>6, <1>7, <1>8, <1>9, <1>10, <1>11, <1>12, <1>13, <1>14, <1>15, <1>16, <1>17, <1>18, <1>19
\* The handlers of broadcasts and tips, and the last steps of votes, follows and edits.
LEMMA PendingHandlersStep ==
    ASSUME KInv, NEW w \in Everyone, UNCHANGED torn,
           \/ RouteBroadcast(w) \/ TipGates(w) \/ Resolve(w) \/ GiveUp(w) \/ StoreBroadcast(w) \/ StoreTip(w)
           \/ NotifyVote(w) \/ NotifyFollow(w) \/ NotifyStored(w) \/ EditMentions(w)
    PROVE  \E next : Steps(w, next)
<1> DEFINE Free == {"ask", "store", "notify", "done", "unknown"}
<1>1. ASSUME work[w].pc \notin {"idle", "refetch", "done"}, Kind(work[w].id) \notin Protected, NEW next \in Free,
             Goto(w, next) \/ \E memo : Recall(w, next, memo),
             UNCHANGED <<plan, cut>>, raced \subseteq raced', Spares(db')
      PROVE  Steps(w, next)
    BY <1>1, AsideSteps DEF Histories
<1>2. /\ Spares(db)
      /\ \A rows : Spares([db EXCEPT !.bcasts = rows])
      /\ \A tx : Spares(SaveTip(db, tx)) /\ \A kind : Spares(AddEditMentions(db, tx, kind))
    BY StatementsSpare DEF KInv, Shaped
<1>3. ASSUME work[w].pc \in {"route", "target", "ask", "store"}
      PROVE  work[w].pc \notin {"idle", "refetch", "done"} /\ Kind(work[w].id) \notin Protected
    BY <1>3, Elsewhere DEF ContentPcs, DeletePcs, Late, Burying
<1> HIDE DEF Free
<1>4. CASE RouteBroadcast(w)
    <2> DEFINE next == IF Tx(w).text # "bad" /\ (Live(w) => Held(Tx(w).id)) THEN "ask" ELSE "done"
    <2>1. next \in Free
        BY DEF Free, Judged
    <2>2. /\ work[w].pc \in {"route", "target", "ask", "store"} /\ UNCHANGED <<plan, cut>> /\ raced \subseteq raced'
          /\ Goto(w, next)
        BY <1>4 DEF RouteBroadcast, At, Reads, Writes
    <2>3. Spares(db')
        BY <1>4, <1>2 DEF RouteBroadcast, Reads, Writes
    <2> QED  BY <1>1, <1>3, <2>1, <2>2, <2>3
<1>5. CASE TipGates(w)
    <2> DEFINE next == IF TipTarget(db, Tx(w)) /\ (Live(w) => Held(Tx(w).id)) /\ plan.node THEN "ask" ELSE "done"
    <2>1. next \in Free
        BY DEF Free, Judged
    <2>2. /\ work[w].pc \in {"route", "target", "ask", "store"} /\ UNCHANGED <<plan, cut>> /\ raced \subseteq raced'
          /\ Goto(w, next)
        BY <1>5 DEF TipGates, At, Reads, Writes
    <2>3. Spares(db')
        BY <1>5, <1>2 DEF TipGates, Reads, Writes
    <2> QED  BY <1>1, <1>3, <2>1, <2>2, <2>3
<1>6. CASE Resolve(w)
    <2> DEFINE next == Judged(Tx(w))
    <2>1. next \in Free
        BY DEF Free, Judged
    <2>2. /\ work[w].pc \in {"route", "target", "ask", "store"} /\ UNCHANGED <<plan, cut>> /\ raced \subseteq raced'
          /\ Goto(w, next)
        BY <1>6 DEF Resolve, At, Reads, Writes
    <2>3. Spares(db')
        BY <1>6, <1>2 DEF Resolve, Reads, Writes
    <2> QED  BY <1>1, <1>3, <2>1, <2>2, <2>3
<1>7. CASE GiveUp(w)
    <2> DEFINE next == IF Live(w) THEN "done" ELSE "unknown"
    <2>1. next \in Free
        BY DEF Free, Judged
    <2>2. /\ work[w].pc \in {"route", "target", "ask", "store"} /\ UNCHANGED <<plan, cut>> /\ raced \subseteq raced'
          /\ Goto(w, next)
        BY <1>7 DEF GiveUp, At, Reads, Writes
    <2>3. Spares(db')
        BY <1>7, <1>2 DEF GiveUp, Reads, Writes
    <2> QED  BY <1>1, <1>3, <2>1, <2>2, <2>3
<1>8. CASE StoreBroadcast(w)
    <2> DEFINE next == IF NewBroadcast(db, Tx(w)) /\ ~Stale(w) /\ Tx(w).text # "reaction" THEN "notify" ELSE "done"
    <2>1. next \in Free
        BY DEF Free, Judged
    <2>2. /\ work[w].pc \in {"route", "target", "ask", "store"} /\ UNCHANGED <<plan, cut>> /\ raced \subseteq raced'
          /\ Goto(w, next)
        BY <1>8 DEF StoreBroadcast, At, Reads, Writes
    <2>3. Spares(db')
        BY <1>8, <1>2 DEF StoreBroadcast, Reads, Writes
    <2> QED  BY <1>1, <1>3, <2>1, <2>2, <2>3
<1>9. CASE StoreTip(w)
    <2> DEFINE next == IF NewTip(db, Tx(w)) /\ ~Stale(w) THEN "notify" ELSE "done"
    <2>1. next \in Free
        BY DEF Free, Judged
    <2>2. /\ work[w].pc \in {"route", "target", "ask", "store"} /\ UNCHANGED <<plan, cut>> /\ raced \subseteq raced'
          /\ Goto(w, next)
        BY <1>9 DEF StoreTip, At, Reads, Writes
    <2>3. Spares(db')
        BY <1>9, <1>2 DEF StoreTip, Reads, Writes
    <2> QED  BY <1>1, <1>3, <2>1, <2>2, <2>3
<1>10. CASE NotifyVote(w)
    <2>1. /\ work[w].pc = "notify" /\ Kind(work[w].id) \in {"vote"} /\ UNCHANGED <<plan, cut>> /\ raced \subseteq raced'
          /\ Goto(w, "done")
        BY <1>10 DEF NotifyVote, At, Handles, Tx, Kind, Writes
    <2>2. Spares(db')
        BY <1>10, <1>2 DEF NotifyVote, Writes
    <2> QED  BY <1>1, <2>1, <2>2 DEF Free, Protected, Content
<1>11. CASE NotifyFollow(w)
    <2>1. /\ work[w].pc = "notify" /\ Kind(work[w].id) \in {"follow"} /\ UNCHANGED <<plan, cut>> /\ raced \subseteq raced'
          /\ Goto(w, "done")
        BY <1>11 DEF NotifyFollow, At, Handles, Tx, Kind, Writes
    <2>2. Spares(db')
        BY <1>11, <1>2 DEF NotifyFollow, Writes
    <2> QED  BY <1>1, <2>1, <2>2 DEF Free, Protected, Content
<1>12. CASE NotifyStored(w)
    <2>1. /\ work[w].pc = "notify" /\ Kind(work[w].id) \in {"bcast", "tip"} /\ UNCHANGED <<plan, cut>> /\ raced \subseteq raced'
          /\ Goto(w, "done")
        BY <1>12 DEF NotifyStored, At, Handles, Tx, Kind, Writes
    <2>2. Spares(db')
        BY <1>12, <1>2 DEF NotifyStored, Writes
    <2> QED  BY <1>1, <2>1, <2>2 DEF Free, Protected, Content
<1>13. CASE EditMentions(w)
    <2>1. /\ work[w].pc = "mentions" /\ Kind(work[w].id) \in {"edit"} /\ UNCHANGED <<plan, cut>> /\ raced \subseteq raced'
          /\ Goto(w, "done")
        BY <1>13 DEF EditMentions, At, Handles, Tx, Kind, Writes
    <2>2. Spares(db')
        BY <1>13, <1>2 DEF EditMentions, Writes
    <2> QED  BY <1>1, <2>1, <2>2 DEF Free, Protected, Content
<1> QED  BY <1>4, <1>5, <1>6, <1>7, <1>8, <1>9, <1>10, <1>11, <1>12, <1>13
\* A step of a handler that spares the tables.
LEMMA SparingSteps ==
    ASSUME KInv, NEW w \in Everyone, work[w].pc \notin {"idle", "refetch", "done"},
           NEW next, next \notin {"idle", "refetch", "tomb", "save", "bury", "operator", "purge"},
           Goto(w, next) \/ \E memo : Recall(w, next, memo),
           Histories, Spares(db'),
           Kind(work[w].id) \in Content => ContentGoes(w, next),
           Kind(work[w].id) = "delete" => DeleteGoes(w, next),
           next = "fresh" => At(w, "tomb") /\ Kind(work[w].id) \in Content
    PROVE  Steps(w, next)
<1>1. Moved(w, next)
    BY GotoMoves DEF KInv, Shaped
<1> QED  BY <1>1 DEF Steps, Histories, Spares, TablesShape

\* Content between its first look at the tombstones and its second.
LEMMA ContentHandlersStep ==
    ASSUME KInv, NEW w \in Everyone, UNCHANGED torn,
           \/ DeletedBefore(w) \/ SaveOptions(w) \/ SaveMentions(w) \/ NotifyContent(w) \/ DropIfDeleted(w)
    PROVE  \E next : Steps(w, next)
<1>1. /\ Spares(db)
      /\ \A tx : Spares(SavePollOptions(db, tx)) /\ Spares(SavePollMentions(db, tx))
    BY StatementsSpare DEF KInv, Shaped
<1>2. ASSUME work[w].pc \in {"tomb", "options", "mentions", "notify", "drop"}, Kind(work[w].id) = "delete"
      PROVE  FALSE
    BY <1>2 DEF KInv, Staged, InStage, DeletePcs, Burying
<1>3. CASE DeletedBefore(w)
    <2> DEFINE next == IF DeletedByAuthor(db, Tx(w)) THEN "done" ELSE "fresh"
    <2>1. work[w].pc = "tomb" /\ Goto(w, next) /\ Histories /\ db' = db
        BY <1>3 DEF DeletedBefore, At, Reads, Histories
    <2>2. Kind(work[w].id) \in Content
        BY <2>1 DEF KInv, Staged, InStage
    <2>3. ContentGoes(w, next)
        BY <2>1, <2>2 DEF ContentGoes, ContentPcs, At, Late
    <2> QED  BY <1>1, <1>2, <2>1, <2>2, <2>3, SparingSteps DEF At
<1>4. CASE SaveOptions(w)
    <2>1. work[w].pc = "options" /\ Goto(w, "mentions") /\ Histories /\ Spares(db')
        BY <1>1, <1>4 DEF SaveOptions, At, Writes, Histories
    <2>2. ContentGoes(w, "mentions")
        BY <2>1 DEF ContentGoes, ContentPcs, At, Late
    <2> QED  BY <1>2, <2>1, <2>2, SparingSteps
<1>5. CASE SaveMentions(w)
    <2>1. work[w].pc = "mentions" /\ (\E memo : Recall(w, "notify", memo)) /\ Histories /\ Spares(db')
        BY <1>1, <1>5 DEF SaveMentions, At, Writes, Histories
    <2>2. ContentGoes(w, "notify")
        BY <2>1 DEF ContentGoes, ContentPcs, At, Late
    <2> QED  BY <1>2, <2>1, <2>2, SparingSteps
<1>6. CASE NotifyContent(w)
    <2>1. work[w].pc = "notify" /\ Goto(w, "drop") /\ Histories /\ Spares(db')
        BY <1>1, <1>6 DEF NotifyContent, At, Histories
    <2>2. ContentGoes(w, "drop")
        BY <2>1 DEF ContentGoes, ContentPcs, At, Late
    <2> QED  BY <1>2, <2>1, <2>2, SparingSteps
<1>7. CASE DropIfDeleted(w)
    <2> DEFINE next == IF DeletedByAuthor(db, Tx(w)) THEN "erase" ELSE "done"
    <2>1. work[w].pc = "drop" /\ Goto(w, next) /\ Histories /\ db' = db
        BY <1>7 DEF DropIfDeleted, At, Reads, Histories
    <2>2. ContentGoes(w, next)
        BY <2>1 DEF ContentGoes, ContentPcs, At, Late
    <2> QED  BY <1>1, <1>2, <2>1, <2>2, SparingSteps
<1> QED  BY <1>3, <1>4, <1>5, <1>6, <1>7

\* Content is saved into the hands of its worker.
LEMMA SaveSteps ==
    ASSUME KInv, NEW w \in Everyone, UNCHANGED torn, Save(w)
    PROVE  \E next : Steps(w, next)
<1> DEFINE id == work[w].id
           new == NewContent(db, Tx(w))
           next == IF Handles(w, {"poll"}) THEN IF new THEN "options" ELSE "drop" ELSE "notify"
<1>1. /\ work[w].pc = "save" /\ Histories
      /\ Goto(w, next) \/ \E memo : Recall(w, next, memo)
      /\ db' = IF new THEN SaveContent(db, Tx(w)) ELSE db
    BY DEF Save, At, Writes, Histories
<1>2. Kind(id) \in Content /\ Kind(id) # "delete" /\ id \in Ids /\ Tx(w).id = id /\ Tx(w).kind \in Content
    BY <1>1, IdsFact DEF KInv, Known, Staged, InStage, Content, Kind, Tx
<1>3. next \in {"options", "drop", "notify"}
    OBVIOUS
<1>4. Moved(w, next)
    BY <1>1, GotoMoves DEF KInv, Shaped
<1>5. SaveContent(db, Tx(w)) \in {SavePost(db, Tx(w)), SaveReply(db, Tx(w)), SaveQuote(db, Tx(w)), SavePoll(db, Tx(w))}
    BY <1>2 DEF SaveContent, Content
<1>6. LET row == ContentRow(Tx(w)) IN {"id", "by"} \subseteq DOMAIN row /\ row.id = id /\ row.by = Tx(w).by
    BY <1>2 DEF ContentRow
<1>7. /\ {"contents", "tombs", "used", "denylist"} \subseteq DOMAIN db'
      /\ db'.tombs = db.tombs /\ db'.used = db.used
      /\ db'.contents \subseteq db.contents \cup {ContentRow(Tx(w))}
    BY <1>1, <1>5 DEF SavePost, SaveReply, SaveQuote, SavePoll, KInv, Shaped, TablesShape
<1>8. ContentGoes(w, next)
    BY <1>1, <1>3 DEF ContentGoes, ContentPcs, Late, At
<1>9. \A c \in db'.contents :
        /\ {"id", "by"} \subseteq DOMAIN c
        /\ \/ \E b \in db.contents : b.id = c.id /\ b.by = c.by
           \/ Kind(id) \in Content /\ c.id = id /\ c.by = Tx(w).by /\ next \in Late /\ At(w, "save")
    BY <1>1, <1>2, <1>3, <1>6, <1>7 DEF KInv, RowsSound, Late, At
<1> HIDE DEF next, new
<1> QED  BY <1>1, <1>2, <1>3, <1>4, <1>7, <1>8, <1>9 DEF Steps, Histories, TablesShape
\* What a delete holds when the tables keep their tombstones and signatures.
LEMMA DeleteKeeps ==
    ASSUME KInv, NEW w \in Everyone, work[w].pc \in Burying \cup {"bury"}, Kind(work[w].id) = "delete",
           plan' = plan, work'[w].id = work[w].id, db'.used = db.used, db'.tombs = db.tombs
    PROVE  Claims(work[w].id)' /\ (work[w].pc \in Burying => Buried(work[w].id)')
<1>1. Claims(work[w].id) /\ (work[w].pc \in Burying => Buried(work[w].id))
    BY DEF KInv, Staged, DeleteStage, Burying
<1> QED  BY <1>1 DEF Claims, Buried

LEMMA DeleteHandlersStep ==
    ASSUME KInv, NEW w \in Everyone, UNCHANGED torn, Original(w) \/ AuditDelete(w) \/ Erase(w)
    PROVE  \E next : Steps(w, next)
<1> DEFINE id == work[w].id
<1>1. /\ Spares(db)
      /\ \A tx : Spares(RecordDelete(db, tx))
      /\ \A post, author :
             /\ Spares(HardDelete(db, post, author))
             /\ \A c \in HardDelete(db, post, author).contents : ~(c.id = post /\ c.by = author)
    BY StatementsSpare, RemovalsSpare DEF KInv, Shaped
<1>2. ASSUME work[w].pc \in {"original", "record"}
      PROVE  Kind(id) \notin Content
    BY <1>2 DEF KInv, Staged, InStage, ContentPcs, Late
<1>3. Tx(w) = plan.txs[id]
    BY DEF Tx
<1>4. CASE Original(w)
    <2> DEFINE found == {c \in ContentOf(db, Tx(w).ref) : c.by = Tx(w).by}
    <2>1. work[w].pc = "original" /\ Histories /\ db' = db
        BY <1>4 DEF Original, At, Reads, Histories
    <2>2. CASE Kind(id) = "delete"
        <3> DEFINE next == IF found # {} THEN "record" ELSE "done"
        <3>1. Goto(w, next)
            BY <1>4, <2>2 DEF Original, Kind, Tx
        <3>2. Moved(w, next)
            BY <2>1, <3>1, GotoMoves DEF KInv, Shaped
        <3>3. Claims(id)' /\ Buried(id)'
            BY <2>1, <2>2, <3>2, DeleteKeeps DEF Moved, Burying, Histories
        <3>4. next = "done" => \A c \in db'.contents : ~Fits(id, c)
            BY <1>3, <2>1 DEF Fits, ContentOf
        <3>5. DeleteGoes(w, next)
            BY <2>1, <3>3, <3>4 DEF DeleteGoes, DeletePcs, Burying
        <3> QED  BY <1>1, <1>2, <2>1, <2>2, <3>1, <3>5, SparingSteps
    <2>3. CASE Kind(id) # "delete"
        <3> DEFINE next == IF Tx(w).kind = "edit" THEN IF Editable(db, Tx(w)) THEN "audit" ELSE "done"
                           ELSE IF found # {} THEN "record" ELSE "done"
        <3>1. Goto(w, next) \/ \E memo : Recall(w, next, memo)
            BY <1>4 DEF Original
        <3> QED  BY <1>1, <1>2, <2>1, <2>3, <3>1, SparingSteps
    <2> QED  BY <2>2, <2>3
<1>5. CASE AuditDelete(w)
    <2>1. work[w].pc = "record" /\ Histories /\ Spares(db') /\ Goto(w, "erase")
        BY <1>1, <1>5 DEF AuditDelete, At, Writes, Histories
    <2>2. Moved(w, "erase")
        BY <2>1, GotoMoves DEF KInv, Shaped
    <2>3. ASSUME Kind(id) = "delete"
          PROVE  DeleteGoes(w, "erase")
        <3>1. Claims(id)' /\ Buried(id)'
            BY <2>1, <2>2, <2>3, DeleteKeeps DEF Moved, Burying, Histories, Spares
        <3> QED  BY <2>1, <3>1 DEF DeleteGoes, DeletePcs, Burying
    <2> QED  BY <1>2, <2>1, <2>3, SparingSteps
<1>6. CASE Erase(w)
    <2> DEFINE post == IF Handles(w, {"delete"}) THEN Tx(w).ref ELSE Tx(w).id
    <2>1. work[w].pc = "erase" /\ Histories /\ Goto(w, "done") /\ db' = HardDelete(db, post, Tx(w).by)
        BY <1>6 DEF Erase, At, Writes, Histories
    <2>2. Spares(db') /\ \A c \in db'.contents : ~(c.id = post /\ c.by = Tx(w).by)
        BY <1>1, <2>1
    <2>3. ASSUME Kind(id) \in Content
          PROVE  ContentGoes(w, "done")
        <3>1. Tx(w).id = id /\ ~Handles(w, {"delete"})
            BY <2>1, <2>3, IdsFact DEF KInv, Known, Staged, InStage, Content, Kind, Tx, Handles
        <3> QED  BY <2>1, <2>2, <3>1 DEF ContentGoes, ContentPcs, At
    <2>4. ASSUME Kind(id) = "delete"
          PROVE  DeleteGoes(w, "done")
        <3>1. \A c \in db'.contents : ~Fits(id, c)
            BY <1>3, <2>2, <2>4 DEF Fits, Handles, Kind
        <3> QED  BY <2>1, <3>1 DEF DeleteGoes, DeletePcs, Burying
    <2> QED  BY <2>1, <2>2, <2>3, <2>4, SparingSteps
<1> QED  BY <1>4, <1>5, <1>6

\* A delete writes its tombstone.
LEMMA TombstoneSteps ==
    ASSUME KInv, NEW w \in Everyone, UNCHANGED torn, Tombstone(w)
    PROVE  \E next : Steps(w, next)
<1> DEFINE id == work[w].id
<1>1. work[w].pc = "bury" /\ Histories /\ Goto(w, "original") /\ db' = Bury(db, Tx(w))
    BY DEF Tombstone, At, Writes, Histories
<1>2. Kind(id) = "delete" /\ Kind(id) \notin Content /\ Claims(id)
    BY <1>1 DEF KInv, Staged, InStage, DeleteStage, Content
<1>3. Moved(w, "original")
    BY <1>1, GotoMoves DEF KInv, Shaped
<1>4. /\ {"contents", "tombs", "used", "denylist"} \subseteq DOMAIN db'
      /\ db'.used = db.used /\ db'.contents = db.contents /\ db.tombs \subseteq db'.tombs
      /\ \E t \in db'.tombs : t.post = Tx(w).ref /\ t.by = Tx(w).by
    <2> DEFINE row == [post |-> Tx(w).ref, by |-> Tx(w).by, id |-> Tx(w).id]
               buried == \E t \in db.tombs : t.post = Tx(w).ref /\ t.by = Tx(w).by
    <2>1. db' = IF buried THEN db ELSE [db EXCEPT !.tombs = @ \cup {row}]
        BY <1>1 DEF Bury
    <2>2. row.post = Tx(w).ref /\ row.by = Tx(w).by
        OBVIOUS
    <2>3. {"contents", "tombs", "used", "denylist"} \subseteq DOMAIN db
        BY DEF KInv, Shaped, TablesShape
    <2> HIDE DEF row
    <2> QED  BY <2>1, <2>2, <2>3
<1>5. Claims(id)' /\ Buried(id)'
    BY <1>1, <1>2, <1>3, <1>4 DEF Claims, Buried, Moved, Histories, Tx
<1>6. DeleteGoes(w, "original")
    BY <1>1, <1>5 DEF DeleteGoes, DeletePcs, Burying
<1> QED  BY <1>1, <1>2, <1>3, <1>4, <1>6 DEF Steps, Histories, TablesShape, KInv, RowsSound, At, Burying

\* A handler goes on once its transaction owns the signature.
LEMMA SignatureClaims ==
    ASSUME KInv, NEW w \in Everyone, SignatureIsFresh(w)
    PROVE  SignatureHolds(Tx(w)) /\ ProfileAllowed(Tx(w)) /\ Owns(db, Tx(w)) => Claims(work[w].id)'
<1> DEFINE id == work[w].id
           tx == Tx(w)
           fits == SignatureHolds(tx) /\ ProfileAllowed(tx)
           next == IF fits /\ Owns(db, tx) THEN Continue(tx) ELSE Return(tx)
<1> SUFFICES ASSUME fits, Owns(db, tx)
             PROVE  Claims(id)'
    OBVIOUS
<1>1. work[w].pc = "fresh" /\ plan' = plan /\ Goto(w, next) /\ db' = Claimed(db, tx)
    BY DEF SignatureIsFresh, At, Writes
<1>2. id \in Ids /\ tx = plan.txs[id] /\ tx.id = id
    BY <1>1, IdsFact DEF KInv, Known, Staged, InStage, Tx
<1>3. Moved(w, next)
    BY <1>1, GotoMoves DEF KInv, Shaped
<1>4. CASE \E u \in db.used : u.sig = tx.sig
    <2>1. db'.used = db.used
        BY <1>1, <1>4 DEF Claimed
    <2> QED  BY <1>1, <1>2, <1>3, <1>4, <2>1 DEF Owns, Claims, Moved
<1>5. CASE ~(\E u \in db.used : u.sig = tx.sig)
    <2>1. [sig |-> tx.sig, id |-> tx.id] \in db'.used
        BY <1>1, <1>5 DEF Claimed, KInv, Shaped, TablesShape
    <2> QED  BY <1>1, <1>2, <1>3, <2>1 DEF Claims, Moved
<1> QED  BY <1>4, <1>5

\* signature_is_fresh claims the signature, or finds its owner.
LEMMA SignatureSteps ==
    ASSUME KInv, NEW w \in Everyone, UNCHANGED torn, SignatureIsFresh(w)
    PROVE  \E next : Steps(w, next)
<1> DEFINE id == work[w].id
           tx == Tx(w)
           fits == SignatureHolds(tx) /\ ProfileAllowed(tx)
           next == IF fits /\ Owns(db, tx) THEN Continue(tx) ELSE Return(tx)
<1>1. /\ work[w].pc = "fresh" /\ Histories /\ Goto(w, next)
      /\ db' = IF fits THEN Claimed(db, tx) ELSE db
    BY DEF SignatureIsFresh, At, Writes, Histories
<1>2. id \in Ids /\ tx = plan.txs[id] /\ tx.id = id /\ tx.kind = Kind(id) /\ tx.kind \in Kinds \ {"unknown", "bcast"}
    BY <1>1, IdsFact DEF KInv, Known, Staged, InStage, Kind, Tx
<1>3. Moved(w, next)
    BY <1>1, GotoMoves DEF KInv, Shaped
<1>4. /\ TablesShape' /\ db'.contents = db.contents /\ db'.tombs = db.tombs
      /\ db'.used = db.used \/ (tx.signed /\ db'.used = Claimed(db, tx).used)
    BY <1>1 DEF Claimed, KInv, Shaped, TablesShape, SignatureHolds
<1>5. fits /\ Owns(db, tx) => Claims(id)'
    BY SignatureClaims
<1>6. Kind(id) = "delete" /\ ~(fits /\ Owns(db, tx)) => Unclaimable(id)'
    <2> SUFFICES ASSUME Kind(id) = "delete", ~(fits /\ Owns(db, tx))
                 PROVE  Unclaimable(id)'
        OBVIOUS
    <2>1. CASE ~SignatureHolds(tx)
        BY <1>1, <1>2, <1>3, <2>1 DEF SignatureHolds, Unclaimable, Moved, Histories
    <2>2. CASE SignatureHolds(tx)
        <3>1. ~Owns(db, tx)
            BY <1>2, <2>2 DEF ProfileAllowed
        <3>2. PICK u \in db.used : u.sig = tx.sig /\ u.id # tx.id
            BY <3>1 DEF Owns
        <3>3. db'.used = db.used
            BY <1>1, <3>2 DEF Claimed
        <3> QED  BY <1>1, <1>2, <1>3, <3>2, <3>3 DEF Unclaimable, Moved, Histories
    <2> QED  BY <2>1, <2>2
<1>7. Kind(id) \in Content => next \in {"save", "drop"}
    BY <1>2 DEF Content, Continue, Return
<1>8. Kind(id) = "delete" => next = IF fits /\ Owns(db, tx) THEN "bury" ELSE "done"
    BY <1>2 DEF Content, Continue, Return
<1>9. Kind(id) \notin Protected =>
        next \in {"withdraw", "target", "related", "newest", "original", "ballot", "ledger", "done"}
    BY <1>2 DEF Content, Kinds, Protected, Continue, Return
<1> HIDE DEF next, fits
<1>10. ContentGoes(w, next) \/ Kind(id) \notin Content
    BY <1>1, <1>7 DEF ContentGoes, ContentPcs, Late, At
<1>11. DeleteGoes(w, next) \/ Kind(id) # "delete"
    BY <1>1, <1>5, <1>6, <1>8 DEF DeleteGoes, DeletePcs, Burying
<1>12. /\ next \notin {"idle", "refetch", "tomb", "fresh", "operator", "purge"}
       /\ next = "save" => Kind(id) \in Content
       /\ next = "bury" => Kind(id) = "delete"
    BY <1>7, <1>8, <1>9 DEF Protected
<1> QED  BY <1>1, <1>3, <1>4, <1>10, <1>11, <1>12 DEF Steps, Histories, KInv, RowsSound, At

\* Every step of a handler is such a step.
LEMMA HandlersStep ==
    ASSUME KInv, NEW w \in Everyone, UNCHANGED torn, Handle(w) \/ HandlePending(w)
    PROVE  \E next : Steps(w, next)
BY OtherHandlersStep, PendingHandlersStep, ContentHandlersStep, SaveSteps, DeleteHandlersStep, TombstoneSteps,
   SignatureSteps DEF Handle, HandlePending
-----------------------------------------------------------------------------
(* A step of a handler keeps the invariant.                                *)

\* A delete that is done stays done: content that comes back is in the hands of
\* a worker that will look, and none leaves them without looking.
LEMMA DoneStays ==
    ASSUME KInv, NEW w \in Everyone, NEW next, Steps(w, next), NEW d, Done(d)
    PROVE  Done(d)'
<1> DEFINE id == work[w].id
<1>1. /\ Moved(w, next) /\ plan' = plan /\ torn' = torn
      /\ Kind(id) \in Content => ContentGoes(w, next)
    BY DEF Steps
<1>2. PICK t \in db.tombs : t.post = plan.txs[d].ref /\ t.by = plan.txs[d].by
    BY DEF Done, Buried
<1>3. t \in db'.tombs
    BY <1>2 DEF Steps, Bury, KInv, Shaped, TablesShape
<1>4. ASSUME NEW c \in db'.contents, Fits(d, c)
      PROVE  Kept(c)'
    <2>1. CASE Kind(id) \in Content /\ c.id = id /\ next \in Late
        BY <1>1, <2>1 DEF Kept, InHand, Moved, Everyone
    <2>2. CASE \E b \in db.contents : b.id = c.id /\ b.by = c.by
        <3>1. PICK b \in db.contents : b.id = c.id /\ b.by = c.by
            BY <2>2
        <3>2. Kept(b) /\ Kind(c.id) \in Content /\ c.by = plan.txs[c.id].by
            BY <1>4, <3>1 DEF Done, Fits, KInv, RowsSound
        <3>3. CASE c.id \in torn
            BY <1>1, <3>3 DEF Kept
        <3>4. CASE InHand(c.id, Late)
            <4>1. PICK v \in Everyone : work[v].id = c.id /\ work[v].pc \in Late
                BY <3>4 DEF InHand
            <4>2. CASE v # w
                BY <1>1, <4>1, <4>2 DEF Kept, InHand, Moved, Everyone
            <4>3. CASE v = w
                <5>1. Tx(w).id = c.id /\ Tx(w).by = c.by
                    BY <3>1, <3>2, <4>1, <4>3, IdsFact DEF Tx, KInv, Known, RowsSound
                <5>2. DeletedByAuthor(db, Tx(w))
                    BY <1>2, <1>4, <5>1 DEF DeletedByAuthor, Fits
                <5>3. next \in Late
                    BY <1>1, <3>2, <4>1, <4>3, <5>1, <5>2 DEF ContentGoes
                <5> QED  BY <1>1, <4>1, <4>3, <5>3 DEF Kept, InHand, Moved, Everyone
            <4> QED  BY <4>2, <4>3
        <3> QED  BY <3>1, <3>2, <3>3, <3>4 DEF Kept
    <2> QED  BY <2>1, <2>2 DEF Steps
<1>5. \A c : Fits(d, c)' <=> Fits(d, c)
    BY <1>1 DEF Fits
<1> QED  BY <1>1, <1>2, <1>3, <1>4, <1>5 DEF Done, Buried

LEMMA ClaimsStay ==
    ASSUME KInv, NEW w \in Everyone, NEW next, Steps(w, next), NEW d
    PROVE  /\ Claims(d) => Claims(d)'
           /\ Unclaimable(d) => Unclaimable(d)'
           /\ Gated(d) => Gated(d)'
           /\ Buried(d) => Buried(d)'
<1>1. plan' = plan /\ raced \subseteq raced' /\ db.used \subseteq db'.used /\ db.tombs \subseteq db'.tombs
    BY DEF Steps, Bury, Claimed, KInv, Shaped, TablesShape
<1> QED  BY <1>1 DEF Claims, Unclaimable, Gated, Buried

LEMMA UsedStays ==
    ASSUME KInv, NEW w \in Everyone, NEW next, Steps(w, next)
    PROVE  UsedSound'
<1> DEFINE id == work[w].id
           tx == Tx(w)
<1>1. plan' = plan /\ Ids' = Ids
    BY DEF Steps, Ids
<1>2. CASE db'.used = db.used
    BY <1>1, <1>2 DEF UsedSound, KInv, Kind
<1>3. CASE tx.signed /\ At(w, "fresh") /\ db'.used = Claimed(db, tx).used /\ db'.used # db.used
    <2>1. db'.used = db.used \cup {[sig |-> tx.sig, id |-> tx.id]} /\ \A u \in db.used : u.sig # tx.sig
        BY <1>3 DEF Claimed, KInv, Shaped, TablesShape
    <2>2. id \in Ids /\ tx = plan.txs[id] /\ tx.id = id /\ (Kind(id) = "delete" => plan.kaposts)
        BY <1>3, IdsFact DEF KInv, Known, Staged, InStage, At, Tx, Kind
    <2> QED  BY <1>1, <1>3, <2>1, <2>2 DEF UsedSound, KInv, Kind
<1> QED  BY <1>2, <1>3 DEF Steps

LEMMA StagesStay ==
    ASSUME KInv, NEW w \in Everyone, NEW next, Steps(w, next), NEW v \in Everyone
    PROVE  InStage(v)' /\ DeleteStage(v)'
<1>1. /\ plan' = plan /\ Moved(w, next) /\ next \notin {"idle", "refetch", "tomb"}
      /\ work'[v].id = work[v].id /\ work'[v].pc = IF v = w THEN next ELSE work[v].pc
      /\ Ids' = Ids /\ \A i : Kind(i)' = Kind(i)
    BY DEF Steps, Moved, Ids, Kind
<1>2. CASE v # w
    <2>1. InStage(v)'
        BY <1>1, <1>2 DEF KInv, Staged, InStage
    <2>2. DeleteStage(v)'
        <3> DEFINE id == work[v].id
        <3> SUFFICES ASSUME work[v].pc \notin {"idle", "refetch"}, Kind(id) = "delete"
                     PROVE  /\ work[v].pc \in Burying \cup {"bury"} => Claims(id)'
                            /\ work[v].pc \in Burying => Buried(id)'
                            /\ work[v].pc = "done" => (Gated(id) \/ Unclaimable(id) \/ (Claims(id) /\ Done(id)))'
            BY <1>1, <1>2 DEF DeleteStage
        <3>1. /\ work[v].pc \in Burying \cup {"bury"} => Claims(id)
              /\ work[v].pc \in Burying => Buried(id)
              /\ work[v].pc = "done" => Gated(id) \/ Unclaimable(id) \/ (Claims(id) /\ Done(id))
            BY DEF KInv, Staged, DeleteStage
        <3>2. id' = id
            BY <1>1
        <3> HIDE DEF id
        <3>3. /\ Claims(id) => Claims(id)'
              /\ Unclaimable(id) => Unclaimable(id)'
              /\ Gated(id) => Gated(id)'
              /\ Buried(id) => Buried(id)'
              /\ Done(id) => Done(id)'
            BY <3>2, ClaimsStay, DoneStays
        <3> QED  BY <3>1, <3>3
    <2> QED  BY <2>1, <2>2
<1>3. CASE v = w
    <2> DEFINE id == work[w].id
    <2>1. /\ id \in Ids /\ (Kind(id) = "delete" => plan.kaposts)
          /\ w = Retrier => Kind(id) \notin Protected
        BY DEF KInv, Staged, InStage, Steps
    <2>2. /\ Kind(id) \in Content => ContentGoes(w, next)
          /\ Kind(id) = "delete" => DeleteGoes(w, next)
          /\ next = "save" => Kind(id) \in Content
          /\ next = "bury" => Kind(id) = "delete"
          /\ next = "fresh" => Kind(id) \in Content
          /\ next \in {"operator", "purge"} => Kind(id) = "block"
        BY DEF Steps
    <2>3. work'[v].id = id /\ work'[v].pc = next /\ id' = id
        BY <1>1, <1>3
    <2>4. InStage(v)'
        BY <1>1, <1>3, <2>1, <2>2, <2>3 DEF InStage, ContentGoes, DeleteGoes, Content
    <2>5. ASSUME Kind(id) = "delete"
          PROVE  /\ next \in Burying \cup {"bury"} => Claims(id)'
                 /\ next \in Burying => Buried(id)'
                 /\ next = "done" => (Gated(id) \/ Unclaimable(id) \/ (Claims(id) /\ Done(id)))'
        <3>1. CASE work[w].pc \in Burying /\ \A c \in db'.contents : ~Fits(id, c)
            <4>1. Claims(id) /\ Buried(id)
                BY <2>5, <3>1 DEF KInv, Staged, DeleteStage, Burying
            <4>2. Claims(id)' /\ Buried(id)'
                <5> HIDE DEF id
                <5> QED  BY <2>3, <4>1, ClaimsStay
            <4>3. \A c : Fits(id, c)' <=> Fits(id, c)
                BY <1>1, <2>3 DEF Fits
            <4>4. Done(id)'
                BY <3>1, <4>2, <4>3 DEF Done
            <4> QED  BY <2>2, <2>5, <4>2, <4>4 DEF DeleteGoes
        <3>2. CASE ~(work[w].pc \in Burying /\ \A c \in db'.contents : ~Fits(id, c))
            BY <2>2, <2>5, <3>2 DEF DeleteGoes
        <3> QED  BY <3>1, <3>2
    <2>6. DeleteStage(v)'
        BY <1>1, <1>3, <2>3, <2>5 DEF DeleteStage
    <2> QED  BY <2>4, <2>6
<1> QED  BY <1>2, <1>3
LEMMA RowsStay ==
    ASSUME KInv, NEW w \in Everyone, NEW next, Steps(w, next)
    PROVE  RowsSound'
<1>1. plan' = plan /\ Ids' = Ids /\ \A i : Kind(i)' = Kind(i)
    BY DEF Steps, Ids, Kind
<1>2. Kind(work[w].id) \in Content => work[w].id \in Ids /\ Tx(w) = plan.txs[work[w].id]
    BY DEF KInv, Staged, InStage, Steps, Tx
<1>3. ASSUME NEW c \in db'.contents
      PROVE  {"id", "by"} \subseteq DOMAIN c /\ c.id \in Ids /\ Kind(c.id) \in Content /\ c.by = plan.txs[c.id].by
    BY <1>2 DEF Steps, KInv, RowsSound
<1> QED  BY <1>1, <1>3 DEF RowsSound

LEMMA TombsStay ==
    ASSUME KInv, NEW w \in Everyone, NEW next, Steps(w, next)
    PROVE  TombsSound'
<1> DEFINE id == work[w].id
<1>1. /\ plan' = plan /\ cut' = cut /\ Moved(w, next)
      /\ Ids' = Ids /\ \A i : Kind(i)' = Kind(i)
      /\ Kind(id) = "delete" => DeleteGoes(w, next)
    BY DEF Steps, Ids, Kind
<1>2. ASSUME NEW t \in db.tombs
      PROVE  Claims(t.id)' /\ (Done(t.id) \/ Gated(t.id) \/ t.id \in cut \/ InHand(t.id, Burying))'
    <2>1. /\ Kind(t.id) = "delete" /\ Claims(t.id)
          /\ t.post = plan.txs[t.id].ref /\ t.by = plan.txs[t.id].by
          /\ Done(t.id) \/ Gated(t.id) \/ t.id \in cut \/ InHand(t.id, Burying)
        BY DEF KInv, TombsSound
    <2>2. Claims(t.id)'
        BY <2>1, ClaimsStay
    <2>3. CASE Done(t.id) \/ Gated(t.id) \/ t.id \in cut
        BY <1>1, <2>2, <2>3, ClaimsStay, DoneStays
    <2>4. CASE InHand(t.id, Burying)
        <3>1. PICK v \in Everyone : work[v].id = t.id /\ work[v].pc \in Burying
            BY <2>4 DEF InHand
        <3>2. CASE v # w
            BY <1>1, <2>2, <3>1, <3>2 DEF InHand, Moved, Everyone
        <3>3. CASE v = w /\ next \in Burying
            BY <1>1, <2>2, <3>1, <3>3 DEF InHand, Moved, Everyone
        <3>4. CASE v = w /\ next \notin Burying
            <4>1. next = "done" /\ work[w].pc \in Burying
                BY <1>1, <2>1, <3>1, <3>4 DEF DeleteGoes
            <4>2. DeleteStage(w)' /\ work'[w].pc = "done" /\ work'[w].id = t.id
                BY <1>1, <3>1, <3>4, <4>1, StagesStay DEF Moved
            <4>3. (Gated(t.id) \/ Unclaimable(t.id) \/ Done(t.id))'
                BY <1>1, <2>1, <4>2 DEF DeleteStage
            <4>4. UsedSound'
                BY UsedStays
            <4>5. ~Unclaimable(t.id)'
                BY <1>1, <2>1, <2>2, <4>4 DEF Unclaimable, Claims, UsedSound
            <4> QED  BY <2>2, <4>3, <4>5
        <3> QED  BY <3>2, <3>3, <3>4
    <2> QED  BY <2>1, <2>3, <2>4
<1>3. ASSUME NEW t \in db.tombs
      PROVE  (/\ t.id \in Ids /\ Kind(t.id) = "delete" /\ t.post = plan.txs[t.id].ref /\ t.by = plan.txs[t.id].by
              /\ Claims(t.id)
              /\ Done(t.id) \/ Gated(t.id) \/ t.id \in cut \/ InHand(t.id, Burying))'
    BY <1>1, <1>2 DEF KInv, TombsSound
<1>4. ASSUME NEW t \in db'.tombs, t \notin db.tombs
      PROVE  (/\ t.id \in Ids /\ Kind(t.id) = "delete" /\ t.post = plan.txs[t.id].ref /\ t.by = plan.txs[t.id].by
              /\ Claims(t.id)
              /\ Done(t.id) \/ Gated(t.id) \/ t.id \in cut \/ InHand(t.id, Burying))'
    <2>1. /\ At(w, "bury") /\ next \in Burying
          /\ t = [post |-> Tx(w).ref, by |-> Tx(w).by, id |-> Tx(w).id]
        BY <1>4 DEF Steps, Bury, KInv, Shaped, TablesShape
    <2>2. id \in Ids /\ Kind(id) = "delete" /\ Tx(w) = plan.txs[id] /\ Tx(w).id = id
        BY <2>1, IdsFact DEF KInv, Known, Staged, InStage, At, Tx, Kind
    <2>3. t.post = plan.txs[id].ref /\ t.by = plan.txs[id].by /\ t.id = id
        BY <2>1, <2>2
    <2>4. Claims(t.id)'
        BY <1>1, <2>1, <2>2, <2>3 DEF DeleteGoes, Moved, Claims
    <2>5. InHand(t.id, Burying)'
        BY <1>1, <2>1, <2>3 DEF InHand, Moved, Everyone
    <2> QED  BY <1>1, <2>2, <2>3, <2>4, <2>5
<1> QED  BY <1>3, <1>4 DEF TombsSound

LEMMA HandlersKeep ==
    ASSUME KInv, NEW w \in Everyone, Handling(w) \/ HandlingPending(w)
    PROVE  KInv'
<1>1. /\ UNCHANGED <<raw, rec, mined, walk, torn>>
      /\ pending' = pending \/ GiveUp(w)
    BY DEF Handling, HandlingPending, HandlePending, pendingVars, pipeVars, Unparked, GiveUp, RouteBroadcast, TipGates,
           Resolve, StoreBroadcast, StoreTip, NotifyStored
<1>2. PICK next : Steps(w, next)
    BY <1>1, HandlersStep DEF Handling, HandlingPending
<1>3. plan' = plan /\ Ids' = Ids /\ \A i : Kind(i)' = Kind(i)
    BY <1>2 DEF Steps, Ids, Kind
<1>4. ASSUME NEW r \in pending'
      PROVE  {"id"} \subseteq DOMAIN r /\ r.id \in Ids /\ Kind(r.id) \notin Protected
    <2>1. CASE r \in pending
        BY <2>1 DEF KInv, Known
    <2>2. CASE r \notin pending
        <3>1. At(w, "ask") /\ r = [id |-> Tx(w).id, first |-> now, attempts |-> 0, next |-> now + 1]
            BY <1>1, <2>2 DEF GiveUp, Enqueued
        <3>2. work[w].id \in Ids /\ Kind(work[w].id) \notin Protected
            BY <3>1, Elsewhere DEF At, ContentPcs, DeletePcs, Late, Burying, KInv, Staged, InStage
        <3>3. Tx(w).id = work[w].id
            BY <3>2, IdsFact DEF KInv, Known, Tx
        <3> QED  BY <3>1, <3>2, <3>3
    <2> QED  BY <2>1, <2>2
<1>5. Known'
    BY <1>1, <1>3, <1>4 DEF KInv, Known
<1>6. Shaped'
    BY <1>2 DEF Steps, Moved, Shaped
<1>7. Staged'
    BY <1>2, StagesStay DEF Staged, Everyone
<1> QED  BY <1>2, <1>5, <1>6, <1>7, RowsStay, UsedStays, TombsStay DEF KInv
-----------------------------------------------------------------------------
(* The steps around the handlers.                                          *)

\* A place that no handler's step led to.
Entered(v) ==
    LET id == work[v].id
    IN /\ InStage(v)
       /\ Kind(id) = "delete" =>
            /\ work[v].pc \notin Burying \cup {"bury"}
            /\ work[v].pc = "done" => Gated(id) \/ ~plan.kaposts

\* How a worker may be moved by anything else than its handler: what it leaves
\* behind is recorded as interrupted.
Lands(v) ==
    LET id == work[v].id
    IN \/ work'[v] = work[v]
       \/ /\ work[v].pc \in Late /\ Kind(id) \in Content => id \in torn'
          /\ work[v].pc \in Burying /\ Kind(id) = "delete" => id \in cut'
          /\ work'[v].pc \in {"idle", "refetch"} \/ Entered(v)'

LEMMA AroundKeeps ==
    ASSUME KInv, Known', WorkShape',
           UNCHANGED <<plan, db>>, raced \subseteq raced', torn \subseteq torn',
           \A v \in Everyone : Lands(v),
           \A id \in cut \ cut' : \E v \in Everyone : work[v].id = id /\ At(v, "done")
    PROVE  KInv'
<1>1. /\ plan' = plan /\ db' = db /\ Ids' = Ids /\ Everyone' = Everyone
      /\ \A i : Kind(i)' = Kind(i) /\ (Gated(i) => Gated(i)')
      /\ \A i : (Claims(i) <=> Claims(i)') /\ (Unclaimable(i) <=> Unclaimable(i)') /\ (Buried(i) <=> Buried(i)')
    BY DEF Ids, Kind, Gated, Claims, Unclaimable, Buried, Everyone
<1>2. RowsSound' /\ UsedSound' /\ Shaped'
    BY <1>1 DEF KInv, RowsSound, UsedSound, Shaped, TablesShape
<1>3. ASSUME NEW d, Done(d)
      PROVE  Done(d)'
    <2>1. ASSUME NEW c \in db.contents, Kept(c)
          PROVE  Kept(c)'
        <3>1. CASE c.id \in torn
            BY <3>1 DEF Kept
        <3>2. CASE InHand(c.id, Late)
            <4>1. PICK v \in Everyone : work[v].id = c.id /\ work[v].pc \in Late
                BY <3>2 DEF InHand
            <4>2. Kind(c.id) \in Content
                BY DEF KInv, RowsSound
            <4>3. work'[v] = work[v] \/ c.id \in torn'
                BY <4>1, <4>2 DEF Lands
            <4> QED  BY <1>1, <4>1, <4>3 DEF Kept, InHand
        <3> QED  BY <2>1, <3>1, <3>2 DEF Kept
    <2> QED  BY <1>1, <1>3, <2>1 DEF Done, Fits
<1>4. ASSUME NEW v \in Everyone
      PROVE  InStage(v)' /\ DeleteStage(v)'
    <2>1. InStage(v) /\ DeleteStage(v)
        BY DEF KInv, Staged
    <2>2. CASE work'[v] = work[v]
        BY <1>1, <1>3, <2>1, <2>2 DEF InStage, DeleteStage
    <2>3. CASE work'[v].pc \in {"idle", "refetch"}
        BY <2>3 DEF InStage, DeleteStage
    <2>4. CASE Entered(v)'
        BY <2>4 DEF Entered, DeleteStage, Unclaimable
    <2> QED  BY <2>2, <2>3, <2>4 DEF Lands
<1>5. ASSUME NEW t \in db.tombs
      PROVE  (Done(t.id) \/ Gated(t.id) \/ t.id \in cut \/ InHand(t.id, Burying))'
    <2>1. /\ Kind(t.id) = "delete" /\ Claims(t.id)
          /\ Done(t.id) \/ Gated(t.id) \/ t.id \in cut \/ InHand(t.id, Burying)
        BY DEF KInv, TombsSound
    <2>2. CASE Done(t.id) \/ Gated(t.id)
        BY <1>1, <1>3, <2>2
    <2>3. CASE t.id \in cut \ cut'
        <3>1. PICK v \in Everyone : work[v].id = t.id /\ work[v].pc = "done"
            BY <2>3 DEF At
        <3>2. Gated(t.id) \/ Unclaimable(t.id) \/ Done(t.id)
            BY <2>1, <3>1 DEF KInv, Staged, DeleteStage
        <3>3. ~Unclaimable(t.id)
            BY <2>1 DEF Claims, Unclaimable, KInv, UsedSound
        <3> QED  BY <1>1, <1>3, <3>2, <3>3
    <2>4. CASE InHand(t.id, Burying)
        <3>1. PICK v \in Everyone : work[v].id = t.id /\ work[v].pc \in Burying
            BY <2>4 DEF InHand
        <3>2. work'[v] = work[v] \/ t.id \in cut'
            BY <2>1, <3>1 DEF Lands
        <3> QED  BY <1>1, <3>1, <3>2 DEF InHand
    <2> QED  BY <2>1, <2>2, <2>3, <2>4
<1>6. TombsSound'
    BY <1>1, <1>5 DEF KInv, TombsSound
<1>7. Staged'
    BY <1>1, <1>4 DEF Staged
<1> QED  BY <1>2, <1>6, <1>7 DEF KInv

\* What does not touch the workers.
LEMMA QuietKeeps ==
    ASSUME KInv, Known', UNCHANGED <<plan, db, work, cut, torn>>, raced \subseteq raced'
    PROVE  KInv'
<1>1. WorkShape' /\ \A v \in Everyone : Lands(v)
    BY DEF KInv, Shaped, WorkShape, Everyone, Lands
<1> QED  BY <1>1, AroundKeeps
\* A worker is put on a transaction, or freed.
LEMMA PlaceKeeps ==
    ASSUME KInv, NEW w \in Everyone, NEW id, NEW pc, NEW quiet, NEW memo,
           work' = [work EXCEPT ![w] = [id |-> id, pc |-> pc, quiet |-> quiet, memo |-> memo]],
           UNCHANGED <<plan, db>>, Known', raced \subseteq raced', torn \subseteq torn',
           work[w].pc \in Late /\ Kind(work[w].id) \in Content => work[w].id \in torn',
           work[w].pc \in Burying /\ Kind(work[w].id) = "delete" => work[w].id \in cut',
           cut \subseteq cut' \/ (At(w, "done") /\ cut' = cut \ {work[w].id}),
           \/ pc \in {"idle", "refetch"}
           \/ /\ id \in Ids /\ pc \notin {"save", "bury", "operator", "purge"}
              /\ Kind(id) \in Content => pc \in ContentPcs
              /\ Kind(id) = "delete" => pc \in {"fresh", "done"}
              /\ pc = "tomb" => Kind(id) \in Content
              /\ pc = "fresh" => Kind(id) \notin {"unknown", "bcast"}
              /\ Kind(id) = "delete" /\ pc # "done" => plan.kaposts
              /\ Kind(id) = "delete" /\ pc = "done" => Gated(id)' \/ ~plan.kaposts
              /\ w = Retrier => Kind(id) \notin Protected
    PROVE  KInv'
<1> DEFINE r == [id |-> id, pc |-> pc, quiet |-> quiet, memo |-> memo]
<1>1. WorkShape' /\ work'[w] = r /\ \A v \in Everyone \ {w} : work'[v] = work[v]
    BY PutMoves DEF KInv, Shaped
<1>2. work'[w].id = id /\ work'[w].pc = pc
    BY <1>1
<1>3. plan' = plan /\ Ids' = Ids /\ \A i : Kind(i)' = Kind(i)
    BY DEF Ids, Kind
<1>4. pc \in {"idle", "refetch"} \/ Entered(w)'
    <2> SUFFICES ASSUME pc \notin {"idle", "refetch"}
                 PROVE  Entered(w)'
        OBVIOUS
    <2>1. InStage(w)'
        BY <1>2, <1>3 DEF InStage, DeletePcs, Content, Protected
    <2>2. Kind(id) = "delete" => /\ pc \notin Burying \cup {"bury"}
                                 /\ pc = "done" => Gated(id)' \/ ~plan.kaposts
        BY DEF Burying
    <2> QED  BY <1>2, <1>3, <2>1, <2>2 DEF Entered, Gated
<1>5. \A v \in Everyone : Lands(v)
    BY <1>1, <1>2, <1>4 DEF Lands
<1> HIDE DEF r
<1> QED  BY <1>1, <1>5, AroundKeeps

LEMMA TakeKeeps ==
    ASSUME KInv, NEW w \in Workers, NEW id \in Ids, NEW quiet, Take(w, id, quiet),
           At(w, "idle") \/ At(w, "refetch"),
           UNCHANGED <<plan, db, cut, torn>>, Known'
    PROVE  KInv'
<1> DEFINE pc == Entry(plan.txs[id])
<1>1. /\ work' = [work EXCEPT ![w] = [id |-> id, pc |-> pc, quiet |-> quiet, memo |-> {}]]
      /\ raced \subseteq raced'
    BY DEF Take
<1>2. w \in Everyone /\ w # Retrier
    BY WorkersAssumption DEF Everyone
<1>3. plan.txs[id].id = id /\ Kind(id) \in Kinds /\ plan.txs[id].kind = Kind(id)
    BY IdsFact DEF Kind, KInv, Known
<1>4. Kind(id) = "delete" /\ plan.kaposts /\ pc = "done" => Gated(id)'
    <2> SUFFICES ASSUME Kind(id) = "delete", plan.kaposts, pc = "done"
                 PROVE  Gated(id)'
        OBVIOUS
    <2>1. plan.txs[id].by \in denied
        BY <1>3 DEF Entry, Parses, IsDenied, Content
    <2> QED  BY <2>1 DEF Take, Gated
<1>5. CASE Kind(id) = "bcast"
    <2>1. pc \in {"route", "done"}
        BY <1>3, <1>5 DEF Entry
    <2> HIDE DEF pc
    <2> QED  BY <1>1, <1>2, <1>5, <2>1, PlaceKeeps DEF At, Late, Burying, Content
<1>6. CASE Kind(id) \in Content
    <2>1. pc \in {"tomb", "done"}
        BY <1>3, <1>6 DEF Entry, Content
    <2> HIDE DEF pc
    <2> QED  BY <1>1, <1>2, <1>6, <2>1, PlaceKeeps DEF At, Late, Burying, Content, ContentPcs
<1>7. CASE Kind(id) \notin Content \cup {"bcast"}
    <2>1. pc \in {"fresh", "done"} /\ (pc = "fresh" => plan.kaposts /\ Kind(id) # "unknown")
        BY <1>3, <1>7 DEF Entry, Parses
    <2> HIDE DEF pc
    <2> QED  BY <1>1, <1>2, <1>4, <1>7, <2>1, PlaceKeeps DEF At, Late, Burying, Content
<1> QED  BY <1>5, <1>6, <1>7
LEMMA FetchKeeps ==
    ASSUME KInv, NEW w \in Workers, Fetch(w) \/ FetchFails(w) \/ Refetch(w) \/ RefetchFails(w)
    PROVE  KInv'
<1>1. Known'
    BY DEF KInv, Known, Fetch, FetchFails, Refetch, RefetchFails, pendingVars, Ids, Kind
<1>2. \A id : Fetched(id) => id \in Ids
    BY DEF Fetched, Held, KInv, Known
<1>3. w \in Everyone /\ w # Retrier
    BY WorkersAssumption DEF Everyone
<1>4. CASE Fetch(w)
    <2> DEFINE id == Head(inbox[w])
    <2>1. CASE Fetched(id)
        <3>1. Take(w, id, Recovered(id) \/ id \in catchUp) /\ At(w, "idle") /\ UNCHANGED <<plan, db, cut, torn>>
            BY <1>4, <2>1 DEF Fetch
        <3> HIDE DEF id
        <3> QED  BY <1>1, <1>2, <2>1, <3>1, TakeKeeps
    <2>2. CASE ~Fetched(id)
        <3>1. UNCHANGED <<plan, db, work, cut, torn, raced>>
            BY <1>4, <2>2 DEF Fetch
        <3> QED  BY <1>1, <3>1, QuietKeeps
    <2> QED  BY <2>1, <2>2
<1>5. CASE FetchFails(w)
    <2>1. work' = [work EXCEPT ![w] = [id |-> Head(inbox[w]), pc |-> "refetch", quiet |-> FALSE, memo |-> {}]]
        BY <1>5 DEF FetchFails
    <2>2. At(w, "idle") /\ UNCHANGED <<plan, db, raced, cut, torn>>
        BY <1>5 DEF FetchFails
    <2> QED  BY <1>1, <1>3, <2>1, <2>2, PlaceKeeps DEF At, Late, Burying
<1>6. CASE Refetch(w)
    <2> DEFINE id == work[w].id
    <2>1. At(w, "refetch") /\ UNCHANGED <<plan, db, cut, torn>>
        BY <1>6 DEF Refetch
    <2>2. CASE Fetched(id)
        <3>1. Take(w, id, FALSE)
            BY <1>6, <2>2 DEF Refetch
        <3> HIDE DEF id
        <3> QED  BY <1>1, <1>2, <2>1, <2>2, <3>1, TakeKeeps
    <2>3. CASE ~Fetched(id)
        <3>1. work' = [work EXCEPT ![w] = [id |-> 0, pc |-> "idle", quiet |-> FALSE, memo |-> {}]] /\ raced' = raced
            BY <1>6, <2>3 DEF Refetch, Idle
        <3> QED  BY <1>1, <1>3, <2>1, <3>1, PlaceKeeps DEF At, Late, Burying
    <2> QED  BY <2>2, <2>3
<1>7. CASE RefetchFails(w)
    <2>1. work' = [work EXCEPT ![w] = [id |-> 0, pc |-> "idle", quiet |-> FALSE, memo |-> {}]]
        BY <1>7 DEF RefetchFails, Idle
    <2>2. At(w, "refetch") /\ UNCHANGED <<plan, db, raced, cut, torn>>
        BY <1>7 DEF RefetchFails
    <2> QED  BY <1>1, <1>3, <2>1, <2>2, PlaceKeeps DEF At, Late, Burying
<1> QED  BY <1>4, <1>5, <1>6, <1>7

\* A handler that is interrupted leaves its transaction among the interrupted.
LEMMA BusyLeaves ==
    ASSUME KInv, NEW w \in Everyone
    PROVE  /\ work[w].pc \in Late \cup Burying => Busy(w)
           /\ work[w].pc \in Late /\ Kind(work[w].id) \in Content => SavedPart(w)
BY DEF Busy, SavedPart, Late, Burying, Tx, Kind

LEMMA ConsumeKeeps ==
    ASSUME KInv, NEW w \in Workers, Consume(w) \/ MarkFails(w)
    PROVE  KInv'
<1>1. Known'
    <2>1. rec' \subseteq [id : Ids, consumed : BOOLEAN]
        <3>1. CASE Consume(w)
            BY <3>1 DEF Consume, KInv, Known
        <3>2. CASE MarkFails(w)
            BY <3>2 DEF MarkFails, pendingVars, KInv, Known
        <3> QED  BY <3>1, <3>2
    <2> QED  BY <2>1 DEF KInv, Known, Consume, MarkFails, pendingVars, Ids, Kind
<1>2. w \in Everyone
    BY DEF Everyone
<1>3. /\ work' = [work EXCEPT ![w] = [id |-> 0, pc |-> "idle", quiet |-> FALSE, memo |-> {}]]
      /\ At(w, "done") /\ cut' = cut \ {work[w].id} /\ UNCHANGED <<plan, db, raced, torn>>
    BY DEF Consume, MarkFails, Idle
<1> QED  BY <1>1, <1>2, <1>3, PlaceKeeps DEF At, Late, Burying

LEMMA FailureKeeps ==
    ASSUME KInv, NEW w \in Everyone, StatementFails(w)
    PROVE  KInv'
<1> DEFINE old == work[w]
<1>1. Known'
    BY DEF StatementFails, KInv, Known, pendingVars, Ids, Kind
<1>2. /\ Busy(w) /\ UNCHANGED <<plan, db, raced>>
      /\ cut' = cut \cup {old.id}
      /\ torn' = IF SavedPart(w) THEN torn \cup {old.id} ELSE torn
    BY DEF StatementFails
<1>3. CASE w = Retrier
    <2> DEFINE r == [old EXCEPT !.pc = "unknown"]
    <2>1. r = [id |-> old.id, pc |-> "unknown", quiet |-> old.quiet, memo |-> old.memo]
        BY PlacesAre DEF KInv, Shaped
    <2>2. work' = [work EXCEPT ![w] = r]
        BY <1>3, PlacesAre DEF StatementFails
    <2>3. old.id \in Ids /\ Kind(old.id) \notin Protected
        BY <1>2, <1>3 DEF KInv, Staged, InStage, Busy
    <2> HIDE DEF r
    <2> QED  BY <1>1, <1>2, <2>1, <2>2, <2>3, BusyLeaves, PlaceKeeps DEF Protected
<1>4. CASE w # Retrier
    <2>1. work' = [work EXCEPT ![w] = [id |-> 0, pc |-> "idle", quiet |-> FALSE, memo |-> {}]]
        BY <1>4 DEF StatementFails, Idle
    <2> QED  BY <1>1, <1>2, <2>1, BusyLeaves, PlaceKeeps
<1> QED  BY <1>3, <1>4

LEMMA CrashKeeps ==
    ASSUME KInv, Crash
    PROVE  KInv'
<1>1. Known'
    BY DEF Crash, KInv, Known, pendingVars, NoWalk, Ids, Kind
<1>2. /\ work' = [w \in Everyone |-> [id |-> 0, pc |-> "idle", quiet |-> FALSE, memo |-> {}]]
      /\ UNCHANGED <<plan, db, raced>>
      /\ cut' = cut \cup {work[w].id : w \in {v \in Everyone : Busy(v)}}
      /\ torn' = torn \cup {work[w].id : w \in {v \in Everyone : Busy(v) /\ SavedPart(v)}}
    BY DEF Crash, Idle
<1>3. WorkShape'
    BY <1>2 DEF WorkShape, Everyone
<1>4. \A v \in Everyone : Lands(v)
    BY <1>2, BusyLeaves DEF Lands
<1> QED  BY <1>1, <1>2, <1>3, <1>4, AroundKeeps

LEMMA RetryKeeps ==
    ASSUME KInv, Retrying
    PROVE  KInv'
<1>1. Retrier \in Everyone
    BY DEF Everyone
<1>2. UNCHANGED <<plan, db, raced, cut, torn>>
    BY DEF Retrying, Retry, TakePending, PendingDone, PendingUnknown, Reads, pipeVars
<1>3. CASE TakePending
    <2>1. PICK r \in pending :
            work' = [work EXCEPT ![Retrier] =
              [id |-> r.id, quiet |-> FALSE, memo |-> {},
               pc |-> IF plan.txs[r.id].kind = "tip" THEN "fresh" ELSE IF plan.broadcasts THEN "route" ELSE "done"]]
        BY <1>3 DEF TakePending
    <2> DEFINE pc == IF plan.txs[r.id].kind = "tip" THEN "fresh" ELSE IF plan.broadcasts THEN "route" ELSE "done"
    <2>2. r.id \in Ids /\ Kind(r.id) \notin Protected
        BY DEF KInv, Known
    <2>3. pc \in {"fresh", "route", "done"} /\ (pc = "fresh" => Kind(r.id) = "tip")
        BY DEF Kind
    <2>4. work' = [work EXCEPT ![Retrier] = [id |-> r.id, pc |-> pc, quiet |-> FALSE, memo |-> {}]]
        BY <2>1
    <2>5. At(Retrier, "idle") /\ Known'
        BY <1>3 DEF Retrying, TakePending, Reads, Unparked, pendingVars, pipeVars, KInv, Known, Ids, Kind
    <2> HIDE DEF pc
    <2> QED  BY <1>1, <1>2, <2>2, <2>3, <2>4, <2>5, PlaceKeeps DEF At, Late, Burying, Protected
<1>4. CASE PendingDone
    <2>1. At(Retrier, "done") /\ Known'
        BY <1>4 DEF Retrying, PendingDone, Reads, pipeVars, KInv, Known, Ids, Kind
    <2>2. work' = [work EXCEPT ![Retrier] = [id |-> 0, pc |-> "idle", quiet |-> FALSE, memo |-> {}]]
        BY <1>4 DEF PendingDone, Idle
    <2> QED  BY <1>1, <1>2, <2>1, <2>2, PlaceKeeps DEF At, Late, Burying
<1>5. CASE PendingUnknown
    <2>1. \A r \in pending' : \E q \in pending : {"id"} \subseteq DOMAIN r /\ r.id = q.id
        BY <1>5 DEF PendingUnknown, KInv, Known
    <2>2. At(Retrier, "unknown") /\ Known'
        BY <1>5, <2>1 DEF Retrying, PendingUnknown, Reads, pipeVars, KInv, Known, Ids, Kind
    <2>3. work' = [work EXCEPT ![Retrier] = [id |-> 0, pc |-> "idle", quiet |-> FALSE, memo |-> {}]]
        BY <1>5 DEF PendingUnknown, Idle
    <2> QED  BY <1>1, <1>2, <2>2, <2>3, PlaceKeeps DEF At, Late, Burying
<1> QED  BY <1>3, <1>4, <1>5 DEF Retrying, Retry
\* The queue, the reindex and the node leave the workers where they are.
LEMMA QueueKeeps ==
    ASSUME KInv,
           \/ Ingest \/ (\E id \in raw : PruneRaw(id)) \/ Listen \/ ListenerFails
           \/ Refresh \/ NodeSteps \/ Start \/ CatchUp \/ Requeue \/ RequeueFails \/ SweepPending
           \/ (\E force \in BOOLEAN : RequestReindex(force))
           \/ BeginWalk \/ WalkChecks \/ WalkStores \/ WalkFails \/ PruneRecovered
    PROVE  KInv'
<1>1. /\ Cardinality(Ids) \in Nat /\ Ids = 1 .. Cardinality(Ids)
      /\ plan \in Plans /\ mined \in Nat /\ mined <= Cardinality(Ids)
      /\ walk = [at |-> walk.at, found |-> walk.found] /\ walk.at \in Nat /\ walk.at <= mined
      /\ raw \subseteq Ids /\ rec \subseteq [id : Ids, consumed : BOOLEAN]
      /\ \A r \in pending : {"id"} \subseteq DOMAIN r /\ r.id \in Ids /\ Kind(r.id) \notin Protected
    BY IdsFact DEF KInv, Known
<1>2. ASSUME plan' = plan,
             mined' \in Nat, mined' <= Cardinality(Ids),
             walk' = [at |-> walk'.at, found |-> walk'.found], walk'.at \in Nat, walk'.at <= mined',
             raw' \subseteq Ids, rec' \subseteq [id : Ids, consumed : BOOLEAN],
             \A r \in pending' : {"id"} \subseteq DOMAIN r /\ r.id \in Ids /\ Kind(r.id) \notin Protected,
             UNCHANGED <<db, work, cut, torn, raced>>
      PROVE  KInv'
    <2>1. Known'
        BY <1>1, <1>2 DEF Known, Ids, Kind
    <2> QED  BY <1>2, <2>1, QuietKeeps
<1>3. CASE Ingest
    BY <1>1, <1>2, <1>3 DEF Ingest, storeVars
<1>4. CASE \E id \in raw : PruneRaw(id)
    BY <1>1, <1>2, <1>4 DEF PruneRaw, storeVars
<1>5. CASE \/ Listen \/ ListenerFails \/ Start \/ CatchUp \/ Requeue \/ RequeueFails
           \/ \E force \in BOOLEAN : RequestReindex(force)
    BY <1>1, <1>2, <1>5 DEF Listen, ListenerFails, Start, CatchUp, Requeue, RequeueFails, RequestReindex, storeVars,
                            pendingVars
<1>6. CASE Refresh
    BY <1>1, <1>2, <1>6 DEF Refresh, RefreshDenylist, pendingVars, pipeVars
<1>7. CASE NodeSteps
    BY <1>1, <1>2, <1>7 DEF NodeSteps, storeVars, pendingVars
<1>8. CASE SweepPending
    <2>1. \A r \in Swept : {"id"} \subseteq DOMAIN r /\ r.id \in Ids /\ Kind(r.id) \notin Protected
        <3>1. \A id \in raw : Unstored(id) => id \in Ids /\ Kind(id) \notin Protected
            BY <1>1 DEF Unstored, Kind, Protected, Content
        <3> QED  BY <1>1, <3>1 DEF Swept
    <2> QED  BY <1>1, <1>2, <1>8, <2>1 DEF SweepPending, storeVars
<1>9. CASE BeginWalk
    BY <1>1, <1>2, <1>9 DEF BeginWalk, storeVars, pendingVars
<1>10. CASE WalkChecks \/ WalkStores
    <2>1. /\ walk' = [walk EXCEPT !.found = TRUE]
             \/ (walk.at < mined /\ walk' = [at |-> walk.at + 1, found |-> FALSE])
             \/ walk' = NoWalk
          /\ walk.at # 0
        BY <1>10 DEF WalkChecks, WalkStores, Walked
    <2>2. walk' = [at |-> walk'.at, found |-> walk'.found] /\ walk'.at \in Nat /\ walk'.at <= mined
        <3>1. CASE walk' = [walk EXCEPT !.found = TRUE]
            <4>1. walk' = [at |-> walk.at, found |-> TRUE]
                BY <1>1, <3>1
            <4> QED  BY <1>1, <4>1
        <3>2. CASE walk.at < mined /\ walk' = [at |-> walk.at + 1, found |-> FALSE]
            BY <1>1, <3>2
        <3>3. CASE walk' = NoWalk
            BY <1>1, <3>3 DEF NoWalk
        <3> QED  BY <2>1, <3>1, <3>2, <3>3
    <2>3. walk.at \in Ids
        BY <1>1, <2>1
    <2>4. /\ rec' \subseteq rec \cup {[id |-> walk.at, consumed |-> FALSE]}
          /\ UNCHANGED <<plan, mined, raw, pending, db, work, cut, torn, raced>>
        BY <1>10 DEF WalkChecks, WalkStores, storeVars, pendingVars
    <2>5. rec' \subseteq [id : Ids, consumed : BOOLEAN]
        <3>1. [id |-> walk.at, consumed |-> FALSE] \in [id : Ids, consumed : BOOLEAN]
            BY <2>3
        <3> QED  BY <1>1, <2>4, <3>1
    <2> QED  BY <1>1, <1>2, <2>2, <2>4, <2>5
<1>11. CASE WalkFails
    BY <1>1, <1>2, <1>11 DEF WalkFails, NoWalk, storeVars, pendingVars
<1>12. CASE PruneRecovered
    BY <1>1, <1>2, <1>12 DEF PruneRecovered, storeVars
<1> QED  BY <1>3, <1>4, <1>5, <1>6, <1>7, <1>8, <1>9, <1>10, <1>11, <1>12

LEMMA InitHolds ==
    ASSUME Init
    PROVE  KInv
<1>1. plan \in Plans
    BY DEF Init
<1>2. Known
    BY <1>1, IdsFact DEF Init, Known, NoWalk
<1>3. WorkShape
    BY DEF Init, WorkShape, Idle
<1>4. Staged
    BY DEF Init, Staged, InStage, DeleteStage, Idle
<1>5. /\ {"contents", "tombs", "used", "denylist"} \subseteq DOMAIN db
      /\ db.contents = {} /\ db.tombs = {} /\ db.used = {}
    BY DEF Init, EmptyTables
<1> QED  BY <1>2, <1>3, <1>4, <1>5 DEF KInv, Shaped, TablesShape, RowsSound, UsedSound, TombsSound

LEMMA NextKeeps ==
    ASSUME KInv, [Next]_vars
    PROVE  KInv'
<1>1. CASE \E w \in Workers : WorkerSteps(w) \/ FetchFails(w) \/ RefetchFails(w) \/ MarkFails(w)
    BY <1>1, FetchKeeps, ConsumeKeeps DEF WorkerSteps
<1>2. CASE \E w \in Everyone : Handling(w) \/ HandlingPending(w) \/ StatementFails(w)
    BY <1>2, HandlersKeep, FailureKeeps
<1>3. CASE UNCHANGED vars
    <2>1. Known'
        BY <1>3 DEF vars, pendingVars, pipeVars, KInv, Known, Ids, Kind
    <2>2. UNCHANGED <<plan, db, work, cut, torn, raced>>
        BY <1>3 DEF vars, storeVars, pipeVars
    <2> QED  BY <2>1, <2>2, QuietKeeps
<1> QED  BY <1>1, <1>2, <1>3, QueueKeeps, RetryKeeps, CrashKeeps DEF Next

\* Content never survives its author's delete (DeleteWins), whatever the
\* workers, the order in which they take the two, the faults and the restarts.
THEOREM DeleteWinsTheorem == Spec => []DeleteWins
<1>1. Init => KInv
    BY InitHolds
<1>2. KInv /\ [Next]_vars => KInv'
    BY NextKeeps
<1>3. KInv => DeleteWins
    BY DeleteWinsHolds
<1> QED  BY <1>1, <1>2, <1>3, PTL DEF Spec
-----------------------------------------------------------------------------
(* The denylist.                                                           *)

\* Where content is between the gate and the statement that saves it.
Early == {"tomb", "fresh", "save"}

\* Nothing by the author is stored, and nothing of theirs is about to be.
Clean(b) ==
    /\ \A c \in db.contents : c.by # b
    /\ \A w \in Everyone : Kind(work[w].id) \in Content /\ Tx(w).by = b => work[w].pc \notin Early
Purger(b) == \E w \in Everyone : work[w].pc = "purge" /\ Tx(w).who[1] = b
Overtaken(b) == <<"deny", b, 0>> \in raced
Dealt == \A b \in db.denylist : Overtaken(b) \/ b \in owed \/ Purger(b) \/ Clean(b)
DInv == KInv /\ Dealt

LEMMA DeniedStaysOutHolds ==
    ASSUME DInv
    PROVE  DeniedStaysOut
<1> SUFFICES ASSUME NEW c \in db.contents, c.by \in db.denylist
             PROVE  \/ <<"deny", c.by, 0>> \in raced \/ c.by \in owed
                    \/ \E id \in Ids : /\ plan.txs[id].kind = "block" /\ plan.txs[id].who[1] = c.by
                                       /\ InHand(id, {"purge"})
    BY DEF DeniedStaysOut
<1>1. ~Clean(c.by)
    BY DEF Clean
<1>2. CASE Purger(c.by)
    <2>1. PICK w \in Everyone : work[w].pc = "purge" /\ Tx(w).who[1] = c.by
        BY <1>2 DEF Purger
    <2>2. work[w].id \in Ids /\ Kind(work[w].id) = "block"
        BY <2>1 DEF DInv, KInv, Staged, InStage
    <2> QED  BY <2>1, <2>2 DEF InHand, Kind, Tx
<1> QED  BY <1>1, <1>2 DEF DInv, Dealt, Overtaken

\* Only the operator's block adds to the denylist.
LEMMA DenylistKept ==
    ASSUME TablesShape, NEW tx
    PROVE  /\ SavePollOptions(db, tx).denylist = db.denylist /\ SavePollMentions(db, tx).denylist = db.denylist
           /\ RecordEdit(db, tx).denylist = db.denylist /\ RecordDelete(db, tx).denylist = db.denylist
           /\ \A kind : AddEditMentions(db, tx, kind).denylist = db.denylist
           /\ Unvote(db, tx).denylist = db.denylist /\ SaveBallot(db, tx).denylist = db.denylist
           /\ SaveTip(db, tx).denylist = db.denylist
           /\ \A replaced : CastVote(db, tx, replaced).denylist = db.denylist
           /\ RecordRelation(db, tx).denylist = db.denylist
           /\ Follow(db, tx).denylist = db.denylist /\ Unfollow(db, tx).denylist = db.denylist
           /\ Block(db, tx).denylist = db.denylist /\ Unblock(db, tx).denylist = db.denylist
           /\ \A seen : SaveProfile(db, tx, seen).denylist = db.denylist
           /\ \A rows : [db EXCEPT !.bcasts = rows].denylist = db.denylist
           /\ Unquote(db, tx).denylist = db.denylist /\ ApplyEdit(db, tx).denylist = db.denylist
           /\ \A post, author : HardDelete(db, post, author).denylist = db.denylist
           /\ Claimed(db, tx).denylist = db.denylist /\ Bury(db, tx).denylist = db.denylist
           /\ SavePost(db, tx).denylist = db.denylist /\ SaveReply(db, tx).denylist = db.denylist
           /\ SaveQuote(db, tx).denylist = db.denylist /\ SavePoll(db, tx).denylist = db.denylist
<1>1. /\ SavePollOptions(db, tx).denylist = db.denylist /\ SavePollMentions(db, tx).denylist = db.denylist
      /\ RecordEdit(db, tx).denylist = db.denylist /\ RecordDelete(db, tx).denylist = db.denylist
      /\ \A kind : AddEditMentions(db, tx, kind).denylist = db.denylist
    BY DEF TablesShape, SavePollOptions, SavePollMentions, RecordEdit, RecordDelete, AddEditMentions
<1>2. /\ Unvote(db, tx).denylist = db.denylist /\ SaveBallot(db, tx).denylist = db.denylist
      /\ SaveTip(db, tx).denylist = db.denylist
      /\ \A replaced : CastVote(db, tx, replaced).denylist = db.denylist
    BY DEF TablesShape, Unvote, SaveBallot, SaveTip, CastVote
<1>3. /\ RecordRelation(db, tx).denylist = db.denylist
      /\ Follow(db, tx).denylist = db.denylist /\ Unfollow(db, tx).denylist = db.denylist
      /\ Block(db, tx).denylist = db.denylist /\ Unblock(db, tx).denylist = db.denylist
    BY DEF TablesShape, RecordRelation, Follow, Unfollow, Block, Unblock
<1>4. /\ \A seen : SaveProfile(db, tx, seen).denylist = db.denylist
      /\ \A rows : [db EXCEPT !.bcasts = rows].denylist = db.denylist
    BY DEF TablesShape, SaveProfile
<1>5. /\ Unquote(db, tx).denylist = db.denylist /\ ApplyEdit(db, tx).denylist = db.denylist
      /\ \A post, author : HardDelete(db, post, author).denylist = db.denylist
      /\ Claimed(db, tx).denylist = db.denylist /\ Bury(db, tx).denylist = db.denylist
    BY DEF TablesShape, Unquote, ApplyEdit, HardDelete, Claimed, Bury
<1>6. /\ SavePost(db, tx).denylist = db.denylist /\ SaveReply(db, tx).denylist = db.denylist
      /\ SaveQuote(db, tx).denylist = db.denylist /\ SavePoll(db, tx).denylist = db.denylist
    BY DEF TablesShape, SavePost, SaveReply, SaveQuote, SavePoll
<1> QED  BY <1>1, <1>2, <1>3, <1>4, <1>5, <1>6

LEMMA DenylistGrows ==
    ASSUME KInv, NEW w \in Everyone, Handle(w) \/ HandlePending(w)
    PROVE  DenyTarget(w) \/ db'.denylist \subseteq db.denylist
<1>1. TablesShape
    BY DEF KInv, Shaped
<1>2. CASE db' = db
    BY <1>2
<1>3. CASE \/ SignatureIsFresh(w) \/ Erase(w) \/ Tombstone(w) \/ AuditDelete(w) \/ Withdraw(w)
    BY <1>1, <1>3, DenylistKept DEF SignatureIsFresh, Erase, Tombstone, AuditDelete, Withdraw
<1>4. CASE Save(w)
    <2>1. CASE ~NewContent(db, Tx(w))
        BY <1>4, <2>1 DEF Save
    <2>2. CASE NewContent(db, Tx(w))
        <3>1. db' = SaveContent(db, Tx(w)) /\ Tx(w).kind \in Content
            BY <1>4, <2>2 DEF Save, At, KInv, Staged, InStage, Kind, Tx
        <3> QED  BY <1>1, <3>1, DenylistKept DEF SaveContent, Content
    <2> QED  BY <2>1, <2>2
<1>5. CASE SaveOptions(w) \/ SaveMentions(w) \/ AuditEdit(w) \/ EditContent(w) \/ EditMentions(w)
    BY <1>1, <1>5, DenylistKept DEF SaveOptions, SaveMentions, AuditEdit, EditContent, EditMentions
<1>6. CASE CommitVote(w) \/ CommitProfile(w) \/ PollVote(w) \/ RelationIsNewest(w)
    <2>1. CASE CommitVote(w)
        BY <1>1, <2>1, DenylistKept DEF CommitVote
    <2>2. CASE CommitProfile(w)
        BY <1>1, <2>2, DenylistKept DEF CommitProfile
    <2>3. CASE PollVote(w) \/ RelationIsNewest(w)
        BY <1>1, <2>3, DenylistKept DEF PollVote, RelationIsNewest
    <2> QED  BY <1>6, <2>1, <2>2, <2>3
<1>7. CASE SaveFollow(w) \/ SaveBlock(w)
    BY <1>1, <1>7, DenylistKept DEF SaveFollow, SaveBlock
<1>8. CASE PurgeTarget(w) \/ AllowTarget(w)
    BY <1>1, <1>8 DEF PurgeTarget, AllowTarget, Purge, Allow, TablesShape
<1>9. CASE StoreBroadcast(w) \/ StoreTip(w)
    BY <1>1, <1>9, DenylistKept DEF StoreBroadcast, StoreTip
<1>10. CASE \/ DeletedBefore(w) \/ NotifyContent(w) \/ DropIfDeleted(w) \/ TargetIndexed(w) \/ ReplaceVote(w)
            \/ NotifyVote(w) \/ Original(w) \/ Related(w) \/ NotifyFollow(w) \/ DenyInMemory(w) \/ OpenLedger(w)
            \/ RouteBroadcast(w) \/ TipGates(w) \/ Resolve(w) \/ GiveUp(w) \/ NotifyStored(w)
    BY <1>2, <1>10 DEF DeletedBefore, NotifyContent, DropIfDeleted, TargetIndexed, ReplaceVote, NotifyVote, Original,
                       Related, NotifyFollow, DenyInMemory, OpenLedger, RouteBroadcast, TipGates, Resolve, GiveUp,
                       NotifyStored, Reads
<1> QED  BY <1>3, <1>4, <1>5, <1>6, <1>7, <1>8, <1>9, <1>10 DEF Handle, HandlePending

\* Only the purge settles what an interrupted one left.
LEMMA PurgesOnly ==
    ASSUME NEW w \in Everyone, Handle(w) \/ HandlePending(w)
    PROVE  PurgeTarget(w) \/ (owed' = owed /\ work[w].pc # "purge")
<1>1. CASE \/ DeletedBefore(w) \/ SignatureIsFresh(w)
           \/ Save(w) \/ SaveOptions(w) \/ SaveMentions(w) \/ NotifyContent(w) \/ DropIfDeleted(w) \/ Erase(w)
           \/ Withdraw(w) \/ TargetIndexed(w)
    BY <1>1 DEF DeletedBefore, SignatureIsFresh, Save, SaveOptions, SaveMentions, NotifyContent, DropIfDeleted, Erase,
                Withdraw, TargetIndexed, Reads, Writes, At
<1>2. CASE \/ ReplaceVote(w) \/ CommitVote(w) \/ NotifyVote(w) \/ PollVote(w)
           \/ Original(w) \/ AuditEdit(w) \/ EditContent(w) \/ EditMentions(w) \/ Tombstone(w) \/ AuditDelete(w)
    BY <1>2 DEF ReplaceVote, CommitVote, NotifyVote, PollVote, Original, AuditEdit, EditContent, EditMentions,
                Tombstone, AuditDelete, Reads, Writes, At
<1>3. CASE \/ Related(w) \/ RelationIsNewest(w) \/ SaveFollow(w) \/ NotifyFollow(w)
           \/ SaveBlock(w) \/ DenyTarget(w) \/ DenyInMemory(w) \/ AllowTarget(w) \/ OpenLedger(w) \/ CommitProfile(w)
    BY <1>3 DEF Related, RelationIsNewest, SaveFollow, NotifyFollow, SaveBlock, DenyTarget, DenyInMemory, AllowTarget,
                OpenLedger, CommitProfile, Reads, Writes, At
<1>4. CASE HandlePending(w)
    BY <1>4 DEF HandlePending, RouteBroadcast, TipGates, Resolve, GiveUp, StoreBroadcast, StoreTip, NotifyStored,
                Reads, Writes, At
<1> QED  BY <1>1, <1>2, <1>3, <1>4 DEF Handle

\* After the purge the author's content is gone, and none of it comes unless one
\* of their transactions was past the gate.
LEMMA PurgeCleans ==
    ASSUME KInv, NEW w \in Everyone, PurgeTarget(w), NEW who, who = Tx(w).who[1]
    PROVE  Overtaken(who)' \/ Clean(who)'
<1> DEFINE passed == \E v \in Workers : work[v].pc \in Early /\ Tx(v).by = who /\ Handles(v, Content)
<1>1. /\ At(w, "purge") /\ db' = Purge(db, who) /\ plan' = plan
      /\ Goto(w, "deny")
      /\ passed => Overtaken(who)'
    BY DEF PurgeTarget, Overtaken, Early
<1>2. Moved(w, "deny")
    BY <1>1, GotoMoves DEF KInv, Shaped, At
<1>3. \A c \in db'.contents : c.by # who
    BY <1>1 DEF Purge, KInv, Shaped, TablesShape
<1>4. ASSUME ~passed, NEW v \in Everyone, Kind(work[v].id) \in Content, Tx(v).by = who, work'[v].pc \in Early
      PROVE  FALSE
    <2>1. v # w /\ work[v].pc \in Early
        BY <1>2, <1>4 DEF Moved, Early
    <2>2. v # Retrier
        BY <1>4, <2>1 DEF Early, KInv, Staged, InStage, Protected
    <2> QED  BY <1>4, <2>1, <2>2 DEF Everyone, Handles, Kind, Tx
<1>5. \A v \in Everyone : Kind(work[v].id)' = Kind(work[v].id) /\ Tx(v)' = Tx(v)
    BY <1>1, <1>2 DEF Moved, Kind, Tx
<1>6. ~passed => Clean(who)'
    BY <1>2, <1>3, <1>4, <1>5 DEF Clean, Everyone, Moved
<1> QED  BY <1>1, <1>6

LEMMA HandlersDealt ==
    ASSUME DInv, NEW w \in Everyone, Handling(w) \/ HandlingPending(w)
    PROVE  Dealt'
<1>1. torn' = torn /\ (Handle(w) \/ HandlePending(w))
    BY DEF Handling, HandlingPending, pipeVars
<1>2. PICK next : Steps(w, next)
    BY <1>1, HandlersStep DEF DInv
<1>3. /\ plan' = plan /\ raced \subseteq raced' /\ Everyone' = Everyone
      /\ \A v \in Everyone : work'[v].id = work[v].id /\ work'[v].pc = IF v = w THEN next ELSE work[v].pc
      /\ \A v \in Everyone : Tx(v)' = Tx(v) /\ Kind(work[v].id)' = Kind(work[v].id)
    BY <1>2 DEF Steps, Moved, Tx, Kind, Everyone
<1>4. ASSUME PurgeTarget(w), NEW b, b = Tx(w).who[1]
      PROVE  Overtaken(b)' \/ Clean(b)'
    BY <1>4, PurgeCleans DEF DInv
<1>5. ASSUME NEW b, Clean(b)
      PROVE  Clean(b)'
    <2>1. ASSUME NEW c \in db'.contents, c.by = b
          PROVE  FALSE
        <3>1. \/ \E old \in db.contents : old.id = c.id /\ old.by = c.by
              \/ Kind(work[w].id) \in Content /\ c.by = Tx(w).by /\ work[w].pc = "save"
            BY <1>2 DEF Steps, At
        <3> QED  BY <1>5, <2>1, <3>1 DEF Clean, Early
    <2>2. next \in Early => work[w].pc \in Early
        BY <1>2 DEF Steps, Early, At
    <2> QED  BY <1>3, <1>5, <2>1, <2>2 DEF Clean
<1>6. ASSUME NEW b \in db'.denylist, b \in db.denylist
      PROVE  Overtaken(b)' \/ b \in owed' \/ Purger(b)' \/ Clean(b)'
    <2>1. CASE Overtaken(b)
        BY <1>3, <2>1 DEF Overtaken
    <2>2. CASE b \in owed
        <3>1. owed' = owed \/ (PurgeTarget(w) /\ owed' = owed \ {Tx(w).who[1]})
            BY <1>1, PurgesOnly DEF PurgeTarget
        <3> QED  BY <1>4, <2>2, <3>1
    <2>3. CASE Purger(b)
        <3>1. PICK v \in Everyone : work[v].pc = "purge" /\ Tx(v).who[1] = b
            BY <2>3 DEF Purger
        <3>2. CASE v # w
            BY <1>3, <3>1, <3>2 DEF Purger
        <3>3. CASE v = w
            BY <1>1, <1>4, <3>1, <3>3, PurgesOnly
        <3> QED  BY <3>2, <3>3
    <2>4. CASE Clean(b)
        BY <1>5, <2>4
    <2> QED  BY <1>6, <2>1, <2>2, <2>3, <2>4 DEF DInv, Dealt
<1>7. ASSUME NEW b \in db'.denylist, b \notin db.denylist
      PROVE  Purger(b)'
    <2>1. DenyTarget(w)
        BY <1>1, <1>7, DenylistGrows DEF DInv
    <2>2. b = Tx(w).who[1] /\ Goto(w, "purge") /\ work[w].pc = "operator"
        BY <1>7, <2>1 DEF DenyTarget, Deny, At, DInv, KInv, Shaped, TablesShape
    <2>3. Moved(w, "purge")
        BY <2>2, GotoMoves DEF DInv, KInv, Shaped
    <2> QED  BY <1>3, <2>2, <2>3 DEF Purger, Moved
<1> QED  BY <1>6, <1>7 DEF Dealt

\* How a worker may be moved by anything else than its handler.
Settles(v) ==
    \/ work'[v] = work[v]
    \/ /\ work[v].pc = "purge" => Tx(v).who[1] \in owed'
       /\ \/ work'[v].pc \notin Early
          \/ Kind(work'[v].id) \notin Content
          \/ LET by == plan.txs[work'[v].id].by IN by \in db.denylist => <<"deny", by, 0>> \in raced'

LEMMA AroundDealt ==
    ASSUME DInv, UNCHANGED <<plan, db>>, raced \subseteq raced', owed \subseteq owed',
           \A v \in Everyone : Settles(v)
    PROVE  Dealt'
<1>1. /\ Everyone' = Everyone /\ db'.denylist = db.denylist
      /\ \A i : Kind(i)' = Kind(i)
      /\ \A v \in Everyone : work'[v] = work[v] => Tx(v)' = Tx(v)
    BY DEF Everyone, Kind, Tx
<1> SUFFICES ASSUME NEW b \in db.denylist, ~Overtaken(b)', b \notin owed', ~Purger(b)'
             PROVE  Clean(b)'
    BY <1>1 DEF Dealt
<1>2. ~Overtaken(b) /\ b \notin owed
    BY DEF Overtaken
<1>3. ~Purger(b)
    <2> SUFFICES ASSUME NEW v \in Everyone, work[v].pc = "purge", Tx(v).who[1] = b
                 PROVE  FALSE
        BY DEF Purger
    <2>1. work'[v] = work[v]
        BY DEF Settles
    <2> QED  BY <1>1, <2>1 DEF Purger
<1>4. Clean(b)
    BY <1>2, <1>3 DEF DInv, Dealt
<1>5. ASSUME NEW v \in Everyone, Kind(work'[v].id) \in Content, Tx(v)'.by = b, work'[v].pc \in Early
      PROVE  FALSE
    <2>1. CASE work'[v] = work[v]
        BY <1>1, <1>4, <1>5, <2>1 DEF Clean
    <2>2. CASE work'[v] # work[v]
        BY <1>5, <2>2 DEF Settles, Overtaken, Tx
    <2> QED  BY <2>1, <2>2
<1> QED  BY <1>1, <1>4, <1>5 DEF Clean

\* A worker is put somewhere else.
LEMMA PlaceDealt ==
    ASSUME DInv, NEW w \in Everyone, NEW id, NEW pc, NEW quiet, NEW memo,
           work' = [work EXCEPT ![w] = [id |-> id, pc |-> pc, quiet |-> quiet, memo |-> memo]],
           UNCHANGED <<plan, db>>, raced \subseteq raced', owed \subseteq owed',
           work[w].pc = "purge" => Tx(w).who[1] \in owed',
           \/ pc \notin Early \/ Kind(id) \notin Content
           \/ plan.txs[id].by \in db.denylist => <<"deny", plan.txs[id].by, 0>> \in raced'
    PROVE  Dealt'
<1> DEFINE r == [id |-> id, pc |-> pc, quiet |-> quiet, memo |-> memo]
<1>1. work'[w] = r /\ \A v \in Everyone \ {w} : work'[v] = work[v]
    BY PutMoves DEF DInv, KInv, Shaped
<1>2. work'[w].id = id /\ work'[w].pc = pc
    BY <1>1
<1>3. \A v \in Everyone : Settles(v)
    BY <1>1, <1>2 DEF Settles
<1> HIDE DEF r
<1> QED  BY <1>3, AroundDealt

LEMMA TakeDealt ==
    ASSUME DInv, NEW w \in Workers, NEW id \in Ids, NEW quiet, Take(w, id, quiet),
           At(w, "idle") \/ At(w, "refetch"), UNCHANGED <<plan, db, owed>>
    PROVE  Dealt'
<1> DEFINE pc == Entry(plan.txs[id])
           by == plan.txs[id].by
<1>1. /\ work' = [work EXCEPT ![w] = [id |-> id, pc |-> pc, quiet |-> quiet, memo |-> {}]]
      /\ raced \subseteq raced'
      /\ by \in db.denylist \ denied => <<"deny", by, 0>> \in raced'
    BY DEF Take
<1>2. w \in Everyone
    BY DEF Everyone
<1>3. by \in denied => pc \notin Early \/ Kind(id) \notin Content
    BY DEF Entry, IsDenied, Kind, Content, Early
<1> HIDE DEF pc
<1> QED  BY <1>1, <1>2, <1>3, PlaceDealt DEF At

LEMMA WorkersDealt ==
    ASSUME DInv, NEW w \in Workers, WorkerSteps(w) \/ FetchFails(w) \/ RefetchFails(w) \/ MarkFails(w)
    PROVE  Dealt'
<1>1. UNCHANGED <<plan, db, owed>> /\ w \in Everyone
    BY DEF WorkerSteps, Fetch, Refetch, Consume, FetchFails, RefetchFails, MarkFails, Everyone
<1>2. \A id : Fetched(id) => id \in Ids
    BY DEF Fetched, Held, DInv, KInv, Known
<1>3. ASSUME NEW id, NEW quiet, Fetched(id), Take(w, id, quiet), At(w, "idle") \/ At(w, "refetch")
      PROVE  Dealt'
    BY <1>1, <1>2, <1>3, TakeDealt
<1>4. ASSUME raced' = raced, work[w].pc # "purge", NEW id, NEW pc \in {"idle", "refetch"},
             work' = [work EXCEPT ![w] = [id |-> id, pc |-> pc, quiet |-> FALSE, memo |-> {}]]
      PROVE  Dealt'
    BY <1>1, <1>4, PlaceDealt DEF Early
<1>5. ASSUME raced' = raced, work' = work
      PROVE  Dealt'
    BY <1>1, <1>5, AroundDealt DEF Settles
<1>6. CASE Fetch(w)
    BY <1>3, <1>5, <1>6 DEF Fetch
<1>7. CASE Refetch(w)
    BY <1>3, <1>4, <1>7 DEF Refetch, Idle, At
<1>8. CASE Consume(w) \/ MarkFails(w) \/ RefetchFails(w)
    BY <1>4, <1>8 DEF Consume, MarkFails, RefetchFails, Idle, At
<1>9. CASE FetchFails(w)
    BY <1>4, <1>9 DEF FetchFails, At
<1> QED  BY <1>6, <1>7, <1>8, <1>9 DEF WorkerSteps

LEMMA FaultsDealt ==
    ASSUME DInv, (\E w \in Everyone : StatementFails(w)) \/ Crash
    PROVE  Dealt'
<1>1. UNCHANGED <<plan, db, raced>> /\ owed \subseteq owed'
    BY DEF StatementFails, Crash
<1>2. ASSUME NEW w \in Everyone, StatementFails(w)
      PROVE  Dealt'
    <2>1. work[w].pc = "purge" => Tx(w).who[1] \in owed'
        BY <1>2 DEF StatementFails, Owing, At
    <2>2. \E id, pc, quiet, memo : /\ work' = [work EXCEPT ![w] = [id |-> id, pc |-> pc, quiet |-> quiet, memo |-> memo]]
                                   /\ pc \in {"idle", "unknown"}
        <3>1. CASE w = Retrier
            <4> DEFINE old == work[w]
                       r == [old EXCEPT !.pc = "unknown"]
            <4>1. r = [id |-> old.id, pc |-> "unknown", quiet |-> old.quiet, memo |-> old.memo]
                BY PlacesAre DEF DInv, KInv, Shaped
            <4>2. work' = [work EXCEPT ![w] = r]
                BY <1>2, <3>1, PlacesAre DEF StatementFails
            <4> HIDE DEF r
            <4> QED  BY <4>1, <4>2
        <3>2. CASE w # Retrier
            BY <1>2, <3>2 DEF StatementFails, Idle
        <3> QED  BY <3>1, <3>2
    <2> QED  BY <1>1, <2>1, <2>2, PlaceDealt DEF Early
<1>3. CASE Crash
    <2>1. work' = [w \in Everyone |-> [id |-> 0, pc |-> "idle", quiet |-> FALSE, memo |-> {}]]
          /\ owed' = owed \cup Owing(Everyone)
        BY <1>3 DEF Crash, Idle
    <2>2. \A v \in Everyone : Settles(v)
        BY <2>1 DEF Settles, Owing, At, Early
    <2> QED  BY <1>1, <2>2, AroundDealt
<1> QED  BY <1>2, <1>3

LEMMA RetryDealt ==
    ASSUME DInv, Retrying
    PROVE  Dealt'
<1>1. UNCHANGED <<plan, db, raced, owed>> /\ Retrier \in Everyone
    BY DEF Retrying, Retry, TakePending, PendingDone, PendingUnknown, Reads, Everyone
<1>2. CASE TakePending
    <2>1. PICK r \in pending : \E pc :
            work' = [work EXCEPT ![Retrier] = [id |-> r.id, quiet |-> FALSE, memo |-> {}, pc |-> pc]]
        BY <1>2 DEF TakePending
    <2>2. PICK pc : work' = [work EXCEPT ![Retrier] = [id |-> r.id, pc |-> pc, quiet |-> FALSE, memo |-> {}]]
        BY <2>1
    <2>3. Kind(r.id) \notin Content /\ work[Retrier].pc # "purge"
        BY <1>2 DEF TakePending, At, DInv, KInv, Known, Protected
    <2> QED  BY <1>1, <2>2, <2>3, PlaceDealt
<1>3. CASE PendingDone \/ PendingUnknown
    <2>1. /\ work' = [work EXCEPT ![Retrier] = [id |-> 0, pc |-> "idle", quiet |-> FALSE, memo |-> {}]]
          /\ work[Retrier].pc # "purge"
        BY <1>3 DEF PendingDone, PendingUnknown, Idle, At
    <2> QED  BY <1>1, <2>1, PlaceDealt DEF Early
<1> QED  BY <1>2, <1>3 DEF Retrying, Retry

\* The steps that leave the tables and the workers where they are.
LEMMA QueueDealt ==
    ASSUME DInv,
           \/ Ingest \/ (\E id \in raw : PruneRaw(id)) \/ Listen \/ ListenerFails
           \/ Refresh \/ NodeSteps \/ Start \/ CatchUp \/ Requeue \/ RequeueFails \/ SweepPending
           \/ (\E force \in BOOLEAN : RequestReindex(force))
           \/ BeginWalk \/ WalkChecks \/ WalkStores \/ WalkFails \/ PruneRecovered \/ UNCHANGED vars
    PROVE  Dealt'
<1>1. UNCHANGED <<plan, db, work, raced, owed>>
    BY DEF Ingest, PruneRaw, Listen, ListenerFails, Refresh, RefreshDenylist, NodeSteps, Start, CatchUp, Requeue,
           RequeueFails, SweepPending, RequestReindex, BeginWalk, WalkChecks, WalkStores, WalkFails, PruneRecovered,
           storeVars, vars
<1> QED  BY <1>1, AroundDealt DEF Settles

\* Nothing by an author on the operator's denylist stays stored (DeniedStaysOut),
\* but for the three ways in which the code lets it: a purge that is still to come
\* or was interrupted, and a transaction of theirs that passed the gate before it.
THEOREM DeniedTheorem == Spec => []DeniedStaysOut
<1>1. Init => DInv
    <2>1. Init => db.denylist = {}
        BY DEF Init, EmptyTables
    <2> QED  BY <2>1, InitHolds DEF DInv, Dealt
<1>2. DInv /\ [Next]_vars => DInv'
    <2> SUFFICES ASSUME DInv, [Next]_vars
                 PROVE  Dealt'
        BY NextKeeps DEF DInv
    <2>1. CASE \E w \in Workers : WorkerSteps(w) \/ FetchFails(w) \/ RefetchFails(w) \/ MarkFails(w)
        BY <2>1, WorkersDealt
    <2>2. CASE \E w \in Everyone : Handling(w) \/ HandlingPending(w) \/ StatementFails(w)
        BY <2>2, HandlersDealt, FaultsDealt
    <2> QED  BY <2>1, <2>2, QueueDealt, RetryDealt, FaultsDealt DEF Next
<1>3. DInv => DeniedStaysOut
    BY DeniedStaysOutHolds
<1> QED  BY <1>1, <1>2, <1>3, PTL DEF Spec
-----------------------------------------------------------------------------
(* Copied signatures.                                                      *)

\* Where a worker may be before its transaction has claimed its signature: what
\* the signature does not let through goes from "fresh" to the second look.
Unclaimed == {"idle", "refetch", "tomb", "fresh", "drop", "erase", "done", "unknown"}

\* The transactions that rows of content, votes and mentions are about.
Names(d) == {c.id : c \in d.contents} \cup {v.post : v \in d.votes} \cup {m.content : m \in d.mentions}
TableLike(d) == d = [f \in DOMAIN d |-> d[f]] /\ {"contents", "votes", "mentions"} \subseteq DOMAIN d
Adds(d, S) == TableLike(d) /\ Names(d) \subseteq Names(db) \cup S

ClaimStage(w) ==
    LET id == work[w].id
    IN /\ work[w].pc \notin Unclaimed /\ Kind(id) # "bcast" => Claims(id)
       /\ work[w].pc \in {"replace", "vote", "audit", "apply"} => Claims(Tx(w).ref)
       /\ work[w].pc = "mentions" /\ Kind(id) = "edit" => Claims(Tx(w).ref)
       /\ work[w].pc = "options" => Kind(id) = "poll"
       /\ work[w].pc \in {"replace", "vote"} => Kind(id) = "vote"
       /\ work[w].pc = "route" => Kind(id) = "bcast"
       /\ work[w].pc = "ask" => Kind(id) \in {"bcast", "tip"}

CInv ==
    /\ KInv /\ TableLike(db)
    /\ \A n \in Names(db) : Claims(n)
    /\ \A r \in pending : Kind(r.id) \in {"bcast", "tip"}
    /\ \A w \in Everyone : ClaimStage(w)

\* A row names the transaction that wrote it, or one that a row was about.
LEMMA StatementsAdd ==
    ASSUME TableLike(db), RowsSound, NEW tx
    PROVE  /\ Adds(db, {}) /\ Adds(SavePollOptions(db, tx), {}) /\ Adds(RecordEdit(db, tx), {})
           /\ Adds(RecordDelete(db, tx), {}) /\ Adds(Unvote(db, tx), {}) /\ Adds(SaveBallot(db, tx), {})
           /\ Adds(RecordRelation(db, tx), {}) /\ Adds(Follow(db, tx), {}) /\ Adds(Unfollow(db, tx), {})
           /\ Adds(Block(db, tx), {}) /\ Adds(Unblock(db, tx), {})
           /\ \A who : Adds(Deny(db, who), {}) /\ Adds(Allow(db, who), {}) /\ Adds(Purge(db, who), {})
           /\ \A seen : Adds(SaveProfile(db, tx, seen), {})
           /\ \A rows : Adds([db EXCEPT !.bcasts = rows], {})
           /\ Adds(Unquote(db, tx), {}) /\ Adds(ApplyEdit(db, tx), {})
           /\ \A post, author : Adds(HardDelete(db, post, author), {})
           /\ Adds(Claimed(db, tx), {}) /\ Adds(Bury(db, tx), {})
           /\ Adds(SavePollMentions(db, tx), {tx.id}) /\ Adds(SaveTip(db, tx), {tx.id})
           /\ Adds(SavePost(db, tx), {tx.id}) /\ Adds(SaveReply(db, tx), {tx.id})
           /\ Adds(SaveQuote(db, tx), {tx.id}) /\ Adds(SavePoll(db, tx), {tx.id})
           /\ \A replaced : Adds(CastVote(db, tx, replaced), {tx.id, tx.ref})
           /\ \A kind : Adds(AddEditMentions(db, tx, kind), {tx.ref})
<1>1. ASSUME NEW d, d = [f \in DOMAIN d |-> d[f]], DOMAIN d = DOMAIN db, NEW S,
             \A c \in d.contents : c.id \in Names(db) \cup S,
             \A v \in d.votes : v.post \in Names(db) \cup S,
             \A m \in d.mentions : m.content \in Names(db) \cup S
      PROVE  Adds(d, S)
    BY <1>1 DEF Adds, TableLike, Names
<1>2. /\ \A c \in db.contents : c.id \in Names(db)
      /\ \A v \in db.votes : v.post \in Names(db)
      /\ \A m \in db.mentions : m.content \in Names(db)
      /\ db = [f \in DOMAIN db |-> db[f]] /\ {"contents", "votes", "mentions"} \subseteq DOMAIN db
    BY DEF Names, TableLike
<1> HIDE DEF Names
<1>3. ASSUME NEW d, d = [f \in DOMAIN db |-> d[f]], d.contents \subseteq db.contents, d.votes \subseteq db.votes,
             d.mentions \subseteq db.mentions
      PROVE  Adds(d, {})
    BY <1>1, <1>2, <1>3
<1>4. Adds(db, {})
    BY <1>2, <1>3
<1>5. Adds(SavePollOptions(db, tx), {}) /\ Adds(RecordEdit(db, tx), {}) /\ Adds(RecordDelete(db, tx), {})
    <2>1. Adds(SavePollOptions(db, tx), {})
        BY <1>2, <1>3 DEF SavePollOptions
    <2>2. Adds(RecordEdit(db, tx), {})
        BY <1>2, <1>3, <1>4 DEF RecordEdit
    <2>3. Adds(RecordDelete(db, tx), {})
        BY <1>2, <1>3, <1>4 DEF RecordDelete
    <2> QED  BY <2>1, <2>2, <2>3
<1>6. Adds(Unvote(db, tx), {}) /\ Adds(SaveBallot(db, tx), {}) /\ Adds(RecordRelation(db, tx), {})
    <2>1. Adds(Unvote(db, tx), {})
        BY <1>2, <1>3 DEF Unvote
    <2>2. Adds(SaveBallot(db, tx), {})
        BY <1>2, <1>3, <1>4 DEF SaveBallot
    <2>3. Adds(RecordRelation(db, tx), {})
        BY <1>2, <1>3, <1>4 DEF RecordRelation
    <2> QED  BY <2>1, <2>2, <2>3
<1>7. Adds(Follow(db, tx), {}) /\ Adds(Unfollow(db, tx), {}) /\ Adds(Block(db, tx), {}) /\ Adds(Unblock(db, tx), {})
    <2>1. Adds(Follow(db, tx), {})
        BY <1>2, <1>3, <1>4 DEF Follow
    <2>2. Adds(Unfollow(db, tx), {})
        BY <1>2, <1>3 DEF Unfollow
    <2>3. Adds(Block(db, tx), {})
        BY <1>2, <1>3, <1>4 DEF Block
    <2>4. Adds(Unblock(db, tx), {})
        BY <1>2, <1>3 DEF Unblock
    <2> QED  BY <2>1, <2>2, <2>3, <2>4
<1>8. ASSUME NEW who
      PROVE  Adds(Deny(db, who), {}) /\ Adds(Allow(db, who), {}) /\ Adds(Purge(db, who), {})
    <2>1. Adds(Deny(db, who), {})
        BY <1>2, <1>3 DEF Deny
    <2>2. Adds(Allow(db, who), {})
        BY <1>2, <1>3 DEF Allow
    <2>3. Adds(Purge(db, who), {})
        BY <1>2, <1>3 DEF Purge
    <2> QED  BY <2>1, <2>2, <2>3
<1>9. ASSUME NEW seen
      PROVE  Adds(SaveProfile(db, tx, seen), {}) /\ Adds([db EXCEPT !.bcasts = seen], {})
    <2>1. Adds(SaveProfile(db, tx, seen), {})
        BY <1>2, <1>3 DEF SaveProfile
    <2>2. Adds([db EXCEPT !.bcasts = seen], {})
        BY <1>2, <1>3
    <2> QED  BY <2>1, <2>2
<1>10. Adds(Unquote(db, tx), {}) /\ Adds(ApplyEdit(db, tx), {})
    <2>1. Adds(Unquote(db, tx), {})
        BY <1>2, <1>3 DEF Unquote
    <2>2. \A c \in db.contents : [c EXCEPT !.text = tx.text, !.edited = tx.time].id = c.id
        BY DEF RowsSound
    <2>3. \A c \in ApplyEdit(db, tx).contents :
            \E b \in db.contents :
               c = IF b.id = tx.ref /\ Supersedes(tx, b) THEN [b EXCEPT !.text = tx.text, !.edited = tx.time] ELSE b
        BY <1>2 DEF ApplyEdit
    <2>4. \A c \in ApplyEdit(db, tx).contents : c.id \in Names(db)
        BY <1>2, <2>2, <2>3
    <2>5. /\ ApplyEdit(db, tx) = [f \in DOMAIN db |-> ApplyEdit(db, tx)[f]]
          /\ ApplyEdit(db, tx).votes = db.votes /\ ApplyEdit(db, tx).mentions = db.mentions
        <3> DEFINE rows == {IF c.id = tx.ref /\ Supersedes(tx, c) THEN [c EXCEPT !.text = tx.text, !.edited = tx.time]
                            ELSE c : c \in db.contents}
        <3>1. ApplyEdit(db, tx) = [db EXCEPT !.contents = rows]
            BY DEF ApplyEdit
        <3> HIDE DEF rows
        <3> QED  BY <1>2, <3>1
    <2>6. Adds(ApplyEdit(db, tx), {})
        <3> HIDE DEF ApplyEdit
        <3> QED  BY <1>1, <1>2, <2>5, <2>4
    <2> QED  BY <2>1, <2>6
<1>11. ASSUME NEW post, NEW author
       PROVE  Adds(HardDelete(db, post, author), {})
    BY <1>2, <1>3 DEF HardDelete
<1>12. Adds(Claimed(db, tx), {}) /\ Adds(Bury(db, tx), {})
    <2>1. Adds(Claimed(db, tx), {})
        BY <1>2, <1>3, <1>4 DEF Claimed
    <2>2. Adds(Bury(db, tx), {})
        BY <1>2, <1>3, <1>4 DEF Bury
    <2> QED  BY <2>1, <2>2
<1>13. \A id, kind, who, by : Mention(id, kind, who, by).content = id
    BY DEF Mention
<1>14. ContentRow(tx).id = tx.id
    BY DEF ContentRow
<1>15. ASSUME NEW d, NEW n, d = [f \in DOMAIN db |-> d[f]], d.votes = db.votes,
              \A c \in d.contents : c \in db.contents \/ c.id = n,
              \A m \in d.mentions : m \in db.mentions \/ m.content = n
       PROVE  Adds(d, {n})
    BY <1>1, <1>2, <1>15
<1>16. Adds(SavePollMentions(db, tx), {tx.id}) /\ Adds(SaveTip(db, tx), {tx.id})
    <2>1. Adds(SavePollMentions(db, tx), {tx.id})
        <3> DEFINE d == SavePollMentions(db, tx)
        <3>1. d = [f \in DOMAIN db |-> d[f]]
            BY <1>2 DEF SavePollMentions
        <3>2. d.votes = db.votes /\ (\A c \in d.contents : c \in db.contents \/ c.id = tx.id)
            BY <1>2, <1>14 DEF SavePollMentions
        <3>3. \A m \in d.mentions : m \in db.mentions \/ m.content = tx.id
            BY <1>2, <1>13 DEF SavePollMentions
        <3> HIDE DEF d
        <3>4. Adds(d, {tx.id})
            BY <1>15, <3>1, <3>2, <3>3
        <3> QED  BY <3>4 DEF d
    <2>2. Adds(SaveTip(db, tx), {tx.id})
        <3> DEFINE d == SaveTip(db, tx)
        <3>1. d = [f \in DOMAIN db |-> d[f]]
            BY <1>2 DEF SaveTip
        <3>2. d.votes = db.votes /\ (\A c \in d.contents : c \in db.contents \/ c.id = tx.id)
            BY <1>2, <1>14 DEF SaveTip
        <3>3. \A m \in d.mentions : m \in db.mentions \/ m.content = tx.id
            BY <1>2, <1>13 DEF SaveTip
        <3> HIDE DEF d
        <3>4. Adds(d, {tx.id})
            BY <1>15, <3>1, <3>2, <3>3
        <3> QED  BY <3>4 DEF d
    <2> QED  BY <2>1, <2>2
<1>17. /\ Adds(SavePost(db, tx), {tx.id}) /\ Adds(SaveReply(db, tx), {tx.id})
       /\ Adds(SaveQuote(db, tx), {tx.id}) /\ Adds(SavePoll(db, tx), {tx.id})
    <2>1. Adds(SavePost(db, tx), {tx.id})
        <3> DEFINE d == SavePost(db, tx)
        <3>1. d = [f \in DOMAIN db |-> d[f]]
            BY <1>2 DEF SavePost
        <3>2. d.votes = db.votes /\ (\A c \in d.contents : c \in db.contents \/ c.id = tx.id)
            BY <1>2, <1>14 DEF SavePost
        <3>3. \A m \in d.mentions : m \in db.mentions \/ m.content = tx.id
            BY <1>2, <1>13 DEF SavePost
        <3> HIDE DEF d
        <3>4. Adds(d, {tx.id})
            BY <1>15, <3>1, <3>2, <3>3
        <3> QED  BY <3>4 DEF d
    <2>2. Adds(SaveReply(db, tx), {tx.id})
        <3> DEFINE d == SaveReply(db, tx)
        <3>1. d = [f \in DOMAIN db |-> d[f]]
            BY <1>2 DEF SaveReply
        <3>2. d.votes = db.votes /\ (\A c \in d.contents : c \in db.contents \/ c.id = tx.id)
            BY <1>2, <1>14 DEF SaveReply
        <3>3. \A m \in d.mentions : m \in db.mentions \/ m.content = tx.id
            BY <1>2, <1>13 DEF SaveReply
        <3> HIDE DEF d
        <3>4. Adds(d, {tx.id})
            BY <1>15, <3>1, <3>2, <3>3
        <3> QED  BY <3>4 DEF d
    <2>3. Adds(SaveQuote(db, tx), {tx.id})
        <3> DEFINE d == SaveQuote(db, tx)
        <3>1. d = [f \in DOMAIN db |-> d[f]]
            BY <1>2 DEF SaveQuote
        <3>2. d.votes = db.votes /\ (\A c \in d.contents : c \in db.contents \/ c.id = tx.id)
            BY <1>2, <1>14 DEF SaveQuote
        <3>3. \A m \in d.mentions : m \in db.mentions \/ m.content = tx.id
            BY <1>2, <1>13 DEF SaveQuote
        <3> HIDE DEF d
        <3>4. Adds(d, {tx.id})
            BY <1>15, <3>1, <3>2, <3>3
        <3> QED  BY <3>4 DEF d
    <2>4. Adds(SavePoll(db, tx), {tx.id})
        <3> DEFINE d == SavePoll(db, tx)
        <3>1. d = [f \in DOMAIN db |-> d[f]]
            BY <1>2 DEF SavePoll
        <3>2. d.votes = db.votes /\ (\A c \in d.contents : c \in db.contents \/ c.id = tx.id)
            BY <1>2, <1>14 DEF SavePoll
        <3>3. \A m \in d.mentions : m \in db.mentions \/ m.content = tx.id
            BY <1>2, <1>13 DEF SavePoll
        <3> HIDE DEF d
        <3>4. Adds(d, {tx.id})
            BY <1>15, <3>1, <3>2, <3>3
        <3> QED  BY <3>4 DEF d
    <2> QED  BY <2>1, <2>2, <2>3, <2>4
<1>18. ASSUME NEW replaced
       PROVE  Adds(CastVote(db, tx, replaced), {tx.id, tx.ref})
    <2> DEFINE d == CastVote(db, tx, replaced)
               row == [id |-> tx.id, by |-> tx.by, sig |-> tx.sig, time |-> tx.time, post |-> tx.ref, vote |-> tx.as]
    <2>1. /\ d = [f \in DOMAIN db |-> d[f]]
          /\ d.contents = db.contents /\ d.votes \subseteq db.votes \cup {row}
          /\ d.mentions \subseteq db.mentions \cup {Mention(tx.id, "vote", tx.who[1], tx.by)}
        BY <1>2 DEF CastVote
    <2>2. row.post = tx.ref
        OBVIOUS
    <2> HIDE DEF d, row
    <2>3. Adds(d, {tx.id, tx.ref})
        BY <1>1, <1>2, <1>13, <2>1, <2>2
    <2> QED  BY <2>3 DEF d
<1>19. ASSUME NEW kind
       PROVE  Adds(AddEditMentions(db, tx, kind), {tx.ref})
    BY <1>1, <1>2, <1>13 DEF AddEditMentions
<1> QED  BY <1>4, <1>5, <1>6, <1>7, <1>8, <1>9, <1>10, <1>11, <1>12, <1>16, <1>17, <1>18, <1>19

\* Rows come to name claimed transactions only.
LEMMA NamesGrow ==
    ASSUME CInv, NEW w \in Everyone, Handle(w) \/ HandlePending(w)
    PROVE  TableLike(db') /\ \A n \in Names(db') : n \in Names(db) \/ Claims(n)
<1> DEFINE id == work[w].id
           tx == Tx(w)
           Grown(d) == TableLike(d) /\ \A n \in Names(d) : n \in Names(db) \/ Claims(n)
<1>1. work[w].pc \notin {"idle", "refetch"} => tx.id = id
    BY IdsFact DEF CInv, KInv, Known, Staged, InStage, Tx
<1>2. work[w].pc \notin Unclaimed /\ Kind(id) # "bcast" => Claims(id)
    BY DEF CInv, ClaimStage
<1>3. TableLike(db) /\ RowsSound /\ Kind(id) = tx.kind
    BY DEF CInv, KInv, Kind, Tx
<1>4. \A d : Adds(d, {}) => Grown(d)
    BY DEF Adds
<1>5. \A d, i, j : Adds(d, {i, j}) /\ Claims(i) /\ Claims(j) => Grown(d)
    BY DEF Adds
<1>6. \A d, i : Adds(d, {i}) /\ Claims(i) => Grown(d)
    BY DEF Adds
<1> SUFFICES Grown(db')
    OBVIOUS
<1>7. /\ Grown(db) /\ Grown(SavePollOptions(db, tx)) /\ Grown(RecordEdit(db, tx))
      /\ Grown(RecordDelete(db, tx)) /\ Grown(Unvote(db, tx)) /\ Grown(SaveBallot(db, tx))
      /\ Grown(RecordRelation(db, tx)) /\ Grown(Follow(db, tx)) /\ Grown(Unfollow(db, tx))
      /\ Grown(Block(db, tx)) /\ Grown(Unblock(db, tx))
      /\ \A who : Grown(Deny(db, who)) /\ Grown(Allow(db, who)) /\ Grown(Purge(db, who))
      /\ \A seen : Grown(SaveProfile(db, tx, seen))
      /\ \A rows : Grown([db EXCEPT !.bcasts = rows])
      /\ Grown(Unquote(db, tx)) /\ Grown(ApplyEdit(db, tx))
      /\ \A post, author : Grown(HardDelete(db, post, author))
      /\ Grown(Claimed(db, tx)) /\ Grown(Bury(db, tx))
    <2> HIDE DEF Grown
    <2> QED  BY <1>3, <1>4, StatementsAdd
<1>8. /\ Adds(SavePollMentions(db, tx), {tx.id}) /\ Adds(SaveTip(db, tx), {tx.id})
      /\ Adds(SavePost(db, tx), {tx.id}) /\ Adds(SaveReply(db, tx), {tx.id})
      /\ Adds(SaveQuote(db, tx), {tx.id}) /\ Adds(SavePoll(db, tx), {tx.id})
      /\ \A replaced : Adds(CastVote(db, tx, replaced), {tx.id, tx.ref})
      /\ \A kind : Adds(AddEditMentions(db, tx, kind), {tx.ref})
    BY <1>3, StatementsAdd
<1>9. ASSUME work[w].pc \notin Unclaimed, Kind(id) # "bcast"
      PROVE  /\ Grown(SavePollMentions(db, tx)) /\ Grown(SaveTip(db, tx))
             /\ Grown(SavePost(db, tx)) /\ Grown(SaveReply(db, tx))
             /\ Grown(SaveQuote(db, tx)) /\ Grown(SavePoll(db, tx))
    <2>1. tx.id = id /\ Claims(id)
        BY <1>1, <1>2, <1>9 DEF Unclaimed
    <2> HIDE DEF Grown, tx, id
    <2> QED  BY <1>6, <1>8, <2>1
<1> HIDE DEF Grown
<1>10. CASE \/ DeletedBefore(w) \/ NotifyContent(w) \/ DropIfDeleted(w) \/ TargetIndexed(w) \/ ReplaceVote(w)
            \/ NotifyVote(w) \/ Original(w) \/ Related(w) \/ NotifyFollow(w) \/ DenyInMemory(w) \/ OpenLedger(w)
            \/ RouteBroadcast(w) \/ TipGates(w) \/ Resolve(w) \/ GiveUp(w) \/ NotifyStored(w)
    BY <1>7, <1>10 DEF DeletedBefore, NotifyContent, DropIfDeleted, TargetIndexed, ReplaceVote, NotifyVote,
                             Original, Related, NotifyFollow, DenyInMemory, OpenLedger, RouteBroadcast, TipGates, Resolve,
                             GiveUp, NotifyStored, Reads
<1>11. CASE SignatureIsFresh(w) \/ Erase(w) \/ Tombstone(w) \/ AuditDelete(w) \/ Withdraw(w)
    BY <1>7, <1>11 DEF SignatureIsFresh, Erase, Tombstone, AuditDelete, Withdraw
<1>12. CASE SaveOptions(w) \/ AuditEdit(w) \/ EditContent(w) \/ PollVote(w) \/ RelationIsNewest(w)
    BY <1>7, <1>12 DEF SaveOptions, AuditEdit, EditContent, PollVote, RelationIsNewest
<1>13. CASE CommitProfile(w) \/ SaveFollow(w) \/ SaveBlock(w)
    BY <1>7, <1>13 DEF CommitProfile, SaveFollow, SaveBlock
<1>14. CASE DenyTarget(w) \/ PurgeTarget(w) \/ AllowTarget(w)
    BY <1>7, <1>14 DEF DenyTarget, PurgeTarget, AllowTarget
<1>15. CASE StoreBroadcast(w)
    <2>1. \E rows : db' = [db EXCEPT !.bcasts = rows]
        BY <1>15 DEF StoreBroadcast
    <2> QED  BY <1>7, <2>1
<1>16. CASE Save(w)
    <2>1. work[w].pc = "save" /\ tx.kind \in Content
        BY <1>3, <1>16 DEF Save, At, CInv, KInv, Staged, InStage
    <2>2. CASE ~NewContent(db, Tx(w))
        BY <1>7, <1>16, <2>2 DEF Save
    <2>3. CASE NewContent(db, Tx(w))
        <3>1. db' = SaveContent(db, tx)
            BY <1>16, <2>3 DEF Save
        <3>2. SaveContent(db, tx) \in {SavePost(db, tx), SaveReply(db, tx), SaveQuote(db, tx), SavePoll(db, tx)}
            BY <2>1 DEF SaveContent, Content
        <3>3. work[w].pc \notin Unclaimed /\ Kind(id) # "bcast"
            BY <1>3, <2>1 DEF Unclaimed, Content
        <3> QED  BY <1>9, <3>1, <3>2, <3>3
    <2> QED  BY <2>2, <2>3
<1>17. CASE SaveMentions(w)
    <2>1. work[w].pc = "mentions" /\ tx.kind = "poll" /\ db' = SavePollMentions(db, tx)
        BY <1>17 DEF SaveMentions, At, Handles
    <2>2. work[w].pc \notin Unclaimed /\ Kind(id) # "bcast"
        BY <1>3, <2>1 DEF Unclaimed
    <2> QED  BY <1>9, <2>1, <2>2
<1>18. CASE EditMentions(w)
    <2>1. Claims(tx.ref)
        BY <1>3, <1>18 DEF EditMentions, At, Handles, CInv, ClaimStage
    <2>2. PICK kind : db' = AddEditMentions(db, tx, kind)
        BY <1>18 DEF EditMentions
    <2> QED  BY <1>6, <1>8, <2>1, <2>2
<1>19. CASE CommitVote(w)
    <2>1. work[w].pc = "vote" /\ db' = CastVote(db, tx, work[w].memo)
        BY <1>19 DEF CommitVote, At
    <2>2. Claims(tx.ref)
        BY <2>1 DEF CInv, ClaimStage
    <2>3. Claims(id)
        <3>1. Kind(id) # "bcast"
            BY <2>1 DEF CInv, ClaimStage
        <3> QED  BY <1>2, <2>1, <3>1 DEF Unclaimed
    <2>4. tx.id = id
        BY <1>1, <2>1
    <2>5. Adds(db', {tx.id, tx.ref})
        BY <1>8, <2>1
    <2> QED  BY <1>5, <2>2, <2>3, <2>4, <2>5
<1>20. CASE StoreTip(w)
    <2>1. work[w].pc = "store" /\ tx.kind = "tip" /\ db' \in {db, SaveTip(db, tx)}
        BY <1>20 DEF StoreTip, At, Handles
    <2>2. work[w].pc \notin Unclaimed /\ Kind(id) # "bcast"
        BY <1>3, <2>1 DEF Unclaimed
    <2> QED  BY <1>7, <1>9, <2>1, <2>2
<1> QED  BY <1>10, <1>11, <1>12, <1>13, <1>14, <1>15, <1>16, <1>17, <1>18, <1>19, <1>20 DEF Handle, HandlePending

\* Where a handler may go, as far as claims are concerned.
Leads(w, next) ==
    /\ work[w].pc \in Unclaimed => next \in Unclaimed \/ Claims(work[w].id)'
    /\ next \in {"replace", "audit"} => ContentOf(db, Tx(w).ref) # {}
    /\ next = "vote" => At(w, "replace")
    /\ next = "apply" => At(w, "audit")
    /\ next = "mentions" /\ Kind(work[w].id) = "edit" => work[w].pc \in {"apply", "options"}
    /\ next = "options" => Kind(work[w].id) = "poll"
    /\ next = "replace" => Kind(work[w].id) = "vote"
    /\ next # "route"
    /\ next = "ask" => At(w, "route") \/ Kind(work[w].id) = "tip"
Moves(w, next) == Goto(w, next) \/ \E memo : Recall(w, next, memo)

LEMMA HandlersLead ==
    ASSUME CInv, NEW w \in Everyone, Handle(w) \/ HandlePending(w)
    PROVE  \E next : Moves(w, next) /\ Leads(w, next)
<1> DEFINE Plain == {"done", "fresh", "erase", "notify", "drop", "newest", "related", "relate", "operator", "purge", "deny",
                     "profile", "record", "original", "unknown", "store"}
<1>1. ASSUME NEW next \in Plain, Moves(w, next), work[w].pc \notin Unclaimed \/ next \in Unclaimed
      PROVE  \E n : Moves(w, n) /\ Leads(w, n)
    BY <1>1 DEF Leads
<1> HIDE DEF Plain
<1>2. CASE SignatureIsFresh(w)
    <2> DEFINE fits == SignatureHolds(Tx(w)) /\ ProfileAllowed(Tx(w))
               next == IF fits /\ Owns(db, Tx(w)) THEN Continue(Tx(w)) ELSE Return(Tx(w))
    <2>1. work[w].pc = "fresh" /\ Goto(w, next)
        BY <1>2 DEF SignatureIsFresh, At
    <2>2. fits /\ Owns(db, Tx(w)) => Claims(work[w].id)'
        BY <1>2, SignatureClaims DEF CInv
    <2>3. Return(Tx(w)) \in {"drop", "done"}
        BY DEF Return
    <2>4. Tx(w).kind \in Kinds \ {"unknown", "bcast"}
        BY <2>1, IdsFact DEF CInv, KInv, Known, Staged, InStage, Kind, Tx
    <2>5. Continue(Tx(w)) \in {"save", "drop", "withdraw", "target", "related", "newest", "original", "done", "bury",
                               "ballot", "ledger"}
        BY <2>4 DEF Kinds, Content, Continue
    <2>6. Leads(w, next)
        BY <2>1, <2>2, <2>3, <2>5 DEF Leads, Unclaimed
    <2> QED  BY <2>1, <2>6 DEF Moves
<1>3. CASE DeletedBefore(w) \/ DropIfDeleted(w) \/ Erase(w)
    BY <1>1, <1>3 DEF DeletedBefore, DropIfDeleted, Erase, Moves, Plain, Unclaimed
<1>4. CASE Save(w)
    <2> DEFINE new == NewContent(db, Tx(w))
               next == IF Handles(w, {"poll"}) THEN IF new THEN "options" ELSE "drop" ELSE "notify"
    <2>1. work[w].pc = "save" /\ Moves(w, next)
        BY <1>4 DEF Save, At, Moves
    <2>2. next = "options" => Kind(work[w].id) = "poll"
        BY DEF Handles, Kind, Tx
    <2>3. Leads(w, next)
        BY <2>1, <2>2 DEF Leads, Unclaimed
    <2> QED  BY <2>1, <2>3
<1>5. CASE SaveOptions(w)
    <2>1. work[w].pc = "options" /\ Moves(w, "mentions")
        BY <1>5 DEF SaveOptions, At, Moves
    <2>2. Leads(w, "mentions")
        BY <2>1 DEF Leads, Unclaimed
    <2> QED  BY <2>1, <2>2
<1>6. CASE SaveMentions(w) \/ NotifyContent(w) \/ Withdraw(w) \/ PollVote(w)
    BY <1>1, <1>6 DEF SaveMentions, NotifyContent, Withdraw, PollVote, Moves, Plain, Unclaimed, At
<1>7. CASE TargetIndexed(w)
    <2> DEFINE next == IF ContentOf(db, Tx(w).ref) # {} THEN "replace" ELSE "done"
    <2>1. work[w].pc = "target" /\ Moves(w, next) /\ Kind(work[w].id) = "vote"
        BY <1>7 DEF TargetIndexed, At, Moves, Handles, Kind, Tx
    <2>2. Leads(w, next)
        BY <2>1 DEF Leads, Unclaimed
    <2> QED  BY <2>1, <2>2
<1>8. CASE ReplaceVote(w)
    <2>1. work[w].pc = "replace" /\ Moves(w, "vote")
        BY <1>8 DEF ReplaceVote, At, Moves
    <2>2. Leads(w, "vote")
        BY <2>1 DEF Leads, Unclaimed, At
    <2> QED  BY <2>1, <2>2
<1>9. CASE CommitVote(w)
    <2> DEFINE next == IF VoteFits(db, Tx(w), work[w].memo) /\ ~(\E v \in work[w].memo : v.vote = Tx(w).as) THEN "notify"
                       ELSE "done"
    <2>1. work[w].pc = "vote" /\ Goto(w, next) /\ next \in Plain
        BY <1>9 DEF CommitVote, At, Plain
    <2> QED  BY <1>1, <2>1 DEF Moves, Unclaimed
<1>10. CASE NotifyVote(w) \/ EditMentions(w) \/ Tombstone(w) \/ AuditDelete(w)
    BY <1>1, <1>10 DEF NotifyVote, EditMentions, Tombstone, AuditDelete, Moves, Plain, Unclaimed, At
<1>11. CASE Original(w)
    <2> DEFINE found == {c \in ContentOf(db, Tx(w).ref) : c.by = Tx(w).by}
               next == IF Tx(w).kind = "edit" THEN IF Editable(db, Tx(w)) THEN "audit" ELSE "done"
                       ELSE IF found # {} THEN "record" ELSE "done"
    <2>1. work[w].pc = "original" /\ Moves(w, next)
        BY <1>11 DEF Original, At, Moves
    <2>2. Leads(w, next)
        BY <2>1 DEF Leads, Unclaimed, Editable
    <2> QED  BY <2>1, <2>2
<1>12. CASE AuditEdit(w)
    <2>1. work[w].pc = "audit" /\ Moves(w, "apply")
        BY <1>12 DEF AuditEdit, At, Moves
    <2>2. Leads(w, "apply")
        BY <2>1 DEF Leads, Unclaimed, At
    <2> QED  BY <2>1, <2>2
<1>13. CASE EditContent(w)
    <2> DEFINE next == IF EditApplies(db, Tx(w)) THEN "mentions" ELSE "done"
    <2>1. work[w].pc = "apply" /\ Moves(w, next)
        BY <1>13 DEF EditContent, At, Moves
    <2>2. Leads(w, next)
        BY <2>1 DEF Leads, Unclaimed
    <2> QED  BY <2>1, <2>2
<1>14. CASE Related(w) \/ RelationIsNewest(w) \/ SaveFollow(w) \/ NotifyFollow(w) \/ SaveBlock(w)
    BY <1>1, <1>14 DEF Related, RelationIsNewest, SaveFollow, NotifyFollow, SaveBlock, Moves, Plain, Unclaimed, At
<1>15. CASE DenyTarget(w) \/ PurgeTarget(w) \/ DenyInMemory(w) \/ AllowTarget(w) \/ OpenLedger(w) \/ CommitProfile(w)
    BY <1>1, <1>15 DEF DenyTarget, PurgeTarget, DenyInMemory, AllowTarget, OpenLedger, CommitProfile, Moves, Plain,
                       Unclaimed, At
<1>16. CASE RouteBroadcast(w)
    <2> DEFINE next == IF Tx(w).text # "bad" /\ (Live(w) => Held(Tx(w).id)) THEN "ask" ELSE "done"
    <2>1. work[w].pc = "route" /\ Moves(w, next)
        BY <1>16 DEF RouteBroadcast, At, Moves
    <2>2. Leads(w, next)
        BY <2>1 DEF Leads, Unclaimed, At
    <2> QED  BY <2>1, <2>2
<1>17. CASE TipGates(w)
    <2> DEFINE next == IF TipTarget(db, Tx(w)) /\ (Live(w) => Held(Tx(w).id)) /\ plan.node THEN "ask" ELSE "done"
    <2>1. work[w].pc = "target" /\ Moves(w, next) /\ Kind(work[w].id) = "tip"
        BY <1>17 DEF TipGates, At, Moves, Handles, Kind, Tx
    <2>2. Leads(w, next)
        BY <2>1 DEF Leads, Unclaimed
    <2> QED  BY <2>1, <2>2
<1>18. CASE Resolve(w) \/ GiveUp(w) \/ StoreBroadcast(w) \/ StoreTip(w) \/ NotifyStored(w)
    BY <1>1, <1>18 DEF Resolve, Judged, GiveUp, StoreBroadcast, StoreTip, NotifyStored, Moves, Plain, Unclaimed, At
<1> QED  BY <1>2, <1>3, <1>4, <1>5, <1>6, <1>7, <1>8, <1>9, <1>10, <1>11, <1>12, <1>13, <1>14, <1>15, <1>16, <1>17, <1>18
         DEF Handle, HandlePending

\* A step of a handler keeps the claims.
LEMMA HandlersClaim ==
    ASSUME CInv, NEW w \in Everyone, Handling(w) \/ HandlingPending(w)
    PROVE  CInv'
<1>0. PICK id, ref : id = work[w].id /\ ref = Tx(w).ref
    OBVIOUS
<1>1. /\ KInv /\ KInv' /\ (Handle(w) \/ HandlePending(w)) /\ UNCHANGED torn
    BY HandlersKeep DEF CInv, Handling, HandlingPending, pipeVars
<1>2. /\ plan' = plan /\ Everyone' = Everyone /\ (\A i : Kind(i)' = Kind(i))
      /\ \A i : Claims(i) => Claims(i)'
    <2>1. PICK next : Steps(w, next)
        BY <1>1, HandlersStep
    <2>2. \A i : Claims(i) => Claims(i)'
        BY <1>1, <2>1, ClaimsStay
    <2>3. plan' = plan
        BY <2>1 DEF Steps
    <2> QED  BY <2>2, <2>3 DEF Everyone, Kind
<1>3. PICK next : Moves(w, next) /\ Leads(w, next)
    BY <1>1, HandlersLead
<1>4. Moved(w, next)
    <2>1. work[w].pc # "idle"
        BY <1>1 DEF Handle, HandlePending, At, DeletedBefore, SignatureIsFresh, Save, SaveOptions, SaveMentions,
                    NotifyContent, DropIfDeleted, Erase, Withdraw, TargetIndexed, ReplaceVote, CommitVote, NotifyVote,
                    PollVote, Original, AuditEdit, EditContent, EditMentions, Tombstone, AuditDelete, Related,
                    RelationIsNewest, SaveFollow, NotifyFollow, SaveBlock, DenyTarget, PurgeTarget, DenyInMemory,
                    AllowTarget, OpenLedger, CommitProfile, RouteBroadcast, TipGates, Resolve, GiveUp, StoreBroadcast,
                    StoreTip, NotifyStored
    <2> QED  BY <1>1, <1>3, <2>1, GotoMoves DEF Moves, KInv, Shaped
<1>5. TableLike(db') /\ \A n \in Names(db') : Claims(n)'
    BY <1>1, <1>2, NamesGrow DEF CInv
<1>6. \A r \in pending' : Kind(r.id) \in {"bcast", "tip"}
    <2>1. CASE pending' = pending
        BY <2>1 DEF CInv
    <2>2. CASE GiveUp(w) /\ pending' # pending
        <3>1. work[w].pc = "ask" /\ pending' = Enqueued(Tx(w).id)
            BY <2>2 DEF GiveUp, At
        <3>2. Tx(w).id = id
            BY <1>0, <3>1, IdsFact DEF CInv, KInv, Known, Staged, InStage, Tx
        <3>3. Kind(id) \in {"bcast", "tip"}
            BY <1>0, <3>1 DEF CInv, ClaimStage
        <3> QED  BY <3>1, <3>2, <3>3 DEF CInv, Enqueued
    <2>3. GiveUp(w) \/ pending' = pending
        BY DEF Handling, HandlingPending, HandlePending, pendingVars, Unparked, RouteBroadcast, TipGates, Resolve,
               StoreBroadcast, StoreTip, NotifyStored
    <2> QED  BY <2>1, <2>2, <2>3
<1>7. ClaimStage(w)'
    <2>1. work'[w].id = id /\ work'[w].pc = next /\ Tx(w)' = Tx(w) /\ Kind(id)' = Kind(id)
        BY <1>0, <1>2, <1>4 DEF Moved, Tx
    <2>2. ClaimStage(w)
        BY DEF CInv
    <2>3. next \notin Unclaimed /\ Kind(id) # "bcast" => Claims(id)'
        BY <1>0, <1>2, <1>3, <2>1, <2>2 DEF Leads, ClaimStage
    <2>4. next \in {"replace", "vote", "audit", "apply"} => Claims(ref)'
        <3>1. next \in {"replace", "audit"} => ref \in Names(db)
            BY <1>0, <1>3 DEF Leads, ContentOf, Names
        <3>2. next \in {"vote", "apply"} => Claims(ref)
            BY <1>0, <1>3, <2>2 DEF Leads, ClaimStage, At
        <3> QED  BY <1>2, <3>1, <3>2 DEF CInv
    <2>5. next = "mentions" /\ Kind(id) = "edit" => Claims(ref)'
        BY <1>0, <1>2, <1>3, <2>2 DEF Leads, ClaimStage
    <2>6. /\ next = "options" => Kind(id) = "poll"
          /\ next \in {"replace", "vote"} => Kind(id) = "vote"
          /\ next # "route"
          /\ next = "ask" => Kind(id) \in {"bcast", "tip"}
        BY <1>0, <1>3, <2>2 DEF Leads, ClaimStage, At
    <2>7. Tx(w)'.ref = ref
        BY <1>0, <2>1
    <2> QED  BY <2>1, <2>3, <2>4, <2>5, <2>6, <2>7 DEF ClaimStage, Unclaimed
<1>8. ASSUME NEW v \in Everyone, v # w
      PROVE  ClaimStage(v)'
    <2>1. work'[v].id = work[v].id /\ work'[v].pc = work[v].pc /\ Tx(v)' = Tx(v)
        BY <1>2, <1>4, <1>8 DEF Moved, Tx
    <2>2. ClaimStage(v)
        BY DEF CInv
    <2> QED  BY <1>2, <2>1, <2>2 DEF ClaimStage, Unclaimed
<1> QED  BY <1>1, <1>2, <1>5, <1>6, <1>7, <1>8 DEF CInv

\* A place that claims nothing.
SitsOut(v) == work[v].pc \in Unclaimed \/ (work[v].pc = "route" /\ Kind(work[v].id) = "bcast")

LEMMA AroundClaims ==
    ASSUME CInv, KInv', UNCHANGED <<plan, db>>,
           \A v \in Everyone : work'[v] = work[v] \/ SitsOut(v)',
           \A r \in pending' : Kind(r.id) \in {"bcast", "tip"}
    PROVE  CInv'
<1>1. Everyone' = Everyone /\ (\A i : Kind(i)' = Kind(i)) /\ (\A i : Claims(i)' <=> Claims(i))
    BY DEF Everyone, Kind, Claims
<1>2. ASSUME NEW v \in Everyone
      PROVE  ClaimStage(v)'
    <2>1. CASE SitsOut(v)'
        BY <2>1 DEF SitsOut, ClaimStage, Unclaimed
    <2>2. CASE work'[v] = work[v]
        <3>1. Tx(v)' = Tx(v)
            BY <2>2 DEF Tx
        <3>2. ClaimStage(v)
            BY DEF CInv
        <3> QED  BY <1>1, <2>2, <3>1, <3>2 DEF ClaimStage, Unclaimed
    <2> QED  BY <2>1, <2>2
<1>3. TableLike(db') /\ \A n \in Names(db') : Claims(n)'
    BY <1>1 DEF CInv
<1> QED  BY <1>1, <1>2, <1>3 DEF CInv

LEMMA PlaceClaims ==
    ASSUME CInv, KInv', UNCHANGED <<plan, db>>, NEW w \in Everyone, NEW id, NEW pc, NEW quiet, NEW memo,
           work' = [work EXCEPT ![w] = [id |-> id, pc |-> pc, quiet |-> quiet, memo |-> memo]],
           pc \in Unclaimed \/ (pc = "route" /\ Kind(id) = "bcast"),
           \A r \in pending' : Kind(r.id) \in {"bcast", "tip"}
    PROVE  CInv'
<1> DEFINE r == [id |-> id, pc |-> pc, quiet |-> quiet, memo |-> memo]
<1>1. work'[w] = r /\ \A v \in Everyone \ {w} : work'[v] = work[v]
    BY PutMoves DEF CInv, KInv, Shaped
<1>2. work'[w].id = id /\ work'[w].pc = pc
    BY <1>1
<1>3. SitsOut(w)'
    BY <1>2 DEF SitsOut, Kind, Unclaimed
<1> HIDE DEF r
<1> QED  BY <1>1, <1>3, AroundClaims

\* The queue's steps put a worker where nothing is claimed.
LEMMA WorkersClaim ==
    ASSUME CInv, KInv', NEW w \in Workers,
           WorkerSteps(w) \/ FetchFails(w) \/ RefetchFails(w) \/ MarkFails(w)
    PROVE  CInv'
<1>1. UNCHANGED <<plan, db, pending>> /\ w \in Everyone
    BY DEF WorkerSteps, Fetch, Refetch, Consume, FetchFails, RefetchFails, MarkFails, pendingVars, Everyone
<1>2. \A r \in pending' : Kind(r.id) \in {"bcast", "tip"}
    BY <1>1 DEF CInv
<1>3. ASSUME NEW id, NEW quiet, Fetched(id), Take(w, id, quiet)
      PROVE  CInv'
    <2> DEFINE pc == Entry(plan.txs[id])
    <2>1. work' = [work EXCEPT ![w] = [id |-> id, pc |-> pc, quiet |-> quiet, memo |-> {}]]
        BY <1>3 DEF Take
    <2>2. pc \in Unclaimed \/ (pc = "route" /\ Kind(id) = "bcast")
        BY DEF Entry, Unclaimed, Kind
    <2> HIDE DEF pc
    <2> QED  BY <1>1, <1>2, <2>1, <2>2, PlaceClaims
<1>4. ASSUME work' = [work EXCEPT ![w] = Idle]
      PROVE  CInv'
    <2>1. work' = [work EXCEPT ![w] = [id |-> 0, pc |-> "idle", quiet |-> FALSE, memo |-> {}]]
        BY <1>4 DEF Idle
    <2> QED  BY <1>1, <1>2, <2>1, PlaceClaims DEF Unclaimed
<1>5. ASSUME work' = work
      PROVE  CInv'
    BY <1>1, <1>2, <1>5, AroundClaims
<1>6. CASE Fetch(w)
    BY <1>3, <1>5, <1>6 DEF Fetch
<1>7. CASE Refetch(w)
    BY <1>3, <1>4, <1>7 DEF Refetch
<1>8. CASE Consume(w) \/ RefetchFails(w) \/ MarkFails(w)
    BY <1>4, <1>8 DEF Consume, RefetchFails, MarkFails
<1>9. CASE FetchFails(w)
    <2>1. work' = [work EXCEPT ![w] = [id |-> Head(inbox[w]), pc |-> "refetch", quiet |-> FALSE, memo |-> {}]]
        BY <1>9 DEF FetchFails
    <2> QED  BY <1>1, <1>2, <2>1, PlaceClaims DEF Unclaimed
<1> QED  BY <1>6, <1>7, <1>8, <1>9 DEF WorkerSteps

LEMMA FaultsClaim ==
    ASSUME CInv, KInv', Crash \/ \E w \in Everyone : StatementFails(w)
    PROVE  CInv'
<1>1. CASE Crash
    <2>1. UNCHANGED <<plan, db, pending>> /\ work' = [w \in Everyone |-> Idle]
        BY <1>1 DEF Crash, pendingVars
    <2>2. \A v \in Everyone : SitsOut(v)'
        BY <2>1 DEF SitsOut, Unclaimed, Idle
    <2> QED  BY <2>1, <2>2, AroundClaims DEF CInv
<1>2. ASSUME NEW w \in Everyone, StatementFails(w)
      PROVE  CInv'
    <2> DEFINE old == work[w]
               r == [old EXCEPT !.pc = "unknown"]
    <2>1. UNCHANGED <<plan, db, pending>>
        BY <1>2 DEF StatementFails, pendingVars
    <2>2. r = [id |-> old.id, pc |-> "unknown", quiet |-> old.quiet, memo |-> old.memo]
        BY PlacesAre DEF CInv, KInv, Shaped
    <2>3. \/ work' = [work EXCEPT ![w] = r]
          \/ work' = [work EXCEPT ![w] = [id |-> 0, pc |-> "idle", quiet |-> FALSE, memo |-> {}]]
        BY <1>2, PlacesAre DEF StatementFails, Idle, CInv, KInv, Shaped
    <2>4. \A q \in pending' : Kind(q.id) \in {"bcast", "tip"}
        BY <2>1 DEF CInv
    <2> HIDE DEF r
    <2> QED  BY <2>1, <2>2, <2>3, <2>4, PlaceClaims DEF Unclaimed
<1> QED  BY <1>1, <1>2

LEMMA RetryClaims ==
    ASSUME CInv, KInv', Retrying
    PROVE  CInv'
<1>1. UNCHANGED <<plan, db>> /\ Retrier \in Everyone
    BY DEF Retrying, Retry, TakePending, PendingDone, PendingUnknown, Reads, Everyone
<1>2. ASSUME work' = [work EXCEPT ![Retrier] = Idle], \A r \in pending' : Kind(r.id) \in {"bcast", "tip"}
      PROVE  CInv'
    <2>1. work' = [work EXCEPT ![Retrier] = [id |-> 0, pc |-> "idle", quiet |-> FALSE, memo |-> {}]]
        BY <1>2 DEF Idle
    <2>2. PICK w \in Everyone : w = Retrier
        BY <1>1
    <2>3. work' = [work EXCEPT ![w] = [id |-> 0, pc |-> "idle", quiet |-> FALSE, memo |-> {}]]
        BY <2>1, <2>2
    <2>4. \A r \in pending' : Kind(r.id) \in {"bcast", "tip"}
        BY <1>2
    <2> QED  BY <1>1, <2>3, <2>4, PlaceClaims DEF Unclaimed
<1>3. CASE TakePending
    <2>1. PICK r \in pending :
            work' = [work EXCEPT ![Retrier] =
              [id |-> r.id, quiet |-> FALSE, memo |-> {},
               pc |-> IF plan.txs[r.id].kind = "tip" THEN "fresh" ELSE IF plan.broadcasts THEN "route" ELSE "done"]]
        BY <1>3 DEF TakePending
    <2> DEFINE pc == IF plan.txs[r.id].kind = "tip" THEN "fresh" ELSE IF plan.broadcasts THEN "route" ELSE "done"
    <2>2. pc \in Unclaimed \/ (pc = "route" /\ Kind(r.id) = "bcast")
        BY DEF CInv, Kind, Unclaimed
    <2>3. work' = [work EXCEPT ![Retrier] = [id |-> r.id, pc |-> pc, quiet |-> FALSE, memo |-> {}]]
        BY <2>1
    <2>4. \A q \in pending' : Kind(q.id) \in {"bcast", "tip"}
        BY <1>3 DEF TakePending, Unparked, pendingVars, CInv
    <2> HIDE DEF pc
    <2> QED  BY <1>1, <2>2, <2>3, <2>4, PlaceClaims
<1>4. CASE PendingDone
    BY <1>2, <1>4 DEF PendingDone, CInv
<1>5. CASE PendingUnknown
    <2>1. \A r \in pending' : \E q \in pending : r.id = q.id
        BY <1>5 DEF PendingUnknown, CInv, KInv, Known
    <2> QED  BY <1>2, <1>5, <2>1 DEF PendingUnknown, CInv
<1> QED  BY <1>3, <1>4, <1>5 DEF Retrying, Retry

LEMMA QueueClaims ==
    ASSUME CInv, KInv',
           \/ Ingest \/ (\E id \in raw : PruneRaw(id)) \/ Listen \/ ListenerFails
           \/ Refresh \/ NodeSteps \/ Start \/ CatchUp \/ Requeue \/ RequeueFails \/ SweepPending
           \/ (\E force \in BOOLEAN : RequestReindex(force))
           \/ BeginWalk \/ WalkChecks \/ WalkStores \/ WalkFails \/ PruneRecovered
    PROVE  CInv'
<1>1. ASSUME UNCHANGED <<plan, db, work>>, \A r \in pending' : Kind(r.id) \in {"bcast", "tip"}
      PROVE  CInv'
    BY <1>1, AroundClaims
<1>2. CASE SweepPending
    <2>1. \A r \in Swept : Kind(r.id) \in {"bcast", "tip"}
        <3>1. \A id \in raw : Unstored(id) => Kind(id) \in {"bcast", "tip"}
            BY DEF Unstored, Kind
        <3> QED  BY <3>1 DEF Swept, CInv
    <2>2. UNCHANGED <<plan, db, work>> /\ pending' \subseteq Swept \cup pending
        BY <1>2 DEF SweepPending, storeVars
    <2> QED  BY <1>1, <2>1, <2>2 DEF CInv
<1>3. CASE ~SweepPending
    <2>1. UNCHANGED <<plan, db, work, pending>>
        BY <1>3 DEF Ingest, PruneRaw, Listen, ListenerFails, Refresh, RefreshDenylist, NodeSteps, Start, CatchUp, Requeue,
                    RequeueFails, RequestReindex, BeginWalk, WalkChecks, WalkStores, WalkFails, PruneRecovered, storeVars,
                    pendingVars
    <2> QED  BY <1>1, <2>1 DEF CInv
<1> QED  BY <1>2, <1>3

LEMMA InitClaims ==
    ASSUME Init
    PROVE  CInv
<1>1. TableLike(db) /\ Names(db) = {}
    <2>1. db.contents = {} /\ db.votes = {} /\ db.mentions = {} /\ {"contents", "votes", "mentions"} \subseteq DOMAIN db
        BY DEF Init, EmptyTables
    <2>2. db = [f \in DOMAIN db |-> db[f]]
        BY DEF Init, EmptyTables
    <2> QED  BY <2>1, <2>2 DEF TableLike, Names
<1>2. \A w \in Everyone : ClaimStage(w)
    BY DEF Init, ClaimStage, Unclaimed, Idle
<1> QED  BY <1>1, <1>2, InitHolds DEF CInv, Init

LEMMA NextClaims ==
    ASSUME CInv, [Next]_vars
    PROVE  CInv'
<1>1. KInv'
    BY NextKeeps DEF CInv
<1>2. CASE \E w \in Workers : WorkerSteps(w) \/ FetchFails(w) \/ RefetchFails(w) \/ MarkFails(w)
    BY <1>1, <1>2, WorkersClaim
<1>3. CASE \E w \in Everyone : Handling(w) \/ HandlingPending(w) \/ StatementFails(w)
    BY <1>1, <1>3, HandlersClaim, FaultsClaim
<1>4. CASE UNCHANGED vars
    BY <1>1, <1>4, AroundClaims DEF vars, storeVars, pendingVars, CInv
<1> QED  BY <1>1, <1>2, <1>3, <1>4, QueueClaims, RetryClaims, FaultsClaim DEF Next

\* The handler of a copy: it is turned away at the signature, and all it may have
\* left to do is to look for its own rows, of which there are none.
LEMMA CopiesChangeNothing ==
    ASSUME CInv, NEW w \in Everyone, Handle(w) \/ HandlePending(w), Tx(w).kind # "bcast", Copied(Tx(w))
    PROVE  db' = db
<1> DEFINE id == work[w].id
           tx == Tx(w)
<1>1. PICK u \in db.used : u.sig = tx.sig /\ u.id # tx.id
    BY DEF Copied
<1>2. ~Claims(id)
    BY <1>1, IdsFact DEF Claims, CInv, KInv, Known, UsedSound, Tx
<1>3. work[w].pc \in Unclaimed
    BY <1>2 DEF CInv, ClaimStage, Kind, Tx
<1>4. CASE SignatureIsFresh(w)
    BY <1>1, <1>4 DEF SignatureIsFresh, Claimed
<1>5. CASE Erase(w)
    <2>1. work[w].pc = "erase"
        BY <1>5 DEF Erase, At
    <2>2. id \in Ids /\ tx.id = id
        BY <2>1, IdsFact DEF CInv, KInv, Known, Staged, InStage, Tx
    <2>3. tx.kind # "delete"
        BY <1>2, <2>1 DEF CInv, KInv, Staged, DeleteStage, Burying, Kind, Tx
    <2>4. db' = HardDelete(db, id, tx.by)
        BY <1>5, <2>2, <2>3 DEF Erase, Handles
    <2>5. /\ \A c \in db.contents : c.id # id
          /\ \A v \in db.votes : v.post # id
          /\ \A m \in db.mentions : m.content # id
        BY <1>2 DEF CInv, Names
    <2>6. /\ {c \in db.contents : ~(c.id = id /\ c.by = tx.by)} = db.contents
          /\ {v \in db.votes : v.post # id} = db.votes
          /\ {m \in db.mentions : m.content # id} = db.mentions
        BY <2>5
    <2>7. HardDelete(db, id, tx.by) = db
        BY <2>6 DEF HardDelete, CInv, TableLike
    <2> QED  BY <2>4, <2>7
<1>6. CASE DeletedBefore(w) \/ DropIfDeleted(w)
    BY <1>6 DEF DeletedBefore, DropIfDeleted, Reads
<1>7. CASE ~(SignatureIsFresh(w) \/ Erase(w) \/ DeletedBefore(w) \/ DropIfDeleted(w))
    BY <1>3, <1>7 DEF Unclaimed, Handle, HandlePending, At, Save, SaveOptions, SaveMentions,
                    NotifyContent, Withdraw, TargetIndexed, ReplaceVote, CommitVote, NotifyVote,
                    PollVote, Original, AuditEdit, EditContent, EditMentions, Tombstone, AuditDelete, Related,
                    RelationIsNewest, SaveFollow, NotifyFollow, SaveBlock, DenyTarget, PurgeTarget, DenyInMemory,
                    AllowTarget, OpenLedger, CommitProfile, RouteBroadcast, TipGates, Resolve, GiveUp, StoreBroadcast,
                    StoreTip, NotifyStored
<1> QED  BY <1>4, <1>5, <1>6, <1>7

\* Only a handler changes the tables, and it moves no other worker.
LEMMA CopiedSteps ==
    ASSUME CInv, [Next]_vars, NEW v \in Everyone, Acts(v), Tx(v).kind # "bcast", Copied(Tx(v))
    PROVE  db' = db
<1>1. ASSUME NEW w \in Everyone, Handle(w) \/ HandlePending(w)
      PROVE  db' = db
    <2>1. PICK next : Moves(w, next)
        BY <1>1, HandlersLead
    <2>2. CASE v = w
        BY <1>1, <2>2, CopiesChangeNothing
    <2>3. CASE v # w
        <3>1. work'[v] = work[v]
            BY <2>1, <2>3, PlacesAre DEF Moves, Goto, Recall, CInv, KInv, Shaped
        <3> QED  BY <3>1 DEF Acts
    <2> QED  BY <2>2, <2>3
<1>2. CASE \E w \in Everyone : Handling(w) \/ HandlingPending(w)
    BY <1>1, <1>2 DEF Handling, HandlingPending
<1>3. CASE ~\E w \in Everyone : Handling(w) \/ HandlingPending(w)
    BY <1>3 DEF Next, vars, storeVars, WorkerSteps, Fetch, Refetch, Consume, FetchFails, RefetchFails, MarkFails,
                StatementFails, Crash, Retrying, Retry, TakePending, PendingDone, PendingUnknown, Reads,
                Ingest, PruneRaw, Listen, ListenerFails, Refresh, RefreshDenylist, NodeSteps, Start, CatchUp, Requeue,
                RequeueFails, SweepPending, RequestReindex, BeginWalk, WalkChecks, WalkStores, WalkFails, PruneRecovered
<1> QED  BY <1>2, <1>3

\* A copy of a signed action changes nothing (ReplayChangesNothing), even while
\* another worker is still at the original: whatever a copy's handler does after
\* the signature has an owner leaves the tables as they are.
THEOREM ReplayTheorem == Spec => ReplayChangesNothing
<1>1. Init => CInv
    BY InitClaims
<1>2. CInv /\ [Next]_vars => CInv'
    BY NextClaims
<1>3. CInv /\ [Next]_vars =>
        [\A w \in Everyone : Acts(w) /\ up' /\ Tx(w).kind # "bcast" /\ Copied(Tx(w)) => db' = db]_vars
    BY CopiedSteps
<1> QED  BY <1>1, <1>2, <1>3, PTL DEF Spec, ReplayChangesNothing
-----------------------------------------------------------------------------
(* Rows that belong together.                                              *)

\* A vote's row and its notification are what its transaction says.
VoteRow(i) ==
    LET tx == plan.txs[i]
    IN [id |-> tx.id, by |-> tx.by, sig |-> tx.sig, time |-> tx.time, post |-> tx.ref, vote |-> tx.as]
VoteMention(i) == Mention(i, "vote", plan.txs[i].who[1], plan.txs[i].by)
IsVote(i) == i \in Ids /\ Kind(i) = "vote"

\* A post whose author has deleted it.
Gone(r) == \E d \in Ids : Done(d) /\ plan.txs[d].ref = r /\ plan.txs[d].by = plan.txs[r].by

VotesPaired ==
    \A v \in db.votes : IsVote(v.id) /\ v = VoteRow(v.id) /\ VoteMention(v.id) \in db.mentions
Paired(m) ==
    LET i == m.content
    IN IsVote(i) /\ m = VoteMention(i) /\ (VoteRow(i) \in db.votes \/ Gone(plan.txs[i].ref))
MentionsPaired == \A m \in db.mentions : m.kind = "vote" => Paired(m)
Whole(id) == (\E p \in db.polls : p.id = id) \/ InHand(id, {"options"}) \/ id \in torn
PollsWhole ==
    \A c \in db.contents : "kind" \in DOMAIN c /\ c.kind = Kind(c.id) /\ (c.kind = "poll" => Whole(c.id))

\* What a worker goes by when it writes to several tables.
ByOwner(tx) == Kind(tx.ref) \in Content /\ plan.txs[tx.ref].by = tx.by
PairStage(w) ==
    LET id == work[w].id
    IN /\ work[w].pc = "vote" => \A v \in work[w].memo : IsVote(v.id) /\ v = VoteRow(v.id)
       /\ work[w].pc \in {"audit", "apply"} => Kind(id) = "edit" /\ work[w].memo \subseteq Content
       /\ work[w].pc = "mentions" /\ Kind(id) = "edit" => work[w].memo \subseteq Content
       /\ work[w].pc = "drop" => Kind(id) \in Content
       /\ work[w].pc = "original" => Kind(id) \in {"edit", "delete"}
       /\ work[w].pc = "record" => Kind(id) = "delete" /\ ByOwner(Tx(w))
       /\ work[w].pc = "erase" =>
            (Kind(id) \in Content /\ DeletedByAuthor(db, Tx(w))) \/ (Kind(id) = "delete" /\ ByOwner(Tx(w)))

MInv ==
    /\ CInv /\ "polls" \in DOMAIN db
    /\ VotesPaired /\ MentionsPaired /\ PollsWhole
    /\ \A w \in Everyone : PairStage(w)

\* What a statement does to the tables of votes, notifications and polls: a vote
\* may lose its row without its notification where its post goes (lost).
VoteRows(d) == {m \in d.mentions : m.kind = "vote"}
Like(d, gained) ==
    \A c \in d.contents :
        /\ "kind" \in DOMAIN c
        /\ c \in gained \/ \E b \in db.contents : b.id = c.id /\ b.kind = c.kind
Aside(d) ==
    /\ "polls" \in DOMAIN d /\ db.polls \subseteq d.polls
    /\ d.votes = db.votes /\ VoteRows(d) = VoteRows(db) /\ Like(d, {})
Sound(d, lost) ==
    /\ "polls" \in DOMAIN d /\ db.polls \subseteq d.polls
    /\ \A v \in d.votes : IsVote(v.id) /\ v = VoteRow(v.id) /\ VoteMention(v.id) \in d.mentions
    /\ \A m \in d.mentions :
         m.kind = "vote" =>
           /\ IsVote(m.content) /\ m = VoteMention(m.content)
           /\ \/ VoteRow(m.content) \in d.votes
              \/ Gone(plan.txs[m.content].ref) \/ plan.txs[m.content].ref \in lost

LEMMA StatementsAside ==
    ASSUME TableLike(db), "polls" \in DOMAIN db, RowsSound, \A c \in db.contents : "kind" \in DOMAIN c, NEW tx
    PROVE  /\ Aside(db) /\ Aside(SavePollOptions(db, tx)) /\ Aside(RecordEdit(db, tx))
           /\ Aside(RecordDelete(db, tx)) /\ Aside(SaveBallot(db, tx)) /\ Aside(RecordRelation(db, tx))
           /\ Aside(Follow(db, tx)) /\ Aside(Unfollow(db, tx)) /\ Aside(Block(db, tx)) /\ Aside(Unblock(db, tx))
           /\ \A who : Aside(Deny(db, who)) /\ Aside(Allow(db, who))
           /\ \A seen : Aside(SaveProfile(db, tx, seen))
           /\ \A rows : Aside([db EXCEPT !.bcasts = rows])
           /\ Aside(Unquote(db, tx)) /\ Aside(ApplyEdit(db, tx))
           /\ Aside(Claimed(db, tx)) /\ Aside(Bury(db, tx))
           /\ Aside(SavePollMentions(db, tx)) /\ Aside(SaveTip(db, tx))
           /\ \A kind \in Content : Aside(AddEditMentions(db, tx, kind))
<1>1. /\ {"contents", "votes", "mentions", "polls"} \subseteq DOMAIN db
      /\ \A c \in db.contents : "kind" \in DOMAIN c
    BY DEF TableLike
<1>2. \A content, kind, who, by : Mention(content, kind, who, by).kind = kind
    BY DEF Mention
<1>3. ASSUME NEW d, DOMAIN d = DOMAIN db, db.polls \subseteq d.polls, d.votes = db.votes,
             d.contents \subseteq db.contents,
             \A m : m.kind = "vote" => (m \in d.mentions <=> m \in db.mentions)
      PROVE  Aside(d)
    BY <1>1, <1>3 DEF Aside, VoteRows, Like
<1>4. ASSUME NEW d, DOMAIN d = DOMAIN db, db.polls \subseteq d.polls, d.votes = db.votes,
             d.contents = db.contents, d.mentions = db.mentions
      PROVE  Aside(d)
    BY <1>3, <1>4
<1>5. Aside(db) /\ Aside(SavePollOptions(db, tx))
    BY <1>1, <1>4 DEF SavePollOptions
<1>6. Aside(RecordEdit(db, tx)) /\ Aside(RecordDelete(db, tx)) /\ Aside(SaveBallot(db, tx))
    <2>1. Aside(RecordEdit(db, tx))
        BY <1>1, <1>4, <1>5 DEF RecordEdit
    <2>2. Aside(RecordDelete(db, tx))
        BY <1>1, <1>4, <1>5 DEF RecordDelete
    <2>3. Aside(SaveBallot(db, tx))
        BY <1>1, <1>4, <1>5 DEF SaveBallot
    <2> QED  BY <2>1, <2>2, <2>3
<1>7. /\ Aside(RecordRelation(db, tx))
      /\ Aside(Follow(db, tx)) /\ Aside(Unfollow(db, tx)) /\ Aside(Block(db, tx)) /\ Aside(Unblock(db, tx))
    <2>1. Aside(RecordRelation(db, tx))
        BY <1>1, <1>4, <1>5 DEF RecordRelation
    <2>2. Aside(Follow(db, tx)) /\ Aside(Unfollow(db, tx))
        BY <1>1, <1>4, <1>5 DEF Follow, Unfollow
    <2>3. Aside(Block(db, tx)) /\ Aside(Unblock(db, tx))
        BY <1>1, <1>4, <1>5 DEF Block, Unblock
    <2> QED  BY <2>1, <2>2, <2>3
<1>8. /\ \A who : Aside(Deny(db, who)) /\ Aside(Allow(db, who))
      /\ \A seen : Aside(SaveProfile(db, tx, seen))
      /\ \A rows : Aside([db EXCEPT !.bcasts = rows])
    <2>1. \A who : Aside(Deny(db, who)) /\ Aside(Allow(db, who))
        BY <1>1, <1>4 DEF Deny, Allow
    <2>2. \A seen : Aside(SaveProfile(db, tx, seen))
        BY <1>1, <1>4 DEF SaveProfile
    <2>3. \A rows : Aside([db EXCEPT !.bcasts = rows])
        BY <1>1, <1>4
    <2> QED  BY <2>1, <2>2, <2>3
<1>9. Aside(Claimed(db, tx)) /\ Aside(Bury(db, tx))
    BY <1>1, <1>4, <1>5 DEF Claimed, Bury
<1>10. Aside(Unquote(db, tx))
    BY <1>1, <1>3 DEF Unquote
<1>11. Aside(SavePollMentions(db, tx)) /\ Aside(SaveTip(db, tx))
    <2>1. Aside(SavePollMentions(db, tx))
        BY <1>1, <1>2, <1>3 DEF SavePollMentions
    <2>2. Aside(SaveTip(db, tx))
        <3>1. PICK m : m = Mention(tx.id, "tip", tx.who[1], tx.by)
            OBVIOUS
        <3> DEFINE d == SaveTip(db, tx)
        <3>2. /\ DOMAIN d = DOMAIN db /\ d.polls = db.polls /\ d.votes = db.votes /\ d.contents = db.contents
              /\ d.mentions = db.mentions \cup {m}
            BY <1>1, <3>1 DEF SaveTip
        <3> HIDE DEF d
        <3>3. m.kind # "vote"
            BY <1>2, <3>1
        <3>4. Aside(d)
            BY <1>3, <3>2, <3>3
        <3> QED  BY <3>4 DEF d
    <2> QED  BY <2>1, <2>2
<1>12. ASSUME NEW kind \in Content
       PROVE  Aside(AddEditMentions(db, tx, kind))
    BY <1>1, <1>2, <1>3 DEF AddEditMentions, Content
<1>13. Aside(ApplyEdit(db, tx))
    <2> DEFINE edited(c) == IF c.id = tx.ref /\ Supersedes(tx, c) THEN [c EXCEPT !.text = tx.text, !.edited = tx.time] ELSE c
               rows == {edited(c) : c \in db.contents}
    <2>1. \A c \in db.contents : edited(c).id = c.id /\ edited(c).kind = c.kind /\ "kind" \in DOMAIN edited(c)
        BY <1>1 DEF RowsSound
    <2>2. ApplyEdit(db, tx) = [db EXCEPT !.contents = rows]
        BY DEF ApplyEdit
    <2> HIDE DEF edited
    <2>3. \A c \in rows : "kind" \in DOMAIN c /\ \E b \in db.contents : b.id = c.id /\ b.kind = c.kind
        BY <2>1
    <2> HIDE DEF rows
    <2> QED  BY <1>1, <2>2, <2>3 DEF Aside, VoteRows, Like
<1> QED  BY <1>5, <1>6, <1>7, <1>8, <1>9, <1>10, <1>11, <1>12, <1>13

\* The statement that saves content.
LEMMA SavingAside ==
    ASSUME TableLike(db), "polls" \in DOMAIN db, \A c \in db.contents : "kind" \in DOMAIN c, NEW tx, tx.kind \in Content
    PROVE  LET d == SaveContent(db, tx)
           IN /\ "polls" \in DOMAIN d /\ d.polls = db.polls /\ d.votes = db.votes /\ VoteRows(d) = VoteRows(db)
              /\ Like(d, {ContentRow(tx)})
<1> DEFINE Saved(d) == /\ "polls" \in DOMAIN d /\ d.polls = db.polls /\ d.votes = db.votes
                       /\ VoteRows(d) = VoteRows(db) /\ Like(d, {ContentRow(tx)})
<1>1. {"contents", "votes", "mentions", "polls"} \subseteq DOMAIN db
    BY DEF TableLike
<1>2. \A content, kind, who, by : Mention(content, kind, who, by).kind = kind
    BY DEF Mention
<1>3. "kind" \in DOMAIN ContentRow(tx)
    BY DEF ContentRow
<1>4. ASSUME NEW d, DOMAIN d = DOMAIN db, d.polls = db.polls, d.votes = db.votes,
             d.contents = db.contents \cup {ContentRow(tx)},
             \A m : m.kind = "vote" => (m \in d.mentions <=> m \in db.mentions)
      PROVE  Saved(d)
    BY <1>1, <1>3, <1>4 DEF VoteRows, Like
<1> HIDE DEF Saved
<1>5. Saved(SavePost(db, tx))
    <2>1. PICK new : new = {Mention(tx.id, "post", k, tx.by) : k \in OnePerPerson(tx.who)}
        OBVIOUS
    <2> DEFINE d == SavePost(db, tx)
    <2>2. /\ DOMAIN d = DOMAIN db /\ d.polls = db.polls /\ d.votes = db.votes
          /\ d.contents = db.contents \cup {ContentRow(tx)} /\ d.mentions = db.mentions \cup new
        BY <1>1, <2>1 DEF SavePost
    <2>3. \A m \in new : m.kind # "vote"
        BY <1>2, <2>1
    <2> HIDE DEF d
    <2>4. Saved(d)
        BY <1>4, <2>2, <2>3
    <2> QED  BY <2>4 DEF d
<1>6. Saved(SaveReply(db, tx))
    <2>1. PICK new : new = {Mention(tx.id, "reply", k, tx.by) : k \in OnePerPerson(tx.who)}
        OBVIOUS
    <2> DEFINE d == SaveReply(db, tx)
    <2>2. /\ DOMAIN d = DOMAIN db /\ d.polls = db.polls /\ d.votes = db.votes
          /\ d.contents = db.contents \cup {ContentRow(tx)} /\ d.mentions = db.mentions \cup new
        BY <1>1, <2>1 DEF SaveReply
    <2>3. \A m \in new : m.kind # "vote"
        BY <1>2, <2>1
    <2> HIDE DEF d
    <2>4. Saved(d)
        BY <1>4, <2>2, <2>3
    <2> QED  BY <2>4 DEF d
<1>7. Saved(SaveQuote(db, tx))
    <2>1. PICK new : new = {Mention(tx.id, "quote", k, tx.by) : k \in Range(tx.who)}
        OBVIOUS
    <2> DEFINE d == SaveQuote(db, tx)
    <2>2. /\ DOMAIN d = DOMAIN db /\ d.polls = db.polls /\ d.votes = db.votes
          /\ d.contents = db.contents \cup {ContentRow(tx)} /\ d.mentions = db.mentions \cup new
        BY <1>1, <2>1 DEF SaveQuote
    <2>3. \A m \in new : m.kind # "vote"
        BY <1>2, <2>1
    <2> HIDE DEF d
    <2>4. Saved(d)
        BY <1>4, <2>2, <2>3
    <2> QED  BY <2>4 DEF d
<1>8. Saved(SavePoll(db, tx))
    BY <1>1, <1>4 DEF SavePoll
<1>9. SaveContent(db, tx) \in {SavePost(db, tx), SaveReply(db, tx), SaveQuote(db, tx), SavePoll(db, tx)}
    BY DEF SaveContent, Content
<1>10. Saved(SaveContent(db, tx))
    BY <1>5, <1>6, <1>7, <1>8, <1>9
<1> QED  BY <1>10 DEF Saved

\* The row and the notification of a vote name it.
LEMMA VoteFacts ==
    ASSUME KInv
    PROVE  \A i : IsVote(i) =>
             /\ VoteRow(i).id = i /\ VoteRow(i).post = plan.txs[i].ref /\ VoteRow(i).by = plan.txs[i].by
             /\ VoteMention(i).content = i /\ VoteMention(i).kind = "vote" /\ VoteMention(i).by = plan.txs[i].by
BY IdsFact DEF KInv, Known, IsVote, VoteRow, VoteMention, Mention

LEMMA AsideSound ==
    ASSUME MInv, NEW d, Aside(d)
    PROVE  Sound(d, {})
<1>1. \A m : m.kind = "vote" => (m \in d.mentions <=> m \in db.mentions)
    BY DEF Aside, VoteRows
<1>2. \A v \in db.votes : IsVote(v.id) /\ v = VoteRow(v.id) /\ VoteMention(v.id) \in db.mentions
    BY DEF MInv, VotesPaired
<1>3. \A v \in db.votes : VoteMention(v.id) \in d.mentions
    BY <1>1, <1>2, VoteFacts DEF MInv, CInv
<1>4. \A m \in d.mentions : m.kind = "vote" => Paired(m)
    BY <1>1 DEF MInv, MentionsPaired
<1>5. "polls" \in DOMAIN d /\ db.polls \subseteq d.polls /\ d.votes = db.votes
    BY DEF Aside
<1> QED  BY <1>2, <1>3, <1>4, <1>5 DEF Sound, Paired

\* Votes that are removed with their notifications leave the others whole.
LEMMA WithoutVotes ==
    ASSUME MInv, NEW gone, \A v \in gone : IsVote(v.id) /\ v = VoteRow(v.id),
           NEW d, "polls" \in DOMAIN d, d.polls = db.polls,
           d.votes = db.votes \ gone, d.mentions = db.mentions \ VoteMentions(db, gone)
    PROVE  Sound(d, {})
<1>1. \A v \in db.votes : IsVote(v.id) /\ v = VoteRow(v.id) /\ VoteMention(v.id) \in db.mentions
    BY DEF MInv, VotesPaired
<1>2. \A m \in db.mentions : m.kind = "vote" => Paired(m)
    BY DEF MInv, MentionsPaired
<1>3. ASSUME NEW v \in d.votes
      PROVE  IsVote(v.id) /\ v = VoteRow(v.id) /\ VoteMention(v.id) \in d.mentions
    <2>1. v \in db.votes /\ v \notin gone
        OBVIOUS
    <2>2. \A u \in gone : u.id # v.id
        BY <1>1, <2>1
    <2>3. VoteMention(v.id).content = v.id
        BY <1>1, <2>1, VoteFacts DEF MInv, CInv
    <2>4. VoteMention(v.id) \notin VoteMentions(db, gone)
        BY <2>2, <2>3 DEF VoteMentions
    <2> QED  BY <1>1, <2>1, <2>4
<1>4. ASSUME NEW m \in d.mentions, m.kind = "vote"
      PROVE  /\ IsVote(m.content) /\ m = VoteMention(m.content)
             /\ VoteRow(m.content) \in d.votes \/ Gone(plan.txs[m.content].ref)
    <2>1. m \in db.mentions /\ m \notin VoteMentions(db, gone)
        OBVIOUS
    <2>2. Paired(m)
        BY <1>2, <1>4, <2>1
    <2>3. \A v \in gone : v.id # m.content
        BY <1>4, <2>1 DEF VoteMentions
    <2>4. VoteRow(m.content).id = m.content
        BY <2>2, VoteFacts DEF Paired, MInv, CInv
    <2>5. VoteRow(m.content) \notin gone
        BY <2>3, <2>4
    <2> QED  BY <2>2, <2>5 DEF Paired
<1> QED  BY <1>3, <1>4 DEF Sound

LEMMA UnvoteSound ==
    ASSUME MInv, NEW tx
    PROVE  Sound(Unvote(db, tx), {}) /\ Like(Unvote(db, tx), {})
<1> DEFINE d == Unvote(db, tx)
<1>1. {"contents", "votes", "mentions", "polls"} \subseteq DOMAIN db
    BY DEF MInv, CInv, TableLike
<1>2. PICK gone : gone = VotesOf(db, tx)
    OBVIOUS
<1>3. \A v \in gone : IsVote(v.id) /\ v = VoteRow(v.id)
    BY <1>2 DEF VotesOf, MInv, VotesPaired
<1>4. /\ "polls" \in DOMAIN d /\ d.polls = db.polls /\ d.contents = db.contents
      /\ d.votes = db.votes \ gone /\ d.mentions = db.mentions \ VoteMentions(db, gone)
    BY <1>1, <1>2 DEF Unvote
<1> HIDE DEF d
<1>5. Sound(d, {})
    BY <1>3, <1>4, WithoutVotes
<1>6. Like(d, {})
    BY <1>4 DEF Like, MInv, PollsWhole
<1> QED  BY <1>5, <1>6 DEF d

LEMMA CastVoteSound ==
    ASSUME MInv, NEW id, IsVote(id), NEW replaced, \A v \in replaced : IsVote(v.id) /\ v = VoteRow(v.id)
    PROVE  LET d == CastVote(db, plan.txs[id], replaced) IN Sound(d, {}) /\ Like(d, {})
<1> DEFINE tx == plan.txs[id]
           d == CastVote(db, tx, replaced)
           cleared == [db EXCEPT !.votes = @ \ replaced, !.mentions = @ \ VoteMentions(db, replaced)]
           full == [cleared EXCEPT !.votes = @ \cup {VoteRow(id)}, !.mentions = @ \cup {VoteMention(id)}]
<1>1. {"contents", "votes", "mentions", "polls"} \subseteq DOMAIN db /\ tx.id = id
    BY IdsFact DEF MInv, CInv, TableLike, KInv, Known, IsVote
<1>2. d \in {cleared, full}
    BY <1>1 DEF CastVote, VoteRow, VoteMention
<1>3. /\ DOMAIN cleared = DOMAIN db /\ cleared.polls = db.polls /\ cleared.contents = db.contents
      /\ cleared.votes = db.votes \ replaced /\ cleared.mentions = db.mentions \ VoteMentions(db, replaced)
    BY <1>1
<1> HIDE DEF d, cleared
<1>4. Sound(cleared, {}) /\ Like(cleared, {})
    <2>1. Sound(cleared, {})
        BY <1>1, <1>3, WithoutVotes
    <2>2. Like(cleared, {})
        BY <1>3 DEF Like, MInv, PollsWhole
    <2> QED  BY <2>1, <2>2
<1>5. /\ "polls" \in DOMAIN full /\ full.polls = cleared.polls /\ full.contents = cleared.contents
      /\ full.votes = cleared.votes \cup {VoteRow(id)} /\ full.mentions = cleared.mentions \cup {VoteMention(id)}
    BY <1>1, <1>3
<1> HIDE DEF full
<1>6. /\ VoteRow(id).id = id /\ VoteMention(id).content = id
    BY VoteFacts DEF MInv, CInv
<1>7. Sound(full, {})
    BY <1>4, <1>5, <1>6 DEF Sound
<1>8. Like(full, {})
    BY <1>4, <1>5 DEF Like
<1> QED  BY <1>2, <1>4, <1>7, <1>8 DEF d

\* A purge takes the votes of an author and their notifications, both by the author.
LEMMA PurgeSound ==
    ASSUME MInv, NEW who
    PROVE  Sound(Purge(db, who), {}) /\ Like(Purge(db, who), {})
<1> DEFINE d == Purge(db, who)
<1>1. {"contents", "votes", "mentions", "polls"} \subseteq DOMAIN db
    BY DEF MInv, CInv, TableLike
<1>2. /\ "polls" \in DOMAIN d /\ d.polls = db.polls /\ d.contents \subseteq db.contents
      /\ d.votes = {v \in db.votes : v.by # who} /\ d.mentions = {m \in db.mentions : m.by # who}
    BY <1>1 DEF Purge
<1> HIDE DEF d
<1>3. \A v \in db.votes : IsVote(v.id) /\ v = VoteRow(v.id) /\ VoteMention(v.id) \in db.mentions
    BY DEF MInv, VotesPaired
<1>4. \A m \in db.mentions : m.kind = "vote" => Paired(m)
    BY DEF MInv, MentionsPaired
<1>5. ASSUME NEW v \in d.votes
      PROVE  IsVote(v.id) /\ v = VoteRow(v.id) /\ VoteMention(v.id) \in d.mentions
    <2>1. v \in db.votes /\ v.by # who
        BY <1>2
    <2>2. VoteMention(v.id).by = v.by
        BY <1>3, <2>1, VoteFacts DEF MInv, CInv
    <2> QED  BY <1>2, <1>3, <2>1, <2>2
<1>6. ASSUME NEW m \in d.mentions, m.kind = "vote"
      PROVE  /\ IsVote(m.content) /\ m = VoteMention(m.content)
             /\ VoteRow(m.content) \in d.votes \/ Gone(plan.txs[m.content].ref)
    <2>1. m \in db.mentions /\ m.by # who /\ Paired(m)
        BY <1>2, <1>4, <1>6
    <2>2. VoteRow(m.content).by = m.by
        BY <2>1, VoteFacts DEF Paired, MInv, CInv
    <2> QED  BY <1>2, <2>1, <2>2 DEF Paired
<1>7. Sound(d, {})
    BY <1>2, <1>5, <1>6 DEF Sound
<1>8. Like(d, {})
    BY <1>2 DEF Like, MInv, PollsWhole
<1> QED  BY <1>7, <1>8 DEF d

\* A post goes with its votes; their notifications stay.
LEMMA HardDeleteSound ==
    ASSUME MInv, NEW post, ~IsVote(post), NEW author
    PROVE  Sound(HardDelete(db, post, author), {post}) /\ Like(HardDelete(db, post, author), {})
<1> DEFINE d == HardDelete(db, post, author)
<1>1. {"contents", "votes", "mentions", "polls"} \subseteq DOMAIN db
    BY DEF MInv, CInv, TableLike
<1>2. /\ "polls" \in DOMAIN d /\ d.polls = db.polls /\ d.contents \subseteq db.contents
      /\ d.votes = {v \in db.votes : v.post # post} /\ d.mentions = {m \in db.mentions : m.content # post}
    BY <1>1 DEF HardDelete
<1> HIDE DEF d
<1>3. \A v \in db.votes : IsVote(v.id) /\ v = VoteRow(v.id) /\ VoteMention(v.id) \in db.mentions
    BY DEF MInv, VotesPaired
<1>4. \A m \in db.mentions : m.kind = "vote" => Paired(m)
    BY DEF MInv, MentionsPaired
<1>5. ASSUME NEW v \in d.votes
      PROVE  IsVote(v.id) /\ v = VoteRow(v.id) /\ VoteMention(v.id) \in d.mentions
    <2>1. v \in db.votes /\ IsVote(v.id) /\ v.id # post
        BY <1>2, <1>3
    <2>2. VoteMention(v.id).content = v.id
        BY <2>1, VoteFacts DEF MInv, CInv
    <2> QED  BY <1>2, <1>3, <2>1, <2>2
<1>6. ASSUME NEW m \in d.mentions, m.kind = "vote"
      PROVE  /\ IsVote(m.content) /\ m = VoteMention(m.content)
             /\ \/ VoteRow(m.content) \in d.votes
                \/ Gone(plan.txs[m.content].ref) \/ plan.txs[m.content].ref \in {post}
    <2>1. Paired(m)
        BY <1>2, <1>4, <1>6
    <2>2. VoteRow(m.content).post = plan.txs[m.content].ref
        BY <2>1, VoteFacts DEF Paired, MInv, CInv
    <2> QED  BY <1>2, <2>1, <2>2 DEF Paired
<1>7. Sound(d, {post})
    BY <1>2, <1>5, <1>6 DEF Sound
<1>8. Like(d, {})
    BY <1>2 DEF Like, MInv, PollsWhole
<1> QED  BY <1>7, <1>8 DEF d

\* The post whose votes a step takes, and the content it saves.
Lost(w) == IF At(w, "erase") THEN {IF Handles(w, {"delete"}) THEN Tx(w).ref ELSE Tx(w).id} ELSE {}
Gained(w) == IF At(w, "save") THEN {ContentRow(Tx(w))} ELSE {}

\* What the step of a handler does to votes, notifications, polls and content.
LEMMA HandlersSound ==
    ASSUME MInv, NEW w \in Everyone, Handle(w) \/ HandlePending(w)
    PROVE  Sound(db', Lost(w)) /\ Like(db', Gained(w))
<1> DEFINE id == work[w].id
           tx == Tx(w)
           Fine(d) == Sound(d, {}) /\ Like(d, {})
<1>1. /\ TableLike(db) /\ "polls" \in DOMAIN db /\ RowsSound /\ KInv /\ PairStage(w)
      /\ \A c \in db.contents : "kind" \in DOMAIN c
    BY DEF MInv, CInv, KInv, PollsWhole
<1>2. \A d : Fine(d) => Sound(d, Lost(w)) /\ Like(d, Gained(w))
    BY DEF Sound, Like
<1>3. \A d : Aside(d) => Fine(d)
    BY AsideSound DEF Aside
<1>4. work[w].pc \notin {"idle", "refetch"} => id \in Ids /\ tx.id = id /\ tx = plan.txs[id] /\ Kind(id) = tx.kind
    BY <1>1, IdsFact DEF KInv, Known, Staged, InStage, Tx, Kind
<1> HIDE DEF Fine
<1>5. /\ Fine(db) /\ Fine(SavePollOptions(db, tx)) /\ Fine(RecordEdit(db, tx))
      /\ Fine(RecordDelete(db, tx)) /\ Fine(SaveBallot(db, tx))
      /\ Fine(RecordRelation(db, tx)) /\ Fine(Follow(db, tx)) /\ Fine(Unfollow(db, tx))
      /\ Fine(Block(db, tx)) /\ Fine(Unblock(db, tx))
      /\ \A who : Fine(Deny(db, who)) /\ Fine(Allow(db, who))
      /\ \A seen : Fine(SaveProfile(db, tx, seen))
      /\ \A rows : Fine([db EXCEPT !.bcasts = rows])
      /\ Fine(Unquote(db, tx)) /\ Fine(ApplyEdit(db, tx))
      /\ Fine(Claimed(db, tx)) /\ Fine(Bury(db, tx))
      /\ Fine(SavePollMentions(db, tx)) /\ Fine(SaveTip(db, tx))
      /\ \A kind \in Content : Fine(AddEditMentions(db, tx, kind))
    BY <1>1, <1>3, StatementsAside
<1>6. Fine(Unvote(db, tx)) /\ \A who : Fine(Purge(db, who))
    BY UnvoteSound, PurgeSound DEF Fine
<1>7. CASE \/ DeletedBefore(w) \/ NotifyContent(w) \/ DropIfDeleted(w) \/ TargetIndexed(w) \/ ReplaceVote(w)
           \/ NotifyVote(w) \/ Original(w) \/ Related(w) \/ NotifyFollow(w) \/ DenyInMemory(w) \/ OpenLedger(w)
           \/ RouteBroadcast(w) \/ TipGates(w) \/ Resolve(w) \/ GiveUp(w) \/ NotifyStored(w)
    <2>1. db' = db
        BY <1>7 DEF DeletedBefore, NotifyContent, DropIfDeleted, TargetIndexed, ReplaceVote, NotifyVote, Original, Related,
                    NotifyFollow, DenyInMemory, OpenLedger, RouteBroadcast, TipGates, Resolve, GiveUp, NotifyStored, Reads
    <2> QED  BY <1>2, <1>5, <2>1
<1>8. CASE SignatureIsFresh(w) \/ Tombstone(w) \/ AuditDelete(w) \/ Withdraw(w)
    BY <1>2, <1>5, <1>6, <1>8 DEF SignatureIsFresh, Tombstone, AuditDelete, Withdraw
<1>9. CASE SaveOptions(w) \/ AuditEdit(w) \/ EditContent(w) \/ PollVote(w) \/ RelationIsNewest(w)
    BY <1>2, <1>5, <1>9 DEF SaveOptions, AuditEdit, EditContent, PollVote, RelationIsNewest
<1>10. CASE CommitProfile(w) \/ SaveFollow(w) \/ SaveBlock(w) \/ SaveMentions(w) \/ StoreTip(w)
    BY <1>2, <1>5, <1>10 DEF CommitProfile, SaveFollow, SaveBlock, SaveMentions, StoreTip
<1>11. CASE DenyTarget(w) \/ PurgeTarget(w) \/ AllowTarget(w)
    BY <1>2, <1>5, <1>6, <1>11 DEF DenyTarget, PurgeTarget, AllowTarget
<1>12. CASE StoreBroadcast(w)
    <2>1. \E rows : db' = [db EXCEPT !.bcasts = rows]
        BY <1>12 DEF StoreBroadcast
    <2> QED  BY <1>2, <1>5, <2>1
<1>13. CASE Save(w)
    <2>1. work[w].pc = "save" /\ tx.kind \in Content /\ Gained(w) = {ContentRow(tx)}
        BY <1>1, <1>13 DEF Save, At, KInv, Staged, InStage, Gained, Kind, Tx
    <2>2. CASE ~NewContent(db, Tx(w))
        BY <1>2, <1>5, <1>13, <2>2 DEF Save
    <2>3. CASE NewContent(db, Tx(w))
        <3>1. PICK d : d = SaveContent(db, tx)
            OBVIOUS
        <3>2. db' = d
            BY <1>13, <2>3, <3>1 DEF Save
        <3>3. /\ "polls" \in DOMAIN d /\ d.polls = db.polls /\ d.votes = db.votes /\ VoteRows(d) = VoteRows(db)
              /\ Like(d, {ContentRow(tx)})
            BY <1>1, <2>1, <3>1, SavingAside
        <3>4. \A m : m.kind = "vote" => (m \in d.mentions <=> m \in db.mentions)
            BY <3>3 DEF VoteRows
        <3>5. Sound(db, {})
            BY <1>5 DEF Fine
        <3>6. \A v \in db.votes : VoteMention(v.id).kind = "vote"
            BY <1>1, <3>5, VoteFacts DEF Sound
        <3>7. Sound(d, Lost(w))
            BY <3>3, <3>4, <3>5, <3>6 DEF Sound
        <3> QED  BY <2>1, <3>2, <3>3, <3>7
    <2> QED  BY <2>2, <2>3
<1>14. CASE EditMentions(w)
    <2>1. work[w].memo \subseteq Content
        BY <1>1, <1>14 DEF EditMentions, At, Handles, PairStage, Kind, Tx
    <2>2. PICK kind \in work[w].memo : db' = AddEditMentions(db, tx, kind)
        BY <1>14 DEF EditMentions
    <2> QED  BY <1>2, <1>5, <2>1, <2>2
<1>15. CASE CommitVote(w)
    <2>1. work[w].pc = "vote" /\ db' = CastVote(db, tx, work[w].memo)
        BY <1>15 DEF CommitVote, At
    <2>2. IsVote(id)
        BY <1>4, <2>1 DEF IsVote, MInv, CInv, ClaimStage
    <2>3. \A v \in work[w].memo : IsVote(v.id) /\ v = VoteRow(v.id)
        BY <1>1, <2>1 DEF PairStage
    <2>4. Fine(db')
        BY <1>4, <2>1, <2>2, <2>3, CastVoteSound DEF Fine
    <2> QED  BY <1>2, <2>4
<1>16. CASE Erase(w)
    <2>1. PICK post : post = IF Handles(w, {"delete"}) THEN tx.ref ELSE tx.id
        OBVIOUS
    <2>2. work[w].pc = "erase" /\ db' = HardDelete(db, post, tx.by) /\ Lost(w) = {post} /\ Gained(w) = {}
        BY <1>16, <2>1 DEF Erase, At, Lost, Gained
    <2>3. Kind(post) \in Content
        BY <1>1, <1>4, <2>1, <2>2 DEF PairStage, ByOwner, Handles, Content
    <2>4. ~IsVote(post)
        BY <2>3 DEF IsVote, Content
    <2> QED  BY <2>2, <2>4, HardDeleteSound
<1> QED  BY <1>7, <1>8, <1>9, <1>10, <1>11, <1>12, <1>13, <1>14, <1>15, <1>16 DEF Handle, HandlePending

\* Where a step leaves the worker that takes it, and what it remembers.
LEMMA MemoMoves ==
    ASSUME WorkShape, NEW w \in Everyone, NEW pc, NEW seen
    PROVE  /\ Goto(w, pc) => work'[w].id = work[w].id /\ work'[w].pc = pc /\ work'[w].memo = work[w].memo
           /\ Recall(w, pc, seen) => work'[w].id = work[w].id /\ work'[w].pc = pc /\ work'[w].memo = seen
           /\ Moves(w, pc) => work'[w].id = work[w].id /\ work'[w].pc = pc /\ work'[w].quiet = work[w].quiet
           /\ Moves(w, pc) => \A v \in Everyone : v # w => work'[v] = work[v]
<1> DEFINE old == work[w]
<1>0. old = [id |-> old.id, pc |-> old.pc, quiet |-> old.quiet, memo |-> old.memo] /\ DOMAIN work = Everyone
    BY PlacesAre
<1>1. ASSUME Goto(w, pc)
      PROVE  /\ work'[w].id = work[w].id /\ work'[w].pc = pc /\ work'[w].memo = work[w].memo
             /\ work'[w].quiet = work[w].quiet
             /\ \A v \in Everyone : v # w => work'[v] = work[v]
    <2> DEFINE r == [old EXCEPT !.pc = pc]
    <2>1. work' = [work EXCEPT ![w] = r]
        BY <1>1 DEF Goto
    <2>2. r = [id |-> old.id, pc |-> pc, quiet |-> old.quiet, memo |-> old.memo]
        BY <1>0
    <2> HIDE DEF r
    <2>3. work'[w] = r /\ \A v \in Everyone \ {w} : work'[v] = work[v]
        BY <2>1, <2>2, PutMoves
    <2> QED  BY <2>2, <2>3
<1>2. ASSUME NEW memo, Recall(w, pc, memo)
      PROVE  /\ work'[w].id = work[w].id /\ work'[w].pc = pc /\ work'[w].memo = memo
             /\ work'[w].quiet = work[w].quiet
             /\ \A v \in Everyone : v # w => work'[v] = work[v]
    <2> DEFINE r0 == [old EXCEPT !.pc = pc]
               r == [r0 EXCEPT !.memo = memo]
    <2>1. work' = [work EXCEPT ![w] = r]
        BY <1>2, PlacesAre DEF Recall
    <2>0. r0 = [id |-> old.id, pc |-> pc, quiet |-> old.quiet, memo |-> old.memo]
        BY <1>0
    <2> HIDE DEF r0
    <2>2. r = [id |-> old.id, pc |-> pc, quiet |-> old.quiet, memo |-> memo]
        BY <2>0
    <2> HIDE DEF r
    <2>3. work'[w] = r /\ \A v \in Everyone \ {w} : work'[v] = work[v]
        BY <2>1, <2>2, PutMoves
    <2> QED  BY <2>2, <2>3
<1> QED  BY <1>1, <1>2 DEF Moves

\* Places that nothing is asked of.
Careless == {"idle", "refetch", "tomb", "fresh", "save", "options", "notify", "done", "unknown", "withdraw", "target",
             "replace", "ballot", "bury", "related", "newest", "relate", "operator", "purge", "deny", "ledger", "profile",
             "route", "ask", "store"}

LEMMA HandlersPair ==
    ASSUME MInv, NEW w \in Everyone, Handle(w) \/ HandlePending(w), UNCHANGED plan, db.tombs \subseteq db'.tombs
    PROVE  PairStage(w)'
<1> DEFINE tx == Tx(w)
<1>0. PICK id : id = work[w].id
    OBVIOUS
<1>1. /\ WorkShape /\ KInv /\ PairStage(w) /\ InStage(w) /\ ClaimStage(w)
      /\ id \in Ids => tx.id = id
      /\ Kind(id) = tx.kind
    BY <1>0, IdsFact DEF MInv, CInv, KInv, Shaped, Staged, Known, Kind, Tx
<1>2. /\ \A i : Kind(i)' = Kind(i) /\ (IsVote(i)' <=> IsVote(i)) /\ VoteRow(i)' = VoteRow(i)
      /\ \A t : DeletedByAuthor(db, t) => DeletedByAuthor(db', t)
      /\ \A t : ByOwner(t)' <=> ByOwner(t)
    BY DEF Kind, IsVote, VoteRow, Ids, DeletedByAuthor, ByOwner
<1>3. ASSUME NEW next \in Careless, Moves(w, next)
      PROVE  PairStage(w)'
    <2>1. work'[w].pc = next
        BY <1>1, <1>3, MemoMoves
    <2> QED  BY <2>1 DEF PairStage, Careless
<1>4. ASSUME NEW next, Moves(w, next)
      PROVE  work'[w].id = id /\ work'[w].pc = next /\ Tx(w)' = tx
    BY <1>0, <1>1, <1>4, MemoMoves DEF Tx
<1>5. ASSUME NEW next, Goto(w, next)
      PROVE  work'[w].id = id /\ work'[w].pc = next /\ Tx(w)' = tx /\ work'[w].memo = work[w].memo
    BY <1>0, <1>1, <1>5, MemoMoves DEF Tx
<1>6. ASSUME NEW next, NEW memo, Recall(w, next, memo)
      PROVE  work'[w].id = id /\ work'[w].pc = next /\ Tx(w)' = tx /\ work'[w].memo = memo
    <2>1. work'[w].id = work[w].id /\ work'[w].pc = next /\ work'[w].memo = memo
        BY <1>1, <1>6, MemoMoves
    <2> QED  BY <1>0, <2>1 DEF Tx
<1>7. ASSUME NEW next \in {"drop", "original"}, Moves(w, next),
             next = "drop" => Kind(id) \in Content, next = "original" => Kind(id) \in {"edit", "delete"}
      PROVE  PairStage(w)'
    <2>1. work'[w].id = id /\ work'[w].pc = next
        BY <1>4, <1>7
    <2> QED  BY <1>2, <1>7, <2>1 DEF PairStage
<1> HIDE DEF tx, Careless
<1>8. CASE SignatureIsFresh(w)
    <2> DEFINE next == IF (SignatureHolds(Tx(w)) /\ ProfileAllowed(Tx(w))) /\ Owns(db, Tx(w)) THEN Continue(Tx(w))
                       ELSE Return(Tx(w))
    <2>1. work[w].pc = "fresh" /\ Moves(w, next)
        BY <1>8 DEF SignatureIsFresh, At, Moves
    <2>2. Kind(id) \in Kinds \ {"unknown", "bcast"} /\ Tx(w).kind = Kind(id)
        BY <1>0, <1>1, <2>1, IdsFact DEF KInv, Known, InStage, Kind, Tx
    <2>3. next \in {"save", "drop", "withdraw", "target", "related", "newest", "original", "done", "bury", "ballot", "ledger"}
        BY <2>2 DEF Kinds, Content, Continue, Return
    <2>4. next = "drop" => Kind(id) \in Content
        BY <2>2 DEF Kinds, Content, Continue, Return
    <2>5. next = "original" => Kind(id) \in {"edit", "delete"}
        BY <2>2 DEF Kinds, Content, Continue, Return
    <2> HIDE DEF next
    <2>6. next \in Careless \cup {"drop", "original"}
        BY <2>3 DEF Careless
    <2> QED  BY <1>3, <1>7, <2>1, <2>4, <2>5, <2>6
<1>9. CASE DeletedBefore(w) \/ Erase(w)
    BY <1>3, <1>9 DEF DeletedBefore, Erase, Moves, Careless
<1>10. CASE Save(w)
    <2> DEFINE next == IF Handles(w, {"poll"}) THEN IF NewContent(db, Tx(w)) THEN "options" ELSE "drop" ELSE "notify"
    <2>1. work[w].pc = "save" /\ Moves(w, next)
        BY <1>10 DEF Save, At, Moves
    <2>2. Kind(id) \in Content
        BY <1>0, <1>1, <2>1 DEF InStage
    <2>3. next \in Careless \cup {"drop"}
        BY DEF Careless
    <2> HIDE DEF next
    <2> QED  BY <1>3, <1>7, <2>1, <2>2, <2>3
<1>11. CASE SaveOptions(w)
    <2>1. work[w].pc = "options" /\ Goto(w, "mentions")
        BY <1>11 DEF SaveOptions, At
    <2>2. Kind(id) = "poll"
        BY <1>0, <1>1, <2>1 DEF ClaimStage
    <2> QED  BY <1>2, <1>5, <2>1, <2>2 DEF PairStage
<1>12. CASE SaveMentions(w) \/ Withdraw(w) \/ PollVote(w) \/ NotifyVote(w) \/ EditMentions(w)
    BY <1>3, <1>12 DEF SaveMentions, Withdraw, PollVote, NotifyVote, EditMentions, Moves, Careless
<1>13. CASE NotifyContent(w)
    <2>1. Moves(w, "drop") /\ Kind(id) \in Content
        BY <1>0, <1>1, <1>13 DEF NotifyContent, Moves, Handles, Kind, Tx
    <2> QED  BY <1>7, <2>1
<1>14. CASE DropIfDeleted(w)
    <2> DEFINE next == IF DeletedByAuthor(db, Tx(w)) THEN "erase" ELSE "done"
    <2>1. work[w].pc = "drop" /\ Goto(w, next)
        BY <1>14 DEF DropIfDeleted, At
    <2>2. Kind(id) \in Content
        BY <1>0, <1>1, <2>1 DEF PairStage
    <2> QED  BY <1>2, <1>5, <2>1, <2>2 DEF PairStage, tx
<1>15. CASE TargetIndexed(w)
    <2> DEFINE next == IF ContentOf(db, Tx(w).ref) # {} THEN "replace" ELSE "done"
    <2>1. Moves(w, next) /\ next \in Careless
        BY <1>15 DEF TargetIndexed, Moves, Careless
    <2> QED  BY <1>3, <2>1
<1>16. CASE ReplaceVote(w)
    <2>1. Recall(w, "vote", Replaced(db, Tx(w)))
        BY <1>16 DEF ReplaceVote
    <2>2. \A v \in Replaced(db, Tx(w)) : IsVote(v.id) /\ v = VoteRow(v.id)
        BY DEF Replaced, VotesOf, MInv, VotesPaired
    <2>3. work'[w].pc = "vote" /\ work'[w].memo = Replaced(db, Tx(w))
        BY <1>6, <2>1
    <2> QED  BY <1>2, <2>2, <2>3 DEF PairStage
<1>17. CASE CommitVote(w)
    <2> DEFINE next == IF VoteFits(db, Tx(w), work[w].memo) /\ ~(\E v \in work[w].memo : v.vote = Tx(w).as) THEN "notify"
                       ELSE "done"
    <2>1. Moves(w, next) /\ next \in Careless
        BY <1>17 DEF CommitVote, Moves, Careless
    <2> QED  BY <1>3, <2>1
<1>18. CASE Original(w)
    <2> DEFINE found == {c \in ContentOf(db, Tx(w).ref) : c.by = Tx(w).by}
    <2>1. work[w].pc = "original" /\ id \in Ids /\ Kind(id) \in {"edit", "delete"} /\ Tx(w).kind = Kind(id)
        BY <1>0, <1>1, <1>18 DEF Original, At, PairStage, InStage, Kind, Tx
    <2>2. \A c \in found : c.kind \in Content /\ Kind(Tx(w).ref) \in Content /\ plan.txs[Tx(w).ref].by = Tx(w).by
        BY DEF ContentOf, MInv, PollsWhole, CInv, KInv, RowsSound
    <2>3. CASE Kind(id) = "edit"
        <3> DEFINE next == IF Editable(db, Tx(w)) THEN "audit" ELSE "done"
        <3>1. Recall(w, next, {c.kind : c \in found})
            BY <1>18, <2>1, <2>3 DEF Original
        <3>2. {c.kind : c \in found} \subseteq Content
            BY <2>2
        <3>3. work'[w].id = id /\ work'[w].pc = next /\ work'[w].memo \subseteq Content
            BY <1>6, <3>1, <3>2
        <3>4. next \in {"audit", "done"}
            OBVIOUS
        <3> HIDE DEF next
        <3> QED  BY <1>2, <2>3, <3>3, <3>4 DEF PairStage
    <2>4. CASE Kind(id) = "delete"
        <3> DEFINE next == IF found # {} THEN "record" ELSE "done"
        <3>1. Goto(w, next)
            BY <1>18, <2>1, <2>4 DEF Original
        <3>2. next = "record" => ByOwner(Tx(w))
            BY <2>2 DEF ByOwner
        <3>3. work'[w].id = id /\ work'[w].pc = next /\ Tx(w)' = Tx(w)
            BY <1>5, <3>1 DEF tx
        <3>4. next \in {"record", "done"}
            OBVIOUS
        <3> HIDE DEF next
        <3>5. next = "record" => ByOwner(Tx(w))'
            BY <3>2, <3>3 DEF ByOwner, Kind
        <3> QED  BY <1>2, <2>4, <3>3, <3>4, <3>5 DEF PairStage
    <2> QED  BY <2>1, <2>3, <2>4
<1>19. CASE AuditEdit(w)
    <2>1. work[w].pc = "audit" /\ Goto(w, "apply")
        BY <1>19 DEF AuditEdit, At
    <2>2. Kind(id) = "edit" /\ work[w].memo \subseteq Content
        BY <1>0, <1>1, <2>1 DEF PairStage
    <2> QED  BY <1>2, <1>5, <2>1, <2>2 DEF PairStage
<1>20. CASE EditContent(w)
    <2> DEFINE next == IF EditApplies(db, Tx(w)) THEN "mentions" ELSE "done"
    <2>1. work[w].pc = "apply" /\ Goto(w, next)
        BY <1>20 DEF EditContent, At
    <2>2. Kind(id) = "edit" /\ work[w].memo \subseteq Content
        BY <1>0, <1>1, <2>1 DEF PairStage
    <2> QED  BY <1>2, <1>5, <2>1, <2>2 DEF PairStage
<1>21. CASE Tombstone(w)
    <2>1. work[w].pc = "bury" /\ Moves(w, "original")
        BY <1>21 DEF Tombstone, At, Moves
    <2>2. Kind(id) = "delete"
        BY <1>0, <1>1, <2>1 DEF InStage
    <2> QED  BY <1>7, <2>1, <2>2
<1>22. CASE AuditDelete(w)
    <2>1. work[w].pc = "record" /\ Goto(w, "erase")
        BY <1>22 DEF AuditDelete, At
    <2>2. Kind(id) = "delete" /\ ByOwner(tx)
        BY <1>0, <1>1, <2>1 DEF PairStage, tx
    <2>3. work'[w].id = id /\ work'[w].pc = "erase" /\ Tx(w)' = tx
        BY <1>5, <2>1
    <2>4. ByOwner(Tx(w))'
        BY <2>2, <2>3 DEF ByOwner, Kind
    <2> QED  BY <1>2, <2>2, <2>3, <2>4 DEF PairStage
<1>23. CASE Related(w) \/ RelationIsNewest(w) \/ SaveFollow(w) \/ NotifyFollow(w) \/ SaveBlock(w)
    BY <1>3, <1>23 DEF Related, RelationIsNewest, SaveFollow, NotifyFollow, SaveBlock, Moves, Careless
<1>24. CASE DenyTarget(w) \/ PurgeTarget(w) \/ DenyInMemory(w) \/ AllowTarget(w) \/ OpenLedger(w) \/ CommitProfile(w)
    BY <1>3, <1>24 DEF DenyTarget, PurgeTarget, DenyInMemory, AllowTarget, OpenLedger, CommitProfile, Moves, Careless
<1>25. CASE RouteBroadcast(w) \/ TipGates(w)
    BY <1>3, <1>25 DEF RouteBroadcast, TipGates, Moves, Careless
<1>26. CASE Resolve(w) \/ GiveUp(w) \/ StoreBroadcast(w) \/ StoreTip(w) \/ NotifyStored(w)
    BY <1>3, <1>26 DEF Resolve, Judged, GiveUp, StoreBroadcast, StoreTip, NotifyStored, Moves, Careless
<1> QED  BY <1>8, <1>9, <1>10, <1>11, <1>12, <1>13, <1>14, <1>15, <1>16, <1>17, <1>18, <1>19, <1>20, <1>21, <1>22, <1>23,
            <1>24, <1>25, <1>26 DEF Handle, HandlePending

\* A post that an erase takes away is gone: its author has deleted it.
LEMMA ErasedGone ==
    ASSUME MInv, NEW w \in Everyone, Erase(w), NEW next, Steps(w, next), NEW post \in Lost(w)
    PROVE  Gone(post)'
<1>0. PICK id : id = work[w].id
    OBVIOUS
<1>1. /\ work[w].pc = "erase" /\ id \in Ids /\ Tx(w) = plan.txs[id] /\ Tx(w).id = id /\ Kind(id) = Tx(w).kind
      /\ post = IF Handles(w, {"delete"}) THEN Tx(w).ref ELSE id
    BY <1>0, IdsFact DEF Erase, At, Lost, MInv, CInv, KInv, Known, Staged, InStage, Tx, Kind
<1>2. db' = HardDelete(db, post, Tx(w).by)
    BY <1>1 DEF Erase
<1>3. \A c \in db'.contents : ~(c.id = post /\ c.by = Tx(w).by)
    BY <1>2, RemovalsSpare DEF MInv, CInv, KInv, Shaped
<1>4. plan' = plan /\ Ids' = Ids
    BY DEF Steps, Ids
<1>5. \A i : Buried(i) => Buried(i)'
    BY ClaimsStay DEF MInv, CInv
<1>6. ASSUME NEW d \in Ids, Buried(d), plan.txs[d].ref = post, plan.txs[d].by = Tx(w).by, plan.txs[post].by = Tx(w).by
      PROVE  Gone(post)'
    <2>1. \A c \in db'.contents : ~Fits(d, c)'
        BY <1>3, <1>4, <1>6 DEF Fits
    <2>2. Done(d)'
        BY <1>5, <1>6, <2>1 DEF Done
    <2> QED  BY <1>4, <1>6, <2>2 DEF Gone
<1>7. PairStage(w)
    BY DEF MInv
<1>8. CASE Kind(id) = "delete"
    <2>1. ByOwner(Tx(w)) /\ post = Tx(w).ref
        BY <1>0, <1>1, <1>7, <1>8 DEF PairStage, Handles, Content
    <2>2. Buried(id)
        BY <1>0, <1>1, <1>8 DEF MInv, CInv, KInv, Staged, DeleteStage, Burying
    <2> QED  BY <1>1, <1>6, <2>1, <2>2 DEF ByOwner
<1>9. CASE Kind(id) # "delete"
    <2>1. DeletedByAuthor(db, Tx(w)) /\ post = id
        BY <1>0, <1>1, <1>7, <1>9 DEF PairStage, Handles
    <2>2. PICK t \in db.tombs : t.post = id /\ t.by = Tx(w).by
        BY <1>1, <2>1 DEF DeletedByAuthor
    <2>3. t.id \in Ids /\ plan.txs[t.id].ref = id /\ plan.txs[t.id].by = Tx(w).by
        BY <2>2 DEF MInv, CInv, KInv, TombsSound
    <2>4. Buried(t.id)
        BY <2>2, <2>3 DEF Buried
    <2> QED  BY <1>1, <1>6, <2>1, <2>3, <2>4
<1> QED  BY <1>8, <1>9

\* A step of a handler keeps the rows together.
LEMMA HandlersWhole ==
    ASSUME MInv, NEW w \in Everyone, Handling(w) \/ HandlingPending(w)
    PROVE  MInv'
<1>1. /\ CInv /\ KInv /\ WorkShape /\ (Handle(w) \/ HandlePending(w)) /\ UNCHANGED torn
      /\ "polls" \in DOMAIN db
    BY DEF MInv, CInv, KInv, Shaped, Handling, HandlingPending, pipeVars
<1>2. PICK next : Steps(w, next)
    BY <1>1, HandlersStep
<1>3. PICK to : Moves(w, to)
    BY <1>1, HandlersLead
<1>4. CInv'
    BY <1>1, HandlersClaim DEF Handling, HandlingPending
<1>5. Sound(db', Lost(w)) /\ Like(db', Gained(w))
    BY <1>1, HandlersSound
<1>6. /\ plan' = plan /\ Ids' = Ids /\ Everyone' = Everyone /\ db.tombs \subseteq db'.tombs
      /\ \A i : Kind(i)' = Kind(i) /\ (IsVote(i)' <=> IsVote(i)) /\ VoteRow(i)' = VoteRow(i) /\ VoteMention(i)' = VoteMention(i)
    BY <1>1, <1>2 DEF Steps, Bury, KInv, Shaped, TablesShape, Ids, Everyone, Kind, IsVote, VoteRow, VoteMention
<1>7. \A r : Gone(r) => Gone(r)'
    <2>1. \A d : Done(d) => Done(d)'
        BY <1>1, <1>2, DoneStays
    <2> QED  BY <1>6, <2>1 DEF Gone
<1>8. \A r \in Lost(w) : Gone(r)'
    <2>1. CASE Erase(w)
        BY <1>2, <2>1, ErasedGone
    <2>2. CASE ~At(w, "erase")
        BY <2>2 DEF Lost
    <2>3. At(w, "erase") => Erase(w)
        BY <1>1 DEF Handle, HandlePending, At, DeletedBefore, SignatureIsFresh, Save, SaveOptions, SaveMentions,
                    NotifyContent, DropIfDeleted, Withdraw, TargetIndexed, ReplaceVote, CommitVote, NotifyVote,
                    PollVote, Original, AuditEdit, EditContent, EditMentions, Tombstone, AuditDelete, Related,
                    RelationIsNewest, SaveFollow, NotifyFollow, SaveBlock, DenyTarget, PurgeTarget, DenyInMemory,
                    AllowTarget, OpenLedger, CommitProfile, RouteBroadcast, TipGates, Resolve, GiveUp, StoreBroadcast,
                    StoreTip, NotifyStored
    <2> QED  BY <2>1, <2>2, <2>3
<1>9. VotesPaired'
    BY <1>5, <1>6 DEF Sound, VotesPaired
<1>10. MentionsPaired'
    <2>1. ASSUME NEW m \in db'.mentions, m.kind = "vote"
          PROVE  Paired(m)'
        <3>1. PICK i : i = m.content
            OBVIOUS
        <3>2. PICK r : r = plan.txs[i].ref
            OBVIOUS
        <3>3. IsVote(i) /\ m = VoteMention(i) /\ (VoteRow(i) \in db'.votes \/ Gone(r) \/ r \in Lost(w))
            BY <1>5, <2>1, <3>1, <3>2 DEF Sound
        <3>4. VoteRow(i) \in db'.votes \/ Gone(r)'
            BY <1>7, <1>8, <3>3
        <3>5. plan'.txs[i].ref = r
            BY <1>6, <3>2
        <3>6. IsVote(i)' /\ m = VoteMention(i)' /\ (VoteRow(i)' \in db'.votes \/ Gone(plan.txs[i].ref)')
            BY <1>6, <3>3, <3>4, <3>5
        <3> QED  BY <3>1, <3>6 DEF Paired
    <2> QED  BY <2>1 DEF MentionsPaired
<1>11. work'[w].id = work[w].id /\ work'[w].pc = to /\ \A v \in Everyone : v # w => work'[v] = work[v]
    BY <1>1, <1>3, MemoMoves
<1>12. ASSUME NEW i, Whole(i)
       PROVE  Whole(i)'
    <2>1. db.polls \subseteq db'.polls
        BY <1>5 DEF Sound
    <2>2. CASE (\E p \in db.polls : p.id = i) \/ i \in torn
        BY <1>1, <2>1, <2>2 DEF Whole
    <2>3. CASE InHand(i, {"options"})
        <3>1. PICK v \in Everyone : work[v].id = i /\ work[v].pc = "options"
            BY <2>3 DEF InHand
        <3>2. CASE v # w
            BY <1>6, <1>11, <3>1, <3>2 DEF Whole, InHand
        <3>3. CASE v = w
            <4>1. SaveOptions(w)
                BY <1>1, <3>1, <3>3 DEF Handle, HandlePending, At, DeletedBefore, SignatureIsFresh, Save, SaveMentions,
                    NotifyContent, DropIfDeleted, Erase, Withdraw, TargetIndexed, ReplaceVote, CommitVote, NotifyVote,
                    PollVote, Original, AuditEdit, EditContent, EditMentions, Tombstone, AuditDelete, Related,
                    RelationIsNewest, SaveFollow, NotifyFollow, SaveBlock, DenyTarget, PurgeTarget, DenyInMemory,
                    AllowTarget, OpenLedger, CommitProfile, RouteBroadcast, TipGates, Resolve, GiveUp, StoreBroadcast,
                    StoreTip, NotifyStored
            <4>2. Tx(w).id = i
                BY <1>1, <3>1, <3>3, IdsFact DEF KInv, Known, Staged, InStage, Tx
            <4>3. [id |-> i, options |-> Tx(w).n, closes |-> Tx(w).closes] \in db'.polls
                BY <1>1, <4>1, <4>2 DEF SaveOptions, SavePollOptions
            <4> QED  BY <4>3 DEF Whole
        <3> QED  BY <3>2, <3>3
    <2> QED  BY <1>12, <2>2, <2>3 DEF Whole
<1>13. ASSUME NEW c \in db'.contents
       PROVE  "kind" \in DOMAIN c /\ c.kind = Kind(c.id) /\ (c.kind = "poll" => Whole(c.id)')
    <2>1. CASE \E b \in db.contents : b.id = c.id /\ b.kind = c.kind
        <3>1. PICK b \in db.contents : b.id = c.id /\ b.kind = c.kind
            BY <2>1
        <3>2. b.kind = Kind(b.id) /\ (b.kind = "poll" => Whole(b.id))
            BY DEF MInv, PollsWhole
        <3>3. c.kind = "poll" => Whole(c.id)'
            <4>1. PICK i : i = b.id
                OBVIOUS
            <4>2. c.kind = "poll" => Whole(i)'
                BY <1>12, <3>1, <3>2, <4>1
            <4>3. c.id = i
                BY <3>1, <4>1
            <4> QED  BY <4>2, <4>3
        <3> QED  BY <1>5, <3>1, <3>2, <3>3 DEF Like
    <2>2. CASE ~\E b \in db.contents : b.id = c.id /\ b.kind = c.kind
        <3>1. At(w, "save") /\ c = ContentRow(Tx(w))
            BY <1>5, <2>2 DEF Like, Gained
        <3>2. Save(w)
            BY <1>1, <3>1 DEF Handle, HandlePending, At, DeletedBefore, SignatureIsFresh, SaveOptions, SaveMentions,
                    NotifyContent, DropIfDeleted, Erase, Withdraw, TargetIndexed, ReplaceVote, CommitVote, NotifyVote,
                    PollVote, Original, AuditEdit, EditContent, EditMentions, Tombstone, AuditDelete, Related,
                    RelationIsNewest, SaveFollow, NotifyFollow, SaveBlock, DenyTarget, PurgeTarget, DenyInMemory,
                    AllowTarget, OpenLedger, CommitProfile, RouteBroadcast, TipGates, Resolve, GiveUp, StoreBroadcast,
                    StoreTip, NotifyStored
        <3>3. NewContent(db, Tx(w))
            BY <2>2, <3>2 DEF Save
        <3>4. c.id = work[w].id /\ c.kind = Tx(w).kind /\ c.kind = Kind(c.id)
            BY <1>1, <3>1, IdsFact DEF KInv, Known, Staged, InStage, Tx, Kind, At, ContentRow
        <3>5. c.kind = "poll" => Goto(w, "options")
            BY <3>2, <3>3, <3>4 DEF Save, Handles
        <3>6. c.kind = "poll" => work'[w].id = c.id /\ work'[w].pc = "options"
            BY <1>1, <3>4, <3>5, MemoMoves
        <3>7. c.kind = "poll" => Whole(c.id)'
            BY <1>6, <3>6 DEF Whole, InHand
        <3> QED  BY <1>5, <3>4, <3>7 DEF Like
    <2> QED  BY <2>1, <2>2
<1>14. PollsWhole'
    BY <1>6, <1>13 DEF PollsWhole
<1>15. ASSUME NEW v \in Everyone
       PROVE  PairStage(v)'
    <2>1. CASE v = w
        BY <1>1, <1>6, <2>1, HandlersPair
    <2>2. CASE v # w
        <3>1. work'[v] = work[v] /\ Tx(v)' = Tx(v)
            BY <1>6, <1>11, <2>2 DEF Tx
        <3>2. PairStage(v)
            BY DEF MInv
        <3>3. DeletedByAuthor(db, Tx(v)) => DeletedByAuthor(db', Tx(v))
            BY <1>6 DEF DeletedByAuthor
        <3>4. ByOwner(Tx(v))' <=> ByOwner(Tx(v))
            BY <1>6, <3>1 DEF ByOwner
        <3>5. (work[v].pc = "vote" => \A u \in work[v].memo : IsVote(u.id) /\ u = VoteRow(u.id))'
            BY <1>6, <3>1, <3>2 DEF PairStage
        <3> QED  BY <1>6, <3>1, <3>2, <3>3, <3>4, <3>5 DEF PairStage
    <2> QED  BY <2>1, <2>2
<1>16. "polls" \in DOMAIN db'
    BY <1>5 DEF Sound
<1> QED  BY <1>4, <1>6, <1>9, <1>10, <1>14, <1>15, <1>16 DEF MInv

\* The other steps of a worker end or begin its work on a transaction.
Resting == {"idle", "refetch", "tomb", "fresh", "done", "unknown", "route"}
Rests(v) ==
    \/ work'[v] = work[v]
    \/ /\ work'[v].pc \in Resting
       /\ work[v].pc \in Late /\ Kind(work[v].id) \in Content => work[v].id \in torn'

LEMMA AroundWhole ==
    ASSUME MInv, CInv', UNCHANGED <<plan, db>>, torn \subseteq torn', \A v \in Everyone : Rests(v)
    PROVE  MInv'
<1>1. /\ plan' = plan /\ db' = db /\ Ids' = Ids /\ Everyone' = Everyone
      /\ \A i : /\ Kind(i)' = Kind(i) /\ (IsVote(i)' <=> IsVote(i)) /\ VoteRow(i)' = VoteRow(i)
                /\ VoteMention(i)' = VoteMention(i) /\ (Buried(i)' <=> Buried(i))
    BY DEF Ids, Everyone, Kind, IsVote, VoteRow, VoteMention, Buried
<1>2. ASSUME NEW v \in Everyone, work[v].pc \in Late, Kind(work[v].id) \in Content
      PROVE  work'[v] = work[v] \/ work[v].id \in torn'
    BY <1>2 DEF Rests
<1>3. ASSUME NEW d, Done(d)
      PROVE  Done(d)'
    <2>1. ASSUME NEW c \in db.contents, Kept(c)
          PROVE  Kept(c)'
        <3>1. CASE c.id \in torn
            BY <3>1 DEF Kept
        <3>2. CASE InHand(c.id, Late)
            <4>1. PICK v \in Everyone : work[v].id = c.id /\ work[v].pc \in Late
                BY <3>2 DEF InHand
            <4>2. Kind(c.id) \in Content
                BY DEF MInv, CInv, KInv, RowsSound
            <4> QED  BY <1>1, <1>2, <4>1, <4>2 DEF Kept, InHand
        <3> QED  BY <2>1, <3>1, <3>2 DEF Kept
    <2> QED  BY <1>1, <1>3, <2>1 DEF Done, Fits
<1>4. \A r : Gone(r) => Gone(r)'
    BY <1>1, <1>3 DEF Gone
<1>5. ASSUME NEW i, Whole(i)
      PROVE  Whole(i)'
    <2>1. CASE InHand(i, {"options"})
        <3>1. PICK v \in Everyone : work[v].id = i /\ work[v].pc = "options"
            BY <2>1 DEF InHand
        <3>2. Kind(i) \in Content /\ work[v].pc \in Late
            BY <3>1 DEF MInv, CInv, ClaimStage, Content, Late
        <3> QED  BY <1>1, <1>2, <3>1, <3>2 DEF Whole, InHand
    <2> QED  BY <1>1, <1>5, <2>1 DEF Whole
<1>6. VotesPaired'
    BY <1>1 DEF MInv, VotesPaired
<1>7. MentionsPaired'
    <2>1. ASSUME NEW m \in db'.mentions, m.kind = "vote"
          PROVE  Paired(m)'
        <3>1. PICK i : i = m.content
            OBVIOUS
        <3>2. PICK r : r = plan.txs[i].ref
            OBVIOUS
        <3>3. IsVote(i) /\ m = VoteMention(i) /\ (VoteRow(i) \in db.votes \/ Gone(r))
            BY <1>1, <2>1, <3>1, <3>2 DEF MInv, MentionsPaired, Paired
        <3>4. VoteRow(i) \in db'.votes \/ Gone(r)'
            BY <1>1, <1>4, <3>3
        <3>5. plan'.txs[i].ref = r
            BY <1>1, <3>2
        <3>6. IsVote(i)' /\ m = VoteMention(i)' /\ (VoteRow(i)' \in db'.votes \/ Gone(plan.txs[i].ref)')
            BY <1>1, <3>3, <3>4, <3>5
        <3> QED  BY <3>1, <3>6 DEF Paired
    <2> QED  BY <2>1 DEF MentionsPaired
<1>8. ASSUME NEW c \in db'.contents
      PROVE  "kind" \in DOMAIN c /\ c.kind = Kind(c.id)' /\ (c.kind = "poll" => Whole(c.id)')
    <2>1. PICK i : i = c.id
        OBVIOUS
    <2>2. "kind" \in DOMAIN c /\ c.kind = Kind(i) /\ (c.kind = "poll" => Whole(i))
        BY <1>1, <1>8, <2>1 DEF MInv, PollsWhole
    <2>3. c.kind = Kind(i)' /\ (c.kind = "poll" => Whole(i)')
        BY <1>1, <1>5, <2>2
    <2> QED  BY <2>1, <2>2, <2>3
<1>9. PollsWhole'
    BY <1>8 DEF PollsWhole
<1>10. ASSUME NEW v \in Everyone
       PROVE  PairStage(v)'
    <2>1. CASE work'[v].pc \in Resting
        BY <2>1 DEF PairStage, Resting
    <2>2. CASE work'[v] = work[v]
        <3>1. Tx(v)' = Tx(v) /\ PairStage(v)
            BY <1>1, <2>2 DEF Tx, MInv
        <3>2. (DeletedByAuthor(db, Tx(v))' <=> DeletedByAuthor(db, Tx(v))) /\ (ByOwner(Tx(v))' <=> ByOwner(Tx(v)))
            BY <1>1, <3>1 DEF DeletedByAuthor, ByOwner
        <3>3. (work[v].pc = "vote" => \A u \in work[v].memo : IsVote(u.id) /\ u = VoteRow(u.id))'
            BY <1>1, <2>2, <3>1 DEF PairStage
        <3> QED  BY <1>1, <2>2, <3>1, <3>2, <3>3 DEF PairStage
    <2> QED  BY <2>1, <2>2 DEF Rests
<1> QED  BY <1>1, <1>6, <1>7, <1>9, <1>10 DEF MInv

LEMMA PlaceWhole ==
    ASSUME MInv, CInv', UNCHANGED <<plan, db>>, torn \subseteq torn',
           NEW w \in Everyone, NEW id, NEW pc \in Resting, NEW quiet, NEW memo,
           work' = [work EXCEPT ![w] = [id |-> id, pc |-> pc, quiet |-> quiet, memo |-> memo]],
           work[w].pc \in Late /\ Kind(work[w].id) \in Content => work[w].id \in torn'
    PROVE  MInv'
<1> DEFINE r == [id |-> id, pc |-> pc, quiet |-> quiet, memo |-> memo]
<1>1. work'[w] = r /\ \A v \in Everyone \ {w} : work'[v] = work[v]
    BY PutMoves DEF MInv, CInv, KInv, Shaped
<1>2. work'[w].pc = pc
    BY <1>1
<1> HIDE DEF r
<1>3. \A v \in Everyone : Rests(v)
    BY <1>1, <1>2 DEF Rests
<1> QED  BY <1>3, AroundWhole

LEMMA WorkersWhole ==
    ASSUME MInv, CInv', NEW w \in Workers,
           WorkerSteps(w) \/ FetchFails(w) \/ RefetchFails(w) \/ MarkFails(w)
    PROVE  MInv'
<1>1. UNCHANGED <<plan, db, torn>> /\ w \in Everyone
    BY DEF WorkerSteps, Fetch, Refetch, Consume, FetchFails, RefetchFails, MarkFails, pendingVars, Everyone
<1>2. work[w].pc \notin Late
    BY DEF WorkerSteps, Fetch, Refetch, Consume, FetchFails, RefetchFails, MarkFails, At, Late
<1>3. ASSUME NEW id, NEW quiet, Take(w, id, quiet)
      PROVE  MInv'
    <2> DEFINE pc == Entry(plan.txs[id])
    <2>1. work' = [work EXCEPT ![w] = [id |-> id, pc |-> pc, quiet |-> quiet, memo |-> {}]]
        BY <1>3 DEF Take
    <2>2. pc \in Resting
        BY DEF Entry, Resting
    <2> HIDE DEF pc
    <2> QED  BY <1>1, <1>2, <2>1, <2>2, PlaceWhole
<1>4. ASSUME work' = [work EXCEPT ![w] = Idle]
      PROVE  MInv'
    <2>1. work' = [work EXCEPT ![w] = [id |-> 0, pc |-> "idle", quiet |-> FALSE, memo |-> {}]]
        BY <1>4 DEF Idle
    <2> QED  BY <1>1, <1>2, <2>1, PlaceWhole DEF Resting
<1>5. ASSUME work' = work
      PROVE  MInv'
    BY <1>1, <1>5, AroundWhole DEF Rests
<1>6. CASE Fetch(w)
    BY <1>3, <1>5, <1>6 DEF Fetch
<1>7. CASE Refetch(w)
    BY <1>3, <1>4, <1>7 DEF Refetch
<1>8. CASE Consume(w) \/ RefetchFails(w) \/ MarkFails(w)
    BY <1>4, <1>8 DEF Consume, RefetchFails, MarkFails
<1>9. CASE FetchFails(w)
    <2>1. work' = [work EXCEPT ![w] = [id |-> Head(inbox[w]), pc |-> "refetch", quiet |-> FALSE, memo |-> {}]]
        BY <1>9 DEF FetchFails
    <2> QED  BY <1>1, <1>2, <2>1, PlaceWhole DEF Resting
<1> QED  BY <1>6, <1>7, <1>8, <1>9 DEF WorkerSteps

LEMMA FaultsWhole ==
    ASSUME MInv, CInv', Crash \/ \E w \in Everyone : StatementFails(w)
    PROVE  MInv'
<1>1. CASE Crash
    <2>1. /\ UNCHANGED <<plan, db>> /\ work' = [w \in Everyone |-> Idle]
          /\ torn' = torn \cup {work[w].id : w \in {v \in Everyone : Busy(v) /\ SavedPart(v)}}
        BY <1>1 DEF Crash
    <2>2. \A v \in Everyone : work'[v].pc = "idle"
        BY <2>1 DEF Idle
    <2>3. ASSUME NEW v \in Everyone, work[v].pc \in Late, Kind(work[v].id) \in Content
          PROVE  work[v].id \in torn'
        BY <2>1, <2>3, BusyLeaves DEF MInv, CInv
    <2>4. \A v \in Everyone : Rests(v)
        BY <2>2, <2>3 DEF Rests, Resting
    <2> QED  BY <2>1, <2>4, AroundWhole
<1>2. ASSUME NEW w \in Everyone, StatementFails(w)
      PROVE  MInv'
    <2> DEFINE old == work[w]
               r == [old EXCEPT !.pc = "unknown"]
    <2>1. UNCHANGED <<plan, db>> /\ torn' = IF SavedPart(w) THEN torn \cup {work[w].id} ELSE torn
        BY <1>2 DEF StatementFails
    <2>2. r = [id |-> old.id, pc |-> "unknown", quiet |-> old.quiet, memo |-> old.memo]
        BY PlacesAre DEF MInv, CInv, KInv, Shaped
    <2>3. \/ work' = [work EXCEPT ![w] = r]
          \/ work' = [work EXCEPT ![w] = [id |-> 0, pc |-> "idle", quiet |-> FALSE, memo |-> {}]]
        BY <1>2, PlacesAre DEF StatementFails, Idle, MInv, CInv, KInv, Shaped
    <2>4. torn \subseteq torn' /\ (old.pc \in Late /\ Kind(old.id) \in Content => old.id \in torn')
        BY <2>1, BusyLeaves DEF MInv, CInv
    <2> HIDE DEF r
    <2> QED  BY <2>1, <2>2, <2>3, <2>4, PlaceWhole DEF Resting
<1> QED  BY <1>1, <1>2

LEMMA RetryWhole ==
    ASSUME MInv, CInv', Retrying
    PROVE  MInv'
<1>1. UNCHANGED <<plan, db, torn>>
    BY DEF Retrying, Retry, TakePending, PendingDone, PendingUnknown, Reads, pipeVars
<1>2. work[Retrier].pc \notin Late
    BY DEF Retrying, Retry, TakePending, PendingDone, PendingUnknown, At, Late
<1>3. PICK w \in Everyone : w = Retrier
    BY DEF Everyone
<1>4. CASE TakePending
    <2>1. PICK r \in pending :
            work' = [work EXCEPT ![Retrier] =
              [id |-> r.id, quiet |-> FALSE, memo |-> {},
               pc |-> IF plan.txs[r.id].kind = "tip" THEN "fresh" ELSE IF plan.broadcasts THEN "route" ELSE "done"]]
        BY <1>4 DEF TakePending
    <2> DEFINE pc == IF plan.txs[r.id].kind = "tip" THEN "fresh" ELSE IF plan.broadcasts THEN "route" ELSE "done"
    <2>2. pc \in Resting
        BY DEF Resting
    <2>3. work' = [work EXCEPT ![w] = [id |-> r.id, pc |-> pc, quiet |-> FALSE, memo |-> {}]]
        BY <1>3, <2>1
    <2> HIDE DEF pc
    <2> QED  BY <1>1, <1>2, <1>3, <2>2, <2>3, PlaceWhole
<1>5. CASE PendingDone \/ PendingUnknown
    <2>1. work' = [work EXCEPT ![w] = [id |-> 0, pc |-> "idle", quiet |-> FALSE, memo |-> {}]]
        BY <1>3, <1>5 DEF PendingDone, PendingUnknown, Idle
    <2> QED  BY <1>1, <1>2, <1>3, <2>1, PlaceWhole DEF Resting
<1> QED  BY <1>4, <1>5 DEF Retrying, Retry

LEMMA QueueWhole ==
    ASSUME MInv, CInv',
           \/ Ingest \/ (\E id \in raw : PruneRaw(id)) \/ Listen \/ ListenerFails
           \/ Refresh \/ NodeSteps \/ Start \/ CatchUp \/ Requeue \/ RequeueFails \/ SweepPending
           \/ (\E force \in BOOLEAN : RequestReindex(force))
           \/ BeginWalk \/ WalkChecks \/ WalkStores \/ WalkFails \/ PruneRecovered
    PROVE  MInv'
<1>1. UNCHANGED <<plan, db, work, torn>>
    BY DEF Ingest, PruneRaw, Listen, ListenerFails, Refresh, RefreshDenylist, NodeSteps, Start, CatchUp, Requeue,
           RequeueFails, SweepPending, RequestReindex, BeginWalk, WalkChecks, WalkStores, WalkFails, PruneRecovered,
           storeVars, pendingVars, pipeVars
<1> QED  BY <1>1, AroundWhole DEF Rests

LEMMA InitWhole ==
    ASSUME Init
    PROVE  MInv
<1>1. /\ "polls" \in DOMAIN db /\ db.votes = {} /\ db.mentions = {} /\ db.contents = {}
    BY DEF Init, EmptyTables
<1>2. \A w \in Everyone : PairStage(w)
    BY DEF Init, PairStage, Idle
<1> QED  BY <1>1, <1>2, InitClaims DEF MInv, VotesPaired, MentionsPaired, PollsWhole

LEMMA NextWhole ==
    ASSUME MInv, [Next]_vars
    PROVE  MInv'
<1>1. CInv'
    BY NextClaims DEF MInv
<1>2. CASE \E w \in Workers : WorkerSteps(w) \/ FetchFails(w) \/ RefetchFails(w) \/ MarkFails(w)
    BY <1>1, <1>2, WorkersWhole
<1>3. CASE \E w \in Everyone : Handling(w) \/ HandlingPending(w) \/ StatementFails(w)
    BY <1>1, <1>3, HandlersWhole, FaultsWhole
<1>4. CASE UNCHANGED vars
    <2>1. UNCHANGED <<plan, db, work, torn>>
        BY <1>4 DEF vars, storeVars, pipeVars
    <2> QED  BY <1>1, <2>1, AroundWhole DEF Rests
<1> QED  BY <1>1, <1>2, <1>3, <1>4, QueueWhole, RetryWhole, FaultsWhole DEF Next

LEMMA CompanionRowsHold ==
    ASSUME MInv
    PROVE  CompanionRows
<1> DEFINE of(id) == {m \in db.mentions : m.kind = "vote" /\ m.content = id}
<1>1. ASSUME NEW v \in db.votes
      PROVE  Cardinality(of(v.id)) = 1
    <2>1. IsVote(v.id) /\ VoteMention(v.id) \in db.mentions /\ \A m \in of(v.id) : m = VoteMention(v.id)
        BY DEF MInv, VotesPaired, MentionsPaired, Paired
    <2>2. VoteMention(v.id).kind = "vote" /\ VoteMention(v.id).content = v.id
        BY DEF VoteMention, Mention
    <2>3. of(v.id) = {VoteMention(v.id)}
        BY <2>1, <2>2
    <2> HIDE DEF of
    <2> QED  BY <2>3, FS_Singleton
<1>2. ASSUME NEW id \in Ids, of(id) # {}, \A v \in db.votes : v.id # id,
             NEW c \in ContentOf(db, plan.txs[id].ref)
      PROVE  InHand(c.id, {"options", "mentions", "notify", "drop", "erase"}) \/ c.id \in torn
    <2>1. PICK r : r = plan.txs[id].ref
        OBVIOUS
    <2>2. IsVote(id) /\ (VoteRow(id) \in db.votes \/ Gone(r))
        BY <1>2, <2>1 DEF MInv, MentionsPaired, Paired
    <2>3. VoteRow(id).id = id
        BY IdsFact DEF VoteRow, MInv, CInv, KInv, Known
    <2>4. PICK d \in Ids : Done(d) /\ plan.txs[d].ref = r /\ plan.txs[d].by = plan.txs[r].by
        BY <1>2, <2>2, <2>3 DEF Gone
    <2>5. c \in db.contents /\ c.id = r
        BY <1>2, <2>1 DEF ContentOf
    <2>6. c.by = plan.txs[r].by
        BY <2>5 DEF MInv, CInv, KInv, RowsSound
    <2>7. Kept(c)
        BY <2>4, <2>5, <2>6 DEF Done, Fits
    <2> QED  BY <2>7 DEF Kept, Late
<1>3. ASSUME NEW c \in db.contents, c.kind = "poll"
      PROVE  (\E p \in db.polls : p.id = c.id) \/ InHand(c.id, {"options"}) \/ c.id \in torn
    BY <1>3 DEF MInv, PollsWhole, Whole
<1> QED  BY <1>1, <1>2, <1>3 DEF CompanionRows

\* Votes and their notifications, polls and their options come and go together
\* (CompanionRows), whatever the workers, the faults and the restarts.
THEOREM CompanionTheorem == Spec => []CompanionRows
<1>1. Init => MInv
    BY InitWhole
<1>2. MInv /\ [Next]_vars => MInv'
    BY NextWhole
<1>3. MInv => CompanionRows
    BY CompanionRowsHold
<1> QED  BY <1>1, <1>2, <1>3, PTL DEF Spec
-----------------------------------------------------------------------------
(* The newest action decides.                                              *)

Tables == {"contents", "edits", "follows", "blocks", "last", "ledger", "profiles", "used"}
Time(id) == plan.txs[id].time
EditRow(id) ==
    LET tx == plan.txs[id]
    IN [id |-> tx.id, sig |-> tx.sig, post |-> tx.ref, time |-> tx.time, text |-> tx.text]
ProfileRow(id) == [id |-> plan.txs[id].id, by |-> plan.txs[id].by, time |-> plan.txs[id].time]

\* Every accepted edit is on record, and what is on record is an accepted edit.
EditsSound == \A e \in db.edits : e.id \in Ids /\ Kind(e.id) = "edit" /\ Claims(e.id) /\ e = EditRow(e.id)
TextsSound ==
    \A c \in db.contents :
        {"time", "edited", "text"} \subseteq DOMAIN c /\ c.time \in Nat /\ c.edited \in Nat

\* One profile for a person whose broadcasts did not meet.
ProfileRaced(x) == <<"profile", x, 0>> \in raced
OfPerson(rows, x) == {p \in rows : XOnly(p.by) = x}
ProfilesSound ==
    /\ \A p \in db.profiles : p.id \in Ids /\ p = ProfileRow(p.id)
    /\ \A l \in db.ledger : l.id \in Ids
    /\ \A p, q \in db.profiles : XOnly(p.by) = XOnly(q.by) /\ ~ProfileRaced(XOnly(p.by)) => p = q
    /\ \A l \in db.ledger :
         ~ProfileRaced(XOnly(plan.txs[l.id].by)) =>
           \E p \in db.profiles : XOnly(p.by) = XOnly(plan.txs[l.id].by) /\ p.time >= Time(l.id)

\* One newest action for a pair, and no row of it that is younger.
LastSound ==
    /\ \A l \in db.last : l.time \in Nat
    /\ \A l, m \in db.last : l.pair = m.pair => l = m
    /\ \A r \in db.follows : r.time \in Nat /\ \E l \in db.last : l.pair = <<"follow", r.by, XOnly(r.who)>> /\ r.time <= l.time
    /\ \A r \in db.blocks : r.time \in Nat /\ \E l \in db.last : l.pair = <<"block", r.by, XOnly(r.who)>> /\ r.time <= l.time

Relating(id) == id \in Ids /\ Kind(id) \in {"follow", "block"}
Recorded(id) == \E l \in db.last : l.pair = PairOf(plan.txs[id]) /\ l.time >= Time(id)
IsLast(id) == \E l \in db.last : l.pair = PairOf(plan.txs[id]) /\ l.time = Time(id) /\ l.as = plan.txs[id].as
\* What an accepted action that needs no content behind it has seen to.
AllRecorded ==
    \A id \in Ids :
        Relating(id) /\ Accepted(id) /\ plan.txs[id].as # "follow" =>
          InHand(id, {"newest"}) \/ id \in half \/ Recorded(id)

Matches(pair) == RowOf(pair) # {} <=> \E l \in db.last : l.pair = pair /\ l.as = pair[1]
Carrying(pair) == \E v \in Everyone : At(v, "relate") /\ PairOf(Tx(v)) = pair
Interrupted(pair) == \E id \in half : Relating(id) /\ PairOf(plan.txs[id]) = pair /\ IsLast(id)
AllCarried ==
    \A pair \in Pairs :
        pair \notin raced /\ ~Blocked(pair[2]) => Matches(pair) \/ Carrying(pair) \/ Interrupted(pair)

\* What a worker on its way goes by.
OrderStage(w) ==
    LET id == work[w].id
        x  == XOnly(Tx(w).by)
    IN /\ w = Retrier => work[w].pc \in {"idle", "refetch"} \/ Kind(id) \in {"bcast", "tip"}
       /\ work[w].pc \in {"related", "newest", "relate"} => Kind(id) \in {"follow", "block"}
       /\ work[w].pc \in {"ledger", "profile"} => Kind(id) = "profile"
       /\ work[w].pc = "apply" => EditRow(id) \in db.edits
       /\ work[w].pc = "relate" => Recorded(id)
       /\ work[w].pc = "relate" /\ PairOf(Tx(w)) \notin raced =>
            /\ IsLast(id)
            /\ \A v \in Everyone : v # w /\ At(v, "relate") => PairOf(Tx(v)) # PairOf(Tx(w))
       /\ work[w].pc = "profile" /\ ~ProfileRaced(x) =>
            /\ OfPerson(work[w].memo, x) = OfPerson(db.profiles, x)
            /\ \A v \in Everyone : v # w /\ At(v, "profile") => XOnly(Tx(v).by) # x
       /\ work[w].pc \in {"operator", "purge"} => IsOperator(Tx(w).by)
       /\ work[w].pc = "purge" => Tx(w).as = "block"

NInv ==
    /\ MInv /\ Tables \subseteq DOMAIN db
    /\ EditsSound /\ TextsSound /\ EditNewest
    /\ ProfilesSound
    /\ LastSound /\ AllRecorded /\ AllCarried
    /\ \A w \in Everyone : OrderStage(w)

\* Which tables of these a statement leaves as they are: all but those of S.
Frame(d, S) ==
    /\ Tables \subseteq DOMAIN d
    /\ "contents" \in S \/ d.contents = db.contents
    /\ "edits" \in S \/ d.edits = db.edits
    /\ "follows" \in S \/ d.follows = db.follows
    /\ "blocks" \in S \/ d.blocks = db.blocks
    /\ "last" \in S \/ d.last = db.last
    /\ "ledger" \in S \/ d.ledger = db.ledger
    /\ "profiles" \in S \/ d.profiles = db.profiles
    /\ "used" \in S \/ d.used = db.used

LEMMA StatementsFrame ==
    ASSUME TableLike(db), Tables \subseteq DOMAIN db, NEW tx
    PROVE  /\ Frame(db, {}) /\ Frame(SavePollOptions(db, tx), {}) /\ Frame(RecordDelete(db, tx), {})
           /\ Frame(SaveBallot(db, tx), {}) /\ Frame(Bury(db, tx), {}) /\ Frame(SavePollMentions(db, tx), {})
           /\ Frame(SaveTip(db, tx), {}) /\ Frame(Unvote(db, tx), {})
           /\ \A memo : Frame(CastVote(db, tx, memo), {})
           /\ \A kind : Frame(AddEditMentions(db, tx, kind), {})
           /\ \A who : Frame(Deny(db, who), {}) /\ Frame(Allow(db, who), {})
           /\ \A rows : Frame([db EXCEPT !.bcasts = rows], {})
           /\ Frame(Unquote(db, tx), {"contents"}) /\ Unquote(db, tx).contents \subseteq db.contents
           /\ \A post, author : /\ Frame(HardDelete(db, post, author), {"contents"})
                                /\ HardDelete(db, post, author).contents \subseteq db.contents
           /\ Frame(Claimed(db, tx), {"used"}) /\ db.used \subseteq Claimed(db, tx).used
           /\ Frame(RecordEdit(db, tx), {"edits"}) /\ Frame(ApplyEdit(db, tx), {"contents"})
           /\ Frame(RecordRelation(db, tx), {"last"})
           /\ Frame(Follow(db, tx), {"follows"}) /\ Frame(Unfollow(db, tx), {"follows"})
           /\ Frame(Block(db, tx), {"blocks"}) /\ Frame(Unblock(db, tx), {"blocks"})
           /\ \A seen : Frame(SaveProfile(db, tx, seen), {"ledger", "profiles"})
           /\ \A who : Frame(Purge(db, who), {"contents", "follows", "blocks"})
           /\ tx.kind \in Content => Frame(SaveContent(db, tx), {"contents"})
<1>1. Tables \subseteq DOMAIN db
    OBVIOUS
<1>2. Frame(db, {}) /\ Frame(SavePollOptions(db, tx), {})
    BY DEF Frame, Tables, SavePollOptions
<1>3. Frame(RecordDelete(db, tx), {}) /\ Frame(SaveBallot(db, tx), {})
    BY DEF Frame, Tables, RecordDelete, SaveBallot
<1>4. Frame(Bury(db, tx), {}) /\ Frame(SavePollMentions(db, tx), {})
    BY DEF Frame, Tables, Bury, SavePollMentions
<1>5. Frame(SaveTip(db, tx), {}) /\ Frame(Unvote(db, tx), {})
    BY DEF Frame, Tables, SaveTip, Unvote
<1>6. ASSUME NEW memo
      PROVE  Frame(CastVote(db, tx, memo), {})
    <2> DEFINE cleared == [db EXCEPT !.votes = @ \ memo, !.mentions = @ \ VoteMentions(db, memo)]
    <2>1. Frame(cleared, {}) /\ DOMAIN cleared = DOMAIN db /\ cleared = [f \in DOMAIN cleared |-> cleared[f]]
        BY DEF Frame, Tables
    <2> HIDE DEF cleared
    <2>2. PICK row : row = [id |-> tx.id, by |-> tx.by, sig |-> tx.sig, time |-> tx.time, post |-> tx.ref, vote |-> tx.as]
        OBVIOUS
    <2>3. PICK m : m = Mention(tx.id, "vote", tx.who[1], tx.by)
        OBVIOUS
    <2>4. \/ CastVote(db, tx, memo) = cleared
          \/ CastVote(db, tx, memo) = [cleared EXCEPT !.votes = @ \cup {row}, !.mentions = @ \cup {m}]
        BY <2>2, <2>3 DEF CastVote, cleared
    <2>5. Frame([cleared EXCEPT !.votes = @ \cup {row}, !.mentions = @ \cup {m}], {})
        BY <2>1 DEF Frame, Tables
    <2> QED  BY <2>1, <2>4, <2>5
<1>7. \A kind : Frame(AddEditMentions(db, tx, kind), {})
    BY DEF Frame, Tables, AddEditMentions
<1>8. /\ \A who : Frame(Deny(db, who), {}) /\ Frame(Allow(db, who), {})
      /\ \A rows : Frame([db EXCEPT !.bcasts = rows], {})
    BY DEF Frame, Tables, Deny, Allow
<1>9. Frame(Unquote(db, tx), {"contents"}) /\ Unquote(db, tx).contents \subseteq db.contents
    BY DEF Frame, Tables, Unquote
<1>10. ASSUME NEW post, NEW author
       PROVE  /\ Frame(HardDelete(db, post, author), {"contents"})
              /\ HardDelete(db, post, author).contents \subseteq db.contents
    BY DEF Frame, Tables, HardDelete
<1>11. Frame(Claimed(db, tx), {"used"}) /\ db.used \subseteq Claimed(db, tx).used
    BY DEF Frame, Tables, Claimed
<1>12. Frame(RecordEdit(db, tx), {"edits"}) /\ Frame(ApplyEdit(db, tx), {"contents"})
    BY DEF Frame, Tables, RecordEdit, ApplyEdit
<1>13. Frame(RecordRelation(db, tx), {"last"}) /\ Frame(Follow(db, tx), {"follows"}) /\ Frame(Unfollow(db, tx), {"follows"})
    BY DEF Frame, Tables, RecordRelation, Follow, Unfollow
<1>14. Frame(Block(db, tx), {"blocks"}) /\ Frame(Unblock(db, tx), {"blocks"})
    BY DEF Frame, Tables, Block, Unblock
<1>15. ASSUME NEW seen
       PROVE  Frame(SaveProfile(db, tx, seen), {"ledger", "profiles"})
    BY DEF Frame, Tables, SaveProfile
<1>16. \A who : Frame(Purge(db, who), {"contents", "follows", "blocks"})
    BY DEF Frame, Tables, Purge
<1>17. ASSUME tx.kind \in Content
       PROVE  Frame(SaveContent(db, tx), {"contents"})
    <2>1. Frame(SavePost(db, tx), {"contents"}) /\ Frame(SaveReply(db, tx), {"contents"})
        BY DEF Frame, Tables, SavePost, SaveReply
    <2>2. Frame(SaveQuote(db, tx), {"contents"}) /\ Frame(SavePoll(db, tx), {"contents"})
        BY DEF Frame, Tables, SaveQuote, SavePoll
    <2> QED  BY <1>17, <2>1, <2>2 DEF SaveContent, Content
<1> QED  BY <1>2, <1>3, <1>4, <1>5, <1>6, <1>7, <1>8, <1>9, <1>10, <1>11, <1>12, <1>13, <1>14, <1>15, <1>16, <1>17

\* Most steps of a handler leave the tables of the newest actions alone.
Calm(w) ==
    /\ Frame(db', {"contents"}) /\ db'.contents \subseteq db.contents /\ half' = half
    /\ work[w].pc \notin {"fresh", "save", "apply", "newest", "relate", "profile"}

LEMMA HandlersCalm ==
    ASSUME TableLike(db), Tables \subseteq DOMAIN db, NEW w \in Everyone, Handle(w) \/ HandlePending(w)
    PROVE  \/ Calm(w) \/ SignatureIsFresh(w) \/ Save(w) \/ AuditEdit(w) \/ EditContent(w) \/ RelationIsNewest(w)
           \/ SaveFollow(w) \/ SaveBlock(w) \/ PurgeTarget(w) \/ CommitProfile(w)
<1> DEFINE tx == Tx(w)
<1>1. ASSUME Frame(db', {}), half' = half, work[w].pc \notin {"fresh", "save", "apply", "newest", "relate", "profile"}
      PROVE  Calm(w)
    BY <1>1 DEF Calm, Frame
<1>2. CASE \/ DeletedBefore(w) \/ NotifyContent(w) \/ DropIfDeleted(w) \/ TargetIndexed(w) \/ ReplaceVote(w)
           \/ NotifyVote(w) \/ Original(w) \/ Related(w) \/ NotifyFollow(w) \/ DenyInMemory(w) \/ OpenLedger(w)
           \/ RouteBroadcast(w) \/ TipGates(w) \/ Resolve(w) \/ GiveUp(w) \/ NotifyStored(w)
    <2>1. db' = db /\ half' = half
        BY <1>2 DEF DeletedBefore, NotifyContent, DropIfDeleted, TargetIndexed, ReplaceVote, NotifyVote, Original, Related,
                    NotifyFollow, DenyInMemory, OpenLedger, RouteBroadcast, TipGates, Resolve, GiveUp, NotifyStored, Reads
    <2>2. work[w].pc \notin {"fresh", "save", "apply", "newest", "relate", "profile"}
        BY <1>2 DEF DeletedBefore, NotifyContent, DropIfDeleted, TargetIndexed, ReplaceVote, NotifyVote, Original, Related,
                    NotifyFollow, DenyInMemory, OpenLedger, RouteBroadcast, TipGates, Resolve, GiveUp, NotifyStored, At
    <2>3. Frame(db', {})
        BY <2>1, StatementsFrame
    <2> QED  BY <1>1, <2>1, <2>2, <2>3
<1>3. CASE SaveOptions(w) \/ SaveMentions(w) \/ PollVote(w) \/ Tombstone(w) \/ AuditDelete(w) \/ EditMentions(w)
    <2>1. half' = half /\ work[w].pc \in {"options", "mentions", "ballot", "bury", "record"}
        BY <1>3 DEF SaveOptions, SaveMentions, PollVote, Tombstone, AuditDelete, EditMentions, Writes, At
    <2>2. Frame(db', {})
        BY <1>3, StatementsFrame DEF SaveOptions, SaveMentions, PollVote, Tombstone, AuditDelete, EditMentions
    <2> QED  BY <1>1, <2>1, <2>2
<1>4. CASE CommitVote(w) \/ StoreBroadcast(w) \/ StoreTip(w) \/ DenyTarget(w) \/ AllowTarget(w)
    <2>1. half' = half /\ work[w].pc \in {"vote", "store", "operator"}
        BY <1>4 DEF CommitVote, StoreBroadcast, StoreTip, DenyTarget, AllowTarget, Writes, At
    <2>2. \/ db' \in {db, CastVote(db, tx, work[w].memo), SaveTip(db, tx), Deny(db, tx.who[1]), Allow(db, tx.who[1])}
          \/ \E rows : db' = [db EXCEPT !.bcasts = rows]
        BY <1>4 DEF CommitVote, StoreBroadcast, StoreTip, DenyTarget, AllowTarget
    <2>3. Frame(db', {})
        BY <2>2, StatementsFrame
    <2> QED  BY <1>1, <2>1, <2>3
<1>5. CASE Withdraw(w) \/ Erase(w)
    <2>1. half' = half /\ work[w].pc \in {"withdraw", "erase"}
        BY <1>5 DEF Withdraw, Erase, Writes, At
    <2>2. \/ db' \in {Unquote(db, tx), Unvote(db, tx)}
          \/ \E post, author : db' = HardDelete(db, post, author)
        BY <1>5 DEF Withdraw, Erase
    <2>3. Frame(db', {"contents"}) /\ db'.contents \subseteq db.contents
        <3>1. CASE db' = Unvote(db, tx)
            <4>1. Frame(db', {})
                BY <3>1, StatementsFrame
            <4> QED  BY <4>1 DEF Frame
        <3> QED  BY <2>2, <3>1, StatementsFrame
    <2> QED  BY <2>1, <2>3 DEF Calm
<1> QED  BY <1>2, <1>3, <1>4, <1>5 DEF Handle, HandlePending

\* What every step of a handler keeps.
Forward(w) ==
    /\ MInv' /\ plan' = plan /\ Ids' = Ids /\ Everyone' = Everyone /\ Tables \subseteq DOMAIN db'
    /\ raced \subseteq raced' /\ db.used \subseteq db'.used
    /\ work'[w].id = work[w].id /\ \A v \in Everyone : v # w => work'[v] = work[v]

LEMMA HandlersForward ==
    ASSUME NInv, NEW w \in Everyone, Handling(w) \/ HandlingPending(w)
    PROVE  Forward(w)
<1>1. /\ MInv /\ CInv /\ KInv /\ WorkShape /\ TableLike(db) /\ Tables \subseteq DOMAIN db /\ (Handle(w) \/ HandlePending(w))
      /\ UNCHANGED torn
    BY DEF NInv, MInv, CInv, KInv, Shaped, Handling, HandlingPending, pipeVars
<1>2. PICK next : Steps(w, next)
    BY <1>1, HandlersStep
<1>3. PICK to : Moves(w, to)
    BY <1>1, HandlersLead
<1>4. MInv'
    BY <1>1, HandlersWhole
<1>5. work'[w].id = work[w].id /\ \A v \in Everyone : v # w => work'[v] = work[v]
    BY <1>1, <1>3, MemoMoves
<1>6. plan' = plan /\ Ids' = Ids /\ Everyone' = Everyone /\ raced \subseteq raced'
    BY <1>2 DEF Steps, Ids, Everyone
<1>7. db.used \subseteq db'.used
    <2>1. db'.used = db.used \/ db'.used = Claimed(db, Tx(w)).used
        BY <1>2 DEF Steps
    <2> QED  BY <1>1, <2>1, StatementsFrame
<1>8. Tables \subseteq DOMAIN db'
    <2>0. \A S : Frame(db', S) => Tables \subseteq DOMAIN db'
        BY DEF Frame
    <2>1. CASE Calm(w)
        BY <2>0, <2>1 DEF Calm
    <2>2. CASE SignatureIsFresh(w) \/ AuditEdit(w) \/ EditContent(w) \/ RelationIsNewest(w)
        BY <1>1, <2>0, <2>2, StatementsFrame DEF SignatureIsFresh, AuditEdit, EditContent, RelationIsNewest
    <2>3. CASE SaveFollow(w) \/ SaveBlock(w) \/ PurgeTarget(w) \/ CommitProfile(w)
        BY <1>1, <2>0, <2>3, StatementsFrame DEF SaveFollow, SaveBlock, PurgeTarget, CommitProfile
    <2>4. CASE Save(w)
        <3>1. Tx(w).kind \in Content
            BY <1>1, <2>4 DEF Save, At, KInv, Staged, InStage, Kind, Tx
        <3>2. db' \in {db, SaveContent(db, Tx(w))}
            BY <2>4 DEF Save
        <3> QED  BY <1>1, <2>0, <3>1, <3>2, StatementsFrame
    <2> QED  BY <1>1, <2>1, <2>2, <2>3, <2>4, HandlersCalm
<1> QED  BY <1>4, <1>5, <1>6, <1>7, <1>8 DEF Forward

\* What an edit that the content does not show is excused by.
EditHeld(i) == InHand(i, {"apply"}) \/ i \in half \/ <<"edit", i, 0>> \in raced

LEMMA EditsAround ==
    ASSUME NInv, plan' = plan, Ids' = Ids, db'.edits = db.edits, db'.contents \subseteq db.contents,
           db.used \subseteq db'.used, \A e \in db.edits : EditHeld(e.id) => EditHeld(e.id)'
    PROVE  EditsSound' /\ TextsSound' /\ EditNewest'
<1>1. \A i : (Claims(i) => Claims(i)') /\ EditRow(i)' = EditRow(i) /\ Kind(i)' = Kind(i)
    BY DEF Claims, EditRow, Kind
<1>2. EditsSound' /\ TextsSound'
    BY <1>1 DEF NInv, EditsSound, TextsSound
<1>3. \A c \in db'.contents : c.edited # 0 => \E e \in db'.edits : e.post = c.id /\ e.time = c.edited /\ e.text = c.text
    BY DEF NInv, EditNewest
<1>4. ASSUME NEW c \in db'.contents, NEW e \in db'.edits, e.post = c.id, Supersedes(e, c)
      PROVE  EditHeld(e.id)'
    BY <1>4 DEF NInv, EditNewest, EditHeld
<1> QED  BY <1>2, <1>3, <1>4 DEF EditNewest, EditHeld

LEMMA EditsKept ==
    ASSUME NInv, NEW w \in Everyone, Handling(w) \/ HandlingPending(w), Forward(w)
    PROVE  EditsSound' /\ TextsSound' /\ EditNewest'
<1> DEFINE tx == Tx(w)
<1>0. PICK id : id = work[w].id
    OBVIOUS
<1>1. /\ MInv /\ KInv /\ TableLike(db) /\ Tables \subseteq DOMAIN db /\ (Handle(w) \/ HandlePending(w))
      /\ plan' = plan /\ Ids' = Ids /\ Everyone' = Everyone /\ db.used \subseteq db'.used /\ raced \subseteq raced'
      /\ work'[w].id = id /\ (\A v \in Everyone : v # w => work'[v] = work[v])
      /\ OrderStage(w) /\ PairStage(w) /\ InStage(w) /\ ClaimStage(w)
    BY <1>0 DEF Forward, NInv, MInv, CInv, KInv, Staged, Handling, HandlingPending
<1>2. work[w].pc \notin {"idle", "refetch"} => id \in Ids /\ tx.id = id /\ tx = plan.txs[id] /\ Kind(id) = tx.kind
    BY <1>0, <1>1, IdsFact DEF KInv, Known, InStage, Tx, Kind
<1>3. \A i : InHand(i, {"apply"}) => InHand(i, {"apply"})' \/ (i = id /\ work[w].pc = "apply")
    BY <1>0, <1>1 DEF InHand
<1>4. ASSUME db'.edits = db.edits, db'.contents \subseteq db.contents, work[w].pc # "apply",
             half \subseteq half' \cup {id}, id \in half => id \in half' \/ Kind(id) # "edit"
      PROVE  EditsSound' /\ TextsSound' /\ EditNewest'
    <2>1. \A e \in db.edits : EditHeld(e.id) => EditHeld(e.id)'
        BY <1>1, <1>3, <1>4 DEF EditHeld, NInv, EditsSound
    <2> QED  BY <1>1, <1>4, <2>1, EditsAround
<1>5. CASE Calm(w)
    BY <1>4, <1>5 DEF Calm, Frame
<1>6. CASE SignatureIsFresh(w)
    <2>1. half' = half /\ work[w].pc = "fresh"
        BY <1>6 DEF SignatureIsFresh, Writes, At
    <2>2. Frame(db', {"used"})
        <3>1. Frame(db, {}) /\ Frame(Claimed(db, tx), {"used"})
            BY <1>1, StatementsFrame
        <3>2. Frame(db, {"used"})
            BY <3>1 DEF Frame
        <3> QED  BY <1>6, <3>1, <3>2 DEF SignatureIsFresh
    <2> QED  BY <1>4, <2>1, <2>2 DEF Frame
<1>7. CASE RelationIsNewest(w) \/ SaveFollow(w) \/ SaveBlock(w)
    <2>1. work[w].pc \in {"newest", "relate"}
        BY <1>7 DEF RelationIsNewest, SaveFollow, SaveBlock, At
    <2>2. half \subseteq half' \cup {id} /\ Kind(id) # "edit"
        BY <1>0, <1>1, <1>2, <1>7, <2>1 DEF RelationIsNewest, SaveFollow, SaveBlock, OrderStage
    <2>3. Frame(db', {"last", "follows", "blocks"})
        <3>1. \A d : Frame(d, {"last"}) \/ Frame(d, {"follows"}) \/ Frame(d, {"blocks"}) => Frame(d, {"last", "follows", "blocks"})
            BY DEF Frame
        <3> QED  BY <1>1, <1>7, <3>1, StatementsFrame DEF RelationIsNewest, SaveFollow, SaveBlock
    <2> QED  BY <1>4, <2>1, <2>2, <2>3 DEF Frame
<1>8. CASE PurgeTarget(w)
    <2>1. half' = half /\ work[w].pc = "purge" /\ db' = Purge(db, tx.who[1])
        BY <1>8 DEF PurgeTarget, At
    <2>2. Frame(db', {"contents", "follows", "blocks"})
        BY <1>1, <2>1, StatementsFrame
    <2>3. db'.contents \subseteq db.contents
        BY <1>1, <2>1 DEF Purge, Tables
    <2> QED  BY <1>4, <2>1, <2>2, <2>3 DEF Frame
<1>9. CASE CommitProfile(w)
    <2>1. half' = half /\ work[w].pc = "profile" /\ db' = SaveProfile(db, tx, work[w].memo)
        BY <1>9 DEF CommitProfile, At, Writes
    <2>2. Frame(db', {"ledger", "profiles"})
        BY <1>1, <2>1, StatementsFrame
    <2> QED  BY <1>4, <2>1, <2>2 DEF Frame
<1>10. CASE Save(w)
    <2>1. work[w].pc = "save" /\ tx.kind \in Content /\ half' = half /\ tx.id = id
        BY <1>0, <1>1, <1>2, <1>10 DEF Save, At, InStage
    <2>2. CASE ~NewContent(db, Tx(w))
        <3>1. db' = db
            BY <1>10, <2>2 DEF Save
        <3> QED  BY <1>4, <2>1, <3>1
    <2>3. CASE NewContent(db, Tx(w))
        <3>1. PICK d : d = SaveContent(db, tx)
            OBVIOUS
        <3>2. PICK row : row = ContentRow(tx)
            OBVIOUS
        <3>3. db' = d /\ raced' = raced \cup {<<"edit", e.id, 0>> : e \in {e \in db.edits : e.post = id}}
            BY <1>10, <2>1, <2>3, <3>1 DEF Save
        <3>4. Frame(d, {"contents"})
            BY <1>1, <2>1, <3>1, StatementsFrame
        <3>5. d.contents = db.contents \cup {row}
            BY <1>1, <2>1, <3>1, <3>2 DEF SaveContent, SavePost, SaveReply, SaveQuote, SavePoll, Content, Tables
        <3>6. /\ {"time", "edited", "text"} \subseteq DOMAIN row /\ row.id = id /\ row.edited = 0 /\ row.time \in Nat
            <4>1. tx.time \in Nat
                BY <1>1, <1>2, <2>1, PlansAssumption DEF KInv, Known, Ids
            <4> QED  BY <2>1, <3>2, <4>1 DEF ContentRow
        <3>7. \A i : (Claims(i) => Claims(i)') /\ EditRow(i)' = EditRow(i) /\ Kind(i)' = Kind(i)
            BY <1>1 DEF Claims, EditRow, Kind
        <3>8. db'.edits = db.edits
            BY <3>3, <3>4 DEF Frame
        <3>9. EditsSound' /\ TextsSound'
            BY <1>1, <3>3, <3>5, <3>6, <3>7, <3>8 DEF NInv, EditsSound, TextsSound
        <3>10. \A i : EditHeld(i) => EditHeld(i)'
            BY <1>1, <1>3, <2>1 DEF EditHeld
        <3>11. ASSUME NEW c \in db'.contents, NEW e \in db'.edits, e.post = c.id, Supersedes(e, c)
               PROVE  EditHeld(e.id)'
            <4>1. CASE c = row
                BY <3>3, <3>6, <3>8, <3>11, <4>1 DEF EditHeld
            <4>2. CASE c \in db.contents
                BY <3>8, <3>10, <3>11, <4>2 DEF NInv, EditNewest, EditHeld
            <4> QED  BY <3>3, <3>5, <4>1, <4>2
        <3>12. ASSUME NEW c \in db'.contents, c.edited # 0
               PROVE  \E e \in db'.edits : e.post = c.id /\ e.time = c.edited /\ e.text = c.text
            <4>1. c \in db.contents
                BY <3>3, <3>5, <3>6, <3>12
            <4> QED  BY <3>8, <3>12, <4>1 DEF NInv, EditNewest
        <3> QED  BY <3>9, <3>11, <3>12 DEF EditNewest, EditHeld
    <2> QED  BY <2>2, <2>3
<1>11. CASE AuditEdit(w)
    <2>1. work[w].pc = "audit" /\ half' = half /\ db' = RecordEdit(db, tx) /\ Goto(w, "apply")
        BY <1>11 DEF AuditEdit, At, Writes
    <2>2. /\ Kind(id) = "edit" /\ Claims(id) /\ tx = plan.txs[id] /\ tx.id = id /\ id \in Ids
        BY <1>0, <1>1, <1>2, <2>1 DEF PairStage, ClaimStage, Unclaimed
    <2>3. Frame(db', {"edits"})
        BY <1>1, <2>1, StatementsFrame
    <2>4. db'.edits \subseteq db.edits \cup {EditRow(id)} /\ db.edits \subseteq db'.edits
        BY <1>1, <2>1, <2>2 DEF RecordEdit, EditRow, Tables
    <2>5. \A i : (Claims(i) => Claims(i)') /\ EditRow(i)' = EditRow(i) /\ Kind(i)' = Kind(i)
        BY <1>1 DEF Claims, EditRow, Kind
    <2>6. EditRow(id).id = id /\ db'.contents = db.contents
        BY <2>2, <2>3 DEF EditRow, Frame
    <2>7. EditsSound' /\ TextsSound'
        <3>1. ASSUME NEW e \in db'.edits
              PROVE  e.id \in Ids /\ Kind(e.id) = "edit" /\ Claims(e.id) /\ e = EditRow(e.id)
            BY <2>2, <2>4, <2>6 DEF NInv, EditsSound
        <3>2. TextsSound'
            BY <2>6 DEF NInv, TextsSound
        <3> QED  BY <1>1, <2>5, <3>1, <3>2 DEF EditsSound
    <2>8. work'[w].pc = "apply"
        BY <1>1, <2>1, MemoMoves DEF KInv, Shaped
    <2>9. \A i : EditHeld(i) => EditHeld(i)'
        BY <1>1, <1>3, <2>1 DEF EditHeld
    <2>10. EditHeld(id)'
        BY <1>1, <2>8 DEF EditHeld, InHand
    <2>11. ASSUME NEW c \in db'.contents, NEW e \in db'.edits, e.post = c.id, Supersedes(e, c)
           PROVE  EditHeld(e.id)'
        <3>1. CASE e \in db.edits
            <4>1. EditHeld(e.id)
                BY <2>6, <2>11, <3>1 DEF NInv, EditNewest, EditHeld
            <4> QED  BY <2>9, <4>1
        <3>2. CASE e = EditRow(id)
            <4>1. e.id = id
                BY <2>6, <3>2
            <4> QED  BY <2>10, <4>1
        <3> QED  BY <2>4, <3>1, <3>2
    <2>12. \A c \in db'.contents : c.edited # 0 => \E e \in db'.edits : e.post = c.id /\ e.time = c.edited /\ e.text = c.text
        BY <2>4, <2>6 DEF NInv, EditNewest
    <2> QED  BY <2>7, <2>11, <2>12 DEF EditNewest, EditHeld
<1>12. CASE EditContent(w)
    <2>1. work[w].pc = "apply" /\ half' = half \ {tx.id} /\ db' = ApplyEdit(db, tx)
        BY <1>12 DEF EditContent, At
    <2>2. /\ Kind(id) = "edit" /\ tx = plan.txs[id] /\ tx.id = id /\ id \in Ids /\ EditRow(id) \in db.edits
          /\ tx.time \in Nat
        BY <1>0, <1>1, <1>2, <2>1, PlansAssumption DEF PairStage, OrderStage, KInv, Known, Ids
    <2> DEFINE edited(c) == IF c.id = tx.ref /\ Supersedes(tx, c) THEN [c EXCEPT !.text = tx.text, !.edited = tx.time] ELSE c
               rows == {edited(c) : c \in db.contents}
    <2>3. ASSUME NEW c \in db.contents
          PROVE  /\ edited(c).id = c.id /\ edited(c).time = c.time /\ {"time", "edited", "text"} \subseteq DOMAIN edited(c)
                 /\ edited(c).edited \in Nat
                 /\ \A e \in db.edits : Supersedes(e, edited(c)) =>
                      Supersedes(e, c) /\ ~(c.id = tx.ref /\ e.time = tx.time)
                 /\ edited(c) = c \/ (c.id = tx.ref /\ edited(c).edited = tx.time /\ edited(c).text = tx.text)
        <3>1. /\ {"time", "edited", "text", "id"} \subseteq DOMAIN c /\ c.time \in Nat /\ c.edited \in Nat
            BY <1>1 DEF NInv, TextsSound, KInv, RowsSound
        <3>2. \A e \in db.edits : e.time \in Nat
            BY <1>1, PlansAssumption DEF NInv, EditsSound, EditRow, KInv, Known, Ids
        <3>3. CASE c.id = tx.ref /\ Supersedes(tx, c)
            <4>1. PICK r : r = [c EXCEPT !.text = tx.text, !.edited = tx.time]
                OBVIOUS
            <4>2. edited(c) = r
                BY <3>3, <4>1
            <4>3. /\ r.id = c.id /\ r.time = c.time /\ r.edited = tx.time /\ r.text = tx.text /\ DOMAIN r = DOMAIN c
                BY <3>1, <4>1
            <4>4. \A e \in db.edits : Supersedes(e, r) => Supersedes(e, c) /\ e.time # tx.time
                BY <2>2, <3>1, <3>2, <3>3, <4>3 DEF Supersedes
            <4> HIDE DEF edited
            <4> QED  BY <2>2, <3>1, <3>3, <4>2, <4>3, <4>4
        <3>4. CASE ~(c.id = tx.ref /\ Supersedes(tx, c))
            <4>1. edited(c) = c
                BY <3>4
            <4>2. \A e \in db.edits : Supersedes(e, c) /\ c.id = tx.ref => e.time # tx.time
                BY <3>4 DEF Supersedes
            <4> HIDE DEF edited
            <4> QED  BY <3>1, <4>1, <4>2
        <3> QED  BY <3>3, <3>4
    <2>4. db' = [db EXCEPT !.contents = rows]
        BY <2>1 DEF ApplyEdit
    <2>5. db'.contents = rows /\ db'.edits = db.edits
        BY <1>1, <2>4 DEF Tables
    <2> HIDE DEF edited
    <2>6. \A i : (Claims(i) => Claims(i)') /\ EditRow(i)' = EditRow(i) /\ Kind(i)' = Kind(i)
        BY <1>1 DEF Claims, EditRow, Kind
    <2>7. EditsSound' /\ TextsSound'
        <3>1. EditsSound'
            BY <1>1, <2>5, <2>6 DEF NInv, EditsSound
        <3>2. ASSUME NEW c \in db'.contents
              PROVE  {"time", "edited", "text"} \subseteq DOMAIN c /\ c.time \in Nat /\ c.edited \in Nat
            <4>1. PICK b \in db.contents : c = edited(b)
                BY <2>5
            <4>2. b.time \in Nat
                BY DEF NInv, TextsSound
            <4> QED  BY <2>3, <4>1, <4>2
        <3> QED  BY <3>1, <3>2 DEF TextsSound
    <2>8. \A i : EditHeld(i) => EditHeld(i)' \/ i = id
        BY <1>1, <1>3, <2>1, <2>2 DEF EditHeld
    <2>9. ASSUME NEW c \in db'.contents, NEW e \in db'.edits, e.post = c.id, Supersedes(e, c)
          PROVE  EditHeld(e.id)'
        <3>1. PICK b \in db.contents : c = edited(b)
            BY <2>5
        <3>2. b.id = c.id /\ Supersedes(e, b) /\ ~(b.id = tx.ref /\ e.time = tx.time) /\ e \in db.edits
            BY <2>3, <2>5, <2>9, <3>1
        <3>3. e.id # id
            BY <2>2, <2>9, <3>2 DEF NInv, EditsSound, EditRow
        <3>4. EditHeld(e.id)
            BY <2>9, <3>2 DEF NInv, EditNewest, EditHeld
        <3> QED  BY <2>8, <3>3, <3>4
    <2>10. ASSUME NEW c \in db'.contents, c.edited # 0
           PROVE  \E e \in db'.edits : e.post = c.id /\ e.time = c.edited /\ e.text = c.text
        <3>1. PICK b \in db.contents : c = edited(b)
            BY <2>5
        <3>2. CASE c = b
            BY <2>5, <2>10, <3>2 DEF NInv, EditNewest
        <3>3. CASE c.id = tx.ref /\ c.edited = tx.time /\ c.text = tx.text
            <4>1. EditRow(id).post = tx.ref /\ EditRow(id).time = tx.time /\ EditRow(id).text = tx.text
                BY <2>2 DEF EditRow
            <4> QED  BY <2>2, <2>5, <3>3, <4>1
        <3> QED  BY <2>3, <3>1, <3>2, <3>3
    <2> QED  BY <2>7, <2>9, <2>10 DEF EditNewest, EditHeld
<1> QED  BY <1>1, <1>5, <1>6, <1>7, <1>8, <1>9, <1>10, <1>11, <1>12, HandlersCalm

\* What a handler's step knows of its transaction.
LEMMA HandledTx ==
    ASSUME NInv, NEW w \in Everyone, work[w].pc \notin {"idle", "refetch"}
    PROVE  /\ work[w].id \in Ids /\ Tx(w) = plan.txs[work[w].id] /\ Tx(w).id = work[w].id
           /\ Kind(work[w].id) = Tx(w).kind /\ Tx(w).kind \in Kinds
           /\ Tx(w).time = Time(work[w].id) /\ Tx(w).time \in Nat
<1>1. KInv /\ InStage(w)
    BY DEF NInv, MInv, CInv, KInv, Staged
<1> QED  BY <1>1, IdsFact, PlansAssumption DEF InStage, KInv, Known, Tx, Kind, Time, Ids

\* Which step of a handler changes which of the tables.
Touches(w) ==
    /\ (db'.ledger = db.ledger /\ db'.profiles = db.profiles) \/ CommitProfile(w)
    /\ db'.last = db.last \/ RelationIsNewest(w)
    /\ (db'.follows = db.follows /\ db'.blocks = db.blocks) \/ SaveFollow(w) \/ SaveBlock(w) \/ PurgeTarget(w)
    /\ db.edits \subseteq db'.edits
    /\ db'.used = db.used \/ SignatureIsFresh(w)
    /\ half' = half \/ EditContent(w) \/ RelationIsNewest(w) \/ SaveFollow(w) \/ SaveBlock(w)

LEMMA HandlersTouch ==
    ASSUME NInv, NEW w \in Everyone, Handle(w) \/ HandlePending(w)
    PROVE  Touches(w)
<1>1. TableLike(db) /\ Tables \subseteq DOMAIN db
    BY DEF NInv, MInv, CInv
<1>2. CASE Calm(w)
    BY <1>2 DEF Calm, Frame, Touches
<1>3. CASE SignatureIsFresh(w)
    <2>1. db' = db \/ db' = Claimed(db, Tx(w))
        BY <1>3 DEF SignatureIsFresh
    <2>2. half' = half
        BY <1>3 DEF SignatureIsFresh, Writes
    <2>3. Frame(Claimed(db, Tx(w)), {"used"})
        BY <1>1, StatementsFrame
    <2>4. CASE db' = db
        BY <2>2, <2>4 DEF Touches
    <2>5. CASE Frame(db', {"used"})
        BY <1>3, <2>2, <2>5 DEF Frame, Touches
    <2> QED  BY <2>1, <2>3, <2>4, <2>5
<1>4. CASE Save(w)
    <2>1. Tx(w).kind \in Content /\ half' = half /\ (db' = db \/ db' = SaveContent(db, Tx(w)))
        BY <1>4, HandledTx DEF Save, At, NInv, MInv, CInv, KInv, Staged, InStage
    <2>2. Frame(SaveContent(db, Tx(w)), {"contents"})
        BY <1>1, <2>1, StatementsFrame
    <2>3. CASE db' = db
        BY <2>1, <2>3 DEF Touches
    <2>4. CASE Frame(db', {"contents"})
        BY <2>1, <2>4 DEF Frame, Touches
    <2> QED  BY <2>1, <2>2, <2>3, <2>4
<1>5. CASE AuditEdit(w)
    <2>1. Frame(RecordEdit(db, Tx(w)), {"edits"}) /\ db.edits \subseteq RecordEdit(db, Tx(w)).edits
        <3>1. db.edits \subseteq RecordEdit(db, Tx(w)).edits
            BY <1>1 DEF RecordEdit, Tables
        <3> QED  BY <1>1, <3>1, StatementsFrame
    <2>2. db' = RecordEdit(db, Tx(w)) /\ half' = half
        BY <1>5 DEF AuditEdit, Writes
    <2>3. Frame(db', {"edits"}) /\ db.edits \subseteq db'.edits
        BY <2>1, <2>2
    <2> QED  BY <2>2, <2>3 DEF Frame, Touches
<1>6. CASE EditContent(w)
    <2>1. Frame(ApplyEdit(db, Tx(w)), {"contents"})
        BY <1>1, StatementsFrame
    <2>2. Frame(db', {"contents"})
        BY <1>6, <2>1 DEF EditContent
    <2> QED  BY <1>6, <2>2 DEF Frame, Touches
<1>7. CASE RelationIsNewest(w)
    <2>1. Frame(RecordRelation(db, Tx(w)), {"last"})
        BY <1>1, StatementsFrame
    <2>2. Frame(db', {"last"})
        BY <1>7, <2>1 DEF RelationIsNewest
    <2> QED  BY <1>7, <2>2 DEF Frame, Touches
<1>8. CASE SaveFollow(w) \/ SaveBlock(w)
    <2>1. /\ Frame(Follow(db, Tx(w)), {"follows"}) /\ Frame(Unfollow(db, Tx(w)), {"follows"})
          /\ Frame(Block(db, Tx(w)), {"blocks"}) /\ Frame(Unblock(db, Tx(w)), {"blocks"})
        BY <1>1, StatementsFrame
    <2>2. Frame(db', {"follows"}) \/ Frame(db', {"blocks"})
        BY <1>8, <2>1 DEF SaveFollow, SaveBlock
    <2> QED  BY <1>8, <2>2 DEF Frame, Touches
<1>9. CASE PurgeTarget(w)
    <2>1. Frame(Purge(db, Tx(w).who[1]), {"contents", "follows", "blocks"})
        BY <1>1, StatementsFrame
    <2>2. Frame(db', {"contents", "follows", "blocks"}) /\ half' = half
        BY <1>9, <2>1 DEF PurgeTarget
    <2> QED  BY <1>9, <2>2 DEF Frame, Touches
<1>10. CASE CommitProfile(w)
    <2>1. Frame(SaveProfile(db, Tx(w), work[w].memo), {"ledger", "profiles"})
        BY <1>1, StatementsFrame
    <2>2. Frame(db', {"ledger", "profiles"}) /\ half' = half
        BY <1>10, <2>1 DEF CommitProfile, Writes
    <2> QED  BY <1>10, <2>2 DEF Frame, Touches
<1> QED  BY <1>1, <1>2, <1>3, <1>4, <1>5, <1>6, <1>7, <1>8, <1>9, <1>10, HandlersCalm

LEMMA ProfilesKept ==
    ASSUME NInv, NEW w \in Everyone, Handling(w) \/ HandlingPending(w), Forward(w)
    PROVE  ProfilesSound'
<1> DEFINE tx == Tx(w)
           x == XOnly(tx.by)
<1>0. PICK id : id = work[w].id
    OBVIOUS
<1>1. /\ TableLike(db) /\ Tables \subseteq DOMAIN db /\ (Handle(w) \/ HandlePending(w))
      /\ plan' = plan /\ Ids' = Ids /\ raced \subseteq raced' /\ OrderStage(w) /\ ProfilesSound
    BY DEF Forward, NInv, MInv, CInv, Handling, HandlingPending
<1>2. \A i : ProfileRow(i)' = ProfileRow(i) /\ Time(i)' = Time(i)
    BY <1>1 DEF ProfileRow, Time
<1>3. \A y : ~ProfileRaced(y)' => ~ProfileRaced(y)
    BY <1>1 DEF ProfileRaced
<1>4. CASE db'.ledger = db.ledger /\ db'.profiles = db.profiles
    BY <1>1, <1>2, <1>3, <1>4 DEF ProfilesSound
<1>5. CASE ~CommitProfile(w)
    BY <1>1, <1>4, <1>5, HandlersTouch DEF Touches
<1>6. CASE CommitProfile(w)
    <2>1. work[w].pc = "profile" /\ db' = SaveProfile(db, tx, work[w].memo)
        BY <1>6 DEF CommitProfile, At
    <2>2. id \in Ids /\ tx = plan.txs[id] /\ tx.id = id /\ tx.time = Time(id) /\ tx.time \in Nat
        BY <1>0, <2>1, HandledTx
    <2>3. PICK gone : gone = ProfilesOf(work[w].memo, tx)
        OBVIOUS
    <2>4. PICK row : row = ProfileRow(id)
        OBVIOUS
    <2>5. row.id = id /\ row.by = tx.by /\ row.time = tx.time /\ row = [id |-> tx.id, by |-> tx.by, time |-> tx.time]
        BY <2>2, <2>4 DEF ProfileRow
    <2>6. PICK entry : entry = [sig |-> tx.sig, id |-> tx.id]
        OBVIOUS
    <2>7. entry.id = id
        BY <2>2, <2>6
    <2>8. db'.ledger = db.ledger \cup {entry}
        BY <1>1, <2>1, <2>6 DEF SaveProfile, Tables
    <2>9. db'.profiles = IF \E p \in gone : p.time > tx.time THEN db.profiles ELSE (db.profiles \ gone) \cup {row}
        BY <1>1, <2>1, <2>3, <2>5 DEF SaveProfile, Tables
    <2>10. gone = {p \in work[w].memo : XOnly(p.by) = x /\ p.id # id}
        BY <2>2, <2>3 DEF ProfilesOf, SamePerson
    <2>11. ~ProfileRaced(x) => OfPerson(work[w].memo, x) = OfPerson(db.profiles, x)
        BY <2>1 DEF NInv, OrderStage
    <2>12. ~ProfileRaced(x) => \A p : p \in work[w].memo /\ XOnly(p.by) = x <=> p \in db.profiles /\ XOnly(p.by) = x
        BY <2>11 DEF OfPerson
    <2>13. \A p \in db.profiles : p.time \in Nat /\ p.id \in Ids /\ p = ProfileRow(p.id)
        BY <1>1, PlansAssumption DEF ProfilesSound, ProfileRow, NInv, MInv, CInv, KInv, Known, Ids
    <2>14. \A i \in Ids : Time(i) \in Nat
        BY PlansAssumption DEF Time, NInv, MInv, CInv, KInv, Known, Ids
    <2>15. \A p \in db'.profiles : p.id \in Ids' /\ p = ProfileRow(p.id)'
        BY <1>1, <1>2, <2>2, <2>4, <2>5, <2>9, <2>13
    <2>16. \A l \in db'.ledger : l.id \in Ids'
        BY <1>1, <2>2, <2>7, <2>8 DEF ProfilesSound
    <2>17. ASSUME NEW p \in db'.profiles, NEW q \in db'.profiles, XOnly(p.by) = XOnly(q.by), ~ProfileRaced(XOnly(p.by))'
           PROVE  p = q
        <3>1. ~ProfileRaced(XOnly(p.by))
            BY <1>3, <2>17
        <3>2. CASE p \in db.profiles /\ q \in db.profiles
            BY <1>1, <2>17, <3>1, <3>2 DEF ProfilesSound
        <3>3. ASSUME NEW r \in db'.profiles, XOnly(r.by) = x, ~ProfileRaced(x), ~(\E o \in gone : o.time > tx.time)
              PROVE  r = row
            <4>1. CASE r \in db.profiles
                BY <2>4, <2>9, <2>10, <2>12, <2>13, <3>3, <4>1
            <4> QED  BY <2>9, <3>3, <4>1
        <3>4. CASE ~(p \in db.profiles /\ q \in db.profiles)
            <4>1. ~(\E o \in gone : o.time > tx.time) /\ (p = row \/ q = row)
                BY <2>9, <3>4
            <4>2. XOnly(p.by) = x /\ XOnly(q.by) = x
                BY <2>5, <2>17, <4>1
            <4> QED  BY <3>1, <3>3, <4>1, <4>2
        <3> QED  BY <3>2, <3>4
    <2>18. ASSUME NEW l \in db'.ledger, NEW y, y = XOnly(plan.txs[l.id].by), ~ProfileRaced(y)
           PROVE  \E p \in db'.profiles : XOnly(p.by) = y /\ p.time >= Time(l.id)
        <3>1. CASE l \in db.ledger
            <4>1. PICK p \in db.profiles : XOnly(p.by) = y /\ p.time >= Time(l.id)
                BY <1>1, <2>18, <3>1 DEF ProfilesSound
            <4>2. CASE p \in db'.profiles
                BY <4>1, <4>2
            <4>3. CASE p \notin db'.profiles
                <5>1. p \in gone /\ ~(p.time > tx.time) /\ row \in db'.profiles
                    BY <2>9, <4>3
                <5>2. XOnly(row.by) = y
                    BY <2>5, <2>10, <4>1, <5>1
                <5>3. Time(l.id) \in Nat
                    BY <1>1, <2>14, <3>1 DEF ProfilesSound
                <5>4. row.time >= Time(l.id)
                    BY <2>2, <2>5, <2>13, <4>1, <5>1, <5>3
                <5> QED  BY <5>1, <5>2, <5>4
            <4> QED  BY <4>2, <4>3
        <3>2. CASE l = entry
            <4>1. y = x /\ Time(l.id) = tx.time
                BY <2>2, <2>7, <2>18, <3>2
            <4>2. CASE \E p \in gone : p.time > tx.time
                <5>1. PICK p \in gone : p.time > tx.time
                    BY <4>2
                <5>2. p \in db.profiles /\ XOnly(p.by) = x
                    BY <2>10, <2>12, <2>18, <4>1, <5>1
                <5>3. p \in db'.profiles /\ p.time >= tx.time
                    BY <2>2, <2>9, <2>13, <5>1, <5>2
                <5> QED  BY <4>1, <5>2, <5>3
            <4>3. CASE ~(\E p \in gone : p.time > tx.time)
                BY <2>2, <2>5, <2>9, <4>1, <4>3
            <4> QED  BY <4>2, <4>3
        <3> QED  BY <2>8, <3>1, <3>2
    <2>19. \A l \in db'.ledger :
             ~ProfileRaced(XOnly(plan.txs[l.id].by))' =>
               \E p \in db'.profiles : XOnly(p.by) = XOnly(plan'.txs[l.id].by) /\ p.time >= Time(l.id)'
        BY <1>1, <1>2, <1>3, <2>18 DEF ProfileRaced
    <2> QED  BY <2>15, <2>16, <2>17, <2>19 DEF ProfilesSound
<1> QED  BY <1>5, <1>6

\* Where a handler's step may take a worker that decides by time.
Goes(w, next) ==
    LET id == work[w].id
    IN /\ next \in {"related", "newest"} => Kind(id) \in {"follow", "block"}
       /\ next = "ledger" => Kind(id) = "profile"
       /\ next = "relate" => RelationIsNewest(w) /\ IsNewest(db, Tx(w))
       /\ next = "apply" => AuditEdit(w)
       /\ next = "profile" => OpenLedger(w) /\ work'[w].memo = db.profiles
       /\ next = "operator" => IsOperator(Tx(w).by)
       /\ next = "purge" => DenyTarget(w)

LEMMA HandlersGo ==
    ASSUME NInv, NEW w \in Everyone, Handle(w) \/ HandlePending(w)
    PROVE  \E next : Moves(w, next) /\ Goes(w, next)
<1> DEFINE Plain == {"done", "fresh", "erase", "notify", "drop", "deny", "record", "audit", "original", "unknown", "store", "ask",
                     "mentions", "options", "replace", "vote", "save", "withdraw", "target", "bury", "ballot"}
<1>0. /\ WorkShape /\ OrderStage(w)
      /\ work[w].pc \notin {"idle", "refetch"} => Kind(work[w].id) = Tx(w).kind /\ Tx(w).kind \in Kinds
    BY HandledTx DEF NInv, MInv, CInv, KInv, Shaped
<1>1. ASSUME NEW next \in Plain, Moves(w, next)
      PROVE  \E n : Moves(w, n) /\ Goes(w, n)
    BY <1>1 DEF Goes
<1>2. CASE SignatureIsFresh(w)
    <2> DEFINE fits == SignatureHolds(Tx(w)) /\ ProfileAllowed(Tx(w))
               next == IF fits /\ Owns(db, Tx(w)) THEN Continue(Tx(w)) ELSE Return(Tx(w))
    <2>1. work[w].pc = "fresh" /\ Goto(w, next)
        BY <1>2 DEF SignatureIsFresh, At
    <2>2. Return(Tx(w)) \in Plain
        BY DEF Return
    <2>3. Tx(w).kind \in Kinds \ {"unknown", "bcast"} /\ Kind(work[w].id) = Tx(w).kind
        BY <1>0, <2>1 DEF NInv, MInv, CInv, KInv, Staged, InStage
    <2>4. /\ Continue(Tx(w)) \in Plain \cup {"related", "newest", "ledger"}
          /\ Continue(Tx(w)) \in {"related", "newest"} => Tx(w).kind \in {"follow", "block"}
          /\ Continue(Tx(w)) = "ledger" => Tx(w).kind = "profile"
        BY <2>3 DEF Kinds, Content, Continue
    <2>5. Goes(w, next)
        BY <2>2, <2>3, <2>4 DEF Goes
    <2> QED  BY <2>1, <2>5 DEF Moves
<1>3. CASE DeletedBefore(w) \/ DropIfDeleted(w) \/ Erase(w) \/ Save(w) \/ SaveOptions(w)
    <2>1. \E next \in Plain : Moves(w, next)
        BY <1>3 DEF DeletedBefore, DropIfDeleted, Erase, Save, SaveOptions, Moves
    <2> QED  BY <1>1, <2>1
<1>4. CASE SaveMentions(w) \/ NotifyContent(w) \/ Withdraw(w) \/ PollVote(w) \/ TargetIndexed(w) \/ ReplaceVote(w)
    <2>1. \E next \in Plain : Moves(w, next)
        BY <1>4 DEF SaveMentions, NotifyContent, Withdraw, PollVote, TargetIndexed, ReplaceVote, Moves
    <2> QED  BY <1>1, <2>1
<1>5. CASE CommitVote(w) \/ NotifyVote(w) \/ EditMentions(w) \/ Tombstone(w) \/ AuditDelete(w) \/ EditContent(w)
    <2>1. \E next \in Plain : Moves(w, next)
        BY <1>5 DEF CommitVote, NotifyVote, EditMentions, Tombstone, AuditDelete, EditContent, Moves
    <2> QED  BY <1>1, <2>1
<1>6. CASE Original(w)
    <2>1. \E next \in Plain : Moves(w, next)
        BY <1>6 DEF Original, Moves
    <2> QED  BY <1>1, <2>1
<1>7. CASE RouteBroadcast(w) \/ TipGates(w) \/ Resolve(w) \/ GiveUp(w) \/ StoreBroadcast(w) \/ StoreTip(w) \/ NotifyStored(w)
    <2>1. \E next \in Plain : Moves(w, next)
        BY <1>7 DEF RouteBroadcast, TipGates, Resolve, Judged, GiveUp, StoreBroadcast, StoreTip, NotifyStored, Moves
    <2> QED  BY <1>1, <2>1
<1>8. CASE AuditEdit(w)
    BY <1>8 DEF AuditEdit, Goes, Moves
<1>9. CASE Related(w)
    <2>1. work[w].pc = "related" /\ (Moves(w, "newest") \/ Moves(w, "done"))
        BY <1>9 DEF Related, At, Moves
    <2> QED  BY <1>0, <1>1, <2>1 DEF OrderStage, Goes
<1>10. CASE RelationIsNewest(w)
    <2>1. (Moves(w, "relate") /\ IsNewest(db, Tx(w))) \/ Moves(w, "done")
        BY <1>10 DEF RelationIsNewest, Moves
    <2> QED  BY <1>1, <1>10, <2>1 DEF Goes
<1>11. CASE SaveFollow(w) \/ NotifyFollow(w) \/ PurgeTarget(w) \/ DenyInMemory(w) \/ AllowTarget(w) \/ CommitProfile(w)
    <2>1. \E next \in Plain : Moves(w, next)
        BY <1>11 DEF SaveFollow, NotifyFollow, PurgeTarget, DenyInMemory, AllowTarget, CommitProfile, Moves
    <2> QED  BY <1>1, <2>1
<1>12. CASE SaveBlock(w)
    <2>1. (Moves(w, "operator") /\ IsOperator(Tx(w).by)) \/ Moves(w, "done")
        BY <1>12 DEF SaveBlock, Moves
    <2> QED  BY <1>1, <2>1 DEF Goes
<1>13. CASE DenyTarget(w)
    <2>1. Moves(w, "purge")
        BY <1>13 DEF DenyTarget, Moves
    <2> QED  BY <1>13, <2>1 DEF Goes
<1>14. CASE OpenLedger(w)
    <2>1. Recall(w, "profile", db.profiles) \/ Goto(w, "done")
        BY <1>14 DEF OpenLedger
    <2>2. CASE Recall(w, "profile", db.profiles)
        <3>1. work'[w].memo = db.profiles /\ Moves(w, "profile")
            BY <1>0, <2>2, MemoMoves DEF Moves
        <3> QED  BY <1>14, <3>1 DEF Goes
    <2>3. CASE Goto(w, "done")
        BY <1>1, <2>3 DEF Moves
    <2> QED  BY <2>1, <2>2, <2>3
<1> QED  BY <1>2, <1>3, <1>4, <1>5, <1>6, <1>7, <1>8, <1>9, <1>10, <1>11, <1>12, <1>13, <1>14 DEF Handle, HandlePending

\* What a step that leaves the tables of relations alone keeps.
LEMMA RelationsAround ==
    ASSUME NInv, plan' = plan, Ids' = Ids, Everyone' = Everyone,
           db'.last = db.last, db'.follows = db.follows, db'.blocks = db.blocks,
           db.used \subseteq db'.used, raced \subseteq raced',
           \A i \in half : Relating(i) => i \in half',
           \A i \in Ids : Relating(i) /\ Accepted(i)' /\ plan.txs[i].as # "follow" => Accepted(i) \/ InHand(i, {"newest"})',
           \A v \in Everyone : work[v].pc \in {"newest", "relate"} => work'[v] = work[v] \/ work[v].id \in half'
    PROVE  LastSound' /\ AllRecorded' /\ AllCarried'
<1>1. LastSound'
    BY DEF NInv, LastSound
<1>2. \A i : /\ Relating(i)' <=> Relating(i)
             /\ (Recorded(i)' <=> Recorded(i)) /\ (IsLast(i)' <=> IsLast(i))
    BY DEF Relating, Kind, Recorded, IsLast, Time
<1>3. ASSUME NEW i \in Ids, Relating(i), Accepted(i)', plan.txs[i].as # "follow"
      PROVE  InHand(i, {"newest"})' \/ i \in half' \/ Recorded(i)
    <2>1. CASE Accepted(i)
        <3>1. InHand(i, {"newest"}) \/ i \in half \/ Recorded(i)
            BY <1>3, <2>1 DEF NInv, AllRecorded
        <3>2. CASE InHand(i, {"newest"})
            BY <3>2 DEF InHand
        <3> QED  BY <1>3, <3>1, <3>2
    <2> QED  BY <1>3, <2>1
<1>4. AllRecorded'
    BY <1>2, <1>3 DEF AllRecorded
<1>5. ASSUME NEW pair \in Pairs, pair \notin raced', ~Blocked(pair[2])'
      PROVE  (Matches(pair) \/ Carrying(pair) \/ Interrupted(pair))'
    <2>1. ~Blocked(pair[2])
        <3>1. ASSUME NEW k, Blocked(k)
              PROVE  Blocked(k)'
            <4>1. \A i : Accepted(i) => Accepted(i)'
                BY DEF Accepted
            <4> QED  BY <3>1, <4>1 DEF Blocked, IsOperator
        <3>2. PICK k : k = pair[2]
            OBVIOUS
        <3> QED  BY <1>5, <3>1, <3>2
    <2>2. Matches(pair) \/ Carrying(pair) \/ Interrupted(pair)
        BY <1>5, <2>1 DEF NInv, AllCarried
    <2>3. CASE Matches(pair)
        BY <2>3 DEF Matches, RowOf
    <2>4. CASE Interrupted(pair)
        BY <1>2, <2>4 DEF Interrupted
    <2>5. CASE Carrying(pair)
        <3>1. PICK v \in Everyone : work[v].pc = "relate" /\ PairOf(Tx(v)) = pair
            BY <2>5 DEF Carrying, At
        <3>2. CASE work'[v] = work[v]
            BY <3>1, <3>2 DEF Carrying, At, Tx, PairOf
        <3>3. CASE work[v].id \in half'
            <4>1. PICK i : i = work[v].id
                OBVIOUS
            <4>2. PairOf(Tx(v)) \notin raced
                BY <1>5, <3>1
            <4>3. OrderStage(v)
                BY DEF NInv
            <4>4. IsLast(i) /\ Kind(i) \in {"follow", "block"} /\ i \in Ids /\ PairOf(plan.txs[i]) = pair
                BY <3>1, <4>1, <4>2, <4>3, HandledTx DEF OrderStage
            <4>5. IsLast(i)' /\ Relating(i)' /\ i \in half' /\ PairOf(plan'.txs[i]) = pair
                BY <1>2, <3>3, <4>1, <4>4 DEF Relating, PairOf
            <4> QED  BY <4>5 DEF Interrupted, PairOf
        <3> QED  BY <3>1, <3>2, <3>3
    <2> QED  BY <2>2, <2>3, <2>4, <2>5
<1>6. Pairs' = Pairs
    BY DEF Pairs, PairOf
<1> QED  BY <1>1, <1>4, <1>5, <1>6 DEF AllCarried

\* What every step of a handler keeps of relations that it is not about.
LEMMA RelationsBeside ==
    ASSUME NInv, NEW w \in Everyone, Handling(w) \/ HandlingPending(w), Forward(w),
           ~RelationIsNewest(w), ~SaveFollow(w), ~SaveBlock(w), ~PurgeTarget(w)
    PROVE  LastSound' /\ AllRecorded' /\ AllCarried'
<1>1. /\ plan' = plan /\ Ids' = Ids /\ Everyone' = Everyone /\ raced \subseteq raced' /\ db.used \subseteq db'.used
      /\ \A v \in Everyone : v # w => work'[v] = work[v]
      /\ Handle(w) \/ HandlePending(w)
    BY DEF Forward, Handling, HandlingPending
<1>2. Touches(w)
    BY <1>1, HandlersTouch
<1>3. db'.last = db.last /\ db'.follows = db.follows /\ db'.blocks = db.blocks
    BY <1>2 DEF Touches
<1>4. \A i \in half : Relating(i) => i \in half'
    <2>1. CASE half' = half
        BY <2>1
    <2>2. CASE EditContent(w)
        <3>1. work[w].pc = "apply" /\ half' = half \ {Tx(w).id}
            BY <2>2 DEF EditContent, At
        <3>2. Tx(w).id = work[w].id /\ Kind(work[w].id) = "edit"
            BY <3>1, HandledTx DEF NInv, MInv, PairStage
        <3> QED  BY <3>1, <3>2 DEF Relating
    <2> QED  BY <1>2, <2>1, <2>2 DEF Touches
<1>5. work[w].pc \notin {"newest", "relate"}
    <2>1. /\ At(w, "newest") => RelationIsNewest(w)
          /\ At(w, "relate") => SaveFollow(w) \/ SaveBlock(w)
        BY <1>1 DEF Handle, HandlePending, At, DeletedBefore, SignatureIsFresh, Save, SaveOptions, SaveMentions, NotifyContent,
             DropIfDeleted, Erase, Withdraw, TargetIndexed, ReplaceVote, CommitVote, NotifyVote, PollVote, Original, AuditEdit,
             EditContent, EditMentions, Tombstone, AuditDelete, Related, NotifyFollow, DenyTarget, PurgeTarget, DenyInMemory,
             AllowTarget, OpenLedger, CommitProfile, RouteBroadcast, TipGates, Resolve, GiveUp, StoreBroadcast, StoreTip,
             NotifyStored
    <2> QED  BY <2>1 DEF At
<1>6. ASSUME NEW i \in Ids, Relating(i), Accepted(i)', plan.txs[i].as # "follow", ~Accepted(i)
      PROVE  InHand(i, {"newest"})'
    <2>1. SignatureIsFresh(w)
        BY <1>2, <1>6 DEF Touches, Accepted
    <2>2. work[w].pc = "fresh" /\ db' # db
        BY <1>6, <2>1 DEF SignatureIsFresh, At, Accepted
    <2>3. db' = Claimed(db, Tx(w)) /\ Goto(w, IF Owns(db, Tx(w)) THEN Continue(Tx(w)) ELSE Return(Tx(w)))
        BY <2>1, <2>2 DEF SignatureIsFresh
    <2>4. \A u \in db.used : u.sig # Tx(w).sig
        BY <2>2, <2>3 DEF Claimed
    <2>5. Goto(w, Continue(Tx(w)))
        BY <2>3, <2>4 DEF Owns
    <2>6. i = work[w].id /\ Tx(w) = plan.txs[i] /\ Kind(i) = Tx(w).kind
        <3>1. PICK entry : entry = [sig |-> Tx(w).sig, id |-> Tx(w).id]
            OBVIOUS
        <3>2. db'.used = db.used \cup {entry}
            BY <2>3, <2>4, <3>1 DEF Claimed, NInv, Tables
        <3>3. entry.id = work[w].id
            BY <2>2, <3>1, HandledTx
        <3> QED  BY <1>6, <2>2, <3>2, <3>3, HandledTx DEF Accepted
    <2>7. Continue(Tx(w)) = "newest"
        BY <1>6, <2>6 DEF Relating, Continue, Content
    <2>8. work'[w].id = work[w].id /\ work'[w].pc = "newest"
        BY <2>5, <2>7, MemoMoves DEF NInv, MInv, CInv, KInv, Shaped
    <2> QED  BY <1>1, <2>6, <2>8 DEF InHand
<1> QED  BY <1>1, <1>3, <1>4, <1>5, <1>6, RelationsAround

\* What is on record of a pair is only replaced by what is newer.
Newest(w) == RelationIsNewest(w) /\ IsNewest(db, Tx(w))

LEMMA RecordedStays ==
    ASSUME NInv, NEW w \in Everyone, Handling(w) \/ HandlingPending(w), Forward(w)
    PROVE  /\ \A i \in Ids : Recorded(i) => Recorded(i)'
           /\ \A i \in Ids : IsLast(i) => IsLast(i)' \/ (Newest(w) /\ PairOf(plan.txs[i]) = PairOf(Tx(w)))
           /\ Newest(w) => Recorded(work[w].id)' /\ IsLast(work[w].id)'
<1> DEFINE tx == Tx(w)
<1>1. plan' = plan /\ Ids' = Ids /\ Tables \subseteq DOMAIN db /\ work'[w].id = work[w].id
    BY DEF Forward, NInv
<1>2. \A i : Time(i)' = Time(i) /\ PairOf(plan'.txs[i]) = PairOf(plan.txs[i])
    BY <1>1 DEF Time
<1>3. \A l \in db.last : l.time \in Nat
    BY DEF NInv, LastSound
<1>4. \A i \in Ids : Time(i) \in Nat
    BY PlansAssumption DEF Time, NInv, MInv, CInv, KInv, Known, Ids
<1>5. CASE ~Newest(w)
    <2>1. db'.last = db.last
        <3>1. CASE RelationIsNewest(w)
            BY <1>5, <3>1 DEF Newest, RelationIsNewest, RecordRelation
        <3> QED  BY <3>1, HandlersTouch DEF Touches, Handling, HandlingPending
    <2>2. \A i : (Recorded(i)' <=> Recorded(i)) /\ (IsLast(i)' <=> IsLast(i))
        BY <1>1, <2>1 DEF Recorded, IsLast, Time
    <2> QED  BY <1>5, <2>2
<1>6. CASE Newest(w)
    <2>1. work[w].pc = "newest" /\ db' = RecordRelation(db, tx) /\ IsNewest(db, tx)
        BY <1>6 DEF Newest, RelationIsNewest, At
    <2>2. PICK id, P : id = work[w].id /\ P = PairOf(tx)
        OBVIOUS
    <2>3. id \in Ids /\ tx = plan.txs[id] /\ tx.time = Time(id) /\ tx.time \in Nat
        BY <2>1, <2>2, HandledTx
    <2>4. PICK entry : entry = [pair |-> P, as |-> tx.as, time |-> tx.time]
        OBVIOUS
    <2>5. entry.pair = P /\ entry.as = tx.as /\ entry.time = tx.time
        BY <2>4
    <2>6. db'.last = {l \in db.last : l.pair # P} \cup {entry}
        BY <1>1, <2>1, <2>2, <2>4 DEF RecordRelation, Tables
    <2>7. \A l \in db.last : l.pair = P => l.time <= entry.time
        BY <2>1, <2>2, <2>5 DEF IsNewest
    <2>8. ASSUME NEW i \in Ids, Recorded(i)
          PROVE  Recorded(i)'
        <3>1. PICK l \in db.last : l.pair = PairOf(plan.txs[i]) /\ l.time >= Time(i)
            BY <2>8 DEF Recorded
        <3>2. \E m \in db'.last : m.pair = PairOf(plan'.txs[i]) /\ m.time >= Time(i)'
            <4>1. CASE l.pair = P
                <5>1. entry.time >= Time(i)
                    BY <1>3, <1>4, <2>3, <2>5, <2>7, <3>1, <4>1
                <5> QED  BY <1>2, <2>5, <2>6, <3>1, <4>1, <5>1
            <4>2. CASE l.pair # P
                BY <1>2, <2>6, <3>1, <4>2
            <4> QED  BY <4>1, <4>2
        <3> QED  BY <3>2 DEF Recorded, PairOf
    <2>9. ASSUME NEW i \in Ids, IsLast(i), PairOf(plan.txs[i]) # P
          PROVE  IsLast(i)'
        <3>1. PICK l \in db.last : l.pair = PairOf(plan.txs[i]) /\ l.time = Time(i) /\ l.as = plan.txs[i].as
            BY <2>9 DEF IsLast
        <3>2. l \in db'.last /\ l.pair = PairOf(plan'.txs[i]) /\ l.time = Time(i)' /\ l.as = plan'.txs[i].as
            BY <1>1, <1>2, <2>6, <2>9, <3>1
        <3> QED  BY <3>2 DEF IsLast, PairOf
    <2>10. Recorded(id)' /\ IsLast(id)'
        <3>1. /\ entry \in db'.last /\ entry.pair = PairOf(plan'.txs[id]) /\ entry.time = Time(id)' /\ entry.as = plan'.txs[id].as
              /\ entry.time >= Time(id)'
            BY <1>1, <1>2, <2>2, <2>3, <2>5, <2>6
        <3> QED  BY <3>1 DEF Recorded, IsLast, PairOf
    <2>11. Recorded(work[w].id)' /\ IsLast(work[w].id)'
        <3>1. id = work'[w].id
            BY <1>1, <2>2
        <3> QED  BY <2>10, <3>1
    <2> QED  BY <1>6, <2>2, <2>8, <2>9, <2>11
<1> QED  BY <1>5, <1>6

\* The newest action of a pair is recorded, and the older one is not.
LEMMA NewestKept ==
    ASSUME NInv, NEW w \in Everyone, Handling(w) \/ HandlingPending(w), Forward(w), RelationIsNewest(w)
    PROVE  LastSound' /\ AllRecorded' /\ AllCarried'
<1> DEFINE tx == Tx(w)
           newest == IsNewest(db, tx)
<1>0. PICK id : id = work[w].id
    OBVIOUS
<1>1. /\ plan' = plan /\ Ids' = Ids /\ Everyone' = Everyone /\ raced \subseteq raced'
      /\ \A v \in Everyone : v # w => work'[v] = work[v]
      /\ work'[w].id = id /\ Tables \subseteq DOMAIN db
    BY <1>0 DEF Forward, NInv
<1>2. /\ work[w].pc = "newest" /\ db' = RecordRelation(db, tx) /\ Goto(w, IF newest THEN "relate" ELSE "done")
      /\ half' = IF newest THEN half ELSE half \ {tx.id}
    BY DEF RelationIsNewest, At
<1>3. /\ id \in Ids /\ tx = plan.txs[id] /\ tx.id = id /\ tx.time = Time(id) /\ tx.time \in Nat
      /\ Kind(id) \in {"follow", "block"}
    BY <1>0, <1>2, HandledTx DEF NInv, OrderStage
<1>4. work'[w].pc = IF newest THEN "relate" ELSE "done"
    BY <1>2, MemoMoves DEF NInv, MInv, CInv, KInv, Shaped
<1>5. PICK P : P = PairOf(tx)
    OBVIOUS
<1>6. Touches(w) /\ db'.follows = db.follows /\ db'.blocks = db.blocks /\ db'.used = db.used
    <2>1. Touches(w)
        BY HandlersTouch DEF Handling, HandlingPending
    <2>2. ~SaveFollow(w) /\ ~SaveBlock(w) /\ ~PurgeTarget(w) /\ ~SignatureIsFresh(w)
        BY <1>2 DEF SaveFollow, SaveBlock, PurgeTarget, SignatureIsFresh, At
    <2> QED  BY <2>1, <2>2 DEF Touches
<1>7. \A i : /\ Relating(i)' <=> Relating(i)
             /\ Accepted(i)' <=> Accepted(i)
             /\ Time(i)' = Time(i)
    BY <1>1, <1>6 DEF Relating, Kind, Accepted, Time
<1>8. \A k : Blocked(k) => Blocked(k)'
    BY <1>1, <1>7 DEF Blocked, IsOperator
<1>9. Pairs' = Pairs
    BY <1>1 DEF Pairs, PairOf
<1>10. \A i : InHand(i, {"newest"}) => InHand(i, {"newest"})' \/ i = id
    BY <1>0, <1>1 DEF InHand
<1>11. ASSUME NEW pair, Carrying(pair)
       PROVE  Carrying(pair)'
    <2>1. PICK v \in Everyone : work[v].pc = "relate" /\ PairOf(Tx(v)) = pair
        BY <1>11 DEF Carrying, At
    <2>2. work'[v] = work[v]
        BY <1>1, <1>2, <2>1
    <2> QED  BY <1>1, <2>1, <2>2 DEF Carrying, At, Tx, PairOf
<1>12. \A l \in db.last : l.time \in Nat
    BY DEF NInv, LastSound
<1>13. \A i \in Ids : Time(i) \in Nat
    BY PlansAssumption DEF Time, NInv, MInv, CInv, KInv, Known, Ids
<1>14. CASE ~newest
    <2>1. db' = db
        BY <1>2, <1>14 DEF RecordRelation
    <2>2. PICK l \in db.last : l.pair = P /\ ~(l.time <= tx.time)
        BY <1>5, <1>14 DEF IsNewest
    <2>3. Recorded(id) /\ ~IsLast(id)
        <3>1. Recorded(id)
            BY <1>3, <1>5, <1>12, <2>2 DEF Recorded
        <3>2. \A m \in db.last : m.pair = P => m = l
            BY <2>2 DEF NInv, LastSound
        <3>3. ~IsLast(id)
            BY <1>3, <1>5, <1>12, <2>2, <3>2 DEF IsLast
        <3> QED  BY <3>1, <3>3
    <2>4. \A i : (Recorded(i)' <=> Recorded(i)) /\ (IsLast(i)' <=> IsLast(i))
        BY <1>1, <2>1 DEF Recorded, IsLast, Time
    <2>5. LastSound'
        BY <2>1 DEF NInv, LastSound
    <2>6. AllRecorded'
        <3>1. ASSUME NEW i \in Ids, Relating(i), Accepted(i), plan.txs[i].as # "follow"
              PROVE  InHand(i, {"newest"})' \/ i \in half' \/ Recorded(i)
            <4>1. InHand(i, {"newest"}) \/ i \in half \/ Recorded(i)
                BY <3>1 DEF NInv, AllRecorded
            <4> QED  BY <1>2, <1>3, <1>10, <2>3, <4>1
        <3> QED  BY <1>1, <1>7, <2>4, <3>1 DEF AllRecorded
    <2>7. \A pair : Matches(pair)' <=> Matches(pair)
        BY <2>1 DEF Matches, RowOf
    <2>8. \A pair : Interrupted(pair) => Interrupted(pair)'
        <3>1. ASSUME NEW pair, NEW i \in half, Relating(i), PairOf(plan.txs[i]) = pair, IsLast(i)
              PROVE  i \in half' /\ Relating(i)' /\ PairOf(plan'.txs[i]) = pair /\ IsLast(i)'
            BY <1>1, <1>2, <1>3, <1>7, <2>3, <2>4, <3>1
        <3> QED  BY <3>1 DEF Interrupted, PairOf
    <2> QED  BY <1>1, <1>8, <1>9, <1>11, <2>5, <2>6, <2>7, <2>8 DEF NInv, AllCarried
<1>15. CASE newest
    <2>1. PICK entry : entry = [pair |-> P, as |-> tx.as, time |-> tx.time]
        OBVIOUS
    <2>2. entry.pair = P /\ entry.as = tx.as /\ entry.time = tx.time
        BY <2>1
    <2>3. db'.last = {l \in db.last : l.pair # P} \cup {entry}
        BY <1>1, <1>2, <1>5, <1>15, <2>1 DEF RecordRelation, Tables
    <2>4. \A l \in db.last : l.pair = P => l.time <= entry.time
        BY <1>5, <1>15, <2>2 DEF IsNewest
    <2>5. \A l \in db.last : \E m \in db'.last : m.pair = l.pair /\ m.time >= l.time /\ m.time \in Nat
        BY <1>3, <1>12, <2>2, <2>3, <2>4
    <2>6. ASSUME NEW l \in db.last, NEW t \in Nat, t <= l.time
          PROVE  \E m \in db'.last : m.pair = l.pair /\ t <= m.time
        <3>1. PICK m \in db'.last : m.pair = l.pair /\ m.time >= l.time /\ m.time \in Nat
            BY <2>5
        <3> QED  BY <1>12, <2>6, <3>1
    <2>7. LastSound'
        <3>1. \A l \in db'.last : l.time \in Nat
            BY <1>3, <1>12, <2>2, <2>3
        <3>2. \A l, m \in db'.last : l.pair = m.pair => l = m
            BY <2>2, <2>3 DEF NInv, LastSound
        <3>3. ASSUME NEW r \in db'.follows
              PROVE  r.time \in Nat /\ \E l \in db'.last : l.pair = <<"follow", r.by, XOnly(r.who)>> /\ r.time <= l.time
            <4>1. r.time \in Nat /\ \E l \in db.last : l.pair = <<"follow", r.by, XOnly(r.who)>> /\ r.time <= l.time
                BY <1>6 DEF NInv, LastSound
            <4>2. PICK l \in db.last : l.pair = <<"follow", r.by, XOnly(r.who)>> /\ r.time <= l.time
                BY <4>1
            <4>3. PICK m \in db'.last : m.pair = l.pair /\ r.time <= m.time
                BY <2>6, <4>1, <4>2
            <4> QED  BY <4>1, <4>2, <4>3
        <3>4. ASSUME NEW r \in db'.blocks
              PROVE  r.time \in Nat /\ \E l \in db'.last : l.pair = <<"block", r.by, XOnly(r.who)>> /\ r.time <= l.time
            <4>1. r.time \in Nat /\ \E l \in db.last : l.pair = <<"block", r.by, XOnly(r.who)>> /\ r.time <= l.time
                BY <1>6 DEF NInv, LastSound
            <4>2. PICK l \in db.last : l.pair = <<"block", r.by, XOnly(r.who)>> /\ r.time <= l.time
                BY <4>1
            <4>3. PICK m \in db'.last : m.pair = l.pair /\ r.time <= m.time
                BY <2>6, <4>1, <4>2
            <4> QED  BY <4>1, <4>2, <4>3
        <3> QED  BY <3>1, <3>2, <3>3, <3>4 DEF LastSound
    <2>8. \A i \in Ids : Recorded(i) => Recorded(i)'
        BY RecordedStays
    <2>9. Recorded(id)'
        <3>1. Recorded(work[w].id)'
            BY <1>15, RecordedStays DEF Newest
        <3>2. id = work'[w].id
            BY <1>1
        <3> QED  BY <3>1, <3>2
    <2>10. AllRecorded'
        <3>1. ASSUME NEW i \in Ids, Relating(i), Accepted(i), plan.txs[i].as # "follow"
              PROVE  InHand(i, {"newest"})' \/ i \in half' \/ Recorded(i)'
            <4>1. InHand(i, {"newest"}) \/ i \in half \/ Recorded(i)
                BY <3>1 DEF NInv, AllRecorded
            <4> QED  BY <1>2, <1>10, <1>15, <2>8, <2>9, <4>1
        <3> QED  BY <1>1, <1>7, <3>1 DEF AllRecorded
    <2>11. Carrying(P)'
        <3>1. PairOf(Tx(w)') = P /\ work'[w].pc = "relate"
            BY <1>0, <1>1, <1>3, <1>4, <1>5, <1>15 DEF Tx
        <3> QED  BY <1>1, <3>1 DEF Carrying, At, PairOf
    <2>12. ASSUME NEW pair, pair # P
           PROVE  /\ Matches(pair) => Matches(pair)'
                  /\ Interrupted(pair) => Interrupted(pair)'
        <3>1. \A l : l.pair = pair => (l \in db'.last <=> l \in db.last)
            BY <2>2, <2>3, <2>12
        <3>2. Matches(pair) => Matches(pair)'
            BY <1>6, <3>1 DEF Matches, RowOf
        <3>3. ASSUME NEW i \in half, Relating(i), PairOf(plan.txs[i]) = pair, IsLast(i)
              PROVE  i \in half' /\ Relating(i)' /\ PairOf(plan'.txs[i]) = pair /\ IsLast(i)'
            <4>1. PICK l \in db.last : l.pair = pair /\ l.time = Time(i) /\ l.as = plan.txs[i].as
                BY <3>3 DEF IsLast
            <4>2. l \in db'.last /\ l.pair = PairOf(plan'.txs[i]) /\ l.time = Time(i)' /\ l.as = plan'.txs[i].as
                BY <1>1, <1>7, <3>1, <3>3, <4>1
            <4>3. IsLast(i)'
                BY <4>2 DEF IsLast, PairOf
            <4> QED  BY <1>1, <1>2, <1>7, <1>15, <3>3, <4>3
        <3> QED  BY <3>2, <3>3 DEF Interrupted, PairOf
    <2>13. AllCarried'
        <3>1. ASSUME NEW pair \in Pairs, pair \notin raced', ~Blocked(pair[2])'
              PROVE  (Matches(pair) \/ Carrying(pair) \/ Interrupted(pair))'
            <4>1. CASE pair = P
                BY <2>11, <4>1
            <4>2. CASE pair # P
                <5>1. PICK k : k = pair[2]
                    OBVIOUS
                <5>2. ~Blocked(k)
                    BY <1>8, <3>1, <5>1
                <5>3. Matches(pair) \/ Carrying(pair) \/ Interrupted(pair)
                    BY <1>1, <3>1, <5>1, <5>2 DEF NInv, AllCarried
                <5> QED  BY <1>11, <2>12, <4>2, <5>3
            <4> QED  BY <4>1, <4>2
        <3> QED  BY <1>9, <3>1 DEF AllCarried
    <2> QED  BY <2>7, <2>10, <2>13
<1> QED  BY <1>14, <1>15

\* The rows of a pair are made to agree with the newest action.
LEMMA RelateKept ==
    ASSUME NInv, NEW w \in Everyone, Handling(w) \/ HandlingPending(w), Forward(w), SaveFollow(w) \/ SaveBlock(w)
    PROVE  LastSound' /\ AllRecorded' /\ AllCarried'
<1> DEFINE tx == Tx(w)
<1>0. PICK id : id = work[w].id
    OBVIOUS
<1>1. /\ plan' = plan /\ Ids' = Ids /\ Everyone' = Everyone /\ raced \subseteq raced'
      /\ \A v \in Everyone : v # w => work'[v] = work[v]
      /\ TableLike(db) /\ Tables \subseteq DOMAIN db
    BY <1>0 DEF Forward, NInv, MInv, CInv
<1>2. work[w].pc = "relate" /\ half' = half \ {tx.id}
    BY DEF SaveFollow, SaveBlock, At
<1>3. /\ id \in Ids /\ tx = plan.txs[id] /\ tx.id = id /\ tx.time = Time(id) /\ tx.time \in Nat /\ Kind(id) = tx.kind
      /\ Kind(id) \in {"follow", "block"} /\ Recorded(id) /\ (PairOf(tx) \notin raced => IsLast(id))
    BY <1>0, <1>2, HandledTx DEF NInv, OrderStage
<1>4. PICK P : P = PairOf(tx)
    OBVIOUS
<1>5. P = <<tx.kind, tx.by, XOnly(tx.who[1])>>
    BY <1>4 DEF PairOf
<1>6. db'.last = db.last /\ db'.used = db.used
    <2>1. Touches(w)
        BY HandlersTouch DEF Handling, HandlingPending
    <2>2. ~RelationIsNewest(w) /\ ~SignatureIsFresh(w)
        BY <1>2 DEF RelationIsNewest, SignatureIsFresh, At
    <2> QED  BY <2>1, <2>2 DEF Touches
<1>7. \A i : /\ Relating(i)' <=> Relating(i)
             /\ Accepted(i)' <=> Accepted(i)
             /\ (Recorded(i)' <=> Recorded(i)) /\ (IsLast(i)' <=> IsLast(i))
    BY <1>1, <1>6 DEF Relating, Kind, Accepted, Time, Recorded, IsLast
<1>8. \A k : Blocked(k) => Blocked(k)'
    BY <1>1, <1>7 DEF Blocked, IsOperator
<1>9. Pairs' = Pairs /\ \A pair \in Pairs : pair[1] \in {"follow", "block"} /\ pair = <<pair[1], pair[2], pair[3]>>
    BY <1>1 DEF Pairs, PairOf
<1>10. AllRecorded'
    <2>1. ASSUME NEW i \in Ids, Relating(i), Accepted(i), plan.txs[i].as # "follow"
          PROVE  InHand(i, {"newest"})' \/ i \in half' \/ Recorded(i)
        <3>1. InHand(i, {"newest"}) \/ i \in half \/ Recorded(i)
            BY <2>1 DEF NInv, AllRecorded
        <3>2. InHand(i, {"newest"}) => InHand(i, {"newest"})'
            BY <1>1, <1>2 DEF InHand
        <3> QED  BY <1>2, <1>3, <3>1, <3>2
    <2> QED  BY <1>1, <1>7, <2>1 DEF AllRecorded
<1>11. PICK row : row = RelationRow(tx)
    OBVIOUS
<1>12. row.by = tx.by /\ row.who = tx.who[1] /\ row.time = tx.time
    BY <1>11 DEF RelationRow
<1>13. PICK l \in db.last : l.pair = P /\ l.time >= tx.time /\ l.time \in Nat /\ (P \notin raced => l.time = tx.time /\ l.as = tx.as)
    <2>1. \A m \in db.last : m.time \in Nat
        BY DEF NInv, LastSound
    <2>2. PICK m \in db.last : m.pair = P /\ m.time >= tx.time
        BY <1>3, <1>4 DEF Recorded
    <2>3. CASE P \notin raced
        <3>1. PICK n \in db.last : n.pair = P /\ n.time = tx.time /\ n.as = tx.as
            BY <1>3, <1>4, <2>3 DEF IsLast
        <3> QED  BY <2>1, <3>1, <1>3
    <2> QED  BY <2>1, <2>2, <2>3
<1>14. \A m \in db.last : m.pair = P => m = l
    BY <1>13 DEF NInv, LastSound
\* The table that changes, and the other one.
<1> DEFINE rows(d) == IF tx.kind = "follow" THEN d.follows ELSE d.blocks
           others(d) == IF tx.kind = "follow" THEN d.blocks ELSE d.follows
<1>15. PICK old, new : old = rows(db) /\ new = rows(db')
    OBVIOUS
<1>16. others(db') = others(db)
    <2>1. CASE SaveFollow(w)
        <3>1. tx.kind = "follow" /\ db' \in {Follow(db, tx), Unfollow(db, tx)}
            BY <2>1 DEF SaveFollow, Handles
        <3>2. Frame(Follow(db, tx), {"follows"}) /\ Frame(Unfollow(db, tx), {"follows"})
            BY <1>1, StatementsFrame
        <3>3. Frame(db', {"follows"})
            BY <3>1, <3>2
        <3> QED  BY <3>1, <3>3 DEF Frame
    <2>2. CASE SaveBlock(w)
        <3>1. tx.kind = "block" /\ db' \in {Block(db, tx), Unblock(db, tx)}
            BY <2>2 DEF SaveBlock, Handles
        <3>2. Frame(Block(db, tx), {"blocks"}) /\ Frame(Unblock(db, tx), {"blocks"})
            BY <1>1, StatementsFrame
        <3>3. Frame(db', {"blocks"})
            BY <3>1, <3>2
        <3> QED  BY <3>1, <3>3 DEF Frame
    <2> QED  BY <2>1, <2>2
<1>17. \A r : SamePair(r, tx) <=> r.by = P[2] /\ XOnly(r.who) = P[3]
    BY <1>5 DEF SamePair, SamePerson
<1>18. IF tx.as = tx.kind
       THEN new = IF \A r \in old : ~SamePair(r, tx) THEN old \cup {row} ELSE old
       ELSE new = {r \in old : ~(SamePair(r, tx) /\ r.time <= tx.time)}
    <2>1. CASE SaveFollow(w)
        <3>1. tx.kind = "follow" /\ db' = IF tx.as = "follow" THEN Follow(db, tx) ELSE Unfollow(db, tx)
            BY <2>1 DEF SaveFollow, Handles
        <3>2. old = db.follows /\ new = db'.follows
            BY <1>15, <3>1
        <3> QED  BY <1>1, <1>11, <3>1, <3>2 DEF Follow, Unfollow, NewFollow, Tables
    <2>2. CASE SaveBlock(w)
        <3>1. tx.kind = "block" /\ db' = IF tx.as = "block" THEN Block(db, tx) ELSE Unblock(db, tx)
            BY <2>2 DEF SaveBlock, Handles
        <3>2. old = db.blocks /\ new = db'.blocks
            BY <1>15, <3>1
        <3> QED  BY <1>1, <1>11, <3>1, <3>2 DEF Block, Unblock, Tables
    <2> QED  BY <2>1, <2>2
<1>19. \A r \in old : r.time \in Nat /\ \E m \in db.last : m.pair = <<tx.kind, r.by, XOnly(r.who)>> /\ r.time <= m.time
    BY <1>3, <1>15 DEF NInv, LastSound
<1>20. ASSUME NEW r \in new
       PROVE  r.time \in Nat /\ \E m \in db'.last : m.pair = <<tx.kind, r.by, XOnly(r.who)>> /\ r.time <= m.time
    <2>1. CASE r \in old
        BY <1>6, <1>19, <2>1
    <2>2. CASE r = row
        BY <1>3, <1>5, <1>6, <1>12, <1>13, <2>2
    <2> QED  BY <1>18, <2>1, <2>2
<1>21. LastSound'
    <2>1. /\ \A m \in db'.last : m.time \in Nat
          /\ \A m, n \in db'.last : m.pair = n.pair => m = n
        BY <1>6 DEF NInv, LastSound
    <2>2. CASE tx.kind = "follow"
        <3>1. db'.follows = new /\ db'.blocks = db.blocks
            BY <1>15, <1>16, <2>2
        <3>2. \A r \in db.blocks : r.time \in Nat /\ \E m \in db'.last : m.pair = <<"block", r.by, XOnly(r.who)>> /\ r.time <= m.time
            BY <1>6 DEF NInv, LastSound
        <3> QED  BY <1>20, <2>1, <2>2, <3>1, <3>2 DEF LastSound
    <2>3. CASE tx.kind = "block"
        <3>1. db'.blocks = new /\ db'.follows = db.follows
            BY <1>15, <1>16, <2>3
        <3>2. \A r \in db.follows : r.time \in Nat /\ \E m \in db'.last : m.pair = <<"follow", r.by, XOnly(r.who)>> /\ r.time <= m.time
            BY <1>6 DEF NInv, LastSound
        <3> QED  BY <1>20, <2>1, <2>3, <3>1, <3>2 DEF LastSound
    <2> QED  BY <1>3, <2>2, <2>3
<1>22. ASSUME NEW pair \in Pairs, pair # P
       PROVE  RowOf(pair)' = RowOf(pair)
    <2>1. CASE pair[1] = tx.kind
        <3>1. RowOf(pair) = {r \in old : r.by = pair[2] /\ XOnly(r.who) = pair[3]}
            BY <1>3, <1>15, <2>1 DEF RowOf
        <3>2. RowOf(pair)' = {r \in new : r.by = pair[2] /\ XOnly(r.who) = pair[3]}
            BY <1>3, <1>15, <2>1 DEF RowOf
        <3>3. ~(pair[2] = P[2] /\ pair[3] = P[3])
            BY <1>5, <1>9, <1>22, <2>1
        <3>4. \A r : r.by = pair[2] /\ XOnly(r.who) = pair[3] => ~SamePair(r, tx)
            BY <1>17, <3>3
        <3>5. SamePair(row, tx)
            BY <1>5, <1>12, <1>17
        <3>6. \A r : r.by = pair[2] /\ XOnly(r.who) = pair[3] => (r \in new <=> r \in old)
            BY <1>18, <3>4, <3>5
        <3> QED  BY <3>1, <3>2, <3>6
    <2>2. CASE pair[1] # tx.kind
        <3>1. RowOf(pair) = {r \in others(db) : r.by = pair[2] /\ XOnly(r.who) = pair[3]}
            BY <1>3, <1>9, <2>2 DEF RowOf
        <3>2. RowOf(pair)' = {r \in others(db') : r.by = pair[2] /\ XOnly(r.who) = pair[3]}
            BY <1>3, <1>9, <2>2 DEF RowOf
        <3> QED  BY <1>16, <3>1, <3>2
    <2> QED  BY <2>1, <2>2
<1>23. P \notin raced => Matches(P)'
    <2>1. SUFFICES ASSUME P \notin raced
                   PROVE  Matches(P)'
        OBVIOUS
    <2>2. RowOf(P)' = {r \in new : SamePair(r, tx)}
        <3>1. RowOf(P)' = {r \in new : r.by = P[2] /\ XOnly(r.who) = P[3]}
            BY <1>3, <1>5, <1>15 DEF RowOf
        <3> QED  BY <1>17, <3>1
    <2>3. P[1] = tx.kind /\ l.as = tx.as /\ l.time = tx.time
        BY <1>5, <1>13, <2>1
    <2>4. (\E m \in db.last : m.pair = P /\ m.as = P[1]) <=> tx.as = tx.kind
        BY <1>13, <1>14, <2>3
    <2>5. CASE tx.as = tx.kind
        <3>1. SamePair(row, tx)
            BY <1>5, <1>12, <1>17
        <3>2. RowOf(P)' # {}
            BY <1>18, <2>2, <2>5, <3>1
        <3> QED  BY <1>6, <2>4, <2>5, <3>2 DEF Matches
    <2>6. CASE tx.as # tx.kind
        <3>1. ASSUME NEW r \in old, SamePair(r, tx)
              PROVE  r.time <= tx.time
            <4>1. PICK m \in db.last : m.pair = <<tx.kind, r.by, XOnly(r.who)>> /\ r.time <= m.time
                BY <1>19
            <4>2. m.pair = P
                BY <1>5, <1>17, <3>1, <4>1
            <4> QED  BY <1>14, <2>3, <4>1, <4>2
        <3>2. RowOf(P)' = {}
            BY <1>18, <2>2, <2>6, <3>1
        <3> QED  BY <1>6, <2>4, <2>6, <3>2 DEF Matches
    <2> QED  BY <2>5, <2>6
<1>24. AllCarried'
    <2>1. ASSUME NEW pair \in Pairs, pair \notin raced', ~Blocked(pair[2])'
          PROVE  (Matches(pair) \/ Carrying(pair) \/ Interrupted(pair))'
        <3>1. CASE pair = P
            BY <1>1, <1>23, <2>1, <3>1
        <3>2. CASE pair # P
            <4>1. PICK k : k = pair[2]
                OBVIOUS
            <4>2. ~Blocked(k)
                BY <1>8, <2>1, <4>1
            <4>3. Matches(pair) \/ Carrying(pair) \/ Interrupted(pair)
                BY <1>1, <2>1, <4>1, <4>2 DEF NInv, AllCarried
            <4>4. Matches(pair) => Matches(pair)'
                BY <1>6, <1>22, <3>2 DEF Matches
            <4>5. Carrying(pair) => Carrying(pair)'
                <5>1. ASSUME NEW v \in Everyone, work[v].pc = "relate", PairOf(Tx(v)) = pair
                      PROVE  work'[v].pc = "relate" /\ PairOf(Tx(v)') = pair
                    BY <1>1, <1>4, <3>2, <5>1 DEF Tx
                <5> QED  BY <1>1, <5>1 DEF Carrying, At, PairOf
            <4>6. Interrupted(pair) => Interrupted(pair)'
                <5>1. ASSUME NEW i \in half, Relating(i), PairOf(plan.txs[i]) = pair, IsLast(i)
                      PROVE  i \in half' /\ Relating(i)' /\ PairOf(plan'.txs[i]) = pair /\ IsLast(i)'
                    BY <1>1, <1>2, <1>3, <1>4, <1>7, <3>2, <5>1
                <5> QED  BY <5>1 DEF Interrupted, PairOf
            <4> QED  BY <4>3, <4>4, <4>5, <4>6
        <3> QED  BY <3>1, <3>2
    <2> QED  BY <1>9, <2>1 DEF AllCarried
<1> QED  BY <1>10, <1>21, <1>24

\* A purge takes the rows of an author whom an operator has blocked.
LEMMA PurgeKept ==
    ASSUME NInv, NEW w \in Everyone, Handling(w) \/ HandlingPending(w), Forward(w), PurgeTarget(w)
    PROVE  LastSound' /\ AllRecorded' /\ AllCarried'
<1>1. /\ plan' = plan /\ Ids' = Ids /\ Everyone' = Everyone /\ raced \subseteq raced'
      /\ \A v \in Everyone : v # w => work'[v] = work[v]
      /\ Tables \subseteq DOMAIN db
    BY DEF Forward, NInv
<1>2. PICK id, who : id = work[w].id /\ who = Tx(w).who[1]
    OBVIOUS
<1>3. work[w].pc = "purge" /\ half' = half /\ db' = Purge(db, who)
    BY <1>2 DEF PurgeTarget, At
<1>4. db'.follows = {f \in db.follows : f.by # who} /\ db'.blocks = {b \in db.blocks : b.by # who}
    BY <1>1, <1>3 DEF Purge, Tables
<1>5. db'.last = db.last /\ db'.used = db.used
    <2>1. Touches(w)
        BY HandlersTouch DEF Handling, HandlingPending
    <2>2. ~RelationIsNewest(w) /\ ~SignatureIsFresh(w)
        BY <1>3 DEF RelationIsNewest, SignatureIsFresh, At
    <2> QED  BY <2>1, <2>2 DEF Touches
<1>6. Blocked(who)
    <2>1. id \in Ids /\ Tx(w) = plan.txs[id]
        BY <1>2, <1>3, HandledTx
    <2>2. Tx(w).kind = "block" /\ Tx(w).as = "block" /\ IsOperator(Tx(w).by)
        BY <1>2, <1>3, HandledTx DEF NInv, MInv, CInv, KInv, Staged, InStage, OrderStage
    <2>3. Accepted(id)
        BY <1>2, <1>3, <2>1, <2>2, HandledTx DEF NInv, MInv, CInv, ClaimStage, Unclaimed, Claims, Accepted
    <2> QED  BY <1>2, <2>1, <2>2, <2>3 DEF Blocked
<1>7. \A i : /\ Relating(i)' <=> Relating(i)
             /\ Accepted(i)' <=> Accepted(i)
             /\ (Recorded(i)' <=> Recorded(i)) /\ (IsLast(i)' <=> IsLast(i))
    BY <1>1, <1>5 DEF Relating, Kind, Accepted, Time, Recorded, IsLast
<1>8. \A k : Blocked(k) => Blocked(k)'
    BY <1>1, <1>7 DEF Blocked, IsOperator
<1>9. Pairs' = Pairs
    BY <1>1 DEF Pairs, PairOf
<1>10. LastSound'
    BY <1>4, <1>5 DEF NInv, LastSound
<1>11. \A v \in Everyone : work[v].pc \in {"newest", "relate"} => work'[v] = work[v]
    BY <1>1, <1>3
<1>12. AllRecorded'
    <2>1. \A i : InHand(i, {"newest"}) => InHand(i, {"newest"})'
        BY <1>1, <1>11 DEF InHand
    <2> QED  BY <1>1, <1>3, <1>7, <2>1 DEF NInv, AllRecorded
<1>13. ASSUME NEW pair \in Pairs, pair \notin raced', ~Blocked(pair[2])'
       PROVE  (Matches(pair) \/ Carrying(pair) \/ Interrupted(pair))'
    <2>1. PICK k : k = pair[2]
        OBVIOUS
    <2>2. ~Blocked(k) /\ k # who
        BY <1>6, <1>8, <1>13, <2>1
    <2>3. Matches(pair) \/ Carrying(pair) \/ Interrupted(pair)
        BY <1>1, <1>13, <2>1, <2>2 DEF NInv, AllCarried
    <2>4. RowOf(pair)' = RowOf(pair)
        BY <1>4, <2>1, <2>2 DEF RowOf
    <2>5. Matches(pair) => Matches(pair)'
        BY <1>5, <2>4 DEF Matches
    <2>6. Carrying(pair) => Carrying(pair)'
        BY <1>1, <1>11 DEF Carrying, At, Tx, PairOf
    <2>7. Interrupted(pair) => Interrupted(pair)'
        BY <1>1, <1>3, <1>7 DEF Interrupted, PairOf
    <2> QED  BY <2>3, <2>5, <2>6, <2>7
<1> QED  BY <1>9, <1>10, <1>12, <1>13 DEF AllCarried

\* Two workers that meet at the rows of a pair, or of a person's profile, are
\* on record.
LEMMA Meeting ==
    ASSUME NInv, NEW w \in Everyone, NEW v \in Everyone, v # w
    PROVE  /\ Newest(w) /\ At(v, "relate") /\ PairOf(Tx(v)) = PairOf(Tx(w)) => PairOf(Tx(w)) \in raced'
           /\ OpenLedger(w) /\ At(v, "profile") /\ XOnly(Tx(v).by) = XOnly(Tx(w).by) => <<"profile", XOnly(Tx(w).by), 0>> \in raced'
<1>1. OrderStage(v) /\ OrderStage(w)
    BY DEF NInv
<1>2. work[v].pc \in {"relate", "profile"} => v \in Workers /\ Kind(work[v].id) = Tx(v).kind
    <2>1. v = Retrier => work[v].pc \notin {"relate", "profile"}
        BY <1>1 DEF OrderStage
    <2> QED  BY <2>1, HandledTx DEF Everyone
<1>3. ASSUME Newest(w), At(v, "relate"), PairOf(Tx(v)) = PairOf(Tx(w))
      PROVE  PairOf(Tx(w)) \in raced'
    <2>1. v \in Workers \ {w} /\ Tx(v).kind = Tx(w).kind
        BY <1>2, <1>3 DEF At, PairOf
    <2> QED  BY <1>3, <2>1 DEF Newest, RelationIsNewest, Other
<1>4. ASSUME OpenLedger(w), At(v, "profile"), XOnly(Tx(v).by) = XOnly(Tx(w).by)
      PROVE  <<"profile", XOnly(Tx(w).by), 0>> \in raced'
    <2>1. Tx(v).kind = "profile"
        BY <1>1, <1>2, <1>4 DEF OrderStage, At
    <2>2. Tx(w).kind = "profile"
        BY <1>1, <1>4, HandledTx DEF OrderStage, OpenLedger, At
    <2>3. v \in Workers \ {w} /\ At(v, "profile") /\ Tx(v).kind = Tx(w).kind /\ SamePerson(Tx(v).by, Tx(w).by)
        BY <1>2, <1>4, <2>1, <2>2 DEF At, SamePerson
    <2> QED  BY <1>4, <2>3 DEF OpenLedger, Other
<1> QED  BY <1>3, <1>4

LEMMA OwnStage ==
    ASSUME NInv, NEW w \in Everyone, Handling(w) \/ HandlingPending(w), Forward(w)
    PROVE  OrderStage(w)'
<1>0. PICK id : id = work[w].id
    OBVIOUS
<1>1. /\ plan' = plan /\ Ids' = Ids /\ Everyone' = Everyone /\ work'[w].id = id
      /\ \A v \in Everyone : v # w => work'[v] = work[v]
      /\ KInv /\ WorkShape /\ TableLike(db) /\ Tables \subseteq DOMAIN db /\ (Handle(w) \/ HandlePending(w))
      /\ OrderStage(w) /\ PairStage(w) /\ ClaimStage(w) /\ UsedSound /\ UNCHANGED torn
    BY <1>0 DEF Forward, NInv, MInv, CInv, KInv, Shaped, Handling, HandlingPending, pipeVars
<1>2. PICK next : Moves(w, next) /\ Goes(w, next)
    BY <1>1, HandlersGo
<1>3. work'[w].pc = next
    BY <1>1, <1>2, MemoMoves
<1>4. work[w].pc \notin {"idle", "refetch"}
    <2>1. \E n : Steps(w, n)
        BY <1>1, HandlersStep
    <2> QED  BY <2>1 DEF Steps
<1>5. PICK tx : tx = Tx(w)
    OBVIOUS
<1>6. id \in Ids /\ tx = plan.txs[id] /\ tx.id = id /\ Kind(id) = tx.kind
    BY <1>0, <1>4, <1>5, HandledTx
<1>7. Tx(w)' = tx /\ Kind(id)' = Kind(id) /\ (IsOperator(tx.by)' <=> IsOperator(tx.by)) /\ EditRow(id)' = EditRow(id)
    BY <1>1, <1>6 DEF Tx, Kind, IsOperator, EditRow
<1>8. w = Retrier => Kind(id) \in {"bcast", "tip"}
    BY <1>0, <1>1, <1>4 DEF OrderStage
<1>9. next \in {"related", "newest", "relate"} => Kind(id) \in {"follow", "block"}
    <2>1. RelationIsNewest(w) => Kind(id) \in {"follow", "block"}
        BY <1>0, <1>1 DEF RelationIsNewest, At, OrderStage
    <2> QED  BY <1>0, <1>2, <2>1 DEF Goes
<1>10. next \in {"ledger", "profile"} => Kind(id) = "profile"
    <2>1. OpenLedger(w) => Kind(id) = "profile"
        BY <1>0, <1>1 DEF OpenLedger, At, OrderStage
    <2> QED  BY <1>0, <1>2, <2>1 DEF Goes
<1>11. next = "apply" => EditRow(id) \in db'.edits
    <2>1. SUFFICES ASSUME AuditEdit(w)
                   PROVE  EditRow(id) \in db'.edits
        BY <1>2 DEF Goes
    <2>2. work[w].pc = "audit" /\ db' = RecordEdit(db, tx)
        BY <1>5, <2>1 DEF AuditEdit, At
    <2>3. Kind(id) = "edit" /\ Claims(id)
        BY <1>0, <1>1, <2>2 DEF PairStage, ClaimStage, Unclaimed
    <2>4. CASE \E e \in db.edits : e.sig = tx.sig
        <3>1. PICK e \in db.edits : e.sig = tx.sig
            BY <2>4
        <3>2. e.id \in Ids /\ Claims(e.id) /\ e = EditRow(e.id)
            BY DEF NInv, EditsSound
        <3>3. plan.txs[e.id].sig = tx.sig
            BY <3>1, <3>2 DEF EditRow
        <3>4. e.id = id
            BY <1>1, <1>6, <2>3, <3>2, <3>3 DEF Claims, UsedSound
        <3>5. db' = db
            BY <2>2, <2>4 DEF RecordEdit
        <3> QED  BY <3>1, <3>2, <3>4, <3>5
    <2>5. CASE ~(\E e \in db.edits : e.sig = tx.sig)
        BY <1>1, <1>6, <2>2, <2>5 DEF RecordEdit, EditRow, Tables
    <2> QED  BY <2>4, <2>5
<1>12. next = "relate" => Recorded(id)' /\ IsLast(id)'
    <2>1. next = "relate" => Newest(w)
        BY <1>2 DEF Goes, Newest
    <2>2. Newest(w) => Recorded(work[w].id)' /\ IsLast(work[w].id)'
        BY RecordedStays
    <2>3. id = work'[w].id
        BY <1>1
    <2> QED  BY <2>1, <2>2, <2>3
<1>13. next = "relate" /\ PairOf(tx) \notin raced' => \A v \in Everyone : v # w /\ At(v, "relate")' => PairOf(Tx(v)') # PairOf(tx)
    <2>1. SUFFICES ASSUME next = "relate", PairOf(tx) \notin raced', NEW v \in Everyone, v # w, work'[v].pc = "relate"
                   PROVE  PairOf(Tx(v)') # PairOf(tx)
        BY DEF At
    <2>2. work'[v] = work[v] /\ At(v, "relate") /\ Tx(v)' = Tx(v)
        BY <1>1, <2>1 DEF At, Tx
    <2>3. Newest(w)
        BY <1>2, <2>1 DEF Goes, Newest
    <2> QED  BY <1>5, <2>1, <2>2, <2>3, Meeting
<1>14. next = "profile" /\ <<"profile", XOnly(tx.by), 0>> \notin raced' =>
         /\ work'[w].memo = db'.profiles
         /\ \A v \in Everyone : v # w /\ At(v, "profile")' => XOnly(Tx(v)'.by) # XOnly(tx.by)
    <2>1. SUFFICES ASSUME next = "profile", <<"profile", XOnly(tx.by), 0>> \notin raced'
                   PROVE  /\ work'[w].memo = db'.profiles
                          /\ \A v \in Everyone : v # w /\ At(v, "profile")' => XOnly(Tx(v)'.by) # XOnly(tx.by)
        OBVIOUS
    <2>2. OpenLedger(w) /\ work'[w].memo = db.profiles
        BY <1>2, <2>1 DEF Goes
    <2>3. work'[w].memo = db'.profiles
        BY <2>2 DEF OpenLedger
    <2>4. ASSUME NEW v \in Everyone, v # w, work'[v].pc = "profile"
          PROVE  XOnly(Tx(v)'.by) # XOnly(tx.by)
        <3>1. work'[v] = work[v] /\ At(v, "profile") /\ Tx(v)' = Tx(v)
            BY <1>1, <2>4 DEF At, Tx
        <3> QED  BY <1>5, <2>1, <2>2, <2>4, <3>1, Meeting
    <2> QED  BY <2>3, <2>4 DEF At
<1>15. /\ next \in {"operator", "purge"} => IsOperator(tx.by)
       /\ next = "purge" => tx.as = "block"
    <2>1. DenyTarget(w) => IsOperator(tx.by) /\ tx.as = "block"
        BY <1>1, <1>5 DEF DenyTarget, At, OrderStage
    <2> QED  BY <1>2, <1>5, <2>1 DEF Goes
<1>16. (/\ w = Retrier => work[w].pc \in {"idle", "refetch"} \/ Kind(work[w].id) \in {"bcast", "tip"}
        /\ work[w].pc \in {"related", "newest", "relate"} => Kind(work[w].id) \in {"follow", "block"}
        /\ work[w].pc \in {"ledger", "profile"} => Kind(work[w].id) = "profile")'
    BY <1>1, <1>3, <1>7, <1>8, <1>9, <1>10 DEF Kind
<1>17. (work[w].pc = "apply" => EditRow(work[w].id) \in db.edits)'
    BY <1>1, <1>3, <1>7, <1>11 DEF EditRow
<1>18. (work[w].pc = "relate" => Recorded(work[w].id))'
    BY <1>1, <1>3, <1>12
<1>19. (work[w].pc = "relate" /\ PairOf(Tx(w)) \notin raced =>
            /\ IsLast(work[w].id)
            /\ \A v \in Everyone : v # w /\ At(v, "relate") => PairOf(Tx(v)) # PairOf(Tx(w)))'
    BY <1>1, <1>3, <1>7, <1>12, <1>13 DEF PairOf
<1>20. (work[w].pc = "profile" /\ ~ProfileRaced(XOnly(Tx(w).by)) =>
            /\ OfPerson(work[w].memo, XOnly(Tx(w).by)) = OfPerson(db.profiles, XOnly(Tx(w).by))
            /\ \A v \in Everyone : v # w /\ At(v, "profile") => XOnly(Tx(v).by) # XOnly(Tx(w).by))'
    BY <1>1, <1>3, <1>7, <1>14 DEF ProfileRaced, OfPerson, XOnly
<1>21. (/\ work[w].pc \in {"operator", "purge"} => IsOperator(Tx(w).by)
        /\ work[w].pc = "purge" => Tx(w).as = "block")'
    BY <1>1, <1>3, <1>7, <1>15 DEF IsOperator, XOnly
<1> QED  BY <1>16, <1>17, <1>18, <1>19, <1>20, <1>21 DEF OrderStage

LEMMA OtherStages ==
    ASSUME NInv, NEW w \in Everyone, Handling(w) \/ HandlingPending(w), Forward(w), NEW v \in Everyone, v # w
    PROVE  OrderStage(v)'
<1>1. /\ plan' = plan /\ Ids' = Ids /\ Everyone' = Everyone /\ work'[v] = work[v] /\ raced \subseteq raced'
      /\ \A u \in Everyone : u # w => work'[u] = work[u]
      /\ WorkShape /\ Tables \subseteq DOMAIN db /\ (Handle(w) \/ HandlePending(w))
      /\ OrderStage(v) /\ OrderStage(w)
    BY DEF Forward, NInv, MInv, CInv, KInv, Shaped, Handling, HandlingPending
<1>2. PICK next : Moves(w, next) /\ Goes(w, next)
    BY <1>1, HandlersGo
<1>3. work'[w].pc = next /\ work'[w].id = work[w].id
    BY <1>1, <1>2, MemoMoves
<1>4. PICK id, tx : id = work[v].id /\ tx = Tx(v)
    OBVIOUS
<1>5. /\ work[v].pc \notin {"idle", "refetch"} => id \in Ids
      /\ work'[v].id = id /\ work'[v].pc = work[v].pc /\ work'[v].memo = work[v].memo /\ Tx(v)' = tx /\ Tx(w)' = Tx(w)
    BY <1>1, <1>3, <1>4, HandledTx DEF Tx
<1>6. Touches(w)
    BY <1>1, HandlersTouch
<1>7. (/\ v = Retrier => work[v].pc \in {"idle", "refetch"} \/ Kind(work[v].id) \in {"bcast", "tip"}
       /\ work[v].pc \in {"related", "newest", "relate"} => Kind(work[v].id) \in {"follow", "block"}
       /\ work[v].pc \in {"ledger", "profile"} => Kind(work[v].id) = "profile")'
    BY <1>1 DEF OrderStage, Kind
<1>8. (work[v].pc = "apply" => EditRow(work[v].id) \in db.edits)'
    BY <1>1, <1>6 DEF OrderStage, EditRow, Touches
<1>9. work[v].pc = "relate" => Recorded(id)'
    <2>1. work[v].pc = "relate" => id \in Ids /\ Recorded(id)
        BY <1>1, <1>4, <1>5 DEF OrderStage
    <2> QED  BY <2>1, RecordedStays
<1>10. (work[v].pc = "relate" => Recorded(work[v].id))'
    BY <1>5, <1>9
<1>11. ASSUME work[v].pc = "relate", PairOf(tx) \notin raced'
       PROVE  IsLast(id)' /\ \A u \in Everyone : u # v /\ At(u, "relate")' => PairOf(Tx(u)') # PairOf(tx)
    <2>1. /\ IsLast(id) /\ id \in Ids /\ tx = plan.txs[id]
          /\ \A u \in Everyone : u # v /\ At(u, "relate") => PairOf(Tx(u)) # PairOf(tx)
        BY <1>1, <1>4, <1>5, <1>11, HandledTx DEF OrderStage
    <2>2. ~(Newest(w) /\ PairOf(Tx(w)) = PairOf(tx))
        <3>1. Newest(w) /\ At(v, "relate") /\ PairOf(Tx(v)) = PairOf(Tx(w)) => PairOf(Tx(w)) \in raced'
            BY Meeting
        <3> QED  BY <1>4, <1>11, <3>1 DEF At
    <2>3. IsLast(id)'
        <3>1. IsLast(id)' \/ (Newest(w) /\ PairOf(plan.txs[id]) = PairOf(Tx(w)))
            BY <2>1, RecordedStays
        <3> QED  BY <2>1, <2>2, <3>1
    <2>4. ASSUME NEW u \in Everyone, u # v, work'[u].pc = "relate"
          PROVE  PairOf(Tx(u)') # PairOf(tx)
        <3>1. CASE u = w
            <4>1. Newest(w) /\ Tx(u)' = Tx(w)
                BY <1>2, <1>3, <1>5, <2>4, <3>1 DEF Goes, Newest
            <4> QED  BY <2>2, <4>1
        <3>2. CASE u # w
            <4>1. work'[u] = work[u] /\ Tx(u)' = Tx(u)
                BY <1>1, <3>2 DEF Tx
            <4> QED  BY <2>1, <2>4, <4>1 DEF At
        <3> QED  BY <3>1, <3>2
    <2> QED  BY <2>3, <2>4 DEF At
<1>12. (work[v].pc = "relate" /\ PairOf(Tx(v)) \notin raced =>
            /\ IsLast(work[v].id)
            /\ \A u \in Everyone : u # v /\ At(u, "relate") => PairOf(Tx(u)) # PairOf(Tx(v)))'
    BY <1>1, <1>5, <1>11 DEF PairOf
<1>13. ASSUME work[v].pc = "profile", <<"profile", XOnly(tx.by), 0>> \notin raced'
       PROVE  /\ OfPerson(work[v].memo, XOnly(tx.by)) = OfPerson(db'.profiles, XOnly(tx.by))
              /\ \A u \in Everyone : u # v /\ At(u, "profile")' => XOnly(Tx(u)'.by) # XOnly(tx.by)
    <2>1. /\ OfPerson(work[v].memo, XOnly(tx.by)) = OfPerson(db.profiles, XOnly(tx.by))
          /\ \A u \in Everyone : u # v /\ At(u, "profile") => XOnly(Tx(u).by) # XOnly(tx.by)
        BY <1>1, <1>4, <1>13 DEF OrderStage, ProfileRaced
    <2>2. OfPerson(db'.profiles, XOnly(tx.by)) = OfPerson(db.profiles, XOnly(tx.by))
        <3>1. CASE ~CommitProfile(w)
            BY <1>6, <3>1 DEF Touches
        <3>2. CASE CommitProfile(w)
            <4>1. At(w, "profile") /\ db' = SaveProfile(db, Tx(w), work[w].memo)
                BY <3>2 DEF CommitProfile
            <4>2. XOnly(Tx(w).by) # XOnly(tx.by)
                BY <2>1, <4>1
            <4>3. PICK gone, row : /\ gone = ProfilesOf(work[w].memo, Tx(w))
                                   /\ row = [id |-> Tx(w).id, by |-> Tx(w).by, time |-> Tx(w).time]
                OBVIOUS
            <4>4. db'.profiles = db.profiles \/ db'.profiles = (db.profiles \ gone) \cup {row}
                BY <1>1, <4>1, <4>3 DEF SaveProfile, Tables
            <4>5. XOnly(row.by) # XOnly(tx.by) /\ \A p \in gone : XOnly(p.by) # XOnly(tx.by)
                BY <4>2, <4>3 DEF ProfilesOf, SamePerson
            <4> QED  BY <4>4, <4>5 DEF OfPerson
        <3> QED  BY <3>1, <3>2
    <2>3. ASSUME NEW u \in Everyone, u # v, work'[u].pc = "profile"
          PROVE  XOnly(Tx(u)'.by) # XOnly(tx.by)
        <3>1. CASE u = w
            <4>1. OpenLedger(w) /\ Tx(u)' = Tx(w)
                BY <1>2, <1>3, <1>5, <2>3, <3>1 DEF Goes
            <4>2. XOnly(Tx(v).by) = XOnly(Tx(w).by) => <<"profile", XOnly(Tx(w).by), 0>> \in raced'
                BY <1>13, <4>1, Meeting DEF At
            <4> QED  BY <1>4, <1>13, <4>1, <4>2
        <3>2. CASE u # w
            <4>1. work'[u] = work[u] /\ Tx(u)' = Tx(u)
                BY <1>1, <3>2 DEF Tx
            <4> QED  BY <2>1, <2>3, <4>1 DEF At
        <3> QED  BY <3>1, <3>2
    <2> QED  BY <2>1, <2>2, <2>3 DEF At
<1>14. (work[v].pc = "profile" /\ ~ProfileRaced(XOnly(Tx(v).by)) =>
            /\ OfPerson(work[v].memo, XOnly(Tx(v).by)) = OfPerson(db.profiles, XOnly(Tx(v).by))
            /\ \A u \in Everyone : u # v /\ At(u, "profile") => XOnly(Tx(u).by) # XOnly(Tx(v).by))'
    BY <1>1, <1>5, <1>13 DEF ProfileRaced, OfPerson, XOnly
<1>15. (/\ work[v].pc \in {"operator", "purge"} => IsOperator(Tx(v).by)
        /\ work[v].pc = "purge" => Tx(v).as = "block")'
    BY <1>1, <1>4, <1>5 DEF OrderStage, IsOperator, XOnly
<1> QED  BY <1>7, <1>8, <1>10, <1>12, <1>14, <1>15 DEF OrderStage

\* A step of a handler keeps the order.
LEMMA HandlersOrder ==
    ASSUME NInv, NEW w \in Everyone, Handling(w) \/ HandlingPending(w)
    PROVE  NInv'
<1>1. Forward(w)
    BY HandlersForward
<1>2. MInv' /\ (Tables \subseteq DOMAIN db)' /\ Everyone' = Everyone
    BY <1>1 DEF Forward, Tables
<1>3. EditsSound' /\ TextsSound' /\ EditNewest'
    BY <1>1, EditsKept
<1>4. ProfilesSound'
    BY <1>1, ProfilesKept
<1>5. LastSound' /\ AllRecorded' /\ AllCarried'
    BY <1>1, RelationsBeside, NewestKept, RelateKept, PurgeKept
<1>6. \A v \in Everyone : OrderStage(v)'
    BY <1>1, OwnStage, OtherStages
<1> QED  BY <1>2, <1>3, <1>4, <1>5, <1>6 DEF NInv

\* What the other steps may do with a worker: what it leaves behind is recorded.
\* The retry loop takes broadcasts and tips.
Breaks(v) ==
    \/ work'[v] = work[v]
    \/ /\ work'[v].pc \in Resting
       /\ work[v].pc \in {"apply", "newest", "relate"} => work[v].id \in half'
       /\ v = Retrier => work'[v].pc = "idle" \/ Kind(work'[v].id) \in {"bcast", "tip"}

LEMMA AroundOrder ==
    ASSUME NInv, MInv', UNCHANGED <<plan, db>>, half \subseteq half', raced \subseteq raced', \A v \in Everyone : Breaks(v)
    PROVE  NInv'
<1>1. /\ plan' = plan /\ db' = db /\ Ids' = Ids /\ Everyone' = Everyone
    BY DEF Ids, Everyone
<1>2. \A v \in Everyone : work[v].pc \in {"apply", "newest", "relate"} => work'[v] = work[v] \/ work[v].id \in half'
    BY DEF Breaks
<1>3. EditsSound' /\ TextsSound' /\ EditNewest'
    <2>1. \A e \in db.edits : EditHeld(e.id) => EditHeld(e.id)'
        BY <1>1, <1>2 DEF EditHeld, InHand
    <2> QED  BY <1>1, <2>1, EditsAround
<1>4. ProfilesSound'
    BY <1>1 DEF NInv, ProfilesSound, ProfileRow, Time, ProfileRaced
<1>5. LastSound' /\ AllRecorded' /\ AllCarried'
    <2>1. \A i \in Ids : Accepted(i)' => Accepted(i)
        BY <1>1 DEF Accepted
    <2> QED  BY <1>1, <1>2, <2>1, RelationsAround
<1>6. ASSUME NEW v \in Everyone
      PROVE  OrderStage(v)'
    <2>1. CASE work'[v] = work[v]
        <3>1. PICK id, tx : id = work[v].id /\ tx = Tx(v)
            OBVIOUS
        <3>2. OrderStage(v) /\ work'[v].id = id /\ work'[v].pc = work[v].pc /\ work'[v].memo = work[v].memo /\ Tx(v)' = tx
            BY <1>1, <2>1, <3>1 DEF NInv, Tx
        <3>3. (/\ v = Retrier => work[v].pc \in {"idle", "refetch"} \/ Kind(work[v].id) \in {"bcast", "tip"}
               /\ work[v].pc \in {"related", "newest", "relate"} => Kind(work[v].id) \in {"follow", "block"}
               /\ work[v].pc \in {"ledger", "profile"} => Kind(work[v].id) = "profile"
               /\ work[v].pc = "apply" => EditRow(work[v].id) \in db.edits
               /\ work[v].pc = "relate" => Recorded(work[v].id))'
            BY <1>1, <3>1, <3>2 DEF OrderStage, Kind, EditRow, Recorded, PairOf, Time
        <3>4. (/\ work[v].pc \in {"operator", "purge"} => IsOperator(Tx(v).by)
               /\ work[v].pc = "purge" => Tx(v).as = "block")'
            BY <1>1, <3>1, <3>2 DEF OrderStage, IsOperator, XOnly
        <3>5. ASSUME NEW u \in Everyone, NEW pc \in {"relate", "profile"}, At(u, pc)'
              PROVE  At(u, pc) /\ Tx(u)' = Tx(u)
            <4>1. work'[u] = work[u]
                BY <3>5 DEF Breaks, Resting, At
            <4> QED  BY <1>1, <3>5, <4>1 DEF At, Tx
        <3>6. (work[v].pc = "relate" /\ PairOf(Tx(v)) \notin raced =>
                    /\ IsLast(work[v].id)
                    /\ \A u \in Everyone : u # v /\ At(u, "relate") => PairOf(Tx(u)) # PairOf(Tx(v)))'
            <4>1. ASSUME work[v].pc = "relate", PairOf(tx) \notin raced
                  PROVE  IsLast(id)' /\ \A u \in Everyone : u # v /\ At(u, "relate") => PairOf(Tx(u)) # PairOf(tx)
                BY <1>1, <3>1, <3>2, <4>1 DEF OrderStage, IsLast, PairOf, Time
            <4> QED  BY <1>1, <3>2, <3>5, <4>1 DEF PairOf
        <3>7. (work[v].pc = "profile" /\ ~ProfileRaced(XOnly(Tx(v).by)) =>
                    /\ OfPerson(work[v].memo, XOnly(Tx(v).by)) = OfPerson(db.profiles, XOnly(Tx(v).by))
                    /\ \A u \in Everyone : u # v /\ At(u, "profile") => XOnly(Tx(u).by) # XOnly(Tx(v).by))'
            <4>1. ASSUME work[v].pc = "profile", <<"profile", XOnly(tx.by), 0>> \notin raced
                  PROVE  /\ OfPerson(work[v].memo, XOnly(tx.by)) = OfPerson(db.profiles, XOnly(tx.by))
                         /\ \A u \in Everyone : u # v /\ At(u, "profile") => XOnly(Tx(u).by) # XOnly(tx.by)
                BY <3>1, <3>2, <4>1 DEF OrderStage, ProfileRaced
            <4> QED  BY <1>1, <3>2, <3>5, <4>1 DEF ProfileRaced, OfPerson, XOnly
        <3> QED  BY <3>3, <3>4, <3>6, <3>7 DEF OrderStage
    <2>2. CASE work'[v].pc \in Resting /\ (v = Retrier => work'[v].pc = "idle" \/ Kind(work'[v].id) \in {"bcast", "tip"})
        <3>1. (v = Retrier => work[v].pc \in {"idle", "refetch"} \/ Kind(work[v].id) \in {"bcast", "tip"})'
            BY <1>1, <2>2 DEF Kind
        <3> QED  BY <2>2, <3>1 DEF OrderStage, Resting
    <2> QED  BY <2>1, <2>2 DEF Breaks
<1>7. (Tables \subseteq DOMAIN db)'
    BY <1>1 DEF NInv, Tables
<1> QED  BY <1>1, <1>3, <1>4, <1>5, <1>6, <1>7 DEF NInv
LEMMA PlaceOrder ==
    ASSUME NInv, MInv', UNCHANGED <<plan, db>>, half \subseteq half', raced \subseteq raced',
           NEW w \in Everyone, NEW id, NEW pc \in Resting, NEW quiet, NEW memo,
           work' = [work EXCEPT ![w] = [id |-> id, pc |-> pc, quiet |-> quiet, memo |-> memo]],
           work[w].pc \in {"apply", "newest", "relate"} => work[w].id \in half',
           w = Retrier => pc = "idle" \/ Kind(id) \in {"bcast", "tip"}
    PROVE  NInv'
<1> DEFINE r == [id |-> id, pc |-> pc, quiet |-> quiet, memo |-> memo]
<1>1. work'[w] = r /\ \A v \in Everyone \ {w} : work'[v] = work[v]
    BY PutMoves DEF NInv, MInv, CInv, KInv, Shaped
<1>2. work'[w].pc = pc /\ work'[w].id = id
    BY <1>1
<1> HIDE DEF r
<1>3. \A v \in Everyone : Breaks(v)
    BY <1>1, <1>2 DEF Breaks
<1> QED  BY <1>3, AroundOrder

LEMMA WorkersOrder ==
    ASSUME NInv, MInv', NEW w \in Workers,
           WorkerSteps(w) \/ FetchFails(w) \/ RefetchFails(w) \/ MarkFails(w)
    PROVE  NInv'
<1>1. UNCHANGED <<plan, db, half>> /\ w \in Everyone /\ w # Retrier
    BY WorkersAssumption DEF WorkerSteps, Fetch, Refetch, Consume, FetchFails, RefetchFails, MarkFails, pendingVars, Everyone
<1>2. work[w].pc \notin {"apply", "newest", "relate"}
    BY DEF WorkerSteps, Fetch, Refetch, Consume, FetchFails, RefetchFails, MarkFails, At
<1>3. ASSUME NEW id, NEW quiet, Take(w, id, quiet)
      PROVE  NInv'
    <2> DEFINE pc == Entry(plan.txs[id])
    <2>1. work' = [work EXCEPT ![w] = [id |-> id, pc |-> pc, quiet |-> quiet, memo |-> {}]]
        BY <1>3 DEF Take
    <2>2. pc \in Resting
        BY DEF Entry, Resting
    <2>3. raced \subseteq raced'
        BY <1>3 DEF Take
    <2> HIDE DEF pc
    <2> QED  BY <1>1, <1>2, <2>1, <2>2, <2>3, PlaceOrder
<1>4. ASSUME work' = [work EXCEPT ![w] = Idle], raced' = raced
      PROVE  NInv'
    <2>1. work' = [work EXCEPT ![w] = [id |-> 0, pc |-> "idle", quiet |-> FALSE, memo |-> {}]]
        BY <1>4 DEF Idle
    <2>2. UNCHANGED <<plan, db>> /\ half \subseteq half' /\ raced \subseteq raced' /\ "idle" \in Resting
        BY <1>1, <1>4 DEF Resting
    <2> QED  BY <1>1, <1>2, <2>1, <2>2, PlaceOrder
<1>5. ASSUME work' = work, raced' = raced
      PROVE  NInv'
    BY <1>1, <1>5, AroundOrder DEF Breaks
<1>6. CASE Fetch(w)
    BY <1>3, <1>5, <1>6 DEF Fetch
<1>7. CASE Refetch(w)
    BY <1>3, <1>4, <1>7 DEF Refetch
<1>8. CASE Consume(w) \/ RefetchFails(w) \/ MarkFails(w)
    BY <1>4, <1>8 DEF Consume, RefetchFails, MarkFails
<1>9. CASE FetchFails(w)
    <2>1. /\ work' = [work EXCEPT ![w] = [id |-> Head(inbox[w]), pc |-> "refetch", quiet |-> FALSE, memo |-> {}]]
          /\ raced' = raced
        BY <1>9 DEF FetchFails
    <2> QED  BY <1>1, <1>2, <2>1, PlaceOrder DEF Resting
<1> QED  BY <1>6, <1>7, <1>8, <1>9 DEF WorkerSteps

LEMMA FaultsOrder ==
    ASSUME NInv, MInv', Crash \/ \E w \in Everyone : StatementFails(w)
    PROVE  NInv'
<1>1. CASE Crash
    <2>1. /\ UNCHANGED <<plan, db, raced>> /\ work' = [w \in Everyone |-> Idle] /\ half' = half \cup Halved(Everyone)
        BY <1>1 DEF Crash
    <2>2. \A v \in Everyone : work'[v].pc = "idle"
        BY <2>1 DEF Idle
    <2>3. \A v \in Everyone : work[v].pc \in {"apply", "newest", "relate"} => work[v].id \in half'
        BY <2>1 DEF Halved
    <2>4. \A v \in Everyone : Breaks(v)
        BY <2>2, <2>3 DEF Breaks, Resting
    <2> QED  BY <2>1, <2>4, AroundOrder
<1>2. ASSUME NEW w \in Everyone, StatementFails(w)
      PROVE  NInv'
    <2> DEFINE old == work[w]
               r == [old EXCEPT !.pc = "unknown"]
    <2>1. UNCHANGED <<plan, db, raced>> /\ half' = half \cup Halved({w})
        BY <1>2 DEF StatementFails
    <2>2. r = [id |-> old.id, pc |-> "unknown", quiet |-> old.quiet, memo |-> old.memo]
        BY PlacesAre DEF NInv, MInv, CInv, KInv, Shaped
    <2>3. \/ w = Retrier /\ work' = [work EXCEPT ![w] = r]
          \/ work' = [work EXCEPT ![w] = [id |-> 0, pc |-> "idle", quiet |-> FALSE, memo |-> {}]]
        BY <1>2, PlacesAre DEF StatementFails, Idle, NInv, MInv, CInv, KInv, Shaped
    <2>4. half \subseteq half' /\ (old.pc \in {"apply", "newest", "relate"} => old.id \in half')
        BY <2>1 DEF Halved
    <2>5. w = Retrier => Kind(old.id) \in {"bcast", "tip"}
        BY <1>2 DEF NInv, OrderStage, StatementFails, Busy
    <2> HIDE DEF r
    <2> QED  BY <2>1, <2>2, <2>3, <2>4, <2>5, PlaceOrder DEF Resting
<1> QED  BY <1>1, <1>2

LEMMA RetryOrder ==
    ASSUME NInv, MInv', Retrying
    PROVE  NInv'
<1>1. UNCHANGED <<plan, db, raced, half>>
    BY DEF Retrying, Retry, TakePending, PendingDone, PendingUnknown, Reads, pipeVars
<1>2. work[Retrier].pc \notin {"apply", "newest", "relate"}
    BY DEF Retrying, Retry, TakePending, PendingDone, PendingUnknown, At
<1>3. PICK w \in Everyone : w = Retrier
    BY DEF Everyone
<1>4. CASE TakePending
    <2>1. PICK r \in pending :
            work' = [work EXCEPT ![Retrier] =
              [id |-> r.id, quiet |-> FALSE, memo |-> {},
               pc |-> IF plan.txs[r.id].kind = "tip" THEN "fresh" ELSE IF plan.broadcasts THEN "route" ELSE "done"]]
        BY <1>4 DEF TakePending
    <2> DEFINE pc == IF plan.txs[r.id].kind = "tip" THEN "fresh" ELSE IF plan.broadcasts THEN "route" ELSE "done"
    <2>2. pc \in Resting
        BY DEF Resting
    <2>3. work' = [work EXCEPT ![w] = [id |-> r.id, pc |-> pc, quiet |-> FALSE, memo |-> {}]]
        BY <1>3, <2>1
    <2>4. Kind(r.id) \in {"bcast", "tip"}
        BY DEF NInv, MInv, CInv
    <2> HIDE DEF pc
    <2> QED  BY <1>1, <1>2, <1>3, <2>2, <2>3, <2>4, PlaceOrder
<1>5. CASE PendingDone \/ PendingUnknown
    <2>1. work' = [work EXCEPT ![w] = [id |-> 0, pc |-> "idle", quiet |-> FALSE, memo |-> {}]]
        BY <1>3, <1>5 DEF PendingDone, PendingUnknown, Idle
    <2> QED  BY <1>1, <1>2, <1>3, <2>1, PlaceOrder DEF Resting
<1> QED  BY <1>4, <1>5 DEF Retrying, Retry

LEMMA QueueOrder ==
    ASSUME NInv, MInv',
           \/ Ingest \/ (\E id \in raw : PruneRaw(id)) \/ Listen \/ ListenerFails
           \/ Refresh \/ NodeSteps \/ Start \/ CatchUp \/ Requeue \/ RequeueFails \/ SweepPending
           \/ (\E force \in BOOLEAN : RequestReindex(force))
           \/ BeginWalk \/ WalkChecks \/ WalkStores \/ WalkFails \/ PruneRecovered
    PROVE  NInv'
<1>1. UNCHANGED <<plan, db, work, half, raced>>
    BY DEF Ingest, PruneRaw, Listen, ListenerFails, Refresh, RefreshDenylist, NodeSteps, Start, CatchUp, Requeue,
           RequeueFails, SweepPending, RequestReindex, BeginWalk, WalkChecks, WalkStores, WalkFails, PruneRecovered,
           storeVars, pendingVars, pipeVars
<1> QED  BY <1>1, AroundOrder DEF Breaks

LEMMA InitOrder ==
    ASSUME Init
    PROVE  NInv
<1>1. /\ Tables \subseteq DOMAIN db /\ db.contents = {} /\ db.edits = {} /\ db.follows = {} /\ db.blocks = {}
      /\ db.last = {} /\ db.ledger = {} /\ db.profiles = {} /\ db.used = {}
    BY DEF Init, EmptyTables, Tables
<1>2. \A w \in Everyone : OrderStage(w)
    BY DEF Init, OrderStage, Idle
<1>3. EditsSound /\ TextsSound /\ EditNewest /\ ProfilesSound /\ LastSound /\ AllRecorded
    BY <1>1 DEF EditsSound, TextsSound, EditNewest, ProfilesSound, LastSound, AllRecorded, Accepted
<1>4. AllCarried
    BY <1>1 DEF AllCarried, Matches, RowOf
<1> QED  BY <1>1, <1>2, <1>3, <1>4, InitWhole DEF NInv

LEMMA NextOrder ==
    ASSUME NInv, [Next]_vars
    PROVE  NInv'
<1>1. MInv'
    BY NextWhole DEF NInv
<1>2. CASE \E w \in Workers : WorkerSteps(w) \/ FetchFails(w) \/ RefetchFails(w) \/ MarkFails(w)
    BY <1>1, <1>2, WorkersOrder
<1>3. CASE \E w \in Everyone : Handling(w) \/ HandlingPending(w) \/ StatementFails(w)
    BY <1>1, <1>3, HandlersOrder, FaultsOrder
<1>4. CASE UNCHANGED vars
    <2>1. UNCHANGED <<plan, db, work, half, raced>>
        BY <1>4 DEF vars, storeVars, pipeVars
    <2> QED  BY <1>1, <2>1, AroundOrder DEF Breaks
<1> QED  BY <1>1, <1>2, <1>3, <1>4, QueueOrder, RetryOrder, FaultsOrder DEF Next

\* A pair that no worker is at and whose actions are all whole is as its newest
\* recorded action says.
LEMMA RelationsNewestHold ==
    ASSUME NInv
    PROVE  RelationsNewest
<1>1. ASSUME NEW pair \in Pairs, Settled(pair), pair \notin raced, ~Blocked(pair[2])
      PROVE  LastWins(pair)
    <2> DEFINE last == {l \in db.last : l.pair = pair}
    <2>1. PICK at \in Ids : Kind(at) \in {"follow", "block"} /\ pair = PairOf(plan.txs[at])
        BY DEF Pairs, Kind
    <2>2. \A i \in Ids : Relating(i) /\ PairOf(plan.txs[i]) = pair => i \in AtPair(pair)
        BY DEF Relating, AtPair, PairOf, Kind
    <2>3. ~Carrying(pair)
        <3>1. ASSUME NEW v \in Everyone, At(v, "relate"), PairOf(Tx(v)) = pair
              PROVE  FALSE
            <4>1. PICK i : i = work[v].id
                OBVIOUS
            <4>2. i \in Ids /\ Tx(v) = plan.txs[i] /\ Kind(i) \in {"follow", "block"}
                BY <3>1, <4>1, HandledTx DEF At, NInv, OrderStage
            <4>3. i \in AtPair(pair)
                BY <2>2, <3>1, <4>2 DEF Relating
            <4>4. InHand(i, {"relate"})
                BY <3>1, <4>1 DEF InHand, At
            <4> QED  BY <1>1, <4>3, <4>4 DEF Settled
        <3> QED  BY <3>1 DEF Carrying
    <2>4. ~Interrupted(pair)
        BY <1>1, <2>2 DEF Interrupted, Settled, Relating
    <2>5. Matches(pair)
        BY <1>1, <2>3, <2>4 DEF NInv, AllCarried
    <2>6. RowOf(pair) # {} <=> \E l \in last : l.as = pair[1]
        BY <2>5 DEF Matches
    <2>7. ASSUME NEW i \in Processed(pair)
          PROVE  \E l \in last : l.time >= plan.txs[i].time
        <3>1. /\ i \in AtPair(pair) /\ i \in Ids /\ Accepted(i) /\ plan.txs[i].as # "follow" /\ ~InHand(i, {"newest"})
              /\ plan.txs[i].kind = pair[1] /\ PairOf(plan.txs[i]) = pair
            BY DEF Processed, AtPair
        <3>2. Relating(i)
            BY <2>1, <3>1 DEF Relating, Kind, PairOf
        <3>3. i \notin half
            BY <1>1, <3>1 DEF Settled
        <3>4. Recorded(i)
            BY <3>1, <3>2, <3>3 DEF NInv, AllRecorded
        <3> QED  BY <3>1, <3>4 DEF Recorded, Time
    <2> QED  BY <2>6, <2>7 DEF LastWins
<1> QED  BY <1>1 DEF RelationsNewest

LEMMA ProfileNewestHolds ==
    ASSUME NInv
    PROVE  ProfileNewest
<1>1. ASSUME NEW l \in db.ledger, <<"profile", XOnly(plan.txs[l.id].by), 0>> \notin raced
      PROVE  LET tx == plan.txs[l.id]
                 own == {p \in db.profiles : SamePerson(p.by, tx.by)}
             IN Cardinality(own) = 1 /\ \A p \in own : p.time >= tx.time
    <2>1. PICK x : x = XOnly(plan.txs[l.id].by)
        OBVIOUS
    <2> DEFINE own == {p \in db.profiles : XOnly(p.by) = x}
    <2>2. PICK p \in db.profiles : XOnly(p.by) = x /\ p.time >= Time(l.id)
        BY <1>1, <2>1 DEF NInv, ProfilesSound, ProfileRaced
    <2>3. \A q \in own : q = p
        BY <1>1, <2>1, <2>2 DEF NInv, ProfilesSound, ProfileRaced
    <2>4. own = {p}
        BY <2>2, <2>3
    <2>5. {q \in db.profiles : SamePerson(q.by, plan.txs[l.id].by)} = own
        BY <2>1 DEF SamePerson
    <2> HIDE DEF own
    <2>6. Cardinality(own) = 1 /\ \A q \in own : q.time >= plan.txs[l.id].time
        BY <2>2, <2>4, FS_Singleton DEF Time
    <2> QED  BY <2>5, <2>6
<1> QED  BY <1>1 DEF ProfileNewest

\* Follows, blocks, profiles and edits show the newest action by chain time, but
\* for the races that the code leaves open (process_k_follow_in_database,
\* process_k_block_in_database, save_k_broadcast_to_database,
\* process_k_edit_in_database).
THEOREM NewestTheorem == Spec => []NewestWins
<1>1. Init => NInv
    BY InitOrder
<1>2. NInv /\ [Next]_vars => NInv'
    BY NextOrder
<1>3. NInv => NewestWins
    BY RelationsNewestHold, ProfileNewestHolds DEF NInv, NewestWins
<1> QED  BY <1>1, <1>2, <1>3, PTL DEF Spec
-----------------------------------------------------------------------------
(* The queue.                                                              *)

\* Two members of a set have two ranks, and so each has its place in order.
LEMMA OrderedPlace ==
    ASSUME NEW S \in SUBSET Nat, IsFiniteSet(S), NEW x \in S
    PROVE  \E k \in DOMAIN Ordered(S) : Ordered(S)[k] = x
<1> DEFINE below(y) == {i \in S : i <= y}
<1>1. ASSUME NEW y \in S
      PROVE  Rank(S, y) \in 1 .. Cardinality(S) /\ IsFiniteSet(below(y))
    <2>1. below(y) \in SUBSET S /\ y \in below(y)
        OBVIOUS
    <2>2. IsFiniteSet(below(y)) /\ Cardinality(below(y)) <= Cardinality(S)
        BY <2>1, FS_Subset
    <2>3. Cardinality(below(y)) \in Nat /\ Cardinality(S) \in Nat /\ Cardinality(below(y)) # 0
        BY <2>1, <2>2, FS_EmptySet, FS_CardinalityType
    <2> QED  BY <2>2, <2>3 DEF Rank
<1>2. ASSUME NEW y \in S, NEW z \in S, y < z
      PROVE  Rank(S, y) # Rank(S, z)
    <2>3. y \in Nat /\ z \in Nat /\ \A i \in S : i \in Nat
        OBVIOUS
    <2>4. \A i \in S : i <= y => i <= z
        BY <1>2, <2>3
    <2>5. z <= z /\ ~(z <= y)
        BY <1>2, <2>3
    <2>1. below(y) \in SUBSET below(z) /\ z \in below(z) /\ z \notin below(y)
        BY <2>4, <2>5
    <2>2. Cardinality(below(y)) # Cardinality(below(z))
        BY <1>1, <2>1, FS_Subset
    <2> QED  BY <2>2 DEF Rank
<1>3. ASSUME NEW y \in S, Rank(S, y) = Rank(S, x)
      PROVE  y = x
    BY <1>2, <1>3
<1>4. (CHOOSE y \in S : Rank(S, y) = Rank(S, x)) = x
    BY <1>3
<1>5. Rank(S, x) \in DOMAIN Ordered(S) /\ Ordered(S)[Rank(S, x)] = x
    BY <1>1, <1>4 DEF Ordered
<1> QED  BY <1>5

LEMMA OrderedDomain ==
    ASSUME NEW S, IsFiniteSet(S)
    PROVE  Cardinality(S) \in Nat /\ DOMAIN Ordered(S) = 1 .. Cardinality(S)
BY FS_CardinalityType DEF Ordered

\* What is said of the boxes: they are sequences, of whatever.
Boxed(s) == s \in Seq({s[i] : i \in DOMAIN s})
Within(id, s) == \E k \in DOMAIN s : s[k] = id

LEMMA BoxedFacts ==
    ASSUME NEW s
    PROVE  /\ Boxed(s) => Len(s) \in Nat /\ DOMAIN s = 1 .. Len(s)
           /\ \A X : s \in Seq(X) => Boxed(s)
<1>1. Boxed(s) => Len(s) \in Nat /\ DOMAIN s = 1 .. Len(s)
    BY LenProperties DEF Boxed
<1>2. ASSUME NEW X, s \in Seq(X)
      PROVE  Boxed(s)
    <2>1. Len(s) \in Nat /\ s \in [1 .. Len(s) -> X]
        BY <1>2, LenProperties
    <2>2. s \in [1 .. Len(s) -> {s[i] : i \in DOMAIN s}]
        BY <2>1
    <2> QED  BY <2>1, <2>2, SeqDef DEF Boxed
<1> QED  BY <1>1, <1>2

LEMMA ConcatBoxed ==
    ASSUME NEW s, NEW t, Boxed(s), Boxed(t)
    PROVE  Boxed(s \o t) /\ \A id : Within(id, s \o t) <=> Within(id, s) \/ Within(id, t)
<1> DEFINE S == {s[i] : i \in DOMAIN s}
           T == {t[i] : i \in DOMAIN t}
<1>1. s \in Seq(S \cup T) /\ t \in Seq(S \cup T)
    BY SeqMonotonic DEF Boxed
<1> HIDE DEF S, T
<1>2. /\ Len(s \o t) = Len(s) + Len(t) /\ s \o t \in Seq(S \cup T)
      /\ \A i \in 1 .. Len(s) + Len(t) : (s \o t)[i] = IF i <= Len(s) THEN s[i] ELSE t[i - Len(s)]
    BY <1>1, ConcatProperties
<1>3. /\ Len(s) \in Nat /\ Len(t) \in Nat /\ DOMAIN s = 1 .. Len(s) /\ DOMAIN t = 1 .. Len(t)
      /\ DOMAIN (s \o t) = 1 .. Len(s) + Len(t)
    BY <1>1, <1>2, LenProperties
<1>4. Boxed(s \o t)
    BY <1>2, BoxedFacts
<1>5. ASSUME NEW id, Within(id, s \o t)
      PROVE  Within(id, s) \/ Within(id, t)
    <2>1. PICK k \in 1 .. Len(s) + Len(t) : (s \o t)[k] = id
        BY <1>3, <1>5 DEF Within
    <2>2. CASE k <= Len(s)
        BY <1>2, <1>3, <2>1, <2>2 DEF Within
    <2>3. CASE k > Len(s)
        <3>1. k - Len(s) \in DOMAIN t /\ t[k - Len(s)] = id
            BY <1>2, <1>3, <2>1, <2>3
        <3> QED  BY <3>1 DEF Within
    <2> QED  BY <1>3, <2>2, <2>3
<1>6. ASSUME NEW id, Within(id, s)
      PROVE  Within(id, s \o t)
    <2>1. PICK k \in 1 .. Len(s) : s[k] = id
        BY <1>3, <1>6 DEF Within
    <2>2. k \in 1 .. Len(s) + Len(t) /\ (s \o t)[k] = id
        BY <1>2, <1>3, <2>1
    <2> QED  BY <1>3, <2>2 DEF Within
<1>7. ASSUME NEW id, Within(id, t)
      PROVE  Within(id, s \o t)
    <2>1. PICK k \in 1 .. Len(t) : t[k] = id
        BY <1>3, <1>7 DEF Within
    <2>2. k + Len(s) \in 1 .. Len(s) + Len(t) /\ ~(k + Len(s) <= Len(s)) /\ (k + Len(s)) - Len(s) = k
        BY <1>3, <2>1
    <2>3. (s \o t)[k + Len(s)] = id
        BY <1>2, <2>1, <2>2
    <2> QED  BY <1>3, <2>2, <2>3 DEF Within
<1> QED  BY <1>4, <1>5, <1>6, <1>7

LEMMA TailBoxed ==
    ASSUME NEW s, Boxed(s), s # <<>>
    PROVE  /\ Boxed(Tail(s)) /\ Within(Head(s), s)
           /\ \A id : Within(id, s) => id = Head(s) \/ Within(id, Tail(s))
<1> DEFINE S == {s[i] : i \in DOMAIN s}
<1>1. s \in Seq(S)
    BY DEF Boxed
<1> HIDE DEF S
<1>2. /\ Len(s) \in Nat /\ Len(s) > 0 /\ DOMAIN s = 1 .. Len(s) /\ Head(s) = s[1]
      /\ Tail(s) \in Seq(S) /\ Len(Tail(s)) = Len(s) - 1
      /\ \A i \in 1 .. Len(Tail(s)) : Tail(s)[i] = s[i + 1]
    BY <1>1, HeadTailProperties, LenProperties, EmptySeq
<1>3. DOMAIN Tail(s) = 1 .. (Len(s) - 1)
    BY <1>2, LenProperties
<1>4. Boxed(Tail(s))
    BY <1>2, BoxedFacts
<1>5. ASSUME NEW id, Within(id, s), id # Head(s)
      PROVE  Within(id, Tail(s))
    <2>1. PICK k \in 1 .. Len(s) : s[k] = id
        BY <1>2, <1>5 DEF Within
    <2>2. k - 1 \in 1 .. (Len(s) - 1) /\ (k - 1) + 1 = k
        BY <1>2, <1>5, <2>1
    <2>3. Tail(s)[k - 1] = id
        BY <1>2, <2>1, <2>2
    <2> QED  BY <1>3, <2>2, <2>3 DEF Within
<1> QED  BY <1>2, <1>4, <1>5 DEF Within
LEMMA ReceiverFact ==
    ASSUME turn \in Int, NEW i \in Int
    PROVE  Receiver(i) \in Workers /\ Receiver(i) \in Int
<1> DEFINE n == Cardinality(Workers)
<1>1. n \in Nat /\ n # 0 /\ Workers = 1 .. n
    BY WorkersAssumption, FS_CardinalityType, FS_EmptySet
<1>2. ((turn + i - 2) % n) \in 0 .. (n - 1)
    BY <1>1
<1>3. ((turn + i - 2) % n) + 1 \in 1 .. n
    BY <1>1, <1>2
<1> QED  BY <1>1, <1>3 DEF Receiver

\* A worker's share of what is sent, and every id is in its receiver's share.
LEMMA ShareFact ==
    ASSUME turn \in Int, NEW ids, Boxed(ids)
    PROVE  /\ \A w : Boxed(Share(w, ids))
           /\ \A i \in DOMAIN ids : Within(ids[i], Share(Receiver(i), ids))
<1> DEFINE Own(w) == {i \in DOMAIN ids : Receiver(i) = w}
<1>1. Len(ids) \in Nat /\ DOMAIN ids = 1 .. Len(ids)
    BY BoxedFacts
<1>2. IsFiniteSet(DOMAIN ids)
    BY <1>1, FS_Interval
<1>3. ASSUME NEW w
      PROVE  /\ IsFiniteSet(Own(w)) /\ Own(w) \in SUBSET Nat
             /\ Cardinality(Own(w)) \in Nat
             /\ DOMAIN Ordered(Own(w)) = 1 .. Cardinality(Own(w))
             /\ Share(w, ids) = [k \in DOMAIN Ordered(Own(w)) |-> ids[Ordered(Own(w))[k]]]
    <2>1. IsFiniteSet(Own(w))
        BY <1>2, FS_Subset
    <2>2. Own(w) \in SUBSET Nat
        BY <1>1
    <2> QED  BY <2>1, <2>2, OrderedDomain DEF Share
<1> HIDE DEF Own
<1>4. ASSUME NEW w
      PROVE  Boxed(Share(w, ids))
    <2> DEFINE n == Cardinality(Own(w))
               X == {Share(w, ids)[k] : k \in 1 .. n}
    <2>1. n \in Nat /\ Share(w, ids) = [k \in 1 .. n |-> ids[Ordered(Own(w))[k]]]
        BY <1>3
    <2>2. Share(w, ids) \in [1 .. n -> X]
        BY <2>1
    <2>3. Share(w, ids) \in Seq(X)
        BY <2>1, <2>2, SeqDef
    <2> QED  BY <2>3, BoxedFacts
<1>5. ASSUME NEW i \in DOMAIN ids
      PROVE  Within(ids[i], Share(Receiver(i), ids))
    <2> DEFINE w == Receiver(i)
    <2>1. i \in Own(w)
        BY DEF Own
    <2>2. PICK k \in DOMAIN Ordered(Own(w)) : Ordered(Own(w))[k] = i
        BY <1>3, <2>1, OrderedPlace
    <2>3. k \in DOMAIN Share(w, ids) /\ Share(w, ids)[k] = ids[i]
        BY <1>3, <2>2
    <2> QED  BY <2>3 DEF Within
<1> QED  BY <1>4, <1>5

\* The boxes of the workers, and what is in them.
Boxes == inbox = [w \in Workers |-> inbox[w]] /\ turn \in Int /\ \A w \in Workers : Boxed(inbox[w])
Queued(id) == \E w \in Workers : Within(id, inbox[w])

LEMMA SendFact ==
    ASSUME Boxes, NEW ids, Boxed(ids), Send(ids)
    PROVE  /\ Boxes'
           /\ \A id : Queued(id) => Queued(id)'
           /\ \A i \in DOMAIN ids : Queued(ids[i])'
<1>1. /\ inbox' = [w \in Workers |-> inbox[w] \o Share(w, ids)]
      /\ turn' = Receiver(Len(ids) + 1)
      /\ turn \in Int /\ Len(ids) \in Nat /\ DOMAIN ids = 1 .. Len(ids)
    BY BoxedFacts DEF Send, Boxes
<1>2. ASSUME NEW w \in Workers
      PROVE  /\ Boxed(inbox'[w])
             /\ \A id : Within(id, inbox'[w]) <=> Within(id, inbox[w]) \/ Within(id, Share(w, ids))
    BY <1>1, ShareFact, ConcatBoxed DEF Boxes
<1>3. turn' \in Int
    BY <1>1, ReceiverFact
<1>4. Boxes'
    BY <1>1, <1>2, <1>3 DEF Boxes
<1>5. ASSUME NEW i \in DOMAIN ids
      PROVE  Queued(ids[i])'
    <2>1. Receiver(i) \in Workers
        BY <1>1, ReceiverFact
    <2>2. Within(ids[i], inbox'[Receiver(i)])
        BY <1>1, <1>2, <2>1, ShareFact
    <2> QED  BY <2>1, <2>2 DEF Queued
<1> QED  BY <1>2, <1>4, <1>5 DEF Queued

\* The ids of a set in order: each member once.
LEMMA OrderedMembers ==
    ASSUME NEW S \in SUBSET Nat, IsFiniteSet(S)
    PROVE  /\ Boxed(Ordered(S))
           /\ \A x \in S : \E i \in DOMAIN Ordered(S) : Ordered(S)[i] = x
           /\ \A i \in DOMAIN Ordered(S) : Ordered(S)[i] \in S
           /\ \A i, j \in DOMAIN Ordered(S) : Ordered(S)[i] = Ordered(S)[j] => i = j
<1> DEFINE n == Cardinality(S)
           o == Ordered(S)
           f == [y \in S |-> Rank(S, y)]
           below(y) == {i \in S : i <= y}
<1>1. n \in Nat /\ DOMAIN o = 1 .. n /\ o = [k \in 1 .. n |-> CHOOSE id \in S : Rank(S, id) = k]
    BY FS_CardinalityType DEF Ordered
<1>2. Boxed(o)
    <2>1. PICK X : X = {o[k] : k \in 1 .. n}
        OBVIOUS
    <2>2. o \in [1 .. n -> X]
        BY <1>1, <2>1
    <2>3. o \in Seq(X)
        BY <1>1, <2>2, SeqDef
    <2> QED  BY <2>3, BoxedFacts
<1>3. ASSUME NEW y \in S
      PROVE  Rank(S, y) \in 1 .. n /\ IsFiniteSet(below(y))
    <2>1. below(y) \in SUBSET S /\ y \in below(y)
        OBVIOUS
    <2>2. IsFiniteSet(below(y)) /\ Cardinality(below(y)) <= n
        BY <2>1, FS_Subset
    <2>3. Cardinality(below(y)) \in Nat /\ Cardinality(below(y)) # 0
        BY <2>1, <2>2, FS_EmptySet, FS_CardinalityType
    <2> QED  BY <1>1, <2>2, <2>3 DEF Rank
<1>4. ASSUME NEW y \in S, NEW z \in S, y < z
      PROVE  Rank(S, y) # Rank(S, z)
    <2>1. y \in Nat /\ z \in Nat /\ \A i \in S : i \in Nat
        OBVIOUS
    <2>2. \A i \in S : i <= y => i <= z
        BY <1>4, <2>1
    <2>3. below(y) \in SUBSET below(z) /\ z \in below(z) /\ z \notin below(y)
        <3>1. z <= z /\ ~ (z <= y)
            BY <1>4, <2>1
        <3>2. z \in below(z) /\ z \notin below(y)
            BY <3>1
        <3>3. \A i \in below(y) : i \in below(z)
            BY <2>2
        <3> QED  BY <3>2, <3>3
    <2>4. Cardinality(below(y)) # Cardinality(below(z))
        BY <1>3, <2>3, FS_Subset
    <2> QED  BY <2>4 DEF Rank
<1>5. f \in Injection(S, 1 .. n)
    <2>1. \A y, z \in S : f[y] = f[z] => y = z
        BY <1>4
    <2> QED  BY <1>3, <2>1 DEF Injection, IsInjective
<1>6. f \in Surjection(S, 1 .. n)
    <2>1. IsFiniteSet(1 .. n) /\ Cardinality(1 .. n) = n
        BY <1>1, FS_Interval
    <2> QED  BY <1>5, <2>1, FS_Injection
<1>7. \A k \in 1 .. n : \E y \in S : Rank(S, y) = k
    BY <1>6 DEF Surjection
<1>8. \A k \in 1 .. n : o[k] \in S /\ Rank(S, o[k]) = k
    BY <1>1, <1>7
<1>9. \A x \in S : o[Rank(S, x)] = x
    <2>1. ASSUME NEW x \in S
          PROVE  o[Rank(S, x)] = x
        <3>1. o[Rank(S, x)] \in S /\ Rank(S, o[Rank(S, x)]) = Rank(S, x)
            BY <1>3, <1>8
        <3>2. PICK y \in S : y = o[Rank(S, x)]
            BY <3>1
        <3>3. Rank(S, y) = Rank(S, x)
            BY <3>1, <3>2
        <3>4. x \in Nat /\ y \in Nat
            OBVIOUS
        <3>5. ~ (x < y) /\ ~ (y < x)
            BY <1>4, <3>3
        <3>6. x = y
            BY <3>4, <3>5
        <3> HIDE DEF o
        <3> QED  BY <3>2, <3>6
    <2> QED  BY <2>1
<1> QED  BY <1>1, <1>2, <1>3, <1>8, <1>9

\* A member of a worker's share is one of what is sent to it, at its own position.
LEMMA ShareOnce ==
    ASSUME NEW ids, Boxed(ids), NEW w
    PROVE  \E o : \A k \in DOMAIN Share(w, ids) :
               /\ o[k] \in DOMAIN ids /\ Receiver(o[k]) = w /\ Share(w, ids)[k] = ids[o[k]]
               /\ \A l \in DOMAIN Share(w, ids) : o[k] = o[l] => k = l
<1> DEFINE own == {i \in DOMAIN ids : Receiver(i) = w}
           o == Ordered(own)
<1>1. Len(ids) \in Nat /\ DOMAIN ids = 1 .. Len(ids)
    BY BoxedFacts
<1>2. IsFiniteSet(own) /\ own \in SUBSET Nat
    <2>1. IsFiniteSet(1 .. Len(ids))
        BY <1>1, FS_Interval
    <2>2. own \in SUBSET (1 .. Len(ids)) /\ own \in SUBSET Nat
        BY <1>1
    <2> QED  BY <2>1, <2>2, FS_Subset
<1>3. Share(w, ids) = [k \in DOMAIN o |-> ids[o[k]]]
    BY DEF Share
<1>4. \A k \in DOMAIN o : o[k] \in own /\ \A l \in DOMAIN o : o[k] = o[l] => k = l
    BY <1>2, OrderedMembers
<1>5. \A k \in DOMAIN o : o[k] \in DOMAIN ids /\ Receiver(o[k]) = w
    BY <1>4
<1> HIDE DEF o
<1> QED  BY <1>3, <1>4, <1>5

\* Where an id lies in the boxes. What is sent once lies at one more place.
Places(id) == {x \in Workers \X Nat : x[2] \in DOMAIN inbox[x[1]] /\ inbox[x[1]][x[2]] = id}
AtMostOne(P) == \A x, y \in P : x = y
AtMostTwo(P) == \A x, y, z \in P : x = y \/ y = z \/ x = z

LEMMA SendPlaces ==
    ASSUME Boxes, NEW ids, Boxed(ids), Send(ids), NEW id,
           \A i, j \in DOMAIN ids : ids[i] = ids[j] => i = j
    PROVE  \E new : Places(id)' \subseteq Places(id) \cup new /\ AtMostOne(new)
                    /\ ((\A i \in DOMAIN ids : ids[i] # id) => new = {})
<1> DEFINE fresh(x) == x[2] > Len(inbox[x[1]])
           new == {x \in Places(id)' : fresh(x)}
<1>1. /\ inbox' = [w \in Workers |-> inbox[w] \o Share(w, ids)] /\ turn \in Int
      /\ \A w \in Workers : Boxed(inbox[w]) /\ Boxed(Share(w, ids))
    BY ShareFact DEF Send, Boxes
<1>2. ASSUME NEW w \in Workers, NEW k \in DOMAIN inbox'[w]
      PROVE  \/ k \in DOMAIN inbox[w] /\ inbox'[w][k] = inbox[w][k]
             \/ /\ k > Len(inbox[w]) /\ k - Len(inbox[w]) \in DOMAIN Share(w, ids)
                /\ inbox'[w][k] = Share(w, ids)[k - Len(inbox[w])]
    <2> DEFINE s == inbox[w]
               t == Share(w, ids)
    <2>1. s \in Seq({s[i] : i \in DOMAIN s} \cup {t[i] : i \in DOMAIN t}) /\ t \in Seq({s[i] : i \in DOMAIN s} \cup {t[i] : i \in DOMAIN t})
        <3>1. s \in Seq({s[i] : i \in DOMAIN s}) /\ t \in Seq({t[i] : i \in DOMAIN t})
            BY <1>1 DEF Boxed
        <3> DEFINE S == {s[i] : i \in DOMAIN s}
                   T == {t[i] : i \in DOMAIN t}
        <3>2. S \subseteq S \cup T /\ T \subseteq S \cup T
            OBVIOUS
        <3> HIDE DEF s, t, S, T
        <3>3. s \in Seq(S \cup T) /\ t \in Seq(S \cup T)
            <4>1. s \in Seq(S) /\ t \in Seq(T)
                BY <3>1 DEF S, T
            <4> QED  BY <3>2, <4>1, SeqMonotonic
        <3> QED  BY <3>3 DEF S, T
    <2>2. /\ Len(s \o t) = Len(s) + Len(t) /\ DOMAIN (s \o t) = 1 .. Len(s) + Len(t)
          /\ \A i \in 1 .. Len(s) + Len(t) : (s \o t)[i] = IF i <= Len(s) THEN s[i] ELSE t[i - Len(s)]
        BY <2>1, ConcatProperties, LenProperties
    <2>3. /\ Len(s) \in Nat /\ Len(t) \in Nat /\ DOMAIN s = 1 .. Len(s) /\ DOMAIN t = 1 .. Len(t)
        BY <1>1, BoxedFacts
    <2>4. inbox'[w] = s \o t
        BY <1>1
    <2> HIDE DEF s, t
    <2>5. CASE k <= Len(s)
        BY <2>2, <2>3, <2>4, <2>5 DEF s
    <2>6. CASE k > Len(s)
        BY <2>2, <2>3, <2>4, <2>6 DEF s, t
    <2> QED  BY <2>2, <2>3, <2>4, <2>5, <2>6
<1>3. ASSUME NEW x \in Places(id)'
      PROVE  x \in Places(id) \/ x \in new
    BY <1>2 DEF Places
<1>4. ASSUME NEW x \in new
      PROVE  \E i \in DOMAIN ids : /\ ids[i] = id /\ Receiver(i) = x[1]
                                   /\ x \in Workers \X Nat
                                   /\ Len(inbox[x[1]]) \in Nat
    <2>1. x \in Workers \X Nat /\ x[2] \in DOMAIN inbox'[x[1]] /\ inbox'[x[1]][x[2]] = id /\ x[2] > Len(inbox[x[1]])
        BY DEF Places
    <2>2. PICK w \in Workers, k \in Nat : w = x[1] /\ k = x[2] /\ Len(inbox[w]) \in Nat /\ DOMAIN inbox[w] = 1 .. Len(inbox[w])
        BY <1>1, <2>1, BoxedFacts
    <2>3. k - Len(inbox[w]) \in DOMAIN Share(w, ids) /\ Share(w, ids)[k - Len(inbox[w])] = id
        BY <1>2, <2>1, <2>2
    <2>4. PICK o : \A l \in DOMAIN Share(w, ids) : o[l] \in DOMAIN ids /\ Receiver(o[l]) = w /\ Share(w, ids)[l] = ids[o[l]]
        BY ShareOnce
    <2> QED  BY <2>1, <2>2, <2>3, <2>4
<1>5. ASSUME NEW x \in new, NEW y \in new
      PROVE  x = y
    <2>1. PICK i \in DOMAIN ids : ids[i] = id /\ Receiver(i) = x[1]
        BY <1>4
    <2>2. PICK j \in DOMAIN ids : ids[j] = id /\ Receiver(j) = y[1]
        BY <1>4
    <2>3. x[1] = y[1] /\ x \in Workers \X Nat /\ y \in Workers \X Nat
        BY <1>4, <2>1, <2>2
    <2>4. PICK w \in Workers : w = x[1] /\ w = y[1]
        BY <2>3
    <2>5. PICK o : \A k \in DOMAIN Share(w, ids) :
               /\ o[k] \in DOMAIN ids /\ Receiver(o[k]) = w /\ Share(w, ids)[k] = ids[o[k]]
               /\ \A l \in DOMAIN Share(w, ids) : o[k] = o[l] => k = l
        BY ShareOnce
    <2>6. PICK n : n = Len(inbox[w]) /\ n \in Nat /\ DOMAIN inbox[w] = 1 .. n
        BY <1>1, BoxedFacts
    <2>7. ASSUME NEW z \in new, z[1] = w
          PROVE  z[2] - n \in DOMAIN Share(w, ids) /\ ids[o[z[2] - n]] = id /\ z[2] \in Nat
        <3>1. z \in Workers \X Nat /\ z[2] \in DOMAIN inbox'[w] /\ inbox'[w][z[2]] = id /\ z[2] > n
            BY <2>6, <2>7 DEF Places
        <3>2. z[2] - n \in DOMAIN Share(w, ids) /\ Share(w, ids)[z[2] - n] = id
            BY <1>2, <2>6, <3>1
        <3> QED  BY <2>5, <3>1, <3>2
    <2>8. /\ x[2] - n \in DOMAIN Share(w, ids) /\ ids[o[x[2] - n]] = id /\ x[2] \in Nat
          /\ y[2] - n \in DOMAIN Share(w, ids) /\ ids[o[y[2] - n]] = id /\ y[2] \in Nat
        <3>1. x[1] = w /\ y[1] = w
            BY <2>4
        <3> HIDE DEF new
        <3> QED  BY <2>7, <3>1
    <2> HIDE DEF new
    <2>9. x[2] = y[2]
        <3>1. PICK k, l : k = x[2] - n /\ l = y[2] - n
            OBVIOUS
        <3>2. /\ k \in DOMAIN Share(w, ids) /\ ids[o[k]] = id
              /\ l \in DOMAIN Share(w, ids) /\ ids[o[l]] = id
            BY <2>8, <3>1
        <3>3. o[k] \in DOMAIN ids /\ o[l] \in DOMAIN ids
            BY <2>5, <3>2
        <3>4. o[k] = o[l]
            BY <3>2, <3>3
        <3>5. k = l
            BY <2>5, <3>2, <3>4
        <3> QED  BY <2>6, <2>8, <3>1, <3>5
    <2> QED  BY <2>3, <2>9
<1>6. ASSUME \A i \in DOMAIN ids : ids[i] # id
      PROVE  new = {}
    BY <1>4, <1>6
<1>7. Places(id)' \subseteq Places(id) \cup new
    BY <1>3
<1>8. AtMostOne(new)
    BY <1>5 DEF AtMostOne
<1> HIDE DEF new
<1> QED  BY <1>6, <1>7, <1>8

\* What is taken from the front of a box lay there, and the rest moves up.
LEMMA FetchPlaces ==
    ASSUME Boxes, NEW w \in Workers, inbox[w] # <<>>, inbox' = [inbox EXCEPT ![w] = Tail(@)], NEW id
    PROVE  /\ AtMostTwo(Places(id)) => AtMostTwo(Places(id)')
           /\ AtMostOne(Places(id)) => AtMostOne(Places(id)')
           /\ Places(id) = {} => Places(id)' = {} /\ Head(inbox[w]) # id
           /\ Head(inbox[w]) = id => /\ AtMostTwo(Places(id)) => AtMostOne(Places(id)')
                                     /\ AtMostOne(Places(id)) => Places(id)' = {}
<1> DEFINE g == [x \in Workers \X Nat |-> IF x[1] = w THEN <<x[1], x[2] + 1>> ELSE x]
<1>1. inbox' = [v \in Workers |-> IF v = w THEN Tail(inbox[w]) ELSE inbox[v]] /\ Boxed(inbox[w])
    BY DEF Boxes
<1>2. /\ Len(inbox[w]) \in Nat /\ Len(inbox[w]) > 0 /\ DOMAIN inbox[w] = 1 .. Len(inbox[w]) /\ Head(inbox[w]) = inbox[w][1]
      /\ DOMAIN Tail(inbox[w]) = 1 .. (Len(inbox[w]) - 1)
      /\ \A i \in 1 .. (Len(inbox[w]) - 1) : Tail(inbox[w])[i] = inbox[w][i + 1]
    <2>1. inbox[w] \in Seq({inbox[w][i] : i \in DOMAIN inbox[w]})
        BY <1>1 DEF Boxed
    <2>2. /\ Len(inbox[w]) \in Nat /\ Len(inbox[w]) > 0 /\ DOMAIN inbox[w] = 1 .. Len(inbox[w]) /\ Head(inbox[w]) = inbox[w][1]
          /\ Tail(inbox[w]) \in Seq({inbox[w][i] : i \in DOMAIN inbox[w]}) /\ Len(Tail(inbox[w])) = Len(inbox[w]) - 1
          /\ \A i \in 1 .. Len(Tail(inbox[w])) : Tail(inbox[w])[i] = inbox[w][i + 1]
        BY <2>1, HeadTailProperties, LenProperties, EmptySeq
    <2> QED  BY <2>2, LenProperties
<1>3. ASSUME NEW x \in Places(id)'
      PROVE  g[x] \in Places(id) /\ g[x] # <<w, 1>> /\ x \in Workers \X Nat
    <2>1. PICK v \in Workers, k \in Nat : x = <<v, k>> /\ k \in DOMAIN inbox'[v] /\ inbox'[v][k] = id
        BY DEF Places
    <2>2. CASE v = w
        <3>1. k \in 1 .. (Len(inbox[w]) - 1) /\ inbox[w][k + 1] = id
            BY <1>1, <1>2, <2>1, <2>2
        <3>2. k + 1 \in DOMAIN inbox[w] /\ k + 1 # 1 /\ g[x] = <<w, k + 1>>
            BY <1>2, <2>1, <2>2, <3>1
        <3> QED  BY <2>1, <3>1, <3>2 DEF Places
    <2>3. CASE v # w
        <3>1. g[x] = <<v, k>> /\ k \in DOMAIN inbox[v] /\ inbox[v][k] = id
            BY <1>1, <2>1, <2>3
        <3> QED  BY <2>1, <2>3, <3>1 DEF Places
    <2> QED  BY <2>2, <2>3
<1>4. ASSUME NEW x \in Places(id)', NEW y \in Places(id)', g[x] = g[y]
      PROVE  x = y
    <2>1. x \in Workers \X Nat /\ y \in Workers \X Nat
        BY <1>3
    <2>2. PICK v \in Workers, k \in Nat : x = <<v, k>>
        BY <2>1
    <2>3. PICK u \in Workers, l \in Nat : y = <<u, l>>
        BY <2>1
    <2>4. /\ v = w => g[x] = <<v, k + 1>>
          /\ v # w => g[x] = <<v, k>>
        BY <2>1, <2>2
    <2>5. /\ u = w => g[y] = <<u, l + 1>>
          /\ u # w => g[y] = <<u, l>>
        BY <2>1, <2>3
    <2> HIDE DEF g
    <2> QED  BY <1>4, <2>2, <2>3, <2>4, <2>5
<1>5. Head(inbox[w]) = id => <<w, 1>> \in Places(id)
    BY <1>2 DEF Places
<1> HIDE DEF g
<1>6. AtMostTwo(Places(id)) => AtMostTwo(Places(id)')
    BY <1>3, <1>4 DEF AtMostTwo
<1>7. AtMostOne(Places(id)) => AtMostOne(Places(id)')
    BY <1>3, <1>4 DEF AtMostOne
<1>8. Places(id) = {} => Places(id)' = {} /\ Head(inbox[w]) # id
    BY <1>3, <1>5
<1>9. Head(inbox[w]) = id /\ AtMostTwo(Places(id)) => AtMostOne(Places(id)')
    BY <1>3, <1>4, <1>5 DEF AtMostTwo, AtMostOne
<1>10. Head(inbox[w]) = id /\ AtMostOne(Places(id)) => Places(id)' = {}
    BY <1>3, <1>5 DEF AtMostOne
<1> QED  BY <1>6, <1>7, <1>8, <1>9, <1>10
-----------------------------------------------------------------------------
(* No recovered transaction is forgotten.                                  *)

InHands(id) == \E w \in Workers : work[w].id = id
Unreadable(id) == ~Readable(plan.txs[id])
Remembered ==
    \A r \in rec : r.consumed \/ r.id \in missed \/ Unreadable(r.id) \/ InHands(r.id) \/ Queued(r.id)
Shown == (status = "running") = (walk.at # 0) \/ unwritten
Resumed == up /\ "requeue" \notin todo

\* A worker that is idle holds nothing, and no walk runs before the rows of the
\* last one are queued again.
QInv ==
    /\ KInv
    /\ Boxes
    /\ \A w \in Workers : At(w, "idle") => work[w].id = 0
    /\ Resumed \/ walk.at = 0
    /\ Resumed => Remembered /\ Shown

LEMMA SameText ==
    ASSUME plan' = plan
    PROVE  \A id : Unreadable(id)' = Unreadable(id)
BY DEF Unreadable

LEMMA NothingForgottenHolds ==
    ASSUME QInv
    PROVE  NothingForgotten
<1> SUFFICES ASSUME Resumed, NEW r \in rec, ~r.consumed, r.id \notin missed, ~Unreadable(r.id)
             PROVE  \E w \in Workers : work[w].id = r.id \/ r.id \in Range(inbox[w])
    BY DEF NothingForgotten, Resumed, QInv, Shown, Unreadable
<1>1. \A w \in Workers : Within(r.id, inbox[w]) => r.id \in Range(inbox[w])
    BY DEF Within, Range
<1> QED  BY <1>1 DEF QInv, Remembered, InHands, Queued

\* A step that leaves the walk, the startup and the boxes alone keeps the
\* invariant when it keeps what is remembered.
LEMMA RestKeeps ==
    ASSUME QInv, KInv', UNCHANGED <<inbox, turn, up, todo, walk, status, unwritten>>,
           \A w \in Workers : (work'[w].pc = "idle" => work'[w].id = 0),
           Remembered => Remembered'
    PROVE  QInv'
<1>1. Boxes'
    BY DEF QInv, Boxes
<1> QED  BY <1>1 DEF QInv, Resumed, Shown, At

LEMMA HandlersKeepQ ==
    ASSUME QInv, NEW w \in Everyone, Handling(w) \/ HandlingPending(w)
    PROVE  QInv'
<1>1. KInv'
    BY HandlersKeep DEF QInv
<1>2. UNCHANGED <<rec, inbox, turn, up, todo, walk, status, torn, missed, unwritten>>
    BY DEF Handling, HandlingPending, HandlePending, pendingVars, pipeVars, Unparked, GiveUp, RouteBroadcast, TipGates,
           Resolve, StoreBroadcast, StoreTip, NotifyStored
<1>3. PICK next : Steps(w, next)
    BY <1>2, HandlersStep DEF Handling, HandlingPending, QInv
<1>4. next # "idle" /\ work[w].pc # "idle" /\ plan' = plan
      /\ \A v \in Everyone : work'[v].id = work[v].id /\ work'[v].pc = IF v = w THEN next ELSE work[v].pc
    BY <1>3 DEF Steps, Moved
<1>5. Remembered => Remembered'
    BY <1>2, <1>4, SameText DEF Remembered, InHands, Queued, Everyone
<1>6. \A v \in Workers : work'[v].pc = "idle" => work'[v].id = 0
    BY <1>4 DEF QInv, At, Everyone
<1> QED  BY <1>1, <1>2, <1>5, <1>6, RestKeeps

LEMMA IdleHolds ==
    ASSUME QInv, NEW w \in Workers, At(w, "idle"), NEW r \in rec
    PROVE  work[w].id # r.id
<1>1. r.id \in Ids /\ 0 \notin Ids
    BY IdsFact DEF QInv, KInv, Known
<1> QED  BY <1>1 DEF QInv

\* A worker takes the first of its box, and lets it go only when it is gone.
LEMMA FetchKeepsQ ==
    ASSUME QInv, NEW w \in Workers, Fetch(w) \/ FetchFails(w)
    PROVE  QInv'
<1> DEFINE id == Head(inbox[w])
           r == work'[w]
<1>1. KInv'
    BY FetchKeeps DEF QInv
<1>2. /\ At(w, "idle") /\ inbox[w] # <<>>
      /\ inbox' = [inbox EXCEPT ![w] = Tail(@)]
      /\ UNCHANGED <<plan, missed, rec, turn, up, todo, walk, status, unwritten>>
    BY DEF Fetch, FetchFails, pendingVars
<1>3. Boxed(Tail(inbox[w])) /\ \A i : Within(i, inbox[w]) => i = id \/ Within(i, Tail(inbox[w]))
    BY <1>2, TailBoxed DEF QInv, Boxes
<1>4. inbox' = [v \in Workers |-> IF v = w THEN Tail(inbox[w]) ELSE inbox[v]]
    BY <1>2 DEF QInv, Boxes
<1>5. Boxes'
    BY <1>2, <1>3, <1>4 DEF QInv, Boxes
<1>6. \A i : Queued(i) => i = id \/ Queued(i)'
    BY <1>3, <1>4 DEF Queued
<1>7. /\ \A v \in Workers \ {w} : work'[v] = work[v]
      /\ \/ work'[w].id = id /\ work'[w].pc # "idle"
         \/ work'[w] = work[w] /\ ~Fetched(id)
    <2>1. CASE Fetch(w) /\ Fetched(id)
        <3>1. id \in Ids
            BY <2>1 DEF Fetched, Held, QInv, KInv, Known
        <3>2. work' = [work EXCEPT ![w] = [id |-> id, pc |-> Entry(plan.txs[id]),
                                           quiet |-> (Recovered(id) \/ id \in catchUp), memo |-> {}]]
            BY <2>1 DEF Fetch, Take
        <3>3. Entry(plan.txs[id]) # "idle"
            BY DEF Entry
        <3> HIDE DEF id
        <3> QED  BY <3>2, <3>3, PlacesAre DEF QInv, KInv, Shaped, Everyone
    <2>2. CASE Fetch(w) /\ ~Fetched(id)
        BY <2>2 DEF Fetch
    <2>3. CASE FetchFails(w)
        <3>1. work' = [work EXCEPT ![w] = [id |-> id, pc |-> "refetch", quiet |-> FALSE, memo |-> {}]]
            BY <2>3 DEF FetchFails
        <3> HIDE DEF id
        <3> QED  BY <3>1, PlacesAre DEF QInv, KInv, Shaped, Everyone
    <2> QED  BY <2>1, <2>2, <2>3
<1>8. ASSUME Remembered
      PROVE  Remembered'
    <2> SUFFICES ASSUME NEW q \in rec, ~q.consumed, q.id \notin missed, ~Unreadable(q.id)
                 PROVE  (InHands(q.id) \/ Queued(q.id))'
        BY <1>2, SameText DEF Remembered
    <2>1. InHands(q.id) \/ Queued(q.id)
        BY <1>8 DEF Remembered
    <2>2. CASE InHands(q.id)
        BY <1>2, <1>7, <2>2, IdleHolds DEF InHands
    <2>3. CASE Queued(q.id) /\ q.id = id
        BY <1>7, <2>3 DEF Fetched, Held, Unreadable, InHands
    <2>4. CASE Queued(q.id) /\ q.id # id
        BY <1>6, <2>4
    <2> QED  BY <2>1, <2>2, <2>3, <2>4
<1>9. \A v \in Workers : work'[v].pc = "idle" => work'[v].id = 0
    BY <1>2, <1>7 DEF QInv, At
<1> HIDE DEF id
<1> QED  BY <1>1, <1>2, <1>5, <1>8, <1>9 DEF QInv, Resumed, Shown, At

\* A worker lets go of what is gone, consumed or failed.
LEMMA LeaveKeepsQ ==
    ASSUME QInv, NEW w \in Workers, Refetch(w) \/ RefetchFails(w) \/ Consume(w) \/ MarkFails(w)
    PROVE  QInv'
<1>1. KInv'
    BY FetchKeeps, ConsumeKeeps DEF QInv
<1>2. UNCHANGED <<plan, inbox, turn, up, todo, walk, status, unwritten>>
    BY DEF Refetch, RefetchFails, Consume, MarkFails
<1>3. CASE Refetch(w)
    <2> DEFINE id == work[w].id
    <2>1. UNCHANGED <<rec, missed>> /\ At(w, "refetch")
        BY <1>3 DEF Refetch, pendingVars
    <2>2. /\ \A v \in Workers \ {w} : work'[v] = work[v]
          /\ \/ work'[w].id = id /\ work'[w].pc # "idle"
             \/ work'[w].id = 0 /\ ~Fetched(id)
        <3>1. CASE Fetched(id)
            <4>1. work' = [work EXCEPT ![w] = [id |-> id, pc |-> Entry(plan.txs[id]), quiet |-> FALSE, memo |-> {}]]
                BY <1>3, <3>1 DEF Refetch, Take
            <4>2. Entry(plan.txs[id]) # "idle"
                BY DEF Entry
            <4> HIDE DEF id
            <4> QED  BY <4>1, <4>2, PlacesAre DEF QInv, KInv, Shaped, Everyone
        <3>2. CASE ~Fetched(id)
            <4>1. work' = [work EXCEPT ![w] = [id |-> 0, pc |-> "idle", quiet |-> FALSE, memo |-> {}]]
                BY <1>3, <3>2 DEF Refetch, Idle
            <4> QED  BY <3>2, <4>1, PlacesAre DEF QInv, KInv, Shaped, Everyone
        <3> QED  BY <3>1, <3>2
    <2>3. \A q \in rec : Fetched(q.id) \/ Unreadable(q.id)
        BY DEF Fetched, Held, Unreadable
    <2>4. Remembered => Remembered'
        BY <1>2, <2>1, <2>2, <2>3 DEF Remembered, Unreadable, InHands, Queued
    <2>5. \A v \in Workers : work'[v].pc = "idle" => work'[v].id = 0
        BY <2>2 DEF QInv, At
    <2> QED  BY <1>1, <1>2, <2>4, <2>5, RestKeeps
<1>4. CASE Consume(w)
    <2> DEFINE id == work[w].id
    <2>1. /\ rec' = {IF q.id = id THEN [q EXCEPT !.consumed = TRUE] ELSE q : q \in rec}
          /\ missed' = missed
          /\ work' = [work EXCEPT ![w] = [id |-> 0, pc |-> "idle", quiet |-> FALSE, memo |-> {}]]
        BY <1>4 DEF Consume, Idle
    <2>2. \A q \in rec : [q EXCEPT !.consumed = TRUE].consumed = TRUE
        BY DEF QInv, KInv, Known
    <2>3. \A q \in rec' : q.consumed \/ (q \in rec /\ q.id # id)
        BY <2>1, <2>2
    <2>4. work'[w].id = 0 /\ \A v \in Workers \ {w} : work'[v] = work[v]
        BY <2>1, PlacesAre DEF QInv, KInv, Shaped, Everyone
    <2>5. Remembered => Remembered'
        BY <1>2, <2>1, <2>3, <2>4 DEF Remembered, Unreadable, InHands, Queued
    <2>6. \A v \in Workers : work'[v].pc = "idle" => work'[v].id = 0
        BY <2>4 DEF QInv, At
    <2> QED  BY <1>1, <1>2, <2>5, <2>6, RestKeeps
<1>5. CASE RefetchFails(w) \/ MarkFails(w)
    <2>1. /\ rec' = rec /\ missed' = missed \cup {work[w].id}
          /\ work' = [work EXCEPT ![w] = [id |-> 0, pc |-> "idle", quiet |-> FALSE, memo |-> {}]]
        BY <1>5 DEF RefetchFails, MarkFails, Idle, pendingVars
    <2>2. work'[w].id = 0 /\ \A v \in Workers \ {w} : work'[v] = work[v]
        BY <2>1, PlacesAre DEF QInv, KInv, Shaped, Everyone
    <2>3. Remembered => Remembered'
        BY <1>2, <2>1, <2>2 DEF Remembered, Unreadable, InHands, Queued
    <2> QED  BY <1>1, <1>2, <2>2, <2>3, RestKeeps DEF QInv, At
<1> QED  BY <1>3, <1>4, <1>5

LEMMA FailureKeepsQ ==
    ASSUME QInv, NEW w \in Everyone, StatementFails(w)
    PROVE  QInv'
<1>1. KInv'
    BY FailureKeeps DEF QInv
<1>2. /\ UNCHANGED <<plan, rec, inbox, turn, up, todo, walk, status, unwritten>>
      /\ missed' = IF w = Retrier THEN missed ELSE missed \cup {work[w].id}
    BY DEF StatementFails, pendingVars
<1>3. CASE w = Retrier
    <2>1. \A v \in Workers : work'[v] = work[v]
        BY <1>3, WorkersAssumption, PlacesAre DEF StatementFails, QInv, KInv, Shaped, Everyone
    <2>2. Remembered => Remembered'
        BY <1>2, <1>3, <2>1 DEF Remembered, Unreadable, InHands, Queued
    <2> QED  BY <1>1, <1>2, <2>1, <2>2, RestKeeps DEF QInv, At
<1>4. CASE w # Retrier
    <2>1. work' = [work EXCEPT ![w] = [id |-> 0, pc |-> "idle", quiet |-> FALSE, memo |-> {}]]
        BY <1>4 DEF StatementFails, Idle
    <2>2. work'[w].id = 0 /\ \A v \in Workers \ {w} : work'[v] = work[v]
        BY <2>1, PlacesAre DEF QInv, KInv, Shaped, Everyone
    <2>3. Remembered => Remembered'
        BY <1>2, <1>4, <2>2 DEF Remembered, Unreadable, InHands, Queued
    <2> QED  BY <1>1, <1>2, <2>2, <2>3, RestKeeps DEF QInv, At
<1> QED  BY <1>3, <1>4

LEMMA RetryKeepsQ ==
    ASSUME QInv, Retrying
    PROVE  QInv'
<1>1. KInv'
    BY RetryKeeps DEF QInv
<1>2. UNCHANGED <<plan, rec, missed, inbox, turn, up, todo, walk, status, unwritten>>
    BY DEF Retrying, Retry, TakePending, PendingDone, PendingUnknown, Reads, Unparked, pendingVars, pipeVars
<1>3. \E r : work' = [work EXCEPT ![Retrier] = r]
    BY DEF Retrying, Retry, TakePending, PendingDone, PendingUnknown
<1>4. \A v \in Workers : work'[v] = work[v]
    BY <1>3, WorkersAssumption, PlacesAre DEF QInv, KInv, Shaped, Everyone
<1>5. Remembered => Remembered'
    BY <1>2, <1>4 DEF Remembered, Unreadable, InHands, Queued
<1> QED  BY <1>1, <1>2, <1>4, <1>5, RestKeeps DEF QInv, At

LEMMA EmptyBoxed == Boxed(<<>>) /\ \A id : ~Within(id, <<>>)
<1>1. \A X : <<>> \in Seq(X)
    BY EmptySeq
<1>2. DOMAIN <<>> = {}
    OBVIOUS
<1> QED  BY <1>1, <1>2, BoxedFacts DEF Within

LEMMA CrashKeepsQ ==
    ASSUME QInv, Crash
    PROVE  QInv'
<1>1. KInv'
    BY CrashKeeps DEF QInv
<1>2. /\ inbox' = [w \in Workers |-> <<>>] /\ turn' = turn
      /\ ~up' /\ walk'.at = 0
      /\ \A w \in Workers : work'[w].id = 0
    BY DEF Crash, NoWalk, Idle, Everyone
<1>3. Boxes'
    BY <1>2, EmptyBoxed DEF Boxes, QInv
<1> QED  BY <1>1, <1>2, <1>3 DEF QInv, Resumed

\* The steps that leave workers and boxes where they are.
LEMMA StillKeepsQ ==
    ASSUME QInv,
           \/ (\E id \in raw : PruneRaw(id)) \/ Listen \/ ListenerFails \/ Refresh \/ NodeSteps \/ Start
           \/ RequeueFails \/ SweepPending \/ (\E force \in BOOLEAN : RequestReindex(force))
           \/ BeginWalk \/ WalkChecks \/ WalkFails \/ PruneRecovered
    PROVE  QInv'
<1>1. KInv'
    BY QueueKeeps DEF QInv
<1>2. UNCHANGED <<plan, work, inbox, turn>> /\ rec' \subseteq rec
    BY DEF PruneRaw, Listen, ListenerFails, Refresh, RefreshDenylist, NodeSteps, Start, RequeueFails, SweepPending, RequestReindex,
           BeginWalk, WalkChecks, WalkFails, PruneRecovered, storeVars, pendingVars, pipeVars
<1>3. Boxes' /\ (missed' = missed /\ Remembered => Remembered')
    BY <1>2 DEF QInv, Boxes, Remembered, Unreadable, InHands, Queued
<1>4. ASSUME up' = up, todo' = todo \/ todo' = todo \ {"sweep"}, UNCHANGED <<walk, status, missed, unwritten>>
      PROVE  QInv'
    BY <1>1, <1>2, <1>3, <1>4 DEF QInv, Resumed, Shown, At
<1>5. CASE \/ (\E id \in raw : PruneRaw(id)) \/ Listen \/ ListenerFails \/ Refresh \/ NodeSteps
           \/ SweepPending \/ (\E force \in BOOLEAN : RequestReindex(force)) \/ PruneRecovered
    BY <1>4, <1>5 DEF PruneRaw, Listen, ListenerFails, Refresh, NodeSteps, SweepPending, RequestReindex, PruneRecovered,
                      pipeVars
<1>6. CASE Start
    <2>1. ~up /\ todo' = Tasks /\ walk' = walk
        BY <1>6 DEF Start
    <2>2. ~Resumed' /\ walk'.at = 0
        BY <2>1 DEF QInv, Resumed, Tasks
    <2> QED  BY <1>1, <1>2, <1>3, <2>2 DEF QInv, At
<1>7. CASE BeginWalk
    <2>1. /\ Resumed /\ walk.at = 0 /\ UNCHANGED <<up, todo, missed>>
          /\ \/ status' = "running" /\ walk' = [at |-> 1, found |-> FALSE]
             \/ status' \in {"done", "failed"} /\ walk' = walk
             \/ unwritten'
        BY <1>7 DEF BeginWalk, Show, Written, Unwritten, Resumed
    <2>2. Shown' /\ Resumed'
        BY <2>1 DEF Shown, Resumed
    <2> QED  BY <1>1, <1>2, <1>3, <2>1, <2>2 DEF QInv, At
<1>8. CASE WalkChecks \/ WalkFails
    <2>1. /\ walk.at # 0 /\ UNCHANGED <<up, todo, missed>>
          /\ \/ walk' = [walk EXCEPT !.found = TRUE] /\ UNCHANGED <<status, unwritten>>
             \/ walk' = [at |-> walk.at + 1, found |-> FALSE] /\ UNCHANGED <<status, unwritten>>
             \/ walk' = NoWalk /\ (status' \in {"done", "failed"} \/ unwritten')
        BY <1>8 DEF WalkChecks, WalkFails, Walked, Show, Written, Unwritten
    <2>2. Resumed /\ Shown /\ Resumed'
        BY <2>1 DEF QInv, Resumed, Shown
    <2>3. walk.at \in Nat /\ walk = [at |-> walk.at, found |-> walk.found]
        BY DEF QInv, KInv, Known
    <2>4. CASE walk' = [walk EXCEPT !.found = TRUE] /\ UNCHANGED <<status, unwritten>>
        <3>1. walk'.at = walk.at
            BY <2>3, <2>4
        <3>2. Shown'
            BY <2>1, <2>2, <2>4, <3>1 DEF Shown
        <3> QED  BY <1>1, <1>2, <1>3, <2>1, <2>2, <3>2 DEF QInv, At
    <2>5. CASE walk' = [at |-> walk.at + 1, found |-> FALSE] /\ UNCHANGED <<status, unwritten>>
        <3>1. Shown'
            BY <2>1, <2>2, <2>3, <2>5 DEF Shown
        <3> QED  BY <1>1, <1>2, <1>3, <2>1, <2>2, <3>1 DEF QInv, At
    <2>6. CASE walk' = NoWalk /\ (status' \in {"done", "failed"} \/ unwritten')
        <3>1. Shown'
            BY <2>6 DEF Shown, NoWalk
        <3> QED  BY <1>1, <1>2, <1>3, <2>1, <2>2, <3>1 DEF QInv, At
    <2> QED  BY <2>1, <2>4, <2>5, <2>6
<1>9. CASE RequeueFails
    <2>1. /\ UNCHANGED <<rec, up, walk>> /\ up /\ ~Resumed /\ missed' = missed \cup Unconsumed
          /\ unwritten' \/ status' # "running"
        BY <1>9 DEF RequeueFails, Written, Unwritten, Resumed, pendingVars
    <2>2. Remembered'
        BY <2>1 DEF Remembered, Unconsumed
    <2>3. walk'.at = 0 /\ Shown'
        BY <2>1 DEF QInv, Shown
    <2> QED  BY <1>1, <1>2, <1>3, <2>2, <2>3 DEF QInv, At
<1> QED  BY <1>5, <1>6, <1>7, <1>8, <1>9

\* The steps that send.
LEMMA SendingKeepsQ ==
    ASSUME QInv, Ingest \/ CatchUp \/ Requeue \/ WalkStores
    PROVE  QInv'
<1>1. KInv'
    BY QueueKeeps DEF QInv
<1>2. UNCHANGED <<plan, work, missed>>
    BY DEF Ingest, CatchUp, Requeue, WalkStores, storeVars
<1>3. \A x : Boxed(<<x>>) /\ DOMAIN <<x>> = 1 .. 1 /\ <<x>>[1] = x
    <2>1. \A x : <<x>> \in Seq({x})
        OBVIOUS
    <2> QED  BY <2>1, BoxedFacts
<1>4. ASSUME NEW S \in SUBSET Ids
      PROVE  Boxed(Ordered(S)) /\ \A x \in S : \E i \in DOMAIN Ordered(S) : Ordered(S)[i] = x
    <2>1. IsFiniteSet(S) /\ S \in SUBSET Nat
        <3>1. Cardinality(Ids) \in Nat /\ Ids = 1 .. Cardinality(Ids)
            BY IdsFact DEF QInv, KInv, Known
        <3>2. IsFiniteSet(Ids)
            BY <3>1, FS_Interval
        <3> QED  BY <3>1, <3>2, FS_Subset
    <2> QED  BY <2>1, OrderedMembers
<1>5. CASE Ingest
    <2>1. UNCHANGED <<rec, up, todo, walk, status, unwritten>>
        BY <1>5 DEF Ingest
    <2>2. Boxes' /\ \A id : Queued(id) => Queued(id)'
        <3>1. CASE Send(<<mined + 1>>)
            BY <1>3, <3>1, SendFact DEF QInv
        <3>2. CASE UNCHANGED <<inbox, turn>>
            BY <3>2 DEF QInv, Boxes, Queued
        <3> QED  BY <1>5, <3>1, <3>2 DEF Ingest
    <2> QED  BY <1>1, <1>2, <2>1, <2>2 DEF QInv, Resumed, Shown, Remembered, Unreadable, InHands, At
<1>6. CASE CatchUp
    <2>1. UNCHANGED <<rec, up, walk, status, unwritten>> /\ todo' = todo \ {"catch_up"}
        BY <1>6 DEF CatchUp, pendingVars
    <2>2. Boxes' /\ \A id : Queued(id) => Queued(id)'
        <3>1. raw \in SUBSET Ids
            BY DEF QInv, KInv, Known
        <3>2. CASE Send(Ordered(raw))
            BY <1>4, <3>1, <3>2, SendFact DEF QInv
        <3>3. CASE UNCHANGED <<inbox, turn>>
            BY <3>3 DEF QInv, Boxes, Queued
        <3> QED  BY <1>6, <3>2, <3>3 DEF CatchUp
    <2> QED  BY <1>1, <1>2, <2>1, <2>2 DEF QInv, Resumed, Shown, Remembered, Unreadable, InHands, At
<1>7. CASE Requeue
    <2>0. PICK S : S = Unconsumed
        OBVIOUS
    <2>1. /\ UNCHANGED <<rec, up, walk>> /\ up /\ ~Resumed
          /\ Send(Ordered(S)) /\ (unwritten' \/ status' # "running")
        BY <1>7, <2>0 DEF Requeue, ResetStale, Show, Written, Unwritten, Resumed, pendingVars
    <2>2. S \in SUBSET Ids
        BY <2>0 DEF Unconsumed, QInv, KInv, Known
    <2>3. Boxes' /\ \A i \in DOMAIN Ordered(S) : Queued(Ordered(S)[i])'
        BY <1>4, <2>1, <2>2, SendFact DEF QInv
    <2>4. \A r \in rec : r.consumed \/ r.id \in S
        BY <2>0 DEF Unconsumed
    <2>5. \A x \in S : Queued(x)'
        BY <1>4, <2>2, <2>3
    <2>6. Remembered'
        BY <2>1, <2>4, <2>5 DEF Remembered
    <2>7. walk'.at = 0 /\ Shown'
        BY <2>1 DEF QInv, Shown
    <2> QED  BY <1>1, <1>2, <2>3, <2>6, <2>7 DEF QInv, At
<1>8. CASE WalkStores
    <2>1. walk.at # 0 /\ UNCHANGED <<up, todo>> /\ Walked(walk.at)
        BY <1>8 DEF WalkStores
    <2>2. Resumed /\ Resumed' /\ Remembered /\ Shown /\ walk.at \in Nat
        BY <2>1 DEF QInv, Resumed, Shown, KInv, Known
    <2>3. Shown'
        BY <2>1, <2>2 DEF Walked, Show, Written, Unwritten, Shown, NoWalk
    <2>4. Boxes' /\ Remembered'
        <3>1. CASE UNCHANGED <<rec, inbox, turn>>
            BY <1>2, <2>2, <3>1 DEF QInv, Boxes, Remembered, Unreadable, InHands, Queued
        <3>2. CASE rec' = rec \cup {[id |-> walk.at, consumed |-> FALSE]} /\ Send(<<walk.at>>)
            <4>1. PICK at : at = walk.at
                OBVIOUS
            <4>2. Boxes' /\ (\A id : Queued(id) => Queued(id)') /\ Queued(at)'
                BY <1>3, <3>2, <4>1, SendFact DEF QInv
            <4>3. ASSUME NEW r \in rec'
                  PROVE  r.consumed \/ r.id \in missed' \/ Unreadable(r.id)' \/ InHands(r.id)' \/ Queued(r.id)'
                <5>1. CASE r \in rec
                    BY <1>2, <2>2, <4>2, <5>1 DEF Remembered, Unreadable, InHands
                <5>2. CASE r = [id |-> at, consumed |-> FALSE]
                    BY <4>2, <5>2
                <5> QED  BY <3>2, <4>1, <5>1, <5>2
            <4> QED  BY <4>2, <4>3 DEF Remembered
        <3> QED  BY <1>8, <3>1, <3>2 DEF WalkStores
    <2> QED  BY <1>1, <1>2, <2>2, <2>3, <2>4 DEF QInv, At
<1> QED  BY <1>5, <1>6, <1>7, <1>8

LEMMA InitHoldsQ ==
    ASSUME Init
    PROVE  QInv
<1>1. /\ inbox = [w \in Workers |-> <<>>] /\ turn = 1 /\ rec = {} /\ status = "none" /\ walk.at = 0 /\ unwritten = FALSE
      /\ \A w \in Workers : work[w].id = 0
    BY DEF Init, NoWalk, Idle, Everyone
<1>2. Boxes
    BY <1>1, EmptyBoxed DEF Boxes
<1> QED  BY <1>1, <1>2, InitHolds DEF QInv, Remembered, Shown

LEMMA NextKeepsQ ==
    ASSUME QInv, [Next]_vars
    PROVE  QInv'
<1>1. CASE \E w \in Workers : WorkerSteps(w) \/ FetchFails(w) \/ RefetchFails(w) \/ MarkFails(w)
    BY <1>1, FetchKeepsQ, LeaveKeepsQ DEF WorkerSteps
<1>2. CASE \E w \in Everyone : Handling(w) \/ HandlingPending(w) \/ StatementFails(w)
    BY <1>2, HandlersKeepQ, FailureKeepsQ
<1>3. CASE UNCHANGED vars
    <2>1. KInv'
        BY <1>3, NextKeeps DEF QInv
    <2>2. UNCHANGED <<plan, work, missed, rec, inbox, turn, up, todo, walk, status, unwritten>>
        BY <1>3 DEF vars, storeVars, pendingVars, pipeVars
    <2>3. Remembered => Remembered'
        BY <2>2 DEF Remembered, Unreadable, InHands, Queued
    <2> QED  BY <2>1, <2>2, <2>3, RestKeeps DEF QInv, At
<1> QED  BY <1>1, <1>2, <1>3, StillKeepsQ, SendingKeepsQ, RetryKeepsQ, CrashKeepsQ DEF Next

\* A restart forgets no recovered transaction whose payload is text, and never leaves
\* a walk shown as running that does not run (NothingForgotten; worker.rs and main.rs,
\* the requeue at startup).
THEOREM ForgottenTheorem == Spec => []NothingForgotten
<1>1. Init => QInv
    BY InitHoldsQ
<1>2. QInv /\ [Next]_vars => QInv'
    BY NextKeepsQ
<1>3. QInv => NothingForgotten
    BY NothingForgottenHolds
<1> QED  BY <1>1, <1>2, <1>3, PTL DEF Spec
=============================================================================
