------------------------------- MODULE KPosts -------------------------------
(***************************************************************************)
(* k_protocol.rs: what a worker does with one KaPosts transaction. Several *)
(* workers run at once on one database, so a step is one SQL statement (or *)
(* the part of a database transaction up to its next statement); whatever  *)
(* a handler read earlier is in the worker's memo. A handler returns by    *)
(* going to "done", content handlers by way of "drop" (drop_if_deleted).   *)
(***************************************************************************)
EXTENDS KStore, Bags

CONSTANTS Workers,
          Plans      \* what happens in a behaviour: transactions and faults

Kinds == Content \cup {"vote", "unquote", "follow", "block", "edit", "delete", "pollvote", "tip", "profile",
                      "bcast", "unknown"}

\* The payload of a transaction is UTF-8. What is not only carries the prefix.
Readable(tx) == tx.text # "garbled"

\* How often each of these may happen in a behaviour.
Faults == {"crash", "error", "prune", "listen", "reindex", "forget", "node"}

\* The transactions of a plan are numbered in the order in which they are mined.
ASSUME PlansAssumption ==
  \A p \in Plans :
    /\ IsFiniteSet(DOMAIN p.txs) /\ DOMAIN p.txs = 1 .. Cardinality(DOMAIN p.txs)
    /\ \A i \in DOMAIN p.txs : p.txs[i].id = i /\ p.txs[i].kind \in Kinds /\ p.txs[i].time \in Nat
    /\ \A i \in DOMAIN p.txs : Readable(p.txs[i]) \/ p.txs[i].kind = "unknown"
    /\ p.budget \in [Faults -> Nat]

VARIABLES plan,      \* the behaviour's plan
          db,        \* the tables
          denied,    \* the denylist in memory
          work,      \* worker -> [id, pc, quiet, memo]
          pushed,    \* the bag of pushes handed to the push service
          raced,     \* history: what two workers changed at the same time, what the gate turned away,
                     \* and edits older than the row they are about
          cut,       \* history: transactions that an error or a crash interrupted
          owed,      \* history: authors whose last purge was interrupted
          half       \* history: edits, follows and blocks whose handler was interrupted at the rows they change

storeVars == <<db, denied, work, pushed, raced, cut, owed, half>>

Idle == [id |-> 0, pc |-> "idle", quiet |-> FALSE, memo |-> {}]
Tx(w) == plan.txs[work[w].id]
At(w, pc) == work[w].pc = pc
Handles(w, kinds) == Tx(w).kind \in kinds

Goto(w, pc) == work' = [work EXCEPT ![w].pc = pc]
Recall(w, pc, memo) == work' = [work EXCEPT ![w].pc = pc, ![w].memo = memo]
Return(tx) == IF tx.kind \in Content THEN "drop" ELSE "done"

Reads == UNCHANGED <<plan, db, denied, pushed, raced, cut, owed, half>>
Writes == UNCHANGED <<plan, denied, pushed, raced, cut, owed, half>>

\* Mutant of Push: the quiet mark is not looked at.
LoudPush(w, ps) == pushed' = pushed (+) SetToBag(ps)
\* notify_*: fire and forget, nothing while the transaction is processed quietly.
Push(w, ps) == pushed' = IF work[w].quiet THEN pushed ELSE pushed (+) SetToBag(ps)
APush(kind, to, tx) == [kind |-> kind, to |-> to, tx |-> tx.id]

\* parse_k_protocol_payload knows the action; verify_kaspa_signature;
\* validate_kachat_message and is_image_art, or validate_k_profile.
Parses(tx) == tx.kind # "unknown"
SignatureHolds(tx) == tx.signed
TextAllowed(tx) == tx.text # "bad"
ProfileAllowed(tx) == tx.kind = "profile" => tx.text # "bad"

\* process_k_transaction: where a transaction's handler begins.
IsDenied(k) == k \in denied
Entry(tx) ==
  IF tx.kind = "bcast" THEN IF plan.broadcasts THEN "route" ELSE "done"
  ELSE IF ~Parses(tx) \/ ~plan.kaposts \/ IsDenied(tx.by) THEN "done"
  ELSE IF tx.kind \in Content THEN "tomb" ELSE "fresh"

------------------------------------------------------------------------------
(* Every handler's first statements. *)

DeletedBefore(w) ==
  /\ At(w, "tomb")
  /\ Goto(w, IF DeletedByAuthor(db, Tx(w)) THEN "done" ELSE "fresh")
  /\ Reads

\* What follows a fresh signature.
Continue(tx) ==
  CASE tx.kind \in Content                     -> IF TextAllowed(tx) THEN "save" ELSE "drop"
    [] tx.kind = "vote"                        -> IF tx.as = "unvote" THEN "withdraw" ELSE "target"
    [] tx.kind = "unquote"                     -> "withdraw"
    [] tx.kind = "follow"                      -> IF tx.as = "follow" THEN "related" ELSE "newest"
    [] tx.kind = "block"                       -> "newest"
    [] tx.kind = "edit"                        -> IF TextAllowed(tx) THEN "original" ELSE "done"
    [] tx.kind = "delete"                      -> "bury"
    [] tx.kind = "pollvote"                    -> "ballot"
    [] tx.kind = "tip"                         -> IF SamePerson(tx.by, tx.who[1]) THEN "done" ELSE "target"
    [] tx.kind = "profile"                     -> "ledger"

SignatureIsFresh(w) ==
  /\ At(w, "fresh")
  /\ IF SignatureHolds(Tx(w)) /\ ProfileAllowed(Tx(w))
     THEN /\ db' = Claimed(db, Tx(w))
          /\ Goto(w, IF Owns(db, Tx(w)) THEN Continue(Tx(w)) ELSE Return(Tx(w)))
     ELSE UNCHANGED db /\ Goto(w, Return(Tx(w)))
  /\ Writes

------------------------------------------------------------------------------
(* Posts, replies, quotes and polls. *)

Save(w) ==
  LET new == NewContent(db, Tx(w))
  IN /\ At(w, "save")
     /\ db' = IF new THEN SaveContent(db, Tx(w)) ELSE db
     /\ IF Handles(w, {"poll"}) THEN Goto(w, IF new THEN "options" ELSE "drop")
                                ELSE Recall(w, "notify", IF new THEN {"new"} ELSE {})
     /\ raced' = IF new THEN raced \cup {<<"edit", e.id, 0>> : e \in {e \in db.edits : e.post = Tx(w).id}} ELSE raced
     /\ UNCHANGED <<plan, denied, pushed, cut, owed, half>>

SaveOptions(w) ==
  /\ At(w, "options")
  /\ db' = SavePollOptions(db, Tx(w))
  /\ Goto(w, "mentions")
  /\ Writes

SaveMentions(w) ==
  /\ At(w, "mentions") /\ Handles(w, {"poll"})
  /\ db' = SavePollMentions(db, Tx(w))
  /\ Recall(w, "notify", {"new"})
  /\ Writes

\* The pushes of new content: its mentions, the author it answers, and for a
\* new post or poll the devices that watch its author.
ContentPushes(tx, new, parents) ==
  CASE tx.kind = "post"  -> {APush("mention", k, tx) : k \in MentionTargets(tx, {})}
                              \cup (IF new THEN {APush("new_post", tx.by, tx)} ELSE {})
    [] tx.kind = "poll"  -> {APush("new_post", tx.by, tx)}
    [] tx.kind = "reply" -> {APush("mention", k, tx) : k \in MentionTargets(tx, parents)}
                              \cup {APush("reply", k, tx) : k \in parents}
    [] tx.kind = "quote" -> {APush("quote", k, tx) : k \in parents}

NotifyContent(w) ==
  /\ At(w, "notify") /\ Handles(w, Content)
  /\ Push(w, ContentPushes(Tx(w), "new" \in work[w].memo, AuthorsOf(db, Tx(w).ref)))
  /\ Goto(w, "drop")
  /\ UNCHANGED <<plan, db, denied, raced, cut, owed, half>>

\* Mutant of DropIfDeleted: no second look at the tombstones.
NoSecondLook(w) == At(w, "drop") /\ Goto(w, "done") /\ Reads
DropIfDeleted(w) ==
  /\ At(w, "drop")
  /\ Goto(w, IF DeletedByAuthor(db, Tx(w)) THEN "erase" ELSE "done")
  /\ Reads

\* hard_delete_content, for drop_if_deleted and for a delete.
Erase(w) ==
  /\ At(w, "erase")
  /\ db' = HardDelete(db, IF Handles(w, {"delete"}) THEN Tx(w).ref ELSE Tx(w).id, Tx(w).by)
  /\ Goto(w, "done")
  /\ Writes

------------------------------------------------------------------------------
(* Votes, withdrawals and poll votes. *)

Withdraw(w) ==
  /\ At(w, "withdraw")
  /\ db' = IF Handles(w, {"vote"}) THEN Unvote(db, Tx(w)) ELSE Unquote(db, Tx(w))
  /\ Goto(w, "done")
  /\ Writes

TargetIndexed(w) ==
  /\ At(w, "target") /\ Handles(w, {"vote"})
  /\ Goto(w, IF ContentOf(db, Tx(w).ref) # {} THEN "replace" ELSE "done")
  /\ Reads

Other(w, pc, Same(_, _)) ==
  \E v \in Workers \ {w} : At(v, pc) /\ Tx(v).kind = Tx(w).kind /\ Same(Tx(v), Tx(w))

\* The delete of the database transaction: nobody sees it before the commit.
ReplaceVote(w) ==
  LET same(a, b) == a.ref = b.ref /\ SamePerson(a.by, b.by)
  IN /\ At(w, "replace")
     /\ Recall(w, "vote", Replaced(db, Tx(w)))
     /\ raced' = IF Other(w, "vote", same) THEN raced \cup {<<"vote", XOnly(Tx(w).by), Tx(w).ref>>} ELSE raced
     /\ UNCHANGED <<plan, db, denied, pushed, cut, owed, half>>

CommitVote(w) ==
  LET replaced == work[w].memo
      repeated == \E v \in replaced : v.vote = Tx(w).as
  IN /\ At(w, "vote")
     /\ db' = CastVote(db, Tx(w), replaced)
     /\ Goto(w, IF VoteFits(db, Tx(w), replaced) /\ ~repeated THEN "notify" ELSE "done")
     /\ Writes

NotifyVote(w) ==
  /\ At(w, "notify") /\ Handles(w, {"vote"})
  /\ Push(w, {APush(Tx(w).as, k, Tx(w)) : k \in AuthorsOf(db, Tx(w).ref)})
  /\ Goto(w, "done")
  /\ UNCHANGED <<plan, db, denied, raced, cut, owed, half>>

\* The poll is read once and never changes, so its read and the insert are one step.
PollVote(w) ==
  /\ At(w, "ballot")
  /\ db' = IF BallotCounts(db, Tx(w)) THEN SaveBallot(db, Tx(w)) ELSE db
  /\ Goto(w, "done")
  /\ Writes

------------------------------------------------------------------------------
(* Edits and deletes. *)

Original(w) ==
  LET tx == Tx(w)
      found == {c \in ContentOf(db, tx.ref) : c.by = tx.by}
  IN /\ At(w, "original")
     /\ IF tx.kind = "edit"
        THEN Recall(w, IF Editable(db, tx) THEN "audit" ELSE "done", {c.kind : c \in found})
        ELSE Goto(w, IF found # {} THEN "record" ELSE "done")
     /\ Reads

AuditEdit(w) ==
  /\ At(w, "audit")
  /\ db' = RecordEdit(db, Tx(w))
  /\ Goto(w, "apply")
  /\ Writes

EditContent(w) ==
  /\ At(w, "apply")
  /\ db' = ApplyEdit(db, Tx(w))
  /\ Goto(w, IF EditApplies(db, Tx(w)) THEN "mentions" ELSE "done")
  /\ half' = half \ {Tx(w).id}
  /\ UNCHANGED <<plan, denied, pushed, raced, cut, owed>>

EditMentions(w) ==
  /\ At(w, "mentions") /\ Handles(w, {"edit"})
  /\ \E kind \in work[w].memo : db' = AddEditMentions(db, Tx(w), kind)
  /\ Goto(w, "done")
  /\ Writes

Tombstone(w) ==
  /\ At(w, "bury")
  /\ db' = Bury(db, Tx(w))
  /\ Goto(w, "original")
  /\ Writes

AuditDelete(w) ==
  /\ At(w, "record")
  /\ db' = RecordDelete(db, Tx(w))
  /\ Goto(w, "erase")
  /\ Writes

------------------------------------------------------------------------------
(* Follows, blocks and profiles. *)

Related(w) ==
  /\ At(w, "related")
  /\ Goto(w, IF KachatRelated(db, Tx(w)) THEN "newest" ELSE "done")
  /\ Reads

RelationIsNewest(w) ==
  LET same(a, b) == PairOf(a) = PairOf(b)
      newest == IsNewest(db, Tx(w))
  IN /\ At(w, "newest")
     /\ db' = RecordRelation(db, Tx(w))
     /\ Goto(w, IF newest THEN "relate" ELSE "done")
     /\ raced' = IF newest /\ Other(w, "relate", same) THEN raced \cup {PairOf(Tx(w))} ELSE raced
     /\ half' = IF newest THEN half ELSE half \ {Tx(w).id}
     /\ UNCHANGED <<plan, denied, pushed, cut, owed>>

SaveFollow(w) ==
  /\ At(w, "relate") /\ Handles(w, {"follow"})
  /\ db' = IF Tx(w).as = "follow" THEN Follow(db, Tx(w)) ELSE Unfollow(db, Tx(w))
  /\ Goto(w, IF Tx(w).as = "follow" /\ NewFollow(db, Tx(w)) THEN "notify" ELSE "done")
  /\ half' = half \ {Tx(w).id}
  /\ UNCHANGED <<plan, denied, pushed, raced, cut, owed>>

NotifyFollow(w) ==
  /\ At(w, "notify") /\ Handles(w, {"follow"})
  /\ Push(w, {APush("follow", Tx(w).who[1], Tx(w))})
  /\ Goto(w, "done")
  /\ UNCHANGED <<plan, db, denied, raced, cut, owed, half>>

IsOperator(k) == XOnly(k) \in plan.operators

SaveBlock(w) ==
  /\ At(w, "relate") /\ Handles(w, {"block"})
  /\ db' = IF Tx(w).as = "block" THEN Block(db, Tx(w)) ELSE Unblock(db, Tx(w))
  /\ Goto(w, IF IsOperator(Tx(w).by) THEN "operator" ELSE "done")
  /\ half' = half \ {Tx(w).id}
  /\ UNCHANGED <<plan, denied, pushed, raced, cut, owed>>

\* The operator's block or unblock reaches the denylist; a block also purges.
DenyTarget(w) ==
  /\ At(w, "operator") /\ Tx(w).as = "block"
  /\ db' = Deny(db, Tx(w).who[1])
  /\ Goto(w, "purge")
  /\ Writes

\* The purge, then the denylist in memory.
PurgeTarget(w) ==
  LET who == Tx(w).who[1]
      passed == \E v \in Workers : work[v].pc \in {"tomb", "fresh", "save"} /\ Tx(v).by = who /\ Handles(v, Content)
  IN /\ At(w, "purge")
     /\ db' = Purge(db, who)
     /\ Goto(w, "deny")
     /\ raced' = IF passed THEN raced \cup {<<"deny", who, 0>>} ELSE raced
     /\ owed' = owed \ {who}
     /\ UNCHANGED <<plan, denied, pushed, cut, half>>

DenyInMemory(w) ==
  /\ At(w, "deny")
  /\ denied' = denied \cup {Tx(w).who[1]}
  /\ Goto(w, "done")
  /\ UNCHANGED <<plan, db, pushed, raced, cut, owed, half>>

AllowTarget(w) ==
  /\ At(w, "operator") /\ Tx(w).as = "unblock"
  /\ db' = Allow(db, Tx(w).who[1])
  /\ denied' = denied \ {Tx(w).who[1]}
  /\ Goto(w, "done")
  /\ UNCHANGED <<plan, pushed, raced, cut, owed, half>>

\* The flag refresher of main.rs reads the denylist table.
RefreshDenylist ==
  /\ denied # db.denylist
  /\ denied' = db.denylist
  /\ UNCHANGED <<plan, db, work, pushed, raced, cut, owed, half>>

OpenLedger(w) ==
  LET same(a, b) == SamePerson(a.by, b.by)
  IN /\ At(w, "ledger")
     /\ IF LedgerAllows(db, Tx(w)) THEN Recall(w, "profile", db.profiles) ELSE Goto(w, "done")
     /\ raced' = IF Other(w, "profile", same) THEN raced \cup {<<"profile", XOnly(Tx(w).by), 0>>} ELSE raced
     /\ UNCHANGED <<plan, db, denied, pushed, cut, owed, half>>

CommitProfile(w) ==
  /\ At(w, "profile")
  /\ db' = SaveProfile(db, Tx(w), work[w].memo)
  /\ Goto(w, "done")
  /\ Writes

------------------------------------------------------------------------------
Handle(w) ==
  \/ DeletedBefore(w) \/ SignatureIsFresh(w)
  \/ Save(w) \/ SaveOptions(w) \/ SaveMentions(w) \/ NotifyContent(w) \/ DropIfDeleted(w) \/ Erase(w)
  \/ Withdraw(w) \/ TargetIndexed(w) \/ ReplaceVote(w) \/ CommitVote(w) \/ NotifyVote(w) \/ PollVote(w)
  \/ Original(w) \/ AuditEdit(w) \/ EditContent(w) \/ EditMentions(w) \/ Tombstone(w) \/ AuditDelete(w)
  \/ Related(w) \/ RelationIsNewest(w) \/ SaveFollow(w) \/ NotifyFollow(w)
  \/ SaveBlock(w) \/ DenyTarget(w) \/ PurgeTarget(w) \/ DenyInMemory(w) \/ AllowTarget(w)
  \/ OpenLedger(w) \/ CommitProfile(w)
==============================================================================
