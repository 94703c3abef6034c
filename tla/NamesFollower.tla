---------------------------- MODULE NamesFollower ----------------------------
(***************************************************************************)
(* kachat-names-follower: follows the node's selected chain from a         *)
(* checkpoint, keeps the registry in memory and in Postgres, starts over   *)
(* when a reorganisation goes below its journal, and rebuilds from a REST  *)
(* service when its checkpoint is pruned. A step of the loop up to its     *)
(* commit is one action: nothing else writes these tables, and an error on *)
(* the way ends the process (Crash).                                       *)
(***************************************************************************)
EXTENDS NamesNode

CONSTANTS JournalKeep,   \* undo entries that prune_journal keeps
          SyncedWithin   \* blocks behind the sink that still count as caught up

ASSUME FollowerBounds == {JournalKeep, SyncedWithin} \subseteq Nat

VARIABLES pc,        \* "down", "run", "walk" (REST bootstrap) or "push"
          reg,       \* Registry: [utxos, journal]
          cp,        \* follower.checkpoint
          dirty,     \* the live set has not been written yet
          boot,      \* the walk so far: [applied, events, sink, incomplete]
          skip,      \* bootstrapped_txids
          status,    \* [indexed, selfOk, synced, fatal, rebuilt (bootstrapped_at)]
          test,      \* the self-test: [suspects, refuted]
          due,       \* events of the batch that are still to be pushed
          db,        \* [registry, utxos, journal, cp, history, refuted, status]
          at,        \* history: the block whose registry the memory should hold
          astray,    \* history: one of the known ways to lose the chain was taken
          budget     \* faults left

followerVars == <<pc, reg, cp, dirty, boot, skip, status, test, due, db, at, astray, budget>>
vars == <<nodeVars, followerVars>>

NoBlock == -1
NoWalk == [applied |-> {}, events |-> <<>>, sink |-> 0, incomplete |-> FALSE]
NoStatus == [indexed |-> 0, selfOk |-> FALSE, synced |-> FALSE, fatal |-> "none", rebuilt |-> FALSE]
NoTest == [suspects |-> {}, refuted |-> {}]
EmptyTables == [registry |-> "none", utxos |-> <<>>, journal |-> <<>>, cp |-> NoBlock,
                history |-> <<>>, refuted |-> {}, status |-> NoStatus]
Seeded == [utxos |-> GenesisUtxos, journal |-> <<>>]

Init ==
  /\ NodeInit
  /\ pc = "down" /\ reg = [utxos |-> <<>>, journal |-> <<>>] /\ cp = 0 /\ dirty = FALSE
  /\ boot = NoWalk /\ skip = {} /\ status = NoStatus /\ test = NoTest /\ due = <<>>
  /\ db = EmptyTables
  /\ at = 0 /\ astray = FALSE
  /\ budget = [crash |-> plan.crash, prune |-> plan.prune, switch |-> plan.switch]

------------------------------------------------------------------------------
(* The tables (store.rs). *)

\* Mutant of Persisted: the history of removed blocks stays.
PersistedOverOldHistory(r, refuted, removed, events, c, st) ==
  [db EXCEPT !.utxos = r.utxos, !.journal = r.journal, !.history = @ \o events,
             !.refuted = refuted \cap DOMAIN r.utxos, !.cp = c, !.status = st]
\* persist: the live set is rewritten, the history of removed blocks dropped,
\* the events appended, the journal and the status written, in one commit.
Persisted(r, refuted, removed, events, c, st) ==
  [db EXCEPT !.utxos   = r.utxos,
             !.journal = r.journal,
             !.history = SelectSeq(@, LAMBDA e : e.block \notin Range(removed)) \o events,
             !.refuted = refuted \cap DOMAIN r.utxos,
             !.cp      = c,
             !.status  = st]

\* Mutant of StatusSaved: the checkpoint moves only with the registry.
StatusSavedAlone(flags, c, st) == [db EXCEPT !.refuted = flags, !.status = st]
\* save_status: no registry row is written; flags are the rows set_refuted marked.
StatusSaved(flags, c, st) == [db EXCEPT !.refuted = flags, !.cp = c, !.status = st]

\* reset, when the tables belong to another registry.
Reset == IF db.registry = "manifest" THEN db ELSE [EmptyTables EXCEPT !.registry = "manifest"]

\* rewind: the reminders and the registry id stay.
Rewound == [EmptyTables EXCEPT !.registry = db.registry]

\* run up to its loop: the stored registry, or the manifest's genesis.
Start ==
  /\ pc = "down"
  /\ pc' = "run"
  /\ db' = Reset
  /\ IF Reset.cp = NoBlock
     THEN reg' = Seeded /\ cp' = 0 /\ dirty' = TRUE
     ELSE reg' = [utxos |-> Reset.utxos, journal |-> Reset.journal] /\ cp' = Reset.cp /\ dirty' = FALSE
  /\ status' = [Reset.status EXCEPT !.fatal = "none"]
  /\ at' = IF Reset.cp = NoBlock THEN 0 ELSE at
  /\ UNCHANGED <<nodeVars, boot, skip, test, due, astray, budget>>

------------------------------------------------------------------------------
(* Following the node. *)

Reachable == Depth(cp) >= floor

\* Follower::step: undo the removed blocks, apply what was accepted, prune.
Step(r, removed, txs) ==
  LET undone  == FoldLeft(UndoBlock, r, removed)
      applied == FoldLeft(LAMBDA a, tx :
                            LET b == Apply(a, tx) IN [b EXCEPT !.events = a.events \o @],
                          [utxos |-> undone.utxos, journal |-> undone.journal, events |-> <<>>], txs)
  IN PruneJournal(applied, JournalKeep)

\* A removed block that changed the registry but is not in the journal.
Unrevertable(b) == ~JournalHasBlock(reg, b) /\ \E i \in DOMAIN db.history : db.history[i].block = b

\* The journal holds only a part of what the block changed.
PartlyKept(b) ==
  JournalHasBlock(reg, b) /\ Len(SelectSeq(reg.journal, LAMBDA e : e.block = b)) < Len(blocks[b].txs)

Rewind ==
  /\ pc = "run" /\ Reachable
  /\ \E b \in Range(Removed(cp, sink)) : Unrevertable(b)
  /\ db' = Rewound
  /\ reg' = Seeded /\ cp' = 0 /\ dirty' = TRUE
  /\ boot' = NoWalk /\ skip' = {} /\ status' = NoStatus /\ test' = NoTest
  /\ at' = 0 /\ astray' = FALSE
  /\ UNCHANGED <<nodeVars, pc, due, budget>>

\* The known ways to leave the chain: a block the walk went through is
\* reorganised away above the checkpoint; blocks that were undone while the
\* checkpoint stayed on them are on the chain again, and nothing applies them;
\* a transaction of the walk is undone, and is skipped when it is accepted
\* again; a removed block is only partly journaled; following goes on in the
\* middle of an unfinished walk.
GoesAstray(removed) ==
  \/ ~OnChain(at, sink) /\ ~OnChain(at, cp)
  \/ ~OnChain(Fork(cp, sink), at)
  \/ \E b \in Range(removed) : Range(blocks[b].txs) \cap skip # {}
  \/ \E b \in Range(removed) : PartlyKept(b)
  \/ boot.applied # {}

\* Mutant of SelfTest: a row that is missing for the first time is no failure.
ForgivingSelfTest(r, run) ==
  LET missing   == DOMAIN r.utxos \ DOMAIN blocks[sink].utxos
      confirmed == missing \cap test.suspects
  IN IF run
     THEN [suspects |-> missing, refuted |-> confirmed, ok |-> confirmed = {}, flags |-> db.refuted]
     ELSE [suspects |-> test.suspects, refuted |-> test.refuted, ok |-> status.selfOk, flags |-> db.refuted]
\* The self-test: rows that are missing on the node twice in a row are refuted
\* (set_refuted writes them when they changed). run: the timer has elapsed.
SelfTest(r, run) ==
  LET missing   == DOMAIN r.utxos \ DOMAIN blocks[sink].utxos
      confirmed == missing \cap test.suspects
  IN IF run
     THEN [suspects |-> missing, refuted |-> confirmed, ok |-> missing = {},
           flags |-> IF confirmed = test.refuted THEN db.refuted ELSE confirmed \cap DOMAIN db.utxos]
     ELSE [suspects |-> test.suspects, refuted |-> test.refuted, ok |-> status.selfOk,
           flags |-> db.refuted]

\* The batch of the added blocks bs, r the registry after it, and whether the
\* self-test's timer has elapsed (run). Without an added block the checkpoint
\* stays, also when it is one of the removed blocks.
FollowTo(r, removed, bs, run) ==
  LET tip     == IF bs = <<>> THEN cp ELSE Last(bs)
      reached == IF bs = <<>> THEN Fork(cp, sink) ELSE tip
      changed == \/ dirty \/ removed # <<>> \/ r.events # <<>>
                 \/ DOMAIN r.utxos # DOMAIN reg.utxos
      indexed == IF bs = <<>> THEN status.indexed ELSE Depth(tip)
      caught  == Depth(sink) - indexed <= SyncedWithin + 10 * plan.confirm
      tested  == SelfTest(r, run)
      st      == [status EXCEPT !.indexed = indexed, !.selfOk = tested.ok,
                                !.synced = caught /\ tested.ok, !.fatal = "none"]
  IN /\ pc = "run" /\ Reachable
     /\ \A b \in Range(removed) : ~Unrevertable(b)
     /\ run => caught
     /\ reg' = [utxos |-> r.utxos, journal |-> r.journal]
     /\ cp' = tip
     /\ status' = st
     /\ test' = [suspects |-> tested.suspects, refuted |-> tested.refuted]
     /\ db' = IF changed THEN Persisted(r, tested.refuted, removed, r.events, tip, st)
                         ELSE StatusSaved(tested.flags, tip, st)
     /\ dirty' = (dirty /\ ~changed)
     /\ due' = IF caught THEN r.events ELSE <<>>
     /\ pc' = IF due' = <<>> THEN "run" ELSE "push"
     /\ astray' = (astray \/ GoesAstray(removed))
     /\ at' = IF OnChain(at, sink) /\ OnChain(reached, at) THEN at ELSE reached
     /\ UNCHANGED <<nodeVars, boot, skip, budget>>
\* The answer carries the first n confirmed blocks: the window caps it, and a
\* block's score may leave its parent's far behind, so n may be 0.
Follow(n, run) ==
  LET removed == Removed(cp, sink)
      bs      == SubSeq(Confirmed(cp, sink), 1, n)
      txs     == SelectSeq(ChainTxs(bs), LAMBDA t : t.id \notin skip)
  IN FollowTo(Step(reg, removed, txs), removed, bs, run)

\* The pushes of the batch (Part E), after the commit.
Push ==
  /\ pc = "push"
  /\ pc' = "run" /\ due' = <<>>
  /\ UNCHANGED <<nodeVars, reg, cp, dirty, boot, skip, status, test, db, at, astray, budget>>

------------------------------------------------------------------------------
(* The REST bootstrap, when the checkpoint is pruned on the node. *)

\* The sink is read before the walk and becomes the checkpoint after it.
BootStart ==
  /\ pc = "run" /\ ~Reachable
  /\ pc' = "walk"
  /\ boot' = [boot EXCEPT !.sink = sink]
  /\ UNCHANGED <<nodeVars, reg, cp, dirty, skip, status, test, due, db, at, astray, budget>>

\* Tracked outputs that the node has no longer.
Spent == DOMAIN reg.utxos \ DOMAIN blocks[sink].utxos

\* Transactions of the first d chain blocks that spend one of them. REST may
\* lag behind the node, and does not serve what it cannot prove.
Spenders(d) ==
  SelectSeq(ChainTxs(SubSeq(blocks[sink].path, 1, d)),
            LAMBDA t : /\ t.id \notin boot.applied
                       /\ \E i \in DOMAIN t.ins : t.ins[i].op \in Spent)

\* Every input taken from the registry's or the price covenant is tracked
\* (an offer is no covenant output).
Ready(r, tx) ==
  \A i \in DOMAIN tx.ins :
    tx.ins[i].entry \in EntriesOf("offer") \/ tx.ins[i].op \in DOMAIN r.utxos

\* One round of walk: the spenders in chain order, each when it is ready.
Walked(d) ==
  FoldLeft(LAMBDA w, tx :
             IF ~Ready(w, tx) THEN w
             ELSE LET b == Apply([utxos |-> w.utxos, journal |-> w.journal], tx)
                  IN [utxos |-> b.utxos, journal |-> b.journal,
                      events |-> w.events \o b.events, applied |-> w.applied \cup {tx.id}],
           [utxos |-> reg.utxos, journal |-> reg.journal, events |-> boot.events,
            applied |-> boot.applied], Spenders(d))

WalkRound(d) ==
  /\ pc = "walk" /\ Spent # {}
  /\ \E w \in {Walked(d)} :
       /\ w.applied # boot.applied
       /\ reg' = [utxos |-> w.utxos, journal |-> w.journal]
       /\ boot' = [boot EXCEPT !.applied = w.applied, !.events = w.events]
  /\ UNCHANGED <<nodeVars, pc, cp, dirty, skip, status, test, due, db, at, astray, budget>>

\* The walk stops short, or a request fails: nothing is checkpointed, the
\* progress stays in memory and the status says why.
WalkStops(incomplete) ==
  LET st == [status EXCEPT !.synced = FALSE,
                           !.fatal = IF incomplete THEN "bootstrap_unresolved" ELSE "start_block_pruned"]
  IN /\ pc = "walk" /\ Spent # {}
     /\ pc' = "run"
     /\ incomplete \/ ~boot.incomplete
     /\ boot' = [boot EXCEPT !.incomplete = incomplete]
     /\ status' = st
     /\ db' = StatusSaved(db.refuted, db.cp, st)
     /\ UNCHANGED <<nodeVars, reg, cp, dirty, skip, test, due, at, astray, budget>>

\* No tracked output is spent: checkpoint at the sink read before the walk.
WalkDone ==
  LET st == [status EXCEPT !.synced = FALSE, !.fatal = "none", !.rebuilt = TRUE]
  IN /\ pc = "walk" /\ Spent = {}
     /\ pc' = "run"
     /\ cp' = boot.sink
     /\ skip' = boot.applied
     /\ db' = Persisted(reg, test.refuted, <<>>, boot.events, boot.sink, st)
     /\ dirty' = FALSE
     /\ status' = st
     /\ boot' = NoWalk
     /\ at' = sink
     /\ astray' = (astray \/ \E i \in DOMAIN reg.journal : ~OnChain(reg.journal[i].block, sink))
     /\ UNCHANGED <<nodeVars, reg, test, due, budget>>

------------------------------------------------------------------------------
(* Faults and the specification. *)

Crash ==
  /\ pc # "down" /\ budget.crash > 0
  /\ budget' = [budget EXCEPT !.crash = @ - 1]
  /\ pc' = "down"
  /\ reg' = [utxos |-> <<>>, journal |-> <<>>] /\ cp' = 0 /\ dirty' = FALSE
  /\ boot' = NoWalk /\ skip' = {} /\ status' = NoStatus /\ test' = NoTest /\ due' = <<>>
  /\ UNCHANGED <<nodeVars, db, at, astray>>

Pruning ==
  /\ budget.prune > 0
  /\ \E d \in 1 .. plan.blocks : Prune(d)
  /\ budget' = [budget EXCEPT !.prune = @ - 1]
  /\ UNCHANGED <<pc, reg, cp, dirty, boot, skip, status, test, due, db, at, astray>>

SwitchNode ==
  /\ budget.switch > 0
  /\ OtherNode
  /\ budget' = [budget EXCEPT !.switch = @ - 1]
  /\ UNCHANGED <<pc, reg, cp, dirty, boot, skip, status, test, due, db, at, astray>>

FollowSome == \E n \in 0 .. Len(Confirmed(cp, sink)), run \in BOOLEAN : Follow(n, run)
WalkSome == \E d \in 1 .. Depth(sink) : WalkRound(d)

Next ==
  \/ NewBlock /\ UNCHANGED followerVars
  \/ Pruning \/ SwitchNode \/ Crash
  \/ Start \/ Rewind \/ FollowSome \/ Push
  \/ BootStart \/ WalkSome \/ WalkStops(TRUE) \/ WalkStops(FALSE) \/ WalkDone

Spec == Init /\ [][Next]_vars

------------------------------------------------------------------------------
(* Properties. *)

Covenants(u) == [op \in {o \in DOMAIN u : u[o].kind # "offer"} |-> u[op]]

\* u is the registry of block b: its gaps, names and shards exactly; its offers
\* too, unless a REST bootstrap could not see them.
IsRegistryOf(u, b, rebuilt) ==
  /\ Covenants(u) = Covenants(blocks[b].utxos)
  /\ ~rebuilt => u = blocks[b].utxos

\* Whatever reorganisations, crashes, rewinds and bootstraps happened, the
\* registry in memory is the one the accepted transactions of the followed
\* chain make, unless one of the known exceptions (GoesAstray) occurred.
RegistryExact ==
  pc \in {"run", "push"} /\ ~astray /\ boot.applied = {} => IsRegistryOf(reg.utxos, at, status.rebuilt)

\* The committed tables always describe one block: a process that starts on
\* them, at any moment, continues with the registry of the chain it followed,
\* and the history has the rows of exactly the transactions of that chain, once.
TablesExact ==
  db.cp # NoBlock /\ ~astray =>
    LET rows  == {i \in DOMAIN db.history : TRUE}
        chain == Range(ChainTxs(blocks[at].path))
    IN /\ IsRegistryOf(db.utxos, at, db.status.rebuilt)
       /\ \A i, j \in rows : db.history[i] = db.history[j] => i = j
       /\ \A i \in rows : \E t \in chain : t.id = db.history[i].tx /\ t.block = db.history[i].block
       /\ \A t \in chain : (\E i \in rows : db.history[i].tx = t.id) \/ db.status.rebuilt

\* A clean self-test proves the registry to be the node's, even after one of
\* the exceptions and some confirmations behind the sink: every transaction
\* missed, or kept though it left the chain, shows as a row the node does not have.
CleanTestIsExact ==
  [][(\E n \in 0 .. Len(Confirmed(cp, sink)) : Follow(n, TRUE)) /\ status'.selfOk
       => Covenants(reg'.utxos) = Covenants(blocks[sink].utxos)]_vars

\* The registry or its history still has what block b did.
OnRecord(b) == JournalHasBlock(reg, b) \/ \E i \in DOMAIN db.history : db.history[i].block = b

\* Under fair scheduling and a REST service that catches up, the follower of a
\* node that stands still ends with every confirmed block of its chain applied,
\* every block off it undone, and everything written.
Settles ==
  plan.who = "names" =>
    <>[](/\ pc = "run" /\ ~dirty /\ db.cp = cp
         /\ Confirmed(cp, sink) = <<>>
         /\ \A b \in Range(Removed(cp, sink)) : ~OnRecord(b))

FollowAll == Follow(Len(Confirmed(cp, sink)), FALSE)

\* Weak fairness of the follower's one task and strong fairness of a round of
\* the walk that sees the whole chain (the REST service catches up in the end),
\* with ENABLED written out: a fetch finds something while a confirmed block is
\* still to apply, a removed one to undo, or the tables are not written.
Works == Start \/ Rewind \/ FollowAll \/ Push \/ BootStart
CanWork ==
  \/ pc \in {"down", "push"}
  \/ pc = "run" /\ (\/ ~Reachable \/ dirty \/ Confirmed(cp, sink) # <<>>
                  \/ \E b \in Range(Removed(cp, sink)) : OnRecord(b))
Walks == WalkRound(Depth(sink)) \/ WalkDone
Fairness ==
  /\ []<>(~CanWork) \/ []<><<Works>>_vars
  /\ <>[](pc # "walk") \/ []<><<Walks>>_vars
==============================================================================
