-------------------------- MODULE ProfilesFollower --------------------------
(***************************************************************************)
(* kachat-names-follower --profiles: the newest profile record of every    *)
(* address on the chain. A batch is applied and committed in one step. The *)
(* undo journal lives in memory only.                                      *)
(***************************************************************************)
EXTENDS NamesNode

CONSTANTS KeepEntries,          \* undo entries that prune_journal keeps
          PrunedConfirmations   \* failed fetches before the checkpoint is given up

ASSUME ProfilesBounds == {KeepEntries, PrunedConfirmations} \subseteq Nat

VARIABLES task,       \* "down" or "run"
          profiles,   \* address -> the order <<daa, txid>> of its newest record
          journal,    \* undo entries: [block, addr, prior], prior {} or {order}
          anchor,     \* follower.checkpoint
          streak,     \* pruned_streak
          store,      \* [network, cp, profiles, saves], the tables
          upto,       \* history: the block whose records the tables should hold
          unsure,     \* history: "journal", a reorganisation that the journal did not
                      \* cover; "gap", blocks of the chain were skipped; "back", undone
                      \* blocks are on the chain again below a checkpoint that stayed
          faults      \* bounds on what can still go wrong

profileVars == <<task, profiles, journal, anchor, streak, store, upto, unsure, faults>>
allProfileVars == <<nodeVars, profileVars>>

NoAnchor == -1
EmptyStore == [network |-> "none", cp |-> NoAnchor, profiles |-> <<>>, saves |-> {}]

InitProfiles ==
  /\ NodeInit
  /\ task = "down" /\ profiles = <<>> /\ journal = <<>> /\ anchor = 0 /\ streak = 0
  /\ store = EmptyStore /\ upto = 0 /\ unsure = {}
  /\ faults = [crash |-> plan.crash, prune |-> plan.prune, switch |-> plan.switch]

Older(o, p) == o[1] < p[1] \/ (o[1] = p[1] /\ o[2] < p[2])
Order(tx) == <<Depth(tx.block), tx.id>>

------------------------------------------------------------------------------
(* The engine: apply_profile_only and undo_block. *)

\* A valid record on a self-send that is newer than the one held; prior is
\* what the undo entry keeps.
Accepts(st, tx) ==
  \E r \in tx.profile : /\ r.self
                        /\ r.addr \in DOMAIN st.profiles => Older(st.profiles[r.addr], Order(tx))

ApplyProfile(st, tx) ==
  LET r == CHOOSE x \in tx.profile : TRUE
  IN IF ~Accepts(st, tx)
     THEN st
     ELSE [profiles |-> (r.addr :> Order(tx)) @@ st.profiles,
           journal  |-> Append(st.journal,
                          [block |-> tx.block, addr |-> r.addr,
                           prior |-> IF r.addr \in DOMAIN st.profiles THEN {st.profiles[r.addr]} ELSE {}]),
           saved    |-> st.saved \cup {[tx |-> tx.id, block |-> tx.block, addr |-> r.addr]}]

\* Mutant of UndoProfile: the record before is not restored.
UndoByRemoval(e, held) == [a \in DOMAIN held \ {e.addr} |-> held[a]]
UndoProfile(e, held) ==
  IF e.prior = {}
  THEN [a \in DOMAIN held \ {e.addr} |-> held[a]]
  ELSE (e.addr :> CHOOSE o \in e.prior : TRUE) @@ held

UndoProfiles(st, block) ==
  [st EXCEPT !.profiles = FoldRight(UndoProfile, SelectSeq(st.journal, LAMBDA e : e.block = block), @),
             !.journal  = SelectSeq(@, LAMBDA e : e.block # block)]

\* step_profiles.
StepProfiles(removed, txs) ==
  LET undone  == FoldLeft(UndoProfiles, [profiles |-> profiles, journal |-> journal, saved |-> {}], removed)
      applied == FoldLeft(ApplyProfile, undone, txs)
      n       == Len(applied.journal)
  IN [applied EXCEPT !.journal = IF n > KeepEntries THEN SubSeq(@, n - KeepEntries + 1, n) ELSE @]

------------------------------------------------------------------------------
(* The task. *)

\* load_state: another network's tables are wiped. The profiles are loaded,
\* the journal starts empty; without a checkpoint the scan starts at the
\* configured block, or at the pruning point when the node has pruned that.
ScanStart == IF floor = 0 THEN 0 ELSE blocks[sink].path[floor]
LoadState == IF store.network = "ours" THEN store ELSE [EmptyStore EXCEPT !.network = "ours"]

StartProfiles ==
  /\ task = "down"
  /\ task' = "run"
  /\ store' = LoadState
  /\ profiles' = LoadState.profiles /\ journal' = <<>>
  /\ anchor' = IF LoadState.cp = NoAnchor THEN ScanStart ELSE LoadState.cp
  /\ upto' = IF LoadState.cp = NoAnchor THEN ScanStart ELSE upto
  /\ unsure' = unsure \cup (IF LoadState.cp = NoAnchor /\ ScanStart # 0 THEN {"gap"} ELSE {})
  /\ UNCHANGED <<nodeVars, streak, faults>>

\* delete_saves: the rows of removed blocks go.
KeptSaves(removed) == {r \in store.saves : r.block \notin Range(removed)}

\* A batch: removed blocks undone, records applied, the rows of removed
\* blocks deleted, the saved ones and the profiles that differ written. A
\* row of profile_saves is unique per transaction (ON CONFLICT DO NOTHING).
\* Without an added block the checkpoint stays, also on a removed block.
FollowProfiles(n) ==
  LET removed == Removed(anchor, sink)
      bs      == SubSeq(Confirmed(anchor, sink), 1, n)
      st      == StepProfiles(removed, ChainTxs(bs))
      tip     == IF bs = <<>> THEN anchor ELSE Last(bs)
      kept    == KeptSaves(removed)
  IN /\ task = "run" /\ Depth(anchor) >= floor
     /\ profiles' = st.profiles /\ journal' = st.journal
     /\ anchor' = tip /\ streak' = 0
     /\ store' = [store EXCEPT !.cp = tip, !.profiles = st.profiles,
                    !.saves = kept \cup {r \in st.saved : \A k \in kept : k.tx # r.tx}]
     /\ upto' = IF bs = <<>> THEN Fork(anchor, sink) ELSE tip
     /\ unsure' = unsure \cup
                   {w \in {"journal"} : \E b \in Range(removed) :
                      Len(SelectSeq(journal, LAMBDA e : e.block = b))
                        < Cardinality({r \in store.saves : r.block = b})}
                   \cup {w \in {"back"} : ~OnChain(Fork(anchor, sink), upto)}
     /\ UNCHANGED <<nodeVars, task, faults>>

\* A fetch from a pruned checkpoint fails; after PrunedConfirmations of them
\* in a row the follower goes on from the pruning point.
FetchFails ==
  /\ task = "run" /\ Depth(anchor) < floor
  /\ streak + 1 < PrunedConfirmations
  /\ streak' = streak + 1
  /\ UNCHANGED <<nodeVars, task, profiles, journal, anchor, store, upto, unsure, faults>>

ReAnchor ==
  LET point == blocks[sink].path[floor]
  IN /\ task = "run" /\ Depth(anchor) < floor
     /\ streak + 1 >= PrunedConfirmations
     /\ streak' = 0
     /\ anchor' = point
     /\ store' = [store EXCEPT !.cp = point]
     /\ upto' = point
     /\ unsure' = unsure \cup {"gap"}
     /\ UNCHANGED <<nodeVars, task, profiles, journal, faults>>

CrashProfiles ==
  /\ task = "run" /\ faults.crash > 0
  /\ faults' = [faults EXCEPT !.crash = @ - 1]
  /\ task' = "down"
  /\ profiles' = <<>> /\ journal' = <<>> /\ anchor' = 0 /\ streak' = 0
  /\ UNCHANGED <<nodeVars, store, upto, unsure>>

PruningProfiles ==
  /\ faults.prune > 0
  /\ \E d \in 1 .. plan.blocks : Prune(d)
  /\ faults' = [faults EXCEPT !.prune = @ - 1]
  /\ UNCHANGED <<task, profiles, journal, anchor, streak, store, upto, unsure>>

SwitchProfilesNode ==
  /\ faults.switch > 0
  /\ OtherNode
  /\ faults' = [faults EXCEPT !.switch = @ - 1]
  /\ UNCHANGED <<task, profiles, journal, anchor, streak, store, upto, unsure>>

FollowSomeProfiles == \E n \in 0 .. Len(Confirmed(anchor, sink)) : FollowProfiles(n)

NextProfiles ==
  \/ NewBlock /\ UNCHANGED profileVars
  \/ PruningProfiles \/ SwitchProfilesNode \/ CrashProfiles \/ StartProfiles \/ FollowSomeProfiles \/ FetchFails \/ ReAnchor

SpecProfiles == InitProfiles /\ [][NextProfiles]_allProfileVars

------------------------------------------------------------------------------
(* Properties. *)

\* The records on the chain of block b.
Records(b) == {t \in Range(ChainTxs(blocks[b].path)) : \E r \in t.profile : r.self}

\* The tables hold, for every address, the newest record of the followed chain
\* (up to the checkpoint, or the fork below a checkpoint that was removed), and
\* a row for every record of it: reorganisations are rolled back, except one
\* whose blocks the journal no longer holds (it is not persisted), what a
\* pruned checkpoint skipped, and blocks that came back below a checkpoint that
\* stayed. Without a skip no row of profile_saves ever names a block that has
\* left the chain.
ProfilesExact ==
  store.cp # NoAnchor =>
    /\ unsure = {} =>
         /\ DOMAIN store.profiles = {r.addr : r \in UNION {t.profile : t \in Records(upto)}}
         /\ \A a \in DOMAIN store.profiles :
              /\ \E t \in Records(upto) : Order(t) = store.profiles[a] /\ \E r \in t.profile : r.addr = a
              /\ \A t \in Records(upto) : (\E r \in t.profile : r.addr = a) => ~Older(store.profiles[a], Order(t))
         /\ {r.tx : r \in store.saves} = {t.id : t \in Records(upto)}
    /\ "gap" \notin unsure => \A r \in store.saves : OnChain(r.block, upto)
==============================================================================
