---------------------------- MODULE NamesRegistry ----------------------------
(***************************************************************************)
(* The engine of the .kachat names registry (crate kachat-names): what an  *)
(* accepted transaction does to the tracked outputs, and how the removal   *)
(* of a chain block undoes it.                                             *)
(*                                                                         *)
(* A tracked output is the contract state its script commits to; two       *)
(* outputs have the same script exactly if they carry the same state.      *)
(* Keys are the integers of Keys, ordered as the hashes of the names are.  *)
(* A transaction is                                                        *)
(*   id, block        its id and the chain block that accepted it          *)
(*   ins              [op, entry, ok, arg]: the outpoint, the entry that   *)
(*                    the dispatch tag names ("none": the signature script *)
(*                    does not decode or the tag is unknown), whether the  *)
(*                    arguments decode, and the arguments                  *)
(*   outs             [spk, cov]: the state, and the covenant binding      *)
(*   offer            the payload marker of an offer, or {}                *)
(* A registry is [utxos, journal].                                         *)
(***************************************************************************)
EXTENDS Integers, Sequences, FiniteSets, SequencesExt

CONSTANT Keys,      \* the hashes of the names, integers
         KeyLow,    \* the lower bound of the genesis gap
         KeyHigh    \* its upper bound

NoCov == [auth |-> 0, id |-> "none"]

Gap(lo, hi) == [kind |-> "gap", lo |-> lo, hi |-> hi]
Name(k, o, p, s, e) ==
  [kind |-> "name", key |-> k, owner |-> o, price |-> p, start |-> s, expires |-> e]
Offer(k, b, s) == [kind |-> "offer", key |-> k, buyer |-> b, seller |-> s]
Shard(n, a, p) == [kind |-> "shard", shard |-> n, authority |-> a, price |-> p]

\* The entries of each contract (Entry::contract and the per-contract tags).
EntriesOf(kind) ==
  CASE kind = "gap"   -> {"register", "import", "merge", "absorbed"}
    [] kind = "name"  -> {"transfer", "list", "buy", "renew", "extend", "release", "reclaim"}
    [] kind = "offer" -> {"accept", "withdraw", "refund", "decline"}
    [] kind = "shard" -> {"use", "update", "follow"}

------------------------------------------------------------------------------
(* The state an entry leads to (transition.rs). *)

NameTransfer(n, owner) == [n EXCEPT !.owner = owner, !.price = 0]
NameList(n, price) == [n EXCEPT !.price = price]
NameRenew(n, years) == [n EXCEPT !.start = n.expires, !.expires = n.expires + years]
NameExtend(n, years) == [n EXCEPT !.expires = n.expires + years]
MergeGaps(lo, hi) == Gap(lo.lo, hi.hi)

\* register and import split the gap at the key of the name.
Split(gap, n) == <<Gap(gap.lo, n.key), Gap(n.key, gap.hi)>>
RegisteredName(a) == Name(a.key, a.owner, 0, a.start, a.start + a.years)

------------------------------------------------------------------------------
(* Matching a predicted state with an output. *)

\* Mutant of FindOutput: the first output with the script, whatever binds it.
FindByScript(tx, state, used, auth, id) ==
  LET fits == {i \in DOMAIN tx.outs \ used : tx.outs[i].spk = state}
  IN IF fits = {} THEN 0 ELSE Min(fits)
\* 0, or the first unclaimed output with the script; once the node reports
\* any covenant of the transaction the binding has to match as well.
FindOutput(tx, state, used, auth, id) ==
  LET known == \E i \in DOMAIN tx.outs : tx.outs[i].cov # NoCov
      fits  == {i \in DOMAIN tx.outs \ used :
                  /\ tx.outs[i].spk = state
                  /\ known => tx.outs[i].cov = [auth |-> auth, id |-> id]}
  IN IF fits = {} THEN 0 ELSE Min(fits)

\* acc is what apply has built so far: [utxos, used, events].
Place(acc, tx, state, auth, id) ==
  LET i == FindOutput(tx, state, acc.used, auth, id)
  IN IF i = 0
     THEN acc
     ELSE [acc EXCEPT !.utxos = (<<tx.id, i>> :> state) @@ @,
                      !.used  = @ \cup {i}]

Emit(acc, tx, op, key, from, to) ==
  [acc EXCEPT !.events = Append(@, [op |-> op, key |-> key, tx |-> tx.id,
                                    block |-> tx.block, from |-> from, to |-> to])]

\* record_name: the event only if the output is there; from and to only
\* when the owner changes.
Recorded(acc, placed, tx, state, op, old) ==
  LET moved == old.owner # state.owner
  IN IF placed = acc
     THEN acc
     ELSE Emit(placed, tx, op, state.key,
               IF moved THEN {old.owner} ELSE {}, IF moved THEN {state.owner} ELSE {})
RecordName(acc, tx, state, auth, op, old) ==
  Recorded(acc, Place(acc, tx, state, auth, "registry"), tx, state, op, old)

------------------------------------------------------------------------------
(* The spends of one transaction, in input order:                          *)
(* [i, op, st, entry, ok, arg], st the state of the spent output.          *)

Spends(r, tx) ==
  LET mine == SelectSeq([i \in DOMAIN tx.ins |-> i],
                LAMBDA i : /\ tx.ins[i].op \in DOMAIN r.utxos
                           /\ tx.ins[i].entry \in EntriesOf(r.utxos[tx.ins[i].op].kind))
  IN [j \in DOMAIN mine |->
        [i |-> mine[j], op |-> tx.ins[mine[j]].op, st |-> r.utxos[tx.ins[mine[j]].op],
         entry |-> tx.ins[mine[j]].entry, ok |-> tx.ins[mine[j]].ok,
         arg |-> tx.ins[mine[j]].arg]]

Has(spends, entry) == \E j \in DOMAIN spends : spends[j].entry = entry
First(spends, entry) == spends[Min({j \in DOMAIN spends : spends[j].entry = entry})]

\* use continues unchanged; update rewrites every shard of the transaction,
\* each continuation authorized by that shard's own input.
PriceSpend(acc, tx, spends, s) ==
  CASE s.entry = "use" -> Place(acc, tx, s.st, s.i, "price")
    [] s.entry = "update" /\ s.ok /\ s.arg.price >= 0 ->
         LET shards == SelectSeq(spends, LAMBDA t : t.st.kind = "shard")
             moved  == FoldLeft(LAMBDA a, t : Place(a, tx,
                                   Shard(t.st.shard, s.arg.authority, s.arg.price), t.i, "price"),
                                acc, shards)
         IN IF moved.used = acc.used
            THEN acc
            ELSE Emit(moved, tx,
                      IF s.arg.price = s.st.price THEN "price_authority" ELSE "prices",
                      KeyLow, {s.st.authority}, {s.arg.authority})
    [] OTHER -> acc

ApplyPriceSpends(acc, tx, spends) ==
  FoldLeft(LAMBDA a, s : PriceSpend(a, tx, spends, s), acc, spends)

\* decline, withdraw and refund carry no name.
OfferExits(acc, tx, spends) ==
  FoldLeft(LAMBDA a, s : IF s.entry \in {"decline", "withdraw", "refund"}
                         THEN Emit(a, tx, "offer_" \o s.entry, s.st.key, {s.st.seller}, {s.st.buyer})
                         ELSE a, acc, spends)

\* The two gaps around a released or reclaimed name collapse into one.
ApplyMerge(acc, tx, spends) ==
  LET lo  == First(spends, "merge")
      gap == IF Has(spends, "absorbed")
             THEN Place(acc, tx, MergeGaps(lo.st, First(spends, "absorbed").st), lo.i, "registry")
             ELSE acc
  IN FoldLeft(LAMBDA a, s : IF s.st.kind = "name"
                            THEN Emit(a, tx, IF s.entry = "reclaim" THEN "reclaim" ELSE "release",
                                      s.st.key, {s.st.owner}, {})
                            ELSE a, gap, spends)

\* apply_register and apply_import: both gaps are recorded as found, the name
\* with its event. arg.valid: is_valid_name.
ApplySplit(acc, tx, spends, entry) ==
  LET s    == First(spends, entry)
      name == RegisteredName(s.arg)
      gaps == FoldLeft(LAMBDA a, g : Place(a, tx, g, s.i, "registry"), acc, Split(s.st, name))
      all  == Place(gaps, tx, name, s.i, "registry")
  IN CASE ~s.ok \/ ~s.arg.valid -> acc
       [] all = gaps            -> gaps
       [] OTHER                 -> Emit(all, tx, entry, name.key, {}, {name.owner})

\* transfer, list, buy, renew, extend, and an offer accepted without a
\* transfer in the same transaction.
Continuation(acc, tx, spends, s) ==
  LET name == CHOOSE n \in {acc.utxos[op] : op \in DOMAIN acc.utxos} :
                n.kind = "name" /\ n.key = s.st.key
      held == \E op \in DOMAIN acc.utxos : acc.utxos[op].kind = "name" /\ acc.utxos[op].key = s.st.key
  IN CASE s.entry = "buy" /\ s.ok ->
            RecordName(acc, tx, NameTransfer(s.st, s.arg.owner), s.i, "sale", s.st)
       [] s.entry = "transfer" /\ s.ok ->
            RecordName(acc, tx, NameTransfer(s.st, s.arg.owner), s.i,
                       IF Has(spends, "accept") THEN "offer_accepted" ELSE "transfer", s.st)
       [] s.entry = "list" /\ s.ok ->
            RecordName(acc, tx, NameList(s.st, s.arg.price), s.i,
                       IF s.arg.price = 0 THEN "delist" ELSE "list", s.st)
       [] s.entry = "renew" /\ s.ok ->
            RecordName(acc, tx, NameRenew(s.st, s.arg.years), s.i, "renew", s.st)
       [] s.entry = "extend" /\ s.ok ->
            RecordName(acc, tx, NameExtend(s.st, s.arg.years), s.i, "extend", s.st)
       [] s.entry = "accept" /\ ~Has(spends, "transfer") /\ held ->
            RecordName(acc, tx, NameTransfer(name, s.st.buyer), s.i, "offer_accepted", name)
       [] OTHER -> acc

ApplyNames(acc, tx, spends) ==
  CASE Has(spends, "merge")    -> ApplyMerge(acc, tx, spends)
    [] Has(spends, "register") -> ApplySplit(acc, tx, spends, "register")
    [] Has(spends, "import")   -> ApplySplit(acc, tx, spends, "import")
    [] OTHER -> FoldLeft(LAMBDA a, s : Continuation(a, tx, spends, s), acc, spends)
ApplySpends(acc, tx, spends) ==
  ApplyNames(OfferExits(ApplyPriceSpends(acc, tx, spends), tx, spends), tx, spends)

\* The payload marker of an offer counts only with an output of that state
\* that carries no covenant. usable: the keys can sign, the time is not negative.
OfferMarker(acc, tx) ==
  LET made == {i \in DOMAIN tx.outs : /\ tx.outs[i].cov = NoCov
                                      /\ \E m \in tx.offer : m.usable /\ m.state = tx.outs[i].spk}
      at   == Min(made)
      off  == tx.outs[at].spk
  IN IF made = {}
     THEN acc
     ELSE Emit([acc EXCEPT !.utxos = (<<tx.id, at>> :> off) @@ @],
               tx, "offer", off.key, {off.seller}, {off.buyer})

\* The journal gets an entry whenever an output was added or consumed.
Journaled(r, tx, acc, removed) ==
  LET utxos == [op \in DOMAIN acc.utxos \ DOMAIN removed |-> acc.utxos[op]]
      added == DOMAIN utxos \ DOMAIN r.utxos
      entry == [block |-> tx.block, tx |-> tx.id, added |-> added, removed |-> removed]
  IN [utxos   |-> utxos,
      journal |-> IF added \cup DOMAIN removed = {} THEN r.journal ELSE Append(r.journal, entry),
      events  |-> acc.events]
ApplyWith(r, tx, marked, spends) ==
  Journaled(r, tx, IF spends = <<>> THEN marked ELSE ApplySpends(marked, tx, spends),
            [op \in {spends[j].op : j \in DOMAIN spends} |-> r.utxos[op]])
\* apply: the registry after the transaction and its events.
Apply(r, tx) ==
  ApplyWith(r, tx, OfferMarker([utxos |-> r.utxos, used |-> {}, events |-> <<>>], tx), Spends(r, tx))

------------------------------------------------------------------------------
(* Reorganisations. *)

UndoEntry(e, utxos) == e.removed @@ [op \in DOMAIN utxos \ e.added |-> utxos[op]]

\* undo_block: the entries of the block leave the journal and are reversed,
\* newest first.
UndoBlock(r, block) ==
  [utxos   |-> FoldRight(UndoEntry, SelectSeq(r.journal, LAMBDA e : e.block = block), r.utxos),
   journal |-> SelectSeq(r.journal, LAMBDA e : e.block # block)]

PruneJournal(r, keep) ==
  [r EXCEPT !.journal = IF Len(@) > keep THEN SubSeq(@, Len(@) - keep + 1, Len(@)) ELSE @]

JournalHasBlock(r, block) == \E j \in DOMAIN r.journal : r.journal[j].block = block
==============================================================================
