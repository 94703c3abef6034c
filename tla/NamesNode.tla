------------------------------ MODULE NamesNode ------------------------------
(***************************************************************************)
(* The node the followers read: the tree of chain blocks, the transactions *)
(* they accept and the outputs that are unspent after each of them. The    *)
(* registry's covenant scripts run on the node, so the transactions it     *)
(* accepts are the ones the contracts allow; they are modelled from how    *)
(* the engine decodes them (module NamesRegistry).                         *)
(*                                                                         *)
(* A transaction keeps its id when a reorganisation moves it to another    *)
(* accepting block. Block 0 is the manifest's scanFrom.                    *)
(***************************************************************************)
EXTENDS NamesRegistry

CONSTANT Plans   \* the bounds of an instance; a behaviour follows one of them:
                 \* [who, kinds, blocks, txs, perBlock, confirm, crash, prune, switch], the
                 \* follower that runs, the kinds of transactions people make, the blocks
                 \* after scanFrom, transactions, transactions per block, --min-confirmations,
                 \* and the faults

ASSUME PlanBounds ==
  \A p \in Plans : {p.blocks, p.txs, p.perBlock, p.confirm, p.crash, p.prune, p.switch} \subseteq Nat

VARIABLES blocks,   \* 0 .. n -> [path, txs, utxos]
          pool,     \* the transactions made so far, the id is the index
          sink,     \* the tip of the selected chain
          floor,    \* blocks of a lower depth are pruned
          plan      \* the bounds of this behaviour

nodeVars == <<blocks, pool, sink, floor, plan>>

Alice == "alice"
Bob == "bob"

GenesisUtxos ==
  (<<0, 1>> :> Gap(KeyLow, KeyHigh)) @@ (<<0, 2>> :> Shard(0, Alice, 1)) @@ (<<0, 3>> :> Shard(1, Alice, 1))

Depth(b) == Len(blocks[b].path)
OnChain(b, tip) == b = 0 \/ \E i \in DOMAIN blocks[tip].path : blocks[tip].path[i] = b

\* The selected chain from cp to tip: what leaves it, newest first, and what joins.
Removed(cp, tip) == Reverse(SelectSeq(blocks[cp].path, LAMBDA b : ~OnChain(b, tip)))
Added(cp, tip) == SelectSeq(blocks[tip].path, LAMBDA b : ~OnChain(b, cp))

\* The answer to a fetch trims the added blocks that have fewer than
\* min_confirmations on top, and never the removed ones.
Confirmed(cp, tip) == SelectSeq(Added(cp, tip), LAMBDA b : Depth(tip) - Depth(b) >= plan.confirm)

\* The last block of the chain of cp that the chain of tip shares.
Fork(cp, tip) == LET shared == SelectSeq(blocks[cp].path, LAMBDA b : OnChain(b, tip))
                 IN IF shared = <<>> THEN 0 ELSE Last(shared)

\* A transaction as accepted by block b.
AcceptedBy(b, id) == [pool[id] EXCEPT !.block = b]
Accepted(b) == [i \in DOMAIN blocks[b].txs |-> AcceptedBy(b, blocks[b].txs[i])]
ChainTxs(bs) == FlattenSeq([i \in DOMAIN bs |-> Accepted(bs[i])])

------------------------------------------------------------------------------
(* What the contracts let people do with the unspent outputs u. *)

In(op, entry, arg) == [op |-> op, entry |-> entry, ok |-> TRUE, arg |-> arg]
Out(state, auth, id) == [spk |-> state, cov |-> [auth |-> auth, id |-> id]]
\* Anyone may pay to the script of a registry state.
Payment(state) == [spk |-> state, cov |-> NoCov]
Body(ins, outs) == [id |-> 0, block |-> 0, ins |-> ins, outs |-> outs, offer |-> {}, profile |-> {}]

Of(u, kind) == {op \in DOMAIN u : u[op].kind = kind}
PriceShard(u) == CHOOSE op \in Of(u, "shard") : u[op].shard = 0

\* register reads the price record; import is the same without it.
Splitting(u) ==
  {LET name == Name(k, Alice, 0, 0, 1)
       arg  == [key |-> k, owner |-> Alice, start |-> 0, years |-> 1, valid |-> TRUE]
       gaps == Split(u[g], name)
       outs == <<Payment(name), Out(gaps[1], 1, "registry"), Out(gaps[2], 1, "registry"),
                 Out(name, 1, "registry")>>
   IN IF entry = "register"
      THEN Body(<<In(g, "register", arg), In(PriceShard(u), "use", <<>>)>>,
                Append(outs, Out(u[PriceShard(u)], 2, "price")))
      ELSE Body(<<In(g, "import", arg)>>, outs) :
   <<g, k, entry>> \in {x \in Of(u, "gap") \X Keys \X ({"register", "import"} \cap plan.kinds) :
                          u[x[1]].lo < x[2] /\ x[2] < u[x[1]].hi}}

\* transfer, list, buy, renew and extend continue the name.
Continuing(u) ==
  {Body(<<In(x[1], x[2].entry, x[2].arg)>>, <<Payment(x[2].to), Out(x[2].to, 1, "registry")>>) :
     x \in UNION {{n} \X {c \in {
                [entry |-> "transfer", arg |-> [owner |-> Bob], to |-> NameTransfer(u[n], Bob)],
                [entry |-> "buy", arg |-> [owner |-> Bob], to |-> NameTransfer(u[n], Bob)],
                [entry |-> "list", arg |-> [price |-> 1], to |-> NameList(u[n], 1)],
                [entry |-> "renew", arg |-> [years |-> 1], to |-> NameRenew(u[n], 1)],
                [entry |-> "extend", arg |-> [years |-> 1], to |-> NameExtend(u[n], 1)]} :
              c.entry \in plan.kinds /\ (c.entry = "buy" => u[n].price > 0)} : n \in Of(u, "name")}}

\* The exit of a name between its two gaps.
Releasing(u) ==
  {Body(<<In(x[1], "merge", <<>>), In(x[2], "release", <<>>), In(x[3], "absorbed", <<>>)>>,
        <<Out(MergeGaps(u[x[1]], u[x[3]]), 1, "registry")>>) :
     x \in {y \in Of(u, "gap") \X Of(u, "name") \X Of(u, "gap") :
              /\ "release" \in plan.kinds
              /\ u[y[1]].hi = u[y[2]].key /\ u[y[3]].lo = u[y[2]].key}}

\* An offer on a name, its acceptance (with the transfer) and its return.
Offering(u) ==
  {[Body(<<>>, <<Payment(Offer(u[n].key, Bob, u[n].owner))>>)
      EXCEPT !.offer = {[usable |-> TRUE, state |-> Offer(u[n].key, Bob, u[n].owner)]}] :
     n \in {m \in Of(u, "name") : "offer" \in plan.kinds}}
  \cup {Body(<<In(x[1], "transfer", [owner |-> Bob]), In(x[2], "accept", <<>>)>>,
             <<Out(NameTransfer(u[x[1]], Bob), 1, "registry")>>) :
          x \in {y \in Of(u, "name") \X Of(u, "offer") :
                   u[y[1]].key = u[y[2]].key /\ u[y[1]].owner = u[y[2]].seller}}
  \cup {Body(<<In(o, "decline", <<>>)>>, <<>>) : o \in Of(u, "offer")}

Pricing(u) ==
  IF "update" \notin plan.kinds THEN {}
  ELSE LET a == PriceShard(u)
           b == CHOOSE op \in Of(u, "shard") : u[op].shard = 1
       IN {Body(<<In(a, "update", [authority |-> Alice, price |-> u[a].price + 1]), In(b, "follow", <<>>)>>,
                <<Out(Shard(0, Alice, u[a].price + 1), 1, "price"),
                  Out(Shard(1, Alice, u[a].price + 1), 2, "price")>>)}

\* A profile record of each address; self: the address pays itself.
Profiling ==
  IF "profile" \notin plan.kinds THEN {}
  ELSE {[Body(<<>>, <<>>) EXCEPT !.profile = {[addr |-> a, self |-> s]}] : a \in {Alice}, s \in BOOLEAN}

NewTxs(u) ==
  Splitting(u) \cup Continuing(u) \cup Releasing(u) \cup Offering(u) \cup Pricing(u) \cup Profiling

------------------------------------------------------------------------------
(* Blocks. *)

Spendable(u, tx) == \A i \in DOMAIN tx.ins : tx.ins[i].op \in DOMAIN u

\* The unspent outputs the contracts know of after the transaction.
Ledger(u, tx) ==
  LET spent == {tx.ins[i].op : i \in DOMAIN tx.ins}
      made  == {i \in DOMAIN tx.outs : tx.outs[i].cov # NoCov \/ tx.offer # {}}
  IN [op \in (DOMAIN u \ spent) \cup {<<tx.id, i>> : i \in made} |->
        IF op[1] = tx.id THEN tx.outs[op[2]].spk ELSE u[op]]

\* Block n on parent, accepting the transactions ids of the pool in order.
Block(n, parent, ids, txs) ==
  [path |-> Append(blocks[parent].path, n), txs |-> ids,
   utxos |-> FoldLeft(Ledger, blocks[parent].utxos, txs)]

\* Transactions already in the pool that the chain of parent may accept.
Pending(parent) ==
  {id \in DOMAIN pool : /\ Spendable(blocks[parent].utxos, pool[id])
                        /\ \A i \in DOMAIN blocks[parent].path :
                             id \notin Range(blocks[blocks[parent].path[i]].txs)}

\* New transactions of a block on the outputs u, the second one on those the first leaves.
Fresh(u) ==
  LET made(v, id) == IF id <= plan.txs THEN {[t EXCEPT !.id = id] : t \in NewTxs(v)} ELSE {}
      first       == made(u, Len(pool) + 1)
  IN {<<>>} \cup {<<t>> : t \in first}
     \cup (IF plan.perBlock < 2 THEN {}
           ELSE UNION {{<<t, s>> : s \in made(Ledger(u, t), Len(pool) + 2)} : t \in first})

\* A new block on any block that is not pruned; it becomes the sink when its
\* chain is not shorter (blue work decides, the depth stands for it).
NewBlock ==
  LET n == Cardinality(DOMAIN blocks)
  IN /\ n <= plan.blocks
     /\ \E parent \in DOMAIN blocks :
          /\ Depth(parent) + 1 >= floor
          /\ OnChain(parent, sink) \/ Depth(parent) + 1 >= Depth(sink)
          /\ \E fresh \in Fresh(blocks[parent].utxos),
                old \in {<<>>} \cup {<<id>> : id \in Pending(parent)} :
               LET ids == old \o [i \in DOMAIN fresh |-> Len(pool) + i]
                   txs == [i \in DOMAIN old |-> pool[old[i]]] \o fresh
               IN /\ Len(ids) <= plan.perBlock
                  /\ \A i \in DOMAIN txs :
                       Spendable(FoldLeft(Ledger, blocks[parent].utxos, SubSeq(txs, 1, i - 1)), txs[i])
                  /\ pool' = pool \o fresh
                  /\ blocks' = blocks @@ (n :> Block(n, parent, ids, txs))
                  /\ sink' = IF Depth(parent) + 1 >= Depth(sink) THEN n ELSE sink
  /\ UNCHANGED <<floor, plan>>

\* The pruning point moves up the selected chain.
Prune(d) ==
  /\ floor < d /\ d <= Depth(sink)
  /\ floor' = d
  /\ UNCHANGED <<blocks, pool, sink, plan>>

\* The resolver's next node knows the same blocks and has pruned none of them;
\* its selected chain may lag behind or still be another one.
OtherNode ==
  /\ \E s \in DOMAIN blocks : sink' = s
  /\ floor' = 0
  /\ UNCHANGED <<blocks, pool, plan>>

NodeInit ==
  /\ plan \in Plans
  /\ blocks = (0 :> [path |-> <<>>, txs |-> <<>>, utxos |-> GenesisUtxos])
  /\ pool = <<>>
  /\ sink = 0
  /\ floor = 0
==============================================================================
