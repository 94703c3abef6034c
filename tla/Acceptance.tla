----------------------------- MODULE Acceptance -----------------------------
(***************************************************************************)
(* How kasia-indexer learns who sent a message and which chain block       *)
(* accepted it: handle_transaction of BlockProcessor (block_processor.rs), *)
(* handle_vcc_addition, handle_vcc_removal and handle_sender_address of    *)
(* VirtualProcessor (virtual_chain_processor.rs) and DataSource's          *)
(* RequestSender (data_source.rs), over the acceptance rows                *)
(* (tx_id_to_acceptance.rs), the pending senders and the stored messages.  *)
(*                                                                         *)
(* The seven message kinds store the same three things: the sealed         *)
(* payload, a row per block the transaction was seen in that carries the   *)
(* sender, and a deferred entry when the sender is not known yet.  Only    *)
(* group messages do more, the check of the sender against the group.      *)
(*                                                                         *)
(* Every transaction of the model carries a sealed operation that the      *)
(* index stores, every output pays a standard address, and a block holds   *)
(* at most one of them.                                                    *)
(***************************************************************************)
EXTENDS Integers, Sequences, FiniteSets

CONSTANTS
    Txs,      \* sealed-operation transactions
    Blocks,   \* blocks
    ChainBlocks, \* the blocks that may become chain blocks
    Addrs,    \* addresses
    Groups,   \* blinded group ids
    NoTx, NoBlock, NoAddr, NoGroup,
    Where,    \* the blocks each transaction is in
    Accepts,  \* the transactions each chain block accepts
    Parent,   \* the transaction whose output 0 the first input spends, or NoTx
    Outs,     \* the addresses of the outputs, in order
    From,     \* the owner of the first input
    Group,    \* the group of a group message, or NoGroup
    Pub,      \* the sender a group message names
    Daa,      \* the DAA score of a block, by which pending senders are keyed
    Changes,  \* bound: virtual chain changes
    Budget    \* bound: how often each fault may happen

FaultKinds == {"rpc", "crash"}

\* A message row that is not there, and one without its sender.
Absent  == "absent"
Unknown == "unknown"

ASSUME AcceptanceConstants ==
    /\ NoTx \notin Txs /\ NoBlock \notin Blocks /\ NoAddr \notin Addrs /\ NoGroup \notin Groups
    /\ IsFiniteSet(Addrs) /\ Absent \notin Addrs /\ Unknown \notin Addrs
    /\ ChainBlocks \subseteq Blocks
    /\ Where \in [Txs -> SUBSET Blocks]
    /\ Accepts \in [Blocks -> SUBSET Txs]
    /\ Parent \in [Txs -> Txs \cup {NoTx}]
    /\ Outs \in [Txs -> Seq(Addrs)] /\ \A t \in Txs : Outs[t] # <<>>
    /\ From \in [Txs -> Addrs]
    /\ \A t \in Txs : Parent[t] # NoTx => From[t] = Outs[Parent[t]][1]
    /\ Group \in [Txs -> Groups \cup {NoGroup}] /\ Pub \in [Txs -> Addrs]
    /\ \A t, u \in Txs : t # u => Where[t] \cap Where[u] = {}
    /\ Daa \in [Blocks -> Nat] /\ Changes \in Nat
    /\ Budget \in [FaultKinds -> Nat]

VARIABLES
    rows,     \* DB: tx_id_to_acceptance, per transaction and receiver
    owner0,   \* DB: tx_output0_owner
    stored,   \* DB: the message rows, per transaction and block: their sender
    binding,  \* DB: group_sender_binding
    pending,  \* DB: pending_senders
    tracked,  \* DB: accepting_block_to_tx_id
    chain,    \* node and VirtualProcessor: the chain blocks
    requests, \* RequestSender commands on their way or parked
    answers,  \* SenderResolution messages on their way
    ok,       \* FALSE once an assert! has failed
    seen,     \* DB: block_compact_headers, the processed blocks
    changes,  \* virtual chain changes so far
    used,     \* faults so far
    late      \* history: transactions seen after a chain block had accepted them

dbVars == <<rows, owner0, stored, binding, pending, tracked, seen>>
vars   == <<dbVars, chain, requests, answers, ok, changes, used, late>>

NoRow == [on |-> FALSE, hdr |-> NoBlock, ents |-> {}]
Row(hdr, ents) == [on |-> TRUE, hdr |-> hdr, ents |-> ents]
Entries(t, a) == rows[t][a].ents

\* The receivers under which a transaction has an acceptance row; key_by_tx_id
\* asserts that there is at most one.
Keys(t) == {a \in Addrs : rows[t][a].on}
OneKey(t) == Cardinality(Keys(t)) <= 1
KeyOf(t) == CHOOSE a \in Keys(t) : TRUE

Init ==
    /\ rows = [t \in Txs |-> [a \in Addrs |-> NoRow]]
    /\ owner0 = [t \in Txs |-> NoAddr]
    /\ stored = [t \in Txs |-> [b \in Blocks |-> Absent]]
    /\ binding = [g \in Groups |-> NoAddr]
    /\ pending = {} /\ tracked = [b \in Blocks |-> {}]
    /\ chain = {} /\ requests = {} /\ answers = {} /\ ok = TRUE
    /\ seen = {} /\ changes = 0
    /\ used = [k \in FaultKinds |-> 0] /\ late = {}

Fault(k) == /\ used[k] < Budget[k]
            /\ used' = [used EXCEPT ![k] = @ + 1]

-----------------------------------------------------------------------------
(* BlockProcessor.                                                         *)

\* Mutant of Output0Owner: the recorded owner of the change is not looked up.
Output0OwnerReceiver(t) == KeyOf(t)

\* output0_owner: the recorded owner, otherwise the receiver.
Output0Owner(t) == IF owner0[t] # NoAddr THEN owner0[t] ELSE KeyOf(t)

\* The sender as far as the block tells: the owner of output 0 of an indexed
\* parent.
LocalSender(t) ==
    IF Parent[t] # NoTx /\ Keys(Parent[t]) # {} THEN Output0Owner(Parent[t]) ELSE Unknown

\* resolve_primary_receiver: the first output that does not pay the sender.
Receiver(t, sender) ==
    LET others == {i \in DOMAIN Outs[t] : sender # Unknown /\ Outs[t][i] # sender}
    IN  IF others = {} THEN Outs[t][1]
        ELSE Outs[t][CHOOSE i \in others : \A j \in others : i <= j]

\* Mutant of Admits: any named sender may write to a bound group.
AdmitsUnbound(t, sender) == Group[t] = NoGroup \/ sender = Pub[t]

\* A group message is from the sender it names, and a group has one sender.
Admits(t, sender) ==
    Group[t] = NoGroup \/ (sender = Pub[t] /\ binding[Group[t]] \in {NoAddr, sender})

Bind(t) == IF Group[t] = NoGroup THEN binding ELSE [binding EXCEPT ![Group[t]] = Pub[t]]

\* The owner of output 0 is noted when it is not the receiver.
RecordedOwner(t, receiver) == IF Outs[t][1] # receiver THEN Outs[t][1] ELSE owner0[t]

\* handle_transaction: with a known sender the message is stored at once, without
\* one it is stored with an entry to be resolved; the acceptance row is written
\* in every case.
HandleTransaction(t, b) ==
    LET sender   == LocalSender(t)
        receiver == Receiver(t, sender)
        admitted == sender = Unknown \/ Admits(t, sender)
        ents     == IF sender = Unknown THEN {b} ELSE {}
        old      == rows[t][receiver]
    IN  /\ rows' = [rows EXCEPT ![t][receiver] =
                      Row(old.hdr, old.ents \cup ents)]
        /\ owner0' = [owner0 EXCEPT ![t] = RecordedOwner(t, receiver)]
        /\ stored' = IF admitted THEN [stored EXCEPT ![t][b] = sender] ELSE stored
        /\ binding' = IF admitted /\ sender # Unknown THEN Bind(t) ELSE binding

\* handle_block: a block that is not yet processed, by a notification or by a gap
\* filler.
HandleBlock(t, b) ==
    /\ ok /\ b \in Where[t] \ seen
    /\ IF Parent[t] # NoTx /\ ~OneKey(Parent[t])
         THEN ok' = FALSE /\ UNCHANGED <<seen, rows, owner0, stored, binding, late>>
         ELSE /\ HandleTransaction(t, b)
              /\ seen' = seen \cup {b}
              /\ late' = IF \E c \in chain : t \in Accepts[c] THEN late \cup {t} ELSE late
              /\ UNCHANGED ok
    /\ UNCHANGED <<pending, tracked, chain, requests, answers, changes, used>>

-----------------------------------------------------------------------------
(* VirtualProcessor.                                                       *)

\* A removal withdraws the pending sender of a transaction with open entries.
StillPending(rem) ==
    {p \in pending : ~ \E c \in rem : /\ p[1] = Daa[c] /\ p[2] \in tracked[c]
                                  /\ Entries(p[2], KeyOf(p[2])) # {}}

\* The transactions an added block accepts that are known to the index.
Known(c) == {t \in Accepts[c] : Keys(t) # {}}

\* Mutant of Asked: a transaction that has an accepting block was asked before.
AskedOnce(add) ==
    UNION {{<<Daa[c], t>> : t \in {u \in Known(c) : /\ Entries(u, KeyOf(u)) # {}
                                                  /\ rows[u][KeyOf(u)].hdr = NoBlock}} : c \in add}

\* The senders an addition asks for: of every transaction with open entries.
Asked(add) ==
    UNION {{<<Daa[c], t>> : t \in {u \in Known(c) : Entries(u, KeyOf(u)) # {}}} : c \in add}

\* Where the header of an acceptance row points after the change: additions come
\* last; a removal rewrites the header with the removed block.
NewHeader(t, old, rem, add) ==
    CASE \E c \in add : t \in Accepts[c] -> CHOOSE c \in add : t \in Accepts[c]
      [] (\A c \in add : t \notin Accepts[c]) /\ (\E c \in rem : t \in tracked[c]) ->
           CHOOSE c \in rem : t \in tracked[c]
      [] OTHER -> old

\* handle_vcc / handle_vc_resp: all removals, then all additions, one commit.
VirtualChainChange(rem, add) ==
    /\ ok /\ changes < Changes
    /\ changes' = changes + 1
    /\ \A c, d \in (chain \ rem) \cup add : c # d => Accepts[c] \cap Accepts[d] = {}
    /\ IF \/ \E c \in rem : \E t \in tracked[c] : ~OneKey(t)
          \/ \E c \in add : \E t \in Accepts[c] : ~OneKey(t)
         THEN ok' = FALSE /\ UNCHANGED <<rows, pending, tracked, requests, chain>>
         ELSE /\ chain' = (chain \ rem) \cup add
              /\ rows' = [t \in Txs |-> [a \in Addrs |->
                   IF ~rows[t][a].on THEN NoRow
                   ELSE Row(NewHeader(t, rows[t][a].hdr, rem, add), Entries(t, a))]]
              /\ pending' = StillPending(rem) \cup Asked(add)
              /\ requests' = requests \cup Asked(add)
              /\ tracked' = [c \in Blocks |-> IF c \in add THEN Known(c)
                                              ELSE IF c \in rem THEN {} ELSE tracked[c]]
              /\ UNCHANGED ok
    /\ UNCHANGED <<owner0, stored, binding, seen, answers, used, late>>

\* The message rows that wait for the sender.
Deferred(t) == Entries(t, KeyOf(t))

\* handle_sender_address: every entry of the row gets the sender; a group message
\* that is not admitted is removed.
SenderResolution(d, t) ==
    /\ ok /\ <<d, t>> \in answers
    /\ answers' = answers \ {<<d, t>>}
    /\ IF ~OneKey(t) THEN ok' = FALSE /\ UNCHANGED <<rows, stored, binding, pending>>
       ELSE LET open     == Deferred(t)
                admitted == open # {} /\ Admits(t, From[t])
            IN  /\ pending' = pending \ {<<d, t>>}
                /\ rows' = [rows EXCEPT ![t][KeyOf(t)] = Row(@.hdr, {})]
                /\ stored' = [stored EXCEPT ![t] =
                                [b \in Blocks |-> IF b \notin open THEN @[b]
                                                  ELSE IF admitted THEN From[t] ELSE Absent]]
                /\ binding' = IF admitted THEN Bind(t) ELSE binding
                /\ UNCHANGED ok
    /\ UNCHANGED <<owner0, tracked, seen, chain, requests, changes, used, late>>

-----------------------------------------------------------------------------
(* DataSource and the node.                                                *)

\* A chain block of this DAA score accepts the transaction.
Accepted(d, t) == \E c \in chain : Daa[c] = d /\ t \in Accepts[c]

\* GetUtxoReturnAddress answers for a transaction accepted at the DAA score.
AnswerSender(d, t) ==
    /\ <<d, t>> \in requests /\ Accepted(d, t)
    /\ requests' = requests \ {<<d, t>>}
    /\ answers' = answers \cup {<<d, t>>}
    /\ UNCHANGED <<dbVars, chain, ok, changes, used, late>>

\* It fails once the block has left the chain, or for another reason (a node that
\* is ahead or behind): the error is logged and the request is gone.
RefuseSender(d, t) ==
    /\ <<d, t>> \in requests
    /\ IF Accepted(d, t) THEN Fault("rpc") ELSE UNCHANGED used
    /\ requests' = requests \ {<<d, t>>}
    /\ UNCHANGED <<dbVars, chain, answers, ok, changes, late>>

\* Mutant of Resumed: a restart does not ask again.
ResumedNothing == {}

\* handle_connect asks for every pending sender again.
Resumed == pending

\* The process is started again; the database is left.
Restart ==
    /\ Fault("crash")
    /\ requests' = Resumed /\ answers' = {} /\ ok' = TRUE
    /\ UNCHANGED <<dbVars, chain, changes, late>>

-----------------------------------------------------------------------------
Daas == {Daa[c] : c \in ChainBlocks}

AnswerNext == \E d \in Daas, t \in Txs : AnswerSender(d, t) \/ RefuseSender(d, t)
ResolveNext == \E d \in Daas, t \in Txs : SenderResolution(d, t)
ChangeNext == \E rem \in SUBSET chain, add \in SUBSET (ChainBlocks \ chain) :
                add # {} /\ VirtualChainChange(rem, add)

Next == \/ \E t \in Txs, b \in Blocks : HandleBlock(t, b)
        \/ ChangeNext \/ ResolveNext \/ AnswerNext \/ Restart

Spec == Init /\ [][Next]_vars

(* DataSource works off its commands and VirtualProcessor its messages.    *)
Fairness == /\ \A d \in Daas, t \in Txs :
                 WF_vars(AnswerSender(d, t)) /\ WF_vars(SenderResolution(d, t))

FairSpec == Spec /\ Fairness

-----------------------------------------------------------------------------
(* Properties.                                                             *)

\* A stored sender is the owner of the first input, whichever path found it: the
\* parent's output 0 or the node.
SenderTrue == \A t \in Txs, b \in Blocks : stored[t][b] \in Addrs => stored[t][b] = From[t]

\* Every message of a group carries the one sender the group is bound to, on both
\* paths.
GroupHasOneSender ==
    \A t \in Txs, b \in Blocks : Group[t] # NoGroup /\ stored[t][b] \in Addrs =>
      stored[t][b] = Pub[t] /\ binding[Group[t]] = Pub[t]

\* A message of an accepted transaction that waits for its sender has a pending
\* row, from which a restart asks again.  Except for a transaction that was seen
\* after its acceptance. And a message without its sender still has the entry that
\* will bring it.
OpenIsPending ==
    /\ \A t \in Txs \ late : \A c \in chain : t \in Accepts[c] =>
         \A a \in Keys(t) : Entries(t, a) # {} => <<Daa[c], t>> \in pending
    /\ \A t \in Txs, b \in Blocks :
         stored[t][b] = Unknown => \E a \in Keys(t) : b \in Entries(t, a)

\* A transaction has one acceptance row: the assert! of key_by_tx_id holds.
OneRow == ok /\ \A t \in Txs : OneKey(t)

Stays(t) == \E c \in chain : t \in Accepts[c]

\* A message waiting for its sender gets it as long as its transaction stays
\* accepted, over restarts; unless it was seen after the acceptance, the node
\* refused to answer, or the transaction has two rows (ok).
SenderArrives ==
    \A t \in Txs, b \in Blocks :
      stored[t][b] = Unknown /\ Stays(t) ~>
        \/ stored[t][b] # Unknown \/ ~Stays(t)
        \/ t \in late \/ used["rpc"] > 0 \/ ~ok
=============================================================================
