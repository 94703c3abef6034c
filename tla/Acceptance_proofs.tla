------------------------- MODULE Acceptance_proofs --------------------------
(***************************************************************************)
(* What is stored about the sender of a message is true, for any           *)
(* transactions, blocks and addresses, any tree of outputs, any chain and  *)
(* any faults.  None of the three properties needs the fairness, nor that  *)
(* a transaction has one row: a second row stops the processor (ok).       *)
(***************************************************************************)
EXTENDS Acceptance, FiniteSetTheorems, TLAPS

Entry == [on : BOOLEAN, hdr : Blocks \cup {NoBlock}, ents : SUBSET Blocks]

\* The types of the tables a sender is read from and written to.
Tables ==
    /\ rows \in [Txs -> [Addrs -> Entry]]
    /\ owner0 \in [Txs -> Addrs \cup {NoAddr}]
    /\ stored \in [Txs -> [Blocks -> Addrs \cup {Absent, Unknown}]]
    /\ binding \in [Groups -> Addrs \cup {NoAddr}]
    /\ tracked \in [Blocks -> SUBSET Txs]
    /\ chain \subseteq ChainBlocks

\* The recorded owner of output 0 is its owner, and it is recorded whenever the
\* receiver of a row is not.
OwnersTrue ==
    /\ \A t \in Txs : owner0[t] \in {NoAddr, Outs[t][1]}
    /\ \A t \in Txs : \A a \in Keys(t) : a # Outs[t][1] => owner0[t] = Outs[t][1]

\* Two blocks of the chain accept no transaction in common, and what a block is
\* noted to accept it accepts.
ChainIsSound ==
    /\ \A c, d \in chain : c # d => Accepts[c] \cap Accepts[d] = {}
    /\ \A c \in Blocks : tracked[c] \subseteq Accepts[c]

-----------------------------------------------------------------------------
(* Lemmas about the operators.                                             *)

\* OneKey says that all keys are one.
LEMMA OneKeyOnly ==
    ASSUME NEW t, OneKey(t)
    PROVE  \A a, b \in Keys(t) : a = b
<1>. SUFFICES ASSUME NEW a \in Keys(t), NEW b \in Keys(t), a # b
              PROVE  FALSE
    OBVIOUS
<1>1. IsFiniteSet(Keys(t))
    BY AcceptanceConstants, FS_Subset DEF Keys
<1>2. IsFiniteSet({a}) /\ Cardinality({a}) = 1
    BY FS_Singleton
<1>3. Cardinality({a} \cup {b}) = 2
    BY <1>2, FS_AddElement
<1>4. {a} \cup {b} \in SUBSET Keys(t)
    OBVIOUS
<1>5. Cardinality({a} \cup {b}) <= Cardinality(Keys(t))
    BY <1>1, <1>4, FS_Subset
<1>6. Cardinality(Keys(t)) \in Nat
    BY <1>1, FS_CardinalityType
<1>. QED
    BY <1>3, <1>5, <1>6 DEF OneKey

\* So KeyOf is every key there is.
LEMMA KeyOfOnly ==
    ASSUME NEW t, OneKey(t)
    PROVE  \A a \in Keys(t) : a = KeyOf(t)
<1>. SUFFICES ASSUME NEW a \in Keys(t)
              PROVE  a = KeyOf(t)
    OBVIOUS
<1>1. KeyOf(t) \in Keys(t)
    BY DEF KeyOf
<1>. QED
    BY <1>1, OneKeyOnly

\* The first output pays an address.
LEMMA FirstOutput ==
    ASSUME NEW t \in Txs
    PROVE  Outs[t][1] \in Addrs
<1>1. Outs[t] \in Seq(Addrs) /\ Outs[t] # <<>>
    BY AcceptanceConstants
<1>. QED
    BY <1>1

\* The sender that a block tells is the owner of the first input.
LEMMA LocalSenderTrue ==
    ASSUME Tables, OwnersTrue, NEW t \in Txs
    PROVE  LocalSender(t) \in {Unknown, From[t]}
<1>1. CASE Parent[t] # NoTx /\ Keys(Parent[t]) # {}
    <2>. DEFINE p == Parent[t]
    <2>1. p \in Txs /\ From[t] = Outs[p][1]
        BY <1>1, AcceptanceConstants
    <2>2. KeyOf(p) \in Keys(p)
        BY <1>1 DEF KeyOf
    <2>3. Output0Owner(p) = Outs[p][1]
        <3>1. Outs[p][1] # NoAddr
            BY <2>1, FirstOutput, AcceptanceConstants
        <3>2. owner0[p] \in {NoAddr, Outs[p][1]}
            BY <2>1 DEF OwnersTrue
        <3>3. KeyOf(p) # Outs[p][1] => owner0[p] = Outs[p][1]
            BY <2>1, <2>2 DEF OwnersTrue
        <3>. QED
            BY <3>1, <3>2, <3>3 DEF Output0Owner
    <2>. QED
        BY <1>1, <2>1, <2>3 DEF LocalSender
<1>2. CASE ~(Parent[t] # NoTx /\ Keys(Parent[t]) # {})
    BY <1>2 DEF LocalSender
<1>. QED
    BY <1>1, <1>2

\* Without its sender a message pays whom its first output pays.
LEMMA UnknownReceiver ==
    ASSUME NEW t \in Txs
    PROVE  Receiver(t, Unknown) = Outs[t][1]
BY DEF Receiver

\* The header of a row stays a block.
LEMMA HeaderType ==
    ASSUME NEW t, NEW old \in Blocks \cup {NoBlock},
           NEW rem \in SUBSET Blocks, NEW add \in SUBSET Blocks
    PROVE  NewHeader(t, old, rem, add) \in Blocks \cup {NoBlock}
<1>1. CASE \E c \in add : t \in Accepts[c]
    <2>1. NewHeader(t, old, rem, add) = CHOOSE c \in add : t \in Accepts[c]
        BY <1>1 DEF NewHeader
    <2>. QED
        BY <1>1, <2>1
<1>2. CASE (\A c \in add : t \notin Accepts[c]) /\ (\E c \in rem : t \in tracked[c])
    <2>1. NewHeader(t, old, rem, add) = CHOOSE c \in rem : t \in tracked[c]
        BY <1>2 DEF NewHeader
    <2>. QED
        BY <1>2, <2>1
<1>3. CASE (\A c \in add : t \notin Accepts[c]) /\ ~(\E c \in rem : t \in tracked[c])
    BY <1>3 DEF NewHeader
<1>. QED
    BY <1>1, <1>2, <1>3

-----------------------------------------------------------------------------
(* Types.                                                                  *)

LEMMA TablesInit == Init => Tables
<1>. SUFFICES ASSUME Init
              PROVE  Tables
    OBVIOUS
<1>1. NoRow \in Entry
    BY DEF NoRow, Entry
<1>. QED
    BY <1>1 DEF Init, Tables

\* A row written with some blocks.
LEMMA RowType ==
    ASSUME NEW hdr \in Blocks \cup {NoBlock}, NEW ents \in SUBSET Blocks
    PROVE  Row(hdr, ents) \in Entry
BY DEF Row, Entry

\* A table stays of its type when a value of the type is written.
LEMMA PutType ==
    ASSUME NEW S, NEW T, NEW f \in [S -> T], NEW x, NEW v, x \in S => v \in T
    PROVE  [f EXCEPT ![x] = v] \in [S -> T]
OBVIOUS

LEMMA TablesBlock ==
    ASSUME Tables, OwnersTrue, NEW t \in Txs, NEW b \in Blocks, HandleTransaction(t, b),
           UNCHANGED <<tracked, chain>>
    PROVE  Tables'
<1>. DEFINE sender == LocalSender(t)
            receiver == Receiver(t, sender)
<1>1. rows' \in [Txs -> [Addrs -> Entry]]
    <2>. DEFINE ents == IF sender = Unknown THEN {b} ELSE {}
                new  == Row(rows[t][receiver].hdr, rows[t][receiver].ents \cup ents)
    <2>1. rows' = [rows EXCEPT ![t][receiver] = new]
        BY DEF HandleTransaction
    <2>2. ASSUME receiver \in Addrs
          PROVE  new \in Entry
        <3>1. rows[t][receiver] \in Entry
            BY <2>2 DEF Tables
        <3>2. /\ rows[t][receiver].hdr \in Blocks \cup {NoBlock}
              /\ rows[t][receiver].ents \cup ents \in SUBSET Blocks
            BY <3>1 DEF Entry
        <3>. QED
            BY <3>2, RowType
    <2>. HIDE DEF new, receiver
    <2>3. [rows[t] EXCEPT ![receiver] = new] \in [Addrs -> Entry]
        BY <2>2, PutType DEF Tables
    <2>. QED
        BY <2>1, <2>3 DEF Tables
<1>2. owner0' \in [Txs -> Addrs \cup {NoAddr}]
    <2>1. RecordedOwner(t, receiver) \in Addrs \cup {NoAddr}
        BY FirstOutput DEF RecordedOwner, Tables
    <2>. QED
        BY <2>1 DEF HandleTransaction, Tables
<1>3. stored' \in [Txs -> [Blocks -> Addrs \cup {Absent, Unknown}]]
    <2>1. sender \in Addrs \cup {Absent, Unknown}
        BY LocalSenderTrue, AcceptanceConstants
    <2>2. [stored[t] EXCEPT ![b] = sender] \in [Blocks -> Addrs \cup {Absent, Unknown}]
        BY <2>1 DEF Tables
    <2>. QED
        BY <2>2 DEF HandleTransaction, Tables
<1>4. binding' \in [Groups -> Addrs \cup {NoAddr}]
    BY AcceptanceConstants DEF HandleTransaction, Bind, Tables
<1>. QED
    BY <1>1, <1>2, <1>3, <1>4 DEF Tables

LEMMA TablesChange ==
    ASSUME Tables, NEW rem \in SUBSET chain, NEW add \in SUBSET (ChainBlocks \ chain),
           VirtualChainChange(rem, add)
    PROVE  Tables'
<1>1. rem \in SUBSET Blocks /\ add \in SUBSET Blocks
    BY AcceptanceConstants DEF Tables
<1>2. rows' \in [Txs -> [Addrs -> Entry]]
    <2>. DEFINE new(t, a) == IF ~rows[t][a].on THEN NoRow
                             ELSE Row(NewHeader(t, rows[t][a].hdr, rem, add), Entries(t, a))
    <2>1. ASSUME NEW t \in Txs, NEW a \in Addrs
          PROVE  new(t, a) \in Entry
        <3>1. rows[t][a] \in Entry
            BY DEF Tables
        <3>2. NewHeader(t, rows[t][a].hdr, rem, add) \in Blocks \cup {NoBlock}
            BY <1>1, <3>1, HeaderType DEF Entry
        <3>3. NoRow \in Entry
            BY DEF NoRow, Entry
        <3>. QED
            BY <3>1, <3>2, <3>3, RowType DEF Entry, Entries
    <2>2. rows' \in {rows, [t \in Txs |-> [a \in Addrs |-> new(t, a)]]}
        BY DEF VirtualChainChange
    <2>. HIDE DEF new
    <2>. QED
        BY <2>1, <2>2 DEF Tables
<1>3. tracked' \in [Blocks -> SUBSET Txs]
    <2>1. \A c \in Blocks : Known(c) \in SUBSET Txs
        BY AcceptanceConstants DEF Known
    <2>2. tracked' \in {tracked, [c \in Blocks |-> IF c \in add THEN Known(c)
                                    ELSE IF c \in rem THEN {} ELSE tracked[c]]}
        BY DEF VirtualChainChange
    <2>. QED
        BY <2>1, <2>2 DEF Tables
<1>4. chain' \subseteq ChainBlocks
    BY DEF VirtualChainChange, Tables
<1>. QED
    BY <1>2, <1>3, <1>4 DEF VirtualChainChange, Tables

LEMMA TablesResolution ==
    ASSUME Tables, NEW d, NEW t \in Txs, SenderResolution(d, t)
    PROVE  Tables'
<1>1. CASE ~OneKey(t)
    BY <1>1 DEF SenderResolution, Tables
<1>2. CASE OneKey(t)
    <2>. DEFINE open == Deferred(t)
                admitted == open # {} /\ Admits(t, From[t])
    <2>1. rows' \in [Txs -> [Addrs -> Entry]]
        <3>. DEFINE k == KeyOf(t)
                    new == Row(rows[t][k].hdr, {})
        <3>1. rows' = [rows EXCEPT ![t][k] = new]
            BY <1>2 DEF SenderResolution
        <3>2. ASSUME k \in Addrs
              PROVE  new \in Entry
            <4>1. rows[t][k] \in Entry
                BY <3>2 DEF Tables
            <4>. QED
                BY <4>1, RowType DEF Entry
        <3>. HIDE DEF new, k
        <3>3. [rows[t] EXCEPT ![k] = new] \in [Addrs -> Entry]
            BY <3>2, PutType DEF Tables
        <3>. QED
            BY <3>1, <3>3 DEF Tables
    <2>2. stored' \in [Txs -> [Blocks -> Addrs \cup {Absent, Unknown}]]
        <3>. DEFINE new == [b \in Blocks |-> IF b \notin open THEN stored[t][b]
                                             ELSE IF admitted THEN From[t] ELSE Absent]
        <3>1. stored' = [stored EXCEPT ![t] = new]
            BY <1>2 DEF SenderResolution, Tables
        <3>2. new \in [Blocks -> Addrs \cup {Absent, Unknown}]
            BY AcceptanceConstants DEF Tables
        <3>. QED
            BY <3>1, <3>2 DEF Tables
    <2>3. binding' \in [Groups -> Addrs \cup {NoAddr}]
        <3>1. binding' \in {binding, Bind(t)}
            BY <1>2 DEF SenderResolution
        <3>2. Bind(t) \in [Groups -> Addrs \cup {NoAddr}]
            BY AcceptanceConstants DEF Bind, Tables
        <3>. QED
            BY <3>1, <3>2 DEF Tables
    <2>. QED
        BY <2>1, <2>2, <2>3 DEF SenderResolution, Tables
<1>. QED
    BY <1>1, <1>2

-----------------------------------------------------------------------------
(* Rows.                                                                   *)

\* The step gives one row these entries: its key is added, all else stays.
Writes(t, k, ents) ==
    /\ \A u \in Txs : u # t => Keys(u)' = Keys(u)
    /\ Keys(t)' = Keys(t) \cup ({k} \cap Addrs)
    /\ k \in Addrs => Entries(t, k)' = ents
    /\ \A u \in Txs : \A a \in Addrs :
         u # t \/ a # k => Entries(u, a)' = Entries(u, a)

LEMMA RowPut ==
    ASSUME Tables, NEW t \in Txs, NEW k, NEW hdr, NEW ents,
           rows' = [rows EXCEPT ![t][k] = Row(hdr, ents)]
    PROVE  Writes(t, k, ents)
<1>. DEFINE new == Row(hdr, ents)
<1>1. new.on /\ new.ents = ents
    BY DEF Row
<1>2. \A u \in Txs : \A a \in Addrs :
        rows'[u][a] = IF u = t /\ a = k THEN new ELSE rows[u][a]
    <2>1. DOMAIN rows = Txs /\ \A u \in Txs : DOMAIN rows[u] = Addrs
        BY DEF Tables
    <2>. HIDE DEF new
    <2>2. rows' = [rows EXCEPT ![t] = [rows[t] EXCEPT ![k] = new]]
        BY DEF new
    <2>3. rows'[t] = [rows[t] EXCEPT ![k] = new]
        BY <2>1, <2>2
    <2>4. \A u \in Txs : u # t => rows'[u] = rows[u]
        BY <2>1, <2>2
    <2>5. \A a \in Addrs : rows'[t][a] = IF a = k THEN new ELSE rows[t][a]
        BY <2>1, <2>3
    <2>. QED
        BY <2>4, <2>5
<1>. HIDE DEF new
<1>3. \A u \in Txs : \A a \in Addrs :
        /\ rows'[u][a].on <=> (u = t /\ a = k) \/ rows[u][a].on
        /\ rows'[u][a].ents = IF u = t /\ a = k THEN ents ELSE rows[u][a].ents
    BY <1>1, <1>2
<1>. QED
    BY <1>3 DEF Keys, Entries, Writes

\* A change of the chain moves the headers only.
LEMMA RowsMoved ==
    ASSUME Tables, NEW rem, NEW add, VirtualChainChange(rem, add)
    PROVE  /\ \A u \in Txs : Keys(u)' = Keys(u)
           /\ \A u \in Txs : \A a \in Keys(u) : Entries(u, a)' = Entries(u, a)
<1>1. CASE rows' = rows
    BY <1>1 DEF Keys, Entries
<1>2. CASE rows' # rows
    <2>. DEFINE hdr(u, a) == NewHeader(u, rows[u][a].hdr, rem, add)
    <2>1. rows' = [u \in Txs |-> [a \in Addrs |->
                     IF ~rows[u][a].on THEN NoRow ELSE Row(hdr(u, a), Entries(u, a))]]
        BY <1>2 DEF VirtualChainChange
    <2>. HIDE DEF hdr
    <2>2. \A u \in Txs : \A a \in Addrs :
            rows'[u][a] = IF ~rows[u][a].on THEN NoRow ELSE Row(hdr(u, a), Entries(u, a))
        BY <2>1
    <2>3. ~NoRow.on /\ \A h, e : Row(h, e).on /\ Row(h, e).ents = e
        BY DEF NoRow, Row
    <2>4. \A u \in Txs : \A a \in Addrs :
            /\ rows'[u][a].on <=> rows[u][a].on
            /\ rows[u][a].on => rows'[u][a].ents = rows[u][a].ents
        <3>. SUFFICES ASSUME NEW u \in Txs, NEW a \in Addrs
                      PROVE  /\ rows'[u][a].on <=> rows[u][a].on
                             /\ rows[u][a].on => rows'[u][a].ents = rows[u][a].ents
            OBVIOUS
        <3>1. CASE rows[u][a].on
            <4>1. rows'[u][a] = Row(hdr(u, a), Entries(u, a))
                BY <2>2, <3>1
            <4>. QED
                BY <2>3, <3>1, <4>1 DEF Entries
        <3>2. CASE ~rows[u][a].on
            <4>1. rows'[u][a] = NoRow
                BY <2>2, <3>2
            <4>. QED
                BY <2>3, <3>2, <4>1
        <3>. QED
            BY <3>1, <3>2
    <2>. QED
        BY <2>4 DEF Keys, Entries
<1>. QED
    BY <1>1, <1>2

\* Whoever is asked about, answered or pending has a row.
AskedHaveRows ==
    \A x \in requests \cup answers \cup pending : x[2] \in Txs /\ Keys(x[2]) # {}

\* An answer is about a transaction with one row, its key among them.
LEMMA AnswerRow ==
    ASSUME Tables, AskedHaveRows, NEW d, NEW t \in Txs, SenderResolution(d, t), OneKey(t)
    PROVE  /\ KeyOf(t) \in Keys(t)
           /\ KeyOf(t) \in Addrs
           /\ \A u \in Txs : Keys(u)' = Keys(u)
           /\ \A a \in Addrs : a = KeyOf(t) => Entries(t, a)' = {}
           /\ \A u \in Txs : \A a \in Addrs :
                u # t \/ a # KeyOf(t) => Entries(u, a)' = Entries(u, a)
<1>1. Keys(t) # {}
    BY DEF AskedHaveRows, SenderResolution
<1>2. KeyOf(t) \in Keys(t) /\ KeyOf(t) \in Addrs
    BY <1>1 DEF KeyOf, Keys
<1>3. PICK k \in Addrs : k = KeyOf(t)
    BY <1>2
<1>4. PICK hdr : rows' = [rows EXCEPT ![t][k] = Row(hdr, {})]
    BY <1>3 DEF SenderResolution, Tables
<1>5. Writes(t, k, {})
    BY <1>4, RowPut
<1>. QED
    BY <1>2, <1>3, <1>5 DEF Writes

-----------------------------------------------------------------------------
(* The owners, the chain and what is asked for.                            *)

Sound == Tables /\ OwnersTrue /\ ChainIsSound /\ AskedHaveRows

LEMMA SoundInit == Init => Sound
<1>. SUFFICES ASSUME Init
              PROVE  Sound
    OBVIOUS
<1>1. Tables
    BY TablesInit
<1>2. \A t \in Txs : Keys(t) = {}
    BY DEF Init, Keys, NoRow
<1>. QED
    BY <1>1, <1>2 DEF Init, Sound, OwnersTrue, ChainIsSound, AskedHaveRows

\* The state that the senders depend on.
table == <<rows, owner0, stored, binding, tracked, chain>>

LEMMA SoundIdle ==
    ASSUME Sound, UNCHANGED table, requests' \cup answers' \cup pending' \subseteq requests \cup answers \cup pending
    PROVE  Sound'
<1>1. \A t : Keys(t)' = Keys(t)
    BY DEF table, Keys
<1>. QED
    BY <1>1 DEF Sound, Tables, OwnersTrue, ChainIsSound, AskedHaveRows, table

LEMMA SoundBlock ==
    ASSUME Sound, NEW t \in Txs, NEW b \in Blocks, HandleBlock(t, b)
    PROVE  Sound'
<1>. USE DEF Sound
<1>. DEFINE halts == Parent[t] # NoTx /\ ~OneKey(Parent[t])
<1>1. CASE ~halts
    <2>0. HandleTransaction(t, b)
        BY <1>1 DEF HandleBlock
    <2>. PICK receiver : receiver = Receiver(t, LocalSender(t))
        OBVIOUS
    <2>1. Tables'
        BY <2>0, TablesBlock DEF HandleBlock
    <2>2. PICK hdr, ents : rows' = [rows EXCEPT ![t][receiver] = Row(hdr, ents)]
        BY <2>0 DEF HandleTransaction
    <2>3. /\ \A u \in Txs : u # t => Keys(u)' = Keys(u)
          /\ Keys(t)' = Keys(t) \cup ({receiver} \cap Addrs)
        BY <2>2, RowPut DEF Writes
    <2>4. owner0' = [owner0 EXCEPT ![t] = RecordedOwner(t, receiver)]
        BY <2>0 DEF HandleTransaction
    <2>5. OwnersTrue'
        <3>1. \A u \in Txs : u # t => owner0'[u] = owner0[u]
            BY <2>4 DEF Tables
        <3>2. owner0'[t] = RecordedOwner(t, receiver)
            BY <2>4 DEF Tables
        <3>3. owner0'[t] \in {NoAddr, Outs[t][1]}
            BY <3>2 DEF RecordedOwner, OwnersTrue
        <3>4. \A a \in Keys(t)' : a # Outs[t][1] => owner0'[t] = Outs[t][1]
            BY <2>3, <3>2 DEF RecordedOwner, OwnersTrue
        <3>. QED
            BY <2>3, <3>1, <3>3, <3>4 DEF OwnersTrue
    <2>6. AskedHaveRows'
        BY <2>3 DEF AskedHaveRows, HandleBlock
    <2>. QED
        BY <2>1, <2>5, <2>6 DEF ChainIsSound, HandleBlock
<1>2. CASE halts
    <2>1. UNCHANGED table /\ UNCHANGED <<requests, answers, pending>>
        BY <1>2 DEF HandleBlock, table
    <2>. QED
        BY <2>1, SoundIdle
<1>. QED
    BY <1>1, <1>2

LEMMA SoundChange ==
    ASSUME Sound, NEW rem \in SUBSET chain, NEW add \in SUBSET (ChainBlocks \ chain),
           VirtualChainChange(rem, add)
    PROVE  Sound'
<1>. USE DEF Sound
<1>1. CASE chain' = (chain \ rem) \cup add /\ ok' = ok
    <2>1. Tables'
        BY TablesChange
    <2>2. \A u \in Txs : Keys(u)' = Keys(u)
        BY RowsMoved
    <2>3. OwnersTrue'
        BY <2>2 DEF OwnersTrue, VirtualChainChange
    <2>4. ChainIsSound'
        <3>1. \A c, d \in chain' : c # d => Accepts[c] \cap Accepts[d] = {}
            BY <1>1 DEF VirtualChainChange
        <3>2. tracked' \in {tracked, [c \in Blocks |-> IF c \in add THEN Known(c)
                                        ELSE IF c \in rem THEN {} ELSE tracked[c]]}
            BY DEF VirtualChainChange
        <3>3. \A c \in Blocks : tracked'[c] \subseteq Accepts[c]
            BY <3>2 DEF ChainIsSound, Known
        <3>. QED
            BY <3>1, <3>3 DEF ChainIsSound
    <2>5. AskedHaveRows'
        <3>1. ASSUME NEW x \in Asked(add)
              PROVE  x[2] \in Txs /\ Keys(x[2]) # {}
            <4>1. PICK c \in add : \E u \in Known(c) : x = <<Daa[c], u>>
                BY <3>1 DEF Asked
            <4>2. c \in Blocks
                BY AcceptanceConstants DEF Tables
            <4>. QED
                BY <4>1, <4>2, AcceptanceConstants DEF Known
        <3>2. /\ requests' \subseteq requests \cup Asked(add)
              /\ pending' \subseteq pending \cup Asked(add)
              /\ answers' = answers
            BY DEF VirtualChainChange, StillPending
        <3>. QED
            BY <2>2, <3>1, <3>2 DEF AskedHaveRows
    <2>. QED
        BY <2>1, <2>3, <2>4, <2>5
<1>2. CASE ~(chain' = (chain \ rem) \cup add /\ ok' = ok)
    <2>1. UNCHANGED table /\ UNCHANGED <<requests, answers, pending>>
        BY <1>2 DEF VirtualChainChange, table
    <2>. QED
        BY <2>1, SoundIdle
<1>. QED
    BY <1>1, <1>2

LEMMA SoundResolution ==
    ASSUME Sound, NEW d, NEW t \in Txs, SenderResolution(d, t)
    PROVE  Sound'
<1>. USE DEF Sound
<1>1. Tables'
    BY TablesResolution
<1>2. \A u \in Txs : Keys(u)' = Keys(u)
    <2>1. CASE OneKey(t)
        BY <2>1, AnswerRow
    <2>2. CASE ~OneKey(t)
        BY <2>2 DEF SenderResolution, Keys
    <2>. QED
        BY <2>1, <2>2
<1>3. OwnersTrue'
    BY <1>2 DEF OwnersTrue, SenderResolution
<1>4. ChainIsSound'
    BY DEF ChainIsSound, SenderResolution
<1>5. requests' \cup answers' \cup pending' \subseteq requests \cup answers \cup pending
    BY DEF SenderResolution
<1>6. AskedHaveRows'
    BY <1>2, <1>5 DEF AskedHaveRows
<1>. QED
    BY <1>1, <1>3, <1>4, <1>6

-----------------------------------------------------------------------------
(* The stored senders.                                                     *)

\* What a block writes: the local sender, if it is admitted.
LEMMA BlockStores ==
    ASSUME Sound, NEW t \in Txs, NEW b \in Blocks, HandleTransaction(t, b)
    PROVE  /\ \A u \in Txs, c \in Blocks :
                stored'[u][c] # stored[u][c] =>
                  /\ u = t /\ c = b /\ stored'[u][c] = LocalSender(t)
                  /\ LocalSender(t) = Unknown \/ Admits(t, LocalSender(t))
           /\ binding' # binding =>
                LocalSender(t) # Unknown /\ Admits(t, LocalSender(t)) /\ binding' = Bind(t)
           /\ LocalSender(t) # Unknown /\ Admits(t, LocalSender(t)) => binding' = Bind(t)
<1>. DEFINE sender == LocalSender(t)
<1>1. stored' \in {stored, [stored EXCEPT ![t][b] = sender]}
    BY DEF HandleTransaction
<1>2. stored' # stored => sender = Unknown \/ Admits(t, sender)
    BY DEF HandleTransaction
<1>3. binding' = IF (sender = Unknown \/ Admits(t, sender)) /\ sender # Unknown
                 THEN Bind(t) ELSE binding
    BY DEF HandleTransaction
<1>. HIDE DEF sender
<1>4. \A u \in Txs, c \in Blocks :
        stored'[u][c] # stored[u][c] => u = t /\ c = b /\ stored'[u][c] = sender
    BY <1>1 DEF Sound, Tables
<1>5. (\E u \in Txs, c \in Blocks : stored'[u][c] # stored[u][c]) => stored' # stored
    OBVIOUS
<1>. QED
    BY <1>2, <1>3, <1>4, <1>5 DEF sender

\* What an answer writes: the owner of the first input if it is admitted, and
\* otherwise it removes the message; only where an entry waited.
LEMMA AnswerStores ==
    ASSUME Sound, NEW d, NEW t \in Txs, SenderResolution(d, t), OneKey(t)
    PROVE  LET admitted == Deferred(t) # {} /\ Admits(t, From[t])
           IN  /\ \A u \in Txs \ {t}, c \in Blocks : stored'[u][c] = stored[u][c]
               /\ \A c \in Blocks : stored'[t][c] =
                    IF c \notin Deferred(t) THEN stored[t][c]
                    ELSE IF admitted THEN From[t] ELSE Absent
               /\ binding' = IF admitted THEN Bind(t) ELSE binding
<1>. DEFINE admitted == Deferred(t) # {} /\ Admits(t, From[t])
            new == [c \in Blocks |-> IF c \notin Deferred(t) THEN stored[t][c]
                                     ELSE IF admitted THEN From[t] ELSE Absent]
<1>1. stored' = [stored EXCEPT ![t] = new]
    BY DEF SenderResolution, Sound, Tables
<1>2. binding' = IF admitted THEN Bind(t) ELSE binding
    BY DEF SenderResolution
<1>3. \A c \in Blocks : new[c] = IF c \notin Deferred(t) THEN stored[t][c]
                                 ELSE IF admitted THEN From[t] ELSE Absent
    OBVIOUS
<1>. HIDE DEF new
<1>4. stored'[t] = new /\ \A u \in Txs \ {t} : stored'[u] = stored[u]
    BY <1>1 DEF Sound, Tables
<1>. QED
    BY <1>2, <1>3, <1>4

Senders == Sound /\ SenderTrue /\ GroupHasOneSender

LEMMA SendersInit == Init => Senders
<1>. SUFFICES ASSUME Init
              PROVE  Senders
    OBVIOUS
<1>1. \A t \in Txs, b \in Blocks : stored[t][b] \notin Addrs
    BY AcceptanceConstants DEF Init
<1>. QED
    BY <1>1, SoundInit DEF Senders, SenderTrue, GroupHasOneSender

\* Binding the group of an admitted message leaves what the group says of the
\* messages that are stored.
LEMMA BindKeeps ==
    ASSUME Senders, NEW t \in Txs, Admits(t, Pub[t]), NEW u \in Txs, NEW c \in Blocks,
           Group[u] # NoGroup, stored[u][c] \in Addrs
    PROVE  Bind(t)[Group[u]] = Pub[u]
<1>1. binding[Group[u]] = Pub[u] /\ Pub[u] \in Addrs /\ Group[u] \in Groups
    BY AcceptanceConstants DEF Senders, GroupHasOneSender
<1>2. CASE Group[t] = Group[u]
    <2>1. binding[Group[t]] \in {NoAddr, Pub[t]}
        BY <1>1, <1>2 DEF Admits
    <2>2. Pub[t] = Pub[u]
        BY <1>1, <1>2, <2>1, AcceptanceConstants
    <2>. QED
        BY <1>1, <1>2, <2>2 DEF Bind, Senders, Sound, Tables
<1>3. CASE Group[t] # Group[u]
    BY <1>1, <1>3 DEF Bind, Senders, Sound, Tables
<1>. QED
    BY <1>2, <1>3

LEMMA SendersBlock ==
    ASSUME Senders, NEW t \in Txs, NEW b \in Blocks, HandleBlock(t, b)
    PROVE  Senders'
<1>1. Sound /\ Sound'
    BY SoundBlock DEF Senders
<1>2. CASE HandleTransaction(t, b)
    <2>1. LocalSender(t) \in {Unknown, From[t]}
        BY <1>1, LocalSenderTrue DEF Sound
    <2>2. SenderTrue'
        <3>. SUFFICES ASSUME NEW u \in Txs, NEW c \in Blocks, stored'[u][c] \in Addrs
                      PROVE  stored'[u][c] = From[u]
            BY DEF SenderTrue
        <3>1. CASE stored'[u][c] = stored[u][c]
            BY <3>1 DEF Senders, SenderTrue
        <3>2. CASE stored'[u][c] # stored[u][c]
            BY <1>1, <1>2, <2>1, <3>2, BlockStores, AcceptanceConstants
        <3>. QED
            BY <3>1, <3>2
    <2>3. GroupHasOneSender'
        <3>. SUFFICES ASSUME NEW u \in Txs, NEW c \in Blocks,
                             Group[u] # NoGroup, stored'[u][c] \in Addrs
                      PROVE  stored'[u][c] = Pub[u] /\ binding'[Group[u]] = Pub[u]
            BY DEF GroupHasOneSender
        <3>1. CASE stored'[u][c] = stored[u][c]
            <4>1. stored'[u][c] = Pub[u] /\ binding[Group[u]] = Pub[u]
                BY <3>1 DEF Senders, GroupHasOneSender
            <4>2. CASE binding' = binding
                BY <4>1, <4>2
            <4>3. CASE binding' # binding
                <5>1. Admits(t, LocalSender(t)) /\ binding' = Bind(t)
                    BY <1>1, <1>2, <4>3, BlockStores
                <5>2. Group[t] # NoGroup
                    BY <4>3, <5>1 DEF Bind
                <5>3. Admits(t, Pub[t])
                    BY <5>1, <5>2 DEF Admits
                <5>. QED
                    BY <3>1, <4>1, <5>1, <5>3, BindKeeps
            <4>. QED
                BY <4>2, <4>3
        <3>2. CASE stored'[u][c] # stored[u][c]
            <4>1. u = t /\ stored'[u][c] = LocalSender(t)
                BY <1>1, <1>2, <3>2, BlockStores
            <4>2. LocalSender(t) # Unknown /\ Admits(t, LocalSender(t)) /\ binding' = Bind(t)
                BY <1>1, <1>2, <3>2, <4>1, BlockStores, AcceptanceConstants
            <4>. QED
                BY <1>1, <4>1, <4>2, AcceptanceConstants DEF Admits, Bind, Sound, Tables
        <3>. QED
            BY <3>1, <3>2
    <2>. QED
        BY <1>1, <2>2, <2>3 DEF Senders
<1>3. CASE ~HandleTransaction(t, b)
    BY <1>1, <1>3 DEF HandleBlock, Senders, SenderTrue, GroupHasOneSender
<1>. QED
    BY <1>2, <1>3

LEMMA SendersResolution ==
    ASSUME Senders, NEW d, NEW t \in Txs, SenderResolution(d, t)
    PROVE  Senders'
<1>1. Sound /\ Sound'
    BY SoundResolution DEF Senders
<1>2. CASE OneKey(t)
    <2>. DEFINE admitted == Deferred(t) # {} /\ Admits(t, From[t])
    <2>1. /\ \A u \in Txs \ {t}, c \in Blocks : stored'[u][c] = stored[u][c]
          /\ \A c \in Blocks : stored'[t][c] =
               IF c \notin Deferred(t) THEN stored[t][c]
               ELSE IF admitted THEN From[t] ELSE Absent
          /\ binding' = IF admitted THEN Bind(t) ELSE binding
        BY <1>1, <1>2, AnswerStores
    <2>. HIDE DEF admitted
    <2>2. \A u \in Txs, c \in Blocks : stored'[u][c] \in Addrs =>
            \/ stored'[u][c] = stored[u][c]
            \/ u = t /\ admitted /\ stored'[u][c] = From[t]
        <3>. SUFFICES ASSUME NEW u \in Txs, NEW c \in Blocks, stored'[u][c] \in Addrs
                      PROVE  \/ stored'[u][c] = stored[u][c]
                             \/ u = t /\ admitted /\ stored'[u][c] = From[t]
            OBVIOUS
        <3>1. CASE u # t
            BY <2>1, <3>1
        <3>2. CASE u = t
            BY <2>1, <3>2, AcceptanceConstants
        <3>. QED
            BY <3>1, <3>2
    <2>3. SenderTrue'
        BY <2>2 DEF Senders, SenderTrue
    <2>4. GroupHasOneSender'
        <3>. SUFFICES ASSUME NEW u \in Txs, NEW c \in Blocks,
                             Group[u] # NoGroup, stored'[u][c] \in Addrs
                      PROVE  stored'[u][c] = Pub[u] /\ binding'[Group[u]] = Pub[u]
            BY DEF GroupHasOneSender
        <3>1. CASE stored'[u][c] = stored[u][c]
            <4>1. stored'[u][c] = Pub[u] /\ binding[Group[u]] = Pub[u]
                BY <3>1 DEF Senders, GroupHasOneSender
            <4>2. CASE binding' = binding
                BY <4>1, <4>2
            <4>3. CASE binding' # binding
                <5>1. Admits(t, From[t]) /\ binding' = Bind(t)
                    BY <2>1, <4>3 DEF admitted
                <5>2. Group[t] # NoGroup
                    BY <4>3, <5>1 DEF Bind
                <5>3. Admits(t, Pub[t])
                    BY <5>1, <5>2 DEF Admits
                <5>. QED
                    BY <3>1, <4>1, <5>1, <5>3, BindKeeps
            <4>. QED
                BY <4>2, <4>3
        <3>2. CASE u = t /\ admitted /\ stored'[u][c] = From[t]
            BY <1>1, <2>1, <3>2, AcceptanceConstants DEF admitted, Admits, Bind, Sound, Tables
        <3>. QED
            BY <2>2, <3>1, <3>2
    <2>. QED
        BY <1>1, <2>3, <2>4 DEF Senders
<1>3. CASE ~OneKey(t)
    BY <1>1, <1>3 DEF SenderResolution, Senders, SenderTrue, GroupHasOneSender
<1>. QED
    BY <1>2, <1>3

\* What leaves the senders alone.
LEMMA SendersElse ==
    ASSUME Senders, Sound', UNCHANGED <<stored, binding>>
    PROVE  Senders'
BY DEF Senders, SenderTrue, GroupHasOneSender

-----------------------------------------------------------------------------
(* What waits is pending.                                                  *)

Waiting == Sound /\ OpenIsPending

LEMMA WaitingInit == Init => Waiting
<1>. SUFFICES ASSUME Init
              PROVE  Waiting
    OBVIOUS
<1>1. \A t \in Txs, b \in Blocks : stored[t][b] # Unknown
    BY DEF Init, Absent, Unknown
<1>. QED
    BY <1>1, SoundInit DEF Init, Waiting, OpenIsPending

LEMMA WaitingBlock ==
    ASSUME Waiting, NEW t \in Txs, NEW b \in Blocks, HandleBlock(t, b)
    PROVE  Waiting'
<1>1. Sound /\ Sound'
    BY SoundBlock DEF Waiting
<1>. DEFINE halts == Parent[t] # NoTx /\ ~OneKey(Parent[t])
<1>2. CASE ~halts
    <2>1. HandleTransaction(t, b)
        BY <1>2 DEF HandleBlock
    <2>2. PICK sender, receiver : sender = LocalSender(t) /\ receiver = Receiver(t, sender)
        OBVIOUS
    <2>3. PICK hdr, ents :
            /\ rows' = [rows EXCEPT ![t][receiver] = Row(hdr, ents)]
            /\ Entries(t, receiver) \subseteq ents
            /\ sender = Unknown => b \in ents
        BY <2>1, <2>2 DEF HandleTransaction, Entries
    <2>4. Writes(t, receiver, ents)
        BY <1>1, <2>3, RowPut DEF Sound
    <2>5. ASSUME NEW u \in Txs \ late', NEW c \in chain', u \in Accepts[c],
                 NEW a \in Keys(u)', Entries(u, a)' # {}
          PROVE  <<Daa[c], u>> \in pending'
        <3>1. chain' = chain /\ pending' = pending /\ late \subseteq late'
            BY <1>2 DEF HandleBlock
        <3>2. u # t
            BY <1>2, <2>5, <3>1 DEF HandleBlock
        <3>3. a \in Keys(u) /\ Entries(u, a) # {}
            BY <2>4, <2>5, <3>2 DEF Keys, Writes
        <3>. QED
            BY <2>5, <3>1, <3>3 DEF Waiting, OpenIsPending
    <2>6. ASSUME NEW u \in Txs, NEW c \in Blocks, stored'[u][c] = Unknown
          PROVE  \E a \in Keys(u)' : c \in Entries(u, a)'
        <3>1. CASE stored'[u][c] = stored[u][c]
            <4>1. PICK a \in Keys(u) : c \in Entries(u, a)
                BY <2>6, <3>1 DEF Waiting, OpenIsPending
            <4>2. a \in Addrs
                BY <4>1 DEF Keys
            <4>3. a \in Keys(u)'
                BY <2>4, <4>1 DEF Writes
            <4>4. c \in Entries(u, a)'
                <5>1. CASE u # t \/ a # receiver
                    BY <2>4, <4>1, <4>2, <5>1 DEF Writes
                <5>2. CASE u = t /\ a = receiver
                    BY <2>3, <2>4, <4>1, <4>2, <5>2 DEF Writes
                <5>. QED
                    BY <5>1, <5>2
            <4>. QED
                BY <4>3, <4>4
        <3>2. CASE stored'[u][c] # stored[u][c]
            <4>1. u = t /\ c = b /\ sender = Unknown
                BY <1>1, <2>1, <2>2, <2>6, <3>2, BlockStores
            <4>2. receiver \in Addrs
                BY <2>2, <4>1, UnknownReceiver, FirstOutput
            <4>. QED
                BY <2>3, <2>4, <4>1, <4>2 DEF Writes
        <3>. QED
            BY <3>1, <3>2
    <2>. QED
        BY <1>1, <2>5, <2>6 DEF Waiting, OpenIsPending
<1>3. CASE halts
    BY <1>1, <1>3 DEF HandleBlock, Waiting, OpenIsPending, Keys, Entries
<1>. QED
    BY <1>2, <1>3

LEMMA WaitingChange ==
    ASSUME Waiting, NEW rem \in SUBSET chain, NEW add \in SUBSET (ChainBlocks \ chain),
           VirtualChainChange(rem, add)
    PROVE  Waiting'
<1>1. Sound /\ Sound'
    BY SoundChange DEF Waiting
<1>2. /\ \A u \in Txs : Keys(u)' = Keys(u)
      /\ \A u \in Txs : \A a \in Keys(u) : Entries(u, a)' = Entries(u, a)
    BY <1>1, RowsMoved DEF Sound
<1>3. late' = late /\ stored' = stored
    BY DEF VirtualChainChange
<1>4. ASSUME NEW u \in Txs \ late, NEW c \in chain', u \in Accepts[c],
             NEW a \in Keys(u), Entries(u, a) # {}
      PROVE  <<Daa[c], u>> \in pending'
    <2>1. CASE chain' = chain /\ pending' = pending
        BY <1>4, <2>1 DEF Waiting, OpenIsPending
    <2>2. CASE ~(chain' = chain /\ pending' = pending)
        <3>1. /\ chain' = (chain \ rem) \cup add
              /\ pending' = StillPending(rem) \cup Asked(add)
              /\ \A d \in add : \A v \in Accepts[d] : OneKey(v)
            BY <2>2 DEF VirtualChainChange
        <3>2. CASE c \in add
            <4>1. a = KeyOf(u)
                BY <1>4, <3>1, <3>2, KeyOfOnly
            <4>2. u \in Known(c) /\ Entries(u, KeyOf(u)) # {}
                BY <1>4, <4>1 DEF Known
            <4>3. <<Daa[c], u>> \in Asked(add)
                BY <3>2, <4>2 DEF Asked
            <4>. QED
                BY <3>1, <4>3
        <3>3. CASE c \notin add
            <4>1. c \in chain \ rem
                BY <3>1, <3>3
            <4>2. <<Daa[c], u>> \in pending
                BY <1>4, <4>1 DEF Waiting, OpenIsPending
            <4>3. ASSUME NEW d \in rem, u \in tracked[d]
                  PROVE  FALSE
                <5>1. d \in chain /\ d # c /\ d \in Blocks
                    BY <1>1, <4>1, AcceptanceConstants DEF Sound, Tables
                <5>2. u \in Accepts[d]
                    BY <1>1, <4>3, <5>1 DEF Sound, ChainIsSound
                <5>. QED
                    BY <1>1, <1>4, <4>1, <5>1, <5>2 DEF Sound, ChainIsSound
            <4>4. <<Daa[c], u>> \in StillPending(rem)
                BY <4>2, <4>3 DEF StillPending
            <4>. QED
                BY <3>1, <4>4
        <3>. QED
            BY <3>2, <3>3
    <2>. QED
        BY <2>1, <2>2
<1>. QED
    BY <1>1, <1>2, <1>3, <1>4 DEF Waiting, OpenIsPending

LEMMA WaitingResolution ==
    ASSUME Waiting, NEW d, NEW t \in Txs, SenderResolution(d, t)
    PROVE  Waiting'
<1>1. Sound /\ Sound'
    BY SoundResolution DEF Waiting
<1>2. CASE OneKey(t)
    <2>1. PICK k \in Keys(t) : k = KeyOf(t)
        BY <1>1, <1>2, AnswerRow DEF Sound
    <2>2. /\ \A u \in Txs : Keys(u)' = Keys(u)
          /\ k \in Addrs /\ Entries(t, k)' = {}
          /\ \A u \in Txs : \A a \in Addrs :
               u # t \/ a # k => Entries(u, a)' = Entries(u, a)
        BY <1>1, <1>2, <2>1, AnswerRow DEF Sound
    <2>3. \A a \in Keys(t) : a = k
        BY <1>2, OneKeyOnly
    <2>4. ASSUME NEW u \in Txs, NEW a \in Keys(u)', Entries(u, a)' # {}
          PROVE  u # t /\ a \in Keys(u) /\ Entries(u, a)' = Entries(u, a)
        BY <2>2, <2>3, <2>4 DEF Keys
    <2>5. ASSUME NEW u \in Txs \ late', NEW c \in chain', u \in Accepts[c],
                 NEW a \in Keys(u)', Entries(u, a)' # {}
          PROVE  <<Daa[c], u>> \in pending'
        <3>1. /\ chain' = chain /\ late' = late
              /\ \A x \in pending : x # <<d, t>> => x \in pending'
            BY <1>2 DEF SenderResolution
        <3>2. <<Daa[c], u>> \in pending
            BY <2>4, <2>5, <3>1 DEF Waiting, OpenIsPending
        <3>. QED
            BY <2>4, <2>5, <3>1, <3>2
    <2>6. ASSUME NEW u \in Txs, NEW c \in Blocks, stored'[u][c] = Unknown
          PROVE  \E a \in Keys(u)' : c \in Entries(u, a)'
        <3>1. CASE u # t
            <4>1. stored[u][c] = Unknown
                BY <1>1, <1>2, <2>6, <3>1, AnswerStores
            <4>2. PICK a \in Keys(u) : c \in Entries(u, a)
                BY <4>1 DEF Waiting, OpenIsPending
            <4>. QED
                BY <2>2, <3>1, <4>2 DEF Keys
        <3>2. CASE u = t
            <4>1. c \notin Deferred(t) /\ stored[t][c] = Unknown
                <5>1. /\ c \notin Deferred(t) => stored'[t][c] = stored[t][c]
                      /\ c \in Deferred(t) => stored'[t][c] \in {From[t], Absent}
                    BY <1>1, <1>2, AnswerStores
                <5>2. From[t] # Unknown /\ Absent # Unknown
                    BY AcceptanceConstants DEF Absent, Unknown
                <5>. QED
                    BY <2>6, <3>2, <5>1, <5>2
            <4>2. PICK a \in Keys(t) : c \in Entries(t, a)
                BY <4>1 DEF Waiting, OpenIsPending
            <4>. QED
                BY <2>1, <2>3, <4>1, <4>2 DEF Deferred
        <3>. QED
            BY <3>1, <3>2
    <2>. QED
        BY <1>1, <2>5, <2>6 DEF Waiting, OpenIsPending
<1>3. CASE ~OneKey(t)
    BY <1>1, <1>3 DEF SenderResolution, Waiting, OpenIsPending, Keys, Entries
<1>. QED
    BY <1>2, <1>3

\* What leaves the rows, the messages and the pending senders alone.
LEMMA WaitingElse ==
    ASSUME Waiting, Sound', UNCHANGED <<rows, stored, pending, chain, late>>
    PROVE  Waiting'
BY DEF Waiting, OpenIsPending, Keys, Entries

-----------------------------------------------------------------------------
(* The theorems.                                                           *)

IndInv == Senders /\ Waiting

LEMMA IndInvInit == Init => IndInv
BY SendersInit, WaitingInit DEF IndInv

LEMMA IndInvStep == IndInv /\ [Next]_vars => IndInv'
<1>. SUFFICES ASSUME IndInv, [Next]_vars
              PROVE  IndInv'
    OBVIOUS
<1>. USE DEF IndInv
<1>1. ASSUME NEW t \in Txs, NEW b \in Blocks, HandleBlock(t, b)
      PROVE  IndInv'
    BY <1>1, SendersBlock, WaitingBlock
<1>2. CASE ChangeNext
    <2>1. PICK rem \in SUBSET chain, add \in SUBSET (ChainBlocks \ chain) :
            VirtualChainChange(rem, add)
        BY <1>2 DEF ChangeNext
    <2>2. UNCHANGED <<stored, binding>>
        BY <2>1 DEF VirtualChainChange
    <2>3. Sound'
        BY <2>1, SoundChange DEF Senders
    <2>. QED
        BY <2>1, <2>2, <2>3, SendersElse, WaitingChange
<1>3. CASE ResolveNext
    BY <1>3, SendersResolution, WaitingResolution DEF ResolveNext
<1>4. ASSUME UNCHANGED <<dbVars, chain, late>>,
             requests' \cup answers' \subseteq requests \cup answers \cup pending
      PROVE  IndInv'
    <2>1. Sound'
        BY <1>4, SoundIdle DEF Senders, table, dbVars
    <2>. QED
        BY <1>4, <2>1, SendersElse, WaitingElse DEF dbVars
<1>5. CASE AnswerNext
    <2>1. PICK d \in Daas, t \in Txs : AnswerSender(d, t) \/ RefuseSender(d, t)
        BY <1>5 DEF AnswerNext
    <2>2. UNCHANGED <<dbVars, chain, late>>
        BY <2>1 DEF AnswerSender, RefuseSender
    <2>3. requests' \cup answers' \subseteq requests \cup answers \cup pending
        BY <2>1 DEF AnswerSender, RefuseSender
    <2>. QED
        BY <1>4, <2>2, <2>3
<1>6. CASE Restart
    BY <1>4, <1>6 DEF Restart, Resumed
<1>7. CASE UNCHANGED vars
    BY <1>4, <1>7 DEF vars
<1>. QED
    BY <1>1, <1>2, <1>3, <1>5, <1>6, <1>7 DEF Next

\* A sender that is stored is the owner of the first input, whether it was found
\* at the parent's output 0 in handle_transaction or came from the node in
\* handle_sender_address.
THEOREM SenderTheorem == Spec => []SenderTrue
<1>1. IndInv => SenderTrue
    BY DEF IndInv, Senders
<1>. QED
    BY IndInvInit, IndInvStep, <1>1, PTL DEF Spec

\* The messages of a group have the one sender the group is bound to
\* (group_sender_binding), however its messages were resolved.
THEOREM GroupTheorem == Spec => []GroupHasOneSender
<1>1. IndInv => GroupHasOneSender
    BY DEF IndInv, Senders
<1>. QED
    BY IndInvInit, IndInvStep, <1>1, PTL DEF Spec

\* An accepted message that waits for its sender has the pending row from which
\* handle_connect asks again, except when it was seen after its acceptance.
THEOREM PendingTheorem == Spec => []OpenIsPending
<1>1. IndInv => OpenIsPending
    BY DEF IndInv, Waiting
<1>. QED
    BY IndInvInit, IndInvStep, <1>1, PTL DEF Spec
=============================================================================
