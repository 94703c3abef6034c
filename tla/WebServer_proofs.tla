-------------------------- MODULE WebServer_proofs ---------------------------
(***************************************************************************)
(* The thread of a reply, for every table of contents, every plan of       *)
(* failures and every moderation that goes on while it is looked up.       *)
(***************************************************************************)
EXTENDS WebServer, FiniteSetTheorems, SequenceTheorems, TLAPS

Ids(D)      == {c.tx : c \in D}
RefOf(D, tx)  == (CHOOSE c \in D : c.tx = tx).ref
KindOf(D, tx) == (CHOOSE c \in D : c.tx = tx).kind
Age(D) == CHOOSE age \in [Ids(D) -> 0 .. Cardinality(D)] :
            \A c \in D : c.kind = "reply" /\ c.ref \in Ids(D) => age[c.ref] < age[c.tx]

\* Contents with their fields, of which no two have one id.
Keyed(D) == /\ \A c \in D : {"tx", "kind", "ref"} \subseteq DOMAIN c
            /\ \A c, e \in D : c.tx = e.tx => c = e
\* The rows there are now are rows of the first tables, but for their text.
FromDb(D, D0) == \A c \in D : \E e \in D0 : c.tx = e.tx /\ c.kind = e.kind /\ c.ref = e.ref

LEMMA KeyedEntry ==
    ASSUME NEW D, Keyed(D), NEW c \in D
    PROVE  (CHOOSE e \in D : e.tx = c.tx) = c /\ RefOf(D, c.tx) = c.ref /\ KindOf(D, c.tx) = c.kind
<1>1. PICK e : e = CHOOSE x \in D : x.tx = c.tx
    OBVIOUS
<1>2. e \in D /\ e.tx = c.tx
    BY <1>1, Zenon
<1>3. e = c
    BY <1>2, Zenon DEF Keyed
<1>. QED
    BY <1>1, <1>3, Zenon DEF RefOf, KindOf

-----------------------------------------------------------------------------
(* A lookup.                                                               *)

Same(x, y) == x.tx = y.tx /\ x.kind = y.kind

\* The statements that complete an item leave what it is.
LEMMA EnrichKeeps ==
    ASSUME NEW db, NEW x, NEW steps, NEW me, {"tx", "kind"} \subseteq DOMAIN x
    PROVE  Same(Enrich(db, <<x>>, steps, me)[1], x)
<1>. DEFINE OneOf(items) == DOMAIN items = {1} /\ {"tx", "kind"} \subseteq DOMAIN items[1] /\ Same(items[1], x)
<1>1. OneOf(<<x>>)
    BY DEF Same
<1>2. \A items : OneOf(items) => OneOf(EnrichEdited(db, items))
    BY DEF EnrichEdited, Same
<1>3. \A items : OneOf(items) => OneOf(EnrichTips(db, items))
    BY DEF EnrichTips, Same
<1>4. \A items : OneOf(items) => OneOf(EnrichPolls(db, items, me))
    BY DEF EnrichPolls, Same
<1>. HIDE DEF OneOf
<1>5. OneOf(Enrich(db, <<x>>, steps, me))
    BY <1>1, <1>2, <1>3, <1>4, Zenon DEF Enrich
<1>. USE DEF OneOf
<1>. QED
    BY <1>5

\* get_content_by_id finds the content of that id and says what it is, or
\* finds nothing.
LEMMA Found ==
    ASSUME NEW db, Keyed(db.contents), NEW tx, NEW me
    PROVE  /\ tx \notin Ids(db.contents) => ContentById(db, tx, me) = <<>>
           /\ tx \in Ids(db.contents) =>
                /\ ContentById(db, tx, me) # <<>>
                /\ ContentById(db, tx, me)[1].ref = RefOf(db.contents, tx)
                /\ ContentById(db, tx, me)[1].item.tx = tx
                /\ ContentById(db, tx, me)[1].item.kind = KindOf(db.contents, tx)
                /\ {"tx", "kind"} \subseteq DOMAIN ContentById(db, tx, me)[1].item
<1>1. ASSUME tx \notin Ids(db.contents)
      PROVE  ContentById(db, tx, me) = <<>>
    <2>1. ContentOf(db, tx) = {}
        BY <1>1, Zenon DEF ContentOf, Ids
    <2>2. Cardinality(ContentOf(db, tx)) = 0
        BY <2>1, FS_EmptySet
    <2>. QED
        BY <2>2 DEF ContentById
<1>2. ASSUME NEW c \in db.contents, c.tx = tx
      PROVE  /\ ContentById(db, tx, me) # <<>>
             /\ ContentById(db, tx, me)[1].ref = RefOf(db.contents, tx)
             /\ ContentById(db, tx, me)[1].item.tx = tx
             /\ ContentById(db, tx, me)[1].item.kind = KindOf(db.contents, tx)
             /\ {"tx", "kind"} \subseteq DOMAIN ContentById(db, tx, me)[1].item
    <2>1. ContentOf(db, tx) = {c}
        BY <1>2, Zenon DEF ContentOf, Keyed
    <2>2. Cardinality(ContentOf(db, tx)) = 1
        BY <2>1, FS_Singleton
    <2>3. (CHOOSE e \in ContentOf(db, tx) : TRUE) = c
        BY <2>1
    <2>4. PICK item : item = ContentByIdItem(db, c, me)
        OBVIOUS
    <2>5. PICK f : f = ContentById(db, tx, me)
        OBVIOUS
    <2>6. f = [i \in 1 .. 1 |->
                 [blocked |-> Blocks(db, me, c.by), ref |-> c.ref, item |-> item,
                  steps |-> IF c.kind = "reply" THEN {"edited", "tips"} ELSE {"edited", "tips", "polls"}]]
        BY <2>2, <2>3, <2>4, <2>5, Zenon DEF ContentById
    <2>7. f # <<>> /\ f[1].ref = c.ref /\ f[1].item = item
        BY <2>6
    <2>8. item.tx = c.tx /\ item.kind = c.kind /\ {"tx", "kind"} \subseteq DOMAIN item
        BY <2>4 DEF ContentByIdItem, Item
    <2>9. RefOf(db.contents, tx) = c.ref /\ KindOf(db.contents, tx) = c.kind
        BY <1>2, KeyedEntry
    <2>. QED
        BY <1>2, <2>5, <2>7, <2>8, <2>9
<1>. QED
    BY <1>1, <1>2, Zenon DEF Ids

-----------------------------------------------------------------------------
(* The tables while a thread is looked up.                                 *)

TablesOk(db, D0) == {"contents", "serial"} \subseteq DOMAIN db /\ Keyed(db.contents) /\ FromDb(db.contents, D0)

\* A row put into another table, or taken from any.
LEMMA InsertKeeps ==
    ASSUME NEW db, NEW D0, TablesOk(db, D0), NEW table, table # "contents", NEW row
    PROVE  TablesOk(Insert(db, table, row), D0) /\ Insert(db, table, row).contents = db.contents
<1>1. PICK id : id = db.serial[table] + 1
    OBVIOUS
<1>2. PICK one : one = [db EXCEPT ![table] = @ \cup {[id |-> id] @@ row}]
    OBVIOUS
<1>3. PICK two : two = Insert(db, table, row)
    OBVIOUS
<1>4. DOMAIN one = DOMAIN db /\ one.contents = db.contents
    BY <1>2 DEF TablesOk
<1>5. two = [one EXCEPT !.serial[table] = id]
    BY <1>1, <1>2, <1>3, Zenon DEF Insert
<1>6. DOMAIN two = DOMAIN one /\ two.contents = one.contents
    BY <1>4, <1>5 DEF TablesOk
<1>. QED
    BY <1>3, <1>4, <1>6, Zenon DEF TablesOk

\* A subset of the rows, or the rows with another text.
LEMMA FewerKeeps ==
    ASSUME NEW D, NEW D0, Keyed(D), FromDb(D, D0), NEW E \in SUBSET D
    PROVE  Keyed(E) /\ FromDb(E, D0) /\ Ids(E) \subseteq Ids(D)
BY Zenon DEF Keyed, FromDb, Ids

Edited(D, tx, time, text) ==
  {IF c.tx = tx THEN [c EXCEPT !.text = text, !.edited = time] ELSE c : c \in D}

LEMMA EditKeeps ==
    ASSUME NEW D, NEW D0, Keyed(D), FromDb(D, D0), NEW tx, NEW time, NEW text,
           NEW E, E = Edited(D, tx, time, text)
    PROVE  Keyed(E) /\ FromDb(E, D0) /\ Ids(E) \subseteq Ids(D)
<1>. DEFINE New(c) == IF c.tx = tx THEN [c EXCEPT !.text = text, !.edited = time] ELSE c
<1>1. \A c \in D : DOMAIN New(c) = DOMAIN c /\ New(c).tx = c.tx /\ New(c).kind = c.kind /\ New(c).ref = c.ref
    <2>. TAKE c \in D
    <2>1. {"tx", "kind", "ref"} \subseteq DOMAIN c
        BY Zenon DEF Keyed
    <2>2. PICK b : b = [c EXCEPT !.text = text]
        OBVIOUS
    <2>3. DOMAIN b = DOMAIN c /\ b.tx = c.tx /\ b.kind = c.kind /\ b.ref = c.ref
        BY <2>1, <2>2
    <2>4. PICK a : a = [b EXCEPT !.edited = time]
        OBVIOUS
    <2>5. DOMAIN a = DOMAIN b /\ a.tx = b.tx /\ a.kind = b.kind /\ a.ref = b.ref
        BY <2>1, <2>3, <2>4
    <2>6. New(c) = a \/ New(c) = c
        BY <2>2, <2>4
    <2>. QED
        BY <2>3, <2>5, <2>6
<1>2. \A e \in E : \E c \in D : e = New(c)
    BY DEF Edited
<1>. HIDE DEF New
<1>3. Keyed(E)
    <2>1. \A e \in E : {"tx", "kind", "ref"} \subseteq DOMAIN e
        BY <1>1, <1>2 DEF Keyed
    <2>2. ASSUME NEW a \in E, NEW b \in E, a.tx = b.tx
          PROVE  a = b
        <3>1. PICK x \in D : a = New(x)
            BY <1>2
        <3>2. PICK y \in D : b = New(y)
            BY <1>2
        <3>3. x.tx = y.tx
            BY <1>1, <2>2, <3>1, <3>2
        <3>4. x = y
            BY <3>3, Zenon DEF Keyed
        <3>. QED
            BY <3>1, <3>2, <3>4
    <2>. QED
        BY <2>1, <2>2 DEF Keyed
<1>4. FromDb(E, D0)
    <2>. SUFFICES ASSUME NEW e \in E
                  PROVE  \E o \in D0 : e.tx = o.tx /\ e.kind = o.kind /\ e.ref = o.ref
        BY Zenon DEF FromDb
    <2>1. PICK c \in D : e = New(c)
        BY <1>2
    <2>2. PICK o \in D0 : c.tx = o.tx /\ c.kind = o.kind /\ c.ref = o.ref
        BY Zenon DEF FromDb
    <2>. QED
        BY <1>1, <2>1, <2>2
<1>5. Ids(E) \subseteq Ids(D)
    <2>. SUFFICES ASSUME NEW e \in E
                  PROVE  e.tx \in Ids(D)
        BY Zenon DEF Ids
    <2>1. PICK c \in D : e = New(c)
        BY <1>2
    <2>2. e.tx = c.tx
        BY <1>1, <2>1
    <2>. QED
        BY <2>2, Zenon DEF Ids
<1>. QED
    BY <1>3, <1>4, <1>5

\* No write that only moderates brings a content, or makes another of one.
LEMMA WriteKeeps ==
    ASSUME NEW D0, TablesOk(d, D0), NEW w, Moderates(w)
    PROVE  TablesOk(Written(w), D0) /\ Ids(Written(w).contents) \subseteq Ids(d.contents)
<1>0. {"contents", "serial"} \subseteq DOMAIN d /\ Keyed(d.contents) /\ FromDb(d.contents, D0)
    BY DEF TablesOk
<1>1. CASE w.op = "delete"
    <2>1. Written(w) = HardDelete(d, w.tx)
        BY <1>1 DEF Written
    <2>2. PICK E : E = {c \in d.contents : c.tx # w.tx}
        OBVIOUS
    <2>3. PICK one : one = [d EXCEPT !.contents = {c \in @ : c.tx # w.tx}]
        OBVIOUS
    <2>4. DOMAIN one = DOMAIN d /\ one.contents = E
        BY <1>0, <2>2, <2>3
    <2>5. PICK two : two = [one EXCEPT !.votes = {v \in @ : v.post # w.tx}]
        OBVIOUS
    <2>6. DOMAIN two = DOMAIN d /\ two.contents = E
        BY <1>0, <2>4, <2>5
    <2>7. PICK three : three = [two EXCEPT !.mentions = {m \in @ : m.content # w.tx}]
        OBVIOUS
    <2>8. DOMAIN three = DOMAIN d /\ three.contents = E
        BY <1>0, <2>6, <2>7
    <2>9. HardDelete(d, w.tx) = three
        BY <2>3, <2>5, <2>7, Zenon DEF HardDelete
    <2>10. Keyed(E) /\ FromDb(E, D0) /\ Ids(E) \subseteq Ids(d.contents)
        BY <1>0, <2>2, FewerKeeps
    <2>. QED
        BY <1>0, <2>1, <2>8, <2>9, <2>10, Zenon DEF TablesOk
<1>2. CASE w.op = "withdraw"
    <2>1. Written(w) = Withdraw(d, w.table, w.row)
        BY <1>2 DEF Written
    <2>2. PICK one : one = [d EXCEPT ![w.table] = @ \ {w.row}]
        OBVIOUS
    <2>3. DOMAIN one = DOMAIN d /\ one.contents \in SUBSET d.contents
        BY <1>0, <2>2
    <2>4. Written(w) = one
        BY <2>1, <2>2, Zenon DEF Withdraw
    <2>. QED
        BY <1>0, <2>3, <2>4, FewerKeeps, Zenon DEF TablesOk
<1>3. CASE w.op = "edit"
    <2>1. Written(w) = EditText(d, w.tx, w.time, w.text)
        BY <1>3 DEF Written
    <2>2. PICK E : E = Edited(d.contents, w.tx, w.time, w.text)
        OBVIOUS
    <2>3. PICK one : one = [d EXCEPT !.contents = E]
        OBVIOUS
    <2>4. DOMAIN one = DOMAIN d /\ one.contents = E
        BY <1>0, <2>3
    <2>5. Written(w) = one
        BY <2>1, <2>2, <2>3, Zenon DEF EditText, Edited
    <2>6. Keyed(E) /\ FromDb(E, D0) /\ Ids(E) \subseteq Ids(d.contents)
        BY <1>0, <2>2, EditKeeps
    <2>. QED
        BY <1>0, <2>4, <2>5, <2>6, Zenon DEF TablesOk
<1>4. CASE w.op = "insert" /\ w.table # "contents"
    <2>1. Written(w) = Insert(d, w.table, w.row)
        BY <1>4 DEF Written
    <2>. QED
        BY <1>4, <2>1, InsertKeeps
<1>5. CASE w.op = "action" /\ w.table # "contents"
    <2>1. Written(w) = SaveAction(d, w.table, w.kind, w.row, w.author)
        BY <1>5 DEF Written
    <2>2. PICK one : one = Insert(d, w.table, w.row)
        OBVIOUS
    <2>3. TablesOk(one, D0) /\ one.contents = d.contents
        BY <1>5, <2>2, InsertKeeps
    <2>4. PICK m : Written(w) = Insert(one, "mentions", m)
        BY <2>1, <2>2, Zenon DEF SaveAction
    <2>5. "mentions" # "contents"
        OBVIOUS
    <2>6. TablesOk(Insert(one, "mentions", m), D0) /\ Insert(one, "mentions", m).contents = one.contents
        BY <2>3, <2>5, InsertKeeps
    <2>. QED
        BY <2>3, <2>4, <2>6
<1>. QED
    BY <1>1, <1>2, <1>3, <1>4, <1>5, Zenon DEF Moderates

-----------------------------------------------------------------------------
(* The chain of a thread: what was asked for, then one ancestor after the other. *)

At(t, i) == IF i = 0 THEN t.post ELSE t.chain[i]
End(t)   == At(t, Len(t.chain))

Linked(t, D0, tx) ==
  /\ DOMAIN t = {"post", "chain", "next", "seen", "steps"}
  /\ \E S : t.chain \in Seq(S)
  /\ t.post.tx = tx
  /\ \A i \in 0 .. Len(t.chain) : At(t, i).tx \in Ids(D0) /\ At(t, i).kind = KindOf(D0, At(t, i).tx)
  /\ \A i \in 1 .. Len(t.chain) : At(t, i - 1).kind = "reply" /\ At(t, i).tx = RefOf(D0, At(t, i - 1).tx)

\* There is a parent to look up; every content seen is as young as the end.
Going(t, D0) ==
  /\ t.next = <<RefOf(D0, End(t).tx)>> /\ End(t).kind = "reply" /\ t.steps = Len(t.chain)
  /\ \A s \in t.seen : s \in Ids(D0) /\ Age(D0)[End(t).tx] <= Age(D0)[s]
\* There is none: the end is no reply, or its parent was lost.
Ended(t, lost) == t.next = <<>> /\ (End(t).kind = "reply" => lost)
Lost(t, D0, D, failed) == failed \/ RefOf(D0, End(t).tx) \notin Ids(D)

LEMMA SameEntry ==
    ASSUME NEW D, NEW D0, Keyed(D), Keyed(D0), FromDb(D, D0), NEW tx \in Ids(D)
    PROVE  tx \in Ids(D0) /\ RefOf(D, tx) = RefOf(D0, tx) /\ KindOf(D, tx) = KindOf(D0, tx)
<1>1. PICK c \in D : c.tx = tx
    BY Zenon DEF Ids
<1>2. PICK e \in D0 : c.tx = e.tx /\ c.kind = e.kind /\ c.ref = e.ref
    BY Zenon DEF FromDb
<1>3. RefOf(D, c.tx) = c.ref /\ KindOf(D, c.tx) = c.kind
    BY KeyedEntry
<1>4. RefOf(D0, e.tx) = e.ref /\ KindOf(D0, e.tx) = e.kind
    BY KeyedEntry
<1>5. e.tx \in Ids(D0)
    BY Zenon DEF Ids
<1>. QED
    BY <1>1, <1>2, <1>3, <1>4, <1>5

\* The parent of a reply is older than the reply.
LEMMA Older ==
    ASSUME NEW D0, IsFiniteSet(D0), Keyed(D0), Descends(D0)
    PROVE  /\ \A x \in Ids(D0) : Age(D0)[x] \in Nat
           /\ \A x \in Ids(D0) : KindOf(D0, x) = "reply" /\ RefOf(D0, x) \in Ids(D0)
                                   => Age(D0)[RefOf(D0, x)] < Age(D0)[x]
<1>1. \E age \in [Ids(D0) -> 0 .. Cardinality(D0)] :
         \A c \in D0 : c.kind = "reply" /\ c.ref \in Ids(D0) => age[c.ref] < age[c.tx]
    BY Zenon DEF Descends, Ids
<1>2. /\ Age(D0) \in [Ids(D0) -> 0 .. Cardinality(D0)]
      /\ \A c \in D0 : c.kind = "reply" /\ c.ref \in Ids(D0) => Age(D0)[c.ref] < Age(D0)[c.tx]
    BY <1>1, Zenon DEF Age
<1>3. Cardinality(D0) \in Nat
    BY FS_CardinalityType
<1>4. ASSUME NEW x \in Ids(D0), KindOf(D0, x) = "reply", RefOf(D0, x) \in Ids(D0)
      PROVE  Age(D0)[RefOf(D0, x)] < Age(D0)[x]
    <2>1. PICK c \in D0 : c.tx = x
        BY Zenon DEF Ids
    <2>2. RefOf(D0, x) = c.ref /\ KindOf(D0, x) = c.kind
        BY <2>1, KeyedEntry
    <2>. QED
        BY <1>2, <1>4, <2>1, <2>2
<1>. QED
    BY <1>2, <1>3, <1>4

\* What a lookup shows of a content that is there.
LEMMA FoundNow ==
    ASSUME NEW db, NEW D0, TablesOk(db, D0), Keyed(D0), NEW tx \in Ids(db.contents), NEW me,
           NEW found, found = ContentById(db, tx, me), NEW x, x = Looked(db, found[1], me)
    PROVE  /\ found # <<>> /\ tx \in Ids(D0)
           /\ x.tx = tx /\ x.kind = KindOf(D0, tx)
           /\ KindOf(D0, tx) = "reply" => ParentOf(found[1]) = <<RefOf(D0, tx)>>
           /\ KindOf(D0, tx) # "reply" => ParentOf(found[1]) = <<>>
<1>1. /\ found # <<>> /\ found[1].ref = RefOf(db.contents, tx) /\ found[1].item.tx = tx
      /\ found[1].item.kind = KindOf(db.contents, tx) /\ {"tx", "kind"} \subseteq DOMAIN found[1].item
    BY Found DEF TablesOk
<1>2. tx \in Ids(D0) /\ RefOf(db.contents, tx) = RefOf(D0, tx) /\ KindOf(db.contents, tx) = KindOf(D0, tx)
    BY SameEntry DEF TablesOk
<1>3. Same(Looked(db, found[1], me), found[1].item)
    BY <1>1, EnrichKeeps DEF Looked
<1>. QED
    BY <1>1, <1>2, <1>3 DEF Same, ParentOf

LEMMA StartLinked ==
    ASSUME NEW db, NEW D0, TablesOk(db, D0), IsFiniteSet(D0), Keyed(D0), Descends(D0),
           NEW q, q.tx[1] \in Ids(db.contents), NEW t, t = ThreadStart(db, q)
    PROVE  Linked(t, D0, q.tx[1]) /\ (Going(t, D0) \/ Ended(t, FALSE))
<1>1. PICK found : found = ContentById(db, q.tx[1], q.me[1])
    OBVIOUS
<1>2. PICK x : x = Looked(db, found[1], q.me[1])
    OBVIOUS
<1>3. PICK parent : parent = ParentOf(found[1])
    OBVIOUS
<1>4. t = [post |-> x, chain |-> <<>>, next |-> parent, seen |-> {q.tx[1]}, steps |-> 0]
    BY <1>1, <1>2, <1>3, Zenon DEF ThreadStart
<1>5. PICK tx : tx = q.tx[1]
    OBVIOUS
<1>6. /\ tx \in Ids(D0) /\ x.tx = tx /\ x.kind = KindOf(D0, tx)
      /\ KindOf(D0, tx) = "reply" => parent = <<RefOf(D0, tx)>>
      /\ KindOf(D0, tx) # "reply" => parent = <<>>
    BY <1>1, <1>2, <1>3, <1>5, FoundNow
<1>7. /\ DOMAIN t = {"post", "chain", "next", "seen", "steps"} /\ t.post = x /\ t.chain = <<>>
      /\ t.next = parent /\ t.seen = {tx} /\ t.steps = 0
    BY <1>4, <1>5
<1>8. Len(t.chain) = 0 /\ End(t) = x /\ At(t, 0) = x
    BY <1>7 DEF End, At
<1>9. Linked(t, D0, tx)
    <2>1. t.chain \in Seq({})
        BY <1>7
    <2>2. \A i \in 0 .. Len(t.chain) : i = 0
        BY <1>8
    <2>3. \A i \in 1 .. Len(t.chain) : FALSE
        BY <1>8
    <2>. QED
        BY <1>6, <1>7, <1>8, <2>1, <2>2, <2>3, Zenon DEF Linked
<1>10. CASE KindOf(D0, tx) = "reply"
    <2>1. Age(D0)[tx] \in Nat
        BY <1>6, Older
    <2>2. Age(D0)[tx] <= Age(D0)[tx]
        BY <2>1
    <2>3. Going(t, D0)
        BY <1>6, <1>7, <1>8, <1>10, <2>2, Zenon DEF Going
    <2>. QED
        BY <1>5, <1>9, <2>3
<1>11. CASE KindOf(D0, tx) # "reply"
    BY <1>5, <1>6, <1>7, <1>8, <1>9, <1>11 DEF Ended
<1>. QED
    BY <1>10, <1>11

\* Another ancestor at the end of the chain.
LEMMA ChainGrows ==
    ASSUME NEW t, NEW u, NEW D0, NEW tx, Linked(t, D0, tx), NEW x,
           DOMAIN u = DOMAIN t, u.post = t.post, u.chain = Append(t.chain, x),
           x.tx \in Ids(D0), x.kind = KindOf(D0, x.tx), End(t).kind = "reply", x.tx = RefOf(D0, End(t).tx)
    PROVE  Linked(u, D0, tx) /\ End(u) = x /\ Len(u.chain) = Len(t.chain) + 1
<1>1. PICK S : t.chain \in Seq(S)
    BY Zenon DEF Linked
<1>2. PICK n : n = Len(t.chain)
    OBVIOUS
<1>3. n \in Nat
    BY <1>1, <1>2
<1>4. u.chain \in Seq(S \cup {x})
    <2>1. t.chain \in Seq(S \cup {x})
        <3>1. S \subseteq S \cup {x}
            OBVIOUS
        <3>. QED
            BY <1>1, <3>1, SeqMonotonic
    <2>. QED
        BY <2>1, AppendProperties
<1>5. Len(u.chain) = n + 1 /\ u.chain[n + 1] = x /\ \A i \in 1 .. n : u.chain[i] = t.chain[i]
    BY <1>1, <1>2
<1>6. At(u, n + 1) = x /\ \A i \in 0 .. n : At(u, i) = At(t, i)
    <2>1. n + 1 # 0 /\ \A i \in 0 .. n : i # 0 => i \in 1 .. n
        BY <1>3
    <2>. QED
        BY <1>5, <2>1, Zenon DEF At
<1>7. End(u) = x
    BY <1>5, <1>6, Zenon DEF End
<1>8. \A i \in 0 .. n + 1 : i \in 0 .. n \/ i = n + 1
    BY <1>3
<1>9. \A i \in 1 .. n + 1 : i - 1 \in 0 .. n /\ (i \in 1 .. n \/ (i = n + 1 /\ i - 1 = n)) /\ i \in 0 .. n + 1
    BY <1>3
<1>10. At(t, n).kind = "reply" /\ x.tx = RefOf(D0, At(t, n).tx)
    BY <1>2, Zenon DEF End
<1>11. \A i \in 0 .. n + 1 : At(u, i).tx \in Ids(D0) /\ At(u, i).kind = KindOf(D0, At(u, i).tx)
    <2>. TAKE i \in 0 .. n + 1
    <2>1. CASE i \in 0 .. n
        BY <1>2, <1>6, <2>1, Zenon DEF Linked
    <2>2. CASE i = n + 1
        BY <1>6, <2>2, Zenon
    <2>. QED
        BY <1>8, <2>1, <2>2
<1>12. \A i \in 1 .. n + 1 : At(u, i - 1).kind = "reply" /\ At(u, i).tx = RefOf(D0, At(u, i - 1).tx)
    <2>. TAKE i \in 1 .. n + 1
    <2>0. At(u, i - 1) = At(t, i - 1)
        BY <1>6, <1>9
    <2>1. CASE i \in 1 .. n
        <3>1. i \in 0 .. n
            BY <1>3, <2>1
        <3>. QED
            BY <1>2, <1>6, <2>0, <2>1, <3>1, Zenon DEF Linked
    <2>2. CASE i = n + 1 /\ i - 1 = n
        BY <1>6, <1>10, <2>0, <2>2, Zenon
    <2>. QED
        BY <1>9, <2>1, <2>2
<1>. QED
    BY <1>2, <1>4, <1>5, <1>7, <1>11, <1>12, Zenon DEF Linked

\* A lookup goes on with an older content or ends the chain: at a content that
\* is no reply, or because it failed or its content is gone.
LEMMA StepLinked ==
    ASSUME NEW db, NEW D0, TablesOk(db, D0), IsFiniteSet(D0), Keyed(D0), Descends(D0),
           NEW t, NEW tx, Linked(t, D0, tx), Going(t, D0), NEW me, NEW fails \in BOOLEAN,
           NEW u, u = ThreadStep(db, t, me, fails)
    PROVE  Linked(u, D0, tx) /\ (Going(u, D0) \/ Ended(u, Lost(u, D0, db.contents, fails)))
<1>1. PICK found : found = IF fails THEN <<>> ELSE ContentById(db, t.next[1], me)
    OBVIOUS
<1>2. PICK p : p = RefOf(D0, End(t).tx)
    OBVIOUS
<1>3. t.next[1] = p /\ End(t).kind = "reply" /\ t.steps = Len(t.chain)
    BY <1>2 DEF Going
<1>4. PICK x : x = Looked(db, found[1], me)
    OBVIOUS
<1>5. /\ DOMAIN u = DOMAIN t /\ u.post = t.post /\ u.steps = t.steps + 1 /\ u.seen = t.seen \cup {p}
      /\ u.next = (IF found = <<>> THEN <<>> ELSE ParentOf(found[1]))
      /\ u.chain = (IF found = <<>> THEN t.chain ELSE Append(t.chain, x))
    <2>1. u = [t EXCEPT !.steps = @ + 1, !.seen = @ \cup {t.next[1]},
                        !.next = IF found = <<>> THEN <<>> ELSE ParentOf(found[1]),
                        !.chain = IF found = <<>> THEN @ ELSE Append(@, x)]
        BY <1>1, <1>4, Zenon DEF ThreadStep
    <2>2. DOMAIN t = {"post", "chain", "next", "seen", "steps"}
        BY Zenon DEF Linked
    <2>. QED
        BY <1>3, <2>1, <2>2
<1>6. CASE found = <<>>
    <2>1. u.chain = t.chain /\ u.next = <<>>
        BY <1>5, <1>6
    <2>2. \A i : At(u, i) = At(t, i)
        BY <1>5, <2>1, Zenon DEF At
    <2>3. End(u) = End(t)
        BY <2>1, <2>2, Zenon DEF End
    <2>4. Linked(u, D0, tx)
        <3>1. DOMAIN u = DOMAIN t /\ u.post = t.post /\ u.chain = t.chain
            BY <1>5, <2>1
        <3>2. PICK n : n = Len(t.chain)
            OBVIOUS
        <3>3. /\ \A i \in 0 .. n : At(u, i).tx \in Ids(D0) /\ At(u, i).kind = KindOf(D0, At(u, i).tx)
              /\ \A i \in 1 .. n : At(u, i - 1).kind = "reply" /\ At(u, i).tx = RefOf(D0, At(u, i - 1).tx)
            <4>1. \A i \in 0 .. n : At(t, i).tx \in Ids(D0) /\ At(t, i).kind = KindOf(D0, At(t, i).tx)
                BY <3>2, Zenon DEF Linked
            <4>2. \A i \in 1 .. n : At(t, i - 1).kind = "reply" /\ At(t, i).tx = RefOf(D0, At(t, i - 1).tx)
                BY <3>2, Zenon DEF Linked
            <4>. QED
                BY <2>2, <4>1, <4>2
        <3>4. DOMAIN t = {"post", "chain", "next", "seen", "steps"} /\ (\E S : t.chain \in Seq(S)) /\ t.post.tx = tx
            BY Zenon DEF Linked
        <3>. QED
            BY <3>1, <3>2, <3>3, <3>4, Zenon DEF Linked
    <2>5. fails \/ p \notin Ids(db.contents)
        <3>1. ASSUME ~fails, p \in Ids(db.contents)
              PROVE  FALSE
            <4>1. found = ContentById(db, p, me)
                BY <1>1, <1>3, <3>1, Zenon
            <4>. QED
                BY <1>6, <3>1, <4>1, FoundNow
        <3>. QED
            BY <3>1
    <2>. QED
        BY <1>2, <2>1, <2>3, <2>4, <2>5, Zenon DEF Ended, Lost
<1>7. CASE found # <<>>
    <2>1. ~fails /\ found = ContentById(db, p, me)
        BY <1>1, <1>3, <1>7, Zenon
    <2>2. p \in Ids(db.contents)
        BY <1>7, <2>1, Found DEF TablesOk
    <2>3. /\ p \in Ids(D0) /\ x.tx = p /\ x.kind = KindOf(D0, p)
          /\ KindOf(D0, p) = "reply" => ParentOf(found[1]) = <<RefOf(D0, p)>>
          /\ KindOf(D0, p) # "reply" => ParentOf(found[1]) = <<>>
        BY <1>4, <2>1, <2>2, FoundNow
    <2>4. u.chain = Append(t.chain, x) /\ u.next = ParentOf(found[1])
        BY <1>5, <1>7
    <2>5. Linked(u, D0, tx) /\ End(u) = x /\ Len(u.chain) = Len(t.chain) + 1
        BY <1>2, <1>3, <1>5, <2>3, <2>4, ChainGrows
    <2>6. CASE KindOf(D0, p) # "reply"
        BY <2>3, <2>4, <2>5, <2>6 DEF Ended
    <2>7. CASE KindOf(D0, p) = "reply"
        <3>1. PICK e : e = End(t).tx
            OBVIOUS
        <3>2. e \in Ids(D0) /\ KindOf(D0, e) = "reply"
            <4>1. \E S : t.chain \in Seq(S)
                BY Zenon DEF Linked
            <4>2. Len(t.chain) \in 0 .. Len(t.chain)
                BY <4>1
            <4>. QED
                BY <1>3, <3>1, <4>2, Zenon DEF Linked, End
        <3>3. Age(D0)[p] < Age(D0)[e]
            BY <1>2, <2>3, <3>1, <3>2, Older
        <3>4. \A s \in u.seen : s \in Ids(D0) /\ Age(D0)[p] <= Age(D0)[s]
            <4>. TAKE s \in u.seen
            <4>1. Age(D0)[p] \in Nat /\ Age(D0)[e] \in Nat
                BY <2>3, <3>2, Older
            <4>2. CASE s = p
                BY <2>3, <4>1, <4>2
            <4>3. CASE s \in t.seen
                <5>1. s \in Ids(D0) /\ Age(D0)[e] <= Age(D0)[s]
                    BY <3>1, <4>3, Zenon DEF Going
                <5>2. Age(D0)[s] \in Nat
                    BY <5>1, Older
                <5>. QED
                    BY <3>3, <4>1, <5>1, <5>2
            <4>. QED
                BY <1>5, <4>2, <4>3
        <3>5. u.steps = Len(u.chain)
            BY <1>3, <1>5, <2>5
        <3>6. u.next = <<RefOf(D0, End(u).tx)>> /\ End(u).kind = "reply" /\ End(u).tx = p
            BY <2>3, <2>4, <2>5, <2>7
        <3>7. Going(u, D0)
            BY <3>4, <3>5, <3>6, Zenon DEF Going
        <3>. QED
            BY <2>5, <3>7
    <2>. QED
        BY <2>6, <2>7
<1>. QED
    BY <1>6, <1>7

-----------------------------------------------------------------------------
(* The answer.                                                             *)

\* What ThreadWhole says of the items shown.
Whole(items, tx, D0, D, failed) ==
  /\ items # <<>> /\ Last(items).tx = tx
  /\ \A i \in 1 .. Len(items) - 1 : items[i + 1].kind = "reply" /\ items[i].tx = RefOf(D0, items[i + 1].tx)
  /\ Len(items) <= MaxAncestors + 1
  /\ Len(items) <= MaxAncestors /\ Head(items).kind = "reply" => failed \/ RefOf(D0, Head(items).tx) \notin Ids(D)

\* The nearest ancestors in the order of the answer, whatever was left out.
LEMMA AnswerShows ==
    ASSUME NEW t, NEW D0, NEW tx, Linked(t, D0, tx), NEW items, items = ThreadAnswer(t)
    PROVE  \E m \in Nat :
             /\ m = IF Len(t.chain) <= MaxAncestors THEN Len(t.chain) ELSE MaxAncestors
             /\ m <= Len(t.chain)
             /\ Len(items) = m + 1 /\ (\E S : items \in Seq(S))
             /\ \A k \in 1 .. m + 1 : items[k] = At(t, m + 1 - k)
<1>1. PICK S : t.chain \in Seq(S)
    BY Zenon DEF Linked
<1>2. PICK n : n = Len(t.chain)
    OBVIOUS
<1>3. n \in Nat /\ MaxAncestors \in Nat
    BY <1>1, <1>2, ThreadBounds
<1>4. PICK m : m = IF n <= MaxAncestors THEN n ELSE MaxAncestors
    OBVIOUS
<1>5. m \in Nat /\ m <= n /\ m <= MaxAncestors
    BY <1>3, <1>4
<1>6. Min({n, MaxAncestors}) = m
    <2>1. m \in {n, MaxAncestors} /\ \A y \in {n, MaxAncestors} : m <= y
        BY <1>3, <1>4
    <2>2. \A z \in {n, MaxAncestors} : (\A y \in {n, MaxAncestors} : z <= y) => z = m
        BY <1>3, <1>4
    <2>. QED
        BY <2>1, <2>2 DEF Min
<1>7. PICK near : near = SubSeq(t.chain, 1, m)
    OBVIOUS
<1>8. near \in Seq(S) /\ Len(near) = m /\ \A i \in 1 .. m : near[i] = t.chain[i]
    BY <1>1, <1>2, <1>5, <1>7
<1>9. PICK back : back = Reverse(near)
    OBVIOUS
<1>10. back \in Seq(S) /\ Len(back) = m /\ \A i \in 1 .. m : back[i] = near[m - i + 1]
    <2>1. back = [i \in 1 .. m |-> near[(m - i) + 1]]
        BY <1>8, <1>9 DEF Reverse
    <2>2. \A i \in 1 .. m : (m - i) + 1 \in 1 .. m
        BY <1>5
    <2>3. \A i \in 1 .. m : near[(m - i) + 1] \in S
        BY <1>8, <2>2
    <2>. QED
        BY <1>5, <2>1, <2>3
<1>11. items = back \o <<t.post>>
    BY <1>2, <1>6, <1>7, <1>9, Zenon DEF ThreadAnswer
<1>12. back \in Seq(S \cup {t.post}) /\ <<t.post>> \in Seq(S \cup {t.post})
    <2>1. S \subseteq S \cup {t.post}
        OBVIOUS
    <2>2. <<t.post>> \in Seq(S \cup {t.post})
        OBVIOUS
    <2>. QED
        BY <1>10, <2>1, <2>2, SeqMonotonic
<1>13. items \in Seq(S \cup {t.post})
    BY <1>11, <1>12, ConcatProperties
<1>14. Len(items) = m + 1 /\ items[m + 1] = t.post /\ \A i \in 1 .. m : items[i] = back[i]
    BY <1>5, <1>10, <1>11, <1>12, ConcatProperties
<1>15. \A k \in 1 .. m + 1 : items[k] = At(t, m + 1 - k)
    <2>. TAKE k \in 1 .. m + 1
    <2>1. CASE k = m + 1
        <3>1. m + 1 - k = 0
            BY <1>5, <2>1
        <3>. QED
            BY <1>14, <2>1, <3>1, Zenon DEF At
    <2>2. CASE k # m + 1
        <3>1. k \in 1 .. m /\ m - k + 1 \in 1 .. m /\ m + 1 - k = m - k + 1 /\ m + 1 - k # 0
            BY <1>5, <2>2
        <3>2. items[k] = t.chain[m - k + 1]
            BY <1>8, <1>10, <1>14, <3>1
        <3>3. At(t, m + 1 - k) = t.chain[m + 1 - k]
            BY <3>1, Zenon DEF At
        <3>. QED
            BY <3>1, <3>2, <3>3
    <2>. QED
        BY <2>1, <2>2
<1>16. m = (IF Len(t.chain) <= MaxAncestors THEN Len(t.chain) ELSE MaxAncestors) /\ m <= Len(t.chain)
    BY <1>2, <1>4, <1>5
<1>. QED
    BY <1>5, <1>13, <1>14, <1>15, <1>16

\* A chain that has ended, or has taken all the lookups there are, answers
\* with a whole thread.
LEMMA AnswerWhole ==
    ASSUME NEW t, NEW D0, IsFiniteSet(D0), Keyed(D0), Descends(D0), NEW tx, Linked(t, D0, tx),
           NEW D, NEW failed, Going(t, D0) \/ Ended(t, Lost(t, D0, D, failed)),
           ThreadEnds(t), NEW items, items = ThreadAnswer(t)
    PROVE  Whole(items, tx, D0, D, failed)
<1>1. PICK m \in Nat :
        /\ m = IF Len(t.chain) <= MaxAncestors THEN Len(t.chain) ELSE MaxAncestors
        /\ m <= Len(t.chain)
        /\ Len(items) = m + 1 /\ (\E S : items \in Seq(S))
        /\ \A k \in 1 .. m + 1 : items[k] = At(t, m + 1 - k)
    BY AnswerShows
<1>2. m \in Nat /\ Len(t.chain) \in Nat /\ MaxAncestors \in Nat
    <2>1. \E S : t.chain \in Seq(S)
        BY Zenon DEF Linked
    <2>. QED
        BY <1>1, <2>1, ThreadBounds
<1>3. items # <<>> /\ Last(items).tx = tx
    <2>1. m + 1 \in 1 .. m + 1 /\ m + 1 - (m + 1) = 0
        BY <1>2
    <2>2. items[m + 1] = At(t, 0)
        BY <1>1, <2>1
    <2>3. items[m + 1] = t.post
        BY <2>2, Zenon DEF At
    <2>4. Last(items) = items[m + 1]
        BY <1>1 DEF Last
    <2>5. items # <<>>
        BY <1>1, <1>2
    <2>. QED
        BY <2>3, <2>4, <2>5, Zenon DEF Linked
<1>4. ASSUME NEW i \in 1 .. Len(items) - 1
      PROVE  items[i + 1].kind = "reply" /\ items[i].tx = RefOf(D0, items[i + 1].tx)
    <2>1. /\ i \in 1 .. m + 1 /\ i + 1 \in 1 .. m + 1
          /\ m + 1 - i \in 1 .. Len(t.chain) /\ m + 1 - (i + 1) = (m + 1 - i) - 1
        <3>1. PICK n : n = Len(t.chain)
            OBVIOUS
        <3>2. n \in Nat /\ m \in Nat /\ m <= n /\ Len(items) = m + 1
            BY <1>1, <1>2, <3>1
        <3>3. i \in 1 .. m
            BY <1>4, <3>2
        <3>4. i \in 1 .. m + 1 /\ i + 1 \in 1 .. m + 1 /\ m + 1 - i \in 1 .. n /\ m + 1 - (i + 1) = (m + 1 - i) - 1
            BY <3>2, <3>3
        <3>. QED
            BY <3>1, <3>4
    <2>2. items[i] = At(t, m + 1 - i) /\ items[i + 1] = At(t, (m + 1 - i) - 1)
        BY <1>1, <2>1
    <2>. QED
        BY <2>1, <2>2, Zenon DEF Linked
<1>5. Len(items) <= MaxAncestors + 1
    BY <1>1, <1>2
<1>6. ASSUME Len(items) <= MaxAncestors, Head(items).kind = "reply"
      PROVE  failed \/ RefOf(D0, Head(items).tx) \notin Ids(D)
    <2>1. m = Len(t.chain) /\ Len(t.chain) < MaxAncestors
        BY <1>1, <1>2, <1>6
    <2>2. 1 \in 1 .. m + 1 /\ m + 1 - 1 = m
        BY <1>2
    <2>3. items[1] = At(t, m)
        BY <1>1, <2>2
    <2>4. Head(items) = items[1]
        BY <1>1
    <2>5. Head(items) = End(t)
        BY <2>1, <2>3, <2>4, Zenon DEF End
    <2>6. CASE Ended(t, Lost(t, D0, D, failed))
        BY <1>6, <2>5, <2>6, Zenon DEF Ended, Lost
    <2>7. CASE Going(t, D0)
        <3>1. PICK p : p = RefOf(D0, End(t).tx)
            OBVIOUS
        <3>2. t.next = <<p>> /\ t.steps = Len(t.chain)
            BY <2>7, <3>1, Zenon DEF Going
        <3>3. Range(t.next) = {p}
            BY <3>2 DEF Range
        <3>4. ~(t.steps >= MaxWalk)
            BY <1>2, <2>1, <3>2, ThreadBounds
        <3>5. p \in t.seen
            BY <3>3, <3>4 DEF ThreadEnds
        <3>6. p \in Ids(D0) /\ Age(D0)[End(t).tx] <= Age(D0)[p]
            BY <2>7, <3>5, Zenon DEF Going
        <3>7. End(t).tx \in Ids(D0) /\ KindOf(D0, End(t).tx) = "reply"
            <4>1. Len(t.chain) \in 0 .. Len(t.chain)
                BY <1>2
            <4>. QED
                BY <1>6, <2>5, <4>1, Zenon DEF Linked, End
        <3>8. Age(D0)[p] < Age(D0)[End(t).tx] /\ Age(D0)[p] \in Nat /\ Age(D0)[End(t).tx] \in Nat
            BY <3>1, <3>6, <3>7, Older
        <3>. QED
            BY <3>6, <3>8
    <2>. QED
        BY <2>6, <2>7
<1>. QED
    BY <1>3, <1>4, <1>5, <1>6, Zenon DEF Whole

-----------------------------------------------------------------------------
(* The invariant.                                                          *)

AnyFailed == plan.lookups > plan.fails
Building == /\ ~walk.done /\ DOMAIN req = {"pc", "thread"}
            /\ Linked(req.thread, plan.db.contents, plan.q.tx[1])
            /\ \/ Going(req.thread, plan.db.contents)
               \/ Ended(req.thread, Lost(req.thread, plan.db.contents, d.contents, AnyFailed))
Answered == Whole(walk.items, plan.q.tx[1], plan.db.contents, d.contents, AnyFailed)

ThreadSound ==
  /\ ThreadPlan(plan) /\ TablesOk(d, plan.db.contents)
  /\ DOMAIN walk = {"before", "items", "done", "status", "stuck"}
  /\ req.pc \in {"none", "thread"}
  /\ req.pc = "thread" => Building
  /\ walk.done /\ walk.status = 200 => Answered

ThreadInv == "endpoint" \in DOMAIN plan /\ (plan.endpoint = "thread" => ThreadSound)

\* Fewer fails left, or fewer writes, is a plan of a thread still.
PlanAfter(p, o) ==
  /\ DOMAIN p = DOMAIN o /\ p.endpoint = o.endpoint /\ p.q = o.q /\ p.db = o.db /\ p.lookups = o.lookups
  /\ p.fails \in Nat /\ p.fails <= o.fails /\ p.writes \subseteq o.writes

LEMMA PlanStays ==
    ASSUME NEW p, NEW o, ThreadPlan(o), PlanAfter(p, o)
    PROVE  ThreadPlan(p)
<1>1. /\ o.fails \in Nat /\ o.lookups \in Nat /\ o.fails <= o.lookups
      /\ p.fails \in Nat /\ p.fails <= o.fails /\ p.lookups = o.lookups
    BY Zenon DEF ThreadPlan, PlanAfter
<1>2. p.fails <= p.lookups
    BY <1>1
<1>. QED
    BY <1>1, <1>2, Zenon DEF ThreadPlan, PlanAfter

\* What is lost stays lost: contents only go, and a failure has happened.
LEMMA LostStays ==
    ASSUME NEW t, NEW D0, NEW D, NEW E, Ids(E) \subseteq Ids(D), NEW failed, NEW since, failed => since,
           Ended(t, Lost(t, D0, D, failed))
    PROVE  Ended(t, Lost(t, D0, E, since))
BY Zenon DEF Ended, Lost

LEMMA ServedOther ==
    ASSUME NEW e, NEW cost, NEW answer, Serve(e, cost, answer)
    PROVE  plan.endpoint = e /\ UNCHANGED plan
BY DEF Serve

\* No other endpoint is served to the client of a thread.
OtherEndpoint ==
  \/ GetPosts \/ GetPostsWatching \/ GetFollowing \/ GetMentions \/ GetNotifications
  \/ GetReplies \/ GetHashtag \/ GetEngagement \/ GetTippers \/ GetBroadcasts
  \/ Search \/ SearchForUsers \/ GetPostDetails \/ GetPoll \/ GetUsers \/ GetMostActive
  \/ GetUserDetails \/ GetBlocked \/ GetFollowed \/ GetUsersFollowing \/ GetUsersFollowers
  \/ GetNotificationsCount \/ GetUsersCount \/ GetTrending

LEMMA OtherEndpoints == OtherEndpoint => plan.endpoint # "thread" /\ UNCHANGED plan
<1>1. \A e, cost, answer : Serve(e, cost, answer) => plan.endpoint = e /\ UNCHANGED plan
    BY ServedOther
<1>2. GetPosts \/ GetPostsWatching \/ GetFollowing \/ GetMentions \/ GetNotifications
      => plan.endpoint # "thread" /\ UNCHANGED plan
    BY <1>1 DEF GetPosts, GetPostsWatching, GetFollowing, GetMentions, GetNotifications
<1>3. GetReplies \/ GetHashtag \/ GetEngagement \/ GetTippers \/ GetBroadcasts
      => plan.endpoint # "thread" /\ UNCHANGED plan
    BY <1>1 DEF GetReplies, GetHashtag, GetEngagement, GetTippers, GetBroadcasts
<1>4. Search \/ SearchForUsers \/ GetPostDetails \/ GetPoll \/ GetUsers \/ GetMostActive
      => plan.endpoint # "thread" /\ UNCHANGED plan
    BY <1>1 DEF Search, SearchForUsers, GetPostDetails, GetPoll, GetUsers, GetMostActive
<1>5. GetUserDetails \/ GetBlocked \/ GetFollowed \/ GetUsersFollowing \/ GetUsersFollowers
      => plan.endpoint # "thread" /\ UNCHANGED plan
    BY <1>1 DEF GetUserDetails, GetBlocked, GetFollowed, GetUsersFollowing, GetUsersFollowers
<1>6. GetNotificationsCount \/ GetUsersCount \/ GetTrending => plan.endpoint # "thread" /\ UNCHANGED plan
    BY <1>1 DEF GetNotificationsCount, GetUsersCount, GetTrending
<1>. QED
    BY <1>2, <1>3, <1>4, <1>5, <1>6, Zenon DEF OtherEndpoint

\* What a step keeps when it leaves the thread and its answer alone.
LEMMA Apart ==
    ASSUME ThreadSound, UNCHANGED <<d, req, walk>>, PlanAfter(plan', plan)
    PROVE  ThreadSound'
<1>1. ThreadPlan(plan') /\ plan'.db = plan.db /\ plan'.q = plan.q /\ (AnyFailed => AnyFailed')
    <2>1. ThreadPlan(plan')
        BY PlanStays DEF ThreadSound
    <2>2. /\ plan.fails \in Nat /\ plan'.fails \in Nat /\ plan'.fails <= plan.fails
          /\ plan.lookups \in Nat /\ plan'.lookups = plan.lookups
        BY DEF ThreadSound, ThreadPlan, PlanAfter
    <2>3. AnyFailed => AnyFailed'
        BY <2>2 DEF AnyFailed
    <2>. QED
        BY <2>1, <2>3, Zenon DEF PlanAfter
<1>2. req.pc = "thread" => Building'
    <2>. SUFFICES ASSUME req.pc = "thread"
                  PROVE  Building'
        OBVIOUS
    <2>1. Building
        BY DEF ThreadSound
    <2>2. PICK t : t = req.thread
        OBVIOUS
    <2>3. PICK D0 : D0 = plan.db.contents
        OBVIOUS
    <2>4. Ended(t, Lost(t, D0, d.contents, AnyFailed)) => Ended(t, Lost(t, D0, d.contents, AnyFailed'))
        BY <1>1, LostStays
    <2>5. /\ ~walk.done /\ DOMAIN req = {"pc", "thread"} /\ Linked(t, D0, plan.q.tx[1])
          /\ Going(t, D0) \/ Ended(t, Lost(t, D0, d.contents, AnyFailed))
        BY <2>1, <2>2, <2>3, Zenon DEF Building
    <2>6. req' = req /\ walk' = walk /\ d' = d /\ req'.thread = t /\ plan'.db.contents = D0 /\ plan'.q.tx[1] = plan.q.tx[1]
        BY <1>1, <2>2, <2>3
    <2>. QED
        BY <2>4, <2>5, <2>6 DEF Building
<1>3. walk.done /\ walk.status = 200 => Answered'
    <2>. SUFFICES ASSUME walk.done, walk.status = 200
                  PROVE  Answered'
        OBVIOUS
    <2>1. Answered
        BY DEF ThreadSound
    <2>2. PICK D0 : D0 = plan.db.contents
        OBVIOUS
    <2>3. Whole(walk.items, plan.q.tx[1], D0, d.contents, AnyFailed) => Whole(walk.items, plan.q.tx[1], D0, d.contents, AnyFailed')
        BY <1>1, Zenon DEF Whole
    <2>. QED
        BY <1>1, <2>1, <2>2, <2>3 DEF Answered
<1>. QED
    BY <1>1, <1>2, <1>3 DEF ThreadSound

\* The request of a thread: refused, not found, or its first content.
LEMMA StartAnswers ==
    ASSUME NEW db, NEW D0, TablesOk(db, D0), NEW q, HandleGetThread(db, q).status = 200
    PROVE  q.tx[1] \in Ids(db.contents)
<1>1. ContentById(db, q.tx[1], q.me[1]) # <<>>
    <2>. SUFFICES ASSUME ContentById(db, q.tx[1], q.me[1]) = <<>>
                  PROVE  HandleGetThread(db, q).status # 200
        OBVIOUS
    <2>1. HandleGetThread(db, q) = Refused(400) \/ HandleGetThread(db, q) = Refused(404)
        BY DEF HandleGetThread
    <2>2. Refused(400).status = 400 /\ Refused(404).status = 404
        BY DEF Refused
    <2>. QED
        BY <2>1, <2>2
<1>. QED
    BY <1>1, Found DEF TablesOk

LEMMA SoundGetThread ==
    ASSUME ThreadSound, GetThread
    PROVE  ThreadSound'
<1>1. plan' = plan /\ d' = d /\ ~walk.done /\ req.pc = "none"
    BY DEF GetThread
<1>2. PICK D0 : D0 = plan.db.contents
    OBVIOUS
<1>3. ThreadPlan(plan) /\ TablesOk(d, D0) /\ DOMAIN walk = {"before", "items", "done", "status", "stuck"}
    BY <1>2, Zenon DEF ThreadSound
<1>4. PICK q : q = Request
    OBVIOUS
<1>5. q.tx = plan.q.tx
    BY <1>3, <1>4 DEF Request, ThreadPlan
<1>6. PICK status : status = HandleGetThread(d, q).status
    OBVIOUS
<1>7. \/ UNCHANGED <<req, walk>>
      \/ status = 200 /\ req' = [pc |-> "thread", thread |-> ThreadStart(d, q)] /\ UNCHANGED walk
      \/ status # 200 /\ walk' = [walk EXCEPT !.done = TRUE, !.status = status] /\ UNCHANGED req
    BY <1>4, <1>6 DEF GetThread
<1>8. CASE UNCHANGED <<req, walk>>
    BY <1>1, <1>8 DEF ThreadSound, Building, Answered, AnyFailed
<1>9. CASE status = 200 /\ req' = [pc |-> "thread", thread |-> ThreadStart(d, q)] /\ UNCHANGED walk
    <2>1. q.tx[1] \in Ids(d.contents)
        <3>1. TablesOk(d, D0) /\ HandleGetThread(d, q).status = 200
            BY <1>3, <1>6, <1>9
        <3>2. \A db, r : TablesOk(db, D0) /\ HandleGetThread(db, r).status = 200 => r.tx[1] \in Ids(db.contents)
            BY StartAnswers
        <3>. QED
            BY <3>1, <3>2
    <2>2. IsFiniteSet(D0) /\ Keyed(D0) /\ Descends(D0)
        BY <1>2, <1>3 DEF ThreadPlan, Keyed
    <2>3. PICK t : t = ThreadStart(d, q)
        OBVIOUS
    <2>4. Linked(t, D0, q.tx[1]) /\ (Going(t, D0) \/ Ended(t, FALSE))
        BY <1>3, <2>1, <2>2, <2>3, StartLinked
    <2>5. Ended(t, FALSE) => Ended(t, Lost(t, D0, d.contents, AnyFailed))
        BY Zenon DEF Ended
    <2>6. req'.pc = "thread" /\ DOMAIN req' = {"pc", "thread"} /\ req'.thread = t /\ walk' = walk
        BY <1>9, <2>3
    <2>7. Building'
        BY <1>1, <1>2, <1>5, <2>4, <2>5, <2>6 DEF Building, AnyFailed
    <2>. QED
        BY <1>1, <1>2, <1>3, <2>6, <2>7 DEF ThreadSound
<1>10. CASE status # 200 /\ walk' = [walk EXCEPT !.done = TRUE, !.status = status] /\ UNCHANGED req
    <2>1. walk'.status # 200 /\ DOMAIN walk' = DOMAIN walk
        BY <1>3, <1>10
    <2>. QED
        BY <1>1, <1>2, <1>3, <1>10, <2>1 DEF ThreadSound
<1>. QED
    BY <1>7, <1>8, <1>9, <1>10

LEMMA SoundLookup ==
    ASSUME ThreadSound, ThreadLookup
    PROVE  ThreadSound'
<1>1. d' = d /\ walk' = walk /\ req.pc = "thread" /\ ~ThreadEnds(req.thread)
    BY DEF ThreadLookup
<1>2. PICK fails \in BOOLEAN :
        /\ fails => plan.fails > 0
        /\ plan' = [plan EXCEPT !.fails = IF fails THEN @ - 1 ELSE @]
        /\ req' = [req EXCEPT !.thread = ThreadStep(d, @, plan.q.me[1], fails)]
    BY DEF ThreadLookup
<1>3. PICK D0 : D0 = plan.db.contents
    OBVIOUS
<1>4. PICK t : t = req.thread
    OBVIOUS
<1>5. /\ ThreadPlan(plan) /\ TablesOk(d, D0) /\ DOMAIN walk = {"before", "items", "done", "status", "stuck"}
      /\ ~walk.done /\ DOMAIN req = {"pc", "thread"} /\ Linked(t, D0, plan.q.tx[1])
      /\ Going(t, D0) \/ Ended(t, Lost(t, D0, d.contents, AnyFailed))
    BY <1>1, <1>3, <1>4, Zenon DEF ThreadSound, Building
<1>6. Going(t, D0)
    <2>. SUFFICES ASSUME t.next = <<>>
                  PROVE  FALSE
        BY <1>5, Zenon DEF Ended
    <2>1. Range(t.next) = {}
        BY DEF Range
    <2>. QED
        BY <1>1, <1>4, <2>1 DEF ThreadEnds
<1>7. IsFiniteSet(D0) /\ Keyed(D0) /\ Descends(D0)
    BY <1>3, <1>5 DEF ThreadPlan, Keyed
<1>8. PICK u : u = ThreadStep(d, t, plan.q.me[1], fails)
    OBVIOUS
<1>9. Linked(u, D0, plan.q.tx[1]) /\ (Going(u, D0) \/ Ended(u, Lost(u, D0, d.contents, fails)))
    BY <1>5, <1>6, <1>7, <1>8, StepLinked
<1>10. PlanAfter(plan', plan) /\ (fails => AnyFailed') /\ (AnyFailed => AnyFailed')
    <2>1. /\ plan.fails \in Nat /\ plan.lookups \in Nat /\ plan.fails <= plan.lookups
          /\ {"endpoint", "q", "db", "writes", "fails", "lookups"} \subseteq DOMAIN plan
        BY <1>5, Zenon DEF ThreadPlan
    <2>2. /\ DOMAIN plan' = DOMAIN plan /\ plan'.endpoint = plan.endpoint /\ plan'.q = plan.q /\ plan'.db = plan.db
          /\ plan'.lookups = plan.lookups /\ plan'.writes = plan.writes
          /\ plan'.fails = (IF fails THEN plan.fails - 1 ELSE plan.fails)
        BY <1>2, <2>1
    <2>3. plan'.fails \in Nat /\ plan'.fails <= plan.fails
        BY <1>2, <2>1, <2>2
    <2>4. PlanAfter(plan', plan)
        BY <2>2, <2>3 DEF PlanAfter
    <2>5. (fails => plan'.lookups > plan'.fails) /\ (plan.lookups > plan.fails => plan'.lookups > plan'.fails)
        BY <1>2, <2>1, <2>2
    <2>. QED
        BY <2>4, <2>5 DEF AnyFailed
<1>11. ThreadPlan(plan')
    BY <1>5, <1>10, PlanStays
<1>12. req'.pc = "thread" /\ DOMAIN req' = {"pc", "thread"} /\ req'.thread = u
    BY <1>1, <1>2, <1>4, <1>5, <1>8
<1>13. Ended(u, Lost(u, D0, d.contents, fails)) => Ended(u, Lost(u, D0, d.contents, AnyFailed'))
    BY <1>10, LostStays
<1>14. plan'.db.contents = D0 /\ plan'.q.tx[1] = plan.q.tx[1]
    BY <1>3, <1>10 DEF PlanAfter
<1>15. Building'
    BY <1>1, <1>5, <1>9, <1>12, <1>13, <1>14 DEF Building
<1>. QED
    BY <1>1, <1>5, <1>11, <1>12, <1>14, <1>15 DEF ThreadSound

LEMMA SoundDone ==
    ASSUME ThreadSound, ThreadDone
    PROVE  ThreadSound'
<1>1. /\ plan' = plan /\ d' = d /\ req.pc = "thread" /\ ThreadEnds(req.thread) /\ req' = NoRequest
      /\ walk' = [walk EXCEPT !.items = ThreadAnswer(req.thread), !.done = TRUE, !.status = 200]
    BY DEF ThreadDone
<1>2. PICK D0 : D0 = plan.db.contents
    OBVIOUS
<1>3. PICK t : t = req.thread
    OBVIOUS
<1>4. /\ ThreadPlan(plan) /\ TablesOk(d, D0) /\ DOMAIN walk = {"before", "items", "done", "status", "stuck"}
      /\ Linked(t, D0, plan.q.tx[1])
      /\ Going(t, D0) \/ Ended(t, Lost(t, D0, d.contents, AnyFailed))
    BY <1>1, <1>2, <1>3, Zenon DEF ThreadSound, Building
<1>5. IsFiniteSet(D0) /\ Keyed(D0) /\ Descends(D0)
    BY <1>2, <1>4 DEF ThreadPlan, Keyed
<1>6. PICK items : items = ThreadAnswer(t)
    OBVIOUS
<1>7. Whole(items, plan.q.tx[1], D0, d.contents, AnyFailed)
    BY <1>1, <1>3, <1>4, <1>5, <1>6, AnswerWhole
<1>8. walk'.items = items /\ DOMAIN walk' = DOMAIN walk
    BY <1>1, <1>3, <1>4, <1>6
<1>9. Answered'
    BY <1>1, <1>2, <1>7, <1>8 DEF Answered, AnyFailed
<1>10. req'.pc = "none"
    BY <1>1 DEF NoRequest
<1>. QED
    BY <1>1, <1>2, <1>4, <1>8, <1>9, <1>10 DEF ThreadSound

LEMMA SoundWrite ==
    ASSUME ThreadSound, Write
    PROVE  ThreadSound'
<1>1. ~walk.done /\ walk' = walk /\ req' = req
    BY DEF Write
<1>2. PICK w \in plan.writes : d' = Written(w) /\ plan' = [plan EXCEPT !.writes = @ \ {w}]
    BY DEF Write
<1>3. PICK D0 : D0 = plan.db.contents
    OBVIOUS
<1>4. ThreadPlan(plan) /\ TablesOk(d, D0) /\ Moderates(w)
    BY <1>3 DEF ThreadSound, ThreadPlan
<1>5. PICK e : e = Written(w)
    OBVIOUS
<1>6. TablesOk(e, D0) /\ Ids(e.contents) \subseteq Ids(d.contents)
    BY <1>4, <1>5, WriteKeeps
<1>7. PlanAfter(plan', plan)
    <2>1. /\ plan.fails \in Nat
          /\ {"endpoint", "q", "db", "writes", "fails", "lookups"} \subseteq DOMAIN plan
        BY <1>4, Zenon DEF ThreadPlan
    <2>2. /\ DOMAIN plan' = DOMAIN plan /\ plan'.endpoint = plan.endpoint /\ plan'.q = plan.q /\ plan'.db = plan.db
          /\ plan'.lookups = plan.lookups /\ plan'.writes \subseteq plan.writes /\ plan'.fails = plan.fails
        BY <1>2, <2>1
    <2>. QED
        BY <2>1, <2>2 DEF PlanAfter
<1>8. ThreadPlan(plan') /\ plan'.db.contents = D0 /\ plan'.q = plan.q /\ (AnyFailed' <=> AnyFailed)
    <2>1. ThreadPlan(plan')
        BY <1>4, <1>7, PlanStays
    <2>2. plan'.fails = plan.fails /\ plan'.lookups = plan.lookups
        <3>1. {"fails", "lookups"} \subseteq DOMAIN plan
            BY <1>4, Zenon DEF ThreadPlan
        <3>. QED
            BY <1>2, <3>1
    <2>. QED
        BY <1>3, <1>7, <2>1, <2>2 DEF PlanAfter, AnyFailed
<1>9. req.pc = "thread" => Building'
    <2>. SUFFICES ASSUME req.pc = "thread"
                  PROVE  Building'
        OBVIOUS
    <2>1. PICK t : t = req.thread
        OBVIOUS
    <2>2. /\ DOMAIN req = {"pc", "thread"} /\ Linked(t, D0, plan.q.tx[1])
          /\ Going(t, D0) \/ Ended(t, Lost(t, D0, d.contents, AnyFailed))
        BY <1>3, <2>1, Zenon DEF ThreadSound, Building
    <2>3. Ended(t, Lost(t, D0, d.contents, AnyFailed)) => Ended(t, Lost(t, D0, e.contents, AnyFailed'))
        BY <1>6, <1>8, LostStays
    <2>. QED
        BY <1>1, <1>2, <1>5, <1>8, <2>1, <2>2, <2>3 DEF Building
<1>. QED
    BY <1>1, <1>2, <1>5, <1>6, <1>8, <1>9 DEF ThreadSound

LEMMA SoundNext == ThreadInv /\ [Next]_vars => ThreadInv'
<1>. SUFFICES ASSUME ThreadInv, [Next]_vars
              PROVE  ThreadInv'
    OBVIOUS
<1>1. "endpoint" \in DOMAIN plan' /\ plan'.endpoint = plan.endpoint
    <2>0. "endpoint" \in DOMAIN plan
        BY DEF ThreadInv
    <2>1. CASE OtherEndpoint \/ GetThread \/ ThreadDone \/ Complete \/ Tick \/ PruneLimits \/ UNCHANGED vars
        <3>1. UNCHANGED plan
            BY <2>1, OtherEndpoints DEF GetThread, ThreadDone, Complete, Tick, PruneLimits, vars
        <3>. QED
            BY <2>0, <3>1
    <2>2. CASE ThreadLookup
        BY <2>0, <2>2 DEF ThreadLookup
    <2>3. CASE QueryFails
        BY <2>0, <2>3 DEF QueryFails
    <2>4. CASE Write
        BY <2>0, <2>4 DEF Write
    <2>. QED
        BY <2>1, <2>2, <2>3, <2>4, Zenon DEF Next, OtherEndpoint
<1>2. ASSUME plan.endpoint = "thread"
      PROVE  ThreadSound'
    <2>0. ThreadSound
        BY <1>2 DEF ThreadInv
    <2>1. ~OtherEndpoint
        BY <1>2, OtherEndpoints
    <2>2. CASE Complete
        BY <2>0, <2>2 DEF Complete, ThreadSound
    <2>3. CASE Tick \/ PruneLimits \/ UNCHANGED vars
        <3>1. UNCHANGED <<d, req, walk, plan>>
            BY <2>3 DEF Tick, PruneLimits, vars
        <3>. QED
            BY <2>0, <3>1 DEF ThreadSound, Building, Answered, AnyFailed
    <2>4. CASE QueryFails
        <3>1. UNCHANGED <<d, req, walk>> /\ plan' = [plan EXCEPT !.fails = @ - 1] /\ plan.fails > 0
            BY <2>4 DEF QueryFails
        <3>2. /\ plan.fails \in Nat
              /\ {"endpoint", "q", "db", "writes", "fails", "lookups"} \subseteq DOMAIN plan
            BY <2>0, Zenon DEF ThreadSound, ThreadPlan
        <3>3. PlanAfter(plan', plan)
            BY <3>1, <3>2 DEF PlanAfter
        <3>. QED
            BY <2>0, <3>1, <3>3, Apart
    <2>. QED
        BY <2>0, <2>1, <2>2, <2>3, <2>4, SoundGetThread, SoundLookup, SoundDone, SoundWrite, Zenon
           DEF Next, OtherEndpoint
<1>. QED
    BY <1>1, <1>2 DEF ThreadInv

LEMMA SoundInit == Init => ThreadInv
<1>. SUFFICES ASSUME Init
              PROVE  ThreadInv
    OBVIOUS
<1>1. /\ plan \in Plans /\ d = plan.db /\ req = NoRequest
      /\ walk = [before |-> <<>>, items |-> <<>>, done |-> FALSE, status |-> 0, stuck |-> FALSE]
    BY DEF Init
<1>2. "endpoint" \in DOMAIN plan /\ (plan.endpoint = "thread" => ThreadPlan(plan))
    BY <1>1, ThreadPlans
<1>3. ASSUME ThreadPlan(plan)
      PROVE  TablesOk(d, plan.db.contents)
    <2>1. Keyed(plan.db.contents) /\ {"contents", "serial"} \subseteq DOMAIN plan.db
        BY <1>3 DEF ThreadPlan, Keyed
    <2>2. FromDb(plan.db.contents, plan.db.contents)
        BY Zenon DEF FromDb
    <2>. QED
        BY <1>1, <2>1, <2>2 DEF TablesOk
<1>4. req.pc = "none" /\ ~walk.done /\ DOMAIN walk = {"before", "items", "done", "status", "stuck"}
    BY <1>1 DEF NoRequest
<1>. QED
    BY <1>2, <1>3, <1>4 DEF ThreadInv, ThreadSound

\* A thread is one chain of replies that ends in the content asked for, cut short of the
\* cap only where a lookup failed or a parent is gone, for any tables, any caps and any
\* moderation between its lookups (api_handlers.rs, get_thread_context).
THEOREM ThreadTheorem == Spec => []ThreadWhole
<1>1. ThreadInv => ThreadWhole
    <2>. SUFFICES ASSUME ThreadInv, plan.endpoint = "thread", walk.done, walk.status = 200
                  PROVE  ThreadWhole
        BY DEF ThreadWhole
    <2>1. Whole(walk.items, plan.q.tx[1], plan.db.contents, d.contents, AnyFailed)
        BY DEF ThreadInv, ThreadSound, Answered
    <2>. QED
        BY <2>1, Zenon DEF Whole, ThreadWhole, RefOf, Ids, AnyFailed
<1>. QED
    BY <1>1, SoundInit, SoundNext, PTL DEF Spec
=============================================================================
