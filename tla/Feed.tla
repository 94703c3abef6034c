-------------------------------- MODULE Feed --------------------------------
(***************************************************************************)
(* What kachat-webserver reads: the tables that the processor writes, the  *)
(* cursors and pages of database_postgres_impl.rs, and the statements that *)
(* complete a page after its main query.                                   *)
(*                                                                         *)
(* The tables are a record d of sets of rows. A row's id is the serial of  *)
(* its own table, its time the chain's: a row inserted later may be older. *)
(* A key is <<x, parity>>; 02 + x and 03 + x are the keys of one person.   *)
(* Nicknames, images and signatures are left out, and the text of content  *)
(* is a number.                                                            *)
(***************************************************************************)
EXTENDS Integers, Sequences, FiniteSets, SequencesExt, FiniteSetsExt

CONSTANTS IdMax   \* i64::MAX

SamePerson(a, b) == a[1] = b[1]
\* pubkey_variants: both keys of the person.
Variants(key) == {<<key[1], 2>>, <<key[1], 3>>}

Tables == {"contents", "votes", "tips", "mentions", "follows", "blocks", "profiles", "rooms", "polls", "ballots"}
NoTables == [serial |-> [t \in Tables |-> 0]] @@ [t \in Tables |-> {}]

------------------------------------------------------------------------------
(* The processor's writes, as far as a reader can tell them apart. *)

\* One INSERT: the row gets the next serial of its table.
Insert(d, table, row) ==
  LET id == d.serial[table] + 1
  IN [d EXCEPT ![table] = @ \cup {[id |-> id] @@ row}, !.serial[table] = id]
InsertAll(d, table, rows) == FoldLeft(LAMBDA acc, row : Insert(acc, table, row), d, rows)

SaveContent(d, c, who) ==
  LET mention(k) == [content |-> c.tx, kind |-> IF c.kind = "poll" THEN "post" ELSE c.kind,
                     who |-> k, by |-> c.by, time |-> c.time]
  IN InsertAll(Insert(d, "contents", c), "mentions", [i \in DOMAIN who |-> mention(who[i])])
SaveAction(d, table, kind, row, author) ==
  Insert(Insert(d, table, row), "mentions",
         [content |-> row.tx, kind |-> kind, who |-> author, by |-> row.by, time |-> row.time])
\* hard_delete_content: the row, the votes on it, its own mentions.
HardDelete(d, tx) ==
  [d EXCEPT !.contents = {c \in @ : c.tx # tx}, !.votes = {v \in @ : v.post # tx},
            !.mentions = {m \in @ : m.content # tx}]
Withdraw(d, table, row) == [d EXCEPT ![table] = @ \ {row}]
EditText(d, tx, time, text) ==
  [d EXCEPT !.contents = {IF c.tx = tx THEN [c EXCEPT !.text = text, !.edited = time] ELSE c : c \in @}]

------------------------------------------------------------------------------
(* Cursors and pages. *)

\* "<time>_<id>", or a bare time that stands before every id of that time; a
\* cursor of any other shape cannot be parsed (<<>> is no cursor at all).
ParseCursor(c) == CASE Len(c) = 2 -> c [] Len(c) = 1 -> <<c[1], IdMax>> [] OTHER -> <<>>
Malformed(c) == c # <<>> /\ ParseCursor(c) = <<>>

Precedes(a, b) == a[1] < b[1] \/ (a[1] = b[1] /\ a[2] < b[2])
Beyond(key, cursor) == Precedes(key, cursor)
\* A cursor that cannot be parsed is ignored.
InWindow(key, o) ==
  /\ ParseCursor(o.before) # <<>> => Beyond(key, ParseCursor(o.before))
  /\ ParseCursor(o.after)  # <<>> => Precedes(ParseCursor(o.after), key)

\* ORDER BY time DESC, id DESC (or ascending); rows that tie come in the order
\* of tie, which stands for whatever order the database takes.
Sorted(rows, descending) ==
  LET less(a, b) == Precedes(a.key, b.key) \/ (a.key = b.key /\ a.tie < b.tie)
      rank(r)    == Cardinality({x \in rows : IF descending THEN less(r, x) ELSE less(x, r)})
  IN [i \in 1 .. Cardinality(rows) |-> CHOOSE r \in rows : rank(r) = i - 1]

\* LIMIT: one row more than the page, to know whether there are more.
Fetched(rows, limit) == SubSeq(rows, 1, IF Len(rows) > limit + 1 THEN limit + 1 ELSE Len(rows))
PageRows(fetched, limit) == IF Len(fetched) > limit THEN Front(fetched) ELSE fetched

\* create_compound_pagination_metadata: the next cursor is the last row's, if
\* there are more; the previous one the first row's.
Pagination(items, more) ==
  [ok |-> TRUE, why |-> "", items |-> items, more |-> more,
   next |-> IF more /\ items # <<>> THEN Last(items).key ELSE <<>>,
   prev |-> IF items # <<>> THEN Head(items).key ELSE <<>>]
\* Mutant of Page: the page's cursor is the extra row's.
PageSkipsOne(rows, o) ==
  LET fetched == Fetched(Sorted({r \in rows : InWindow(r.key, o)}, o.descending), o.limit)
  IN [Pagination(PageRows(fetched, o.limit), Len(fetched) > o.limit) EXCEPT
        !.next = IF Len(fetched) > o.limit THEN Last(fetched).key ELSE <<>>]
Page(rows, o) ==
  LET fetched == Fetched(Sorted({r \in rows : InWindow(r.key, o)}, o.descending), o.limit)
  IN Pagination(PageRows(fetched, o.limit), Len(fetched) > o.limit)
Failed(why) == [ok |-> FALSE, why |-> why, items |-> <<>>, more |-> FALSE, next |-> <<>>, prev |-> <<>>]

------------------------------------------------------------------------------
(* What every content query computes for a row. *)

Key(row) == <<row.time, row.id>>
\* kb.sender_pubkey = the requester's key, the blocked person by x-only key.
Blocks(d, me, key) == \E b \in d.blocks : b.by = me /\ SamePerson(b.who, key)
Follows(d, me, key) == \E f \in d.follows : f.by = me /\ SamePerson(f.who, key)

RepliesTo(d, tx) == {c \in d.contents : c.kind = "reply" /\ c.ref = tx}
QuotesOf(d, tx) == {c \in d.contents : c.kind = "quote" /\ c.ref = tx}
VotesFor(d, tx, vote) == {v \in d.votes : v.post = tx /\ v.vote = vote}
Voted(d, tx, vote, me) == \E v \in VotesFor(d, tx, vote) : v.by = me
ContentOf(d, tx) == {c \in d.contents : c.tx = tx}

\* The mentions of a content, of the given content types.
MentionedIn(d, tx, kinds) == {m.who : m \in {m \in d.mentions : m.content = tx /\ m.kind \in kinds}}
\* Who wrote the content that a row of one of these kinds refers to.
RefAuthor(d, c, kinds) == IF c.kind \in kinds THEN {r.by : r \in ContentOf(d, c.ref)} ELSE {}

Item(d, c, me, mentioned, refBy) ==
  [key |-> Key(c), tie |-> 0, tx |-> c.tx, by |-> c.by, kind |-> c.kind, text |-> c.text,
   replies |-> Cardinality(RepliesTo(d, c.tx)), quotes |-> Cardinality(QuotesOf(d, c.tx)),
   ups |-> Cardinality(VotesFor(d, c.tx, "upvote")), downs |-> Cardinality(VotesFor(d, c.tx, "downvote")),
   upvoted |-> Voted(d, c.tx, "upvote", me), downvoted |-> Voted(d, c.tx, "downvote", me),
   mentioned |-> mentioned, refBy |-> refBy, edited |-> 0, tips |-> 0, poll |-> <<>>]

------------------------------------------------------------------------------
(* The statements after the main query; each sees the tables as they are then. *)

EnrichTips(d, items) ==
  [i \in DOMAIN items |-> [items[i] EXCEPT !.tips = Cardinality({t \in d.tips : t.post = items[i].tx})]]

EnrichEdited(d, items) ==
  [i \in DOMAIN items |->
     [items[i] EXCEPT !.edited = IF ContentOf(d, items[i].tx) = {} THEN 0
                                 ELSE (CHOOSE c \in ContentOf(d, items[i].tx) : TRUE).edited]]

\* The current vote of every voter: the latest by chain time, then by id.
Current(d, post) ==
  {b \in d.ballots : /\ b.poll = post
                     /\ \A o \in d.ballots : o.poll = post /\ o.by = b.by => ~Precedes(<<b.time, b.tx>>, <<o.time, o.tx>>)}
\* Mutant of OptionCounts: every vote a voter ever cast counts.
AllBallots(d, p) ==
  [i \in 1 .. p.options |-> Cardinality({b \in d.ballots : b.poll = p.post /\ b.option = i - 1})]
OptionCounts(d, p) == [i \in 1 .. p.options |-> Cardinality({b \in Current(d, p.post) : b.option = i - 1})]
\* enrich_polls: options with their counts, and the requester's own vote (-1: none).
EnrichPolls(d, items, me) ==
  LET mine(post)  == {b.option : b \in {b \in Current(d, post) : b.by = me}}
      data(p)     == OptionCounts(d, p) \o <<IF mine(p.post) = {} THEN -1 ELSE CHOOSE o \in mine(p.post) : TRUE>>
      pollOf(tx)  == {p \in d.polls : p.post = tx}
  IN [i \in DOMAIN items |->
        IF pollOf(items[i].tx) = {} THEN items[i]
        ELSE [items[i] EXCEPT !.poll = data(CHOOSE p \in pollOf(items[i].tx) : TRUE)]]

\* The statements a query runs on its page, by name.
Enrich(d, items, steps, me) ==
  LET edited == IF "edited" \in steps THEN EnrichEdited(d, items) ELSE items
      tipped == IF "tips" \in steps THEN EnrichTips(d, edited) ELSE edited
  IN IF "polls" \in steps THEN EnrichPolls(d, tipped, me) ELSE tipped
==============================================================================
