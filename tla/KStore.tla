------------------------------- MODULE KStore -------------------------------
(***************************************************************************)
(* The tables of kachat-transaction-processor and its SQL statements, one  *)
(* operator per statement: from the tables and a transaction to the tables *)
(* after it. A public key is <<x, parity>>: 02 + x and 03 + x are the keys *)
(* of one person. A transaction is a record                                *)
(*   [id, kind, by, sig, signed, time, ref, as, n, who, text, closes]         *)
(* with the sender's key, the signature and whether it verifies, the chain *)
(* time, the content it is about, the action and the number (a poll's     *)
(* options, a vote's option) it names, the people it names in order, its   *)
(* text and a poll's closing time.                                         *)
(***************************************************************************)
EXTENDS Integers, Sequences, FiniteSets, SequencesExt

CONSTANTS EditWindow   \* EDIT_WINDOW_MS

XOnly(k) == k[1]
SamePerson(a, b) == XOnly(a) = XOnly(b)

Content == {"post", "reply", "quote", "poll"}

EmptyTables ==
  [contents |-> {}, mentions |-> {}, votes |-> {}, follows |-> {}, blocks |-> {}, profiles |-> {},
   polls |-> {}, ballots |-> {}, tips |-> {}, edits |-> {}, deletes |-> {}, tombs |-> {},
   used |-> {}, ledger |-> {}, last |-> {}, denylist |-> {}, bcasts |-> {}]

------------------------------------------------------------------------------
(* Signatures and tombstones. *)

\* signature_is_fresh: the first transaction that shows a signature owns it.
Claimed(d, tx) ==
  IF \E u \in d.used : u.sig = tx.sig THEN d ELSE [d EXCEPT !.used = @ \cup {[sig |-> tx.sig, id |-> tx.id]}]
\* Mutant of Owns: a copied signature is as good as the original.
AnyoneOwns(d, tx) == TRUE
Owns(d, tx) == \A u \in d.used : u.sig = tx.sig => u.id = tx.id

DeletedByAuthor(d, tx) == \E t \in d.tombs : t.post = tx.id /\ t.by = tx.by
ContentOf(d, id) == {c \in d.contents : c.id = id}
AuthorsOf(d, id) == {c.by : c \in ContentOf(d, id)}

\* hard_delete_content: the author's row, every vote on it, its own mentions.
HardDelete(d, post, author) ==
  [d EXCEPT !.contents = {c \in @ : ~(c.id = post /\ c.by = author)},
            !.votes    = {v \in @ : v.post # post},
            !.mentions = {m \in @ : m.content # post}]

------------------------------------------------------------------------------
(* Content. *)

\* The mentions of a post, the first key of each person.
OnePerPerson(keys) ==
  {keys[i] : i \in {i \in DOMAIN keys : \A j \in 1 .. i - 1 : ~SamePerson(keys[j], keys[i])}}
Mention(content, kind, who, by) == [content |-> content, kind |-> kind, who |-> who, by |-> by]

\* INSERT INTO k_contents ... ON CONFLICT (sender_signature) DO NOTHING, with
\* its mentions in the same statement (a poll's come later).
NewContent(d, tx) == \A c \in d.contents : c.sig # tx.sig
ContentRow(tx) ==
  [id |-> tx.id, by |-> tx.by, sig |-> tx.sig, time |-> tx.time, kind |-> tx.kind, ref |-> tx.ref,
   text |-> tx.text, edited |-> 0]
SavePost(d, tx) ==
  [d EXCEPT !.contents = @ \cup {ContentRow(tx)},
            !.mentions = @ \cup {Mention(tx.id, "post", k, tx.by) : k \in OnePerPerson(tx.who)}]
SaveReply(d, tx) ==
  [d EXCEPT !.contents = @ \cup {ContentRow(tx)},
            !.mentions = @ \cup {Mention(tx.id, "reply", k, tx.by) : k \in OnePerPerson(tx.who)}]
SaveQuote(d, tx) ==
  [d EXCEPT !.contents = @ \cup {ContentRow(tx)},
            !.mentions = @ \cup {Mention(tx.id, "quote", k, tx.by) : k \in Range(tx.who)}]
SavePoll(d, tx) == [d EXCEPT !.contents = @ \cup {ContentRow(tx)}]
SaveContent(d, tx) ==
  CASE tx.kind = "post" -> SavePost(d, tx) [] tx.kind = "reply" -> SaveReply(d, tx)
    [] tx.kind = "quote" -> SaveQuote(d, tx) [] tx.kind = "poll" -> SavePoll(d, tx)

SavePollOptions(d, tx) == [d EXCEPT !.polls = @ \cup {[id |-> tx.id, options |-> tx.n, closes |-> tx.closes]}]
SavePollMentions(d, tx) ==
  [d EXCEPT !.mentions = @ \cup {Mention(tx.id, "post", k, tx.by) : k \in Range(tx.who)}]

\* Who is pushed for a mention: each person once, not the author, not skip.
MentionTargets(tx, skip) ==
  {k \in OnePerPerson(tx.who) : ~SamePerson(k, tx.by) /\ \A s \in skip : ~SamePerson(k, s)}

------------------------------------------------------------------------------
(* Edits and deletes. *)

\* What process_k_edit requires of the target: not a poll, the same author, in time.
Editable(d, tx) ==
  \E c \in ContentOf(d, tx.ref) : c.kind # "poll" /\ c.by = tx.by /\ tx.time <= c.time + EditWindow
RecordEdit(d, tx) ==
  IF \E e \in d.edits : e.sig = tx.sig THEN d
  ELSE [d EXCEPT !.edits = @ \cup {[id |-> tx.id, sig |-> tx.sig, post |-> tx.ref, time |-> tx.time, text |-> tx.text]}]
\* The newest edit by chain time wins.
Supersedes(tx, c) == tx.time > (IF c.edited = 0 THEN c.time ELSE c.edited)
ApplyEdit(d, tx) ==
  [d EXCEPT !.contents =
     {IF c.id = tx.ref /\ Supersedes(tx, c) THEN [c EXCEPT !.text = tx.text, !.edited = tx.time] ELSE c : c \in @}]
EditApplies(d, tx) == \E c \in ContentOf(d, tx.ref) : Supersedes(tx, c)
\* Mentions the edit adds; a key the content already mentions is left out.
AddEditMentions(d, tx, kind) ==
  LET new == {k \in Range(tx.who) : \A m \in d.mentions : ~(m.content = tx.ref /\ m.who = k)}
  IN [d EXCEPT !.mentions = @ \cup {Mention(tx.ref, kind, k, tx.by) : k \in new}]

Bury(d, tx) ==
  IF \E t \in d.tombs : t.post = tx.ref /\ t.by = tx.by THEN d
  ELSE [d EXCEPT !.tombs = @ \cup {[post |-> tx.ref, by |-> tx.by, id |-> tx.id]}]
RecordDelete(d, tx) ==
  IF \E g \in d.deletes : g.post = tx.ref THEN d
  ELSE [d EXCEPT !.deletes = @ \cup {[id |-> tx.id, post |-> tx.ref, by |-> tx.by]}]

\* process_k_unquote: by the exact key, whatever its time.
Unquote(d, tx) ==
  LET gone == {c \in d.contents : c.ref = tx.ref /\ c.by = tx.by /\ c.kind = "quote"}
  IN [d EXCEPT !.contents = @ \ gone,
               !.mentions = {m \in @ : ~(m.kind = "quote" /\ m.content \in {c.id : c \in gone})}]

------------------------------------------------------------------------------
(* Votes, poll votes and tips. *)

VotesOf(d, tx) == {v \in d.votes : v.post = tx.ref /\ SamePerson(v.by, tx.by)}
VoteMentions(d, vs) == {m \in d.mentions : m.kind = "vote" /\ m.content \in {v.id : v \in vs}}

\* unvote: the person's vote and its mention, whatever their time.
Unvote(d, tx) ==
  [d EXCEPT !.votes = @ \ VotesOf(d, tx), !.mentions = @ \ VoteMentions(d, VotesOf(d, tx))]

\* The votes a newer one replaces, then the insert, which any conflict stops:
\* the two statements of one database transaction.
Replaced(d, tx) == {v \in VotesOf(d, tx) : v.time <= tx.time /\ v.sig # tx.sig}
VoteFits(d, tx, replaced) ==
  \A v \in d.votes \ replaced : v.sig # tx.sig /\ ~(v.post = tx.ref /\ SamePerson(v.by, tx.by))
\* Mutant of CastVote: the replaced vote's notification stays.
CastVoteKeepsMention(d, tx, replaced) ==
  LET row == [id |-> tx.id, by |-> tx.by, sig |-> tx.sig, time |-> tx.time, post |-> tx.ref, vote |-> tx.as]
  IN IF \A v \in d.votes \ replaced : v.sig # tx.sig /\ ~(v.post = tx.ref /\ SamePerson(v.by, tx.by))
     THEN [d EXCEPT !.votes = (@ \ replaced) \cup {row}, !.mentions = @ \cup {Mention(tx.id, "vote", tx.who[1], tx.by)}]
     ELSE [d EXCEPT !.votes = @ \ replaced]
CastVote(d, tx, replaced) ==
  LET cleared == [d EXCEPT !.votes = @ \ replaced, !.mentions = @ \ VoteMentions(d, replaced)]
      row     == [id |-> tx.id, by |-> tx.by, sig |-> tx.sig, time |-> tx.time, post |-> tx.ref, vote |-> tx.as]
  IN IF VoteFits(d, tx, replaced)
     THEN [cleared EXCEPT !.votes = @ \cup {row}, !.mentions = @ \cup {Mention(tx.id, "vote", tx.who[1], tx.by)}]
     ELSE cleared

\* process_k_pollvote: an option of an indexed poll that was open then.
BallotCounts(d, tx) == \E p \in d.polls : p.id = tx.ref /\ tx.n \in 0 .. p.options - 1 /\ tx.time < p.closes
SaveBallot(d, tx) ==
  IF \E b \in d.ballots : b.sig = tx.sig THEN d
  ELSE [d EXCEPT !.ballots = @ \cup {[id |-> tx.id, sig |-> tx.sig, poll |-> tx.ref, by |-> tx.by, option |-> tx.n, time |-> tx.time]}]

\* A tip is about content by the author it names, who is somebody else.
TipTarget(d, tx) == \E c \in ContentOf(d, tx.ref) : c.by = tx.who[1]
NewTip(d, tx) == \A t \in d.tips : t.sig # tx.sig /\ t.id # tx.id
SaveTip(d, tx) ==
  [d EXCEPT !.tips = @ \cup {[id |-> tx.id, sig |-> tx.sig, post |-> tx.ref, by |-> tx.by, to |-> tx.who[1]]},
            !.mentions = @ \cup {Mention(tx.id, "tip", tx.who[1], tx.by)}]

------------------------------------------------------------------------------
(* Follows, blocks and profiles. *)

\* relation_is_newest: the newest action of (kind, sender, person) is kept.
PairOf(tx) == <<tx.kind, tx.by, XOnly(tx.who[1])>>
\* Mutant of IsNewest: the action processed last wins.
AnyOrder(d, tx) == TRUE
IsNewest(d, tx) == \A r \in d.last : r.pair = PairOf(tx) => r.time <= tx.time
RecordRelation(d, tx) ==
  IF IsNewest(d, tx)
  THEN [d EXCEPT !.last = {r \in @ : r.pair # PairOf(tx)} \cup {[pair |-> PairOf(tx), as |-> tx.as, time |-> tx.time]}]
  ELSE d

KachatRelated(d, tx) == \E c \in d.contents : c.by \in {tx.by, tx.who[1]}
SamePair(r, tx) == r.by = tx.by /\ SamePerson(r.who, tx.who[1])
RelationRow(tx) == [id |-> tx.id, by |-> tx.by, who |-> tx.who[1], time |-> tx.time]
NewFollow(d, tx) == \A f \in d.follows : ~SamePair(f, tx)
Follow(d, tx) == IF NewFollow(d, tx) THEN [d EXCEPT !.follows = @ \cup {RelationRow(tx)}] ELSE d
Unfollow(d, tx) == [d EXCEPT !.follows = {f \in @ : ~(SamePair(f, tx) /\ f.time <= tx.time)}]
Block(d, tx) ==
  IF \A b \in d.blocks : ~SamePair(b, tx) THEN [d EXCEPT !.blocks = @ \cup {RelationRow(tx)}] ELSE d
Unblock(d, tx) == [d EXCEPT !.blocks = {b \in @ : ~(SamePair(b, tx) /\ b.time <= tx.time)}]

\* operator_block_target: the denylist row, then everything the author has.
Deny(d, who) == [d EXCEPT !.denylist = @ \cup {who}]
\* Mutant of Purge: the author's content stays.
PurgeActions(d, who) ==
  [d EXCEPT !.votes = {v \in @ : v.by # who}, !.blocks = {b \in @ : b.by # who}, !.follows = {f \in @ : f.by # who}]
Purge(d, who) ==
  [d EXCEPT !.mentions = {m \in @ : m.by # who}, !.contents = {c \in @ : c.by # who},
            !.votes = {v \in @ : v.by # who}, !.blocks = {b \in @ : b.by # who}, !.follows = {f \in @ : f.by # who}]
Allow(d, who) == [d EXCEPT !.denylist = @ \ {who}]

\* save_k_broadcast: the ledger row and the replacement, in one database
\* transaction whose statement sees the profiles as they were when it began.
LedgerAllows(d, tx) == \A l \in d.ledger : l.sig = tx.sig => l.id = tx.id
ProfilesOf(rows, tx) == {p \in rows : SamePerson(p.by, tx.by) /\ p.id # tx.id}
SaveProfile(d, tx, seen) ==
  LET outdated == \E p \in ProfilesOf(seen, tx) : p.time > tx.time
      row      == [id |-> tx.id, by |-> tx.by, time |-> tx.time]
  IN [d EXCEPT !.ledger   = @ \cup {[sig |-> tx.sig, id |-> tx.id]},
               !.profiles = IF outdated THEN @ ELSE (@ \ ProfilesOf(seen, tx)) \cup {row}]

------------------------------------------------------------------------------
\* already_indexed: what the reindex looks at (edits, tips, polls, ballots and
\* every withdrawal leave no row it knows).
Indexed(d, id) ==
  \/ \E r \in d.contents \cup d.profiles \cup d.votes \cup d.follows \cup d.blocks \cup d.bcasts : r.id = id
  \/ \E t \in d.tombs : t.id = id
==============================================================================
