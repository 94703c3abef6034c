---------------------------- MODULE FeedContents ----------------------------
(***************************************************************************)
(* The queries of database_postgres_impl.rs that return contents, and who  *)
(* acted on one. Every query is three definitions: which rows it takes     *)
(* (...Rows), what it shows of a row (...Item) and its page. A query joins *)
(* the requester's blocks by the requester's key as given and the blocked  *)
(* person's x-only key.                                                    *)
(***************************************************************************)
EXTENDS Feed

------------------------------------------------------------------------------
\* query_all_posts: the feed, and with a text the search.
AllPostsRows(d, me, text) ==
  {c \in d.contents : /\ c.kind \in {"post", "quote", "poll"}
                      /\ ~Blocks(d, me, c.by)
                      /\ text # 0 => c.text = text}
AllPostsItem(d, c, me) ==
  Item(d, c, me, MentionedIn(d, c.tx, {"post", "quote"}), RefAuthor(d, c, {"reply", "quote"}))
AllPosts(d, me, text, o) == Page({AllPostsItem(d, c, me) : c \in AllPostsRows(d, me, text)}, o)

------------------------------------------------------------------------------
\* get_content_following: what the followed persons wrote, one row for each
\* follow that matches its author.
FollowedRows(d, me) ==
  {r \in d.contents \X d.follows :
     /\ r[2].by = me /\ SamePerson(r[2].who, r[1].by)
     /\ ~Blocks(d, me, r[1].by)
     /\ r[1].kind \in {"post", "reply", "quote", "poll"}}
FollowedItem(d, c, me) ==
  Item(d, c, me, MentionedIn(d, c.tx, {c.kind}), RefAuthor(d, c, {"quote"}))
ContentFollowing(d, me, o) ==
  Page({[FollowedItem(d, r[1], me) EXCEPT !.tie = r[2].id] : r \in FollowedRows(d, me)}, o)

------------------------------------------------------------------------------
\* get_contents_mentioning_user: the mention names this very key, and the
\* content type it was saved with is the content's.
MentioningRows(d, who, me) ==
  {c \in d.contents : /\ ~Blocks(d, me, c.by)
                      /\ \E m \in d.mentions : m.who = who /\ m.content = c.tx /\ m.kind = c.kind}
\* A reply shows no replies of its own, and only a quote or a post is counted.
MentioningItem(d, c, me) ==
  LET item == Item(d, c, me, MentionedIn(d, c.tx, {c.kind}), RefAuthor(d, c, {"quote"}))
  IN IF c.kind \in {"post", "quote"} THEN item ELSE [item EXCEPT !.replies = 0, !.quotes = 0]
\* Any other type on the page is an error of the whole page.
ContentsMentioning(d, who, me, o) ==
  LET page == Page({MentioningItem(d, c, me) : c \in MentioningRows(d, who, me)}, o)
  IN IF \A i \in DOMAIN page.items : page.items[i].kind \in {"post", "quote", "reply"} THEN page
     ELSE Failed("unknown type")

------------------------------------------------------------------------------
\* get_post_engagement: the votes on a content and the quotes of it, each with
\* the serial of its own table; no block hides an actor.
EngagementRows(d, tx, kind) ==
  LET acted == {[key |-> Key(v), tie |-> 1, tx |-> v.tx, by |-> v.by, kind |-> v.vote] : v \in {v \in d.votes : v.post = tx}}
               \cup {[key |-> Key(c), tie |-> 0, tx |-> c.tx, by |-> c.by, kind |-> c.kind] :
                       c \in {c \in d.contents : c.ref = tx /\ c.kind \in {"quote", "repost"}}}
  IN {r \in acted : kind # "all" => r.kind = kind}
PostEngagement(d, tx, kind, o) == Page(EngagementRows(d, tx, kind), o)

\* get_post_tippers: newest first, and no cursor but before.
PostTippers(d, tx, o) ==
  Page({[key |-> Key(t), tie |-> 0, tx |-> t.tx, by |-> t.by, kind |-> "tip"] : t \in {t \in d.tips : t.post = tx}},
       [o EXCEPT !.after = <<>>, !.descending = TRUE])

\* get_broadcasts: a room's messages before a time, whatever their id; the
\* answer has no cursor, the client takes the time of the last message.
RoomRows(d, room, before) ==
  {r \in d.rooms : r.room = room /\ (before # <<>> => r.time < before[1])}
RoomMessages(d, room, limit, before) ==
  LET rows    == {[key |-> Key(r), tie |-> 0, tx |-> r.tx, by |-> r.by, kind |-> "room"] : r \in RoomRows(d, room, before)}
      fetched == Fetched(Sorted(rows, TRUE), limit)
      items   == PageRows(fetched, limit)
      more    == Len(fetched) > limit
  IN [Pagination(items, more) EXCEPT !.next = IF more THEN <<Last(items).key[1]>> ELSE <<>>]

------------------------------------------------------------------------------
\* get_content_by_id: one content or none, and whether its author is blocked.
ContentByIdItem(d, c, me) ==
  Item(d, c, me, MentionedIn(d, c.tx, {c.kind}), RefAuthor(d, c, {"quote"}))
\* A reply is never a poll, and its poll object is not looked for.
ContentById(d, tx, me) ==
  [i \in 1 .. Cardinality(ContentOf(d, tx)) |->
     LET c == CHOOSE c \in ContentOf(d, tx) : TRUE
     IN [blocked |-> Blocks(d, me, c.by), ref |-> c.ref, item |-> ContentByIdItem(d, c, me),
         steps |-> IF c.kind = "reply" THEN {"edited", "tips"} ELSE {"edited", "tips", "polls"}]]

------------------------------------------------------------------------------
\* get_replies_by_post_id.
PostRepliesRows(d, tx, me) ==
  {c \in d.contents : c.kind = "reply" /\ c.ref = tx /\ ~Blocks(d, me, c.by)}
PostRepliesItem(d, c, me) == Item(d, c, me, MentionedIn(d, c.tx, {"reply"}), {})
PostReplies(d, tx, me, o) == Page({PostRepliesItem(d, c, me) : c \in PostRepliesRows(d, tx, me)}, o)

\* get_replies_by_user: the person by either key.
UserRepliesRows(d, user, me) ==
  {c \in d.contents : c.kind = "reply" /\ c.by \in Variants(user) /\ ~Blocks(d, me, c.by)}
UserRepliesItem(d, c, me) == Item(d, c, me, MentionedIn(d, c.tx, {"reply"}), {})
UserReplies(d, user, me, o) == Page({UserRepliesItem(d, c, me) : c \in UserRepliesRows(d, user, me)}, o)

\* get_posts_by_user: the block is looked at after the limit; all the rows are
\* of one person, so it keeps all of them or none.
UserPostsRows(d, user) == {c \in d.contents : c.kind \in {"post", "quote", "poll"} /\ c.by \in Variants(user)}
UserPostsItem(d, c, me) ==
  Item(d, c, me, MentionedIn(d, c.tx, {"post", "quote"}), RefAuthor(d, c, {"reply", "quote"}))
UserPosts(d, user, me, o) ==
  LET rows    == {r \in {UserPostsItem(d, c, me) : c \in UserPostsRows(d, user)} : InWindow(r.key, o)}
      fetched == SelectSeq(Fetched(Sorted(rows, o.descending), o.limit), LAMBDA r : ~Blocks(d, me, r.by))
  IN Pagination(PageRows(fetched, o.limit), Len(fetched) > o.limit)

------------------------------------------------------------------------------
\* The mentions of a person (by x-only key) by somebody they do not block.
NotifyingRows(d, me) == {m \in d.mentions : SamePerson(m.who, me) /\ ~SamePerson(m.by, me) /\ ~Blocks(d, me, m.by)}
NotificationCap == 31
\* get_notification_count: of those after the cursor, at most the cap.
CountRows(d, me, after) ==
  {m \in d.mentions : /\ SamePerson(m.who, me) /\ ~SamePerson(m.by, me) /\ ~Blocks(d, me, m.by)
                      /\ after # <<>> => Precedes(after, Key(m))}
NotificationCount(d, me, after) ==
  LET n == Cardinality(CountRows(d, me, ParseCursor(after)))
  IN IF Malformed(after) THEN [ok |-> FALSE, count |-> 0]
     ELSE [ok |-> TRUE, count |-> IF n > NotificationCap THEN NotificationCap ELSE n]

\* The row a mention is about: the content of that type, the vote or the tip.
Subject(d, m) ==
  CASE m.kind = "vote" -> {v \in d.votes : v.tx = m.content}
    [] m.kind = "tip"  -> {t \in d.tips : t.tx = m.content}
    [] OTHER -> {c \in ContentOf(d, m.content) : c.kind = m.kind /\ c.kind \in {"post", "reply", "quote"}}
\* A reply that mentions someone who is not its parent's author.
IsReplyMention(d, m) ==
  /\ m.kind = "reply"
  /\ \E r \in ContentOf(d, m.content) :
        r.kind = "reply" /\ \E p \in ContentOf(d, r.ref) : ~SamePerson(p.by, m.who)
NotificationItem(d, m) ==
  [key |-> Key(m), tie |-> 0, tx |-> m.content, by |-> m.by,
   kind |-> IF IsReplyMention(d, m) THEN "mention" ELSE m.kind, shown |-> Subject(d, m) # {}]
\* get_notifications: a mention whose subject is gone is left out of the page
\* after the limit; both cursors are set whenever anything is left of it.
NotificationPage(d, me, o) ==
  LET rows    == {r \in {NotificationItem(d, m) : m \in NotifyingRows(d, me)} : InWindow(r.key, o)}
      fetched == Fetched(Sorted(rows, o.descending), o.limit)
      items   == SelectSeq(PageRows(fetched, o.limit), LAMBDA r : r.shown)
      page    == Pagination(items, Len(fetched) > o.limit)
  IN [page EXCEPT !.next = IF items # <<>> THEN Last(items).key ELSE <<>>]

------------------------------------------------------------------------------
\* get_hashtag_content: posts, replies and quotes (a poll has no page here).
HashtagRows(d, tag, me) ==
  {c \in d.contents : tag \in c.tags /\ c.kind \in {"post", "reply", "quote"} /\ ~Blocks(d, me, c.by)}
HashtagItem(d, c, me) == Item(d, c, me, MentionedIn(d, c.tx, {c.kind}), RefAuthor(d, c, {"quote"}))
HashtagContent(d, tag, me, o) == Page({HashtagItem(d, c, me) : c \in HashtagRows(d, tag, me)}, o)

\* get_trending_hashtags: by number of uses, then by name (a number here).
TagUses(d, tag, from, to) == Cardinality({c \in d.contents : tag \in c.tags /\ c.time \in from .. to})
TrendingHashtags(d, from, to, limit) ==
  LET used == {t \in UNION {c.tags : c \in d.contents} : TagUses(d, t, from, to) > 0}
      rows == {[key |-> <<TagUses(d, t, from, to), -t>>, tie |-> 0, tag |-> t, uses |-> TagUses(d, t, from, to)] : t \in used}
      all  == Sorted(rows, TRUE)
  IN SubSeq(all, 1, IF Len(all) > limit THEN limit ELSE Len(all))
==============================================================================
