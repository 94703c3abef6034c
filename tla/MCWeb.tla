------------------------------- MODULE MCWeb -------------------------------
(***************************************************************************)
(* Every endpoint of kachat-webserver on small tables: Me reads, Ann (with *)
(* both of her keys) and Bob write. Beside them, in behaviours of their    *)
(* own, three sets of scheduled posts: the two share no state.             *)
(***************************************************************************)
EXTENDS WebServer, Scheduled

Me == <<1, 2>>   Ann == <<2, 2>>   AnnOdd == <<2, 3>>   Bob == <<3, 2>>
MCWindows == [w \in {"1h", "24h"} |-> IF w = "1h" THEN 2 ELSE 10]

Content(tx, kind, by, time, ref, tags) ==
  [tx |-> tx, kind |-> kind, by |-> by, time |-> time, ref |-> ref, tags |-> tags, text |-> 7, edited |-> 0]
Save(tx, kind, by, time, ref, tags, who) == [op |-> "content", row |-> Content(tx, kind, by, time, ref, tags), who |-> who]
Vote(tx, post, by, vote, time, author) ==
  [op |-> "action", table |-> "votes", kind |-> "vote", author |-> author,
   row |-> [tx |-> tx, post |-> post, by |-> by, vote |-> vote, time |-> time]]
Tip(tx, post, by, time, author) ==
  [op |-> "action", table |-> "tips", kind |-> "tip", author |-> author,
   row |-> [tx |-> tx, post |-> post, by |-> by, time |-> time]]
Add(table, row) == [op |-> "insert", table |-> table, row |-> row]
Relation(table, by, who, time) == Add(table, [by |-> by, who |-> who, time |-> time])
Profile(by, time) == Add("profiles", [by |-> by, time |-> time])
Message(tx, room, by, time) == Add("rooms", [room |-> room, by |-> by, time |-> time, tx |-> tx])
Ballot(tx, poll, by, option, time) == Add("ballots", [tx |-> tx, poll |-> poll, by |-> by, option |-> option, time |-> time])
Delete(tx) == [op |-> "delete", tx |-> tx]

\* The tables after a list of writes.
Tables0(writes) ==
  LET write(t, w) ==
        CASE w.op = "content" -> SaveContent(t, w.row, w.who)
          [] w.op = "action"  -> SaveAction(t, w.table, w.kind, w.row, w.author)
          [] w.op = "insert"  -> Insert(t, w.table, w.row)
          [] w.op = "delete"  -> HardDelete(t, w.tx)
  IN FoldLeft(write, NoTables, writes)

\* Posts of one time by both keys of Ann, replies, a quote, a poll with a
\* changed vote, a vote and a tip, all concerning Me or a post of Me's.
Contents ==
  <<Save(1, "post", Me, 1, 0, {}, <<>>), Save(2, "post", Ann, 2, 0, {5}, <<Me>>),
    Save(3, "post", AnnOdd, 2, 0, {5}, <<Me>>), Save(4, "reply", Bob, 3, 1, {5}, <<Me>>),
    Save(5, "reply", Ann, 3, 1, {5}, <<Me>>), Save(6, "quote", Bob, 3, 1, {}, <<Me>>),
    Save(7, "poll", Ann, 4, 0, {}, <<>>), Save(8, "post", Bob, 2, 0, {5, 6}, <<Me>>)>>
Actions ==
  <<Vote(21, 1, Ann, "upvote", 4, Me), Vote(22, 1, Bob, "downvote", 4, Me),
    Tip(23, 1, Ann, 4, Me), Tip(24, 1, Bob, 4, Me), Tip(25, 1, Ann, 5, Me),
    Add("polls", [post |-> 7, options |-> 2, closes |-> 9]),
    Ballot(31, 7, Me, 0, 5), Ballot(32, 7, Me, 1, 6), Ballot(33, 7, Bob, 0, 5)>>
People ==
  <<Profile(Ann, 1), Profile(Bob, 1), Profile(Me, 2),
    Relation("follows", Me, Ann, 1), Relation("follows", Me, Bob, 1), Relation("follows", Ann, Me, 2),
    Relation("follows", AnnOdd, Bob, 2), Relation("follows", Bob, Me, 2), Relation("blocks", Ann, Bob, 1)>>
Rooms == <<Message(41, "r", Ann, 1), Message(42, "r", Bob, 2), Message(43, "r", Ann, 2), Message(44, "r", Bob, 3)>>
World == Tables0(Contents \o Actions \o People \o Rooms)

\* An older and a newer row, one of a time that a page may end at, a block, a
\* deletion.
Posting   == {Save(51, "post", Ann, 2, 0, {5}, <<Me>>), Save(52, "reply", Bob, 3, 1, {5}, <<Me>>)}
Moderation == {Relation("blocks", Me, AnnOdd, 3), Delete(8)}
Acting    == {Vote(53, 1, Bob, "upvote", 3, Me), Tip(54, 1, Bob, 4, Me), Message(55, "r", Ann, 2)}
\* Me replies to a post of Me's, and the subject of a mention goes away.
Notifying == {Vote(53, 1, Bob, "upvote", 3, Me), Tip(54, 1, Bob, 4, Me), Save(52, "reply", Bob, 3, 1, {5}, <<Me>>),
              Save(56, "reply", Me, 3, 1, {}, <<Me>>), Delete(8)}
Meeting   == {Profile(AnnOdd, 1), Relation("follows", Ann, Bob, 2), Relation("blocks", Me, Bob, 2), Relation("follows", Me, <<4, 2>>, 2)}
Unfollow  == {[op |-> "withdraw", table |-> "follows", row |-> CHOOSE f \in World.follows : f.by = Me /\ f.who = Bob]}
Editing   == {[op |-> "edit", tx |-> 2, time |-> 9, text |-> 8]}

Query == [me |-> <<Me>>, user |-> <<>>, limit |-> <<1>>, before |-> <<>>, after |-> <<>>, tx |-> <<>>, tag |-> <<>>,
          text |-> <<>>, window |-> <<>>, kind |-> <<>>, room |-> <<>>, named |-> <<>>]
Plan(endpoint, q, writes) ==
  [endpoint |-> endpoint, q |-> q, db |-> World, writes |-> writes, fails |-> 0, lookups |-> 0, ticks |-> 0, now |-> 10]

Feeds ==
  {Plan("posts", [Query EXCEPT !.user = <<AnnOdd>>], Posting \cup Moderation),
   Plan("watching", Query, Posting \cup Moderation \cup Editing),
   Plan("following", Query, Posting \cup Moderation \cup Unfollow),
   Plan("mentions", [Query EXCEPT !.user = <<Me>>], Posting \cup Moderation),
   Plan("hashtag", [Query EXCEPT !.tag = <<5>>, !.limit = <<2>>], Posting \cup Moderation),
   Plan("replies", [Query EXCEPT !.tx = <<1>>], Posting \cup Moderation),
   Plan("user_replies", [Query EXCEPT !.user = <<Ann>>], Posting \cup Moderation),
   Plan("search", [Query EXCEPT !.text = <<7>>, !.limit = <<2>>], Posting \cup Moderation),
   Plan("notifications", Query, Notifying)}
Acts ==
  {[Plan("engagement", [Query EXCEPT !.tx = <<1>>], Acting) EXCEPT !.fails = 1],
   Plan("engagement", [Query EXCEPT !.tx = <<1>>, !.kind = <<"upvote">>], Acting),
   Plan("tippers", [Query EXCEPT !.tx = <<1>>], Acting),
   Plan("room", [Query EXCEPT !.room = <<"r">>], Acting)}
Persons ==
  {Plan("users", Query, Meeting), Plan("search_users", [Query EXCEPT !.user = <<Ann>>], Meeting),
   Plan("search_posted", [Query EXCEPT !.kind = <<"users">>, !.text = <<7>>, !.named = <<{Ann, Bob}>>], Meeting),
   Plan("active", [Query EXCEPT !.window = <<"24h">>], Posting),
   Plan("blocked", [Query EXCEPT !.me = <<Ann>>], Meeting),
   Plan("followed", Query, (Meeting \ {Profile(AnnOdd, 1)}) \cup Unfollow),
   Plan("user_following", [Query EXCEPT !.user = <<AnnOdd>>], Meeting),
   Plan("user_followers", [Query EXCEPT !.user = <<Me>>], Meeting)}
\* Replies 2, 3, 4 and 5 under post 1, for a thread longer than the cap.
Thread == Tables0([i \in 1 .. 5 |-> Save(i, IF i = 1 THEN "post" ELSE "reply", Bob, i, i - 1, {}, <<>>)])
Objects ==
  {[Plan("thread", [Query EXCEPT !.tx = <<t>>], {Delete(1), Delete(2), Delete(3)} \cup Editing) EXCEPT
      !.db = Thread, !.fails = 1, !.lookups = 1] : t \in {4, 5}}
  \cup {Plan("details", [Query EXCEPT !.tx = <<6>>], Moderation), Plan("poll", [Query EXCEPT !.tx = <<7>>], {Delete(7)}),
        Plan("poll", [Query EXCEPT !.tx = <<7>>, !.me = <<Ann>>], {Ballot(34, 7, Ann, 1, 7)}),
        Plan("user", [Query EXCEPT !.user = <<AnnOdd>>], Meeting),
        Plan("notifications_count", Query, Posting \cup Acting), Plan("users_count", Query, Meeting),
        Plan("trending", Query, Posting)}
\* Requests that are refused for a missing or malformed parameter.
Faulty ==
  {Plan("posts", [Query EXCEPT !.user = <<<<>>>>], {}), Plan("watching", [Query EXCEPT !.limit = <<0>>], {}),
   Plan("hashtag", [Query EXCEPT !.tag = <<5>>, !.me = <<<<>>>>], {}), Plan("replies", [Query EXCEPT !.tx = <<1>>, !.user = <<Ann>>], {}),
   Plan("thread", [Query EXCEPT !.tx = <<99>>], {}), Plan("poll", [Query EXCEPT !.tx = <<7>>, !.limit = <<>>], {}),
   Plan("user", [Query EXCEPT !.user = <<>>], {}), Plan("trending", [Query EXCEPT !.window = <<"9y">>], {})}

\* The clock moves under two of the walks, so that the rate limit refuses a
\* page, a window ends and the pruner drops it.
Limited ==
  {[Plan("search", [Query EXCEPT !.text = <<7>>], {}) EXCEPT !.ticks = 5, !.fails = 1],
   [Plan("tippers", [Query EXCEPT !.tx = <<1>>], Acting) EXCEPT !.ticks = 5]}

Idling == {Plan("scheduled", Query, {})}
MCPlans == Idling \cup Limited \cup Feeds \cup Acts \cup Persons \cup Objects \cup Faulty

------------------------------------------------------------------------------
\* Transactions 1 and 2 are Ann's and share a coin, 3 is signed with her other
\* key and shares one with 2; coin "a" may be spent elsewhere.
MCAuthor == (1 :> Ann) @@ (2 :> Ann) @@ (3 :> AnnOdd)
MCInputs == (1 :> {"a"}) @@ (2 :> {"a", "b"}) @@ (3 :> {"b"})
MCOwner  == ("a" :> Ann[1]) @@ ("b" :> Ann[1])
Ask(tx, key, due, nth) == [tx |-> tx, key |-> key, due |-> due, signed |-> TRUE, nth |-> nth]
\* An unsigned request and one too far ahead at first; the same transaction
\* twice; two keys of a person, and a key that is not the payload's.
MCAsked ==
  {{}, {Ask(1, Ann, 1, 1), Ask(2, Ann, 3, 1), [Ask(1, Ann, 1, 2) EXCEPT !.signed = FALSE]},
   {Ask(1, Ann, 1, 1), Ask(1, Ann, 2, 2)},
   {Ask(2, Ann, 1, 1), Ask(3, AnnOdd, 1, 1), Ask(3, Ann, 1, 1)}}

Scheduling == plan.endpoint = "scheduled"
MCInit == Init /\ InitScheduled /\ (Scheduling <=> asks # {})
Web(A)   == ~Scheduling /\ A /\ UNCHANGED scheduledVars
Posts(A) == Scheduling /\ A /\ UNCHANGED vars
MCNext ==
  \/ Web(GetPosts) \/ Web(GetPostsWatching) \/ Web(GetFollowing) \/ Web(GetMentions) \/ Web(GetNotifications)
  \/ Web(GetReplies) \/ Web(GetHashtag) \/ Web(GetEngagement) \/ Web(GetTippers) \/ Web(GetBroadcasts)
  \/ Web(Search) \/ Web(SearchForUsers) \/ Web(GetPostDetails) \/ Web(GetPoll) \/ Web(GetUsers) \/ Web(GetMostActive)
  \/ Web(GetUserDetails) \/ Web(GetBlocked) \/ Web(GetFollowed) \/ Web(GetUsersFollowing) \/ Web(GetUsersFollowers)
  \/ Web(GetNotificationsCount) \/ Web(GetUsersCount) \/ Web(GetTrending)
  \/ Web(GetThread) \/ Web(ThreadLookup) \/ Web(ThreadDone)
  \/ Web(QueryFails) \/ Web(Complete) \/ Web(Write) \/ Web(Tick) \/ Web(PruneLimits)
  \/ \E c \in Callers :
        Posts(SchedulePost(c)) \/ Posts(ScheduleAsksNode(c)) \/ Posts(ScheduleFails(c)) \/ Posts(ScheduleInserts(c))
  \/ \E t \in Txs : Posts(CancelScheduledPost(t))
  \/ Posts(Prune) \/ Posts(Select) \/ Posts(CheckCoins) \/ Posts(Relay) \/ Posts(LeaveWaiting) \/ Posts(Mark)
  \/ Posts(RelayFails) \/ Posts(CrashScheduler) \/ Posts(SpendElsewhere) \/ Posts(TimePasses)

MCSpec == MCInit /\ [][MCNext]_<<vars, scheduledVars>> /\ WF_<<vars, scheduledVars>>(Posts(Scheduler))
=============================================================================
