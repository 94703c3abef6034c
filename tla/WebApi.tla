------------------------------- MODULE WebApi -------------------------------
(***************************************************************************)
(* The requests of kachat-webserver: the handlers of web_server.rs, which  *)
(* check the parameters and choose the status, over those of               *)
(* api_handlers.rs, which check keys and ids and ask the database.         *)
(*                                                                         *)
(* A request q has a field for every parameter, <<>> when it is absent and *)
(* <<v>> otherwise; the malformed key is <<>> and the malformed id is 0.   *)
(* An answer is [status, page, steps]: steps are the statements that still *)
(* complete the page (Feed!Enrich). A request that is no page has its      *)
(* result as the only item.                                                *)
(***************************************************************************)
EXTENDS FeedContents, FeedPeople

CONSTANTS Windows,       \* the time windows, by name, in units of chain time
          MaxAncestors,  \* of a thread (25)
          MaxWalk        \* lookups of a thread (200)

ASSUME ThreadBounds == MaxAncestors \in Nat /\ MaxWalk \in Nat /\ MaxAncestors <= MaxWalk

Given(q, needs) == \A f \in needs : q[f] # <<>>
Options(q) == [limit |-> q.limit[1], before |-> q.before, after |-> q.after, descending |-> TRUE]
Else(param, default) == IF param = <<>> THEN default ELSE param[1]
Clamp(n, lo, hi) == Min({Max({n, lo}), hi})
One(x) == [Pagination(<<>>, FALSE) EXCEPT !.items = <<x>>]

\* Keys are 66 hexadecimal digits after 02 or 03, ids 64 of them.
WithKeys(q, keys, page) == IF \A k \in keys : q[k][1] # <<>> THEN page ELSE Failed("INVALID_USER_KEY")
WithId(q, page) == IF q.tx[1] # 0 THEN page ELSE Failed("INVALID_POST_ID")

Refused(status) == [status |-> status, page |-> Failed("refused"), steps |-> {}]
\* The statuses of the error codes; any other is 500.
Answer(page, bad, steps) ==
  [status |-> CASE page.ok -> 200 [] page.why \in bad -> 400 [] page.why = "NOT_FOUND" -> 404 [] OTHER -> 500,
   page |-> page, steps |-> IF page.ok THEN steps ELSE {}]
\* The handler of a page: parameters, limit in 1..100, the codes that are 400.
Served(q, needs, page, bad, steps) ==
  IF Given(q, needs \cup {"limit"}) /\ q.limit[1] \in 1 .. 100 THEN Answer(page, bad, steps) ELSE Refused(400)

BadKey == {"INVALID_USER_KEY"}
OfContents == {"edited", "tips", "polls"}

------------------------------------------------------------------------------
(* Feeds. *)

ApiPosts(d, q) == WithKeys(q, {"user", "me"}, UserPosts(d, q.user[1], q.me[1], Options(q)))
HandleGetPosts(d, q) == Served(q, {"user", "me"}, ApiPosts(d, q), BadKey, OfContents)

ApiPostsWatching(d, q) == WithKeys(q, {"me"}, AllPosts(d, q.me[1], 0, Options(q)))
HandleGetPostsWatching(d, q) == Served(q, {"me"}, ApiPostsWatching(d, q), BadKey, OfContents)

ApiContentFollowing(d, q) == WithKeys(q, {"me"}, ContentFollowing(d, q.me[1], Options(q)))
HandleGetContentsFollowing(d, q) == Served(q, {"me"}, ApiContentFollowing(d, q), BadKey, OfContents)

\* One row more than the limit is asked for, and it is part of the answer.
OneMore(q) == [Options(q) EXCEPT !.limit = @ + 1]
ApiMentions(d, q) == WithKeys(q, {"user", "me"}, ContentsMentioning(d, q.user[1], q.me[1], OneMore(q)))
HandleGetMentions(d, q) == Served(q, {"user", "me"}, ApiMentions(d, q), BadKey, {"tips"})
ApiNotifications(d, q) == WithKeys(q, {"me"}, NotificationPage(d, q.me[1], OneMore(q)))
HandleGetNotifications(d, q) == Served(q, {"me"}, ApiNotifications(d, q), BadKey, {})

\* Exactly one of post and user; the post wins in neither case.
ApiReplies(d, q) == WithId(q, WithKeys(q, {"me"}, PostReplies(d, q.tx[1], q.me[1], Options(q))))
ApiUserReplies(d, q) == WithKeys(q, {"user", "me"}, UserReplies(d, q.user[1], q.me[1], Options(q)))
HandleGetReplies(d, q) ==
  CASE Given(q, {"tx"}) /\ q.user = <<>> ->
         Served(q, {"me"}, ApiReplies(d, q), BadKey \cup {"INVALID_POST_ID"}, {"edited", "tips"})
    [] Given(q, {"user"}) /\ q.tx = <<>> -> Served(q, {"me"}, ApiUserReplies(d, q), BadKey, {"edited", "tips"})
    [] OTHER -> Refused(400)

\* The limit is 20 when it is absent; a malformed key is 500 here.
ApiHashtag(d, q) == WithKeys(q, {"me"}, HashtagContent(d, q.tag[1], q.me[1], Options(q)))
HandleGetHashtagContent(d, q) ==
  LET r == [q EXCEPT !.limit = <<Else(q.limit, 20)>>]
  IN Served(r, {"tag", "me"}, ApiHashtag(d, r), {}, {"edited", "tips"})

\* The requester's key is not looked at; the kind is "all" when it is absent.
ApiEngagement(d, q) ==
  IF Else(q.kind, "all") \in {"upvote", "downvote", "repost", "quote", "all"}
  THEN WithId(q, PostEngagement(d, q.tx[1], Else(q.kind, "all"), Options(q)))
  ELSE Failed("INVALID_PARAMETER")
HandleGetPostEngagement(d, q) ==
  LET r == [q EXCEPT !.limit = <<Else(q.limit, 50)>>]
  IN Served(r, {"tx"}, ApiEngagement(d, r), {"INVALID_POST_ID", "INVALID_PARAMETER", "INVALID_LIMIT"}, {})
HandleGetPostTippers(d, q) ==
  LET r == [q EXCEPT !.limit = <<Else(q.limit, 50)>>]
  IN Served(r, {"tx"}, WithId(r, PostTippers(d, r.tx[1], Options(r))), {"INVALID_POST_ID"}, {})

\* No channel is an empty answer, any limit becomes one of 1..500.
HandleGetBroadcasts(d, q) ==
  IF q.room = <<>> THEN Answer(Pagination(<<>>, FALSE), {}, {})
  ELSE Answer(RoomMessages(d, q.room[1], Clamp(Else(q.limit, 200), 1, 500), q.before), {}, {})

------------------------------------------------------------------------------
(* Searches; a search of texts costs more of the rate limit. *)

SearchCost == 5
\* "NotHex": the users' queries decode the requester's key themselves.
NotHex(q, page) == IF q.me[1] # <<>> THEN page ELSE Failed("DATABASE_ERROR")

ApiSearchPosts(d, q) == WithKeys(q, {"me"}, AllPosts(d, q.me[1], q.text[1], Options(q)))
ApiSearchPosted(d, q) == WithKeys(q, {"me"}, SearchPosted(d, q.me[1], q.named[1], Options(q)))
HandleSearch(d, q) ==
  IF Else(q.kind, "posts") = "users" THEN Served(q, {"text", "me"}, ApiSearchPosted(d, q), BadKey, {})
  ELSE Served(q, {"text", "me"}, ApiSearchPosts(d, q), BadKey, OfContents)

ApiSearchUsers(d, q) ==
  IF q.user # <<>> /\ q.user[1] = <<>> THEN Failed("INVALID_USER_KEY")
  ELSE NotHex(q, SearchUsers(d, q.me[1], Else(q.user, <<>>), q.named, Options(q)))
HandleSearchUsers(d, q) == Served(q, {"me"}, ApiSearchUsers(d, q), BadKey, {})

------------------------------------------------------------------------------
(* One content. *)

\* get_content_by_id, as an optional item.
ApiPostDetails(d, q) ==
  LET found == ContentById(d, q.tx[1], q.me[1])
  IN WithId(q, WithKeys(q, {"me"}, IF found = <<>> THEN Failed("NOT_FOUND") ELSE One(found[1].item)))
HandleGetPostDetails(d, q) ==
  IF Given(q, {"tx", "me"}) THEN Answer(ApiPostDetails(d, q), {"INVALID_POST_ID"}, OfContents) ELSE Refused(400)
\* The requester may be absent, and then the empty key is refused; every
\* error is 404 here. PollOnly: so is a content without a poll in the end.
HandleGetPoll(d, q) ==
  LET page == ApiPostDetails(d, [q EXCEPT !.me = <<Else(q.me, <<>>)>>])
  IN CASE q.tx = <<>> -> Refused(400)
       [] page.ok     -> Answer(page, {}, OfContents \cup {"PollOnly"})
       [] OTHER       -> Refused(404)

\* A thread is built by one lookup after another, each with the statements that
\* complete it: chain, nearest first, next the parent to look up, seen the
\* contents it went through.
Looked(d, found, me) == Enrich(d, <<found.item>>, found.steps, me)[1]
ParentOf(found) == IF found.item.kind = "reply" THEN <<found.ref>> ELSE <<>>
ThreadStart(d, q) ==
  LET found == ContentById(d, q.tx[1], q.me[1])
  IN [post |-> Looked(d, found[1], q.me[1]), chain |-> <<>>, next |-> ParentOf(found[1]),
      seen |-> {q.tx[1]}, steps |-> 0]
ThreadEnds(t) == Range(t.next) \subseteq t.seen \/ t.steps >= MaxWalk
\* A parent that is missing, or a failing lookup, ends the chain.
ThreadStep(d, t, me, fails) ==
  LET found == IF fails THEN <<>> ELSE ContentById(d, t.next[1], me)
  IN [t EXCEPT !.steps = @ + 1,
               !.seen  = @ \cup {t.next[1]},
               !.next  = IF found = <<>> THEN <<>> ELSE ParentOf(found[1]),
               !.chain = IF found = <<>> THEN @ ELSE Append(@, Looked(d, found[1], me))]
\* Mutant of ThreadAnswer: the chain is cut after it was turned round.
ThreadAnswerCutsNearest(t) == SubSeq(Reverse(t.chain), 1, Min({Len(t.chain), MaxAncestors})) \o <<t.post>>
\* The nearest ancestors, root first, and the post.
ThreadAnswer(t) == Reverse(SubSeq(t.chain, 1, Min({Len(t.chain), MaxAncestors}))) \o <<t.post>>
HandleGetThread(d, q) ==
  CASE ~Given(q, {"tx", "me"}) \/ q.tx[1] = 0 \/ q.me[1] = <<>> -> Refused(400)
    [] ContentById(d, q.tx[1], q.me[1]) = <<>> -> Refused(404)
    [] OTHER -> Answer(Pagination(<<>>, FALSE), {}, {})

------------------------------------------------------------------------------
(* People. *)

ApiUsers(d, q) == NotHex(q, AllUsers(d, q.me[1], Options(q)))
HandleGetUsers(d, q) == Served(q, {"me"}, ApiUsers(d, q), {}, {})

\* The window ends at the server's clock when the request arrives.
ApiMostActive(d, q, now) ==
  IF q.window[1] \in DOMAIN Windows
  THEN NotHex(q, MostActiveUsers(d, q.me[1], Max({0, now - Windows[q.window[1]]}), now, Options(q)))
  ELSE Failed("INVALID_PARAMETER")
HandleGetMostActiveUsers(d, q, now) ==
  Served(q, {"window", "me"}, ApiMostActive(d, q, now), {"INVALID_PARAMETER"}, {})

ApiUserDetails(d, q) == WithKeys(q, {"user", "me"}, One(UserDetails(d, q.user[1], q.me[1])))
HandleGetUserDetails(d, q) ==
  IF Given(q, {"user", "me"}) THEN Answer(ApiUserDetails(d, q), BadKey, {}) ELSE Refused(400)

ApiBlockedUsers(d, q) == WithKeys(q, {"me"}, BlockedUsers(d, q.me[1], Options(q)))
HandleGetBlockedUsers(d, q) == Served(q, {"me"}, ApiBlockedUsers(d, q), BadKey, {})
ApiFollowedUsers(d, q) == WithKeys(q, {"me"}, FollowedUsers(d, q.me[1], Options(q)))
HandleGetFollowedUsers(d, q) == Served(q, {"me"}, ApiFollowedUsers(d, q), BadKey, {})
ApiUsersFollowing(d, q) == WithKeys(q, {"user", "me"}, UsersFollowing(d, q.me[1], q.user[1], Options(q)))
HandleGetUsersFollowing(d, q) == Served(q, {"user", "me"}, ApiUsersFollowing(d, q), BadKey, {})
ApiUsersFollowers(d, q) == WithKeys(q, {"user", "me"}, UsersFollowers(d, q.me[1], q.user[1], Options(q)))
HandleGetUsersFollowers(d, q) == Served(q, {"user", "me"}, ApiUsersFollowers(d, q), BadKey, {})

------------------------------------------------------------------------------
(* Counts. *)

ApiNotificationCount(d, q) ==
  LET n == NotificationCount(d, q.me[1], q.after)
  IN WithKeys(q, {"me"}, IF n.ok THEN One(n.count) ELSE Failed("DATABASE_ERROR"))
HandleGetNotificationsCount(d, q) ==
  IF Given(q, {"me"}) THEN Answer(ApiNotificationCount(d, q), BadKey, {}) ELSE Refused(400)

HandleGetUsersCount(d, q) == Answer(One(UsersCount(d)), {}, {})

ApiTrending(d, window, limit, now) == TrendingHashtags(d, Max({0, now - Windows[window]}), now, limit)
HandleGetTrendingHashtags(d, q, now) ==
  LET window == Else(q.window, "24h")
      limit  == Else(q.limit, 20)
  IN IF window \in DOMAIN Windows /\ limit \in 1 .. 100
     THEN Answer(Pagination(ApiTrending(d, window, limit, now), FALSE), {}, {})
     ELSE Refused(400)
==============================================================================
