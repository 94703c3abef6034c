----------------------------- MODULE WebServer -----------------------------
(***************************************************************************)
(* kachat-webserver as a client of one endpoint meets it: the client walks *)
(* the pages with the cursors it is given, or asks for one object, while   *)
(* the processor writes to the tables. Every statement of a request sees   *)
(* the tables as they are then: the main query is one step, the statements *)
(* that complete its page are another, and every lookup of a thread is a   *)
(* step of its own. Requests are charged to the client's rate limit, and a *)
(* refused or failed request is repeated with the same cursor.             *)
(***************************************************************************)
EXTENDS WebApi

CONSTANTS Plans,       \* endpoints, requests, tables and writes to check
          RateLimit,   \* requests of a client in a window
          Window,      \* the length of a window (60 s)
          Idle,        \* age at which the pruner drops a window (120 s)
          CountMax     \* u32::MAX

VARIABLES
  plan,      \* [endpoint, q, db, writes, fails, lookups, ticks, now]: what is checked; writes and
             \* fails left, lookups the fails there were of a thread
  d,         \* the tables
  clock,     \* the server's clock, in steps of half a window
  limiter,   \* rate_limit_map: the client's window [start, count], or nothing
  req,       \* the request being served
  walk,      \* the client: its cursor, what it was shown, whether it is done
  kept,      \* ghost: the keys wanted ever since the walk began
  ever       \* ghost: the keys wanted at some time since then

vars == <<plan, d, clock, limiter, req, walk, kept, ever>>

NoRequest == [pc |-> "none"]

\* A reply names the id of a content that was there to be hashed, so that no
\* chain of replies comes back to where it was.
Descends(contents) ==
  LET ids == {c.tx : c \in contents}
  IN \E age \in [ids -> 0 .. Cardinality(contents)] :
       \A c \in contents : c.kind = "reply" /\ c.ref \in ids => age[c.ref] < age[c.tx]
\* A write that stores no content and changes neither id, kind nor reference of one.
Moderates(w) ==
  \/ w.op \in {"delete", "edit", "withdraw"}
  \/ w.op = "insert" /\ w.table # "contents"
  \/ w.op = "action" /\ w.table # "contents"
\* The plans of a thread: tables whose contents have ids of their own, and
\* writes that only moderate what was asked for.
ThreadPlan(p) ==
  /\ {"endpoint", "q", "db", "writes", "fails", "lookups"} \subseteq DOMAIN p
  /\ {"me", "tx"} \subseteq DOMAIN p.q /\ {"contents", "serial"} \subseteq DOMAIN p.db
  /\ p.fails \in Nat /\ p.lookups \in Nat /\ p.fails <= p.lookups
  /\ IsFiniteSet(p.db.contents)
  /\ \A c \in p.db.contents : {"tx", "kind", "ref"} \subseteq DOMAIN c
  /\ \A c, e \in p.db.contents : c.tx = e.tx => c = e
  /\ Descends(p.db.contents)
  /\ \A w \in p.writes : Moderates(w)

ASSUME ThreadPlans == \A p \in Plans : "endpoint" \in DOMAIN p /\ (p.endpoint = "thread" => ThreadPlan(p))

------------------------------------------------------------------------------
(* What an endpoint is for, stated without its query: the keys of the rows *)
(* a complete walk shows.                                                  *)

Person(key) == key[1]
Hidden(t, me) == {Person(b.who) : b \in {b \in t.blocks : b.by = me}}
Followed(t, me) == {Person(f.who) : f \in {f \in t.follows : f.by = me}}

Shown == [posts |-> {"post", "quote", "poll"}, watching |-> {"post", "quote", "poll"},
          search |-> {"post", "quote", "poll"}, following |-> {"post", "reply", "quote", "poll"},
          mentions |-> {"post", "reply", "quote"}, hashtag |-> {"post", "reply", "quote"},
          replies |-> {"reply"}, user_replies |-> {"reply"}]

Concerns(t, c, q) ==
  CASE plan.endpoint \in {"posts", "user_replies"} -> Person(c.by) = Person(q.user[1])
    [] plan.endpoint = "watching"  -> TRUE
    [] plan.endpoint = "search"    -> c.text = q.text[1]
    [] plan.endpoint = "following" -> Person(c.by) \in Followed(t, q.me[1])
    [] plan.endpoint = "mentions"  -> \E m \in t.mentions : m.content = c.tx /\ m.who = q.user[1]
    [] plan.endpoint = "hashtag"   -> q.tag[1] \in c.tags
    [] plan.endpoint = "replies"   -> c.ref = q.tx[1]

WantedContents(t, q) ==
  {c \in t.contents : c.kind \in Shown[plan.endpoint] /\ Person(c.by) \notin Hidden(t, q.me[1]) /\ Concerns(t, c, q)}

\* A mention of the requester by another person whom they do not block, with
\* the content, vote or tip it tells of still there.
WantedNotices(t, me) ==
  {m \in t.mentions : /\ Person(m.who) = Person(me) /\ Person(m.by) \notin Hidden(t, me) \cup {Person(me)}
                      /\ \/ \E v \in t.votes : m.kind = "vote" /\ v.tx = m.content
                         \/ \E p \in t.tips : m.kind = "tip" /\ p.tx = m.content
                         \/ \E c \in t.contents : m.kind = c.kind /\ c.tx = m.content}

\* A refused request wants nothing.
WellFormed(q) == \A f \in {"me", "user"} : q[f] # <<>> => q[f][1] # <<>>
Wanted(t) ==
  LET q  == plan.q
      me == q.me[1]
      rows ==
        CASE plan.endpoint \in DOMAIN Shown -> WantedContents(t, q)
          [] plan.endpoint = "notifications" -> WantedNotices(t, me)
          [] plan.endpoint = "engagement" ->
               {v \in t.votes : v.post = q.tx[1] /\ Else(q.kind, "all") \in {"all", v.vote}}
               \cup {c \in t.contents : c.ref = q.tx[1] /\ c.kind = "quote" /\ Else(q.kind, "all") \in {"all", "quote"}}
          [] plan.endpoint = "tippers" -> {p \in t.tips : p.post = q.tx[1]}
          [] plan.endpoint = "room" -> {r \in t.rooms : r.room = q.room[1]}
          [] plan.endpoint = "users" -> t.profiles
          [] plan.endpoint = "search_users" -> {p \in t.profiles : Person(p.by) = Person(q.user[1])}
          [] plan.endpoint = "search_posted" -> {p \in t.profiles : p.by \in q.named[1] /\ \E c \in t.contents : c.by = p.by}
          [] plan.endpoint = "blocked" -> {b \in t.blocks : b.by = me}
          [] plan.endpoint = "followed" -> {f \in t.follows : f.by = me}
          [] plan.endpoint = "user_following" -> {f \in t.follows : Person(f.by) = Person(q.user[1])}
          [] plan.endpoint = "user_followers" -> {f \in t.follows : Person(f.who) = Person(q.user[1])}
          [] OTHER -> {}
  IN IF WellFormed(q) THEN {Key(r) : r \in rows} ELSE {}

------------------------------------------------------------------------------
Init ==
  /\ plan \in Plans
  /\ d = plan.db
  /\ clock = 0
  /\ limiter = <<>>
  /\ req = NoRequest
  /\ walk = [before |-> <<>>, items |-> <<>>, done |-> FALSE, status |-> 0, stuck |-> FALSE]
  /\ kept = Wanted(d) /\ ever = Wanted(d)

\* check_rate_limit_n: the window begins anew when it is over; a refused
\* request counts as well.
Charged(cost) ==
  LET fresh == [start |-> clock, count |-> 0]
      entry == IF limiter = <<>> \/ clock - limiter[1].start >= Window THEN fresh ELSE limiter[1]
  IN [entry EXCEPT !.count = Min({@ + cost, CountMax})]
Admitted(cost) == Charged(cost).count <= RateLimit

\* The request of the client's next page.
Request == [plan.q EXCEPT !.before = walk.before]

\* A request of this endpoint and its main query.
Serve(endpoint, cost, answer) ==
  /\ plan.endpoint = endpoint
  /\ req.pc = "none" /\ ~walk.done
  /\ limiter' = <<Charged(cost)>>
  /\ CASE ~Admitted(cost)     -> UNCHANGED <<req, walk>>
       [] answer.status = 200 -> req' = [pc |-> "page", answer |-> answer] /\ UNCHANGED walk
       [] OTHER               -> walk' = [walk EXCEPT !.done = TRUE, !.status = answer.status] /\ UNCHANGED req
  /\ UNCHANGED <<plan, d, clock, kept, ever>>

\* The main query fails: 500, and the client asks again.
QueryFails ==
  /\ req.pc = "none" /\ ~walk.done /\ plan.fails > 0 /\ Admitted(1)
  /\ plan' = [plan EXCEPT !.fails = @ - 1]
  /\ limiter' = <<Charged(1)>>
  /\ UNCHANGED <<d, clock, req, walk, kept, ever>>

\* The statements that complete the page (their errors are ignored), and the
\* answer; the client goes on with the next cursor while there is more.
Complete ==
  /\ req.pc = "page"
  /\ \E failing \in {{}, OfContents} :
       LET page  == req.answer.page
           items == Enrich(d, page.items, req.answer.steps \ failing, plan.q.me[1])
           gone  == "PollOnly" \in req.answer.steps /\ items[1].poll = <<>>
       IN walk' = [before |-> page.next, items |-> walk.items \o (IF gone THEN <<>> ELSE items),
                   done |-> ~page.more \/ page.next = <<>>, status |-> IF gone THEN 404 ELSE 200,
                   stuck |-> page.more /\ page.next = <<>>]
  /\ req' = NoRequest
  /\ UNCHANGED <<plan, d, clock, limiter, kept, ever>>

GetPosts          == Serve("posts", 1, HandleGetPosts(d, Request))
GetPostsWatching  == Serve("watching", 1, HandleGetPostsWatching(d, Request))
GetFollowing      == Serve("following", 1, HandleGetContentsFollowing(d, Request))
GetMentions       == Serve("mentions", 1, HandleGetMentions(d, Request))
GetNotifications  == Serve("notifications", 1, HandleGetNotifications(d, Request))
GetReplies        == \/ Serve("replies", 1, HandleGetReplies(d, Request))
                     \/ Serve("user_replies", 1, HandleGetReplies(d, Request))
GetHashtag        == Serve("hashtag", 1, HandleGetHashtagContent(d, Request))
GetEngagement     == Serve("engagement", 1, HandleGetPostEngagement(d, Request))
GetTippers        == Serve("tippers", 1, HandleGetPostTippers(d, Request))
GetBroadcasts     == Serve("room", 1, HandleGetBroadcasts(d, Request))
Search            == \/ Serve("search", SearchCost, HandleSearch(d, Request))
                     \/ Serve("search_posted", SearchCost, HandleSearch(d, Request))
SearchForUsers    == Serve("search_users", 1, HandleSearchUsers(d, Request))
GetPostDetails    == Serve("details", 1, HandleGetPostDetails(d, Request))
GetPoll           == Serve("poll", 1, HandleGetPoll(d, Request))
GetUsers          == Serve("users", 1, HandleGetUsers(d, Request))
GetMostActive     == Serve("active", 1, HandleGetMostActiveUsers(d, Request, plan.now))
GetUserDetails    == Serve("user", 1, HandleGetUserDetails(d, Request))
GetBlocked        == Serve("blocked", 1, HandleGetBlockedUsers(d, Request))
GetFollowed       == Serve("followed", 1, HandleGetFollowedUsers(d, Request))
GetUsersFollowing == Serve("user_following", 1, HandleGetUsersFollowing(d, Request))
GetUsersFollowers == Serve("user_followers", 1, HandleGetUsersFollowers(d, Request))
GetNotificationsCount == Serve("notifications_count", 1, HandleGetNotificationsCount(d, Request))
GetUsersCount     == Serve("users_count", 1, HandleGetUsersCount(d, Request))
GetTrending       == Serve("trending", 1, HandleGetTrendingHashtags(d, Request, plan.now))

\* A thread: the content, then one lookup after another, and the answer.
GetThread ==
  /\ plan.endpoint = "thread" /\ req.pc = "none" /\ ~walk.done
  /\ limiter' = <<Charged(1)>>
  /\ LET answer == HandleGetThread(d, Request)
     IN CASE ~Admitted(1)         -> UNCHANGED <<req, walk>>
          [] answer.status = 200 -> req' = [pc |-> "thread", thread |-> ThreadStart(d, Request)] /\ UNCHANGED walk
          [] OTHER               -> walk' = [walk EXCEPT !.done = TRUE, !.status = answer.status] /\ UNCHANGED req
  /\ UNCHANGED <<plan, d, clock, kept, ever>>
ThreadLookup ==
  /\ req.pc = "thread" /\ ~ThreadEnds(req.thread)
  /\ \E fails \in BOOLEAN :
       /\ fails => plan.fails > 0
       /\ plan' = [plan EXCEPT !.fails = IF fails THEN @ - 1 ELSE @]
       /\ req' = [req EXCEPT !.thread = ThreadStep(d, @, plan.q.me[1], fails)]
  /\ UNCHANGED <<d, clock, limiter, walk, kept, ever>>
ThreadDone ==
  /\ req.pc = "thread" /\ ThreadEnds(req.thread)
  /\ walk' = [walk EXCEPT !.items = ThreadAnswer(req.thread), !.done = TRUE, !.status = 200]
  /\ req' = NoRequest
  /\ UNCHANGED <<plan, d, clock, limiter, kept, ever>>

------------------------------------------------------------------------------
(* What happens beside the request. *)

\* One write of the processor.
Written(w) ==
  CASE w.op = "content"  -> SaveContent(d, w.row, w.who)
    [] w.op = "action"   -> SaveAction(d, w.table, w.kind, w.row, w.author)
    [] w.op = "insert"   -> Insert(d, w.table, w.row)
    [] w.op = "delete"   -> HardDelete(d, w.tx)
    [] w.op = "withdraw" -> Withdraw(d, w.table, w.row)
    [] w.op = "edit"     -> EditText(d, w.tx, w.time, w.text)
Write ==
  /\ ~walk.done
  /\ \E w \in plan.writes :
       /\ d' = Written(w)
       /\ plan' = [plan EXCEPT !.writes = @ \ {w}]
  /\ kept' = kept \cap Wanted(d') /\ ever' = ever \cup Wanted(d')
  /\ UNCHANGED <<clock, limiter, req, walk>>

Tick ==
  /\ clock < plan.ticks /\ ~walk.done
  /\ clock' = clock + 1
  /\ UNCHANGED <<plan, d, limiter, req, walk, kept, ever>>
\* spawn_rate_limit_pruner.
PruneLimits ==
  /\ limiter # <<>> /\ clock - limiter[1].start >= Idle
  /\ limiter' = <<>>
  /\ UNCHANGED <<plan, d, clock, req, walk, kept, ever>>

Next ==
  \/ GetPosts \/ GetPostsWatching \/ GetFollowing \/ GetMentions \/ GetNotifications
  \/ GetReplies \/ GetHashtag \/ GetEngagement \/ GetTippers \/ GetBroadcasts
  \/ Search \/ SearchForUsers \/ GetPostDetails \/ GetPoll \/ GetUsers \/ GetMostActive
  \/ GetUserDetails \/ GetBlocked \/ GetFollowed \/ GetUsersFollowing \/ GetUsersFollowers
  \/ GetNotificationsCount \/ GetUsersCount \/ GetTrending
  \/ GetThread \/ ThreadLookup \/ ThreadDone
  \/ QueryFails \/ Complete \/ Write \/ Tick \/ PruneLimits

Spec == Init /\ [][Next]_vars

------------------------------------------------------------------------------
(* Properties. *)

Walkable == {"posts", "watching", "search", "following", "mentions", "hashtag", "replies", "user_replies",
             "notifications", "engagement", "tippers", "room", "users", "search_users", "search_posted",
             "blocked", "followed", "user_following", "user_followers"}

\* A client that follows the cursors sees, newest first and once, every row
\* that was wanted all the time (its author not blocked, and so on), and none
\* that was wanted at no time, whatever is written between the pages. The
\* known exceptions: a room's messages of the same time as the last of a page
\* (its cursor is a time alone), and notifications behind a page of which
\* every subject is gone (more, but no cursor: stuck).
WalkExact ==
  plan.endpoint \in Walkable /\ walk.status \in {0, 200} =>
    LET shown    == [i \in DOMAIN walk.items |-> walk.items[i].key]
        alone(k) == \A o \in ever : o[1] = k[1] => o = k
        due(k)   == walk.done \/ (walk.before # <<>> /\ ~Precedes(k, ParseCursor(walk.before)))
    IN /\ \A i, j \in DOMAIN shown : i < j => Precedes(shown[j], shown[i])
       /\ Range(shown) \subseteq ever
       /\ ~walk.stuck => \A k \in kept : due(k) /\ (plan.endpoint = "room" => alone(k)) => k \in Range(shown)

\* The numbers agree with the lists they announce, which other queries make:
\* unread notifications (up to the cap), followers, followed and blocked
\* persons of a profile over both of its keys, and a poll's counts, in which
\* every voter counts once.
CountsAgree ==
  plan.q.me # <<>> /\ WellFormed(plan.q) =>
  LET me        == plan.q.me[1]
      everybody == {p.by : p \in d.profiles}
      notices   == {m \in d.mentions : Person(m.who) = Person(me) /\ Person(m.by) \notin Hidden(d, me) \cup {Person(me)}}
      counts(k) == UserCounts(d, k, me)
      blocked(k) == {b \in d.blocks : Person(b.by) = Person(k)}
  IN /\ \A m \in notices :
          LET unread == Cardinality({n \in notices : Precedes(Key(m), Key(n))})
          IN NotificationCount(d, me, Key(m)).count = Min({unread, NotificationCap})
     /\ \A k \in everybody :
          /\ counts(k).followers = Cardinality({r[1] : r \in FollowerRows(d, k)})
          /\ counts(k).following = Cardinality({r[1] : r \in FollowingRows(d, k)})
          /\ counts(k).blocking = Cardinality(blocked(k))
     /\ \A p \in d.polls :
          FoldLeft(LAMBDA n, c : n + c, 0, OptionCounts(d, p)) = Cardinality({b.by : b \in {b \in d.ballots : b.poll = p.post}})

\* A thread is one chain of replies that ends in the content asked for: the
\* ancestors are the nearest ones, and the chain is shorter than the cap only
\* if the next parent is gone or its lookup failed.
ThreadWhole ==
  plan.endpoint = "thread" /\ walk.done /\ walk.status = 200 =>
    LET shown  == walk.items
        ref(tx) == (CHOOSE c \in plan.db.contents : c.tx = tx).ref
    IN /\ shown # <<>> /\ Last(shown).tx = plan.q.tx[1]
       /\ \A i \in 1 .. Len(shown) - 1 : shown[i + 1].kind = "reply" /\ shown[i].tx = ref(shown[i + 1].tx)
       /\ Len(shown) <= MaxAncestors + 1
       /\ Len(shown) <= MaxAncestors /\ Head(shown).kind = "reply" =>
            plan.lookups > plan.fails \/ ref(Head(shown).tx) \notin {c.tx : c \in d.contents}
=============================================================================
