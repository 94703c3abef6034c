----------------------------- MODULE FeedPeople -----------------------------
(***************************************************************************)
(* The queries of database_postgres_impl.rs that return people: profiles   *)
(* (k_broadcasts), follows and blocks, and the counts of them. A row of a  *)
(* LEFT JOIN with the profiles appears once for each profile it matches,   *)
(* and once when it matches none (the join is tie).                        *)
(***************************************************************************)
EXTENDS Feed

\* A profile as the requester sees it; extra is what the query adds to it.
PersonItem(d, p, me, key, extra) ==
  [key |-> key, tie |-> 0, by |-> p.by, blocked |-> Blocks(d, me, p.by), followed |-> Follows(d, me, p.by), extra |-> extra]

\* get_all_users.
AllUsers(d, me, o) == Page({PersonItem(d, p, me, Key(p), 0) : p \in d.profiles}, o)

\* get_most_active_users: profiles with content of the very key in the window,
\* by its count; the count takes the place of the time in the cursor.
Activity(d, key, from, to) == Cardinality({c \in d.contents : c.by = key /\ c.time \in from .. to})
ActiveRows(d, me, from, to) ==
  {PersonItem(d, p, me, <<Activity(d, p.by, from, to), p.id>>, Activity(d, p.by, from, to)) :
     p \in {p \in d.profiles : Activity(d, p.by, from, to) > 0}}
MostActiveUsers(d, me, from, to, o) == Page(ActiveRows(d, me, from, to), [o EXCEPT !.descending = TRUE])

\* search_users: by the end of the key (either parity), by nickname, or both;
\* <<>> is no such filter and a nickname stands for the profiles it matches.
SearchedRows(d, user, named) ==
  {p \in d.profiles : (user # <<>> => SamePerson(p.by, user)) /\ (named # <<>> => p.by \in named[1])}
SearchUsers(d, me, user, named, o) == Page({PersonItem(d, p, me, Key(p), 0) : p \in SearchedRows(d, user, named)}, o)

\* search_users_posted: the text matches the nickname or the key, and the very
\* key has written something.
PostedCount(d, key) == Cardinality({c \in d.contents : c.by = key /\ c.kind \in {"post", "reply", "quote", "poll"}})
SearchPosted(d, me, matches, o) ==
  Page({PersonItem(d, p, me, Key(p), PostedCount(d, p.by)) :
          p \in {p \in d.profiles : p.by \in matches /\ PostedCount(d, p.by) > 0}}, o)

\* get_user_details: the newest profile of the person, or an empty one under
\* the key asked for, and the counts over both keys.
UserCounts(d, user, me) ==
  [blocked   |-> \E b \in d.blocks : b.by = me /\ b.who \in Variants(user),
   followed  |-> \E f \in d.follows : f.by = me /\ f.who \in Variants(user),
   followers |-> Cardinality({f \in d.follows : f.who \in Variants(user)}),
   following |-> Cardinality({f \in d.follows : f.by \in Variants(user)}),
   blocking  |-> Cardinality({b \in d.blocks : b.by \in Variants(user)})]
UserDetails(d, user, me) ==
  LET own    == {p \in d.profiles : p.by \in Variants(user)}
      newest == {p \in own : \A q \in own : q.time <= p.time}
  IN [by |-> IF own = {} THEN user ELSE (CHOOSE p \in newest : TRUE).by, known |-> own # {},
      counts |-> UserCounts(d, user, me)]

------------------------------------------------------------------------------
\* A relation row beside the profiles it joins (0: none).
Beside(row, profiles) == IF profiles = {} THEN {<<row, 0>>} ELSE {<<row, p.id>> : p \in profiles}
OfPerson(d, key) == {p \in d.profiles : SamePerson(p.by, key)}
RelationItem(pair, key, followed) ==
  [key |-> Key(pair[1]), tie |-> pair[2], by |-> key, followed |-> followed]

\* get_blocked_users_by_requester and get_followed_users_by_requester: by the
\* requester's key as given, joined with every profile of the person.
BlockedUsers(d, me, o) ==
  Page({RelationItem(r, r[1].who, FALSE) :
          r \in UNION {Beside(b, OfPerson(d, b.who)) : b \in {b \in d.blocks : b.by = me}}}, o)
FollowedUsers(d, me, o) ==
  Page({RelationItem(r, r[1].who, TRUE) :
          r \in UNION {Beside(f, OfPerson(d, f.who)) : f \in {f \in d.follows : f.by = me}}}, o)

\* get_users_following: whom a person (either key) follows.
FollowingRows(d, user) ==
  UNION {Beside(f, OfPerson(d, f.who)) : f \in {f \in d.follows : f.by \in Variants(user)}}
UsersFollowing(d, me, user, o) ==
  Page({RelationItem(r, r[1].who, Follows(d, me, r[1].who)) : r \in FollowingRows(d, user)}, o)

\* get_users_followers: who follows a person (either key); the profile is
\* that of the follower's very key.
FollowerRows(d, user) ==
  UNION {Beside(f, {p \in d.profiles : p.by = f.by}) : f \in {f \in d.follows : f.who \in Variants(user)}}
UsersFollowers(d, me, user, o) ==
  Page({RelationItem(r, r[1].by, Follows(d, me, r[1].by)) : r \in FollowerRows(d, user)}, o)

------------------------------------------------------------------------------
UsersCount(d) == Cardinality(d.profiles)
==============================================================================
