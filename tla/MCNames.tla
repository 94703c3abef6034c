------------------------------ MODULE MCNames ------------------------------
(***************************************************************************)
(* The two followers of one node on a small registry: keys 1 and 2 between *)
(* 0 and 3. They are two processes that share nothing but the node, so a   *)
(* behaviour runs one of them: the other one could only stand beside it.   *)
(***************************************************************************)
EXTENDS NamesFollower, ProfilesFollower

MCKeys == {1, 2}

NamesPlan(kinds, txs, perBlock) ==
  [who |-> "names", kinds |-> kinds, blocks |-> 3, txs |-> txs, perBlock |-> perBlock,
   confirm |-> 0, crash |-> 0, prune |-> 0, switch |-> 0]

\* Pruning, with a crash and alone, with the few kinds that matter to them; another
\* node that has not pruned; a reorganisation deeper than the journal, or
\* another node that lags or is on another branch, once and to and fro; a
\* follower that waits for a confirmation; every kind of transaction with
\* reorganisations alone; and the profiles.
MCPlans ==
  {[NamesPlan({"register", "offer"}, 2, 2) EXCEPT !.blocks = 2, !.crash = 1, !.prune = 1],
   [NamesPlan({"register"}, 2, 2) EXCEPT !.prune = 1],
   [NamesPlan({"register"}, 2, 2) EXCEPT !.blocks = 2, !.prune = 1, !.switch = 1],
   [NamesPlan({"register"}, 2, 2) EXCEPT !.switch = 1],
   [NamesPlan({"register"}, 1, 1) EXCEPT !.blocks = 2, !.switch = 2],
   [NamesPlan({"register"}, 1, 1) EXCEPT !.blocks = 4, !.confirm = 1, !.crash = 1],
   NamesPlan({"register", "import", "transfer", "list", "buy"}, 3, 1),
   NamesPlan({"register", "renew", "extend", "release", "offer", "update"}, 3, 1),
   [NamesPlan({"profile"}, 3, 1) EXCEPT !.who = "profiles", !.crash = 1, !.prune = 1],
   [NamesPlan({"profile"}, 2, 2) EXCEPT !.who = "profiles", !.switch = 2]}

MCInit == Init /\ InitProfiles
Names(A)    == plan.who = "names" /\ A /\ UNCHANGED profileVars
Profiles(A) == plan.who = "profiles" /\ A /\ UNCHANGED followerVars
MCNext ==
  \/ NewBlock /\ UNCHANGED <<followerVars, profileVars>>
  \/ Names(Pruning) \/ Names(SwitchNode) \/ Names(Crash)
  \/ Names(Start) \/ Names(Rewind) \/ Names(FollowSome) \/ Names(Push)
  \/ Names(BootStart) \/ Names(WalkSome) \/ Names(WalkStops(TRUE)) \/ Names(WalkStops(FALSE))
  \/ Names(WalkDone)
  \/ Profiles(PruningProfiles) \/ Profiles(SwitchProfilesNode) \/ Profiles(CrashProfiles)
  \/ Profiles(StartProfiles) \/ Profiles(FollowSomeProfiles) \/ Profiles(FetchFails) \/ Profiles(ReAnchor)

MCSpec == MCInit /\ [][MCNext]_<<vars, profileVars>> /\ Fairness
==============================================================================
