------------------------------ MODULE MCKPosts ------------------------------
(***************************************************************************)
(* Two workers and the retry loop. Each plan is a handful of transactions  *)
(* that meet in one part of the tables, with the faults that matter there. *)
(***************************************************************************)
EXTENDS KPipeline

Ann == <<"ann", 2>>
Ann3 == <<"ann", 3>>
Bob == <<"bob", 2>>
Cat == <<"cat", 2>>

\* A transaction; sig is its id unless it copies another one's.
T(id, kind, by, time, ref, as, who) ==
  [id |-> id, kind |-> kind, by |-> by, sig |-> id, signed |-> TRUE, time |-> time, ref |-> ref, as |-> as, n |-> 0,
   who |-> who, text |-> "fine", closes |-> 9]
CopyOf(tx, id) == [tx EXCEPT !.id = id]

NoFaults == [crash |-> 0, error |-> 0, prune |-> 0, listen |-> 0, reindex |-> 0, forget |-> 0, node |-> 0]
Plan(txs, faults) ==
  [txs |-> txs, budget |-> faults, kaposts |-> TRUE, broadcasts |-> TRUE, operators |-> {"cat"}, node |-> TRUE, until |-> 0]

Post(id, by, time, who) == T(id, "post", by, time, 0, "", who)

PlanList ==
  << \* a delete that overtakes what it deletes, a copied signature, a mention
     Plan(<<Post(1, Ann, 1, <<Bob, Ann3>>), T(2, "delete", Ann, 2, 1, "", <<>>),
            CopyOf(T(2, "delete", Ann, 2, 1, "", <<>>), 3)>>, [NoFaults EXCEPT !.error = 1]),
     Plan(<<Post(1, Ann, 1, <<Bob>>), T(2, "delete", Ann, 2, 1, "", <<>>)>>, [NoFaults EXCEPT !.crash = 1]),
     \* replies, quotes and their withdrawal
     Plan(<<Post(1, Ann, 1, <<>>), T(2, "reply", Bob, 2, 1, "", <<Ann, Cat>>), T(3, "quote", Bob, 2, 1, "", <<Ann>>),
            T(4, "unquote", Bob, 3, 1, "", <<>>)>>, NoFaults),
     \* votes of one person under two keys, a withdrawal, a delete of the post
     Plan(<<Post(1, Bob, 1, <<>>), T(2, "vote", Ann, 2, 1, "upvote", <<Bob>>), T(3, "vote", Ann3, 3, 1, "downvote", <<Bob>>),
            T(4, "vote", Ann, 4, 1, "unvote", <<Bob>>), T(5, "delete", Bob, 5, 1, "", <<>>)>>, [NoFaults EXCEPT !.error = 1]),
     \* follows that turn round
     Plan(<<Post(1, Ann, 1, <<>>), T(2, "follow", Ann, 2, 0, "follow", <<Bob>>), T(3, "follow", Ann, 3, 0, "unfollow", <<Bob>>)>>,
          [NoFaults EXCEPT !.error = 1]),
     \* the operator blocks and unblocks an author who posts
     Plan(<<T(1, "block", Cat, 1, 0, "block", <<Ann>>), Post(2, Ann, 2, <<>>), T(3, "block", Cat, 3, 0, "unblock", <<Ann>>)>>,
          [NoFaults EXCEPT !.error = 1]),
     Plan(<<T(1, "block", Cat, 1, 0, "block", <<Ann>>), Post(2, Ann, 2, <<>>)>>, [NoFaults EXCEPT !.crash = 1]),
     \* profiles of one person and a replay of the first
     Plan(<<T(1, "profile", Ann, 1, 0, "", <<>>), T(2, "profile", Ann3, 2, 0, "", <<>>),
            CopyOf(T(1, "profile", Ann, 3, 0, "", <<>>), 3)>>, [NoFaults EXCEPT !.crash = 1]),
     \* two edits, a poll and its votes
     Plan(<<Post(1, Ann, 1, <<Bob>>), [T(2, "edit", Ann, 2, 1, "", <<Cat>>) EXCEPT !.text = "first"],
            [T(3, "edit", Ann, 3, 1, "", <<>>) EXCEPT !.text = "second"]>>, [NoFaults EXCEPT !.error = 1]),
     Plan(<<[T(1, "poll", Ann, 1, 0, "", <<Bob>>) EXCEPT !.n = 2], [T(2, "pollvote", Bob, 2, 1, "", <<>>) EXCEPT !.n = 1],
            [T(3, "pollvote", Bob, 3, 1, "", <<>>) EXCEPT !.n = 2]>>, [NoFaults EXCEPT !.error = 1]),
     Plan(<<[T(1, "poll", Ann, 1, 0, "", <<Bob>>) EXCEPT !.n = 2]>>, [NoFaults EXCEPT !.crash = 1]),
     \* the pipeline: lost notifications, pruned rows, a reindex, a restart
     Plan(<<Post(1, Ann, 1, <<Bob>>), T(2, "unknown", Ann, 2, 0, "", <<>>),
            [T(3, "reply", Bob, 3, 1, "", <<>>) EXCEPT !.signed = FALSE]>>,
          [NoFaults EXCEPT !.error = 1, !.prune = 1, !.listen = 1]),
     Plan(<<Post(1, Ann, 1, <<Bob>>)>>,
          [NoFaults EXCEPT !.crash = 1, !.prune = 1, !.reindex = 1]),
     Plan(<<Post(1, Ann, 1, <<Bob>>)>>, [NoFaults EXCEPT !.error = 2, !.prune = 1, !.reindex = 1, !.forget = 1]),
     Plan(<<T(1, "unknown", Ann, 1, 0, "", <<>>)>>,
          [NoFaults EXCEPT !.crash = 1, !.error = 1, !.prune = 1, !.reindex = 1]),
     Plan(<<Post(1, Ann, 1, <<>>), T(2, "follow", Ann, 2, 0, "follow", <<Bob>>)>>, [NoFaults EXCEPT !.reindex = 2]),
     \* a payload that is no text, recovered: dropped and queued again at the next start
     Plan(<<[T(1, "unknown", Ann, 1, 0, "", <<>>) EXCEPT !.text = "garbled"]>>,
          [NoFaults EXCEPT !.crash = 1, !.error = 1, !.prune = 1, !.reindex = 1]),
     \* broadcasts and tips with a node that comes and goes
     [Plan(<<T(1, "bcast", Ann, 0, 0, "genuine", <<>>)>>, [NoFaults EXCEPT !.crash = 1, !.node = 1]) EXCEPT !.until = 2],
     Plan(<<T(1, "bcast", Ann, 0, 0, "genuine", <<>>)>>, [NoFaults EXCEPT !.crash = 1, !.error = 1]),
     [Plan(<<T(1, "bcast", Ann, 0, 0, "genuine", <<>>)>>, [NoFaults EXCEPT !.node = 2]) EXCEPT !.until = 4],
     [Plan(<<T(1, "bcast", Ann, 0, 0, "genuine", <<>>), T(2, "bcast", Bob, 0, 0, "forged", <<>>)>>, NoFaults) EXCEPT !.until = 3],
     [Plan(<<Post(1, Ann, 0, <<>>), T(2, "tip", Bob, 0, 1, "genuine", <<Ann>>)>>,
           [NoFaults EXCEPT !.node = 2]) EXCEPT !.until = 3],
     [Plan(<<T(1, "bcast", Ann, 0, 0, "genuine", <<>>)>>, NoFaults) EXCEPT !.node = FALSE],
     \* everything once more: a deleted post with a vote, a follow taken back before it, an operator's changing mind
     Plan(<<Post(1, Bob, 1, <<>>), T(2, "vote", Ann, 2, 1, "upvote", <<Bob>>), T(3, "delete", Bob, 5, 1, "", <<>>)>>,
          [NoFaults EXCEPT !.reindex = 1]),
     Plan(<<T(1, "follow", Ann, 1, 0, "unfollow", <<Bob>>), Post(2, Ann, 1, <<>>), T(3, "follow", Ann, 3, 0, "follow", <<Bob>>)>>,
          [NoFaults EXCEPT !.reindex = 1]),
     Plan(<<T(1, "block", Ann, 1, 0, "block", <<Bob>>), T(2, "block", Ann, 2, 0, "unblock", <<Bob>>),
            T(3, "block", Ann, 3, 0, "block", <<Bob>>)>>, [NoFaults EXCEPT !.reindex = 1, !.error = 1]),
     \* both features switched off: a broadcast that the startup sweep queues leaves unstored
     [Plan(<<Post(1, Ann, 1, <<Bob>>), T(2, "bcast", Ann, 1, 0, "genuine", <<>>)>>, [NoFaults EXCEPT !.crash = 1])
       EXCEPT !.kaposts = FALSE, !.broadcasts = FALSE] >>

MCPlans == Range(PlanList)

MCSpec == Spec /\ Fairness
==============================================================================
