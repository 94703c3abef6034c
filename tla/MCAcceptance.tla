---------------------------- MODULE MCAcceptance ----------------------------
(* Instances of Acceptance for TLC.                                        *)
EXTENDS Acceptance

Faults(rpc, crash) == [k \in FaultKinds |-> IF k = "rpc" THEN rpc ELSE crash]
BothFaults == Faults(1, 1)
NoFault    == Faults(0, 0)

(* p spends output 0 of o, and q output 0 of p.  o is in block 1, p in       *)
(* blocks 2 and 3, q in block 4.  Chain blocks 5 and 6 compete for p at one  *)
(* DAA score; 7 accepts o and q.                                             *)
MCTxs    == {"o", "p", "q"}
MCBlocks == 1..7
MCChain  == 5..7
MCAddrs  == {"alice", "bob", "carol"}
MCWhere  == [t \in MCTxs |-> CASE t = "o" -> {1} [] t = "p" -> {2, 3} [] OTHER -> {4}]
MCAccepts == [b \in MCBlocks |-> CASE b \in {5, 6} -> {"p"} [] b = 7 -> {"o", "q"} [] OTHER -> {}]
MCDaa    == [b \in MCBlocks |-> CASE b <= 4 -> b [] b \in {5, 6} -> 5 [] OTHER -> 6]
MCParent == [t \in MCTxs |-> CASE t = "o" -> NoTx [] t = "p" -> "o" [] OTHER -> "p"]
MCFrom   == [t \in MCTxs |-> IF t = "o" THEN "carol" ELSE "alice"]

\* p pays its change first: its receiver depends on whether its sender is known.
ChangeFirst ==
    [t \in MCTxs |-> IF t = "p" THEN <<"alice", "bob">> ELSE <<"alice">>]
\* p pays alice only.
ToSelf == [t \in MCTxs |-> <<"alice">>]

\* One group, which o claims for carol and p for alice.
MCGroups == {"g"}
Contest  == [t \in MCTxs |-> IF t = "q" THEN NoGroup ELSE "g"]
MCPub    == [t \in MCTxs |-> IF t = "p" THEN "alice" ELSE "carol"]
Plain    == [t \in MCTxs |-> NoGroup]
=============================================================================
