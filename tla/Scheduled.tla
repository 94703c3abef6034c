------------------------------ MODULE Scheduled ------------------------------
(***************************************************************************)
(* scheduled.rs of kachat-webserver: signed posts kept in                  *)
(* k_scheduled_posts until they are due. The requests of the owners and    *)
(* the scheduler's tick run side by side; each statement and each call of  *)
(* the node or the relay is a step. Cursors, previews and the list of an   *)
(* owner's posts are left out.                                             *)
(*                                                                         *)
(* A transaction's id is its row's key; its payload names its author, by   *)
(* the compressed key <<x, parity>>, and its coins are those it spends. A  *)
(* coin belongs to the address of an x, whatever the parity. Time counts   *)
(* ticks; a transaction spends its coins as soon as the node accepts it.   *)
(***************************************************************************)
EXTENDS Integers, Sequences, FiniteSets, SequencesExt

CONSTANTS
  Txs,          \* transaction ids
  Author,       \* [Txs -> key]
  Inputs,       \* [Txs -> set of coins]
  Owner,        \* [coins -> x]
  Asked,        \* sets of requests [tx, key, due, signed, nth] that owners make
  Callers,      \* requests in flight
  Veterans,     \* keys with a content (k_contents)
  MaxAhead,     \* 30 days
  MaxAheadNew,  \* 48 hours
  Quota,        \* MAX_SCHEDULED_PER_PUBKEY
  Batch,        \* TICK_BATCH
  KeepFinished, \* 7 days
  MaxTime,      \* bound of the clock
  MaxFaults     \* bound of the calls that fail and of the crashes

Requests == UNION Asked

ASSUME ScheduledAssumption ==
  /\ IsFiniteSet(Txs) /\ Batch \in Nat \ {0}
  /\ \A r \in Requests : r.tx \in Txs /\ r.due \in Nat

VARIABLES
  rows,    \* k_scheduled_posts: [some Txs -> [status, key, due, at, bytes, age]]
  asks,    \* the requests still to be made
  calls,   \* [Callers -> [pc, req]], req the request in flight or nothing
  tick,    \* the scheduler: [pc, now, list, coins]
  utxo,    \* the unspent coins
  sent,    \* the transactions the node has accepted
  now,    \* the clock
  faults   \* failures so far

scheduledVars == <<rows, asks, calls, tick, utxo, sent, now, faults>>

NoCall == [pc |-> "idle", req |-> <<>>]
Asleep == [pc |-> "asleep", now |-> 0, list |-> <<>>, coins |-> [k \in {} |-> {}]]

InitScheduled ==
  /\ rows = [t \in {} |-> {}]
  /\ asks \in Asked
  /\ calls = [c \in Callers |-> NoCall]
  /\ tick = Asleep
  /\ utxo = DOMAIN Owner
  /\ sent = {} /\ now = 0 /\ faults = 0

Failing == faults < MaxFaults /\ faults' = faults + 1
Waits(t) == t \in DOMAIN rows /\ rows[t].status = "scheduled"
\* unspent_outpoints of the key's address.
Unspent(key) == {o \in utxo : Owner[o] = key[1]}
\* UPDATE ... WHERE tx_id = t AND status = 'scheduled'.
\* Mutant of Closed: the status is not looked at.
ClosedAnyway(t, status, at) ==
  [r \in DOMAIN rows |-> IF r = t THEN [rows[r] EXCEPT !.status = status, !.at = at] ELSE rows[r]]
Closed(t, status, at) ==
  [r \in DOMAIN rows |-> IF r = t /\ Waits(t) THEN [rows[r] EXCEPT !.status = status, !.at = at] ELSE rows[r]]

------------------------------------------------------------------------------
(* handle_schedule_post. *)

\* Signature, time, payload and inputs; a key without contents may not go far.
WellFounded(r) ==
  /\ r.signed
  /\ r.due > now /\ r.due <= now + MaxAhead
  /\ r.key = Author[r.tx] /\ Inputs[r.tx] # {}
  /\ r.due > now + MaxAheadNew => r.key \in Veterans

\* The other waiting rows of this very key.
Others(r) == {t \in DOMAIN rows \ {r.tx} : Waits(t) /\ rows[t].key = r.key}
Reserved(r) == \E t \in Others(r) : Inputs[t] \cap Inputs[r.tx] # {}

\* The checks before the node is asked; a refused request leaves nothing.
SchedulePost(c) ==
  /\ calls[c].pc = "idle"
  /\ \E r \in asks :
       /\ WellFounded(r) /\ Cardinality(Others(r)) < Quota /\ ~Reserved(r)
       /\ calls' = [calls EXCEPT ![c] = [pc |-> "node", req |-> <<r>>]]
       /\ asks' = asks \ {r}
  /\ UNCHANGED <<rows, tick, utxo, sent, now, faults>>
\* The node knows every input as an unspent coin of the address.
ScheduleAsksNode(c) ==
  /\ calls[c].pc = "node"
  /\ calls' = [calls EXCEPT ![c] = IF Inputs[calls[c].req[1].tx] \subseteq Unspent(calls[c].req[1].key)
                                         THEN [calls[c] EXCEPT !.pc = "insert"] ELSE NoCall]
  /\ UNCHANGED <<asks, rows, tick, utxo, sent, now, faults>>
\* No node, or the insert fails: 503 or 500, no row.
ScheduleFails(c) ==
  /\ calls[c].pc # "idle" /\ Failing
  /\ calls' = [calls EXCEPT ![c] = NoCall]
  /\ UNCHANGED <<asks, rows, tick, utxo, sent, now>>
\* INSERT ... ON CONFLICT (tx_id) DO NOTHING, and the answer "scheduled".
ScheduleInserts(c) ==
  /\ calls[c].pc = "insert"
  /\ LET r   == calls[c].req[1]
         row == [status |-> "scheduled", key |-> r.key, due |-> r.due, at |-> -1, bytes |-> TRUE, age |-> Cardinality(DOMAIN rows)]
     IN rows' = IF r.tx \in DOMAIN rows THEN rows ELSE [t \in DOMAIN rows \cup {r.tx} |-> IF t = r.tx THEN row ELSE rows[t]]
  /\ calls' = [calls EXCEPT ![c] = NoCall]
  /\ UNCHANGED <<asks, tick, utxo, sent, now, faults>>

\* handle_cancel_scheduled_post: the author's waiting row (a refused one is 404).
CancelScheduledPost(t) ==
  /\ Waits(t)
  /\ rows' = Closed(t, "cancelled", -1)
  /\ UNCHANGED <<asks, calls, tick, utxo, sent, now, faults>>

------------------------------------------------------------------------------
(* The scheduler. *)

\* prune: finished rows that are old go, the bytes of the others are dropped.
FinishedAt(t) == IF rows[t].at >= 0 THEN rows[t].at ELSE rows[t].due
Prune ==
  /\ tick.pc = "asleep"
  /\ LET kept == {t \in DOMAIN rows : Waits(t) \/ FinishedAt(t) >= now - KeepFinished}
     IN rows' = [t \in kept |-> [rows[t] EXCEPT !.bytes = Waits(t)]]
  /\ tick' = [Asleep EXCEPT !.pc = "select", !.now = now]
  /\ UNCHANGED <<asks, calls, utxo, sent, now, faults>>

Due == {t \in DOMAIN rows : Waits(t) /\ rows[t].due <= tick.now}
\* ROW_NUMBER per key by due time and age, then by turn and due time.
Sooner(t, u) == rows[t].due < rows[u].due \/ (rows[t].due = rows[u].due /\ rows[t].age < rows[u].age)
Turn(t) == Cardinality({u \in Due : rows[u].key = rows[t].key /\ Sooner(u, t)})
InTurn(t, u) == Turn(t) < Turn(u) \/ (Turn(t) = Turn(u) /\ rows[t].due <= rows[u].due)
Select ==
  /\ tick.pc = "select"
  /\ \E list \in SetToSeqs(Due) :
       /\ \A i, j \in DOMAIN list : i < j => InTurn(list[i], list[j])
       /\ tick' = IF list = <<>> THEN Asleep
                  ELSE [tick EXCEPT !.pc = "check", !.list = SubSeq(list, 1, IF Len(list) > Batch THEN Batch ELSE Len(list))]
  /\ UNCHANGED <<asks, rows, calls, utxo, sent, now, faults>>

\* On to the next row, or to sleep.
Onward == IF Len(tick.list) = 1 THEN Asleep ELSE [tick EXCEPT !.pc = "check", !.list = Tail(@)]
AtHand == Head(tick.list)

\* The key's coins, once per tick; no node: the relay is the judge.
CheckCoins ==
  /\ tick.pc = "check"
  /\ LET key   == Author[AtHand]
         known == IF key \in DOMAIN tick.coins THEN tick.coins[key] ELSE <<Unspent(key)>>
         with(answer) == [k \in DOMAIN tick.coins \cup {key} |-> IF k = key THEN answer ELSE tick.coins[k]]
     IN \/ /\ tick' = [tick EXCEPT !.coins = with(known),
                                   !.pc = IF known # <<>> /\ ~(Inputs[AtHand] \subseteq known[1]) THEN "failed" ELSE "relay"]
           /\ UNCHANGED faults
        \/ /\ key \notin DOMAIN tick.coins /\ Failing
           /\ tick' = [tick EXCEPT !.coins = with(<<>>), !.pc = "relay"]
  /\ UNCHANGED <<asks, rows, calls, utxo, sent, now>>

\* The node behind the relay accepts a transaction whose coins are unspent.
Acceptable(t) == t \notin sent /\ Inputs[t] \subseteq utxo
Accepts(t) == Acceptable(t) /\ sent' = sent \cup {t} /\ utxo' = utxo \ Inputs[t]
Relay ==
  /\ tick.pc = "relay"
  /\ \/ Accepts(AtHand) /\ tick' = [tick EXCEPT !.pc = "submitted"] /\ UNCHANGED faults
     \/ ~Acceptable(AtHand) /\ tick' = [tick EXCEPT !.pc = "failed"] /\ UNCHANGED <<sent, utxo, faults>>
  /\ UNCHANGED <<asks, rows, calls, now>>
\* The relay cannot be reached, before or after the node has accepted, or it
\* answers with an error of its own.
RelayFails ==
  /\ tick.pc = "relay" /\ Failing
  /\ Accepts(AtHand) \/ UNCHANGED <<sent, utxo>>
  /\ \E outcome \in {"lost", "failed"} : tick' = [tick EXCEPT !.pc = outcome]
  /\ UNCHANGED <<asks, rows, calls, now>>
\* Without an answer the row waits for the next tick.
LeaveWaiting ==
  /\ tick.pc = "lost"
  /\ tick' = Onward
  /\ UNCHANGED <<asks, rows, calls, utxo, sent, now, faults>>

\* The result is written down; an error of the statement is ignored.
Mark ==
  /\ tick.pc \in {"submitted", "failed"}
  /\ \/ rows' = Closed(AtHand, tick.pc, IF tick.pc = "submitted" THEN now ELSE -1) /\ UNCHANGED faults
     \/ Failing /\ UNCHANGED rows
  /\ LET key == Author[AtHand]
         left == IF tick.pc = "submitted" /\ tick.coins[key] # <<>>
                 THEN [tick.coins EXCEPT ![key] = <<@[1] \ Inputs[AtHand]>>] ELSE tick.coins
     IN tick' = IF Onward.pc = "asleep" THEN Asleep ELSE [Onward EXCEPT !.coins = left]
  /\ UNCHANGED <<asks, calls, utxo, sent, now>>

CrashScheduler ==
  /\ Failing
  /\ tick' = Asleep /\ calls' = [c \in Callers |-> NoCall]
  /\ UNCHANGED <<asks, rows, utxo, sent, now>>

\* The owner spends a coin elsewhere.
SpendElsewhere ==
  /\ faults < MaxFaults
  /\ \E o \in utxo : utxo' = utxo \ {o}
  /\ faults' = faults + 1
  /\ UNCHANGED <<asks, rows, calls, tick, sent, now>>
TimePasses ==
  /\ now < MaxTime /\ now' = now + 1
  /\ UNCHANGED <<asks, rows, calls, tick, utxo, sent, faults>>

Scheduler == Prune \/ Select \/ CheckCoins \/ Relay \/ LeaveWaiting \/ Mark
NextScheduled ==
  \/ \E c \in Callers : SchedulePost(c) \/ ScheduleAsksNode(c) \/ ScheduleFails(c) \/ ScheduleInserts(c)
  \/ \E t \in Txs : CancelScheduledPost(t)
  \/ Scheduler \/ RelayFails \/ CrashScheduler \/ SpendElsewhere \/ TimePasses

SpecScheduled == InitScheduled /\ [][NextScheduled]_scheduledVars /\ WF_scheduledVars(Scheduler)

------------------------------------------------------------------------------
(* The queue it implements. *)

PromiseOf == [t \in Txs |-> IF t \in DOMAIN rows THEN [state |-> rows[t].status, due |-> rows[t].due]
                            ELSE [state |-> "none", due |-> 0]]
Told(t) == t \in DOMAIN rows /\ rows[t].status = "submitted"
Answered(t) == tick.pc = "submitted" /\ AtHand = t
Held == Range(tick.list)
Stray == {t \in sent : ~Told(t) /\ ~Answered(t)}
Queue == INSTANCE PostQueue WITH
  Posts <- Txs, promise <- PromiseOf, held <- Held, sent <- sent, stray <- Stray, time <- now

\* The scheduled posts keep the queue's promises, whatever overlaps, fails or
\* crashes: nothing is sent before its time or after it was withdrawn from
\* the scheduler's reach, and every post is settled after it came due.
PromiseKept == Queue!Spec
==============================================================================
