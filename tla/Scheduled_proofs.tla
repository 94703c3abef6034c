-------------------------- MODULE Scheduled_proofs --------------------------
(***************************************************************************)
(* The scheduled posts keep the safe half of the promises of PostQueue,    *)
(* for any transactions, requests, coins and settings, and any number of   *)
(* failures: every step is one of the queue's or leaves the queue as it    *)
(* is. That posts settle needs fairness and stays with TLC.                *)
(***************************************************************************)
EXTENDS Scheduled, FiniteSetTheorems, SequenceTheorems, TLAPS

Once(list) == \A i, j \in DOMAIN list : i # j => list[i] # list[j]

Pcs == {"asleep", "select", "check", "relay", "submitted", "failed", "lost"}

Statuses == {"scheduled", "cancelled", "submitted", "failed"}

RowsSound ==
  /\ DOMAIN rows \subseteq Txs
  /\ \A t \in DOMAIN rows : DOMAIN rows[t] = {"status", "key", "due", "at", "bytes", "age"}
  /\ \A t \in DOMAIN rows : rows[t].due \in Nat /\ rows[t].status \in Statuses

CallsSound ==
  /\ asks \subseteq Requests
  /\ calls \in [Callers -> [pc : {"idle", "node", "insert"}, req : Seq(Requests)]]
  /\ \A c \in Callers : calls[c].pc # "idle" => calls[c].req # <<>>

TickSound ==
  /\ now \in Nat
  /\ DOMAIN tick = {"pc", "now", "list", "coins"}
  /\ tick.pc \in Pcs /\ tick.now \in Nat /\ tick.now <= now
  /\ tick.list \in Seq(Txs) /\ Once(tick.list)
  /\ tick.pc \in {"asleep", "select"} <=> tick.list = <<>>

\* What the scheduler holds was waiting when it was selected, and can since have
\* been cancelled only; what it takes for submitted the node has accepted.
HeldSound ==
  /\ \A t \in Range(tick.list) :
       t \in DOMAIN rows /\ rows[t].status \in {"scheduled", "cancelled"}
  /\ tick.pc = "submitted" => AtHand \in sent

SentSound == sent \subseteq Txs

Sound == RowsSound /\ CallsSound /\ TickSound /\ HeldSound

-----------------------------------------------------------------------------
(* Sequences without repetition.                                           *)

LEMMA RangeEmpty == Range(<<>>) = {}
BY DEF Range

LEMMA HeadTail ==
  ASSUME NEW S, NEW s \in Seq(S), s # <<>>, Once(s)
  PROVE  /\ Head(s) \in Range(s) /\ Head(s) \in S
         /\ Tail(s) \in Seq(S) /\ Once(Tail(s))
         /\ Range(Tail(s)) = Range(s) \ {Head(s)}
         /\ Tail(s) = <<>> <=> Len(s) = 1
<1>1. /\ Len(s) \in Nat /\ Len(s) >= 1 /\ DOMAIN s = 1..Len(s)
      /\ \A i \in DOMAIN s : s[i] \in S
      /\ Head(s) = s[1] /\ Tail(s) \in Seq(S)
      /\ Len(Tail(s)) = Len(s) - 1 /\ DOMAIN Tail(s) = 1..(Len(s) - 1)
      /\ \A i \in 1..(Len(s) - 1) : Tail(s)[i] = s[i + 1]
  OBVIOUS
<1>2. Once(Tail(s))
  <2>. SUFFICES ASSUME NEW i \in 1..(Len(s) - 1), NEW j \in 1..(Len(s) - 1), i # j
                PROVE  Tail(s)[i] # Tail(s)[j]
    BY <1>1 DEF Once
  <2>1. i + 1 \in DOMAIN s /\ j + 1 \in DOMAIN s /\ i + 1 # j + 1
    BY <1>1
  <2>. QED
    BY <1>1, <2>1 DEF Once
<1>3. Range(Tail(s)) \subseteq Range(s) \ {Head(s)}
  <2>. SUFFICES ASSUME NEW i \in 1..(Len(s) - 1)
                PROVE  Tail(s)[i] \in Range(s) /\ Tail(s)[i] # s[1]
    BY <1>1 DEF Range
  <2>1. i + 1 \in DOMAIN s /\ i + 1 # 1 /\ 1 \in DOMAIN s
    BY <1>1
  <2>. QED
    BY <1>1, <2>1 DEF Range, Once
<1>4. Range(s) \ {Head(s)} \subseteq Range(Tail(s))
  <2>. SUFFICES ASSUME NEW i \in DOMAIN s, s[i] # s[1]
                PROVE  s[i] \in Range(Tail(s))
    BY <1>1 DEF Range
  <2>1. i - 1 \in 1..(Len(s) - 1) /\ Tail(s)[i - 1] = s[i]
    BY <1>1
  <2>. QED
    BY <1>1, <2>1 DEF Range
<1>5. Tail(s) = <<>> <=> Len(s) = 1
  <2>. DEFINE rest == Tail(s)
  <2>1. rest \in Seq(S) /\ Len(rest) = Len(s) - 1
    BY <1>1
  <2>. HIDE DEF rest
  <2>2. rest = <<>> <=> Len(rest) = 0
    BY <2>1, EmptySeq
  <2>. QED
    BY <1>1, <2>1, <2>2 DEF rest
<1>6. Head(s) \in Range(s) /\ Head(s) \in S
  BY <1>1 DEF Range
<1>. QED
  BY <1>1, <1>2, <1>3, <1>4, <1>5, <1>6

LEMMA Batched ==
  ASSUME NEW S, NEW s \in Seq(S), s # <<>>, Once(s), NEW n \in 1..Len(s)
  PROVE  /\ SubSeq(s, 1, n) \in Seq(S) /\ SubSeq(s, 1, n) # <<>>
         /\ Once(SubSeq(s, 1, n))
         /\ Range(SubSeq(s, 1, n)) \subseteq Range(s)
<1>1. /\ SubSeq(s, 1, n) \in Seq(S) /\ Len(SubSeq(s, 1, n)) = n
      /\ \A i \in 1..n : SubSeq(s, 1, n)[i] = s[i]
  OBVIOUS
<1>2. DOMAIN SubSeq(s, 1, n) = 1..n /\ 1..n \subseteq DOMAIN s
  BY <1>1
<1>. QED
  BY <1>1, <1>2 DEF Once, Range

-----------------------------------------------------------------------------
(* The invariant.                                                          *)

LEMMA SoundInit == InitScheduled => Sound
<1>. SUFFICES ASSUME InitScheduled
              PROVE  Sound
  OBVIOUS
<1>1. RowsSound
  BY DEF InitScheduled, RowsSound
<1>2. CallsSound
  <2>1. NoCall \in [pc : {"idle", "node", "insert"}, req : Seq(Requests)] /\ NoCall.pc = "idle"
    BY DEF NoCall
  <2>2. asks \subseteq Requests
    BY DEF InitScheduled, Requests
  <2>. QED
    BY <2>1, <2>2 DEF InitScheduled, CallsSound
<1>3. TickSound
  BY DEF InitScheduled, Asleep, TickSound, Pcs, Once
<1>4. HeldSound
  BY RangeEmpty DEF InitScheduled, Asleep, HeldSound
<1>. QED
  BY <1>1, <1>2, <1>3, <1>4 DEF Sound

\* A scheduler that sleeps holds nothing.
LEMMA AsleepSound ==
  ASSUME now \in Nat, tick = Asleep
  PROVE  TickSound /\ HeldSound /\ Range(tick.list) = {}
BY RangeEmpty DEF Asleep, TickSound, HeldSound, Pcs, Once

\* What a call of the node or the scheduler does to nobody's rows.
LEMMA HeldStays ==
  ASSUME HeldSound, tick' = tick, sent \subseteq sent',
         \A t \in DOMAIN rows : t \in DOMAIN rows' /\
           (rows'[t].status = rows[t].status \/ rows'[t].status = "cancelled")
  PROVE  HeldSound'
BY DEF HeldSound, AtHand

\* Closing a row keeps the rows what they are.
LEMMA ClosedRows ==
  ASSUME RowsSound, NEW t \in Txs, NEW status, NEW at
  PROVE  LET after == Closed(t, status, at)
         IN  /\ DOMAIN after = DOMAIN rows
             /\ \A r \in DOMAIN rows :
                  /\ DOMAIN after[r] = {"status", "key", "due", "at", "bytes", "age"}
                  /\ after[r].due = rows[r].due
                  /\ after[r].status = IF r = t /\ Waits(t) THEN status ELSE rows[r].status
<1>. DEFINE after == Closed(t, status, at)
<1>1. DOMAIN after = DOMAIN rows
  BY DEF Closed
<1>. SUFFICES ASSUME NEW r \in DOMAIN rows
              PROVE  /\ DOMAIN after[r] = {"status", "key", "due", "at", "bytes", "age"}
                     /\ after[r].due = rows[r].due
                     /\ after[r].status = IF r = t /\ Waits(t) THEN status ELSE rows[r].status
  BY <1>1
<1>2. CASE r = t /\ Waits(t)
  <2>1. after[r] = [rows[r] EXCEPT !.status = status, !.at = at]
    BY <1>2 DEF Closed
  <2>. QED
    BY <1>2, <2>1 DEF RowsSound
<1>3. CASE ~(r = t /\ Waits(t))
  <2>1. after[r] = rows[r]
    BY <1>3 DEF Closed
  <2>. QED
    BY <1>3, <2>1 DEF RowsSound
<1>. QED
  BY <1>2, <1>3

\* What a step that leaves rows, tick, sent and the clock alone keeps.
LEMMA SoundElse ==
  ASSUME Sound, CallsSound', UNCHANGED <<rows, tick, sent, now>>
  PROVE  Sound'
BY DEF Sound, RowsSound, TickSound, HeldSound, AtHand, Waits

LEMMA CallsIdle ==
  ASSUME CallsSound, UNCHANGED <<asks, calls>>
  PROVE  CallsSound'
BY DEF CallsSound

Call == [pc : {"idle", "node", "insert"}, req : Seq(Requests)]

\* A call moves to a state with a request, or ends.
LEMMA CallMoves ==
  ASSUME CallsSound, NEW c \in Callers, NEW new \in Call, new.pc # "idle" => new.req # <<>>,
         calls' = [calls EXCEPT ![c] = new], asks' \subseteq asks
  PROVE  CallsSound'
<1>1. calls' \in [Callers -> Call] /\ \A d \in Callers : calls'[d] = IF d = c THEN new ELSE calls[d]
  BY DEF CallsSound, Call
<1>. QED
  BY <1>1 DEF CallsSound, Call

LEMMA Ended == NoCall \in Call /\ NoCall.pc = "idle"
BY DEF NoCall, Call

LEMMA SoundPost ==
  ASSUME Sound, NEW c \in Callers, SchedulePost(c)
  PROVE  Sound'
<1>1. PICK r \in asks : /\ calls' = [calls EXCEPT ![c] = [pc |-> "node", req |-> <<r>>]]
                        /\ asks' = asks \ {r}
  BY DEF SchedulePost
<1>2. [pc |-> "node", req |-> <<r>>] \in Call
  BY <1>1 DEF Call, Sound, CallsSound
<1>3. CallsSound'
  BY <1>1, <1>2, CallMoves DEF Sound
<1>. QED
  BY <1>3, SoundElse DEF SchedulePost

LEMMA SoundAsks ==
  ASSUME Sound, NEW c \in Callers, ScheduleAsksNode(c)
  PROVE  Sound'
<1>1. PICK new : calls' = [calls EXCEPT ![c] = new] /\ new \in {NoCall, [calls[c] EXCEPT !.pc = "insert"]}
  BY DEF ScheduleAsksNode
<1>2. calls[c] \in Call /\ calls[c].req # <<>>
  BY DEF ScheduleAsksNode, Sound, CallsSound, Call
<1>3. new \in Call /\ (new.pc # "idle" => new.req # <<>>)
  BY <1>1, <1>2, Ended DEF Call
<1>4. CallsSound'
  BY <1>1, <1>3, CallMoves DEF Sound, ScheduleAsksNode
<1>. QED
  BY <1>4, SoundElse DEF ScheduleAsksNode

LEMMA SoundFails ==
  ASSUME Sound, NEW c \in Callers, ScheduleFails(c)
  PROVE  Sound'
<1>1. CallsSound'
  BY CallMoves, Ended DEF Sound, ScheduleFails
<1>. QED
  BY <1>1, SoundElse DEF ScheduleFails

\* A fresh row of t is in the rows after the step, unless t had one.
Gains(t, row) ==
  /\ row.status = "scheduled" /\ row.due \in Nat
  /\ DOMAIN row = {"status", "key", "due", "at", "bytes", "age"}
  /\ rows' = IF t \in DOMAIN rows THEN rows
             ELSE [u \in DOMAIN rows \cup {t} |-> IF u = t THEN row ELSE rows[u]]

\* The row of an insert, and the rows after it.
LEMMA Inserted ==
  ASSUME Sound, NEW c \in Callers, ScheduleInserts(c)
  PROVE  \E t \in Txs : \E row : Gains(t, row)
<1>. DEFINE r   == calls[c].req[1]
            row == [status |-> "scheduled", key |-> r.key, due |-> r.due, at |-> -1,
                    bytes |-> TRUE, age |-> Cardinality(DOMAIN rows)]
<1>1. calls[c].req \in Seq(Requests) /\ calls[c].req # <<>>
  BY DEF ScheduleInserts, Sound, CallsSound
<1>2. r \in Requests
  BY <1>1
<1>3. r.tx \in Txs /\ r.due \in Nat
  BY <1>2, ScheduledAssumption
<1>4. rows' = IF r.tx \in DOMAIN rows THEN rows
              ELSE [u \in DOMAIN rows \cup {r.tx} |-> IF u = r.tx THEN row ELSE rows[u]]
  BY DEF ScheduleInserts
<1>5. /\ row.status = "scheduled" /\ row.due \in Nat
      /\ DOMAIN row = {"status", "key", "due", "at", "bytes", "age"}
  BY <1>3
<1>6. Gains(r.tx, row)
  BY <1>4, <1>5 DEF Gains
<1>. QED
  BY <1>3, <1>6

LEMMA SoundInserts ==
  ASSUME Sound, NEW c \in Callers, ScheduleInserts(c)
  PROVE  Sound'
<1>0. PICK t \in Txs : \E row : Gains(t, row)
  BY Inserted
<1>r. PICK row : Gains(t, row)
  BY <1>0
<1>1. /\ row.status = "scheduled" /\ row.due \in Nat
      /\ DOMAIN row = {"status", "key", "due", "at", "bytes", "age"}
      /\ rows' = IF t \in DOMAIN rows THEN rows
                 ELSE [u \in DOMAIN rows \cup {t} |-> IF u = t THEN row ELSE rows[u]]
  BY <1>r DEF Gains
<1>2. RowsSound'
  BY <1>1 DEF Sound, RowsSound, Statuses
<1>3. CallsSound'
  BY CallMoves, Ended DEF Sound, ScheduleInserts
<1>4. TickSound'
  BY DEF Sound, TickSound, ScheduleInserts
<1>5. \A u \in DOMAIN rows : u \in DOMAIN rows' /\ rows'[u] = rows[u]
  BY <1>1
<1>6. HeldSound'
  BY <1>5, HeldStays DEF Sound, ScheduleInserts
<1>. QED
  BY <1>2, <1>3, <1>4, <1>6 DEF Sound

LEMMA SoundCancel ==
  ASSUME Sound, NEW t \in Txs, CancelScheduledPost(t)
  PROVE  Sound'
<1>1. rows' = Closed(t, "cancelled", -1)
  BY DEF CancelScheduledPost
<1>2. /\ DOMAIN rows' = DOMAIN rows
      /\ \A r \in DOMAIN rows :
           /\ DOMAIN rows'[r] = {"status", "key", "due", "at", "bytes", "age"}
           /\ rows'[r].due = rows[r].due
           /\ rows'[r].status = rows[r].status \/ rows'[r].status = "cancelled"
  BY <1>1, ClosedRows DEF Sound
<1>3. RowsSound'
  BY <1>2 DEF Sound, RowsSound, Statuses
<1>4. CallsSound' /\ TickSound'
  BY CallsIdle DEF Sound, TickSound, CancelScheduledPost
<1>5. HeldSound'
  BY <1>2, HeldStays DEF Sound, CancelScheduledPost
<1>. QED
  BY <1>3, <1>4, <1>5 DEF Sound

LEMMA SoundPrune ==
  ASSUME Sound, Prune
  PROVE  Sound'
<1>. DEFINE kept == {t \in DOMAIN rows : Waits(t) \/ FinishedAt(t) >= now - KeepFinished}
<1>1. rows' = [t \in kept |-> [rows[t] EXCEPT !.bytes = Waits(t)]]
  BY DEF Prune
<1>2. kept \subseteq DOMAIN rows
  OBVIOUS
<1>. HIDE DEF kept
<1>3. RowsSound'
  BY <1>1, <1>2 DEF Sound, RowsSound
<1>4. tick' = [Asleep EXCEPT !.pc = "select", !.now = now]
  BY DEF Prune
<1>5. tick' = [pc |-> "select", now |-> now, list |-> <<>>, coins |-> Asleep.coins]
  BY <1>4 DEF Asleep
<1>6. TickSound'
  <2>1. /\ tick'.pc = "select" /\ tick'.now = now /\ tick'.list = <<>>
        /\ DOMAIN tick' = {"pc", "now", "list", "coins"}
    BY <1>5
  <2>2. now' = now
    BY DEF Prune
  <2>3. now \in Nat /\ <<>> \in Seq(Txs) /\ Once(<<>>)
    BY EmptySeq DEF Sound, TickSound, Once
  <2>. QED
    BY <2>1, <2>2, <2>3 DEF TickSound, Pcs
<1>7. HeldSound'
  BY <1>5, RangeEmpty DEF HeldSound
<1>. QED
  BY <1>3, <1>6, <1>7, CallsIdle DEF Sound, Prune

\* What is selected is due.
LEMMA Selected ==
  ASSUME Sound, Select
  PROVE  \/ tick' = Asleep
         \/ \E list \in Seq(Txs) :
              /\ tick' = [tick EXCEPT !.pc = "check", !.list = list]
              /\ list # <<>> /\ Once(list) /\ Range(list) \subseteq Due
<1>1. PICK list \in SetToSeqs(Due) :
        tick' = IF list = <<>> THEN Asleep
                ELSE [tick EXCEPT !.pc = "check", !.list = SubSeq(list, 1, IF Len(list) > Batch THEN Batch ELSE Len(list))]
  BY DEF Select
<1>2. Cardinality(Due) \in Nat
  <2>1. Due \in SUBSET Txs
    BY DEF Due, Sound, RowsSound
  <2>2. IsFiniteSet(Due)
    BY <2>1, FS_Subset, ScheduledAssumption
  <2>. QED
    BY <2>2, FS_CardinalityType
<1>3. list \in Seq(Due) /\ Once(list)
  BY <1>1, <1>2 DEF SetToSeqs, Once
<1>4. CASE list = <<>>
  BY <1>1, <1>4
<1>5. CASE list # <<>>
  <2>. DEFINE n == IF Len(list) > Batch THEN Batch ELSE Len(list)
              batch == SubSeq(list, 1, n)
  <2>1. n \in 1..Len(list)
    BY <1>3, <1>5, ScheduledAssumption, EmptySeq
  <2>2. tick' = [tick EXCEPT !.pc = "check", !.list = batch]
    BY <1>1, <1>5
  <2>. HIDE DEF n
  <2>3. /\ batch \in Seq(Due) /\ batch # <<>> /\ Once(batch)
        /\ Range(batch) \subseteq Range(list)
    BY <1>3, <1>5, <2>1, Batched
  <2>4. Range(list) \subseteq Due
    BY <1>3 DEF Range
  <2>5. Due \subseteq Txs
    BY DEF Due, Sound, RowsSound
  <2>. HIDE DEF batch
  <2>6. batch \in Seq(Txs)
    BY <2>3, <2>5
  <2>. QED
    BY <2>2, <2>3, <2>4, <2>6
<1>. QED
  BY <1>4, <1>5

LEMMA SoundSelect ==
  ASSUME Sound, Select
  PROVE  Sound'
<1>1. RowsSound' /\ CallsSound' /\ rows' = rows /\ now' = now
  BY CallsIdle DEF Sound, RowsSound, Select
<1>2. CASE tick' = Asleep
  BY <1>1, <1>2, AsleepSound, RangeEmpty
     DEF Sound, TickSound, HeldSound, Asleep, Pcs, Once
<1>3. CASE tick' # Asleep
  <2>1. PICK list \in Seq(Txs) :
          /\ tick' = [tick EXCEPT !.pc = "check", !.list = list]
          /\ list # <<>> /\ Once(list) /\ Range(list) \subseteq Due
    BY <1>3, Selected
  <2>2. tick'.pc = "check" /\ tick'.list = list /\ tick'.now = tick.now
    BY <2>1 DEF Sound, TickSound
  <2>3. DOMAIN tick' = {"pc", "now", "list", "coins"}
    BY <2>1 DEF Sound, TickSound
  <2>4. TickSound'
    BY <1>1, <2>1, <2>2, <2>3 DEF Sound, TickSound, Pcs
  <2>5. HeldSound'
    BY <1>1, <2>1, <2>2 DEF HeldSound, Due, Waits
  <2>. QED
    BY <1>1, <2>4, <2>5 DEF Sound
<1>. QED
  BY <1>2, <1>3

\* The scheduler stays at its row.
LEMMA TickStays ==
  ASSUME Sound, tick.pc \notin {"asleep", "select"},
         DOMAIN tick' = DOMAIN tick, tick'.list = tick.list, tick'.now = tick.now,
         tick'.pc \in Pcs \ {"asleep", "select"},
         tick'.pc = "submitted" => AtHand \in sent',
         UNCHANGED <<rows, asks, calls, now>>
  PROVE  Sound'
<1>1. TickSound'
  BY DEF Sound, TickSound
<1>2. HeldSound'
  BY DEF Sound, HeldSound, AtHand
<1>. QED
  BY <1>1, <1>2, CallsIdle DEF Sound, RowsSound

LEMMA SoundCheck ==
  ASSUME Sound, CheckCoins
  PROVE  Sound'
<1>1. PICK pc \in {"failed", "relay"} :
        \E coins : tick' = [tick EXCEPT !.coins = coins, !.pc = pc]
  BY DEF CheckCoins
<1>2. /\ DOMAIN tick' = DOMAIN tick /\ tick'.list = tick.list /\ tick'.now = tick.now
      /\ tick'.pc = pc
  BY <1>1 DEF Sound, TickSound
<1>. QED
  BY <1>2, TickStays DEF CheckCoins, Pcs

LEMMA SoundRelay ==
  ASSUME Sound, Relay \/ RelayFails
  PROVE  Sound'
<1>1. PICK pc \in {"submitted", "failed", "lost"} : tick' = [tick EXCEPT !.pc = pc]
  BY DEF Relay, RelayFails
<1>2. /\ DOMAIN tick' = DOMAIN tick /\ tick'.list = tick.list /\ tick'.now = tick.now
      /\ tick'.pc = pc
  BY <1>1 DEF Sound, TickSound
<1>3. tick'.pc = "submitted" => AtHand \in sent'
  <2>1. ASSUME pc = "submitted"
        PROVE  Accepts(AtHand)
    BY <1>2, <2>1 DEF Relay, RelayFails, Sound, TickSound
  <2>. QED
    BY <1>2, <2>1 DEF Accepts
<1>. QED
  BY <1>2, <1>3, TickStays DEF Relay, RelayFails, Pcs

\* What is left to hold after the row at hand.
LEMMA OnwardSound ==
  ASSUME Sound, tick.pc \notin {"asleep", "select"}
  PROVE  /\ AtHand \in Range(tick.list) /\ AtHand \in Txs
         /\ Range(Onward.list) = Range(tick.list) \ {AtHand}
         /\ Onward.list \in Seq(Txs) /\ Once(Onward.list)
         /\ DOMAIN Onward = {"pc", "now", "list", "coins"}
         /\ Onward.pc \in {"asleep", "check"}
         /\ Onward.pc = "asleep" <=> Onward.list = <<>>
         /\ Onward.pc = "asleep" => Onward = Asleep
         /\ Onward.now \in {0, tick.now}
<1>1. tick.list \in Seq(Txs) /\ tick.list # <<>> /\ Once(tick.list)
  BY DEF Sound, TickSound
<1>2. /\ AtHand \in Range(tick.list) /\ AtHand \in Txs
      /\ Range(Tail(tick.list)) = Range(tick.list) \ {AtHand}
      /\ Tail(tick.list) \in Seq(Txs) /\ Once(Tail(tick.list))
      /\ Tail(tick.list) = <<>> <=> Len(tick.list) = 1
  BY <1>1, HeadTail DEF AtHand
<1>3. CASE Len(tick.list) = 1
  <2>1. Onward = Asleep /\ Tail(tick.list) = <<>>
    BY <1>2, <1>3 DEF Onward
  <2>2. /\ Asleep.list = <<>> /\ Asleep.pc = "asleep" /\ Asleep.now = 0
        /\ DOMAIN Asleep = {"pc", "now", "list", "coins"}
    BY DEF Asleep
  <2>. QED
    BY <1>2, <2>1, <2>2
<1>4. CASE Len(tick.list) # 1
  <2>1. Onward = [tick EXCEPT !.pc = "check", !.list = Tail(tick.list)]
    BY <1>4 DEF Onward, Sound, TickSound
  <2>2. /\ Onward.list = Tail(tick.list) /\ Onward.pc = "check" /\ Onward.now = tick.now
        /\ DOMAIN Onward = {"pc", "now", "list", "coins"}
    BY <2>1 DEF Sound, TickSound
  <2>. QED
    BY <1>2, <1>4, <2>2
<1>. QED
  BY <1>3, <1>4

\* The row at hand is done with, whatever became of it.
LEMMA MovesOn ==
  ASSUME Sound, tick.pc \notin {"asleep", "select"},
         DOMAIN tick' = DOMAIN Onward, tick'.pc = Onward.pc, tick'.list = Onward.list,
         tick'.now = Onward.now, now' = now,
         \A t \in DOMAIN rows : t \in DOMAIN rows' /\
           (t # AtHand => rows'[t].status = rows[t].status)
  PROVE  /\ TickSound' /\ HeldSound'
         /\ Range(tick'.list) = Range(tick.list) \ {AtHand}
         /\ tick'.pc # "submitted"
<1>1. /\ Range(Onward.list) = Range(tick.list) \ {AtHand}
      /\ Onward.list \in Seq(Txs) /\ Once(Onward.list)
      /\ DOMAIN Onward = {"pc", "now", "list", "coins"}
      /\ Onward.pc \in {"asleep", "check"}
      /\ Onward.pc = "asleep" <=> Onward.list = <<>>
      /\ Onward.now \in {0, tick.now}
  BY OnwardSound
<1>2. TickSound'
  BY <1>1 DEF Sound, TickSound, Pcs
<1>3. tick'.pc # "submitted"
  BY <1>1
<1>4. Range(tick'.list) = Range(tick.list) \ {AtHand}
  BY <1>1
<1>5. HeldSound'
  BY <1>3, <1>4 DEF Sound, HeldSound
<1>. QED
  BY <1>2, <1>3, <1>4, <1>5

LEMMA SoundLeave ==
  ASSUME Sound, LeaveWaiting
  PROVE  Sound' /\ Range(tick'.list) = Range(tick.list) \ {AtHand} /\ tick'.pc # "submitted"
BY MovesOn, CallsIdle DEF Sound, RowsSound, LeaveWaiting

\* The rows after the result of the row at hand was written down, or was not.
LEMMA Marked ==
  ASSUME Sound, Mark
  PROVE  /\ AtHand \in Txs
         /\ DOMAIN tick' = DOMAIN Onward /\ tick'.pc = Onward.pc /\ tick'.list = Onward.list
         /\ tick'.now = Onward.now
         /\ rows' = rows \/ \E at : rows' = Closed(AtHand, tick.pc, at)
<1>1. tick.pc \notin {"asleep", "select"}
  BY DEF Mark
<1>2. AtHand \in Txs /\ DOMAIN Onward = {"pc", "now", "list", "coins"}
      /\ (Onward.pc = "asleep" => Onward = Asleep)
  BY <1>1, OnwardSound
<1>3. \/ Onward.pc = "asleep" /\ tick' = Asleep
      \/ \E left : tick' = [Onward EXCEPT !.coins = left]
  BY DEF Mark
<1>4. rows' = rows \/ \E at : rows' = Closed(AtHand, tick.pc, at)
  BY DEF Mark
<1>5. CASE Onward.pc = "asleep" /\ tick' = Asleep
  BY <1>2, <1>4, <1>5
<1>6. CASE \E left : tick' = [Onward EXCEPT !.coins = left]
  <2>1. PICK left : tick' = [Onward EXCEPT !.coins = left]
    BY <1>6
  <2>. QED
    BY <1>2, <1>4, <2>1
<1>. QED
  BY <1>3, <1>5, <1>6

LEMMA SoundMark ==
  ASSUME Sound, Mark
  PROVE  Sound' /\ Range(tick'.list) = Range(tick.list) \ {AtHand} /\ tick'.pc # "submitted"
<1>1. /\ DOMAIN rows' = DOMAIN rows
      /\ \A t \in DOMAIN rows :
           /\ DOMAIN rows'[t] = {"status", "key", "due", "at", "bytes", "age"}
           /\ rows'[t].due = rows[t].due
           /\ t # AtHand => rows'[t].status = rows[t].status
           /\ rows'[t].status \in Statuses
  <2>1. CASE rows' = rows
    BY <2>1 DEF Sound, RowsSound
  <2>2. CASE rows' # rows
    <3>1. PICK at : rows' = Closed(AtHand, tick.pc, at)
      BY <2>2, Marked
    <3>2. AtHand \in Txs
      BY Marked
    <3>3. tick.pc \in Statuses
      BY DEF Mark, Statuses
    <3>. QED
      BY <3>1, <3>2, <3>3, ClosedRows DEF Sound, RowsSound
  <2>. QED
    BY <2>1, <2>2
<1>2. RowsSound'
  BY <1>1 DEF Sound, RowsSound
<1>3. tick.pc \notin {"asleep", "select"} /\ UNCHANGED <<asks, calls, now>>
  BY DEF Mark
<1>4. /\ TickSound' /\ HeldSound' /\ Range(tick'.list) = Range(tick.list) \ {AtHand}
      /\ tick'.pc # "submitted"
  BY <1>1, <1>3, Marked, MovesOn
<1>. QED
  BY <1>2, <1>3, <1>4, CallsIdle DEF Sound

LEMMA SoundCrash ==
  ASSUME Sound, CrashScheduler
  PROVE  Sound' /\ Range(tick'.list) = {} /\ tick'.pc # "submitted"
<1>1. /\ tick' = Asleep /\ calls' = [c \in Callers |-> NoCall]
      /\ UNCHANGED <<asks, rows, now>>
  BY DEF CrashScheduler
<1>2. CallsSound'
  BY <1>1, Ended DEF Sound, CallsSound, Call
<1>3. TickSound' /\ HeldSound' /\ Range(tick'.list) = {} /\ tick'.pc # "submitted"
  BY <1>1, RangeEmpty, EmptySeq DEF Sound, TickSound, HeldSound, Asleep, Pcs, Once
<1>. QED
  BY <1>1, <1>2, <1>3 DEF Sound, RowsSound

LEMMA SoundTime ==
  ASSUME Sound, SpendElsewhere \/ TimePasses
  PROVE  Sound'
<1>1. now' \in Nat /\ now <= now' /\ UNCHANGED <<asks, calls, rows, tick, sent>>
  BY DEF SpendElsewhere, TimePasses, Sound, TickSound
<1>2. TickSound'
  BY <1>1 DEF Sound, TickSound
<1>. QED
  BY <1>1, <1>2, CallsIdle DEF Sound, RowsSound, HeldSound, AtHand

-----------------------------------------------------------------------------
(* What the queue sees.                                                    *)

\* The promises are the states and the times of the rows.
LEMMA PromiseSame ==
  ASSUME DOMAIN rows' = DOMAIN rows,
         \A t \in DOMAIN rows : rows'[t].status = rows[t].status /\ rows'[t].due = rows[t].due
  PROVE  PromiseOf' = PromiseOf
BY DEF PromiseOf

\* Closing a waiting row closes its promise; otherwise nothing is promised anew.
LEMMA PromiseClosed ==
  ASSUME Sound, NEW t \in Txs, NEW status, NEW at, rows' = Closed(t, status, at)
  PROVE  PromiseOf' = IF Waits(t) THEN [PromiseOf EXCEPT ![t].state = status] ELSE PromiseOf
<1>1. /\ DOMAIN rows' = DOMAIN rows
      /\ \A r \in DOMAIN rows :
           /\ rows'[r].due = rows[r].due
           /\ rows'[r].status = IF r = t /\ Waits(t) THEN status ELSE rows[r].status
  BY ClosedRows DEF Sound
<1>2. CASE Waits(t)
  <2>. DEFINE new == [state |-> status, due |-> rows[t].due]
  <2>1. t \in DOMAIN rows /\ PromiseOf[t].due = rows[t].due
    BY <1>2 DEF Waits, PromiseOf
  <2>2. [PromiseOf[t] EXCEPT !.state = status] = new
    BY <2>1 DEF PromiseOf
  <2>3. \A r \in Txs : PromiseOf'[r] = IF r = t THEN new ELSE PromiseOf[r]
    BY <1>1, <1>2, <2>1 DEF PromiseOf
  <2>. HIDE DEF new
  <2>4. DOMAIN PromiseOf = Txs /\ DOMAIN PromiseOf' = Txs
    BY DEF PromiseOf
  <2>5. [PromiseOf EXCEPT ![t].state = status] = [PromiseOf EXCEPT ![t] = new]
    BY <2>2
  <2>6. PromiseOf' = [PromiseOf EXCEPT ![t] = new]
    <3>1. /\ PromiseOf = [r \in Txs |-> PromiseOf[r]]
          /\ PromiseOf' = [r \in Txs |-> PromiseOf'[r]]
      BY DEF PromiseOf
    <3>. QED
      BY <2>3, <2>4, <3>1
  <2>. QED
    BY <1>2, <2>5, <2>6
<1>3. CASE ~Waits(t)
  BY <1>1, <1>3, PromiseSame
<1>. QED
  BY <1>2, <1>3

\* A row that waits is a promise that waits, and one that is gone is none.
LEMMA PromiseReads ==
  ASSUME NEW t \in Txs
  PROVE  /\ Queue!Waiting(t) <=> Waits(t)
         /\ t \in DOMAIN rows => PromiseOf[t] = [state |-> rows[t].status, due |-> rows[t].due]
         /\ t \notin DOMAIN rows => PromiseOf[t] = [state |-> "none", due |-> 0]
BY DEF Queue!Waiting, Waits, PromiseOf

Still == UNCHANGED <<PromiseOf, Held, sent, Stray, now>>

\* What leaves the rows, the list and the sent alone, and does not answer.
LEMMA StillElse ==
  ASSUME rows' = rows, tick'.list = tick.list, sent' = sent, now' = now,
         tick'.pc = "submitted" <=> tick.pc = "submitted"
  PROVE  Still
BY DEF Still, PromiseOf, Held, Stray, Told, Answered, AtHand

-----------------------------------------------------------------------------
(* The steps.                                                              *)

LEMMA StepInserts ==
  ASSUME Sound, NEW c \in Callers, ScheduleInserts(c)
  PROVE  Still \/ \E t \in Txs : Queue!Accept(t)
<1>0. PICK t \in Txs : \E row : Gains(t, row)
  BY Inserted
<1>r. PICK row : Gains(t, row)
  BY <1>0
<1>1. /\ row.status = "scheduled" /\ row.due \in Nat
      /\ DOMAIN row = {"status", "key", "due", "at", "bytes", "age"}
      /\ rows' = IF t \in DOMAIN rows THEN rows
                 ELSE [u \in DOMAIN rows \cup {t} |-> IF u = t THEN row ELSE rows[u]]
  BY <1>r DEF Gains
<1>2. UNCHANGED <<tick, sent, now>>
  BY DEF ScheduleInserts
<1>3. CASE t \in DOMAIN rows
  BY <1>1, <1>2, <1>3, StillElse
<1>4. CASE t \notin DOMAIN rows
  <2>1. /\ DOMAIN rows' = DOMAIN rows \cup {t}
        /\ rows'[t] = row /\ \A u \in DOMAIN rows : rows'[u] = rows[u]
    BY <1>1, <1>4
  <2>2. ~Answered(t)
    <3>. SUFFICES ASSUME Answered(t)
                  PROVE  FALSE
      OBVIOUS
    <3>1. tick.list \in Seq(Txs) /\ tick.list # <<>> /\ Once(tick.list) /\ t = Head(tick.list)
      BY DEF Answered, AtHand, Sound, TickSound
    <3>2. t \in Range(tick.list)
      BY <3>1, HeadTail
    <3>. QED
      BY <1>4, <3>2 DEF Sound, HeldSound
  <2>3. t \notin sent \ Stray
    BY <1>4, <2>2 DEF Stray, Told
  <2>4. PromiseOf[t].state = "none"
    BY <1>4 DEF PromiseOf
  <2>5. PromiseOf' = [PromiseOf EXCEPT ![t] = [state |-> "scheduled", due |-> PromiseOf'[t].due]]
    <3>1. \A r \in Txs : PromiseOf'[r] = IF r = t THEN [state |-> "scheduled", due |-> row.due] ELSE PromiseOf[r]
      BY <1>1, <2>1 DEF PromiseOf
    <3>2. /\ PromiseOf = [r \in Txs |-> PromiseOf[r]]
          /\ PromiseOf' = [r \in Txs |-> PromiseOf'[r]]
      BY DEF PromiseOf
    <3>3. PromiseOf'[t].due = row.due
      BY <3>1
    <3>. QED
      BY <3>1, <3>2, <3>3
  <2>6. Stray' = Stray
    BY <1>1, <1>2, <1>4, <2>1 DEF Stray, Told, Answered, AtHand
  <2>7. Held' = Held
    BY <1>2 DEF Held
  <2>. QED
    BY <1>2, <2>3, <2>4, <2>5, <2>6, <2>7 DEF Queue!Accept
<1>. QED
  BY <1>3, <1>4

LEMMA StepCancel ==
  ASSUME Sound, NEW t \in Txs, CancelScheduledPost(t)
  PROVE  Queue!Withdraw(t)
<1>1. Waits(t) /\ rows' = Closed(t, "cancelled", -1) /\ UNCHANGED <<tick, sent, now>>
  BY DEF CancelScheduledPost
<1>2. PromiseOf' = [PromiseOf EXCEPT ![t].state = "cancelled"]
  BY <1>1, PromiseClosed
<1>3. /\ DOMAIN rows' = DOMAIN rows
      /\ \A r \in DOMAIN rows : rows'[r].status = IF r = t THEN "cancelled" ELSE rows[r].status
  BY <1>1, ClosedRows DEF Sound
<1>4. \A r : Told(r)' <=> Told(r)
  BY <1>1, <1>3 DEF Told, Waits
<1>5. Stray' = Stray /\ Held' = Held
  BY <1>1, <1>4 DEF Stray, Answered, AtHand, Held
<1>. QED
  BY <1>1, <1>2, <1>5, PromiseReads DEF Queue!Withdraw, Queue!Close

LEMMA StepPrune ==
  ASSUME Sound, SentSound, Prune
  PROVE  Queue!Forget
<1>. DEFINE kept == {t \in DOMAIN rows : Waits(t) \/ FinishedAt(t) >= now - KeepFinished}
<1>1. /\ tick.pc = "asleep" /\ rows' = [t \in kept |-> [rows[t] EXCEPT !.bytes = Waits(t)]]
      /\ UNCHANGED <<sent, now>>
  BY DEF Prune
<1>2. kept \subseteq DOMAIN rows /\ \A t \in DOMAIN rows \ kept : ~Waits(t)
  OBVIOUS
<1>. HIDE DEF kept
<1>3. /\ DOMAIN rows' = kept
      /\ \A t \in kept : rows'[t].status = rows[t].status /\ rows'[t].due = rows[t].due
  BY <1>1, <1>2 DEF Sound, RowsSound
<1>4. tick'.pc = "select" /\ Held' = Held
  <2>1. tick' = [Asleep EXCEPT !.pc = "select", !.now = now]
    BY DEF Prune
  <2>2. tick'.pc = "select" /\ tick'.list = <<>>
    BY <2>1 DEF Asleep
  <2>3. tick.list = <<>>
    BY <1>1 DEF Sound, TickSound
  <2>. QED
    BY <2>2, <2>3 DEF Held
<1>5. \A t \in Txs : PromiseOf'[t] = IF t \in DOMAIN rows \ kept THEN [state |-> "none", due |-> 0] ELSE PromiseOf[t]
  BY <1>2, <1>3 DEF PromiseOf
<1>6. \A t \in DOMAIN rows \ kept : rows[t].status # "scheduled"
  BY <1>2 DEF Waits
<1>7. \A t \in Txs : PromiseOf'[t] # PromiseOf[t] =>
        PromiseOf[t].state \notin {"none", "scheduled"} /\ PromiseOf'[t] = [state |-> "none", due |-> 0]
  <2>. SUFFICES ASSUME NEW t \in Txs, PromiseOf'[t] # PromiseOf[t]
                PROVE  PromiseOf[t].state \notin {"none", "scheduled"} /\ PromiseOf'[t] = [state |-> "none", due |-> 0]
    OBVIOUS
  <2>1. t \in DOMAIN rows \ kept /\ PromiseOf'[t] = [state |-> "none", due |-> 0]
    BY <1>5
  <2>2. PromiseOf[t] = [state |-> rows[t].status, due |-> rows[t].due]
    BY <2>1, PromiseReads
  <2>3. rows[t].status # "none"
    BY <2>1 DEF Sound, RowsSound, Statuses
  <2>. QED
    BY <1>6, <2>1, <2>2, <2>3
<1>8. PromiseOf' = [t \in Txs |-> PromiseOf'[t]]
  BY DEF PromiseOf
<1>9. Stray' = Stray \cup {t \in sent : PromiseOf[t].state = "submitted" /\ PromiseOf'[t].state = "none"}
  <2>1. ASSUME NEW t \in sent
        PROVE  /\ t \in Stray <=> PromiseOf[t].state # "submitted"
               /\ t \in Stray' <=> PromiseOf'[t].state # "submitted"
    <3>1. t \in Txs
      BY DEF SentSound
    <3>2. Told(t) <=> PromiseOf[t].state = "submitted"
      BY <3>1 DEF Told, PromiseOf
    <3>3. Told(t)' <=> PromiseOf'[t].state = "submitted"
      BY <3>1 DEF Told, PromiseOf
    <3>. QED
      BY <1>1, <1>4, <3>2, <3>3 DEF Stray, Answered
  <2>2. ASSUME NEW t \in sent
        PROVE  PromiseOf'[t] \in {PromiseOf[t], [state |-> "none", due |-> 0]}
    BY <1>7 DEF SentSound
  <2>3. \A t \in sent : t \in Stray' <=>
          t \in Stray \/ (PromiseOf[t].state = "submitted" /\ PromiseOf'[t].state = "none")
    <3>. SUFFICES ASSUME NEW t \in sent
                  PROVE  PromiseOf'[t].state # "submitted" <=>
                           \/ PromiseOf[t].state # "submitted"
                           \/ PromiseOf[t].state = "submitted" /\ PromiseOf'[t].state = "none"
      BY <2>1
    <3>. QED
      BY <2>2
  <2>4. Stray \subseteq sent /\ Stray' \subseteq sent
    BY <1>1 DEF Stray
  <2>. QED
    BY <2>3, <2>4
<1>. QED
  BY <1>1, <1>4, <1>7, <1>8, <1>9 DEF Queue!Forget

LEMMA StepSelect ==
  ASSUME Sound, Select
  PROVE  Still \/ Queue!Hold
<1>1. tick.pc = "select" /\ tick.list = <<>> /\ UNCHANGED <<rows, sent, now>>
  BY DEF Select, Sound, TickSound
<1>2. CASE tick' = Asleep
  <2>1. tick'.list = <<>> /\ tick'.pc # "submitted"
    BY <1>2 DEF Asleep
  <2>. QED
    BY <1>1, <2>1, StillElse
<1>3. CASE tick' # Asleep
  <2>1. PICK list \in Seq(Txs) :
          /\ tick' = [tick EXCEPT !.pc = "check", !.list = list]
          /\ list # <<>> /\ Once(list) /\ Range(list) \subseteq Due
    BY <1>3, Selected
  <2>2. tick'.pc = "check" /\ tick'.list = list
    BY <2>1 DEF Sound, TickSound
  <2>3. Held = {} /\ Held' = Range(list)
    BY <1>1, <2>2, RangeEmpty DEF Held
  <2>4. ASSUME NEW t \in Held'
        PROVE  t \in Txs /\ Queue!Waiting(t) /\ PromiseOf[t].due <= now
    <3>1. t \in Txs /\ Waits(t) /\ rows[t].due <= tick.now
      BY <2>1, <2>3, <2>4 DEF Due, Sound, RowsSound
    <3>2. PromiseOf[t].due = rows[t].due /\ Queue!Waiting(t)
      <4>1. t \in DOMAIN rows
        BY <3>1 DEF Waits
      <4>2. Queue!Waiting(t) /\ PromiseOf[t] = [state |-> rows[t].status, due |-> rows[t].due]
        BY <3>1, <4>1, PromiseReads
      <4>. QED
        BY <4>2
    <3>3. rows[t].due \in Nat /\ tick.now \in Nat /\ tick.now <= now /\ now \in Nat
      BY <3>1 DEF Waits, Sound, RowsSound, TickSound
    <3>. QED
      BY <3>1, <3>2, <3>3
  <2>5. PromiseOf' = PromiseOf /\ Stray' = Stray
    BY <1>1, <2>2 DEF PromiseOf, Stray, Told, Answered
  <2>. QED
    BY <1>1, <2>3, <2>4, <2>5 DEF Queue!Hold
<1>. QED
  BY <1>2, <1>3

LEMMA StepCheck ==
  ASSUME Sound, CheckCoins
  PROVE  Still
<1>1. PICK pc \in {"failed", "relay"} :
        \E coins : tick' = [tick EXCEPT !.coins = coins, !.pc = pc]
  BY DEF CheckCoins
<1>2. tick'.list = tick.list /\ tick'.pc = pc
  BY <1>1 DEF Sound, TickSound
<1>. QED
  BY <1>1, <1>2, StillElse DEF CheckCoins

LEMMA StepRelay ==
  ASSUME Sound, Relay \/ RelayFails
  PROVE  Still \/ \E t \in Txs : Queue!Send(t)
<1>1. PICK pc \in {"submitted", "failed", "lost"} : tick' = [tick EXCEPT !.pc = pc]
  BY DEF Relay, RelayFails
<1>2. /\ tick'.list = tick.list /\ tick'.pc = pc /\ tick.pc = "relay"
      /\ UNCHANGED <<rows, now>>
  BY <1>1 DEF Sound, TickSound, Relay, RelayFails
<1>3. \/ Accepts(AtHand)
      \/ sent' = sent /\ pc # "submitted"
  <2>1. \/ Accepts(AtHand)
        \/ sent' = sent /\ tick' = [tick EXCEPT !.pc = "failed"]
        \/ sent' = sent /\ tick' = [tick EXCEPT !.pc = "lost"]
    BY DEF Relay, RelayFails
  <2>2. \A x : tick' = [tick EXCEPT !.pc = x] => tick'.pc = x
    BY DEF Sound, TickSound
  <2>. QED
    BY <1>2, <2>1, <2>2
<1>4. CASE Accepts(AtHand)
  <2>1. AtHand \in Txs /\ AtHand \in Held
    BY <1>2, OnwardSound DEF Held
  <2>2. PICK t \in Txs : t = AtHand
    BY <2>1
  <2>3. t \notin sent /\ sent' = sent \cup {t}
    BY <1>4, <2>2 DEF Accepts, Acceptable
  <2>4. PromiseOf' = PromiseOf /\ Held' = Held
    BY <1>2 DEF PromiseOf, Held
  <2>5. \A u : Told(u)' <=> Told(u)
    BY <1>2 DEF Told
  <2>6. \A u : ~Answered(u) /\ (Answered(u)' <=> pc = "submitted" /\ u = t)
    BY <1>2, <2>2 DEF Answered, AtHand
  <2>7. Stray' \in {Stray, Stray \cup {t}}
    BY <2>3, <2>5, <2>6 DEF Stray
  <2>. QED
    BY <1>2, <2>1, <2>2, <2>3, <2>4, <2>7 DEF Queue!Send
<1>5. CASE sent' = sent /\ pc # "submitted"
  BY <1>2, <1>5, StillElse
<1>. QED
  BY <1>3, <1>4, <1>5

\* What is let go and was not told is stray from then on.
LEMMA StepReleases ==
  ASSUME Sound, UNCHANGED <<PromiseOf, sent, now>>, Held' \subseteq Held,
         tick.pc = "submitted" => AtHand \in Held \ Held',
         tick'.pc # "submitted",
         \A t \in Held \ Held' : ~Told(t),
         \A t \in sent : Told(t)' <=> Told(t)
  PROVE  Queue!Release
<1>1. \A t \in sent : t \in Stray' <=> t \in Stray \/ t \in (Held \ Held')
  BY DEF Stray, Answered
<1>2. Stray' \subseteq sent /\ Stray \subseteq sent
  BY DEF Stray
<1>3. Stray' = Stray \cup ((Held \ Held') \cap sent)
  BY <1>1, <1>2
<1>. QED
  BY <1>3 DEF Queue!Release

LEMMA HeldNotTold ==
  ASSUME Sound
  PROVE  \A t \in Held : ~Told(t)
BY DEF Sound, HeldSound, Held, Told

LEMMA StepLeave ==
  ASSUME Sound, LeaveWaiting
  PROVE  Queue!Release
<1>1. UNCHANGED <<PromiseOf, rows, sent, now>> /\ tick.pc = "lost"
  BY DEF LeaveWaiting, PromiseOf
<1>2. Held' \subseteq Held /\ tick'.pc # "submitted"
  BY SoundLeave DEF Held
<1>. QED
  BY <1>1, <1>2, HeldNotTold, StepReleases DEF Told

LEMMA StepCrash ==
  ASSUME Sound, CrashScheduler
  PROVE  Queue!Release
<1>1. UNCHANGED <<PromiseOf, rows, sent, now>>
  BY DEF CrashScheduler, PromiseOf
<1>2. Held' = {} /\ tick'.pc # "submitted"
  BY SoundCrash DEF Held
<1>3. tick.pc = "submitted" => AtHand \in Held
  BY OnwardSound DEF Held
<1>. QED
  BY <1>1, <1>2, <1>3, HeldNotTold, StepReleases DEF Told

LEMMA StepTime ==
  ASSUME Sound, SpendElsewhere \/ TimePasses
  PROVE  Still \/ Queue!Pass
<1>1. CASE SpendElsewhere
  BY <1>1, StillElse DEF SpendElsewhere
<1>2. CASE TimePasses
  <2>1. now' > now
    BY <1>2 DEF TimePasses, Sound, TickSound
  <2>2. UNCHANGED <<PromiseOf, Held, sent, Stray>>
    BY <1>2 DEF TimePasses, PromiseOf, Held, Stray, Told, Answered, AtHand
  <2>. QED
    BY <2>1, <2>2 DEF Queue!Pass
<1>. QED
  BY <1>1, <1>2

LEMMA StepMark ==
  ASSUME Sound, Mark
  PROVE  Queue!Release \/ \E t \in Txs : Queue!Confirm(t) \/ Queue!Fail(t)
<1>1. /\ tick.pc \in {"submitted", "failed"} /\ UNCHANGED <<sent, now>>
      /\ AtHand \in Txs /\ AtHand \in Held
      /\ Held' = Held \ {AtHand} /\ tick'.pc # "submitted"
  BY SoundMark, OnwardSound DEF Mark, Held
<1>2. PICK p \in Txs : p = AtHand
  BY <1>1
<1>3. ASSUME PromiseOf' = PromiseOf, \A t \in sent : Told(t)' <=> Told(t)
      PROVE  Queue!Release
  BY <1>1, <1>3, HeldNotTold, StepReleases
<1>4. CASE rows' = rows
  BY <1>3, <1>4 DEF PromiseOf, Told
<1>5. CASE rows' # rows
  <2>1. PICK at : rows' = Closed(p, tick.pc, at)
    BY <1>2, <1>5, Marked
  <2>2. PromiseOf' = IF Waits(p) THEN [PromiseOf EXCEPT ![p].state = tick.pc] ELSE PromiseOf
    BY <2>1, PromiseClosed
  <2>3. /\ DOMAIN rows' = DOMAIN rows
        /\ \A r \in DOMAIN rows :
             rows'[r].status = IF r = p /\ Waits(p) THEN tick.pc ELSE rows[r].status
    BY <2>1, ClosedRows DEF Sound
  <2>4. CASE ~Waits(p)
    <3>1. \A t : Told(t)' <=> Told(t)
      BY <2>3, <2>4 DEF Told
    <3>. QED
      BY <1>3, <2>2, <2>4, <3>1
  <2>5. CASE Waits(p)
    <3>1. \A t : Told(t)' <=> Told(t) \/ (t = p /\ tick.pc = "submitted")
      BY <1>1, <2>3, <2>5 DEF Told, Waits
    <3>2. ~Told(p) /\ p \in Held
      BY <1>1, <1>2, HeldNotTold
    <3>3. \A t \in sent : t \in Stray <=> ~Told(t) /\ ~(t = p /\ tick.pc = "submitted")
      BY <1>2 DEF Stray, Answered
    <3>4. \A t \in sent : t \in Stray' <=> ~Told(t)'
      BY <1>1 DEF Stray, Answered
    <3>5. Stray' = Stray
      <4>1. Stray \subseteq sent /\ Stray' \subseteq sent
        BY <1>1 DEF Stray
      <4>. QED
        BY <3>1, <3>3, <3>4, <4>1
    <3>6. Queue!Waiting(p) /\ Queue!Close(p, tick.pc)
      BY <2>2, <2>5, PromiseReads DEF Queue!Close
    <3>7. CASE tick.pc = "submitted"
      <4>1. p \in sent
        BY <1>2, <3>7 DEF Sound, HeldSound
      <4>. QED
        BY <1>1, <1>2, <3>2, <3>3, <3>5, <3>6, <3>7, <4>1 DEF Queue!Confirm
    <3>8. CASE tick.pc = "failed"
      BY <1>1, <1>2, <3>2, <3>3, <3>5, <3>6, <3>8 DEF Queue!Fail
    <3>. QED
      BY <1>1, <3>7, <3>8
  <2>. QED
    BY <2>4, <2>5
<1>. QED
  BY <1>4, <1>5

-----------------------------------------------------------------------------
(* The theorem.                                                            *)

IndInv == Sound /\ SentSound

\* Only the relay sends, and what it sends is a transaction.
LEMMA SentStays ==
  ASSUME Sound, SentSound, NextScheduled
  PROVE  SentSound'
<1>1. sent' = sent \/ (tick.pc = "relay" /\ sent' = sent \cup {AtHand})
  BY DEF NextScheduled, Scheduler, SchedulePost, ScheduleAsksNode, ScheduleFails, ScheduleInserts,
         CancelScheduledPost, Prune, Select, CheckCoins, Relay, RelayFails, Accepts, LeaveWaiting,
         Mark, CrashScheduler, SpendElsewhere, TimePasses
<1>2. tick.pc = "relay" => AtHand \in Txs
  BY OnwardSound
<1>. QED
  BY <1>1, <1>2 DEF SentSound

LEMMA Steps ==
  ASSUME IndInv, NextScheduled
  PROVE  Sound' /\ (Still \/ Queue!Next)
<1>. USE DEF IndInv, Queue!Next
<1>1. ASSUME NEW c \in Callers, SchedulePost(c) \/ ScheduleAsksNode(c) \/ ScheduleFails(c)
      PROVE  Sound' /\ Still
  <2>1. UNCHANGED <<rows, tick, sent, now>>
    BY <1>1 DEF SchedulePost, ScheduleAsksNode, ScheduleFails
  <2>. QED
    BY <1>1, <2>1, SoundPost, SoundAsks, SoundFails, StillElse
<1>2. ASSUME NEW c \in Callers, ScheduleInserts(c)
      PROVE  Sound' /\ (Still \/ Queue!Next)
  BY <1>2, SoundInserts, StepInserts
<1>3. ASSUME NEW t \in Txs, CancelScheduledPost(t)
      PROVE  Sound' /\ Queue!Next
  BY <1>3, SoundCancel, StepCancel
<1>4. CASE Prune
  BY <1>4, SoundPrune, StepPrune
<1>5. CASE Select
  BY <1>5, SoundSelect, StepSelect
<1>6. CASE CheckCoins
  BY <1>6, SoundCheck, StepCheck
<1>7. CASE Relay \/ RelayFails
  BY <1>7, SoundRelay, StepRelay
<1>8. CASE LeaveWaiting
  BY <1>8, SoundLeave, StepLeave
<1>9. CASE Mark
  BY <1>9, SoundMark, StepMark
<1>10. CASE CrashScheduler
  BY <1>10, SoundCrash, StepCrash
<1>11. CASE SpendElsewhere \/ TimePasses
  BY <1>11, SoundTime, StepTime
<1>. QED
  BY <1>1, <1>2, <1>3, <1>4, <1>5, <1>6, <1>7, <1>8, <1>9, <1>10, <1>11
     DEF NextScheduled, Scheduler

LEMMA InitQueue == InitScheduled => IndInv /\ Queue!Init
<1>. SUFFICES ASSUME InitScheduled
              PROVE  IndInv /\ Queue!Init
  OBVIOUS
<1>1. /\ DOMAIN rows = {} /\ tick = Asleep /\ sent = {} /\ now = 0
  BY DEF InitScheduled
<1>2. Held = {}
  BY <1>1, RangeEmpty DEF Held, Asleep
<1>3. PromiseOf = [t \in Txs |-> [state |-> "none", due |-> 0]]
  BY <1>1 DEF PromiseOf
<1>4. Stray = {}
  BY <1>1 DEF Stray
<1>. QED
  BY <1>1, <1>2, <1>3, <1>4, SoundInit DEF IndInv, SentSound, Queue!Init

\* scheduled.rs implements the safe half of the queue: nothing is sent that the
\* scheduler did not hold, nothing is held before its time or unless it waits,
\* and a post is closed once and as what became of it, whatever overlaps, fails
\* or crashes between a statement and the next.
THEOREM QueueTheorem == SpecScheduled => Queue!Safe
<1>1. IndInv /\ [NextScheduled]_scheduledVars => IndInv' /\ [Queue!Next]_(Queue!queue)
  <2>. SUFFICES ASSUME IndInv, [NextScheduled]_scheduledVars
                PROVE  IndInv' /\ [Queue!Next]_(Queue!queue)
    OBVIOUS
  <2>1. CASE NextScheduled
    <3>1. Sound' /\ SentSound'
      BY <2>1, Steps, SentStays DEF IndInv
    <3>2. Still \/ Queue!Next
      BY <2>1, Steps
    <3>. QED
      BY <3>1, <3>2 DEF IndInv, Still, Queue!queue
  <2>2. CASE UNCHANGED scheduledVars
    <3>1. CallsSound'
      BY <2>2, CallsIdle DEF scheduledVars, IndInv, Sound
    <3>2. Sound' /\ SentSound'
      BY <2>2, <3>1, SoundElse DEF scheduledVars, IndInv, SentSound
    <3>3. Still
      BY <2>2, StillElse DEF scheduledVars
    <3>. QED
      BY <3>2, <3>3 DEF IndInv, Still, Queue!queue
  <2>. QED
    BY <2>1, <2>2
<1>. QED
  BY InitQueue, <1>1, PTL DEF SpecScheduled, Queue!Safe
=============================================================================
