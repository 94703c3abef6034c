-------------------------- MODULE PushService_proofs --------------------------
(***************************************************************************)
(* Proofs about the push service, for any plan of calls, events,           *)
(* transactions and faults, any limits and any transports: what it reads   *)
(* says what the rows say, a signed request works once and in the order of *)
(* its counter, and no phone is pushed the same thing twice.               *)
(*                                                                         *)
(* The registry comes first. Every command but three is one Put, so the    *)
(* argument is about Put: the entries of its token move by the difference  *)
(* of the lists, the other tokens' stay.                                   *)
(*                                                                         *)
(* The actor's queue holds at most one question of the dispatcher, whose   *)
(* job says what it asks (InQueue, InHand). A signed request is in one     *)
(* place at a time: not asked for, holding a nonce, in the queue, done     *)
(* (InPlace). What is still to be pushed under a key was not pushed under  *)
(* it yet (Unsaid).                                                        *)
(***************************************************************************)
EXTENDS PushService, SequenceTheorems, TLAPS

-----------------------------------------------------------------------------
(* The registry: what is read says what the rows say.                      *)

\* What a row lists is of its type.
LEMMA ListsType ==
    ASSUME NEW row \in Maybe(Row)
    PROVE  /\ Watching(row) \subseteq Address
           /\ Joined(row) \subseteq Group
           /\ WatchOnly(row) \subseteq Address
           /\ Own(row) \subseteq Address
           /\ FiltersOf(row) \in Maybe(Filters)
           /\ row # None => FiltersOf(row) # None
<1>1. CASE row = None
    BY <1>1 DEF Watching, Joined, WatchOnly, Own, FiltersOf, Maybe
<1>2. CASE row # None
    <2>1. row \in Row
        BY <1>2 DEF Maybe
    <2>2. row.want \in Wish
        BY <2>1 DEF Row
    <2>3. /\ row.want.addresses \subseteq Address
          /\ row.want.groups \subseteq Group
          /\ row.want.watchOnly \subseteq Address
          /\ row.want.primary \in Maybe(Address)
          /\ row.want.aliases \subseteq Alias
        BY <2>2 DEF Wish
    <2>4. FiltersOf(row) \in Filters
        BY <1>2, <2>3 DEF FiltersOf, Filters
    <2>. QED
        BY <1>2, <2>3, <2>4, NoneAssumption DEF Watching, Joined, WatchOnly, Own, Maybe
<1>. QED
    BY <1>1, <1>2

\* The index of a list per token, and that it still lists them after the entries
\* of one token moved by the difference.
Lists(S, list) == {p \in S \X Token : p[1] \in list[p[2]]}

LEMMA MovedTrue ==
    ASSUME NEW S, NEW list, NEW after, NEW t \in Token, after[t] \subseteq S,
           \A u \in Token \ {t} : after[u] = list[u]
    PROVE  Moved(Lists(S, list), t, list[t], after[t]) = Lists(S, after)
<1>. DEFINE moved == Moved(Lists(S, list), t, list[t], after[t])
<1>1. \A x, u : <<x, u>> \in moved <=> <<x, u>> \in Lists(S, after)
    <2>. SUFFICES ASSUME NEW x, NEW u
                  PROVE  <<x, u>> \in moved <=> <<x, u>> \in Lists(S, after)
        OBVIOUS
    <2>1. CASE u = t
        BY <2>1 DEF Moved, Lists
    <2>2. CASE u # t
        BY <2>2 DEF Moved, Lists
    <2>. QED
        BY <2>1, <2>2
<1>2. \A p \in moved : p = <<p[1], p[2]>>
    BY DEF Moved, Lists
<1>3. \A p \in Lists(S, after) : p = <<p[1], p[2]>>
    BY DEF Lists
<1>. HIDE DEF moved
<1>4. moved \subseteq Lists(S, after)
    <2>. SUFFICES ASSUME NEW p \in moved
                  PROVE  p \in Lists(S, after)
        OBVIOUS
    <2>1. p = <<p[1], p[2]>>
        BY <1>2
    <2>. QED
        BY <1>1, <2>1
<1>5. Lists(S, after) \subseteq moved
    <2>. SUFFICES ASSUME NEW p \in Lists(S, after)
                  PROVE  p \in moved
        OBVIOUS
    <2>1. p = <<p[1], p[2]>>
        BY <1>3
    <2>. QED
        BY <1>1, <2>1
<1>. QED
    BY <1>4, <1>5 DEF moved

RegistryInv == RegistryTypeOK /\ ReadsTrue

\* Putting a row, or removing it, keeps what is read true.
LEMMA PutKeeps ==
    ASSUME RegistryInv, NEW t \in Token, NEW new \in Maybe(Row), Put(t, new)
    PROVE  RegistryInv'
<1>. USE DEF RegistryInv, RegistryTypeOK, ReadsTrue
<1>1. rows' = [rows EXCEPT ![t] = new] /\ rows' \in [Token -> Maybe(Row)]
    BY DEF Put
<1>2. \A u \in Token : rows[u] \in Maybe(Row) /\ rows'[u] = IF u = t THEN new ELSE rows[u]
    BY <1>1
<1>3. byAddress' = {p \in Address \X Token : p[1] \in Watching(rows'[p[2]])}
    <2>. DEFINE list  == [u \in Token |-> Watching(rows[u])]
                after == [u \in Token |-> Watching(rows'[u])]
    <2>1. after[t] \subseteq Address /\ \A u \in Token \ {t} : after[u] = list[u]
        BY <1>2, ListsType
    <2>2. byAddress = Lists(Address, list)
        BY DEF IndexesTrue, Lists
    <2>3. byAddress' = Moved(byAddress, t, list[t], after[t])
        BY <1>2 DEF Put
    <2>4. byAddress' = Lists(Address, after)
        <3>. HIDE DEF list, after
        <3>. QED
            BY <2>1, <2>2, <2>3, MovedTrue
    <2>. QED
        BY <2>4 DEF Lists
<1>4. byGroup' = {p \in Group \X Token : p[1] \in Joined(rows'[p[2]])}
    <2>. DEFINE list  == [u \in Token |-> Joined(rows[u])]
                after == [u \in Token |-> Joined(rows'[u])]
    <2>1. after[t] \subseteq Group /\ \A u \in Token \ {t} : after[u] = list[u]
        BY <1>2, ListsType
    <2>2. byGroup = Lists(Group, list)
        BY DEF IndexesTrue, Lists
    <2>3. byGroup' = Moved(byGroup, t, list[t], after[t])
        BY <1>2 DEF Put
    <2>4. byGroup' = Lists(Group, after)
        <3>. HIDE DEF list, after
        <3>. QED
            BY <2>1, <2>2, <2>3, MovedTrue
    <2>. QED
        BY <2>4 DEF Lists
<1>5. byPrimary' = {p \in Address \X Token : p[1] \in Own(rows'[p[2]])}
    <2>. DEFINE list  == [u \in Token |-> Own(rows[u])]
                after == [u \in Token |-> Own(rows'[u])]
    <2>1. after[t] \subseteq Address /\ \A u \in Token \ {t} : after[u] = list[u]
        BY <1>2, ListsType
    <2>2. byPrimary = Lists(Address, list)
        BY DEF IndexesTrue, Lists
    <2>3. byPrimary' = Moved(byPrimary, t, list[t], after[t])
        BY <1>2 DEF Put
    <2>4. byPrimary' = Lists(Address, after)
        <3>. HIDE DEF list, after
        <3>. QED
            BY <2>1, <2>2, <2>3, MovedTrue
    <2>. QED
        BY <2>4 DEF Lists
<1>6. CachesTrue' /\ cache' \in [Token -> Maybe(Filters)]
    <2>1. cache' = [cache EXCEPT ![t] = FiltersOf(new)]
        BY DEF Put
    <2>2. FiltersOf(new) \in Maybe(Filters)
        BY ListsType
    <2>. QED
        BY <1>2, <2>1, <2>2 DEF CachesTrue
<1>7. GateTrue' /\ gate' \subseteq Address
    <2>1. Gate(rows') \subseteq Address
        BY <1>1, ListsType DEF Gate
    <2>2. CASE WatchOnly(rows[t]) = WatchOnly(new)
        <3>1. \A u \in Token : WatchOnly(rows'[u]) = WatchOnly(rows[u])
            BY <1>2, <2>2
        <3>2. Gate(rows') = Gate(rows)
            BY <3>1 DEF Gate
        <3>. QED
            BY <2>2, <3>2 DEF GateTrue, Put
    <2>3. CASE WatchOnly(rows[t]) # WatchOnly(new)
        BY <1>1, <2>1, <2>3 DEF GateTrue, Put
    <2>. QED
        BY <2>2, <2>3
<1>8. IndexesTrue'
    BY <1>3, <1>4, <1>5 DEF IndexesTrue
<1>. QED
    BY <1>1, <1>3, <1>4, <1>5, <1>6, <1>7, <1>8

\* What a registration stores is a row.
LEMMA NewRowType ==
    ASSUME RegistryTypeOK, NEW t \in Token, NEW wish \in Wish,
           NEW wallet \in Maybe(Address), NEW device \in Maybe(Device)
    PROVE  NewRow(t, wish, wallet, device) \in Row
<1>1. rows[t] \in Maybe(Row)
    BY DEF RegistryTypeOK
<1>2. CASE rows[t] = None
    BY <1>2 DEF NewRow, Kept, Row
<1>3. CASE rows[t] # None
    <2>1. rows[t] \in Row
        BY <1>1, <1>3 DEF Maybe
    <2>2. rows[t].want \in Wish /\ rows[t].wallet \in Maybe(Address) /\ rows[t].device \in Maybe(Device)
        BY <2>1 DEF Row
    <2>3. Kept(wish, rows[t]) \in Wish
        BY <1>3, <2>2 DEF Kept, Wish
    <2>. QED
        BY <1>3, <2>2, <2>3 DEF NewRow, Row
<1>. QED
    BY <1>2, <1>3

\* Each command, and a restart, keeps what is read true.
LEMMA StepKeeps == RegistryInv /\ [RegistryNext]_registry => RegistryInv'
<1>. SUFFICES ASSUME RegistryInv, [RegistryNext]_registry
              PROVE  RegistryInv'
    OBVIOUS
<1>1. ASSUME NEW t \in Token, NEW wish \in Wish, NEW wallet \in Maybe(Address),
             NEW device \in Maybe(Device), Register(t, wish, wallet, device)
      PROVE  RegistryInv'
    <2>1. NewRow(t, wish, wallet, device) \in Maybe(Row)
        BY NewRowType DEF Maybe, RegistryInv
    <2>. QED
        BY <1>1, <2>1, PutKeeps DEF Register
<1>2. ASSUME NEW t \in Token, NEW wish \in Wish, NEW wallet \in Maybe(Address),
             NEW device \in Maybe(Device), Update(t, wish, wallet, device)
      PROVE  RegistryInv'
    <2>1. rows[t] # None => rows[t] \in Row /\ rows[t].want \in Wish
        BY DEF RegistryInv, RegistryTypeOK, Maybe, Row
    <2>2. OnStoredPlatform(t, wish) \in Wish
        BY <2>1 DEF OnStoredPlatform, Wish, Platforms
    <2>. QED
        BY <1>1, <1>2, <2>2 DEF Update
<1>3. ASSUME NEW t \in Token, Put(t, None)
      PROVE  RegistryInv'
    BY <1>3, PutKeeps DEF Maybe
<1>4. ASSUME NEW t \in Token, NEW host \in Hosts, SetEnv(t, host)
      PROVE  RegistryInv'
    <2>1. CASE rows[t] = None
        BY <1>4, <2>1 DEF SetEnv, RegistryInv, RegistryTypeOK, ReadsTrue, IndexesTrue, CachesTrue,
                          GateTrue, Gate
    <2>2. CASE rows[t] # None
        <3>. DEFINE row == [rows[t] EXCEPT !.want = [rows[t].want EXCEPT !.env = host]]
        <3>1. rows[t] \in Row /\ rows[t].want \in Wish
            BY <2>2 DEF RegistryInv, RegistryTypeOK, Maybe, Row
        <3>2. row \in Row /\ row # None
            BY <3>1, NoneAssumption DEF Row, Wish, Maybe
        <3>3. rows' = [rows EXCEPT ![t] = row]
            BY <1>4, <2>2 DEF SetEnv
        <3>4. /\ Watching(row) = Watching(rows[t]) /\ Joined(row) = Joined(rows[t])
              /\ WatchOnly(row) = WatchOnly(rows[t]) /\ Own(row) = Own(rows[t])
              /\ FiltersOf(row) = FiltersOf(rows[t])
            BY <2>2, <3>1, <3>2 DEF Watching, Joined, WatchOnly, Own, FiltersOf, Row, Wish
        <3>. HIDE DEF row
        <3>5. rows' \in [Token -> Maybe(Row)]
            BY <3>2, <3>3 DEF RegistryInv, RegistryTypeOK, Maybe
        <3>6. \A u \in Token :
                  /\ Watching(rows'[u]) = Watching(rows[u]) /\ Joined(rows'[u]) = Joined(rows[u])
                  /\ WatchOnly(rows'[u]) = WatchOnly(rows[u]) /\ Own(rows'[u]) = Own(rows[u])
                  /\ FiltersOf(rows'[u]) = FiltersOf(rows[u])
            BY <3>3, <3>4 DEF RegistryInv, RegistryTypeOK
        <3>7. IndexesTrue'
            BY <1>4, <3>6 DEF SetEnv, RegistryInv, ReadsTrue, IndexesTrue
        <3>8. CachesTrue' /\ GateTrue'
            BY <1>4, <3>6 DEF SetEnv, RegistryInv, ReadsTrue, CachesTrue, GateTrue, Gate
        <3>. QED
            BY <1>4, <3>5, <3>7, <3>8 DEF SetEnv, RegistryInv, RegistryTypeOK, ReadsTrue
    <2>. QED
        BY <2>1, <2>2
<1>5. ASSUME NEW address \in Address, NEW filtered \in BOOLEAN, LookUp(address, filtered)
      PROVE  RegistryInv'
    <2>1. \A u \in Token : rows[u] \in Maybe(Row)
        BY DEF RegistryInv, RegistryTypeOK
    <2>2. cache' \in [Token -> Maybe(Filters)] /\ CachesTrue'
        BY <1>5, <2>1, ListsType DEF LookUp, Hydrated, RegistryInv, RegistryTypeOK, ReadsTrue, CachesTrue
    <2>3. byAddress' = byAddress
        <3>1. CASE Watchers(address) # {}
            BY <1>5, <3>1 DEF LookUp
        <3>2. CASE Watchers(address) = {}
            <4>1. \A entry \in byAddress : entry[1] # address
                BY <3>2 DEF Watchers, RegistryInv, RegistryTypeOK
            <4>. QED
                BY <1>5, <3>2, <4>1 DEF LookUp
        <3>. QED
            BY <3>1, <3>2
    <2>4. UNCHANGED <<rows, byGroup, byPrimary, gate>>
        BY <1>5 DEF LookUp
    <2>. QED
        BY <2>2, <2>3, <2>4 DEF RegistryInv, RegistryTypeOK, ReadsTrue, IndexesTrue, GateTrue, Gate
<1>6. CASE Reload
    <2>1. Gate(rows) \subseteq Address
        BY ListsType DEF Gate, RegistryInv, RegistryTypeOK
    <2>2. cache' \in [Token -> Maybe(Filters)] /\ CachesTrue'
        BY <1>6 DEF Reload, Maybe, CachesTrue
    <2>3. GateTrue' /\ gate' \subseteq Address
        BY <1>6, <2>1 DEF Reload, GateTrue, Gate
    <2>. QED
        BY <1>6, <2>2, <2>3 DEF Reload, RegistryInv, RegistryTypeOK, ReadsTrue, IndexesTrue
<1>7. CASE UNCHANGED registry
    BY <1>7 DEF registry, RegistryInv, RegistryTypeOK, ReadsTrue, IndexesTrue, CachesTrue, GateTrue, Gate
<1>8. CASE Saves
    BY <1>1, <1>2, <1>8 DEF Saves
<1>9. CASE Removes
    BY <1>3, <1>9 DEF Removes, Unregister, Discard
<1>10. CASE Learns
    BY <1>4, <1>10 DEF Learns
<1>11. CASE LooksUp
    BY <1>5, <1>11 DEF LooksUp
<1>. QED
    BY <1>6, <1>7, <1>8, <1>9, <1>10, <1>11 DEF RegistryNext

LEMMA InitReads == RegistryInit => RegistryInv
    BY DEF RegistryInit, RegistryInv, RegistryTypeOK, ReadsTrue, IndexesTrue, CachesTrue, GateTrue,
           Gate, Watching, Joined, WatchOnly, Own, Maybe

\* The indexes, the cached filters and the gate of the push registry say what its
\* rows say after any commands, lookups and restarts (PushRegistry::register,
\* update, unregister_inner, hydrate_filter_caches, rebuild_watch_only_global).
THEOREM RegistryReadsTrue == RegistrySpec => []ReadsTrue
<1>1. RegistryInit => RegistryInv
    BY InitReads
<1>2. RegistryInv /\ [RegistryNext]_registry => RegistryInv'
    BY StepKeeps
<1>3. RegistryInv => ReadsTrue
    BY DEF RegistryInv
<1>. QED
    BY <1>1, <1>2, <1>3, PTL DEF RegistrySpec

-----------------------------------------------------------------------------
(* The invariant.                                                          *)

\* The events of a call that rings have keys of their own.
Proper(event) == event.line = "ring" <=> event.key \in RingKeys

\* No question, and no signed request, waits in a queue twice.
Distinct(queue) ==
    \A i, j \in DOMAIN queue :
        queue[i] = queue[j] /\ (queue[i] = None \/ Signed(queue[i])) => i = j

InQueue ==
    /\ commands \in Seq(plan.calls \cup {None})
    /\ Distinct(commands)
    /\ None \in Range(commands) => job.step \notin {"idle", "send"}

InLines ==
    /\ lines = [line \in Range(Lines) |-> lines[line]]
    /\ \A line \in Range(Lines) :
           /\ lines[line] \in Seq(Range(lines[line]))
           /\ \A event \in Range(lines[line]) : Proper(event)

Places == {"step", "event", "about", "rest", "tokens", "routes", "via", "envs", "results", "changes"}
ChangeSet == [token : Token, change : {"learn", "drop"}]

\* The job in hand: its fields, where a kind of event may be, and which changes wait.
Shaped(work) == work = [place \in Places |-> work[place]]

InHand ==
    job # Idle =>
        /\ Shaped(job)
        /\ job.step \in {"match", "own", "prefs", "route", "details", "send", "change"}
        /\ Proper(job.event)
        /\ job.tokens \subseteq Token
        /\ job.changes \subseteq ChangeSet
        /\ job.event.line = "ring" => job.step = "match"
        /\ job.step = "own" => job.event.line = "chat"
        /\ job.step \in {"details", "send"} => job.via # <<>>

\* What was pushed is remembered; what the job in hand has still to push under its
\* key was not pushed under it.
Transports == {"apns", "fcm", "web"}
NoTwice(via) == \A i, j \in DOMAIN via : via[i] = via[j] => i = j

Unsaid(work) ==
    LET key == KeyOf(work.event, work.about) IN
    work.event.line # "ring" =>
        /\ work.step \in {"prefs", "route"} \/ (work.step = "match" /\ work.event.line \in {"ext", "funds"}) =>
               key \in seen /\ \A t \in Token : <<key, t>> \notin pushed.told
        /\ work.step \in {"details", "send", "change"} =>
               /\ key \in seen
               /\ work.via \in Seq(Transports) /\ NoTwice(work.via)
               /\ \A t \in Token :
                      <<key, t>> \in pushed.told => work.routes[t] \notin Range(work.via)

Remembered ==
    /\ pushed = [told |-> pushed.told, twice |-> pushed.twice, missed |-> pushed.missed]
    /\ pushed.twice = {}
    /\ \A p \in pushed.told : p[1] \in seen \/ p[1][1] \in RingKeys
    /\ job # Idle => Unsaid(job)

\* Where a signed request may be.
InPlace ==
    \A call \in plan.calls : Signed(call) =>
        /\ call.id \in nonces =>
               call.id \in signed \ served.done /\ call \notin Range(commands)
        /\ call \in Range(commands) => call.id \in signed \ served.done
        /\ call.id \in served.done => call.id \in signed

\* The requests of one device key rise, and the row carries the latest of them.
Rising(order) ==
    \A i, j \in DOMAIN order :
        i < j /\ order[j].device # None /\ KeyAlone(order, i, j) =>
            order[i].device.counter < order[j].device.counter

Follows(order, device) ==
    \A i \in DOMAIN order :
        KeyAlone(order, i, Len(order)) =>
            /\ device # None /\ device.key = order[i].device.key
            /\ order[i].device.counter <= device.counter

Ordered(row, order) ==
    /\ Rising(order)
    /\ row = None => order = <<>>
    /\ row # None => Follows(order, row.device)

InOrder ==
    /\ served = [order |-> served.order, done |-> served.done, again |-> served.again]
    /\ served.again = {}
    /\ served.order \in [Token -> Seq(plan.calls)]
    /\ \A t \in Token : Ordered(rows[t], served.order[t])

IndInv == /\ PlanSound /\ RegistryInv
          /\ InQueue /\ InLines /\ InHand /\ Remembered /\ InPlace /\ InOrder

-----------------------------------------------------------------------------
(* Queues: what an Append and a Tail leave.                                *)

LEMMA AppendQueue ==
    ASSUME NEW S, NEW queue \in Seq(S), NEW x \in S, NEW longer, longer = Append(queue, x)
    PROVE  /\ longer \in Seq(S)
           /\ Len(queue) \in Nat /\ DOMAIN queue = 1..Len(queue)
           /\ DOMAIN longer = 1..(Len(queue) + 1) /\ Len(longer) = Len(queue) + 1
           /\ \A i \in 1..Len(queue) : longer[i] = queue[i]
           /\ longer[Len(queue) + 1] = x
    BY AppendProperties

LEMMA AppendRange ==
    ASSUME NEW S, NEW queue \in Seq(S), NEW x \in S
    PROVE  Append(queue, x) \in Seq(S) /\ Range(Append(queue, x)) = Range(queue) \cup {x}
<1>. DEFINE longer == Append(queue, x)
<1>1. /\ longer \in Seq(S)
      /\ Len(queue) \in Nat /\ DOMAIN queue = 1..Len(queue)
      /\ DOMAIN longer = 1..(Len(queue) + 1)
      /\ \A i \in 1..Len(queue) : longer[i] = queue[i]
      /\ longer[Len(queue) + 1] = x
    BY AppendQueue
<1>. HIDE DEF longer
<1>2. Range(longer) = {longer[i] : i \in 1..(Len(queue) + 1)}
    BY <1>1 DEF Range
<1>3. Range(queue) = {queue[i] : i \in 1..Len(queue)}
    BY <1>1 DEF Range
<1>4. Range(longer) \subseteq Range(queue) \cup {x}
    <2>. SUFFICES ASSUME NEW i \in 1..(Len(queue) + 1)
                  PROVE  longer[i] \in Range(queue) \cup {x}
        BY <1>2
    <2>. QED
        BY <1>1, <1>3
<1>5. Range(queue) \cup {x} \subseteq Range(longer)
    <2>1. \A i \in 1..Len(queue) : i \in 1..(Len(queue) + 1)
        BY <1>1
    <2>2. Len(queue) + 1 \in 1..(Len(queue) + 1)
        BY <1>1
    <2>. QED
        BY <1>1, <1>2, <1>3, <2>1, <2>2
<1>6. Range(longer) = Range(queue) \cup {x}
    BY <1>4, <1>5
<1>. QED
    BY <1>1, <1>6 DEF longer

LEMMA TailQueue ==
    ASSUME NEW S, NEW queue \in Seq(S), queue # <<>>, NEW rest, rest = Tail(queue)
    PROVE  /\ rest \in Seq(S)
           /\ Head(queue) \in Range(queue) /\ Head(queue) = queue[1]
           /\ Range(queue) \subseteq S
           /\ Range(rest) \subseteq Range(queue)
           /\ 1 \in DOMAIN queue
           /\ \A i \in DOMAIN rest : i \in Nat \ {0} /\ i + 1 \in DOMAIN queue /\ rest[i] = queue[i + 1]
<1>1. /\ Len(queue) \in Nat /\ Len(queue) >= 1 /\ DOMAIN queue = 1..Len(queue)
      /\ rest \in Seq(S) /\ Len(rest) = Len(queue) - 1
      /\ \A i \in 1..Len(rest) : rest[i] = queue[i + 1]
      /\ Head(queue) = queue[1]
    BY EmptySeq, HeadTailProperties
<1>2. DOMAIN rest = 1..Len(rest)
    BY <1>1
<1>3. \A i \in DOMAIN rest : i \in Nat \ {0} /\ i + 1 \in DOMAIN queue /\ rest[i] = queue[i + 1]
    BY <1>1, <1>2
<1>4. Range(rest) \subseteq Range(queue)
    BY <1>3 DEF Range
<1>5. Range(queue) \subseteq S
    BY <1>1 DEF Range
<1>. QED
    BY <1>1, <1>3, <1>4, <1>5 DEF Range

LEMMA TailDistinct ==
    ASSUME NEW S, NEW queue \in Seq(S), queue # <<>>, Distinct(queue)
    PROVE  /\ Distinct(Tail(queue))
           /\ Head(queue) = None \/ Signed(Head(queue)) => Head(queue) \notin Range(Tail(queue))
<1>. DEFINE rest == Tail(queue)
<1>1. /\ Head(queue) = queue[1] /\ 1 \in DOMAIN queue
      /\ \A i \in DOMAIN rest : i \in Nat \ {0} /\ i + 1 \in DOMAIN queue /\ rest[i] = queue[i + 1]
    BY TailQueue
<1>. HIDE DEF rest
<1>2. Distinct(rest)
    <2>. SUFFICES ASSUME NEW i \in DOMAIN rest, NEW j \in DOMAIN rest,
                         rest[i] = rest[j], rest[i] = None \/ Signed(rest[i])
                  PROVE  i = j
        BY DEF Distinct
    <2>1. i + 1 = j + 1
        BY <1>1 DEF Distinct
    <2>. QED
        BY <1>1, <2>1
<1>3. ASSUME Head(queue) = None \/ Signed(Head(queue)), NEW i \in DOMAIN rest, rest[i] = Head(queue)
      PROVE  FALSE
    <2>1. 1 = i + 1
        BY <1>1, <1>3 DEF Distinct
    <2>. QED
        BY <1>1, <2>1
<1>. QED
    BY <1>2, <1>3 DEF rest, Range

LEMMA AppendDistinct ==
    ASSUME NEW S, NEW queue \in Seq(S), NEW x \in S, Distinct(queue),
           x = None \/ Signed(x) => x \notin Range(queue)
    PROVE  Distinct(Append(queue, x))
<1>. DEFINE longer == Append(queue, x)  last == Len(queue) + 1
<1>1. /\ Len(queue) \in Nat /\ DOMAIN queue = 1..Len(queue)
      /\ DOMAIN longer = 1..last
      /\ \A i \in 1..Len(queue) : longer[i] = queue[i]
      /\ longer[last] = x
    BY AppendQueue
<1>. HIDE DEF longer
<1>. SUFFICES ASSUME NEW i \in 1..last, NEW j \in 1..last,
                     longer[i] = longer[j], longer[i] = None \/ Signed(longer[i])
              PROVE  i = j
    BY <1>1 DEF Distinct, longer
<1>2. \A k \in 1..Len(queue) : x = None \/ Signed(x) => queue[k] # x
    BY <1>1 DEF Range
<1>3. CASE i \in 1..Len(queue) /\ j \in 1..Len(queue)
    BY <1>1, <1>3 DEF Distinct
<1>4. CASE i \in 1..Len(queue) /\ j = last
    BY <1>1, <1>2, <1>4
<1>5. CASE i = last /\ j \in 1..Len(queue)
    BY <1>1, <1>2, <1>5
<1>. QED
    BY <1>1, <1>3, <1>4, <1>5

-----------------------------------------------------------------------------
(* The job: what edits of its record leave, and what a next subject starts. *)

LEMMA JobFields ==
    ASSUME NEW event, NEW about, NEW rest
    PROVE  LET work == Job(event, about, rest) IN
           /\ Shaped(work) /\ work.step = "match" /\ work.event = event /\ work.about = about
           /\ work.tokens = {} /\ work.changes = {}
    BY DEF Job, Shaped, Places

LEMMA IdleStep == Idle.step = "idle"
    BY DEF Idle

\* The actor's queue after a step of the dispatcher that starts from base.
Moves(base) ==
    \/ commands' = base
    \/ commands' = Append(base, None) /\ job'.step \notin {"idle", "send"}

LEMMA BeginLeaves ==
    ASSUME NEW event, NEW subjects, NEW queue, Proper(event), Begin(event, subjects, queue),
           plan' = plan,
           pushed' = [told |-> pushed'.told, twice |-> pushed'.twice, missed |-> pushed'.missed],
           pushed'.twice = {},
           \A p \in pushed'.told : p[1] \in seen \/ p[1][1] \in RingKeys
    PROVE  InHand' /\ Remembered' /\ Moves(queue)
<1>1. CASE job' = Idle /\ commands' = queue /\ seen' = seen
    BY <1>1 DEF InHand, Remembered, Moves, RingKeys
<1>2. ASSUME NEW i \in DOMAIN subjects,
             ~MarkedAtOnce(event) \/ KeyOf(event, subjects[i]) \notin seen,
             job' = Job(event, subjects[i], SubSeq(subjects, i + 1, Len(subjects))),
             commands' = Asking(queue),
             seen' = IF MarkedAtOnce(event) THEN seen \cup {KeyOf(event, subjects[i])} ELSE seen
      PROVE  InHand' /\ Remembered' /\ Moves(queue)
    <2>. DEFINE key == KeyOf(event, subjects[i])
    <2>1. /\ Shaped(job') /\ job'.step = "match" /\ job'.event = event /\ job'.about = subjects[i]
          /\ job'.tokens = {} /\ job'.changes = {}
        BY <1>2, JobFields
    <2>2. Proper(event)'
        BY DEF Proper, RingKeys
    <2>3. InHand'
        BY <2>1, <2>2 DEF InHand, Shaped, Proper
    <2>4. \A p \in pushed'.told : p[1] \in seen' \/ p[1][1] \in RingKeys'
        BY <1>2 DEF RingKeys
    <2>5. ASSUME event.line # "ring", event.line \in {"ext", "funds"}
          PROVE  key \in seen' /\ \A t \in Token : <<key, t>> \notin pushed'.told
        <3>1. MarkedAtOnce(event)
            BY <2>5 DEF MarkedAtOnce
        <3>2. key \in seen' /\ key \notin seen
            BY <1>2, <3>1
        <3>3. key[1] = event.key /\ event.key \notin RingKeys
            BY <2>5 DEF KeyOf, Proper
        <3>. HIDE DEF key
        <3>. QED
            BY <3>2, <3>3
    <2>6. Unsaid(job)'
        BY <2>1, <2>5 DEF Unsaid, KeyOf
    <2>7. Remembered'
        BY <2>4, <2>6 DEF Remembered
    <2>8. Moves(queue)
        BY <1>2, <2>1 DEF Moves, Asking
    <2>. QED
        BY <2>3, <2>7, <2>8
<1>. QED
    BY <1>1, <1>2 DEF Begin

\* An event is matched to tokens only.
LEMMA MatchedTokens == \A event, about : Matched(event, about) \subseteq Token
<1>. SUFFICES ASSUME NEW event, NEW about
              PROVE  Matched(event, about) \subseteq Token
    OBVIOUS
<1>1. CASE event.kind \notin Indexed
    BY <1>1 DEF Matched
<1>2. CASE event.kind = "group"
    BY <1>2 DEF Matched, ByIndex, Indexed
<1>3. CASE event.kind = "control" /\ event.receiver # None
    BY <1>3 DEF Matched, ByIndex, Indexed
<1>4. CASE event.kind = "control" /\ event.receiver = None
    BY <1>4 DEF Matched, ByIndex, Indexed, Watchers
<1>5. CASE event.kind \in {"contextual", "payment"}
    BY <1>5 DEF Matched, ByIndex, Indexed, Watchers
<1>. QED
    BY <1>1, <1>2, <1>3, <1>4, <1>5 DEF Indexed

\* What a further question of the job in hand leaves, whose event stays the same.
LEMMA AskLeaves ==
    ASSUME InHand, Remembered, job # Idle, plan' = plan, NEW next, Ask(next),
           Shaped(next), next.event = job.event, next.about = job.about,
           next.step \in {"match", "own", "prefs", "route", "details", "change"},
           next.tokens \subseteq Token, next.changes \subseteq ChangeSet,
           next.event.line # "ring",
           next.step = "own" => next.event.line = "chat",
           next.step = "details" => next.via # <<>>,
           pushed' = [told |-> pushed'.told, twice |-> pushed'.twice, missed |-> pushed'.missed],
           pushed'.told = pushed.told, pushed'.twice = {},
           Unsaid(next)
    PROVE  InHand' /\ Remembered' /\ Moves(Tail(commands))
<1>1. job' = next /\ seen' = seen /\ commands' = Append(Tail(commands), None)
    BY DEF Ask, Asking
<1>2. Proper(job.event)'
    <2>1. Proper(job.event) /\ RingKeys' = RingKeys
        BY DEF InHand, RingKeys
    <2>. QED
        BY <1>1, <2>1 DEF Proper
<1>3. InHand'
    BY <1>1, <1>2 DEF InHand, Shaped
<1>4. Unsaid(job)'
    BY <1>1 DEF Unsaid, KeyOf, NoTwice, Range
<1>5. \A p \in pushed'.told : p[1] \in seen' \/ p[1][1] \in RingKeys'
    BY <1>1 DEF Remembered, RingKeys
<1>6. Remembered'
    BY <1>4, <1>5 DEF Remembered
<1>. QED
    BY <1>1, <1>3, <1>6 DEF Moves

LEMMA MatchLeaves ==
    ASSUME InHand, Remembered, job # Idle, plan' = plan, AnswerMatch
    PROVE  InHand' /\ Remembered' /\ Moves(Tail(commands))
<1>. DEFINE found == Matched(job.event, job.about)
<1>1. /\ Shaped(job) /\ Proper(job.event) /\ job.tokens \subseteq Token /\ job.changes \subseteq ChangeSet
      /\ job.step = "match" /\ found \subseteq Token
    BY MatchedTokens DEF InHand, AnswerMatch
<1>. HIDE DEF found
<1>2. ASSUME NextSubject,
             pushed' = [told |-> pushed'.told, twice |-> pushed'.twice, missed |-> pushed'.missed],
             pushed'.twice = {}, \A p \in pushed'.told : p[1] \in seen \/ p[1][1] \in RingKeys
      PROVE  InHand' /\ Remembered' /\ Moves(Tail(commands))
    BY <1>1, <1>2, BeginLeaves DEF NextSubject
<1>3. /\ pushed = [told |-> pushed.told, twice |-> pushed.twice, missed |-> pushed.missed]
      /\ pushed.twice = {} /\ \A p \in pushed.told : p[1] \in seen \/ p[1][1] \in RingKeys
      /\ Unsaid(job)
    BY DEF Remembered
<1>4. CASE MatchChat(found)
    <2>. DEFINE next == [job EXCEPT !.step = "own", !.tokens = found]
    <2>1. pushed' = pushed /\ job.event.line = "chat"
        BY <1>4 DEF MatchChat
    <2>2. CASE NextSubject
        BY <1>2, <1>3, <2>1, <2>2
    <2>3. CASE Ask(next)
        <3>1. /\ Shaped(next) /\ next.event = job.event /\ next.about = job.about
              /\ next.step = "own" /\ next.tokens = found /\ next.changes = job.changes
            BY <1>1 DEF Shaped, Places
        <3>. HIDE DEF next
        <3>2. Unsaid(next)
            BY <3>1 DEF Unsaid
        <3>. QED
            BY <1>1, <1>3, <2>1, <2>3, <3>1, <3>2, AskLeaves
    <2>. QED
        BY <1>4, <2>2, <2>3 DEF MatchChat
<1>5. CASE MatchExt(found)
    <2>1. pushed' = pushed /\ job.event.line = "ext"
        BY <1>5 DEF MatchExt
    <2>2. CASE NextSubject
        BY <1>2, <1>3, <2>1, <2>2
    <2>3. ASSUME NEW step \in {"prefs", "route"}, Ask([job EXCEPT !.step = step, !.tokens = found])
          PROVE  InHand' /\ Remembered' /\ Moves(Tail(commands))
        <3>. DEFINE next == [job EXCEPT !.step = step, !.tokens = found]
        <3>1. /\ Shaped(next) /\ next.event = job.event /\ next.about = job.about
              /\ next.step = step /\ next.tokens = found /\ next.changes = job.changes
            BY <1>1 DEF Shaped, Places
        <3>. HIDE DEF next
        <3>2. Unsaid(next)
            BY <1>1, <1>3, <2>1, <3>1 DEF Unsaid
        <3>3. Ask(next)
            BY <2>3 DEF next
        <3>. QED
            BY <1>1, <1>3, <2>1, <3>1, <3>2, <3>3, AskLeaves
    <2>. QED
        BY <1>5, <2>2, <2>3 DEF MatchExt, Route
<1>6. CASE MatchFunds(found)
    <2>1. job.event.line = "funds"
        BY <1>6 DEF MatchFunds
    <2>2. /\ pushed' = [told |-> pushed'.told, twice |-> pushed'.twice, missed |-> pushed'.missed]
          /\ pushed'.told = pushed.told /\ pushed'.twice = {}
        BY <1>3, <1>6 DEF MatchFunds, Missing
    <2>3. CASE NextSubject
        BY <1>2, <1>3, <2>2, <2>3
    <2>4. CASE Route(Rated(found))
        <3>. DEFINE next == [job EXCEPT !.step = "route", !.tokens = Rated(found)]
        <3>1. /\ Shaped(next) /\ next.event = job.event /\ next.about = job.about
              /\ next.step = "route" /\ next.tokens = Rated(found) /\ next.changes = job.changes
            BY <1>1 DEF Shaped, Places
        <3>2. Rated(found) \subseteq Token
            BY <1>1 DEF Rated
        <3>3. Ask(next)
            BY <2>4 DEF Route
        <3>. HIDE DEF next
        <3>4. Unsaid(next)
            BY <1>1, <1>3, <2>1, <3>1 DEF Unsaid
        <3>. QED
            BY <1>1, <1>3, <2>1, <2>2, <3>1, <3>2, <3>3, <3>4, AskLeaves
    <2>. QED
        BY <1>6, <2>3, <2>4 DEF MatchFunds
<1>7. CASE MatchRing(found)
    <2>1. job.event.line = "ring" /\ job.event.key \in RingKeys
        BY <1>1, <1>7 DEF MatchRing, Proper
    <2>2. /\ pushed' = [told |-> pushed'.told, twice |-> pushed'.twice, missed |-> pushed'.missed]
          /\ pushed'.twice = {}
          /\ pushed'.told \subseteq
                 pushed.told \cup {<<KeyOf(job.event, job.about), t>> : t \in found}
        BY <1>3, <1>7, <2>1 DEF MatchRing, Telling
    <2>3. \A p \in pushed'.told : p[1] \in seen \/ p[1][1] \in RingKeys
        BY <1>3, <2>1, <2>2 DEF KeyOf
    <2>. QED
        BY <1>2, <1>7, <2>2, <2>3 DEF MatchRing
<1>. QED
    BY <1>4, <1>5, <1>6, <1>7 DEF AnswerMatch, found

LEMMA JoinOnce ==
    ASSUME NEW S, NEW q \in Seq(S), NEW r \in Seq(S), NoTwice(q), NoTwice(r),
           Range(q) \cap Range(r) = {}
    PROVE  q \o r \in Seq(S) /\ NoTwice(q \o r) /\ Range(q \o r) \subseteq Range(q) \cup Range(r)
<1>. DEFINE both == q \o r
<1>1. /\ Len(q) \in Nat /\ Len(r) \in Nat /\ DOMAIN q = 1..Len(q) /\ DOMAIN r = 1..Len(r)
      /\ both \in Seq(S) /\ Len(both) = Len(q) + Len(r)
      /\ \A i \in 1..Len(both) : both[i] = IF i <= Len(q) THEN q[i] ELSE r[i - Len(q)]
    BY ConcatProperties
<1>. HIDE DEF both
<1>2. DOMAIN both = 1..(Len(q) + Len(r))
    BY <1>1
<1>3. \A i \in DOMAIN both : \/ i \in DOMAIN q /\ both[i] = q[i]
                             \/ i - Len(q) \in DOMAIN r /\ both[i] = r[i - Len(q)]
    BY <1>1, <1>2
<1>4. \A i \in DOMAIN q, k \in DOMAIN r : q[i] # r[k]
    BY DEF Range
<1>5. NoTwice(both)
    <2>. SUFFICES ASSUME NEW i \in DOMAIN both, NEW j \in DOMAIN both, both[i] = both[j]
                  PROVE  i = j
        BY DEF NoTwice
    <2>1. CASE i \in DOMAIN q /\ both[i] = q[i] /\ j \in DOMAIN q /\ both[j] = q[j]
        BY <2>1 DEF NoTwice
    <2>2. CASE /\ i - Len(q) \in DOMAIN r /\ both[i] = r[i - Len(q)]
               /\ j - Len(q) \in DOMAIN r /\ both[j] = r[j - Len(q)]
        <3>1. i - Len(q) = j - Len(q)
            BY <2>2 DEF NoTwice
        <3>. QED
            BY <1>1, <1>2, <3>1
    <2>. QED
        BY <1>3, <1>4, <2>1, <2>2
<1>6. Range(both) \subseteq Range(q) \cup Range(r)
    BY <1>3 DEF Range
<1>. QED
    BY <1>1, <1>5, <1>6 DEF both

\* A transport has at most one turn.
LEMMA TurnsOnce ==
    ASSUME NEW routes
    PROVE  LET via == Turn("apns", routes) \o Turn("fcm", routes) \o Turn("web", routes) IN
           via \in Seq(Transports) /\ NoTwice(via)
<1>. DEFINE a == Turn("apns", routes)  f == Turn("fcm", routes)  w == Turn("web", routes)
<1>1. ASSUME NEW transport \in Transports
      PROVE  /\ Turn(transport, routes) \in Seq(Transports) /\ NoTwice(Turn(transport, routes))
             /\ Range(Turn(transport, routes)) \subseteq {transport}
    <2>1. CASE Turn(transport, routes) = <<>>
        BY <2>1 DEF NoTwice, Range
    <2>2. CASE Turn(transport, routes) = <<transport>>
        BY <2>2 DEF NoTwice, Range
    <2>. QED
        BY <2>1, <2>2 DEF Turn
<1>2. /\ a \in Seq(Transports) /\ NoTwice(a) /\ Range(a) \subseteq {"apns"}
      /\ f \in Seq(Transports) /\ NoTwice(f) /\ Range(f) \subseteq {"fcm"}
      /\ w \in Seq(Transports) /\ NoTwice(w) /\ Range(w) \subseteq {"web"}
    BY <1>1 DEF Transports
<1>. HIDE DEF a, f, w
<1>3. a \o f \in Seq(Transports) /\ NoTwice(a \o f) /\ Range(a \o f) \subseteq {"apns", "fcm"}
    <2>1. Range(a) \cap Range(f) = {}
        BY <1>2
    <2>2. a \o f \in Seq(Transports) /\ NoTwice(a \o f) /\ Range(a \o f) \subseteq Range(a) \cup Range(f)
        BY <1>2, <2>1, JoinOnce
    <2>. QED
        BY <1>2, <2>2
<1>4. Range(a \o f) \cap Range(w) = {}
    BY <1>2, <1>3
<1>5. a \o f \o w \in Seq(Transports) /\ NoTwice(a \o f \o w)
    BY <1>2, <1>3, <1>4, JoinOnce
<1>. QED
    BY <1>5 DEF a, f, w

LEMMA OwnLeaves ==
    ASSUME InHand, Remembered, job # Idle, plan' = plan, AnswerOwn
    PROVE  InHand' /\ Remembered' /\ Moves(Tail(commands))
<1>. DEFINE others == {t \in job.tokens : rows[t] = None \/ Primary(t) # job.event.sender}
            key == KeyOf(job.event, job.about)
            next == [job EXCEPT !.step = "route", !.tokens = others]
<1>1. /\ Shaped(job) /\ Proper(job.event) /\ job.tokens \subseteq Token /\ job.changes \subseteq ChangeSet
      /\ job.step = "own" /\ job.event.line = "chat" /\ pushed' = pushed
    BY DEF InHand, AnswerOwn
<1>2. /\ pushed = [told |-> pushed.told, twice |-> pushed.twice, missed |-> pushed.missed]
      /\ pushed.twice = {} /\ \A p \in pushed.told : p[1] \in seen \/ p[1][1] \in RingKeys
    BY DEF Remembered
<1>3. CASE NextSubject
    BY <1>1, <1>2, <1>3, BeginLeaves DEF NextSubject
<1>4. CASE /\ key \notin seen /\ seen' = seen \cup {key}
           /\ job' = next /\ commands' = Asking(Tail(commands))
    <2>1. /\ Shaped(next) /\ next.event = job.event /\ next.about = job.about
          /\ next.step = "route" /\ next.tokens = others /\ next.changes = job.changes
        BY <1>1 DEF Shaped, Places
    <2>2. others \subseteq Token
        BY <1>1
    <2>3. key[1] = job.event.key /\ job.event.key \notin RingKeys
        BY <1>1 DEF KeyOf, Proper
    <2>. HIDE DEF next, others, key
    <2>4. \A t \in Token : <<key, t>> \notin pushed.told
        BY <1>2, <1>4, <2>3
    <2>5. Proper(job.event)'
        <3>1. RingKeys' = RingKeys
            BY DEF RingKeys
        <3>. QED
            BY <1>1, <1>4, <2>1, <3>1 DEF Proper
    <2>6. InHand'
        BY <1>1, <1>4, <2>1, <2>2, <2>5 DEF InHand, Shaped
    <2>7. Unsaid(job)'
        BY <1>1, <1>4, <2>1, <2>4 DEF Unsaid, KeyOf, key
    <2>8. \A p \in pushed'.told : p[1] \in seen' \/ p[1][1] \in RingKeys'
        BY <1>1, <1>2, <1>4 DEF RingKeys
    <2>9. Remembered'
        BY <1>1, <1>2, <2>7, <2>8 DEF Remembered
    <2>. QED
        BY <1>4, <2>1, <2>6, <2>9 DEF Moves, Asking
<1>. QED
    BY <1>3, <1>4 DEF AnswerOwn

LEMMA PrefsLeaves ==
    ASSUME InHand, Remembered, job # Idle, plan' = plan, AnswerPrefs
    PROVE  InHand' /\ Remembered' /\ Moves(Tail(commands))
<1>. DEFINE open == {t \in job.tokens : rows[t] = None \/ ~Settings(t).quiet}
            next == [job EXCEPT !.step = "route", !.tokens = open]
<1>1. /\ Shaped(job) /\ Proper(job.event) /\ job.tokens \subseteq Token /\ job.changes \subseteq ChangeSet
      /\ job.step = "prefs" /\ job.event.line # "ring" /\ pushed' = pushed
    BY DEF InHand, AnswerPrefs
<1>2. /\ pushed = [told |-> pushed.told, twice |-> pushed.twice, missed |-> pushed.missed]
      /\ pushed.twice = {} /\ \A p \in pushed.told : p[1] \in seen \/ p[1][1] \in RingKeys
      /\ Unsaid(job)
    BY DEF Remembered
<1>3. CASE NextSubject
    BY <1>1, <1>2, <1>3, BeginLeaves DEF NextSubject
<1>4. CASE Route(open)
    <2>1. /\ Shaped(next) /\ next.event = job.event /\ next.about = job.about
          /\ next.step = "route" /\ next.tokens = open /\ next.changes = job.changes
        BY <1>1 DEF Shaped, Places
    <2>2. open \subseteq Token /\ Ask(next)
        BY <1>1, <1>4 DEF Route
    <2>. HIDE DEF next, open
    <2>3. Unsaid(next)
        BY <1>1, <1>2, <2>1 DEF Unsaid
    <2>. QED
        BY <1>1, <1>2, <2>1, <2>2, <2>3, AskLeaves
<1>. QED
    BY <1>3, <1>4 DEF AnswerPrefs

LEMMA RouteLeaves ==
    ASSUME InHand, Remembered, job # Idle, plan' = plan, AnswerRoute
    PROVE  InHand' /\ Remembered' /\ Moves(Tail(commands))
<1>1. /\ Shaped(job) /\ Proper(job.event) /\ job.tokens \subseteq Token /\ job.changes \subseteq ChangeSet
      /\ job.step = "route" /\ job.event.line # "ring" /\ pushed' = pushed
    BY DEF InHand, AnswerRoute
<1>2. /\ pushed = [told |-> pushed.told, twice |-> pushed.twice, missed |-> pushed.missed]
      /\ pushed.twice = {} /\ \A p \in pushed.told : p[1] \in seen \/ p[1][1] \in RingKeys
      /\ Unsaid(job)
    BY DEF Remembered
<1>3. CASE NextSubject
    BY <1>1, <1>2, <1>3, BeginLeaves DEF NextSubject
<1>4. ASSUME NEW routes, NEW via,
             via = Turn("apns", routes) \o Turn("fcm", routes) \o Turn("web", routes), via # <<>>,
             Ask([job EXCEPT !.step = "details", !.routes = routes, !.via = via])
      PROVE  InHand' /\ Remembered' /\ Moves(Tail(commands))
    <2>. DEFINE next == [job EXCEPT !.step = "details", !.routes = routes, !.via = via]
    <2>1. /\ Shaped(next) /\ next.event = job.event /\ next.about = job.about
          /\ next.step = "details" /\ next.tokens = job.tokens /\ next.changes = job.changes
          /\ next.via = via /\ next.routes = routes
        BY <1>1 DEF Shaped, Places
    <2>2. via \in Seq(Transports) /\ NoTwice(via)
        BY <1>4, TurnsOnce
    <2>3. Ask(next)
        BY <1>4
    <2>. HIDE DEF next
    <2>4. Unsaid(next)
        BY <1>1, <1>2, <2>1, <2>2 DEF Unsaid
    <2>. QED
        BY <1>1, <1>2, <1>4, <2>1, <2>3, <2>4, AskLeaves
<1>. QED
    BY <1>3, <1>4 DEF AnswerRoute

LEMMA DetailsLeaves ==
    ASSUME InHand, Remembered, job # Idle, plan' = plan, AnswerDetails
    PROVE  InHand' /\ Remembered' /\ Moves(Tail(commands))
<1>. DEFINE envs == [t \in Token |-> IF rows[t] = None THEN "gone" ELSE rows[t].want.env]
            next == [job EXCEPT !.step = "send", !.envs = envs]
<1>1. /\ Shaped(job) /\ Proper(job.event) /\ job.tokens \subseteq Token /\ job.changes \subseteq ChangeSet
      /\ job.step = "details" /\ job.via # <<>> /\ job.event.line # "ring"
      /\ pushed' = pushed /\ seen' = seen
      /\ job' = next /\ commands' = Tail(commands)
    BY DEF InHand, AnswerDetails
<1>2. /\ Shaped(next) /\ next.event = job.event /\ next.about = job.about
      /\ next.step = "send" /\ next.tokens = job.tokens /\ next.changes = job.changes
      /\ next.via = job.via /\ next.routes = job.routes
    BY <1>1 DEF Shaped, Places
<1>. HIDE DEF next
<1>3. Proper(job.event)'
    <2>1. RingKeys' = RingKeys
        BY DEF RingKeys
    <2>. QED
        BY <1>1, <1>2, <2>1 DEF Proper
<1>4. InHand'
    BY <1>1, <1>2, <1>3 DEF InHand, Shaped
<1>5. Unsaid(job)
    BY DEF Remembered
<1>6. Unsaid(job)'
    BY <1>1, <1>2, <1>5 DEF Unsaid, KeyOf, NoTwice, Range
<1>7. Remembered'
    BY <1>1, <1>6 DEF Remembered, RingKeys
<1>. QED
    BY <1>1, <1>4, <1>7 DEF Moves

\* What is known of a job between two transports: its shape, and that nobody on a
\* route still to serve was told.
Undelivered(work) ==
    /\ Shaped(work) /\ Proper(work.event) /\ work.event.line # "ring"
    /\ work.tokens \subseteq Token /\ work.changes \subseteq ChangeSet
    /\ work.via \in Seq(Transports) /\ NoTwice(work.via)
    /\ KeyOf(work.event, work.about) \in seen
    /\ \A t \in Token :
           <<KeyOf(work.event, work.about), t>> \in pushed'.told => work.routes[t] \notin Range(work.via)

ToldSound ==
    /\ pushed' = [told |-> pushed'.told, twice |-> pushed'.twice, missed |-> pushed'.missed]
    /\ pushed'.twice = {}
    /\ \A p \in pushed'.told : p[1] \in seen \/ p[1][1] \in RingKeys

LEMMA WaitingLeaves ==
    ASSUME plan' = plan, ToldSound, NEW queue, NEW next, Undelivered(next),
           next.step \in {"details", "change"}, next.step = "details" => next.via # <<>>,
           job' = next, commands' = Asking(queue), seen' = seen
    PROVE  InHand' /\ Remembered' /\ Moves(queue)
<1>1. Proper(next.event)'
    <2>1. RingKeys' = RingKeys
        BY DEF RingKeys
    <2>. QED
        BY <2>1 DEF Undelivered, Proper
<1>2. InHand'
    BY <1>1 DEF InHand, Undelivered, Shaped, Proper
<1>3. Unsaid(job)'
    BY DEF Unsaid, Undelivered, KeyOf, NoTwice, Range
<1>4. Remembered'
    BY <1>3 DEF Remembered, ToldSound, RingKeys
<1>. QED
    BY <1>2, <1>4 DEF Moves, Asking

LEMMA ProceedLeaves ==
    ASSUME plan' = plan, ToldSound, NEW queue, NEW work, Undelivered(work), Proceed(work, queue)
    PROVE  InHand' /\ Remembered' /\ Moves(queue)
<1>1. ASSUME NEW step \in {"details", "change"}, step = "details" => work.via # <<>>,
             job' = [work EXCEPT !.step = step], commands' = Asking(queue), seen' = seen
      PROVE  InHand' /\ Remembered' /\ Moves(queue)
    <2>. DEFINE next == [work EXCEPT !.step = step]
    <2>1. /\ Shaped(next) /\ next.event = work.event /\ next.about = work.about
          /\ next.step = step /\ next.tokens = work.tokens /\ next.changes = work.changes
          /\ next.via = work.via /\ next.routes = work.routes
        BY DEF Undelivered, Shaped, Places
    <2>2. job' = next
        BY <1>1
    <2>. HIDE DEF next
    <2>3. Undelivered(next)
        BY <2>1 DEF Undelivered
    <2>. QED
        BY <1>1, <2>1, <2>2, <2>3, WaitingLeaves
<1>2. ASSUME Dropped(work.results) # {},
             job' = [work EXCEPT !.step = "change",
                                 !.results = [t \in Token |-> "none"],
                                 !.changes = Changes(Dropped(work.results), "drop")],
             commands' = Asking(queue), seen' = seen
      PROVE  InHand' /\ Remembered' /\ Moves(queue)
    <2>. DEFINE results == [t \in Token |-> "none"]
                changes == Changes(Dropped(work.results), "drop")
                next == [work EXCEPT !.step = "change", !.results = results, !.changes = changes]
    <2>1. changes \subseteq ChangeSet
        BY DEF Changes, Dropped, Out, Struck, ChangeSet
    <2>2. job' = next
        BY <1>2
    <2>. HIDE DEF results, changes
    <2>3. /\ Shaped(next) /\ next.event = work.event /\ next.about = work.about
          /\ next.step = "change" /\ next.tokens = work.tokens /\ next.changes = changes
          /\ next.via = work.via /\ next.routes = work.routes
        BY DEF Undelivered, Shaped, Places
    <2>. HIDE DEF next
    <2>4. Undelivered(next)
        BY <2>1, <2>3 DEF Undelivered
    <2>. QED
        BY <1>2, <2>2, <2>3, <2>4, WaitingLeaves
<1>3. CASE Begin(work.event, work.rest, queue)
    BY <1>3, BeginLeaves DEF Undelivered, ToldSound
<1>4. CASE work.changes = {} /\ work.via = <<>> /\ Settle(work, queue)
    BY <1>2, <1>3, <1>4 DEF Settle
<1>. QED
    BY <1>1, <1>4 DEF Proceed

LEMMA SentLeaves ==
    ASSUME InHand, Remembered, job # Idle, job.step = "send", plan' = plan, NEW lost, Sent(lost)
    PROVE  InHand' /\ Remembered' /\ Moves(commands)
<1>. DEFINE key == KeyOf(job.event, job.about)
            transport == Head(job.via)
            batch == {t \in job.tokens : job.routes[t] = transport}
<1>1. /\ Shaped(job) /\ Proper(job.event) /\ job.tokens \subseteq Token
      /\ job.event.line # "ring" /\ job.via # <<>>
    BY DEF InHand
<1>2. /\ pushed = [told |-> pushed.told, twice |-> pushed.twice, missed |-> pushed.missed]
      /\ pushed.twice = {} /\ \A p \in pushed.told : p[1] \in seen \/ p[1][1] \in RingKeys
    BY DEF Remembered
<1>3. /\ key \in seen /\ job.via \in Seq(Transports) /\ NoTwice(job.via)
      /\ \A t \in Token : <<key, t>> \in pushed.told => job.routes[t] \notin Range(job.via)
    BY <1>1 DEF Remembered, Unsaid
<1>4. PICK results :
          /\ pushed' = [Telling(job.event, job.about, {t \in batch : results[t] = "ok"})
                            EXCEPT !.missed = @ \cup {<<KeyOf(job.event, job.about), t>> : t \in lost}]
          /\ \E learned \in SUBSET batch :
                 Proceed([job EXCEPT !.results = results, !.via = Tail(@),
                                     !.changes = Changes(learned, "learn")], commands)
    <2>. DEFINE results == [t \in Token |-> IF t \in lost THEN "failed"
                                            ELSE IF t \in batch THEN Says(t, transport)
                                            ELSE job.results[t]]
                learned == IF transport = "apns" THEN {t \in batch : Learned(t, results)} ELSE {}
    <2>1. learned \in SUBSET batch
        OBVIOUS
    <2>2. /\ pushed' = [Telling(job.event, job.about, {t \in batch : results[t] = "ok"})
                            EXCEPT !.missed = @ \cup {<<KeyOf(job.event, job.about), t>> : t \in lost}]
          /\ Proceed([job EXCEPT !.results = results, !.via = Tail(@),
                                 !.changes = Changes(learned, "learn")], commands)
        BY Zenon DEF Sent
    <2>. HIDE DEF results, learned
    <2>. QED
        BY <2>1, <2>2
<1>5. PICK learned \in SUBSET batch :
          Proceed([job EXCEPT !.results = results, !.via = Tail(@),
                              !.changes = Changes(learned, "learn")], commands)
    BY <1>4
<1>. DEFINE now == {<<key, t>> : t \in {u \in batch : results[u] = "ok"}}
            changes == Changes(learned, "learn")
            rest == Tail(job.via)
            next == [job EXCEPT !.results = results, !.via = rest, !.changes = changes]
<1>6. /\ rest \in Seq(Transports) /\ NoTwice(rest)
      /\ Range(rest) \subseteq Range(job.via) /\ transport \in Range(job.via)
      /\ transport \notin Range(rest)
    <2>1. /\ transport = job.via[1] /\ 1 \in DOMAIN job.via /\ transport \in Range(job.via)
          /\ rest \in Seq(Transports) /\ Range(rest) \subseteq Range(job.via)
          /\ \A i \in DOMAIN rest : i \in Nat \ {0} /\ i + 1 \in DOMAIN job.via /\ rest[i] = job.via[i + 1]
        <3>1. transport = Head(job.via) /\ rest = Tail(job.via)
            OBVIOUS
        <3>. HIDE DEF rest, transport
        <3>2. PICK via : via = job.via
            OBVIOUS
        <3>3. via \in Seq(Transports) /\ via # <<>> /\ transport = Head(via) /\ rest = Tail(via)
            BY <1>1, <1>3, <3>1, <3>2
        <3>4. /\ transport = via[1] /\ 1 \in DOMAIN via /\ transport \in Range(via)
              /\ rest \in Seq(Transports) /\ Range(rest) \subseteq Range(via)
            BY <3>3, TailQueue
        <3>5. \A i \in DOMAIN rest : i \in Nat \ {0} /\ i + 1 \in DOMAIN via /\ rest[i] = via[i + 1]
            BY <3>3, TailQueue
        <3>. QED
            BY <3>2, <3>4, <3>5
    <2>. HIDE DEF rest, transport
    <2>2. NoTwice(rest)
        <3>. SUFFICES ASSUME NEW i \in DOMAIN rest, NEW j \in DOMAIN rest, rest[i] = rest[j]
                      PROVE  i = j
            BY DEF NoTwice
        <3>1. i + 1 = j + 1
            BY <1>3, <2>1 DEF NoTwice
        <3>. QED
            BY <2>1, <3>1
    <2>3. ASSUME NEW i \in DOMAIN rest, rest[i] = transport
          PROVE  FALSE
        <3>1. i + 1 = 1
            BY <1>3, <2>1, <2>3 DEF NoTwice
        <3>. QED
            BY <2>1, <3>1
    <2>. QED
        BY <2>1, <2>2, <2>3 DEF Range
<1>7. \A t \in batch : <<key, t>> \notin pushed.told
    BY <1>1, <1>3, <1>6
<1>8. now \cap pushed.told = {}
    <2>. HIDE DEF key, batch
    <2>. QED
        BY <1>7
<1>9. /\ pushed' = [told |-> pushed'.told, twice |-> pushed'.twice, missed |-> pushed'.missed]
      /\ pushed'.told = pushed.told \cup now
      /\ pushed'.twice = pushed.twice \cup (now \cap pushed.told)
    BY <1>1, <1>2, <1>4 DEF Telling
<1>10. ToldSound
    <2>1. \A p \in now : p[1] = key
        OBVIOUS
    <2>. HIDE DEF now, key
    <2>. QED
        BY <1>2, <1>3, <1>8, <1>9, <2>1 DEF ToldSound
<1>11. changes \subseteq ChangeSet
    BY <1>1 DEF Changes, ChangeSet
<1>12. Proceed(next, commands)
    BY <1>5
<1>. HIDE DEF changes, rest
<1>13. /\ Shaped(next) /\ next.event = job.event /\ next.about = job.about
       /\ next.tokens = job.tokens /\ next.changes = changes
       /\ next.via = rest /\ next.routes = job.routes
    BY <1>1 DEF Shaped, Places
<1>. HIDE DEF next
<1>14. \A t \in Token : <<key, t>> \in pushed'.told => job.routes[t] \notin Range(rest)
    <2>. SUFFICES ASSUME NEW t \in Token, <<key, t>> \in pushed'.told
                  PROVE  job.routes[t] \notin Range(rest)
        OBVIOUS
    <2>1. CASE <<key, t>> \in pushed.told
        BY <1>3, <1>6, <2>1
    <2>2. CASE <<key, t>> \in now
        <3>1. job.routes[t] = transport
            BY <2>2
        <3>. QED
            BY <1>6, <3>1
    <2>. QED
        BY <1>9, <2>1, <2>2
<1>15. Undelivered(next)
    BY <1>1, <1>3, <1>6, <1>11, <1>13, <1>14 DEF Undelivered
<1>. QED
    BY <1>10, <1>12, <1>15, ProceedLeaves

LEMMA ChangeLeaves ==
    ASSUME InHand, Remembered, job # Idle, plan' = plan, AnswerChange
    PROVE  InHand' /\ Remembered' /\ Moves(Tail(commands))
<1>1. /\ Shaped(job) /\ Proper(job.event) /\ job.tokens \subseteq Token /\ job.changes \subseteq ChangeSet
      /\ job.step = "change" /\ job.event.line # "ring" /\ pushed' = pushed
    BY DEF InHand, AnswerChange
<1>2. PICK next \in job.changes : Proceed([job EXCEPT !.changes = @ \ {next}], Tail(commands))
    BY DEF AnswerChange
<1>. DEFINE changes == job.changes \ {next}
            work == [job EXCEPT !.changes = changes]
<1>3. Proceed(work, Tail(commands))
    BY <1>2
<1>4. changes \subseteq ChangeSet
    BY <1>1
<1>. HIDE DEF changes
<1>5. /\ Shaped(work) /\ work.event = job.event /\ work.about = job.about
      /\ work.tokens = job.tokens /\ work.changes = changes
      /\ work.via = job.via /\ work.routes = job.routes
    BY <1>1 DEF Shaped, Places
<1>. HIDE DEF work
<1>6. ToldSound /\ Unsaid(job)
    BY <1>1 DEF ToldSound, Remembered
<1>7. Undelivered(work)
    BY <1>1, <1>4, <1>5, <1>6 DEF Undelivered, Unsaid
<1>. QED
    BY <1>3, <1>6, <1>7, ProceedLeaves

LEMMA LineOfRank ==
    ASSUME NEW rank \in 1..4
    PROVE  Lines[rank] \in Range(Lines)
<1>1. DOMAIN Lines = 1..4
    BY DEF Lines
<1>. QED
    BY <1>1 DEF Range

LEMMA TakeLeaves ==
    ASSUME InLines, Remembered, NEW rank \in 1..4, Take(rank)
    PROVE  InHand' /\ Remembered' /\ Moves(commands)
<1>. DEFINE queue == lines[Lines[rank]]
<1>1. queue \in Seq(Range(queue)) /\ queue # <<>> /\ \A event \in Range(queue) : Proper(event)
    BY LineOfRank DEF InLines, Take
<1>. HIDE DEF queue
<1>2. Proper(Head(queue))
    BY <1>1, TailQueue
<1>3. Begin(Head(queue), Head(queue).about, commands) /\ pushed' = pushed /\ plan' = plan
    BY DEF Take, queue
<1>. QED
    BY <1>2, <1>3, BeginLeaves DEF Remembered

\* A step that leaves the job, what is remembered and what was pushed.
LEMMA HandStays ==
    ASSUME InHand, Remembered, plan' = plan, job' = job, seen' = seen, pushed' = pushed
    PROVE  InHand' /\ Remembered'
<1>1. RingKeys' = RingKeys
    BY DEF RingKeys
<1>2. InHand'
    BY <1>1 DEF InHand, Shaped, Proper
<1>3. job # Idle => Unsaid(job)'
    BY DEF Remembered, Unsaid, KeyOf, NoTwice, Range
<1>. QED
    BY <1>1, <1>2, <1>3 DEF Remembered

\* A key is forgotten with what was pushed under it, but not the one in hand.
LEMMA ForgetLeaves ==
    ASSUME InHand, Remembered, Forget
    PROVE  InHand' /\ Remembered'
<1>1. job' = job /\ plan' = plan
    BY DEF Forget
<1>2. CASE seen' = seen /\ pushed' = pushed
    BY <1>1, <1>2, HandStays
<1>3. ASSUME NEW key \in seen, job # Idle => key # KeyOf(job.event, job.about),
             seen' = seen \ {key},
             pushed' = [pushed EXCEPT !.told = {p \in @ : p[1] # key}]
      PROVE  InHand' /\ Remembered'
    <2>1. RingKeys' = RingKeys
        BY <1>1 DEF RingKeys
    <2>2. InHand'
        BY <1>1, <2>1 DEF InHand, Shaped, Proper
    <2>3. /\ pushed = [told |-> pushed.told, twice |-> pushed.twice, missed |-> pushed.missed]
          /\ pushed.twice = {} /\ \A p \in pushed.told : p[1] \in seen \/ p[1][1] \in RingKeys
          /\ job # Idle => Unsaid(job)
        BY DEF Remembered
    <2>4. /\ pushed' = [told |-> pushed'.told, twice |-> pushed'.twice, missed |-> pushed'.missed]
          /\ pushed'.twice = {} /\ pushed'.told = {p \in pushed.told : p[1] # key}
        BY <1>3, <2>3
    <2>5. \A p \in pushed'.told : p[1] \in seen' \/ p[1][1] \in RingKeys'
        BY <1>3, <2>1, <2>3, <2>4
    <2>6. ASSUME job # Idle
          PROVE  Unsaid(job)'
        <3>. DEFINE mine == KeyOf(job.event, job.about)
        <3>1. mine # key /\ Unsaid(job) /\ mine' = mine
            BY <1>1, <1>3, <2>3, <2>6 DEF KeyOf
        <3>2. mine \in seen => mine \in seen'
            BY <1>3, <3>1
        <3>3. \A t \in Token : <<mine, t>> \in pushed'.told => <<mine, t>> \in pushed.told
            BY <2>4
        <3>. HIDE DEF mine
        <3>. QED
            BY <1>1, <3>1, <3>2, <3>3 DEF Unsaid, NoTwice, Range, mine
    <2>. QED
        BY <1>1, <2>2, <2>4, <2>5, <2>6 DEF Remembered
<1>. QED
    BY <1>2, <1>3 DEF Forget

LEMMA CrashLeaves ==
    ASSUME Remembered, Crash
    PROVE  InHand' /\ Remembered'
<1>1. job' = Idle /\ plan' = plan
    BY DEF Crash
<1>2. /\ pushed' = [told |-> pushed'.told, twice |-> pushed'.twice, missed |-> pushed'.missed]
      /\ pushed'.twice = {} /\ pushed'.told = {}
    BY DEF Crash, Remembered
<1>. QED
    BY <1>1, <1>2 DEF InHand, Remembered

\* What the actor's queue is made of after each kind of step.
LEMMA ServeLeaves ==
    ASSUME InQueue, InHand, Remembered, ServeDispatcher
    PROVE  InHand' /\ Remembered' /\ Moves(Tail(commands)) /\ job # Idle
<1>1. plan' = plan /\ commands \in Seq(plan.calls \cup {None}) /\ commands # <<>> /\ Head(commands) = None
    BY DEF ServeDispatcher, InQueue
<1>2. None \in Range(commands)
    BY <1>1, TailQueue
<1>3. job # Idle
    BY <1>2, IdleStep DEF InQueue
<1>. QED
    BY <1>1, <1>3, MatchLeaves, OwnLeaves, PrefsLeaves, RouteLeaves, DetailsLeaves, ChangeLeaves
       DEF ServeDispatcher

LEMMA SendLeaves ==
    ASSUME InHand, Remembered, Send
    PROVE  InHand' /\ Remembered' /\ Moves(commands)
<1>1. plan' = plan /\ job.step = "send" /\ job # Idle
    BY IdleStep DEF Send
<1>2. \E lost : Sent(lost)
    BY DEF Send
<1>. QED
    BY <1>1, <1>2, SentLeaves

\* The job in hand and what it remembers, over every step.
LEMMA HandKept ==
    ASSUME InQueue, InLines, InHand, Remembered, [ServiceNext]_serviceVars
    PROVE  InHand' /\ Remembered'
<1>1. CASE UNCHANGED <<plan, job, seen, pushed>>
    BY <1>1, HandStays
<1>2. CASE Phones
    BY <1>1, <1>2 DEF Phones, Challenge, Expire, Arrive, dispatcher
<1>3. CASE Sources
    BY <1>1, <1>3 DEF Sources, Emit, FundsSeen
<1>4. CASE ServePhone
    BY <1>1, <1>4 DEF ServePhone
<1>5. CASE ServeDispatcher
    BY <1>5, ServeLeaves
<1>6. CASE Send
    BY <1>6, SendLeaves
<1>7. ASSUME NEW rank \in 1..4, Take(rank)
      PROVE  InHand' /\ Remembered'
    BY <1>7, TakeLeaves
<1>8. CASE Forget
    BY <1>8, ForgetLeaves
<1>9. CASE Crash
    BY <1>9, CrashLeaves
<1>10. CASE \E t \in Token : Uninstall(t)
    BY <1>1, <1>10 DEF Uninstall, dispatcher
<1>11. CASE UNCHANGED serviceVars
    BY <1>1, <1>11 DEF serviceVars, dispatcher
<1>. QED
    BY <1>2, <1>3, <1>4, <1>5, <1>6, <1>7, <1>8, <1>9, <1>10, <1>11
       DEF ServiceNext, Actor, Dispatcher, Elsewise

-----------------------------------------------------------------------------
(* The queues of events.                                                   *)

LEMMA LinesStay ==
    ASSUME InLines, plan' = plan, lines' = lines
    PROVE  InLines'
<1>1. \A event : Proper(event) => Proper(event)'
    BY DEF Proper, RingKeys
<1>2. \A line \in Range(Lines) : Range(lines'[line]) = Range(lines[line])
    BY DEF Range
<1>3. \A line \in Range(Lines) : \A event \in Range(lines'[line]) : Proper(event)'
    BY <1>1, <1>2 DEF InLines
<1>4. \A line \in Range(Lines) : lines'[line] \in Seq(Range(lines'[line]))
    BY <1>2 DEF InLines
<1>5. lines' = [line \in Range(Lines) |-> lines'[line]]
    BY DEF InLines
<1>. QED
    BY <1>3, <1>4, <1>5 DEF InLines, Range, Proper, RingKeys

LEMMA LinesMore ==
    ASSUME InLines, plan' = plan, NEW line, NEW event, Proper(event),
           lines' = [lines EXCEPT ![line] = Append(@, event)]
    PROVE  InLines'
<1>1. /\ lines = [l \in Range(Lines) |-> lines[l]]
      /\ \A l \in Range(Lines) : /\ lines[l] \in Seq(Range(lines[l]))
                                 /\ \A e \in Range(lines[l]) : Proper(e)
    BY DEF InLines
<1>2. /\ lines' = [l \in Range(Lines) |-> lines'[l]]
      /\ \A l \in Range(Lines) : lines'[l] = IF l = line THEN Append(lines[l], event) ELSE lines[l]
    BY <1>1
<1>3. ASSUME NEW l \in Range(Lines)
      PROVE  lines'[l] \in Seq(Range(lines'[l])) /\ \A e \in Range(lines'[l]) : Proper(e)
    <2>1. CASE l = line
        <3>1. PICK queue : queue = lines[l]
            OBVIOUS
        <3>2. PICK longer : longer = lines'[l]
            OBVIOUS
        <3>3. PICK S : S = Range(queue) \cup {event}
            OBVIOUS
        <3>4. queue \in Seq(Range(queue)) /\ longer = Append(queue, event)
            BY <1>1, <1>2, <2>1, <3>1, <3>2
        <3>5. queue \in Seq(S) /\ event \in S
            BY <3>3, <3>4
        <3>6. longer \in Seq(S) /\ Range(longer) = Range(queue) \cup {event}
            BY <3>4, <3>5, AppendRange
        <3>7. longer \in Seq(Range(longer))
            BY <3>3, <3>6
        <3>8. \A e \in Range(queue) : Proper(e)
            <4>1. \A e \in Range(lines[l]) : Proper(e)
                BY <1>1
            <4>. QED
                BY <3>1, <4>1, Zenon
        <3>9. \A e \in Range(longer) : Proper(e)
            BY <3>6, <3>8
        <3>. QED
            BY <3>2, <3>7, <3>9
    <2>2. CASE l # line
        BY <1>1, <1>2, <2>2
    <2>. QED
        BY <2>1, <2>2
<1>4. \A e : Proper(e) => Proper(e)'
    BY DEF Proper, RingKeys
<1>5. \A l \in Range(Lines) : \A e \in Range(lines'[l]) : Proper(e)'
    BY <1>3, <1>4
<1>6. \A l \in Range(Lines) : lines'[l] \in Seq(Range(lines'[l]))
    BY <1>3
<1>. QED
    BY <1>2, <1>5, <1>6 DEF InLines, Range, Proper, RingKeys

LEMMA LinesLess ==
    ASSUME InLines, plan' = plan, NEW line \in Range(Lines), lines[line] # <<>>,
           lines' = [lines EXCEPT ![line] = Tail(@)]
    PROVE  InLines'
<1>1. /\ lines = [l \in Range(Lines) |-> lines[l]]
      /\ \A l \in Range(Lines) : /\ lines[l] \in Seq(Range(lines[l]))
                                 /\ \A e \in Range(lines[l]) : Proper(e)
    BY DEF InLines
<1>2. /\ lines' = [l \in Range(Lines) |-> lines'[l]]
      /\ \A l \in Range(Lines) : lines'[l] = IF l = line THEN Tail(lines[l]) ELSE lines[l]
    BY <1>1
<1>3. ASSUME NEW l \in Range(Lines)
      PROVE  lines'[l] \in Seq(Range(lines'[l])) /\ Range(lines'[l]) \subseteq Range(lines[l])
    <2>1. CASE l = line
        <3>1. PICK queue : queue = lines[l]
            OBVIOUS
        <3>2. PICK rest : rest = lines'[l]
            OBVIOUS
        <3>3. queue \in Seq(Range(queue)) /\ queue # <<>> /\ rest = Tail(queue)
            BY <1>1, <1>2, <2>1, <3>1, <3>2
        <3>4. Range(rest) \subseteq Range(queue) /\ rest \in Seq(Range(queue))
            BY <3>3, TailQueue
        <3>5. rest \in Seq(Range(rest))
            BY <3>4, SeqOfRange DEF Range
        <3>. QED
            BY <3>1, <3>2, <3>4, <3>5
    <2>2. CASE l # line
        BY <1>1, <1>2, <2>2
    <2>. QED
        BY <2>1, <2>2
<1>4. \A e : Proper(e) => Proper(e)'
    BY DEF Proper, RingKeys
<1>5. \A l \in Range(Lines) : \A e \in Range(lines'[l]) : Proper(e)'
    BY <1>1, <1>3, <1>4
<1>6. \A l \in Range(Lines) : lines'[l] \in Seq(Range(lines'[l]))
    BY <1>3
<1>. QED
    BY <1>2, <1>5, <1>6 DEF InLines, Range, Proper, RingKeys

LEMMA QueuedLeaves ==
    ASSUME InLines, plan' = plan, NEW line, NEW event, Proper(event), Queued(line, event)
    PROVE  InLines'
<1>1. CASE lines' = lines
    BY <1>1, LinesStay
<1>2. CASE lines' = [lines EXCEPT ![line] = Append(@, event)]
    BY <1>2, LinesMore
<1>. QED
    BY <1>1, <1>2 DEF Queued

\* The request at the head of the queue is one of the plan's.
LEMMA HeadIsCall ==
    ASSUME InQueue, commands # <<>>, Head(commands) # None
    PROVE  Head(commands) \in plan.calls /\ Head(commands) \in Range(commands)
<1>1. Head(commands) \in Range(commands) /\ Range(commands) \subseteq plan.calls \cup {None}
    BY TailQueue DEF InQueue
<1>. QED
    BY <1>1

LEMMA LinesKept ==
    ASSUME PlanSound, InQueue, InLines, [ServiceNext]_serviceVars
    PROVE  InLines'
<1>1. CASE UNCHANGED <<plan, lines>>
    BY <1>1, LinesStay
<1>2. CASE Phones
    BY <1>1, <1>2 DEF Phones, Challenge, Expire, Arrive, dispatcher
<1>3. CASE Sources
    <2>1. ASSUME NEW event \in plan.events, Emit(event)
          PROVE  InLines'
        <3>1. Proper(event)
            BY DEF PlanSound, Proper
        <3>. QED
            BY <2>1, <3>1, QueuedLeaves DEF Emit
    <2>2. ASSUME NEW tx \in plan.txs, FundsSeen(tx)
          PROVE  InLines'
        <3>1. plan' = plan
            BY <2>2 DEF FundsSeen
        <3>2. CASE lines' = lines
            BY <3>1, <3>2, LinesStay
        <3>3. CASE lines' # lines
            <4>1. PICK event : event.line = "funds" /\ event.key = tx.id /\ Queued("funds", event)
                <5>. DEFINE event == [id |-> tx.id, line |-> "funds", kind |-> "funds", key |-> tx.id,
                             about |-> Credits(tx), alias |-> None, receiver |-> None,
                             sender |-> None, senders |-> Spenders(tx), times |-> tx.times]
                <5>1. Queued("funds", event)
                    BY <2>2, <3>3 DEF FundsSeen
                <5>2. event.line = "funds" /\ event.key = tx.id
                    OBVIOUS
                <5>. HIDE DEF event
                <5>. QED
                    BY <5>1, <5>2
            <4>2. Proper(event)
                BY <4>1 DEF PlanSound, Proper
            <4>. QED
                BY <3>1, <4>1, <4>2, QueuedLeaves
        <3>. QED
            BY <3>2, <3>3
    <2>. QED
        BY <1>3, <2>1, <2>2 DEF Sources
<1>4. CASE ServePhone
    <2>. DEFINE call == Head(commands)
    <2>1. plan' = plan /\ call \in plan.calls
        BY <1>4, HeadIsCall DEF ServePhone
    <2>2. CASE lines' = lines
        BY <2>1, <2>2, LinesStay
    <2>3. CASE lines' # lines
        <3>1. call.op = "ring" /\ lines' = [lines EXCEPT !["ring"] = Append(@, call.event)]
            BY <1>4, <2>3 DEF ServePhone, Does, Rings
        <3>2. Proper(call.event)
            <4>1. call.event.line = "ring"
                BY <2>1, <3>1 DEF PlanSound
            <4>2. call.event.key \in RingKeys
                BY <2>1, <3>1 DEF RingKeys
            <4>. QED
                BY <4>1, <4>2 DEF Proper
        <3>. QED
            BY <2>1, <3>1, <3>2, LinesMore
    <2>. QED
        BY <2>2, <2>3
<1>5. CASE ServeDispatcher
    BY <1>1, <1>5 DEF ServeDispatcher
<1>6. CASE Send
    BY <1>1, <1>6 DEF Send
<1>7. ASSUME NEW rank \in 1..4, Take(rank)
      PROVE  InLines'
    BY <1>7, LineOfRank, LinesLess DEF Take
<1>8. CASE Forget
    BY <1>1, <1>8 DEF Forget
<1>9. CASE Crash
    <2>1. /\ lines' = [line \in Range(Lines) |-> lines'[line]]
          /\ \A line \in Range(Lines) : lines'[line] = <<>>
        BY <1>9 DEF Crash, NoLines
    <2>2. Range(<<>>) = {} /\ <<>> \in Seq({})
        BY DEF Range
    <2>3. \A line \in Range(Lines) :
              lines'[line] \in Seq(Range(lines'[line])) /\ Range(lines'[line]) = {}
        BY <2>1, <2>2
    <2>. QED
        BY <2>1, <2>3 DEF InLines, Range
<1>10. CASE \E t \in Token : Uninstall(t)
    BY <1>1, <1>10 DEF Uninstall, dispatcher
<1>11. CASE UNCHANGED serviceVars
    BY <1>1, <1>11 DEF serviceVars, dispatcher
<1>. QED
    BY <1>2, <1>3, <1>4, <1>5, <1>6, <1>7, <1>8, <1>9, <1>10, <1>11
       DEF ServiceNext, Actor, Dispatcher, Elsewise

-----------------------------------------------------------------------------
(* The actor's queue, and where a signed request may be.                   *)

LEMMA MovesLeaves ==
    ASSUME plan' = plan, NEW base \in Seq(plan.calls \cup {None}), Distinct(base),
           None \notin Range(base), Moves(base)
    PROVE  InQueue' /\ Range(commands') \subseteq Range(base) \cup {None}
<1>1. CASE commands' = base
    BY <1>1 DEF InQueue, Distinct, Signed, Range
<1>2. CASE commands' = Append(base, None) /\ job'.step \notin {"idle", "send"}
    <2>1. Distinct(commands')
        BY <1>2, AppendDistinct
    <2>2. commands' \in Seq(plan.calls \cup {None}) /\ Range(commands') = Range(base) \cup {None}
        BY <1>2, AppendRange
    <2>. QED
        BY <1>2, <2>1, <2>2 DEF InQueue, Distinct, Signed, Range
<1>. QED
    BY <1>1, <1>2 DEF Moves

\* What the dispatcher's step leaves of the queue: no request comes or comes back.
LEMMA DispatchQueue ==
    ASSUME PlanSound, InQueue, InLines, InHand, Remembered,
           ServeDispatcher \/ Send \/ \E rank \in 1..4 : Take(rank)
    PROVE  InQueue' /\ Range(commands') \subseteq Range(commands) \cup {None}
<1>1. plan' = plan /\ commands \in Seq(plan.calls \cup {None}) /\ Distinct(commands)
    BY DEF InQueue, ServeDispatcher, Send, Take
<1>2. CASE ServeDispatcher
    <2>1. commands # <<>> /\ Head(commands) = None /\ Moves(Tail(commands))
        BY <1>2, ServeLeaves DEF ServeDispatcher
    <2>2. /\ Tail(commands) \in Seq(plan.calls \cup {None})
          /\ Range(Tail(commands)) \subseteq Range(commands)
        BY <1>1, <2>1, TailQueue
    <2>3. Distinct(Tail(commands)) /\ None \notin Range(Tail(commands))
        BY <1>1, <2>1, TailDistinct
    <2>4. InQueue' /\ Range(commands') \subseteq Range(Tail(commands)) \cup {None}
        BY <1>1, <2>1, <2>2, <2>3, MovesLeaves
    <2>. QED
        BY <2>2, <2>4
<1>3. CASE Send
    <2>1. None \notin Range(commands) /\ Moves(commands)
        BY <1>3, SendLeaves DEF InQueue, Send
    <2>. QED
        BY <1>1, <2>1, MovesLeaves
<1>4. ASSUME NEW rank \in 1..4, Take(rank)
      PROVE  InQueue' /\ Range(commands') \subseteq Range(commands) \cup {None}
    <2>1. job.step = "idle"
        BY <1>4, IdleStep DEF Take
    <2>2. None \notin Range(commands) /\ Moves(commands)
        BY <1>4, <2>1, TakeLeaves DEF InQueue
    <2>. QED
        BY <1>1, <2>2, MovesLeaves
<1>. QED
    BY <1>2, <1>3, <1>4

LEMMA ArriveQueue ==
    ASSUME PlanSound, InQueue, InPlace, NEW call \in plan.calls, Arrive(call)
    PROVE  InQueue' /\ Range(commands') = Range(commands) \cup {call}
<1>1. /\ plan' = plan /\ job' = job /\ commands' = Append(commands, call)
      /\ Signed(call) => call.id \in nonces
    BY DEF Arrive, Authentic, dispatcher
<1>2. commands \in Seq(plan.calls \cup {None}) /\ call \in plan.calls \cup {None} /\ call # None
    BY DEF InQueue, PlanSound
<1>3. Signed(call) => call \notin Range(commands)
    BY <1>1 DEF InPlace
<1>4. Distinct(commands')
    BY <1>1, <1>2, <1>3, AppendDistinct DEF InQueue
<1>5. commands' \in Seq(plan.calls \cup {None}) /\ Range(commands') = Range(commands) \cup {call}
    BY <1>1, <1>2, AppendRange
<1>6. None \in Range(commands') => job'.step \notin {"idle", "send"}
    BY <1>1, <1>2, <1>5 DEF InQueue
<1>. QED
    BY <1>1, <1>4, <1>5, <1>6 DEF InQueue, Distinct, Signed, Range

LEMMA PhoneQueue ==
    ASSUME InQueue, ServePhone
    PROVE  /\ InQueue'
           /\ Range(commands') \subseteq Range(commands)
           /\ Signed(Head(commands)) => Head(commands) \notin Range(commands')
<1>1. plan' = plan /\ job' = job /\ commands # <<>> /\ commands' = Tail(commands)
    BY DEF ServePhone
<1>2. /\ Tail(commands) \in Seq(plan.calls \cup {None})
      /\ Range(Tail(commands)) \subseteq Range(commands)
    BY <1>1, TailQueue DEF InQueue
<1>3. /\ Distinct(Tail(commands))
      /\ Signed(Head(commands)) => Head(commands) \notin Range(Tail(commands))
    BY <1>1, TailDistinct DEF InQueue
<1>4. Distinct(commands') /\ (Signed(Head(commands)) => Head(commands) \notin Range(commands'))
    BY <1>1, <1>3
<1>. QED
    BY <1>1, <1>2, <1>4 DEF InQueue, Distinct, Signed, Range

LEMMA QueueKept ==
    ASSUME PlanSound, InQueue, InLines, InHand, Remembered, InPlace, [ServiceNext]_serviceVars
    PROVE  InQueue'
<1>1. CASE UNCHANGED <<plan, commands, job>>
    BY <1>1 DEF InQueue, Distinct, Signed, Range
<1>2. CASE Phones
    <2>1. ASSUME NEW call \in plan.calls, Challenge(call) \/ Expire(call)
          PROVE  InQueue'
        BY <1>1, <2>1 DEF Challenge, Expire, dispatcher
    <2>2. ASSUME NEW call \in plan.calls, Arrive(call)
          PROVE  InQueue'
        BY <2>2, ArriveQueue
    <2>. QED
        BY <1>2, <2>1, <2>2 DEF Phones
<1>3. CASE Sources
    BY <1>1, <1>3 DEF Sources, Emit, FundsSeen
<1>4. CASE ServePhone
    BY <1>4, PhoneQueue
<1>5. CASE ServeDispatcher \/ Send \/ \E rank \in 1..4 : Take(rank)
    BY <1>5, DispatchQueue
<1>6. CASE Forget
    BY <1>1, <1>6 DEF Forget
<1>7. CASE Crash
    <2>1. commands' = <<>>
        BY <1>7 DEF Crash
    <2>2. <<>> \in Seq((plan.calls \cup {None})') /\ Range(<<>>) = {} /\ DOMAIN <<>> = {}
        BY DEF Range
    <2>. QED
        BY <2>1, <2>2 DEF InQueue, Distinct, Signed, Range
<1>8. CASE \E t \in Token : Uninstall(t)
    BY <1>1, <1>8 DEF Uninstall, dispatcher
<1>9. CASE UNCHANGED serviceVars
    BY <1>1, <1>9 DEF serviceVars, dispatcher
<1>. QED
    BY <1>2, <1>3, <1>4, <1>5, <1>6, <1>7, <1>8, <1>9
       DEF ServiceNext, Actor, Dispatcher, Elsewise

\* A step that takes no request further.
LEMMA PlaceStays ==
    ASSUME PlanSound, InPlace, plan' = plan, nonces' \subseteq nonces, signed' = signed,
           served'.done = served.done, Range(commands') \subseteq Range(commands) \cup {None}
    PROVE  InPlace'
<1>1. \A call \in plan.calls : call \in Range(commands') => call \in Range(commands)
    BY DEF PlanSound
<1>2. InPlace' <=> \A call \in plan.calls : Signed(call) =>
            /\ call.id \in nonces' =>
                   call.id \in signed' \ served'.done /\ call \notin Range(commands')
            /\ call \in Range(commands') => call.id \in signed' \ served'.done
            /\ call.id \in served'.done => call.id \in signed'
    BY DEF InPlace, Signed, Range
<1>. QED
    BY <1>1, <1>2 DEF InPlace

LEMMA PlaceKept ==
    ASSUME PlanSound, InQueue, InLines, InHand, Remembered, InPlace, InOrder,
           [ServiceNext]_serviceVars
    PROVE  InPlace' /\ served'.again = {}
<1>. USE DEF InOrder
<1>. DEFINE InPlaceNext ==
         \A call \in plan.calls : Signed(call) =>
            /\ call.id \in nonces' =>
                   call.id \in signed' \ served'.done /\ call \notin Range(commands')
            /\ call \in Range(commands') => call.id \in signed' \ served'.done
            /\ call.id \in served'.done => call.id \in signed'
<1>0. plan' = plan => (InPlace' <=> InPlaceNext)
    BY DEF InPlace, Signed, Range
<1>1. CASE UNCHANGED <<plan, nonces, signed, commands, served>>
    BY <1>1, PlaceStays DEF Range
<1>2. CASE Phones
    <2>1. ASSUME NEW call \in plan.calls, Challenge(call)
          PROVE  InPlace' /\ served'.again = {}
        <3>1. /\ plan' = plan /\ commands' = commands /\ served' = served
              /\ call.id \notin signed /\ signed' = signed \cup {call.id}
              /\ nonces' \subseteq nonces \cup {call.id}
            BY <2>1 DEF Challenge
        <3>2. \A other \in plan.calls : other.id = call.id => other = call
            BY DEF PlanSound
        <3>3. InPlaceNext
            BY <3>1, <3>2 DEF InPlace
        <3>. QED
            BY <1>0, <3>1, <3>3
    <2>2. ASSUME NEW call \in plan.calls, Expire(call)
          PROVE  InPlace' /\ served'.again = {}
        BY <2>2, PlaceStays DEF Expire
    <2>3. ASSUME NEW call \in plan.calls, Arrive(call)
          PROVE  InPlace' /\ served'.again = {}
        <3>1. /\ plan' = plan /\ served' = served /\ signed' = signed
              /\ nonces' = nonces \ {call.id}
              /\ Signed(call) => call.id \in nonces
            BY <2>3 DEF Arrive, Authentic
        <3>2. Range(commands') = Range(commands) \cup {call}
            BY <2>3, ArriveQueue
        <3>3. \A other \in plan.calls : other.id = call.id => other = call
            BY DEF PlanSound
        <3>4. InPlaceNext
            BY <3>1, <3>2, <3>3 DEF InPlace
        <3>. QED
            BY <1>0, <3>1, <3>4
    <2>. QED
        BY <1>2, <2>1, <2>2, <2>3 DEF Phones
<1>3. CASE Sources
    BY <1>1, <1>3 DEF Sources, Emit, FundsSeen, front
<1>4. CASE ServePhone
    <2>. DEFINE call == Head(commands)
    <2>1. /\ plan' = plan /\ nonces' = nonces /\ signed' = signed
          /\ call \in plan.calls /\ call \in Range(commands)
        BY <1>4, HeadIsCall DEF ServePhone, front
    <2>2. Range(commands') \subseteq Range(commands) /\ (Signed(call) => call \notin Range(commands'))
        BY <1>4, PhoneQueue
    <2>3. CASE served' = served
        BY <2>1, <2>2, <2>3, PlaceStays
    <2>4. CASE served' = Booked(call)
        <3>1. Signed(call) => call.id \in signed \ served.done
            BY <2>1 DEF InPlace
        <3>2. served'.done = served.done \cup {call.id} /\ served'.again = {}
            BY <2>4, <3>1 DEF Booked
        <3>3. \A other \in plan.calls : other.id = call.id => other = call
            BY <2>1 DEF PlanSound
        <3>. HIDE DEF call
        <3>4. InPlaceNext
            BY <2>1, <2>2, <3>1, <3>2, <3>3 DEF InPlace
        <3>. QED
            BY <1>0, <2>1, <3>2, <3>4
    <2>. QED
        BY <1>4, <2>3, <2>4 DEF ServePhone
<1>5. CASE ServeDispatcher \/ Send \/ \E rank \in 1..4 : Take(rank)
    <2>1. plan' = plan /\ nonces' = nonces /\ signed' = signed
        BY <1>5 DEF ServeDispatcher, Send, Take, front
    <2>2. served'.done = served.done /\ served'.again = {}
        <3>1. CASE served' = served
            BY <3>1
        <3>2. ASSUME NEW t, served' = [served EXCEPT !.order = [@ EXCEPT ![t] = <<>>]]
              PROVE  served'.done = served.done /\ served'.again = {}
            BY <3>2 DEF InOrder
        <3>. QED
            BY <1>5, <3>1, <3>2 DEF ServeDispatcher, AnswerChange, Send, Take
    <2>. QED
        BY <1>5, <2>1, <2>2, DispatchQueue, PlaceStays
<1>6. CASE Forget
    BY <1>1, <1>6 DEF Forget, front
<1>7. CASE Crash
    <2>1. /\ plan' = plan /\ nonces' = {} /\ signed' = signed /\ served' = served
          /\ commands' = <<>>
        BY <1>7 DEF Crash
    <2>2. Range(commands') = {}
        BY <2>1 DEF Range
    <2>. QED
        BY <2>1, <2>2, PlaceStays
<1>8. CASE \E t \in Token : Uninstall(t)
    BY <1>1, <1>8 DEF Uninstall, front
<1>9. CASE UNCHANGED serviceVars
    BY <1>1, <1>9 DEF serviceVars, front
<1>. QED
    BY <1>2, <1>3, <1>4, <1>5, <1>6, <1>7, <1>8, <1>9
       DEF ServiceNext, Actor, Dispatcher, Elsewise

-----------------------------------------------------------------------------
(* Every step of the service is one of the registry's, or leaves it.       *)

LEMMA OtherIsHost == OtherHost \in Hosts
<1>1. \E host \in Hosts : host # DefaultHost
    BY DEF Hosts
<1>. QED
    BY <1>1 DEF OtherHost

\* A lookup of what is no address changes nothing.
LEMMA LookUpSteps ==
    ASSUME RegistryInv, NEW about, NEW filtered \in BOOLEAN, LookUp(about, filtered)
    PROVE  [RegistryNext]_registry
<1>1. CASE about \in Address
    BY <1>1 DEF RegistryNext, LooksUp
<1>2. CASE about \notin Address
    <2>1. Watchers(about) = {} /\ \A entry \in byAddress : entry[1] # about
        BY <1>2 DEF Watchers, RegistryInv, RegistryTypeOK
    <2>2. {entry \in byAddress : entry[1] # about} = byAddress
        BY <2>1
    <2>3. Hydrated({}) = cache
        BY DEF Hydrated, RegistryInv, RegistryTypeOK
    <2>. QED
        BY <2>1, <2>2, <2>3 DEF LookUp, registry
<1>. QED
    BY <1>1, <1>2

LEMMA PhoneSteps ==
    ASSUME PlanSound, InQueue, ServePhone
    PROVE  [RegistryNext]_registry
<1>. DEFINE call == Head(commands)
<1>1. call \in plan.calls
    BY HeadIsCall DEF ServePhone
<1>2. /\ call.token \in Token /\ call.wish \in Wish
      /\ call.wallet \in Maybe(Address) /\ call.device \in Maybe(Device)
    BY <1>1 DEF PlanSound
<1>3. \/ UNCHANGED registry
      \/ Register(call.token, call.wish, call.wallet, call.device)
      \/ Update(call.token, call.wish, call.wallet, call.device)
      \/ Unregister(call.token, call.wallet, call.device)
    BY DEF ServePhone, Does, Rings, registry
<1>. HIDE DEF call
<1>. QED
    BY <1>2, <1>3 DEF RegistryNext, Saves, Removes

LEMMA ChangeSteps ==
    ASSUME InHand, job # Idle, AnswerChange
    PROVE  [RegistryNext]_registry
<1>1. PICK next \in job.changes : SetEnv(next.token, OtherHost) \/ Discard(next.token)
    BY DEF AnswerChange
<1>2. next.token \in Token
    BY DEF InHand, ChangeSet
<1>. QED
    BY <1>1, <1>2, OtherIsHost DEF RegistryNext, Removes, Learns

LEMMA RegistrySteps ==
    ASSUME PlanSound, RegistryInv, InQueue, InHand, Remembered, [ServiceNext]_serviceVars
    PROVE  [RegistryNext]_registry
<1>1. CASE UNCHANGED registry
    BY <1>1
<1>2. CASE Phones
    BY <1>1, <1>2 DEF Phones, Challenge, Expire, Arrive
<1>3. CASE Sources
    BY <1>1, <1>3 DEF Sources, Emit, FundsSeen
<1>4. CASE ServePhone
    BY <1>4, PhoneSteps
<1>5. CASE ServeDispatcher
    <2>1. CASE AnswerMatch
        <3>1. CASE LookUp(job.about, job.event.alias # None \/ job.event.receiver # None)
            BY <3>1, LookUpSteps
        <3>. QED
            BY <2>1, <3>1 DEF AnswerMatch, LooksUpFor
    <2>2. CASE AnswerOwn \/ AnswerPrefs \/ AnswerRoute \/ AnswerDetails
        BY <2>2 DEF AnswerOwn, AnswerPrefs, AnswerRoute, AnswerDetails
    <2>3. CASE AnswerChange
        BY <1>5, <2>3, ServeLeaves, ChangeSteps
    <2>. QED
        BY <1>5, <2>1, <2>2, <2>3 DEF ServeDispatcher
<1>6. CASE Send \/ \E rank \in 1..4 : Take(rank)
    BY <1>1, <1>6 DEF Send, Take
<1>7. CASE Forget
    BY <1>1, <1>7 DEF Forget
<1>8. CASE Crash
    BY <1>8 DEF Crash, RegistryNext
<1>9. CASE \E t \in Token : Uninstall(t)
    BY <1>1, <1>9 DEF Uninstall
<1>10. CASE UNCHANGED serviceVars
    BY <1>1, <1>10 DEF serviceVars
<1>. QED
    BY <1>2, <1>3, <1>4, <1>5, <1>6, <1>7, <1>8, <1>9, <1>10
       DEF ServiceNext, Actor, Dispatcher, Elsewise

-----------------------------------------------------------------------------
(* The order of the requests a device key signed.                          *)

\* One more request on a row whose device follows the order.
LEMMA OneMore ==
    ASSUME NEW S, \A c \in S : c.device \in Maybe(Device),
           NEW order \in Seq(S), NEW call \in S, Rising(order),
           NEW old \in Maybe(Device), NEW new,
           order = <<>> \/ Follows(order, old),
           call.device # None => new = call.device,
           order # <<>> /\ call.device = None => new = old,
           order # <<>> /\ call.device # None /\ old # None /\ old.key = call.device.key =>
               call.device.counter > old.counter
    PROVE  Rising(Append(order, call)) /\ Follows(Append(order, call), new)
<1>. DEFINE longer == Append(order, call)  last == Len(order) + 1
<1>1. /\ Len(order) \in Nat /\ DOMAIN order = 1..Len(order)
      /\ DOMAIN longer = 1..last /\ Len(longer) = last
      /\ \A i \in 1..Len(order) : longer[i] = order[i]
      /\ longer[last] = call
    BY AppendQueue
<1>. HIDE DEF longer
<1>2. \A i \in 1..Len(order) : order[i] \in S
    BY <1>1
<1>3. \A i, j \in 1..Len(order) : i..j \subseteq 1..Len(order)
    BY <1>1
<1>4. \A i, j \in 1..Len(order) : KeyAlone(longer, i, j) <=> KeyAlone(order, i, j)
    <2>. SUFFICES ASSUME NEW i \in 1..Len(order), NEW j \in 1..Len(order)
                  PROVE  KeyAlone(longer, i, j) <=> KeyAlone(order, i, j)
        OBVIOUS
    <2>1. \A k \in i..j : longer[k] = order[k]
        BY <1>1, <1>3
    <2>. QED
        BY <1>1, <2>1 DEF KeyAlone
<1>5. \A device \in Device : device.counter \in Nat /\ device # None
    BY NoneAssumption DEF Device
<1>6. ASSUME NEW i \in 1..Len(order), KeyAlone(longer, i, last)
      PROVE  /\ new # None /\ new.key = order[i].device.key
             /\ order[i].device.counter <= new.counter
             /\ call.device # None => order[i].device.counter < call.device.counter
    <2>1. order # <<>> /\ Follows(order, old)
        BY <1>1
    <2>2. i..Len(order) \subseteq i..last /\ last \in i..last
        BY <1>1
    <2>3. KeyAlone(longer, i, Len(order))
        BY <1>6, <2>2 DEF KeyAlone
    <2>4. KeyAlone(order, i, Len(order))
        BY <1>1, <1>4, <2>3
    <2>5. /\ old # None /\ old.key = order[i].device.key
          /\ order[i].device.counter <= old.counter
        BY <1>1, <2>1, <2>4 DEF Follows
    <2>6. order[i].device # None /\ (call.device # None => call.device.key = order[i].device.key)
        BY <1>1, <1>6, <2>2 DEF KeyAlone
    <2>7. order[i].device \in Device /\ old \in Device
        BY <1>2, <2>5, <2>6 DEF Maybe
    <2>8. CASE call.device = None
        BY <2>1, <2>5, <2>8
    <2>9. CASE call.device # None
        <3>1. call.device \in Device /\ call.device.counter > old.counter
            BY <2>1, <2>5, <2>6, <2>9 DEF Maybe
        <3>2. order[i].device.counter < call.device.counter
            BY <1>5, <2>5, <2>7, <3>1
        <3>. QED
            BY <1>5, <2>6, <2>7, <2>9, <3>1, <3>2
    <2>. QED
        BY <2>8, <2>9
<1>7. Rising(longer)
    <2>. SUFFICES ASSUME NEW i \in 1..last, NEW j \in 1..last,
                         i < j, longer[j].device # None, KeyAlone(longer, i, j)
                  PROVE  longer[i].device.counter < longer[j].device.counter
        BY <1>1 DEF Rising
    <2>1. i \in 1..Len(order)
        BY <1>1
    <2>2. CASE j \in 1..Len(order)
        BY <1>1, <1>4, <2>1, <2>2 DEF Rising
    <2>3. CASE j = last
        BY <1>1, <1>6, <2>1, <2>3
    <2>. QED
        BY <1>1, <2>2, <2>3
<1>8. Follows(longer, new)
    <2>. SUFFICES ASSUME NEW i \in 1..last, KeyAlone(longer, i, last)
                  PROVE  /\ new # None /\ new.key = longer[i].device.key
                         /\ longer[i].device.counter <= new.counter
        BY <1>1 DEF Follows
    <2>1. CASE i \in 1..Len(order)
        BY <1>1, <1>6, <2>1
    <2>2. CASE i = last
        <3>1. call.device # None
            BY <1>1, <2>2 DEF KeyAlone
        <3>2. call.device \in Device /\ new = call.device
            BY <3>1 DEF Maybe
        <3>. QED
            BY <1>1, <1>5, <2>2, <3>1, <3>2
    <2>. QED
        BY <1>1, <2>1, <2>2
<1>. QED
    BY <1>7, <1>8 DEF longer

LEMMA OrderStays ==
    ASSUME InOrder, plan' = plan, rows' = rows, served' = served
    PROVE  InOrder'
    BY DEF InOrder, Ordered, Rising, Follows, KeyAlone

\* A request saves the row of its token, whose device is the request's own or the
\* one stored.
LEMMA SaveOrder ==
    ASSUME PlanSound, RegistryInv, InOrder, plan' = plan,
           NEW call \in plan.calls, call.op \notin {"unregister", "ring"},
           NEW wish \in Wish, Register(call.token, wish, call.wallet, call.device),
           served' = Booked(call), served'.again = {}
    PROVE  InOrder'
<1>. DEFINE t == call.token
            row == rows[t]
            new == NewRow(t, wish, call.wallet, call.device)
            order == served.order[t]
<1>1. /\ t \in Token /\ call.wallet \in Maybe(Address) /\ call.device \in Maybe(Device)
      /\ \A c \in plan.calls : c.device \in Maybe(Device)
    BY DEF PlanSound
<1>2. rows \in [Token -> Maybe(Row)] /\ row \in Maybe(Row)
    BY <1>1 DEF RegistryInv, RegistryTypeOK
<1>3. new \in Row /\ new # None
    BY <1>1, NewRowType, NoneAssumption DEF RegistryInv
<1>4. rows' = [rows EXCEPT ![t] = new] /\ DeviceFits(row, call.device)
    BY DEF Register, Put, MaySave
<1>5. new.device = IF call.device # None \/ row = None THEN call.device ELSE row.device
    BY DEF NewRow
<1>6. /\ served.order \in [Token -> Seq(plan.calls)] /\ order \in Seq(plan.calls)
      /\ Ordered(row, order)
    BY <1>1 DEF InOrder
<1>7. /\ served' = [order |-> served'.order, done |-> served'.done, again |-> served'.again]
      /\ served'.order = [served.order EXCEPT ![t] = Append(order, call)]
    BY DEF Booked
<1>. HIDE DEF t, row, new, order
<1>8. row = None \/ row \in Row
    BY <1>2 DEF Maybe
<1>9. Rising(Append(order, call)) /\ Follows(Append(order, call), new.device)
    <2>1. CASE row = None
        <3>1. None \in Maybe(Device) /\ order = <<>> /\ Rising(order) /\ new.device = call.device
            BY <1>5, <1>6, <2>1 DEF Maybe, Ordered
        <3>. QED
            BY <1>1, <1>6, <3>1, OneMore
    <2>2. CASE row # None
        <3>1. row.device \in Maybe(Device) /\ Follows(order, row.device) /\ Rising(order)
            BY <1>6, <1>8, <2>2 DEF Row, Ordered
        <3>2. /\ call.device # None => new.device = call.device
              /\ call.device = None => new.device = row.device
              /\ call.device # None /\ row.device # None /\ row.device.key = call.device.key =>
                     call.device.counter > row.device.counter
            BY <1>4, <1>5, <2>2 DEF DeviceFits
        <3>. QED
            BY <1>1, <1>6, <3>1, <3>2, OneMore
    <2>. QED
        BY <2>1, <2>2
<1>10. Append(order, call) \in Seq(plan.calls)
    BY <1>6, AppendRange
<1>11. served'.order \in [Token -> Seq(plan.calls)]
    BY <1>6, <1>7, <1>10
<1>12. Ordered(new, Append(order, call))
    BY <1>3, <1>9 DEF Ordered
<1>13. ASSUME NEW u \in Token
       PROVE  Ordered(rows'[u], served'.order[u])
    <2>1. CASE u = t
        BY <1>1, <1>2, <1>4, <1>6, <1>7, <1>12, <2>1
    <2>2. CASE u # t
        <3>1. rows'[u] = rows[u] /\ served'.order[u] = served.order[u]
            BY <1>2, <1>4, <1>6, <1>7, <2>2
        <3>. QED
            BY <3>1 DEF InOrder
    <2>. QED
        BY <2>1, <2>2
<1>14. \A u \in Token : Ordered(rows[u], served.order[u])'
    BY <1>13
<1>. QED
    BY <1>7, <1>11, <1>14 DEF InOrder

\* A row that goes takes its order with it.
LEMMA GoneOrder ==
    ASSUME RegistryInv, InOrder, plan' = plan, NEW t \in Token, Put(t, None),
           served' = [order |-> served'.order, done |-> served'.done, again |-> served'.again],
           served'.order = [served.order EXCEPT ![t] = <<>>], served'.again = {}
    PROVE  InOrder'
<1>1. rows' = [rows EXCEPT ![t] = None] /\ rows \in [Token -> Maybe(Row)]
    BY DEF Put, RegistryInv, RegistryTypeOK
<1>2. served'.order \in [Token -> Seq(plan.calls)]
    BY DEF InOrder
<1>3. Ordered(None, <<>>)
    BY DEF Ordered, Rising
<1>4. ASSUME NEW u \in Token
      PROVE  Ordered(rows'[u], served'.order[u])
    <2>1. CASE u = t
        BY <1>1, <1>3, <2>1 DEF InOrder
    <2>2. CASE u # t
        <3>1. rows'[u] = rows[u] /\ served'.order[u] = served.order[u]
            BY <1>1, <2>2 DEF InOrder
        <3>. QED
            BY <3>1 DEF InOrder
    <2>. QED
        BY <2>1, <2>2
<1>5. \A u \in Token : Ordered(rows[u], served.order[u])'
    BY <1>4
<1>. QED
    BY <1>2, <1>5 DEF InOrder

\* The host a provider named does not touch the device of the row.
LEMMA LearnedOrder ==
    ASSUME RegistryInv, InOrder, plan' = plan, NEW t \in Token, NEW host \in Hosts, SetEnv(t, host),
           served' = served
    PROVE  InOrder'
<1>1. CASE rows[t] = None
    BY <1>1, OrderStays DEF SetEnv
<1>2. CASE rows[t] # None
    <2>. DEFINE row == [rows[t] EXCEPT !.want = [rows[t].want EXCEPT !.env = host]]
    <2>1. rows \in [Token -> Maybe(Row)] /\ rows[t] \in Row /\ rows[t].want \in Wish
        BY <1>2 DEF RegistryInv, RegistryTypeOK, Maybe, Row
    <2>2. row \in Row /\ row # None /\ row.device = rows[t].device
        BY <2>1, NoneAssumption DEF Row, Wish, Maybe
    <2>3. rows' = [rows EXCEPT ![t] = row]
        BY <1>2 DEF SetEnv
    <2>. HIDE DEF row
    <2>4. ASSUME NEW u \in Token
          PROVE  Ordered(rows'[u], served'.order[u])
        <3>1. Ordered(rows[u], served.order[u]) /\ served'.order[u] = served.order[u]
            BY DEF InOrder
        <3>2. CASE u = t
            BY <1>2, <2>1, <2>2, <2>3, <3>1, <3>2 DEF Ordered
        <3>3. CASE u # t
            BY <2>1, <2>3, <3>1, <3>3
        <3>. QED
            BY <3>2, <3>3
    <2>5. \A u \in Token : Ordered(rows[u], served.order[u])'
        BY <2>4
    <2>. QED
        BY <2>5 DEF InOrder
<1>. QED
    BY <1>1, <1>2

LEMMA PhoneOrder ==
    ASSUME PlanSound, RegistryInv, InQueue, InOrder, ServePhone, served'.again = {}
    PROVE  InOrder'
<1>. DEFINE call == Head(commands)
<1>1. plan' = plan /\ call \in plan.calls
    BY HeadIsCall DEF ServePhone
<1>2. /\ call.token \in Token /\ call.wish \in Wish
      /\ call.wallet \in Maybe(Address) /\ call.device \in Maybe(Device)
    BY <1>1 DEF PlanSound
<1>3. CASE UNCHANGED registry /\ served' = served
    BY <1>1, <1>3, OrderStays DEF registry
<1>4. CASE Does(call) /\ served' = Booked(call)
    <2>1. CASE call.op = "ring"
        <3>1. rows' = rows
            BY <1>4, <2>1 DEF Does, Rings, registry
        <3>2. /\ served' = [order |-> served'.order, done |-> served'.done, again |-> served'.again]
              /\ served'.order = [served.order EXCEPT ![call.token] = served.order[call.token]]
            BY <1>4, <2>1 DEF Booked
        <3>. HIDE DEF call
        <3>3. served'.order = served.order
            BY <1>2, <3>2 DEF InOrder
        <3>4. \A t \in Token : Ordered(rows[t], served.order[t])'
            BY <3>1, <3>3 DEF InOrder, Ordered, Rising, Follows, KeyAlone
        <3>. QED
            BY <1>1, <3>2, <3>3, <3>4 DEF InOrder
    <2>2. CASE call.op = "unregister"
        <3>1. Put(call.token, None)
            BY <1>4, <2>2 DEF Does, Unregister
        <3>2. /\ served' = [order |-> served'.order, done |-> served'.done, again |-> served'.again]
              /\ served'.order = [served.order EXCEPT ![call.token] = <<>>]
            BY <1>4, <2>2 DEF Booked
        <3>. HIDE DEF call
        <3>. QED
            BY <1>1, <1>2, <3>1, <3>2, GoneOrder
    <2>3. CASE call.op = "register"
        <3>1. Register(call.token, call.wish, call.wallet, call.device)
            BY <1>4, <2>3 DEF Does
        <3>. HIDE DEF call
        <3>. QED
            BY <1>1, <1>2, <1>4, <2>3, <3>1, SaveOrder
    <2>4. CASE call.op = "update"
        <3>. DEFINE wish == OnStoredPlatform(call.token, call.wish)
        <3>1. Register(call.token, wish, call.wallet, call.device)
            BY <1>4, <2>4 DEF Does, Update
        <3>2. wish \in Wish
            <4>1. rows[call.token] \in Maybe(Row)
                BY <1>2 DEF RegistryInv, RegistryTypeOK
            <4>2. rows[call.token] # None => rows[call.token].want \in Wish
                BY <4>1 DEF Maybe, Row
            <4>. QED
                BY <1>2, <4>2 DEF OnStoredPlatform, Wish, Platforms
        <3>. HIDE DEF call, wish
        <3>. QED
            BY <1>1, <1>2, <1>4, <2>4, <3>1, <3>2, SaveOrder
    <2>. QED
        BY <1>4, <2>1, <2>2, <2>3, <2>4 DEF Does
<1>. QED
    BY <1>3, <1>4 DEF ServePhone

LEMMA ChangeOrder ==
    ASSUME RegistryInv, InHand, InOrder, job # Idle, plan' = plan, AnswerChange
    PROVE  InOrder'
<1>1. PICK next \in job.changes :
          \/ SetEnv(next.token, OtherHost) /\ served' = served
          \/ /\ Discard(next.token)
             /\ served' = [served EXCEPT !.order = [@ EXCEPT ![next.token] = <<>>]]
    BY DEF AnswerChange
<1>2. next.token \in Token
    BY DEF InHand, ChangeSet
<1>3. CASE SetEnv(next.token, OtherHost) /\ served' = served
    BY <1>2, <1>3, OtherIsHost, LearnedOrder
<1>4. CASE /\ Put(next.token, None)
           /\ served' = [served EXCEPT !.order = [@ EXCEPT ![next.token] = <<>>]]
    <2>1. /\ served' = [order |-> served'.order, done |-> served'.done, again |-> served'.again]
          /\ served'.order = [served.order EXCEPT ![next.token] = <<>>]
          /\ served'.again = {}
        BY <1>4 DEF InOrder
    <2>. QED
        BY <1>2, <1>4, <2>1, GoneOrder
<1>. QED
    BY <1>1, <1>3, <1>4 DEF Discard

LEMMA OrderKept ==
    ASSUME PlanSound, RegistryInv, InQueue, InHand, Remembered, InOrder, served'.again = {},
           [ServiceNext]_serviceVars
    PROVE  InOrder'
<1>1. CASE UNCHANGED <<plan, rows, served>>
    BY <1>1, OrderStays
<1>2. CASE Phones
    BY <1>1, <1>2 DEF Phones, Challenge, Expire, Arrive, registry
<1>3. CASE Sources
    BY <1>1, <1>3 DEF Sources, Emit, FundsSeen, registry
<1>4. CASE ServePhone
    BY <1>4, PhoneOrder
<1>5. CASE ServeDispatcher
    <2>1. CASE AnswerMatch /\ served' = served
        <3>1. rows' = rows
            BY <2>1 DEF AnswerMatch, LooksUpFor, LookUp, registry
        <3>. QED
            BY <1>1, <1>5, <2>1, <3>1 DEF ServeDispatcher
    <2>2. CASE (AnswerOwn \/ AnswerPrefs \/ AnswerRoute \/ AnswerDetails) /\ served' = served
        BY <1>1, <1>5, <2>2
           DEF ServeDispatcher, AnswerOwn, AnswerPrefs, AnswerRoute, AnswerDetails, registry
    <2>3. CASE AnswerChange
        BY <1>5, <2>3, ServeLeaves, ChangeOrder DEF ServeDispatcher
    <2>. QED
        BY <1>5, <2>1, <2>2, <2>3 DEF ServeDispatcher
<1>6. CASE Send \/ \E rank \in 1..4 : Take(rank)
    BY <1>1, <1>6 DEF Send, Take, registry
<1>7. CASE Forget
    BY <1>1, <1>7 DEF Forget, registry
<1>8. CASE Crash
    BY <1>1, <1>8 DEF Crash, Reload
<1>9. CASE \E t \in Token : Uninstall(t)
    BY <1>1, <1>9 DEF Uninstall, registry
<1>10. CASE UNCHANGED serviceVars
    BY <1>1, <1>10 DEF serviceVars, registry
<1>. QED
    BY <1>2, <1>3, <1>4, <1>5, <1>6, <1>7, <1>8, <1>9, <1>10
       DEF ServiceNext, Actor, Dispatcher, Elsewise

-----------------------------------------------------------------------------
(* The theorems.                                                           *)

LEMMA PlanStays ==
    ASSUME PlanSound, [ServiceNext]_serviceVars
    PROVE  PlanSound'
<1>1. plan' = plan
    BY DEF ServiceNext, Phones, Challenge, Expire, Arrive, Sources, Emit, FundsSeen, Actor,
           ServePhone, ServeDispatcher, Dispatcher, Send, Take, Elsewise, Forget, Crash, Uninstall,
           serviceVars
<1>. QED
    BY <1>1 DEF PlanSound, RingKeys

LEMMA ServiceStarts == ServiceInit => IndInv
<1>. SUFFICES ASSUME ServiceInit
              PROVE  IndInv
    OBVIOUS
<1>1. PlanSound /\ RegistryInv
    BY InitReads DEF ServiceInit
<1>2. Range(<<>>) = {} /\ \A S : <<>> \in Seq(S)
    BY DEF Range
<1>3. InQueue
    BY <1>2 DEF InQueue, ServiceInit, Distinct
<1>4. InLines
    <2>1. lines = NoLines
        BY DEF ServiceInit
    <2>2. /\ lines = [line \in Range(Lines) |-> lines[line]]
          /\ \A line \in Range(Lines) : lines[line] = <<>>
        BY <2>1 DEF NoLines
    <2>3. \A line \in Range(Lines) :
              lines[line] \in Seq(Range(lines[line])) /\ Range(lines[line]) = {}
        BY <1>2, <2>2
    <2>. QED
        BY <2>2, <2>3 DEF InLines
<1>5. InHand /\ Remembered
    BY DEF InHand, Remembered, ServiceInit
<1>6. InPlace
    <2>1. \A call \in plan.calls : call.id \in nonces => call.id \in signed
        BY DEF ServiceInit
    <2>. QED
        BY <1>2, <2>1 DEF InPlace, ServiceInit
<1>7. InOrder
    <2>1. /\ served = [order |-> served.order, done |-> served.done, again |-> served.again]
          /\ served.again = {} /\ served.order = [t \in Token |-> <<>>]
          /\ rows = [t \in Token |-> None]
        BY DEF ServiceInit, RegistryInit
    <2>2. Ordered(None, <<>>)
        BY DEF Ordered, Rising
    <2>. QED
        BY <1>2, <2>1, <2>2 DEF InOrder
<1>. QED
    BY <1>1, <1>3, <1>4, <1>5, <1>6, <1>7 DEF IndInv

LEMMA ServiceKeeps == IndInv /\ [ServiceNext]_serviceVars => IndInv'
<1>. SUFFICES ASSUME IndInv, [ServiceNext]_serviceVars
              PROVE  IndInv'
    OBVIOUS
<1>1. /\ PlanSound /\ RegistryInv /\ InQueue /\ InLines /\ InHand /\ Remembered /\ InPlace
      /\ InOrder
    BY DEF IndInv
<1>2. PlanSound'
    BY <1>1, PlanStays
<1>3. RegistryInv'
    BY <1>1, RegistrySteps, StepKeeps
<1>4. InQueue' /\ InLines'
    BY <1>1, QueueKept, LinesKept
<1>5. InHand' /\ Remembered'
    BY <1>1, HandKept
<1>6. InPlace' /\ served'.again = {}
    BY <1>1, PlaceKept
<1>7. InOrder'
    BY <1>1, <1>6, OrderKept
<1>. QED
    BY <1>2, <1>3, <1>4, <1>5, <1>6, <1>7 DEF IndInv

\* What the push service does to its registry are commands of the registry and
\* restarts, whatever the phones ask and the dispatcher learns
\* (PushRegistry::process).
THEOREM RegistryTheorem == ServiceSpec => RegistrySpec
<1>1. ServiceInit => IndInv /\ RegistryInit
    BY ServiceStarts DEF ServiceInit
<1>2. IndInv /\ [ServiceNext]_serviceVars => IndInv' /\ [RegistryNext]_registry
    BY ServiceKeeps, RegistrySteps DEF IndInv
<1>. QED
    BY <1>1, <1>2, PTL DEF ServiceSpec, RegistrySpec

\* The indexes, the cached filters and the gate say what the rows say, all through
\* the requests, events, answers of providers and restarts of the service.
THEOREM ReadsTheorem == ServiceSpec => []ReadsTrue
    BY RegistryTheorem, RegistryReadsTrue, PTL

\* A signed request takes effect at most once, however often the network delivers
\* it and whatever restarts come between, and the requests of one device key rise
\* for as long as no other key signs one (NonceStore::consume, resolve_device_key_binding).
THEOREM RequestsTheorem == ServiceSpec => []RequestsHold
<1>1. ServiceInit => IndInv
    BY ServiceStarts
<1>2. IndInv /\ [ServiceNext]_serviceVars => IndInv'
    BY ServiceKeeps
<1>3. IndInv => RequestsHold
    BY DEF IndInv, InOrder, Ordered, Rising, RequestsHold
<1>. QED
    BY <1>1, <1>2, <1>3, PTL DEF ServiceSpec

\* No phone is pushed the same thing twice until its key is forgotten or the
\* process restarts (SentTxCache::mark_seen).
THEOREM PushedTheorem == ServiceSpec => []PushedOnce
<1>1. ServiceInit => IndInv
    BY ServiceStarts
<1>2. IndInv /\ [ServiceNext]_serviceVars => IndInv'
    BY ServiceKeeps
<1>3. IndInv => PushedOnce
    BY DEF IndInv, Remembered, PushedOnce
<1>. QED
    BY <1>1, <1>2, <1>3, PTL DEF ServiceSpec
=============================================================================
