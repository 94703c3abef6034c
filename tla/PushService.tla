------------------------------ MODULE PushService ------------------------------
(***************************************************************************)
(* The push service around the registry: signed requests of phones         *)
(* (indexer/src/api/v1/push.rs), the block processor's funds check         *)
(* (indexer-actors/src/block_processor.rs), and the dispatcher that turns  *)
(* events into pushes (indexer/src/push.rs, PushDispatcher).               *)
(*                                                                         *)
(* The registry actor serves one queue of commands: phones' requests and   *)
(* the dispatcher's questions, which it asks one at a time. The dispatcher *)
(* serves four queues, calls first, and handles an event through several   *)
(* awaits: match, filter, route, send by one transport after another, then *)
(* the registry changes the providers' answers call for. What it remembers *)
(* (keys already sent, strikes against a token, rates) dies with it.       *)
(***************************************************************************)
EXTENDS PushRegistry, Sequences, FiniteSets, SequencesExt

CONSTANTS
    Strikes,        \* invalid-token answers before a registration is dropped (10)
    RateMax,        \* funds pushes per device and window (30)
    QueueCap,       \* capacity of an event queue (256 to 2048)
    CommandCap,     \* capacity of the registry's queue (256)
    AuthMode,       \* "strict", "mixed" or "legacy"
    DefaultHost,    \* the APNs host of the configuration
    Configured      \* the transports that are set up, among apns, fcm and web

VARIABLES
    plan,       \* what happens outside: calls, events, transactions, homes, limits
    nonces,     \* ids of the issued, unused nonces (memory)
    signed,     \* ids of the requests on the network
    arrived,    \* id -> deliveries accepted
    commands,   \* the registry actor's queue
    served,     \* which requests took effect
    lines,      \* the dispatcher's four queues
    job,        \* the event the dispatcher is handling
    seen,       \* keys taken as sent (memory, forgotten after an hour)
    strikes,    \* Token -> invalid answers (memory)
    rate,       \* Token -> funds pushes in the window (memory)
    coins,      \* watched outpoints: pairs <<outpoint, address>>
    shown,      \* id -> times an event or transaction was shown
    alive,      \* tokens whose app is still installed
    faults,     \* crashes, failed sends and forgetting hours left
    pushed      \* what phones got: told, twice, missed

front      == <<nonces, signed, arrived>>
dispatcher == <<lines, job, seen, strikes, rate>>
chain      == <<coins, shown>>
serviceVars == <<registry, plan, front, commands, served, dispatcher, chain, alive, faults, pushed>>

Lines == <<"ring", "chat", "ext", "funds">>

-----------------------------------------------------------------------------
(* Requests.                                                               *)

Signed(call) == call.wallet # None \/ call.device # None

\* The phone asks for a nonce and signs with it; unsigned requests need none.
Challenge(call) ==
    /\ call.id \notin signed
    /\ signed' = signed \cup {call.id}
    /\ nonces' = IF Signed(call) THEN nonces \cup {call.id} ELSE nonces
    /\ UNCHANGED <<registry, plan, arrived, commands, served, dispatcher, chain, alive, faults,
                   pushed>>

\* A nonce lives a minute.
Expire(call) ==
    /\ plan.expiry
    /\ call.id \in nonces
    /\ nonces' = nonces \ {call.id}
    /\ UNCHANGED <<registry, plan, signed, arrived, commands, served, dispatcher, chain, alive,
                   faults, pushed>>

\* What a request without a signature may do.
AllowedUnsigned(call) ==
    /\ AuthMode # "strict"
    /\ call.op # "ring"
    /\ call.op # "unregister" =>
          /\ call.wish.groups = {}
          /\ AuthMode = "mixed" => call.wish.primary = None

\* A primary address must be the signer's; groups need one.
OwnAddress(call) ==
    call.wish.groups # {} \/ call.wish.primary # None => call.wish.primary = call.wallet

Authentic(call) ==
    IF Signed(call)
    THEN /\ call.id \in nonces
         /\ call.op # "unregister" => call.wallet # None
         /\ call.op \in {"register", "update"} => OwnAddress(call)
    ELSE AllowedUnsigned(call)

\* A request arrives, as often as the network delivers it; an accepted one uses
\* its nonce up and becomes a command. A refused one changes nothing.
Arrive(call) ==
    /\ call.id \in signed
    /\ arrived[call.id] < plan.deliveries
    /\ Len(commands) < CommandCap
    /\ Authentic(call)
    /\ arrived' = [arrived EXCEPT ![call.id] = @ + 1]
    /\ nonces' = nonces \ {call.id}
    /\ commands' = Append(commands, call)
    /\ UNCHANGED <<registry, plan, signed, served, dispatcher, chain, alive, faults, pushed>>

-----------------------------------------------------------------------------
(* The actor serves a phone's request.                                     *)

Belongs(call) ==
    LET row == rows[call.token] IN
    row # None /\ (row.wallet = call.wallet \/ row.want.primary = call.wallet)

MayServe(call) ==
    \/ call.op = "register" /\ MaySave(call.token, call.wish, call.wallet, call.device)
    \/ call.op = "update" /\ MaySave(call.token, call.wish, call.wallet, call.device)
    \/ call.op = "unregister" /\ MayRemove(call.token, call.wallet, call.device)
    \/ call.op = "ring" /\ Belongs(call)

\* A ring goes to the dispatcher's first queue, unless the limiter refuses it or
\* the queue is full.
Rings(call) ==
    /\ \/ Len(lines["ring"]) < QueueCap
          /\ lines' = [lines EXCEPT !["ring"] = Append(@, call.event)]
       \/ UNCHANGED lines
    /\ UNCHANGED registry

Does(call) ==
    \/ /\ \/ call.op = "register" /\ Register(call.token, call.wish, call.wallet, call.device)
          \/ call.op = "update" /\ Update(call.token, call.wish, call.wallet, call.device)
          \/ call.op = "unregister" /\ Unregister(call.token, call.wallet, call.device)
       /\ UNCHANGED lines
    \/ call.op = "ring" /\ Rings(call)

\* Bookkeeping: the requests that made the row as it stands, all that ever took
\* effect, and the signed ones that did twice.
Booked(call) ==
    [order |-> [served.order EXCEPT ![call.token] =
                   CASE call.op = "unregister" -> <<>>
                     [] call.op = "ring" -> @
                     [] OTHER -> Append(@, call)],
     done  |-> served.done \cup {call.id},
     again |-> IF Signed(call) /\ call.id \in served.done
               THEN served.again \cup {call.id} ELSE served.again]

ServePhone ==
    /\ commands # <<>> /\ Head(commands) # None
    /\ commands' = Tail(commands)
    /\ LET call == Head(commands) IN
       \/ MayServe(call) /\ Does(call) /\ served' = Booked(call)
       \/ ~MayServe(call) /\ UNCHANGED <<registry, lines, served>>
    /\ UNCHANGED <<plan, front, job, seen, strikes, rate, chain, alive, faults, pushed>>

-----------------------------------------------------------------------------
(* Events.                                                                 *)

\* Senders of events never wait: a full queue drops the event.
Queued(line, event) ==
    lines' = IF Len(lines[line]) < QueueCap
             THEN [lines EXCEPT ![line] = Append(@, event)] ELSE lines

\* The block and chain processors (chat) and the internal endpoints (ext) hand
\* an event over; a transaction seen in two blocks is handed over twice.
Emit(event) ==
    /\ shown[event.id] < event.times
    /\ shown' = [shown EXCEPT ![event.id] = @ + 1]
    /\ Queued(event.line, event)
    /\ UNCHANGED <<registry, plan, front, commands, served, job, seen, strikes, rate, coins,
                   alive, faults, pushed>>

\* The watched addresses whose outputs a transaction spends, and those it pays.
Spenders(tx) == {coin[2] : coin \in {c \in coins : c[1] \in tx.spends}}
Credits(tx)  == SelectSeq(tx.pays, LAMBDA address : address \in gate)

\* The block processor sees a transaction: it records each output that pays a
\* watched address and hands over one funds event.
FundsSeen(tx) ==
    /\ shown[tx.id] < tx.times
    /\ shown' = [shown EXCEPT ![tx.id] = @ + 1]
    /\ IF gate = {} THEN UNCHANGED coins
       ELSE coins' = coins \cup {<<<<tx.id, i>>, tx.pays[i]>> : i \in
                                    {k \in DOMAIN tx.pays : tx.pays[k] \in gate}}
    /\ IF gate = {} \/ Credits(tx) = <<>> THEN UNCHANGED lines
       ELSE Queued("funds", [id |-> tx.id, line |-> "funds", kind |-> "funds", key |-> tx.id,
                             about |-> Credits(tx), alias |-> None, receiver |-> None,
                             sender |-> None, senders |-> Spenders(tx), times |-> tx.times])
    /\ UNCHANGED <<registry, plan, front, commands, served, job, seen, strikes, rate, alive,
                   faults, pushed>>

-----------------------------------------------------------------------------
(* Which devices an event is for.                                          *)

Settings(t) == rows[t].want.prefs
Primary(t)  == rows[t].want.primary

\* Lookups that scan the rows.
Scans(t, event, about) ==
    /\ rows[t] # None
    /\ CASE event.kind = "broadcast" -> /\ about \in Settings(t).channels
                                        /\ Primary(t) # event.sender
                                        /\ event.sender \notin Settings(t).hidden
         [] event.kind = "kaposts"   -> Settings(t).kaposts = about /\ about # event.sender
         [] event.kind = "newpost"   -> /\ about \in Settings(t).bells
                                        /\ Settings(t).kaposts # about
         [] event.kind \in {"name", "inbox"} -> Primary(t) = about
         [] event.kind = "ring"      -> Primary(t) = about /\ rows[t].want.voip
         [] event.kind = "funds"     -> /\ about \in WatchOnly(rows[t])
                                        /\ WatchOnly(rows[t]) \cap event.senders = {}

\* Mutant: the filters of a token that is not cached are not read from its row.
KnownCached(t) == cache[t]
\* Lookups by index, with the filters as Hydrated leaves them.
Known(t) == IF cache[t] = None THEN FiltersOf(rows[t]) ELSE cache[t]

AllowsAlias(t, alias) ==
    alias = None \/ (Known(t) # None /\ (Known(t).aliases = {} \/ alias \in Known(t).aliases))

IsReceiver(t, receiver) ==
    receiver = None \/ (Known(t) # None /\ Known(t).primary = receiver)

ByIndex(event, about) ==
    CASE event.kind = "group" -> {t \in Token : <<about, t>> \in byGroup}
      [] event.kind = "control" /\ event.receiver # None ->
             {t \in Token : <<event.receiver, t>> \in byPrimary}
      [] event.kind = "control" /\ event.receiver = None -> Watchers(event.sender)
      [] event.kind \in {"contextual", "payment"} ->
             {t \in Watchers(about) : AllowsAlias(t, event.alias) /\ IsReceiver(t, event.receiver)}

Indexed == {"group", "control", "contextual", "payment"}

Matched(event, about) ==
    IF event.kind \in Indexed THEN ByIndex(event, about)
    ELSE {t \in Token : Scans(t, event, about)}

\* The registry's side of a lookup.
LooksUpFor(event, about) ==
    IF event.kind \in {"contextual", "payment"}
    THEN LookUp(about, event.alias # None \/ event.receiver # None)
    ELSE UNCHANGED registry

\* Which apps take which kind of push; no app named means KaChat, and so does a
\* token without a row.
TakesPush(app, kind) ==
    \/ app = "wallet" /\ kind \in {"funds", "name"}
    \/ app = "kaposts" /\ kind \in {"kaposts", "newpost", "broadcast"}
    \/ app \in {"kachat", None} /\ kind \in {"contextual", "payment", "inbox", "group", "control"}

AppOf(t) == IF rows[t] = None THEN None ELSE rows[t].want.app

\* android goes by FCM, web by Web Push, everything else by APNs.
Transport(t) ==
    IF rows[t] # None /\ rows[t].want.platform = "android" THEN "fcm"
    ELSE IF rows[t] # None /\ rows[t].want.platform = "web" THEN "web" ELSE "apns"

\* The key under which a push is remembered as sent.
KeyOf(event, about) == <<event.key, IF event.line = "funds" THEN about ELSE None>>

-----------------------------------------------------------------------------
(* The dispatcher. A job handles one event, for funds one credited address  *)
(* after the other (rest). via lists the transports still to serve.         *)

Job(event, about, rest) ==
    [step |-> "match", event |-> event, about |-> about, rest |-> rest, tokens |-> {},
     routes |-> [t \in Token |-> "none"], via |-> <<>>, envs |-> [t \in Token |-> None],
     results |-> [t \in Token |-> "none"], changes |-> {}]

Idle == [step |-> "idle"]

\* A question to the registry takes its place in the actor's queue.
Asking(queue) == Append(queue, None)

\* Mutant: a funds event is not marked as sent.
MarkedAtOnceExtOnly(event) == event.line = "ext"
MarkedAtOnce(event) == event.line \in {"ext", "funds"}

\* Go on with the next subject of the event that was not sent already; ext and
\* funds keys are marked before anything else happens.
Begin(event, subjects, queue) ==
    LET fresh == {i \in DOMAIN subjects :
                     ~MarkedAtOnce(event) \/ KeyOf(event, subjects[i]) \notin seen} IN
    \/ fresh = {} /\ job' = Idle /\ commands' = queue /\ UNCHANGED seen
    \/ \E i \in fresh :
         /\ \A k \in fresh : i <= k
         /\ job' = Job(event, subjects[i], SubSeq(subjects, i + 1, Len(subjects)))
         /\ commands' = Asking(queue)
         /\ seen' = IF MarkedAtOnce(event) THEN seen \cup {KeyOf(event, subjects[i])} ELSE seen

\* The biased select: an earlier queue goes first.
Take(rank) ==
    /\ job = Idle
    /\ lines[Lines[rank]] # <<>>
    /\ \A i \in 1..(rank - 1) : lines[Lines[i]] = <<>>
    /\ Len(commands) < CommandCap
    /\ lines' = [lines EXCEPT ![Lines[rank]] = Tail(@)]
    /\ LET event == Head(lines[Lines[rank]]) IN
       Begin(event, event.about, commands)
    /\ UNCHANGED <<registry, plan, front, served, strikes, rate, chain, alive, faults, pushed>>

\* The job goes on to a further question, or is over.
Ask(change)      == job' = change /\ commands' = Asking(Tail(commands)) /\ UNCHANGED seen
NextSubject      == Begin(job.event, job.rest, Tail(commands))
Route(tokens)    == Ask([job EXCEPT !.step = "route", !.tokens = tokens])

Missing(event, about, tokens) ==
    [pushed EXCEPT !.missed = @ \cup {<<KeyOf(event, about), t>> : t \in tokens}]

Telling(event, about, tokens) ==
    LET now == {<<KeyOf(event, about), t>> : t \in tokens} IN
    [pushed EXCEPT !.told = @ \cup now,
                   !.twice = IF event.line = "ring" THEN @ ELSE @ \cup (now \cap pushed.told)]

\* Match, by the kind of event: chat events have their sender's own devices
\* filtered out next, KaPosts events the devices that switched their kind off;
\* funds are limited per device; a call rings at once and is not routed.
Rated(tokens) == {t \in tokens : rate[t] < RateMax}

MatchChat(found) ==
    /\ job.event.line = "chat"
    /\ \/ found # {} /\ Ask([job EXCEPT !.step = "own", !.tokens = found])
       \/ found = {} /\ NextSubject
    /\ UNCHANGED <<rate, pushed>>

MatchExt(found) ==
    /\ job.event.line = "ext"
    /\ \/ found = {} /\ NextSubject
       \/ found # {} /\ job.event.kind = "kaposts"
          /\ Ask([job EXCEPT !.step = "prefs", !.tokens = found])
       \/ found # {} /\ job.event.kind # "kaposts" /\ Route(found)
    /\ UNCHANGED <<rate, pushed>>

MatchFunds(found) ==
    /\ job.event.line = "funds"
    /\ rate' = [t \in Token |-> IF t \in Rated(found) THEN rate[t] + 1 ELSE rate[t]]
    /\ pushed' = Missing(job.event, job.about, found \ Rated(found))
    /\ \/ Rated(found) = {} /\ NextSubject
       \/ Rated(found) # {} /\ Route(Rated(found))

MatchRing(found) ==
    /\ job.event.line = "ring"
    /\ pushed' = IF "apns" \in Configured THEN Telling(job.event, job.about, found) ELSE pushed
    /\ NextSubject
    /\ UNCHANGED rate

AnswerMatch ==
    /\ job.step = "match"
    /\ LooksUpFor(job.event, job.about)
    /\ LET found == Matched(job.event, job.about) IN
       MatchChat(found) \/ MatchExt(found) \/ MatchFunds(found) \/ MatchRing(found)
    /\ UNCHANGED strikes

\* A chat event is marked as sent once somebody else is left to hear it.
AnswerOwn ==
    /\ job.step = "own"
    /\ LET others == {t \in job.tokens : rows[t] = None \/ Primary(t) # job.event.sender}
           key == KeyOf(job.event, job.about) IN
       \/ others = {} /\ NextSubject
       \/ others # {} /\ key \in seen /\ NextSubject
       \/ /\ others # {} /\ key \notin seen
          /\ seen' = seen \cup {key}
          /\ job' = [job EXCEPT !.step = "route", !.tokens = others]
          /\ commands' = Asking(Tail(commands))
    /\ UNCHANGED <<registry, strikes, rate, pushed>>

AnswerPrefs ==
    /\ job.step = "prefs"
    /\ LET open == {t \in job.tokens : rows[t] = None \/ ~Settings(t).quiet} IN
       \/ open = {} /\ NextSubject
       \/ open # {} /\ Route(open)
    /\ UNCHANGED <<registry, strikes, rate, pushed>>

\* A transport takes its turn when it is set up and something goes by it.
Turn(transport, routes) ==
    IF transport \in Configured /\ \E t \in Token : routes[t] = transport
    THEN <<transport>> ELSE <<>>

\* Platforms and apps decide the transport; the tokens of a transport that is
\* not set up are let go.
AnswerRoute ==
    /\ job.step = "route"
    /\ LET takers == {t \in job.tokens : TakesPush(AppOf(t), job.event.kind)}
           routes == [t \in Token |-> IF t \in takers THEN Transport(t) ELSE "none"]
           via == Turn("apns", routes) \o Turn("fcm", routes) \o Turn("web", routes) IN
       \/ via = <<>> /\ NextSubject
       \/ via # <<>> /\ Ask([job EXCEPT !.step = "details", !.routes = routes, !.via = via])
    /\ UNCHANGED <<registry, strikes, rate, pushed>>

\* What a transport needs per token: the APNs host, the browser's subscription.
AnswerDetails ==
    /\ job.step = "details"
    /\ job' = [job EXCEPT !.step = "send", !.envs =
                  [t \in Token |-> IF rows[t] = None THEN "gone" ELSE rows[t].want.env]]
    /\ commands' = Tail(commands)
    /\ UNCHANGED <<registry, seen, strikes, rate, pushed>>

-----------------------------------------------------------------------------
(* Sending. Every token of the transport is sent to before anything is      *)
(* written back.                                                            *)

\* What APNs says of a token at one of its two hosts.
HostSays(t, host) ==
    IF plan.home[t] # host THEN "invalid" ELSE IF t \in alive THEN "ok" ELSE "gone"

OtherHost == CHOOSE host \in Hosts : host # DefaultHost

\* A stored host is asked directly; without one the default host first and, when
\* it does not know the token, the other, whose word counts only if it is ok.
Elsewhere(t) == HostSays(t, DefaultHost) = "invalid" /\ HostSays(t, OtherHost) = "ok"

ApnsSays(t) ==
    IF job.envs[t] \in Hosts THEN HostSays(t, job.envs[t])
    ELSE IF Elsewhere(t) THEN "ok" ELSE HostSays(t, DefaultHost)

Says(t, transport) ==
    IF transport = "apns" THEN ApnsSays(t)
    ELSE IF t \notin alive \/ (transport = "web" /\ job.envs[t] = "gone") THEN "gone" ELSE "ok"

\* The host that answered ok though nobody knew it is written back.
Learned(t, results) ==
    job.envs[t] \notin Hosts /\ Elsewhere(t) /\ results[t] = "ok"

Changes(tokens, change) == {[token |-> t, change |-> change] : t \in tokens}

\* After the last transport: strikes are counted, and tokens that are gone or
\* have had their last strike are dropped.
Struck(results)  == {t \in Token : results[t] = "invalid"}
Out(results)     == {t \in Struck(results) : strikes[t] + 1 >= Strikes}
Dropped(results) == {t \in Token : results[t] = "gone"} \cup Out(results)

Strike(results) ==
    [t \in Token |-> IF results[t] = "ok" \/ t \in Dropped(results) THEN 0
                     ELSE IF t \in Struck(results) THEN strikes[t] + 1 ELSE strikes[t]]

Settle(work, queue) ==
    /\ strikes' = Strike(work.results)
    /\ \/ /\ Dropped(work.results) # {}
          /\ job' = [work EXCEPT !.step = "change",
                                 !.results = [t \in Token |-> "none"],
                                 !.changes = Changes(Dropped(work.results), "drop")]
          /\ commands' = Asking(queue)
          /\ UNCHANGED seen
       \/ /\ Dropped(work.results) = {}
          /\ Begin(work.event, work.rest, queue)

\* Pending changes first, then the next transport, then the outcome.
Proceed(work, queue) ==
    \/ /\ work.changes # {}
       /\ job' = [work EXCEPT !.step = "change"]
       /\ commands' = Asking(queue)
       /\ UNCHANGED <<seen, strikes>>
    \/ /\ work.changes = {} /\ work.via # <<>>
       /\ job' = [work EXCEPT !.step = "details"]
       /\ commands' = Asking(queue)
       /\ UNCHANGED <<seen, strikes>>
    \/ /\ work.changes = {} /\ work.via = <<>>
       /\ Settle(work, queue)

\* One send may fail (no answer, refused, no credentials).
Sent(lost) ==
    LET transport == Head(job.via)
        batch == {t \in job.tokens : job.routes[t] = transport}
        results == [t \in Token |-> IF t \in lost THEN "failed"
                                    ELSE IF t \in batch THEN Says(t, transport)
                                    ELSE job.results[t]]
        learned == IF transport = "apns" THEN {t \in batch : Learned(t, results)} ELSE {}
    IN
    /\ lost \subseteq batch
    /\ pushed' = [Telling(job.event, job.about, {t \in batch : results[t] = "ok"})
                     EXCEPT !.missed = @ \cup {<<KeyOf(job.event, job.about), t>> : t \in lost}]
    /\ Proceed([job EXCEPT !.results = results, !.via = Tail(@),
                           !.changes = Changes(learned, "learn")], commands)

Send ==
    /\ job.step = "send"
    /\ \/ Sent({}) /\ UNCHANGED faults
       \/ /\ faults.sends > 0
          /\ faults' = [faults EXCEPT !.sends = @ - 1]
          /\ \E t \in Token : Sent({t})
    /\ UNCHANGED <<registry, plan, front, served, lines, rate, chain, alive>>

AnswerChange ==
    /\ job.step = "change"
    /\ \E next \in job.changes :
       /\ \/ /\ next.change = "learn"
             /\ SetEnv(next.token, OtherHost)
             /\ UNCHANGED served
          \/ /\ next.change = "drop"
             /\ Discard(next.token)
             /\ served' = [served EXCEPT !.order = [@ EXCEPT ![next.token] = <<>>]]
       /\ Proceed([job EXCEPT !.changes = @ \ {next}], Tail(commands))
    /\ UNCHANGED <<rate, pushed>>

\* The actor answers the dispatcher's question.
ServeDispatcher ==
    /\ commands # <<>> /\ Head(commands) = None
    /\ \/ /\ AnswerMatch \/ AnswerOwn \/ AnswerPrefs \/ AnswerRoute \/ AnswerDetails
          /\ UNCHANGED served
       \/ AnswerChange
    /\ UNCHANGED <<plan, front, lines, chain, alive, faults>>

-----------------------------------------------------------------------------
(* Outside and time.                                                       *)

\* An app is removed from a phone.
Uninstall(t) ==
    /\ t \in plan.leaving /\ t \in alive
    /\ alive' = alive \ {t}
    /\ UNCHANGED <<registry, plan, front, commands, served, dispatcher, chain, faults, pushed>>

\* An hour later, with the job of a key long over: the key is no longer
\* remembered as sent, a funds push no longer counts against its device.
Forget ==
    /\ faults.hours > 0
    /\ faults' = [faults EXCEPT !.hours = @ - 1]
    /\ \/ \E key \in seen :
             /\ job # Idle => key # KeyOf(job.event, job.about)
             /\ seen' = seen \ {key}
             /\ pushed' = [pushed EXCEPT !.told = {p \in @ : p[1] # key}]
             /\ UNCHANGED rate
       \/ \E t \in Token :
             /\ rate[t] > 0
             /\ rate' = [rate EXCEPT ![t] = @ - 1]
             /\ UNCHANGED <<seen, pushed>>
    /\ UNCHANGED <<registry, plan, front, commands, served, lines, job, strikes, chain, alive>>

\* The process dies and starts again on its partitions. What waited or was being
\* handled is lost; what it had marked as sent may be sent again.
Waiting == UNION {{lines[Lines[i]][k] : k \in DOMAIN lines[Lines[i]]} : i \in 1..4}
           \cup (IF job = Idle THEN {} ELSE {job.event})

Underway == UNION {{<<event, event.about[i]>> : i \in DOMAIN event.about} : event \in Waiting}

NoLines == [line \in Range(Lines) |-> <<>>]
Nought  == [t \in Token |-> 0]

Crash ==
    /\ faults.crashes > 0
    /\ faults' = [faults EXCEPT !.crashes = @ - 1]
    /\ Reload
    /\ commands' = <<>> /\ nonces' = {}
    /\ lines' = NoLines /\ job' = Idle /\ seen' = {}
    /\ strikes' = Nought /\ rate' = Nought
    /\ pushed' = [pushed EXCEPT !.told = {}, !.missed = @ \cup
                     {KeyOf(pair[1], pair[2]) : pair \in Underway} \X Token]
    /\ UNCHANGED <<plan, signed, arrived, served, chain, alive>>

-----------------------------------------------------------------------------
(* The specification. A plan says what happens outside: no two calls have  *)
(* one id, and no event has the key of a call that rings.                  *)

RingKeys == {call.event.key : call \in {c \in plan.calls : c.op = "ring"}}

PlanSound ==
    /\ None \notin plan.calls
    /\ \A call \in plan.calls :
           /\ call.token \in Token /\ call.wish \in Wish
           /\ call.wallet \in Maybe(Address) /\ call.device \in Maybe(Device)
           /\ call.op = "ring" => call.event.line = "ring"
           /\ \A other \in plan.calls : other.id = call.id => other = call
    /\ \A event \in plan.events : event.line # "ring" /\ event.key \notin RingKeys
    /\ \A tx \in plan.txs : tx.id \notin RingKeys

ServiceInit ==
    /\ PlanSound /\ RegistryInit
    /\ commands = <<>> /\ lines = NoLines /\ job = Idle /\ seen = {}
    /\ strikes = Nought /\ rate = Nought
    /\ signed = plan.asked
    /\ nonces = {call.id : call \in {c \in plan.calls : c.id \in plan.asked /\ Signed(c)}}
    /\ arrived = [id \in {call.id : call \in plan.calls} |-> 0]
    /\ served = [order |-> [t \in Token |-> <<>>], done |-> {}, again |-> {}]
    /\ coins = {}
    /\ shown = [id \in {x.id : x \in plan.events \cup plan.txs} |-> 0]
    /\ alive = Token
    /\ faults = plan.faults
    /\ pushed = [told |-> {}, twice |-> {}, missed |-> {}]

Phones     == \E call \in plan.calls : Challenge(call) \/ Expire(call) \/ Arrive(call)
Sources    == \/ \E event \in plan.events : Emit(event)
              \/ \E tx \in plan.txs : FundsSeen(tx)
Actor      == ServePhone \/ ServeDispatcher
Dispatcher == Send \/ \E rank \in 1..4 : Take(rank)
Elsewise   == Forget \/ Crash \/ \E t \in Token : Uninstall(t)

ServiceNext == Phones \/ Sources \/ Actor \/ Dispatcher \/ Elsewise

ServiceSpec == ServiceInit /\ [][ServiceNext]_serviceVars

\* Both loops run as long as the process does.
ServiceFairness == WF_serviceVars(Actor) /\ WF_serviceVars(Dispatcher)

-----------------------------------------------------------------------------
(* Properties.                                                             *)

\* Of the requests from i to j a device key signed the first, and no other key any.
KeyAlone(order, i, j) ==
    /\ order[i].device # None
    /\ \A k \in i..j : order[k].device # None => order[k].device.key = order[i].device.key

\* A signed request takes effect at most once, however often the network
\* delivers it and whatever restarts come between; and on one registration the
\* requests a device key signed take effect in the order of its counter for as
\* long as no other key signs one, so a late one never undoes a newer one of the
\* same device (NonceStore::consume, resolve_device_key_binding).
RequestsHold ==
    /\ served.again = {}
    /\ \A t \in Token : LET order == served.order[t] IN
        \A i, j \in DOMAIN order :
            i < j /\ order[j].device # None /\ KeyAlone(order, i, j) =>
                order[i].device.counter < order[j].device.counter

\* Until its key is forgotten or the process restarts, no phone is pushed the
\* same thing twice -- not for a transaction in two blocks, an internal call
\* made again, or two outputs to one address (SentTxCache::mark_seen).
PushedOnce == pushed.twice = {}

\* Whether a phone is to hear of an event, by its row alone.
Wants(t, event, about) ==
    /\ rows[t] # None
    /\ event.line = "ring" \/ TakesPush(AppOf(t), event.kind)
    /\ (IF event.line = "ring" THEN "apns" ELSE Transport(t)) \in Configured
    /\ event.line = "chat" => Primary(t) # event.sender
    /\ event.kind = "kaposts" => ~Settings(t).quiet
    /\ CASE event.kind = "group"   -> about \in Joined(rows[t])
         [] event.kind = "control" ->
                IF event.receiver # None THEN event.receiver \in Own(rows[t])
                ELSE event.sender \in Watching(rows[t])
         [] event.kind \in {"contextual", "payment"} ->
                /\ about \in Watching(rows[t])
                /\ event.alias = None \/ rows[t].want.aliases = {}
                   \/ event.alias \in rows[t].want.aliases
                /\ event.receiver = None \/ Primary(t) = event.receiver
         [] OTHER -> Scans(t, event, about)

\* A phone the providers reach: the app is there and the stored host, if any, is
\* the one that knows the token.
Reachable(t) ==
    /\ t \in alive
    /\ rows[t] # None => rows[t].want.env \in {None, plan.home[t]}

\* In line, not begun, and not remembered as sent.
InLine(event, about) ==
    /\ \E k \in DOMAIN lines[event.line] :
           lines[event.line][k].id = event.id /\ about \in Range(lines[event.line][k].about)
    /\ job # Idle => KeyOf(job.event, about) # KeyOf(event, about)
    /\ KeyOf(event, about) \notin seen

Answered(event, about, t) ==
    \/ <<KeyOf(event, about), t>> \in pushed.told \cup pushed.missed
    \/ ~Wants(t, event, about) \/ ~Reachable(t)
=============================================================================
