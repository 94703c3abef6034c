-------------------------------- MODULE MCPush --------------------------------
(***************************************************************************)
(* The push service with two devices. A behaviour follows one plan: what   *)
(* the phones ask, what the node shows, which faults may happen. Together  *)
(* the plans meet every kind of push, all three platforms and apps.        *)
(***************************************************************************)
EXTENDS PushService

CONSTANTS d1, d2, a, b, g, x, y, k1, k2

Quiet == [channels |-> {}, hidden |-> {}, kaposts |-> None, bells |-> {}, quiet |-> FALSE]
Asks  == [platform |-> "ios", app |-> None, addresses |-> {}, groups |-> {}, watchOnly |-> {},
          primary |-> None, aliases |-> {}, env |-> None, voip |-> FALSE, prefs |-> Quiet]
Posts == [Quiet EXCEPT !.channels = {x}, !.kaposts = a, !.bells = {b}]
MCPrefs == {Quiet, Posts, [Posts EXCEPT !.quiet = TRUE]}

Call(id, op, token, wish, wallet, device) ==
    [id |-> id, op |-> op, token |-> token, wish |-> wish, wallet |-> wallet, device |-> device,
     event |-> None]
By(key, counter) == [key |-> key, counter |-> counter]

Event(id, line, kind, about, sender) ==
    [id |-> id, line |-> line, kind |-> kind, key |-> id, about |-> <<about>>, alias |-> None,
     receiver |-> None, sender |-> sender, senders |-> {}, times |-> 1]
Tx(id, spends, pays, times) == [id |-> id, spends |-> spends, pays |-> pays, times |-> times]

Plan == [calls |-> {}, events |-> {}, txs |-> {}, home |-> [t \in Token |-> DefaultHost],
         faults |-> [crashes |-> 0, sends |-> 0, hours |-> 0], deliveries |-> 1, expiry |-> FALSE, asked |-> {},
         leaving |-> {}, focus |-> None]
Focus(event, about, token) == [event |-> event, about |-> about, token |-> token]

\* A message between two addresses, shown in two blocks; the sender's device
\* watches the address too. The receiver changes its aliases; a crash.
Message == [Event("m", "chat", "contextual", b, b) EXCEPT !.alias = x, !.receiver = a, !.times = 2]
Chats ==
    [Plan EXCEPT
        !.calls = {Call("1", "register", d1, [Asks EXCEPT !.addresses = {b}, !.primary = a], a, None),
                   Call("2", "register", d2, [Asks EXCEPT !.addresses = {b}, !.primary = b], b, None),
                   Call("3", "update", d1,
                        [Asks EXCEPT !.addresses = {b}, !.primary = a, !.aliases = {x}], a, None)},
        !.events = {Message, Event("p", "chat", "payment", b, None)},
        !.asked = {"1", "2"}, !.faults = [crashes |-> 1, sends |-> 0, hours |-> 0],
        !.focus = Focus(Message, b, d1)]

\* The requests of one token by two device keys, delivered twice, with nonces
\* that run out and a crash.
Requests ==
    [Plan EXCEPT
        !.calls = {Call("1", "register", d1, [Asks EXCEPT !.primary = a], a, By(k1, 1)),
                   Call("2", "update", d1, [Asks EXCEPT !.watchOnly = {b}], a, By(k1, 2)),
                   Call("3", "unregister", d1, Asks, None, By(k1, 3)),
                   Call("4", "register", d1, [Asks EXCEPT !.groups = {g}, !.primary = a], a, By(k2, 1)),
                   Call("5", "update", d1, [Asks EXCEPT !.addresses = {a}], None, None)},
        !.deliveries = 2, !.expiry = TRUE, !.faults = [crashes |-> 1, sends |-> 0, hours |-> 0]]

\* What the companion services report, each call made twice: KaPosts interactions,
\* bells, channels.
Kapost == [Event("k", "ext", "kaposts", a, b) EXCEPT !.times = 2]
Ext ==
    [Plan EXCEPT
        !.calls = {Call("1", "register", d1,
                        [Asks EXCEPT !.app = "kaposts", !.addresses = {a}, !.prefs = Posts], None, None),
                   Call("2", "update", d1,
                        [Asks EXCEPT !.addresses = {a}, !.prefs = [Posts EXCEPT !.quiet = TRUE]], None, None),
                   Call("3", "unregister", d1, Asks, None, None)},
        !.events = {Kapost, Event("n", "ext", "newpost", b, b), Event("c", "ext", "broadcast", x, b)},
        !.asked = {"1", "2", "3"},
        !.focus = Focus(Kapost, a, d1)]

\* Two wallets watch addresses: payments to one address twice in a transaction, a
\* payment from one watched address to the other, blocks that show them again; a
\* name one of them holds.
Payments == <<Tx("p", {}, <<a, a, b>>, 2), Tx("q", {<<"p", 1>>}, <<b>>, 1)>>
Funds ==
    [Plan EXCEPT
        !.calls = {Call("1", "register", d1, [Asks EXCEPT !.app = "wallet", !.watchOnly = {b}], None, None),
                   Call("2", "register", d2,
                        [Asks EXCEPT !.platform = "web", !.app = "wallet", !.watchOnly = {a, b},
                                     !.primary = b], b, None)},
        !.events = {Event("s", "ext", "name", b, None)},
        !.txs = Range(Payments),
        !.asked = {"1", "2"}, !.faults = [crashes |-> 1, sends |-> 0, hours |-> 1],
        !.focus = Focus([Event("p", "funds", "funds", b, None) EXCEPT !.about = <<a, a, b>>], b, d1)]

\* APNs hosts nobody knows yet or stored wrongly, an app that is removed, a send
\* that fails, a browser among the phones, an hour that passes.
Group1(id) == Event(id, "chat", "group", g, None)
Apns ==
    [Plan EXCEPT
        !.calls = {Call("1", "register", d1, [Asks EXCEPT !.groups = {g}, !.primary = a], a, None),
                   Call("2", "register", d2,
                        [Asks EXCEPT !.groups = {g}, !.primary = b, !.env = DefaultHost], b, None),
                   Call("3", "register", d2,
                        [Asks EXCEPT !.platform = "web", !.groups = {g}, !.primary = b], b, None)},
        !.events = {Group1("h"), Group1("i")},
        !.home = [t \in Token |-> OtherHost],
        !.asked = {"1", "2", "3"}, !.leaving = {d1},
        !.faults = [crashes |-> 0, sends |-> 1, hours |-> 1],
        !.focus = Focus(Group1("h"), g, d1)]

\* A call, and the other kinds of chat event, against a device that unregisters; the
\* caller's platform has no transport.
Ring(id, caller, callee) ==
    [Call(id, "ring", caller, Asks, b, None) EXCEPT
        !.event = Event(id, "ring", "ring", callee, b)]
Control == [Event("c", "chat", "control", None, b) EXCEPT !.receiver = a]
Others ==
    [Plan EXCEPT
        !.calls = {Call("1", "register", d1,
                        [Asks EXCEPT !.addresses = {b}, !.primary = a, !.voip = TRUE], a, None),
                   Call("2", "register", d2, [Asks EXCEPT !.platform = "android", !.primary = b], b, None),
                   Call("3", "unregister", d1, Asks, a, None),
                   Ring("r", d2, a)},
        !.events = {Control, [Control EXCEPT !.id = "e", !.key = "e", !.receiver = None],
                    Event("i", "chat", "inbox", b, None)},
        !.asked = {"1", "2", "3", "r"},
        !.focus = Focus(Ring("r", d2, a).event, a, d1)]

PlanList == <<Chats, Requests, Ext, Funds, Apns, Others>>

MCInit == plan \in Range(PlanList) /\ ServiceInit

MCSpec == MCInit /\ [][ServiceNext]_serviceVars /\ ServiceFairness

Settled == LET focus == plan.focus IN
    focus = None \/ Answered(focus.event, focus.about, focus.token)

Pending == LET focus == plan.focus IN focus # None /\ InLine(focus.event, focus.about)

\* An event that got into the dispatcher's queue reaches a phone that wants it and
\* can be reached -- or the process crashed, the rate ran out or the send failed
\* (PushDispatcher::run, deliver).
Heard == Pending ~> Settled
===============================================================================
