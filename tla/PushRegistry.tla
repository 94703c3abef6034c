----------------------------- MODULE PushRegistry -----------------------------
(***************************************************************************)
(* The device registry of the push service (kasia-indexer                  *)
(* indexer/src/push.rs, PushRegistry): one row per device token, three     *)
(* reverse indexes kept in the same write transaction, and what the        *)
(* process keeps in memory beside them -- the filters of the tokens it has *)
(* looked at and the gate, the union of all watch-only addresses that the  *)
(* block processor consults. One actor owns it and runs one command at a   *)
(* time; a restart loses the memory and rebuilds the gate.                 *)
(*                                                                         *)
(* The texts of a registration are abstracted: a wish is what a phone asks *)
(* for, already normalised. A wallet is its address.                       *)
(***************************************************************************)
EXTENDS Naturals

CONSTANTS
    Token,      \* device tokens
    Address,    \* addresses; a wallet is named by its address
    Group,      \* blinded group ids
    Alias,      \* conversation aliases
    Prefs,      \* the settings only a scan of all rows reads (channels, KaPosts)
    Key,        \* device keys
    None        \* an absent value

Platforms == {"ios", "android", "web"}
Apps      == {"kachat", "wallet", "kaposts"}
Hosts     == {"sandbox", "production"}

Maybe(S) == S \cup {None}

\* What a phone asks for. env, app and voip absent keep what is stored.
Wish == [platform  : Platforms,
         app       : Maybe(Apps),
         addresses : SUBSET Address,
         groups    : SUBSET Group,
         watchOnly : SUBSET Address,
         primary   : Maybe(Address),
         aliases   : SUBSET Alias,
         env       : Maybe(Hosts),
         voip      : BOOLEAN,
         prefs     : Prefs]

\* A device key and the counter of the request it signed.
Device == [key : Key, counter : Nat]

Row     == [want : Wish, wallet : Maybe(Address), device : Maybe(Device)]
Filters == [aliases : SUBSET Alias, primary : Maybe(Address)]

\* None is a value of its own.
ASSUME NoneAssumption ==
    /\ None \notin Row
    /\ None \notin Filters
    /\ None \notin Device
    /\ None \notin Address
    /\ None \notin Hosts
    /\ None \notin Apps

VARIABLES
    rows,       \* [Token -> Maybe(Row)]: the device partition
    byAddress,  \* watched partition: pairs <<address, token>>
    byGroup,    \* watched group partition: pairs <<group, token>>
    byPrimary,  \* primary address partition: pairs <<address, token>>
    cache,      \* [Token -> Maybe(Filters)]: alias and primary caches, in memory
    gate        \* the block processor's set of watch-only addresses, in memory

registry == <<rows, byAddress, byGroup, byPrimary, cache, gate>>

-----------------------------------------------------------------------------
(* What a row lists, the empty set when there is no row.                   *)

Watching(row)  == IF row = None THEN {} ELSE row.want.addresses
Joined(row)    == IF row = None THEN {} ELSE row.want.groups
WatchOnly(row) == IF row = None THEN {} ELSE row.want.watchOnly
Own(row)       == IF row = None THEN {} ELSE {row.want.primary} \ {None}

FiltersOf(row) ==
    IF row = None THEN None
    ELSE [aliases |-> row.want.aliases, primary |-> row.want.primary]

\* rebuild_watch_only_global: the union over all rows.
Gate(all) == UNION {WatchOnly(all[t]) : t \in Token}

\* Mutant: the entries of what the row no longer lists stay.
MovedAddsOnly(index, t, old, new) == index \cup {<<x, t>> : x \in new \ old}
\* The entries of t in an index, changed by the difference of the two lists.
Moved(index, t, old, new) ==
    (index \ {<<x, t>> : x \in old \ new}) \cup {<<x, t>> : x \in new \ old}

\* One write transaction puts a row (or removes it) and moves its index
\* entries; after the commit the caches follow, and the gate is rebuilt when
\* the watch-only list changed.
Put(t, new) ==
    /\ rows' = [rows EXCEPT ![t] = new]
    /\ byAddress' = Moved(byAddress, t, Watching(rows[t]), Watching(new))
    /\ byGroup' = Moved(byGroup, t, Joined(rows[t]), Joined(new))
    /\ byPrimary' = Moved(byPrimary, t, Own(rows[t]), Own(new))
    /\ cache' = [cache EXCEPT ![t] = FiltersOf(new)]
    /\ gate' = IF WatchOnly(rows[t]) = WatchOnly(new) THEN gate
               ELSE Gate([rows EXCEPT ![t] = new])

-----------------------------------------------------------------------------
(* Who may change a row.                                                   *)

\* A registration that names nothing to watch is refused.
Watches(wish) ==
    \/ wish.addresses # {} \/ wish.groups # {}
    \/ wish.watchOnly # {} \/ wish.primary # None

\* A token bound to a wallet answers to that wallet alone.
WalletFits(row, wallet) == row # None => row.wallet \in {None, wallet}

\* Mutant: the counter of the device key is not compared.
DeviceFitsAnyCounter(row, device) == row # None /\ device # None => device.counter > 0
\* A request signed by the stored device key must carry a higher counter.
DeviceFits(row, device) ==
    row # None /\ device # None =>
        (row.device # None /\ row.device.key = device.key => device.counter > row.device.counter)

MaySave(t, wish, wallet, device) ==
    Watches(wish) /\ WalletFits(rows[t], wallet) /\ DeviceFits(rows[t], device)

\* Unregistering needs the bound wallet, or the bound device key with a higher
\* counter (any device key when the row stores none).
DeviceMatches(row, device) ==
    /\ row # None /\ device # None
    /\ row.device # None => row.device.key = device.key /\ device.counter > row.device.counter

MayRemove(t, wallet, device) ==
    WalletFits(rows[t], wallet) \/ DeviceMatches(rows[t], device)

-----------------------------------------------------------------------------
(* The commands of the actor.                                              *)

\* Absent fields keep what the row stores.
Kept(wish, row) ==
    IF row = None THEN wish
    ELSE [wish EXCEPT !.env = IF @ = None THEN row.want.env ELSE @,
                      !.app = IF @ = None THEN row.want.app ELSE @,
                      !.voip = @ \/ row.want.voip]

NewRow(t, wish, wallet, device) ==
    [want   |-> Kept(wish, rows[t]),
     wallet |-> IF rows[t] = None \/ rows[t].wallet = None THEN wallet ELSE rows[t].wallet,
     device |-> IF device # None \/ rows[t] = None THEN device ELSE rows[t].device]

Register(t, wish, wallet, device) ==
    /\ MaySave(t, wish, wallet, device)
    /\ Put(t, NewRow(t, wish, wallet, device))

\* An update keeps the stored platform; without a row it makes an ios one.
OnStoredPlatform(t, wish) ==
    [wish EXCEPT !.platform = IF rows[t] = None THEN "ios" ELSE rows[t].want.platform]

Update(t, wish, wallet, device) == Register(t, OnStoredPlatform(t, wish), wallet, device)

Unregister(t, wallet, device) == MayRemove(t, wallet, device) /\ Put(t, None)

\* The dispatcher's own removal, after a provider gave the token up.
Discard(t) == Put(t, None)

\* The dispatcher learned which APNs host knows the token.
SetEnv(t, host) ==
    /\ rows' = IF rows[t] = None THEN rows
               ELSE [rows EXCEPT ![t].want.env = host]
    /\ UNCHANGED <<byAddress, byGroup, byPrimary, cache, gate>>

\* The watchers of an address by its index; a lookup that finds none prunes the
\* address's entries. The filters of tokens not cached are read from their rows.
Watchers(address) == {t \in Token : <<address, t>> \in byAddress}

Hydrated(tokens) ==
    [t \in Token |-> IF t \in tokens /\ cache[t] = None THEN FiltersOf(rows[t]) ELSE cache[t]]

LookUp(address, filtered) ==
    /\ cache' = IF filtered THEN Hydrated(Watchers(address)) ELSE cache
    /\ byAddress' = IF Watchers(address) # {} THEN byAddress
                    ELSE {entry \in byAddress : entry[1] # address}
    /\ UNCHANGED <<rows, byGroup, byPrimary, gate>>

\* The process starts again on the stored partitions.
Reload ==
    /\ cache' = [t \in Token |-> None]
    /\ gate' = Gate(rows)
    /\ UNCHANGED <<rows, byAddress, byGroup, byPrimary>>

-----------------------------------------------------------------------------
(* The registry on its own.                                                *)

RegistryInit ==
    /\ rows = [t \in Token |-> None]
    /\ byAddress = {} /\ byGroup = {} /\ byPrimary = {}
    /\ cache = [t \in Token |-> None]
    /\ gate = {}

Saves ==
    \E t \in Token, wish \in Wish, wallet \in Maybe(Address), device \in Maybe(Device) :
        \/ Register(t, wish, wallet, device)
        \/ Update(t, wish, wallet, device)

Removes ==
    \E t \in Token :
        \/ \E wallet \in Maybe(Address), device \in Maybe(Device) : Unregister(t, wallet, device)
        \/ Discard(t)

Learns  == \E t \in Token, host \in Hosts : SetEnv(t, host)
LooksUp == \E address \in Address, filtered \in BOOLEAN : LookUp(address, filtered)

RegistryNext == Saves \/ Removes \/ Learns \/ LooksUp \/ Reload

RegistrySpec == RegistryInit /\ [][RegistryNext]_registry

-----------------------------------------------------------------------------
RegistryTypeOK ==
    /\ rows \in [Token -> Maybe(Row)]
    /\ byAddress \subseteq Address \X Token
    /\ byGroup \subseteq Group \X Token
    /\ byPrimary \subseteq Address \X Token
    /\ cache \in [Token -> Maybe(Filters)]
    /\ gate \subseteq Address

IndexesTrue ==
    /\ byAddress = {p \in Address \X Token : p[1] \in Watching(rows[p[2]])}
    /\ byGroup = {p \in Group \X Token : p[1] \in Joined(rows[p[2]])}
    /\ byPrimary = {p \in Address \X Token : p[1] \in Own(rows[p[2]])}

CachesTrue == \A t \in Token : cache[t] # None => cache[t] = FiltersOf(rows[t])

GateTrue == gate = Gate(rows)

\* What the service reads to decide who hears of an event -- the three indexes,
\* the cached filters and the block processor's gate -- always says what the
\* rows say, whatever commands and restarts came before (PushRegistry::register,
\* update, unregister_inner, hydrate_filter_caches, rebuild_watch_only_global).
ReadsTrue == IndexesTrue /\ CachesTrue /\ GateTrue
=============================================================================
