------------------------------ MODULE PollFeed ------------------------------
(****************************************************************************)
(* The live dashboard feed: one poll tick of the engine                     *)
(* (backend/src/poller/engine.rs), the snapshot cache and the bounded       *)
(* broadcast channel it fills, a WebSocket session that forwards them       *)
(* (backend/src/ws/session.rs), and the dashboard store that applies what   *)
(* arrives (frontend/src/stores/dashboard.ts).                              *)
(*                                                                          *)
(* A tick is split at its awaits: the two reads of the configuration, the   *)
(* fetch, the write of the cache and the broadcast are separate steps, so   *)
(* configuration changes and the session run in between.                    *)
(*                                                                          *)
(* Abstractions.  A snapshot has one section with an optional field         *)
(* (gateway, whose IPv6 address may be absent), one that is replaced as a   *)
(* whole (wans) and the traffic points; the other sections and fields       *)
(* repeat these shapes.  A traffic point is the number of the poll that     *)
(* produced it; the browser's chart is the bag of the points it pushed, in  *)
(* which a point that was pushed twice counts twice.                        *)
(* The six hour window never closes.  A message is applied by the browser   *)
(* when the session sends it: the socket keeps the order.                   *)
(****************************************************************************)
EXTENDS Integers, Sequences, FiniteSets, Bags, Functions

CONSTANTS
    None,           \* an absent Option value
    Hosts,          \* router addresses the administrator may configure
    Values,         \* contents of a section that is sent as a whole
    Addresses,      \* IPv6 addresses of the gateway
    Capacity,       \* capacity of the broadcast channel
    MaxPolls,       \* bound: poll ticks
    MaxConfigs      \* bound: configuration changes

Gateways == [ipv6 : Addresses \cup {None}]

SnapshotType ==
    [gateway : Gateways, wans : Values, points : SUBSET (1..MaxPolls), stamp : 1..MaxPolls]

ASSUME PollFeedConstants ==
    /\ None \notin Hosts \cup Values \cup Addresses \cup Nat
    /\ None \notin Gateways /\ None \notin SnapshotType
    /\ Hosts # {}
    /\ Capacity \in Nat \ {0}
    /\ MaxPolls \in Nat
    /\ MaxConfigs \in Nat

VARIABLES
    config,         \* the router address in the shared configuration
    configs,        \* how often it was changed
    \* the poll engine
    pc,             \* where the tick stands
    polls,          \* ticks so far
    client,         \* None, or the address the router client was built for
    lastParams,     \* last_conn_params
    readParams,     \* current_params of this tick
    scope,          \* active_router_id
    rated,          \* last_successful_sample_at is present
    history,        \* traffic_history
    prevSnapshot, firstPoll, fetched, readiness,
    \* what the engine shares with the sessions
    cache,          \* last_snapshot
    log,            \* every message broadcast; the channel keeps the last Capacity
    \* a WebSocket session and the browser behind it
    session, view

tickVars    == <<pc, polls, readParams, fetched>>
clientVars  == <<client, lastParams>>
scopeVars   == <<scope, rated, history, prevSnapshot, firstPoll>>
configVars  == <<config, configs>>
sharedVars  == <<cache, log>>
browserVars == <<session, view>>
vars == <<tickVars, clientVars, scopeVars, configVars, sharedVars, browserVars, readiness>>

-----------------------------------------------------------------------------
(* Messages and what the browser makes of them.                             *)

Snapshot(data)    == [type |-> "snapshot", data |-> data]
Update(data)      == [type |-> "update", data |-> data]
ConnectionStatus  == [type |-> "connection_status"]

Changed(old, new) == IF old = new THEN None ELSE new

DiffSnapshots(prev, current) ==
    [gateway |-> Changed(prev.gateway, current.gateway),
     wans    |-> Changed(prev.wans, current.wans),
     traffic |-> IF current.points = {} THEN None ELSE
                 CHOOSE p \in current.points : \A q \in current.points : q <= p,
     stamp   |-> current.stamp]

HasChanges(update) ==
    update.gateway # None \/ update.wans # None \/ update.traffic # None

(* serde leaves an absent IPv6 address out of the JSON object, and          *)
(* Object.assign only overwrites the keys it is given.                      *)
AssignGateway(old, new) ==
    [ipv6 |-> IF new.ipv6 = None THEN old.ipv6 ELSE new.ipv6]

(* Mutant: the points of a snapshot are added to the chart. *)
HandleSnapshotMerging(v, data) ==
    [gateway |-> data.gateway, wans |-> data.wans,
     points |-> v.points (+) SetToBag(data.points),
     stamp |-> data.stamp, connected |-> TRUE]

HandleSnapshot(v, data) ==
    [gateway |-> data.gateway, wans |-> data.wans, points |-> SetToBag(data.points),
     stamp |-> data.stamp, connected |-> TRUE]

HandleUpdate(v, data) ==
    [gateway |-> IF data.gateway = None THEN v.gateway
                 ELSE AssignGateway(v.gateway, data.gateway),
     wans |-> IF data.wans = None THEN v.wans ELSE data.wans,
     points |-> IF data.traffic = None THEN v.points ELSE v.points (+) SetToBag({data.traffic}),
     stamp |-> data.stamp, connected |-> TRUE]

HandleConnectionStatus(v) == [v EXCEPT !.connected = FALSE]

HandleMessage(v, msg) ==
    CASE msg.type = "snapshot" -> HandleSnapshot(v, msg.data)
      [] msg.type = "update" -> HandleUpdate(v, msg.data)
      [] msg.type = "connection_status" -> HandleConnectionStatus(v)

Broadcast(msg) == log' = Append(log, msg)

-----------------------------------------------------------------------------
(* The poll engine.                                                         *)

EngineInit ==
    /\ config \in Hosts
    /\ configs = 0
    /\ pc = "idle"
    /\ polls = 0
    /\ client = None
    /\ lastParams = config
    /\ readParams = None
    /\ scope = None
    /\ rated = FALSE
    /\ history = {}
    /\ prevSnapshot = None
    /\ firstPoll = TRUE
    /\ fetched = None
    /\ readiness = "Starting"
    /\ cache = None
    /\ log = <<>>

(* The administrator saves another router address. *)
SaveConfig(h) ==
    /\ configs < MaxConfigs
    /\ config' = h
    /\ config # h
    /\ configs' = configs + 1
    /\ UNCHANGED <<tickVars, clientVars, scopeVars, sharedVars, browserVars, readiness>>

ParamsChanged == lastParams # config

(* try_reconnect, first read of the configuration.  A changed address drops *)
(* the client and the rate baseline; with a client and the same address the *)
(* tick goes straight to the fetch.                                         *)
ReadParams ==
    /\ pc = "idle"
    /\ polls < MaxPolls
    /\ polls' = polls + 1
    /\ readParams' = config
    /\ IF ParamsChanged
       THEN pc' = "connect" /\ client' = None /\ rated' = FALSE
       ELSE /\ pc' = IF client = None THEN "connect" ELSE "fetch"
            /\ UNCHANGED <<client, rated>>
    /\ UNCHANGED <<lastParams, fetched, scope, history, prevSnapshot, firstPoll,
                   configVars, sharedVars, browserVars, readiness>>
(* Mutant: a new client does not ask for a full snapshot. *)
ConnectWithoutFirstPoll ==
    /\ pc = "connect"
    /\ client' = config
    /\ lastParams' = readParams
    /\ pc' = "fetch"
    /\ UNCHANGED <<polls, readParams, fetched, scopeVars, configVars, sharedVars,
                   browserVars, readiness>>


(* Mutant: the client is built from the first read, the second remembered. *)
ConnectAsReadBefore ==
    /\ pc = "connect"
    /\ client' = readParams
    /\ lastParams' = config
    /\ firstPoll' = TRUE
    /\ pc' = "fetch"
    /\ UNCHANGED <<polls, readParams, fetched, scope, rated, history, prevSnapshot,
                   configVars, sharedVars, browserVars, readiness>>

(* try_reconnect, second read: the client is built for what the             *)
(* configuration says now, and remembered under what was read before.       *)
ConnectBackend ==
    /\ pc = "connect"
    /\ client' = config
    /\ lastParams' = readParams
    /\ firstPoll' = TRUE
    /\ pc' = "fetch"
    /\ UNCHANGED <<polls, readParams, fetched, scope, rated, history, prevSnapshot,
                   configVars, sharedVars, browserVars, readiness>>

(* The connection failed (mark_connection_failure), and the tick ends with  *)
(* the disconnected status.                                                 *)
ConnectFails ==
    /\ pc = "connect"
    /\ lastParams' = readParams
    /\ readiness' = "Degraded"
    /\ Broadcast(ConnectionStatus)
    /\ pc' = "idle"
    /\ UNCHANGED <<polls, readParams, fetched, client, scopeVars, configVars, cache,
                   browserVars>>

(* The backoff of an earlier failure has not expired. *)
ReconnectDeferred ==
    /\ pc = "connect"
    /\ readParams = lastParams
    /\ readiness = "Degraded"
    /\ Broadcast(ConnectionStatus)
    /\ pc' = "idle"
    /\ UNCHANGED <<polls, readParams, fetched, clientVars, scopeVars, configVars, cache,
                   browserVars, readiness>>
(* Mutant: readiness survives a failed or panicking tick. *)
MarkPollFailureStayingReady ==
    /\ client' = None
    /\ firstPoll' = TRUE
    /\ rated' = FALSE
    /\ UNCHANGED <<lastParams, scope, history, prevSnapshot, readiness>>

MarkPollFailure ==
    /\ client' = None
    /\ firstPoll' = TRUE
    /\ rated' = FALSE
    /\ readiness' = "Degraded"
    /\ UNCHANGED <<lastParams, scope, history, prevSnapshot>>

FetchFails ==
    /\ pc = "fetch"
    /\ MarkPollFailure
    /\ Broadcast(ConnectionStatus)
    /\ pc' = "idle"
    /\ UNCHANGED <<polls, readParams, fetched, configVars, cache, browserVars>>

(* fetch_and_transform.  A router without hardware identity is known by the *)
(* address in last_conn_params; one whose identity cannot be stored has no  *)
(* scope.  Only a second sample of the same scope can have a rate, and only *)
(* a positive rate makes a traffic point.                                   *)
Identities == {client, lastParams, None}

SwitchRouterScope(id) ==
    /\ scope' = id
    /\ IF id # scope
       THEN /\ prevSnapshot' = None
            /\ firstPoll' = TRUE
            /\ history' = {}
            /\ cache' = None
       ELSE UNCHANGED <<prevSnapshot, firstPoll, history, cache>>

FetchAndTransform(id, gateway, wans, moving) ==
    /\ pc = "fetch"
    /\ SwitchRouterScope(id)
    /\ moving => rated /\ id = scope
    /\ rated' = TRUE
    /\ fetched' = [gateway |-> gateway, wans |-> wans,
                   points |-> IF moving THEN {polls} ELSE {},
                   stamp |-> polls]
    /\ pc' = "cache"
    /\ UNCHANGED <<polls, readParams, clientVars, configVars, log, browserVars, readiness>>

(* poll_tick: the new point joins the history and the snapshot carries the  *)
(* history, but a poll without a point leaves the snapshot without any.     *)
CacheSnapshot ==
    /\ pc = "cache"
    /\ history' = history \cup fetched.points
    /\ fetched' = [fetched EXCEPT !.points = IF @ = {} THEN {} ELSE history']
    /\ cache' = fetched'
    /\ pc' = "announce"
    /\ UNCHANGED <<polls, readParams, clientVars, scope, rated, prevSnapshot, firstPoll,
                   configVars, log, browserVars, readiness>>

Announce(stored) ==
    /\ pc = "announce"
    /\ IF firstPoll
       THEN Broadcast(Snapshot(fetched))
       ELSE LET update == DiffSnapshots(prevSnapshot, fetched)
            IN  IF prevSnapshot # None /\ HasChanges(update)
                THEN Broadcast(Update(update))
                ELSE log' = log
    /\ firstPoll' = FALSE
    /\ prevSnapshot' = fetched
    /\ readiness' = IF stored THEN "Ready" ELSE "Degraded"
    /\ fetched' = None
    /\ pc' = "idle"
    /\ UNCHANGED <<polls, readParams, clientVars, scope, rated, history, configVars, cache,
                   browserVars>>

(* catch_unwind around the tick: a panic anywhere in it. *)
TickPanics ==
    /\ pc # "idle"
    /\ MarkPollFailure
    /\ fetched' = None
    /\ pc' = "idle"
    /\ UNCHANGED <<polls, readParams, configVars, sharedVars, browserVars>>

EngineNext ==
    \/ \E h \in Hosts : SaveConfig(h)
    \/ ReadParams
    \/ ConnectBackend
    \/ ConnectFails
    \/ ReconnectDeferred
    \/ FetchFails
    \/ \E id \in Identities, gateway \in Gateways, wans \in Values, moving \in BOOLEAN :
         FetchAndTransform(id, gateway, wans, moving)
    \/ CacheSnapshot
    \/ \E stored \in BOOLEAN : Announce(stored)
    \/ TickPanics

-----------------------------------------------------------------------------
(* run_session.  `next' is the receiver's position in the broadcast log.    *)

SessionInit ==
    /\ session = [pc |-> "closed", next |-> 1, joined |-> 0]
    /\ view = [gateway |-> [ipv6 |-> None], wans |-> None, points |-> EmptyBag, stamp |-> None,
               connected |-> FALSE]

EngineUnchanged == UNCHANGED <<tickVars, clientVars, scopeVars, configVars, sharedVars, readiness>>
Subscribe ==
    /\ session.pc = "closed"
    /\ session' = [pc |-> "subscribed", next |-> Len(log) + 1, joined |-> Len(log)]
    /\ UNCHANGED view
    /\ EngineUnchanged

(* The cached snapshot if there is one, else the disconnected status. *)
SendInitial ==
    /\ session.pc = "subscribed"
    /\ session' = [session EXCEPT !.pc = "streaming"]
    /\ view' = HandleMessage(view, IF cache # None THEN Snapshot(cache) ELSE ConnectionStatus)
    /\ EngineUnchanged

Oldest == IF Len(log) > Capacity THEN Len(log) - Capacity + 1 ELSE 1

Receive ==
    /\ session.pc = "streaming"
    /\ session.next \in Oldest..Len(log)
    /\ session' = [session EXCEPT !.next = @ + 1]
    /\ view' = HandleMessage(view, log[session.next])
    /\ EngineUnchanged
(* Mutant: a lagged receiver skips to the end of the channel. *)
LaggedToEnd ==
    /\ session.pc = "streaming"
    /\ session.next < Oldest
    /\ session' = [session EXCEPT !.next = Len(log) + 1, !.pc = "lagged"]
    /\ UNCHANGED view
    /\ EngineUnchanged

(* Mutant: a lagged receiver does not move. *)
LaggedInPlace ==
    /\ session.pc = "streaming"
    /\ session.next < Oldest
    /\ session' = [session EXCEPT !.pc = "lagged"]
    /\ UNCHANGED view
    /\ EngineUnchanged

(* The channel has overwritten what this receiver had not read yet. *)
Lagged ==
    /\ session.pc = "streaming"
    /\ session.next < Oldest
    /\ session' = [session EXCEPT !.next = Oldest, !.pc = "lagged"]
    /\ UNCHANGED view
    /\ EngineUnchanged

(* A lagged session sends the cached snapshot, if there is one, and goes on *)
(* with the messages the channel still holds.                               *)
Resync ==
    /\ session.pc = "lagged"
    /\ session' = [session EXCEPT !.pc = "streaming"]
    /\ view' = IF cache # None THEN HandleMessage(view, Snapshot(cache)) ELSE view
    /\ EngineUnchanged

(* The client closes, a send fails or times out, the login session expired. *)
CloseSession ==
    /\ session.pc # "closed"
    /\ session' = [session EXCEPT !.pc = "closed"]
    /\ UNCHANGED view
    /\ EngineUnchanged

SessionNext == Subscribe \/ SendInitial \/ Receive \/ Lagged \/ Resync \/ CloseSession

Init == EngineInit /\ SessionInit

Next == EngineNext \/ SessionNext

Spec == Init /\ [][Next]_vars

(* Tokio runs a ready task again: a session that can move does. *)
FairSpec == Spec /\ WF_vars(SendInitial \/ Receive \/ Lagged \/ Resync)
-----------------------------------------------------------------------------
(* Properties.                                                              *)

ViewTypeOK ==
    /\ view.gateway \in Gateways /\ view.wans \in Values \cup {None}
    /\ IsABag(view.points) /\ BagToSet(view.points) \subseteq 1..MaxPolls
    /\ view.stamp \in (1..MaxPolls) \cup {None} /\ view.connected \in BOOLEAN

(* Every variable has its type. *)
TypeOK ==
    /\ config \in Hosts
    /\ pc \in {"idle", "connect", "fetch", "cache", "announce"}
    /\ polls \in 0..MaxPolls
    /\ {client, lastParams, readParams, scope} \subseteq Hosts \cup {None}
    /\ rated \in BOOLEAN /\ firstPoll \in BOOLEAN
    /\ history \subseteq 1..MaxPolls
    /\ {prevSnapshot, fetched, cache} \subseteq SnapshotType \cup {None}
    /\ readiness \in {"Starting", "Ready", "Degraded"}
    /\ session.pc \in {"closed", "subscribed", "streaming", "lagged"}
    /\ session.next \in 1..Len(log) + 1
    /\ ViewTypeOK

(* The browser has applied everything that was broadcast, and the last tick *)
(* was a success.                                                           *)
Drained == session.pc = "streaming" /\ session.next = Len(log) + 1

Settled == pc = "idle" /\ client # None /\ ~firstPoll

(* Whatever was lost to lag, replayed after a cached snapshot or sent while *)
(* the session was joining: a browser that has drained the feed shows the   *)
(* router connected, the sections of the engine's last snapshot, and no     *)
(* traffic point of a router that was replaced.                             *)
DrainedViewIsCurrent ==
    Drained /\ Settled =>
        /\ view.connected
        /\ view.wans = prevSnapshot.wans
        /\ prevSnapshot.gateway.ipv6 # None => view.gateway.ipv6 = prevSnapshot.gateway.ipv6
        /\ BagToSet(view.points) \subseteq history

(* A session that was subscribed when a tick failed shows the outage once   *)
(* it has caught up, even if it lagged and was resynchronised in between.   *)
OutageReachesBrowser ==
    (/\ Drained
     /\ session.joined < Len(log)
     /\ log[Len(log)] = ConnectionStatus)
        => ~view.connected

(* Messages that the snapshot of a joining or lagged session already        *)
(* covers are delivered after it and their points appended once more; the   *)
(* chart never repeats more than the channel holds and the one point of a   *)
(* tick that had cached its snapshot and not announced it yet.              *)
ReplayIsBounded ==
    SumFunction([p \in BagToSet(view.points) |-> view.points[p] - 1]) <= Capacity + 1

(* Between ticks "Ready" means that a client is connected and that the      *)
(* cache holds the snapshot the next difference is computed from.           *)
ReadyServesLastSnapshot ==
    (readiness = "Ready" /\ pc = "idle") =>
        client # None /\ prevSnapshot # None /\ cache = prevSnapshot

(* The variables have their types, and readiness is what the engine serves: *)
(* a failed or panicking tick leaves no "Ready" behind that is not backed   *)
(* by a client and the cached snapshot.                                     *)
EngineIsConsistent == TypeOK /\ ReadyServesLastSnapshot

(* A session does not stay behind the feed for ever. *)
CatchesUp == (session.pc # "closed") ~> (Drained \/ session.pc = "closed")

(* "Differential update - only changed fields since last poll"              *)
(* (protocol.rs:17): applying the updates gives the current snapshot, the   *)
(* optional fields that went away included.                                 *)
UpdatesReproduceSnapshot == Drained /\ Settled => view.gateway = prevSnapshot.gateway

(* The configuration is "mutable for hot-reload" (state.rs:17) and the      *)
(* client is rebuilt "if connection params actually changed"                *)
(* (engine.rs:417): wherever in a tick an address is saved, between the two *)
(* reads included, a tick that keeps its client polls the address it has    *)
(* just read.  A second save may defeat this, when it restores the address  *)
(* that the first read had seen.                                            *)
SaveTakesEffect ==
    [][(ReadParams /\ pc' = "fetch" /\ configs <= 1) => client' = config]_vars
=============================================================================
