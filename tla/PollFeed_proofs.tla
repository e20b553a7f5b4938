--------------------------- MODULE PollFeed_proofs ---------------------------
(****************************************************************************)
(* What the feed guarantees for every number of routers, contents, polls    *)
(* and messages in the channel: readiness is truthful, an outage reaches    *)
(* the browser, and a browser that has drained the feed shows the engine's  *)
(* last snapshot, and a chart repeats no more points than the channel holds *)
(* and one.                                                                 *)
(*                                                                          *)
(* The engine is proved first, alone.  What a browser will show is then     *)
(* read off the broadcast log: each part of the dashboard is settled by the *)
(* last message that carries it, whether the session has still to deliver   *)
(* that message or not.                                                     *)
(****************************************************************************)
EXTENDS PollFeed, Sums, TLAPS

-----------------------------------------------------------------------------
(* The inductive invariant.                                                 *)

(* The parts of the dashboard that a drained browser must show as the       *)
(* engine has them.                                                         *)
Parts == {"wans", "ipv6"}

Part(data, k) == IF k = "wans" THEN data.wans ELSE data.gateway.ipv6

UpdatePart(update, k) ==
    IF k = "wans" THEN update.wans
    ELSE IF update.gateway = None THEN None ELSE update.gateway.ipv6

Carries(msg, k) ==
    \/ msg.type = "snapshot"
    \/ msg.type = "update" /\ UpdatePart(msg.data, k) # None

Carried(msg, k) ==
    IF msg.type = "snapshot" THEN Part(msg.data, k) ELSE UpdatePart(msg.data, k)

PointsOf(msg) ==
    IF msg.type = "snapshot" THEN msg.data.points
    ELSE IF msg.type = "update" THEN {msg.data.traffic} \ {None} ELSE {}

UpdateType ==
    [gateway : Gateways \cup {None}, wans : Values \cup {None},
     traffic : (1..MaxPolls) \cup {None}, stamp : 1..MaxPolls]

Messages ==
    [type : {"snapshot"}, data : SnapshotType] \cup [type : {"update"}, data : UpdateType]
        \cup {ConnectionStatus}

EngineTyped ==
    /\ config \in Hosts
    /\ pc \in {"idle", "connect", "fetch", "cache", "announce"}
    /\ polls \in 0..MaxPolls
    /\ {client, lastParams, readParams, scope} \subseteq Hosts \cup {None}
    /\ history \subseteq 1..polls
    /\ {prevSnapshot, fetched, cache} \subseteq SnapshotType \cup {None}
    /\ readiness \in {"Starting", "Ready", "Degraded"}

Flags == rated \in BOOLEAN /\ firstPoll \in BOOLEAN

(* The snapshot a browser was last brought up to is known and cached. *)
Live == client # None /\ ~firstPoll

Tick ==
    /\ pc # "idle" => polls # 0
    /\ pc \in {"fetch", "cache", "announce"} => client # None
    /\ pc = "connect" => client = None
    /\ pc \in {"cache", "announce"} => fetched # None
    /\ pc = "cache" => fetched.points \subseteq {polls}
    /\ pc = "announce" => cache = fetched /\ (fetched.points = {} \/ polls \in fetched.points)

Cached ==
    /\ cache # None => cache.points \subseteq history
    /\ Live => prevSnapshot # None /\ cache # None
    /\ Live /\ pc # "announce" => cache = prevSnapshot

EngineInv == EngineTyped /\ Flags /\ Tick /\ Cached /\ ReadyServesLastSnapshot

LogTyped == log \in Seq(Messages)

NoneCarries(k, first) == \A j \in first..Len(log) : ~Carries(log[j], k)

NoSnapshot(first) == \A j \in first..Len(log) : log[j].type # "snapshot"

(* The last message that carries a part carries the engine's; the points    *)
(* sent from the last snapshot on are of the router that is polled.         *)
LogIsCurrent ==
    Live =>
        /\ Len(log) # 0 /\ log[Len(log)] # ConnectionStatus
        /\ \A k \in Parts, i \in 1..Len(log) :
             Carries(log[i], k) /\ NoneCarries(k, i + 1) /\ Part(prevSnapshot, k) # None
                 => Carried(log[i], k) = Part(prevSnapshot, k)
        /\ \A i \in 1..Len(log) : NoSnapshot(i + 1) => PointsOf(log[i]) \subseteq history

SessionSound ==
    /\ session \in [pc : {"closed", "subscribed", "streaming", "lagged"}, next : Nat, joined : Nat]
    /\ session.next \in 1..Len(log) + 1
    /\ session.joined \in 0..Len(log)
    /\ session.pc = "subscribed" => session.next = session.joined + 1
    /\ session.pc = "lagged" => session.next <= Len(log)

(* What no pending message will overwrite is already current: as the engine *)
(* announced it, or as a tick that has cached its snapshot will.            *)
ViewIsCurrent ==
    Live /\ session.pc = "streaming" =>
        /\ session.next = Len(log) + 1 => view.connected
        /\ \A k \in Parts : NoneCarries(k, session.next) /\ Part(prevSnapshot, k) # None
             => Part(view, k) \in {Part(prevSnapshot, k), Part(cache, k)}
        /\ NoSnapshot(session.next) => BagToSet(view.points) \subseteq history

IsView(v) ==
    /\ DOMAIN v = {"gateway", "wans", "points", "stamp", "connected"}
    /\ v.gateway \in Gateways /\ v.wans \in Values \cup {None}
    /\ IsABag(v.points) /\ BagToSet(v.points) \subseteq 1..MaxPolls
    /\ v.stamp \in (1..MaxPolls) \cup {None}

ViewShape == IsView(view) /\ view.connected \in BOOLEAN

Delivery ==
    /\ LogTyped /\ LogIsCurrent /\ SessionSound /\ ViewShape /\ ViewIsCurrent
    /\ OutageReachesBrowser

-----------------------------------------------------------------------------
(* The bags of points and the messages.                                     *)

LEMMA SnapshotPoints ==
  ASSUME NEW S
  PROVE  IsABag(SetToBag(S)) /\ BagToSet(SetToBag(S)) = S
  BY DEF IsABag, SetToBag, BagToSet

LEMMA PushedPoint ==
  ASSUME NEW B, NEW p, IsABag(B)
  PROVE  /\ IsABag(B (+) SetToBag({p}))
         /\ BagToSet(B (+) SetToBag({p})) = BagToSet(B) \cup {p}
  <1> DEFINE C == B (+) SetToBag({p})
  <1>1. C = [e \in (DOMAIN B) \cup {p} |->
               (IF e \in DOMAIN B THEN B[e] ELSE 0) + (IF e \in {p} THEN 1 ELSE 0)]
    BY DEF SetToBag, (+)
  <1>2. DOMAIN C = DOMAIN B \cup {p}
    BY <1>1
  <1>3. ASSUME NEW e \in DOMAIN B \cup {p}
        PROVE  C[e] \in {n \in Nat : n > 0}
    BY <1>1, <1>3 DEF IsABag
  <1>4. C \in [DOMAIN C -> {n \in Nat : n > 0}]
    BY <1>1, <1>2, <1>3
  <1> QED  BY <1>2, <1>4 DEF IsABag, BagToSet

LEMMA MessageForms ==
  ASSUME NEW m \in Messages
  PROVE  \/ m.type = "snapshot" /\ m.data \in SnapshotType /\ m # ConnectionStatus
         \/ m.type = "update" /\ m.data \in UpdateType /\ m # ConnectionStatus
         \/ m.type = "connection_status" /\ m = ConnectionStatus
  BY DEF Messages, ConnectionStatus

LEMMA SnapshotIsMessage ==
  ASSUME NEW d \in SnapshotType
  PROVE  /\ Snapshot(d) \in Messages /\ Snapshot(d) # ConnectionStatus
         /\ Snapshot(d).type = "snapshot" /\ Snapshot(d).data = d
  BY DEF Messages, Snapshot, ConnectionStatus

LEMMA UpdateIsMessage ==
  ASSUME NEW d \in UpdateType
  PROVE  /\ Update(d) \in Messages /\ Update(d) # ConnectionStatus
         /\ Update(d).type = "update" /\ Update(d).data = d
  BY DEF Messages, Update, ConnectionStatus

(* What the browser shows after a message: the parts it carries, its points *)
(* in the place of the chart or on top of it, and whether it is an outage.  *)
LEMMA Handled ==
  ASSUME NEW v, IsView(v), NEW m \in Messages
  PROVE  /\ IsView(HandleMessage(v, m))
         /\ \A k \in Parts : Part(HandleMessage(v, m), k)
                               = IF Carries(m, k) THEN Carried(m, k) ELSE Part(v, k)
         /\ BagToSet(HandleMessage(v, m).points)
              \subseteq IF m.type = "snapshot" THEN PointsOf(m)
                        ELSE BagToSet(v.points) \cup PointsOf(m)
  <1> DEFINE w == HandleMessage(v, m)
  <1>1. CASE m.type = "snapshot" /\ m.data \in SnapshotType
    <2>1. w = HandleSnapshot(v, m.data)
      BY <1>1 DEF HandleMessage
    <2>2. /\ w.gateway = m.data.gateway /\ w.wans = m.data.wans
          /\ w.points = SetToBag(m.data.points) /\ w.stamp = m.data.stamp
          /\ DOMAIN w = {"gateway", "wans", "points", "stamp", "connected"}
      BY <2>1 DEF HandleSnapshot
    <2>3. IsABag(w.points) /\ BagToSet(w.points) = m.data.points
      BY <2>2, SnapshotPoints
    <2> HIDE DEF w
    <2>4. IsView(w)
      BY <1>1, <2>2, <2>3 DEF IsView, SnapshotType
    <2>5. \A k \in Parts : Part(w, k) = Carried(m, k) /\ Carries(m, k)
      BY <1>1, <2>2 DEF Part, Carried, Carries
    <2>6. BagToSet(w.points) = PointsOf(m)
      BY <1>1, <2>3 DEF PointsOf
    <2> QED  BY <1>1, <2>4, <2>5, <2>6 DEF w
  <1>2. CASE m.type = "update" /\ m.data \in UpdateType
    <2>1. w = HandleUpdate(v, m.data)
      BY <1>2 DEF HandleMessage
    <2>2. /\ w.gateway = IF m.data.gateway = None THEN v.gateway
                         ELSE AssignGateway(v.gateway, m.data.gateway)
          /\ w.wans = IF m.data.wans = None THEN v.wans ELSE m.data.wans
          /\ w.points = IF m.data.traffic = None THEN v.points
                        ELSE v.points (+) SetToBag({m.data.traffic})
          /\ w.stamp = m.data.stamp
          /\ DOMAIN w = {"gateway", "wans", "points", "stamp", "connected"}
      BY <2>1 DEF HandleUpdate
    <2>3. /\ m.data.gateway \in Gateways \cup {None} /\ m.data.wans \in Values \cup {None}
          /\ m.data.traffic \in (1..MaxPolls) \cup {None} /\ m.data.stamp \in 1..MaxPolls
      BY <1>2 DEF UpdateType
    <2> HIDE DEF w
    <2>4. /\ IsABag(w.points)
          /\ BagToSet(w.points) = BagToSet(v.points) \cup PointsOf(m)
          /\ PointsOf(m) \subseteq 1..MaxPolls
      <3>1. CASE m.data.traffic = None
        BY <1>2, <2>2, <3>1 DEF PointsOf, IsView
      <3>2. CASE m.data.traffic # None
        <4>1. IsABag(v.points)
          BY DEF IsView
        <4>2. /\ IsABag(v.points (+) SetToBag({m.data.traffic}))
              /\ BagToSet(v.points (+) SetToBag({m.data.traffic}))
                   = BagToSet(v.points) \cup {m.data.traffic}
          BY <4>1, PushedPoint
        <4> QED  BY <1>2, <2>2, <2>3, <3>2, <4>2 DEF PointsOf
      <3> QED  BY <3>1, <3>2
    <2>5. w.gateway \in Gateways
      BY <2>2, <2>3 DEF IsView, AssignGateway, Gateways
    <2>6. IsView(w)
      BY <2>2, <2>3, <2>4, <2>5 DEF IsView
    <2>7. ASSUME NEW k \in Parts
          PROVE  Part(w, k) = IF Carries(m, k) THEN Carried(m, k) ELSE Part(v, k)
      <3>1. CASE k = "wans"
        BY <1>2, <2>2, <3>1 DEF Part, Carried, Carries, UpdatePart
      <3>2. CASE k = "ipv6"
        <4>1. /\ Part(w, k) = w.gateway.ipv6 /\ Part(v, k) = v.gateway.ipv6
              /\ UpdatePart(m.data, k) = IF m.data.gateway = None THEN None
                                         ELSE m.data.gateway.ipv6
              /\ Carries(m, k) <=> UpdatePart(m.data, k) # None
              /\ Carried(m, k) = UpdatePart(m.data, k)
          BY <1>2, <3>2 DEF Part, Carried, Carries, UpdatePart
        <4>2. CASE m.data.gateway = None
          BY <2>2, <4>1, <4>2
        <4>3. CASE m.data.gateway # None
          <5>1. w.gateway.ipv6 = IF m.data.gateway.ipv6 = None THEN v.gateway.ipv6
                                 ELSE m.data.gateway.ipv6
            BY <2>2, <4>3 DEF AssignGateway
          <5> QED  BY <4>1, <4>3, <5>1
        <4> QED  BY <4>2, <4>3
      <3> QED  BY <3>1, <3>2 DEF Parts
    <2> QED  BY <1>2, <2>4, <2>6, <2>7 DEF w
  <1>3. CASE m.type = "connection_status"
    <2>1. w = [v EXCEPT !.connected = FALSE]
      BY <1>3 DEF HandleMessage, HandleConnectionStatus
    <2>2. /\ DOMAIN w = DOMAIN v /\ w.gateway = v.gateway /\ w.wans = v.wans
          /\ w.points = v.points /\ w.stamp = v.stamp
      BY <2>1 DEF IsView
    <2> HIDE DEF w
    <2>3. IsView(w)
      BY <2>2 DEF IsView
    <2>4. \A k \in Parts : Part(w, k) = Part(v, k) /\ ~Carries(m, k)
      BY <1>3, <2>2 DEF Part, Carries
    <2> QED  BY <1>3, <2>2, <2>3, <2>4 DEF w
  <1> QED  BY <1>1, <1>2, <1>3, MessageForms

(* A message shows the router connected unless it is the outage. *)
LEMMA HandledConnected ==
  ASSUME NEW v, DOMAIN v = {"gateway", "wans", "points", "stamp", "connected"},
         NEW m \in Messages
  PROVE  IF m = ConnectionStatus THEN HandleMessage(v, m).connected = FALSE
         ELSE HandleMessage(v, m).connected = TRUE
  <1>1. CASE m.type = "snapshot" /\ m # ConnectionStatus
    BY <1>1 DEF HandleMessage, HandleSnapshot
  <1>2. CASE m.type = "update" /\ m # ConnectionStatus
    BY <1>2 DEF HandleMessage, HandleUpdate
  <1>3. CASE m.type = "connection_status" /\ m = ConnectionStatus
    BY <1>3 DEF HandleMessage, HandleConnectionStatus
  <1> QED  BY <1>1, <1>2, <1>3, MessageForms

(* A difference carries a part of the new snapshot, or the part is the same. *)
LEMMA Difference ==
  ASSUME NEW prev \in SnapshotType, NEW cur \in SnapshotType,
         NEW top \in 1..MaxPolls, cur.points \subseteq 1..top,
         cur.points = {} \/ top \in cur.points
  PROVE  LET update == DiffSnapshots(prev, cur)
         IN  /\ update \in UpdateType
             /\ update.traffic # None => update.traffic \in cur.points
             /\ \A k \in Parts :
                  /\ UpdatePart(update, k) # None => UpdatePart(update, k) = Part(cur, k)
                  /\ UpdatePart(update, k) = None /\ Part(cur, k) # None
                       => Part(prev, k) = Part(cur, k)
             /\ ~HasChanges(update) => \A k \in Parts : UpdatePart(update, k) = None
  <1> DEFINE update == DiffSnapshots(prev, cur)
  <1>1. /\ update = [gateway |-> update.gateway, wans |-> update.wans,
                     traffic |-> update.traffic, stamp |-> update.stamp]
        /\ update.gateway = IF prev.gateway = cur.gateway THEN None ELSE cur.gateway
        /\ update.wans = IF prev.wans = cur.wans THEN None ELSE cur.wans
        /\ update.stamp = cur.stamp
        /\ update.traffic = IF cur.points = {} THEN None
                            ELSE CHOOSE p \in cur.points : \A q \in cur.points : q <= p
    BY DEF DiffSnapshots, Changed
  <1>2. update.traffic = None \/ update.traffic \in cur.points
    <2>1. CASE cur.points = {}
      BY <1>1, <2>1
    <2>2. CASE cur.points # {}
      <3>1. top \in cur.points /\ \A q \in cur.points : q <= top
        BY <2>2
      <3>2. \E p \in cur.points : \A q \in cur.points : q <= p
        BY <3>1
      <3> QED  BY <1>1, <2>2, <3>2
    <2> QED  BY <2>1, <2>2
  <1> HIDE DEF update
  <1>3. /\ prev.gateway \in Gateways /\ cur.gateway \in Gateways
        /\ prev.wans \in Values /\ cur.wans \in Values
        /\ cur.points \subseteq 1..MaxPolls /\ cur.stamp \in 1..MaxPolls
    BY DEF SnapshotType
  <1>4. update \in UpdateType
    BY <1>1, <1>2, <1>3 DEF UpdateType
  <1>5. ASSUME NEW k \in Parts
        PROVE  /\ UpdatePart(update, k) # None => UpdatePart(update, k) = Part(cur, k)
               /\ UpdatePart(update, k) = None /\ Part(cur, k) # None
                    => Part(prev, k) = Part(cur, k)
    <2>1. CASE k = "wans"
      BY <1>1, <1>3, <2>1, PollFeedConstants DEF Part, UpdatePart
    <2>2. CASE k = "ipv6"
      BY <1>1, <1>3, <2>2, PollFeedConstants DEF Part, UpdatePart
    <2> QED  BY <2>1, <2>2 DEF Parts
  <1>6. ~HasChanges(update) => \A k \in Parts : UpdatePart(update, k) = None
    BY DEF HasChanges, UpdatePart
  <1> QED  BY <1>2, <1>4, <1>5, <1>6 DEF update

-----------------------------------------------------------------------------
(* The engine.                                                              *)

LEMMA EngineInit_ == Init => EngineInv
  <1>1. Init => EngineTyped /\ Tick /\ Cached /\ ReadyServesLastSnapshot
    BY PollFeedConstants DEF Init, EngineInit, EngineTyped, Tick, Cached, Live,
       ReadyServesLastSnapshot
  <1>2. Init => Flags
    BY DEF Init, EngineInit, Flags
  <1> QED  BY <1>1, <1>2 DEF EngineInv

(* The flags are only ever set to TRUE or FALSE. *)
LEMMA FlagsStep == Flags /\ [Next]_vars => Flags'
  <1> SUFFICES ASSUME Flags, [Next]_vars PROVE Flags'
    OBVIOUS
  <1> USE DEF Flags, scopeVars
  <1>1. CASE EngineNext
    BY <1>1 DEF EngineNext, SaveConfig, ReadParams, ConnectBackend, ConnectFails,
       ReconnectDeferred, FetchFails, MarkPollFailure, FetchAndTransform, SwitchRouterScope,
       CacheSnapshot, Announce, TickPanics
  <1>2. CASE SessionNext \/ UNCHANGED vars
    BY <1>2 DEF SessionNext, Subscribe, SendInitial, Receive, Lagged, Resync, CloseSession,
       EngineUnchanged, vars
  <1> QED  BY <1>1, <1>2 DEF Next

LEMMA EngineStep == EngineInv /\ [Next]_vars => EngineInv'
  <1> SUFFICES ASSUME EngineInv, [Next]_vars PROVE EngineInv'
    OBVIOUS
  <1>f. Flags'
    BY FlagsStep DEF EngineInv
  <1> SUFFICES (EngineTyped /\ Tick /\ Cached /\ ReadyServesLastSnapshot)'
    BY <1>f DEF EngineInv
  <1>i. EngineTyped /\ Tick /\ Cached /\ ReadyServesLastSnapshot
    BY DEF EngineInv
  <1> USE <1>i, PollFeedConstants DEF EngineTyped, Tick, Cached, Live,
       ReadyServesLastSnapshot, tickVars, clientVars, scopeVars, configVars, sharedVars
  <1>1. CASE \E h \in Hosts : SaveConfig(h)
    BY <1>1 DEF SaveConfig
  <1>2. CASE ReadParams
    BY <1>2 DEF ReadParams, ParamsChanged
  <1>3. CASE ConnectBackend
    BY <1>3 DEF ConnectBackend
  <1>4. CASE ConnectFails
    BY <1>4 DEF ConnectFails
  <1>5. CASE ReconnectDeferred
    BY <1>5 DEF ReconnectDeferred
  <1>6. CASE FetchFails
    BY <1>6 DEF FetchFails, MarkPollFailure
  <1>7. ASSUME NEW id \in Identities, NEW gateway \in Gateways, NEW wans \in Values,
               NEW moving \in BOOLEAN, FetchAndTransform(id, gateway, wans, moving)
        PROVE  (EngineTyped /\ Tick /\ Cached /\ ReadyServesLastSnapshot)'
    <2>1. fetched' \in SnapshotType /\ fetched'.points \subseteq {polls}
      BY <1>7 DEF FetchAndTransform, SnapshotType
    <2>2. CASE id = scope
      BY <1>7, <2>1, <2>2 DEF FetchAndTransform, SwitchRouterScope
    <2>3. CASE id # scope
      BY <1>7, <2>1, <2>3 DEF FetchAndTransform, SwitchRouterScope, Identities
    <2> QED  BY <2>2, <2>3
  <1>8. CASE CacheSnapshot
    <2>1. /\ fetched \in SnapshotType
          /\ fetched.points \subseteq {polls}
          /\ history' = history \cup fetched.points
      BY <1>8 DEF CacheSnapshot
    <2>2. /\ fetched' \in SnapshotType
          /\ fetched'.points = IF fetched.points = {} THEN {} ELSE history'
      BY <1>8, <2>1 DEF CacheSnapshot, SnapshotType
    <2>3. fetched'.points = {} \/ polls \in fetched'.points
      BY <2>1, <2>2
    <2>4. history' \subseteq 1..polls' /\ fetched'.points \subseteq history'
      BY <1>8, <2>1, <2>2 DEF CacheSnapshot
    <2>5. /\ pc' = "announce" /\ cache' = fetched' /\ fetched' # None /\ pc = "cache"
          /\ UNCHANGED <<config, polls, client, lastParams, readParams, scope, firstPoll,
                         prevSnapshot, readiness>>
      BY <1>8, <2>2 DEF CacheSnapshot
    <2>6. EngineTyped'
      BY <2>2, <2>4, <2>5
    <2>7. Tick' /\ ReadyServesLastSnapshot'
      BY <2>3, <2>5
    <2>8. Cached'
      BY <2>4, <2>5
    <2> QED  BY <2>6, <2>7, <2>8
  <1>9. CASE \E stored \in BOOLEAN : Announce(stored)
    BY <1>9 DEF Announce
  <1>10. CASE TickPanics
    BY <1>10 DEF TickPanics, MarkPollFailure
  <1>11. CASE SessionNext \/ UNCHANGED vars
    BY <1>11 DEF SessionNext, Subscribe, SendInitial, Receive, Lagged, Resync, CloseSession,
       EngineUnchanged, vars
  <1> QED
    BY <1>1, <1>2, <1>3, <1>4, <1>5, <1>6, <1>7, <1>8, <1>9, <1>10, <1>11
    DEF Next, EngineNext

-----------------------------------------------------------------------------
(* What a step of the engine does to the feed.                              *)

(* The parts the engine has announced, and those it is about to, stay. *)
SamePart(k) ==
    Part(prevSnapshot', k) # None =>
        /\ Part(prevSnapshot, k) = Part(prevSnapshot', k)
        /\ {Part(prevSnapshot, k), Part(cache, k)}
              \subseteq {Part(prevSnapshot', k), Part(cache', k)}

FeedQuiet ==
    /\ UNCHANGED <<session, view, log>>
    /\ Live' => Live /\ history \subseteq history' /\ \A k \in Parts : SamePart(k)

FeedOutage ==
    /\ UNCHANGED <<session, view>>
    /\ log' = Append(log, ConnectionStatus)
    /\ ~Live'

FeedNews(m) ==
    /\ UNCHANGED <<session, view, history>>
    /\ m # ConnectionStatus
    /\ log' = Append(log, m)
    /\ PointsOf(m) \subseteq history
    /\ m.type # "snapshot" => Live
    /\ \A k \in Parts :
         /\ Carries(m, k) => Carried(m, k) = Part(prevSnapshot', k)
         /\ ~Carries(m, k) => SamePart(k)

LEMMA AnnounceFeeds ==
  ASSUME EngineInv, NEW stored \in BOOLEAN, Announce(stored)
  PROVE  FeedQuiet \/ \E m \in Messages : FeedNews(m)
  <1>1. /\ pc = "announce" /\ UNCHANGED <<session, view, history, cache, client>>
        /\ prevSnapshot' = fetched /\ cache = fetched /\ fetched \in SnapshotType
        /\ client # None /\ polls \in 1..MaxPolls
        /\ fetched.points \subseteq history
        /\ fetched.points = {} \/ polls \in fetched.points
        /\ history \subseteq 1..polls
    BY PollFeedConstants DEF EngineInv, EngineTyped, Tick, Cached, Announce, browserVars,
       clientVars
  <1>2. CASE firstPoll
    <2>1. log' = Append(log, Snapshot(fetched))
      BY <1>2 DEF Announce, Broadcast
    <2>2. /\ Snapshot(fetched) \in Messages /\ Snapshot(fetched) # ConnectionStatus
          /\ Snapshot(fetched).type = "snapshot" /\ Snapshot(fetched).data = fetched
      BY <1>1, SnapshotIsMessage
    <2>3. PointsOf(Snapshot(fetched)) \subseteq history
      BY <1>1, <2>2 DEF PointsOf
    <2>4. \A k \in Parts : Carries(Snapshot(fetched), k)
                           /\ Carried(Snapshot(fetched), k) = Part(prevSnapshot', k)
      BY <1>1, <2>2 DEF Carries, Carried
    <2>5. FeedNews(Snapshot(fetched))
      BY <1>1, <2>1, <2>2, <2>3, <2>4 DEF FeedNews
    <2> QED  BY <2>2, <2>5
  <1>3. CASE ~firstPoll
    <2> DEFINE update == DiffSnapshots(prevSnapshot, fetched)
    <2>1. Live /\ prevSnapshot # None /\ prevSnapshot \in SnapshotType
      BY <1>1, <1>3 DEF EngineInv, EngineTyped, Cached, Live
    <2>2. IF HasChanges(update) THEN log' = Append(log, Update(update)) ELSE log' = log
      BY <1>3, <2>1 DEF Announce, Broadcast
    <2>3. /\ update \in UpdateType
          /\ update.traffic # None => update.traffic \in fetched.points
          /\ \A k \in Parts :
               /\ UpdatePart(update, k) # None => UpdatePart(update, k) = Part(fetched, k)
               /\ UpdatePart(update, k) = None /\ Part(fetched, k) # None
                    => Part(prevSnapshot, k) = Part(fetched, k)
          /\ ~HasChanges(update) => \A k \in Parts : UpdatePart(update, k) = None
      <3>1. fetched.points \subseteq 1..polls
        BY <1>1
      <3> QED  BY <1>1, <2>1, <3>1, Difference
    <2> HIDE DEF update
    <2>4. \A k \in Parts : UpdatePart(update, k) = None => SamePart(k)
      BY <1>1, <2>3 DEF SamePart
    <2>5. CASE HasChanges(update)
      <3>1. /\ Update(update) \in Messages /\ Update(update) # ConnectionStatus
            /\ Update(update).type = "update" /\ Update(update).data = update
        BY <2>3, UpdateIsMessage
      <3>2. PointsOf(Update(update)) \subseteq history
        BY <1>1, <2>3, <3>1 DEF PointsOf
      <3>3. ASSUME NEW k \in Parts
            PROVE  /\ Carries(Update(update), k)
                        => Carried(Update(update), k) = Part(prevSnapshot', k)
                   /\ ~Carries(Update(update), k) => SamePart(k)
        BY <1>1, <2>3, <2>4, <3>1 DEF Carries, Carried
      <3>4. FeedNews(Update(update))
        BY <1>1, <2>1, <2>2, <2>5, <3>1, <3>2, <3>3 DEF FeedNews
      <3> QED  BY <3>1, <3>4
    <2>6. CASE ~HasChanges(update)
      BY <1>1, <2>1, <2>2, <2>3, <2>4, <2>6 DEF FeedQuiet
    <2> QED  BY <2>5, <2>6
  <1> QED  BY <1>2, <1>3

(* Every step of the engine is one of the three. *)
LEMMA EngineFeeds ==
  EngineInv /\ EngineNext => FeedQuiet \/ FeedOutage \/ \E m \in Messages : FeedNews(m)
  <1> SUFFICES ASSUME EngineInv, EngineNext
               PROVE  FeedQuiet \/ FeedOutage \/ \E m \in Messages : FeedNews(m)
    OBVIOUS
  <1> USE DEF tickVars, clientVars, scopeVars, sharedVars, browserVars, Broadcast
  <1>1. CASE \E h \in Hosts : SaveConfig(h)
    BY <1>1 DEF SaveConfig, FeedQuiet, SamePart, Live
  <1>2. CASE ReadParams
    BY <1>2 DEF ReadParams, FeedQuiet, SamePart, Live
  <1>3. CASE ConnectBackend
    BY <1>3 DEF ConnectBackend, FeedQuiet, Live
  <1>4. CASE ConnectFails
    BY <1>4 DEF ConnectFails, FeedOutage, Live, EngineInv, Tick
  <1>5. CASE ReconnectDeferred
    BY <1>5 DEF ReconnectDeferred, FeedOutage, Live, EngineInv, Tick
  <1>6. CASE FetchFails
    BY <1>6 DEF FetchFails, MarkPollFailure, FeedOutage, Live
  <1>7. CASE \E id \in Identities, gateway \in Gateways, wans \in Values, moving \in BOOLEAN :
               FetchAndTransform(id, gateway, wans, moving)
    BY <1>7 DEF FetchAndTransform, SwitchRouterScope, FeedQuiet, SamePart, Live
  <1>8. CASE CacheSnapshot
    <2>1. /\ UNCHANGED <<session, view, log, client, firstPoll, prevSnapshot>>
          /\ pc = "cache" /\ history \subseteq history'
      BY <1>8 DEF CacheSnapshot
    <2>2. Live' => Live /\ cache = prevSnapshot
      BY <2>1 DEF Live, EngineInv, Cached
    <2> QED  BY <2>1, <2>2 DEF FeedQuiet, SamePart
  <1>9. CASE \E stored \in BOOLEAN : Announce(stored)
    BY <1>9, AnnounceFeeds
  <1>10. CASE TickPanics
    BY <1>10 DEF TickPanics, MarkPollFailure, FeedQuiet, Live
  <1> QED
    BY <1>1, <1>2, <1>3, <1>4, <1>5, <1>6, <1>7, <1>8, <1>9, <1>10 DEF EngineNext

-----------------------------------------------------------------------------
(* The feed after a step of the engine.                                     *)

LEMMA QuietKeeps == Delivery /\ FeedQuiet => Delivery'
  <1> SUFFICES ASSUME Delivery, FeedQuiet PROVE Delivery'
    OBVIOUS
  <1>1. UNCHANGED <<session, view, log>>
    BY DEF FeedQuiet
  <1>2. LogTyped' /\ SessionSound' /\ OutageReachesBrowser'
    BY <1>1 DEF Delivery, LogTyped, SessionSound, OutageReachesBrowser, Drained
  <1>3. ViewShape'
    BY <1>1 DEF Delivery, ViewShape
  <1>4. \A i : /\ NoSnapshot(i)' <=> NoSnapshot(i)
               /\ \A k : NoneCarries(k, i)' <=> NoneCarries(k, i)
    BY <1>1 DEF NoSnapshot, NoneCarries
  <1>5. LogIsCurrent'
    <2> SUFFICES ASSUME Live' PROVE LogIsCurrent'
      BY DEF LogIsCurrent
    <2>1. Live /\ history \subseteq history' /\ \A k \in Parts : SamePart(k)
      BY DEF FeedQuiet
    <2> QED  BY <1>1, <1>4, <2>1 DEF Delivery, LogIsCurrent, SamePart
  <1>6. ViewIsCurrent'
    <2> SUFFICES ASSUME Live', session.pc = "streaming" PROVE ViewIsCurrent'
      BY <1>1 DEF ViewIsCurrent
    <2>1. Live /\ history \subseteq history' /\ \A k \in Parts : SamePart(k)
      BY DEF FeedQuiet
    <2>2. (session.next = Len(log) + 1 => view.connected)'
      BY <1>1, <2>1 DEF Delivery, ViewIsCurrent
    <2>3. (NoSnapshot(session.next) => BagToSet(view.points) \subseteq history)'
      BY <1>1, <1>4, <2>1 DEF Delivery, ViewIsCurrent
    <2>4. ASSUME NEW k \in Parts
          PROVE  (NoneCarries(k, session.next) /\ Part(prevSnapshot, k) # None
                    => Part(view, k) \in {Part(prevSnapshot, k), Part(cache, k)})'
      BY <1>1, <1>4, <2>1, <2>4 DEF Delivery, ViewIsCurrent, SamePart
    <2> QED  BY <2>2, <2>3, <2>4 DEF ViewIsCurrent
  <1> QED  BY <1>2, <1>3, <1>5, <1>6 DEF Delivery

(* A message joins the end of the log; no session has read it. *)
LEMMA Appended ==
  ASSUME LogTyped, SessionSound, NEW m \in Messages, log' = Append(log, m),
         UNCHANGED session
  PROVE  /\ LogTyped' /\ SessionSound'
         /\ Len(log') = Len(log) + 1 /\ Len(log) \in Nat
         /\ log'[Len(log) + 1] = m
         /\ \A i \in 1..Len(log) : log'[i] = log[i]
         /\ session.next <= Len(log) + 1
  <1>1. /\ Len(log') = Len(log) + 1 /\ Len(log) \in Nat /\ log' \in Seq(Messages)
        /\ log'[Len(log) + 1] = m
        /\ \A i \in 1..Len(log) : log'[i] = log[i]
    BY DEF LogTyped
  <1>2. SessionSound'
    BY <1>1 DEF SessionSound
  <1> QED  BY <1>1, <1>2 DEF LogTyped, SessionSound

LEMMA OutageKeeps == Delivery /\ FeedOutage => Delivery'
  <1> SUFFICES ASSUME Delivery, FeedOutage PROVE Delivery'
    OBVIOUS
  <1>1. UNCHANGED <<session, view>> /\ ~Live' /\ log' = Append(log, ConnectionStatus)
    BY DEF FeedOutage
  <1>2. ConnectionStatus \in Messages
    BY DEF Messages
  <1>3. /\ LogTyped' /\ SessionSound' /\ Len(log') = Len(log) + 1 /\ Len(log) \in Nat
        /\ session.next <= Len(log) + 1 /\ session.next \in Nat
    BY <1>1, <1>2, Appended DEF Delivery, SessionSound
  <1>4. LogIsCurrent' /\ ViewIsCurrent'
    BY <1>1 DEF LogIsCurrent, ViewIsCurrent
  <1>5. ViewShape'
    BY <1>1 DEF Delivery, ViewShape
  <1>6. OutageReachesBrowser'
    BY <1>1, <1>3 DEF OutageReachesBrowser, Drained
  <1> QED  BY <1>3, <1>4, <1>5, <1>6 DEF Delivery

LEMMA NewsKeeps ==
  ASSUME Delivery, NEW m \in Messages, FeedNews(m)
  PROVE  Delivery'
  <1>1. /\ UNCHANGED <<session, view, history>> /\ m # ConnectionStatus
        /\ log' = Append(log, m) /\ PointsOf(m) \subseteq history
        /\ m.type # "snapshot" => Live
        /\ \A k \in Parts : /\ Carries(m, k) => Carried(m, k) = Part(prevSnapshot', k)
                            /\ ~Carries(m, k) => SamePart(k)
    BY DEF FeedNews
  <1>2. /\ LogTyped' /\ SessionSound' /\ Len(log') = Len(log) + 1 /\ Len(log) \in Nat
        /\ log'[Len(log) + 1] = m /\ \A i \in 1..Len(log) : log'[i] = log[i]
        /\ session.next <= Len(log) + 1 /\ session.next \in Nat
    BY <1>1, Appended DEF Delivery, SessionSound
  <1>3. ViewShape'
    BY <1>1 DEF Delivery, ViewShape
  <1>4. OutageReachesBrowser'
    BY <1>1, <1>2 DEF OutageReachesBrowser, Drained
  <1>5. ASSUME NEW i \in 1..Len(log) + 1
        PROVE  /\ NoSnapshot(i)' => m.type # "snapshot" /\ NoSnapshot(i)
               /\ \A k : NoneCarries(k, i)' => ~Carries(m, k) /\ NoneCarries(k, i)
    <2>1. Len(log) + 1 \in i..Len(log')
      BY <1>2, <1>5
    <2>2. \A j \in i..Len(log) : j \in i..Len(log') /\ log'[j] = log[j]
      BY <1>2, <1>5
    <2>3. NoSnapshot(i)' => m.type # "snapshot" /\ NoSnapshot(i)
      BY <1>2, <2>1, <2>2 DEF NoSnapshot
    <2>4. ASSUME NEW k, NoneCarries(k, i)'
          PROVE  ~Carries(m, k) /\ NoneCarries(k, i)
      BY <1>2, <2>1, <2>2, <2>4 DEF NoneCarries
    <2> QED  BY <2>3, <2>4
  <1>6. LogIsCurrent'
    <2>1. (Len(log) # 0 /\ log[Len(log)] # ConnectionStatus)'
      BY <1>1, <1>2
    <2>2. ASSUME NEW i \in 1..Len(log)'
          PROVE  (NoSnapshot(i + 1) => PointsOf(log[i]) \subseteq history)'
      <3>1. CASE i = Len(log) + 1
        BY <1>1, <1>2, <3>1
      <3>2. CASE i \in 1..Len(log)
        <4>1. NoSnapshot(i + 1)' => Live /\ NoSnapshot(i + 1)
          BY <1>1, <1>2, <1>5, <3>2
        <4> QED  BY <1>1, <1>2, <3>2, <4>1 DEF Delivery, LogIsCurrent
      <3> QED  BY <1>2, <2>2, <3>1, <3>2
    <2>3. ASSUME NEW k \in Parts, NEW i \in 1..Len(log)',
                 (Carries(log[i], k) /\ NoneCarries(k, i + 1) /\ Part(prevSnapshot, k) # None)'
          PROVE  (Carried(log[i], k) = Part(prevSnapshot, k))'
      <3>1. CASE i = Len(log) + 1
        BY <1>1, <1>2, <2>3, <3>1
      <3>2. CASE i \in 1..Len(log)
        <4>1. ~Carries(m, k) /\ NoneCarries(k, i + 1)
          BY <1>2, <1>5, <2>3, <3>2
        <4>2. Live /\ SamePart(k)
          BY <1>1, <4>1 DEF Carries
        <4> QED  BY <1>2, <2>3, <3>2, <4>1, <4>2 DEF Delivery, LogIsCurrent, SamePart
      <3> QED  BY <1>2, <2>3, <3>1, <3>2
    <2> QED  BY <2>1, <2>2, <2>3 DEF LogIsCurrent
  <1>7. ViewIsCurrent'
    <2> SUFFICES ASSUME session.pc = "streaming" PROVE ViewIsCurrent'
      BY <1>1 DEF ViewIsCurrent
    <2>i. session.next \in 1..Len(log) + 1
      BY DEF Delivery, SessionSound
    <2>1. session'.next # Len(log') + 1
      BY <1>1, <1>2
    <2>2. (NoSnapshot(session.next) => BagToSet(view.points) \subseteq history)'
      <3>1. NoSnapshot(session.next)' => Live /\ NoSnapshot(session.next)
        BY <1>1, <1>5, <2>i
      <3> QED  BY <1>1, <3>1 DEF Delivery, ViewIsCurrent
    <2>3. ASSUME NEW k \in Parts, (NoneCarries(k, session.next) /\ Part(prevSnapshot, k) # None)'
          PROVE  (Part(view, k) \in {Part(prevSnapshot, k), Part(cache, k)})'
      <3>1. ~Carries(m, k) /\ NoneCarries(k, session.next)
        BY <1>1, <1>5, <2>3, <2>i
      <3>2. Live /\ SamePart(k)
        BY <1>1, <3>1 DEF Carries
      <3> QED  BY <1>1, <2>3, <3>1, <3>2 DEF Delivery, ViewIsCurrent, SamePart
    <2> QED  BY <2>1, <2>2, <2>3 DEF ViewIsCurrent
  <1> QED  BY <1>2, <1>3, <1>4, <1>6, <1>7 DEF Delivery

-----------------------------------------------------------------------------
(* The feed after a step of the session.                                    *)

(* The log and what the engine has announced stay. *)
LEMMA EngineStays ==
  ASSUME Delivery, EngineUnchanged
  PROVE  /\ LogTyped' /\ LogIsCurrent'
         /\ UNCHANGED <<log, cache, prevSnapshot, history>> /\ (Live' <=> Live)
         /\ \A i : /\ NoSnapshot(i)' <=> NoSnapshot(i)
                  /\ \A k : NoneCarries(k, i)' <=> NoneCarries(k, i)
  <1>1. /\ UNCHANGED <<log, cache, prevSnapshot, history>> /\ (Live' <=> Live)
    BY DEF EngineUnchanged, scopeVars, clientVars, sharedVars, Live
  <1>2. \A i : /\ NoSnapshot(i)' <=> NoSnapshot(i)
               /\ \A k : NoneCarries(k, i)' <=> NoneCarries(k, i)
    BY <1>1 DEF NoSnapshot, NoneCarries
  <1>3. LogIsCurrent'
    BY <1>1, <1>2 DEF Delivery, LogIsCurrent
  <1> QED  BY <1>1, <1>2, <1>3 DEF Delivery, LogTyped

(* Subscribing, lagging and closing leave the browser as it is. *)
LEMMA PausesKeep ==
  ASSUME Delivery, Subscribe \/ Lagged \/ CloseSession
  PROVE  Delivery'
  <1>0. ASSUME Lagged
        PROVE  /\ session' = [pc |-> "lagged", next |-> Oldest, joined |-> session.joined]
               /\ session.next < Oldest
    <2>1. session \in [pc : {"closed", "subscribed", "streaming", "lagged"}, next : Nat, joined : Nat]
      BY DEF Delivery, SessionSound
    <2>2. session' = [[session EXCEPT !.next = Oldest] EXCEPT !.pc = "lagged"]
      BY <1>0 DEF Lagged
    <2> QED  BY <1>0, <2>1, <2>2 DEF Lagged
  <1>1. EngineUnchanged /\ UNCHANGED view /\ session'.pc # "streaming"
    <2>1. CASE Subscribe
      BY <2>1 DEF Subscribe
    <2>2. CASE Lagged
      BY <1>0, <2>2 DEF Lagged
    <2>3. CASE CloseSession
      BY <2>3 DEF CloseSession, Delivery, SessionSound
    <2> QED  BY <2>1, <2>2, <2>3
  <1>2. LogTyped' /\ LogIsCurrent' /\ log' = log
    BY <1>1, EngineStays
  <1>3. SessionSound'
    <2>1. Len(log) \in Nat
      BY DEF Delivery, LogTyped
    <2>2. CASE Subscribe
      BY <1>2, <2>1, <2>2 DEF Subscribe, SessionSound
    <2>3. CASE Lagged
      <3>1. session.next \in 1..Len(log) + 1 /\ session.joined \in 0..Len(log)
        BY DEF Delivery, SessionSound
      <3>2. Oldest \in 1..Len(log)
        BY <1>0, <2>1, <2>3, <3>1, PollFeedConstants DEF Oldest
      <3> QED  BY <1>0, <1>2, <2>1, <2>3, <3>1, <3>2 DEF SessionSound
    <2>4. CASE CloseSession
      BY <1>2, <2>1, <2>4 DEF CloseSession, Delivery, SessionSound
    <2> QED  BY <2>2, <2>3, <2>4
  <1>4. ViewShape'
    BY <1>1 DEF Delivery, ViewShape
  <1>5. ViewIsCurrent' /\ OutageReachesBrowser'
    BY <1>1 DEF ViewIsCurrent, OutageReachesBrowser, Drained
  <1> QED  BY <1>2, <1>3, <1>4, <1>5 DEF Delivery

(* The browser after any message it is sent is a browser. *)
LEMMA ShapeKept ==
  ASSUME ViewShape, NEW m \in Messages, view' = HandleMessage(view, m)
  PROVE  ViewShape'
  <1>1. IsView(view)
    BY DEF ViewShape
  <1>2. IsView(HandleMessage(view, m))
    BY <1>1, Handled
  <1>3. HandleMessage(view, m).connected \in BOOLEAN
    <2>1. DOMAIN view = {"gateway", "wans", "points", "stamp", "connected"}
      BY <1>1 DEF IsView
    <2>2. HandleMessage(view, m).connected = FALSE \/ HandleMessage(view, m).connected = TRUE
      BY <2>1, HandledConnected
    <2> QED  BY <2>2
  <1> QED  BY <1>2, <1>3 DEF ViewShape

(* A joining or a lagged session is sent the cache. *)
LEMMA RefreshKeeps ==
  ASSUME EngineInv, Delivery, SendInitial \/ Resync
  PROVE  Delivery'
  <1>1. /\ EngineUnchanged /\ session'.pc = "streaming"
        /\ session'.next = session.next /\ session'.joined = session.joined
    BY DEF SendInitial, Resync, Delivery, SessionSound
  <1>2. /\ LogTyped' /\ LogIsCurrent'
        /\ UNCHANGED <<log, cache, prevSnapshot, history>> /\ (Live' <=> Live)
        /\ \A i : /\ NoSnapshot(i)' <=> NoSnapshot(i)
                 /\ \A k : NoneCarries(k, i)' <=> NoneCarries(k, i)
    BY <1>1, EngineStays
  <1>3. SessionSound'
    BY <1>2 DEF SendInitial, Resync, Delivery, SessionSound
  <1>4. session.next = session.joined + 1 \/ session.next <= Len(log)
    BY DEF SendInitial, Resync, Delivery, SessionSound
  <1>5. OutageReachesBrowser'
    <2>1. Len(log) \in Nat /\ session.next \in Nat /\ session.joined \in Nat
      BY DEF Delivery, LogTyped, SessionSound
    <2> QED  BY <1>1, <1>2, <1>4, <2>1 DEF OutageReachesBrowser, Drained
  <1>6. CASE cache = None
    <2>1. ~Live
      BY <1>6 DEF EngineInv, Cached
    <2>2. ViewIsCurrent'
      BY <1>2, <2>1 DEF ViewIsCurrent
    <2>3. ViewShape'
      <3>1. CASE view' = view
        BY <3>1 DEF Delivery, ViewShape
      <3>2. CASE view' = HandleMessage(view, ConnectionStatus)
        <4>1. ConnectionStatus \in Messages
          BY DEF Messages
        <4> QED  BY <3>2, <4>1, ShapeKept DEF Delivery
      <3> QED  BY <1>6, <3>1, <3>2 DEF SendInitial, Resync
    <2> QED  BY <1>2, <1>3, <1>5, <2>2, <2>3 DEF Delivery
  <1>7. CASE cache # None
    <2> DEFINE m == Snapshot(cache)
    <2>1. view' = HandleMessage(view, m)
      BY <1>7 DEF SendInitial, Resync
    <2>2. cache \in SnapshotType /\ cache.points \subseteq history
      BY <1>7 DEF EngineInv, EngineTyped, Cached
    <2>3. m \in Messages /\ m # ConnectionStatus /\ m.type = "snapshot" /\ m.data = cache
      BY <2>2, SnapshotIsMessage
    <2>4. IsView(view) /\ DOMAIN view = {"gateway", "wans", "points", "stamp", "connected"}
      BY DEF Delivery, ViewShape, IsView
    <2> HIDE DEF m
    <2>5. /\ \A k \in Parts : Part(HandleMessage(view, m), k)
                               = IF Carries(m, k) THEN Carried(m, k) ELSE Part(view, k)
          /\ BagToSet(HandleMessage(view, m).points) \subseteq PointsOf(m)
      BY <2>3, <2>4, Handled
    <2>6. \A k \in Parts : Part(view', k) = Part(cache, k)
      BY <2>1, <2>3, <2>5 DEF Carries, Carried
    <2>7. BagToSet(view'.points) \subseteq history
      BY <2>1, <2>2, <2>3, <2>5 DEF PointsOf
    <2>8. HandleMessage(view, m).connected = TRUE
      BY <2>3, <2>4, HandledConnected
    <2>9. view'.connected
      BY <2>1, <2>8
    <2>10. ViewIsCurrent'
      BY <1>2, <2>6, <2>7, <2>9 DEF ViewIsCurrent
    <2>11. ViewShape'
      BY <2>1, <2>3, ShapeKept DEF Delivery
    <2> QED  BY <1>2, <1>3, <1>5, <2>10, <2>11 DEF Delivery
  <1> QED  BY <1>6, <1>7

LEMMA ReceiveKeeps ==
  ASSUME Delivery, Receive
  PROVE  Delivery'
  <1> DEFINE m == log[session.next]
  <1>1. /\ EngineUnchanged /\ session.pc = "streaming"
        /\ session'.pc = "streaming" /\ session'.joined = session.joined
        /\ session'.next = session.next + 1
        /\ session.next \in 1..Len(log) /\ view' = HandleMessage(view, m)
    <2>1. Len(log) \in Nat /\ session.next \in 1..Len(log) + 1
      BY DEF Delivery, LogTyped, SessionSound
    <2>2. session.next <= Len(log)
      BY <2>1, PollFeedConstants DEF Receive, Oldest
    <2> QED  BY <2>1, <2>2 DEF Receive, Delivery, SessionSound
  <1>2. /\ LogTyped' /\ LogIsCurrent'
        /\ UNCHANGED <<log, cache, prevSnapshot, history>> /\ (Live' <=> Live)
        /\ \A i : /\ NoSnapshot(i)' <=> NoSnapshot(i)
                 /\ \A k : NoneCarries(k, i)' <=> NoneCarries(k, i)
    BY <1>1, EngineStays
  <1>3. SessionSound'
    BY <1>1, <1>2 DEF Receive, Delivery, SessionSound, LogTyped
  <1>4. m \in Messages /\ Len(log) \in Nat
    BY <1>1 DEF Delivery, LogTyped
  <1>5. IsView(view) /\ DOMAIN view = {"gateway", "wans", "points", "stamp", "connected"}
    BY DEF Delivery, ViewShape, IsView
  <1> HIDE DEF m
  <1>6. ViewShape'
    BY <1>1, <1>4, ShapeKept DEF Delivery
  <1>7. IF m = ConnectionStatus THEN view'.connected = FALSE ELSE view'.connected = TRUE
    <2>1. IF m = ConnectionStatus THEN HandleMessage(view, m).connected = FALSE
          ELSE HandleMessage(view, m).connected = TRUE
      BY <1>4, <1>5, HandledConnected
    <2> QED  BY <1>1, <2>1
  <1>8. session'.next = Len(log) + 1 => m = log[Len(log)]
    BY <1>1, <1>4 DEF m
  <1>9. OutageReachesBrowser'
    BY <1>1, <1>2, <1>7, <1>8 DEF OutageReachesBrowser, Drained
  <1>10. ViewIsCurrent'
    <2> SUFFICES ASSUME Live PROVE ViewIsCurrent'
      BY <1>2 DEF ViewIsCurrent
    <2>1. (session.next = Len(log) + 1 => view.connected)'
      BY <1>2, <1>7, <1>8 DEF Delivery, LogIsCurrent
    <2>2. /\ \A k \in Parts : Part(HandleMessage(view, m), k)
                               = IF Carries(m, k) THEN Carried(m, k) ELSE Part(view, k)
          /\ BagToSet(HandleMessage(view, m).points)
               \subseteq IF m.type = "snapshot" THEN PointsOf(m)
                         ELSE BagToSet(view.points) \cup PointsOf(m)
      BY <1>4, <1>5, Handled
    <2>3. /\ NoSnapshot(session.next + 1) /\ m.type # "snapshot" => NoSnapshot(session.next)
          /\ \A k : NoneCarries(k, session.next + 1) /\ ~Carries(m, k)
                      => NoneCarries(k, session.next)
      BY <1>1, <1>4 DEF m, NoSnapshot, NoneCarries
    <2>4. ASSUME NoSnapshot(session.next + 1)
          PROVE  BagToSet(view'.points) \subseteq history
      <3>1. PointsOf(m) \subseteq history
        BY <1>1, <2>4 DEF m, Delivery, LogIsCurrent
      <3>2. CASE m.type = "snapshot"
        BY <1>1, <2>2, <3>1, <3>2
      <3>3. CASE m.type # "snapshot"
        <4>1. BagToSet(view.points) \subseteq history
          BY <1>1, <2>3, <2>4, <3>3 DEF Delivery, ViewIsCurrent
        <4> QED  BY <1>1, <2>2, <3>1, <3>3, <4>1
      <3> QED  BY <3>2, <3>3
    <2>5. ASSUME NEW k \in Parts, NoneCarries(k, session.next + 1), Part(prevSnapshot, k) # None
          PROVE  Part(view', k) \in {Part(prevSnapshot, k), Part(cache, k)}
      <3>1. CASE Carries(m, k)
        <4>1. Carried(m, k) = Part(prevSnapshot, k)
          BY <1>1, <2>5, <3>1 DEF m, Delivery, LogIsCurrent
        <4> QED  BY <1>1, <2>2, <3>1, <4>1
      <3>2. CASE ~Carries(m, k)
        <4>1. Part(view, k) \in {Part(prevSnapshot, k), Part(cache, k)}
          BY <1>1, <2>3, <2>5, <3>2 DEF Delivery, ViewIsCurrent
        <4> QED  BY <1>1, <2>2, <3>2, <4>1
      <3> QED  BY <3>1, <3>2
    <2> QED  BY <1>1, <1>2, <2>1, <2>4, <2>5 DEF ViewIsCurrent
  <1> QED  BY <1>2, <1>3, <1>6, <1>9, <1>10 DEF Delivery

-----------------------------------------------------------------------------
(* Repeated points.  A chart repeats a point when the channel still held a  *)
(* message that carries it; the bound counts what the chart has repeated,   *)
(* what is held for the session and would repeat a point, and the point of  *)
(* a tick that is cached but not announced.                                 *)

(* How often each point was pushed again, and all of them together. *)
Repeated(B) == [p \in BagToSet(B) |-> B[p] - 1]
Repeats(B)  == SumFunctionOnSet(Repeated(B), BagToSet(B))

(* A chart filled from a snapshot holds every point once.                   *)
LEMMA NothingRepeated ==
  ASSUME NEW S, IsFiniteSet(S)
  PROVE  Repeats(SetToBag(S)) = 0
  <1> DEFINE f == Repeated(SetToBag(S))
  <1>1. BagToSet(SetToBag(S)) = S /\ \A p \in S : SetToBag(S)[p] = 1
    BY DEF SetToBag, BagToSet
  <1>2. \A p \in S : f[p] = 0
    BY <1>1 DEF Repeated
  <1> HIDE DEF f
  <1>3. {} \in SUBSET S /\ (\A p \in S : f[p] \in Int) /\ (\A p \in S \ {} : f[p] = 0)
    BY <1>2
  <1>4. SumFunctionOnSet(f, S) = SumFunctionOnSet(f, {})
    BY <1>3, SumOfPart
  <1> QED  BY <1>1, <1>4, SumEmpty DEF f, Repeats

(* Pushing a point repeats it if the chart already has it.                  *)
LEMMA PushRepeats ==
  ASSUME NEW B, IsABag(B), IsFiniteSet(BagToSet(B)), NEW p
  PROVE  /\ Repeats(B) \in Nat
         /\ Repeats(B (+) SetToBag({p})) = Repeats(B) + (IF p \in BagToSet(B) THEN 1 ELSE 0)
  <1> DEFINE C == B (+) SetToBag({p})
             D == DOMAIN B
             f == Repeated(B)
             g == Repeated(C)
  <1>1. C = [e \in (DOMAIN B) \cup {p} |->
               (IF e \in DOMAIN B THEN B[e] ELSE 0) + (IF e \in {p} THEN 1 ELSE 0)]
    BY DEF SetToBag, (+)
  <1>2. BagToSet(B) = D /\ BagToSet(C) = D \cup {p} /\ IsFiniteSet(D)
    BY <1>1 DEF BagToSet
  <1>3. \A e \in D : B[e] \in Nat /\ B[e] > 0
    BY DEF IsABag
  <1>4. \A e \in D : f[e] = B[e] - 1 /\ f[e] \in Nat
    BY <1>2, <1>3 DEF Repeated
  <1>5. \A e \in D \cup {p} : g[e] = C[e] - 1
    BY <1>2 DEF Repeated
  <1>6. \A e \in D : C[e] = B[e] + (IF e = p THEN 1 ELSE 0)
    BY <1>1, <1>3
  <1>7. p \notin D => C[p] = 1
    BY <1>1
  <1>8. Repeats(B) = SumFunctionOnSet(f, D) /\ Repeats(C) = SumFunctionOnSet(g, D \cup {p})
    BY <1>2 DEF Repeats
  <1> HIDE DEF C, f, g, D
  <1>9. SumFunctionOnSet(f, D) \in Nat
    BY <1>2, <1>4, SumIsNat
  <1>10. CASE p \in D
    <2>1. D \cup {p} = D
      BY <1>10
    <2>2. \A e \in D : g[e] \in Int /\ f[e] \in Int
      BY <1>3, <1>4, <1>5, <1>6
    <2>3. \A e \in D \ {p} : g[e] \in Int /\ g[e] = f[e]
      BY <1>3, <1>4, <1>5, <1>6
    <2>4. g[p] = f[p] + 1
      BY <1>3, <1>4, <1>5, <1>6, <1>10
    <2>5. IsFiniteSet(D \ {p})
      BY <1>2, FS_Subset
    <2>6. SumFunctionOnSet(g, D \ {p}) = SumFunctionOnSet(f, D \ {p})
      BY <2>3, <2>5, SumSame
    <2>7. SumFunctionOnSet(g, D) = g[p] + SumFunctionOnSet(g, D \ {p})
      BY <1>2, <1>10, <2>2, SumRemove
    <2>8. SumFunctionOnSet(f, D) = f[p] + SumFunctionOnSet(f, D \ {p})
      BY <1>2, <1>10, <2>2, SumRemove
    <2>9. SumFunctionOnSet(f, D \ {p}) \in Int
      <3>1. \A e \in D \ {p} : f[e] \in Int
        BY <2>2
      <3> QED  BY <2>5, <3>1, SumRemove
    <2>10. f[p] \in Int
      BY <1>4, <1>10
    <2>11. SumFunctionOnSet(g, D \cup {p}) = SumFunctionOnSet(f, D) + 1
      <3>1. SumFunctionOnSet(g, D \cup {p}) = SumFunctionOnSet(g, D)
        BY <2>1
      <3>2. SumFunctionOnSet(g, D) = SumFunctionOnSet(f, D) + 1
        BY <2>4, <2>6, <2>7, <2>8, <2>9, <2>10
      <3> QED  BY <3>1, <3>2
    <2> QED  BY <1>2, <1>8, <1>9, <1>10, <2>11 DEF C
  <1>11. CASE p \notin D
    <2>1. \A e \in D : g[e] \in Int /\ g[e] = f[e]
      BY <1>3, <1>4, <1>5, <1>6, <1>11
    <2>2. g[p] = 0
      BY <1>5, <1>7, <1>11
    <2>3. \A e \in D \cup {p} : g[e] \in Int
      BY <2>1, <2>2
    <2>4. SumFunctionOnSet(g, D \cup {p}) = g[p] + SumFunctionOnSet(g, D)
      BY <1>2, <1>11, <2>3, SumInsert
    <2>5. SumFunctionOnSet(g, D) = SumFunctionOnSet(f, D)
      BY <1>2, <2>1, SumSame
    <2> QED  BY <1>2, <1>8, <1>9, <1>11, <2>2, <2>4, <2>5 DEF C
  <1> QED  BY <1>10, <1>11

(* The chart after a message *)
LEMMA HandledPoints ==
  ASSUME NEW v, IsView(v), NEW m \in Messages
  PROVE  HandleMessage(v, m).points =
           IF m.type = "snapshot" THEN SetToBag(m.data.points)
           ELSE IF m.type = "update" /\ m.data.traffic # None
                THEN v.points (+) SetToBag({m.data.traffic})
                ELSE v.points
  <1> DEFINE w == HandleMessage(v, m)
  <1>1. CASE m.type = "snapshot"
    BY <1>1 DEF HandleMessage, HandleSnapshot
  <1>2. CASE m.type = "update"
    BY <1>2 DEF HandleMessage, HandleUpdate
  <1>3. CASE m.type = "connection_status"
    BY <1>3 DEF HandleMessage, HandleConnectionStatus, IsView
  <1> QED  BY <1>1, <1>2, <1>3, MessageForms

(* The messages carry points in the order of the polls, and no point is of *)
(* a later tick.                                                            *)
PointsArePast ==
  /\ \A i, j \in 1..Len(log) :
       i < j /\ log[j].type = "update" =>
         \A p \in PointsOf(log[i]), q \in PointsOf(log[j]) : p < q
  /\ \A i \in 1..Len(log) : \A p \in PointsOf(log[i]) :
       p \in Nat /\ p <= polls /\ (pc # "idle" => p < polls)
  /\ \A p \in BagToSet(view.points) \cup history :
       p \in Nat /\ p <= polls /\ (pc \notin {"idle", "announce"} => p < polls)

(* What the channel holds for the session and would repeat *)
Repeating(l, first, points) ==
  {j \in first..Len(l) : l[j].type = "update" /\ PointsOf(l[j]) \cap points # {}}

Ahead == IF session.next < Oldest THEN Oldest ELSE session.next

Held == Repeating(log, Ahead, BagToSet(view.points))

(* A point that is cached and that the next announcement repeats *)
Unannounced ==
  IF pc = "announce" /\ fetched.points # {} /\ polls \in BagToSet(view.points) THEN 1 ELSE 0

RepeatsFit == Repeats(view.points) + Cardinality(Held) + Unannounced <= Capacity + 1

ReplayInv == PointsArePast /\ RepeatsFit

(* The channel holds a bounded number of them.                              *)
LEMMA SomeHeld ==
  ASSUME NEW l, Len(l) \in Nat, NEW first \in Nat, NEW points
  PROVE  /\ IsFiniteSet(Repeating(l, first, points))
         /\ Cardinality(Repeating(l, first, points)) \in Nat
         /\ \A c \in Nat : Len(l) < first + c => Cardinality(Repeating(l, first, points)) <= c
  <1>0. first \in Int /\ Len(l) \in Int
    OBVIOUS
  <1>1. IsFiniteSet(first..Len(l)) /\ Repeating(l, first, points) \in SUBSET (first..Len(l))
    BY <1>0, FS_Interval DEF Repeating
  <1>2. /\ IsFiniteSet(Repeating(l, first, points))
        /\ Cardinality(Repeating(l, first, points)) <= Cardinality(first..Len(l))
    BY <1>1, FS_Subset
  <1>3. Cardinality(Repeating(l, first, points)) \in Nat
    BY <1>2, FS_CardinalityType
  <1>4. Cardinality(first..Len(l)) = IF first > Len(l) THEN 0 ELSE Len(l) - first + 1
    BY <1>0, FS_Interval
  <1> QED  BY <1>2, <1>3, <1>4

(* What a step of the engine does to the points *)
PointsQuiet ==
  /\ UNCHANGED <<session, view, log>>
  /\ polls' \in Nat /\ polls <= polls'
  /\ polls' = polls => /\ pc' # "idle" => pc # "idle"
                       /\ pc' \notin {"idle", "announce"} => pc \notin {"idle", "announce"}
  /\ \A p \in history' : p \in history \/ (p = polls' /\ pc' = "announce")
  /\ pc' = "announce" => /\ polls' = polls
                         /\ pc = "cache" \/ (pc = "announce" /\ fetched' = fetched)

PointsSent(m) ==
  /\ UNCHANGED <<session, view, polls, history>>
  /\ log' = Append(log, m) /\ pc' = "idle"
  /\ \A q \in PointsOf(m) : q \in Nat /\ q <= polls
  /\ m.type = "update" /\ PointsOf(m) # {} =>
       pc = "announce" /\ fetched.points # {} /\ PointsOf(m) = {polls}

(* Announcing broadcasts the newest point at most, in its own tick.         *)
LEMMA AnnounceSends ==
  ASSUME EngineInv, NEW stored \in BOOLEAN, Announce(stored)
  PROVE  PointsQuiet \/ \E m \in Messages : PointsSent(m)
  <1>1. /\ pc = "announce" /\ pc' = "idle"
        /\ UNCHANGED <<session, view, history, polls>>
        /\ fetched \in SnapshotType /\ polls \in 1..MaxPolls
        /\ fetched.points \subseteq history
        /\ fetched.points = {} \/ polls \in fetched.points
        /\ history \subseteq 1..polls
    BY PollFeedConstants DEF EngineInv, EngineTyped, Tick, Cached, Announce, browserVars,
       clientVars
  <1>2. polls \in Nat /\ \A p \in fetched.points : p \in Nat /\ p <= polls
    <2>1. polls \in Nat
      BY <1>1, PollFeedConstants
    <2>2. fetched.points \subseteq 1..polls
      BY <1>1
    <2> QED  BY <2>1, <2>2
  <1>3. CASE log' = log
    BY <1>1, <1>2, <1>3 DEF PointsQuiet
  <1>4. CASE log' = Append(log, Snapshot(fetched))
    <2>1. /\ Snapshot(fetched) \in Messages
          /\ Snapshot(fetched).type = "snapshot" /\ Snapshot(fetched).data = fetched
      BY <1>1, SnapshotIsMessage
    <2>2. PointsOf(Snapshot(fetched)) = fetched.points
      BY <2>1 DEF PointsOf
    <2>3. PointsSent(Snapshot(fetched))
      BY <1>1, <1>2, <1>4, <2>1, <2>2 DEF PointsSent
    <2> QED  BY <2>1, <2>3
  <1>5. CASE ~firstPoll /\ prevSnapshot # None /\ log' = Append(log, Update(DiffSnapshots(prevSnapshot, fetched)))
    <2> DEFINE update == DiffSnapshots(prevSnapshot, fetched)
    <2>1. prevSnapshot \in SnapshotType
      BY <1>5 DEF EngineInv, EngineTyped
    <2>2. fetched.points \subseteq 1..polls
      BY <1>1
    <2>3. update \in UpdateType
      BY <1>1, <2>1, <2>2, Difference
    <2>4. update.traffic = IF fetched.points = {} THEN None
                           ELSE CHOOSE p \in fetched.points : \A q \in fetched.points : q <= p
      BY DEF DiffSnapshots
    <2>5. fetched.points # {} => update.traffic = polls
      <3> SUFFICES ASSUME fetched.points # {} PROVE update.traffic = polls
        OBVIOUS
      <3>1. polls \in fetched.points /\ \A q \in fetched.points : q <= polls
        BY <1>1, <1>2
      <3>2. /\ update.traffic \in fetched.points
            /\ \A q \in fetched.points : q <= update.traffic
        <4>1. \E p \in fetched.points : \A q \in fetched.points : q <= p
          BY <3>1
        <4> HIDE DEF update
        <4> QED  BY <2>4, <4>1
      <3> HIDE DEF update
      <3> QED  BY <1>2, <3>1, <3>2
    <2> HIDE DEF update
    <2>6. Update(update) \in Messages /\ Update(update).type = "update" /\ Update(update).data = update
      BY <2>3, UpdateIsMessage
    <2>7. PointsOf(Update(update)) = {update.traffic} \ {None}
      BY <2>6 DEF PointsOf
    <2>8. PointsOf(Update(update)) = IF fetched.points = {} THEN {} ELSE {polls}
      <3>1. CASE fetched.points = {}
        BY <2>4, <2>7, <3>1
      <3>2. CASE fetched.points # {}
        <4>1. polls # None
          BY <1>2, PollFeedConstants
        <4> QED  BY <2>5, <2>7, <3>2, <4>1
      <3> QED  BY <3>1, <3>2
    <2>9. PointsSent(Update(update))
      BY <1>1, <1>2, <1>5, <2>6, <2>8 DEF PointsSent, update
    <2> QED  BY <2>6, <2>9
  <1> QED  BY <1>3, <1>4, <1>5 DEF Announce, Broadcast

(* Every step of the engine broadcasts nothing, or one such message.        *)
LEMMA EngineSends ==
  EngineInv /\ EngineNext => PointsQuiet \/ \E m \in Messages : PointsSent(m)
  <1> SUFFICES ASSUME EngineInv, EngineNext
               PROVE  PointsQuiet \/ \E m \in Messages : PointsSent(m)
    OBVIOUS
  <1>0. polls \in Nat /\ fetched \in SnapshotType \cup {None} /\ Tick
    BY DEF EngineInv, EngineTyped
  <1> DEFINE m == ConnectionStatus
  <1>o. m \in Messages /\ PointsOf(m) = {} /\ m.type # "update"
    BY DEF Messages, ConnectionStatus, PointsOf
  <1>p. ASSUME log' = Append(log, m), pc' = "idle", UNCHANGED <<session, view, polls, history>>
        PROVE  \E n \in Messages : PointsSent(n)
    <2> HIDE DEF m
    <2>1. PointsSent(m)
      BY <1>o, <1>p DEF PointsSent
    <2> QED  BY <1>o, <2>1
  <1> USE DEF tickVars, clientVars, scopeVars, sharedVars, browserVars, Broadcast
  <1>1. CASE \E h \in Hosts : SaveConfig(h)
    BY <1>0, <1>1 DEF SaveConfig, PointsQuiet
  <1>2. CASE ReadParams
    BY <1>0, <1>2 DEF ReadParams, PointsQuiet
  <1>3. CASE ConnectBackend
    BY <1>0, <1>3 DEF ConnectBackend, PointsQuiet
  <1>4. CASE ConnectFails
    BY <1>p, <1>4 DEF ConnectFails
  <1>5. CASE ReconnectDeferred
    BY <1>p, <1>5 DEF ReconnectDeferred
  <1>6. CASE FetchFails
    BY <1>p, <1>6 DEF FetchFails, MarkPollFailure
  <1>7. CASE \E id \in Identities, gateway \in Gateways, wans \in Values, moving \in BOOLEAN :
               FetchAndTransform(id, gateway, wans, moving)
    BY <1>0, <1>7 DEF FetchAndTransform, SwitchRouterScope, PointsQuiet
  <1>8. CASE CacheSnapshot
    <2>1. pc = "cache" /\ pc' = "announce" /\ polls' = polls /\ UNCHANGED <<session, view, log>>
          /\ history' = history \cup fetched.points
      BY <1>8 DEF CacheSnapshot
    <2>2. fetched.points \subseteq {polls}
      BY <1>0, <2>1 DEF Tick
    <2> QED  BY <1>0, <2>1, <2>2 DEF PointsQuiet
  <1>9. CASE \E stored \in BOOLEAN : Announce(stored)
    BY <1>9, AnnounceSends
  <1>10. CASE TickPanics
    BY <1>0, <1>10 DEF TickPanics, MarkPollFailure, PointsQuiet
  <1> QED
    BY <1>1, <1>2, <1>3, <1>4, <1>5, <1>6, <1>7, <1>8, <1>9, <1>10 DEF EngineNext

(* The points of a browser *)
LEMMA Chart ==
  ASSUME Delivery
  PROVE  /\ IsABag(view.points) /\ IsFiniteSet(BagToSet(view.points))
         /\ BagToSet(view.points) \subseteq 1..MaxPolls
         /\ Repeats(view.points) \in Nat
         /\ IsView(view) /\ Len(log) \in Nat /\ session.next \in Nat \ {0}
         /\ Oldest \in Nat \ {0} /\ Len(log) < Oldest + Capacity /\ Ahead \in Nat \ {0}
         /\ Oldest <= Ahead /\ session.next <= Ahead
         /\ IsFiniteSet(Held) /\ Cardinality(Held) \in Nat /\ Unannounced \in 0..1
  <1>1. IsView(view) /\ IsABag(view.points) /\ BagToSet(view.points) \subseteq 1..MaxPolls
    BY DEF Delivery, ViewShape, IsView
  <1>2. IsFiniteSet(BagToSet(view.points))
    <2>1. 1 \in Int /\ MaxPolls \in Int
      BY PollFeedConstants
    <2>2. IsFiniteSet(1..MaxPolls)
      BY <2>1, FS_Interval
    <2> QED  BY <1>1, <2>2, FS_Subset
  <1>3. Repeats(view.points) \in Nat
    BY <1>1, <1>2, PushRepeats
  <1>4. Len(log) \in Nat /\ session.next \in Nat \ {0}
    BY DEF Delivery, LogTyped, SessionSound
  <1>5. Oldest \in Nat \ {0} /\ Len(log) < Oldest + Capacity
    BY <1>4, PollFeedConstants DEF Oldest
  <1>6. Ahead \in Nat \ {0} /\ Oldest <= Ahead /\ session.next <= Ahead
    BY <1>4, <1>5 DEF Ahead
  <1>7. IsFiniteSet(Held) /\ Cardinality(Held) \in Nat
    BY <1>4, <1>6, SomeHeld DEF Held
  <1>8. Unannounced \in 0..1
    BY DEF Unannounced
  <1> QED  BY <1>1, <1>2, <1>3, <1>4, <1>5, <1>6, <1>7, <1>8

(* A point that a tick caches will be announced once at most.               *)
LEMMA PointsQuietKeeps == EngineInv /\ Delivery /\ ReplayInv /\ PointsQuiet => ReplayInv'
  <1> SUFFICES ASSUME EngineInv, Delivery, ReplayInv, PointsQuiet PROVE ReplayInv'
    OBVIOUS
  <1>1. PointsArePast /\ RepeatsFit
    BY DEF ReplayInv
  <1>2. /\ UNCHANGED <<session, view, log>>
        /\ polls' \in Nat /\ polls <= polls'
        /\ polls' = polls => /\ pc' # "idle" => pc # "idle"
                             /\ pc' \notin {"idle", "announce"} => pc \notin {"idle", "announce"}
        /\ \A p \in history' : p \in history \/ (p = polls' /\ pc' = "announce")
        /\ pc' = "announce" => /\ polls' = polls
                               /\ pc = "cache" \/ (pc = "announce" /\ fetched' = fetched)
    BY DEF PointsQuiet
  <1>3. PointsArePast'
    <2>0. polls \in Nat
      BY DEF EngineInv, EngineTyped
    <2>1. \A i, j \in 1..Len(log) :
            i < j /\ log[j].type = "update" =>
              \A p \in PointsOf(log[i]), q \in PointsOf(log[j]) : p < q
      BY <1>1 DEF PointsArePast
    <2>2. ASSUME NEW i \in 1..Len(log), NEW p \in PointsOf(log[i])
          PROVE  p \in Nat /\ p <= polls' /\ (pc' # "idle" => p < polls')
      BY <1>1, <1>2, <2>0 DEF PointsArePast
    <2>3. ASSUME NEW p \in BagToSet(view.points) \cup history'
          PROVE  p \in Nat /\ p <= polls' /\ (pc' \notin {"idle", "announce"} => p < polls')
      BY <1>1, <1>2, <2>0 DEF PointsArePast
    <2> QED  BY <1>2, <2>1, <2>2, <2>3 DEF PointsArePast
  <1>4. Unannounced' \in Nat /\ Unannounced' <= Unannounced
    <2>1. CASE pc' = "announce" /\ pc = "cache"
      <3>1. \A p \in BagToSet(view.points) : p < polls /\ p \in Nat
        BY <1>1, <2>1 DEF PointsArePast
      <3>2. polls' \notin BagToSet(view'.points)
        BY <1>2, <2>1, <3>1
      <3> QED  BY <3>2 DEF Unannounced
    <2>2. CASE pc' = "announce" /\ pc = "announce" /\ fetched' = fetched
      BY <1>2, <2>2 DEF Unannounced
    <2>3. CASE pc' # "announce"
      BY <2>3 DEF Unannounced
    <2> QED  BY <1>2, <2>1, <2>2, <2>3
  <1>5. RepeatsFit'
    <2>1. Repeats(view'.points) = Repeats(view.points) /\ Held' = Held
      BY <1>2 DEF Held, Ahead, Oldest
    <2>2. Repeats(view.points) \in Nat /\ Cardinality(Held) \in Nat /\ Unannounced \in 0..1 /\ Capacity \in Nat
      BY Chart, PollFeedConstants
    <2>3. Repeats(view.points) + Cardinality(Held) + Unannounced <= Capacity + 1
      BY <1>1 DEF RepeatsFit
    <2>4. Repeats(view.points) + Cardinality(Held) + Unannounced' <= Capacity + 1
      BY <1>4, <2>2, <2>3
    <2> QED  BY <2>1, <2>4 DEF RepeatsFit
  <1> QED  BY <1>3, <1>5 DEF ReplayInv

(* An announced point is one message more to repeat it, and no longer due.  *)
LEMMA SentKeeps ==
  ASSUME EngineInv, Delivery, ReplayInv, NEW m \in Messages, PointsSent(m)
  PROVE  ReplayInv'
  <1>1. /\ UNCHANGED <<session, view, polls, history>>
        /\ log' = Append(log, m) /\ pc' = "idle"
        /\ \A q \in PointsOf(m) : q \in Nat /\ q <= polls
        /\ m.type = "update" /\ PointsOf(m) # {} =>
             pc = "announce" /\ fetched.points # {} /\ PointsOf(m) = {polls}
    BY DEF PointsSent
  <1>2. /\ Len(log') = Len(log) + 1 /\ Len(log) \in Nat
        /\ log'[Len(log) + 1] = m
        /\ \A i \in 1..Len(log) : log'[i] = log[i]
    BY <1>1, Appended DEF Delivery
  <1>3. /\ \A i, j \in 1..Len(log) :
             i < j /\ log[j].type = "update" =>
               \A p \in PointsOf(log[i]), q \in PointsOf(log[j]) : p < q
        /\ \A i \in 1..Len(log) : \A p \in PointsOf(log[i]) :
             p \in Nat /\ p <= polls /\ (pc # "idle" => p < polls)
        /\ \A p \in BagToSet(view.points) \cup history : p \in Nat /\ p <= polls
    BY DEF ReplayInv, PointsArePast
  <1>4. PointsArePast'
    <2>1. ASSUME NEW i \in 1..Len(log'), NEW j \in 1..Len(log'), i < j, log'[j].type = "update",
                 NEW p \in PointsOf(log'[i]), NEW q \in PointsOf(log'[j])
          PROVE  p < q
      <3>1. i \in 1..Len(log) /\ log'[i] = log[i]
        BY <1>2, <2>1
      <3>2. CASE j \in 1..Len(log)
        <4>1. log'[j] = log[j]
          BY <1>2, <3>2
        <4>2. log[j].type = "update" /\ p \in PointsOf(log[i]) /\ q \in PointsOf(log[j])
          BY <2>1, <3>1, <4>1
        <4> QED  BY <1>3, <2>1, <3>1, <3>2, <4>2
      <3>3. CASE j = Len(log) + 1
        <4>1. log'[j] = m
          BY <1>2, <3>3
        <4>2. m.type = "update" /\ q \in PointsOf(m) /\ p \in PointsOf(log[i])
          BY <2>1, <3>1, <4>1
        <4>3. pc = "announce" /\ PointsOf(m) = {polls}
          BY <1>1, <4>2
        <4> QED  BY <1>3, <3>1, <4>2, <4>3
      <3> QED  BY <1>2, <3>2, <3>3
    <2>2. ASSUME NEW i \in 1..Len(log'), NEW p \in PointsOf(log'[i])
          PROVE  p \in Nat /\ p <= polls
      <3>1. CASE i \in 1..Len(log)
        BY <1>2, <1>3, <2>2, <3>1
      <3>2. CASE i = Len(log) + 1
        BY <1>1, <1>2, <2>2, <3>2
      <3> QED  BY <1>2, <3>1, <3>2
    <2> QED  BY <1>1, <1>3, <2>1, <2>2 DEF PointsArePast
  <1>5. Ahead \in Nat /\ Ahead' \in Nat /\ Ahead <= Ahead'
    <2>1. session.next \in Nat /\ Oldest \in Nat
      BY Chart
    <2>2. Oldest' \in Nat /\ Oldest <= Oldest'
      BY <1>2, <2>1, PollFeedConstants DEF Oldest
    <2> QED  BY <1>1, <2>1, <2>2 DEF Ahead
  <1>6. /\ Repeats(view.points) \in Nat /\ IsFiniteSet(Held) /\ Cardinality(Held) \in Nat
        /\ Unannounced \in 0..1
    BY Chart
  <1>7. Unannounced' = 0
    BY <1>1 DEF Unannounced
  <1> DEFINE S == BagToSet(view.points)
  <1>8. \A j \in Held' : j \in Held \/ (j = Len(log) + 1 /\ m.type = "update" /\ PointsOf(m) \cap S # {})
    <2> SUFFICES ASSUME NEW j \in Held'
                 PROVE  j \in Held \/ (j = Len(log) + 1 /\ m.type = "update" /\ PointsOf(m) \cap S # {})
      OBVIOUS
    <2>1. j \in Ahead'..Len(log') /\ log'[j].type = "update" /\ PointsOf(log'[j]) \cap S # {}
      BY <1>1 DEF Held, Repeating
    <2>2. CASE j = Len(log) + 1
      BY <1>2, <2>1, <2>2
    <2>3. CASE j # Len(log) + 1
      <3>1. j \in 1..Len(log) /\ j \in Ahead..Len(log)
        <4>1. Ahead \in Nat \ {0}
          BY Chart
        <4> QED  BY <1>2, <1>5, <2>1, <2>3, <4>1
      <3>2. log'[j] = log[j]
        BY <1>2, <3>1
      <3> QED  BY <2>1, <3>1, <3>2 DEF Held, Repeating
    <2> QED  BY <2>2, <2>3
  <1>9. Cardinality(Held') \in Nat /\ Cardinality(Held') <= Cardinality(Held) + Unannounced
    <2>1. CASE m.type = "update" /\ PointsOf(m) \cap S # {}
      <3>1. pc = "announce" /\ fetched.points # {} /\ polls \in S
        BY <1>1, <2>1
      <3>2. Unannounced = 1
        BY <3>1 DEF Unannounced
      <3>3. /\ IsFiniteSet(Held \cup {Len(log) + 1})
            /\ Cardinality(Held \cup {Len(log) + 1}) <= Cardinality(Held) + 1
        <4>1. /\ IsFiniteSet(Held \cup {Len(log) + 1})
              /\ Cardinality(Held \cup {Len(log) + 1})
                   = IF Len(log) + 1 \in Held THEN Cardinality(Held) ELSE Cardinality(Held) + 1
          BY <1>6, FS_AddElement, Zenon
        <4> QED  BY <1>6, <4>1
      <3>4. Held' \in SUBSET (Held \cup {Len(log) + 1})
        BY <1>8
      <3>5. IsFiniteSet(Held') /\ Cardinality(Held') <= Cardinality(Held \cup {Len(log) + 1})
        BY <3>3, <3>4, FS_Subset
      <3>6. Cardinality(Held') \in Nat /\ Cardinality(Held \cup {Len(log) + 1}) \in Nat
        BY <3>3, <3>5, FS_CardinalityType
      <3> QED  BY <1>6, <3>2, <3>3, <3>5, <3>6
    <2>2. CASE ~(m.type = "update" /\ PointsOf(m) \cap S # {})
      <3>1. Held' \in SUBSET Held
        BY <1>8, <2>2
      <3>2. IsFiniteSet(Held') /\ Cardinality(Held') <= Cardinality(Held)
        BY <1>6, <3>1, FS_Subset
      <3>3. Cardinality(Held') \in Nat
        BY <3>2, FS_CardinalityType
      <3> QED  BY <1>6, <3>2, <3>3
    <2> QED  BY <2>1, <2>2
  <1>10. RepeatsFit'
    <2>1. Repeats(view.points) + Cardinality(Held) + Unannounced <= Capacity + 1
      BY DEF ReplayInv, RepeatsFit
    <2>2. Repeats(view'.points) = Repeats(view.points)
      BY <1>1
    <2>3. Repeats(view.points) + Cardinality(Held') + 0 <= Capacity + 1
      BY <1>6, <1>9, <2>1, PollFeedConstants
    <2> QED  BY <1>7, <2>2, <2>3 DEF RepeatsFit
  <1> QED  BY <1>4, <1>10 DEF ReplayInv

(* A session's step leaves the points of the engine and of the log alone. *)
LEMMA SessionPoints ==
  ASSUME ReplayInv, EngineUnchanged,
         \A p \in BagToSet(view'.points) :
           p \in BagToSet(view.points) \cup history
             \/ \E i \in 1..Len(log) : p \in PointsOf(log[i])
  PROVE  PointsArePast'
  <1>1. UNCHANGED <<log, pc, polls, fetched, history, cache>>
    BY DEF EngineUnchanged, tickVars, scopeVars, sharedVars
  <1>2. PointsArePast
    BY DEF ReplayInv
  <1>3. ASSUME NEW p \in BagToSet(view'.points) \cup history
        PROVE  p \in Nat /\ p <= polls /\ (pc \notin {"idle", "announce"} => p < polls)
    <2>1. CASE p \in BagToSet(view.points) \cup history
      BY <1>2, <2>1 DEF PointsArePast
    <2>2. CASE \E i \in 1..Len(log) : p \in PointsOf(log[i])
      BY <1>2, <2>2 DEF PointsArePast
    <2> QED  BY <1>3, <2>1, <2>2
  <1> QED  BY <1>1, <1>2, <1>3 DEF PointsArePast

(* A session that pushes no point has no more to repeat than before.        *)
LEMMA PausedPoints ==
  ASSUME Delivery, ReplayInv, EngineUnchanged, view'.points = view.points,
         Ahead' \in Nat, Ahead <= Ahead'
  PROVE  ReplayInv'
  <1>1. UNCHANGED <<log, pc, polls, fetched, history, cache>>
    BY DEF EngineUnchanged, tickVars, scopeVars, sharedVars
  <1>2. PointsArePast'
    <2>1. \A p \in BagToSet(view'.points) : p \in BagToSet(view.points) \cup history
      OBVIOUS
    <2> QED  BY <2>1, SessionPoints
  <1>3. /\ Repeats(view.points) \in Nat /\ IsFiniteSet(Held) /\ Cardinality(Held) \in Nat
        /\ Unannounced \in 0..1 /\ Ahead \in Nat /\ Len(log) \in Nat
    BY Chart
  <1>4. Held' \in SUBSET Held
    BY <1>1, <1>3 DEF Held, Repeating
  <1>5. IsFiniteSet(Held') /\ Cardinality(Held') <= Cardinality(Held)
    BY <1>3, <1>4, FS_Subset
  <1>6. Cardinality(Held') \in Nat
    BY <1>5, FS_CardinalityType
  <1>7. Unannounced' = Unannounced
    BY <1>1 DEF Unannounced
  <1>8. Repeats(view.points) + Cardinality(Held) + Unannounced <= Capacity + 1
    BY DEF ReplayInv, RepeatsFit
  <1>9. Repeats(view.points) + Cardinality(Held') + Unannounced <= Capacity + 1
    BY <1>3, <1>5, <1>6, <1>8, PollFeedConstants
  <1>10. RepeatsFit'
    BY <1>7, <1>9 DEF RepeatsFit
  <1> QED  BY <1>2, <1>10 DEF ReplayInv

(* Subscribing, lagging and closing push nothing.                           *)
LEMMA PausesKeepPoints ==
  ASSUME Delivery, ReplayInv, Subscribe \/ Lagged \/ CloseSession
  PROVE  ReplayInv'
  <1>1. EngineUnchanged /\ view' = view /\ UNCHANGED log
    BY DEF Subscribe, Lagged, CloseSession, EngineUnchanged, sharedVars
  <1>2. /\ Len(log) \in Nat /\ session.next \in Nat /\ Oldest \in Nat /\ Ahead \in Nat
        /\ session.next <= Len(log) + 1
    BY Chart DEF Delivery, SessionSound
  <1>3. Oldest' = Oldest /\ Oldest <= Len(log) + 1
    BY <1>1, <1>2, PollFeedConstants DEF Oldest
  <1>4. DOMAIN session = {"pc", "next", "joined"}
    BY DEF Delivery, SessionSound
  <1>5. session'.next \in Nat /\ (session'.next = Len(log) + 1 \/ session'.next >= session.next)
    <2>1. CASE Subscribe
      BY <1>2, <2>1 DEF Subscribe
    <2>2. CASE Lagged
      BY <1>2, <1>4, <2>2 DEF Lagged
    <2>3. CASE CloseSession
      BY <1>2, <1>4, <2>3 DEF CloseSession
    <2> QED  BY <2>1, <2>2, <2>3
  <1>6. Ahead' \in Nat /\ Ahead <= Ahead'
    BY <1>2, <1>3, <1>5 DEF Ahead
  <1> QED  BY <1>1, <1>6, PausedPoints

(* A cached snapshot starts the chart anew, before all that is held.        *)
LEMMA RefreshKeepsPoints ==
  ASSUME EngineInv, Delivery, ReplayInv, SendInitial \/ Resync
  PROVE  ReplayInv'
  <1>1. EngineUnchanged /\ session'.next = session.next
    BY DEF SendInitial, Resync, Delivery, SessionSound
  <1>2. UNCHANGED <<log, pc, polls, fetched, history, cache>>
    BY <1>1 DEF EngineUnchanged, tickVars, scopeVars, sharedVars
  <1>3. /\ Ahead \in Nat /\ Len(log) \in Nat /\ IsView(view)
        /\ Oldest <= Ahead /\ Len(log) < Oldest + Capacity /\ Oldest \in Nat
    BY Chart
  <1>4. Ahead' = Ahead
    BY <1>1, <1>2 DEF Ahead, Oldest
  <1>5. CASE cache = None
    <2>1. ConnectionStatus \in Messages /\ ConnectionStatus.type = "connection_status"
      BY DEF Messages, ConnectionStatus
    <2>2. HandleMessage(view, ConnectionStatus).points = view.points
      BY <1>3, <2>1, HandledPoints
    <2>3. view'.points = view.points
      BY <1>5, <2>2 DEF SendInitial, Resync
    <2> QED  BY <1>1, <1>3, <1>4, <2>3, PausedPoints
  <1>6. CASE cache # None
    <2>1. cache \in SnapshotType /\ cache.points \subseteq history /\ history \subseteq 1..polls
          /\ polls \in Nat
      BY <1>6, PollFeedConstants DEF EngineInv, EngineTyped, Cached
    <2>2. Snapshot(cache) \in Messages /\ Snapshot(cache).type = "snapshot" /\ Snapshot(cache).data = cache
      BY <2>1, SnapshotIsMessage
    <2>3. HandleMessage(view, Snapshot(cache)).points = SetToBag(cache.points)
      BY <1>3, <2>2, HandledPoints
    <2>4. view'.points = SetToBag(cache.points)
      BY <1>6, <2>3 DEF SendInitial, Resync
    <2>5. IsFiniteSet(cache.points)
      <3>1. 1 \in Int /\ polls \in Int
        BY <2>1
      <3>2. IsFiniteSet(1..polls)
        BY <3>1, FS_Interval
      <3>3. cache.points \in SUBSET (1..polls)
        BY <2>1
      <3> QED  BY <3>2, <3>3, FS_Subset
    <2>6. BagToSet(view'.points) = cache.points /\ Repeats(view'.points) = 0
      BY <2>4, <2>5, SnapshotPoints, NothingRepeated
    <2>7. PointsArePast'
      <3>1. \A p \in BagToSet(view'.points) : p \in BagToSet(view.points) \cup history
        BY <2>1, <2>6
      <3> QED  BY <1>1, <3>1, SessionPoints
    <2>8. Held' = Repeating(log, Ahead, cache.points)
      BY <1>2, <1>4, <2>6 DEF Held
    <2>9. Capacity \in Nat /\ Len(log) < Ahead + Capacity
      BY <1>3, PollFeedConstants
    <2>10. Cardinality(Held') \in Nat /\ Cardinality(Held') <= Capacity
      BY <1>3, <2>8, <2>9, SomeHeld
    <2>11. Unannounced' \in 0..1
      BY DEF Unannounced
    <2>12. 0 + Cardinality(Held') + Unannounced' <= Capacity + 1
      BY <2>9, <2>10, <2>11
    <2>13. RepeatsFit'
      BY <2>6, <2>12 DEF RepeatsFit
    <2> QED  BY <2>7, <2>13 DEF ReplayInv
  <1> QED  BY <1>5, <1>6

(* A message that repeats a point has left the channel with it.             *)
LEMMA ReceiveKeepsPoints ==
  ASSUME Delivery, ReplayInv, Receive
  PROVE  ReplayInv'
  <1> DEFINE i == session.next
             m == log[i]
             S == BagToSet(view.points)
  <1>1. /\ EngineUnchanged /\ session'.next = i + 1 /\ view' = HandleMessage(view, m)
        /\ i \in Oldest..Len(log)
    BY DEF Receive, Delivery, SessionSound
  <1>2. UNCHANGED <<log, pc, polls, fetched, history, cache>>
    BY <1>1 DEF EngineUnchanged, tickVars, scopeVars, sharedVars
  <1>3. /\ IsABag(view.points) /\ IsFiniteSet(S) /\ Repeats(view.points) \in Nat
        /\ IsView(view) /\ Len(log) \in Nat /\ Oldest \in Nat \ {0}
        /\ IsFiniteSet(Held) /\ Cardinality(Held) \in Nat /\ Unannounced \in 0..1
    BY Chart
  <1>4. i \in 1..Len(log) /\ i \in Nat
    BY <1>1, <1>3
  <1>5. Ahead = i /\ Ahead' = i + 1
    BY <1>1, <1>2, <1>3, <1>4 DEF Ahead, Oldest
  <1>6. m \in Messages
    BY <1>4 DEF Delivery, LogTyped
  <1>7. \A p \in PointsOf(m) : p \in Nat /\ p <= polls /\ (pc # "idle" => p < polls)
    BY <1>4 DEF ReplayInv, PointsArePast
  <1>8. \A j \in (i + 1)..Len(log) : log[j].type = "update" =>
          \A p \in PointsOf(m), q \in PointsOf(log[j]) : p < q
    <2> SUFFICES ASSUME NEW j \in (i + 1)..Len(log), log[j].type = "update",
                        NEW p \in PointsOf(m), NEW q \in PointsOf(log[j])
                 PROVE  p < q
      OBVIOUS
    <2>1. j \in 1..Len(log) /\ i < j
      BY <1>3, <1>4
    <2> QED  BY <1>4, <2>1 DEF ReplayInv, PointsArePast
  <1>9. polls \in PointsOf(m) => pc = "idle"
    BY <1>7
  <1>10. Repeats(view.points) + Cardinality(Held) + Unannounced <= Capacity + 1
    BY DEF ReplayInv, RepeatsFit
  <1> HIDE DEF m
  <1>11. HandleMessage(view, m).points =
           IF m.type = "snapshot" THEN SetToBag(m.data.points)
           ELSE IF m.type = "update" /\ m.data.traffic # None
                THEN view.points (+) SetToBag({m.data.traffic})
                ELSE view.points
    BY <1>3, <1>6, HandledPoints
  <1>12. CASE m.type = "snapshot"
    <2>1. view'.points = SetToBag(PointsOf(m))
      BY <1>1, <1>11, <1>12 DEF PointsOf
    <2>2. IsFiniteSet(PointsOf(m))
      <3>1. PointsOf(m) \subseteq 1..MaxPolls
        BY <1>6, <1>12 DEF PointsOf, Messages, SnapshotType, UpdateType, ConnectionStatus
      <3>2. 1 \in Int /\ MaxPolls \in Int
        BY PollFeedConstants
      <3>3. IsFiniteSet(1..MaxPolls)
        BY <3>2, FS_Interval
      <3> QED  BY <3>1, <3>3, FS_Subset
    <2>3. BagToSet(view'.points) = PointsOf(m) /\ Repeats(view'.points) = 0
      BY <2>1, <2>2, SnapshotPoints, NothingRepeated
    <2>4. PointsArePast'
      <3>1. \A p \in BagToSet(view'.points) : \E k \in 1..Len(log) : p \in PointsOf(log[k])
        BY <1>4, <2>3 DEF m
      <3> QED  BY <1>1, <3>1, SessionPoints
    <2>5. Held' = {}
      <3> SUFFICES ASSUME NEW j \in Held' PROVE FALSE
        OBVIOUS
      <3>1. /\ j \in (i + 1)..Len(log) /\ log[j].type = "update"
            /\ PointsOf(log[j]) \cap PointsOf(m) # {}
        BY <1>2, <1>5, <2>3 DEF Held, Repeating
      <3>2. PICK q \in PointsOf(log[j]) : q \in PointsOf(m)
        BY <3>1
      <3>3. q < q /\ q \in Nat
        BY <1>7, <1>8, <3>1, <3>2
      <3> QED  BY <3>3
    <2>6. Unannounced' = 0
      BY <1>2, <1>9, <2>3 DEF Unannounced
    <2>7. Cardinality(Held') = 0
      BY <2>5, FS_EmptySet
    <2>8. RepeatsFit'
      BY <2>3, <2>6, <2>7, PollFeedConstants DEF RepeatsFit
    <2> QED  BY <2>4, <2>8 DEF ReplayInv
  <1>13. CASE m.type = "update" /\ m.data.traffic # None
    <2> DEFINE t == m.data.traffic
    <2>1. PointsOf(m) = {t}
      BY <1>13 DEF PointsOf
    <2>2. view'.points = view.points (+) SetToBag({t})
      BY <1>1, <1>11, <1>13
    <2> HIDE DEF t
    <2>3. BagToSet(view'.points) = S \cup {t}
      BY <1>3, <2>2, PushedPoint
    <2>4. Repeats(view'.points) = Repeats(view.points) + (IF t \in S THEN 1 ELSE 0)
      BY <1>3, <2>2, PushRepeats
    <2>5. PointsArePast'
      <3>1. \A p \in BagToSet(view'.points) :
              p \in S \cup history \/ \E k \in 1..Len(log) : p \in PointsOf(log[k])
        BY <1>4, <2>1, <2>3 DEF m
      <3> QED  BY <1>1, <3>1, SessionPoints
    <2>6. Unannounced' \in 0..1 /\ Unannounced' <= Unannounced
      BY <1>2, <1>9, <2>1, <2>3 DEF Unannounced
    <2>7. ASSUME NEW j \in Held'
          PROVE  j \in Held /\ j # i
      <3>1. /\ j \in (i + 1)..Len(log) /\ log[j].type = "update"
            /\ PointsOf(log[j]) \cap (S \cup {t}) # {}
        BY <1>2, <1>5, <2>3 DEF Held, Repeating
      <3>2. t \notin PointsOf(log[j])
        <4>1. t \in PointsOf(m) /\ t \in Nat /\ ~(t < t)
          BY <1>7, <2>1
        <4> QED  BY <1>8, <3>1, <4>1
      <3>3. PointsOf(log[j]) \cap S # {} /\ j \in i..Len(log) /\ j # i
        BY <1>3, <1>4, <3>1, <3>2
      <3> QED  BY <1>5, <3>1, <3>3 DEF Held, Repeating
    <2>8. CASE t \in S
      <3>1. i \in Held
        <4>1. log[i].type = "update" /\ PointsOf(log[i]) \cap S # {}
          BY <1>13, <2>1, <2>8 DEF m
        <4> QED  BY <1>4, <1>5, <4>1 DEF Held, Repeating
      <3>2. /\ IsFiniteSet(Held \ {i})
            /\ Cardinality(Held \ {i}) = Cardinality(Held) - 1
        <4>1. /\ IsFiniteSet(Held \ {i})
              /\ Cardinality(Held \ {i}) = IF i \in Held THEN Cardinality(Held) - 1 ELSE Cardinality(Held)
          BY <1>3, FS_RemoveElement, Zenon
        <4> QED  BY <3>1, <4>1
      <3>3. Held' \in SUBSET (Held \ {i})
        BY <2>7
      <3>4. IsFiniteSet(Held') /\ Cardinality(Held') <= Cardinality(Held \ {i})
        BY <3>2, <3>3, FS_Subset
      <3>5. Cardinality(Held') \in Nat
        BY <3>4, FS_CardinalityType
      <3>6. Repeats(view'.points) + Cardinality(Held') + Unannounced' <= Capacity + 1
        BY <1>3, <1>10, <2>4, <2>6, <2>8, <3>2, <3>4, <3>5, PollFeedConstants
      <3> QED  BY <2>5, <3>6 DEF ReplayInv, RepeatsFit
    <2>9. CASE t \notin S
      <3>1. Held' \in SUBSET Held
        BY <2>7
      <3>2. IsFiniteSet(Held') /\ Cardinality(Held') <= Cardinality(Held)
        BY <1>3, <3>1, FS_Subset
      <3>3. Cardinality(Held') \in Nat
        BY <3>2, FS_CardinalityType
      <3>4. Repeats(view'.points) + Cardinality(Held') + Unannounced' <= Capacity + 1
        BY <1>3, <1>10, <2>4, <2>6, <2>9, <3>2, <3>3, PollFeedConstants
      <3> QED  BY <2>5, <3>4 DEF ReplayInv, RepeatsFit
    <2> QED  BY <2>8, <2>9
  <1>14. CASE m.type # "snapshot" /\ ~(m.type = "update" /\ m.data.traffic # None)
    <2>1. view'.points = view.points
      BY <1>1, <1>11, <1>14
    <2>2. Ahead' \in Nat /\ Ahead <= Ahead'
      BY <1>4, <1>5
    <2> QED  BY <1>1, <2>1, <2>2, PausedPoints
  <1> QED  BY <1>12, <1>13, <1>14

(* Nothing is repeated at the start.                                        *)
LEMMA ReplayInit == Init => ReplayInv
  <1> SUFFICES ASSUME Init PROVE ReplayInv
    OBVIOUS
  <1>1. log = <<>> /\ history = {} /\ pc = "idle" /\ Len(log) = 0
    BY DEF Init, EngineInit
  <1>2. view.points = SetToBag({})
    BY DEF Init, SessionInit, EmptyBag
  <1>3. IsFiniteSet({}) /\ Cardinality({}) = 0
    BY FS_EmptySet
  <1>4. BagToSet(view.points) = {} /\ Repeats(view.points) = 0
    BY <1>2, <1>3, SnapshotPoints, NothingRepeated
  <1>5. PointsArePast
    BY <1>1, <1>4 DEF PointsArePast
  <1>6. Held = {} /\ Unannounced = 0
    BY <1>1, <1>4 DEF Held, Repeating, Unannounced
  <1> QED  BY <1>3, <1>4, <1>5, <1>6, PollFeedConstants DEF ReplayInv, RepeatsFit

(* The bound is inductive.                                                  *)
LEMMA ReplayStep == EngineInv /\ Delivery /\ ReplayInv /\ [Next]_vars => ReplayInv'
  <1> SUFFICES ASSUME EngineInv, Delivery, ReplayInv, [Next]_vars PROVE ReplayInv'
    OBVIOUS
  <1>1. CASE EngineNext
    <2>1. CASE PointsQuiet
      BY <2>1, PointsQuietKeeps
    <2>2. CASE \E m \in Messages : PointsSent(m)
      BY <2>2, SentKeeps
    <2> QED  BY <1>1, <2>1, <2>2, EngineSends
  <1>2. CASE SessionNext
    BY <1>2, PausesKeepPoints, RefreshKeepsPoints, ReceiveKeepsPoints DEF SessionNext
  <1>3. CASE UNCHANGED vars
    <2>1. PointsQuiet
      BY <1>3 DEF vars, tickVars, scopeVars, sharedVars, browserVars, PointsQuiet, EngineInv,
         EngineTyped
    <2> QED  BY <2>1, PointsQuietKeeps
  <1> QED  BY <1>1, <1>2, <1>3 DEF Next

-----------------------------------------------------------------------------
(* The theorems.                                                            *)

LEMMA DeliveryInit == Init => Delivery
  <1> SUFFICES ASSUME Init PROVE Delivery
    OBVIOUS
  <1>1. log = <<>> /\ firstPoll /\ session = [pc |-> "closed", next |-> 1, joined |-> 0]
    BY DEF Init, EngineInit, SessionInit
  <1>2. /\ view.gateway = [ipv6 |-> None] /\ view.wans = None /\ view.points = EmptyBag
        /\ view.stamp = None
        /\ DOMAIN view = {"gateway", "wans", "points", "stamp", "connected"}
    BY DEF Init, SessionInit
  <1>3. view.connected = FALSE
    BY DEF Init, SessionInit
  <1>4. IsABag(EmptyBag) /\ BagToSet(EmptyBag) = {}
    BY SnapshotPoints DEF EmptyBag
  <1>5. IsView(view)
    BY <1>2, <1>4 DEF IsView, Gateways
  <1>6. LogTyped /\ SessionSound
    BY <1>1 DEF LogTyped, SessionSound
  <1>7. LogIsCurrent /\ ViewIsCurrent /\ OutageReachesBrowser
    BY <1>1 DEF LogIsCurrent, ViewIsCurrent, OutageReachesBrowser, Drained, Live
  <1>8. ViewShape
    BY <1>3, <1>5 DEF ViewShape
  <1> QED  BY <1>6, <1>7, <1>8 DEF Delivery

LEMMA DeliveryStep == EngineInv /\ Delivery /\ [Next]_vars => Delivery'
  <1> SUFFICES ASSUME EngineInv, Delivery, [Next]_vars PROVE Delivery'
    OBVIOUS
  <1>1. CASE EngineNext
    BY <1>1, EngineFeeds, QuietKeeps, OutageKeeps, NewsKeeps
  <1>2. CASE SessionNext
    BY <1>2, PausesKeep, RefreshKeeps, ReceiveKeeps DEF SessionNext
  <1>3. CASE UNCHANGED vars
    <2>1. FeedQuiet
      BY <1>3 DEF vars, browserVars, sharedVars, clientVars, scopeVars, FeedQuiet, SamePart, Live
    <2> QED  BY <2>1, QuietKeeps
  <1> QED  BY <1>1, <1>2, <1>3 DEF Next

LEMMA FeedIsSound == Spec => [](EngineInv /\ Delivery)
  <1>1. Init => EngineInv /\ Delivery
    BY EngineInit_, DeliveryInit
  <1>2. EngineInv /\ Delivery /\ [Next]_vars => (EngineInv /\ Delivery)'
    BY EngineStep, DeliveryStep
  <1> QED  BY <1>1, <1>2, PTL DEF Spec

(* The variables have their types, and between ticks the engine reports     *)
(* "Ready" only with a connected client and the cached snapshot that the    *)
(* next difference is computed from (mark_poll_failure, the end of          *)
(* poll_tick and catch_unwind in engine.rs).                                *)
THEOREM ReadinessIsTruthful == Spec => []EngineIsConsistent
  <1>1. EngineInv /\ Delivery => EngineIsConsistent
    <2> SUFFICES ASSUME EngineInv, Delivery PROVE EngineIsConsistent
      OBVIOUS
    <2>1. ReadyServesLastSnapshot
      BY DEF EngineInv
    <2>2. rated \in BOOLEAN /\ firstPoll \in BOOLEAN
      BY DEF EngineInv, Flags
    <2>3. /\ config \in Hosts
          /\ pc \in {"idle", "connect", "fetch", "cache", "announce"}
          /\ polls \in 0..MaxPolls
          /\ {client, lastParams, readParams, scope} \subseteq Hosts \cup {None}
          /\ {prevSnapshot, fetched, cache} \subseteq SnapshotType \cup {None}
          /\ readiness \in {"Starting", "Ready", "Degraded"}
      BY DEF EngineInv, EngineTyped
    <2>4. history \subseteq 1..MaxPolls
      BY PollFeedConstants DEF EngineInv, EngineTyped
    <2>5. /\ session.pc \in {"closed", "subscribed", "streaming", "lagged"}
          /\ session.next \in 1..Len(log) + 1
      BY DEF Delivery, SessionSound
    <2>6. ViewTypeOK
      BY DEF Delivery, ViewShape, IsView, ViewTypeOK
    <2>7. TypeOK
      BY <2>2, <2>3, <2>4, <2>5, <2>6 DEF TypeOK
    <2> QED  BY <2>1, <2>7 DEF EngineIsConsistent
  <1> QED  BY <1>1, FeedIsSound, PTL

(* A session that was subscribed when a tick failed shows the outage once   *)
(* it has caught up, whatever it lost to lag or was sent in between         *)
(* (run_session's Lagged branch, handleConnectionStatus).                   *)
THEOREM OutagesReachTheBrowser == Spec => []OutageReachesBrowser
  <1>1. EngineInv /\ Delivery => OutageReachesBrowser
    BY DEF Delivery
  <1> QED  BY <1>1, FeedIsSound, PTL

(* A browser that has applied everything broadcast so far shows the router  *)
(* connected, the sections of the engine's last snapshot and no point of a  *)
(* router that was replaced, for every capacity of the channel and every    *)
(* interleaving of ticks, configuration changes, lag and joins.             *)
THEOREM DrainedViewsAreCurrent == Spec => []DrainedViewIsCurrent
  <1>1. EngineInv /\ Delivery => DrainedViewIsCurrent
    <2> SUFFICES ASSUME EngineInv, Delivery, Drained, Settled
                 PROVE  /\ view.connected
                        /\ view.wans = prevSnapshot.wans
                        /\ prevSnapshot.gateway.ipv6 # None
                             => view.gateway.ipv6 = prevSnapshot.gateway.ipv6
                        /\ BagToSet(view.points) \subseteq history
      BY DEF DrainedViewIsCurrent
    <2>1. /\ Live /\ session.pc = "streaming" /\ session.next = Len(log) + 1
          /\ pc = "idle" /\ Len(log) \in Nat
      BY DEF Drained, Settled, Live, Delivery, LogTyped
    <2>2. cache = prevSnapshot /\ prevSnapshot \in SnapshotType
      BY <2>1 DEF EngineInv, EngineTyped, Cached
    <2>3. NoSnapshot(session.next) /\ \A k : NoneCarries(k, session.next)
      BY <2>1 DEF NoSnapshot, NoneCarries
    <2>4. view.connected /\ BagToSet(view.points) \subseteq history
      BY <2>1, <2>3 DEF Delivery, ViewIsCurrent
    <2>5. \A k \in Parts : Part(prevSnapshot, k) # None => Part(view, k) = Part(prevSnapshot, k)
      BY <2>1, <2>2, <2>3 DEF Delivery, ViewIsCurrent
    <2>6. view.wans = prevSnapshot.wans
      <3>1. prevSnapshot.wans # None
        BY <2>2, PollFeedConstants DEF SnapshotType
      <3> QED  BY <2>5, <3>1 DEF Part, Parts
    <2>7. prevSnapshot.gateway.ipv6 # None => view.gateway.ipv6 = prevSnapshot.gateway.ipv6
      BY <2>5 DEF Part, Parts
    <2> QED  BY <2>4, <2>6, <2>7
  <1> QED  BY <1>1, FeedIsSound, PTL

(* The points that a joining or lagged session is sent twice, in the cached *)
(* snapshot and in the messages the channel still holds (run_session sends  *)
(* last_snapshot after it subscribed, handleUpdate pushes without a look at *)
(* the chart), are never more than the channel holds and one.               *)
THEOREM ReplaysAreBounded == Spec => []ReplayIsBounded
  <1>1. Init => EngineInv /\ Delivery /\ ReplayInv
    BY EngineInit_, DeliveryInit, ReplayInit
  <1>2. EngineInv /\ Delivery /\ ReplayInv /\ [Next]_vars => (EngineInv /\ Delivery /\ ReplayInv)'
    BY EngineStep, DeliveryStep, ReplayStep
  <1>3. EngineInv /\ Delivery /\ ReplayInv => ReplayIsBounded
    <2> SUFFICES ASSUME Delivery, ReplayInv PROVE ReplayIsBounded
      OBVIOUS
    <2> DEFINE f == [p \in BagToSet(view.points) |-> view.points[p] - 1]
    <2>1. /\ Repeats(view.points) \in Nat /\ Cardinality(Held) \in Nat /\ Unannounced \in 0..1
      BY Chart
    <2>2. Repeats(view.points) <= Capacity + 1
      BY <2>1, PollFeedConstants DEF ReplayInv, RepeatsFit
    <2>3. SumFunction(f) = Repeats(view.points)
      BY DEF SumFunction, Repeats, Repeated
    <2> QED  BY <2>2, <2>3 DEF ReplayIsBounded
  <1> QED  BY <1>1, <1>2, <1>3, PTL DEF Spec

-----------------------------------------------------------------------------
(* Saved addresses.                                                         *)

(* Without a save both reads of a tick see the same address; after one save *)
(* the client is for the address it is remembered under or for the new one. *)
Followed ==
    /\ configs \in Nat
    /\ pc = "connect" => client = None
    /\ pc = "connect" /\ configs = 0 => readParams = config
    /\ client # None /\ configs <= 1 =>
         client = lastParams \/ (configs = 1 /\ client = config)

LEMMA FollowedStep == Followed /\ [Next]_vars => Followed'
  <1> SUFFICES ASSUME Followed, [Next]_vars PROVE Followed'
    OBVIOUS
  <1> USE DEF Followed
  <1>1. ASSUME NEW h \in Hosts, SaveConfig(h) PROVE Followed'
    BY <1>1 DEF SaveConfig, tickVars, clientVars
  <1>2. CASE ReadParams
    BY <1>2 DEF ReadParams, ParamsChanged, configVars
  <1>3. CASE ConnectBackend
    BY <1>3 DEF ConnectBackend, configVars
  <1>4. CASE ConnectFails \/ ReconnectDeferred
    BY <1>4 DEF ConnectFails, ReconnectDeferred, clientVars, configVars
  <1>5. CASE FetchFails \/ TickPanics
    BY <1>5 DEF FetchFails, TickPanics, MarkPollFailure, configVars
  <1>6. ASSUME NEW id \in Identities, NEW gateway \in Gateways, NEW wans \in Values,
               NEW moving \in BOOLEAN, FetchAndTransform(id, gateway, wans, moving)
        PROVE  Followed'
    BY <1>6 DEF FetchAndTransform, clientVars, configVars
  <1>7. CASE CacheSnapshot \/ \E stored \in BOOLEAN : Announce(stored)
    BY <1>7 DEF CacheSnapshot, Announce, clientVars, configVars
  <1>8. CASE SessionNext \/ UNCHANGED vars
    BY <1>8 DEF SessionNext, Subscribe, SendInitial, Receive, Lagged, Resync, CloseSession,
       EngineUnchanged, tickVars, clientVars, configVars, vars
  <1> QED
    BY <1>1, <1>2, <1>3, <1>4, <1>5, <1>6, <1>7, <1>8 DEF Next, EngineNext

(* An address saved at any point of a tick, also between the two reads of   *)
(* try_reconnect, is the one a later tick polls.                            *)
THEOREM SavesTakeEffect == Spec => SaveTakesEffect
  <1>1. Init => Followed
    BY DEF Init, EngineInit, Followed
  <1>2. Followed /\ [Next]_vars
          => [(ReadParams /\ pc' = "fetch" /\ configs <= 1) => client' = config]_vars
    <2> SUFFICES ASSUME Followed, ReadParams, pc' = "fetch", configs <= 1
                 PROVE  client' = config
      OBVIOUS
    <2>1. client # None /\ client' = client /\ lastParams = config
      BY DEF ReadParams, ParamsChanged
    <2> QED  BY <2>1 DEF Followed
  <1> QED
    BY <1>1, <1>2, FollowedStep, PTL DEF Spec, SaveTakesEffect
=============================================================================
