------------------------------ MODULE WsClient ------------------------------
(****************************************************************************)
(* The browser's end of the live feed: the WebSocket store                  *)
(* (frontend/src/stores/websocket.ts) and the application shell that starts *)
(* and stops it with the login state (frontend/src/App.vue, stores/auth.ts).*)
(*                                                                          *)
(* JavaScript runs one callback at a time, so every callback is one action. *)
(* What is concurrent is the world: sockets open and close, replies and     *)
(* timers arrive late, the network comes and goes, users sign in and out.   *)
(*                                                                          *)
(* The store is one record and the functions of websocket.ts are operators  *)
(* from stores to stores, composed the way the code calls them.             *)
(*                                                                          *)
(* Abstractions.  The application only ever connects to one URL, so         *)
(* activeUrl is present or absent.  Delays are not modelled: a timer may    *)
(* fire at any moment after it is set, and the backoff counter, which only  *)
(* lengthens the delay, is left out together with the stability timer that  *)
(* resets it.  Vue runs watchers before the next callback, so what a        *)
(* watcher does belongs to the action that triggered it.                    *)
(****************************************************************************)
EXTENDS Integers

CONSTANTS
    None,           \* null
    MaxGeneration,  \* bound: how often the store may change generation
    MaxSignIns      \* bound: how often the user signs in

ASSUME WsClientConstants ==
    /\ MaxGeneration \in Nat
    /\ MaxSignIns \in Nat
    /\ None \notin Nat

VARIABLES
    online,     \* what navigator.onLine says
    store,      \* the WebSocket store
    app,        \* App.vue and the login state
    signIns     \* how often the user has signed in

clientVars == <<online, store, app, signIns>>

Generations == 1..MaxGeneration

(* close codes the store tells apart: 1008, 1006 and any other one *)
CloseCodes == {"policy", "abnormal", "other"}

Live == {"connecting", "open"}

-----------------------------------------------------------------------------
(* websocket.ts                                                             *)

IsCurrent(s, g) == s.ws = g /\ s.generation = g

MarkDisconnected(s) ==
    [s EXCEPT !.connectionState = "disconnected", !.wsConnected = FALSE]
(* Mutant: the old socket is dropped but not closed. *)
InvalidateWithoutClose(s) == [s EXCEPT !.generation = @ + 1, !.ws = None]

InvalidateSocket(s) ==
    [s EXCEPT !.generation = @ + 1,
              !.ws = None,
              !.sockets = [g \in Generations |->
                  IF g = s.ws /\ @[g] \in Live THEN "closing" ELSE @[g]]]

ScheduleReconnect(s) ==
    IF s.intentional \/ s.expired \/ s.offline \/ s.reconnectTimer
    THEN s
    ELSE [s EXCEPT !.reconnectTimer = TRUE]

MarkSessionExpired(s) ==
    [s EXCEPT !.expired = TRUE, !.activeUrl = FALSE, !.reconnectTimer = FALSE]

(* connect(url) up to its first early return *)
AcceptUrl(s) ==
    [s EXCEPT !.activeUrl = TRUE, !.intentional = FALSE,
              !.expired = FALSE, !.listening = TRUE]
(* the rest of connect(url); `throws' says that the constructor failed *)
OpenSocket(s, throws) ==
    LET g == s.generation + 1
        t == [s EXCEPT !.reconnectTimer = FALSE,
                       !.connectionState = "connecting",
                       !.generation = g]
    IN  IF throws
        THEN ScheduleReconnect(MarkDisconnected(t))
        ELSE [t EXCEPT !.ws = g, !.sockets[g] = "connecting"]

Connect(s, throws) ==
    LET t == AcceptUrl(s)
    IN  IF t.offline
        THEN MarkDisconnected(t)
        ELSE IF t.ws # None /\ t.sockets[t.ws] \in Live
             THEN t
             ELSE OpenSocket(t, throws)
(* Mutant: the pending reconnect timer is not cleared. *)
DisconnectKeepingTimer(s) ==
    MarkDisconnected(InvalidateSocket(
        [s EXCEPT !.intentional = TRUE, !.activeUrl = FALSE,
                  !.watchdog = None, !.listening = FALSE]))

Disconnect(s) ==
    MarkDisconnected(InvalidateSocket(
        [s EXCEPT !.intentional = TRUE, !.activeUrl = FALSE,
                  !.reconnectTimer = FALSE, !.watchdog = None,
                  !.listening = FALSE]))
(* Mutant: a silent socket is given up without scheduling another one. *)
RestartWithoutSchedule(s) ==
    IF ~s.activeUrl \/ s.intentional
    THEN s
    ELSE MarkDisconnected(InvalidateSocket([s EXCEPT !.watchdog = None]))

RestartCurrentSocket(s) ==
    IF ~s.activeUrl \/ s.intentional
    THEN s
    ELSE ScheduleReconnect(MarkDisconnected(InvalidateSocket([s EXCEPT !.watchdog = None])))

IsPendingReconnect(s, g) ==
    s.generation = g /\ s.activeUrl /\ ~s.intentional /\ ~s.expired

OnOpen(s, g) ==
    [s EXCEPT !.connectionState = "connected", !.wsConnected = TRUE, !.watchdog = g]

OnClose(s, g, code, opened) ==
    LET t == MarkDisconnected([s EXCEPT !.ws = None, !.watchdog = None])
    IN  IF code = "policy" THEN MarkSessionExpired(t)
        ELSE IF code = "abnormal" /\ ~opened /\ ~t.intentional
             THEN [t EXCEPT !.verifying = @ \cup {g}]
             ELSE IF t.intentional THEN t ELSE ScheduleReconnect(t)
OnOffline(s) ==
    MarkDisconnected(InvalidateSocket(
        [s EXCEPT !.offline = TRUE, !.reconnectTimer = FALSE, !.watchdog = None]))

OnOnline(s, throws) ==
    LET t == [s EXCEPT !.offline = FALSE]
    IN  IF t.activeUrl /\ ~t.intentional /\ ~t.expired THEN Connect(t, throws) ELSE t

-----------------------------------------------------------------------------
(* App.vue and auth.ts                                                      *)

(* startApplication: the socket first, then the device overrides, which are *)
(* awaited; a second start while they load is refused.                      *)
StartApplication(a, s, throws) ==
    IF a.started \/ a.starting \/ ~a.authenticated
    THEN [app |-> a, store |-> s]
    ELSE [app |-> [a EXCEPT !.started = TRUE, !.starting = TRUE,
                            !.startedIn = a.generation],
          store |-> Connect(s, throws)]

StopApplication(a, s) ==
    [app |-> [a EXCEPT !.generation = @ + 1, !.started = FALSE],
     store |-> IF a.started THEN Disconnect(s) ELSE s]

(* setAnonymous and the watcher on auth.authenticated *)
SetAnonymous(a, s) ==
    IF a.authenticated
    THEN StopApplication([a EXCEPT !.authenticated = FALSE], s)
    ELSE [app |-> a, store |-> s]

(* the watcher on sessionExpired: expireFromWebSocket *)
WatchExpiry(a, s) == IF s.expired THEN SetAnonymous(a, s) ELSE [app |-> a, store |-> s]

Become(next) == app' = next.app /\ store' = next.store

(* No callback of this action may leave the modelled generations. *)
InBounds == store.generation + 2 <= MaxGeneration

-----------------------------------------------------------------------------
(* Callbacks.                                                               *)

(* The page was just loaded from the server, so the browser is online. *)
ClientInit ==
    /\ online = TRUE
    /\ store = [ws |-> None, activeUrl |-> FALSE, reconnectTimer |-> FALSE,
                watchdog |-> None, intentional |-> FALSE, generation |-> 0,
                listening |-> FALSE, offline |-> ~online, expired |-> FALSE,
                connectionState |-> "disconnected", wsConnected |-> FALSE,
                sockets |-> [g \in Generations |-> "none"], verifying |-> {}]
    /\ app = [authenticated |-> FALSE, started |-> FALSE, starting |-> FALSE,
              generation |-> 0, startedIn |-> 0]
    /\ signIns = 0

(* login, setup, pair or a restored session: setAuthenticated.  The request *)
(* has to reach the server.                                                 *)
SignIn(throws) ==
    /\ InBounds
    /\ online
    /\ ~app.authenticated
    /\ signIns < MaxSignIns
    /\ signIns' = signIns + 1
    /\ Become(StartApplication([app EXCEPT !.authenticated = TRUE], store, throws))
    /\ UNCHANGED online

(* logout, which signs out even when the request fails, or a 401 answer *)
SignOut ==
    /\ InBounds
    /\ app.authenticated
    /\ Become(SetAnonymous(app, store))
    /\ UNCHANGED <<online, signIns>>
(* loadOverrides settled: the `finally' of startApplication *)
OverridesLoaded(throws) ==
    /\ InBounds
    /\ app.starting
    /\ LET a == [app EXCEPT !.starting = FALSE]
       IN  IF a.startedIn # a.generation /\ a.authenticated /\ ~a.started
           THEN Become(StartApplication(a, store, throws))
           ELSE app' = a /\ store' = store
    /\ UNCHANGED <<online, signIns>>

SocketOpens(g) ==
    /\ store.sockets[g] = "connecting"
    /\ LET s == [store EXCEPT !.sockets[g] = "open"]
       IN  store' = IF IsCurrent(store, g) THEN OnOpen(s, g) ELSE s
    /\ UNCHANGED <<online, app, signIns>>

(* The server started the closing handshake; onclose is still to come. *)
SocketClosing(g) ==
    /\ store.sockets[g] = "open"
    /\ store' = [store EXCEPT !.sockets[g] = "closing"]
    /\ UNCHANGED <<online, app, signIns>>

SocketCloses(g, code) ==
    /\ InBounds
    /\ store.sockets[g] \in Live \cup {"closing"}
    /\ store.sockets[g] = "connecting" => code # "policy"
    /\ LET s == [store EXCEPT !.sockets[g] = "closed"]
           opened == store.sockets[g] # "connecting"
       IN  IF IsCurrent(store, g)
           THEN Become(WatchExpiry(app, OnClose(s, g, code, opened)))
           ELSE app' = app /\ store' = s
    /\ UNCHANGED <<online, signIns>>

(* the watchdog interval found no message for MESSAGE_TIMEOUT_MS *)
WatchdogExpires ==
    /\ InBounds
    /\ store.watchdog # None
    /\ IsCurrent(store, store.watchdog)
    /\ store' = RestartCurrentSocket(store)
    /\ UNCHANGED <<online, app, signIns>>

ReconnectTimerFires(throws) ==
    /\ InBounds
    /\ store.reconnectTimer
    /\ LET s == [store EXCEPT !.reconnectTimer = FALSE]
       IN  store' = IF ~s.intentional /\ ~s.offline /\ s.activeUrl
                    THEN Connect(s, throws)
                    ELSE s
    /\ UNCHANGED <<online, app, signIns>>

(* verifySessionBeforeReconnect: fetchAuthStatus answered or failed *)
StatusAnswers(g, authenticated) ==
    /\ InBounds
    /\ g \in store.verifying
    /\ LET s == [store EXCEPT !.verifying = @ \ {g}]
       IN  IF ~IsPendingReconnect(s, g)
           THEN app' = app /\ store' = s
           ELSE IF authenticated
                THEN app' = app /\ store' = ScheduleReconnect(s)
                ELSE Become(WatchExpiry(app, MarkSessionExpired(s)))
    /\ UNCHANGED <<online, signIns>>

StatusFails(g) ==
    /\ g \in store.verifying
    /\ LET s == [store EXCEPT !.verifying = @ \ {g}]
       IN  store' = IF IsPendingReconnect(s, g) THEN ScheduleReconnect(s) ELSE s
    /\ UNCHANGED <<online, app, signIns>>

GoOffline ==
    /\ InBounds
    /\ online
    /\ online' = FALSE
    /\ store' = IF store.listening THEN OnOffline(store) ELSE store
    /\ UNCHANGED <<app, signIns>>

GoOnline(throws) ==
    /\ InBounds
    /\ ~online
    /\ online' = TRUE
    /\ store' = IF store.listening THEN OnOnline(store, throws) ELSE store
    /\ UNCHANGED <<app, signIns>>

ClientNext ==
    \/ SignOut
    \/ WatchdogExpires
    \/ GoOffline
    \/ \E throws \in BOOLEAN :
         \/ SignIn(throws)
         \/ OverridesLoaded(throws)
         \/ ReconnectTimerFires(throws)
         \/ GoOnline(throws)
    \/ \E g \in Generations :
         \/ SocketOpens(g)
         \/ SocketClosing(g)
         \/ \E code \in CloseCodes : SocketCloses(g, code)
         \/ \E authenticated \in BOOLEAN : StatusAnswers(g, authenticated)
         \/ StatusFails(g)

ClientSpec == ClientInit /\ [][ClientNext]_clientVars

-----------------------------------------------------------------------------
(* Properties.                                                              *)

StoreType ==
    [ws : Generations \cup {None}, activeUrl : BOOLEAN, reconnectTimer : BOOLEAN,
     watchdog : Generations \cup {None}, intentional : BOOLEAN,
     generation : 0..MaxGeneration, listening : BOOLEAN, offline : BOOLEAN,
     expired : BOOLEAN,
     connectionState : {"disconnected", "connecting", "connected"},
     wsConnected : BOOLEAN,
     sockets : [Generations -> {"none", "connecting", "open", "closing", "closed"}],
     verifying : SUBSET Generations]

AppType ==
    [authenticated : BOOLEAN, started : BOOLEAN, starting : BOOLEAN,
     generation : Nat, startedIn : Nat]

(* Every variable has its type. *)
ClientTypeOK ==
    /\ online \in BOOLEAN
    /\ store \in StoreType
    /\ app \in AppType
    /\ signIns \in 0..MaxSignIns

(* A callback is on its way that will open or keep a connection: a current  *)
(* socket that is not closed yet, the reconnect timer, or a session check   *)
(* of the current generation.                                               *)
Trying ==
    \/ /\ store.ws # None
       /\ IsCurrent(store, store.ws)
       /\ store.sockets[store.ws] \in Live \cup {"closing"}
    \/ store.reconnectTimer
    \/ store.generation \in store.verifying

(* While the application runs and the store believes the browser online,    *)
(* reconnecting never stops ("unbounded, jittered reconnects",              *)
(* websocket.ts:37): however closes, timers, session checks and network     *)
(* events interleave, some callback that leads to a new socket is pending.  *)
NeverStopsTrying == app.started /\ ~store.offline => Trying

(* The browser never holds a live socket the store has forgotten: every     *)
(* replaced socket was closed first, so no second session runs on the       *)
(* server for one page.                                                     *)
OneLiveSocket == \A g \in Generations : store.sockets[g] \in Live => store.ws = g

(* After sign-out nothing can bring the connection back: no socket, no      *)
(* timer, no network listener, and a session check that answers late finds  *)
(* its generation gone.                                                     *)
SignedOutIsQuiet ==
    ~app.started =>
        /\ store.ws = None
        /\ ~store.reconnectTimer
        /\ ~store.listening
        /\ \A g \in store.verifying : ~IsPendingReconnect(store, g)

(* A signed-in user's application is running or about to be started again,  *)
(* even when sign-out and sign-in overtake a start that is still loading.   *)
SignedInIsStarted ==
    app.authenticated =>
        app.started \/ (app.starting /\ app.startedIn # app.generation)

(* The store says "connected" only of the socket it currently owns, and     *)
(* only between that socket's open and close events: no late event of an    *)
(* older socket can turn it on.                                             *)
ConnectedMeansCurrentSocket ==
    store.connectionState = "connected" =>
        /\ store.ws # None
        /\ IsCurrent(store, store.ws)
        /\ store.sockets[store.ws] \in {"open", "closing"}

(* The variables have their types, the browser holds no live socket the     *)
(* store has forgotten, and "connected" is said of the current one only,    *)
(* whatever late events of replaced sockets arrive.                         *)
SocketsAreOwned == ClientTypeOK /\ OneLiveSocket /\ ConnectedMeansCurrentSocket

(* The connection follows the login: running for a signed-in user, beyond   *)
(* recall after sign-out, in whichever order starts, loads and session      *)
(* checks end.                                                              *)
FollowsTheLogin == SignedOutIsQuiet /\ SignedInIsStarted

(* The store "pauses while offline and reconnects immediately when the      *)
(* browser recovers" (websocket.test.ts): a running application whose       *)
(* browser is online is trying to connect.                                  *)
ReconnectsWhenOnline == app.started /\ online => Trying
=============================================================================
