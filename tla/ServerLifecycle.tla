--------------------------- MODULE ServerLifecycle ---------------------------
(****************************************************************************)
(* WebSocket connections from upgrade to drain, and the process shutdown    *)
(* that waits for them.                                                     *)
(*                                                                          *)
(*  - the connection limiter (backend/src/ws/limits.rs),                    *)
(*  - the tracker of running sessions (backend/src/ws/tracker.rs),          *)
(*  - the upgrade handler and the session task (ws/handler.rs, session.rs), *)
(*  - the supervision in main (backend/src/main.rs).                        *)
(*                                                                          *)
(* Each mutex section is one step; dropping the permit and dropping the     *)
(* guard are two.  Timeouts are steps that may be taken whenever the awaited*)
(* event has not happened.                                                  *)
(*                                                                          *)
(* Abstractions.  What a session streams is the subject of PollFeed.  A     *)
(* login session is valid until it is revoked, expires or loses its OIDC    *)
(* policy, all of which is Revoke.  A connection is used once.  Of the      *)
(* other HTTP requests only one thing matters: whether a client keeps one   *)
(* unfinished, which no timeout of the router (backend/src/router.rs) ends. *)
(****************************************************************************)
EXTENDS Integers, FiniteSets

CONSTANTS
    Conns,          \* upgrade requests, each becoming one session task
    Sessions,       \* login sessions
    Sources,        \* client addresses, normalised
    GlobalLimit,    \* MAX_CONNECTIONS_GLOBAL
    SessionLimit,   \* MAX_CONNECTIONS_PER_SESSION
    SourceLimit     \* MAX_CONNECTIONS_PER_SOURCE

ASSUME LifecycleConstants ==
    /\ IsFiniteSet(Conns)
    /\ {GlobalLimit, SessionLimit, SourceLimit} \subseteq Nat \ {0}

VARIABLES
    conn,           \* [Conns -> record]: where each request or task stands
    counts,         \* WsConnectionLimiter: total, by_session, by_source
    accepting, active,  \* WsSessionTracker
    notified,       \* the permit stored in the tracker's Notify
    valid,          \* [Sessions -> BOOLEAN]: the login session is active
    shutdown,       \* the process-wide watch channel
    http,           \* the axum server future: "serving", "done" or "abandoned"
    held,           \* a client keeps an HTTP request unfinished
    pollerShutdown, poller,
    main,           \* where main stands
    wsDrained       \* what shutdown_websocket_sessions returned

connVars   == <<conn, counts, accepting, active, notified>>
pollerVars == <<pollerShutdown, poller>>
mainVars   == <<shutdown, http, held, main, wsDrained>>
vars       == <<connVars, valid, pollerVars, mainVars>>

Idle == [pc |-> "new", session |-> "none", source |-> "none"]

Init ==
    /\ conn = [c \in Conns |-> Idle]
    /\ counts = [total |-> 0, bySession |-> [s \in Sessions |-> 0],
                 bySource |-> [a \in Sources |-> 0]]
    /\ accepting = TRUE
    /\ active = 0
    /\ notified = FALSE
    /\ valid = [s \in Sessions |-> TRUE]
    /\ shutdown = FALSE
    /\ http = "serving"
    /\ held = FALSE
    /\ pollerShutdown = FALSE
    /\ poller = "running"
    /\ main = "serving"
    /\ wsDrained = "pending"

Goto(c, pc) == conn' = [conn EXCEPT ![c].pc = pc]

-----------------------------------------------------------------------------
(* Limiter and tracker.                                                     *)
WithinLimits(s, a) ==
    /\ counts.total < GlobalLimit
    /\ counts.bySession[s] < SessionLimit
    /\ counts.bySource[a] < SourceLimit

AddPermit(s, a) ==
    counts' = [counts EXCEPT !.total = @ + 1, !.bySession[s] = @ + 1, !.bySource[a] = @ + 1]

Decrement(n) == IF n > 0 THEN n - 1 ELSE 0

(* Drop for WsConnectionPermit *)
DropPermit(c) ==
    counts' = [counts EXCEPT !.total = Decrement(@),
                             !.bySession[conn[c].session] = Decrement(@),
                             !.bySource[conn[c].source] = Decrement(@)]
(* Mutant: the guard looks at the count before it decrements it. *)
DropGuardLookingFirst ==
    /\ active' = Decrement(active)
    /\ notified' = (notified \/ active = 0)

(* Drop for WsSessionGuard: the last guard wakes the drain, or leaves a     *)
(* permit for it.                                                           *)
DropGuard ==
    /\ active' = Decrement(active)
    /\ notified' = (notified \/ active' = 0)

-----------------------------------------------------------------------------
(* ws_upgrade                                                               *)

TryAcquire(c, s, a) ==
    /\ http # "done"
    /\ main # "exited"
    /\ conn[c].pc = "new"
    /\ valid[s]
    /\ WithinLimits(s, a)
    /\ AddPermit(s, a)
    /\ conn' = [conn EXCEPT ![c] = [pc |-> "permitted", session |-> s, source |-> a]]
    /\ UNCHANGED <<accepting, active, notified, valid, pollerVars, mainVars>>

RefuseConnection(c, s, a) ==
    /\ http # "done"
    /\ main # "exited"
    /\ conn[c].pc = "new"
    /\ valid[s]
    /\ ~WithinLimits(s, a)
    /\ Goto(c, "refused")
    /\ UNCHANGED <<counts, accepting, active, notified, valid, pollerVars, mainVars>>
(* Mutant: sessions register although the drain has begun. *)
TryRegisterAlways(c) ==
    /\ main # "exited"
    /\ conn[c].pc = "permitted"
    /\ active' = active + 1
    /\ Goto(c, "registered")
    /\ UNCHANGED <<counts, accepting, notified, valid, pollerVars, mainVars>>

TryRegister(c) ==
    /\ main # "exited"
    /\ conn[c].pc = "permitted"
    /\ accepting
    /\ active' = active + 1
    /\ Goto(c, "registered")
    /\ UNCHANGED <<counts, accepting, notified, valid, pollerVars, mainVars>>
(* Mutant: the permit of a refused registration leaks. *)
RefuseKeepingPermit(c) ==
    /\ main # "exited"
    /\ conn[c].pc = "permitted"
    /\ ~accepting
    /\ Goto(c, "refused")
    /\ UNCHANGED <<counts, accepting, active, notified, valid, pollerVars, mainVars>>

(* The server is shutting down: the error return drops the permit. *)
RefuseRegistration(c) ==
    /\ main # "exited"
    /\ conn[c].pc = "permitted"
    /\ ~accepting
    /\ DropPermit(c)
    /\ Goto(c, "refused")
    /\ UNCHANGED <<accepting, active, notified, valid, pollerVars, mainVars>>

(* The HTTP upgrade never completes: the callback is dropped with both. *)
UpgradeFails(c) ==
    /\ main # "exited"
    /\ conn[c].pc = "registered"
    /\ DropPermit(c)
    /\ Goto(c, "unguarding")
    /\ UNCHANGED <<accepting, active, notified, valid, pollerVars, mainVars>>

-----------------------------------------------------------------------------
(* run_session                                                              *)

(* The two checks before the session subscribes. *)
StartSession(c) ==
    /\ main # "exited"
    /\ conn[c].pc = "registered"
    /\ Goto(c, IF shutdown \/ ~valid[conn[c].session] THEN "closing" ELSE "streaming")
    /\ UNCHANGED <<counts, accepting, active, notified, valid, pollerVars, mainVars>>

ObserveShutdown(c) ==
    /\ main # "exited"
    /\ conn[c].pc = "streaming"
    /\ shutdown
    /\ Goto(c, "closing")
    /\ UNCHANGED <<counts, accepting, active, notified, valid, pollerVars, mainVars>>
(* Mutant: the periodic check finds the session gone and keeps streaming. *)
RevalidateInVain(c) ==
    /\ main # "exited"
    /\ conn[c].pc = "streaming"
    /\ ~valid[conn[c].session]
    /\ UNCHANGED vars

(* session_check.tick(), every SESSION_REVALIDATE_SECS *)
RevalidateSession(c) ==
    /\ main # "exited"
    /\ conn[c].pc = "streaming"
    /\ ~valid[conn[c].session]
    /\ Goto(c, "closing")
    /\ UNCHANGED <<counts, accepting, active, notified, valid, pollerVars, mainVars>>

(* The client leaves or sends data, a send fails or exceeds its timeout, or *)
(* session validity cannot be read.                                         *)
EndSession(c) ==
    /\ main # "exited"
    /\ conn[c].pc = "streaming"
    /\ Goto(c, "closing")
    /\ UNCHANGED <<counts, accepting, active, notified, valid, pollerVars, mainVars>>

(* The close frame was sent or timed out; handle_ws_connection drops the    *)
(* permit explicitly and the guard when it returns.                         *)
ReleasePermit(c) ==
    /\ main # "exited"
    /\ conn[c].pc = "closing"
    /\ DropPermit(c)
    /\ Goto(c, "unguarding")
    /\ UNCHANGED <<accepting, active, notified, valid, pollerVars, mainVars>>

ReleaseGuard(c) ==
    /\ main # "exited"
    /\ conn[c].pc = "unguarding"
    /\ DropGuard
    /\ Goto(c, "gone")
    /\ UNCHANGED <<counts, accepting, valid, pollerVars, mainVars>>

Revoke(s) ==
    /\ main # "exited"
    /\ valid[s]
    /\ valid' = [valid EXCEPT ![s] = FALSE]
    /\ UNCHANGED <<connVars, pollerVars, mainVars>>

SessionStep(c) ==
    \/ TryRegister(c) \/ RefuseRegistration(c)
    \/ StartSession(c) \/ ObserveShutdown(c) \/ RevalidateSession(c)
    \/ ReleasePermit(c) \/ ReleaseGuard(c)

-----------------------------------------------------------------------------
(* main: supervision and shutdown                                           *)

(* SIGTERM or Ctrl-C: the signal task, then main's own branch. *)
SignalArrives ==
    /\ main = "serving"
    /\ shutdown' = TRUE
    /\ pollerShutdown' = TRUE
    /\ main' = "join"
    /\ UNCHANGED <<connVars, valid, poller, http, held, wsDrained>>

(* The poller ended although nobody asked it to. *)
PollerDies ==
    /\ poller = "running"
    /\ ~pollerShutdown
    /\ poller' = "failed"
    /\ UNCHANGED <<connVars, valid, pollerShutdown, mainVars>>

SupervisePoller ==
    /\ main = "serving"
    /\ poller # "running"
    /\ shutdown' = TRUE
    /\ pollerShutdown' = TRUE
    /\ main' = "drainHttp"
    /\ UNCHANGED <<connVars, valid, poller, http, held, wsDrained>>

(* The setup listener failed: only the watch channel is set. *)
SetupFails ==
    /\ main = "serving"
    /\ ~shutdown
    /\ shutdown' = TRUE
    /\ UNCHANGED <<connVars, valid, pollerVars, http, held, main, wsDrained>>

PollerStops ==
    /\ poller = "running"
    /\ pollerShutdown
    /\ poller' = "stopped"
    /\ UNCHANGED <<connVars, valid, pollerShutdown, mainVars>>

(* A client sends the rest of its request, or reads the answer, when it     *)
(* likes.  A connection may still be accepted after the watch channel is    *)
(* set, until the server future is polled and sees it.                      *)
HoldRequest ==
    /\ http = "serving"
    /\ ~held
    /\ held' = TRUE
    /\ UNCHANGED <<connVars, valid, pollerVars, shutdown, http, main, wsDrained>>

FinishRequest ==
    /\ main # "exited"
    /\ held
    /\ held' = FALSE
    /\ UNCHANGED <<connVars, valid, pollerVars, shutdown, http, main, wsDrained>>

(* Axum's graceful shutdown: requests in flight finish first; upgraded      *)
(* connections are no longer its concern.                                   *)
HttpDrains ==
    /\ http = "serving"
    /\ shutdown
    /\ ~held
    /\ main # "exited"
    /\ \A c \in Conns : conn[c].pc # "permitted"
    /\ http' = "done"
    /\ UNCHANGED <<connVars, valid, pollerVars, shutdown, held, main, wsDrained>>

(* The server future of the select, or of the branch that awaits it. *)
HttpIsDone ==
    /\ http = "done"
    /\ \/ main \in {"serving", "drainHttp"}
       \/ main = "join" /\ poller # "running"
    /\ main' = "stopAccepting"
    /\ UNCHANGED <<connVars, valid, pollerVars, shutdown, http, held, wsDrained>>

(* 30 seconds of grace are over; the join branch also aborts the poller. *)
GraceExpires ==
    /\ main \in {"join", "drainHttp"}
    /\ http' = IF http = "done" THEN http ELSE "abandoned"
    /\ poller' = IF main = "join" /\ poller = "running" THEN "aborted" ELSE poller
    /\ main' = "stopAccepting"
    /\ UNCHANGED <<connVars, valid, pollerShutdown, shutdown, held, wsDrained>>

(* The common tail, then WsSessionTracker::stop_accepting. *)
StopAccepting ==
    /\ main = "stopAccepting"
    /\ shutdown' = TRUE
    /\ pollerShutdown' = TRUE
    /\ accepting' = FALSE
    /\ notified' = (notified \/ active = 0)
    /\ main' = "checkEmpty"
    /\ UNCHANGED <<conn, counts, active, valid, poller, http, held, wsDrained>>

(* wait_for_empty: look, and sleep if a session is left. *)
CheckEmpty ==
    /\ main = "checkEmpty"
    /\ IF active = 0
       THEN main' = "joinPoller" /\ wsDrained' = "empty"
       ELSE main' = "asleep" /\ UNCHANGED wsDrained
    /\ UNCHANGED <<connVars, valid, pollerVars, shutdown, http, held>>

WakeUp ==
    /\ main = "asleep"
    /\ notified
    /\ notified' = FALSE
    /\ main' = "checkEmpty"
    /\ UNCHANGED <<conn, counts, accepting, active, valid, pollerVars, shutdown, http, held, wsDrained>>

DrainTimesOut ==
    /\ main = "asleep"
    /\ main' = "joinPoller"
    /\ wsDrained' = "timeout"
    /\ UNCHANGED <<connVars, valid, pollerVars, shutdown, http, held>>

(* The poller is awaited for ten seconds and then aborted; main returns and *)
(* the runtime ends every task.                                             *)
JoinPoller(aborts) ==
    /\ main = "joinPoller"
    /\ IF poller = "running"
       THEN aborts /\ poller' = "aborted"
       ELSE ~aborts /\ UNCHANGED poller
    /\ main' = "exited"
    /\ UNCHANGED <<connVars, valid, pollerShutdown, shutdown, http, held, wsDrained>>

MainStep ==
    \/ HttpDrains \/ HttpIsDone \/ SupervisePoller
    \/ StopAccepting \/ CheckEmpty \/ WakeUp \/ \E aborts \in BOOLEAN : JoinPoller(aborts)

(* Everything else has finished. *)
Exited == main = "exited" /\ UNCHANGED vars

Next ==
    \/ \E c \in Conns :
         \/ \E s \in Sessions, a \in Sources : TryAcquire(c, s, a) \/ RefuseConnection(c, s, a)
         \/ UpgradeFails(c)
         \/ EndSession(c)
         \/ SessionStep(c)
    \/ \E s \in Sessions : Revoke(s)
    \/ SignalArrives
    \/ PollerDies
    \/ SetupFails
    \/ PollerStops
    \/ HoldRequest
    \/ FinishRequest
    \/ GraceExpires
    \/ DrainTimesOut
    \/ MainStep
    \/ Exited

Spec == Init /\ [][Next]_vars

(* The runtime polls every woken task, and select branches that stay ready  *)
(* are taken.  Of the timeouts only main's 30 seconds of grace are assumed  *)
(* to elapse, not the one of the WebSocket drain; signals may never come,   *)
(* and no client is assumed to finish its request.                          *)
FairSpec ==
    /\ Spec
    /\ WF_vars(GraceExpires)
    /\ \A c \in Conns : WF_vars(SessionStep(c))
    /\ WF_vars(MainStep)
    /\ WF_vars(PollerStops)

-----------------------------------------------------------------------------
(* Properties.                                                              *)

HoldsPermit(c) == conn[c].pc \in {"permitted", "registered", "streaming", "closing"}
HoldsGuard(c)  == conn[c].pc \in {"registered", "streaming", "closing", "unguarding"}

Count(P(_)) == Cardinality({c \in Conns : P(c)})

(* Every variable has its type and every tally its range. *)
TypeOK ==
    /\ \A c \in Conns :
         conn[c].pc \in {"new", "permitted", "registered", "streaming", "closing",
                         "unguarding", "refused", "gone"}
    /\ counts \in [total : 0..GlobalLimit, bySession : [Sessions -> 0..SessionLimit],
                  bySource : [Sources -> 0..SourceLimit]]
    /\ accepting \in BOOLEAN /\ active \in 0..Cardinality(Conns) /\ notified \in BOOLEAN
    /\ valid \in [Sessions -> BOOLEAN]
    /\ shutdown \in BOOLEAN /\ pollerShutdown \in BOOLEAN
    /\ http \in {"serving", "done", "abandoned"} /\ held \in BOOLEAN
    /\ poller \in {"running", "stopped", "failed", "aborted"}
    /\ main \in {"serving", "join", "drainHttp", "stopAccepting", "checkEmpty",
                 "asleep", "joinPoller", "exited"}
    /\ wsDrained \in {"pending", "empty", "timeout"}

(* The limiter's three tallies are the permits really held - none leaks on  *)
(* a refused registration, a failed upgrade or any way a session ends - and *)
(* they stay within the limits.                                             *)
PermitsAreCounted ==
    /\ counts.total = Count(HoldsPermit)
    /\ counts.total <= GlobalLimit
    /\ \A s \in Sessions :
         /\ counts.bySession[s] =
              Cardinality({c \in Conns : HoldsPermit(c) /\ conn[c].session = s})
         /\ counts.bySession[s] <= SessionLimit
    /\ \A a \in Sources :
         /\ counts.bySource[a] =
              Cardinality({c \in Conns : HoldsPermit(c) /\ conn[c].source = a})
         /\ counts.bySource[a] <= SourceLimit

(* The tracker counts exactly the guards that exist. *)
GuardsAreCounted == active = Count(HoldsGuard)

(* No connection leaks its permit or its guard. *)
NothingLeaks == PermitsAreCounted /\ GuardsAreCounted

(* The variables have their types, and permits and guards are given back on *)
(* every path: refusal, failed upgrade, end of the session, shutdown.       *)
ResourcesAreCounted == TypeOK /\ NothingLeaks

(* shutdown_websocket_sessions reports success only when no session task is *)
(* left, and none is registered afterwards.                                 *)
DrainIsFinal == wsDrained = "empty" => \A c \in Conns : ~HoldsGuard(c)

(* No lost wake-up: when main sleeps and the last guard is gone, the        *)
(* notification is stored for it.                                           *)
SleeperIsNotified == (main = "asleep" /\ active = 0) => notified

(* The drain ends when, and only when, the last session has ended, whatever *)
(* registers or leaves while it looks at the counter and falls asleep.      *)
DrainIsSound == DrainIsFinal /\ SleeperIsNotified

(* A shutdown reaches the end of main.  Once a signal or the end of the     *)
(* poller has taken main out of its select, whatever clients do; while main *)
(* still awaits the server alone, as it does after a failure of the setup   *)
(* listener (main.rs:265, no timeout), once clients hold no more requests.  *)
(* The WebSocket drain ends by its notifications, not by its timeout.       *)
ShutdownCompletes ==
    /\ (shutdown /\ main # "serving") ~> main = "exited"
    /\ <>[](shutdown /\ ~held) => <>(main = "exited")

(* A revoked login session loses its WebSocket connections. *)
RevokedIsCutOff ==
    \A c \in Conns :
        (conn[c].pc = "streaming" /\ ~valid[conn[c].session])
            ~> (conn[c].pc # "streaming" \/ main = "exited")
=============================================================================
