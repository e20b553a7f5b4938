----------------------------- MODULE OidcLogin ------------------------------
(* Login through an OpenID Connect provider: the flows a browser opens and  *)
(* returns from, the background discovery of the provider and the refresh   *)
(* a login makes when the provider has exchanged its keys (oidc.rs).  It    *)
(* shares the clock, the life of the daemon and the administrator with      *)
(* SetupToken.                                                              *)
(*                                                                          *)
(* The provider is external: it is up or not, signs with one generation of  *)
(* keys at a time, and exchanges a code once, for the flow whose challenge  *)
(* it was issued under.  What a discovery finds is that generation.  State, *)
(* nonce and verifier of a flow are random, so the flow's name stands for   *)
(* all three.                                                               *)
EXTENDS SetupToken

CONSTANTS Flows,             \* states begin may create
          Browsers,
          Callbacks,         \* callback handlers
          FlowTtl, FlowCapacity, FlowPerSource,
          OidcRequests,      \* permits of the requests semaphore
          MaxChanges         \* bound on key changes and outages of the provider

ASSUME OidcAssumption ==
    /\ {FlowTtl, FlowCapacity, FlowPerSource, OidcRequests, MaxChanges} \subseteq Nat
    /\ None \notin Flows \cup Browsers \cup Callbacks

VARIABLES
    idp,         \* the provider: [configured, up, keys, changes]
    code,        \* flow -> "none", "issued" or "spent" at the provider
    provider,    \* what the daemon last discovered, None when unavailable
    discovery,   \* where the discovery task stands, and what it found
    flows,       \* FlowStore: flow -> [source, expires]
    cookie,      \* browser -> the flow in its cookie, or None
    opened,      \* history: flow -> the browser that opened it
    callback,    \* where each callback stands
    sessions     \* history: the sessions that callbacks created

oidcVars == <<idp, code, provider, discovery, flows, cookie, opened, callback, sessions>>
memory == <<provider, discovery, flows, callback>>

NoDiscovery == [pc |-> "sleep", found |-> None]
NoCallback == [pc |-> "idle", flow |-> None, browser |-> None, keys |-> None, signed |-> None]
Found == IF idp.up THEN idp.keys ELSE None

OidcInit(d) ==
    /\ idp = [configured |-> d.oidc, up |-> d.oidc, keys |-> 1, changes |-> 0]
    /\ code = [f \in Flows |-> "none"]
    /\ provider = None /\ discovery = NoDiscovery
    /\ flows = NoEntries
    /\ cookie = [b \in Browsers |-> None]
    /\ opened = NoEntries
    /\ callback = [c \in Callbacks |-> NoCallback]
    /\ sessions = {}

(* The daemon ends; browsers and the provider go on. *)
OidcForgotten ==
    /\ provider' = None /\ discovery' = NoDiscovery /\ flows' = NoEntries
    /\ callback' = [c \in Callbacks |-> NoCallback]
    /\ UNCHANGED <<idp, code, cookie, opened, sessions>>
-----------------------------------------------------------------------------
(* The provider *)

ChangeKeys ==
    /\ idp.configured /\ idp.changes < MaxChanges
    /\ idp' = [idp EXCEPT !.keys = @ + 1, !.changes = @ + 1]
    /\ UNCHANGED <<code, cookie, opened, sessions, memory>>

GoDownOrUp ==
    /\ idp.configured /\ idp.changes < MaxChanges
    /\ idp' = [idp EXCEPT !.up = ~@, !.changes = @ + 1]
    /\ UNCHANGED <<code, cookie, opened, sessions, memory>>

Authorize(f) ==
    /\ f \in DOMAIN opened /\ idp.up /\ code[f] = "none"
    /\ code' = [code EXCEPT ![f] = "issued"]
    /\ UNCHANGED <<idp, cookie, opened, sessions, memory>>
-----------------------------------------------------------------------------
(* Discovery *)

(* discover holds a permit, and so does every callback from authenticate on. *)
PermitsTaken ==
    Cardinality({c \in Callbacks : callback[c].pc # "idle"})
      + (IF discovery.pc = "fetch" THEN 1 ELSE 0)

(* discover: without a permit within a second it counts as failed. *)
DiscoverBegin ==
    /\ phase = "serving" /\ idp.configured /\ discovery.pc = "sleep"
    /\ discovery' = IF PermitsTaken < OidcRequests
                    THEN [pc |-> "fetch", found |-> None]
                    ELSE [pc |-> "store", found |-> None]
    /\ UNCHANGED <<idp, code, provider, flows, cookie, opened, callback, sessions>>

(* discover_provider *)
DiscoverFetch ==
    /\ discovery.pc = "fetch"
    /\ discovery' = [pc |-> "store", found |-> Found]
    /\ UNCHANGED <<idp, code, provider, flows, cookie, opened, callback, sessions>>

(* Mutant: a discovery that failed is not repeated. *)
DiscoverStoreOnce ==
    /\ discovery.pc = "store"
    /\ provider' = discovery.found
    /\ discovery' = IF discovery.found = None THEN [pc |-> "ended", found |-> None]
                    ELSE NoDiscovery
    /\ UNCHANGED <<idp, code, flows, cookie, opened, callback, sessions>>

(* The write lock of the shared provider, then the delay. *)
DiscoverStore ==
    /\ discovery.pc = "store"
    /\ provider' = discovery.found
    /\ discovery' = NoDiscovery
    /\ UNCHANGED <<idp, code, flows, cookie, opened, callback, sessions>>
-----------------------------------------------------------------------------
(* A login *)

(* FlowStore: retain, insert and consume *)
Retained == Restrict(flows, {f \in DOMAIN flows : flows[f].expires > now})

FlowStoreFull(source) ==
    \/ Cardinality(DOMAIN Retained) >= FlowCapacity
    \/ Cardinality({f \in DOMAIN Retained : Retained[f].source = source}) >= FlowPerSource

(* start and begin: an answer without a flow clears the cookie. *)
Start(b, source, f) ==
    /\ phase = "serving" /\ f \notin DOMAIN opened
    /\ IF admin /\ provider # None
       THEN IF FlowStoreFull(source)
            THEN /\ flows' = Retained /\ cookie' = [cookie EXCEPT ![b] = None]
                 /\ UNCHANGED opened
            ELSE /\ flows' = [g \in DOMAIN Retained \cup {f} |->
                                IF g = f THEN [source |-> source, expires |-> now + FlowTtl]
                                ELSE Retained[g]]
                 /\ cookie' = [cookie EXCEPT ![b] = f]
                 /\ opened' = [g \in DOMAIN opened \cup {f} |->
                                 IF g = f THEN b ELSE opened[g]]
       ELSE cookie' = [cookie EXCEPT ![b] = None] /\ UNCHANGED <<flows, opened>>
    /\ UNCHANGED <<idp, code, provider, discovery, callback, sessions>>

(* Mutant: the flow stays until it expires. *)
ConsumedKept(f) == Retained

Consumed(f) == Restrict(Retained, DOMAIN Retained \ {f})

Matches(f, source) == f \in DOMAIN Retained /\ Retained[f].source = source

(* callback: the provider sent the browser back with a code or an error,    *)
(* perhaps not for the first time, perhaps not for the flow opened last.    *)
CallbackRefused(b, f) ==
    /\ phase = "serving" /\ f \in DOMAIN opened
    /\ cookie' = [cookie EXCEPT ![b] = None]
    /\ flows' = IF cookie[b] = f THEN Consumed(f) ELSE flows
    /\ UNCHANGED <<idp, code, provider, discovery, opened, callback, sessions>>

CallbackAccepted(c, b, source, f) ==
    /\ phase = "serving" /\ callback[c] = NoCallback
    /\ f \in DOMAIN opened /\ cookie[b] = f /\ Matches(f, source)
    /\ code[f] # "none"
    /\ admin /\ provider # None /\ PermitsTaken < OidcRequests
    /\ flows' = Consumed(f)
    /\ callback' = [callback EXCEPT ![c] = [NoCallback EXCEPT !.pc = "exchange", !.flow = f,
                                                !.browser = b, !.keys = provider]]
    /\ UNCHANGED <<idp, code, provider, discovery, cookie, opened, sessions>>

(* error_response, or the response with the session: the cookie is cleared. *)
Answer(c) ==
    /\ callback' = [callback EXCEPT ![c] = NoCallback]
    /\ cookie' = [cookie EXCEPT ![callback[c].browser] = None]

(* A token of an honest provider passes every check of                      *)
(* verify_compatible_id_token and of the library exactly when the keys at   *)
(* hand include the one it was signed with.                                 *)
Accepts(keys, signed) == keys = signed

(* exchange_code: the token is checked with the keys read before. *)
Exchange(c) ==
    /\ callback[c].pc = "exchange"
    /\ LET f == callback[c].flow
       IN  IF idp.up /\ code[f] = "issued"
           THEN /\ code' = [code EXCEPT ![f] = "spent"]
                /\ callback' = [callback EXCEPT
                       ![c].signed = idp.keys,
                       ![c].pc = IF Accepts(callback[c].keys, idp.keys) THEN "identify" ELSE "refresh"]
                /\ UNCHANGED cookie
           ELSE Answer(c) /\ UNCHANGED code
    /\ UNCHANGED <<idp, provider, discovery, flows, opened, sessions>>

(* refresh_provider, with the keys it finds and where it stores them. *)
RefreshFetch(c) ==
    /\ callback[c].pc = "refresh"
    /\ callback' = [callback EXCEPT ![c].pc = "store", ![c].keys = Found]
    /\ UNCHANGED <<idp, code, provider, discovery, flows, cookie, opened, sessions>>

RefreshStore(c) ==
    /\ callback[c].pc = "store"
    /\ provider' = callback[c].keys
    /\ IF Accepts(callback[c].keys, callback[c].signed)
       THEN callback' = [callback EXCEPT ![c].pc = "identify"] /\ UNCHANGED cookie
       ELSE Answer(c)
    /\ UNCHANGED <<idp, code, discovery, flows, opened, sessions>>

(* The groups of the user, from the token or from UserInfo, name a role or   *)
(* not; establish_oidc_session stores the session.                           *)
Identify(c) ==
    /\ callback[c].pc = "identify"
    /\ \/ sessions' = sessions \cup {[flow |-> callback[c].flow, browser |-> callback[c].browser]}
       \/ UNCHANGED sessions
    /\ Answer(c)
    /\ UNCHANGED <<idp, code, provider, discovery, flows, opened>>

(* The browser closes the connection while the callback awaits. *)
CallbackDropped(c) ==
    /\ callback[c].pc # "idle"
    /\ callback' = [callback EXCEPT ![c] = NoCallback]
    /\ UNCHANGED <<idp, code, provider, discovery, flows, cookie, opened, sessions>>

CallbackStep(c) ==
    Exchange(c) \/ RefreshFetch(c) \/ RefreshStore(c) \/ Identify(c)

OidcNext ==
    \/ ChangeKeys \/ GoDownOrUp
    \/ DiscoverBegin \/ DiscoverFetch \/ DiscoverStore
    \/ \E f \in Flows : Authorize(f)
    \/ \E b \in Browsers, source \in Sources, f \in Flows :
          \/ Start(b, source, f) \/ CallbackRefused(b, f)
          \/ \E c \in Callbacks : CallbackAccepted(c, b, source, f)
    \/ \E c \in Callbacks : CallbackStep(c) \/ CallbackDropped(c)

(* Timers and network requests end; handlers run. *)
OidcFairness ==
    /\ WF_oidcVars(DiscoverBegin) /\ WF_oidcVars(DiscoverFetch) /\ WF_oidcVars(DiscoverStore)
    /\ \A c \in Callbacks : WF_oidcVars(CallbackStep(c))
-----------------------------------------------------------------------------
(* Properties *)

OidcTypeOK ==
    /\ SetupTypeOK
    /\ provider \in 1..MaxChanges + 1 \cup {None}
    /\ discovery.pc \in {"sleep", "fetch", "store"}
    /\ PermitsTaken <= OidcRequests
    /\ Cardinality(DOMAIN flows) <= FlowCapacity
    /\ \A c \in Callbacks : callback[c].pc \in {"idle", "exchange", "refresh", "store", "identify"}

(* A flow leads to one session at most, in the browser that opened it, and  *)
(* no two callbacks work on one flow, however often the provider's answer   *)
(* is delivered and whatever the browser opened meanwhile.                  *)
OneSessionPerFlow ==
    /\ OidcTypeOK
    /\ \A s \in sessions : s.browser = opened[s.flow]
    /\ \A s, t \in sessions : s.flow = t.flow => s = t
    /\ \A c, d \in Callbacks :
          callback[c].flow # None /\ callback[c].flow = callback[d].flow => c = d
    /\ \A f \in DOMAIN flows : \A s \in sessions : s.flow # f

(* When provider and daemon stay up, the daemon has the current keys        *)
(* again and again, whichever discovery or refresh stored an older answer   *)
(* last.  Callbacks may starve a discovery of its permit (it waits for one  *)
(* second, oidc.rs:461) as long as they keep coming; flows are bounded, so  *)
(* there are finitely many.                                                 *)
ProviderReturns == <>[](idp.up /\ phase = "serving") => []<>(provider = idp.keys)
=============================================================================
