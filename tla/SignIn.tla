------------------------------- MODULE SignIn -------------------------------
(* How anybody gets a session of a running daemon besides the password      *)
(* login: the first setup (SetupToken), an identity provider (OidcLogin)    *)
(* and a pairing code, whose attempts are limited by source (pair in        *)
(* auth.rs).  The codes themselves are the subject of AuthSessions.         *)
EXTENDS OidcLogin

VARIABLES
    pairingAttempts,   \* pairing_attempts
    pairing,           \* where the pair request of each device stands
    owed               \* history: until when each source has to wait

pairVars == <<pairingAttempts, pairing, owed>>
vars == <<setupVars, oidcVars, pairVars>>

NoPairing == [key |-> None, at |-> 0]

PairInit(d) ==
    /\ pairingAttempts = NoEntries
    /\ pairing = [p \in d.devices |-> NoPairing]
    /\ owed = [s \in Sources |-> 0]

(* pair: the attempt is counted before anything else is looked at. *)
Pair(p, source) ==
    /\ phase = "serving" /\ pairing[p] = NoPairing
    /\ LET begun == BeginPairingAttempt(pairingAttempts, source, now, None)
       IN  /\ pairingAttempts' = begun.entries
           /\ pairing' = IF begun.key = None THEN pairing
                         ELSE [pairing EXCEPT ![p] = [key |-> begun.key, at |-> now]]
           /\ owed' = IF begun.key = source
                      THEN [owed EXCEPT ![source] = begun.entries[source].until] ELSE owed

(* The code was wrong, no slot was free, or the pairing fails otherwise. *)
PairFails(p) ==
    /\ pairing[p] # NoPairing
    /\ pairing' = [pairing EXCEPT ![p] = NoPairing]
    /\ UNCHANGED <<pairingAttempts, owed>>

(* The device is paired: its attempt is taken back unless a later one counts. *)
PairSucceeds(p) ==
    /\ pairing[p] # NoPairing /\ admin
    /\ pairingAttempts' = ClearIfLatest(pairingAttempts, pairing[p].key, pairing[p].at)
    /\ owed' = [s \in Sources |->
                  IF s = pairing[p].key /\ s \notin DOMAIN pairingAttempts' THEN 0 ELSE owed[s]]
    /\ pairing' = [pairing EXCEPT ![p] = NoPairing]

PairForgotten ==
    /\ pairingAttempts' = NoEntries
    /\ pairing' = [p \in DOMAIN pairing |-> NoPairing]
    /\ owed' = [s \in Sources |-> 0]

PairNext ==
    \E p \in DOMAIN pairing : (\E source \in Sources : Pair(p, source)) \/ PairFails(p) \/ PairSucceeds(p)
-----------------------------------------------------------------------------
Init == \E d \in Deployments : SetupInit(d) /\ OidcInit(d) /\ PairInit(d)

(* A step of the setup ends what the daemon has in memory when it ends the   *)
(* daemon.                                                                   *)
Next ==
    \/ SetupNext /\ IF phase # "down" /\ phase' = "down"
                    THEN OidcForgotten /\ PairForgotten
                    ELSE UNCHANGED <<oidcVars, pairVars>>
    \/ OidcNext /\ UNCHANGED <<setupVars, pairVars>>
    \/ PairNext /\ UNCHANGED <<setupVars, oidcVars>>

Spec == Init /\ [][Next]_vars /\ SetupFairness /\ OidcFairness
-----------------------------------------------------------------------------
(* What a crash, an outage or an unlucky order of discoveries leaves behind  *)
(* is repaired without anybody asking: a dead token leaves its file, and     *)
(* logins through the provider become possible again once callbacks do not   *)
(* take its permits for ever.                                                *)
SignInRecovers == TokenFileGoes /\ ProviderReturns

(* A source that begins an attempt of its own has served its penalty. *)
HasWaited ==
    \A p \in DOMAIN pairing : pairing[p] = NoPairing /\ pairing'[p] # NoPairing
        => pairing'[p].key = Overflow \/ now >= owed[pairing'[p].key]

(* A source with an entry of its own never begins an attempt before its     *)
(* penalty is over: no other source, expired entry or shared overflow entry *)
(* makes the limiter forget it.                                             *)
BackoffIsServed == [][HasWaited]_vars
=============================================================================
