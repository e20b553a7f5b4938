---------------------------- MODULE AuthSessions ----------------------------
(****************************************************************************)
(* Login sessions, device pairing and the administrator credential, as the  *)
(* concurrent HTTP handlers of one daemon run and the offline command line  *)
(* see them.                                                                *)
(*                                                                          *)
(*  - the request guard and the handlers (backend/src/auth.rs),             *)
(*  - their transactions (backend/src/db/mod.rs),                           *)
(*  - start-up and the admin command (backend/src/main.rs), which exclude   *)
(*    each other by the database lock (backend/src/db/maintenance.rs).      *)
(*                                                                          *)
(* One database call is one step, because the connection is behind a mutex. *)
(* A handler that awaits may be dropped there by its client.  A handler     *)
(* reads the clock before the call that uses the value.                     *)
(*                                                                          *)
(* Abstractions.  Tokens and codes are the identities of their rows.  User  *)
(* name and password are modelled by whether they match the credential that *)
(* was read.  Rate limiting and malformed input refuse a request without    *)
(* any change here.  last_seen_at is idle_expires_at less the idle time in  *)
(* a standard session and without effect in a fixed one, so it is left out. *)
(****************************************************************************)
EXTENDS Integers, FiniteSets

CONSTANTS
    Requests,           \* handler slots
    Sessions,           \* rows of auth_sessions
    Codes,              \* rows of pairing_codes
    Policies,           \* OIDC policy fingerprints a daemon may run with
    NoPolicy,           \* OIDC is not configured
    NoSession, NoCode,  \* no row
    Argon2Concurrency,  \* ARGON2_CONCURRENCY
    IdleSecs,           \* STANDARD_IDLE_SECS
    StandardSecs,       \* STANDARD_ABSOLUTE_SECS
    ViewerSecs,         \* FIXED_VIEWER_SECS
    AdminSecs,          \* FIXED_ADMIN_SECS
    PairingSecs,        \* PAIRING_SECS
    TouchSecs,          \* HTTP_SESSION_TOUCH_SECS
    MaxTime,            \* bound on the clock
    MaxVersion          \* bound on password resets

ASSUME AuthConstants ==
    /\ IsFiniteSet(Requests)
    /\ NoPolicy \notin Policies
    /\ NoSession \notin Sessions
    /\ NoCode \notin Codes
    /\ {Argon2Concurrency, MaxVersion} \subseteq Nat \ {0}
    /\ {IdleSecs, StandardSecs, ViewerSecs, AdminSecs, PairingSecs,
        TouchSecs, MaxTime} \subseteq Nat

VARIABLES
    up,         \* a daemon holds the database lock and serves
    policy,     \* policy_fingerprint of that daemon
    version,    \* admins.credential_version, 0 while there is no administrator
    sessions,   \* [Sessions -> row]
    codes,      \* [Codes -> row]
    request,    \* [Requests -> record]: where each handler stands
    permits,    \* Argon2 permits taken
    orphans,    \* hashing tasks whose handler was dropped
    slot,       \* the pairing slot is taken
    now         \* wall clock

db   == <<version, sessions, codes>>
work == <<permits, orphans, slot>>
vars == <<up, policy, db, request, work, now>>

Roles    == {"admin", "viewer"}
Versions == 0 .. MaxVersion
Times    == 0 .. MaxTime + IdleSecs + 1

(* A session row.  ver is the credential version its evidence rests on,     *)
(* proof the version of the password given for an administrator device and  *)
(* code the pairing code it came from: what the properties compare.         *)
SessionRows ==
    [status: {"absent", "active", "revoked"}, role: Roles, kind: {"standard", "fixed"},
     policy: Policies \union {NoPolicy}, idle: Times, abs: Times,
     ver: Versions, proof: Versions, code: Codes \union {NoCode}]

CodeRows ==
    [status: {"absent", "unused", "used"}, role: Roles, creator: Sessions \union {NoSession},
     expires: Times, ver: Versions, proof: Versions]

Operations == {"read", "logout", "revoke", "pair_viewer", "pair_admin"}

RequestStates ==
    [pc: {"idle", "refuse", "touch", "handle", "login", "login_verify", "login_insert",
          "grant", "grant_verify", "grant_insert", "consume", "callback"},
     op: Operations, session: Sessions \union {NoSession}, code: Codes \union {NoCode},
     at: 0 .. MaxTime, ver: Versions]

AbsentSession ==
    [status |-> "absent", role |-> "viewer", kind |-> "standard", policy |-> NoPolicy,
     idle |-> 0, abs |-> 0, ver |-> 0, proof |-> 0, code |-> NoCode]
AbsentCode ==
    [status |-> "absent", role |-> "viewer", creator |-> NoSession, expires |-> 0,
     ver |-> 0, proof |-> 0]
IdleRequest ==
    [pc |-> "idle", op |-> "read", session |-> NoSession, code |-> NoCode,
     at |-> 0, ver |-> 0]

TypeOK ==
    /\ up \in BOOLEAN
    /\ policy \in Policies \union {NoPolicy}
    /\ version \in Versions
    /\ sessions \in [Sessions -> SessionRows]
    /\ codes \in [Codes -> CodeRows]
    /\ request \in [Requests -> RequestStates]
    /\ permits \in Nat
    /\ orphans \in Nat
    /\ slot \in BOOLEAN
    /\ now \in 0 .. MaxTime

Init ==
    /\ up = FALSE
    /\ policy = NoPolicy
    /\ version = 0
    /\ sessions = [s \in Sessions |-> AbsentSession]
    /\ codes = [c \in Codes |-> AbsentCode]
    /\ request = [r \in Requests |-> IdleRequest]
    /\ permits = 0
    /\ orphans = 0
    /\ slot = FALSE
    /\ now = 0

-----------------------------------------------------------------------------
(* The rows.                                                                *)

IsOidc(row) == row.policy # NoPolicy

(* session_is_active_inner, and the same conditions elsewhere *)
Active(row, t) ==
    /\ row.status = "active"
    /\ row.abs > t
    /\ row.kind = "standard" => row.idle > t

(* The end of a fixed lifetime; those the bounded clock never reaches are   *)
(* one.                                                                     *)
Expiry(t, secs) == IF t + secs <= MaxTime THEN t + secs ELSE MaxTime + 1

(* What new_session writes, with the evidence it rests on. *)
StandardSession(role, fingerprint, ver) ==
    [AbsentSession EXCEPT !.status = "active", !.role = role, !.policy = fingerprint,
     !.idle = now + IdleSecs, !.abs = Expiry(now, StandardSecs), !.ver = ver]

InsertSession(row) ==
    \E s \in Sessions :
        /\ sessions[s].status = "absent"
        /\ sessions' = [sessions EXCEPT ![s] = row]

(* Every query asks for revoked_at IS NULL and used_at IS NULL first, so     *)
(* nothing else is kept of a revoked session and of a used code.            *)
Revoked(row) ==
    [AbsentSession EXCEPT !.status = "revoked", !.code = row.code]
RevokeIf(row, condition) == IF row.status = "active" /\ condition THEN Revoked(row) ELSE row
UsedCode == [AbsentCode EXCEPT !.status = "used"]

RevokeRow(s) == sessions' = [sessions EXCEPT ![s] = RevokeIf(@, TRUE)]

(* pairing_is_eligible and the query of consume_pairing_and_insert_session *)
Eligible(c, t) ==
    /\ codes[c].status = "unused"
    /\ codes[c].expires > t
    /\ sessions[codes[c].creator].role = "admin"
    /\ Active(sessions[codes[c].creator], t)

(* The handler returns: what it holds locally is gone. *)
Finish(r) == request' = [request EXCEPT ![r] = IdleRequest]

(* It goes on; from where it stores a code on, it may read the clock.       *)
Enter(r, pc) ==
    request' = [request EXCEPT ![r].pc = pc, ![r].at = IF pc = "grant_insert" THEN now ELSE 0]

-----------------------------------------------------------------------------
(* require_auth in front of every protected route.                          *)

(* authenticate_headers: the row of the cookie, judged by the clock and by  *)
(* the policy of this daemon.  A cookie without a row, or of a revoked one, *)
(* is turned away without any change.                                       *)
Acceptable(row) ==
    /\ Active(row, now)
    /\ IsOidc(row) => row.policy = policy

ReadUnacceptable(r, s) ==
    /\ up
    /\ request[r].pc = "idle"
    /\ sessions[s].status = "active"
    /\ ~Acceptable(sessions[s])
    /\ request' = [request EXCEPT ![r] = [IdleRequest EXCEPT !.pc = "refuse", !.session = s]]
    /\ UNCHANGED <<up, policy, db, work, now>>

(* Its row is revoked, whatever happened to it since it was read. *)
Refuse(r) ==
    /\ up
    /\ request[r].pc = "refuse"
    /\ RevokeRow(request[r].session)
    /\ Finish(r)
    /\ UNCHANGED <<up, policy, version, codes, work, now>>

(* A viewer may only read and log out. *)
Admit(r, s, op) ==
    /\ up
    /\ request[r].pc = "idle"
    /\ Acceptable(sessions[s])
    /\ sessions[s].role = "admin" \/ op \in {"read", "logout"}
    /\ request' = [request EXCEPT ![r] =
           [IdleRequest EXCEPT !.pc = "touch", !.op = op, !.session = s, !.at = now]]
    /\ UNCHANGED <<up, policy, db, work, now>>

(* Mutant: every request renews the idle time. *)
TouchedAlways(row, t) ==
    IF Active(row, t) /\ row.kind = "standard"
    THEN [row EXCEPT !.idle = t + IdleSecs]
    ELSE row

(* touch_session_if_active_throttled, at the time of the judgement.         *)
(* A WebSocket upgrade only asks session_is_active and changes nothing.     *)
Touched(row, t) ==
    IF Active(row, t) /\ row.kind = "standard" /\ row.idle - IdleSecs + TouchSecs <= t
    THEN [row EXCEPT !.idle = t + IdleSecs]
    ELSE row

(* Mutant: an administrator session is enough for an administrator code. *)
AfterGuardUnproved(op) ==
    IF op \in {"pair_viewer", "pair_admin"} THEN "grant_insert" ELSE "handle"

(* The handler behind the guard; only a viewer code needs nothing before it *)
(* is stored.                                                               *)
AfterGuard(op) == IF op = "pair_viewer" THEN "grant_insert" ELSE "handle"

Touch(r) ==
    /\ up
    /\ request[r].pc = "touch"
    /\ LET s == request[r].session
           t == request[r].at IN
        /\ sessions' = [sessions EXCEPT ![s] = Touched(@, t)]
        /\ IF Active(sessions[s], t) /\ request[r].op # "read"
           THEN Enter(r, AfterGuard(request[r].op))
           ELSE Finish(r)
    /\ UNCHANGED <<up, policy, version, codes, work, now>>

-----------------------------------------------------------------------------
(* logout and revoke_session                                                *)

Logout(r) ==
    /\ up
    /\ request[r].pc = "handle"
    /\ request[r].op = "logout"
    /\ RevokeRow(request[r].session)
    /\ Finish(r)
    /\ UNCHANGED <<up, policy, version, codes, work, now>>

RevokeOther(r, s) ==
    /\ up
    /\ request[r].pc = "handle"
    /\ request[r].op = "revoke"
    /\ RevokeRow(s)
    /\ Finish(r)
    /\ UNCHANGED <<up, policy, version, codes, work, now>>

-----------------------------------------------------------------------------
(* The Argon2 gate: a permit belongs to the blocking task, which ends       *)
(* whether or not its handler still waits for it.                           *)

TakePermit == permits < Argon2Concurrency /\ permits' = permits + 1

(* login, up to acquire_argon2, with the administrator as it is now *)
Login(r) ==
    /\ up
    /\ request[r].pc = "idle"
    /\ request' = [request EXCEPT ![r] =
           [IdleRequest EXCEPT !.pc = "login", !.ver = version]]
    /\ UNCHANGED <<up, policy, db, work, now>>

StartVerifying(r, from, to) ==
    /\ up
    /\ request[r].pc = from
    /\ TakePermit
    /\ Enter(r, to)
    /\ UNCHANGED <<up, policy, db, orphans, slot, now>>

(* The password matches the hash read earlier, or not; without an           *)
(* administrator it is compared with a dummy.                               *)
EndVerifying(r, from, to) ==
    /\ up
    /\ request[r].pc = from
    /\ permits' = permits - 1
    /\ \/ request[r].ver > 0 /\ Enter(r, to)
       \/ Finish(r)
    /\ UNCHANGED <<up, policy, db, orphans, slot, now>>

(* insert_standard_session_if_admin_version *)
LoginInsert(r) ==
    /\ up
    /\ request[r].pc = "login_insert"
    /\ IF version = request[r].ver
       THEN InsertSession(StandardSession("admin", NoPolicy, request[r].ver))
       ELSE UNCHANGED sessions
    /\ Finish(r)
    /\ UNCHANGED <<up, policy, version, codes, work, now>>

-----------------------------------------------------------------------------
(* create_pairing: a viewer code needs an administrator session, an         *)
(* administrator code the password as well.                                 *)

BeginAdminPairing(r) ==
    /\ up
    /\ request[r].pc = "handle"
    /\ request[r].op = "pair_admin"
    /\ request' = [request EXCEPT ![r].pc = "grant", ![r].ver = version]
    /\ UNCHANGED <<up, policy, db, work, now>>

CodeRow(r, t) ==
    LET s == request[r].session
        admin == request[r].op = "pair_admin" IN
    [status |-> "unused", role |-> IF admin THEN "admin" ELSE "viewer", creator |-> s,
     expires |-> Expiry(t, PairingSecs), ver |-> sessions[s].ver,
     proof |-> request[r].ver]

InsertCode(row) ==
    \E c \in Codes :
        /\ codes[c].status = "absent"
        /\ codes' = [codes EXCEPT ![c] = row]

(* Mutant: what the request guard saw is taken for granted. *)
GrantInsertUnchecked(r) ==
    /\ up
    /\ request[r].pc = "grant_insert"
    /\ \E t \in request[r].at .. now : InsertCode(CodeRow(r, t))
    /\ Finish(r)
    /\ UNCHANGED <<up, policy, version, sessions, work, now>>

(* insert_pairing_if_authorized: the creator is looked at again, by a clock *)
(* the handler reads before it waits for the connection.                    *)
GrantInsert(r) ==
    /\ up
    /\ request[r].pc = "grant_insert"
    /\ \E t \in request[r].at .. now :
          IF /\ sessions[request[r].session].role = "admin"
             /\ Active(sessions[request[r].session], t)
             /\ request[r].ver \in {0, version}
          THEN InsertCode(CodeRow(r, t))
          ELSE UNCHANGED codes
    /\ Finish(r)
    /\ UNCHANGED <<up, policy, version, sessions, work, now>>

-----------------------------------------------------------------------------
(* pair: check and consumption hold the only pairing slot.                  *)

PairCheck(r, c) ==
    /\ up
    /\ request[r].pc = "idle"
    /\ codes[c].status # "absent"
    /\ ~slot
    /\ Eligible(c, now)
    /\ slot' = TRUE
    /\ request' = [request EXCEPT ![r] = [IdleRequest EXCEPT !.pc = "consume", !.code = c, !.at = now]]
    /\ UNCHANGED <<up, policy, db, permits, orphans, now>>

FixedSession(c, t) ==
    [AbsentSession EXCEPT !.status = "active", !.role = codes[c].role, !.kind = "fixed",
     !.abs = Expiry(t, IF codes[c].role = "viewer" THEN ViewerSecs ELSE AdminSecs),
     !.ver = codes[c].ver, !.proof = codes[c].proof, !.code = c]

(* consume_pairing_and_insert_session, by a clock read before it waits for  *)
(* the connection                                                           *)
PairConsume(r) ==
    /\ up
    /\ request[r].pc = "consume"
    /\ slot' = FALSE
    /\ \E t \in request[r].at .. now :
          IF Eligible(request[r].code, t)
          THEN /\ InsertSession(FixedSession(request[r].code, t))
               /\ codes' = [codes EXCEPT ![request[r].code] = UsedCode]
          ELSE UNCHANGED <<sessions, codes>>
    /\ Finish(r)
    /\ UNCHANGED <<up, policy, version, permits, orphans, now>>

-----------------------------------------------------------------------------
(* The OIDC callback, as far as sessions are concerned: it needs an         *)
(* administrator when it starts and when it ends, and stores the policy of  *)
(* this daemon.                                                             *)

Callback(r) ==
    /\ up
    /\ request[r].pc = "idle"
    /\ policy # NoPolicy
    /\ version > 0
    /\ request' = [request EXCEPT ![r] =
           [IdleRequest EXCEPT !.pc = "callback", !.ver = version]]
    /\ UNCHANGED <<up, policy, db, work, now>>

EstablishOidcSession(r, role) ==
    /\ up
    /\ request[r].pc = "callback"
    /\ IF version > 0
       THEN InsertSession(StandardSession(role, policy, request[r].ver))
       ELSE UNCHANGED sessions
    /\ Finish(r)
    /\ UNCHANGED <<up, policy, version, codes, work, now>>

-----------------------------------------------------------------------------
(* The client goes away or a wait times out: the handler is dropped at an   *)
(* await.  A hashing task it started goes on.                               *)

Awaiting == {"login", "login_verify", "login_insert", "grant", "grant_verify",
             "grant_insert", "callback"}

(* Mutant: the permit is dropped with the handler. *)
DropHandlerAndPermit(r) ==
    /\ up
    /\ request[r].pc \in Awaiting
    /\ IF request[r].pc \in {"login_verify", "grant_verify"}
       THEN orphans' = orphans + 1 /\ permits' = permits - 1
       ELSE UNCHANGED <<orphans, permits>>
    /\ Finish(r)
    /\ UNCHANGED <<up, policy, db, slot, now>>

DropHandler(r) ==
    /\ up
    /\ request[r].pc \in Awaiting
    /\ orphans' = IF request[r].pc \in {"login_verify", "grant_verify"}
                  THEN orphans + 1 ELSE orphans
    /\ Finish(r)
    /\ UNCHANGED <<up, policy, db, permits, slot, now>>

EndOrphan ==
    /\ up
    /\ orphans > 0
    /\ orphans' = orphans - 1
    /\ permits' = permits - 1
    /\ UNCHANGED <<up, policy, db, request, slot, now>>

-----------------------------------------------------------------------------
(* The administrator, the command line and the life of the daemon.          *)

(* consume_setup_and_create_admin_and_session, as far as sessions go *)
Setup ==
    /\ up
    /\ version = 0
    /\ version' = 1
    /\ InsertSession(StandardSession("admin", NoPolicy, 1))
    /\ UNCHANGED <<up, policy, codes, request, work, now>>

(* The daemon keeps the database lock as long as it lives. *)
LockIsFree == ~up

(* admin setup *)
CliSetup ==
    /\ LockIsFree
    /\ version = 0
    /\ version' = 1
    /\ UNCHANGED <<up, policy, sessions, codes, request, work, now>>

(* Mutant: a reset forgets the pairing codes. *)
ReplaceAdminKeepingCodes ==
    /\ version' = version + 1
    /\ sessions' = [s \in Sessions |-> RevokeIf(sessions[s], TRUE)]
    /\ UNCHANGED codes

(* replace_admin_password *)
ReplaceAdmin ==
    /\ version' = version + 1
    /\ sessions' = [s \in Sessions |-> RevokeIf(sessions[s], TRUE)]
    /\ codes' = [c \in Codes |->
           IF codes[c].status = "unused" THEN UsedCode ELSE codes[c]]

(* admin reset-password *)
CliReset ==
    /\ LockIsFree
    /\ version \in 1 .. MaxVersion - 1
    /\ ReplaceAdmin
    /\ UNCHANGED <<up, policy, request, work, now>>

(* Mutant: only sessions of another policy are revoked, not those of a      *)
(* provider that is no longer configured.                                   *)
OutdatedWhenConfigured(row, p) == IsOidc(row) /\ p # NoPolicy /\ row.policy # p

(* revoke_oidc_sessions_with_other_policy *)
Outdated(row, p) == IsOidc(row) /\ row.policy # p

(* Start-up with the configured policy. *)
Boot(p) ==
    /\ LockIsFree
    /\ up' = TRUE
    /\ policy' = p
    /\ sessions' = [s \in Sessions |-> RevokeIf(sessions[s], Outdated(sessions[s], p))]
    /\ UNCHANGED <<version, codes, request, work, now>>

(* The process ends, in order or not: every handler and task is gone. *)
Halt ==
    /\ up
    /\ up' = FALSE
    /\ request' = [r \in Requests |-> IdleRequest]
    /\ permits' = 0
    /\ orphans' = 0
    /\ slot' = FALSE
    /\ UNCHANGED <<policy, db, now>>

Tick ==
    /\ now < MaxTime
    /\ now' = now + 1
    /\ UNCHANGED <<up, policy, db, request, work>>

-----------------------------------------------------------------------------

Guard(r) ==
    \/ \E s \in Sessions : ReadUnacceptable(r, s)
    \/ Refuse(r)
    \/ \E s \in Sessions, op \in Operations : Admit(r, s, op)
    \/ Touch(r)

Handler(r) ==
    \/ Logout(r)
    \/ \E s \in Sessions : RevokeOther(r, s)
    \/ Login(r)
    \/ BeginAdminPairing(r)
    \/ StartVerifying(r, "login", "login_verify")
    \/ StartVerifying(r, "grant", "grant_verify")
    \/ EndVerifying(r, "login_verify", "login_insert")
    \/ EndVerifying(r, "grant_verify", "grant_insert")
    \/ LoginInsert(r)
    \/ GrantInsert(r)
    \/ \E c \in Codes : PairCheck(r, c)
    \/ PairConsume(r)
    \/ Callback(r)
    \/ \E role \in Roles : EstablishOidcSession(r, role)
    \/ DropHandler(r)

Next ==
    \/ \E r \in Requests : Guard(r) \/ Handler(r)
    \/ EndOrphan
    \/ Setup
    \/ CliSetup
    \/ CliReset
    \/ \E p \in Policies \union {NoPolicy} : Boot(p)
    \/ Halt
    \/ Tick

Spec == Init /\ [][Next]_vars

-----------------------------------------------------------------------------
(* Properties.                                                              *)

(* Resetting the administrator password is total (docs/operations.md: it    *)
(* revokes all sessions and all unused pairing codes): whatever was in      *)
(* flight, every session that is not revoked and every unused code rests on *)
(* evidence for the present credential.                                     *)
ResetIsTotal ==
    /\ \A s \in Sessions : sessions[s].status = "active" => sessions[s].ver = version
    /\ \A c \in Codes : codes[c].status = "unused" => codes[c].ver = version

(* create_pairing asks for the password whenever a code makes an            *)
(* administrator device: every live administrator device and every unused   *)
(* administrator code had the present password presented for it.            *)
AdminDeviceHasPassword ==
    /\ \A s \in Sessions :
        /\ sessions[s].status = "active"
        /\ sessions[s].kind = "fixed"
        /\ sessions[s].role = "admin"
        => sessions[s].proof = version
    /\ \A c \in Codes :
        codes[c].status = "unused" /\ codes[c].role = "admin" => codes[c].proof = version

(* A pairing code makes at most one device and cannot be used again once it *)
(* has (consume_pairing_and_insert_session), whoever presents it meanwhile. *)
OneDevicePerCode ==
    \A s \in Sessions : sessions[s].code # NoCode =>
        /\ codes[sessions[s].code].status = "used"
        /\ \A t \in Sessions \ {s} : sessions[t].code # sessions[s].code

(* While a daemon serves, no OIDC session of another policy is alive, across *)
(* every restart with a changed configuration.                              *)
PolicySessionsAreCurrent ==
    up => \A s \in Sessions :
              sessions[s].status = "active" /\ IsOidc(sessions[s])
              => sessions[s].policy = policy

(* ARGON2_CONCURRENCY bounds the hashing tasks, including those whose       *)
(* handler was dropped; no permit is returned twice.                        *)
Argon2IsBounded ==
    /\ TypeOK
    /\ Cardinality({r \in Requests : request[r].pc \in {"login_verify", "grant_verify"}})
          + orphans <= Argon2Concurrency

(* Request r acts for session s, which is not revoked and had not expired   *)
(* when r came to the point where it reads the clock.                       *)
ActsFor(r, s) == Active(sessions[s], request[r].at)

(* Only an administrator session that is not revoked at that moment, and    *)
(* was not expired when the handler read its clock, delegates: revoking it  *)
(* stops a pairing that already passed the request guard, and the codes it  *)
(* handed out.                                                              *)
DelegatesAlive ==
    /\ \A c \in Codes :
        codes[c].status = "absent" /\ codes'[c].status # "absent"
        => \E r \in Requests : request[r].pc = "grant_insert" /\ ActsFor(r, codes'[c].creator)
    /\ \A s \in Sessions :
        sessions[s].status = "absent" /\ sessions'[s].kind = "fixed"
        => \E r \in Requests :
              /\ request[r].pc = "consume" /\ request[r].code = sessions'[s].code
              /\ ActsFor(r, codes[request[r].code].creator)

(* A pairing code is worth one device, granted by a live administrator      *)
(* session, whichever requests race for it.                                 *)
DelegationIsSound == []OneDevicePerCode /\ [][DelegatesAlive]_vars

(* A session that stays alive keeps its idle time or gains. *)
KeepsIdleTime ==
    \A s \in Sessions :
        sessions[s].status = "active" /\ sessions'[s].status = "active"
        => sessions'[s].idle >= sessions[s].idle

(* Requests of one session finish in any order, each with the time it read: *)
(* a late one never shortens what a faster one renewed.                     *)
IdleNeverShrinks == [][KeepsIdleTime]_vars
=============================================================================
