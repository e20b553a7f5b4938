------------------------- MODULE AuthSessions_proofs -------------------------
(****************************************************************************)
(* Theorems about AuthSessions, for any number of handlers, session rows    *)
(* and codes.                                                               *)
(*                                                                          *)
(* The inductive invariant adds to the properties what keeps evidence       *)
(* current while a handler waits: no handler outlives the daemon (Quiet),   *)
(* so the credential version it read is still the present one               *)
(* (HandlersSound), and rows that count exist only after setup (RowsSound). *)
(****************************************************************************)
EXTENDS AuthSessions, FiniteSetTheorems, TLAPS

(* A daemon that is down runs no handler. *)
Quiet == ~up => \A r \in Requests : request[r] = IdleRequest

(* Locals of a handler: where they are set, and what they still stand for. *)
HandlersSound ==
    \A r \in Requests :
        /\ request[r].ver > 0 => request[r].ver = version
        /\ request[r].pc \in {"refuse", "touch", "handle", "grant", "grant_verify",
                              "grant_insert"}
           => request[r].session \in Sessions
        /\ request[r].pc = "consume" => request[r].code \in Codes
        /\ request[r].pc \in {"login_insert", "callback"} => request[r].ver > 0
        /\ request[r].pc = "grant_insert" /\ request[r].op = "pair_admin"
           => request[r].ver > 0

(* Live sessions and unused codes exist only once there is an administrator *)
RowsSound ==
    /\ \A s \in Sessions : sessions[s].status = "active" => version > 0
    /\ \A c \in Codes :
        codes[c].status = "unused" => version > 0 /\ codes[c].creator \in Sessions

(* Everything but the counters. *)
Types ==
    /\ up \in BOOLEAN
    /\ policy \in Policies \union {NoPolicy}
    /\ version \in Versions
    /\ sessions \in [Sessions -> SessionRows]
    /\ codes \in [Codes -> CodeRows]
    /\ request \in [Requests -> RequestStates]
    /\ slot \in BOOLEAN
    /\ now \in 0 .. MaxTime

Evidence ==
    /\ Types
    /\ Quiet
    /\ HandlersSound
    /\ RowsSound
    /\ ResetIsTotal
    /\ AdminDeviceHasPassword
    /\ PolicySessionsAreCurrent

-----------------------------------------------------------------------------
(* The bounds one by one. *)
LEMMA Bounds ==
    /\ MaxVersion \in Nat \ {0}
    /\ Argon2Concurrency \in Nat \ {0}
    /\ MaxTime \in Nat
    /\ IdleSecs \in Nat
    /\ TouchSecs \in Nat
BY AuthConstants DEF AuthConstants

(* The rows written whole have the type of their table, and revoking a row  *)
(* keeps its type.                                                          *)
LEMMA RowTypes ==
    /\ AbsentSession \in SessionRows
    /\ AbsentCode \in CodeRows
    /\ UsedCode \in CodeRows
    /\ IdleRequest \in RequestStates
    /\ \A row \in SessionRows : Revoked(row) \in SessionRows
<1>1. AbsentSession \in SessionRows
  BY Bounds DEF AbsentSession, SessionRows, Roles, Versions, Times
<1>2. AbsentCode \in CodeRows /\ UsedCode \in CodeRows
  BY Bounds DEF AbsentCode, UsedCode, CodeRows, Roles, Versions, Times
<1>3. IdleRequest \in RequestStates
  BY Bounds DEF IdleRequest, RequestStates, Operations, Versions
<1>4. \A row \in SessionRows : Revoked(row) \in SessionRows
  BY <1>1 DEF Revoked, SessionRows
<1> QED
  BY <1>1, <1>2, <1>3, <1>4

(* What expires at an hour the clock allows has the type of a time. *)
LEMMA ExpiryType ==
    ASSUME NEW t \in 0 .. MaxTime, NEW secs \in Nat
    PROVE  Expiry(t, secs) \in Times
BY Bounds DEF Expiry, Times

-----------------------------------------------------------------------------
(* Parts of actions that several of them share.                             *)

(* A handler that ends leaves the others as they are. *)
LEMMA FinishStep ==
    ASSUME Types, HandlersSound, NEW r \in Requests, Finish(r), version' = version
    PROVE  HandlersSound' /\ request' \in [Requests -> RequestStates]
<1>1. request' \in [Requests -> RequestStates]
  BY RowTypes DEF Types, Finish
<1>2. \A q \in Requests : request'[q] = IF q = r THEN IdleRequest ELSE request[q]
  BY DEF Types, Finish
<1> QED
  BY <1>1, <1>2 DEF HandlersSound, IdleRequest

(* Revoking a row makes no other row alive. *)
LEMMA RevokeStep ==
    ASSUME Types, NEW s \in Sessions, RevokeRow(s)
    PROVE  /\ sessions' \in [Sessions -> SessionRows]
           /\ \A q \in Sessions :
                 sessions'[q] = sessions[q] \/ sessions'[q].status # "active"
BY RowTypes DEF Types, RevokeRow, RevokeIf, Revoked, AbsentSession

(* An insertion changes the row it fills and no other. *)
LEMMA InsertStep ==
    ASSUME Types, NEW row \in SessionRows, InsertSession(row)
    PROVE  /\ sessions' \in [Sessions -> SessionRows]
           /\ \A q \in Sessions : sessions'[q] = sessions[q] \/ sessions'[q] = row
BY DEF Types, InsertSession

(* The session a password or a provider establishes has the type of a row.  *)
LEMMA StandardType ==
    ASSUME Types, NEW role \in Roles, NEW p \in Policies \union {NoPolicy},
           NEW ver \in Versions
    PROVE  /\ StandardSession(role, p, ver) \in SessionRows
           /\ StandardSession(role, p, ver).status = "active"
           /\ StandardSession(role, p, ver).kind = "standard"
           /\ StandardSession(role, p, ver).policy = p
           /\ StandardSession(role, p, ver).ver = ver
<1>1. Expiry(now, StandardSecs) \in Times
  BY ExpiryType, AuthConstants DEF Types, AuthConstants
<1>2. now + IdleSecs \in Times
  BY Bounds DEF Types, Times
<1> QED
  BY <1>1, <1>2, RowTypes DEF StandardSession, AbsentSession, SessionRows

-----------------------------------------------------------------------------
(* The request guard.                                                       *)

(* An admitted request remembers an existing session and no evidence. *)
LEMMA AdmitStep ==
    ASSUME Evidence, NEW r \in Requests, NEW s \in Sessions, NEW op \in Operations,
           Admit(r, s, op)
    PROVE  Evidence'
<1> USE DEF db, work
<1>1. Types'
  BY RowTypes DEF Evidence, Types, Admit, RequestStates
<1>2. Quiet' /\ RowsSound' /\ ResetIsTotal' /\ AdminDeviceHasPassword'
  BY DEF Evidence, Quiet, RowsSound, ResetIsTotal, AdminDeviceHasPassword, Admit
<1>3. PolicySessionsAreCurrent'
  BY DEF Evidence, PolicySessionsAreCurrent, Admit, IsOidc
<1>4. HandlersSound'
  BY DEF Evidence, Types, HandlersSound, Admit, IdleRequest, RequestStates
<1> QED
  BY <1>1, <1>2, <1>3, <1>4 DEF Evidence

(* So does one that is about to be turned away. *)
LEMMA ReadUnacceptableStep ==
    ASSUME Evidence, NEW r \in Requests, NEW s \in Sessions, ReadUnacceptable(r, s)
    PROVE  Evidence'
<1> USE DEF db, work
<1>1. Types'
  BY RowTypes DEF Evidence, Types, ReadUnacceptable, RequestStates
<1>2. Quiet' /\ RowsSound' /\ ResetIsTotal' /\ AdminDeviceHasPassword'
  BY DEF Evidence, Quiet, RowsSound, ResetIsTotal, AdminDeviceHasPassword, ReadUnacceptable
<1>3. PolicySessionsAreCurrent'
  BY DEF Evidence, PolicySessionsAreCurrent, ReadUnacceptable, IsOidc
<1>4. HandlersSound'
  BY DEF Evidence, Types, HandlersSound, ReadUnacceptable, IdleRequest, RequestStates
<1> QED
  BY <1>1, <1>2, <1>3, <1>4 DEF Evidence

(* Revoking one session and returning, as the guard, logout and             *)
(* revoke_session do, keeps every part.                                     *)
LEMMA RevokeAndFinish ==
    ASSUME Evidence, NEW r \in Requests, NEW s \in Sessions, up, RevokeRow(s), Finish(r),
           UNCHANGED <<up, policy, version, codes, work, now>>
    PROVE  Evidence'
<1> USE DEF work
<1>1. HandlersSound' /\ Types' /\ Quiet'
  BY FinishStep, RevokeStep DEF Evidence, Types, Quiet
<1>2. \A q \in Sessions : sessions'[q] = sessions[q] \/ sessions'[q].status # "active"
  BY RevokeStep DEF Evidence
<1>3. RowsSound' /\ ResetIsTotal' /\ AdminDeviceHasPassword'
  BY <1>2 DEF Evidence, RowsSound, ResetIsTotal, AdminDeviceHasPassword
<1>4. PolicySessionsAreCurrent'
  BY <1>2 DEF Evidence, PolicySessionsAreCurrent, IsOidc
<1> QED
  BY <1>1, <1>3, <1>4 DEF Evidence

(* A touch changes one idle time; the handler it admits keeps its session. *)
LEMMA TouchStep ==
    ASSUME Evidence, NEW r \in Requests, Touch(r)
    PROVE  Evidence'
<1> USE DEF work
<1> DEFINE s == request[r].session
           t == request[r].at
<1>1. s \in Sessions /\ t \in 0 .. MaxTime /\ request[r] \in RequestStates
  BY DEF Evidence, Types, HandlersSound, Touch, RequestStates
<1>2. sessions' \in [Sessions -> SessionRows]
  <2>1. t + IdleSecs \in Times
    BY <1>1, Bounds DEF Times
  <2>2. Touched(sessions[s], t) \in SessionRows
    BY <1>1, <2>1 DEF Evidence, Types, Touched, SessionRows
  <2> QED
    BY <1>1, <2>2 DEF Evidence, Types, Touch
<1>3. \A q \in Sessions :
          /\ sessions'[q].status = sessions[q].status
          /\ sessions'[q].role = sessions[q].role
          /\ sessions'[q].kind = sessions[q].kind
          /\ sessions'[q].policy = sessions[q].policy
          /\ sessions'[q].ver = sessions[q].ver
          /\ sessions'[q].proof = sessions[q].proof
  <2>1. \A q \in Sessions : sessions'[q] = IF q = s THEN Touched(sessions[s], t)
                                           ELSE sessions[q]
    BY <1>1 DEF Evidence, Types, Touch
  <2> QED
    BY <1>1, <2>1 DEF Evidence, Types, Touched, SessionRows
<1>4. /\ request' \in [Requests -> RequestStates]
      /\ HandlersSound'
  <2>1. CASE Finish(r)
    BY <2>1, FinishStep DEF Evidence, Touch
  <2>2. CASE Enter(r, AfterGuard(request[r].op))
    <3> HIDE DEF s, t
    <3> DEFINE at == IF AfterGuard(request[r].op) = "grant_insert" THEN now ELSE 0
    <3>1. at \in 0 .. MaxTime /\ version' = version
      BY Bounds DEF Touch, Evidence, Types
    <3>0. request' = [request EXCEPT ![r].pc = AfterGuard(request[r].op), ![r].at = at]
      BY <2>2 DEF Enter
    <3> HIDE DEF at
    <3>2. AfterGuard(request[r].op) \in {"grant_insert", "handle"}
      BY DEF AfterGuard
    <3>3. AfterGuard(request[r].op) = "grant_insert" => request[r].op # "pair_admin"
      BY DEF AfterGuard
    <3>4. request' \in [Requests -> RequestStates]
      BY <1>1, <3>0, <3>1, <3>2 DEF Evidence, Types, RequestStates
    <3>5. request'[r] = [request[r] EXCEPT !.pc = AfterGuard(request[r].op), !.at = at]
      BY <3>0 DEF Evidence, Types
    <3>6. \A q \in Requests \ {r} : request'[q] = request[q]
      BY <3>0 DEF Evidence, Types
    <3>7. /\ request'[r].pc \in {"grant_insert", "handle"}
          /\ request'[r].pc = "grant_insert" => request'[r].op # "pair_admin"
          /\ request'[r].session \in Sessions
          /\ request'[r].ver = request[r].ver
      BY <1>1, <3>2, <3>3, <3>5 DEF RequestStates, s
    <3> QED
      BY <3>1, <3>4, <3>6, <3>7 DEF Evidence, HandlersSound
  <2> QED
    BY <2>1, <2>2 DEF Touch
<1>5. Types' /\ Quiet'
  BY <1>2, <1>4 DEF Evidence, Types, Quiet, Touch
<1>6. RowsSound' /\ ResetIsTotal' /\ AdminDeviceHasPassword'
  BY <1>3 DEF Evidence, RowsSound, ResetIsTotal, AdminDeviceHasPassword, Touch
<1>7. PolicySessionsAreCurrent'
  BY <1>3 DEF Evidence, PolicySessionsAreCurrent, IsOidc, Touch
<1> QED
  BY <1>4, <1>5, <1>6, <1>7 DEF Evidence

-----------------------------------------------------------------------------
(* Handlers that only move: nothing in the database changes.                *)

(* A handler that moves to a place where what it holds is sound. *)
LEMMA MoveStep ==
    ASSUME Evidence, NEW r \in Requests, NEW new \in RequestStates, up,
           request' = [request EXCEPT ![r] = new],
           UNCHANGED <<up, policy, db, now>>, slot' \in BOOLEAN,
           new.ver > 0 => new.ver = version,
           new.pc \in {"refuse", "touch", "handle", "grant", "grant_verify", "grant_insert"}
               => new.session \in Sessions,
           new.pc = "consume" => new.code \in Codes,
           new.pc \in {"login_insert", "callback"} => new.ver > 0,
           new.pc = "grant_insert" /\ new.op = "pair_admin" => new.ver > 0
    PROVE  Evidence'
<1> USE DEF db
<1>1. Types'
  BY DEF Evidence, Types
<1>2. Quiet' /\ RowsSound' /\ ResetIsTotal' /\ AdminDeviceHasPassword'
  BY DEF Evidence, Quiet, RowsSound, ResetIsTotal, AdminDeviceHasPassword
<1>3. PolicySessionsAreCurrent'
  BY DEF Evidence, PolicySessionsAreCurrent, IsOidc
<1>4. HandlersSound'
  <2>1. \A q \in Requests : request'[q] = IF q = r THEN new ELSE request[q]
    BY DEF Evidence, Types
  <2> QED
    BY <2>1 DEF Evidence, HandlersSound
<1> QED
  BY <1>1, <1>2, <1>3, <1>4 DEF Evidence

(* A handler that only ends. *)
LEMMA FinishOnly ==
    ASSUME Evidence, NEW r \in Requests, up, Finish(r),
           UNCHANGED <<up, policy, db, now>>, slot' \in BOOLEAN
    PROVE  Evidence'
<1>1. ~(IdleRequest.ver > 0) /\ IdleRequest.pc = "idle" /\ IdleRequest \in RequestStates
  BY RowTypes DEF IdleRequest
<1>2. request' = [request EXCEPT ![r] = IdleRequest]
  BY DEF Finish
<1>3. IdleRequest.pc \notin {"refuse", "touch", "handle", "grant", "grant_verify",
                           "grant_insert", "consume", "login_insert", "callback"}
  BY <1>1
<1> QED
  BY <1>1, <1>2, <1>3, MoveStep, Zenon

(* Starting a login, an administrator pairing and a callback reads the      *)
(* credential version, which is the present one.                            *)
LEMMA ReadVersionStep ==
    ASSUME Evidence, NEW r \in Requests, Login(r) \/ BeginAdminPairing(r) \/ Callback(r)
    PROVE  Evidence'
<1>1. version \in Versions /\ version \in Nat /\ request[r] \in RequestStates /\ slot \in BOOLEAN
  BY Bounds DEF Evidence, Types, Versions
<1>2. CASE Login(r)
  <2> DEFINE new == [IdleRequest EXCEPT !.pc = "login", !.ver = version]
  <2>1. new \in RequestStates /\ new.pc = "login" /\ new.ver = version
    BY <1>1, RowTypes DEF RequestStates, IdleRequest
  <2>2. request' = [request EXCEPT ![r] = new]
    BY <1>2 DEF Login
  <2> HIDE DEF new
  <2> QED
    BY <1>1, <1>2, <2>1, <2>2, MoveStep DEF Login, work
<1>3. CASE BeginAdminPairing(r)
  <2> DEFINE new == [request[r] EXCEPT !.pc = "grant", !.ver = version]
  <2>1. new \in RequestStates /\ new.pc = "grant" /\ new.ver = version
        /\ new.session = request[r].session
    BY <1>1 DEF RequestStates
  <2>2. request' = [request EXCEPT ![r] = new]
    BY <1>3 DEF BeginAdminPairing
  <2>3. request[r].session \in Sessions
    BY <1>3 DEF BeginAdminPairing, Evidence, HandlersSound
  <2> HIDE DEF new
  <2> QED
    BY <1>1, <1>3, <2>1, <2>2, <2>3, MoveStep DEF BeginAdminPairing, work
<1>4. CASE Callback(r)
  <2> DEFINE new == [IdleRequest EXCEPT !.pc = "callback", !.ver = version]
  <2>1. new \in RequestStates /\ new.pc = "callback" /\ new.ver = version
    BY <1>1, RowTypes DEF RequestStates, IdleRequest
  <2>2. request' = [request EXCEPT ![r] = new]
    BY <1>4 DEF Callback
  <2> HIDE DEF new
  <2> QED
    BY <1>1, <1>4, <2>1, <2>2, MoveStep DEF Callback, work
<1> QED
  BY <1>2, <1>3, <1>4

(* Places of the two verifications, in order. *)
Verification(from, to) ==
    \/ from = "login" /\ to = "login_verify"
    \/ from = "grant" /\ to = "grant_verify"
    \/ from = "login_verify" /\ to = "login_insert"
    \/ from = "grant_verify" /\ to = "grant_insert"

(* A handler that goes on in a verification keeps its session and version;  *)
(* it passes the verification only with a version.                          *)
LEMMA HandlerGoesOn ==
    ASSUME Evidence, NEW r \in Requests, NEW from, NEW to, Verification(from, to), up,
           request[r].pc = from, Enter(r, to), slot' = slot,
           to \in {"login_insert", "grant_insert"} => request[r].ver > 0,
           UNCHANGED <<up, policy, db, now>>
    PROVE  Evidence'
<1>1. request[r] \in RequestStates /\ slot \in BOOLEAN /\ now \in 0 .. MaxTime
  BY DEF Evidence, Types
<1> DEFINE at == IF to = "grant_insert" THEN now ELSE 0
           new == [request[r] EXCEPT !.pc = to, !.at = at]
<1>0. at \in 0 .. MaxTime
  BY <1>1, Bounds
<1> HIDE DEF at
<1>2. /\ new \in RequestStates
      /\ new.pc = to
      /\ new.ver = request[r].ver
      /\ new.session = request[r].session
  BY <1>0, <1>1 DEF RequestStates, Verification
<1>3. request' = [request EXCEPT ![r] = new]
  BY DEF Enter, at
<1>4. to \in {"grant_verify", "grant_insert"} => request[r].session \in Sessions
  BY DEF Evidence, HandlersSound, Verification
<1>5. request[r].ver > 0 => request[r].ver = version
  BY DEF Evidence, HandlersSound
<1>6. to \in {"login_verify", "login_insert", "grant_verify", "grant_insert"}
  BY DEF Verification
<1> HIDE DEF new
<1> QED
  BY <1>1, <1>2, <1>3, <1>4, <1>5, <1>6, MoveStep

(* Taking a permit and verifying a password. *)
LEMMA VerifyStep ==
    ASSUME Evidence, NEW r \in Requests, NEW from, NEW to, Verification(from, to),
           \/ StartVerifying(r, from, to) /\ to \in {"login_verify", "grant_verify"}
           \/ EndVerifying(r, from, to)
    PROVE  Evidence'
<1>1. slot \in BOOLEAN
  BY DEF Evidence, Types
<1>2. CASE StartVerifying(r, from, to) /\ to \in {"login_verify", "grant_verify"}
  BY <1>2, HandlerGoesOn DEF StartVerifying
<1>3. CASE EndVerifying(r, from, to)
  <2>1. CASE request[r].ver > 0 /\ Enter(r, to)
    BY <1>3, <2>1, HandlerGoesOn DEF EndVerifying
  <2>2. CASE Finish(r)
    BY <1>1, <1>3, <2>2, FinishOnly DEF EndVerifying
  <2> QED
    BY <1>3, <2>1, <2>2 DEF EndVerifying
<1> QED
  BY <1>2, <1>3

(* The check of a pairing code remembers the code. *)
LEMMA PairCheckStep ==
    ASSUME Evidence, NEW r \in Requests, NEW c \in Codes, PairCheck(r, c)
    PROVE  Evidence'
<1> DEFINE new == [IdleRequest EXCEPT !.pc = "consume", !.code = c, !.at = now]
<1>1. new \in RequestStates /\ new.pc = "consume" /\ new.ver = 0 /\ new.code = c
  BY RowTypes DEF RequestStates, IdleRequest, Evidence, Types
<1>2. request' = [request EXCEPT ![r] = new]
  BY DEF PairCheck
<1>3. up /\ slot' \in BOOLEAN /\ UNCHANGED <<up, policy, db, now>>
  BY DEF PairCheck
<1> HIDE DEF new
<1>4. ~(new.ver > 0) /\ new.pc \notin {"refuse", "touch", "handle", "grant", "grant_verify",
                                      "grant_insert", "login_insert", "callback"}
  BY <1>1
<1> QED
  BY <1>1, <1>2, <1>3, <1>4, MoveStep, Zenon

(* A dropped handler and the end of its task leave no evidence behind. *)
LEMMA DropStep ==
    ASSUME Evidence, (\E r \in Requests : DropHandler(r)) \/ EndOrphan
    PROVE  Evidence'
<1>1. slot \in BOOLEAN
  BY DEF Evidence, Types
<1>2. CASE \E r \in Requests : DropHandler(r)
  BY <1>1, <1>2, FinishOnly DEF DropHandler
<1>3. CASE EndOrphan
  <2> USE DEF db
  <2>1. Types' /\ Quiet' /\ HandlersSound' /\ RowsSound' /\ ResetIsTotal'
        /\ AdminDeviceHasPassword'
    BY <1>3 DEF EndOrphan, Evidence, Types, Quiet, HandlersSound, RowsSound, ResetIsTotal,
                AdminDeviceHasPassword
  <2>2. PolicySessionsAreCurrent'
    BY <1>3 DEF EndOrphan, Evidence, PolicySessionsAreCurrent, IsOidc
  <2> QED
    BY <2>1, <2>2 DEF Evidence
<1> QED
  BY <1>2, <1>3

-----------------------------------------------------------------------------
(* Handlers that write a row.                                               *)

(* A new session that rests on the present credential and policy. *)
LEMMA SessionStep ==
    ASSUME Evidence, NEW row \in SessionRows, InsertSession(row), up,
           row.ver = version, version > 0, row.kind = "fixed" /\ row.role = "admin"
                                           => row.proof = version,
           IsOidc(row) => row.policy = policy, UNCHANGED <<up, policy, version>>
    PROVE  /\ sessions' \in [Sessions -> SessionRows]
           /\ \A s \in Sessions : sessions'[s].status = "active" =>
                 /\ version' > 0
                 /\ sessions'[s].ver = version'
                 /\ sessions'[s].kind = "fixed" /\ sessions'[s].role = "admin"
                    => sessions'[s].proof = version'
           /\ PolicySessionsAreCurrent'
<1>1. /\ sessions' \in [Sessions -> SessionRows]
      /\ \A q \in Sessions : sessions'[q] = sessions[q] \/ sessions'[q] = row
  BY InsertStep DEF Evidence
<1>2. \A s \in Sessions : sessions'[s].status = "active" =>
          /\ version' > 0
          /\ sessions'[s].ver = version'
          /\ sessions'[s].kind = "fixed" /\ sessions'[s].role = "admin"
             => sessions'[s].proof = version'
  BY <1>1 DEF Evidence, ResetIsTotal, AdminDeviceHasPassword
<1>3. PolicySessionsAreCurrent'
  BY <1>1 DEF Evidence, PolicySessionsAreCurrent, IsOidc
<1> QED
  BY <1>1, <1>2, <1>3

(* Establishing a standard session and returning. *)
LEMMA EstablishStep ==
    ASSUME Evidence, NEW r \in Requests, NEW role \in Roles, up,
           NEW p \in {NoPolicy, policy}, version > 0,
           InsertSession(StandardSession(role, p, version)), Finish(r),
           UNCHANGED <<up, policy, version, codes, work, now>>
    PROVE  Evidence'
<1> USE DEF work
<1> DEFINE row == StandardSession(role, p, version)
<1>1. version \in Versions /\ p \in Policies \union {NoPolicy}
  BY DEF Evidence, Types
<1>2. /\ row \in SessionRows
      /\ row.kind = "standard"
      /\ row.policy = p
      /\ row.ver = version
  BY <1>1, StandardType DEF Evidence
<1>3. IsOidc(row) => row.policy = policy
  BY <1>2 DEF IsOidc
<1> HIDE DEF row
<1>4. /\ sessions' \in [Sessions -> SessionRows]
      /\ \A s \in Sessions : sessions'[s].status = "active" =>
            /\ version' > 0
            /\ sessions'[s].ver = version'
            /\ sessions'[s].kind = "fixed" /\ sessions'[s].role = "admin"
               => sessions'[s].proof = version'
      /\ PolicySessionsAreCurrent'
  <2>1. InsertSession(row)
    BY DEF row
  <2> QED
    BY <1>2, <1>3, <2>1, SessionStep
<1>5. Types' /\ Quiet' /\ HandlersSound'
  BY <1>4, FinishStep DEF Evidence, Types, Quiet
<1>6. RowsSound' /\ ResetIsTotal' /\ AdminDeviceHasPassword'
  BY <1>4 DEF Evidence, RowsSound, ResetIsTotal, AdminDeviceHasPassword
<1> QED
  BY <1>4, <1>5, <1>6 DEF Evidence

(* The end of a login and of an OIDC callback: the version read earlier is  *)
(* still the present one.                                                   *)
LEMMA LoginInsertStep ==
    ASSUME Evidence, NEW r \in Requests,
           LoginInsert(r) \/ \E role \in Roles : EstablishOidcSession(r, role)
    PROVE  Evidence'
<1>1. up /\ request[r].ver > 0 /\ request[r].ver = version
  BY DEF Evidence, HandlersSound, LoginInsert, EstablishOidcSession
<1>2. CASE LoginInsert(r)
  <2>1. "admin" \in Roles /\ NoPolicy \in {NoPolicy, policy}
    BY DEF Roles
  <2>2. InsertSession(StandardSession("admin", NoPolicy, version))
    BY <1>1, <1>2 DEF LoginInsert
  <2> QED
    BY <1>1, <1>2, <2>1, <2>2, EstablishStep DEF LoginInsert
<1>3. ASSUME NEW role \in Roles, EstablishOidcSession(r, role)
      PROVE  Evidence'
  <2>1. InsertSession(StandardSession(role, policy, version))
    BY <1>1, <1>3 DEF EstablishOidcSession
  <2> QED
    BY <1>1, <1>3, <2>1, EstablishStep DEF EstablishOidcSession
<1> QED
  BY <1>2, <1>3

(* A code is stored with the evidence of the session that asks for it and   *)
(* with the version its password was checked against.                       *)
LEMMA GrantInsertStep ==
    ASSUME Evidence, NEW r \in Requests, GrantInsert(r)
    PROVE  Evidence'
<1> USE DEF work
<1>0. PICK t \in request[r].at .. now :
          \/ UNCHANGED codes
          \/ /\ Active(sessions[request[r].session], t)
             /\ request[r].ver \in {0, version}
             /\ InsertCode(CodeRow(r, t))
  BY DEF GrantInsert
<1> DEFINE s == request[r].session
           row == CodeRow(r, t)
<1>1. s \in Sessions /\ request[r] \in RequestStates /\ up /\ t \in 0 .. MaxTime
  BY Bounds DEF Evidence, Types, HandlersSound, GrantInsert, RequestStates
<1>2. CASE UNCHANGED codes
  BY <1>1, <1>2, FinishOnly DEF GrantInsert, db, Evidence, Types
<1>3. CASE Active(sessions[s], t) /\ request[r].ver \in {0, version} /\ InsertCode(row)
  <2>1. row \in CodeRows
    <3>1. Expiry(t, PairingSecs) \in Times
      BY <1>1, ExpiryType, AuthConstants DEF AuthConstants
    <3> QED
      BY <1>1, <3>1 DEF Evidence, Types, CodeRow, CodeRows, SessionRows, RequestStates, Roles
  <2>2. /\ row.ver = version
        /\ row.creator \in Sessions
        /\ row.role = "admin" => row.proof = version
        /\ version > 0
    BY <1>1, <1>3 DEF Evidence, ResetIsTotal, RowsSound, HandlersSound, Active, CodeRow,
                      GrantInsert
  <2> HIDE DEF row, s
  <2>3. /\ codes' \in [Codes -> CodeRows]
        /\ \A c \in Codes : codes'[c] = codes[c] \/ codes'[c] = row
    BY <1>3, <2>1 DEF Evidence, Types, InsertCode
  <2>4. Types' /\ Quiet' /\ HandlersSound'
    BY <2>3, FinishStep DEF Evidence, Types, Quiet, GrantInsert
  <2>5. RowsSound' /\ ResetIsTotal' /\ AdminDeviceHasPassword'
    BY <2>2, <2>3 DEF Evidence, RowsSound, ResetIsTotal, AdminDeviceHasPassword, GrantInsert
  <2>6. PolicySessionsAreCurrent'
    BY DEF Evidence, PolicySessionsAreCurrent, IsOidc, GrantInsert
  <2> QED
    BY <2>4, <2>5, <2>6 DEF Evidence
<1> QED
  BY <1>0, <1>2, <1>3

(* A device inherits the evidence of its code. *)
LEMMA PairConsumeStep ==
    ASSUME Evidence, NEW r \in Requests, PairConsume(r)
    PROVE  Evidence'
<1> DEFINE c == request[r].code
<1>0. PICK t \in request[r].at .. now :
          \/ UNCHANGED <<sessions, codes>>
          \/ /\ Eligible(c, t)
             /\ InsertSession(FixedSession(c, t))
             /\ codes' = [codes EXCEPT ![c] = UsedCode]
  BY DEF PairConsume
<1> DEFINE row == FixedSession(c, t)
<1>1. c \in Codes /\ up /\ t \in 0 .. MaxTime
  BY Bounds DEF Evidence, Types, HandlersSound, PairConsume, RequestStates
<1>2. CASE UNCHANGED <<sessions, codes>>
  BY <1>1, <1>2, FinishOnly DEF PairConsume, db
<1>3. CASE Eligible(c, t) /\ InsertSession(row)
           /\ codes' = [codes EXCEPT ![c] = UsedCode]
  <2>1. row \in SessionRows
    <3>1. Expiry(t, IF codes[c].role = "viewer" THEN ViewerSecs ELSE AdminSecs) \in Times
      BY <1>1, ExpiryType, AuthConstants DEF AuthConstants
    <3>2. codes[c].role \in Roles /\ codes[c].ver \in Versions /\ codes[c].proof \in Versions
      BY <1>1 DEF Evidence, Types, CodeRows
    <3> DEFINE end == Expiry(t, IF codes[c].role = "viewer" THEN ViewerSecs ELSE AdminSecs)
    <3>3. row = [AbsentSession EXCEPT !.status = "active", !.role = codes[c].role,
                 !.kind = "fixed", !.abs = end, !.ver = codes[c].ver,
                 !.proof = codes[c].proof, !.code = c]
      BY DEF FixedSession
    <3> HIDE DEF end, c, row
    <3> QED
      BY <1>1, <3>1, <3>2, <3>3, RowTypes DEF SessionRows, end
  <2>2. /\ row.ver = version
        /\ version > 0
        /\ row.role = "admin" => row.proof = version
        /\ ~IsOidc(row)
    BY <1>1, <1>3 DEF Evidence, ResetIsTotal, RowsSound, AdminDeviceHasPassword, Eligible,
                      FixedSession, AbsentSession, IsOidc
  <2> HIDE DEF row
  <2>3. /\ sessions' \in [Sessions -> SessionRows]
        /\ \A q \in Sessions : sessions'[q].status = "active" =>
              /\ version' > 0
              /\ sessions'[q].ver = version'
              /\ sessions'[q].kind = "fixed" /\ sessions'[q].role = "admin"
                 => sessions'[q].proof = version'
        /\ PolicySessionsAreCurrent'
    BY <1>1, <1>3, <2>1, <2>2, SessionStep DEF PairConsume
  <2>4. /\ codes' \in [Codes -> CodeRows]
        /\ \A d \in Codes : codes'[d] = codes[d] \/ codes'[d].status # "unused"
    BY <1>1, <1>3, RowTypes DEF Evidence, Types, UsedCode, AbsentCode
  <2>5. Types' /\ Quiet' /\ HandlersSound'
    BY <2>3, <2>4, FinishStep DEF Evidence, Types, Quiet, PairConsume
  <2>6. RowsSound' /\ ResetIsTotal' /\ AdminDeviceHasPassword'
    BY <2>3, <2>4 DEF Evidence, RowsSound, ResetIsTotal, AdminDeviceHasPassword, PairConsume
  <2> QED
    BY <2>3, <2>5, <2>6 DEF Evidence
<1> QED
  BY <1>0, <1>2, <1>3

-----------------------------------------------------------------------------
(* The administrator and the life of the daemon.                            *)

(* Before setup there is neither a live session nor a code nor a handler    *)
(* with a version.                                                          *)
LEMMA SetupStep ==
    ASSUME Evidence, Setup
    PROVE  Evidence'
<1> USE DEF work
<1>1. /\ 1 \in Versions
      /\ "admin" \in Roles
      /\ NoPolicy \in Policies \union {NoPolicy}
  BY Bounds DEF Versions, Roles
<1> DEFINE row == StandardSession("admin", NoPolicy, 1)
<1>2. row \in SessionRows /\ row.kind = "standard" /\ row.policy = NoPolicy /\ row.ver = 1
  BY <1>1, StandardType DEF Evidence
<1>3. InsertSession(row)
  BY DEF Setup
<1> HIDE DEF row
<1>4. /\ sessions' \in [Sessions -> SessionRows]
      /\ \A q \in Sessions : sessions'[q] = sessions[q] \/ sessions'[q] = row
  BY <1>2, <1>3, InsertStep DEF Evidence
<1>5. \A q \in Sessions : sessions[q].status # "active"
  BY DEF Evidence, RowsSound, Setup
<1>6. Types' /\ Quiet'
  BY <1>1, <1>4 DEF Evidence, Types, Quiet, Setup
<1>7. HandlersSound'
  BY DEF Evidence, HandlersSound, Setup
<1>8. RowsSound' /\ ResetIsTotal' /\ AdminDeviceHasPassword'
  BY <1>2, <1>4, <1>5 DEF Evidence, RowsSound, ResetIsTotal, AdminDeviceHasPassword, Setup
<1>9. PolicySessionsAreCurrent'
  BY <1>2, <1>4, <1>5 DEF PolicySessionsAreCurrent, IsOidc
<1> QED
  BY <1>6, <1>7, <1>8, <1>9 DEF Evidence

(* The command line works while no handler holds a version. *)
LEMMA CliStep ==
    ASSUME Evidence, CliSetup \/ CliReset
    PROVE  Evidence'
<1> USE DEF work, LockIsFree
<1>1. ~up /\ UNCHANGED <<up, request, slot, now, policy>>
  BY DEF CliSetup, CliReset
<1>2. \A r \in Requests : request[r] = IdleRequest
  BY <1>1 DEF Evidence, Quiet
<1>3. version' \in Versions /\ version' > 0
  <2>1. CASE CliSetup
    BY <2>1, Bounds DEF Versions, CliSetup
  <2>2. CASE CliReset
    <3>1. version \in 1 .. MaxVersion - 1 /\ version' = version + 1
      BY <2>2 DEF CliReset, ReplaceAdmin
    <3> QED
      BY <3>1, Bounds DEF Versions
  <2> QED
    BY <2>1, <2>2
<1>4. /\ sessions' \in [Sessions -> SessionRows]
      /\ \A s \in Sessions : sessions'[s].status # "active"
  <2>1. CASE CliSetup
    BY <2>1 DEF Evidence, Types, RowsSound, CliSetup
  <2>2. CASE CliReset
    BY <2>2, RowTypes DEF Evidence, Types, CliReset, ReplaceAdmin, RevokeIf, Revoked,
                          AbsentSession
  <2> QED
    BY <2>1, <2>2
<1>5. /\ codes' \in [Codes -> CodeRows]
      /\ \A c \in Codes : codes'[c].status # "unused"
  <2>1. CASE CliSetup
    BY <2>1 DEF Evidence, Types, RowsSound, CliSetup
  <2>2. CASE CliReset
    BY <2>2, RowTypes DEF Evidence, Types, CliReset, ReplaceAdmin, UsedCode, AbsentCode
  <2> QED
    BY <2>1, <2>2
<1>6. Types' /\ Quiet'
  BY <1>1, <1>2, <1>3, <1>4, <1>5 DEF Evidence, Types, Quiet
<1>7. HandlersSound'
  BY <1>1, <1>2 DEF HandlersSound, IdleRequest
<1>8. RowsSound' /\ ResetIsTotal' /\ AdminDeviceHasPassword' /\ PolicySessionsAreCurrent'
  BY <1>1, <1>4, <1>5 DEF RowsSound, ResetIsTotal, AdminDeviceHasPassword,
                          PolicySessionsAreCurrent
<1> QED
  BY <1>6, <1>7, <1>8 DEF Evidence

(* Start-up leaves no live session of another policy. *)
LEMMA BootStep ==
    ASSUME Evidence, NEW p \in Policies \union {NoPolicy}, Boot(p)
    PROVE  Evidence'
<1> USE DEF work
<1>1. /\ sessions' \in [Sessions -> SessionRows]
      /\ \A s \in Sessions :
            \/ sessions'[s].status # "active"
            \/ sessions'[s] = sessions[s] /\ ~Outdated(sessions[s], p)
  BY RowTypes DEF Evidence, Types, Boot, RevokeIf, Revoked, AbsentSession
<1>2. Types' /\ Quiet'
  BY <1>1 DEF Evidence, Types, Quiet, Boot
<1>3. HandlersSound'
  BY DEF Evidence, HandlersSound, Boot
<1>4. RowsSound' /\ ResetIsTotal' /\ AdminDeviceHasPassword'
  BY <1>1 DEF Evidence, RowsSound, ResetIsTotal, AdminDeviceHasPassword, Boot
<1>5. PolicySessionsAreCurrent'
  BY <1>1 DEF PolicySessionsAreCurrent, IsOidc, Outdated, Boot
<1> QED
  BY <1>2, <1>3, <1>4, <1>5 DEF Evidence

(* The end of the daemon, time, and steps of something else. *)
LEMMA PassiveStep ==
    ASSUME Evidence, Halt \/ Tick \/ UNCHANGED vars
    PROVE  Evidence'
<1> USE DEF work, db, vars
<1>1. CASE Halt
  <2>1. Quiet' /\ HandlersSound' /\ PolicySessionsAreCurrent'
    BY <1>1, RowTypes DEF Halt, Quiet, HandlersSound, IdleRequest, PolicySessionsAreCurrent
  <2>2. up' \in BOOLEAN /\ slot' \in BOOLEAN
    BY <1>1 DEF Halt
  <2>3. Types'
    BY <1>1, <2>2, RowTypes DEF Halt, Evidence, Types
  <2>4. RowsSound' /\ ResetIsTotal' /\ AdminDeviceHasPassword'
    BY <1>1 DEF Halt, Evidence, RowsSound, ResetIsTotal, AdminDeviceHasPassword
  <2> QED
    BY <2>1, <2>3, <2>4 DEF Evidence
<1>2. CASE Tick \/ UNCHANGED vars
  <2>1. Types'
    BY <1>2, Bounds DEF Tick, Evidence, Types
  <2>2. Quiet' /\ HandlersSound' /\ RowsSound' /\ ResetIsTotal' /\ AdminDeviceHasPassword'
    BY <1>2 DEF Tick, Evidence, Quiet, HandlersSound, RowsSound, ResetIsTotal,
                AdminDeviceHasPassword
  <2>3. PolicySessionsAreCurrent'
    BY <1>2 DEF Tick, Evidence, PolicySessionsAreCurrent, IsOidc
  <2> QED
    BY <2>1, <2>2, <2>3 DEF Evidence
<1> QED
  BY <1>1, <1>2

-----------------------------------------------------------------------------
(* The theorems on evidence.                                                *)

(* An empty database and no daemon. *)
LEMMA EvidenceInit == Init => Evidence
<1> SUFFICES ASSUME Init PROVE Evidence
  OBVIOUS
<1>1. Types
  <2>1. up \in BOOLEAN /\ slot \in BOOLEAN
    BY DEF Init
  <2> QED
    BY <2>1, RowTypes, Bounds DEF Init, Types, Versions
<1>2. Quiet /\ HandlersSound
  BY DEF Init, Quiet, HandlersSound, IdleRequest
<1>3. RowsSound /\ ResetIsTotal /\ AdminDeviceHasPassword /\ PolicySessionsAreCurrent
  BY DEF Init, RowsSound, ResetIsTotal, AdminDeviceHasPassword, PolicySessionsAreCurrent,
         AbsentSession, AbsentCode
<1> QED
  BY <1>1, <1>2, <1>3 DEF Evidence

(* Every step keeps the inductive invariant. *)
LEMMA EvidenceStep == Evidence /\ [Next]_vars => Evidence'
<1> SUFFICES ASSUME Evidence, [Next]_vars PROVE Evidence'
  OBVIOUS
<1>1. ASSUME NEW r \in Requests, Guard(r) PROVE Evidence'
  <2>1. CASE Refuse(r)
    <3>1. request[r].session \in Sessions
      BY <2>1 DEF Refuse, Evidence, HandlersSound
    <3> QED
      BY <2>1, <3>1, RevokeAndFinish DEF Refuse
  <2> QED
    BY <1>1, <2>1, ReadUnacceptableStep, AdmitStep, TouchStep DEF Guard
<1>2. ASSUME NEW r \in Requests, Handler(r) PROVE Evidence'
  <2>1. CASE Logout(r)
    <3>1. request[r].session \in Sessions
      BY <2>1 DEF Logout, Evidence, HandlersSound
    <3> QED
      BY <2>1, <3>1, RevokeAndFinish DEF Logout
  <2>2. CASE \E s \in Sessions : RevokeOther(r, s)
    BY <2>2, RevokeAndFinish DEF RevokeOther
  <2>3. CASE StartVerifying(r, "login", "login_verify")
             \/ EndVerifying(r, "login_verify", "login_insert")
    BY <2>3, VerifyStep DEF Verification
  <2>4. CASE StartVerifying(r, "grant", "grant_verify")
             \/ EndVerifying(r, "grant_verify", "grant_insert")
    BY <2>4, VerifyStep DEF Verification
  <2>5. CASE \/ Login(r) \/ BeginAdminPairing(r) \/ Callback(r) \/ DropHandler(r)
             \/ \E c \in Codes : PairCheck(r, c)
    BY <2>5, ReadVersionStep, DropStep, PairCheckStep
  <2>6. CASE \/ LoginInsert(r) \/ GrantInsert(r) \/ PairConsume(r)
             \/ \E role \in Roles : EstablishOidcSession(r, role)
    BY <2>6, LoginInsertStep, GrantInsertStep, PairConsumeStep
  <2> QED
    BY <1>2, <2>1, <2>2, <2>3, <2>4, <2>5, <2>6 DEF Handler
<1>3. CASE EndOrphan \/ Setup \/ CliSetup \/ CliReset \/ Halt \/ Tick \/ UNCHANGED vars
  BY <1>3, DropStep, SetupStep, CliStep, PassiveStep
<1>4. CASE \E p \in Policies \union {NoPolicy} : Boot(p)
  BY <1>4, BootStep
<1> QED
  BY <1>1, <1>2, <1>3, <1>4 DEF Next

(* The invariant holds throughout. *)
LEMMA EvidenceAlways == Spec => []Evidence
BY EvidenceInit, EvidenceStep, PTL DEF Spec

(* Resetting the administrator password leaves no live session and no       *)
(* unused pairing code that rests on the old one, however logins, pairings, *)
(* callbacks, restarts and resets interleave.                               *)
THEOREM ResetRevokesEverything == Spec => []ResetIsTotal
<1>1. Evidence => ResetIsTotal
  BY DEF Evidence
<1> QED
  BY <1>1, EvidenceAlways, PTL

(* No administrator device comes to life without the present password.      *)
THEOREM AdminDevicesArePaidFor == Spec => []AdminDeviceHasPassword
<1>1. Evidence => AdminDeviceHasPassword
  BY DEF Evidence
<1> QED
  BY <1>1, EvidenceAlways, PTL

(* A serving daemon keeps no session of another OIDC policy alive.          *)
THEOREM PoliciesAreCurrent == Spec => []PolicySessionsAreCurrent
<1>1. Evidence => PolicySessionsAreCurrent
  BY DEF Evidence
<1> QED
  BY <1>1, EvidenceAlways, PTL

-----------------------------------------------------------------------------
(* The Argon2 gate.                                                         *)

(* Handlers waiting for their hashing task. *)
Hashing == {"login_verify", "grant_verify"}
Verifying == {r \in Requests : request[r].pc \in Hashing}

(* Every permit belongs to a handler that waits or to a dropped one's task. *)
PermitsAccounted ==
    /\ permits \in Nat
    /\ orphans \in Nat
    /\ permits = Cardinality(Verifying) + orphans
    /\ permits <= Argon2Concurrency

(* The handlers that wait are finitely many. *)
LEMMA VerifyingFinite == IsFiniteSet(Verifying) /\ Cardinality(Verifying) \in Nat
<1>1. Verifying \subseteq Requests /\ IsFiniteSet(Requests)
  BY AuthConstants DEF Verifying, AuthConstants
<1> QED
  BY <1>1, FS_Subset, FS_CardinalityType

(* A handler that moves outside the verification leaves the set alone. *)
LEMMA OutsideStep ==
    ASSUME Types, NEW r \in Requests, NEW new, new.pc \notin Hashing,
           request[r].pc \notin Hashing, request' = [request EXCEPT ![r] = new]
    PROVE  Verifying' = Verifying
BY DEF Types, Verifying

(* Entering the verification adds the handler, leaving it removes it. *)
LEMMA EnterStep ==
    ASSUME Types, NEW r \in Requests, NEW to \in Hashing, request[r].pc \notin Hashing,
           Enter(r, to)
    PROVE  Cardinality(Verifying') = Cardinality(Verifying) + 1
<1>1. request[r] \in RequestStates
  BY DEF Types
<1>2. request'[r].pc = to /\ \A q \in Requests \ {r} : request'[q] = request[q]
  BY <1>1 DEF Types, Enter, RequestStates
<1>3. Verifying' = Verifying \union {r} /\ r \notin Verifying
  BY <1>2 DEF Verifying
<1> QED
  BY <1>3, VerifyingFinite, FS_AddElement

(* The other half. *)
LEMMA LeaveStep ==
    ASSUME Types, NEW r \in Requests, NEW new, new.pc \notin Hashing,
           request[r].pc \in Hashing, request' = [request EXCEPT ![r] = new]
    PROVE  /\ Cardinality(Verifying') = Cardinality(Verifying) - 1
           /\ Cardinality(Verifying') \in Nat
<1>1. request'[r] = new /\ \A q \in Requests \ {r} : request'[q] = request[q]
  BY DEF Types
<1>2. Verifying' = Verifying \ {r} /\ r \in Verifying
  BY <1>1 DEF Verifying
<1> QED
  BY <1>2, VerifyingFinite, FS_RemoveElement, FS_CardinalityType

(* Only four places touch the permits. *)
LEMMA PermitsStep == Evidence /\ PermitsAccounted /\ [Next]_vars => PermitsAccounted'
<1> SUFFICES ASSUME Evidence, PermitsAccounted, [Next]_vars PROVE PermitsAccounted'
  OBVIOUS
<1> USE DEF work
<1>0. Types /\ IdleRequest.pc \notin Hashing
  BY DEF Evidence, IdleRequest, Hashing
<1>1. ASSUME UNCHANGED <<permits, orphans>>, Verifying' = Verifying
      PROVE  PermitsAccounted'
  BY <1>1 DEF PermitsAccounted
<1>2. ASSUME NEW r \in Requests, request[r].pc \notin Hashing, Finish(r),
             UNCHANGED <<permits, orphans>>
      PROVE  PermitsAccounted'
  BY <1>0, <1>1, <1>2, OutsideStep DEF Finish
<1>3. ASSUME NEW r \in Requests, Guard(r) PROVE PermitsAccounted'
  <2>1. CASE \E s \in Sessions : ReadUnacceptable(r, s)
    <3>1. PICK s \in Sessions : ReadUnacceptable(r, s)
      BY <2>1
    <3> DEFINE new == [IdleRequest EXCEPT !.pc = "refuse", !.session = s]
    <3>2. new.pc \notin Hashing /\ request[r].pc \notin Hashing
      BY <3>1 DEF ReadUnacceptable, Hashing, IdleRequest
    <3> QED
      BY <1>0, <1>1, <3>1, <3>2, OutsideStep DEF ReadUnacceptable
  <2>2. CASE Refuse(r)
    BY <1>2, <2>2 DEF Refuse, Hashing
  <2>3. CASE \E s \in Sessions, op \in Operations : Admit(r, s, op)
    <3>1. PICK s \in Sessions, op \in Operations : Admit(r, s, op)
      BY <2>3
    <3> DEFINE new == [IdleRequest EXCEPT !.pc = "touch", !.op = op, !.session = s, !.at = now]
    <3>2. new.pc \notin Hashing /\ request[r].pc \notin Hashing
      BY <3>1 DEF Admit, Hashing, IdleRequest
    <3> QED
      BY <1>0, <1>1, <3>1, <3>2, OutsideStep DEF Admit
  <2>4. CASE Touch(r)
    <3>1. CASE Finish(r)
      BY <1>2, <2>4, <3>1 DEF Touch, Hashing
    <3>2. CASE Enter(r, AfterGuard(request[r].op))
      <4> DEFINE new == [request[r] EXCEPT !.pc = AfterGuard(request[r].op), !.at =
                             IF AfterGuard(request[r].op) = "grant_insert" THEN now ELSE 0]
      <4>1. request[r] \in RequestStates
        BY <1>0 DEF Types
      <4>2. new.pc \notin Hashing /\ request[r].pc \notin Hashing
        BY <2>4, <4>1 DEF Touch, Hashing, AfterGuard, RequestStates
      <4>3. request' = [request EXCEPT ![r] = new]
        BY <1>0, <3>2 DEF Types, Enter
      <4> HIDE DEF new
      <4> QED
        BY <1>0, <1>1, <2>4, <4>2, <4>3, OutsideStep DEF Touch
    <3> QED
      BY <2>4, <3>1, <3>2 DEF Touch
  <2> QED
    BY <1>3, <2>1, <2>2, <2>3, <2>4 DEF Guard
<1>4. ASSUME NEW r \in Requests, Handler(r) PROVE PermitsAccounted'
  <2>0. request[r] \in RequestStates
    BY <1>0 DEF Types
  <2>1. CASE \/ Logout(r) \/ LoginInsert(r) \/ GrantInsert(r) \/ PairConsume(r)
             \/ \E s \in Sessions : RevokeOther(r, s)
             \/ \E role \in Roles : EstablishOidcSession(r, role)
    BY <1>2, <2>1 DEF Logout, LoginInsert, GrantInsert, PairConsume, RevokeOther,
                      EstablishOidcSession, Hashing
  <2>2. CASE Login(r) \/ BeginAdminPairing(r) \/ Callback(r) \/ \E c \in Codes : PairCheck(r, c)
    <3>1. /\ request[r].pc \notin Hashing
          /\ UNCHANGED <<permits, orphans>>
          /\ \E new : new.pc \notin Hashing /\ request' = [request EXCEPT ![r] = new]
      <4>1. CASE Login(r)
        <5> DEFINE new == [IdleRequest EXCEPT !.pc = "login", !.ver = version]
        <5>1. new.pc \notin Hashing /\ request[r].pc \notin Hashing
          BY <4>1 DEF Login, Hashing, IdleRequest
        <5> QED
          BY <4>1, <5>1 DEF Login
      <4>2. CASE BeginAdminPairing(r)
        <5> DEFINE new == [request[r] EXCEPT !.pc = "grant", !.ver = version]
        <5>1. new.pc \notin Hashing /\ request[r].pc \notin Hashing
          BY <2>0, <4>2 DEF BeginAdminPairing, Hashing, RequestStates
        <5>2. request' = [request EXCEPT ![r] = new]
          BY <4>2 DEF BeginAdminPairing
        <5> HIDE DEF new
        <5> QED
          BY <4>2, <5>1, <5>2 DEF BeginAdminPairing
      <4>3. CASE Callback(r)
        <5> DEFINE new == [IdleRequest EXCEPT !.pc = "callback", !.ver = version]
        <5>1. new.pc \notin Hashing /\ request[r].pc \notin Hashing
          BY <4>3 DEF Callback, Hashing, IdleRequest
        <5> QED
          BY <4>3, <5>1 DEF Callback
      <4>4. ASSUME NEW c \in Codes, PairCheck(r, c)
            PROVE  /\ request[r].pc \notin Hashing
                   /\ UNCHANGED <<permits, orphans>>
                   /\ \E new : new.pc \notin Hashing /\ request' = [request EXCEPT ![r] = new]
        <5> DEFINE new == [IdleRequest EXCEPT !.pc = "consume", !.code = c, !.at = now]
        <5>1. new.pc \notin Hashing /\ request[r].pc \notin Hashing
          BY <4>4 DEF PairCheck, Hashing, IdleRequest
        <5> QED
          BY <4>4, <5>1 DEF PairCheck
      <4> QED
        BY <2>2, <4>1, <4>2, <4>3, <4>4
    <3>2. PICK new : new.pc \notin Hashing /\ request' = [request EXCEPT ![r] = new]
      BY <3>1
    <3> QED
      BY <1>0, <1>1, <3>1, <3>2, OutsideStep
  <2>3. CASE \/ StartVerifying(r, "login", "login_verify")
             \/ StartVerifying(r, "grant", "grant_verify")
    <3>1. /\ permits' = permits + 1
          /\ permits < Argon2Concurrency
          /\ orphans' = orphans
      BY <2>3 DEF StartVerifying, TakePermit
    <3>2. Cardinality(Verifying') = Cardinality(Verifying) + 1
      BY <1>0, <2>3, EnterStep DEF StartVerifying, Hashing
    <3> QED
      BY <3>1, <3>2, VerifyingFinite, Bounds DEF PermitsAccounted
  <2>4. CASE \/ EndVerifying(r, "login_verify", "login_insert")
             \/ EndVerifying(r, "grant_verify", "grant_insert")
    <3>1. /\ permits' = permits - 1
          /\ orphans' = orphans
          /\ request[r].pc \in Hashing
      BY <2>4 DEF EndVerifying, Hashing
    <3>2. \E new : new.pc \notin Hashing /\ request' = [request EXCEPT ![r] = new]
      <4>1. CASE Finish(r)
        BY <1>0, <4>1 DEF Finish
      <4>2. ASSUME NEW to \in {"login_insert", "grant_insert"}, Enter(r, to)
            PROVE  \E new : new.pc \notin Hashing /\ request' = [request EXCEPT ![r] = new]
        <5> DEFINE new == [request[r] EXCEPT !.pc = to, !.at =
                               IF to = "grant_insert" THEN now ELSE 0]
        <5>1. new.pc \notin Hashing
          BY <2>0 DEF Hashing, RequestStates
        <5>2. request' = [request EXCEPT ![r] = new]
          BY <4>2 DEF Enter
        <5> HIDE DEF new
        <5> QED
          BY <5>1, <5>2
      <4> QED
        BY <2>4, <4>1, <4>2 DEF EndVerifying
    <3>3. Cardinality(Verifying') = Cardinality(Verifying) - 1
          /\ Cardinality(Verifying') \in Nat
      BY <1>0, <3>1, <3>2, LeaveStep
    <3> QED
      BY <3>1, <3>3, VerifyingFinite, Bounds DEF PermitsAccounted
  <2>5. CASE DropHandler(r)
    <3>1. CASE request[r].pc \in Hashing
      <4>1. permits' = permits /\ orphans' = orphans + 1 /\ Finish(r)
        BY <2>5, <3>1 DEF DropHandler, Hashing
      <4>2. Cardinality(Verifying') = Cardinality(Verifying) - 1
        BY <1>0, <3>1, <4>1, LeaveStep DEF Finish
      <4> QED
        BY <4>1, <4>2, VerifyingFinite, Bounds DEF PermitsAccounted
    <3>2. CASE request[r].pc \notin Hashing
      BY <1>2, <2>5, <3>2 DEF DropHandler, Hashing
    <3> QED
      BY <3>1, <3>2
  <2> QED
    BY <1>4, <2>1, <2>2, <2>3, <2>4, <2>5 DEF Handler
<1>5. CASE EndOrphan
  <2>1. Verifying' = Verifying
    BY <1>5 DEF EndOrphan, Verifying
  <2> QED
    BY <1>5, <2>1, VerifyingFinite, Bounds DEF EndOrphan, PermitsAccounted
<1>6. CASE Halt
  <2>1. Verifying' = {}
    BY <1>0, <1>6 DEF Halt, Verifying
  <2> QED
    BY <1>6, <2>1, FS_EmptySet, Bounds DEF Halt, PermitsAccounted
<1>7. CASE \/ Setup \/ CliSetup \/ CliReset \/ Tick \/ UNCHANGED vars
           \/ \E p \in Policies \union {NoPolicy} : Boot(p)
  <2>1. UNCHANGED <<permits, orphans, request>>
    BY <1>7 DEF Setup, CliSetup, CliReset, Tick, vars, Boot
  <2> QED
    BY <1>1, <2>1 DEF Verifying
<1> QED
  BY <1>3, <1>4, <1>5, <1>6, <1>7 DEF Next

(* The gate holds at the start. *)
LEMMA PermitsInit == Init => PermitsAccounted
<1> SUFFICES ASSUME Init PROVE PermitsAccounted
  OBVIOUS
<1>1. Verifying = {}
  BY DEF Init, Verifying, IdleRequest, Hashing
<1> QED
  BY <1>1, FS_EmptySet, Bounds DEF Init, PermitsAccounted

(* Every value keeps its type. *)
THEOREM TypeCorrect == Spec => []TypeOK
<1>1. Evidence /\ PermitsAccounted => TypeOK
  BY DEF Evidence, Types, PermitsAccounted, TypeOK
<1> QED
  BY <1>1, EvidenceAlways, PermitsInit, PermitsStep, PTL DEF Spec

(* Handlers dropped by their clients never let more hashing tasks run than  *)
(* ARGON2_CONCURRENCY.                                                      *)
THEOREM HashingIsBounded == Spec => []Argon2IsBounded
<1>1. TypeOK /\ PermitsAccounted => Argon2IsBounded
  BY DEF PermitsAccounted, Argon2IsBounded, Verifying, Hashing
<1> QED
  BY <1>1, TypeCorrect, EvidenceAlways, PermitsInit, PermitsStep, PTL DEF Spec

-----------------------------------------------------------------------------
(* What one step may do to the rows.  Every step is of one of four kinds,   *)
(* and the properties of delegation and of idle times need no more.         *)

(* Rows are revoked or renewed and codes are used up; none is new. *)
RowsAge ==
    /\ \A s \in Sessions :
        /\ sessions'[s].code = sessions[s].code
        /\ sessions'[s].kind \in {sessions[s].kind, "standard"}
        /\ sessions'[s].status = "absent" => sessions[s].status = "absent"
        /\ sessions[s].status = "active" /\ sessions'[s].status = "active"
           => sessions'[s].idle >= sessions[s].idle
    /\ \A c \in Codes :
        \/ codes'[c] = codes[c]
        \/ codes[c].status = "unused" /\ codes'[c].status = "used"

(* The row s is filled; the others stay. *)
Fills(s) ==
    /\ sessions[s].status = "absent" /\ sessions'[s].status = "active"
    /\ \A q \in Sessions \ {s} : sessions'[q] = sessions[q]

(* A login, a setup or a callback makes a session. *)
NewSession ==
    /\ codes' = codes
    /\ \E s \in Sessions :
        /\ Fills(s)
        /\ sessions'[s].kind = "standard" /\ sessions'[s].code = NoCode

(* A live administrator session makes a code. *)
NewCode ==
    /\ sessions' = sessions
    /\ \E c \in Codes, r \in Requests :
        /\ codes[c].status = "absent" /\ codes'[c].status = "unused"
        /\ request[r].pc = "grant_insert" /\ ActsFor(r, codes'[c].creator)
        /\ \A d \in Codes \ {c} : codes'[d] = codes[d]

(* An unused code whose creator is alive makes a device. *)
NewDevice ==
    \E c \in Codes, s \in Sessions, r \in Requests :
        /\ codes[c].status = "unused" /\ codes'[c].status = "used"
        /\ request[r].pc = "consume" /\ request[r].code = c
        /\ ActsFor(r, codes[c].creator)
        /\ \A d \in Codes \ {c} : codes'[d] = codes[d]
        /\ Fills(s)
        /\ sessions'[s].code = c

RowsMove == RowsAge \/ NewSession \/ NewCode \/ NewDevice

(* Steps that leave the tables alone. *)
LEMMA RowsKept ==
    ASSUME Types, UNCHANGED <<sessions, codes>>
    PROVE  RowsAge
BY Bounds DEF Types, RowsAge, SessionRows, Times

(* Revoking some of the live rows makes none new. *)
LEMMA RowsRevoked ==
    ASSUME Types,
           \A s \in Sessions : sessions'[s] = sessions[s]
                               \/ (sessions[s].status = "active" /\ sessions'[s] = Revoked(sessions[s])),
           \A c \in Codes : \/ codes'[c] = codes[c]
                            \/ codes[c].status = "unused" /\ codes'[c] = UsedCode
    PROVE  RowsAge
<1>1. ASSUME NEW s \in Sessions
      PROVE  /\ sessions'[s].code = sessions[s].code
             /\ sessions'[s].kind \in {sessions[s].kind, "standard"}
             /\ sessions'[s].status = "absent" => sessions[s].status = "absent"
             /\ sessions[s].status = "active" /\ sessions'[s].status = "active"
                => sessions'[s].idle >= sessions[s].idle
  <2>1. CASE sessions'[s] = sessions[s]
    <3>1. sessions[s].idle \in Int
      BY Bounds DEF Types, SessionRows, Times
    <3> QED
      BY <2>1, <3>1
  <2>2. CASE sessions'[s] = Revoked(sessions[s])
    BY <2>2 DEF Revoked, AbsentSession
  <2> QED
    BY <2>1, <2>2
<1>2. UsedCode.status = "used"
  BY DEF UsedCode, AbsentCode
<1> QED
  BY <1>1, <1>2 DEF RowsAge

(* One row is revoked. *)
LEMMA RowRevoked ==
    ASSUME Types, NEW s \in Sessions, RevokeRow(s), codes' = codes
    PROVE  RowsAge
<1>1. \A q \in Sessions :
          \/ sessions'[q] = sessions[q]
          \/ sessions[q].status = "active" /\ sessions'[q] = Revoked(sessions[q])
  BY DEF Types, RevokeRow, RevokeIf
<1> QED
  BY <1>1, RowsRevoked

(* A late touch never shortens: it renews only when the time it read is     *)
(* TouchSecs after the latest renewal it finds.                             *)
LEMMA RowTouched ==
    ASSUME Evidence, NEW r \in Requests, Touch(r)
    PROVE  RowsAge
<1> DEFINE s == request[r].session
           t == request[r].at
<1>1. s \in Sessions /\ t \in Nat
  BY Bounds DEF Evidence, Types, HandlersSound, Touch, RequestStates
<1>2. \A q \in Sessions : sessions'[q] = IF q = s THEN Touched(sessions[s], t) ELSE sessions[q]
  BY <1>1 DEF Evidence, Types, Touch
<1>3. \A q \in Sessions : sessions[q] \in SessionRows /\ sessions[q].idle \in Int
  BY Bounds DEF Evidence, Types, SessionRows, Times
<1>4. codes' = codes
  BY DEF Touch
<1> HIDE DEF s, t
<1>5. /\ Touched(sessions[s], t).code = sessions[s].code
      /\ Touched(sessions[s], t).kind = sessions[s].kind
      /\ Touched(sessions[s], t).status = sessions[s].status
      /\ Touched(sessions[s], t).idle >= sessions[s].idle
  <2>1. CASE Touched(sessions[s], t) = sessions[s]
    BY <1>1, <1>3, <2>1
  <2>2. CASE /\ sessions[s].idle - IdleSecs + TouchSecs <= t
             /\ Touched(sessions[s], t) = [sessions[s] EXCEPT !.idle = t + IdleSecs]
    <3>1. t + IdleSecs >= sessions[s].idle
      BY <1>1, <1>3, <2>2, Bounds
    <3> QED
      BY <1>1, <1>3, <2>2, <3>1 DEF SessionRows
  <2> QED
    BY <2>1, <2>2 DEF Touched
<1>6. ASSUME NEW q \in Sessions
      PROVE  /\ sessions'[q].code = sessions[q].code
             /\ sessions'[q].kind = sessions[q].kind
             /\ sessions'[q].status = sessions[q].status
             /\ sessions'[q].idle >= sessions[q].idle
  <2>1. CASE q = s
    BY <1>2, <1>5, <2>1
  <2>2. CASE q # s
    BY <1>2, <1>3, <2>2
  <2> QED
    BY <2>1, <2>2
<1> QED
  BY <1>4, <1>6 DEF RowsAge

(* A standard session comes from no code. *)
LEMMA RowEstablished ==
    ASSUME Types, NEW role, NEW p, NEW ver, codes' = codes,
           InsertSession(StandardSession(role, p, ver))
    PROVE  NewSession
<1>1. /\ StandardSession(role, p, ver).status = "active"
      /\ StandardSession(role, p, ver).kind = "standard"
      /\ StandardSession(role, p, ver).code = NoCode
  BY DEF StandardSession, AbsentSession
<1>2. PICK s \in Sessions : /\ sessions[s].status = "absent"
                            /\ sessions' = [sessions EXCEPT ![s] = StandardSession(role, p, ver)]
  BY DEF InsertSession
<1>3. Fills(s) /\ sessions'[s].kind = "standard" /\ sessions'[s].code = NoCode
  BY <1>1, <1>2 DEF Types, Fills
<1> QED
  BY <1>3 DEF NewSession

(* What is alive was alive before. *)
LEMMA AliveEarlier ==
    ASSUME Evidence, NEW r \in Requests, NEW t \in request[r].at .. now, NEW s,
           s \in Sessions, Active(sessions[s], t)
    PROVE  ActsFor(r, s)
<1>1. /\ sessions[s].abs \in Int /\ sessions[s].idle \in Int
      /\ request[r].at \in Int /\ t \in Int /\ request[r].at <= t
  BY Bounds DEF Evidence, Types, SessionRows, RequestStates, Times
<1> QED BY <1>1 DEF ActsFor, Active

(* A code is granted while the session that asks for it is alive. *)
LEMMA CodeGranted ==
    ASSUME Evidence, NEW r \in Requests, GrantInsert(r)
    PROVE  RowsMove
<1>0. PICK t \in request[r].at .. now :
          \/ UNCHANGED codes
          \/ Active(sessions[request[r].session], t) /\ InsertCode(CodeRow(r, t))
  BY DEF GrantInsert
<1>1. CASE UNCHANGED codes
  BY <1>1, RowsKept DEF Evidence, GrantInsert, RowsMove
<1>2. CASE Active(sessions[request[r].session], t) /\ InsertCode(CodeRow(r, t))
  <2>1. CodeRow(r, t).status = "unused" /\ CodeRow(r, t).creator = request[r].session
    BY DEF CodeRow
  <2>2. PICK c \in Codes : /\ codes[c].status = "absent"
                           /\ codes' = [codes EXCEPT ![c] = CodeRow(r, t)]
    BY <1>2 DEF InsertCode
  <2>3. /\ codes'[c].status = "unused"
        /\ codes'[c].creator = request[r].session
        /\ \A d \in Codes \ {c} : codes'[d] = codes[d]
    BY <2>1, <2>2 DEF Evidence, Types
  <2>4. ActsFor(r, request[r].session)
    BY <1>2, AliveEarlier DEF Evidence, HandlersSound, GrantInsert
  <2>5. NewCode
    BY <2>2, <2>3, <2>4 DEF NewCode, GrantInsert
  <2> QED
    BY <2>5 DEF RowsMove
<1> QED
  BY <1>0, <1>1, <1>2

(* The consuming transaction looks at the code and its creator again. *)
LEMMA CodeConsumed ==
    ASSUME Evidence, NEW r \in Requests, PairConsume(r)
    PROVE  RowsMove
<1> DEFINE c == request[r].code
<1>0. PICK t \in request[r].at .. now :
          \/ UNCHANGED <<sessions, codes>>
          \/ /\ Eligible(c, t)
             /\ InsertSession(FixedSession(c, t))
             /\ codes' = [codes EXCEPT ![c] = UsedCode]
  BY DEF PairConsume
<1>1. c \in Codes
  BY DEF Evidence, HandlersSound, PairConsume
<1>2. CASE UNCHANGED <<sessions, codes>>
  BY <1>2, RowsKept DEF Evidence, RowsMove
<1>3. CASE /\ Eligible(c, t)
           /\ InsertSession(FixedSession(c, t))
           /\ codes' = [codes EXCEPT ![c] = UsedCode]
  <2>1. FixedSession(c, t).status = "active" /\ FixedSession(c, t).code = c
    BY DEF FixedSession, AbsentSession
  <2>2. PICK s \in Sessions : /\ sessions[s].status = "absent"
                              /\ sessions' = [sessions EXCEPT ![s] = FixedSession(c, t)]
    BY <1>3 DEF InsertSession
  <2>3. codes[c].status = "unused" /\ codes[c].creator \in Sessions
    BY <1>1, <1>3 DEF Eligible, Evidence, RowsSound
  <2>4. UsedCode.status = "used"
    BY DEF UsedCode, AbsentCode
  <2>5. codes'[c].status = "used" /\ \A d \in Codes \ {c} : codes'[d] = codes[d]
    BY <1>1, <1>3, <2>4 DEF Evidence, Types
  <2>6. ActsFor(r, codes[c].creator)
    BY <1>3, <2>3, AliveEarlier DEF Eligible
  <2>8. request[r].pc = "consume" /\ request[r].code = c
    BY DEF PairConsume
  <2> HIDE DEF c
  <2>7. Fills(s) /\ sessions'[s].code = c
    BY <2>1, <2>2 DEF Evidence, Types, Fills
  <2>9. NewDevice
    BY <1>1, <2>3, <2>5, <2>6, <2>7, <2>8 DEF NewDevice
  <2> QED
    BY <2>9 DEF RowsMove
<1> QED
  BY <1>0, <1>2, <1>3

(* The four kinds are all there is. *)
LEMMA EveryStepMoves == Evidence /\ [Next]_vars => RowsMove
<1> SUFFICES ASSUME Evidence, [Next]_vars PROVE RowsMove
  OBVIOUS
<1> USE DEF db
<1>0. Types
  BY DEF Evidence
<1>1. ASSUME UNCHANGED <<sessions, codes>> PROVE RowsMove
  BY <1>0, <1>1, RowsKept DEF RowsMove
<1>2. ASSUME NEW s \in Sessions, RevokeRow(s), codes' = codes PROVE RowsMove
  BY <1>0, <1>2, RowRevoked DEF RowsMove
<1>3. ASSUME NEW role, NEW p, NEW ver, codes' = codes,
             InsertSession(StandardSession(role, p, ver))
      PROVE  RowsMove
  BY <1>0, <1>3, RowEstablished DEF RowsMove
<1>4. ASSUME NEW r \in Requests, Guard(r) PROVE RowsMove
  <2>1. CASE Refuse(r)
    <3>1. request[r].session \in Sessions
      BY <2>1 DEF Refuse, Evidence, HandlersSound
    <3> QED
      BY <1>2, <2>1, <3>1 DEF Refuse
  <2>2. CASE Touch(r)
    BY <2>2, RowTouched DEF RowsMove
  <2>3. CASE \E s \in Sessions : ReadUnacceptable(r, s)
    BY <1>1, <2>3 DEF ReadUnacceptable
  <2>4. CASE \E s \in Sessions, op \in Operations : Admit(r, s, op)
    BY <1>1, <2>4 DEF Admit
  <2> QED
    BY <1>4, <2>1, <2>2, <2>3, <2>4 DEF Guard
<1>5. ASSUME NEW r \in Requests, Handler(r) PROVE RowsMove
  <2>1. CASE Logout(r)
    <3>1. request[r].session \in Sessions
      BY <2>1 DEF Logout, Evidence, HandlersSound
    <3> QED
      BY <1>2, <2>1, <3>1 DEF Logout
  <2>2. CASE \E s \in Sessions : RevokeOther(r, s)
    BY <1>2, <2>2 DEF RevokeOther
  <2>3. CASE LoginInsert(r)
    <3>1. CASE UNCHANGED sessions
      BY <1>1, <2>3, <3>1 DEF LoginInsert
    <3>2. CASE InsertSession(StandardSession("admin", NoPolicy, request[r].ver))
      BY <1>3, <2>3, <3>2 DEF LoginInsert
    <3> QED
      BY <2>3, <3>1, <3>2 DEF LoginInsert
  <2>4. ASSUME NEW role \in Roles, EstablishOidcSession(r, role) PROVE RowsMove
    <3>1. CASE UNCHANGED sessions
      BY <1>1, <2>4, <3>1 DEF EstablishOidcSession
    <3>2. CASE InsertSession(StandardSession(role, policy, request[r].ver))
      BY <1>3, <2>4, <3>2 DEF EstablishOidcSession
    <3> QED
      BY <2>4, <3>1, <3>2 DEF EstablishOidcSession
  <2>5. CASE GrantInsert(r) \/ PairConsume(r)
    BY <2>5, CodeGranted, CodeConsumed
  <2>6. CASE \/ Login(r) \/ BeginAdminPairing(r) \/ Callback(r) \/ DropHandler(r)
             \/ \E c \in Codes : PairCheck(r, c)
    BY <1>1, <2>6 DEF Login, BeginAdminPairing, Callback, DropHandler, PairCheck
  <2>7. CASE \/ StartVerifying(r, "login", "login_verify")
             \/ StartVerifying(r, "grant", "grant_verify")
             \/ EndVerifying(r, "login_verify", "login_insert")
             \/ EndVerifying(r, "grant_verify", "grant_insert")
    BY <1>1, <2>7 DEF StartVerifying, EndVerifying
  <2> QED
    BY <1>5, <2>1, <2>2, <2>3, <2>4, <2>5, <2>6, <2>7 DEF Handler
<1>6. CASE Setup
  BY <1>3, <1>6 DEF Setup
<1>7. CASE CliReset
  <2>1. \A s \in Sessions :
            \/ sessions'[s] = sessions[s]
            \/ sessions[s].status = "active" /\ sessions'[s] = Revoked(sessions[s])
    BY <1>7 DEF CliReset, ReplaceAdmin, RevokeIf
  <2>2. \A c \in Codes : \/ codes'[c] = codes[c]
                         \/ codes[c].status = "unused" /\ codes'[c] = UsedCode
    BY <1>7 DEF CliReset, ReplaceAdmin
  <2> QED
    BY <1>0, <2>1, <2>2, RowsRevoked DEF RowsMove
<1>8. ASSUME NEW p, Boot(p) PROVE RowsMove
  <2>1. \A s \in Sessions :
            \/ sessions'[s] = sessions[s]
            \/ sessions[s].status = "active" /\ sessions'[s] = Revoked(sessions[s])
    BY <1>8 DEF Boot, RevokeIf
  <2>2. codes' = codes
    BY <1>8 DEF Boot
  <2> QED
    BY <1>0, <2>1, <2>2, RowsRevoked DEF RowsMove
<1>9. CASE EndOrphan \/ CliSetup \/ Halt \/ Tick \/ UNCHANGED vars
  BY <1>1, <1>9 DEF EndOrphan, CliSetup, Halt, Tick, vars
<1> QED
  BY <1>4, <1>5, <1>6, <1>7, <1>8, <1>9 DEF Next

-----------------------------------------------------------------------------
(* Delegation.                                                              *)

(* A row that was never filled came from no code. *)
AbsentRows ==
    \A s \in Sessions : sessions[s].status = "absent" =>
        sessions[s].kind = "standard" /\ sessions[s].code = NoCode

Delegated == OneDevicePerCode /\ AbsentRows

(* A row that carries a code carries one of the table. *)
LEMMA CodesOfRows ==
    ASSUME Types, NEW s \in Sessions, sessions[s].code # NoCode
    PROVE  sessions[s].code \in Codes
BY DEF Types, SessionRows

(* Each kind of step keeps one device per code: the code that makes a       *)
(* device was unused, so no row carries it.                                 *)
LEMMA DelegatedStep ==
    ASSUME Types, Delegated, RowsMove
    PROVE  Delegated'
<1>1. CASE RowsAge
  <2>1. \A c \in Codes : codes[c].status = "used" => codes'[c].status = "used"
    BY <1>1 DEF RowsAge
  <2> QED
    BY <1>1, <2>1, CodesOfRows DEF RowsAge, Delegated, OneDevicePerCode, AbsentRows
<1>2. CASE NewSession
  BY <1>2 DEF NewSession, Fills, Delegated, OneDevicePerCode, AbsentRows
<1>3. CASE NewCode
  <2>1. \A c \in Codes : codes[c].status = "used" => codes'[c].status = "used"
    BY <1>3 DEF NewCode
  <2> QED
    BY <1>3, <2>1, CodesOfRows DEF NewCode, Delegated, OneDevicePerCode, AbsentRows
<1>4. CASE NewDevice
  <2>1. PICK c \in Codes, s \in Sessions :
            /\ codes[c].status = "unused" /\ codes'[c].status = "used"
            /\ \A d \in Codes \ {c} : codes'[d] = codes[d]
            /\ Fills(s)
            /\ sessions'[s].code = c
    BY <1>4 DEF NewDevice
  <2>2. \A q \in Sessions : sessions[q].code # c
    BY <2>1, AuthConstants DEF Delegated, OneDevicePerCode, AuthConstants
  <2>3. \A d \in Codes : codes[d].status = "used" => codes'[d].status = "used"
    BY <2>1
  <2>4. OneDevicePerCode'
    BY <2>1, <2>2, <2>3, CodesOfRows DEF Fills, Delegated, OneDevicePerCode
  <2>5. AbsentRows'
    BY <2>1 DEF Fills, Delegated, AbsentRows
  <2> QED
    BY <2>4, <2>5 DEF Delegated
<1> QED
  BY <1>1, <1>2, <1>3, <1>4 DEF RowsMove

(* Each kind of step delegates only from a live session. *)
LEMMA DelegatesAliveStep ==
    ASSUME Delegated, RowsMove
    PROVE  DelegatesAlive
<1>1. CASE RowsAge
  BY <1>1 DEF RowsAge, Delegated, AbsentRows, DelegatesAlive
<1>2. CASE NewSession
  BY <1>2 DEF NewSession, Fills, Delegated, AbsentRows, DelegatesAlive
<1>3. CASE NewCode
  BY <1>3 DEF NewCode, Delegated, AbsentRows, DelegatesAlive
<1>4. CASE NewDevice
  BY <1>4 DEF NewDevice, Fills, Delegated, AbsentRows, DelegatesAlive
<1> QED
  BY <1>1, <1>2, <1>3, <1>4 DEF RowsMove

(* A pairing code makes at most one device, however many requests present   *)
(* it at once, and only while the administrator session that created it is  *)
(* alive: revoking the session stops its codes and the pairings in flight.  *)
THEOREM PairingIsSound == Spec => DelegationIsSound
<1>1. Init => Delegated
  BY DEF Init, Delegated, OneDevicePerCode, AbsentRows, AbsentSession
<1>2. Evidence /\ Delegated /\ [Next]_vars => Delegated' /\ [DelegatesAlive]_vars
  BY EveryStepMoves, DelegatedStep, DelegatesAliveStep DEF Evidence
<1>3. Delegated => OneDevicePerCode
  BY DEF Delegated
<1> QED
  BY <1>1, <1>2, <1>3, EvidenceAlways, PTL DEF Spec, DelegationIsSound

(* A request that read the clock early and stores late never takes back     *)
(* idle time that a faster request of the same session gained.              *)
THEOREM IdleTimeIsKept == Spec => IdleNeverShrinks
<1>1. Evidence /\ [Next]_vars => [KeepsIdleTime]_vars
  <2> SUFFICES ASSUME Evidence, [Next]_vars PROVE KeepsIdleTime
    OBVIOUS
  <2>1. \A s \in Sessions : sessions[s].idle \in Int
    BY Bounds DEF Evidence, Types, SessionRows, Times
  <2>2. CASE RowsAge
    BY <2>2 DEF RowsAge, KeepsIdleTime
  <2>3. CASE NewSession \/ NewCode \/ NewDevice
    BY <2>1, <2>3 DEF NewSession, NewCode, NewDevice, Fills, KeepsIdleTime
  <2> QED
    BY <2>2, <2>3, EveryStepMoves DEF RowsMove
<1> QED
  BY <1>1, EvidenceAlways, PTL DEF Spec, IdleNeverShrinks
=============================================================================
