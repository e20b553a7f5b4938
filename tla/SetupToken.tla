----------------------------- MODULE SetupToken -----------------------------
(* The first administrator: the one-time token the daemon puts into its     *)
(* database and into a file for the operator, the HTTP requests that spend  *)
(* it, its expiry, restarts of the daemon and the offline `admin setup`     *)
(* (auth.rs, db/mod.rs, main.rs).                                           *)
(*                                                                          *)
(* Every section under setup_token_lock writes the row first and the file   *)
(* second; the process may die in between.  A handler may be dropped where  *)
(* it awaits the hash of the password.  The row keeps the hash of a token,  *)
(* here the token itself; tokens are random, so no two are alike.           *)
EXTENDS FailureLimiter

CONSTANTS None,
          Handlers,          \* setup requests
          Sources,           \* client addresses
          MaxTokens,         \* bound on the tokens issued
          SetupSecs,         \* SETUP_SECS
          MaxTime,           \* bound on the clock
          Deployments        \* [admin, oidc, devices, faults]: is there an
                             \* administrator at the start, is a provider configured,
                             \* which devices are there to pair, and how often the
                             \* process dies or a file operation fails

ASSUME SetupAssumption ==
    /\ {MaxTokens, SetupSecs, MaxTime} \subseteq Nat
    /\ Overflow \notin Sources /\ None \notin Sources \cup Handlers

ASSUME DeploymentAssumption ==
    \A d \in Deployments : d.admin \in BOOLEAN /\ d.oidc \in BOOLEAN /\ d.faults \in Nat

VARIABLES
    now,         \* wall clock
    phase,       \* "down", "boot", "serving" or "stopping"
    setupOpen,   \* the loopback listener and the cleanup task run
    admin,       \* the table admins has its row
    row,         \* setup_tokens: [token, expires, used]
    file,        \* the token in the setup token file, or None
    section,     \* what remains to be done under setup_token_lock
    setup,       \* where each setup request stands
    attempts,    \* setup_attempts
    issued,      \* how many tokens there were
    creations,   \* history: how administrators were created
    faults,      \* how many crashes and failing file operations are to come
    leftover     \* history: a file operation failed

setupVars == <<now, phase, setupOpen, admin, row, file, section, setup, attempts,
               issued, creations, faults, leftover>>

Tokens == 1..MaxTokens
NoSection == [op |-> "none", token |-> None, by |-> None]
NoSetup == [pc |-> "idle", token |-> None, source |-> None, at |-> 0]
NoRow == [token |-> None, expires |-> 0, used |-> TRUE]

SetupInit(d) ==
    /\ now = 0 /\ phase = "down" /\ setupOpen = FALSE
    /\ admin = d.admin
    /\ row = NoRow /\ file = None
    /\ section = NoSection
    /\ setup = [r \in Handlers |-> NoSetup]
    /\ attempts = NoEntries
    /\ issued = 0 /\ creations = {} /\ faults = d.faults /\ leftover = FALSE
-----------------------------------------------------------------------------
(* The row of setup_tokens *)

(* setup_token_is_valid, and the condition of the consuming UPDATE. *)
Valid(token) ==
    row.token = token /\ ~row.used /\ row.expires > now /\ ~admin

(* expired_setup_token_hash *)
TokenExpired == ~row.used /\ row.expires <= now

(* invalidate_setup_token_if_matches *)
Invalidated(token) == IF row.token = token /\ ~row.used THEN NoRow ELSE row

(* remove_setup_token_file_if_matches *)
RemovedIfMatches(token) == IF file = token THEN None ELSE file

(* A file operation fails. *)
FileError == faults > 0 /\ faults' = faults - 1 /\ leftover' = TRUE

(* The process ends: what it kept in memory is gone. *)
ProcessEnds ==
    /\ phase' = "down" /\ setupOpen' = FALSE /\ section' = NoSection
    /\ setup' = [r \in Handlers |-> NoSetup] /\ attempts' = NoEntries
-----------------------------------------------------------------------------
(* Issuing *)

Boot ==
    /\ phase = "down" /\ phase' = "boot"
    /\ UNCHANGED <<now, setupOpen, admin, row, file, section, setup, attempts, issued,
                   creations, faults, leftover>>

(* issue_setup_token, at the start and for `admin setup-token`: with an      *)
(* administrator the file goes, or the start fails, and there is no token.   *)
IssueRefused ==
    /\ section = NoSection /\ admin
    /\ \/ phase = "boot" /\ phase' = "serving"
       \/ phase = "serving" /\ setupOpen /\ UNCHANGED phase
    /\ file' = None
    /\ UNCHANGED <<now, setupOpen, admin, row, section, setup, attempts, issued, creations,
                   faults, leftover>>

IssueRefusedFails ==
    /\ section = NoSection /\ admin /\ phase = "boot" /\ FileError
    /\ ProcessEnds
    /\ UNCHANGED <<now, admin, row, file, issued, creations>>

IssueStore ==
    /\ section = NoSection /\ ~admin
    /\ phase = "boot" \/ (phase = "serving" /\ setupOpen)
    /\ issued < MaxTokens /\ issued' = issued + 1
    /\ row' = [token |-> issued', expires |-> now + SetupSecs, used |-> FALSE]
    /\ section' = [op |-> "write", token |-> issued', by |-> None]
    /\ UNCHANGED <<now, phase, setupOpen, admin, file, setup, attempts, creations, faults, leftover>>

(* write_setup_token_file: a temporary file renamed over the path. *)
WriteFile ==
    /\ section.op = "write"
    /\ file' = section.token
    /\ section' = NoSection
    /\ phase' = "serving"
    /\ setupOpen' = (setupOpen \/ phase = "boot")
    /\ UNCHANGED <<now, admin, row, setup, attempts, issued, creations, faults, leftover>>

(* The new token is taken back; at the start the daemon gives up. *)
WriteFails ==
    /\ section.op = "write" /\ FileError
    /\ row' = Invalidated(section.token)
    /\ file' = RemovedIfMatches(section.token)
    /\ IF phase = "boot" THEN ProcessEnds
       ELSE section' = NoSection /\ UNCHANGED <<phase, setupOpen, setup, attempts>>
    /\ UNCHANGED <<now, admin, issued, creations>>
-----------------------------------------------------------------------------
(* Ending *)

(* cleanup_expired_setup_token, every five seconds while setup is open. *)
Cleanup ==
    /\ phase = "serving" /\ setupOpen /\ section = NoSection
    /\ TokenExpired
    /\ section' = [op |-> "remove", token |-> row.token, by |-> None]
    /\ row' = Invalidated(row.token)
    /\ UNCHANGED <<now, phase, setupOpen, admin, file, setup, attempts, issued, creations,
                   faults, leftover>>

(* Orderly shutdown: requests have ended, then cleanup_current_setup_token. *)
Stop ==
    /\ phase = "serving" /\ section = NoSection
    /\ \A r \in Handlers : setup[r] = NoSetup
    /\ phase' = "stopping" /\ setupOpen' = FALSE
    /\ section' = IF row.used THEN NoSection
                  ELSE [op |-> "remove", token |-> row.token, by |-> None]
    /\ row' = Invalidated(row.token)
    /\ UNCHANGED <<now, admin, file, setup, attempts, issued, creations, faults, leftover>>

RemoveFile ==
    /\ section.op = "remove"
    /\ section' = NoSection
    /\ \/ file' = RemovedIfMatches(section.token) /\ UNCHANGED <<faults, leftover>>
       \/ FileError /\ UNCHANGED file
    /\ setup' = [r \in Handlers |-> IF r = section.by THEN [setup[r] EXCEPT !.pc = "done"]
                                   ELSE setup[r]]
    /\ UNCHANGED <<now, phase, setupOpen, admin, row, attempts, issued, creations>>

Halt ==
    /\ phase = "stopping" /\ section = NoSection
    /\ ProcessEnds
    /\ UNCHANGED <<now, admin, row, file, issued, creations, faults, leftover>>

Crash ==
    /\ phase # "down" /\ faults > 0 /\ faults' = faults - 1
    /\ ProcessEnds
    /\ UNCHANGED <<now, admin, row, file, issued, creations, leftover>>
-----------------------------------------------------------------------------
(* Spending *)

EndSetup(r) == setup' = [setup EXCEPT ![r] = NoSetup]

(* setup: refused once there is an administrator, or while the source waits. *)
SetupAsked(r, source) ==
    /\ phase = "serving" /\ setup[r] = NoSetup /\ ~admin
    /\ attempts' = Looked(attempts, source, now)
    /\ setup' = IF Blocked(attempts', source, now) THEN setup
                ELSE [setup EXCEPT ![r] = [NoSetup EXCEPT !.pc = "record", !.source = source,
                                                          !.at = now]]
    /\ UNCHANGED <<now, phase, setupOpen, admin, row, file, section, issued, creations,
                   faults, leftover>>

(* record_failure, then setup_inner up to the hash of the password. *)
SetupChecked(r, token) ==
    /\ setup[r].pc = "record"
    /\ attempts' \in RecordFailure(attempts, setup[r].source, setup[r].at)
    /\ IF Valid(token)
       THEN setup' = [setup EXCEPT ![r].pc = "hash", ![r].token = token]
       ELSE EndSetup(r)
    /\ UNCHANGED <<now, phase, setupOpen, admin, row, file, section, issued, creations,
                   faults, leftover>>

(* setup_legacy on the loopback listener, without a limit. *)
SetupLegacy(r, token) ==
    /\ phase = "serving" /\ setupOpen /\ setup[r] = NoSetup
    /\ Valid(token)
    /\ setup' = [setup EXCEPT ![r] = [NoSetup EXCEPT !.pc = "hash", !.token = token]]
    /\ UNCHANGED <<now, phase, setupOpen, admin, row, file, section, attempts, issued,
                   creations, faults, leftover>>

Created(token) == [token |-> token, latest |-> issued, at |-> now, expires |-> row.expires]

(* Mutant: the token was checked when the request came. *)
SetupConsumeUnchecked(r) ==
    /\ setup[r].pc = "hash" /\ section = NoSection
    /\ admin' = TRUE
    /\ row' = [row EXCEPT !.used = TRUE]
    /\ creations' = creations \cup {Created(setup[r].token)}
    /\ section' = [op |-> "remove", token |-> setup[r].token, by |-> r]
    /\ UNCHANGED <<setup, now, phase, setupOpen, file, attempts, issued, faults, leftover>>

(* consume_setup_and_create_admin_and_session, under the lock. *)
SetupConsume(r) ==
    /\ setup[r].pc = "hash" /\ section = NoSection
    /\ IF Valid(setup[r].token)
       THEN /\ admin' = TRUE
            /\ row' = [row EXCEPT !.used = TRUE]
            /\ creations' = creations \cup {Created(setup[r].token)}
            /\ section' = [op |-> "remove", token |-> setup[r].token, by |-> r]
            /\ UNCHANGED setup
       ELSE EndSetup(r) /\ UNCHANGED <<admin, row, creations, section>>
    /\ UNCHANGED <<now, phase, setupOpen, file, attempts, issued, faults, leftover>>

(* After the lock: the attempt is taken back, the loopback listener closes. *)
SetupDone(r) ==
    /\ setup[r].pc = "done"
    /\ attempts' = IF setup[r].source = None THEN attempts
                   ELSE ClearIfLatest(attempts, setup[r].source, setup[r].at)
    /\ setupOpen' = FALSE
    /\ EndSetup(r)
    /\ UNCHANGED <<now, phase, admin, row, file, section, issued, creations, faults, leftover>>

SetupDropped(r) ==
    /\ setup[r].pc = "hash" /\ section.by # r
    /\ EndSetup(r)
    /\ UNCHANGED <<now, phase, setupOpen, admin, row, file, section, attempts, issued,
                   creations, faults, leftover>>

(* `admin setup`, while no daemon holds the database lock; the command may   *)
(* die before it has removed the file.                                       *)
CliSetup ==
    /\ phase = "down" /\ ~admin
    /\ admin' = TRUE
    /\ \/ file' = None /\ UNCHANGED <<faults, leftover>>
       \/ FileError /\ UNCHANGED file
       \/ faults > 0 /\ faults' = faults - 1 /\ UNCHANGED <<file, leftover>>
    /\ UNCHANGED <<now, phase, setupOpen, row, section, setup, attempts, issued, creations>>

Tick ==
    /\ now < MaxTime /\ now' = now + 1
    /\ UNCHANGED <<phase, setupOpen, admin, row, file, section, setup, attempts, issued,
                   creations, faults, leftover>>

SetupRequest(r) ==
    \/ \E source \in Sources : SetupAsked(r, source)
    \/ \E token \in 0..issued : SetupChecked(r, token) \/ SetupLegacy(r, token)
    \/ SetupConsume(r) \/ SetupDone(r) \/ SetupDropped(r)

SetupNext ==
    \/ Boot \/ IssueRefused \/ IssueRefusedFails \/ IssueStore \/ WriteFile \/ WriteFails
    \/ Cleanup \/ Stop \/ RemoveFile \/ Halt \/ Crash \/ CliSetup \/ Tick
    \/ \E r \in Handlers : SetupRequest(r)

(* What runs without anybody asking: the start, sections once entered, the  *)
(* cleanup task and the end of an orderly stop.                             *)
SetupFairness ==
    /\ WF_setupVars(Boot)
    /\ WF_setupVars(phase = "boot" /\ (IssueRefused \/ IssueStore))
    /\ WF_setupVars(WriteFile) /\ WF_setupVars(RemoveFile) /\ WF_setupVars(Halt)
    /\ WF_setupVars(Cleanup)
    /\ \A r \in Handlers : WF_setupVars(SetupDone(r))
-----------------------------------------------------------------------------
(* Properties *)

SetupTypeOK ==
    /\ now \in 0..MaxTime /\ phase \in {"down", "boot", "serving", "stopping"}
    /\ setupOpen \in BOOLEAN /\ admin \in BOOLEAN
    /\ row.token \in Tokens \cup {None} /\ file \in Tokens \cup {None}
    /\ section.op \in {"none", "write", "remove"}
    /\ \A r \in Handlers : setup[r].pc \in {"idle", "record", "hash", "done"}
    /\ Cardinality(DOMAIN attempts) <= AuthFailureCapacity

(* However many requests, tokens and restarts there are, setup creates one  *)
(* administrator at most, with the token issued last and before it expired. *)
SetupHappensOnce ==
    /\ Cardinality(creations) <= 1
    /\ \A c \in creations : c.token = c.latest /\ c.at < c.expires

(* A token that no longer opens anything leaves the file, or is replaced    *)
(* there, also when the daemon died between the row and the file; only a    *)
(* failed file operation may leave it until the next start.                 *)
DeadFile == file # None /\ ~Valid(file) /\ ~leftover /\ issued < MaxTokens

TokenFileGoes == DeadFile ~> ~DeadFile
=============================================================================
