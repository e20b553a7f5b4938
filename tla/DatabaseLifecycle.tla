------------------------- MODULE DatabaseLifecycle -------------------------
(* The database file of RouterView over its whole life: the daemon that     *)
(* opens, encrypts, migrates and serves it, the maintenance commands that   *)
(* run beside it or instead of it, and crashes and I/O errors between any   *)
(* two of their steps (db/maintenance.rs, db/mod.rs, key_cli.rs, main.rs).  *)
(*                                                                          *)
(* A file is modelled by what SQLite reads from it: its content.  The       *)
(* target is a main file and a WAL that extends exactly that main file.     *)
(* SQLite's own promises are taken as given: a transaction is atomic, its   *)
(* commit survives the process, and the backup API copies one committed     *)
(* state.  Temporary ".partial" files are never read again and are left     *)
(* out; what a rename publishes is not.                                     *)
EXTENDS Integers, FiniteSets, ConfigStore, LegacyImport

CONSTANTS Server,                 \* the daemon
          Tools,                  \* processes that run a maintenance command
          Requests,               \* update_config handlers of the daemon
          Keys, Passwords,        \* master key files, router passwords
          EnvPasswords,           \* ROUTER_PASSWORD at some start, or None
          CURRENT_SCHEMA_VERSION,
          ExactVersion,           \* the first version with exact traffic tables
          Histories,              \* what the legacy rate tables can hold:
                                  \* a name -> [points, minutes]
          InitialTargets,         \* contents of the target at the start, or None
          UserPaths,              \* backup files named on a command line
          InitialBackups,         \* what those files hold at the start
          Generated,              \* 1..n, names generated_backup_path makes
          MaxCommits, MaxCommands, MaxFaults

Secrets == [key : Keys, password : Passwords]

(* What a database file can hold, as far as it matters here. *)
Contents ==
    [version : Nat, legacy : DOMAIN Histories \cup {None}, imported : BOOLEAN,
     rows : SUBSET Nat, settings : SUBSET Nat, rev : Nat,
     plain : SUBSET Passwords, sealed : Secrets \cup {None}, damaged : BOOLEAN]

Configs == [rev : Nat, settings : SUBSET Nat, password : Passwords \cup {None}]

ASSUME ConstantsAssumption ==
    /\ Server \notin Tools
    /\ None \notin Passwords \cup Keys \cup Tools \cup {Server}
    /\ None \notin Secrets /\ None \notin Contents /\ None \notin Configs
    /\ None \notin [content : Contents, stale : BOOLEAN]
    /\ InitialTargets \subseteq Contents \cup {None}
    /\ \A c \in InitialTargets : c # None => IsFiniteSet(c.rows)
    /\ InitialBackups \in [UserPaths -> Contents \cup {None}]
    /\ EnvPasswords \subseteq Passwords \cup {None}
    /\ CURRENT_SCHEMA_VERSION \in Nat /\ ExactVersion \in 0..CURRENT_SCHEMA_VERSION
    /\ UserPaths \cap Generated = {}
    /\ \A h \in DOMAIN Histories :
          /\ \A row \in Histories[h].points \cup Histories[h].minutes :
                row = [wan |-> row.wan, at |-> row.at] /\ row.at \in Int
          /\ \A row \in Histories[h].minutes : row.at % MinuteLength = 0

VARIABLES
    main,       \* content of the main file, None while it is missing or empty
    wal,        \* [content, stale] with the WAL beside it applied, or None; stale
                \* when the WAL was written for another main file
    walMode,    \* the journal mode stored in the main file is WAL
    files,      \* backup path -> [file, sum]: content and hash in the manifest
    quarantine, \* complete quarantine directories
    holder,     \* the process that holds the advisory lock
    proc,       \* what each process is doing
    config,     \* the daemon's merged configuration, None when it is not serving
    request,    \* what each update_config handler is doing
    written,    \* history: the data commits there were
    commands,   \* history: how many maintenance commands were started
    faults      \* history: how many crashes and I/O errors there were

vars == <<main, wal, walMode, files, quarantine, holder, proc, config, request,
          written, commands, faults>>

target == <<main, wal, walMode>>
history == <<written, commands, faults>>

Procs == Tools \cup {Server}
Paths == UserPaths \cup Generated
-----------------------------------------------------------------------------
(* Contents and files *)

(* The database SQLite creates in an empty file, before any migration. *)
Fresh == [version |-> 0, legacy |-> None, imported |-> FALSE, rows |-> {}, settings |-> {},
          rev |-> 0, plain |-> {}, sealed |-> None, damaged |-> FALSE]

(* A WAL written for another main file does not make a database with this one. *)
Visible ==
    IF wal = None THEN main
    ELSE IF wal.stale THEN [Fresh EXCEPT !.damaged = TRUE]
    ELSE wal.content

(* One transaction on the target. *)
Commit(content) ==
    IF walMode
    THEN wal' = [content |-> content, stale |-> FALSE] /\ UNCHANGED <<main, walMode>>
    ELSE main' = content /\ UNCHANGED <<wal, walMode>>

(* The last connection to close folds the WAL into the main file; while a   *)
(* backup or an export still reads the target the WAL stays.  A checkpoint  *)
(* before that changes nothing any process reads and is left out.           *)
Close ==
    IF \E t \in Tools : proc[t].cmd \in {"backup", "export"}
    THEN UNCHANGED target
    ELSE main' = Visible /\ wal' = None /\ UNCHANGED walMode

(* validate_bootstrap_source and check_connection. *)
Usable(content) == content.version <= CURRENT_SCHEMA_VERSION /\ ~content.damaged

NoFile == [file |-> None, sum |-> None]

(* verify_manifest: the hash in the manifest is the hash of the file. *)
Verified(path) == files[path].file # None /\ files[path].sum = files[path].file

(* generated_backup_path: a name nothing else has. *)
FreeNames == {g \in Generated : files[g] = NoFile /\ \A p \in Procs : proc[p].path # g}

FreshPath(path) == path \in FreeNames /\ \A g \in FreeNames : path <= g

(* The legacy tables under their composite key, and what is imported from them. *)
LegacyPoints(c) == IF c.legacy = None THEN {} ELSE NormalizedTable(Histories[c.legacy].points)
LegacyMinutes(c) == IF c.legacy = None THEN {} ELSE NormalizedTable(Histories[c.legacy].minutes)

(* apply_migrations: every step from the stored version on, in one          *)
(* transaction, undone when a row count does not come out.                  *)
MigrationRefused(c) ==
    /\ c.legacy # None
    /\ \/ /\ c.version < 2
          /\ \/ NormalizeRefused(Histories[c.legacy].points)
             \/ NormalizeRefused(Histories[c.legacy].minutes)
       \/ c.version < 4 /\ ImportRefused(LegacyPoints(c))

Migrated(c) ==
    [c EXCEPT !.imported = @ \/ (c.version < 4 /\ c.legacy # None),
              !.version = CURRENT_SCHEMA_VERSION]

(* export_legacy: the legacy tables and the non-secret options.  Imported   *)
(* history goes back to where it came from and is there already.  Samples   *)
(* become rates, administrators and sessions are not copied: the export     *)
(* counts as a copy of no row.                                              *)
LegacyExport(c) ==
    [c EXCEPT !.version = 0, !.plain = {}, !.sealed = None, !.imported = FALSE, !.rows = {}]
-----------------------------------------------------------------------------
(* Processes *)

Idle == [pc |-> "idle", cmd |-> None, key |-> None, snap |-> None, source |-> None,
         path |-> None, nr |-> 0]

NoRequest == [pc |-> "idle", copy |-> None]

Goto(p, pc) == proc' = [proc EXCEPT ![p].pc = pc]

(* Mutant: the lock is a file that outlives its process. *)
LeaveLocked(p) == proc' = [proc EXCEPT ![p] = Idle] /\ UNCHANGED holder

(* The process ends, in order or not; the kernel releases its flock. *)
Leave(p) ==
    /\ proc' = [proc EXCEPT ![p] = Idle]
    /\ holder' = IF holder = p THEN None ELSE holder

Init ==
    /\ main \in InitialTargets
    /\ wal = None
    /\ walMode = (main # None /\ main.version = CURRENT_SCHEMA_VERSION)
    /\ files = [path \in Paths |->
                  IF path \in UserPaths
                  THEN [file |-> InitialBackups[path], sum |-> InitialBackups[path]]
                  ELSE NoFile]
    /\ quarantine = {}
    /\ holder = None
    /\ proc = [p \in Procs |-> Idle]
    /\ config = None
    /\ request = [r \in Requests |-> NoRequest]
    /\ written = IF main = None THEN {} ELSE main.rows
    /\ commands = 0 /\ faults = 0
-----------------------------------------------------------------------------
(* Opening the database *)

Running(p, cmd) == [Idle EXCEPT !.cmd = cmd, !.nr = IF p = Server THEN 0 ELSE commands + 1]

(* A maintenance command is started; the daemon is started by its supervisor. *)
Launch(p, process) ==
    /\ proc[p] = Idle
    /\ p \in Tools => commands < MaxCommands
    /\ proc' = [proc EXCEPT ![p] = process]
    /\ commands' = IF p \in Tools THEN commands + 1 ELSE commands

(* open_for_bootstrap of the daemon, `admin setup` and `keys rotate`: lock,  *)
(* open, validate, create the security tables.  A refusal changes nothing.   *)
OpenForBootstrap(p, cmd) ==
    /\ cmd \in IF p = Server THEN {"serve"} ELSE {"admin", "rotate"}
    /\ holder = None /\ holder' = p
    /\ cmd = "rotate" => main # None
    /\ main # None => Usable(Visible)
    /\ main' = IF main = None THEN Fresh ELSE main
    /\ Launch(p, [Running(p, cmd) EXCEPT !.pc = IF cmd = "rotate" THEN "rotate" ELSE "load"])
    /\ UNCHANGED <<wal, walMode, files, quarantine, config, request, written, faults>>

(* `db migrate` opens the target without the bootstrap and without a key. *)
OpenForMigration(p) ==
    /\ p \in Tools
    /\ holder = None /\ holder' = p
    /\ main # None => Usable(Visible)
    /\ Launch(p, [Running(p, "migrate") EXCEPT !.pc = "migrate"])
    /\ UNCHANGED <<target, files, quarantine, config, request, written, faults>>

(* rotate_with_cipher, one immediate transaction over every secret. *)
RotateKey(p, key, new) ==
    /\ proc[p].pc = "rotate"
    /\ Goto(p, "exit")
    /\ IF RotateRefused(Visible, key) THEN UNCHANGED target ELSE Commit(AfterRotate(Visible, new))
    /\ UNCHANGED <<files, quarantine, holder, config, request, history>>

(* ConfigStore::load.  A plaintext password is moved into the secret table  *)
(* with the WAL folded into the main file and the journal mode DELETE; the  *)
(* file is compacted and WAL mode restored afterwards (Compact).            *)
Load(p, key, env) ==
    /\ proc[p].pc = "load"
    /\ LET c == Visible
       IN  IF LoadRefused(c, key)
           THEN Goto(p, "exit") /\ UNCHANGED target
           ELSE /\ proc' = [proc EXCEPT ![p].key = key,
                                        ![p].pc = IF c.plain # {} THEN "compact" ELSE "migrate"]
                /\ IF c.plain # {}
                   THEN main' = AfterLoad(c, key, env) /\ wal' = None /\ walMode' = FALSE
                   ELSE IF AfterLoad(c, key, env) # c
                   THEN Commit(AfterLoad(c, key, env))
                   ELSE UNCHANGED target
    /\ UNCHANGED <<files, quarantine, holder, config, request, history>>

(* merged.validate() at the end of ConfigStore::load, when the secret is    *)
(* sealed already: the environment of this start (host, scheme, policy)     *)
(* makes the merged configuration one it refuses.                           *)
RejectConfig(p) ==
    /\ proc[p].pc = "migrate" /\ proc[p].cmd \in {"serve", "admin"}
    /\ Goto(p, "exit")
    /\ UNCHANGED <<target, files, quarantine, holder, config, request, history>>

Compact(p) ==
    /\ proc[p].pc = "compact"
    /\ walMode' = TRUE
    /\ Goto(p, "migrate")
    /\ UNCHANGED <<main, wal, files, quarantine, holder, config, request, history>>

(* migrate_connection up to the pre-migration backup; without any table     *)
(* there is nothing to back up.                                             *)
MigrateConnection(p) ==
    /\ proc[p].pc = "migrate"
    /\ LET c == Visible
       IN  \/ /\ main = None
              /\ Goto(p, "apply")
           \/ /\ main # None /\ c.version = CURRENT_SCHEMA_VERSION
              /\ Goto(p, "finish")
           \/ /\ main # None /\ c.version < CURRENT_SCHEMA_VERSION /\ c.plain # {}
              /\ Goto(p, "exit")
           \/ /\ main # None /\ c.version < CURRENT_SCHEMA_VERSION /\ c.plain = {}
              /\ \E path \in Generated :
                    /\ FreshPath(path)
                    /\ proc' = [proc EXCEPT ![p].pc = "copy", ![p].path = path]
    /\ UNCHANGED <<target, files, quarantine, holder, config, request, history>>

ApplyMigrations(p) ==
    /\ proc[p].pc = "apply"
    /\ LET c == IF main = None THEN Fresh ELSE Visible
       IN  IF MigrationRefused(c)
           THEN Goto(p, "exit") /\ UNCHANGED target
           ELSE Goto(p, "finish") /\ Commit(Migrated(c))
    /\ UNCHANGED <<files, quarantine, holder, config, request, history>>

(* configure_runtime, then the daemon serves what it loaded; `db migrate`    *)
(* leaves the journal mode alone.                                            *)
FinishMigrations(p) ==
    /\ proc[p].pc = "finish"
    /\ walMode' = (walMode \/ proc[p].cmd # "migrate")
    /\ Goto(p, CASE proc[p].cmd = "serve" -> "serving"
                 [] proc[p].cmd = "admin" -> "admin"
                 [] proc[p].cmd = "migrate" -> "exit")
    /\ config' = IF p = Server THEN MergedConfig(Visible) ELSE config
    /\ UNCHANGED <<main, wal, files, quarantine, holder, request, history>>

(* The connection is closed and the lock dropped. *)
Exit(p) ==
    /\ proc[p].pc = "exit"
    /\ Close
    /\ Leave(p)
    /\ UNCHANGED <<files, quarantine, config, request, history>>
-----------------------------------------------------------------------------
(* Serving *)

(* The number of the next data commit. *)
NextWrite == 1 + Cardinality(written \ {0})

(* A poll, a session, an override: some row is committed. *)
WriteRow ==
    /\ proc[Server].pc = "serving"
    /\ NextWrite <= MaxCommits
    /\ Commit([Visible EXCEPT !.rows = @ \cup {NextWrite}])
    /\ written' = written \cup {NextWrite}
    /\ UNCHANGED <<files, quarantine, holder, proc, config, request, commands, faults>>

(* create_admin_from_cli, which refuses when there is an administrator. *)
CreateAdmin(p) ==
    /\ proc[p].pc = "admin"
    /\ Goto(p, "exit")
    /\ \/ /\ NextWrite <= MaxCommits
          /\ Commit([Visible EXCEPT !.rows = @ \cup {NextWrite}])
          /\ written' = written \cup {NextWrite}
       \/ UNCHANGED <<target, written>>
    /\ UNCHANGED <<files, quarantine, holder, config, request, commands, faults>>

(* update_config clones the configuration; the client's expected_revision   *)
(* is the one of that copy, otherwise the request ends with a conflict.     *)
BeginUpdate(r) ==
    /\ config # None /\ request[r].pc = "idle"
    /\ request' = [request EXCEPT ![r] = [pc |-> "cloned", copy |-> config]]
    /\ UNCHANGED <<target, files, quarantine, holder, proc, config, history>>

SaveConfig(r, mode, password) ==
    /\ request[r].pc = "cloned"
    /\ NextWrite <= MaxCommits
    /\ LET base == request[r].copy
           next == NextConfig(base, mode, password, NextWrite)
       IN  IF SaveRefused(Visible, base.rev)
           THEN /\ request' = [request EXCEPT ![r] = NoRequest]
                /\ UNCHANGED <<target, written>>
           ELSE /\ Commit(AfterSave(Visible, next, mode, proc[Server].key))
                /\ written' = written \cup {NextWrite}
                /\ request' = [request EXCEPT ![r] = [pc |-> "saved", copy |-> next]]
    /\ UNCHANGED <<files, quarantine, holder, proc, config, commands, faults>>

(* The write lock of the shared configuration is taken and the copy replaced. *)
InstallConfig(r) ==
    /\ request[r].pc = "saved"
    /\ config' = request[r].copy
    /\ request' = [request EXCEPT ![r] = NoRequest]
    /\ UNCHANGED <<target, files, quarantine, holder, proc, history>>

(* The client goes away while the handler waits for that lock: the future   *)
(* is dropped after the commit and before the copy is replaced.             *)
DropUpdate(r) ==
    /\ request[r].pc = "saved"
    /\ request' = [request EXCEPT ![r] = NoRequest]
    /\ UNCHANGED <<target, files, quarantine, holder, proc, config, history>>

(* An orderly stop of the daemon, after its requests have ended. *)
Stop ==
    /\ proc[Server].pc = "serving"
    /\ \A r \in Requests : request[r] = NoRequest
    /\ config' = None
    /\ Goto(Server, "exit")
    /\ UNCHANGED <<target, files, quarantine, holder, request, history>>
-----------------------------------------------------------------------------
(* Backups, exports and restores *)

(* `db backup FILE` and `db export-legacy FILE` read the target without the *)
(* lock; the destination must not exist yet.                                *)
StartBackup(p, cmd, path) ==
    /\ p \in Tools /\ cmd \in {"backup", "export"} /\ path \in UserPaths
    /\ main # None
    /\ files[path].file = None
    /\ cmd = "backup" => files[path].sum = None
    /\ Launch(p, [Running(p, cmd) EXCEPT !.pc = "copy", !.path = path])
    /\ UNCHANGED <<target, files, quarantine, holder, config, request, written, faults>>

(* The snapshot must be sound, and a backup must not hold a plaintext        *)
(* password; the export selects from tables older versions do not have.      *)
CopyRefused(cmd, c) ==
    \/ c.damaged
    \/ cmd # "export" /\ c.plain # {}
    \/ cmd = "export" /\ c.version < ExactVersion

(* The target is opened, source.backup copies one committed state of it and *)
(* normalize_and_check_snapshot looks at the copy.  A restore that meets a  *)
(* corrupt target goes on with the quarantine alone; one that meets a       *)
(* plaintext password removes the quarantine and gives up.                  *)
CopySnapshot(p) ==
    /\ proc[p].pc = "copy"
    /\ LET cmd == proc[p].cmd
           c == Visible
       IN  \/ /\ ~CopyRefused(cmd, c)
              /\ proc' = [proc EXCEPT ![p].pc = "publish",
                                      ![p].snap = IF cmd = "export" THEN LegacyExport(c) ELSE c]
              /\ UNCHANGED <<quarantine, holder>>
           \/ /\ CopyRefused(cmd, c) /\ cmd = "restore" /\ c.damaged
              /\ proc' = [proc EXCEPT ![p].pc = "install", ![p].path = None]
              /\ UNCHANGED <<quarantine, holder>>
           \/ /\ CopyRefused(cmd, c) /\ cmd = "restore" /\ ~c.damaged
              /\ quarantine' = {q \in quarantine : q.nr # proc[p].nr}
              /\ Leave(p)
           \/ /\ CopyRefused(cmd, c) /\ cmd # "restore"
              /\ Leave(p)
              /\ UNCHANGED quarantine
    /\ UNCHANGED <<target, files, config, request, history>>

(* The checked snapshot is renamed to its destination. *)
PublishSnapshot(p) ==
    /\ proc[p].pc = "publish"
    /\ files' = [files EXCEPT ![proc[p].path].file = proc[p].snap]
    /\ Goto(p, "hash")
    /\ UNCHANGED <<target, quarantine, holder, config, request, history>>

(* sha256_file reads the destination again, by its name. *)
HashSnapshot(p) ==
    /\ proc[p].pc = "hash"
    /\ proc' = [proc EXCEPT ![p].pc = "sum", ![p].snap = files[proc[p].path].file]
    /\ UNCHANGED <<target, files, quarantine, holder, config, request, history>>

WriteManifest(p) ==
    /\ proc[p].pc = "sum"
    /\ files' = [files EXCEPT ![proc[p].path].sum = proc[p].snap]
    /\ IF proc[p].cmd \in {"backup", "export"}
       THEN Leave(p)
       ELSE /\ proc' = [proc EXCEPT ![p].snap = None, ![p].path = None,
                            ![p].pc = IF proc[p].cmd = "restore" THEN "discard" ELSE "apply"]
            /\ UNCHANGED holder
    /\ UNCHANGED <<target, quarantine, config, request, history>>

(* `db restore FILE`: the manifest is verified, then the file is opened and *)
(* checked, then the target is locked.                                      *)
VerifySource(p, path) ==
    /\ p \in Tools
    /\ Verified(path)
    /\ Launch(p, [Running(p, "restore") EXCEPT !.pc = "open", !.path = path])
    /\ UNCHANGED <<target, files, quarantine, holder, config, request, written, faults>>

OpenSource(p) ==
    /\ proc[p].pc = "open"
    /\ LET c == files[proc[p].path].file
       IN  IF Usable(c)
           THEN proc' = [proc EXCEPT ![p].pc = "lock", ![p].source = c, ![p].path = None]
           ELSE proc' = [proc EXCEPT ![p] = Idle]
    /\ UNCHANGED <<target, files, quarantine, holder, config, request, history>>

LockTarget(p) ==
    /\ proc[p].pc = "lock"
    /\ IF holder = None
       THEN holder' = p /\ Goto(p, "preserve")
       ELSE proc' = [proc EXCEPT ![p] = Idle] /\ UNCHANGED holder
    /\ UNCHANGED <<target, files, quarantine, config, request, history>>

(* preserve_target_before_restore: every byte of the target is copied, then *)
(* a verified backup of it is attempted.                                    *)
PreserveTarget(p) ==
    /\ proc[p].pc = "preserve"
    /\ IF main = None
       THEN Goto(p, "install") /\ UNCHANGED quarantine
       ELSE /\ quarantine' = quarantine \cup {[nr |-> proc[p].nr, main |-> main, wal |-> wal]}
            /\ \E path \in Generated :
                  /\ FreshPath(path)
                  /\ proc' = [proc EXCEPT ![p].pc = "copy", ![p].path = path]
    /\ UNCHANGED <<target, files, holder, config, request, history>>

DiscardQuarantine(p) ==
    /\ proc[p].pc = "discard"
    /\ quarantine' = {q \in quarantine : q.nr # proc[p].nr}
    /\ Goto(p, "install")
    /\ UNCHANGED <<target, files, holder, config, request, history>>

(* Mutant: the sidecars of the old main file are left in place. *)
RemoveNothing(p) ==
    /\ proc[p].pc = "install"
    /\ Goto(p, "swap")
    /\ UNCHANGED <<target, files, quarantine, holder, config, request, history>>

(* The snapshot of the source waits in a temporary file; the WAL of the old *)
(* main file is removed before the rename puts the new one in its place.    *)
RemoveSidecars(p) ==
    /\ proc[p].pc = "install"
    /\ wal' = None
    /\ Goto(p, "swap")
    /\ UNCHANGED <<main, walMode, files, quarantine, holder, config, request, history>>

ReplaceTarget(p) ==
    /\ proc[p].pc = "swap"
    /\ main' = proc[p].source /\ walMode' = FALSE
    /\ wal' = IF wal = None THEN None ELSE [wal EXCEPT !.stale = TRUE]
    /\ Leave(p)
    /\ UNCHANGED <<files, quarantine, config, request, history>>
-----------------------------------------------------------------------------
(* Faults *)

(* The process is killed between two steps. *)
Crash(p) ==
    /\ proc[p].pc # "idle" /\ faults < MaxFaults
    /\ faults' = faults + 1
    /\ Leave(p)
    /\ config' = IF p = Server THEN None ELSE config
    /\ request' = IF p = Server THEN [r \in Requests |-> NoRequest] ELSE request
    /\ UNCHANGED <<target, files, quarantine, written, commands>>

(* No space or an I/O error: temporary files are discarded and the command  *)
(* ends; while the target is being preserved the quarantine goes too.       *)
Fail(p) ==
    /\ proc[p].pc \in {"compact", "copy", "publish", "hash", "sum", "apply", "preserve",
                       "discard", "install", "swap"}
    /\ faults < MaxFaults
    /\ faults' = faults + 1
    /\ quarantine' = IF proc[p].cmd = "restore" /\ proc[p].pc \in {"copy", "publish", "hash", "sum"}
                     THEN {q \in quarantine : q.nr # proc[p].nr} ELSE quarantine
    /\ IF proc[p].cmd \in {"serve", "admin", "migrate"}
       THEN Goto(p, "exit") /\ UNCHANGED holder
       ELSE Leave(p)
    /\ UNCHANGED <<target, files, config, request, written, commands>>

(* The file system returns other bytes than were written. *)
Damage ==
    /\ main # None /\ wal = None /\ ~main.damaged
    /\ \A p \in Procs : proc[p] = Idle
    /\ faults < MaxFaults
    /\ faults' = faults + 1
    /\ main' = [main EXCEPT !.damaged = TRUE]
    /\ UNCHANGED <<wal, walMode, files, quarantine, holder, proc, config, request,
                   written, commands>>
-----------------------------------------------------------------------------
Step(p) ==
    \/ \E key, new \in Keys : RotateKey(p, key, new)
    \/ \E key \in Keys, env \in EnvPasswords : Load(p, key, env)
    \/ Compact(p) \/ MigrateConnection(p) \/ ApplyMigrations(p) \/ FinishMigrations(p)
    \/ CreateAdmin(p) \/ Exit(p)
    \/ CopySnapshot(p) \/ PublishSnapshot(p) \/ HashSnapshot(p) \/ WriteManifest(p)
    \/ OpenSource(p) \/ LockTarget(p) \/ PreserveTarget(p) \/ DiscardQuarantine(p)
    \/ RemoveSidecars(p) \/ ReplaceTarget(p)

Command(p) ==
    \/ \E cmd \in {"serve", "admin", "rotate"} : OpenForBootstrap(p, cmd)
    \/ OpenForMigration(p)
    \/ \E cmd \in {"backup", "export"}, path \in UserPaths : StartBackup(p, cmd, path)
    \/ \E path \in Paths : VerifySource(p, path)

Update(r) ==
    \/ BeginUpdate(r)
    \/ SaveConfig(r, "keep", None) \/ SaveConfig(r, "clear", None)
    \/ \E password \in Passwords : SaveConfig(r, "replace", password)
    \/ InstallConfig(r) \/ DropUpdate(r)

Next ==
    \/ \E p \in Procs : Command(p) \/ Step(p) \/ RejectConfig(p) \/ Crash(p) \/ Fail(p)
    \/ \E r \in Requests : Update(r)
    \/ WriteRow \/ Stop \/ Damage

Spec == Init /\ [][Next]_vars

(* A process that has been started goes on, the supervisor starts the daemon *)
(* again, and the operator keeps trying master keys and environments until   *)
(* they fit the stored secret and configuration.                             *)
RightKey(p) == \E key \in Keys, env \in EnvPasswords :
                   proc[p].pc = "load" /\ ~LoadRefused(Visible, key) /\ Load(p, key, env)

Fairness ==
    /\ \A p \in Procs : WF_vars(Step(p)) /\ SF_vars(RightKey(p))
    /\ SF_vars(MigrateConnection(Server))
    /\ WF_vars(OpenForBootstrap(Server, "serve"))

FairSpec == Spec /\ Fairness
-----------------------------------------------------------------------------
(* Properties *)

TypeOK ==
    /\ walMode \in BOOLEAN
    /\ wal # None => walMode
    /\ holder \in Procs \cup {None}
    /\ \A p \in Procs : proc[p].pc = "idle" => proc[p] = Idle
    /\ (config # None) = (proc[Server].pc = "serving")
    /\ \A r \in Requests : request[r].pc \in {"idle", "cloned", "saved"}
    /\ config = None => \A r \in Requests : request[r] = NoRequest

(* The WAL beside the main file was written for that main file: no crash of *)
(* a restore leaves the WAL of the old database beside the new one.         *)
WalExtendsMain == wal # None => ~wal.stale

(* What a backup or an export published is a sound database without a       *)
(* plaintext password.                                                      *)
PublishedAreClean ==
    \A path \in Paths :
        \/ files[path].file = None
        \/ path \in UserPaths /\ files[path].file = InitialBackups[path]
        \/ ~files[path].file.damaged /\ files[path].file.plain = {}

(* The files of the database and of its backups are sound at every step of  *)
(* every process, whatever crashed before.                                  *)
FilesAreSound == TypeOK /\ WalExtendsMain /\ PublishedAreClean

Holds(c) == IF c = None THEN {} ELSE c.rows \cup c.settings

(* Everything ever committed, rows and configuration updates, is in the     *)
(* target, in a backup whose manifest verifies, or in a quarantine: not a   *)
(* crash or an error in a restore, a migration or a backup loses it, and no *)
(* update_config overwrites the update of another.                          *)
NothingIsLost ==
    written \subseteq
        Holds(Visible)
          \cup (UNION {Holds(files[path].file) : path \in {f \in Paths : Verified(f)}})
          \cup (UNION {Holds(q.main) \cup (IF q.wal = None THEN {} ELSE Holds(q.wal.content)) :
                         q \in quarantine})

(* While the daemon serves, the target is a sound database of the current   *)
(* version whose secret is sealed under the daemon's own key, no other      *)
(* process holds the lock, and the configuration in memory is the stored    *)
(* one or an older one that the revision check will refuse to save.         *)
ServingIsReady ==
    config # None =>
        /\ holder = Server
        /\ Usable(Visible) /\ Visible.version = CURRENT_SCHEMA_VERSION
        /\ Visible.plain = {}
        /\ Visible.sealed # None => Decrypts(proc[Server].key, Visible.sealed)
        /\ config.rev <= Visible.rev
        /\ config.rev = Visible.rev => config = MergedConfig(Visible)

Disjoint(a, b) == a.wan # b.wan \/ a.to <= b.from \/ b.to <= a.from

(* When a migration has been applied, the import of the legacy history      *)
(* counts no second twice: its samples and rollups do not overlap, and      *)
(* every legacy point has its sample.                                       *)
ImportCountsOnce ==
    (\E p \in Procs : proc[p].pc = "finish") /\ Visible.imported =>
        LET points == LegacyPoints(Visible)
            samples == ImportedSamples(points)
            rollups == ImportedRollups(points, LegacyMinutes(Visible))
        IN  /\ \A a, b \in samples \cup rollups : a # b => Disjoint(a, b)
            /\ samples \cap rollups = {}
            /\ \A p \in points : \E s \in samples : s.wan = p.wan /\ s.to = p.at

(* Contents no start of the daemon accepts: somebody has to step in. *)
Unserviceable ==
    main # None /\ \/ ~Usable(Visible)
                   \/ \A key \in Keys : LoadRefused(Visible, key)
                   \/ Visible.version < CURRENT_SCHEMA_VERSION /\ MigrationRefused(Visible)

(* Whatever was interrupted, the daemon comes back: it serves again and     *)
(* again, unless the content itself is one it must refuse, once it is       *)
(* started with the right key and an environment that accepts the stored    *)
(* configuration.                                                           *)
ServiceReturns == []<>(config # None \/ Unserviceable)
=============================================================================
