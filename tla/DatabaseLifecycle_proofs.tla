---------------------- MODULE DatabaseLifecycle_proofs ----------------------
(****************************************************************************)
(* What holds of the database file for every number of maintenance          *)
(* commands, requests, keys, passwords, backups and crashes: the files are  *)
(* sound, no commit is lost, what the daemon serves is ready, and the       *)
(* legacy history is imported once.                                         *)
(*                                                                          *)
(* The argument rests on the lock.  A process that works on the target      *)
(* holds it (Locked), so that only one of them can break what another       *)
(* relies on, and a step of process p is proved with the facts about p      *)
(* alone (Own); that it leaves the facts about the others true follows once *)
(* for all actions (Discreet, OthersKeep).  What backups and exports do     *)
(* without the lock cannot hurt, since they write only to names a user gave *)
(* them and restores keep what they need under generated names.             *)
(****************************************************************************)
EXTENDS DatabaseLifecycle, FiniteSetTheorems, WellFoundedInduction, TLAPS

(* The places of a backup, on its own or inside a migration or a restore. *)
Copying == {"copy", "publish", "hash", "sum"}

Places == {"idle", "load", "rotate", "compact", "migrate", "apply", "finish", "serving",
           "admin", "exit", "open", "lock", "preserve", "discard", "install", "swap"} \cup Copying

Commands == {"serve", "admin", "rotate", "migrate", "backup", "export", "restore"}

ProcType ==
    [pc : Places, cmd : Commands \cup {None}, key : Keys \cup {None},
     snap : Contents \cup {None}, source : Contents \cup {None}, path : Paths \cup {None},
     nr : Nat]

FileType == [file : Contents \cup {None}, sum : Contents \cup {None}]

ProcTyped == proc \in [Procs -> ProcType]

(* The WAL was written for the main file and holds what that file holds. *)
TargetShape ==
    /\ main \in Contents \cup {None}
    /\ wal \in [content : Contents, stale : {FALSE}] \cup {None}
    /\ walMode \in BOOLEAN
    /\ wal # None => walMode /\ main # None /\ Holds(main) \subseteq Holds(wal.content)
    /\ main = None => ~walMode

(* Backups and quarantines: typed, clean, and of commands that were         *)
(* started.                                                                 *)
Shelved ==
    /\ files \in [Paths -> FileType]
    /\ PublishedAreClean
    /\ commands \in Nat
    /\ \A q \in quarantine : q.nr \in 1..commands

(* Who works on the target, and must hold the lock. *)
Writer(p) == proc[p].pc \notin {"idle", "open", "lock"} /\ proc[p].cmd \notin {"backup", "export"}

(* A process that works on the target holds the lock. *)
Locked(p) == Writer(p) => holder = p

(* Which command is where. *)
Coherent(p) ==
    LET pc == proc[p].pc
        cmd == proc[p].cmd
    IN  /\ pc = "idle" => proc[p] = Idle
        /\ pc # "idle" => cmd \in Commands /\ (cmd = "serve" <=> p = Server)
        /\ pc \in {"load", "compact"} => cmd \in {"serve", "admin"}
        /\ pc = "rotate" => cmd = "rotate"
        /\ pc \in {"migrate", "apply", "finish"} => cmd \in {"serve", "admin", "migrate"}
        /\ pc = "serving" => cmd = "serve"
        /\ pc = "admin" => cmd = "admin"
        /\ pc = "exit" => cmd \in {"serve", "admin", "rotate", "migrate"}
        /\ pc \in {"open", "lock", "preserve", "discard", "install", "swap"} => cmd = "restore"
        /\ pc \in Copying => cmd # "rotate"

(* The numbers of commands, by which a restore finds its own quarantine. *)
Numbered(p) ==
    /\ p = Server => proc[p].nr = 0
    /\ p \in Tools /\ proc[p].pc # "idle" => proc[p].nr \in 1..commands
    /\ proc[p].pc \in {"open", "lock", "preserve"} => \A q \in quarantine : q.nr # proc[p].nr

(* No two processes at work have the same number. *)
Apart(p, q) ==
    p # q /\ proc[p].pc # "idle" /\ proc[q].pc # "idle" => proc[p].nr # proc[q].nr

(* A backup taken before a migration or a restore has a name of its own,    *)
(* which no other process writes to.                                        *)
Copies(p) ==
    LET path == proc[p].path
    IN  /\ proc[p].pc \in Copying /\ proc[p].cmd \in {"backup", "export"} => path \in UserPaths
        /\ proc[p].pc \in Copying /\ proc[p].cmd \notin {"backup", "export"} =>
              /\ path \in Generated
              /\ proc[p].pc \in {"copy", "publish"} => files[path] = NoFile
              /\ files[path].sum = None
        /\ proc[p].pc = "publish" =>
              proc[p].snap \in Contents /\ ~proc[p].snap.damaged /\ proc[p].snap.plain = {}
        /\ proc[p].pc \in Copying => main # None
        /\ proc[p].pc = "open" => path \in Paths /\ files[path].file # None

(* The database a process has opened, from step to step of its start. *)
Opened(p) ==
    LET pc == proc[p].pc
        cmd == proc[p].cmd
    IN  Writer(p) /\ cmd # "restore" /\ pc # "exit" =>
        /\ main # None => Usable(Visible)
        /\ main = None => cmd = "migrate" /\ pc \in {"migrate", "apply"}
        /\ cmd \in {"serve", "admin"} /\ pc # "load" =>
              /\ proc[p].key \in Keys /\ Visible.plain = {}
              /\ Visible.sealed # None => Decrypts(proc[p].key, Visible.sealed)
        /\ pc \in {"finish", "serving", "admin"} => Visible.version = CURRENT_SCHEMA_VERSION

(* What a quarantine directory holds. *)
InQuarantine(q) == Holds(q.main) \cup (IF q.wal = None THEN {} ELSE Holds(q.wal.content))

(* What is safe outside the target: in the verified backups the program     *)
(* made itself, which no user command overwrites, and in the quarantines.   *)
Kept ==
    (UNION {Holds(files[g].file) : g \in {f \in Generated : Verified(f)}})
      \cup (UNION {InQuarantine(q) : q \in quarantine})

(* What a restore has put aside before it touches the target. *)
Restoring(p) ==
    LET pc == proc[p].pc
        mine == {q \in quarantine : q.nr = proc[p].nr}
    IN  pc # "idle" /\ proc[p].cmd = "restore" =>
        /\ pc # "open" => proc[p].source \in Contents
        /\ pc \in Copying \cup {"discard"} =>
              /\ main # None
              /\ \A q \in mine : InQuarantine(q) \subseteq Holds(Visible)
              /\ \E q \in mine : Holds(Visible) \subseteq InQuarantine(q)
        /\ pc \in {"publish", "hash", "sum"} =>
              proc[p].snap \in Contents /\ Holds(Visible) \subseteq Holds(proc[p].snap)
        /\ pc \in {"hash", "sum"} => files[proc[p].path].file = proc[p].snap
        /\ pc = "discard" => \E g \in Generated :
              Verified(g) /\ Holds(Visible) \subseteq Holds(files[g].file)
        /\ pc \in {"install", "swap"} => written \subseteq Kept
        /\ pc = "swap" => wal = None

(* All that is known about one process. *)
Own(p) ==
    /\ Coherent(p) /\ Locked(p) /\ Numbered(p) /\ Copies(p) /\ Opened(p) /\ Restoring(p)

(* A configuration in memory is the stored one, or an older one. *)
UpToDate(c) ==
    /\ c \in Configs
    /\ c.rev <= Visible.rev
    /\ c.rev = Visible.rev => c = MergedConfig(Visible)

Configured ==
    /\ config # None <=> proc[Server].pc = "serving"
    /\ config # None => UpToDate(config)
    /\ \A r \in Requests :
          \/ request[r] = NoRequest
          \/ config # None /\ request[r].pc \in {"cloned", "saved"} /\ UpToDate(request[r].copy)

(* Every commit is in the target or kept outside of it. *)
Preserved == IsFiniteSet(written) /\ written \subseteq Holds(Visible) \cup Kept

(* The inductive invariant. *)
DatabaseInv ==
    /\ ProcTyped /\ TargetShape /\ Shelved /\ holder \in Procs \cup {None}
    /\ \A p \in Procs : Own(p)
    /\ \A p, q \in Procs : Apart(p, q)
    /\ request \in [Requests -> [pc : {"idle", "cloned", "saved"}, copy : Configs \cup {None}]]
    /\ Configured /\ Preserved

-----------------------------------------------------------------------------
(* Contents: what each change of a database keeps.                          *)

(* What a content holds. *)
LEMMA HoldsContent == ASSUME NEW c \in Contents PROVE Holds(c) = c.rows \cup c.settings
BY ConstantsAssumption DEF Holds

(* An empty database is usable. *)
LEMMA FreshContent ==
    /\ Fresh \in Contents /\ Fresh.version = 0 /\ ~Fresh.damaged /\ Fresh.plain = {}
    /\ Usable(Fresh)
<1>1. Fresh \in Contents
  BY DEF Fresh, Contents
<1>2. ~Fresh.damaged /\ Fresh.version = 0 /\ Fresh.plain = {}
  BY DEF Fresh
<1>3. Fresh.version <= CURRENT_SCHEMA_VERSION
  BY <1>2, ConstantsAssumption
<1> QED BY <1>1, <1>2, <1>3 DEF Usable

(* A migration keeps the data and the secret. *)
LEMMA MigratedContent ==
    ASSUME NEW c \in Contents
    PROVE  /\ Migrated(c) \in Contents
           /\ Migrated(c).rows = c.rows /\ Migrated(c).settings = c.settings
           /\ Migrated(c).plain = c.plain /\ Migrated(c).sealed = c.sealed
           /\ Migrated(c).version = CURRENT_SCHEMA_VERSION
           /\ Migrated(c).damaged <=> c.damaged
<1> DEFINE i == c.imported \/ (c.version < 4 /\ c.legacy # None)
<1>1. i \in BOOLEAN
  OBVIOUS
<1>2. Migrated(c) = [[c EXCEPT !.imported = i] EXCEPT !.version = CURRENT_SCHEMA_VERSION]
  BY DEF Migrated
<1> HIDE DEF i
<1>3. CURRENT_SCHEMA_VERSION \in Nat
  BY ConstantsAssumption
<1> QED BY <1>1, <1>2, <1>3 DEF Contents

(* An export has no plaintext password. *)
LEMMA ExportContent ==
    ASSUME NEW c \in Contents
    PROVE  /\ LegacyExport(c) \in Contents /\ LegacyExport(c).plain = {}
           /\ LegacyExport(c).damaged <=> c.damaged
BY DEF LegacyExport, Contents

(* After a load the secret is sealed under the key and no plaintext is      *)
(* left.                                                                    *)
LEMMA LoadContent ==
    ASSUME NEW c \in Contents, NEW key \in Keys, NEW env \in EnvPasswords,
           ~LoadRefused(c, key)
    PROVE  LET d == AfterLoad(c, key, env)
           IN  /\ d \in Contents
               /\ d.rows = c.rows /\ d.settings = c.settings /\ d.version = c.version
               /\ d.damaged = c.damaged
               /\ d.plain = {} /\ (d.sealed # None => Decrypts(key, d.sealed))
<1> DEFINE password == LoadedPassword(c, env)
           sealed == IF c.sealed # None \/ password = None THEN c.sealed ELSE Encrypt(key, password)
<1>1. password \in Passwords \cup {None}
  <2>1. CASE c.sealed # None
    BY <2>1 DEF LoadedPassword, Contents, Secrets
  <2>2. CASE c.sealed = None /\ c.plain # {}
    <3>1. password = CHOOSE p \in c.plain : TRUE
      BY <2>2 DEF LoadedPassword
    <3>2. password \in c.plain /\ c.plain \subseteq Passwords
      BY <2>2, <3>1 DEF Contents
    <3> QED BY <3>2
  <2>3. CASE c.sealed = None /\ c.plain = {}
    BY <2>3, ConstantsAssumption DEF LoadedPassword
  <2> QED BY <2>1, <2>2, <2>3
<1>2. AfterLoad(c, key, env) = [[c EXCEPT !.plain = {}] EXCEPT !.sealed = sealed]
  BY DEF AfterLoad
<1> HIDE DEF password
<1>3. sealed \in Secrets \cup {None}
  BY <1>1 DEF Encrypt, Secrets, Contents
<1>4. sealed # None => Decrypts(key, sealed)
  <2>1. CASE c.sealed # None
    BY <2>1 DEF LoadRefused
  <2>2. CASE c.sealed = None
    BY <2>2 DEF Encrypt, Decrypts
  <2> QED BY <2>1, <2>2
<1> HIDE DEF sealed
<1> QED BY <1>2, <1>3, <1>4 DEF Contents

(* A key rotation keeps the data. *)
LEMMA RotatedContent ==
    ASSUME NEW c \in Contents, NEW new \in Keys
    PROVE  /\ AfterRotate(c, new) \in Contents
           /\ AfterRotate(c, new).rows = c.rows /\ AfterRotate(c, new).settings = c.settings
BY DEF AfterRotate, Contents, Secrets, Encrypt

(* A row is added and nothing else changes. *)
LEMMA RowContent ==
    ASSUME NEW c \in Contents, NEW n \in Nat
    PROVE  LET d == [c EXCEPT !.rows = @ \cup {n}]
           IN  /\ d \in Contents
               /\ d.rows = c.rows \cup {n} /\ d.settings = c.settings /\ d.version = c.version
               /\ d.damaged = c.damaged /\ d.plain = c.plain /\ d.sealed = c.sealed
               /\ d.rev = c.rev
BY DEF Contents

(* Damage is seen by the checks; the rows are counted as before. *)
LEMMA DamagedContent ==
    ASSUME NEW c \in Contents
    PROVE  LET d == [c EXCEPT !.damaged = TRUE]
           IN  d \in Contents /\ d.rows = c.rows /\ d.settings = c.settings
BY DEF Contents

(* save_config_transaction stores the configuration it was given: what a    *)
(* request then installs is what a restart would load.                      *)
LEMMA SavedContent ==
    ASSUME NEW c \in Contents, NEW key \in Keys, NEW n \in Nat,
           NEW mode \in {"keep", "clear", "replace"}, NEW password \in Passwords \cup {None},
           mode = "replace" => password \in Passwords,
           c.sealed # None => Decrypts(key, c.sealed)
    PROVE  LET next == NextConfig(MergedConfig(c), mode, password, n)
               d == AfterSave(c, next, mode, key)
           IN  /\ d \in Contents /\ next \in Configs
               /\ d.rows = c.rows /\ d.settings = c.settings \cup {n}
               /\ d.version = c.version /\ d.damaged = c.damaged /\ d.plain = c.plain
               /\ d.sealed # None => Decrypts(key, d.sealed)
               /\ d.rev = c.rev + 1 /\ next.rev = c.rev + 1
               /\ MergedConfig(d) = next
<1> DEFINE base == MergedConfig(c)
           next == NextConfig(base, mode, password, n)
           sealed == CASE mode = "keep" -> c.sealed
                       [] mode = "replace" -> Encrypt(key, next.password)
                       [] mode = "clear" -> None
           d == AfterSave(c, next, mode, key)
<1>1. /\ base.rev = c.rev /\ base.settings = c.settings
      /\ base.password = IF c.sealed = None THEN None ELSE c.sealed.password
  BY DEF MergedConfig
<1>2. /\ c.rev \in Nat /\ c.settings \subseteq Nat /\ c.sealed \in Secrets \cup {None}
  BY DEF Contents
<1>3. base.password \in Passwords \cup {None}
  BY <1>1, <1>2 DEF Secrets
<1>4. /\ next = [rev |-> c.rev + 1, settings |-> c.settings \cup {n}, password |-> next.password]
      /\ next.rev = c.rev + 1 /\ next.settings = c.settings \cup {n}
      /\ mode = "keep" => next.password = base.password
      /\ mode = "replace" => next.password = password
      /\ mode = "clear" => next.password = None
  BY <1>1 DEF NextConfig
<1> HIDE DEF base
<1>5. next.password \in Passwords \cup {None} /\ (mode = "replace" => next.password \in Passwords)
  BY <1>3, <1>4
<1>6. next \in Configs
  BY <1>2, <1>4, <1>5 DEF Configs
<1>7. /\ sealed \in Secrets \cup {None}
      /\ sealed # None => Decrypts(key, sealed)
      /\ next.password = IF sealed = None THEN None ELSE sealed.password
  <2>1. CASE mode = "keep"
    BY <1>1, <1>2, <1>4, <2>1
  <2>2. CASE mode = "replace"
    <3>1. sealed = Encrypt(key, next.password)
      BY <2>2
    <3>2. sealed \in Secrets /\ sealed.key = key /\ sealed.password = next.password
      BY <1>5, <2>2, <3>1 DEF Encrypt, Secrets
    <3> QED BY <3>2, ConstantsAssumption DEF Decrypts
  <2>3. CASE mode = "clear"
    BY <1>4, <2>3
  <2> QED BY <2>1, <2>2, <2>3
<1>8. d = [[[c EXCEPT !.rev = next.rev] EXCEPT !.settings = next.settings] EXCEPT !.sealed = sealed]
  BY DEF AfterSave
<1> HIDE DEF next, sealed, d
<1>9. /\ d \in Contents /\ d.rows = c.rows /\ d.settings = next.settings
      /\ d.version = c.version /\ d.damaged = c.damaged /\ d.plain = c.plain
      /\ d.sealed = sealed /\ d.rev = next.rev
  <2>1. next.rev \in Nat /\ next.settings \subseteq Nat
    BY <1>2, <1>4
  <2> QED BY <1>7, <1>8, <2>1 DEF Contents
<1>10. MergedConfig(d) = next
  BY <1>4, <1>7, <1>9 DEF MergedConfig
<1> QED BY <1>4, <1>6, <1>7, <1>9, <1>10 DEF next, d, base

-----------------------------------------------------------------------------
(* The target                                                               *)

(* Without stale WALs the database is the WAL if there is one, else the     *)
(* main file.                                                               *)
LEMMA VisibleIs ==
    /\ TargetShape => /\ Visible = IF wal = None THEN main ELSE wal.content
                      /\ main # None => Visible \in Contents
                      /\ main = None => Visible = None
    /\ TargetShape' => /\ Visible' = IF wal' = None THEN main' ELSE wal'.content
                       /\ main' # None => Visible' \in Contents
                       /\ main' = None => Visible' = None
BY DEF TargetShape, Visible

(* A transaction of the process that may write: the target holds it. *)
LEMMA Committed ==
    ASSUME TargetShape, NEW c \in Contents, Commit(c), Holds(Visible) \subseteq Holds(c)
    PROVE  TargetShape' /\ Visible' = c /\ main' # None
<1>1. Visible = IF wal = None THEN main ELSE wal.content
  BY VisibleIs
<1>2. c # None
  BY ConstantsAssumption
<1>3. CASE walMode
  <2>1. wal' = [content |-> c, stale |-> FALSE] /\ main' = main /\ walMode' = walMode
    BY <1>3 DEF Commit
  <2>2. main # None
    BY <1>3 DEF TargetShape
  <2>3. Holds(main) \subseteq Holds(c)
    BY <1>1 DEF TargetShape
  <2>4. wal' \in [content : Contents, stale : {FALSE}] /\ wal'.content = c
    BY <2>1
  <2>5. wal' # None
    <3>1. wal' \in [content : Contents, stale : BOOLEAN]
      BY <2>1
    <3> QED BY <3>1, ConstantsAssumption
  <2>6. TargetShape'
    BY <1>3, <2>1, <2>2, <2>3, <2>4 DEF TargetShape
  <2> QED BY <2>1, <2>2, <2>4, <2>5, <2>6, VisibleIs
<1>4. CASE ~walMode
  <2>1. main' = c /\ wal' = wal /\ walMode' = walMode /\ wal = None
    BY <1>4 DEF Commit, TargetShape
  <2>2. TargetShape'
    BY <1>2, <1>4, <2>1 DEF TargetShape
  <2> QED BY <1>2, <2>1, <2>2, VisibleIs
<1> QED BY <1>3, <1>4

(* The checkpoint of the last connection changes nothing that is read. *)
LEMMA Closed ==
    ASSUME TargetShape, Close
    PROVE  TargetShape' /\ Visible' = Visible /\ (main' = None <=> main = None)
<1>1. Visible = IF wal = None THEN main ELSE wal.content
  BY VisibleIs
<1>2. CASE UNCHANGED target
  BY <1>2 DEF target, TargetShape, Visible
<1>3. CASE main' = Visible /\ wal' = None /\ UNCHANGED walMode
  <2>1. main' \in Contents \cup {None} /\ (main' = None <=> main = None)
    BY <1>1, <1>3, ConstantsAssumption DEF TargetShape
  <2>2. TargetShape'
    BY <1>3, <2>1 DEF TargetShape
  <2> QED BY <1>3, <2>1, <2>2, VisibleIs
<1> QED BY <1>2, <1>3 DEF Close

-----------------------------------------------------------------------------
(* The processes                                                            *)

Elsewhere(p) == \A q \in Procs \ {p} : proc'[q] = proc[q]

(* A process that does not run. *)
LEMMA IdleTyped == Idle \in ProcType
BY DEF Idle, ProcType, Places

(* One process changes its state. *)
LEMMA Moved ==
    ASSUME ProcTyped, NEW p \in Procs, NEW r \in ProcType, proc' = [proc EXCEPT ![p] = r]
    PROVE  ProcTyped' /\ Elsewhere(p) /\ proc'[p] = r
BY DEF ProcTyped, Elsewhere

(* A process goes to another place. *)
LEMMA Goes ==
    ASSUME ProcTyped, NEW p \in Procs, NEW place \in Places, Goto(p, place)
    PROVE  /\ ProcTyped' /\ Elsewhere(p)
           /\ proc'[p].pc = place /\ proc'[p].cmd = proc[p].cmd /\ proc'[p].key = proc[p].key
           /\ proc'[p].snap = proc[p].snap /\ proc'[p].source = proc[p].source
           /\ proc'[p].path = proc[p].path /\ proc'[p].nr = proc[p].nr
<1> DEFINE r == [proc[p] EXCEPT !.pc = place]
<1>1. proc[p] \in ProcType
  BY DEF ProcTyped
<1>2. /\ r \in ProcType /\ r.pc = place /\ r.cmd = proc[p].cmd /\ r.key = proc[p].key
      /\ r.snap = proc[p].snap /\ r.source = proc[p].source
      /\ r.path = proc[p].path /\ r.nr = proc[p].nr
  BY <1>1 DEF ProcType
<1>3. proc' = [proc EXCEPT ![p] = r]
  BY DEF Goto
<1> HIDE DEF r
<1> QED BY <1>2, <1>3, Moved

(* A process ends, and releases its lock. *)
LEMMA Leaves ==
    ASSUME ProcTyped, NEW p \in Procs, Leave(p), holder \in Procs \cup {None}
    PROVE  /\ ProcTyped' /\ Elsewhere(p) /\ proc'[p] = Idle
           /\ holder' \in Procs \cup {None} /\ (holder # p => holder' = holder)
<1>1. proc' = [proc EXCEPT ![p] = Idle]
  BY DEF Leave
<1> QED BY <1>1, IdleTyped, Moved DEF Leave

(* The lock has one holder, so that nobody else works on the target. *)
LEMMA Alone ==
    ASSUME DatabaseInv, NEW p \in Procs, Writer(p) \/ holder = None
    PROVE  /\ \A q \in Procs \ {p} : ~Writer(q)
           /\ Writer(p) => holder = p
<1>1. \A q \in Procs : Writer(q) => holder = q
  BY DEF DatabaseInv, Own, Locked
<1>2. None \notin Procs
  BY ConstantsAssumption DEF Procs
<1> QED BY <1>1, <1>2

(* What a process that works on the target relies on stays. *)
Calm ==
    /\ UNCHANGED <<main, wal, walMode, quarantine, written, holder>>
    /\ \A g \in Generated : files'[g] = files[g]

(* How a step of process p looks to the others. *)
Discreet(p) ==
    /\ Elsewhere(p)
    /\ \A q \in Procs \ {p} : Writer(q) => Calm
    /\ \A x \in quarantine' : x \in quarantine \/ (x.nr = proc[p].nr /\ proc[p].pc # "idle")
    /\ \A f \in Paths : files[f].file # None => files'[f].file # None
    /\ main # None => main' # None
    /\ commands' \in Nat /\ commands' >= commands

(* A discreet step leaves all that is known of the other processes true. *)
LEMMA OthersKeep ==
    ASSUME DatabaseInv, NEW p \in Procs, NEW q \in Procs \ {p}, Discreet(p)
    PROVE  Own(q)'
<1>1. proc'[q] = proc[q] /\ (Writer(q)' <=> Writer(q)) /\ Own(q) /\ commands \in Nat
  BY DEF Discreet, Elsewhere, Writer, DatabaseInv, Shelved
<1>2. Coherent(q)'
  BY <1>1 DEF Own, Coherent
<1>3. Locked(q)'
  BY <1>1 DEF Own, Locked, Discreet, Calm
<1>4. Numbered(q)'
  <2>1. proc[p].pc # "idle" /\ proc[q].pc # "idle" => proc[p].nr # proc[q].nr
    BY DEF DatabaseInv, Apart
  <2>2. proc[q].nr \in Nat
    BY DEF DatabaseInv, ProcTyped, ProcType
  <2> QED BY <1>1, <2>1, <2>2 DEF Own, Numbered, Discreet
<1>5. CASE Writer(q)
  <2>1. Calm
    BY <1>5 DEF Discreet
  <2>2. Visible' = Visible /\ main' = main /\ wal' = wal
    BY <2>1 DEF Calm, Visible
  <2>3. Copies(q)'
    <3>1. proc[q].pc # "open" /\ (proc[q].cmd \notin {"backup", "export"})
      BY <1>5 DEF Writer
    <3> QED BY <1>1, <2>1, <3>1 DEF Own, Copies, Calm
  <2>4. Opened(q)'
    BY <1>1, <2>2 DEF Own, Opened
  <2>5. \A g \in Generated : files'[g] = files[g] /\ (Verified(g)' <=> Verified(g))
    BY <2>1 DEF Calm, Verified
  <2>6. Kept' = Kept
    <3>1. {f \in Generated : Verified(f)'} = {f \in Generated : Verified(f)}
      BY <2>5
    <3>2. {Holds(files'[g].file) : g \in {f \in Generated : Verified(f)'}}
            = {Holds(files[g].file) : g \in {f \in Generated : Verified(f)}}
      BY <2>5, <3>1
    <3> QED BY <2>1, <3>2 DEF Kept, Calm, Holds, InQuarantine
  <2>7. Restoring(q)'
    <3>1. proc[q].pc \in {"hash", "sum"} => proc[q].path \in Generated
      BY <1>1, <1>5 DEF Own, Copies, Writer, Copying
    <3> QED BY <1>1, <2>1, <2>2, <2>5, <2>6, <3>1 DEF Own, Restoring, Calm
  <2> QED BY <1>2, <1>3, <1>4, <2>3, <2>4, <2>7 DEF Own
<1>6. CASE ~Writer(q)
  <2>1. Opened(q)'
    BY <1>1, <1>6 DEF Opened
  <2>2. Copies(q)'
    BY <1>1, <1>6 DEF Own, Copies, Writer, Discreet, Copying
  <2>3. Restoring(q)'
    BY <1>1, <1>6 DEF Own, Restoring, Writer, Copying
  <2> QED BY <1>2, <1>3, <1>4, <2>1, <2>2, <2>3 DEF Own
<1> QED BY <1>5, <1>6

(* The number of a process: its own, or a new one. *)
Distinct(p) ==
    \/ proc'[p].pc = "idle"
    \/ proc[p].pc # "idle" /\ proc'[p].nr = proc[p].nr
    \/ proc'[p].nr = IF p = Server THEN 0 ELSE commands + 1

(* Numbers stay distinct: a new command has a new one. *)
LEMMA StayApart ==
    ASSUME DatabaseInv, NEW p \in Procs, Elsewhere(p), Distinct(p)
    PROVE  \A q1, q2 \in Procs : Apart(q1, q2)'
<1>1. commands \in Nat /\ \A q \in Procs : Numbered(q) /\ proc[q].nr \in Nat
  BY DEF DatabaseInv, Own, Shelved, ProcTyped, ProcType
<1>2. \A q \in Procs \ {p} : p # q /\ proc'[p].pc # "idle" /\ proc[q].pc # "idle"
                               => proc'[p].nr # proc[q].nr
  <2> SUFFICES ASSUME NEW q \in Procs \ {p}, proc'[p].pc # "idle", proc[q].pc # "idle"
               PROVE  proc'[p].nr # proc[q].nr
    OBVIOUS
  <2>1. CASE proc[p].pc # "idle" /\ proc'[p].nr = proc[p].nr
    BY <2>1 DEF DatabaseInv, Apart
  <2>2. CASE proc'[p].nr = IF p = Server THEN 0 ELSE commands + 1
    BY <1>1, <2>2 DEF Numbered, Procs
  <2> QED BY <2>1, <2>2 DEF Distinct
<1>3. \A q1, q2 \in Procs : Apart(q1, q2)
  BY DEF DatabaseInv
<1> QED BY <1>2, <1>3 DEF Apart, Elsewhere

(* One step of process p, as far as the whole invariant is concerned. *)
LEMMA Frame ==
    ASSUME DatabaseInv, NEW p \in Procs, Discreet(p), Distinct(p),
           ProcTyped', TargetShape', Shelved', holder' \in Procs \cup {None}, Own(p)',
           request' \in [Requests -> [pc : {"idle", "cloned", "saved"}, copy : Configs \cup {None}]],
           Configured', Preserved'
    PROVE  DatabaseInv'
<1>1. \A q \in Procs : Own(q)'
  BY OthersKeep
<1>2. \A q1, q2 \in Procs : Apart(q1, q2)'
  BY StayApart DEF Discreet
<1> QED BY <1>1, <1>2 DEF DatabaseInv

(* Membership in what is kept, before and after a step. *)
LEMMA KeptIs ==
    ASSUME NEW x
    PROVE  /\ x \in Kept <=> \/ \E g \in Generated : Verified(g) /\ x \in Holds(files[g].file)
                             \/ \E q \in quarantine : x \in InQuarantine(q)
           /\ x \in Kept' <=>
                \/ \E g \in Generated : Verified(g)' /\ x \in Holds(files[g].file)'
                \/ \E q \in quarantine' : x \in InQuarantine(q)
<1>1. x \in Kept <=> \/ \E g \in Generated : Verified(g) /\ x \in Holds(files[g].file)
                     \/ \E q \in quarantine : x \in InQuarantine(q)
  BY DEF Kept
<1>2. x \in Kept' <=>
        \/ \E g \in Generated : Verified(g)' /\ x \in Holds(files[g].file)'
        \/ \E q \in quarantine' : x \in InQuarantine(q)
  BY DEF Kept, InQuarantine, Holds
<1> QED BY <1>1, <1>2

(* Nothing is taken from the backups and the quarantines. *)
Shelves ==
    /\ \A g \in Generated : Verified(g) => files'[g] = files[g]
    /\ quarantine \subseteq quarantine'

(* What is kept stays kept. *)
LEMMA KeptGrows == ASSUME Shelves PROVE Kept \subseteq Kept'
<1>1. \A g \in Generated : Verified(g) => Verified(g)' /\ Holds(files[g].file)' = Holds(files[g].file)
  BY DEF Shelves, Verified, Holds
<1> QED BY <1>1, KeptIs DEF Shelves

(* No commit is lost when the target and the shelves keep what they hold. *)
LEMMA StaysPreserved ==
    ASSUME Preserved, Shelves, written' = written, Holds(Visible) \subseteq Holds(Visible')
    PROVE  Preserved'
<1>1. Kept \subseteq Kept'
  BY KeptGrows
<1>2. Holds(Visible)' = Holds(Visible')
  BY DEF Holds
<1> QED BY <1>1, <1>2 DEF Preserved

(* The configuration in memory, while others work or the daemon does not serve. *)
LEMMA StaysConfigured ==
    ASSUME DatabaseInv, NEW p \in Procs, Discreet(p), config' = config, request' = request,
           p = Server => proc[p].pc # "serving" /\ proc'[p].pc # "serving"
    PROVE  Configured'
<1>1. CASE config = None
  <2>1. proc'[Server].pc # "serving"
    BY <1>1 DEF DatabaseInv, Configured, Discreet, Elsewhere, Procs
  <2> QED BY <1>1, <2>1 DEF DatabaseInv, Configured
<1>2. CASE config # None
  <2>1. p # Server /\ proc[Server].pc = "serving" /\ proc'[Server] = proc[Server]
    BY <1>2 DEF DatabaseInv, Configured, Discreet, Elsewhere, Procs
  <2>2. Server \in Procs \ {p} /\ Own(Server)
    BY <2>1 DEF DatabaseInv, Procs
  <2>3. Writer(Server)
    BY <2>1, <2>2 DEF Own, Coherent, Writer
  <2>4. Visible' = Visible
    BY <2>2, <2>3 DEF Discreet, Calm, Visible
  <2> QED BY <1>2, <2>1, <2>4 DEF DatabaseInv, Configured, UpToDate
<1> QED BY <1>1, <1>2

(* A step of a process that touches no other file than the target. *)
LEMMA Working ==
    ASSUME DatabaseInv, NEW p \in Procs, Elsewhere(p), Distinct(p),
           ProcTyped', TargetShape', holder' \in Procs \cup {None}, Own(p)',
           UNCHANGED <<files, quarantine, config, request, written>>,
           commands' \in {commands, commands + 1},
           Holds(Visible) \subseteq Holds(Visible'), main' # None \/ Visible' = Visible,
           Writer(p) \/ holder = None \/ UNCHANGED <<target, holder>>,
           p = Server => proc[p].pc # "serving" /\ proc'[p].pc # "serving"
    PROVE  DatabaseInv'
<1>1. commands \in Nat /\ commands' \in Nat /\ commands' >= commands
  BY DEF DatabaseInv, Shelved
<1>2. Discreet(p)
  <2>1. \A q \in Procs \ {p} : Writer(q) => Calm
    <3>1. CASE Writer(p) \/ holder = None
      BY <3>1, Alone
    <3>2. CASE UNCHANGED <<target, holder>>
      BY <3>2 DEF Calm, target
    <3> QED BY <3>1, <3>2
  <2>2. main # None => main' # None
    BY VisibleIs, ConstantsAssumption DEF DatabaseInv
  <2> QED BY <1>1, <2>1, <2>2 DEF Discreet
<1>3. Shelved'
  BY <1>1 DEF DatabaseInv, Shelved, PublishedAreClean
<1>4. Shelves
  BY DEF Shelves
<1>5. Preserved'
  BY <1>4, StaysPreserved DEF DatabaseInv
<1>6. Configured'
  BY <1>2, StaysConfigured
<1> QED BY <1>2, <1>3, <1>5, <1>6, Frame DEF DatabaseInv

(* Of a process that does not run there is nothing to know. *)
LEMMA OwnIdle == ASSUME NEW p \in Procs, proc'[p] = Idle, p = Server \/ commands' \in Nat PROVE Own(p)'
<1>1. proc'[p].pc = "idle" /\ proc'[p].nr = 0
  BY DEF Idle
<1> QED BY <1>1 DEF Own, Coherent, Locked, Writer, Numbered, Copies, Copying, Opened, Restoring

-----------------------------------------------------------------------------
(* Opening the database                                                     *)

(* The places of a process that opens or has opened the target. *)
Opening == {"load", "rotate", "compact", "migrate", "apply", "finish", "serving", "admin", "exit"}

(* What remains to be shown of a process that opens the target. *)
LEMMA OwnOpening ==
    ASSUME NEW p \in Procs, proc'[p].pc \in Opening, Coherent(p)', holder' = p, Opened(p)',
           p = Server => proc'[p].nr = 0, p \in Tools => proc'[p].nr \in 1..commands'
    PROVE  Own(p)'
<1>1. proc'[p].cmd # "restore" /\ proc'[p].pc \notin Copying \cup {"idle", "open", "lock", "preserve"}
  BY DEF Coherent, Opening, Copying
<1>2. Locked(p)' /\ Numbered(p)'
  BY <1>1 DEF Locked, Numbered
<1>3. Copies(p)' /\ Restoring(p)'
  BY <1>1 DEF Copies, Restoring, Copying
<1> QED BY <1>2, <1>3 DEF Own

(* A step that leaves the target alone. *)
LEMMA Unmoved ==
    ASSUME TargetShape, UNCHANGED target
    PROVE  TargetShape' /\ Visible' = Visible /\ main' = main /\ wal' = wal /\ walMode' = walMode
BY DEF TargetShape, Visible, target

(* What is known of a process that works on the database it has opened. *)
LEMMA AtWork ==
    ASSUME DatabaseInv, NEW p \in Procs, proc[p].pc \in Opening
    PROVE  /\ Writer(p) /\ holder = p /\ Coherent(p) /\ Opened(p) /\ proc[p] \in ProcType
           /\ TargetShape /\ commands \in Nat /\ proc[p].cmd # "restore"
           /\ p = Server => proc[p].nr = 0
           /\ p \in Tools => proc[p].nr \in 1..commands
<1>1. Own(p) /\ proc[p] \in ProcType /\ TargetShape /\ commands \in Nat
  BY DEF DatabaseInv, ProcTyped, Shelved
<1>2. Coherent(p) /\ Numbered(p) /\ Locked(p) /\ Opened(p)
  BY <1>1 DEF Own
<1>3. Writer(p) /\ proc[p].cmd # "restore"
  BY <1>2 DEF Coherent, Writer, Opening
<1> QED BY <1>1, <1>2, <1>3 DEF Locked, Numbered, Opening

(* A process that opens the target goes to its next step. *)
LEMMA GoesOn ==
    ASSUME DatabaseInv, NEW p \in Procs, proc[p].pc \in Opening, NEW place \in Opening,
           Goto(p, place), holder' = holder, commands' = commands, Coherent(p)', Opened(p)'
    PROVE  /\ ProcTyped' /\ Elsewhere(p) /\ Distinct(p) /\ Own(p)' /\ Writer(p)
           /\ holder' \in Procs \cup {None}
<1>1. place \in Places
  BY DEF Opening, Places
<1>2. /\ ProcTyped' /\ Elsewhere(p)
      /\ proc'[p].pc = place /\ proc'[p].nr = proc[p].nr
  BY <1>1, Goes DEF DatabaseInv
<1>3. Own(p)'
  BY <1>2, AtWork, OwnOpening
<1> QED BY <1>2, <1>3, AtWork DEF Distinct, Opening

(* rotate_with_cipher: the data stays, the secret changes hands. *)
LEMMA RotateKeyKeeps ==
    ASSUME DatabaseInv, NEW p \in Procs, NEW key \in Keys, NEW new \in Keys, RotateKey(p, key, new)
    PROVE  DatabaseInv'
<1>1. /\ proc[p].pc = "rotate" /\ Goto(p, "exit")
      /\ UNCHANGED <<files, quarantine, holder, config, request, written, commands>>
  BY DEF RotateKey, history
<1>2. proc[p].cmd = "rotate" /\ main # None /\ TargetShape
  BY <1>1, AtWork DEF Opening, Coherent, Opened
<1>3. Visible \in Contents
  BY <1>2, VisibleIs
<1>4. TargetShape' /\ Holds(Visible) \subseteq Holds(Visible') /\ main' # None
  <2>1. CASE RotateRefused(Visible, key)
    BY <1>2, <2>1, Unmoved DEF RotateKey
  <2>2. CASE ~RotateRefused(Visible, key)
    <3>1. Commit(AfterRotate(Visible, new))
      BY <2>2 DEF RotateKey
    <3>2. /\ AfterRotate(Visible, new) \in Contents
          /\ Holds(AfterRotate(Visible, new)) = Holds(Visible)
      BY <1>3, RotatedContent, HoldsContent
    <3> QED BY <1>2, <3>1, <3>2, Committed
  <2> QED BY <2>1, <2>2
<1>5. /\ proc'[p].pc = "exit" /\ proc'[p].cmd = "rotate"
  BY <1>1, <1>2, Goes DEF Places, DatabaseInv
<1>6. Coherent(p)' /\ Opened(p)'
  BY <1>2, <1>5, AtWork, <1>1 DEF Coherent, Opened, Commands, Opening, Copying
<1>7. /\ ProcTyped' /\ Elsewhere(p) /\ Distinct(p) /\ Own(p)' /\ Writer(p)
      /\ holder' \in Procs \cup {None}
  BY <1>1, <1>6, GoesOn DEF Opening
<1> QED BY <1>1, <1>4, <1>5, <1>7, Working

(* ConfigStore::load, with and without a plaintext password to move. *)
LEMMA LoadKeeps ==
    ASSUME DatabaseInv, NEW p \in Procs, NEW key \in Keys, NEW env \in EnvPasswords,
           Load(p, key, env)
    PROVE  DatabaseInv'
<1> DEFINE c == Visible
           d == AfterLoad(c, key, env)
<1>1. /\ proc[p].pc = "load"
      /\ UNCHANGED <<files, quarantine, holder, config, request, written, commands>>
  BY DEF Load, history
<1>2. /\ proc[p].cmd \in {"serve", "admin"} /\ (proc[p].cmd = "serve" <=> p = Server)
      /\ main # None /\ TargetShape /\ Usable(c) /\ holder = p
  BY <1>1, AtWork DEF Opening, Coherent, Opened
<1>3. c \in Contents
  BY <1>2, VisibleIs
<1>4. CASE LoadRefused(c, key)
  <2>1. Goto(p, "exit") /\ UNCHANGED target
    BY <1>4 DEF Load
  <2>2. TargetShape' /\ Visible' = Visible
    BY <1>2, <2>1, Unmoved
  <2>3. proc'[p].pc = "exit" /\ proc'[p].cmd = proc[p].cmd
    BY <2>1, Goes DEF Places, DatabaseInv
  <2>4. Coherent(p)' /\ Opened(p)'
    BY <1>2, <2>3 DEF Coherent, Opened, Commands, Copying
  <2>5. /\ ProcTyped' /\ Elsewhere(p) /\ Distinct(p) /\ Own(p)' /\ Writer(p)
        /\ holder' \in Procs \cup {None}
    BY <1>1, <2>1, <2>4, GoesOn DEF Opening
  <2> QED BY <1>1, <2>2, <2>3, <2>5, Working
<1>5. CASE ~LoadRefused(c, key)
  <2> DEFINE place == IF c.plain # {} THEN "compact" ELSE "migrate"
             r == [[proc[p] EXCEPT !.key = key] EXCEPT !.pc = place]
  <2>1. /\ d \in Contents /\ d.rows = c.rows /\ d.settings = c.settings /\ d.version = c.version
        /\ d.damaged = c.damaged /\ d.plain = {} /\ (d.sealed # None => Decrypts(key, d.sealed))
    BY <1>3, <1>5, LoadContent
  <2>2. Holds(c) = Holds(d) /\ d # None
    BY <1>3, <2>1, HoldsContent, ConstantsAssumption
  <2>3. proc' = [proc EXCEPT ![p] = r]
    BY <1>5 DEF Load
  <2>4. \/ main' = d /\ wal' = None /\ walMode' = FALSE
        \/ Commit(d)
        \/ d = c /\ UNCHANGED target
    BY <1>5 DEF Load
  <2> HIDE DEF d
  <2>5. TargetShape' /\ Visible' = d /\ main' # None
    <3>1. CASE main' = d /\ wal' = None /\ walMode' = FALSE
      <4>1. TargetShape'
        BY <2>1, <2>2, <3>1 DEF TargetShape
      <4> QED BY <2>2, <3>1, <4>1, VisibleIs
    <3>2. CASE Commit(d)
      BY <1>2, <2>1, <2>2, <3>2, Committed
    <3>3. CASE d = c /\ UNCHANGED target
      BY <1>2, <3>3, Unmoved
    <3> QED BY <2>4, <3>1, <3>2, <3>3
  <2>6. /\ proc[p] \in ProcType /\ (p = Server => proc[p].nr = 0)
        /\ p \in Tools => proc[p].nr \in 1..commands
    BY <1>1, AtWork DEF Opening
  <2>7. place \in {"compact", "migrate"}
    OBVIOUS
  <2> HIDE DEF place
  <2>8. /\ r \in ProcType /\ r.pc = place /\ r.cmd = proc[p].cmd /\ r.key = key
        /\ r.nr = proc[p].nr
    BY <2>6, <2>7 DEF ProcType, Places
  <2> HIDE DEF r
  <2>9. ProcTyped' /\ Elsewhere(p) /\ proc'[p] = r
    BY <2>3, <2>8, Moved DEF DatabaseInv
  <2>10. Coherent(p)'
    BY <1>2, <2>7, <2>8, <2>9 DEF Coherent, Commands, Copying
  <2>11. Opened(p)'
    <3>1. Usable(Visible')
      BY <1>2, <2>1, <2>5 DEF Usable
    <3>2. Usable(Visible)'
      BY <3>1 DEF Usable
    <3> QED BY <2>1, <2>5, <2>7, <2>8, <2>9, <3>2 DEF Opened, Decrypts
  <2>12. Own(p)'
    BY <1>1, <1>2, <2>6, <2>7, <2>8, <2>9, <2>10, <2>11, OwnOpening DEF Opening
  <2>13. Distinct(p)
    BY <1>1, <2>8, <2>9 DEF Distinct
  <2>14. Writer(p) /\ holder' \in Procs \cup {None}
    BY <1>1, AtWork DEF Opening, DatabaseInv
  <2> QED BY <1>1, <2>2, <2>5, <2>7, <2>8, <2>9, <2>12, <2>13, <2>14, Working
<1> QED BY <1>4, <1>5

(* WAL mode comes back after the compaction. *)
LEMMA CompactKeeps == ASSUME DatabaseInv, NEW p \in Procs, Compact(p) PROVE DatabaseInv'
<1>1. /\ proc[p].pc = "compact" /\ Goto(p, "migrate") /\ walMode' = TRUE
      /\ UNCHANGED <<main, wal, files, quarantine, holder, config, request, written, commands>>
  BY DEF Compact, history
<1>2. /\ proc[p].cmd \in {"serve", "admin"} /\ (proc[p].cmd = "serve" <=> p = Server)
      /\ main # None /\ TargetShape /\ Opened(p)
  BY <1>1, AtWork DEF Opening, Coherent, Opened
<1>3. TargetShape' /\ Visible' = Visible
  BY <1>1, <1>2 DEF TargetShape, Visible
<1>4. proc'[p].pc = "migrate" /\ proc'[p].cmd = proc[p].cmd /\ proc'[p].key = proc[p].key
  BY <1>1, Goes DEF Places, DatabaseInv
<1>5. Coherent(p)'
  BY <1>2, <1>4 DEF Coherent, Commands, Copying
<1>6. Opened(p)'
  BY <1>1, <1>2, <1>3, <1>4 DEF Opened, Writer
<1>7. /\ ProcTyped' /\ Elsewhere(p) /\ Distinct(p) /\ Own(p)' /\ Writer(p)
      /\ holder' \in Procs \cup {None}
  BY <1>1, <1>5, <1>6, GoesOn DEF Opening
<1> QED BY <1>1, <1>3, <1>4, <1>7, Working

(* merged.validate() refuses: the process only leaves. *)
LEMMA RejectConfigKeeps == ASSUME DatabaseInv, NEW p \in Procs, RejectConfig(p) PROVE DatabaseInv'
<1>1. /\ proc[p].pc = "migrate" /\ proc[p].cmd \in {"serve", "admin"} /\ Goto(p, "exit")
      /\ UNCHANGED <<target, files, quarantine, holder, config, request, written, commands>>
  BY DEF RejectConfig, history
<1>2. /\ (proc[p].cmd = "serve" <=> p = Server) /\ main # None /\ TargetShape
  BY <1>1, AtWork DEF Opening, Coherent, Opened
<1>3. TargetShape' /\ Visible' = Visible
  BY <1>1, <1>2, Unmoved
<1>4. proc'[p].pc = "exit" /\ proc'[p].cmd = proc[p].cmd
  BY <1>1, Goes DEF Places, DatabaseInv
<1>5. Coherent(p)' /\ Opened(p)'
  BY <1>1, <1>2, <1>4 DEF Coherent, Opened, Commands, Copying
<1>6. /\ ProcTyped' /\ Elsewhere(p) /\ Distinct(p) /\ Own(p)' /\ Writer(p)
      /\ holder' \in Procs \cup {None}
  BY <1>1, <1>5, GoesOn DEF Opening
<1> QED BY <1>1, <1>3, <1>4, <1>6, Working

(* migrate_connection: the name of the backup is free and stays so. *)
LEMMA MigrateConnectionKeeps ==
    ASSUME DatabaseInv, NEW p \in Procs, MigrateConnection(p) PROVE DatabaseInv'
<1>1. /\ proc[p].pc = "migrate"
      /\ UNCHANGED <<target, files, quarantine, holder, config, request, written, commands>>
  BY DEF MigrateConnection, history
<1>2. /\ proc[p].cmd \in {"serve", "admin", "migrate"} /\ (proc[p].cmd = "serve" <=> p = Server)
      /\ TargetShape /\ Opened(p) /\ holder = p /\ Writer(p) /\ proc[p] \in ProcType
      /\ p = Server => proc[p].nr = 0
      /\ p \in Tools => proc[p].nr \in 1..commands
  BY <1>1, AtWork DEF Opening, Coherent
<1>3. TargetShape' /\ Visible' = Visible /\ main' = main
  BY <1>1, <1>2, Unmoved
<1>4. ASSUME NEW place \in {"apply", "finish", "exit"}, Goto(p, place),
             place = "apply" => main = None,
             place = "finish" => main # None /\ Visible.version = CURRENT_SCHEMA_VERSION
      PROVE  DatabaseInv'
  <2>1. place \in Opening /\ place \in Places
    BY DEF Opening, Places
  <2>2. proc'[p].pc = place /\ proc'[p].cmd = proc[p].cmd /\ proc'[p].key = proc[p].key
    BY <1>4, <2>1, Goes DEF DatabaseInv
  <2>3. Coherent(p)'
    BY <1>2, <2>2 DEF Coherent, Commands, Copying
  <2>4. Opened(p)'
    BY <1>1, <1>2, <1>3, <1>4, <2>2 DEF Opened, Writer
  <2>5. /\ ProcTyped' /\ Elsewhere(p) /\ Distinct(p) /\ Own(p)' /\ Writer(p)
        /\ holder' \in Procs \cup {None}
    BY <1>1, <1>4, <2>1, <2>3, <2>4, GoesOn DEF Opening
  <2> QED BY <1>1, <1>3, <2>2, <2>5, Working
<1>5. ASSUME NEW path \in Generated, FreshPath(path), main # None,
             proc' = [proc EXCEPT ![p].pc = "copy", ![p].path = path]
      PROVE  DatabaseInv'
  <2> DEFINE r == [[proc[p] EXCEPT !.pc = "copy"] EXCEPT !.path = path]
  <2>1. proc' = [proc EXCEPT ![p] = r]
    BY <1>5
  <2>2. /\ r \in ProcType /\ r.pc = "copy" /\ r.cmd = proc[p].cmd /\ r.key = proc[p].key
        /\ r.nr = proc[p].nr /\ r.path = path
    BY <1>2 DEF ProcType, Places, Copying, Paths
  <2> HIDE DEF r
  <2>3. ProcTyped' /\ Elsewhere(p) /\ proc'[p] = r
    BY <2>1, <2>2, Moved DEF DatabaseInv
  <2>4. Coherent(p)' /\ Locked(p)' /\ Numbered(p)'
    BY <1>1, <1>2, <2>2, <2>3 DEF Coherent, Commands, Copying, Locked, Numbered
  <2>5. files[path] = NoFile
    BY <1>5 DEF FreshPath, FreeNames
  <2>6. Copies(p)'
    BY <1>1, <1>2, <1>3, <1>5, <2>2, <2>3, <2>5 DEF Copies, NoFile
  <2>7. Opened(p)'
    BY <1>1, <1>2, <1>3, <1>5, <2>2, <2>3 DEF Opened, Writer
  <2>8. Restoring(p)'
    BY <1>2, <2>2, <2>3 DEF Restoring
  <2>9. Own(p)' /\ Distinct(p) /\ holder' \in Procs \cup {None}
    BY <1>1, <1>2, <2>2, <2>3, <2>4, <2>6, <2>7, <2>8 DEF Own, Distinct
  <2> QED BY <1>1, <1>2, <1>3, <2>2, <2>3, <2>9, Working
<1> QED BY <1>4, <1>5 DEF MigrateConnection

(* apply_migrations: a refused one leaves the target alone. *)
LEMMA ApplyMigrationsKeeps ==
    ASSUME DatabaseInv, NEW p \in Procs, ApplyMigrations(p) PROVE DatabaseInv'
<1> DEFINE c == IF main = None THEN Fresh ELSE Visible
<1>1. /\ proc[p].pc = "apply"
      /\ UNCHANGED <<files, quarantine, holder, config, request, written, commands>>
  BY DEF ApplyMigrations, history
<1>2. /\ proc[p].cmd \in {"serve", "admin", "migrate"} /\ (proc[p].cmd = "serve" <=> p = Server)
      /\ TargetShape /\ Opened(p) /\ Writer(p)
  BY <1>1, AtWork DEF Opening, Coherent
<1>3. c \in Contents /\ Usable(c) /\ Holds(Visible) \subseteq Holds(c)
  <2>1. CASE main = None
    BY <1>2, <2>1, VisibleIs, FreshContent DEF Holds
  <2>2. CASE main # None
    BY <1>1, <1>2, <2>2, VisibleIs DEF Opened
  <2> QED BY <2>1, <2>2
<1>4. \/ Goto(p, "exit") /\ UNCHANGED target
      \/ Goto(p, "finish") /\ Commit(Migrated(c))
  BY DEF ApplyMigrations
<1>5. main # None => c = Visible
  OBVIOUS
<1> HIDE DEF c
<1>6. CASE Goto(p, "exit") /\ UNCHANGED target
  <2>1. TargetShape' /\ Visible' = Visible
    BY <1>2, <1>6, Unmoved
  <2>2. proc'[p].pc = "exit" /\ proc'[p].cmd = proc[p].cmd
    BY <1>6, Goes DEF Places, DatabaseInv
  <2>3. Coherent(p)' /\ Opened(p)'
    BY <1>2, <2>2 DEF Coherent, Opened, Commands, Copying
  <2>4. /\ ProcTyped' /\ Elsewhere(p) /\ Distinct(p) /\ Own(p)' /\ Writer(p)
        /\ holder' \in Procs \cup {None}
    BY <1>1, <1>6, <2>3, GoesOn DEF Opening
  <2> QED BY <1>1, <2>1, <2>2, <2>4, Working
<1>7. CASE Goto(p, "finish") /\ Commit(Migrated(c))
  <2> DEFINE d == Migrated(c)
  <2>1. /\ d \in Contents /\ d.rows = c.rows /\ d.settings = c.settings
        /\ d.plain = c.plain /\ d.sealed = c.sealed
        /\ d.version = CURRENT_SCHEMA_VERSION /\ (d.damaged <=> c.damaged)
    BY <1>3, MigratedContent
  <2> HIDE DEF d
  <2>2. Holds(c) = Holds(d)
    BY <1>3, <2>1, HoldsContent
  <2>3. TargetShape' /\ Visible' = d /\ main' # None
    BY <1>2, <1>3, <1>7, <2>1, <2>2, Committed DEF d
  <2>4. proc'[p].pc = "finish" /\ proc'[p].cmd = proc[p].cmd /\ proc'[p].key = proc[p].key
    BY <1>7, Goes DEF Places, DatabaseInv
  <2>5. Coherent(p)'
    BY <1>2, <2>4 DEF Coherent, Commands, Copying
  <2>6. Opened(p)'
    <3>1. d.version <= CURRENT_SCHEMA_VERSION /\ ~d.damaged
      BY <1>3, <2>1, ConstantsAssumption DEF Usable
    <3>2. Usable(Visible)'
      BY <2>3, <3>1 DEF Usable
    <3>3. proc[p].cmd \in {"serve", "admin"} =>
            /\ proc[p].key \in Keys /\ d.plain = {}
            /\ d.sealed # None => Decrypts(proc[p].key, d.sealed)
      <4>1. proc[p].cmd \in {"serve", "admin"} => main # None
        BY <1>1, <1>2 DEF Opened
      <4> QED BY <1>1, <1>2, <1>5, <2>1, <4>1 DEF Opened
    <3> QED BY <2>1, <2>3, <2>4, <3>2, <3>3 DEF Opened, Decrypts
  <2>7. /\ ProcTyped' /\ Elsewhere(p) /\ Distinct(p) /\ Own(p)' /\ Writer(p)
        /\ holder' \in Procs \cup {None}
    BY <1>1, <1>7, <2>5, <2>6, GoesOn DEF Opening
  <2> QED BY <1>1, <1>3, <2>2, <2>3, <2>4, <2>7, Working
<1> QED BY <1>4, <1>6, <1>7

(* The configuration a content stores. *)
LEMMA ConfigTyped == ASSUME NEW c \in Contents PROVE MergedConfig(c) \in Configs
BY DEF MergedConfig, Contents, Configs, Secrets

(* The daemon starts to serve what is stored, with no request at work. *)
LEMMA FinishMigrationsKeeps ==
    ASSUME DatabaseInv, NEW p \in Procs, FinishMigrations(p) PROVE DatabaseInv'
<1> DEFINE place == CASE proc[p].cmd = "serve" -> "serving"
                      [] proc[p].cmd = "admin" -> "admin"
                      [] proc[p].cmd = "migrate" -> "exit"
<1>1. /\ proc[p].pc = "finish" /\ Goto(p, place)
      /\ walMode' = (walMode \/ proc[p].cmd # "migrate")
      /\ config' = IF p = Server THEN MergedConfig(Visible) ELSE config
      /\ UNCHANGED <<main, wal, files, quarantine, holder, request, written, commands>>
  BY DEF FinishMigrations, history
<1>2. /\ proc[p].cmd \in {"serve", "admin", "migrate"} /\ (proc[p].cmd = "serve" <=> p = Server)
      /\ TargetShape /\ Opened(p) /\ Writer(p) /\ main # None
  BY <1>1, AtWork DEF Opening, Coherent, Opened
<1>3. /\ place \in {"serving", "admin", "exit"}
      /\ place = "serving" <=> p = Server
      /\ place = "admin" => proc[p].cmd = "admin"
  BY <1>2
<1> HIDE DEF place
<1>4. TargetShape' /\ Visible' = Visible /\ Visible \in Contents
  <2>1. walMode \in BOOLEAN /\ walMode' \in BOOLEAN /\ (walMode => walMode')
    BY <1>1, <1>2 DEF TargetShape
  <2> QED BY <1>1, <1>2, <2>1, VisibleIs DEF TargetShape, Visible
<1>5. /\ proc'[p].pc = place /\ proc'[p].cmd = proc[p].cmd /\ proc'[p].key = proc[p].key
  BY <1>1, <1>3, Goes DEF Places, DatabaseInv
<1>6. Coherent(p)'
  BY <1>2, <1>3, <1>5 DEF Coherent, Commands, Copying
<1>7. Opened(p)'
  BY <1>1, <1>2, <1>3, <1>4, <1>5 DEF Opened, Writer
<1>8. /\ ProcTyped' /\ Elsewhere(p) /\ Distinct(p) /\ Own(p)' /\ Writer(p)
      /\ holder' \in Procs \cup {None}
  BY <1>1, <1>3, <1>6, <1>7, GoesOn DEF Opening
<1>9. CASE p # Server
  <2>1. config' = config
    BY <1>1, <1>9
  <2> QED BY <1>1, <1>4, <1>8, <1>9, <2>1, Working
<1>10. CASE p = Server
  <2>1. \A q \in Procs \ {p} : ~Writer(q)
    BY <1>2, Alone
  <2>2. Discreet(p)
    BY <1>1, <1>8, <2>1 DEF Discreet, DatabaseInv, Shelved
  <2>3. Shelved'
    BY <1>1 DEF DatabaseInv, Shelved, PublishedAreClean
  <2>4. Preserved'
    <3>1. Shelves
      BY <1>1 DEF Shelves
    <3> QED BY <1>1, <1>4, <3>1, StaysPreserved DEF DatabaseInv
  <2>5. config = None /\ \A r \in Requests : request[r] = NoRequest
    BY <1>1, <1>10 DEF DatabaseInv, Configured
  <2>6. config' \in Configs /\ config' # None /\ config' = MergedConfig(Visible')
    BY <1>1, <1>4, <1>10, ConfigTyped, ConstantsAssumption
  <2>7. config'.rev = Visible'.rev /\ Visible'.rev \in Nat
    BY <1>4, <2>6 DEF MergedConfig, Contents
  <2>8. UpToDate(config)'
    BY <2>6, <2>7 DEF UpToDate, MergedConfig
  <2>9. Configured'
    BY <1>1, <1>3, <1>5, <1>10, <2>5, <2>6, <2>8 DEF Configured
  <2> QED BY <1>1, <1>4, <1>8, <2>2, <2>3, <2>4, <2>9, Frame DEF DatabaseInv
<1> QED BY <1>9, <1>10

(* The connection is closed. *)
LEMMA ExitKeeps == ASSUME DatabaseInv, NEW p \in Procs, Exit(p) PROVE DatabaseInv'
<1>1. /\ proc[p].pc = "exit" /\ Close /\ Leave(p)
      /\ UNCHANGED <<files, quarantine, config, request, written, commands>>
  BY DEF Exit, history
<1>2. Writer(p) /\ TargetShape /\ commands \in Nat
  BY <1>1, AtWork DEF Opening
<1>3. TargetShape' /\ Visible' = Visible
  BY <1>1, <1>2, Closed
<1>4. ProcTyped' /\ Elsewhere(p) /\ proc'[p] = Idle /\ holder' \in Procs \cup {None}
  BY <1>1, Leaves DEF DatabaseInv
<1>5. Own(p)' /\ Distinct(p) /\ proc'[p].pc = "idle"
  BY <1>1, <1>2, <1>4, OwnIdle DEF Distinct, Idle
<1> QED BY <1>1, <1>2, <1>3, <1>4, <1>5, Working

-----------------------------------------------------------------------------
(* Starting a process                                                       *)

(* The state a started process begins with. *)
LEMMA RunningIs ==
    ASSUME NEW p \in Procs, NEW cmd \in Commands, commands \in Nat
    PROVE  LET r == Running(p, cmd)
           IN  /\ r \in ProcType /\ r.cmd = cmd /\ r.path = None
               /\ r.nr = IF p = Server THEN 0 ELSE commands + 1
<1> DEFINE n == IF p = Server THEN 0 ELSE commands + 1
<1>1. Running(p, cmd) = [[Idle EXCEPT !.cmd = cmd] EXCEPT !.nr = n]
  BY DEF Running
<1>2. n \in Nat
  OBVIOUS
<1>3. Idle.path = None
  BY DEF Idle
<1> HIDE DEF n
<1>4. Running(p, cmd).nr = n /\ Running(p, cmd).cmd = cmd /\ Running(p, cmd).path = None
  BY <1>1, <1>2, <1>3, IdleTyped DEF ProcType
<1>5. Running(p, cmd) \in ProcType
  BY <1>1, <1>2, IdleTyped DEF ProcType
<1> QED BY <1>4, <1>5 DEF n

(* A started process has a number no quarantine has. *)
LEMMA Launched ==
    ASSUME DatabaseInv, NEW p \in Procs, NEW r \in ProcType, Launch(p, r),
           r.nr = IF p = Server THEN 0 ELSE commands + 1
    PROVE  /\ proc[p] = Idle /\ proc[p].pc = "idle" /\ proc'[p] = r
           /\ ProcTyped' /\ Elsewhere(p) /\ Distinct(p)
           /\ commands \in Nat /\ commands' \in {commands, commands + 1}
           /\ p = Server => r.nr = 0
           /\ p \in Tools => r.nr \in 1..commands' /\ \A q \in quarantine : q.nr # r.nr
<1>1. /\ proc[p] = Idle /\ proc' = [proc EXCEPT ![p] = r]
      /\ commands' = IF p \in Tools THEN commands + 1 ELSE commands
  BY DEF Launch
<1>2. ProcTyped' /\ Elsewhere(p) /\ proc'[p] = r
  BY <1>1, Moved DEF DatabaseInv
<1>3. commands \in Nat /\ \A q \in quarantine : q.nr \in 1..commands
  BY DEF DatabaseInv, Shelved
<1>4. p \in Tools => p # Server
  BY ConstantsAssumption
<1>5. Distinct(p)
  BY <1>2 DEF Distinct
<1>6. p \in Tools => r.nr = commands + 1 /\ commands' = commands + 1
  BY <1>1, <1>4
<1>7. p \in Tools => r.nr \in 1..commands' /\ \A q \in quarantine : q.nr # r.nr
  BY <1>3, <1>6
<1> QED BY <1>1, <1>2, <1>3, <1>5, <1>7 DEF Idle

(* open_for_bootstrap: nobody holds the lock, so nobody works on the        *)
(* target.                                                                  *)
LEMMA OpenForBootstrapKeeps ==
    ASSUME DatabaseInv, NEW p \in Procs, NEW cmd \in {"serve", "admin", "rotate"},
           OpenForBootstrap(p, cmd)
    PROVE  DatabaseInv'
<1> DEFINE place == IF cmd = "rotate" THEN "rotate" ELSE "load"
           r == [Running(p, cmd) EXCEPT !.pc = place]
<1>1. /\ cmd \in IF p = Server THEN {"serve"} ELSE {"admin", "rotate"}
      /\ holder = None /\ holder' = p
      /\ main # None => Usable(Visible)
      /\ main' = IF main = None THEN Fresh ELSE main
      /\ Launch(p, r)
      /\ UNCHANGED <<wal, walMode, files, quarantine, config, request, written>>
  BY DEF OpenForBootstrap
<1>2. TargetShape /\ commands \in Nat /\ cmd \in Commands
  BY DEF DatabaseInv, Shelved, Commands
<1>3. /\ place \in {"rotate", "load"} /\ (place = "rotate" => cmd = "rotate")
      /\ place = "load" => cmd # "rotate"
  OBVIOUS
<1> HIDE DEF place
<1>4. /\ r \in ProcType /\ r.pc = place /\ r.cmd = cmd
      /\ r.nr = IF p = Server THEN 0 ELSE commands + 1
  BY <1>2, <1>3, RunningIs DEF ProcType, Places
<1> HIDE DEF r
<1>5. /\ proc[p] = Idle /\ proc[p].pc = "idle" /\ proc'[p] = r
      /\ ProcTyped' /\ Elsewhere(p) /\ Distinct(p)
      /\ commands \in Nat /\ commands' \in {commands, commands + 1}
      /\ p = Server => r.nr = 0
      /\ p \in Tools => r.nr \in 1..commands' /\ \A q \in quarantine : q.nr # r.nr
  BY <1>1, <1>4, Launched
<1>6. /\ TargetShape' /\ main' # None /\ Holds(Visible) \subseteq Holds(Visible')
      /\ Usable(Visible')
  <2>1. CASE main = None
    <3>1. main' = Fresh /\ wal' = None /\ ~walMode /\ walMode' = walMode
      BY <1>1, <1>2, <2>1 DEF TargetShape
    <3>2. Fresh # None
      BY FreshContent, ConstantsAssumption
    <3>3. TargetShape'
      BY <1>2, <3>1, <3>2, FreshContent DEF TargetShape
    <3>4. Visible' = Fresh /\ Visible = None
      BY <1>2, <2>1, <3>1, <3>2, <3>3, VisibleIs
    <3> QED BY <3>1, <3>2, <3>3, <3>4, FreshContent DEF Holds
  <2>2. CASE main # None
    <3>1. UNCHANGED target
      BY <1>1, <2>2 DEF target
    <3> QED BY <1>1, <1>2, <2>2, <3>1, Unmoved
  <2> QED BY <2>1, <2>2
<1>7. Coherent(p)'
  BY <1>1, <1>3, <1>4, <1>5, <1>2 DEF Coherent, Copying
<1>8. Opened(p)'
  <2>1. Usable(Visible)'
    BY <1>6 DEF Usable
  <2> QED BY <1>3, <1>4, <1>5, <1>6, <2>1 DEF Opened
<1>9. Own(p)'
  BY <1>1, <1>3, <1>4, <1>5, <1>7, <1>8, OwnOpening DEF Opening
<1>10. proc'[p].pc # "serving"
  BY <1>3, <1>4, <1>5
<1> QED BY <1>1, <1>5, <1>6, <1>9, <1>10, Working

(* `db migrate` takes the lock. *)
LEMMA OpenForMigrationKeeps ==
    ASSUME DatabaseInv, NEW p \in Procs, OpenForMigration(p) PROVE DatabaseInv'
<1> DEFINE r == [Running(p, "migrate") EXCEPT !.pc = "migrate"]
<1>1. /\ p \in Tools /\ holder = None /\ holder' = p
      /\ main # None => Usable(Visible)
      /\ Launch(p, r)
      /\ UNCHANGED <<target, files, quarantine, config, request, written>>
  BY DEF OpenForMigration
<1>2. TargetShape /\ commands \in Nat /\ "migrate" \in Commands /\ p # Server
  BY <1>1, ConstantsAssumption DEF DatabaseInv, Shelved, Commands
<1>3. /\ r \in ProcType /\ r.pc = "migrate" /\ r.cmd = "migrate"
      /\ r.nr = IF p = Server THEN 0 ELSE commands + 1
  BY <1>2, RunningIs DEF ProcType, Places
<1> HIDE DEF r
<1>4. /\ proc[p] = Idle /\ proc[p].pc = "idle" /\ proc'[p] = r
      /\ ProcTyped' /\ Elsewhere(p) /\ Distinct(p)
      /\ commands \in Nat /\ commands' \in {commands, commands + 1}
      /\ p = Server => r.nr = 0
      /\ p \in Tools => r.nr \in 1..commands' /\ \A q \in quarantine : q.nr # r.nr
  BY <1>1, <1>3, Launched
<1>5. TargetShape' /\ Visible' = Visible /\ main' = main
  BY <1>1, <1>2, Unmoved
<1>6. Coherent(p)'
  BY <1>2, <1>3, <1>4 DEF Coherent, Copying, Commands
<1>7. Opened(p)'
  <2>1. main' # None => Usable(Visible)'
    BY <1>1, <1>5 DEF Usable
  <2> QED BY <1>3, <1>4, <2>1 DEF Opened
<1>8. Own(p)'
  BY <1>1, <1>3, <1>4, <1>6, <1>7, OwnOpening DEF Opening
<1> QED BY <1>1, <1>2, <1>4, <1>5, <1>8, Working

(* A backup or an export reads without the lock. *)
LEMMA StartBackupKeeps ==
    ASSUME DatabaseInv, NEW p \in Procs, NEW cmd \in {"backup", "export"}, NEW path \in UserPaths,
           StartBackup(p, cmd, path)
    PROVE  DatabaseInv'
<1> DEFINE r == [[Running(p, cmd) EXCEPT !.pc = "copy"] EXCEPT !.path = path]
<1>1. /\ p \in Tools /\ Launch(p, r) /\ main # None
      /\ UNCHANGED <<target, files, quarantine, holder, config, request, written>>
  BY DEF StartBackup
<1>2. TargetShape /\ commands \in Nat /\ cmd \in Commands /\ p # Server
  BY <1>1, ConstantsAssumption DEF DatabaseInv, Shelved, Commands
<1>3. /\ r \in ProcType /\ r.pc = "copy" /\ r.cmd = cmd /\ r.path = path
      /\ r.nr = IF p = Server THEN 0 ELSE commands + 1
  <2> DEFINE b == Running(p, cmd)
             d == [b EXCEPT !.pc = "copy"]
  <2>1. b \in ProcType /\ b.cmd = cmd /\ b.nr = IF p = Server THEN 0 ELSE commands + 1
    BY <1>2, RunningIs
  <2> HIDE DEF b
  <2>2. d \in ProcType /\ d.pc = "copy" /\ d.cmd = b.cmd /\ d.nr = b.nr
    BY <2>1 DEF ProcType, Places, Copying
  <2>3. r = [d EXCEPT !.path = path]
    BY DEF b
  <2> HIDE DEF d, r
  <2>4. r \in ProcType /\ r.pc = d.pc /\ r.cmd = d.cmd /\ r.nr = d.nr /\ r.path = path
    BY <2>2, <2>3 DEF ProcType, Paths
  <2> QED BY <2>1, <2>2, <2>4
<1> HIDE DEF r
<1>4. /\ proc[p] = Idle /\ proc[p].pc = "idle" /\ proc'[p] = r
      /\ ProcTyped' /\ Elsewhere(p) /\ Distinct(p)
      /\ commands \in Nat /\ commands' \in {commands, commands + 1}
      /\ p = Server => r.nr = 0
      /\ p \in Tools => r.nr \in 1..commands' /\ \A q \in quarantine : q.nr # r.nr
  BY <1>1, <1>3, Launched
<1>5. TargetShape' /\ Visible' = Visible /\ main' = main
  BY <1>1, <1>2, Unmoved
<1>6. Coherent(p)' /\ Locked(p)' /\ Numbered(p)' /\ Copies(p)' /\ Opened(p)' /\ Restoring(p)'
  BY <1>1, <1>2, <1>3, <1>4, <1>5
     DEF Coherent, Copying, Commands, Locked, Writer, Numbered, Copies, Opened, Restoring
<1>7. Own(p)' /\ holder' \in Procs \cup {None}
  BY <1>1, <1>6 DEF Own, DatabaseInv
<1> QED BY <1>1, <1>2, <1>4, <1>5, <1>7, Working

(* A restore begins with its source. *)
LEMMA VerifySourceKeeps ==
    ASSUME DatabaseInv, NEW p \in Procs, NEW path \in Paths, VerifySource(p, path)
    PROVE  DatabaseInv'
<1> DEFINE r == [[Running(p, "restore") EXCEPT !.pc = "open"] EXCEPT !.path = path]
<1>1. /\ p \in Tools /\ Launch(p, r) /\ files[path].file # None
      /\ UNCHANGED <<target, files, quarantine, holder, config, request, written>>
  BY DEF VerifySource, Verified
<1>2. TargetShape /\ commands \in Nat /\ "restore" \in Commands /\ p # Server
  BY <1>1, ConstantsAssumption DEF DatabaseInv, Shelved, Commands
<1>3. /\ r \in ProcType /\ r.pc = "open" /\ r.cmd = "restore" /\ r.path = path
      /\ r.nr = IF p = Server THEN 0 ELSE commands + 1
  <2> DEFINE b == Running(p, "restore")
             d == [b EXCEPT !.pc = "open"]
  <2>1. b \in ProcType /\ b.cmd = "restore" /\ b.nr = IF p = Server THEN 0 ELSE commands + 1
    BY <1>2, RunningIs
  <2> HIDE DEF b
  <2>2. d \in ProcType /\ d.pc = "open" /\ d.cmd = b.cmd /\ d.nr = b.nr
    BY <2>1 DEF ProcType, Places
  <2>3. r = [d EXCEPT !.path = path]
    BY DEF b
  <2> HIDE DEF d, r
  <2>4. r \in ProcType /\ r.pc = d.pc /\ r.cmd = d.cmd /\ r.nr = d.nr /\ r.path = path
    BY <2>2, <2>3 DEF ProcType, Paths
  <2> QED BY <2>1, <2>2, <2>4
<1> HIDE DEF r
<1>4. /\ proc[p] = Idle /\ proc[p].pc = "idle" /\ proc'[p] = r
      /\ ProcTyped' /\ Elsewhere(p) /\ Distinct(p)
      /\ commands \in Nat /\ commands' \in {commands, commands + 1}
      /\ p = Server => r.nr = 0
      /\ p \in Tools => r.nr \in 1..commands' /\ \A q \in quarantine : q.nr # r.nr
  BY <1>1, <1>3, Launched
<1>5. TargetShape' /\ Visible' = Visible /\ main' = main
  BY <1>1, <1>2, Unmoved
<1>6. Coherent(p)' /\ Locked(p)' /\ Numbered(p)' /\ Copies(p)' /\ Opened(p)' /\ Restoring(p)'
  BY <1>1, <1>2, <1>3, <1>4
     DEF Coherent, Copying, Commands, Locked, Writer, Numbered, Copies, Opened, Restoring
<1>7. Own(p)' /\ holder' \in Procs \cup {None}
  BY <1>1, <1>6 DEF Own, DatabaseInv
<1> QED BY <1>1, <1>2, <1>4, <1>5, <1>7, Working

-----------------------------------------------------------------------------
(* Serving                                                                  *)

(* The number of the next commit. *)
LEMMA NextIsNumber ==
    ASSUME IsFiniteSet(written)
    PROVE  NextWrite \in Nat /\ IsFiniteSet(written \cup {NextWrite})
<1>1. IsFiniteSet(written \ {0})
  BY FS_Subset
<1>2. Cardinality(written \ {0}) \in Nat
  BY <1>1, FS_CardinalityType
<1>3. IsFiniteSet(written \cup {NextWrite})
  BY FS_AddElement
<1> QED BY <1>2, <1>3 DEF NextWrite

(* A commit adds its number to what is to be kept, and to the target. *)
LEMMA PreservesMore ==
    ASSUME Preserved, Shelves, written' = written \cup {NextWrite},
           Holds(Visible) \subseteq Holds(Visible'), NextWrite \in Holds(Visible')
    PROVE  Preserved'
<1>1. Kept \subseteq Kept'
  BY KeptGrows
<1>2. Holds(Visible)' = Holds(Visible')
  BY DEF Holds
<1>3. IsFiniteSet(written')
  BY NextIsNumber DEF Preserved
<1>4. written' \subseteq Holds(Visible)' \cup Kept'
  BY <1>1, <1>2 DEF Preserved
<1> QED BY <1>3, <1>4 DEF Preserved

(* A row is committed and counted. *)
LEMMA Wrote ==
    ASSUME DatabaseInv, main # None, Commit([Visible EXCEPT !.rows = @ \cup {NextWrite}]),
           written' = written \cup {NextWrite}, files' = files, quarantine' = quarantine
    PROVE  /\ TargetShape' /\ main' # None /\ Visible \in Contents /\ Visible' \in Contents
           /\ Visible'.version = Visible.version /\ Visible'.damaged = Visible.damaged
           /\ Visible'.plain = Visible.plain /\ Visible'.sealed = Visible.sealed
           /\ Visible'.rev = Visible.rev /\ Visible'.settings = Visible.settings
           /\ Preserved'
<1> DEFINE d == [Visible EXCEPT !.rows = @ \cup {NextWrite}]
<1>1. TargetShape /\ Preserved /\ Visible \in Contents
  BY VisibleIs DEF DatabaseInv
<1>2. NextWrite \in Nat
  BY <1>1, NextIsNumber DEF Preserved
<1>3. /\ d \in Contents
      /\ d.rows = Visible.rows \cup {NextWrite} /\ d.settings = Visible.settings
      /\ d.version = Visible.version /\ d.damaged = Visible.damaged
      /\ d.plain = Visible.plain /\ d.sealed = Visible.sealed /\ d.rev = Visible.rev
  BY <1>1, <1>2, RowContent
<1>4. Commit(d)
  OBVIOUS
<1> HIDE DEF d
<1>5. Holds(Visible) \subseteq Holds(d) /\ NextWrite \in Holds(d)
  BY <1>1, <1>3, HoldsContent
<1>6. TargetShape' /\ Visible' = d /\ main' # None
  BY <1>1, <1>3, <1>4, <1>5, Committed
<1>7. Shelves
  BY DEF Shelves
<1>8. Preserved'
  BY <1>1, <1>5, <1>6, <1>7, PreservesMore
<1> QED BY <1>1, <1>3, <1>6, <1>8

(* create_admin_from_cli. *)
LEMMA CreateAdminKeeps == ASSUME DatabaseInv, NEW p \in Procs, CreateAdmin(p) PROVE DatabaseInv'
<1>1. /\ proc[p].pc = "admin" /\ Goto(p, "exit")
      /\ UNCHANGED <<files, quarantine, holder, config, request, commands>>
  BY DEF CreateAdmin
<1>2. proc[p].cmd = "admin" /\ main # None /\ TargetShape /\ p # Server /\ Writer(p)
  BY <1>1, AtWork DEF Opening, Coherent, Opened
<1>3. proc'[p].pc = "exit" /\ proc'[p].cmd = "admin"
  BY <1>1, <1>2, Goes DEF Places, DatabaseInv
<1>4. Coherent(p)' /\ Opened(p)'
  BY <1>2, <1>3 DEF Coherent, Opened, Commands, Copying
<1>5. /\ ProcTyped' /\ Elsewhere(p) /\ Distinct(p) /\ Own(p)' /\ Writer(p)
      /\ holder' \in Procs \cup {None}
  BY <1>1, <1>4, GoesOn DEF Opening
<1>6. CASE UNCHANGED <<target, written>>
  <2>1. TargetShape' /\ Visible' = Visible
    BY <1>2, <1>6, Unmoved
  <2> QED BY <1>1, <1>2, <1>5, <1>6, <2>1, Working
<1>7. CASE /\ Commit([Visible EXCEPT !.rows = @ \cup {NextWrite}])
           /\ written' = written \cup {NextWrite}
  <2>1. TargetShape' /\ Preserved' /\ main' # None
    BY <1>1, <1>2, <1>7, Wrote
  <2>2. \A q \in Procs \ {p} : ~Writer(q)
    BY <1>2, Alone
  <2>3. Discreet(p)
    BY <1>1, <1>5, <2>1, <2>2 DEF Discreet, DatabaseInv, Shelved
  <2>4. Shelved'
    BY <1>1 DEF DatabaseInv, Shelved, PublishedAreClean
  <2>5. Configured'
    BY <1>1, <1>2, <2>3, StaysConfigured
  <2> QED BY <1>1, <1>5, <2>1, <2>3, <2>4, <2>5, Frame DEF DatabaseInv
<1> QED BY <1>6, <1>7 DEF CreateAdmin

(* The daemon at work for its clients. *)
LEMMA Serves ==
    ASSUME DatabaseInv, config # None
    PROVE  /\ proc[Server].pc = "serving" /\ proc[Server].cmd = "serve" /\ proc[Server].key \in Keys
           /\ TargetShape /\ main # None /\ Visible \in Contents /\ Usable(Visible)
           /\ Visible.version = CURRENT_SCHEMA_VERSION /\ Visible.plain = {}
           /\ Visible.sealed # None => Decrypts(proc[Server].key, Visible.sealed)
           /\ holder = Server /\ Writer(Server) /\ Server \in Procs
<1>1. proc[Server].pc = "serving" /\ Server \in Procs
  BY DEF DatabaseInv, Configured, Procs
<1>2. Writer(Server) /\ holder = Server /\ Coherent(Server) /\ Opened(Server) /\ TargetShape
  BY <1>1, AtWork DEF Opening
<1>3. proc[Server].cmd = "serve"
  BY <1>1, <1>2 DEF Coherent
<1>4. /\ main # None /\ Usable(Visible) /\ proc[Server].key \in Keys
      /\ Visible.version = CURRENT_SCHEMA_VERSION /\ Visible.plain = {}
      /\ Visible.sealed # None => Decrypts(proc[Server].key, Visible.sealed)
  BY <1>1, <1>2, <1>3 DEF Opened
<1>5. Visible \in Contents
  BY <1>2, <1>4, VisibleIs
<1> QED BY <1>1, <1>2, <1>3, <1>4, <1>5

(* A step of the daemon for one of its clients. *)
LEMMA ServingStep ==
    ASSUME DatabaseInv, config # None, config' # None,
           UNCHANGED <<proc, holder, files, quarantine, commands>>,
           TargetShape', main' # None, Visible'.version = Visible.version,
           Visible'.damaged = Visible.damaged, Visible'.plain = Visible.plain,
           Visible'.sealed # None => Decrypts(proc[Server].key, Visible'.sealed),
           request' \in [Requests -> [pc : {"idle", "cloned", "saved"}, copy : Configs \cup {None}]],
           Configured', Preserved'
    PROVE  DatabaseInv'
<1>1. /\ proc[Server].pc = "serving" /\ proc[Server].cmd = "serve" /\ proc[Server].key \in Keys
      /\ Usable(Visible) /\ Visible.version = CURRENT_SCHEMA_VERSION /\ Visible.plain = {}
      /\ holder = Server /\ Writer(Server) /\ Server \in Procs
  BY Serves
<1>2. \A q \in Procs \ {Server} : ~Writer(q)
  BY <1>1, Alone
<1>3. Discreet(Server) /\ Distinct(Server)
  BY <1>1, <1>2 DEF Discreet, Distinct, Elsewhere, DatabaseInv, Shelved
<1>4. Shelved' /\ ProcTyped' /\ holder' \in Procs \cup {None}
  BY DEF DatabaseInv, Shelved, PublishedAreClean, ProcTyped
<1>5. Coherent(Server)'
  BY <1>1, AtWork DEF Coherent, Opening
<1>6. Opened(Server)'
  <2>1. Usable(Visible)'
    BY <1>1 DEF Usable
  <2> QED BY <1>1, <2>1 DEF Opened, Decrypts
<1>7. Own(Server)'
  BY <1>1, <1>5, <1>6, AtWork, OwnOpening DEF Opening
<1> QED BY <1>1, <1>3, <1>4, <1>7, Frame

(* A row leaves the configuration alone. *)
LEMMA WriteRowKeeps == ASSUME DatabaseInv, WriteRow PROVE DatabaseInv'
<1>1. /\ proc[Server].pc = "serving"
      /\ Commit([Visible EXCEPT !.rows = @ \cup {NextWrite}])
      /\ written' = written \cup {NextWrite}
      /\ UNCHANGED <<files, quarantine, holder, proc, config, request, commands>>
  BY DEF WriteRow
<1>2. config # None
  BY <1>1 DEF DatabaseInv, Configured
<1>3. main # None
  BY <1>2, Serves
<1>4. /\ TargetShape' /\ main' # None /\ Visible \in Contents /\ Visible' \in Contents
      /\ Visible'.version = Visible.version /\ Visible'.damaged = Visible.damaged
      /\ Visible'.plain = Visible.plain /\ Visible'.sealed = Visible.sealed
      /\ Visible'.rev = Visible.rev /\ Visible'.settings = Visible.settings
      /\ Preserved'
  BY <1>1, <1>3, Wrote
<1>5. MergedConfig(Visible') = MergedConfig(Visible)
  BY <1>4 DEF MergedConfig
<1>6. Configured'
  <2>1. MergedConfig(Visible)' = MergedConfig(Visible')
    BY DEF MergedConfig
  <2>2. \A c : UpToDate(c) => c \in Configs /\ c.rev <= Visible'.rev
                              /\ (c.rev = Visible'.rev => c = MergedConfig(Visible)')
    BY <1>4, <1>5, <2>1 DEF UpToDate
  <2> QED BY <1>1, <2>2 DEF DatabaseInv, Configured, UpToDate
<1>7. Visible'.sealed # None => Decrypts(proc[Server].key, Visible'.sealed)
  BY <1>2, <1>4, Serves
<1> QED BY <1>1, <1>2, <1>4, <1>6, <1>7, ServingStep DEF DatabaseInv

(* A handler of update_config that touches no file. *)
LEMMA RequestStep ==
    ASSUME DatabaseInv, config # None, config' # None,
           UNCHANGED <<target, files, quarantine, holder, proc, written, commands>>,
           request' \in [Requests -> [pc : {"idle", "cloned", "saved"}, copy : Configs \cup {None}]],
           Configured'
    PROVE  DatabaseInv'
<1>1. /\ main # None /\ TargetShape
      /\ Visible.sealed # None => Decrypts(proc[Server].key, Visible.sealed)
  BY Serves
<1>2. TargetShape' /\ Visible' = Visible /\ main' = main
  BY <1>1, Unmoved
<1>3. Shelves
  BY DEF Shelves
<1>4. Preserved'
  BY <1>2, <1>3, StaysPreserved DEF DatabaseInv
<1> QED BY <1>1, <1>2, <1>4, ServingStep

(* A handler works on a copy of a configuration that was stored. *)
LEMMA InRequest ==
    ASSUME DatabaseInv, NEW r \in Requests, request[r].pc \in {"cloned", "saved"}
    PROVE  config # None /\ UpToDate(request[r].copy) /\ request[r].copy \in Configs
<1>1. request[r] # NoRequest
  BY DEF NoRequest
<1> QED BY <1>1 DEF DatabaseInv, Configured, UpToDate

(* A configuration stays up to date while the target is left alone. *)
LEMMA UnmovedVisible ==
    ASSUME UNCHANGED target
    PROVE  /\ \A c : UpToDate(c) <=> c \in Configs /\ c.rev <= Visible'.rev
                                      /\ (c.rev = Visible'.rev => c = MergedConfig(Visible)')
<1>1. Visible' = Visible
  BY DEF target, Visible
<1> QED BY <1>1 DEF UpToDate, MergedConfig

(* A handler clones the configuration. *)
LEMMA BeginUpdateKeeps == ASSUME DatabaseInv, NEW r \in Requests, BeginUpdate(r) PROVE DatabaseInv'
<1> DEFINE new == [pc |-> "cloned", copy |-> config]
<1>1. /\ config # None /\ request' = [request EXCEPT ![r] = new]
      /\ UNCHANGED <<target, files, quarantine, holder, proc, config, written, commands>>
  BY DEF BeginUpdate, history
<1>2. UpToDate(config) /\ config \in Configs
  BY <1>1 DEF DatabaseInv, Configured, UpToDate
<1>3. /\ new \in [pc : {"idle", "cloned", "saved"}, copy : Configs \cup {None}]
      /\ new.pc = "cloned" /\ new.copy = config
  BY <1>2
<1> HIDE DEF new
<1>4. /\ request' \in [Requests -> [pc : {"idle", "cloned", "saved"}, copy : Configs \cup {None}]]
      /\ request'[r] = new /\ \A o \in Requests \ {r} : request'[o] = request[o]
  BY <1>1, <1>3 DEF DatabaseInv
<1>5. Configured'
  BY <1>1, <1>2, <1>3, <1>4, UnmovedVisible DEF DatabaseInv, Configured, UpToDate
<1> QED BY <1>1, <1>4, <1>5, RequestStep

(* A handler ends, and may install its copy. *)
LEMMA EndRequest ==
    ASSUME DatabaseInv, NEW r \in Requests, request[r].pc \in {"cloned", "saved"},
           config' \in {config, request[r].copy},
           request' = [request EXCEPT ![r] = NoRequest],
           UNCHANGED <<target, files, quarantine, holder, proc, written, commands>>
    PROVE  DatabaseInv'
<1>1. config # None /\ UpToDate(config) /\ UpToDate(request[r].copy) /\ request[r].copy \in Configs
  BY InRequest DEF DatabaseInv, Configured
<1>2. config' # None /\ UpToDate(config')
  BY <1>1, ConstantsAssumption
<1>3. /\ NoRequest \in [pc : {"idle", "cloned", "saved"}, copy : Configs \cup {None}]
  BY DEF NoRequest
<1>4. /\ request' \in [Requests -> [pc : {"idle", "cloned", "saved"}, copy : Configs \cup {None}]]
      /\ request'[r] = NoRequest /\ \A o \in Requests \ {r} : request'[o] = request[o]
  BY <1>3 DEF DatabaseInv
<1>5. proc'[Server].pc = "serving"
  BY <1>1 DEF DatabaseInv, Configured
<1>6. Configured'
  BY <1>1, <1>2, <1>4, <1>5, UnmovedVisible DEF DatabaseInv, Configured, UpToDate
<1> QED BY <1>1, <1>2, <1>4, <1>6, RequestStep

(* A saved configuration is installed, or the request dropped before that. *)
LEMMA InstallConfigKeeps ==
    ASSUME DatabaseInv, NEW r \in Requests, InstallConfig(r) \/ DropUpdate(r) PROVE DatabaseInv'
BY EndRequest DEF InstallConfig, DropUpdate, history

(* A save that passes the revision check was cloned from what is stored,    *)
(* so it loses no update; every other copy in memory becomes an old one.    *)
LEMMA SaveConfigKeeps ==
    ASSUME DatabaseInv, NEW r \in Requests, NEW mode \in {"keep", "clear", "replace"},
           NEW password \in Passwords \cup {None}, mode = "replace" => password \in Passwords,
           SaveConfig(r, mode, password)
    PROVE  DatabaseInv'
<1> DEFINE base == request[r].copy
           next == NextConfig(base, mode, password, NextWrite)
           d == AfterSave(Visible, next, mode, proc[Server].key)
<1>1. /\ request[r].pc = "cloned"
      /\ UNCHANGED <<files, quarantine, holder, proc, config, commands>>
  BY DEF SaveConfig
<1>2. config # None /\ UpToDate(base) /\ base \in Configs
  BY <1>1, InRequest
<1>3. /\ proc[Server].pc = "serving" /\ proc[Server].key \in Keys
      /\ TargetShape /\ main # None /\ Visible \in Contents
      /\ Visible.sealed # None => Decrypts(proc[Server].key, Visible.sealed)
  BY <1>2, Serves
<1>4. CASE SaveRefused(Visible, base.rev)
  <2>1. request' = [request EXCEPT ![r] = NoRequest] /\ UNCHANGED <<target, written>>
    BY <1>4 DEF SaveConfig
  <2> QED BY <1>1, <2>1, EndRequest
<1>5. CASE ~SaveRefused(Visible, base.rev)
  <2> DEFINE new == [pc |-> "saved", copy |-> next]
  <2>1. /\ Commit(d) /\ written' = written \cup {NextWrite}
        /\ request' = [request EXCEPT ![r] = new]
    BY <1>5 DEF SaveConfig
  <2>2. base = MergedConfig(Visible)
    BY <1>2, <1>5 DEF UpToDate, SaveRefused
  <2>3. NextWrite \in Nat /\ Preserved
    BY NextIsNumber DEF DatabaseInv, Preserved
  <2>4. /\ d \in Contents /\ next \in Configs
        /\ d.rows = Visible.rows /\ d.settings = Visible.settings \cup {NextWrite}
        /\ d.version = Visible.version /\ d.damaged = Visible.damaged /\ d.plain = Visible.plain
        /\ d.sealed # None => Decrypts(proc[Server].key, d.sealed)
        /\ d.rev = Visible.rev + 1 /\ next.rev = Visible.rev + 1
        /\ MergedConfig(d) = next
    BY <1>3, <2>2, <2>3, SavedContent
  <2> HIDE DEF d, next
  <2>5. Holds(Visible) \subseteq Holds(d) /\ NextWrite \in Holds(d)
    BY <1>3, <2>4, HoldsContent
  <2>6. TargetShape' /\ Visible' = d /\ main' # None
    BY <1>3, <2>1, <2>4, <2>5, Committed
  <2>7. Preserved'
    <3>1. Shelves
      BY <1>1 DEF Shelves
    <3> QED BY <2>1, <2>3, <2>5, <2>6, <3>1, PreservesMore
  <2>8. /\ new \in [pc : {"idle", "cloned", "saved"}, copy : Configs \cup {None}]
        /\ new.pc = "saved" /\ new.copy = next
    BY <2>4
  <2> HIDE DEF new
  <2>9. /\ request' \in [Requests -> [pc : {"idle", "cloned", "saved"}, copy : Configs \cup {None}]]
        /\ request'[r] = new /\ \A o \in Requests \ {r} : request'[o] = request[o]
    BY <2>1, <2>8 DEF DatabaseInv
  <2>10. Configured'
    <3>1. Visible.rev \in Nat
      BY <1>3 DEF Contents
    <3>2. \A c : UpToDate(c) => c \in Configs /\ c.rev <= Visible'.rev /\ c.rev # Visible'.rev
      BY <2>4, <2>6, <3>1 DEF UpToDate, Configs
    <3>3. next.rev <= Visible'.rev /\ next = MergedConfig(Visible)'
      <4>1. MergedConfig(Visible)' = MergedConfig(Visible')
        BY DEF MergedConfig
      <4> QED BY <2>4, <2>6, <3>1, <4>1
    <3> QED BY <1>1, <1>2, <2>4, <2>8, <2>9, <3>2, <3>3 DEF DatabaseInv, Configured, UpToDate
  <2> QED BY <1>1, <1>2, <2>4, <2>6, <2>7, <2>9, <2>10, ServingStep
<1> QED BY <1>4, <1>5

(* The daemon stops serving. *)
LEMMA StopKeeps == ASSUME DatabaseInv, Stop PROVE DatabaseInv'
<1>1. /\ proc[Server].pc = "serving" /\ Goto(Server, "exit") /\ config' = None
      /\ \A r \in Requests : request[r] = NoRequest
      /\ UNCHANGED <<target, files, quarantine, holder, request, written, commands>>
  BY DEF Stop, history
<1>2. config # None /\ Server \in Procs
  BY <1>1 DEF DatabaseInv, Configured, Procs
<1>3. Writer(Server) /\ proc[Server].cmd = "serve" /\ TargetShape
  BY <1>2, Serves
<1>4. proc'[Server].pc = "exit" /\ proc'[Server].cmd = "serve"
  BY <1>1, <1>2, <1>3, Goes DEF Places, DatabaseInv
<1>5. Coherent(Server)' /\ Opened(Server)'
  BY <1>3, <1>4 DEF Coherent, Opened, Commands, Copying
<1>6. /\ ProcTyped' /\ Elsewhere(Server) /\ Distinct(Server) /\ Own(Server)'
      /\ holder' \in Procs \cup {None}
  BY <1>1, <1>2, <1>5, GoesOn DEF Opening
<1>7. TargetShape' /\ Visible' = Visible /\ main' = main
  BY <1>1, <1>3, Unmoved
<1>8. \A q \in Procs \ {Server} : ~Writer(q)
  BY <1>2, <1>3, Alone
<1>9. Discreet(Server)
  BY <1>1, <1>6, <1>7, <1>8 DEF Discreet, DatabaseInv, Shelved
<1>10. Shelved'
  BY <1>1 DEF DatabaseInv, Shelved, PublishedAreClean
<1>11. Preserved'
  <2>1. Shelves
    BY <1>1 DEF Shelves
  <2> QED BY <1>1, <1>7, <2>1, StaysPreserved DEF DatabaseInv
<1>12. Configured'
  BY <1>1, <1>4 DEF Configured
<1> QED BY <1>1, <1>2, <1>6, <1>7, <1>9, <1>10, <1>11, <1>12, Frame DEF DatabaseInv

-----------------------------------------------------------------------------
(* Faults                                                                   *)

(* The file is damaged while no process runs. *)
LEMMA DamageKeeps == ASSUME DatabaseInv, Damage PROVE DatabaseInv'
<1> DEFINE d == [main EXCEPT !.damaged = TRUE]
<1>1. /\ main # None /\ wal = None /\ main' = d
      /\ \A p \in Procs : proc[p] = Idle
      /\ UNCHANGED <<wal, walMode, files, quarantine, holder, proc, config, request,
                     written, commands>>
  BY DEF Damage
<1>2. main \in Contents /\ TargetShape /\ Server \in Procs
  BY <1>1 DEF DatabaseInv, TargetShape, Procs
<1>3. d \in Contents /\ d.rows = main.rows /\ d.settings = main.settings /\ d # None
  BY <1>2, DamagedContent, ConstantsAssumption
<1> HIDE DEF d
<1>4. TargetShape'
  BY <1>1, <1>2, <1>3 DEF TargetShape
<1>5. Visible = main /\ Visible' = d
  BY <1>1, <1>2, <1>4, VisibleIs
<1>6. Holds(Visible) \subseteq Holds(Visible')
  BY <1>2, <1>3, <1>5, HoldsContent
<1>7. \A q \in Procs : ~Writer(q) /\ proc[q].pc = "idle"
  BY <1>1 DEF Writer, Idle
<1>8. Discreet(Server) /\ Distinct(Server)
  BY <1>1, <1>2, <1>3, <1>7 DEF Discreet, Distinct, Elsewhere, DatabaseInv, Shelved
<1>9. Shelved' /\ ProcTyped' /\ holder' \in Procs \cup {None}
  BY <1>1 DEF DatabaseInv, Shelved, PublishedAreClean, ProcTyped
<1>10. Own(Server)'
  BY <1>1, <1>2, OwnIdle
<1>11. Preserved'
  <2>1. Shelves
    BY <1>1 DEF Shelves
  <2> QED BY <1>1, <1>6, <2>1, StaysPreserved DEF DatabaseInv
<1>12. Configured'
  <2>1. Server = Server => proc[Server].pc # "serving" /\ proc'[Server].pc # "serving"
    BY <1>1, <1>2, <1>7
  <2> QED BY <1>1, <1>2, <1>8, <2>1, StaysConfigured
<1> QED BY <1>1, <1>2, <1>4, <1>8, <1>9, <1>10, <1>11, <1>12, Frame DEF DatabaseInv

(* A process ends.  A quarantine it takes along is of a target that is still there. *)
LEMMA Quits ==
    ASSUME DatabaseInv, NEW p \in Procs, Leave(p),
           UNCHANGED <<target, files, written, commands>>,
           quarantine' = quarantine \/ Writer(p),
           quarantine' \subseteq quarantine,
           \A q \in quarantine \ quarantine' : InQuarantine(q) \subseteq Holds(Visible),
           \/ p = Server /\ config' = None /\ request' = [r \in Requests |-> NoRequest]
           \/ config' = config /\ request' = request /\ (p = Server => proc[p].pc # "serving")
    PROVE  DatabaseInv'
<1>1. /\ ProcTyped' /\ Elsewhere(p) /\ proc'[p] = Idle /\ proc'[p].pc = "idle"
      /\ holder' \in Procs \cup {None} /\ (holder # p => holder' = holder)
  BY Leaves DEF DatabaseInv, Idle
<1>2. TargetShape /\ commands \in Nat
  BY DEF DatabaseInv, Shelved
<1>3. TargetShape' /\ Visible' = Visible /\ main' = main
  BY <1>2, Unmoved
<1>4. Own(p)' /\ Distinct(p)
  BY <1>1, <1>2, OwnIdle DEF Distinct
<1>5. Discreet(p)
  <2>1. \A q \in Procs \ {p} : Writer(q) => Calm
    <3> SUFFICES ASSUME NEW q \in Procs \ {p}, Writer(q) PROVE Calm
      OBVIOUS
    <3>1. holder = q /\ ~Writer(p)
      BY Alone
    <3> QED BY <1>1, <3>1 DEF Calm, target
  <2> QED BY <1>1, <1>2, <1>3, <2>1 DEF Discreet
<1>6. Shelved'
  BY DEF DatabaseInv, Shelved, PublishedAreClean
<1>7. Preserved'
  <2>1. \A x : x \in Kept => x \in Holds(Visible) \cup Kept'
    <3> SUFFICES ASSUME NEW x, x \in Kept PROVE x \in Holds(Visible) \cup Kept'
      OBVIOUS
    <3>1. CASE \E g \in Generated : Verified(g) /\ x \in Holds(files[g].file)
      BY <3>1, KeptIs DEF Verified, Holds
    <3>2. CASE \E q \in quarantine : x \in InQuarantine(q)
      BY <3>2, KeptIs
    <3> QED BY <3>1, <3>2, KeptIs
  <2>2. Holds(Visible)' = Holds(Visible)
    BY <1>3 DEF Holds
  <2> QED BY <2>1, <2>2 DEF DatabaseInv, Preserved
<1>8. CASE p = Server /\ config' = None /\ request' = [r \in Requests |-> NoRequest]
  <2>1. NoRequest \in [pc : {"idle", "cloned", "saved"}, copy : Configs \cup {None}]
    BY DEF NoRequest
  <2>2. /\ request' \in [Requests -> [pc : {"idle", "cloned", "saved"}, copy : Configs \cup {None}]]
        /\ \A r \in Requests : request'[r] = NoRequest
    BY <1>8, <2>1
  <2>3. Configured'
    BY <1>1, <1>8, <2>2 DEF Configured
  <2> QED BY <1>1, <1>3, <1>4, <1>5, <1>6, <1>7, <2>2, <2>3, Frame
<1>9. CASE config' = config /\ request' = request /\ (p = Server => proc[p].pc # "serving")
  <2>1. Configured'
    BY <1>1, <1>5, <1>9, StaysConfigured
  <2> QED BY <1>1, <1>3, <1>4, <1>5, <1>6, <1>7, <1>9, <2>1, Frame DEF DatabaseInv
<1> QED BY <1>8, <1>9

(* Whatever a killed process was doing, the facts about the files stay. *)
LEMMA CrashKeeps == ASSUME DatabaseInv, NEW p \in Procs, Crash(p) PROVE DatabaseInv'
BY Quits DEF Crash

(* What is known of a process in the middle of a copy. *)
LEMMA AtCopy ==
    ASSUME DatabaseInv, NEW p \in Procs, proc[p].pc \in Copying
    PROVE  /\ proc[p] \in ProcType /\ TargetShape /\ commands \in Nat
           /\ Coherent(p) /\ Locked(p) /\ Opened(p) /\ Copies(p) /\ Restoring(p)
           /\ proc[p].cmd \in Commands \ {"rotate"} /\ (proc[p].cmd = "serve" <=> p = Server)
           /\ p = Server => proc[p].nr = 0
           /\ p \in Tools => proc[p].nr \in 1..commands
           /\ proc[p].cmd \notin {"backup", "export"} =>
                 Writer(p) /\ holder = p /\ proc[p].path \in Generated
           /\ proc[p].cmd \in {"backup", "export"} => proc[p].path \in UserPaths
           /\ proc[p].path \in Paths
           /\ main # None /\ Visible \in Contents
<1>1. Own(p) /\ proc[p] \in ProcType /\ TargetShape /\ commands \in Nat
  BY DEF DatabaseInv, ProcTyped, Shelved
<1>2. Coherent(p) /\ Numbered(p) /\ Locked(p) /\ Opened(p) /\ Copies(p) /\ Restoring(p)
  BY <1>1 DEF Own
<1>3. /\ proc[p].cmd \in Commands \ {"rotate"} /\ (proc[p].cmd = "serve" <=> p = Server)
      /\ proc[p].pc \notin {"idle", "open", "lock", "exit", "migrate", "apply"}
  BY <1>2 DEF Coherent, Copying
<1>4. proc[p].cmd \notin {"backup", "export"} => Writer(p) /\ holder = p
  BY <1>2, <1>3 DEF Writer, Locked
<1>5. /\ proc[p].cmd \notin {"backup", "export"} => proc[p].path \in Generated
      /\ proc[p].cmd \in {"backup", "export"} => proc[p].path \in UserPaths
  BY <1>2 DEF Copies
<1>6. main # None
  BY <1>2 DEF Copies
<1>7. Visible \in Contents
  BY <1>1, <1>6, VisibleIs
<1> QED BY <1>1, <1>2, <1>3, <1>4, <1>5, <1>6, <1>7 DEF Numbered, Paths

(* An error while the target is preserved takes the quarantine along, with  *)
(* the target still in place.                                               *)
LEMMA FailKeeps == ASSUME DatabaseInv, NEW p \in Procs, Fail(p) PROVE DatabaseInv'
<1>1. /\ proc[p].pc \in {"compact", "copy", "publish", "hash", "sum", "apply", "preserve",
                         "discard", "install", "swap"}
      /\ UNCHANGED <<target, files, config, request, written, commands>>
  BY DEF Fail
<1>2. /\ Own(p) /\ proc[p] \in ProcType /\ TargetShape /\ commands \in Nat
      /\ holder \in Procs \cup {None}
  BY DEF DatabaseInv, ProcTyped, Shelved
<1>3. /\ proc[p].cmd \in Commands /\ (proc[p].cmd = "serve" <=> p = Server)
      /\ p = Server => proc[p].nr = 0
      /\ p \in Tools => proc[p].nr \in 1..commands
  BY <1>1, <1>2 DEF Own, Coherent, Numbered
<1>4. CASE proc[p].cmd \in {"serve", "admin", "migrate"}
  <2>1. Goto(p, "exit") /\ holder' = holder /\ quarantine' = quarantine
    BY <1>4 DEF Fail
  <2>2. Writer(p) /\ holder = p
    BY <1>1, <1>2, <1>4 DEF Own, Locked, Writer
  <2>3. /\ ProcTyped' /\ Elsewhere(p)
        /\ proc'[p].pc = "exit" /\ proc'[p].cmd = proc[p].cmd /\ proc'[p].nr = proc[p].nr
    BY <2>1, Goes DEF Places, DatabaseInv
  <2>4. Coherent(p)' /\ Opened(p)'
    BY <1>3, <1>4, <2>3 DEF Coherent, Opened, Commands, Copying
  <2>5. Own(p)' /\ Distinct(p)
    BY <1>1, <1>3, <2>1, <2>2, <2>3, <2>4, OwnOpening DEF Opening, Distinct
  <2>6. TargetShape' /\ Visible' = Visible
    BY <1>1, <1>2, Unmoved
  <2> QED BY <1>1, <1>2, <2>1, <2>2, <2>3, <2>5, <2>6, Working
<1>5. CASE proc[p].cmd \notin {"serve", "admin", "migrate"}
  <2>1. Leave(p)
    BY <1>5 DEF Fail
  <2>2. CASE proc[p].cmd = "restore" /\ proc[p].pc \in Copying
    <3>1. quarantine' = {q \in quarantine : q.nr # proc[p].nr}
      BY <2>2 DEF Fail, Copying
    <3>2. \A q \in quarantine \ quarantine' : InQuarantine(q) \subseteq Holds(Visible)
      BY <2>2, <3>1, <1>1, <1>2 DEF Own, Restoring
    <3>3. Writer(p)
      BY <1>1, <2>2 DEF Writer
    <3> QED BY <1>1, <1>3, <2>1, <3>1, <3>2, <3>3, Quits
  <2>3. CASE ~(proc[p].cmd = "restore" /\ proc[p].pc \in Copying)
    <3>1. quarantine' = quarantine
      BY <2>3 DEF Fail, Copying
    <3> QED BY <1>1, <2>1, <3>1, Quits
  <2> QED BY <2>2, <2>3
<1> QED BY <1>4, <1>5

-----------------------------------------------------------------------------
(* Backups and exports                                                      *)

(* Untouched shelves keep what they hold. *)
LEMMA KeptSame == ASSUME files' = files, quarantine' = quarantine PROVE Kept' = Kept
BY DEF Kept, Verified, Holds, InQuarantine

(* The copy goes on; of the files only its destination changes. *)
LEMMA CopyStep ==
    ASSUME DatabaseInv, NEW p \in Procs, proc[p].pc \in Copying, NEW r \in ProcType,
           proc' = [proc EXCEPT ![p] = r],
           r.pc = "idle" \/ r.nr = proc[p].nr, r.pc # "serving",
           holder' \in Procs \cup {None}, holder # p => holder' = holder,
           NEW file \in FileType, files' = [files EXCEPT ![proc[p].path] = file],
           files[proc[p].path].file # None => file.file # None,
           \/ file.file = files[proc[p].path].file
           \/ ~file.file.damaged /\ file.file.plain = {},
           proc[p].path \in Generated /\ Verified(proc[p].path) => file = files[proc[p].path],
           UNCHANGED <<target, quarantine, config, request, written, commands>>,
           Own(p)'
    PROVE  DatabaseInv'
<1> DEFINE path == proc[p].path
<1>1. /\ TargetShape /\ commands \in Nat /\ path \in Paths
      /\ proc[p].cmd \notin {"backup", "export"} => Writer(p)
      /\ proc[p].cmd \in {"backup", "export"} => path \in UserPaths
  BY AtCopy
<1>2. ProcTyped' /\ Elsewhere(p) /\ proc'[p] = r
  BY Moved DEF DatabaseInv
<1>3. TargetShape' /\ Visible' = Visible /\ main' = main
  BY <1>1, Unmoved
<1>4. /\ files \in [Paths -> FileType] /\ files' \in [Paths -> FileType]
      /\ files'[path] = file /\ \A f \in Paths \ {path} : files'[f] = files[f]
  BY <1>1 DEF DatabaseInv, Shelved
<1>5. Discreet(p)
  <2>1. \A q \in Procs \ {p} : Writer(q) => Calm
    <3> SUFFICES ASSUME NEW q \in Procs \ {p}, Writer(q) PROVE Calm
      OBVIOUS
    <3>1. ~Writer(p) /\ holder = q
      BY Alone
    <3>2. path \in UserPaths
      BY <1>1, <3>1
    <3>3. \A g \in Generated : g \in Paths \ {path}
      BY <3>2, ConstantsAssumption DEF Paths
    <3> QED BY <1>4, <3>1, <3>3 DEF Calm, target
  <2> QED BY <1>1, <1>2, <1>3, <1>4, <2>1 DEF Discreet
<1>6. Shelved'
  <2>1. PublishedAreClean'
    BY <1>1, <1>4 DEF DatabaseInv, Shelved, PublishedAreClean
  <2> QED BY <1>4, <2>1 DEF DatabaseInv, Shelved
<1>7. Preserved'
  <2>1. Shelves
    BY <1>4 DEF Shelves, Paths
  <2> QED BY <1>3, <2>1, StaysPreserved DEF DatabaseInv
<1>8. Distinct(p)
  BY <1>2 DEF Distinct, Copying
<1>9. Configured'
  BY <1>2, <1>5, StaysConfigured DEF Copying
<1> QED BY <1>2, <1>3, <1>5, <1>6, <1>7, <1>8, <1>9, Frame DEF DatabaseInv

(* What remains to be shown of a process that copies. *)
LEMMA OwnCopying ==
    ASSUME DatabaseInv, NEW p \in Procs, proc[p].pc \in Copying, proc'[p].pc \in Copying,
           proc'[p].cmd = proc[p].cmd, proc'[p].nr = proc[p].nr, proc'[p].key = proc[p].key,
           UNCHANGED <<target, holder, commands>>, Copies(p)', Restoring(p)'
    PROVE  Own(p)'
<1>1. /\ Coherent(p) /\ Locked(p) /\ Opened(p) /\ TargetShape /\ main # None
      /\ proc[p].cmd \in Commands \ {"rotate"} /\ (proc[p].cmd = "serve" <=> p = Server)
      /\ p = Server => proc[p].nr = 0
      /\ p \in Tools => proc[p].nr \in 1..commands
  BY AtCopy
<1>2. Visible' = Visible /\ main' = main
  BY <1>1, Unmoved
<1>3. Coherent(p)' /\ Numbered(p)'
  BY <1>1 DEF Coherent, Numbered, Copying
<1>4. Locked(p)'
  BY <1>1 DEF Locked, Writer, Copying
<1>5. Opened(p)'
  BY <1>1, <1>2 DEF Opened, Writer, Copying
<1> QED BY <1>3, <1>4, <1>5 DEF Own

(* A restore goes on without a backup only when its quarantine holds the    *)
(* target.                                                                  *)
LEMMA CopySnapshotKeeps == ASSUME DatabaseInv, NEW p \in Procs, CopySnapshot(p) PROVE DatabaseInv'
<1> DEFINE cmd == proc[p].cmd
           c == Visible
<1>1. /\ proc[p].pc = "copy"
      /\ UNCHANGED <<target, files, config, request, written, commands>>
  BY DEF CopySnapshot, history
<1>2. /\ proc[p] \in ProcType /\ TargetShape /\ commands \in Nat
      /\ Opened(p) /\ Copies(p) /\ Restoring(p)
      /\ cmd \in Commands \ {"rotate"} /\ (cmd = "serve" <=> p = Server)
      /\ p = Server => proc[p].nr = 0
      /\ p \in Tools => proc[p].nr \in 1..commands
      /\ cmd \notin {"backup", "export"} => Writer(p) /\ holder = p /\ proc[p].path \in Generated
      /\ cmd \in {"backup", "export"} => proc[p].path \in UserPaths
      /\ main # None /\ c \in Contents
  BY <1>1, AtCopy DEF Copying
<1>3. TargetShape' /\ Visible' = Visible /\ main' = main
  BY <1>1, <1>2, Unmoved
<1>4. holder \in Procs \cup {None}
  BY DEF DatabaseInv
<1>5. ASSUME ~CopyRefused(cmd, c), UNCHANGED <<quarantine, holder>>,
             proc' = [proc EXCEPT ![p].pc = "publish",
                                  ![p].snap = IF cmd = "export" THEN LegacyExport(c) ELSE c]
      PROVE  DatabaseInv'
  <2> DEFINE snap == IF cmd = "export" THEN LegacyExport(c) ELSE c
             r == [[proc[p] EXCEPT !.pc = "publish"] EXCEPT !.snap = snap]
  <2>1. proc' = [proc EXCEPT ![p] = r]
    BY <1>5
  <2>2. snap \in Contents /\ ~snap.damaged /\ snap.plain = {} /\ (cmd # "export" => snap = c)
    BY <1>2, <1>5, ExportContent DEF CopyRefused
  <2> HIDE DEF snap
  <2>3. /\ r \in ProcType /\ r.pc = "publish" /\ r.cmd = cmd /\ r.key = proc[p].key
        /\ r.nr = proc[p].nr /\ r.path = proc[p].path /\ r.snap = snap /\ r.source = proc[p].source
    BY <1>2, <2>2 DEF ProcType, Places, Copying
  <2> HIDE DEF r
  <2>4. ProcTyped' /\ Elsewhere(p) /\ proc'[p] = r
    BY <2>1, <2>3, Moved DEF DatabaseInv
  <2>5. Copies(p)'
    BY <1>1, <1>2, <1>3, <2>2, <2>3, <2>4 DEF Copies, Copying
  <2>6. Restoring(p)'
    <3>1. CASE cmd = "restore"
      <4>1. Holds(Visible)' = Holds(Visible) /\ Holds(snap) = Holds(Visible)
        BY <1>3, <2>2, <3>1 DEF Holds
      <4> QED BY <1>1, <1>2, <1>3, <1>5, <2>2, <2>3, <2>4, <3>1, <4>1 DEF Restoring, Copying, Holds
    <3>2. CASE cmd # "restore"
      BY <2>3, <2>4, <3>2 DEF Restoring
    <3> QED BY <3>1, <3>2
  <2>7. Own(p)' /\ Distinct(p)
    BY <1>1, <1>5, <2>3, <2>4, <2>5, <2>6, OwnCopying DEF Copying, Distinct
  <2> QED BY <1>1, <1>3, <1>4, <1>5, <2>3, <2>4, <2>7, Working
<1>6. ASSUME cmd = "restore", UNCHANGED <<quarantine, holder>>,
             proc' = [proc EXCEPT ![p].pc = "install", ![p].path = None]
      PROVE  DatabaseInv'
  <2> DEFINE r == [[proc[p] EXCEPT !.pc = "install"] EXCEPT !.path = None]
  <2>1. proc' = [proc EXCEPT ![p] = r]
    BY <1>6
  <2>2. /\ r \in ProcType /\ r.pc = "install" /\ r.cmd = "restore"
        /\ r.nr = proc[p].nr /\ r.source = proc[p].source
    BY <1>2, <1>6 DEF ProcType, Places
  <2> HIDE DEF r
  <2>3. ProcTyped' /\ Elsewhere(p) /\ proc'[p] = r
    BY <2>1, <2>2, Moved DEF DatabaseInv
  <2>4. written \subseteq Kept
    <3>1. PICK q \in quarantine : Holds(Visible) \subseteq InQuarantine(q)
      BY <1>1, <1>2, <1>6 DEF Restoring, Copying
    <3> QED BY <3>1, KeptIs DEF DatabaseInv, Preserved
  <2>5. Kept' = Kept
    BY <1>1, <1>6, KeptSame
  <2>6. Restoring(p)'
    BY <1>1, <1>2, <1>6, <2>2, <2>3, <2>4, <2>5 DEF Restoring, Copying
  <2>7. Coherent(p)' /\ Locked(p)' /\ Numbered(p)' /\ Copies(p)' /\ Opened(p)'
    BY <1>1, <1>2, <1>6, <2>2, <2>3
       DEF Coherent, Commands, Locked, Numbered, Copies, Opened, Copying
  <2>8. Own(p)' /\ Distinct(p)
    BY <1>1, <2>2, <2>3, <2>6, <2>7 DEF Own, Distinct
  <2> QED BY <1>1, <1>3, <1>4, <1>6, <2>2, <2>3, <2>8, Working
<1>7. ASSUME Leave(p), quarantine' = {q \in quarantine : q.nr # proc[p].nr}, cmd = "restore"
      PROVE  DatabaseInv'
  <2>1. \A q \in quarantine \ quarantine' : InQuarantine(q) \subseteq Holds(Visible)
    BY <1>1, <1>2, <1>7 DEF Restoring, Copying
  <2> QED BY <1>1, <1>2, <1>7, <2>1, Quits
<1>8. ASSUME Leave(p), quarantine' = quarantine PROVE DatabaseInv'
  BY <1>1, <1>8, Quits
<1> QED BY <1>5, <1>6, <1>7, <1>8 DEF CopySnapshot

(* The published file is clean, and its name was free. *)
LEMMA PublishSnapshotKeeps ==
    ASSUME DatabaseInv, NEW p \in Procs, PublishSnapshot(p) PROVE DatabaseInv'
<1> DEFINE path == proc[p].path
           snap == proc[p].snap
           file == [files[path] EXCEPT !.file = snap]
           r == [proc[p] EXCEPT !.pc = "hash"]
<1>1. /\ proc[p].pc = "publish"
      /\ files' = [files EXCEPT ![path] = file] /\ proc' = [proc EXCEPT ![p] = r]
      /\ UNCHANGED <<target, quarantine, holder, config, request, written, commands>>
  BY DEF PublishSnapshot, Goto, history
<1>2. /\ proc[p] \in ProcType /\ TargetShape /\ Copies(p) /\ Restoring(p) /\ path \in Paths
      /\ proc[p].cmd \notin {"backup", "export"} => path \in Generated
      /\ proc[p].cmd \in {"backup", "export"} => path \in UserPaths
      /\ main # None
  BY <1>1, AtCopy DEF Copying
<1>3. snap \in Contents /\ ~snap.damaged /\ snap.plain = {} /\ snap # None
  BY <1>1, <1>2, ConstantsAssumption DEF Copies
<1>4. files \in [Paths -> FileType] /\ files[path] \in FileType
  BY <1>2 DEF DatabaseInv, Shelved
<1>5. file \in FileType /\ file.file = snap /\ file.sum = files[path].sum
  BY <1>3, <1>4 DEF FileType
<1>6. /\ r \in ProcType /\ r.pc = "hash" /\ r.cmd = proc[p].cmd /\ r.nr = proc[p].nr
      /\ r.key = proc[p].key /\ r.snap = snap /\ r.source = proc[p].source /\ r.path = path
  BY <1>2 DEF ProcType, Places, Copying
<1> HIDE DEF file, r
<1>7. proc'[p] = r /\ files'[path] = file
  BY <1>1, <1>2, <1>4, <1>6, Moved DEF DatabaseInv
<1>8. Visible' = Visible /\ main' = main
  BY <1>1, <1>2, Unmoved
<1>9. Copies(p)'
  BY <1>1, <1>2, <1>5, <1>6, <1>7, <1>8 DEF Copies, Copying
<1>10. Restoring(p)'
  <2>1. CASE proc[p].cmd = "restore"
    <3>1. Holds(Visible)' = Holds(Visible)
      BY <1>8 DEF Holds
    <3> QED BY <1>1, <1>2, <1>3, <1>5, <1>6, <1>7, <1>8, <2>1, <3>1 DEF Restoring, Copying, Holds
  <2>2. CASE proc[p].cmd # "restore"
    BY <1>6, <1>7, <2>2 DEF Restoring
  <2> QED BY <2>1, <2>2
<1>11. Own(p)'
  BY <1>1, <1>6, <1>7, <1>9, <1>10, OwnCopying DEF Copying
<1>12. path \in Generated => ~Verified(path)
  <2>1. path \in Generated => files[path] = NoFile
    BY <1>1, <1>2, ConstantsAssumption DEF Copies, Copying
  <2> QED BY <2>1 DEF Verified, NoFile
<1>13. holder' \in Procs \cup {None}
  BY <1>1 DEF DatabaseInv
<1> QED BY <1>1, <1>3, <1>5, <1>6, <1>11, <1>12, <1>13, CopyStep DEF Copying

(* A restore finds under its own name what it has published. *)
LEMMA HashSnapshotKeeps ==
    ASSUME DatabaseInv, NEW p \in Procs, HashSnapshot(p) PROVE DatabaseInv'
<1> DEFINE path == proc[p].path
           snap == files[path].file
           r == [[proc[p] EXCEPT !.pc = "sum"] EXCEPT !.snap = snap]
<1>1. /\ proc[p].pc = "hash" /\ proc' = [proc EXCEPT ![p] = r]
      /\ UNCHANGED <<target, files, quarantine, holder, config, request, written, commands>>
  BY DEF HashSnapshot, history
<1>2. /\ proc[p] \in ProcType /\ TargetShape /\ Copies(p) /\ Restoring(p) /\ path \in Paths
      /\ main # None /\ (proc[p].cmd = "serve" <=> p = Server)
  BY <1>1, AtCopy DEF Copying
<1>3. snap \in Contents \cup {None} /\ holder \in Procs \cup {None}
  BY <1>2 DEF DatabaseInv, Shelved, FileType
<1>4. proc[p].cmd = "restore" => snap = proc[p].snap
  BY <1>1, <1>2 DEF Restoring
<1> HIDE DEF snap
<1>5. /\ r \in ProcType /\ r.pc = "sum" /\ r.cmd = proc[p].cmd /\ r.nr = proc[p].nr
      /\ r.key = proc[p].key /\ r.snap = snap /\ r.source = proc[p].source /\ r.path = path
  BY <1>2, <1>3 DEF ProcType, Places, Copying
<1> HIDE DEF r
<1>6. ProcTyped' /\ Elsewhere(p) /\ proc'[p] = r
  BY <1>1, <1>5, Moved DEF DatabaseInv
<1>7. TargetShape' /\ Visible' = Visible /\ main' = main
  BY <1>1, <1>2, Unmoved
<1>8. Copies(p)'
  BY <1>1, <1>2, <1>5, <1>6, <1>7 DEF Copies, Copying
<1>9. Restoring(p)'
  <2>1. CASE proc[p].cmd = "restore"
    <3>1. Holds(Visible)' = Holds(Visible)
      BY <1>7 DEF Holds
    <3> QED BY <1>1, <1>2, <1>4, <1>5, <1>6, <1>7, <2>1, <3>1 DEF Restoring, Copying, Holds
  <2>2. CASE proc[p].cmd # "restore"
    BY <1>5, <1>6, <2>2 DEF Restoring
  <2> QED BY <2>1, <2>2
<1>10. Own(p)' /\ Distinct(p)
  BY <1>1, <1>5, <1>6, <1>8, <1>9, OwnCopying DEF Copying, Distinct
<1> QED BY <1>1, <1>3, <1>5, <1>6, <1>7, <1>10, Working

(* From here on the backup verifies, so that a restore may drop its         *)
(* quarantine.                                                              *)
LEMMA WriteManifestKeeps ==
    ASSUME DatabaseInv, NEW p \in Procs, WriteManifest(p) PROVE DatabaseInv'
<1> DEFINE path == proc[p].path
           snap == proc[p].snap
           cmd == proc[p].cmd
           file == [files[path] EXCEPT !.sum = snap]
<1>1. /\ proc[p].pc = "sum" /\ files' = [files EXCEPT ![path] = file]
      /\ UNCHANGED <<target, quarantine, config, request, written, commands>>
  BY DEF WriteManifest, history
<1>2. /\ proc[p] \in ProcType /\ TargetShape /\ commands \in Nat
      /\ Opened(p) /\ Copies(p) /\ Restoring(p) /\ path \in Paths
      /\ cmd \in Commands \ {"rotate"} /\ (cmd = "serve" <=> p = Server)
      /\ p = Server => proc[p].nr = 0
      /\ p \in Tools => proc[p].nr \in 1..commands
      /\ cmd \notin {"backup", "export"} => Writer(p) /\ holder = p /\ path \in Generated
      /\ cmd \in {"backup", "export"} => path \in UserPaths
      /\ main # None
  BY <1>1, AtCopy DEF Copying
<1>3. files \in [Paths -> FileType] /\ files[path] \in FileType /\ holder \in Procs \cup {None}
  BY <1>2 DEF DatabaseInv, Shelved
<1>4. file \in FileType /\ file.sum = snap /\ file.file = files[path].file
  BY <1>2, <1>3 DEF FileType, ProcType
<1> HIDE DEF file
<1>5. path \in Generated => ~Verified(path)
  <2>1. path \in Generated => files[path].sum = None
    BY <1>1, <1>2, ConstantsAssumption DEF Copies, Copying
  <2> QED BY <2>1 DEF Verified
<1>6. CASE cmd \in {"backup", "export"}
  <2>1. Leave(p) /\ proc' = [proc EXCEPT ![p] = Idle]
    BY <1>6 DEF WriteManifest, Leave
  <2>2. /\ proc'[p] = Idle /\ holder' \in Procs \cup {None} /\ (holder # p => holder' = holder)
    BY <1>3, <2>1, Leaves DEF DatabaseInv
  <2>3. Own(p)'
    BY <1>1, <1>2, <2>2, OwnIdle
  <2>4. Idle.pc = "idle"
    BY DEF Idle
  <2> QED BY <1>1, <1>4, <1>5, <2>1, <2>2, <2>3, <2>4, IdleTyped, CopyStep DEF Copying
<1>7. CASE cmd \notin {"backup", "export"}
  <2> DEFINE place == IF cmd = "restore" THEN "discard" ELSE "apply"
             r0 == [proc[p] EXCEPT !.snap = None]
             r1 == [r0 EXCEPT !.path = None]
             r == [r1 EXCEPT !.pc = place]
  <2>1. proc' = [proc EXCEPT ![p] = r] /\ holder' = holder
    BY <1>7 DEF WriteManifest
  <2>2. /\ place \in {"discard", "apply"} /\ (place = "discard" <=> cmd = "restore")
    OBVIOUS
  <2> HIDE DEF place
  <2>3. /\ r0 \in ProcType /\ r0.cmd = cmd /\ r0.nr = proc[p].nr /\ r0.key = proc[p].key
        /\ r0.source = proc[p].source
    BY <1>2 DEF ProcType
  <2> HIDE DEF r0
  <2>4. /\ r1 \in ProcType /\ r1.cmd = cmd /\ r1.nr = proc[p].nr /\ r1.key = proc[p].key
        /\ r1.source = proc[p].source
    BY <2>3 DEF ProcType
  <2> HIDE DEF r1
  <2>5. /\ r \in ProcType /\ r.pc = place /\ r.cmd = cmd /\ r.nr = proc[p].nr
        /\ r.key = proc[p].key /\ r.source = proc[p].source
    BY <2>2, <2>4 DEF ProcType, Places
  <2> HIDE DEF r
  <2>6. proc'[p] = r /\ files'[path] = file
    BY <1>1, <1>2, <1>3, <2>1, <2>5, Moved DEF DatabaseInv
  <2>7. TargetShape' /\ Visible' = Visible /\ main' = main
    BY <1>1, <1>2, Unmoved
  <2>8. Coherent(p)' /\ Locked(p)' /\ Numbered(p)' /\ Copies(p)'
    BY <1>1, <1>2, <1>7, <2>1, <2>2, <2>5, <2>6
       DEF Coherent, Commands, Locked, Numbered, Copies, Copying
  <2>9. Opened(p)'
    BY <1>1, <1>2, <1>7, <2>2, <2>5, <2>6, <2>7 DEF Opened, Copying
  <2>10. Restoring(p)'
    <3>1. CASE cmd = "restore"
      <4>1. Holds(Visible)' = Holds(Visible)
        BY <2>7 DEF Holds
      <4>2. snap \in Contents /\ Holds(Visible) \subseteq Holds(snap) /\ files[path].file = snap
        BY <1>1, <1>2, <3>1 DEF Restoring
      <4>3. \A g \in Generated : g = path => Verified(g)' /\ Holds(files[g].file)' = Holds(snap)
        <5>1. files'[path].file = snap /\ files'[path].sum = snap /\ snap # None
          BY <1>4, <2>6, <4>2, ConstantsAssumption
        <5> QED BY <5>1 DEF Verified, Holds
      <4>4. \E g \in Generated : Verified(g)' /\ Holds(Visible)' \subseteq Holds(files[g].file)'
        <5>1. path \in Generated
          BY <1>2, <1>7
        <5> QED BY <5>1, <4>1, <4>2, <4>3
      <4>5. r.pc = "discard"
        BY <2>2, <2>5, <3>1
      <4> QED BY <1>1, <1>2, <2>5, <2>6, <2>7, <3>1, <4>1, <4>4, <4>5
              DEF Restoring, Copying, Holds
    <3>2. CASE cmd # "restore"
      BY <2>5, <2>6, <3>2 DEF Restoring
    <3> QED BY <3>1, <3>2
  <2>11. Own(p)'
    BY <2>8, <2>9, <2>10 DEF Own
  <2> QED BY <1>1, <1>3, <1>4, <1>5, <2>1, <2>2, <2>5, <2>11, CopyStep DEF Copying
<1> QED BY <1>6, <1>7

-----------------------------------------------------------------------------
(* Restores                                                                 *)

(* What is known of a restore. *)
LEMMA AtRestore ==
    ASSUME DatabaseInv, NEW p \in Procs,
           proc[p].pc \in {"open", "lock", "preserve", "discard", "install", "swap"}
    PROVE  /\ proc[p] \in ProcType /\ TargetShape /\ commands \in Nat
           /\ proc[p].cmd = "restore" /\ p # Server /\ p \in Tools
           /\ proc[p].nr \in 1..commands /\ Restoring(p) /\ Numbered(p) /\ Copies(p)
           /\ proc[p].pc \notin {"open", "lock"} => Writer(p) /\ holder = p
           /\ holder \in Procs \cup {None}
<1>1. /\ Own(p) /\ proc[p] \in ProcType /\ TargetShape /\ commands \in Nat
      /\ holder \in Procs \cup {None}
  BY DEF DatabaseInv, ProcTyped, Shelved
<1>2. Coherent(p) /\ Numbered(p) /\ Locked(p) /\ Copies(p) /\ Restoring(p)
  BY <1>1 DEF Own
<1>3. proc[p].cmd = "restore" /\ p # Server
  BY <1>2 DEF Coherent
<1>4. p \in Tools
  BY <1>3 DEF Procs
<1>5. proc[p].pc \notin {"open", "lock"} => Writer(p)
  BY <1>3 DEF Writer
<1> QED BY <1>1, <1>2, <1>3, <1>4, <1>5 DEF Numbered, Locked

(* The source of a restore is a usable content. *)
LEMMA OpenSourceKeeps == ASSUME DatabaseInv, NEW p \in Procs, OpenSource(p) PROVE DatabaseInv'
<1> DEFINE c == files[proc[p].path].file
<1>1. /\ proc[p].pc = "open"
      /\ UNCHANGED <<target, files, quarantine, holder, config, request, written, commands>>
  BY DEF OpenSource, history
<1>2. /\ proc[p] \in ProcType /\ TargetShape /\ commands \in Nat
      /\ proc[p].cmd = "restore" /\ p # Server /\ p \in Tools
      /\ proc[p].nr \in 1..commands /\ Numbered(p) /\ Copies(p) /\ holder \in Procs \cup {None}
  BY <1>1, AtRestore
<1>3. c \in Contents
  <2>1. proc[p].path \in Paths /\ files[proc[p].path].file # None
    BY <1>1, <1>2 DEF Copies
  <2> QED BY <2>1 DEF DatabaseInv, Shelved, FileType
<1>4. TargetShape' /\ Visible' = Visible
  BY <1>1, <1>2, Unmoved
<1>5. CASE Usable(c)
  <2> DEFINE r0 == [proc[p] EXCEPT !.pc = "lock"]
             r1 == [r0 EXCEPT !.source = c]
             r == [r1 EXCEPT !.path = None]
  <2>1. proc' = [proc EXCEPT ![p] = r]
    BY <1>5 DEF OpenSource
  <2> HIDE DEF c
  <2>2. r0 \in ProcType /\ r0.pc = "lock" /\ r0.cmd = "restore" /\ r0.nr = proc[p].nr
    BY <1>2 DEF ProcType, Places
  <2> HIDE DEF r0
  <2>3. /\ r1 \in ProcType /\ r1.pc = "lock" /\ r1.cmd = "restore" /\ r1.nr = proc[p].nr
        /\ r1.source = c
    BY <1>3, <2>2 DEF ProcType
  <2> HIDE DEF r1
  <2>4. /\ r \in ProcType /\ r.pc = "lock" /\ r.cmd = "restore" /\ r.nr = proc[p].nr
        /\ r.source = c
    BY <2>3 DEF ProcType
  <2> HIDE DEF r
  <2>5. ProcTyped' /\ Elsewhere(p) /\ proc'[p] = r
    BY <2>1, <2>4, Moved DEF DatabaseInv
  <2>6. Coherent(p)' /\ Locked(p)' /\ Numbered(p)' /\ Copies(p)' /\ Opened(p)' /\ Restoring(p)'
    BY <1>1, <1>2, <1>3, <2>4, <2>5
       DEF Coherent, Commands, Locked, Writer, Numbered, Copies, Opened, Restoring, Copying
  <2>7. Own(p)' /\ Distinct(p)
    BY <1>1, <2>4, <2>5, <2>6 DEF Own, Distinct
  <2> QED BY <1>1, <1>2, <1>4, <2>5, <2>7, Working
<1>6. CASE ~Usable(c)
  <2>1. proc' = [proc EXCEPT ![p] = Idle]
    BY <1>6 DEF OpenSource
  <2>2. ProcTyped' /\ Elsewhere(p) /\ proc'[p] = Idle
    BY <2>1, IdleTyped, Moved DEF DatabaseInv
  <2>3. Own(p)' /\ Distinct(p)
    BY <1>1, <1>2, <2>2, OwnIdle DEF Distinct, Idle
  <2> QED BY <1>1, <1>2, <1>4, <2>2, <2>3, Working
<1> QED BY <1>5, <1>6

(* A restore takes the lock, or gives up. *)
LEMMA LockTargetKeeps == ASSUME DatabaseInv, NEW p \in Procs, LockTarget(p) PROVE DatabaseInv'
<1>1. /\ proc[p].pc = "lock"
      /\ UNCHANGED <<target, files, quarantine, config, request, written, commands>>
  BY DEF LockTarget, history
<1>2. /\ proc[p] \in ProcType /\ TargetShape /\ commands \in Nat
      /\ proc[p].cmd = "restore" /\ p # Server /\ p \in Tools
      /\ proc[p].nr \in 1..commands /\ Numbered(p) /\ Restoring(p)
      /\ holder \in Procs \cup {None}
  BY <1>1, AtRestore
<1>3. TargetShape' /\ Visible' = Visible
  BY <1>1, <1>2, Unmoved
<1>4. CASE holder = None
  <2>1. holder' = p /\ Goto(p, "preserve")
    BY <1>4 DEF LockTarget
  <2>2. /\ ProcTyped' /\ Elsewhere(p)
        /\ proc'[p].pc = "preserve" /\ proc'[p].cmd = "restore"
        /\ proc'[p].source = proc[p].source /\ proc'[p].nr = proc[p].nr
    BY <1>2, <2>1, Goes DEF Places, DatabaseInv
  <2>3. Coherent(p)' /\ Locked(p)' /\ Numbered(p)' /\ Copies(p)' /\ Opened(p)' /\ Restoring(p)'
    BY <1>1, <1>2, <2>1, <2>2
       DEF Coherent, Commands, Locked, Writer, Numbered, Copies, Opened, Restoring, Copying
  <2>4. Own(p)' /\ Distinct(p)
    BY <1>1, <2>2, <2>3 DEF Own, Distinct
  <2> QED BY <1>1, <1>2, <1>3, <1>4, <2>1, <2>2, <2>4, Working
<1>5. CASE holder # None
  <2>1. proc' = [proc EXCEPT ![p] = Idle] /\ holder' = holder
    BY <1>5 DEF LockTarget
  <2>2. ProcTyped' /\ Elsewhere(p) /\ proc'[p] = Idle
    BY <2>1, IdleTyped, Moved DEF DatabaseInv
  <2>3. Own(p)' /\ Distinct(p)
    BY <1>1, <1>2, <2>2, OwnIdle DEF Distinct, Idle
  <2> QED BY <1>1, <1>2, <1>3, <2>1, <2>2, <2>3, Working
<1> QED BY <1>4, <1>5

(* A step of a restore, which holds the lock, once nobody depends on the target. *)
LEMMA RestoreStep ==
    ASSUME DatabaseInv, NEW p \in Procs, Writer(p), p # Server, Elsewhere(p), Distinct(p),
           ProcTyped', TargetShape', holder' \in Procs \cup {None}, Own(p)',
           UNCHANGED <<files, config, request, written, commands>>,
           main # None => main' # None,
           \A q \in quarantine' : q \in quarantine \/ q.nr = proc[p].nr,
           p \in Tools => proc[p].nr \in 1..commands,
           written \subseteq Holds(Visible)' \cup Kept'
    PROVE  DatabaseInv'
<1>1. \A q \in Procs \ {p} : ~Writer(q)
  BY Alone
<1>2. p \in Tools /\ commands \in Nat /\ proc[p].pc # "idle"
  BY DEF Procs, DatabaseInv, Shelved, Writer
<1>3. Discreet(p)
  BY <1>1, <1>2 DEF Discreet
<1>4. Shelved'
  BY <1>2 DEF DatabaseInv, Shelved, PublishedAreClean
<1>5. Preserved'
  BY DEF DatabaseInv, Preserved
<1>6. Configured'
  BY <1>3, StaysConfigured
<1> QED BY <1>3, <1>4, <1>5, <1>6, Frame DEF DatabaseInv

(* The quarantine holds exactly what the target holds. *)
LEMMA PreserveTargetKeeps ==
    ASSUME DatabaseInv, NEW p \in Procs, PreserveTarget(p) PROVE DatabaseInv'
<1>1. /\ proc[p].pc = "preserve"
      /\ UNCHANGED <<target, files, holder, config, request, written, commands>>
  BY DEF PreserveTarget, history
<1>2. /\ proc[p] \in ProcType /\ TargetShape /\ commands \in Nat
      /\ proc[p].cmd = "restore" /\ p # Server /\ p \in Tools
      /\ proc[p].nr \in 1..commands /\ Numbered(p) /\ Restoring(p)
      /\ Writer(p) /\ holder = p /\ holder \in Procs \cup {None}
  BY <1>1, AtRestore
<1>3. TargetShape' /\ Visible' = Visible /\ main' = main
  BY <1>1, <1>2, Unmoved
<1>4. CASE main = None
  <2>1. Goto(p, "install") /\ quarantine' = quarantine
    BY <1>4 DEF PreserveTarget
  <2>2. /\ ProcTyped' /\ Elsewhere(p)
        /\ proc'[p].pc = "install" /\ proc'[p].cmd = "restore"
        /\ proc'[p].source = proc[p].source /\ proc'[p].nr = proc[p].nr
    BY <1>2, <2>1, Goes DEF Places, DatabaseInv
  <2>3. written \subseteq Kept
    BY <1>2, <1>4, VisibleIs DEF DatabaseInv, Preserved, Holds
  <2>4. Kept' = Kept
    BY <1>1, <2>1, KeptSame
  <2>5. Coherent(p)' /\ Locked(p)' /\ Numbered(p)' /\ Copies(p)' /\ Opened(p)'
    BY <1>1, <1>2, <2>2
       DEF Coherent, Commands, Locked, Writer, Numbered, Copies, Opened, Copying
  <2>6. Restoring(p)'
    BY <1>1, <1>2, <2>2, <2>3, <2>4 DEF Restoring, Copying
  <2>7. Own(p)' /\ Distinct(p)
    BY <1>1, <2>2, <2>5, <2>6 DEF Own, Distinct
  <2> QED BY <1>1, <1>2, <1>3, <2>1, <2>2, <2>7, Working
<1>5. CASE main # None
  <2> DEFINE x == [nr |-> proc[p].nr, main |-> main, wal |-> wal]
  <2>1. PICK path \in Generated :
          /\ FreshPath(path) /\ quarantine' = quarantine \cup {x}
          /\ proc' = [proc EXCEPT ![p].pc = "copy", ![p].path = path]
    BY <1>5 DEF PreserveTarget
  <2> DEFINE r == [[proc[p] EXCEPT !.pc = "copy"] EXCEPT !.path = path]
  <2>2. proc' = [proc EXCEPT ![p] = r]
    BY <2>1
  <2>3. /\ r \in ProcType /\ r.pc = "copy" /\ r.cmd = "restore" /\ r.path = path
        /\ r.nr = proc[p].nr /\ r.source = proc[p].source
    BY <1>2 DEF ProcType, Places, Copying, Paths
  <2> HIDE DEF r
  <2>4. ProcTyped' /\ Elsewhere(p) /\ proc'[p] = r
    BY <2>2, <2>3, Moved DEF DatabaseInv
  <2>5. x.nr = proc[p].nr /\ x.main = main /\ x.wal = wal
    OBVIOUS
  <2> HIDE DEF x
  <2>6. InQuarantine(x) = Holds(Visible)
    BY <1>2, <2>5, VisibleIs DEF InQuarantine, TargetShape
  <2>7. {q \in quarantine' : q.nr = proc[p].nr} = {x}
    BY <1>1, <1>2, <2>1, <2>5 DEF Numbered
  <2>8. files[path] = NoFile
    BY <2>1 DEF FreshPath, FreeNames
  <2>9. Coherent(p)' /\ Locked(p)' /\ Numbered(p)' /\ Opened(p)'
    BY <1>1, <1>2, <2>3, <2>4
       DEF Coherent, Commands, Locked, Writer, Numbered, Opened, Copying
  <2>10. Copies(p)'
    BY <1>1, <1>3, <1>5, <2>3, <2>4, <2>8 DEF Copies, NoFile
  <2>11. Restoring(p)'
    <3>1. Holds(Visible)' = Holds(Visible)
      BY <1>3 DEF Holds
    <3>2. /\ \A q \in {q \in quarantine' : q.nr = proc'[p].nr} : InQuarantine(q) \subseteq Holds(Visible)'
          /\ \E q \in {q \in quarantine' : q.nr = proc'[p].nr} : Holds(Visible)' \subseteq InQuarantine(q)
      BY <2>3, <2>4, <2>6, <2>7, <3>1
    <3>3. \A q : InQuarantine(q)' = InQuarantine(q)
      BY DEF InQuarantine, Holds
    <3> QED BY <1>1, <1>2, <1>3, <1>5, <2>3, <2>4, <3>2, <3>3 DEF Restoring, Copying
  <2>12. Own(p)' /\ Distinct(p)
    BY <1>1, <2>3, <2>4, <2>9, <2>10, <2>11 DEF Own, Distinct
  <2>13. written \subseteq Holds(Visible)' \cup Kept'
    <3>1. Shelves
      BY <1>1, <2>1 DEF Shelves
    <3> QED BY <1>1, <1>3, <3>1, StaysPreserved DEF DatabaseInv, Preserved
  <2>14. \A q \in quarantine' : q \in quarantine \/ q.nr = proc[p].nr
    BY <2>1, <2>5
  <2> QED BY <1>1, <1>2, <1>3, <2>4, <2>12, <2>13, <2>14, RestoreStep
<1> QED BY <1>4, <1>5

(* The quarantine goes only when a verified backup holds the target. *)
LEMMA DiscardQuarantineKeeps ==
    ASSUME DatabaseInv, NEW p \in Procs, DiscardQuarantine(p) PROVE DatabaseInv'
<1>1. /\ proc[p].pc = "discard" /\ Goto(p, "install")
      /\ quarantine' = {q \in quarantine : q.nr # proc[p].nr}
      /\ UNCHANGED <<target, files, holder, config, request, written, commands>>
  BY DEF DiscardQuarantine, history
<1>2. /\ proc[p] \in ProcType /\ TargetShape /\ commands \in Nat
      /\ proc[p].cmd = "restore" /\ p # Server /\ p \in Tools
      /\ proc[p].nr \in 1..commands /\ Restoring(p)
      /\ Writer(p) /\ holder = p /\ holder \in Procs \cup {None}
  BY <1>1, AtRestore
<1>3. TargetShape' /\ Visible' = Visible /\ main' = main
  BY <1>1, <1>2, Unmoved
<1>4. /\ ProcTyped' /\ Elsewhere(p)
      /\ proc'[p].pc = "install" /\ proc'[p].cmd = "restore"
      /\ proc'[p].source = proc[p].source /\ proc'[p].nr = proc[p].nr
  BY <1>1, <1>2, Goes DEF Places, DatabaseInv
<1>5. written \subseteq Kept'
  <2> SUFFICES ASSUME NEW x \in written PROVE x \in Kept'
    OBVIOUS
  <2>1. PICK g \in Generated : Verified(g) /\ Holds(Visible) \subseteq Holds(files[g].file)
    BY <1>1, <1>2 DEF Restoring
  <2>2. \A f \in Generated : Verified(f) =>
          Verified(f)' /\ Holds(files[f].file)' = Holds(files[f].file)
    BY <1>1 DEF Verified, Holds
  <2>3. CASE x \in Holds(Visible)
    BY <2>1, <2>2, <2>3, KeptIs
  <2>4. CASE \E f \in Generated : Verified(f) /\ x \in Holds(files[f].file)
    BY <2>2, <2>4, KeptIs
  <2>5. CASE \E q \in quarantine : x \in InQuarantine(q)
    <3>1. PICK q \in quarantine : x \in InQuarantine(q)
      BY <2>5
    <3>2. CASE q.nr = proc[p].nr
      <4>1. x \in Holds(Visible)
        BY <1>1, <1>2, <3>1, <3>2 DEF Restoring
      <4> QED BY <2>3, <4>1
    <3>3. CASE q.nr # proc[p].nr
      BY <1>1, <3>1, <3>3, KeptIs
    <3> QED BY <3>2, <3>3
  <2> QED BY <2>3, <2>4, <2>5, KeptIs DEF DatabaseInv, Preserved
<1>6. Coherent(p)' /\ Locked(p)' /\ Numbered(p)' /\ Copies(p)' /\ Opened(p)'
  BY <1>1, <1>2, <1>4
     DEF Coherent, Commands, Locked, Writer, Numbered, Copies, Opened, Copying
<1>7. Restoring(p)'
  BY <1>1, <1>2, <1>4, <1>5 DEF Restoring, Copying
<1>8. Own(p)' /\ Distinct(p)
  BY <1>1, <1>4, <1>6, <1>7 DEF Own, Distinct
<1> QED BY <1>1, <1>2, <1>3, <1>4, <1>5, <1>8, RestoreStep

(* The WAL goes only when all commits are kept outside the target. *)
LEMMA RemoveSidecarsKeeps ==
    ASSUME DatabaseInv, NEW p \in Procs, RemoveSidecars(p) PROVE DatabaseInv'
<1>1. /\ proc[p].pc = "install" /\ Goto(p, "swap") /\ wal' = None
      /\ UNCHANGED <<main, walMode, files, quarantine, holder, config, request, written, commands>>
  BY DEF RemoveSidecars, history
<1>2. /\ proc[p] \in ProcType /\ TargetShape /\ commands \in Nat
      /\ proc[p].cmd = "restore" /\ p # Server /\ p \in Tools
      /\ proc[p].nr \in 1..commands /\ Restoring(p)
      /\ Writer(p) /\ holder = p /\ holder \in Procs \cup {None}
  BY <1>1, AtRestore
<1>3. TargetShape'
  BY <1>1, <1>2 DEF TargetShape
<1>4. /\ ProcTyped' /\ Elsewhere(p)
      /\ proc'[p].pc = "swap" /\ proc'[p].cmd = "restore"
      /\ proc'[p].source = proc[p].source /\ proc'[p].nr = proc[p].nr
  BY <1>1, <1>2, Goes DEF Places, DatabaseInv
<1>5. written \subseteq Kept'
  BY <1>1, <1>2, KeptSame DEF Restoring
<1>6. Coherent(p)' /\ Locked(p)' /\ Numbered(p)' /\ Copies(p)' /\ Opened(p)'
  BY <1>1, <1>2, <1>4
     DEF Coherent, Commands, Locked, Writer, Numbered, Copies, Opened, Copying
<1>7. Restoring(p)'
  BY <1>1, <1>2, <1>4, <1>5 DEF Restoring, Copying
<1>8. Own(p)' /\ Distinct(p)
  BY <1>1, <1>4, <1>6, <1>7 DEF Own, Distinct
<1> QED BY <1>1, <1>2, <1>3, <1>4, <1>5, <1>8, RestoreStep

(* The new main file is never joined with the old WAL. *)
LEMMA ReplaceTargetKeeps ==
    ASSUME DatabaseInv, NEW p \in Procs, ReplaceTarget(p) PROVE DatabaseInv'
<1>1. /\ proc[p].pc = "swap" /\ Leave(p) /\ main' = proc[p].source /\ walMode' = FALSE
      /\ wal' = IF wal = None THEN None ELSE [wal EXCEPT !.stale = TRUE]
      /\ UNCHANGED <<files, quarantine, config, request, written, commands>>
  BY DEF ReplaceTarget, history
<1>2. /\ proc[p] \in ProcType /\ TargetShape /\ commands \in Nat
      /\ proc[p].cmd = "restore" /\ p # Server /\ p \in Tools
      /\ proc[p].nr \in 1..commands /\ Restoring(p)
      /\ Writer(p) /\ holder = p /\ holder \in Procs \cup {None}
  BY <1>1, AtRestore
<1>3. main' \in Contents /\ main' # None /\ wal' = None
  BY <1>1, <1>2, ConstantsAssumption DEF Restoring
<1>4. TargetShape'
  BY <1>1, <1>3 DEF TargetShape
<1>5. ProcTyped' /\ Elsewhere(p) /\ proc'[p] = Idle /\ holder' \in Procs \cup {None}
  BY <1>1, <1>2, Leaves DEF DatabaseInv
<1>6. written \subseteq Kept'
  BY <1>1, <1>2, KeptSame DEF Restoring
<1>7. Own(p)' /\ Distinct(p)
  BY <1>1, <1>2, <1>5, OwnIdle DEF Distinct, Idle
<1> QED BY <1>1, <1>2, <1>3, <1>4, <1>5, <1>6, <1>7, RestoreStep

-----------------------------------------------------------------------------
(* The specification                                                        *)

(* The invariant holds at the start. *)
LEMMA Begins == Init => DatabaseInv
<1> SUFFICES ASSUME Init PROVE DatabaseInv
  OBVIOUS
<1>1. /\ main \in Contents \cup {None} /\ wal = None /\ walMode \in BOOLEAN
      /\ main = None => ~walMode
  BY ConstantsAssumption DEF Init
<1>2. TargetShape
  BY <1>1 DEF TargetShape
<1>3. Visible = main
  BY <1>1, <1>2, VisibleIs
<1>4. /\ \A p \in Procs : proc[p] = Idle /\ proc[p].pc = "idle"
      /\ ProcTyped
  BY IdleTyped DEF Init, Idle, ProcTyped
<1>5. \A p \in Procs : Own(p)
  BY <1>4 DEF Own, Coherent, Locked, Writer, Numbered, Copies, Copying, Opened, Restoring,
              Idle, Init
<1>6. \A p, q \in Procs : Apart(p, q)
  BY <1>4 DEF Apart
<1>7. Shelved
  <2>1. \A path \in Paths : files[path] \in FileType
    BY ConstantsAssumption DEF Init, FileType, NoFile, Paths
  <2>2. files \in [Paths -> FileType]
    BY <2>1 DEF Init
  <2>3. PublishedAreClean
    BY DEF Init, PublishedAreClean, NoFile
  <2> QED BY <2>2, <2>3 DEF Shelved, Init
<1>8. request \in [Requests -> [pc : {"idle", "cloned", "saved"}, copy : Configs \cup {None}]]
  BY DEF Init, NoRequest
<1>9. Configured
  <2>1. proc[Server].pc = "idle"
    BY <1>4 DEF Procs
  <2> QED BY <2>1 DEF Init, Configured
<1>10. Preserved
  <2>1. CASE main = None
    BY <2>1, FS_EmptySet DEF Init, Preserved
  <2>2. CASE main # None
    <3>1. main \in Contents /\ written = main.rows /\ IsFiniteSet(main.rows)
      BY <1>1, <2>2, ConstantsAssumption DEF Init
    <3> QED BY <1>3, <3>1, HoldsContent DEF Preserved
  <2> QED BY <2>1, <2>2
<1>11. holder \in Procs \cup {None}
  BY DEF Init
<1> QED BY <1>2, <1>4, <1>5, <1>6, <1>7, <1>8, <1>9, <1>10, <1>11 DEF DatabaseInv

(* The invariant stays true when nothing happens. *)
LEMMA Stutters == ASSUME DatabaseInv, UNCHANGED vars PROVE DatabaseInv'
<1>1. UNCHANGED <<target, files, quarantine, holder, proc, config, request, written, commands>>
  BY DEF vars, target
<1>2. Server \in Procs /\ TargetShape /\ commands \in Nat /\ holder \in Procs \cup {None}
  BY DEF DatabaseInv, Procs, Shelved
<1>3. TargetShape' /\ Visible' = Visible /\ main' = main
  BY <1>1, <1>2, Unmoved
<1>5. \A q \in Procs : Own(q)'
  BY <1>1, <1>3, KeptSame DEF DatabaseInv, Own, Coherent, Locked, Writer, Numbered, Copies,
                              Opened, Restoring, Verified, vars
<1>6. \A q1, q2 \in Procs : Apart(q1, q2)'
  BY <1>1 DEF DatabaseInv, Apart
<1>7. Shelved' /\ ProcTyped'
  BY <1>1 DEF DatabaseInv, Shelved, PublishedAreClean, ProcTyped
<1>8. Preserved'
  <2>1. Shelves
    BY <1>1 DEF Shelves
  <2> QED BY <1>1, <1>3, <2>1, StaysPreserved DEF DatabaseInv
<1>9. Configured'
  BY <1>1, UnmovedVisible DEF DatabaseInv, Configured, UpToDate
<1> QED BY <1>1, <1>2, <1>3, <1>5, <1>6, <1>7, <1>8, <1>9 DEF DatabaseInv

(* Every step of every process keeps the invariant. *)
LEMMA Continues == DatabaseInv /\ [Next]_vars => DatabaseInv'
<1> SUFFICES ASSUME DatabaseInv, [Next]_vars PROVE DatabaseInv'
  OBVIOUS
<1>1. ASSUME NEW p \in Procs, Command(p) PROVE DatabaseInv'
  BY <1>1, OpenForBootstrapKeeps, OpenForMigrationKeeps, StartBackupKeeps, VerifySourceKeeps
     DEF Command
<1>2. ASSUME NEW p \in Procs, Step(p) PROVE DatabaseInv'
  BY <1>2, RotateKeyKeeps, LoadKeeps, CompactKeeps, MigrateConnectionKeeps, ApplyMigrationsKeeps,
     FinishMigrationsKeeps, CreateAdminKeeps, ExitKeeps, CopySnapshotKeeps, PublishSnapshotKeeps,
     HashSnapshotKeeps, WriteManifestKeeps, OpenSourceKeeps, LockTargetKeeps, PreserveTargetKeeps,
     DiscardQuarantineKeeps, RemoveSidecarsKeeps, ReplaceTargetKeeps
     DEF Step
<1>3. ASSUME NEW p \in Procs, RejectConfig(p) \/ Crash(p) \/ Fail(p) PROVE DatabaseInv'
  BY <1>3, RejectConfigKeeps, CrashKeeps, FailKeeps
<1>4. ASSUME NEW r \in Requests, Update(r) PROVE DatabaseInv'
  BY <1>4, BeginUpdateKeeps, SaveConfigKeeps, InstallConfigKeeps DEF Update
<1>5. CASE WriteRow \/ Stop \/ Damage
  BY <1>5, WriteRowKeeps, StopKeeps, DamageKeeps
<1>6. CASE UNCHANGED vars
  BY <1>6, Stutters
<1> QED BY <1>1, <1>2, <1>3, <1>4, <1>5, <1>6 DEF Next

(* The invariant holds in every reachable state. *)
LEMMA AlwaysInv == Spec => []DatabaseInv
BY Begins, Continues, PTL DEF Spec

(* The files of the database and of its backups are sound at every step of  *)
(* every process, whatever crashed before: the WAL belongs to its main      *)
(* file, and what a backup or an export published is undamaged and without  *)
(* a plaintext password (db/maintenance.rs).                                *)
THEOREM DatabaseFilesAreSound == Spec => []FilesAreSound
<1>1. DatabaseInv => FilesAreSound
  <2> SUFFICES ASSUME DatabaseInv PROVE FilesAreSound
    OBVIOUS
  <2>1. TypeOK
    <3>1. \A p \in Procs : proc[p].pc = "idle" => proc[p] = Idle
      BY DEF DatabaseInv, Own, Coherent
    <3>2. \A r \in Requests : request[r].pc \in {"idle", "cloned", "saved"}
      BY DEF DatabaseInv
    <3> QED BY <3>1, <3>2 DEF DatabaseInv, TargetShape, Configured, TypeOK
  <2>2. WalExtendsMain
    BY DEF DatabaseInv, TargetShape, WalExtendsMain
  <2> QED BY <2>1, <2>2 DEF DatabaseInv, Shelved, FilesAreSound
<1> QED BY <1>1, AlwaysInv, PTL

(* Everything ever committed is in the target, in a backup whose manifest   *)
(* verifies or in a quarantine, whichever step of a restore, a migration or *)
(* a backup a crash or an error interrupts.                                 *)
THEOREM NoCommitIsLost == Spec => []NothingIsLost
<1>1. DatabaseInv => NothingIsLost
  <2> SUFFICES ASSUME DatabaseInv, NEW x \in written
               PROVE  \/ x \in Holds(Visible)
                      \/ \E path \in Paths : Verified(path) /\ x \in Holds(files[path].file)
                      \/ \E q \in quarantine : x \in InQuarantine(q)
    BY DEF NothingIsLost, InQuarantine
  <2> QED BY KeptIs DEF DatabaseInv, Preserved, Paths
<1> QED BY <1>1, AlwaysInv, PTL

(* While the daemon serves, it holds the lock on a sound, migrated database *)
(* whose secret its key opens, and the configuration in memory is the       *)
(* stored one or an older one, which save_config will refuse.               *)
THEOREM TheServedDatabaseIsReady == Spec => []ServingIsReady
<1>1. DatabaseInv => ServingIsReady
  BY Serves DEF ServingIsReady, DatabaseInv, Configured, UpToDate
<1> QED BY <1>1, AlwaysInv, PTL

-----------------------------------------------------------------------------
(* The import of the legacy history                                         *)

(* A bounded set of integers has a greatest element. *)
LEMMA GreatestBelow ==
    ASSUME NEW S \in SUBSET Int, S # {}, NEW bound \in Int, \A t \in S : t <= bound
    PROVE  Max(S) \in S /\ \A t \in S : t <= Max(S)
<1> DEFINE gaps == {bound - t : t \in S}
           R == OpToRel(<, Nat)
<1>1. gaps \subseteq Nat /\ gaps # {}
  <2>1. \A t \in S : bound - t \in Nat
    OBVIOUS
  <2> QED BY <2>1
<1>2. \A a, b \in Nat : a < b => <<a, b>> \in R
  BY DEF OpToRel
<1>3. IsWellFoundedOn(R, Nat)
  BY NatLessThanWellFounded
<1> HIDE DEF R
<1>4. PICK g \in gaps : \A h \in gaps : <<h, g>> \notin R
  <2> HIDE DEF gaps
  <2> QED BY <1>1, <1>3, WFMin, Zenon
<1>5. \A h \in gaps : g <= h
  <2>1. \A h \in gaps : h \in Nat /\ g \in Nat /\ ~(h < g)
    BY <1>1, <1>2, <1>4
  <2> QED BY <2>1
<1>6. PICK m \in S : g = bound - m
  BY <1>4
<1>7. \A t \in S : m >= t
  BY <1>5, <1>6
<1>8. \E x \in S : \A y \in S : x >= y
  BY <1>7
<1>9. Max(S) \in S /\ \A y \in S : Max(S) >= y
  BY <1>8 DEF Max
<1> QED BY <1>9

(* The larger of two numbers. *)
LEMMA LargerOf ==
    ASSUME NEW a \in Int, NEW b \in Int
    PROVE  Max({a, b}) = IF a >= b THEN a ELSE b
<1>1. \E x \in {a, b} : \A y \in {a, b} : x >= y
  OBVIOUS
<1> QED BY <1>1 DEF Max

(* The smaller of two numbers. *)
LEMMA SmallerOf ==
    ASSUME NEW a \in Int, NEW b \in Int
    PROVE  Min({a, b}) = IF a <= b THEN a ELSE b
<1>1. \E x \in {a, b} : \A y \in {a, b} : x =< y
  OBVIOUS
<1> QED BY <1>1 DEF Min

(* A measured length is positive and does not reach back over an earlier point. *)
LEMMA LengthIs ==
    ASSUME NEW points, \A q \in points : q.at \in Int, NEW p \in points
    PROVE  /\ MeasuredLength(points, p) \in Int /\ MeasuredLength(points, p) >= 1
           /\ \A q \in points : q.wan = p.wan /\ q.at < p.at =>
                 q.at <= p.at - MeasuredLength(points, p)
<1> DEFINE before == PreviousTimes(points, p)
           previous == IF before = {} THEN p.at - FirstLength ELSE Max(before)
           reach == Max({1, p.at - previous})
<1>1. before \in SUBSET Int /\ \A t \in before : t < p.at
  BY DEF PreviousTimes
<1>2. \A q \in points : q.wan = p.wan /\ q.at < p.at => q.at \in before
  BY DEF PreviousTimes
<1>3. MeasuredLength(points, p) = Min({MinuteLength, reach})
  BY DEF MeasuredLength
<1> HIDE DEF before
<1>4. previous \in Int /\ previous < p.at /\ \A t \in before : t <= previous
  <2>1. CASE before = {}
    BY <2>1 DEF FirstLength
  <2>2. CASE before # {}
    <3>1. Max(before) \in before /\ \A t \in before : t <= Max(before)
      <4>1. p.at \in Int /\ \A t \in before : t <= p.at
        BY <1>1
      <4> QED BY <1>1, <2>2, <4>1, GreatestBelow
    <3> QED BY <1>1, <2>2, <3>1
  <2> QED BY <2>1, <2>2
<1> HIDE DEF previous
<1>5. reach = p.at - previous /\ reach >= 1 /\ reach \in Int
  BY <1>4, LargerOf
<1> HIDE DEF reach
<1>6. Min({MinuteLength, reach}) = IF 60 <= reach THEN 60 ELSE reach
  BY <1>5, SmallerOf DEF MinuteLength
<1>7. MeasuredLength(points, p) \in Int /\ MeasuredLength(points, p) >= 1
      /\ MeasuredLength(points, p) <= p.at - previous
  BY <1>3, <1>5, <1>6
<1> QED BY <1>1, <1>2, <1>4, <1>7

(* The composite key changes names and no times. *)
LEMMA Normalized ==
    ASSUME NEW table, \A row \in table : row = [wan |-> row.wan, at |-> row.at] /\ row.at \in Int
    PROVE  /\ \A row \in NormalizedTable(table) :
                 row = [wan |-> row.wan, at |-> row.at] /\ row.at \in Int
           /\ \A row \in NormalizedTable(table) : \E old \in table : row.at = old.at
<1>1. \A row \in table : /\ Coalesced(row) = [wan |-> Coalesced(row).wan, at |-> Coalesced(row).at]
                         /\ Coalesced(row).at = row.at
  <2> TAKE row \in table
  <2>1. row = [wan |-> row.wan, at |-> row.at]
    OBVIOUS
  <2>2. CASE row.wan = Unnamed
    <3>1. Coalesced(row) = [wan |-> Aggregate, at |-> row.at]
      BY <2>1, <2>2 DEF Coalesced
    <3> QED BY <3>1
  <2>3. CASE row.wan # Unnamed
    BY <2>1, <2>3 DEF Coalesced
  <2> QED BY <2>2, <2>3
<1> QED BY <1>1 DEF NormalizedTable

(* What the import makes of any history, whether or not it is complete. *)
LEMMA ImportIsDisjoint ==
    ASSUME NEW points, NEW minutes,
           \A row \in points \cup minutes : row = [wan |-> row.wan, at |-> row.at] /\ row.at \in Int,
           \A row \in minutes : row.at % MinuteLength = 0
    PROVE  LET samples == ImportedSamples(points)
               rollups == ImportedRollups(points, minutes)
           IN  /\ \A a, b \in samples \cup rollups : a # b => Disjoint(a, b)
               /\ samples \cap rollups = {}
               /\ \A p \in points : \E s \in samples : s.wan = p.wan /\ s.to = p.at
<1> DEFINE samples == ImportedSamples(points)
           rollups == ImportedRollups(points, minutes)
           Length(p) == MeasuredLength(points, p)
           Sample(p) == [wan |-> p.wan, from |-> p.at - Length(p), to |-> p.at]
           Rollup(m) == [wan |-> m.wan, from |-> m.at, to |-> m.at + 60]
<1>1. /\ samples = {Sample(p) : p \in points}
      /\ \A b \in rollups : \E m \in minutes : b = Rollup(m) /\ ~Covered(samples, m)
  BY DEF ImportedSamples, ImportedRollups, MinuteLength
<1>2. \A p \in points : /\ Length(p) \in Int /\ Length(p) >= 1 /\ p.at \in Int
                        /\ \A q \in points : q.wan = p.wan /\ q.at < p.at => q.at <= p.at - Length(p)
  BY LengthIs
<1> HIDE DEF samples, rollups, Length
<1>3. \A a, b \in samples : a # b => Disjoint(a, b)
  <2> SUFFICES ASSUME NEW p \in points, NEW q \in points, Sample(p) # Sample(q)
               PROVE  Disjoint(Sample(p), Sample(q))
    BY <1>1
  <2>1. CASE p.wan # q.wan
    BY <2>1 DEF Disjoint
  <2>2. CASE p.wan = q.wan
    <3>1. p.at # q.at
      <4>1. p.at = q.at => p = q
        BY <2>2
      <4> QED BY <4>1
    <3>2. p.at < q.at \/ q.at < p.at
      BY <1>2, <3>1
    <3>3. p.at <= q.at - Length(q) \/ q.at <= p.at - Length(p)
      BY <1>2, <2>2, <3>2
    <3> QED BY <3>3 DEF Disjoint
  <2> QED BY <2>1, <2>2
<1>4. \A a \in samples, b \in rollups : a # b /\ Disjoint(a, b) /\ Disjoint(b, a)
  <2> SUFFICES ASSUME NEW a \in samples, NEW b \in rollups
               PROVE  a # b /\ Disjoint(a, b) /\ Disjoint(b, a)
    OBVIOUS
  <2>1. PICK p \in points : a = Sample(p)
    BY <1>1
  <2>2. PICK m \in minutes : b = Rollup(m) /\ ~Covered(samples, m)
    BY <1>1
  <2>3. p.at \in Int /\ m.at \in Int /\ Length(p) \in Int
    BY <1>2
  <2>4. Sample(p) \in samples
    BY <1>1
  <2>5. \/ p.wan # m.wan \/ ~(p.at > m.at) \/ ~(p.at - Length(p) < m.at + 60)
    BY <2>4, <2>2 DEF Covered, MinuteLength
  <2>6. \/ p.wan # m.wan \/ p.at <= m.at \/ m.at + 60 <= p.at - Length(p)
    BY <2>3, <2>5
  <2>7. Disjoint(Sample(p), Rollup(m)) /\ Disjoint(Rollup(m), Sample(p))
    BY <2>6 DEF Disjoint
  <2>8. Sample(p) # Rollup(m)
    <3>1. Sample(p) = Rollup(m) => /\ p.wan = m.wan /\ p.at = m.at + 60
                                   /\ p.at - Length(p) = m.at
      BY DEF Sample, Rollup
    <3> QED BY <2>3, <2>6, <3>1
  <2> QED BY <2>7, <2>8, <2>1, <2>2
<1>5. \A a, b \in rollups : a # b => Disjoint(a, b)
  <2> SUFFICES ASSUME NEW m \in minutes, NEW n \in minutes, Rollup(m) # Rollup(n)
               PROVE  Disjoint(Rollup(m), Rollup(n))
    BY <1>1
  <2>1. m.at \in Int /\ n.at \in Int /\ m.at % 60 = 0 /\ n.at % 60 = 0
    BY DEF MinuteLength
  <2>2. m.wan # n.wan \/ m.at # n.at
    OBVIOUS
  <2>3. m.at # n.at => m.at + 60 <= n.at \/ n.at + 60 <= m.at
    BY <2>1
  <2> QED BY <2>2, <2>3 DEF Disjoint
<1>6. \A p \in points : \E s \in samples : s.wan = p.wan /\ s.to = p.at
  <2>1. \A p \in points : Sample(p) \in samples /\ Sample(p).wan = p.wan /\ Sample(p).to = p.at
    BY <1>1
  <2> QED BY <2>1
<1>7. samples \cap rollups = {}
  BY <1>4
<1> QED BY <1>3, <1>4, <1>5, <1>6, <1>7 DEF samples, rollups

(* When a migration has been applied, the import of the legacy history      *)
(* counts no second twice and leaves no point out (db/schema.rs): two       *)
(* samples, two rollups, or a sample and a rollup of an interface never     *)
(* overlap.                                                                 *)
THEOREM HistoryIsImportedOnce == Spec => []ImportCountsOnce
<1>1. ASSUME NEW c \in Contents
      PROVE  LET points == LegacyPoints(c)
                 samples == ImportedSamples(points)
                 rollups == ImportedRollups(points, LegacyMinutes(c))
             IN  /\ \A a, b \in samples \cup rollups : a # b => Disjoint(a, b)
                 /\ samples \cap rollups = {}
                 /\ \A p \in points : \E s \in samples : s.wan = p.wan /\ s.to = p.at
  <2> DEFINE points == LegacyPoints(c)
             minutes == LegacyMinutes(c)
  <2>1. /\ \A row \in points \cup minutes : row = [wan |-> row.wan, at |-> row.at] /\ row.at \in Int
        /\ \A row \in minutes : row.at % MinuteLength = 0
    <3>1. CASE c.legacy = None
      BY <3>1 DEF LegacyPoints, LegacyMinutes
    <3>2. CASE c.legacy # None
      <4>1. c.legacy \in DOMAIN Histories
        BY <3>2 DEF Contents
      <4> DEFINE h == Histories[c.legacy]
      <4>2. /\ \A row \in h.points \cup h.minutes :
                  row = [wan |-> row.wan, at |-> row.at] /\ row.at \in Int
            /\ \A row \in h.minutes : row.at % MinuteLength = 0
        BY <4>1, ConstantsAssumption
      <4>3. points = NormalizedTable(h.points) /\ minutes = NormalizedTable(h.minutes)
        BY <3>2 DEF LegacyPoints, LegacyMinutes
      <4> HIDE DEF h, points, minutes
      <4> QED BY <4>2, <4>3, Normalized
    <3> QED BY <3>1, <3>2
  <2> HIDE DEF points, minutes
  <2>2. LET samples == ImportedSamples(points)
            rollups == ImportedRollups(points, minutes)
        IN  /\ \A a, b \in samples \cup rollups : a # b => Disjoint(a, b)
            /\ samples \cap rollups = {}
            /\ \A p \in points : \E s \in samples : s.wan = p.wan /\ s.to = p.at
    BY <2>1, ImportIsDisjoint
  <2> QED BY <2>2 DEF points, minutes
<1>2. DatabaseInv => ImportCountsOnce
  <2> SUFFICES ASSUME DatabaseInv, NEW p \in Procs, proc[p].pc = "finish", Visible.imported
               PROVE  ImportCountsOnce
    BY DEF ImportCountsOnce
  <2>1. Visible \in Contents
    <3>1. TargetShape /\ Opened(p) /\ Writer(p) /\ proc[p].cmd # "restore"
      BY AtWork DEF Opening
    <3>2. main # None
      BY <3>1 DEF Opened
    <3> QED BY <3>1, <3>2, VisibleIs
  <2> QED BY <1>1, <2>1 DEF ImportCountsOnce
<1> QED BY <1>2, AlwaysInv, PTL

=============================================================================
