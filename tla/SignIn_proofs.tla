---------------------------- MODULE SignIn_proofs ----------------------------
(* Setup happens once, a flow of the provider is spent once, and a penalty  *)
(* is served before the next attempt, for any number of requests,           *)
(* addresses, tokens, faults, flows, callbacks and devices.                 *)
EXTENDS SignIn, FiniteSetTheorems, TLAPS

(* The property is not inductive by itself: that a second request finds the *)
(* door closed is in the row of the administrator, and that the token is    *)
(* the latest is in the row of the tokens, which no issue leaves behind.    *)
RowType == [token : Nat \cup {None}, expires : Int, used : BOOLEAN]

SetupTyped ==
    /\ now \in Nat /\ issued \in Nat /\ admin \in BOOLEAN
    /\ row \in RowType

Latest == ~row.used => row.token = issued

Sealed == creations = {} \/ (admin /\ \E c : creations = {c})

Faithful == \A c \in creations : c.token = c.latest /\ c.at < c.expires

SetupInv == SetupTyped /\ Latest /\ Sealed /\ Faithful

(* The initial state has no token and no creation. *)
LEMMA SetupInvInit == ASSUME NEW d \in Deployments, d.admin \in BOOLEAN, SetupInit(d)
                      PROVE  SetupInv
  BY DEF SetupInit, SetupInv, SetupTyped, RowType, Latest, Sealed, Faithful, NoRow

(* A step that leaves the administrator, the tokens and the creations alone *)
(* preserves the invariant, and so does the clock.                          *)
LEMMA SetupInvKept ==
    ASSUME SetupInv, now' \in Nat, UNCHANGED <<admin, row, issued, creations>>
    PROVE  SetupInv'
  BY DEF SetupInv, SetupTyped, RowType, Latest, Sealed, Faithful

(* Taking a token back leaves an empty row or the old one. *)
LEMMA SetupInvInvalidated ==
    ASSUME SetupInv, row' \in {row, NoRow}, UNCHANGED <<now, admin, issued, creations>>
    PROVE  SetupInv'
<1>1. CASE row' = row
  BY <1>1, SetupInvKept DEF SetupInv, SetupTyped
<1>2. CASE row' = NoRow
  <2>1. NoRow \in RowType /\ NoRow.used
    BY DEF NoRow, RowType
  <2> QED BY <1>2, <2>1 DEF SetupInv, SetupTyped, Latest, Sealed, Faithful
<1> QED BY <1>1, <1>2

(* Only the consuming transaction creates, and only while nobody has.       *)
LEMMA SetupInvConsume ==
    ASSUME SetupInv, NEW r \in Handlers, SetupConsume(r)
    PROVE  SetupInv'
<1>1. CASE ~Valid(setup[r].token)
  BY <1>1, SetupInvKept DEF SetupConsume, SetupInv, SetupTyped
<1>2. CASE Valid(setup[r].token)
  <2> DEFINE c0 == Created(setup[r].token)
  <2>1. /\ admin' = TRUE /\ row' = [row EXCEPT !.used = TRUE]
        /\ creations' = creations \cup {c0} /\ UNCHANGED <<now, issued>>
    BY <1>2 DEF SetupConsume
  <2>2. creations = {} /\ row.token = issued /\ setup[r].token = issued /\ row.expires > now
    BY <1>2 DEF SetupInv, Sealed, Latest, Valid
  <2>3. c0.token = c0.latest /\ c0.at < c0.expires
    BY <2>2 DEF Created, SetupInv, SetupTyped, RowType
  <2>4. creations' = {c0}
    BY <2>1, <2>2
  <2>5. SetupTyped' /\ Latest'
    BY <2>1 DEF SetupInv, SetupTyped, RowType, Latest
  <2>6. Sealed' /\ Faithful'
    BY <2>1, <2>3, <2>4 DEF Sealed, Faithful
  <2> QED BY <2>5, <2>6 DEF SetupInv
<1> QED BY <1>1, <1>2

(* Every step of the setup preserves the invariant. *)
LEMMA SetupInvStep == ASSUME SetupInv, SetupNext PROVE SetupInv'
<1> USE SetupAssumption
<1>1. ASSUME now' = now, UNCHANGED <<admin, row, issued, creations>> PROVE SetupInv'
  BY <1>1, SetupInvKept DEF SetupInv, SetupTyped
<1>2. CASE Boot \/ IssueRefused \/ IssueRefusedFails \/ WriteFile \/ RemoveFile \/ Halt \/ Crash
  BY <1>1, <1>2 DEF Boot, IssueRefused, IssueRefusedFails, WriteFile, RemoveFile, Halt, Crash
<1>3. CASE IssueStore
  BY <1>3 DEF IssueStore, SetupInv, SetupTyped, RowType, Latest, Sealed, Faithful
<1>4. CASE WriteFails
  BY <1>4, SetupInvInvalidated DEF WriteFails, Invalidated
<1>5. CASE Cleanup \/ Stop
  BY <1>5, SetupInvInvalidated DEF Cleanup, Stop, Invalidated
<1>6. CASE CliSetup
  BY <1>6 DEF CliSetup, SetupInv, SetupTyped, RowType, Latest, Sealed, Faithful
<1>7. CASE Tick
  BY <1>7, SetupInvKept DEF Tick, SetupInv, SetupTyped
<1>8. ASSUME NEW r \in Handlers, SetupRequest(r) PROVE SetupInv'
  <2>1. CASE SetupConsume(r)
    BY <2>1, SetupInvConsume
  <2>2. CASE SetupDone(r) \/ SetupDropped(r)
    BY <2>2, <1>1 DEF SetupDone, SetupDropped
  <2>3. CASE \E source \in Sources : SetupAsked(r, source)
    BY <2>3, <1>1 DEF SetupAsked
  <2>4. CASE \E token \in 0..issued : SetupChecked(r, token) \/ SetupLegacy(r, token)
    BY <2>4, <1>1 DEF SetupChecked, SetupLegacy
  <2> QED BY <1>8, <2>1, <2>2, <2>3, <2>4 DEF SetupRequest
<1> QED BY <1>2, <1>3, <1>4, <1>5, <1>6, <1>7, <1>8 DEF SetupNext

(* However setup requests, reissues, expiries, restarts, faults and logins  *)
(* interleave, the consuming transaction of auth.rs creates at most one     *)
(* administrator, with the latest token and before it expired.              *)
THEOREM SetupCreatesOneAdministrator == Spec => []SetupHappensOnce
<1>1. Init => SetupInv
  BY SetupInvInit, DeploymentAssumption DEF Init
<1>2. SetupInv /\ [Next]_vars => SetupInv'
  <2> SUFFICES ASSUME SetupInv, [Next]_vars PROVE SetupInv'
    OBVIOUS
  <2>1. CASE SetupNext
    BY <2>1, SetupInvStep
  <2>2. CASE UNCHANGED setupVars
    BY <2>2, SetupInvKept DEF setupVars, SetupInv, SetupTyped
  <2> QED BY <2>1, <2>2 DEF Next, vars
<1>3. SetupInv => SetupHappensOnce
  <2> SUFFICES ASSUME SetupInv PROVE SetupHappensOnce
    OBVIOUS
  <2>1. Cardinality(creations) <= 1
    <3>1. CASE creations = {}
      BY <3>1, FS_EmptySet
    <3>2. CASE \E c : creations = {c}
      BY <3>2, FS_Singleton
    <3> QED BY <3>1, <3>2 DEF SetupInv, Sealed
  <2> QED BY <2>1 DEF SetupHappensOnce, SetupInv, Faithful
<1> QED BY <1>1, <1>2, <1>3, PTL DEF Spec

-----------------------------------------------------------------------------
(* The tables of the limiter.                                               *)

(* Room for one more, or the entry is there already. *)
LEMMA RoomForOne ==
    ASSUME NEW S, NEW x, IsFiniteSet(S), NEW n \in Nat, Cardinality(S) <= n,
           x \in S \/ Cardinality(S) < n
    PROVE  IsFiniteSet(S \cup {x}) /\ Cardinality(S \cup {x}) <= n
<1>1. Cardinality(S) \in Nat
  BY FS_CardinalityType
<1> QED BY <1>1, FS_AddElement

(* A part of a set is no larger. *)
LEMMA NoLarger ==
    ASSUME NEW S, NEW T, IsFiniteSet(S), T \subseteq S, NEW n \in Nat, Cardinality(S) <= n
    PROVE  IsFiniteSet(T) /\ Cardinality(T) <= n
<1>1. IsFiniteSet(T) /\ Cardinality(T) <= Cardinality(S)
  BY FS_Subset
<1>2. Cardinality(T) \in Nat /\ Cardinality(S) \in Nat
  BY <1>1, FS_CardinalityType
<1> QED BY <1>1, <1>2

(* A table within its capacity. *)
Fitting(entries) ==
    /\ IsFiniteSet(DOMAIN entries)
    /\ Cardinality(DOMAIN entries) <= AuthFailureCapacity

LEMMA LookedFits ==
    ASSUME NEW entries, Fitting(entries), NEW key, NEW t
    PROVE  Fitting(Looked(entries, key, t))
<1>1. DOMAIN Looked(entries, key, t) \subseteq DOMAIN entries
  BY DEF Looked, Dropped, Restrict
<1> QED BY <1>1, NoLarger, LimiterAssumption DEF Fitting, LimiterAssumption

(* Recording keeps the capacity: the key is known, there is room, or        *)
(* another entry goes.                                                      *)
LEMMA RecordFits ==
    ASSUME NEW entries, Fitting(entries), NEW key, NEW t,
           NEW after \in RecordFailure(entries, key, t)
    PROVE  Fitting(after)
<1> DEFINE kept == Expired(entries, t)
<1> USE LimiterAssumption DEF LimiterAssumption
<1>1. IsFiniteSet(DOMAIN kept) /\ Cardinality(DOMAIN kept) <= AuthFailureCapacity
  <2>1. DOMAIN kept \subseteq DOMAIN entries
    BY DEF Expired, Dropped, Restrict
  <2> QED BY <2>1, NoLarger DEF Fitting
<1>2. \A e : DOMAIN Recorded(e, key, t) = DOMAIN e \cup {key}
  BY DEF Recorded
<1>3. CASE key \in DOMAIN kept \/ Cardinality(DOMAIN kept) < AuthFailureCapacity
  <2>1. after = Recorded(kept, key, t)
    BY <1>3 DEF RecordFailure
  <2>2. DOMAIN after = DOMAIN kept \cup {key}
    BY <1>2, <2>1
  <2> HIDE DEF kept
  <2> QED BY <1>1, <1>3, <2>2, RoomForOne DEF Fitting
<1>4. CASE ~(key \in DOMAIN kept \/ Cardinality(DOMAIN kept) < AuthFailureCapacity)
  <2>1. PICK k \in DOMAIN kept : after = Recorded(Dropped(kept, {k}), key, t)
    BY <1>4 DEF RecordFailure
  <2>2. DOMAIN after = (DOMAIN kept \ {k}) \cup {key}
    BY <1>2, <2>1 DEF Dropped, Restrict
  <2> HIDE DEF kept
  <2>3. IsFiniteSet(DOMAIN kept \ {k}) /\ Cardinality(DOMAIN kept \ {k}) = Cardinality(DOMAIN kept) - 1
    BY <1>1, FS_RemoveElement
  <2>4. Cardinality(DOMAIN kept) \in Nat
    BY <1>1, FS_CardinalityType
  <2>5. /\ Cardinality(DOMAIN kept \ {k}) < AuthFailureCapacity
        /\ Cardinality(DOMAIN kept \ {k}) <= AuthFailureCapacity
        /\ AuthFailureCapacity \in Nat
    BY <1>1, <2>3, <2>4
  <2>6. IsFiniteSet(DOMAIN after) /\ Cardinality(DOMAIN after) <= AuthFailureCapacity
    BY <2>2, <2>3, <2>5, RoomForOne
  <2> QED BY <2>6 DEF Fitting
<1> QED BY <1>3, <1>4

(* Taking an attempt back makes the table no larger; a new one is empty. *)
LEMMA ClearFits ==
    ASSUME NEW entries, Fitting(entries), NEW key, NEW t
    PROVE  Fitting(ClearIfLatest(entries, key, t))
<1>1. DOMAIN ClearIfLatest(entries, key, t) \subseteq DOMAIN entries
  BY DEF ClearIfLatest, Dropped, Restrict
<1> QED BY <1>1, NoLarger, LimiterAssumption DEF Fitting, LimiterAssumption

LEMMA EmptyFits == Fitting(NoEntries)
<1>1. DOMAIN NoEntries = {}
  BY DEF NoEntries
<1>2. Cardinality({}) = 0 /\ IsFiniteSet({})
  BY FS_EmptySet
<1> QED BY <1>1, <1>2, LimiterAssumption DEF Fitting, LimiterAssumption

-----------------------------------------------------------------------------
(* What the setup keeps has its type.                                       *)

SectionType == [op : {"none", "write", "remove"}, token : Tokens \cup {None},
                by : Handlers \cup {None}]
RequestType == [pc : {"idle", "record", "hash", "done"}, token : Nat \cup {None},
                source : Sources \cup {None}, at : Nat]

Scalars ==
    /\ now \in 0..MaxTime /\ issued \in 0..MaxTokens
    /\ phase \in {"down", "boot", "serving", "stopping"}
    /\ row \in RowType /\ row.token \in Tokens \cup {None}
    /\ file \in Tokens \cup {None}
    /\ section \in SectionType

Flags == setupOpen \in BOOLEAN /\ admin \in BOOLEAN

RequestsTyped == setup \in [Handlers -> RequestType]

SetupSound == Scalars /\ Flags /\ RequestsTyped /\ Fitting(attempts)

LEMMA SetupValues ==
    /\ NoRow \in RowType /\ NoRow.token = None
    /\ NoSection \in SectionType
    /\ NoSetup \in RequestType
BY DEF NoRow, RowType, NoSection, SectionType, NoSetup, RequestType

LEMMA SetupSoundInit ==
    ASSUME NEW d \in Deployments, SetupInit(d)
    PROVE  SetupSound
<1>1. Scalars /\ RequestsTyped
  BY SetupValues, SetupAssumption DEF SetupInit, Scalars, RequestsTyped, SetupAssumption
<1>2. Flags
  BY DeploymentAssumption DEF SetupInit, Flags, DeploymentAssumption
<1>3. Fitting(attempts)
  BY EmptyFits DEF SetupInit
<1> QED BY <1>1, <1>2, <1>3 DEF SetupSound

(* The end of the process. *)
LEMMA EndsSound ==
    ASSUME SetupSound, ProcessEnds, now' = now, issued' = issued, admin' = admin,
           file' \in {file, None}, row' \in {row, NoRow}
    PROVE  SetupSound'
<1>1. Scalars'
  BY SetupValues DEF SetupSound, Scalars, ProcessEnds
<1>2. RequestsTyped'
  BY SetupValues DEF ProcessEnds, RequestsTyped
<1>3. Flags'
  BY DEF SetupSound, Flags, ProcessEnds
<1>4. Fitting(attempts')
  BY EmptyFits DEF ProcessEnds
<1> QED BY <1>1, <1>2, <1>3, <1>4 DEF SetupSound, Fitting

(* Steps outside a request. *)
LEMMA DaemonSound ==
    ASSUME SetupSound,
           \/ Boot \/ IssueRefused \/ IssueStore \/ WriteFile \/ WriteFails
           \/ Cleanup \/ Stop \/ RemoveFile \/ Tick
    PROVE  SetupSound'
<1> USE SetupAssumption DEF SetupAssumption
<1>1. Scalars'
  <2>1. CASE Boot \/ IssueRefused \/ Tick
    BY <2>1 DEF Boot, IssueRefused, Tick, SetupSound, Scalars
  <2>2. CASE IssueStore
    <3>1. issued' \in 1..MaxTokens /\ issued' \in Nat /\ now \in Nat
      BY <2>2 DEF IssueStore, SetupSound, Scalars
    <3>2. row' \in RowType /\ row'.token = issued'
      BY <2>2, <3>1 DEF IssueStore, RowType
    <3>3. section' \in SectionType
      BY <2>2, <3>1 DEF IssueStore, SectionType, Tokens
    <3> QED BY <2>2, <3>1, <3>2, <3>3 DEF IssueStore, SetupSound, Scalars, Tokens
  <2>3. CASE WriteFile
    BY <2>3, SetupValues DEF WriteFile, SetupSound, Scalars, SectionType
  <2>4. CASE WriteFails
    BY <2>4, SetupValues DEF WriteFails, Invalidated, RemovedIfMatches, ProcessEnds, SetupSound,
                             Scalars
  <2>5. CASE Cleanup \/ Stop
    <3>1. [op |-> "remove", token |-> row.token, by |-> None] \in SectionType
      BY DEF SetupSound, Scalars, SectionType
    <3> QED
      BY <2>5, <3>1, SetupValues DEF Cleanup, Stop, Invalidated, SetupSound, Scalars
  <2>6. CASE RemoveFile
    BY <2>6, SetupValues DEF RemoveFile, RemovedIfMatches, SetupSound, Scalars
  <2> QED BY <2>1, <2>2, <2>3, <2>4, <2>5, <2>6
<1>2. Flags'
  <2>1. CASE WriteFile
    <3>1. setupOpen' \in BOOLEAN
      BY <2>1 DEF WriteFile, SetupSound, Flags
    <3> QED BY <2>1, <3>1 DEF WriteFile, SetupSound, Flags
  <2>2. CASE WriteFails
    BY <2>2 DEF WriteFails, ProcessEnds, SetupSound, Flags
  <2>3. CASE Boot \/ IssueRefused \/ IssueStore \/ Cleanup \/ Stop \/ RemoveFile \/ Tick
    BY <2>3 DEF Boot, IssueRefused, IssueStore, Cleanup, Stop, RemoveFile, Tick, SetupSound, Flags
  <2> QED BY <2>1, <2>2, <2>3
<1>3. RequestsTyped'
  <2>1. CASE RemoveFile
    <3>1. \A r \in Handlers : [setup[r] EXCEPT !.pc = "done"] \in RequestType
      BY DEF SetupSound, RequestsTyped, RequestType
    <3> QED BY <2>1, <3>1 DEF RemoveFile, SetupSound, RequestsTyped
  <2>2. CASE WriteFails
    BY <2>2, SetupValues DEF WriteFails, ProcessEnds, SetupSound, RequestsTyped
  <2>3. CASE Boot \/ IssueRefused \/ IssueStore \/ Cleanup \/ Stop \/ WriteFile \/ Tick
    BY <2>3 DEF Boot, IssueRefused, IssueStore, Cleanup, Stop, WriteFile, Tick, SetupSound,
                RequestsTyped
  <2> QED BY <2>1, <2>2, <2>3
<1>4. Fitting(attempts')
  <2>1. attempts' \in {attempts, NoEntries}
    BY DEF Boot, IssueRefused, IssueStore, Cleanup, Stop, WriteFile, WriteFails, RemoveFile,
           Tick, ProcessEnds
  <2> QED BY <2>1, EmptyFits DEF SetupSound
<1> QED BY <1>1, <1>2, <1>3, <1>4 DEF SetupSound, Fitting

(* Steps of a request. *)
LEMMA RequestSound ==
    ASSUME SetupSound, NEW r \in Handlers, SetupRequest(r)
    PROVE  SetupSound'
<1> USE SetupAssumption DEF SetupAssumption
<1>0. /\ setup[r] \in RequestType /\ now \in Nat
      /\ \A token \in 0..issued : token \in Nat
  BY DEF SetupSound, RequestsTyped, Scalars
<1>1. ASSUME UNCHANGED <<now, phase, admin, row, file, section, issued>>,
             setupOpen' \in {setupOpen, FALSE}, NEW new \in RequestType,
             setup' \in {setup, [setup EXCEPT ![r] = new]}, Fitting(attempts')
      PROVE  SetupSound'
  <2>1. Scalars' /\ RequestsTyped'
    BY <1>1 DEF SetupSound, Scalars, RequestsTyped
  <2>2. Flags'
    BY <1>1 DEF SetupSound, Flags
  <2> QED BY <1>1, <2>1, <2>2 DEF SetupSound, Fitting
<1>2. ASSUME NEW source \in Sources, SetupAsked(r, source) PROVE SetupSound'
  <2>1. Fitting(attempts')
    BY <1>2, LookedFits DEF SetupAsked, SetupSound
  <2> DEFINE new == [NoSetup EXCEPT !.pc = "record", !.source = source, !.at = now]
  <2>2. new \in RequestType
    BY <1>0 DEF NoSetup, RequestType
  <2>3. setup' \in {setup, [setup EXCEPT ![r] = new]}
    BY <1>2 DEF SetupAsked
  <2> HIDE DEF new
  <2> QED BY <1>1, <1>2, <2>1, <2>2, <2>3 DEF SetupAsked
<1>3. ASSUME NEW token \in 0..issued, SetupChecked(r, token) PROVE SetupSound'
  <2>1. Fitting(attempts')
    BY <1>3, RecordFits DEF SetupChecked, SetupSound
  <2>2. CASE Valid(token)
    <3> DEFINE new == [setup[r] EXCEPT !.pc = "hash", !.token = token]
    <3>1. new \in RequestType
      BY <1>0 DEF RequestType
    <3>2. setup' = [setup EXCEPT ![r] = new]
      BY <1>3, <2>2 DEF SetupChecked
    <3> HIDE DEF new
    <3> QED BY <1>1, <1>3, <2>1, <3>1, <3>2 DEF SetupChecked
  <2>3. CASE ~Valid(token)
    BY <1>1, <1>3, <2>1, <2>3, SetupValues DEF SetupChecked, EndSetup
  <2> QED BY <2>2, <2>3
<1>4. ASSUME NEW token \in 0..issued, SetupLegacy(r, token) PROVE SetupSound'
  <2> DEFINE new == [NoSetup EXCEPT !.pc = "hash", !.token = token]
  <2>1. new \in RequestType
    BY <1>0 DEF NoSetup, RequestType
  <2>2. setup' = [setup EXCEPT ![r] = new]
    BY <1>4 DEF SetupLegacy
  <2>3. Fitting(attempts')
    BY <1>4 DEF SetupLegacy, SetupSound
  <2> HIDE DEF new
  <2> QED BY <1>1, <1>4, <2>1, <2>2, <2>3 DEF SetupLegacy
<1>5. CASE SetupConsume(r)
  <2>1. Fitting(attempts')
    BY <1>5 DEF SetupConsume, SetupSound
  <2>2. CASE Valid(setup[r].token)
    <3>1. /\ admin' = TRUE /\ row' = [row EXCEPT !.used = TRUE]
          /\ section' = [op |-> "remove", token |-> setup[r].token, by |-> r]
          /\ UNCHANGED <<now, phase, setupOpen, file, issued, setup>>
      BY <1>5, <2>2 DEF SetupConsume
    <3>2. setup[r].token \in Tokens \cup {None}
      BY <2>2 DEF Valid, SetupSound, Scalars
    <3>3. section' \in SectionType
      BY <3>1, <3>2 DEF SectionType
    <3>4. row' \in RowType /\ row'.token = row.token
      BY <3>1 DEF RowType, SetupSound, Scalars
    <3>5. Scalars' /\ RequestsTyped'
      BY <3>1, <3>3, <3>4 DEF SetupSound, Scalars, RequestsTyped
    <3>6. Flags'
      BY <3>1 DEF SetupSound, Flags
    <3> QED BY <2>1, <3>5, <3>6 DEF SetupSound, Fitting
  <2>3. CASE ~Valid(setup[r].token)
    BY <1>1, <1>5, <2>1, <2>3, SetupValues DEF SetupConsume, EndSetup
  <2> QED BY <2>2, <2>3
<1>6. CASE SetupDone(r)
  <2>1. Fitting(attempts')
    BY <1>6, ClearFits DEF SetupDone, SetupSound
  <2> QED BY <1>1, <1>6, <2>1, SetupValues DEF SetupDone, EndSetup
<1>7. CASE SetupDropped(r)
  <2>1. Fitting(attempts')
    BY <1>7 DEF SetupDropped, SetupSound
  <2> QED BY <1>1, <1>7, <2>1, SetupValues DEF SetupDropped, EndSetup
<1> QED BY <1>2, <1>3, <1>4, <1>5, <1>6, <1>7 DEF SetupRequest

(* Every step of the setup. *)
LEMMA SetupSoundStep == ASSUME SetupSound, SetupNext PROVE SetupSound'
<1>1. CASE IssueRefusedFails \/ Halt \/ Crash
  BY <1>1, EndsSound DEF IssueRefusedFails, Halt, Crash
<1>2. CASE CliSetup
  <2>1. Scalars' /\ RequestsTyped'
    BY <1>2 DEF CliSetup, FileError, SetupSound, Scalars, RequestsTyped
  <2>2. Flags'
    BY <1>2 DEF CliSetup, SetupSound, Flags
  <2>3. Fitting(attempts')
    BY <1>2 DEF CliSetup, SetupSound
  <2> QED BY <2>1, <2>2, <2>3 DEF SetupSound, Fitting
<1> QED BY <1>1, <1>2, DaemonSound, RequestSound DEF SetupNext

(* Steps of the other parts. *)
LEMMA SetupSoundKept == ASSUME SetupSound, UNCHANGED setupVars PROVE SetupSound'
<1>1. Scalars' /\ RequestsTyped' /\ Fitting(attempts')
  BY DEF setupVars, SetupSound, Scalars, RequestsTyped
<1>2. Flags'
  BY DEF setupVars, SetupSound, Flags
<1> QED BY <1>1, <1>2 DEF SetupSound, Fitting

-----------------------------------------------------------------------------
(* Logins through the provider: types and permits.                          *)

Keys == 1..MaxChanges + 1
CallbackType ==
    [pc : {"idle", "exchange", "refresh", "store", "identify"}, flow : Flows \cup {None},
     browser : Browsers \cup {None}, keys : Keys \cup {None}, signed : Keys \cup {None}]
DiscoveryType == [pc : {"sleep", "fetch", "store"}, found : Keys \cup {None}]

IdpTyped ==
    /\ {"keys", "changes"} \subseteq DOMAIN idp
    /\ idp.keys \in Nat /\ idp.changes \in Nat
    /\ idp.changes <= MaxChanges
    /\ 1 <= idp.keys /\ idp.keys <= idp.changes + 1

MemoryTyped ==
    /\ provider \in Keys \cup {None}
    /\ discovery \in DiscoveryType
    /\ callback \in [Callbacks -> CallbackType]

OidcTyped == IdpTyped /\ MemoryTyped

(* Callbacks that hold a permit. *)
Busy == {c \in Callbacks : callback[c].pc # "idle"}

PermitsHeld == IsFiniteSet(Busy) /\ PermitsTaken <= OidcRequests

LEMMA OidcBounds ==
    /\ MaxChanges \in Nat /\ OidcRequests \in Nat /\ FlowCapacity \in Nat
    /\ None \notin Flows /\ None \notin Browsers
BY OidcAssumption DEF OidcAssumption

LEMMA OidcValues == NoCallback \in CallbackType /\ NoDiscovery \in DiscoveryType
BY DEF NoCallback, CallbackType, NoDiscovery, DiscoveryType

(* What a discovery finds are keys of the provider. *)
LEMMA FoundTyped == ASSUME IdpTyped PROVE idp.keys \in Keys /\ Found \in Keys \cup {None}
BY OidcBounds DEF IdpTyped, Keys, Found

(* A change of the provider keeps its type. *)
LEMMA ProviderTyped ==
    ASSUME OidcTyped, ChangeKeys \/ GoDownOrUp
    PROVE  OidcTyped'
<1> USE OidcBounds DEF OidcTyped, IdpTyped
<1>1. CASE ChangeKeys
  <2>1. /\ idp.changes < MaxChanges
        /\ DOMAIN idp' = DOMAIN idp
        /\ idp'.keys = idp.keys + 1 /\ idp'.changes = idp.changes + 1
    BY <1>1 DEF ChangeKeys
  <2> QED BY <1>1, <2>1 DEF ChangeKeys, MemoryTyped, memory
<1>2. CASE GoDownOrUp
  <2>1. /\ idp.changes < MaxChanges
        /\ DOMAIN idp' = DOMAIN idp
        /\ idp'.keys = idp.keys /\ idp'.changes = idp.changes + 1
    BY <1>2 DEF GoDownOrUp
  <2> QED BY <1>2, <2>1 DEF GoDownOrUp, MemoryTyped, memory
<1> QED BY <1>1, <1>2

(* What a callback does next. *)
LEMMA CallbackTyped ==
    ASSUME OidcTyped, NEW c \in Callbacks, CallbackStep(c) \/ CallbackDropped(c)
    PROVE  MemoryTyped'
<1>0. callback[c] \in CallbackType /\ provider \in Keys \cup {None} /\ discovery \in DiscoveryType
  BY DEF OidcTyped, MemoryTyped
<1>1. ASSUME NEW new \in CallbackType, callback' = [callback EXCEPT ![c] = new],
             provider' \in Keys \cup {None}, discovery' = discovery
      PROVE  MemoryTyped'
  BY <1>1 DEF OidcTyped, MemoryTyped
<1>2. CASE Exchange(c)
  <2>1. CASE Answer(c)
    BY <1>0, <1>1, <1>2, <2>1, OidcValues DEF Exchange, Answer
  <2>2. CASE ~Answer(c)
    <3> DEFINE pc == IF Accepts(callback[c].keys, idp.keys) THEN "identify" ELSE "refresh"
               new == [callback[c] EXCEPT !.signed = idp.keys, !.pc = pc]
    <3>1. new \in CallbackType
      BY <1>0, FoundTyped DEF OidcTyped, CallbackType
    <3>2. callback' = [callback EXCEPT ![c] = new]
      BY <1>2, <2>2 DEF Exchange
    <3> HIDE DEF new
    <3> QED BY <1>0, <1>1, <1>2, <3>1, <3>2 DEF Exchange
  <2> QED BY <2>1, <2>2
<1>3. CASE RefreshFetch(c)
  <2> DEFINE new == [callback[c] EXCEPT !.pc = "store", !.keys = Found]
  <2>1. new \in CallbackType
    BY <1>0, FoundTyped DEF OidcTyped, CallbackType
  <2>2. callback' = [callback EXCEPT ![c] = new]
    BY <1>3 DEF RefreshFetch
  <2> HIDE DEF new
  <2> QED BY <1>0, <1>1, <1>3, <2>1, <2>2 DEF RefreshFetch
<1>4. CASE RefreshStore(c)
  <2>1. provider' \in Keys \cup {None}
    BY <1>0, <1>4 DEF RefreshStore, CallbackType
  <2>2. CASE Answer(c)
    BY <1>0, <1>1, <1>4, <2>1, <2>2, OidcValues DEF RefreshStore, Answer
  <2>3. CASE ~Answer(c)
    <3> DEFINE new == [callback[c] EXCEPT !.pc = "identify"]
    <3>1. new \in CallbackType
      BY <1>0 DEF CallbackType
    <3>2. callback' = [callback EXCEPT ![c] = new]
      BY <1>4, <2>3 DEF RefreshStore
    <3> HIDE DEF new
    <3> QED BY <1>0, <1>1, <1>4, <2>1, <3>1, <3>2 DEF RefreshStore
  <2> QED BY <2>2, <2>3
<1>5. CASE Identify(c) \/ CallbackDropped(c)
  BY <1>0, <1>1, <1>5, OidcValues DEF Identify, Answer, CallbackDropped
<1> QED BY <1>2, <1>3, <1>4, <1>5 DEF CallbackStep

(* A new callback remembers its flow, its browser and the keys at hand. *)
NewCallback(b, f) ==
    [NoCallback EXCEPT !.pc = "exchange", !.flow = f, !.browser = b, !.keys = provider]

LEMMA NewCallbackTyped ==
    ASSUME MemoryTyped, NEW b \in Browsers, NEW f \in Flows
    PROVE  /\ NewCallback(b, f) \in CallbackType
           /\ NewCallback(b, f).pc = "exchange"
           /\ NewCallback(b, f).flow = f
           /\ NewCallback(b, f).browser = b
BY DEF MemoryTyped, NewCallback, NoCallback, CallbackType

(* Every step of the provider, the discovery and the logins. *)
LEMMA OidcTypedStep == ASSUME OidcTyped, OidcNext PROVE OidcTyped'
<1>1. CASE ChangeKeys \/ GoDownOrUp
  BY <1>1, ProviderTyped
<1>2. ASSUME idp' = idp, MemoryTyped' PROVE OidcTyped'
  BY <1>2 DEF OidcTyped, IdpTyped
<1>3. CASE DiscoverBegin
  <2>1. discovery' \in DiscoveryType
    BY <1>3 DEF DiscoverBegin, DiscoveryType
  <2> QED BY <1>2, <1>3, <2>1 DEF DiscoverBegin, OidcTyped, MemoryTyped
<1>4. CASE DiscoverFetch
  <2>1. discovery' \in DiscoveryType
    BY <1>4, FoundTyped DEF DiscoverFetch, DiscoveryType, OidcTyped
  <2> QED BY <1>2, <1>4, <2>1 DEF DiscoverFetch, OidcTyped, MemoryTyped
<1>5. CASE DiscoverStore
  <2>1. provider' \in Keys \cup {None}
    BY <1>5 DEF DiscoverStore, OidcTyped, MemoryTyped, DiscoveryType
  <2> QED BY <1>2, <1>5, <2>1, OidcValues DEF DiscoverStore, OidcTyped, MemoryTyped
<1>6. CASE \E f \in Flows : Authorize(f)
  BY <1>2, <1>6 DEF Authorize, memory, OidcTyped, MemoryTyped
<1>7. ASSUME NEW b \in Browsers, NEW source \in Sources, NEW f \in Flows,
             Start(b, source, f) \/ CallbackRefused(b, f)
      PROVE  OidcTyped'
  BY <1>2, <1>7 DEF Start, CallbackRefused, OidcTyped, MemoryTyped
<1>8. ASSUME NEW b \in Browsers, NEW source \in Sources, NEW f \in Flows, NEW c \in Callbacks,
             CallbackAccepted(c, b, source, f)
      PROVE  OidcTyped'
  <2>1. callback' = [callback EXCEPT ![c] = NewCallback(b, f)]
    BY <1>8 DEF CallbackAccepted, NewCallback
  <2>2. NewCallback(b, f) \in CallbackType
    BY NewCallbackTyped DEF OidcTyped
  <2> QED BY <1>2, <1>8, <2>1, <2>2 DEF CallbackAccepted, OidcTyped, MemoryTyped
<1>9. ASSUME NEW c \in Callbacks, CallbackStep(c) \/ CallbackDropped(c) PROVE OidcTyped'
  BY <1>2, <1>9, CallbackTyped DEF CallbackStep, CallbackDropped, Exchange, RefreshFetch,
                                   RefreshStore, Identify
<1> QED BY <1>1, <1>3, <1>4, <1>5, <1>6, <1>7, <1>8, <1>9 DEF OidcNext

(* A step after which no more callbacks are busy and no discovery began. *)
LEMMA PermitsReleased ==
    ASSUME PermitsHeld, Busy' \subseteq Busy, discovery.pc = "fetch" \/ discovery'.pc # "fetch"
    PROVE  PermitsHeld'
<1>1. IsFiniteSet(Busy') /\ Cardinality(Busy') <= Cardinality(Busy)
  BY FS_Subset DEF PermitsHeld
<1>2. Cardinality(Busy) \in Nat /\ Cardinality(Busy') \in Nat
  BY <1>1, FS_CardinalityType DEF PermitsHeld
<1>3. /\ PermitsTaken = Cardinality(Busy) + (IF discovery.pc = "fetch" THEN 1 ELSE 0)
      /\ PermitsTaken' = Cardinality(Busy') + (IF discovery'.pc = "fetch" THEN 1 ELSE 0)
  BY DEF PermitsTaken, Busy
<1>4. PermitsTaken' <= OidcRequests
  BY <1>1, <1>2, <1>3, OidcBounds DEF PermitsHeld
<1> QED BY <1>1, <1>4 DEF PermitsHeld

(* A discovery begins only with a permit to take. *)
LEMMA PermitTakenByDiscovery ==
    ASSUME OidcTyped, PermitsHeld, DiscoverBegin
    PROVE  PermitsHeld'
<1>1. Busy' = Busy
  BY DEF DiscoverBegin, Busy
<1>2. CASE PermitsTaken < OidcRequests
  <2>1. /\ PermitsTaken = Cardinality(Busy) + 0
        /\ PermitsTaken' = Cardinality(Busy') + 1
    BY <1>2 DEF PermitsTaken, Busy, DiscoverBegin
  <2>2. Cardinality(Busy) \in Nat
    BY FS_CardinalityType DEF PermitsHeld
  <2>3. PermitsTaken' <= OidcRequests
    BY <1>1, <1>2, <2>1, <2>2, OidcBounds
  <2> QED BY <1>1, <2>3 DEF PermitsHeld
<1>3. CASE ~(PermitsTaken < OidcRequests)
  <2>1. discovery'.pc # "fetch"
    BY <1>3 DEF DiscoverBegin
  <2> QED BY <1>1, <2>1, PermitsReleased
<1> QED BY <1>2, <1>3

(* So does a callback. *)
LEMMA PermitTakenByCallback ==
    ASSUME OidcTyped, PermitsHeld, NEW c \in Callbacks, NEW b \in Browsers, NEW source \in Sources,
           NEW f \in Flows, CallbackAccepted(c, b, source, f)
    PROVE  PermitsHeld'
<1>1. callback' = [callback EXCEPT ![c] = NewCallback(b, f)] /\ callback[c] = NoCallback
  BY DEF CallbackAccepted, NewCallback
<1>2. NewCallback(b, f).pc = "exchange" /\ NoCallback.pc = "idle"
  BY NewCallbackTyped DEF OidcTyped, NoCallback
<1>3. Busy' = Busy \cup {c} /\ c \notin Busy
  BY <1>1, <1>2 DEF Busy, OidcTyped, MemoryTyped
<1>4. IsFiniteSet(Busy') /\ Cardinality(Busy') = Cardinality(Busy) + 1
  BY <1>3, FS_AddElement DEF PermitsHeld
<1>5. Cardinality(Busy) \in Nat
  BY FS_CardinalityType DEF PermitsHeld
<1>6. /\ PermitsTaken = Cardinality(Busy) + (IF discovery.pc = "fetch" THEN 1 ELSE 0)
      /\ PermitsTaken' = Cardinality(Busy') + (IF discovery.pc = "fetch" THEN 1 ELSE 0)
      /\ PermitsTaken < OidcRequests
  BY DEF PermitsTaken, Busy, CallbackAccepted
<1>7. PermitsTaken' <= OidcRequests
  BY <1>4, <1>5, <1>6, OidcBounds
<1> QED BY <1>4, <1>7 DEF PermitsHeld

(* Permits never exceed their number. *)
LEMMA PermitsHeldStep == ASSUME OidcTyped, PermitsHeld, OidcNext PROVE PermitsHeld'
<1>1. ASSUME UNCHANGED <<callback, discovery>> PROVE PermitsHeld'
  <2>1. Busy' = Busy
    BY <1>1 DEF Busy
  <2> QED BY <1>1, <2>1, PermitsReleased
<1>2. CASE ChangeKeys \/ GoDownOrUp \/ \E f \in Flows : Authorize(f)
  BY <1>1, <1>2 DEF ChangeKeys, GoDownOrUp, Authorize, memory
<1>3. CASE DiscoverFetch \/ DiscoverStore
  <2>1. Busy' = Busy /\ discovery'.pc # "fetch"
    BY <1>3 DEF DiscoverFetch, DiscoverStore, Busy, NoDiscovery
  <2> QED BY <2>1, PermitsReleased
<1>4. ASSUME NEW b \in Browsers, NEW source \in Sources, NEW f \in Flows,
             Start(b, source, f) \/ CallbackRefused(b, f)
      PROVE  PermitsHeld'
  BY <1>1, <1>4 DEF Start, CallbackRefused
<1>5. ASSUME NEW c \in Callbacks, CallbackStep(c) \/ CallbackDropped(c) PROVE PermitsHeld'
  <2>1. callback[c].pc # "idle" /\ discovery' = discovery
    BY <1>5 DEF CallbackStep, CallbackDropped, Exchange, RefreshFetch, RefreshStore, Identify
  <2>2. \A d \in Callbacks \ {c} : callback'[d] = callback[d]
    BY <1>5 DEF CallbackStep, CallbackDropped, Exchange, RefreshFetch, RefreshStore, Identify,
                Answer, OidcTyped, MemoryTyped
  <2>3. Busy' \subseteq Busy
    BY <2>1, <2>2 DEF Busy
  <2> QED BY <2>1, <2>3, PermitsReleased
<1> QED
  BY <1>2, <1>3, <1>4, <1>5, PermitTakenByDiscovery, PermitTakenByCallback DEF OidcNext

-----------------------------------------------------------------------------
(* Logins through the provider: whose flow a callback works on.             *)

(* A flow that is stored was opened, and a cookie holds a flow that its own *)
(* browser opened.                                                          *)
FlowsKnown ==
    /\ DOMAIN opened \subseteq Flows
    /\ DOMAIN flows \subseteq DOMAIN opened
    /\ IsFiniteSet(DOMAIN flows) /\ Cardinality(DOMAIN flows) <= FlowCapacity
    /\ cookie \in [Browsers -> Flows \cup {None}]
    /\ \A b \in Browsers : cookie[b] # None =>
          cookie[b] \in DOMAIN opened /\ opened[cookie[b]] = b

(* A callback took its flow out of the store, for the browser that opened   *)
(* it; nobody else works on it and no session came of it yet.               *)
Exclusive(c) ==
    /\ callback[c].flow \in DOMAIN opened /\ callback[c].flow \notin DOMAIN flows
    /\ callback[c].browser \in Browsers
    /\ callback[c].browser = opened[callback[c].flow]
    /\ \A d \in Callbacks \ {c} : callback[d].flow # callback[c].flow
    /\ \A s \in sessions : s.flow # callback[c].flow

CallbacksExclusive ==
    \A c \in Callbacks : IF callback[c].pc = "idle" THEN callback[c].flow = None ELSE Exclusive(c)

SessionsOfFlows ==
    \A s \in sessions :
        /\ s \in [flow : Flows, browser : Browsers]
        /\ s.flow \in DOMAIN opened /\ s.flow \notin DOMAIN flows
        /\ s.browser = opened[s.flow]

FlowsSound == FlowsKnown /\ CallbacksExclusive /\ SessionsOfFlows

(* The store never grows in a step of this kind, and callbacks end or keep  *)
(* their flow.                                                              *)
FlowsAge ==
    /\ opened' = opened /\ sessions' = sessions
    /\ DOMAIN flows' \subseteq DOMAIN flows
    /\ cookie' \in [Browsers -> Flows \cup {None}]
    /\ \A b \in Browsers : cookie'[b] \in {cookie[b], None}
    /\ \A c \in Callbacks :
        \/ callback'[c].pc = "idle" /\ callback'[c].flow = None
        \/ /\ callback[c].pc # "idle" /\ callback'[c].pc # "idle"
           /\ callback'[c].flow = callback[c].flow /\ callback'[c].browser = callback[c].browser

(* Aging keeps everything. *)
LEMMA FlowsAgeSound == ASSUME FlowsSound, FlowsAge PROVE FlowsSound'
<1>1. FlowsKnown'
  <2>1. IsFiniteSet(DOMAIN flows') /\ Cardinality(DOMAIN flows') <= FlowCapacity
    BY NoLarger, OidcBounds DEF FlowsSound, FlowsKnown, FlowsAge
  <2> QED BY <2>1 DEF FlowsSound, FlowsKnown, FlowsAge
<1>2. ASSUME NEW c \in Callbacks
      PROVE  (IF callback[c].pc = "idle" THEN callback[c].flow = None ELSE Exclusive(c))'
  <2>1. CASE callback'[c].pc = "idle" /\ callback'[c].flow = None
    BY <2>1
  <2>2. CASE /\ callback[c].pc # "idle" /\ callback'[c].pc # "idle"
             /\ callback'[c].flow = callback[c].flow /\ callback'[c].browser = callback[c].browser
    <3>1. Exclusive(c) /\ callback[c].flow # None
      BY <2>2, OidcBounds DEF FlowsSound, CallbacksExclusive, Exclusive, FlowsKnown
    <3>2. \A d \in Callbacks \ {c} : callback'[d].flow # callback'[c].flow
      BY <2>2, <3>1 DEF FlowsAge, Exclusive
    <3> QED BY <2>2, <3>1, <3>2 DEF FlowsAge, Exclusive
  <2> QED BY <2>1, <2>2 DEF FlowsAge
<1>3. SessionsOfFlows'
  BY DEF FlowsSound, SessionsOfFlows, FlowsAge
<1> QED BY <1>1, <1>2, <1>3 DEF FlowsSound, CallbacksExclusive

(* What is left after the expired flows are gone was stored before. *)
LEMMA RetainedStored == DOMAIN Retained \subseteq DOMAIN flows
BY DEF Retained, Restrict

(* Opening a flow that did not exist. *)
FlowOpens(b, f) ==
    /\ f \notin DOMAIN opened
    /\ DOMAIN flows' = DOMAIN Retained \cup {f}
    /\ Cardinality(DOMAIN Retained) < FlowCapacity
    /\ cookie' = [cookie EXCEPT ![b] = f]
    /\ opened' = [g \in DOMAIN opened \cup {f} |-> IF g = f THEN b ELSE opened[g]]
    /\ UNCHANGED <<callback, sessions>>

(* Nobody works on a flow that was not there. *)
LEMMA FlowOpensSound ==
    ASSUME FlowsSound, NEW b \in Browsers, NEW f \in Flows, FlowOpens(b, f)
    PROVE  FlowsSound'
<1>1. /\ DOMAIN opened' = DOMAIN opened \cup {f} /\ opened'[f] = b
      /\ \A g \in DOMAIN opened : opened'[g] = opened[g] /\ g # f
  BY DEF FlowOpens
<1>2. FlowsKnown'
  <2>1. IsFiniteSet(DOMAIN Retained) /\ Cardinality(DOMAIN Retained) <= FlowCapacity
    BY RetainedStored, NoLarger, OidcBounds DEF FlowsSound, FlowsKnown
  <2>2. IsFiniteSet(DOMAIN flows') /\ Cardinality(DOMAIN flows') <= FlowCapacity
    BY <2>1, RoomForOne, OidcBounds DEF FlowOpens
  <2>3. DOMAIN opened' \subseteq Flows /\ DOMAIN flows' \subseteq DOMAIN opened'
    BY <1>1, RetainedStored DEF FlowsSound, FlowsKnown, FlowOpens
  <2>4. cookie' \in [Browsers -> Flows \cup {None}]
    BY DEF FlowsSound, FlowsKnown, FlowOpens
  <2>5. ASSUME NEW e \in Browsers, cookie'[e] # None
        PROVE  cookie'[e] \in DOMAIN opened' /\ opened'[cookie'[e]] = e
    <3>1. CASE e = b
      BY <1>1, <3>1 DEF FlowsSound, FlowsKnown, FlowOpens
    <3>2. CASE e # b
      BY <1>1, <2>5, <3>2 DEF FlowsSound, FlowsKnown, FlowOpens
    <3> QED BY <3>1, <3>2
  <2> QED BY <2>2, <2>3, <2>4, <2>5 DEF FlowsKnown
<1>3. ASSUME NEW c \in Callbacks, callback[c].pc # "idle" PROVE Exclusive(c)'
  <2>1. Exclusive(c)
    BY <1>3 DEF FlowsSound, CallbacksExclusive
  <2>2. callback[c].flow \notin DOMAIN flows' /\ opened'[callback[c].flow] = opened[callback[c].flow]
    BY <1>1, <2>1, RetainedStored DEF Exclusive, FlowOpens
  <2> QED BY <1>1, <2>1, <2>2 DEF Exclusive, FlowOpens
<1>4. CallbacksExclusive'
  BY <1>3 DEF FlowsSound, CallbacksExclusive, FlowOpens
<1>5. SessionsOfFlows'
  BY <1>1, RetainedStored DEF FlowsSound, SessionsOfFlows, FlowOpens
<1> QED BY <1>2, <1>4, <1>5 DEF FlowsSound

(* A callback takes the flow out of the store: it was nobody's.             *)
LEMMA FlowTakenSound ==
    ASSUME OidcTyped, FlowsSound, NEW c \in Callbacks, NEW b \in Browsers, NEW source \in Sources,
           NEW f \in Flows, CallbackAccepted(c, b, source, f)
    PROVE  FlowsSound'
<1>1. /\ callback' = [callback EXCEPT ![c] = NewCallback(b, f)]
      /\ cookie[b] = f /\ f \in DOMAIN Retained /\ f \in DOMAIN opened
      /\ DOMAIN flows' = DOMAIN Retained \ {f}
      /\ UNCHANGED <<opened, cookie, sessions>>
  BY DEF CallbackAccepted, NewCallback, Matches, Consumed, Restrict
<1>2. /\ callback'[c].pc = "exchange" /\ callback'[c].flow = f /\ callback'[c].browser = b
      /\ \A d \in Callbacks \ {c} : callback'[d] = callback[d]
  BY <1>1, NewCallbackTyped DEF OidcTyped, MemoryTyped
<1>3. f \in DOMAIN flows /\ opened[f] = b /\ f # None
  BY <1>1, RetainedStored, OidcBounds DEF FlowsSound, FlowsKnown
<1>4. \A d \in Callbacks \ {c} : callback[d].flow # f
  BY <1>3 DEF FlowsSound, CallbacksExclusive, Exclusive
<1>5. DOMAIN flows' \subseteq DOMAIN flows /\ f \notin DOMAIN flows'
  BY <1>1, RetainedStored
<1>6. FlowsKnown'
  <2>1. IsFiniteSet(DOMAIN flows') /\ Cardinality(DOMAIN flows') <= FlowCapacity
    BY <1>5, NoLarger, OidcBounds DEF FlowsSound, FlowsKnown
  <2> QED BY <1>1, <1>5, <2>1 DEF FlowsSound, FlowsKnown
<1>7. ASSUME NEW d \in Callbacks
      PROVE  (IF callback[d].pc = "idle" THEN callback[d].flow = None ELSE Exclusive(d))'
  <2>1. CASE d = c
    <3>1. \A s \in sessions : s.flow # f
      BY <1>3 DEF FlowsSound, SessionsOfFlows
    <3> QED BY <1>1, <1>2, <1>3, <1>4, <1>5, <2>1, <3>1 DEF Exclusive
  <2>2. CASE d # c /\ callback[d].pc = "idle"
    BY <1>2, <2>2 DEF FlowsSound, CallbacksExclusive
  <2>3. CASE d # c /\ callback[d].pc # "idle"
    <3>1. Exclusive(d) /\ callback'[d] = callback[d]
      BY <1>2, <2>3 DEF FlowsSound, CallbacksExclusive
    <3>2. \A e \in Callbacks \ {d} : callback'[e].flow # callback'[d].flow
      BY <1>2, <1>4, <2>3, <3>1 DEF Exclusive
    <3> QED BY <1>1, <1>5, <2>3, <3>1, <3>2 DEF Exclusive
  <2> QED BY <2>1, <2>2, <2>3
<1>8. SessionsOfFlows'
  BY <1>1, <1>5 DEF FlowsSound, SessionsOfFlows
<1> QED BY <1>6, <1>7, <1>8 DEF FlowsSound, CallbacksExclusive

(* Clearing a cookie. *)
LEMMA CookieCleared ==
    ASSUME FlowsKnown, NEW b, cookie' = [cookie EXCEPT ![b] = None]
    PROVE  /\ cookie' \in [Browsers -> Flows \cup {None}]
           /\ \A e \in Browsers : cookie'[e] \in {cookie[e], None}
BY DEF FlowsKnown

(* A callback that identifies its user may leave a session, the only one of *)
(* its flow.                                                                *)
LEMMA IdentifySound ==
    ASSUME OidcTyped, FlowsSound, NEW c \in Callbacks, Identify(c)
    PROVE  FlowsSound'
<1>1. /\ callback'[c] = NoCallback /\ \A d \in Callbacks \ {c} : callback'[d] = callback[d]
      /\ UNCHANGED <<flows, opened>>
      /\ callback[c].pc # "idle"
  BY DEF Identify, Answer, OidcTyped, MemoryTyped
<1>2. NoCallback.pc = "idle" /\ NoCallback.flow = None
  BY DEF NoCallback
<1>3. Exclusive(c)
  BY <1>1 DEF FlowsSound, CallbacksExclusive
<1>4. /\ cookie' \in [Browsers -> Flows \cup {None}]
      /\ \A e \in Browsers : cookie'[e] \in {cookie[e], None}
  BY CookieCleared DEF Identify, Answer, FlowsSound
<1>5. FlowsKnown'
  BY <1>1, <1>4 DEF FlowsSound, FlowsKnown
<1>6. \A s \in sessions' : s \in sessions
          \/ s = [flow |-> callback[c].flow, browser |-> callback[c].browser]
  BY DEF Identify
<1>7. ASSUME NEW d \in Callbacks
      PROVE  (IF callback[d].pc = "idle" THEN callback[d].flow = None ELSE Exclusive(d))'
  <2>1. CASE d = c
    BY <1>1, <1>2, <2>1
  <2>2. CASE d # c /\ callback[d].pc = "idle"
    BY <1>1, <2>2 DEF FlowsSound, CallbacksExclusive
  <2>3. CASE d # c /\ callback[d].pc # "idle"
    <3>1. Exclusive(d) /\ callback'[d] = callback[d] /\ callback[d].flow # None
      BY <1>1, <2>3, OidcBounds DEF FlowsSound, CallbacksExclusive, Exclusive, FlowsKnown
    <3>2. \A e \in Callbacks \ {d} : callback'[e].flow # callback'[d].flow
      BY <1>1, <1>2, <3>1 DEF Exclusive
    <3>3. \A s \in sessions' : s.flow # callback[d].flow
      BY <1>3, <1>6, <2>3, <3>1 DEF Exclusive
    <3> QED BY <1>1, <2>3, <3>1, <3>2, <3>3 DEF Exclusive
  <2> QED BY <2>1, <2>2, <2>3
<1>8. SessionsOfFlows'
  <2>1. ASSUME NEW s \in sessions'
        PROVE  /\ s \in [flow : Flows, browser : Browsers]
               /\ s.flow \in DOMAIN opened /\ s.flow \notin DOMAIN flows
               /\ s.browser = opened[s.flow]
    BY <1>3, <1>6 DEF FlowsSound, FlowsKnown, SessionsOfFlows, Exclusive
  <2> QED BY <1>1, <2>1 DEF SessionsOfFlows
<1> QED BY <1>5, <1>7, <1>8 DEF FlowsSound, CallbacksExclusive

(* Callbacks at work, or dropped. *)
LEMMA CallbackAges ==
    ASSUME OidcTyped, FlowsSound, NEW c \in Callbacks,
           Exchange(c) \/ RefreshFetch(c) \/ RefreshStore(c) \/ CallbackDropped(c)
    PROVE  FlowsAge
<1>1. /\ callback[c] \in CallbackType /\ callback[c].pc # "idle"
      /\ UNCHANGED <<opened, sessions, flows>>
  BY DEF OidcTyped, MemoryTyped, Exchange, RefreshFetch, RefreshStore, CallbackDropped
<1>2. \A d \in Callbacks \ {c} : callback'[d] = callback[d]
  BY DEF OidcTyped, MemoryTyped, Exchange, RefreshFetch, RefreshStore, CallbackDropped, Answer
<1>3. /\ cookie' \in [Browsers -> Flows \cup {None}]
      /\ \A b \in Browsers : cookie'[b] \in {cookie[b], None}
  <2>1. CASE Answer(c)
    BY <2>1, CookieCleared DEF Answer, FlowsSound
  <2>2. CASE cookie' = cookie
    BY <2>2 DEF FlowsSound, FlowsKnown
  <2> QED BY <2>1, <2>2 DEF Exchange, RefreshFetch, RefreshStore, CallbackDropped
<1>4. \/ callback'[c].pc = "idle" /\ callback'[c].flow = None
      \/ /\ callback'[c].pc # "idle"
         /\ callback'[c].flow = callback[c].flow /\ callback'[c].browser = callback[c].browser
  <2>1. CASE callback' = [callback EXCEPT ![c] = NoCallback]
    BY <2>1 DEF NoCallback, OidcTyped, MemoryTyped
  <2>2. ASSUME NEW new, callback' = [callback EXCEPT ![c] = new],
               new.pc # "idle", new.flow = callback[c].flow, new.browser = callback[c].browser
        PROVE  /\ callback'[c].pc # "idle"
               /\ callback'[c].flow = callback[c].flow
               /\ callback'[c].browser = callback[c].browser
    BY <2>2 DEF OidcTyped, MemoryTyped
  <2>3. CASE Exchange(c) /\ ~Answer(c)
    <3> DEFINE pc == IF Accepts(callback[c].keys, idp.keys) THEN "identify" ELSE "refresh"
               new == [callback[c] EXCEPT !.signed = idp.keys, !.pc = pc]
    <3>1. new.pc # "idle" /\ new.flow = callback[c].flow /\ new.browser = callback[c].browser
      BY <1>1 DEF CallbackType
    <3>2. callback' = [callback EXCEPT ![c] = new]
      BY <2>3 DEF Exchange
    <3> HIDE DEF new
    <3> QED BY <2>2, <3>1, <3>2
  <2>4. CASE RefreshFetch(c)
    <3> DEFINE new == [callback[c] EXCEPT !.pc = "store", !.keys = Found]
    <3>1. new.pc # "idle" /\ new.flow = callback[c].flow /\ new.browser = callback[c].browser
      BY <1>1 DEF CallbackType
    <3>2. callback' = [callback EXCEPT ![c] = new]
      BY <2>4 DEF RefreshFetch
    <3> HIDE DEF new
    <3> QED BY <2>2, <3>1, <3>2
  <2>5. CASE RefreshStore(c) /\ ~Answer(c)
    <3> DEFINE new == [callback[c] EXCEPT !.pc = "identify"]
    <3>1. new.pc # "idle" /\ new.flow = callback[c].flow /\ new.browser = callback[c].browser
      BY <1>1 DEF CallbackType
    <3>2. callback' = [callback EXCEPT ![c] = new]
      BY <2>5 DEF RefreshStore
    <3> HIDE DEF new
    <3> QED BY <2>2, <3>1, <3>2
  <2>6. CASE Answer(c) \/ CallbackDropped(c)
    BY <2>1, <2>6 DEF Answer, CallbackDropped
  <2> QED BY <2>3, <2>4, <2>5, <2>6
<1> QED BY <1>1, <1>2, <1>3, <1>4 DEF FlowsAge, FlowsSound, CallbacksExclusive

(* Steps that leave flows, cookies, callbacks and sessions alone. *)
LEMMA FlowsKept ==
    ASSUME FlowsSound, UNCHANGED <<flows, cookie, opened, callback, sessions>>
    PROVE  FlowsSound'
BY DEF FlowsSound, FlowsKnown, CallbacksExclusive, Exclusive, SessionsOfFlows

(* The start of a login opens one flow or none. *)
LEMMA StartSound ==
    ASSUME FlowsSound, NEW b \in Browsers, NEW source \in Sources, NEW f \in Flows,
           Start(b, source, f)
    PROVE  FlowsSound'
<1>1. CASE FlowOpens(b, f)
  BY <1>1, FlowOpensSound
<1>2. CASE ~(admin /\ provider # None) \/ FlowStoreFull(source)
  <2>1. /\ opened' = opened /\ sessions' = sessions /\ callback' = callback
        /\ flows' \in {flows, Retained} /\ cookie' = [cookie EXCEPT ![b] = None]
    BY <1>2 DEF Start
  <2>2. /\ cookie' \in [Browsers -> Flows \cup {None}]
        /\ \A e \in Browsers : cookie'[e] \in {cookie[e], None}
    BY <2>1, CookieCleared DEF FlowsSound
  <2>3. FlowsAge
    BY <2>1, <2>2, RetainedStored DEF FlowsAge, FlowsSound, CallbacksExclusive
  <2> QED BY <2>3, FlowsAgeSound
<1>3. CASE admin /\ provider # None /\ ~FlowStoreFull(source)
  <2>1. IsFiniteSet(DOMAIN Retained)
    BY RetainedStored, FS_Subset DEF FlowsSound, FlowsKnown
  <2>2. Cardinality(DOMAIN Retained) < FlowCapacity
    BY <1>3, <2>1, FS_CardinalityType, OidcBounds DEF FlowStoreFull
  <2>3. FlowOpens(b, f)
    BY <1>3, <2>2 DEF Start, FlowOpens
  <2> QED BY <2>3, FlowOpensSound
<1> QED BY <1>2, <1>3

(* Every step of the provider, the discovery and the logins. *)
LEMMA FlowsSoundStep == ASSUME OidcTyped, FlowsSound, OidcNext PROVE FlowsSound'
<1>1. CASE ChangeKeys \/ GoDownOrUp \/ \E f \in Flows : Authorize(f)
  BY <1>1, FlowsKept DEF ChangeKeys, GoDownOrUp, Authorize, memory
<1>2. CASE DiscoverBegin \/ DiscoverFetch \/ DiscoverStore
  BY <1>2, FlowsKept DEF DiscoverBegin, DiscoverFetch, DiscoverStore
<1>3. ASSUME NEW b \in Browsers, NEW f \in Flows, CallbackRefused(b, f) PROVE FlowsSound'
  <2>1. /\ cookie' \in [Browsers -> Flows \cup {None}]
        /\ \A e \in Browsers : cookie'[e] \in {cookie[e], None}
    BY <1>3, CookieCleared DEF CallbackRefused, FlowsSound
  <2>2. DOMAIN flows' \subseteq DOMAIN flows
    BY <1>3, RetainedStored DEF CallbackRefused, Consumed, Restrict
  <2>3. FlowsAge
    BY <1>3, <2>1, <2>2 DEF CallbackRefused, FlowsAge, FlowsSound, CallbacksExclusive
  <2> QED BY <2>3, FlowsAgeSound
<1>4. ASSUME NEW c \in Callbacks, CallbackStep(c) \/ CallbackDropped(c) PROVE FlowsSound'
  BY <1>4, CallbackAges, FlowsAgeSound, IdentifySound DEF CallbackStep
<1> QED
  BY <1>1, <1>2, <1>3, <1>4, StartSound, FlowTakenSound DEF OidcNext

(* The end of the daemon forgets flows and callbacks, never who opened what *)
(* or which sessions there are.                                             *)
LEMMA ForgottenSound ==
    ASSUME OidcTyped, PermitsHeld, FlowsSound, OidcForgotten
    PROVE  OidcTyped' /\ PermitsHeld' /\ FlowsSound'
<1>0. NoCallback.pc = "idle" /\ NoCallback.flow = None /\ NoDiscovery.pc = "sleep"
  BY DEF NoCallback, NoDiscovery
<1>1. OidcTyped'
  BY OidcValues DEF OidcForgotten, OidcTyped, IdpTyped, MemoryTyped
<1>2. PermitsHeld'
  <2>1. Busy' = {} /\ discovery'.pc # "fetch"
    BY <1>0 DEF OidcForgotten, Busy
  <2> QED BY <2>1, PermitsReleased
<1>3. FlowsSound'
  <2>1. DOMAIN flows' = {}
    BY DEF OidcForgotten, NoEntries
  <2>2. FlowsAge
    BY <1>0, <2>1 DEF OidcForgotten, FlowsAge, FlowsSound, FlowsKnown
  <2> QED BY <2>2, FlowsAgeSound
<1> QED BY <1>1, <1>2, <1>3

(* The inductive invariant of the logins. *)
LoginInv == SetupSound /\ OidcTyped /\ PermitsHeld /\ FlowsSound

LEMMA LoginInvInit == Init => LoginInv
<1> SUFFICES ASSUME NEW d \in Deployments, SetupInit(d), OidcInit(d) PROVE LoginInv
  BY DEF Init
<1>0. NoCallback.pc = "idle" /\ NoCallback.flow = None /\ NoDiscovery.pc = "sleep"
  BY DEF NoCallback, NoDiscovery
<1>1. SetupSound
  BY SetupSoundInit
<1>2. OidcTyped
  <2>1. IdpTyped
    BY OidcBounds DEF OidcInit, IdpTyped
  <2>2. MemoryTyped
    BY OidcValues DEF OidcInit, MemoryTyped
  <2> QED BY <2>1, <2>2 DEF OidcTyped
<1>3. PermitsHeld
  <2>1. Busy = {} /\ discovery.pc # "fetch"
    BY <1>0 DEF OidcInit, Busy
  <2>2. Cardinality(Busy) = 0 /\ IsFiniteSet(Busy)
    BY <2>1, FS_EmptySet
  <2>3. PermitsTaken = Cardinality(Busy) + 0
    BY <2>1 DEF PermitsTaken, Busy
  <2> QED BY <2>2, <2>3, OidcBounds DEF PermitsHeld
<1>4. FlowsSound
  <2>1. DOMAIN flows = {} /\ DOMAIN opened = {}
    BY DEF OidcInit, NoEntries
  <2>2. Cardinality({}) = 0 /\ IsFiniteSet({})
    BY FS_EmptySet
  <2>3. FlowsKnown
    BY <2>1, <2>2, OidcBounds DEF OidcInit, FlowsKnown
  <2>4. CallbacksExclusive /\ SessionsOfFlows
    BY <1>0 DEF OidcInit, CallbacksExclusive, SessionsOfFlows
  <2> QED BY <2>3, <2>4 DEF FlowsSound
<1> QED BY <1>1, <1>2, <1>3, <1>4 DEF LoginInv

LEMMA LoginInvStep == LoginInv /\ [Next]_vars => LoginInv'
<1> SUFFICES ASSUME LoginInv, [Next]_vars PROVE LoginInv'
  OBVIOUS
<1>1. ASSUME UNCHANGED oidcVars PROVE OidcTyped' /\ PermitsHeld' /\ FlowsSound'
  <2>1. OidcTyped'
    BY <1>1 DEF oidcVars, LoginInv, OidcTyped, IdpTyped, MemoryTyped
  <2>2. PermitsHeld'
    <3>1. Busy' = Busy /\ discovery' = discovery
      BY <1>1 DEF oidcVars, Busy
    <3> QED BY <3>1, PermitsReleased DEF LoginInv
  <2>3. FlowsSound'
    BY <1>1, FlowsKept DEF oidcVars, LoginInv
  <2> QED BY <2>1, <2>2, <2>3
<1>2. CASE SetupNext /\ (OidcForgotten \/ UNCHANGED oidcVars)
  BY <1>1, <1>2, SetupSoundStep, ForgottenSound DEF LoginInv
<1>3. CASE OidcNext /\ UNCHANGED setupVars
  BY <1>3, SetupSoundKept, OidcTypedStep, PermitsHeldStep, FlowsSoundStep DEF LoginInv
<1>4. CASE UNCHANGED setupVars /\ UNCHANGED oidcVars
  BY <1>1, <1>4, SetupSoundKept DEF LoginInv
<1>5. \/ SetupNext /\ (OidcForgotten \/ UNCHANGED oidcVars)
      \/ OidcNext /\ UNCHANGED setupVars
      \/ UNCHANGED setupVars /\ UNCHANGED oidcVars
  BY DEF Next, vars
<1> QED BY <1>2, <1>3, <1>4, <1>5

(* A login flow makes at most one session, in the browser that opened it,   *)
(* and no two callbacks ever work on one flow, however often the provider's *)
(* answer arrives, whatever else the browser opened and however the daemon  *)
(* stops and starts; permits and flow store stay within their limits.       *)
THEOREM FlowsAreSpentOnce == Spec => []OneSessionPerFlow
<1>1. LoginInv => OneSessionPerFlow
  <2> SUFFICES ASSUME LoginInv PROVE OneSessionPerFlow
    OBVIOUS
  <2>1. SetupTypeOK
    <3>1. setupOpen \in BOOLEAN /\ admin \in BOOLEAN
      BY DEF LoginInv, SetupSound, Flags
    <3>2. /\ row.token \in Tokens \cup {None} /\ file \in Tokens \cup {None}
          /\ section.op \in {"none", "write", "remove"}
          /\ now \in 0..MaxTime /\ phase \in {"down", "boot", "serving", "stopping"}
      BY DEF LoginInv, SetupSound, Scalars, SectionType
    <3>3. \A r \in Handlers : setup[r].pc \in {"idle", "record", "hash", "done"}
      BY DEF LoginInv, SetupSound, RequestsTyped, RequestType
    <3> QED BY <3>1, <3>2, <3>3 DEF SetupTypeOK, LoginInv, SetupSound, Fitting
  <2>2. OidcTypeOK
    <3>1. provider \in 1..MaxChanges + 1 \cup {None} /\ discovery.pc \in {"sleep", "fetch", "store"}
      BY DEF LoginInv, OidcTyped, MemoryTyped, Keys, DiscoveryType
    <3>2. \A c \in Callbacks :
              callback[c].pc \in {"idle", "exchange", "refresh", "store", "identify"}
      BY DEF LoginInv, OidcTyped, MemoryTyped, CallbackType
    <3> QED
      BY <2>1, <3>1, <3>2 DEF OidcTypeOK, LoginInv, PermitsHeld, FlowsSound, FlowsKnown
  <2>3. \A s \in sessions : s.browser = opened[s.flow]
    BY DEF LoginInv, FlowsSound, SessionsOfFlows
  <2>4. \A s, t \in sessions : s.flow = t.flow => s = t
    BY DEF LoginInv, FlowsSound, SessionsOfFlows
  <2>5. \A c, d \in Callbacks :
            callback[c].flow # None /\ callback[c].flow = callback[d].flow => c = d
    BY DEF LoginInv, FlowsSound, CallbacksExclusive, Exclusive
  <2>6. \A f \in DOMAIN flows : \A s \in sessions : s.flow # f
    BY DEF LoginInv, FlowsSound, SessionsOfFlows
  <2> QED BY <2>2, <2>3, <2>4, <2>5, <2>6 DEF OneSessionPerFlow
<1> QED BY <1>1, LoginInvInit, LoginInvStep, PTL DEF Spec

-----------------------------------------------------------------------------
(* The limiter of pairing attempts.  An entry is forgotten only after its   *)
(* time, and its time is never shorter than its penalty.                    *)

EntryType == [failures : 1..MaxFailures, until : Int, last : Int, seen : Int]

(* No penalty reaches further than the longest after the last look. *)
Honest(entries, t) ==
    \A k \in DOMAIN entries :
        /\ entries[k] \in EntryType
        /\ entries[k].seen <= t
        /\ entries[k].until <= entries[k].seen + AuthBackoffMax

(* A table of later: entries are gone only when their penalty is over, or   *)
(* the shared one, and no penalty has changed.                              *)
Later(before, after, t) ==
    /\ DOMAIN after \subseteq DOMAIN before
    /\ \A k \in DOMAIN after : after[k].until = before[k].until
    /\ \A k \in DOMAIN before : k \in DOMAIN after \/ k = Overflow \/ before[k].until <= t

LEMMA LimiterBounds ==
    /\ AuthFailureTtl \in Nat /\ AuthFailureCapacity \in Nat /\ AuthBackoffMax \in Nat
    /\ AuthBackoffMax <= AuthFailureTtl
BY LimiterAssumption DEF LimiterAssumption

(* The smaller of two numbers. *)
LEMMA MinOfTwo ==
    ASSUME NEW a \in Int, NEW b \in Int
    PROVE  Min({a, b}) \in {a, b} /\ Min({a, b}) <= a /\ Min({a, b}) <= b
<1>1. \E x \in {a, b} : \A y \in {a, b} : x <= y
  OBVIOUS
<1> QED BY <1>1 DEF Min

(* The powers of two the penalty is taken from. *)
LEMMA PenaltyPowers == \A n \in 0..6 : 2 ^ n \in Nat
<1>1. 2 ^ 0 \in Nat /\ 2 ^ 1 \in Nat /\ 2 ^ 2 \in Nat /\ 2 ^ 3 \in Nat
  OBVIOUS
<1>2. 2 ^ 4 \in Nat /\ 2 ^ 5 \in Nat /\ 2 ^ 6 \in Nat
  OBVIOUS
<1>3. \A n \in 0..6 : n = 0 \/ n = 1 \/ n = 2 \/ n = 3 \/ n = 4 \/ n = 5 \/ n = 6
  OBVIOUS
<1> QED BY <1>1, <1>2, <1>3

(* An outlived entry has no penalty left. *)
LEMMA OutlivedIsOver ==
    ASSUME NEW entries, NEW t \in Nat, Honest(entries, t), NEW k \in DOMAIN entries,
           Outlived(entries[k], t)
    PROVE  entries[k].until <= t
BY LimiterBounds DEF Honest, EntryType, Outlived

(* Dropping entries whose penalty is over, or the shared one. *)
LEMMA DroppedIsLater ==
    ASSUME NEW entries, NEW t \in Nat, Honest(entries, t), NEW keys,
           \A k \in DOMAIN entries \cap keys : k = Overflow \/ entries[k].until <= t
    PROVE  Later(entries, Dropped(entries, keys), t) /\ Honest(Dropped(entries, keys), t)
BY DEF Later, Honest, Dropped, Restrict

LEMMA ExpiredIsLater ==
    ASSUME NEW entries, NEW t \in Nat, Honest(entries, t)
    PROVE  Later(entries, Expired(entries, t), t) /\ Honest(Expired(entries, t), t)
<1> DEFINE keys == {k \in DOMAIN entries : Outlived(entries[k], t)}
<1>1. \A k \in DOMAIN entries \cap keys : k = Overflow \/ entries[k].until <= t
  BY OutlivedIsOver
<1>2. Expired(entries, t) = Dropped(entries, keys)
  BY DEF Expired
<1> HIDE DEF keys
<1> QED BY <1>1, <1>2, DroppedIsLater

LEMMA LookedIsLater ==
    ASSUME NEW entries, NEW t \in Nat, Honest(entries, t), NEW key
    PROVE  Later(entries, Looked(entries, key, t), t) /\ Honest(Looked(entries, key, t), t)
<1>1. CASE key \notin DOMAIN entries
  <2>1. Looked(entries, key, t) = entries
    BY <1>1 DEF Looked
  <2> QED BY <2>1 DEF Later
<1>2. CASE key \in DOMAIN entries /\ Outlived(entries[key], t)
  <2>1. \A k \in DOMAIN entries \cap {key} : k = Overflow \/ entries[k].until <= t
    BY <1>2, OutlivedIsOver
  <2> QED BY <1>2, <2>1, DroppedIsLater DEF Looked
<1>3. CASE key \in DOMAIN entries /\ ~Outlived(entries[key], t)
  <2> DEFINE new == [entries[key] EXCEPT !.seen = t]
  <2>0. Looked(entries, key, t) = [entries EXCEPT ![key] = new]
    BY <1>3 DEF Looked
  <2>1. /\ new \in EntryType /\ new.seen = t /\ new.until = entries[key].until
        /\ new.until <= t + AuthBackoffMax
    BY <1>3, LimiterBounds DEF Honest, EntryType
  <2> HIDE DEF new
  <2>2. DOMAIN Looked(entries, key, t) = DOMAIN entries
    BY <2>0
  <2>3. \A k \in DOMAIN entries : Looked(entries, key, t)[k] = IF k = key THEN new ELSE entries[k]
    BY <2>0
  <2> HIDE DEF Looked
  <2>4. Later(entries, Looked(entries, key, t), t)
    BY <2>1, <2>2, <2>3 DEF Later
  <2>5. Honest(Looked(entries, key, t), t)
    BY <2>1, <2>2, <2>3 DEF Honest
  <2> QED BY <2>4, <2>5
<1> QED BY <1>1, <1>2, <1>3

LEMMA LaterIsTransitive ==
    ASSUME NEW a, NEW b, NEW c, NEW t, Later(a, b, t), Later(b, c, t)
    PROVE  Later(a, c, t)
BY DEF Later

(* A recorded attempt changes its own entry, with a penalty of at most      *)
(* AUTH_BACKOFF_MAX_SECS.                                                   *)
LEMMA RecordedIsHonest ==
    ASSUME NEW entries, NEW t \in Nat, Honest(entries, t), NEW key
    PROVE  /\ Honest(Recorded(entries, key, t), t)
           /\ DOMAIN Recorded(entries, key, t) = DOMAIN entries \cup {key}
           /\ \A k \in DOMAIN entries \ {key} : Recorded(entries, key, t)[k] = entries[k]
<1> DEFINE n == 1 + IF key \in DOMAIN entries THEN entries[key].failures ELSE 0
           failures == Min({MaxFailures, n})
           penalty == Min({AuthBackoffMax, 2 ^ (failures - 1)})
           entry == [failures |-> failures, last |-> t, seen |-> t, until |-> t + penalty]
<1>1. n \in Nat /\ 1 <= n
  BY DEF Honest, EntryType, MaxFailures
<1>2. failures \in 1..7
  <2> HIDE DEF n
  <2>1. Min({MaxFailures, n}) \in {MaxFailures, n} /\ Min({MaxFailures, n}) <= MaxFailures
    BY <1>1, MinOfTwo DEF MaxFailures
  <2> QED BY <1>1, <2>1 DEF MaxFailures
<1>3. penalty \in Int /\ penalty <= AuthBackoffMax
  <2> HIDE DEF failures
  <2>1. 2 ^ (failures - 1) \in Int
    BY <1>2, PenaltyPowers
  <2> QED BY <2>1, LimiterBounds, MinOfTwo
<1>4. Recorded(entries, key, t) = [k \in DOMAIN entries \cup {key} |-> IF k = key THEN entry ELSE entries[k]]
  BY DEF Recorded
<1> HIDE DEF failures, penalty
<1>5. entry \in EntryType /\ entry.seen = t /\ entry.until <= entry.seen + AuthBackoffMax
  BY <1>2, <1>3, LimiterBounds DEF EntryType, MaxFailures
<1> HIDE DEF entry
<1>6. Honest(Recorded(entries, key, t), t)
  BY <1>4, <1>5 DEF Honest
<1> QED BY <1>4, <1>6

(* What begin_pairing_attempt promises for a source: either the attempt is  *)
(* booked on it, and then its penalty was over, or its entry is as before   *)
(* or gone after its penalty.                                               *)
Served(entries, b, source, t) ==
    /\ Honest(b.entries, t)
    /\ \A k \in DOMAIN b.entries :
          k \in {source, Overflow} \/ (k \in DOMAIN entries /\ b.entries[k].until = entries[k].until)
    /\ \A k \in DOMAIN entries : k \in DOMAIN b.entries \/ k = Overflow \/ entries[k].until <= t
    /\ b.key = source => /\ source \in DOMAIN b.entries
                         /\ source \in DOMAIN entries => entries[source].until <= t
    /\ b.key # source => (source \in DOMAIN b.entries =>
                             source \in DOMAIN entries
                             /\ b.entries[source].until = entries[source].until)

(* Beginning an attempt on a later table. *)
LEMMA AttemptServed ==
    ASSUME NEW entries, NEW later, NEW t \in Nat, Honest(later, t), Later(entries, later, t),
           NEW source, NEW key \in {source, Overflow}, source # Overflow, NEW none, none # source
    PROVE  /\ Served(entries, BeginAttempt(later, key, t, none), source, t)
           /\ BeginAttempt(later, key, t, none).key \in {none, key}
<1> DEFINE looked == Looked(later, key, t)
           begun == BeginAttempt(later, key, t, none)
<1>1. Honest(looked, t) /\ Later(entries, looked, t)
  BY LookedIsLater, LaterIsTransitive
<1> HIDE DEF looked
<1>2. CASE Blocked(looked, key, t)
  <2>1. begun.entries = looked /\ begun.key = none
    BY <1>2 DEF BeginAttempt, looked
  <2> HIDE DEF begun
  <2>2. Served(entries, begun, source, t)
    BY <1>1, <2>1 DEF Served, Later
  <2> QED BY <2>1, <2>2 DEF begun
<1>3. CASE ~Blocked(looked, key, t)
  <2>1. begun.entries = Recorded(looked, key, t) /\ begun.key = key
    BY <1>3 DEF BeginAttempt, looked
  <2> HIDE DEF begun
  <2>2. /\ Honest(begun.entries, t)
        /\ DOMAIN begun.entries = DOMAIN looked \cup {key}
        /\ \A k \in DOMAIN looked \ {key} : begun.entries[k] = looked[k]
    <3>1. /\ Honest(Recorded(looked, key, t), t)
          /\ DOMAIN Recorded(looked, key, t) = DOMAIN looked \cup {key}
          /\ \A k \in DOMAIN looked \ {key} : Recorded(looked, key, t)[k] = looked[k]
      BY <1>1, RecordedIsHonest
    <3> QED BY <2>1, <3>1
  <2>3. key \in DOMAIN looked => looked[key].until <= t
    BY <1>1, <1>3 DEF Blocked, Honest, EntryType
  <2>4. Served(entries, begun, source, t)
    <3>1. \A k \in DOMAIN begun.entries :
              \/ k \in {source, Overflow}
              \/ k \in DOMAIN entries /\ begun.entries[k].until = entries[k].until
      BY <1>1, <2>2 DEF Later
    <3>2. \A k \in DOMAIN entries :
              k \in DOMAIN begun.entries \/ k = Overflow \/ entries[k].until <= t
      BY <1>1, <2>2 DEF Later
    <3>3. begun.key = source => /\ source \in DOMAIN begun.entries
                                /\ source \in DOMAIN entries => entries[source].until <= t
      BY <1>1, <2>1, <2>2, <2>3 DEF Later
    <3>4. begun.key # source => (source \in DOMAIN begun.entries =>
                                    source \in DOMAIN entries
                                    /\ begun.entries[source].until = entries[source].until)
      BY <1>1, <2>1, <2>2 DEF Later
    <3> QED BY <2>2, <3>1, <3>2, <3>3, <3>4 DEF Served
  <2> QED BY <2>1, <2>4 DEF begun
<1> QED BY <1>2, <1>3

(* Whether the table is full or not. *)
LEMMA PairingAttemptServed ==
    ASSUME NEW entries, NEW t \in Nat, Honest(entries, t), NEW source, source # Overflow,
           NEW none, none # source
    PROVE  /\ Served(entries, BeginPairingAttempt(entries, source, t, none), source, t)
           /\ BeginPairingAttempt(entries, source, t, none).key \in {none, source, Overflow}
<1> DEFINE begun == BeginPairingAttempt(entries, source, t, none)
<1>1. CASE source \in DOMAIN entries \/ Cardinality(DOMAIN entries) < AuthFailureCapacity
  <2>1. begun = BeginAttempt(entries, source, t, none)
    BY <1>1 DEF BeginPairingAttempt
  <2>2. Later(entries, entries, t)
    BY DEF Later
  <2> QED BY <2>1, <2>2, AttemptServed
<1>2. CASE ~(source \in DOMAIN entries \/ Cardinality(DOMAIN entries) < AuthFailureCapacity)
  <2> DEFINE looked == Looked(entries, Overflow, t)
             kept == Expired(looked, t)
             full == Cardinality(DOMAIN kept \ {Overflow}) >= AuthFailureCapacity
  <2>1. Honest(looked, t) /\ Later(entries, looked, t)
    BY LookedIsLater
  <2>2. Honest(kept, t) /\ Later(entries, kept, t)
    BY <2>1, ExpiredIsLater, LaterIsTransitive
  <2>3. CASE Blocked(looked, Overflow, t)
    <3>1. begun = [entries |-> looked, key |-> none]
      BY <1>2, <2>3 DEF BeginPairingAttempt
    <3>2. begun.entries = looked /\ begun.key = none
      BY <3>1
    <3> HIDE DEF begun, looked
    <3>3. Served(entries, begun, source, t)
      BY <2>1, <3>2 DEF Served, Later
    <3> QED BY <3>2, <3>3 DEF begun
  <2>4. CASE ~Blocked(looked, Overflow, t) /\ full
    <3>1. begun = BeginAttempt(kept, Overflow, t, none)
      BY <1>2, <2>4 DEF BeginPairingAttempt
    <3> HIDE DEF begun, kept
    <3> QED BY <2>2, <3>1, AttemptServed DEF begun
  <2>5. CASE ~Blocked(looked, Overflow, t) /\ ~full
    <3> DEFINE freed == Dropped(kept, {Overflow})
    <3>1. begun = BeginAttempt(freed, source, t, none)
      BY <1>2, <2>5 DEF BeginPairingAttempt
    <3> HIDE DEF begun, kept
    <3>2. Honest(freed, t) /\ Later(entries, freed, t)
      <4>1. \A k \in DOMAIN kept \cap {Overflow} : k = Overflow \/ kept[k].until <= t
        OBVIOUS
      <4> QED BY <2>2, <4>1, DroppedIsLater, LaterIsTransitive
    <3> HIDE DEF freed
    <3> QED BY <3>1, <3>2, AttemptServed DEF begun
  <2> QED BY <2>3, <2>4, <2>5
<1> QED BY <1>1, <1>2

-----------------------------------------------------------------------------
(* Penalties of the sources.                                                *)

(* What a source owes is in its entry, or over. *)
OwedInv ==
    /\ now \in Nat
    /\ Honest(pairingAttempts, now)
    /\ owed \in [Sources -> Int]
    /\ \A s \in Sources :
          IF s \in DOMAIN pairingAttempts THEN owed[s] = pairingAttempts[s].until
          ELSE owed[s] <= now

(* Time passes. *)
LEMMA OwedLater ==
    ASSUME OwedInv, now' \in Nat, now <= now', UNCHANGED <<pairingAttempts, owed>>
    PROVE  OwedInv'
<1>1. Honest(pairingAttempts', now')
  BY DEF OwedInv, Honest, EntryType
<1>2. owed' \in [Sources -> Int]
  BY DEF OwedInv
<1>3. ASSUME NEW s \in Sources, s \notin DOMAIN pairingAttempts PROVE owed[s] <= now'
  BY <1>3 DEF OwedInv
<1> QED BY <1>1, <1>2, <1>3 DEF OwedInv, Honest

(* A pairing attempt that begins has waited, and owes its new penalty. *)
LEMMA PairServed ==
    ASSUME OwedInv, NEW p \in DOMAIN pairing, NEW source \in Sources, Pair(p, source), now' = now
    PROVE  OwedInv' /\ HasWaited
<1> DEFINE begun == BeginPairingAttempt(pairingAttempts, source, now, None)
<1>0. source # Overflow /\ source # None
  BY SetupAssumption DEF SetupAssumption
<1>1. Served(pairingAttempts, begun, source, now) /\ begun.key \in {None, source, Overflow}
  BY <1>0, PairingAttemptServed DEF OwedInv
<1>2. /\ pairingAttempts' = begun.entries
      /\ pairing' = IF begun.key = None THEN pairing
                    ELSE [pairing EXCEPT ![p] = [key |-> begun.key, at |-> now]]
      /\ owed' = IF begun.key = source
                 THEN [owed EXCEPT ![source] = begun.entries[source].until] ELSE owed
  BY DEF Pair
<1> HIDE DEF begun
<1>3. OwedInv'
  <2>1. now' \in Nat /\ Honest(pairingAttempts', now')
    BY <1>1, <1>2 DEF Served, OwedInv
  <2>2. owed' \in [Sources -> Int]
    <3>1. begun.key = source => begun.entries[source].until \in Int
      BY <1>1 DEF Served, Honest, EntryType
    <3> QED BY <1>2, <3>1 DEF OwedInv
  <2>3. ASSUME NEW s \in Sources
        PROVE  IF s \in DOMAIN pairingAttempts' THEN owed'[s] = pairingAttempts'[s].until
               ELSE owed'[s] <= now'
    <3>0. s # Overflow
      BY SetupAssumption DEF SetupAssumption
    <3>1. CASE s = source /\ begun.key = source
      BY <1>1, <1>2, <3>1 DEF Served, OwedInv
    <3>2. CASE s # source
      <4>1. owed'[s] = owed[s]
        BY <1>2, <3>2 DEF OwedInv
      <4>2. CASE s \in DOMAIN pairingAttempts'
        BY <1>1, <1>2, <3>0, <3>2, <4>1, <4>2 DEF Served, OwedInv
      <4>3. CASE s \notin DOMAIN pairingAttempts'
        BY <1>1, <1>2, <3>0, <4>1, <4>3 DEF Served, OwedInv
      <4> QED BY <4>2, <4>3
    <3>3. CASE s = source /\ begun.key # source
      <4>1. owed'[s] = owed[s]
        BY <1>2, <3>3
      <4>2. CASE s \in DOMAIN pairingAttempts'
        BY <1>1, <1>2, <3>3, <4>1, <4>2 DEF Served, OwedInv
      <4>3. CASE s \notin DOMAIN pairingAttempts'
        BY <1>1, <1>2, <3>0, <4>1, <4>3 DEF Served, OwedInv
      <4> QED BY <4>2, <4>3
    <3> QED BY <3>1, <3>2, <3>3
  <2> QED BY <2>1, <2>2, <2>3 DEF OwedInv, Honest
<1>4. HasWaited
  <2> SUFFICES ASSUME NEW q \in DOMAIN pairing, pairing[q] = NoPairing, pairing'[q] # NoPairing
               PROVE  pairing'[q].key = Overflow \/ now >= owed[pairing'[q].key]
    BY DEF HasWaited
  <2>1. q = p /\ pairing'[q].key = begun.key /\ begun.key # None
    BY <1>2
  <2>2. begun.key = source => owed[source] <= now
    BY <1>1 DEF Served, OwedInv
  <2>3. owed[source] \in Int /\ now \in Int
    BY DEF OwedInv
  <2> QED BY <1>1, <2>1, <2>2, <2>3
<1> QED BY <1>3, <1>4

(* A device that is paired owes nothing for its attempt. *)
LEMMA PairSucceedsOwes ==
    ASSUME OwedInv, NEW p \in DOMAIN pairing, PairSucceeds(p), now' = now
    PROVE  OwedInv'
<1> DEFINE key == pairing[p].key
<1>1. /\ owed' = [s \in Sources |->
                    IF s = key /\ s \notin DOMAIN pairingAttempts' THEN 0 ELSE owed[s]]
      /\ pairingAttempts' = ClearIfLatest(pairingAttempts, key, pairing[p].at)
  BY DEF PairSucceeds
<1> HIDE DEF key
<1>2. CASE pairingAttempts' = pairingAttempts
  <2>1. Honest(pairingAttempts', now')
    BY <1>2 DEF OwedInv
  <2> QED BY <1>1, <1>2, <2>1 DEF OwedInv, Honest
<1>3. CASE pairingAttempts' = Dropped(pairingAttempts, {key})
  <2>1. /\ DOMAIN pairingAttempts' = DOMAIN pairingAttempts \ {key}
        /\ \A k \in DOMAIN pairingAttempts' : pairingAttempts'[k] = pairingAttempts[k]
    BY <1>3 DEF Dropped, Restrict
  <2>2. Honest(pairingAttempts', now')
    BY <2>1 DEF OwedInv, Honest
  <2>3. owed' \in [Sources -> Int]
    BY <1>1 DEF OwedInv
  <2>4. ASSUME NEW s \in Sources
        PROVE  IF s \in DOMAIN pairingAttempts' THEN owed'[s] = pairingAttempts'[s].until
               ELSE owed'[s] <= now'
    BY <1>1, <2>1 DEF OwedInv
  <2> QED BY <2>2, <2>3, <2>4 DEF OwedInv, Honest
<1> QED BY <1>1, <1>2, <1>3 DEF ClearIfLatest

(* The end of the daemon forgets the attempts and what they cost. *)
LEMMA OwedForgotten ==
    ASSUME OwedInv, PairForgotten, now' \in Nat
    PROVE  OwedInv'
<1>1. DOMAIN pairingAttempts' = {}
  BY DEF PairForgotten, NoEntries
<1> QED BY <1>1 DEF PairForgotten, OwedInv, Honest

(* The clock runs forward. *)
LEMMA ClockRuns == SetupNext => now' \in {now, now + 1}
<1> SUFFICES ASSUME SetupNext PROVE now' \in {now, now + 1}
  OBVIOUS
<1>1. CASE Boot \/ IssueRefused \/ IssueRefusedFails \/ IssueStore \/ WriteFile \/ WriteFails
  BY <1>1 DEF Boot, IssueRefused, IssueRefusedFails, IssueStore, WriteFile, WriteFails
<1>2. CASE Cleanup \/ Stop \/ RemoveFile \/ Halt \/ Crash \/ CliSetup
  BY <1>2 DEF Cleanup, Stop, RemoveFile, Halt, Crash, CliSetup
<1>3. CASE Tick
  BY <1>3 DEF Tick
<1>4. ASSUME NEW r \in Handlers, SetupRequest(r) PROVE now' = now
  BY <1>4 DEF SetupRequest, SetupAsked, SetupChecked, SetupLegacy, SetupConsume, SetupDone,
              SetupDropped
<1> QED BY <1>1, <1>2, <1>3, <1>4 DEF SetupNext

(* Only Pair begins an attempt. *)
LEMMA OwedStep == OwedInv /\ [Next]_vars => OwedInv' /\ [HasWaited]_vars
<1> SUFFICES ASSUME OwedInv, [Next]_vars PROVE OwedInv' /\ HasWaited
  OBVIOUS
<1>1. CASE PairNext /\ UNCHANGED setupVars
  <2>0. now' = now
    BY <1>1 DEF setupVars
  <2>1. ASSUME NEW p \in DOMAIN pairing, NEW source \in Sources, Pair(p, source)
        PROVE  OwedInv' /\ HasWaited
    BY <2>0, <2>1, PairServed
  <2>2. ASSUME NEW p \in DOMAIN pairing, PairFails(p) PROVE OwedInv' /\ HasWaited
    <3>1. OwedInv'
      BY <2>0, <2>2, OwedLater DEF PairFails, OwedInv
    <3>2. HasWaited
      BY <2>2 DEF PairFails, HasWaited
    <3> QED BY <3>1, <3>2
  <2>3. ASSUME NEW p \in DOMAIN pairing, PairSucceeds(p) PROVE OwedInv' /\ HasWaited
    <3>1. HasWaited
      BY <2>3 DEF PairSucceeds, HasWaited
    <3> QED BY <2>0, <2>3, <3>1, PairSucceedsOwes
  <2> QED BY <1>1, <2>1, <2>2, <2>3 DEF PairNext
<1>2. CASE SetupNext /\ (PairForgotten \/ UNCHANGED pairVars)
  <2>1. now' \in Nat /\ now <= now'
    BY <1>2, ClockRuns DEF OwedInv
  <2>2. CASE PairForgotten
    BY <2>1, <2>2, OwedForgotten DEF PairForgotten, HasWaited
  <2>3. CASE UNCHANGED pairVars
    BY <2>1, <2>3, OwedLater DEF pairVars, HasWaited
  <2> QED BY <1>2, <2>2, <2>3
<1>3. CASE UNCHANGED setupVars /\ UNCHANGED pairVars
  <2>1. now' \in Nat /\ now <= now'
    BY <1>3 DEF setupVars, OwedInv
  <2> QED BY <1>3, <2>1, OwedLater DEF pairVars, HasWaited
<1>4. \/ PairNext /\ UNCHANGED setupVars
      \/ SetupNext /\ (PairForgotten \/ UNCHANGED pairVars)
      \/ UNCHANGED setupVars /\ UNCHANGED pairVars
  BY DEF Next, vars
<1> QED BY <1>1, <1>2, <1>3, <1>4

(* begin_pairing_attempt never lets a source that is blocked start another  *)
(* attempt of its own: neither a full table nor the shared entry nor the    *)
(* expiry of entries forgives a penalty that is not over.                   *)
THEOREM PenaltiesAreServed == Spec => BackoffIsServed
<1>1. Init => OwedInv
  <2> SUFFICES ASSUME NEW d \in Deployments, SetupInit(d), PairInit(d) PROVE OwedInv
    BY DEF Init
  <2>1. DOMAIN pairingAttempts = {}
    BY DEF PairInit, NoEntries
  <2> QED BY <2>1 DEF SetupInit, PairInit, OwedInv, Honest
<1> QED BY <1>1, OwedStep, PTL DEF Spec, BackoffIsServed
=============================================================================
