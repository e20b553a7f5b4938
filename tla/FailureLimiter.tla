--------------------------- MODULE FailureLimiter ---------------------------
(* FailureLimiter<K> of auth.rs: how often each key may try, as operators   *)
(* over the table of entries.  An entry is                                  *)
(*   failures  how many attempts count, at most seven                       *)
(*   until     blocked_until                                                *)
(*   last      when the latest attempt started                              *)
(*   seen      when the key was last looked at                              *)
(* An attempt is recorded as a failure when it starts and taken back when   *)
(* it succeeds.                                                             *)
EXTENDS Integers, FiniteSets, FiniteSetsExt, Functions

CONSTANTS AuthFailureTtl,         \* AUTH_FAILURE_TTL
          AuthFailureCapacity,    \* AUTH_FAILURE_CAPACITY
          AuthBackoffMax,         \* AUTH_BACKOFF_MAX_SECS
          Overflow                \* PairingFailureKey::Overflow

(* No entry outlives its time before its penalty is over. *)
ASSUME LimiterAssumption ==
    /\ {AuthFailureTtl, AuthFailureCapacity, AuthBackoffMax} \subseteq Nat \ {0}
    /\ AuthBackoffMax <= AuthFailureTtl

MaxFailures == 7

NoEntries == [key \in {} |-> 0]

Dropped(entries, keys) == Restrict(entries, DOMAIN entries \ keys)

Outlived(entry, now) == now - entry.seen >= AuthFailureTtl

(* expire_failure_entries *)
Expired(entries, now) == Dropped(entries, {k \in DOMAIN entries : Outlived(entries[k], now)})

(* The look at one key that retry_after and begin_failure_attempt_locked    *)
(* begin with: an outlived entry goes, any other has been seen.             *)
Looked(entries, key, now) ==
    IF key \notin DOMAIN entries THEN entries
    ELSE IF Outlived(entries[key], now) THEN Dropped(entries, {key})
    ELSE [entries EXCEPT ![key].seen = now]

Blocked(entries, key, now) == key \in DOMAIN entries /\ entries[key].until > now

(* record_failure_entry_locked *)
Recorded(entries, key, now) ==
    LET failures == Min({MaxFailures,
                         1 + IF key \in DOMAIN entries THEN entries[key].failures ELSE 0})
        entry == [failures |-> failures, last |-> now, seen |-> now,
                  until |-> now + Min({AuthBackoffMax, 2 ^ (failures - 1)})]
    IN  [k \in DOMAIN entries \cup {key} |-> IF k = key THEN entry ELSE entries[k]]

(* record_failure: what the table may be afterwards.  At capacity the entry *)
(* seen longest ago makes room; of several the map yields any.              *)
RecordFailure(entries, key, now) ==
    LET kept == Expired(entries, now)
        oldest == {k \in DOMAIN kept : \A j \in DOMAIN kept : kept[k].seen <= kept[j].seen}
    IN  IF key \in DOMAIN kept \/ Cardinality(DOMAIN kept) < AuthFailureCapacity
        THEN {Recorded(kept, key, now)}
        ELSE {Recorded(Dropped(kept, {k}), key, now) : k \in oldest}

ClearIfLatest(entries, key, started) ==
    IF key \in DOMAIN entries /\ entries[key].last = started
    THEN Dropped(entries, {key}) ELSE entries

(* begin_failure_attempt_locked: the table afterwards and the key the       *)
(* attempt is booked on, None when it has to wait.                          *)
BeginAttempt(entries, key, now, none) ==
    LET looked == Looked(entries, key, now)
    IN  IF Blocked(looked, key, now)
        THEN [entries |-> looked, key |-> none]
        ELSE [entries |-> Recorded(looked, key, now), key |-> key]

(* Mutant: at capacity another source makes room. *)
BeginPairingAttemptEvicting(entries, source, now, none) ==
    IF source \in DOMAIN entries \/ Cardinality(DOMAIN entries) < AuthFailureCapacity
    THEN BeginAttempt(entries, source, now, none)
    ELSE BeginAttempt(Dropped(entries, DOMAIN entries), source, now, none)

(* begin_pairing_attempt: at capacity the sources without an entry share    *)
(* one, until enough of the tracked ones have outlived their time.          *)
BeginPairingAttempt(entries, source, now, none) ==
    IF source \in DOMAIN entries \/ Cardinality(DOMAIN entries) < AuthFailureCapacity
    THEN BeginAttempt(entries, source, now, none)
    ELSE LET looked == Looked(entries, Overflow, now)
             kept == Expired(looked, now)
             full == Cardinality(DOMAIN kept \ {Overflow}) >= AuthFailureCapacity
         IN  IF Blocked(looked, Overflow, now) THEN [entries |-> looked, key |-> none]
             ELSE IF full THEN BeginAttempt(kept, Overflow, now, none)
             ELSE BeginAttempt(Dropped(kept, {Overflow}), source, now, none)
=============================================================================
