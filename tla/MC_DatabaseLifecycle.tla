------------------------ MODULE MC_DatabaseLifecycle ------------------------
(* Small instances of DatabaseLifecycle for TLC.                            *)
EXTENDS DatabaseLifecycle, TLC

CONSTANTS k1, k2, p1, t1, r1, r2, wan1, old, new

MCTools == {t1}
MCRequests == {r1, r2}
MCKeys == {k1, k2}
MCPasswords == {p1}
MCEnvPasswords == {p1}

Row(wan, at) == [wan |-> wan, at |-> at]

(* A point two seconds into its minute reaches back into the minute before; *)
(* two rows of one time differ only in an interface that becomes the same.  *)
MCHistories ==
    [mixed |-> [points |-> {Row(Aggregate, 62), Row(Aggregate, 65), Row(wan1, 200)},
                minutes |-> {Row(Unnamed, 0), Row(Aggregate, 60), Row(Aggregate, 120),
                             Row(wan1, 60)}],
     twice |-> [points |-> {Row(Aggregate, 62), Row(Unnamed, 62)}, minutes |-> {}]]

Legacy == [Fresh EXCEPT !.legacy = "mixed", !.rows = {0}]
Current == [Migrated(Legacy) EXCEPT !.sealed = Encrypt(k1, p1), !.rev = 1]

MCInitialTargets ==
    {None, Current, [Legacy EXCEPT !.plain = {p1}], [Current EXCEPT !.version = @ + 1]}

MCUserPaths == {old, new}
MCInitialBackups == (old :> [Legacy EXCEPT !.rows = {}, !.legacy = "twice"]) @@ (new :> None)
=============================================================================
