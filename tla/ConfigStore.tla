---------------------------- MODULE ConfigStore ----------------------------
(* The configuration and its one encrypted secret, the router password, as  *)
(* the database keeps them (config_store.rs, secrets.rs, api/system.rs,     *)
(* db/key_management.rs).  A database content has the fields                *)
(*   plain     the values of the plaintext keys router_password and         *)
(*             routeros_password of old releases (two of them conflict)     *)
(*   sealed    the encrypted router_password, or None                       *)
(*   rev       config_revision                                              *)
(*   settings  which updates the stored option values derive from           *)
(* and the running process keeps a merged copy [rev, settings, password].   *)
(* The instance_id the ciphertext is bound to is stored in the same file,   *)
(* created once and never replaced, so it travels with the secret and is    *)
(* not told apart here.                                                     *)
EXTENDS Naturals, FiniteSets

CONSTANT None

Encrypt(key, password) == [key |-> key, password |-> password]

Decrypts(key, secret) == secret.key = key

(* Mutant: an undecryptable secret is taken for a missing one. *)
LoadRefusedForConflicts(c, key) == Cardinality(c.plain) > 1

(* ConfigStore::load refuses to start rather than guess.  Whether the merged *)
(* values are valid depends on the environment and is checked last, after a  *)
(* secret was sealed: RejectConfig in DatabaseLifecycle.                     *)
LoadRefused(c, key) ==
    \/ Cardinality(c.plain) > 1
    \/ /\ c.sealed # None
       /\ \/ ~Decrypts(key, c.sealed)
          \/ c.plain \notin {{}, {c.sealed.password}}

LoadedPassword(c, env) ==
    CASE c.sealed # None -> c.sealed.password
      [] c.sealed = None /\ c.plain # {} -> CHOOSE p \in c.plain : TRUE
      [] OTHER -> env

(* The database after the load: the password is sealed, no plaintext is left. *)
AfterLoad(c, key, env) ==
    LET password == LoadedPassword(c, env)
    IN  [c EXCEPT !.plain = {},
                  !.sealed = IF c.sealed # None \/ password = None
                             THEN c.sealed ELSE Encrypt(key, password)]

MergedConfig(c) ==
    [rev |-> c.rev, settings |-> c.settings,
     password |-> IF c.sealed = None THEN None ELSE c.sealed.password]

(* update_config: the options of the next configuration, from the copy the  *)
(* request cloned.  A request that fails validation ends before this.       *)
NextConfig(base, mode, password, update) ==
    [rev |-> base.rev + 1,
     settings |-> base.settings \cup {update},
     password |-> CASE mode = "keep" -> base.password
                    [] mode = "replace" -> password
                    [] mode = "clear" -> None]

(* save_config_transaction, when its revision check passes. *)
AfterSave(c, next, mode, key) ==
    [c EXCEPT !.rev = next.rev,
              !.settings = next.settings,
              !.sealed = CASE mode = "keep" -> c.sealed
                           [] mode = "replace" -> Encrypt(key, next.password)
                           [] mode = "clear" -> None]

(* Mutant: the revision is only checked for being known. *)
SaveRefusedFromTheFuture(c, expected) == c.rev < expected

SaveRefused(c, expected) == c.rev # expected

(* rotate_transaction decrypts every secret with the current key before it  *)
(* writes the first one under the new key; without secrets it writes none.  *)
RotateRefused(c, key) == c.sealed # None /\ ~Decrypts(key, c.sealed)

AfterRotate(c, new) ==
    [c EXCEPT !.sealed = IF c.sealed = None THEN None ELSE Encrypt(new, c.sealed.password)]
=============================================================================
