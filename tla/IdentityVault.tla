------------------------------ MODULE IdentityVault ------------------------------
(***************************************************************************)
(* The password vault of dwn-rs-agent (agent/vault.rs) over the codecs of  *)
(* agent/vault_jwe.rs and a SecretStore (secrets_store.rs, memory.rs).     *)
(*                                                                         *)
(* A vault holds a content key (CEK) in memory while it is unlocked.  The  *)
(* store holds three entries: the CEK wrapped under the password, the      *)
(* agent's DID encrypted under the CEK, and the status.  An operation      *)
(* holds the vault's mutex from its first read to its last write, so it is *)
(* one Begin step (reads, checks, key derivation) and, when there is       *)
(* something to write, one Finish step (the atomic SecretStore::apply and  *)
(* the assignment of the key).  Between them the store may refuse the      *)
(* write, the caller may drop the future, or the process may die.          *)
(***************************************************************************)
EXTENDS Naturals, FiniteSets

CONSTANTS Phrases,      \* recovery phrases that pass validation; each is an identity
          Passwords,    \* passwords that are not blank
          WorkFactor,   \* the vault's PBES2 work factor
          MaxBackups,   \* bound on the backups taken
          Absent

VARIABLES store,        \* [cek, did, status], Absent for an absent entry
          cek,          \* VaultState.cek
          busy,         \* the operation that holds the mutex: Absent or what it will write
          blobs,        \* the backups the host has been given
          result        \* the result of the last operation

vaultVars == <<store, cek, busy, blobs, result>>

Blank == "blank"

-----------------------------------------------------------------------------
(* vault_jwe.rs.  A compact JWE opens with one secret; one that was cut or *)
(* edited is Torn.                                                         *)

Torn == [alg |-> Absent]

(* derive_agent_keys and DidProvider::create_did of a phrase. *)
DerivedKey(p) == <<"cek", p>>
DerivedSalt(p) == <<"salt", p>>
DidOf(p) == <<"did", p>>

derive_pbes2_kek(pw, salt, p2c) == <<pw, salt, p2c>>

wrap_cek(pw, key, salt, p2c) ==
    [alg |-> "PBES2", kek |-> derive_pbes2_kek(pw, salt, p2c), p2s |-> salt, p2c |-> p2c,
     key |-> key]

Opened(key, p2s, p2c, error) == [key |-> key, p2s |-> p2s, p2c |-> p2c, error |-> error]

unwrap_cek_typed(jwe, pw) ==
    IF jwe.alg # "PBES2" THEN Opened(Absent, Absent, Absent, "Corrupt")
    ELSE IF jwe.kek # derive_pbes2_kek(pw, jwe.p2s, jwe.p2c)
    THEN Opened(Absent, Absent, Absent, "Authentication")
    ELSE Opened(jwe.key, jwe.p2s, jwe.p2c, Absent)

rewrap_cek(old, new, jwe) ==
    LET opened == unwrap_cek_typed(jwe, old)
    IN  IF opened.error # Absent THEN Absent
        ELSE wrap_cek(new, opened.key, opened.p2s, opened.p2c)

encrypt_direct(text, key) == [alg |-> "dir", under |-> key, text |-> text]

(* Absent when the JWE is not a direct one, or not under this key. *)
decrypt_direct(jwe, key) ==
    IF jwe.alg = "dir" /\ jwe.under = key THEN jwe.text ELSE Absent

encrypt_did(did, key) == encrypt_direct(did, key)
decrypt_did(jwe, key) ==
    LET did == decrypt_direct(jwe, key)
    IN  IF did \in {DidOf(p) : p \in Phrases} THEN did ELSE Absent

(* An absent entry is none of the values the codecs make or report. *)
ASSUME VaultAssumption ==
    /\ Absent \notin {"PBES2", "dir", "corrupt", "Corrupt", "Authentication"}
    /\ \A p \in Phrases : Absent # DidOf(p) /\ Absent # encrypt_did(DidOf(p), DerivedKey(p))
    /\ \A pw \in Passwords, p, q \in Phrases :
          Absent # wrap_cek(pw, DerivedKey(p), DerivedSalt(q), WorkFactor)

VaultStatus(lastBackup, lastRestore) ==
    [initialized |-> TRUE, lastBackup |-> lastBackup, lastRestore |-> lastRestore]

(* VaultStatus::parse: an absent entry reads as uninitialized. *)
parse(entry) ==
    IF entry = Absent THEN [initialized |-> FALSE, lastBackup |-> Absent, lastRestore |-> Absent]
    ELSE entry

-----------------------------------------------------------------------------
(* vault.rs.  Each operation says what it comes to: an error, the key it   *)
(* leaves in memory when it stops there, or the entries it will write and  *)
(* the key it sets once they are written.                                  *)

Stop(error, key) == [error |-> error, key |-> key, writes |-> Absent, then |-> Absent]
Write(writes, then) == [error |-> Absent, key |-> Absent, writes |-> writes, then |-> then]

status == parse(store.status)

initialize(pw, p) ==
    LET key == DerivedKey(p)
    IN  IF status.initialized THEN Stop("already initialized", cek)
        ELSE IF pw = Blank THEN Stop("blank password", cek)
        ELSE [Write([cek |-> wrap_cek(pw, key, DerivedSalt(p), WorkFactor),
                     did |-> encrypt_did(DidOf(p), key),
                     status |-> VaultStatus(Absent, Absent)], key)
              EXCEPT !.key = cek]

(* The first error of an operation that opens the stored key. *)
StoredKeyError(pw) ==
    IF store.cek = Absent THEN "corrupt" ELSE unwrap_cek_typed(store.cek, pw).error

unlock_vault(pw) ==
    IF ~status.initialized THEN Stop("uninitialized", cek)
    ELSE IF StoredKeyError(pw) # Absent THEN Stop(StoredKeyError(pw), Absent)
    ELSE Stop(Absent, unwrap_cek_typed(store.cek, pw).key)

lock_vault == IF status.initialized THEN Stop(Absent, Absent) ELSE Stop("uninitialized", cek)

get_did ==
    IF cek = Absent THEN Stop("locked", cek)
    ELSE IF store.did = Absent \/ decrypt_did(store.did, cek) = Absent THEN Stop("corrupt", cek)
    ELSE Stop(Absent, cek)

change_password(old, new) ==
    IF ~status.initialized THEN Stop("uninitialized", cek)
    ELSE IF new = Blank THEN Stop("blank password", cek)
    ELSE IF StoredKeyError(old) # Absent THEN Stop(StoredKeyError(old), Absent)
    ELSE LET opened == unwrap_cek_typed(store.cek, old)
         IN  Write([store EXCEPT !.cek = wrap_cek(new, opened.key, opened.p2s, opened.p2c)],
                   opened.key)

(* Mutant: the phrase is not compared with the stored identity. *)
reset_password_with_recovery_phrase_Any(p, pw) ==
    IF ~status.initialized THEN Stop("uninitialized", cek)
    ELSE IF pw = Blank THEN Stop("blank password", Absent)
    ELSE Write([store EXCEPT !.cek = wrap_cek(pw, DerivedKey(p), DerivedSalt(p), WorkFactor)],
               DerivedKey(p))

reset_password_with_recovery_phrase(p, pw) ==
    LET stored == IF store.did = Absent THEN Absent ELSE decrypt_did(store.did, DerivedKey(p))
    IN  IF ~status.initialized THEN Stop("uninitialized", cek)
        ELSE IF pw = Blank THEN Stop("blank password", Absent)
        ELSE IF stored = Absent \/ stored # DidOf(p) THEN Stop("recovery phrase mismatch", Absent)
        ELSE Write([store EXCEPT !.cek = wrap_cek(pw, DerivedKey(p), DerivedSalt(p), WorkFactor)],
                   DerivedKey(p))

backup ==
    IF ~status.initialized THEN Stop("uninitialized", cek)
    ELSE IF cek = Absent THEN Stop("locked", cek)
    ELSE IF store.did = Absent \/ store.cek = Absent THEN Stop("corrupt", cek)
    ELSE [Write([store EXCEPT !.status = VaultStatus("now", status.lastRestore)], cek)
          EXCEPT !.key = cek]

(* A blob that does not parse is Absent.  The key is dropped before        *)
(* anything is looked at.                                                  *)
restore_json(blob, pw) ==
    IF blob = Absent \/ ~blob.status.initialized THEN Stop("invalid backup", Absent)
    ELSE LET opened == unwrap_cek_typed(blob.cek, pw)
         IN  IF opened.error = "Authentication" THEN Stop("invalid password", Absent)
             ELSE IF opened.error # Absent \/ decrypt_did(blob.did, opened.key) = Absent
             THEN Stop("invalid backup", Absent)
             ELSE Write([cek |-> blob.cek, did |-> blob.did,
                         status |-> VaultStatus(
                             IF blob.status.lastBackup # Absent THEN blob.status.lastBackup
                             ELSE status.lastBackup, "now")],
                        opened.key)

encrypt_data(text) == IF cek = Absent THEN Absent ELSE encrypt_direct(text, cek)
decrypt_data(jwe) == IF cek = Absent THEN Absent ELSE decrypt_direct(jwe, cek)

-----------------------------------------------------------------------------
VaultInit ==
    /\ store = [cek |-> Absent, did |-> Absent, status |-> Absent]
    /\ cek = Absent /\ busy = Absent /\ blobs = {} /\ result = Absent

(* What the host may hand to restore: a backup it was given, one cut or    *)
(* edited on the way, or one whose two entries come from different backups.*)
Blobs ==
    blobs \cup {Absent}
    \cup {[b EXCEPT !.cek = Torn] : b \in blobs} \cup {[b EXCEPT !.did = Torn] : b \in blobs}
    \cup {[b EXCEPT !.did = c.did] : b, c \in blobs}

Operations ==
    {<<"initialize", initialize(pw, p)>> : pw \in Passwords \cup {Blank}, p \in Phrases}
    \cup {<<"unlock", unlock_vault(pw)>> : pw \in Passwords}
    \cup {<<"lock", lock_vault>>, <<"get_did", get_did>>}
    \cup {<<"change_password", change_password(old, new)>> :
              old \in Passwords, new \in Passwords \cup {Blank}}
    \cup {<<"reset", reset_password_with_recovery_phrase(p, pw)>> :
              p \in Phrases, pw \in Passwords \cup {Blank}}
    \cup (IF Cardinality(blobs) < MaxBackups THEN {<<"backup", backup>>} ELSE {})
    \cup {<<"restore", restore_json(b, pw)>> : b \in Blobs, pw \in Passwords}

(* An operation up to its write, or to its end when it writes nothing. *)
Begin ==
    /\ busy = Absent
    /\ \E op \in Operations :
        /\ cek' = op[2].key
        /\ result' = [op |-> op[1], error |-> op[2].error]
        /\ busy' = IF op[2].writes = Absent THEN Absent
                   ELSE [op |-> op[1], writes |-> op[2].writes, then |-> op[2].then]
    /\ UNCHANGED <<store, blobs>>

(* The status cannot be read: read_status_locking_on_error drops the key,  *)
(* and restore_json has dropped it already.                                *)
ReadFails ==
    /\ busy = Absent
    /\ cek' = Absent /\ result' = [op |-> "any", error |-> "store"]
    /\ UNCHANGED <<store, busy, blobs>>

(* SecretStore::apply commits every entry, then the key is set. *)
Finish ==
    /\ busy # Absent
    /\ store' = busy.writes /\ cek' = busy.then
    /\ blobs' = IF busy.op = "backup" THEN blobs \cup {store} ELSE blobs
    /\ busy' = Absent
    /\ UNCHANGED result

(* The store refuses the write, or the future is dropped before it. *)
Abandon ==
    /\ busy # Absent
    /\ busy' = Absent /\ result' = [op |-> busy.op, error |-> "store"]
    /\ UNCHANGED <<store, cek, blobs>>

(* The process dies, or the vault is dropped and built again over the same *)
(* store: before the write, or after it and before the key is set.         *)
Restart ==
    /\ store' = store \/ (busy # Absent /\ store' = busy.writes)
    /\ cek' = Absent /\ busy' = Absent /\ result' = Absent
    /\ UNCHANGED blobs

VaultNext == Begin \/ ReadFails \/ Finish \/ Abandon \/ Restart

VaultSpec == VaultInit /\ [][VaultNext]_vaultVars

-----------------------------------------------------------------------------
(* The vault always opens: once initialized, the stored wrapped key is the *)
(* key the stored DID is encrypted under, whatever write failed, was       *)
(* abandoned or was cut off by a crash; and a vault that is unlocked holds *)
(* exactly that key (IdentityVault, agent/vault.rs).                       *)
VaultCoherent ==
    /\ store.status # Absent =>
        /\ store.cek # Absent /\ store.did # Absent
        /\ decrypt_did(store.did, store.cek.key) # Absent
    /\ cek # Absent => store.cek # Absent /\ store.cek.key = cek

================================================================================
