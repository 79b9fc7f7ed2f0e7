------------------------------ MODULE VaultProofs ------------------------------
(***************************************************************************)
(* The password vault always opens: proofs about IdentityVault for any     *)
(* phrases, passwords and number of backups.  Whatever is stored, backed   *)
(* up or about to be written is a wrapped key beside the DID it opens; an  *)
(* operation either stops or writes such a pair, one lemma for each.       *)
(***************************************************************************)
EXTENDS IdentityVault, TLAPS

(* The content key of a phrase, wrapped under some password, beside the    *)
(* DID of the same phrase encrypted under that key.                        *)
Wrapped(p) == {wrap_cek(pw, DerivedKey(p), DerivedSalt(q), WorkFactor) : pw \in Passwords, q \in Phrases}
Sealed(p) == encrypt_did(DidOf(p), DerivedKey(p))
Statuses == {VaultStatus(a, b) : a, b \in {Absent, "now"}}
VaultOf(p) == [cek : Wrapped(p), did : {Sealed(p)}, status : Statuses]
Vaults == UNION {VaultOf(p) : p \in Phrases}

KeyOK(k) == k = Absent \/ (store \in Vaults /\ k = store.cek.key)

(* What is stored, kept as a backup or about to be written is such a pair, *)
(* and the key in memory is the stored one.  A backup that is about to be  *)
(* written was taken of an initialized vault.                              *)
VaultInv ==
    /\ store = [cek |-> Absent, did |-> Absent, status |-> Absent] \/ store \in Vaults
    /\ blobs \subseteq Vaults
    /\ KeyOK(cek)
    /\ busy # Absent => /\ busy.writes \in Vaults /\ busy.then = busy.writes.cek.key
                        /\ busy.op = "backup" => store \in Vaults

(* What an operation comes to. *)
Outcome(o) ==
    /\ KeyOK(o.key)
    /\ o.writes # Absent => o.writes \in Vaults /\ o.then = o.writes.cek.key

LEMMA WrappedFields == ASSUME NEW p \in Phrases, NEW e \in Wrapped(p)
    PROVE  /\ e # Absent /\ e.alg = "PBES2" /\ e.key = DerivedKey(p)
           /\ e.p2c = WorkFactor /\ \E q \in Phrases : e.p2s = DerivedSalt(q)
  BY VaultAssumption DEF Wrapped, wrap_cek

LEMMA Sealing == ASSUME NEW p \in Phrases
    PROVE  /\ Sealed(p) # Absent
           /\ decrypt_did(Sealed(p), DerivedKey(p)) = DidOf(p)
           /\ DidOf(p) # Absent
           /\ \A k : decrypt_did(Sealed(p), k) # Absent => k = DerivedKey(p)
  BY VaultAssumption DEF Sealed, encrypt_did, decrypt_did, encrypt_direct, decrypt_direct

LEMMA KeysDiffer == \A p, q \in Phrases : DerivedKey(p) = DerivedKey(q) => p = q
  BY DEF DerivedKey

LEMMA VaultFields == ASSUME NEW v \in Vaults
    PROVE  \E p \in Phrases : /\ v.cek \in Wrapped(p) /\ v.did = Sealed(p) /\ v.status \in Statuses
                              /\ v = [cek |-> v.cek, did |-> v.did, status |-> v.status]
  BY DEF Vaults, VaultOf

LEMMA VaultMade == ASSUME NEW p \in Phrases, NEW e \in Wrapped(p), NEW s \in Statuses
    PROVE  [cek |-> e, did |-> Sealed(p), status |-> s] \in Vaults
  BY DEF Vaults, VaultOf

LEMMA StatusRead == ASSUME NEW a \in {Absent, "now"}, NEW b \in {Absent, "now"}
    PROVE  VaultStatus(a, b) \in Statuses
  BY DEF Statuses

LEMMA StatusFields == ASSUME NEW s \in Statuses
    PROVE s.lastBackup \in {Absent, "now"} /\ s.lastRestore \in {Absent, "now"}
  BY DEF Statuses, VaultStatus

(* The two outcomes. *)
LEMMA Stops == ASSUME NEW error, NEW key, KeyOK(key) PROVE Outcome(Stop(error, key))
  BY DEF Stop, Outcome

LEMMA Writes == ASSUME NEW w \in Vaults PROVE Outcome(Write(w, w.cek.key))
  BY DEF Write, Outcome, KeyOK

LEMMA Initialized == ASSUME VaultInv, status.initialized
    PROVE  /\ store \in Vaults
           /\ status.lastBackup \in {Absent, "now"} /\ status.lastRestore \in {Absent, "now"}
  <1>1. store \in Vaults
    BY DEF VaultInv, status, parse
  <1>2. store.status \in Statuses
    BY <1>1, VaultFields
  <1> QED BY <1>1, <1>2, StatusFields DEF status, parse

-----------------------------------------------------------------------------
(* Opening the stored key gives the key of its phrase. *)
LEMMA OpensStored == ASSUME NEW p \in Phrases, NEW e \in Wrapped(p), NEW pw,
                            unwrap_cek_typed(e, pw).error = Absent
    PROVE  /\ unwrap_cek_typed(e, pw).key = DerivedKey(p)
           /\ unwrap_cek_typed(e, pw).p2c = WorkFactor
           /\ \E q \in Phrases : unwrap_cek_typed(e, pw).p2s = DerivedSalt(q)
  BY WrappedFields, VaultAssumption DEF unwrap_cek_typed, Opened

LEMMA InitializeComes == ASSUME VaultInv, NEW pw \in Passwords \cup {Blank}, NEW p \in Phrases
    PROVE  Outcome(initialize(pw, p))
  <1> DEFINE w == [cek |-> wrap_cek(pw, DerivedKey(p), DerivedSalt(p), WorkFactor),
                   did |-> encrypt_did(DidOf(p), DerivedKey(p)),
                   status |-> VaultStatus(Absent, Absent)]
  <1>0. KeyOK(cek)
    BY DEF VaultInv
  <1>1. CASE status.initialized \/ pw = Blank
    BY <1>0, <1>1, Stops DEF initialize
  <1>2. CASE ~ (status.initialized \/ pw = Blank)
    <2>1. w.cek \in Wrapped(p) /\ w.cek.key = DerivedKey(p)
      BY <1>2 DEF Wrapped, wrap_cek
    <2>2. w \in Vaults
      BY <2>1, VaultMade, StatusRead DEF Sealed
    <2>3. initialize(pw, p) = [Write(w, DerivedKey(p)) EXCEPT !.key = cek]
      BY <1>2 DEF initialize
    <2> HIDE DEF w
    <2> QED BY <1>0, <2>1, <2>2, <2>3 DEF Outcome, Write
  <1> QED BY <1>1, <1>2

LEMMA UnlockComes == ASSUME VaultInv, NEW pw PROVE Outcome(unlock_vault(pw))
  <1>0. KeyOK(cek) /\ KeyOK(Absent)
    BY DEF VaultInv, KeyOK
  <1>1. CASE ~status.initialized \/ StoredKeyError(pw) # Absent
    BY <1>0, <1>1, Stops DEF unlock_vault
  <1>2. CASE status.initialized /\ StoredKeyError(pw) = Absent
    <2>1. PICK p \in Phrases : store.cek \in Wrapped(p)
      BY <1>2, Initialized, VaultFields
    <2>2. unwrap_cek_typed(store.cek, pw).error = Absent
      BY <1>2, VaultAssumption DEF StoredKeyError
    <2>3. KeyOK(unwrap_cek_typed(store.cek, pw).key)
      BY <1>2, <2>1, <2>2, Initialized, OpensStored, WrappedFields DEF KeyOK
    <2> QED BY <1>2, <2>3, Stops DEF unlock_vault
  <1> QED BY <1>1, <1>2

LEMMA LockComes == ASSUME VaultInv PROVE Outcome(lock_vault) /\ Outcome(get_did)
  <1>0. KeyOK(cek) /\ KeyOK(Absent)
    BY DEF VaultInv, KeyOK
  <1> QED BY <1>0, Stops DEF lock_vault, get_did

(* The wrapped key of the store is replaced by another one of its phrase. *)
LEMMA Rewrapped == ASSUME store \in Vaults, NEW p \in Phrases, store.did = Sealed(p), NEW e \in Wrapped(p)
    PROVE  Outcome(Write([store EXCEPT !.cek = e], DerivedKey(p)))
  <1> DEFINE w == [store EXCEPT !.cek = e]
  <1>1. w = [cek |-> e, did |-> store.did, status |-> store.status] /\ store.status \in Statuses
    BY VaultFields
  <1>2. w \in Vaults /\ w.cek = e
    BY <1>1, VaultMade
  <1>3. w.cek.key = DerivedKey(p)
    BY <1>2, WrappedFields
  <1> HIDE DEF w
  <1>4. Outcome(Write(w, DerivedKey(p)))
    BY <1>2, <1>3, Writes
  <1> QED BY <1>4 DEF w

LEMMA ChangeComes == ASSUME VaultInv, NEW old, NEW new \in Passwords \cup {Blank}
    PROVE  Outcome(change_password(old, new))
  <1>0. KeyOK(cek) /\ KeyOK(Absent)
    BY DEF VaultInv, KeyOK
  <1>1. CASE ~status.initialized \/ new = Blank \/ StoredKeyError(old) # Absent
    BY <1>0, <1>1, Stops DEF change_password
  <1>2. CASE status.initialized /\ new # Blank /\ StoredKeyError(old) = Absent
    <2> DEFINE opened == unwrap_cek_typed(store.cek, old)
               e == wrap_cek(new, opened.key, opened.p2s, opened.p2c)
    <2>1. PICK p \in Phrases : store.cek \in Wrapped(p) /\ store.did = Sealed(p)
      BY <1>2, Initialized, VaultFields
    <2>2. opened.error = Absent
      BY <1>2, VaultAssumption DEF StoredKeyError
    <2>3. opened.key = DerivedKey(p) /\ opened.p2c = WorkFactor /\ \E q \in Phrases : opened.p2s = DerivedSalt(q)
      BY <2>1, <2>2, OpensStored
    <2>4. change_password(old, new) = Write([store EXCEPT !.cek = e], opened.key)
      BY <1>2 DEF change_password
    <2> HIDE DEF opened
    <2>5. e \in Wrapped(p)
      BY <1>2, <2>3 DEF Wrapped
    <2> HIDE DEF e
    <2> QED BY <1>2, <2>1, <2>3, <2>4, <2>5, Initialized, Rewrapped
  <1> QED BY <1>1, <1>2

(* A phrase that opens the stored DID is the phrase of the stored vault. *)
LEMMA ResetComes == ASSUME VaultInv, NEW p \in Phrases, NEW pw \in Passwords \cup {Blank}
    PROVE  Outcome(reset_password_with_recovery_phrase(p, pw))
  <1> DEFINE stored == IF store.did = Absent THEN Absent ELSE decrypt_did(store.did, DerivedKey(p))
             e == wrap_cek(pw, DerivedKey(p), DerivedSalt(p), WorkFactor)
  <1>0. KeyOK(cek) /\ KeyOK(Absent)
    BY DEF VaultInv, KeyOK
  <1>1. CASE ~status.initialized \/ pw = Blank \/ stored = Absent \/ stored # DidOf(p)
    BY <1>0, <1>1, Stops DEF reset_password_with_recovery_phrase
  <1>2. CASE status.initialized /\ pw # Blank /\ stored # Absent /\ stored = DidOf(p)
    <2>1. PICK q \in Phrases : store.cek \in Wrapped(q) /\ store.did = Sealed(q)
      BY <1>2, Initialized, VaultFields
    <2>2. DerivedKey(p) = DerivedKey(q)
      BY <1>2, <2>1, Sealing
    <2>3. q = p
      BY <2>2, KeysDiffer
    <2>4. e \in Wrapped(p)
      BY <1>2 DEF Wrapped
    <2>5. reset_password_with_recovery_phrase(p, pw) = Write([store EXCEPT !.cek = e], DerivedKey(p))
      BY <1>2 DEF reset_password_with_recovery_phrase
    <2> HIDE DEF e
    <2> QED BY <1>2, <2>1, <2>3, <2>4, <2>5, Initialized, Rewrapped
  <1> QED BY <1>1, <1>2

LEMMA BackupComes == ASSUME VaultInv
    PROVE  Outcome(backup) /\ (backup.writes # Absent => store \in Vaults)
  <1> DEFINE s == VaultStatus("now", status.lastRestore)
             w == [store EXCEPT !.status = s]
  <1>0. KeyOK(cek) /\ KeyOK(Absent)
    BY DEF VaultInv, KeyOK
  <1>1. CASE ~status.initialized \/ cek = Absent \/ store.did = Absent \/ store.cek = Absent
    <2>1. Outcome(backup)
      BY <1>0, <1>1, Stops DEF backup
    <2>2. backup.writes = Absent
      BY <1>1 DEF backup, Stop
    <2> QED BY <2>1, <2>2
  <1>2. CASE ~ (~status.initialized \/ cek = Absent \/ store.did = Absent \/ store.cek = Absent)
    <2>1. PICK p \in Phrases : /\ store.cek \in Wrapped(p) /\ store.did = Sealed(p)
                               /\ store = [cek |-> store.cek, did |-> store.did, status |-> store.status]
      BY <1>2, Initialized, VaultFields
    <2>2. s \in Statuses
      BY <1>2, Initialized, StatusRead
    <2>3. backup = [Write(w, cek) EXCEPT !.key = cek]
      BY <1>2 DEF backup
    <2> HIDE DEF s
    <2>4. w = [cek |-> store.cek, did |-> Sealed(p), status |-> s]
      BY <2>1
    <2>5. w \in Vaults /\ w.cek = store.cek
      BY <2>1, <2>2, <2>4, VaultMade
    <2>6. cek = w.cek.key
      BY <1>0, <1>2, <2>5 DEF KeyOK
    <2> HIDE DEF w
    <2> QED BY <1>0, <1>2, <2>3, <2>5, <2>6, Initialized DEF Outcome, Write
  <1> QED BY <1>1, <1>2

(* What the host may hand to restore, when it has a wrapped key at all. *)
LEMMA BlobFields == ASSUME blobs \subseteq Vaults, NEW b \in Blobs, b # Absent
    PROVE  /\ b.cek = Torn \/ \E p \in Phrases : b.cek \in Wrapped(p)
           /\ b.did = Torn \/ \E p \in Phrases : b.did = Sealed(p)
           /\ b.status \in Statuses
  <1>1. CASE b \in blobs
    BY <1>1, VaultFields
  <1>2. ASSUME NEW c \in blobs, b = [c EXCEPT !.cek = Torn] PROVE b.cek = Torn /\ b.did = c.did /\ b.status = c.status
    BY <1>2, VaultFields
  <1>3. ASSUME NEW c \in blobs, b = [c EXCEPT !.did = Torn] PROVE b.did = Torn /\ b.cek = c.cek /\ b.status = c.status
    BY <1>3, VaultFields
  <1>4. ASSUME NEW c \in blobs, NEW d \in blobs, b = [c EXCEPT !.did = d.did]
        PROVE  b.cek = c.cek /\ b.did = d.did /\ b.status = c.status
    BY <1>4, VaultFields
  <1>5. \A c \in blobs : /\ \E p \in Phrases : c.cek \in Wrapped(p)
                         /\ \E p \in Phrases : c.did = Sealed(p)
                         /\ c.status \in Statuses
    BY VaultFields
  <1>6. \/ b \in blobs
        \/ \E c \in blobs : b = [c EXCEPT !.cek = Torn]
        \/ \E c \in blobs : b = [c EXCEPT !.did = Torn]
        \/ \E c, d \in blobs : b = [c EXCEPT !.did = d.did]
    BY DEF Blobs
  <1>7. CASE \E c \in blobs : b = [c EXCEPT !.cek = Torn]
    BY <1>2, <1>5, <1>7
  <1>8. CASE \E c \in blobs : b = [c EXCEPT !.did = Torn]
    BY <1>3, <1>5, <1>8
  <1>9. CASE \E c, d \in blobs : b = [c EXCEPT !.did = d.did]
    BY <1>4, <1>5, <1>9
  <1> QED BY <1>1, <1>6, <1>7, <1>8, <1>9

LEMMA TornOpens == ASSUME NEW pw
    PROVE unwrap_cek_typed(Torn, pw).error # Absent /\ \A k : decrypt_did(Torn, k) = Absent
  <1>1. Torn.alg = Absent
    BY DEF Torn
  <1>2. unwrap_cek_typed(Torn, pw).error = "Corrupt"
    BY <1>1, VaultAssumption DEF unwrap_cek_typed, Opened
  <1>3. \A k : decrypt_direct(Torn, k) = Absent
    BY <1>1, VaultAssumption DEF decrypt_direct
  <1> QED BY <1>2, <1>3, VaultAssumption DEF decrypt_did

(* A backup is taken in only when its two entries belong together. *)
LEMMA RestoreComes == ASSUME VaultInv, NEW b \in Blobs, NEW pw PROVE Outcome(restore_json(b, pw))
  <1> DEFINE opened == unwrap_cek_typed(b.cek, pw)
             last == IF b.status.lastBackup # Absent THEN b.status.lastBackup ELSE status.lastBackup
             s == VaultStatus(last, "now")
             w == [cek |-> b.cek, did |-> b.did, status |-> s]
  <1>0. KeyOK(Absent)
    BY DEF KeyOK
  <1>1. CASE b = Absent \/ ~b.status.initialized \/ opened.error # Absent \/ decrypt_did(b.did, opened.key) = Absent
    BY <1>0, <1>1, Stops DEF restore_json
  <1>2. CASE b # Absent /\ b.status.initialized /\ opened.error = Absent /\ decrypt_did(b.did, opened.key) # Absent
    <2>1. b.cek # Torn /\ b.did # Torn
      BY <1>2, TornOpens
    <2>2. PICK p \in Phrases : b.cek \in Wrapped(p)
      BY <1>2, <2>1, BlobFields DEF VaultInv
    <2>3. PICK q \in Phrases : b.did = Sealed(q)
      BY <1>2, <2>1, BlobFields DEF VaultInv
    <2>4. opened.key = DerivedKey(p)
      BY <1>2, <2>2, OpensStored
    <2>5. p = q
      BY <1>2, <2>3, <2>4, Sealing, KeysDiffer
    <2>6. status.lastBackup \in {Absent, "now"}
      <3>1. CASE status.initialized
        BY <3>1, Initialized
      <3>2. CASE ~status.initialized
        BY <3>2, VaultFields DEF VaultInv, status, parse, Statuses, VaultStatus
      <3> QED BY <3>1, <3>2
    <2>7. s \in Statuses
      BY <1>2, <2>6, BlobFields, StatusFields, StatusRead DEF VaultInv
    <2>8. restore_json(b, pw) = Write(w, opened.key)
      BY <1>2, VaultAssumption DEF restore_json
    <2> HIDE DEF s, opened
    <2>9. w \in Vaults /\ w.cek = b.cek
      BY <2>2, <2>3, <2>5, <2>7, VaultMade
    <2>10. w.cek.key = opened.key
      BY <2>2, <2>4, <2>9, WrappedFields
    <2> HIDE DEF w
    <2> QED BY <2>8, <2>9, <2>10, Writes
  <1> QED BY <1>1, <1>2

-----------------------------------------------------------------------------
LEMMA VaultStart == VaultInit => VaultInv
  BY DEF VaultInit, VaultInv, KeyOK

LEMMA OperationsCome == ASSUME VaultInv, NEW op \in Operations
    PROVE  Outcome(op[2]) /\ (op[1] = "backup" /\ op[2].writes # Absent => store \in Vaults)
  <1>1. ASSUME NEW pw \in Passwords \cup {Blank}, NEW p \in Phrases, op = <<"initialize", initialize(pw, p)>>
        PROVE  op[1] # "backup" /\ Outcome(op[2])
    BY <1>1, InitializeComes
  <1>2. ASSUME NEW pw \in Passwords, op = <<"unlock", unlock_vault(pw)>> PROVE op[1] # "backup" /\ Outcome(op[2])
    BY <1>2, UnlockComes
  <1>3. ASSUME op \in {<<"lock", lock_vault>>, <<"get_did", get_did>>} PROVE op[1] # "backup" /\ Outcome(op[2])
    BY <1>3, LockComes
  <1>4. ASSUME NEW old \in Passwords, NEW new \in Passwords \cup {Blank},
               op = <<"change_password", change_password(old, new)>>
        PROVE  op[1] # "backup" /\ Outcome(op[2])
    BY <1>4, ChangeComes
  <1>5. ASSUME NEW p \in Phrases, NEW pw \in Passwords \cup {Blank},
               op = <<"reset", reset_password_with_recovery_phrase(p, pw)>>
        PROVE  op[1] # "backup" /\ Outcome(op[2])
    BY <1>5, ResetComes
  <1>6. CASE op = <<"backup", backup>>
    BY <1>6, BackupComes
  <1>7. ASSUME NEW b \in Blobs, NEW pw \in Passwords, op = <<"restore", restore_json(b, pw)>>
        PROVE  op[1] # "backup" /\ Outcome(op[2])
    BY <1>7, RestoreComes
  <1> QED BY <1>1, <1>2, <1>3, <1>4, <1>5, <1>6, <1>7 DEF Operations

LEMMA VaultStep == VaultInv /\ [VaultNext]_vaultVars => VaultInv'
  <1> SUFFICES ASSUME VaultInv, [VaultNext]_vaultVars PROVE VaultInv'
    OBVIOUS
  <1>1. CASE Begin
    <2>1. PICK op \in Operations :
            /\ cek' = op[2].key
            /\ busy' = IF op[2].writes = Absent THEN Absent
                       ELSE [op |-> op[1], writes |-> op[2].writes, then |-> op[2].then]
      BY <1>1 DEF Begin
    <2>2. Outcome(op[2]) /\ (op[1] = "backup" /\ op[2].writes # Absent => store \in Vaults)
      BY OperationsCome
    <2>3. store' = store /\ blobs' = blobs
      BY <1>1 DEF Begin
    <2>4. KeyOK(cek)'
      BY <2>1, <2>2, <2>3 DEF Outcome, KeyOK
    <2>5. ASSUME busy' # Absent
          PROVE  /\ busy'.writes \in Vaults /\ busy'.then = busy'.writes.cek.key
                 /\ busy'.op = "backup" => store \in Vaults
      BY <2>1, <2>2, <2>5 DEF Outcome
    <2> QED BY <2>3, <2>4, <2>5 DEF VaultInv
  <1>2. CASE ReadFails
    BY <1>2 DEF ReadFails, VaultInv, KeyOK
  <1>3. CASE Finish
    BY <1>3 DEF Finish, VaultInv, KeyOK
  <1>4. CASE Abandon
    BY <1>4 DEF Abandon, VaultInv, KeyOK
  <1>5. CASE Restart
    BY <1>5 DEF Restart, VaultInv, KeyOK
  <1>6. CASE UNCHANGED vaultVars
    BY <1>6 DEF vaultVars, VaultInv, KeyOK
  <1> QED BY <1>1, <1>2, <1>3, <1>4, <1>5, <1>6 DEF VaultNext

(* The vault always opens, for any phrases, passwords and backups: once    *)
(* it is initialized the stored wrapped key is the key the stored DID is   *)
(* encrypted under, whatever write was refused, abandoned or cut off by a  *)
(* crash and whatever blob was handed to restore; and an unlocked vault    *)
(* holds exactly that key (IdentityVault, agent/vault.rs).                 *)
THEOREM VaultAlwaysOpens == VaultSpec => []VaultCoherent
  <1>1. VaultSpec => []VaultInv
    BY VaultStart, VaultStep, PTL DEF VaultSpec
  <1>2. VaultInv => VaultCoherent
    <2> SUFFICES ASSUME VaultInv PROVE VaultCoherent
      OBVIOUS
    <2>1. ASSUME store \in Vaults
          PROVE  store.cek # Absent /\ store.did # Absent /\ decrypt_did(store.did, store.cek.key) # Absent
      <3>1. PICK p \in Phrases : store.cek \in Wrapped(p) /\ store.did = Sealed(p)
        BY <2>1, VaultFields
      <3> QED BY <3>1, WrappedFields, Sealing
    <2> QED BY <2>1 DEF VaultInv, VaultCoherent, KeyOK
  <1> QED BY <1>1, <1>2, PTL

================================================================================
