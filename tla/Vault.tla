------------------------------- MODULE Vault -------------------------------
(***************************************************************************)
(* The encrypted wallet vault of Diginaut: the manager every tab runs      *)
(* (apps/wallet/public/vault.js) over the one IndexedDB record all tabs    *)
(* share (apps/wallet/public/keystore.js).                                 *)
(*                                                                         *)
(* A tab keeps a copy of the stored record, and while unlocked a session   *)
(* key and the decrypted secrets.  Its asynchronous calls interleave at    *)
(* every await; `call[t][c]' is one call of tab t in flight, at the await  *)
(* its pc names.  Mutations are computed from the tab's copies before the  *)
(* first await and land in one compare-and-set transaction on `rev'.       *)
(*                                                                         *)
(* Abstractions: a wallet's id is the seed it holds; a session key is the  *)
(* number of the salt it was derived from, so a ciphertext opens exactly   *)
(* under the key that sealed it; a mnemonic in the secrets is its seed.    *)
(***************************************************************************)
EXTENDS Naturals

CONSTANTS
  Tab,        \* the browser tabs of one profile
  Call,       \* how many calls of one tab may be in flight at once
  Seed,       \* the mnemonics, and with them the wallet ids
  Name,       \* wallet names
  UserOps,    \* which operations the users of this instance perform
  Faults,     \* which faults happen: subset of {"fail", "abort", "restart"}
  Listeners,  \* refreshes one broadcast starts in a tab: 2 in the app (the
              \* manager's and app.js's), 0 without BroadcastChannel
  Start,      \* what the profile may hold at first: a subset of Starts
  MaxRev,     \* bound: no mutation starts from a record at this revision
  MaxSalt,    \* bound: salts generated
  MaxIndex,   \* bound: receive index
  Nil         \* no record

AllUserOps == {"create", "add", "restore", "derive", "rename", "remove",
               "removeLast", "setActive", "backUp", "receive", "lock", "erase"}
Starts == {"empty", "v1", "interrupted", "vault"}

Row == [name: Name, backedUp: BOOLEAN, derived: BOOLEAN, receiveIndex: Nat]
Meta == [activeId: Seed, wallets: [Seed -> Row \cup {Nil}]]
Secrets == [mnemonics: SUBSET Seed, sources: SUBSET Seed]
Record == [rev: Nat, salt: Nat, sealed: Nat, meta: Meta, secrets: Secrets]

ASSUME ConstantsOK ==
  /\ UserOps \subseteq AllUserOps
  /\ Faults \subseteq {"fail", "abort", "restart"}
  /\ Listeners \in Nat
  /\ Start \subseteq Starts
  /\ MaxRev \in Nat /\ MaxSalt \in Nat /\ MaxIndex \in Nat

ASSUME NilIsNothing ==
  Nil \notin Seed /\ Nil \notin Row /\ Nil \notin Secrets /\ Nil \notin Record

VARIABLES
  disk,     \* the stored v2 record, or Nil
  v1,       \* the mnemonic of the legacy v1 record, or Nil
  record,   \* [Tab -> the tab's copy of the v2 record]
  primary,  \* [Tab -> the tab's copy of the v1 record]
  key,      \* [Tab -> session key, NoKey when locked]
  secrets,  \* [Tab -> decrypted secrets, or Nil]
  call,     \* [Tab -> [Call -> the state of one call]]
  mail,     \* [Tab -> refreshes owed for broadcasts not yet delivered]
  salts     \* salts generated so far

vars == <<disk, v1, record, primary, key, secrets, call, mail, salts>>
tabVars == <<record, primary, key, secrets>>

-----------------------------------------------------------------------------
(* Data *)

NoKey == 0
Ids(r) == {w \in Seed : r.meta.wallets[w] # Nil}
Rev(r) == IF r = Nil THEN 0 ELSE r.rev
Opens(r, k) == r.sealed = k

\* The stored record's own key, derived from its salt, decrypts it.
TrustTheRecord(r) == TRUE
Decrypts(r) == Opens(r, r.salt)

MakeRow(n, b, d, i) == [name |-> n, backedUp |-> b, derived |-> d, receiveIndex |-> i]
NewRow(n, b, d) == MakeRow(n, b, d, 0)
Renamed(r, n) == MakeRow(n, r.backedUp, r.derived, r.receiveIndex)
BackedUp(r) == MakeRow(r.name, TRUE, r.derived, r.receiveIndex)
Derived(r) == MakeRow(r.name, r.backedUp, TRUE, r.receiveIndex)
HandedOut(r, i) == MakeRow(r.name, r.backedUp, r.derived, i)

\* The one-wallet record a first vault or a migration writes.
FirstRecord(rev, salt, sealed, s, row) ==
  [rev |-> rev, salt |-> salt, sealed |-> sealed,
   meta |-> [activeId |-> s, wallets |-> [w \in Seed |-> IF w = s THEN row ELSE Nil]],
   secrets |-> [mnemonics |-> {s}, sources |-> IF row.derived THEN {s} ELSE {}]]

Idle == [pc |-> "idle"]
CallState ==
  [pc: {"idle", "load", "boot", "createload", "reload", "orphan"}]
    \cup [pc: {"save"}, from: Record, key: Nat, meta: Meta, secrets: Secrets,
          drop: SUBSET Seed]
    \cup [pc: {"delete"}, from: Record]
    \cup [pc: {"decrypt"}, rec: Record, key: Nat]
    \cup [pc: {"kdf", "createsave", "v1save", "v1drop"}, rec: Record]
    \cup [pc: {"v1seal"}, seed: Seed]

Goto(t, c, state) == call' = [call EXCEPT ![t][c] = state]
At(t, c, pc) == call[t][c].pc = pc

\* broadcastVaultChange: the posting tab's own listeners hear it as well.
NoBroadcast == UNCHANGED mail
Broadcast == mail' = [t \in Tab |-> mail[t] + Listeners]

Locked(t) == key[t] = NoKey
Mutable(t) == key[t] # NoKey /\ record[t] # Nil /\ secrets[t] # Nil
              /\ record[t].rev < MaxRev
NameFree(t, n, s) ==
  \A w \in Ids(record[t]) \ {s} : record[t].meta.wallets[w].name # n

-----------------------------------------------------------------------------
(* Mutations: everything before the first await of commit() *)

Commit(t, c, meta, sec, drop) ==
  /\ At(t, c, "idle")
  /\ Goto(t, c, [pc |-> "save", from |-> record[t], key |-> key[t],
                 meta |-> meta, secrets |-> sec, drop |-> drop])
  /\ UNCHANGED <<disk, v1, tabVars, mail, salts>>

MakeMeta(active, wallets) == [activeId |-> active, wallets |-> wallets]
OldRow(t, s) == record[t].meta.wallets[s]
WithRow(t, s, row) ==
  MakeMeta(record[t].meta.activeId, [record[t].meta.wallets EXCEPT ![s] = row])

\* Every entry of words the secrets do not hold gets a fresh id, so words lost
\* or removed and entered again are another member of Seed.
\* Words just generated or imported are not backed up; typed words are.
AddWallet(t, c, s, n, how) ==
  /\ how \in {"add", "restore", "derive"} \cap UserOps
  /\ Mutable(t)
  /\ s \notin secrets[t].mnemonics \cup Ids(record[t])
  /\ NameFree(t, n, s)
  /\ Commit(t, c, WithRow(t, s, NewRow(n, how = "restore", how = "derive")),
       [mnemonics |-> secrets[t].mnemonics \cup {s},
        sources |-> IF how = "derive" THEN secrets[t].sources \cup {s} ELSE secrets[t].sources],
       {})

\* A seed that is already there, re-derived from a web3 signature.
UpgradeSource(t, c, s) ==
  /\ "derive" \in UserOps
  /\ Mutable(t)
  /\ s \in secrets[t].mnemonics \ secrets[t].sources
  /\ Commit(t, c,
       IF s \in Ids(record[t])
         THEN WithRow(t, s, Derived(OldRow(t, s)))
         ELSE record[t].meta,
       [mnemonics |-> secrets[t].mnemonics, sources |-> secrets[t].sources \cup {s}],
       {})

RenameWallet(t, c, s, n) ==
  /\ "rename" \in UserOps
  /\ Mutable(t)
  /\ s \in Ids(record[t])
  /\ NameFree(t, n, s)
  /\ Commit(t, c, WithRow(t, s, Renamed(OldRow(t, s), n)),
            secrets[t], {})

\* An active wallet hands over to a neighbour; which one is display order.
Heirs(t, s) ==
  IF record[t].meta.activeId = s THEN Ids(record[t]) \ {s} ELSE {record[t].meta.activeId}

WordsStay(t, s) == secrets[t]
Without(t, s) ==
  [mnemonics |-> secrets[t].mnemonics \ {s}, sources |-> secrets[t].sources \ {s}]

RemoveWallet(t, c, s) ==
  /\ "remove" \in UserOps
  /\ Mutable(t)
  /\ s \in Ids(record[t])
  /\ Ids(record[t]) # {s}
  /\ \E heir \in Heirs(t, s) :
       Commit(t, c, MakeMeta(heir, [record[t].meta.wallets EXCEPT ![s] = Nil]),
              Without(t, s), {s})

SetActive(t, c, s) ==
  /\ "setActive" \in UserOps
  /\ Mutable(t)
  /\ s \in Ids(record[t]) \ {record[t].meta.activeId}
  /\ Commit(t, c, MakeMeta(s, record[t].meta.wallets), secrets[t], {})

SetBackedUp(t, c, s) ==
  /\ "backUp" \in UserOps
  /\ Mutable(t)
  /\ s \in Ids(record[t])
  /\ Commit(t, c, WithRow(t, s, BackedUp(OldRow(t, s))),
            secrets[t], {})

SetReceiveIndex(t, c, s, index) ==
  /\ "receive" \in UserOps
  /\ Mutable(t)
  /\ s \in Ids(record[t])
  /\ index > OldRow(t, s).receiveIndex
  /\ Commit(t, c, WithRow(t, s, HandedOut(OldRow(t, s), index)),
            secrets[t], {})

RemoveLastWallet(t, c, s) ==
  /\ "removeLast" \in UserOps
  /\ Mutable(t)
  /\ Ids(record[t]) = {s}
  /\ At(t, c, "idle")
  /\ Goto(t, c, [pc |-> "delete", from |-> record[t]])
  /\ UNCHANGED <<disk, v1, tabVars, mail, salts>>

Mutate(t, c) ==
  \E s \in Seed :
    \/ \E n \in Name, how \in UserOps : AddWallet(t, c, s, n, how)
    \/ UpgradeSource(t, c, s)
    \/ \E n \in Name : RenameWallet(t, c, s, n)
    \/ RemoveWallet(t, c, s)
    \/ SetActive(t, c, s)
    \/ SetBackedUp(t, c, s)
    \/ \E i \in 1..MaxIndex : SetReceiveIndex(t, c, s, i)
    \/ RemoveLastWallet(t, c, s)

-----------------------------------------------------------------------------
(* The compare-and-set transactions, and what runs after them *)

\* "abort": put() reported success, then the transaction failed to commit.
Put(rec) ==
  /\ disk' \in {rec} \cup (IF "abort" \in Faults THEN {disk} ELSE {})
  /\ Broadcast

\* The transaction's own check that nobody wrote in between.
Unchecked(rev) == TRUE
StillAt(rev) == Rev(disk) = rev

\* What commit() seals: the base with its own salt, under the session key.
Resalted(me) ==
  [rev |-> me.from.rev + 1, salt |-> me.from.salt + 1, sealed |-> me.from.salt + 1,
   meta |-> me.meta, secrets |-> me.secrets]
NextRecord(me) ==
  [rev |-> me.from.rev + 1, salt |-> me.from.salt, sealed |-> me.key,
   meta |-> me.meta, secrets |-> me.secrets]

SaveVaultRecord(t, c) ==
  LET me == call[t][c]
      saved == NextRecord(me)
  IN
  /\ At(t, c, "save")
  /\ StillAt(me.from.rev)
  /\ Put(saved)
  /\ record' = [record EXCEPT ![t] = saved]
  /\ secrets' = [secrets EXCEPT ![t] = me.secrets]
  /\ Goto(t, c, Idle)
  /\ UNCHANGED <<v1, primary, key, salts>>

DeleteVaultRecord(t, c) ==
  /\ At(t, c, "delete")
  /\ StillAt(call[t][c].from.rev)
  /\ disk' = Nil
  /\ Broadcast
  /\ record' = [record EXCEPT ![t] = Nil]
  /\ key' = [key EXCEPT ![t] = NoKey]
  /\ secrets' = [secrets EXCEPT ![t] = Nil]
  /\ Goto(t, c, Idle)
  /\ UNCHANGED <<v1, primary, salts>>

\* VaultConflictError: the stale mutation is dropped and the tab re-syncs.
Conflict(t, c) ==
  /\ call[t][c].pc \in {"save", "delete"}
  /\ ~StillAt(call[t][c].from.rev)
  /\ Goto(t, c, [pc |-> "reload"])
  /\ UNCHANGED <<disk, v1, tabVars, mail, salts>>

-----------------------------------------------------------------------------
(* refresh(): after a broadcast or a conflict *)

OnVaultChanged(t, c) ==
  /\ mail[t] > 0
  /\ At(t, c, "idle")
  /\ mail' = [mail EXCEPT ![t] = @ - 1]
  /\ Goto(t, c, [pc |-> "reload"])
  /\ UNCHANGED <<disk, v1, tabVars, salts>>

CopyStored(t) ==
  /\ record' = [record EXCEPT ![t] = disk]
  /\ primary' = [primary EXCEPT ![t] = v1]

\* The record is replaced here; the secrets follow only when the decrypt ends.
Refresh(t, c) ==
  /\ At(t, c, "reload")
  /\ CopyStored(t)
  /\ \/ /\ Locked(t)
        /\ Goto(t, c, Idle)
        /\ UNCHANGED <<key, secrets>>
     \/ /\ ~Locked(t) /\ disk = Nil
        /\ key' = [key EXCEPT ![t] = NoKey]
        /\ secrets' = [secrets EXCEPT ![t] = Nil]
        /\ Goto(t, c, Idle)
     \/ /\ ~Locked(t) /\ disk # Nil
        /\ Goto(t, c, [pc |-> "decrypt", rec |-> disk, key |-> key[t]])
        /\ UNCHANGED <<key, secrets>>
  /\ UNCHANGED <<disk, v1, mail, salts>>

Refreshed(t, c) ==
  /\ At(t, c, "decrypt")
  /\ \/ /\ Opens(call[t][c].rec, call[t][c].key)
        /\ secrets' = [secrets EXCEPT ![t] = call[t][c].rec.secrets]
        /\ UNCHANGED key
     \/ /\ ~Opens(call[t][c].rec, call[t][c].key)
        /\ secrets' = [secrets EXCEPT ![t] = Nil]
        /\ key' = [key EXCEPT ![t] = NoKey]
  /\ Goto(t, c, Idle)
  /\ UNCHANGED <<disk, v1, record, primary, mail, salts>>

-----------------------------------------------------------------------------
(* unlock() and migrateV1() *)

\* The unlock button is disabled while its own call runs.
UnlockPcs == {"load", "kdf", "orphan", "v1seal", "v1save", "v1drop"}

Unlock(t, c) ==
  /\ Locked(t) /\ (record[t] # Nil \/ primary[t] # Nil)
  /\ \A d \in Call : call[t][d].pc \notin UnlockPcs
  /\ At(t, c, "idle")
  /\ Goto(t, c, [pc |-> "load"])
  /\ UNCHANGED <<disk, v1, tabVars, mail, salts>>

UnlockLoad(t, c) ==
  /\ At(t, c, "load")
  /\ CopyStored(t)
  /\ \/ /\ disk # Nil
        /\ Goto(t, c, [pc |-> "kdf", rec |-> disk])
     \/ /\ disk = Nil /\ v1 # Nil
        /\ Goto(t, c, [pc |-> "v1seal", seed |-> v1])
     \/ /\ disk = Nil /\ v1 = Nil
        /\ Goto(t, c, Idle)
  /\ UNCHANGED <<disk, v1, key, secrets, mail, salts>>

\* The key derived from the record's own salt, once PBKDF2 has run.
UnlockOpen(t, c) ==
  LET rec == call[t][c].rec IN
  /\ At(t, c, "kdf")
  /\ Decrypts(rec)
  /\ key' = [key EXCEPT ![t] = rec.salt]
  /\ secrets' = [secrets EXCEPT ![t] = rec.secrets]
  /\ Goto(t, c, IF primary[t] # Nil THEN [pc |-> "orphan"] ELSE Idle)
  /\ UNCHANGED <<disk, v1, record, primary, mail, salts>>

\* A v2 record that does not decrypt, with the v1 record still there.
UnlockFallBack(t, c) ==
  /\ At(t, c, "kdf")
  /\ ~Decrypts(call[t][c].rec)
  /\ primary[t] # Nil
  /\ Goto(t, c, [pc |-> "v1seal", seed |-> primary[t]])
  /\ UNCHANGED <<disk, v1, tabVars, mail, salts>>

\* A wrong password, or a record that opens under none.
UnlockFail(t, c) ==
  /\ call[t][c].pc \in {"kdf", "v1seal"}
  /\ Goto(t, c, Idle)
  /\ UNCHANGED <<disk, v1, tabVars, mail, salts>>

DeleteOrphan(t, c) ==
  /\ At(t, c, "orphan")
  /\ v1' = Nil
  /\ primary' = [primary EXCEPT ![t] = Nil]
  /\ Goto(t, c, Idle)
  /\ UNCHANGED <<disk, record, key, secrets, mail, salts>>

\* The base revision is the copy's at this point, two awaits into the call.
MigrateSeal(t, c) ==
  /\ At(t, c, "v1seal")
  /\ salts < MaxSalt /\ Rev(record[t]) < MaxRev
  /\ salts' = salts + 1
  /\ \E n \in Name :
       Goto(t, c, [pc |-> "v1save",
                   rec |-> FirstRecord(Rev(record[t]) + 1, salts + 1, salts + 1,
                                       call[t][c].seed, NewRow(n, FALSE, FALSE))])
  /\ UNCHANGED <<disk, v1, tabVars, mail>>

MigrateSave(t, c) ==
  /\ At(t, c, "v1save")
  /\ StillAt(call[t][c].rec.rev - 1)
  /\ Put(call[t][c].rec)
  /\ Goto(t, c, [pc |-> "v1drop", rec |-> call[t][c].rec])
  /\ UNCHANGED <<v1, tabVars, salts>>

\* The returned object has been decrypted; only now does the v1 record go.
MigrateDrop(t, c) ==
  LET saved == call[t][c].rec IN
  /\ At(t, c, "v1drop")
  /\ v1' = Nil
  /\ record' = [record EXCEPT ![t] = saved]
  /\ key' = [key EXCEPT ![t] = saved.salt]
  /\ secrets' = [secrets EXCEPT ![t] = saved.secrets]
  /\ primary' = [primary EXCEPT ![t] = Nil]
  /\ Goto(t, c, Idle)
  /\ UNCHANGED <<disk, mail, salts>>

-----------------------------------------------------------------------------
(* createVault(), lock(), the erase ceremony, and what goes wrong *)

CreateVault(t, c) ==
  /\ "create" \in UserOps
  /\ Locked(t) /\ record[t] = Nil /\ primary[t] = Nil
  /\ \A d \in Call : call[t][d].pc \notin {"createload", "createsave"}
  /\ At(t, c, "idle")
  /\ Goto(t, c, [pc |-> "createload"])
  /\ UNCHANGED <<disk, v1, tabVars, mail, salts>>

CreateLoad(t, c) ==
  /\ At(t, c, "createload")
  /\ CopyStored(t)
  /\ \/ /\ disk = Nil /\ v1 = Nil /\ Locked(t)
        /\ salts < MaxSalt
        /\ salts' = salts + 1
        /\ \E s \in Seed, n \in Name, b \in BOOLEAN :
             Goto(t, c, [pc |-> "createsave",
                         rec |-> FirstRecord(1, salts + 1, salts + 1, s, NewRow(n, b, FALSE))])
     \/ /\ disk # Nil \/ v1 # Nil \/ ~Locked(t)
        /\ Goto(t, c, Idle)
        /\ UNCHANGED salts
  /\ UNCHANGED <<disk, v1, key, secrets, mail>>

CreateSave(t, c) ==
  LET saved == call[t][c].rec IN
  /\ At(t, c, "createsave")
  /\ StillAt(saved.rev - 1)
  /\ Put(saved)
  /\ record' = [record EXCEPT ![t] = saved]
  /\ key' = [key EXCEPT ![t] = saved.salt]
  /\ secrets' = [secrets EXCEPT ![t] = saved.secrets]
  /\ Goto(t, c, Idle)
  /\ UNCHANGED <<v1, primary, salts>>

\* createVault and migrateV1 let the conflict escape without a refresh.
FirstSaveConflict(t, c) ==
  /\ call[t][c].pc \in {"createsave", "v1save"}
  /\ ~StillAt(call[t][c].rec.rev - 1)
  /\ Goto(t, c, Idle)
  /\ UNCHANGED <<disk, v1, tabVars, mail, salts>>

Lock(t) ==
  /\ "lock" \in UserOps
  /\ ~Locked(t)
  /\ key' = [key EXCEPT ![t] = NoKey]
  /\ secrets' = [secrets EXCEPT ![t] = Nil]
  /\ UNCHANGED <<disk, v1, record, primary, call, mail, salts>>

\* "Erase all wallets on this device", offered on the locked screen only.
DeleteAllRecords(t, c) ==
  /\ "erase" \in UserOps
  /\ Locked(t) /\ (record[t] # Nil \/ primary[t] # Nil)
  /\ At(t, c, "idle")
  /\ disk' = Nil
  /\ v1' = Nil
  /\ Broadcast
  /\ Goto(t, c, [pc |-> "boot"])
  /\ UNCHANGED <<tabVars, salts>>

\* load() on its own: at boot and after an erase.
Load(t, c) ==
  /\ At(t, c, "boot")
  /\ CopyStored(t)
  /\ Goto(t, c, Idle)
  /\ UNCHANGED <<disk, v1, key, secrets, mail, salts>>

\* The page goes away, with whatever was in flight, and boots again.
Restart(t) ==
  /\ "restart" \in Faults
  /\ record' = [record EXCEPT ![t] = Nil]
  /\ primary' = [primary EXCEPT ![t] = Nil]
  /\ key' = [key EXCEPT ![t] = NoKey]
  /\ secrets' = [secrets EXCEPT ![t] = Nil]
  /\ mail' = [mail EXCEPT ![t] = 0]
  /\ \E c \in Call :
       call' = [call EXCEPT ![t] = [d \in Call |-> IF d = c THEN [pc |-> "boot"] ELSE Idle]]
  /\ UNCHANGED <<disk, v1, salts>>

\* A storage request is refused: the call rejects having changed nothing more.
StorageFails(t, c) ==
  /\ "fail" \in Faults
  /\ call[t][c].pc \in {"save", "delete", "reload", "load", "orphan", "v1save",
                        "v1drop", "createload", "createsave"}
  /\ Goto(t, c, Idle)
  /\ UNCHANGED <<disk, v1, tabVars, mail, salts>>

-----------------------------------------------------------------------------
(* The specification *)

\* One wallet, stored and seen by every tab; or what an older version left.
InitialRecord(s, n, sealed) == FirstRecord(1, 1, sealed, s, NewRow(n, FALSE, FALSE))

Init ==
  /\ \E start \in Start, s \in Seed, n \in Name :
       /\ disk = CASE start = "vault" -> InitialRecord(s, n, 1)
                   [] start = "interrupted" -> InitialRecord(s, n, NoKey)
                   [] OTHER -> Nil
       /\ v1 = IF start \in {"v1", "interrupted"} THEN s ELSE Nil
  /\ record = [t \in Tab |-> disk]
  /\ primary = [t \in Tab |-> v1]
  /\ key = [t \in Tab |-> NoKey]
  /\ secrets = [t \in Tab |-> Nil]
  /\ call = [t \in Tab |-> [c \in Call |-> Idle]]
  /\ mail = [t \in Tab |-> 0]
  /\ salts = IF disk = Nil THEN 0 ELSE 1

\* What runs on its own once a call is in flight.
Resume(t, c) ==
  \/ SaveVaultRecord(t, c) \/ DeleteVaultRecord(t, c) \/ Conflict(t, c)
  \/ Refresh(t, c) \/ Refreshed(t, c)
  \/ UnlockLoad(t, c) \/ UnlockOpen(t, c) \/ UnlockFallBack(t, c)
  \/ UnlockFail(t, c) \/ DeleteOrphan(t, c)
  \/ MigrateSeal(t, c) \/ MigrateSave(t, c) \/ MigrateDrop(t, c)
  \/ CreateLoad(t, c) \/ CreateSave(t, c) \/ FirstSaveConflict(t, c)
  \/ Load(t, c)

UserStep(t, c) ==
  Mutate(t, c) \/ Unlock(t, c) \/ CreateVault(t, c) \/ DeleteAllRecords(t, c)

Next ==
  \E t \in Tab :
    \/ \E c \in Call : \/ Resume(t, c)
                       \/ OnVaultChanged(t, c)
                       \/ UserStep(t, c)
                       \/ StorageFails(t, c)
    \/ Lock(t)
    \/ Restart(t)

Spec == Init /\ [][Next]_vars

\* Every await resolves, and a delivered message runs although other calls come
\* and go (it waits for no slot in the code); users and faults are owed nothing.
FairSpec ==
  /\ Spec
  /\ \A t \in Tab, c \in Call : WF_vars(Resume(t, c))
  /\ \A t \in Tab : SF_vars(\E c \in Call : OnVaultChanged(t, c))
=============================================================================
