----------------------------- MODULE VaultProps -----------------------------
(* What the vault must keep, stated over the steps and states of Vault. *)
EXTENDS Vault

\* Every stored record, copy, session and call in flight has its type.
TypeOK ==
  /\ disk \in Record \cup {Nil}
  /\ v1 \in Seed \cup {Nil}
  /\ record \in [Tab -> Record \cup {Nil}]
  /\ primary \in [Tab -> Seed \cup {Nil}]
  /\ key \in [Tab -> Nat]
  /\ secrets \in [Tab -> Secrets \cup {Nil}]
  /\ call \in [Tab -> [Call -> CallState]]
  /\ mail \in [Tab -> Nat]
  /\ salts \in Nat

\* The records a tab may write from: its own copy, the ones its mutations in
\* flight were computed from, and the one a migration is about to take over.
Bases(t) ==
  {record[t]}
    \cup {call[t][c].from : c \in {d \in Call : call[t][d].pc \in {"save", "delete"}}}
    \cup {call[t][c].rec : c \in {d \in Call : At(t, d, "v1drop")}}

\* A revision names one record (keystore.js saveVaultRecord, vault.js commit):
\* whatever tabs interleave, a copy whose revision equals the stored one is the
\* stored record itself, so a write that passes the revision check was computed
\* from exactly what it replaces.
RevNamesOneRecord ==
  \A t \in Tab : \A r \in Bases(t) :
    r # Nil => /\ r.rev <= Rev(disk)
               /\ r.rev = Rev(disk) => r = disk

\* The compare-and-set is what keeps a mnemonic another tab has just stored
\* (keystore.js "a blind overwrite could silently drop that tab's new
\* mnemonic"): a write over a vault keeps every mnemonic but the one its own
\* removal names.
KeepsMnemonics ==
  [][ disk # Nil /\ disk' # Nil =>
        \A s \in disk.secrets.mnemonics \ disk'.secrets.mnemonics :
          \E t \in Tab, c \in Call : At(t, c, "save") /\ s \in call[t][c].drop
    ]_disk

\* The clear list and the encrypted mnemonics of the stored vault name the same
\* wallets: nothing listed that cannot be opened, nothing held that was removed.
ListedIsHeld ==
  disk # Nil => /\ Ids(disk) = disk.secrets.mnemonics
                /\ {w \in Ids(disk) : disk.meta.wallets[w].derived} = disk.secrets.sources

\* The key-salt invariant (vault.js createVault): whatever a tab writes is sealed
\* under the key of the salt stored beside it, so the password opens it again.
EveryWriteOpens == [][disk' # Nil => disk'.sealed = disk'.salt]_disk

\* The key-salt invariant (vault.js createVault, refresh): outside the moment in
\* which a refresh tries its key, the key of an unlocked tab is the one its own
\* copy is sealed under, although other tabs erase the vault and make another.
SessionFitsCopy ==
  \A t \in Tab : ~Locked(t) /\ (\A c \in Call : ~At(t, c, "decrypt")) =>
    record[t] # Nil /\ secrets[t] # Nil /\ Opens(record[t], key[t])

\* At rest a tab shows what is stored: with no refresh owed and no call in
\* flight, its copy is the stored record.
QuietTabIsCurrent ==
  \A t \in Tab :
    mail[t] = 0 /\ (\A c \in Call : At(t, c, "idle")) => record[t] = disk

Opening == v1 # Nil \/ (disk # Nil /\ Opens(disk, disk.salt))

\* No wallet is stranded (vault.js migrateV1 "a crash at any step leaves at least
\* one decryptable record"): while a profile holds a record the password opens,
\* nothing short of an erase or the last removal leaves it with none.
SomethingOpens ==
  [][ Opening => \/ Opening'
                 \/ \E t \in Tab, c \in Call : At(t, c, "delete") \/ DeleteAllRecords(t, c)
    ]_<<disk, v1>>

\* Removing the last wallet deletes the vault only if it really is the last
\* (keystore.js deleteVaultRecord "a blind delete could wipe a wallet another tab
\* just added"): the vault that goes is the one the remover saw.
DeletesOnlyWhatItSaw ==
  [][ disk # Nil /\ disk' = Nil =>
        \E t \in Tab, c \in Call : At(t, c, "delete") /\ call[t][c].from = disk
    ]_disk

\* A tab that fell behind catches up: whatever other tabs write, its copy is
\* again and again the stored record.
TabsCatchUp == \A t \in Tab : []<>(record[t] = disk)

=============================================================================
