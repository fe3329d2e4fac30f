-------------------------- MODULE VaultRefinement --------------------------
(* Vault as an implementation of WalletStore. *)
EXTENDS VaultProps

\* A wallet is there when it is listed, its mnemonic is held, and the password
\* opens the record.
Readable(s) ==
  disk # Nil /\ Opens(disk, disk.salt) /\ s \in disk.secrets.mnemonics

storedWallets == [s \in Seed |-> IF Readable(s) THEN disk.meta.wallets[s] ELSE Nil]
storedActiveId == IF \E s \in Seed : Readable(s) THEN disk.meta.activeId ELSE Nil

Promised == INSTANCE WalletStore WITH wallets <- storedWallets, activeId <- storedActiveId

\* Where tabs run one call at a time and hear no broadcasts, the vault implements
\* the list of wallets it promises (vault.js commit, wallet-management-v2.md
\* section 1): every write is one whole operation on what is stored.
ImplementsStore == Promised!StoreSpec
=============================================================================
