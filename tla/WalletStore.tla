---------------------------- MODULE WalletStore ----------------------------
(***************************************************************************)
(* What the vault promises its users: one list of wallets shared by every  *)
(* tab, each of which can be opened with the password, changed one whole   *)
(* operation at a time.  No tabs, revisions, keys or copies.               *)
(***************************************************************************)
EXTENDS Naturals

CONSTANTS Seed, Name, Nil

VARIABLES
  wallets,   \* [Seed -> the row of a wallet that is listed and opens, or Nil]
  activeId   \* the wallet an unlock reopens, Nil without a vault

storeVars == <<wallets, activeId>>

Present == {s \in Seed : wallets[s] # Nil}
NoWallets == [s \in Seed |-> Nil]

NameTaken(n, self) == \E s \in Present \ {self} : wallets[s].name = n

\* A change may rename a wallet, and otherwise only moves it forward.
Advances(old, new) ==
  /\ old.backedUp => new.backedUp
  /\ old.derived => new.derived
  /\ old.receiveIndex <= new.receiveIndex

CreateStore(s, row) ==
  /\ Present = {}
  /\ wallets' = [NoWallets EXCEPT ![s] = row]
  /\ activeId' = s

Add(s, row) ==
  /\ Present # {} /\ s \notin Present /\ row # Nil
  /\ ~NameTaken(row.name, s)
  /\ wallets' = [wallets EXCEPT ![s] = row]
  /\ UNCHANGED activeId

Change(s, row) ==
  /\ s \in Present
  /\ row # Nil /\ Advances(wallets[s], row) /\ ~NameTaken(row.name, s)
  /\ wallets' = [wallets EXCEPT ![s] = row]
  /\ UNCHANGED activeId

Remove(s) ==
  /\ s \in Present /\ Present # {s}
  /\ wallets' = [wallets EXCEPT ![s] = Nil]
  /\ activeId' \in IF activeId = s THEN Present \ {s} ELSE {activeId}

Activate(s) ==
  /\ s \in Present
  /\ activeId' = s
  /\ UNCHANGED wallets

Clear ==
  /\ wallets' = NoWallets
  /\ activeId' = Nil

\* The row a step leaves behind stands for the row the user asked for.
StoreNext ==
  \/ \E s \in Seed : \/ CreateStore(s, wallets'[s])
                     \/ Add(s, wallets'[s])
                     \/ Change(s, wallets'[s])
                     \/ Remove(s)
                     \/ Activate(s)
  \/ Clear

StoreInit ==
  \/ wallets = NoWallets /\ activeId = Nil
  \/ \E s \in Seed : Present = {s} /\ activeId = s

StoreSpec == StoreInit /\ [][StoreNext]_storeVars
=============================================================================
