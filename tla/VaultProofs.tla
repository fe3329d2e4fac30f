---------------------------- MODULE VaultProofs ----------------------------
(***************************************************************************)
(* Theorems about the vault, for any tabs, calls, seeds and bounds:        *)
(*                                                                         *)
(*   types; a revision names one record; a tab at rest is current; a       *)
(*   session's key fits its copy; something always opens; the vault is the *)
(*   list of wallets it promises.                                          *)
(***************************************************************************)
EXTENDS VaultRefinement, TLAPS

-----------------------------------------------------------------------------
(* Types *)

\* A step of one call leaves the table of calls well typed.
LEMMA GotoType ==
  ASSUME NEW t \in Tab, NEW c \in Call, NEW state \in CallState,
         call \in [Tab -> [Call -> CallState]], Goto(t, c, state)
  PROVE  call' \in [Tab -> [Call -> CallState]]
BY DEF Goto

\* What the states of a call carry.
LEMMA CallTypes ==
  ASSUME NEW t \in Tab, NEW c \in Call, TypeOK
  PROVE  /\ call[t][c] \in CallState
         /\ At(t, c, "save") =>
              /\ call[t][c].from \in Record /\ call[t][c].key \in Nat
              /\ call[t][c].meta \in Meta /\ call[t][c].secrets \in Secrets
              /\ call[t][c].drop \in SUBSET Seed
         /\ At(t, c, "delete") => call[t][c].from \in Record
         /\ At(t, c, "decrypt") => call[t][c].rec \in Record /\ call[t][c].key \in Nat
         /\ call[t][c].pc \in {"kdf", "createsave", "v1save", "v1drop"}
              => call[t][c].rec \in Record
         /\ At(t, c, "v1seal") => call[t][c].seed \in Seed
<1>1. call[t][c] \in CallState
  BY DEF TypeOK
<1>2. QED
  BY <1>1 DEF CallState, At

LEMMA StateTypes ==
  ASSUME TypeOK
  PROVE  /\ \A pc \in {"idle", "load", "boot", "createload", "reload", "orphan"} :
              [pc |-> pc] \in CallState
         /\ \A r \in Record, k \in Nat, m \in Meta, x \in Secrets, d \in SUBSET Seed :
              [pc |-> "save", from |-> r, key |-> k, meta |-> m, secrets |-> x,
               drop |-> d] \in CallState
         /\ \A r \in Record : [pc |-> "delete", from |-> r] \in CallState
         /\ \A r \in Record, k \in Nat : [pc |-> "decrypt", rec |-> r, key |-> k] \in CallState
         /\ \A r \in Record, pc \in {"kdf", "createsave", "v1save", "v1drop"} :
              [pc |-> pc, rec |-> r] \in CallState
         /\ \A s \in Seed : [pc |-> "v1seal", seed |-> s] \in CallState
BY DEF CallState

LEMMA FirstRecordType ==
  ASSUME NEW rev \in Nat, NEW salt \in Nat, NEW sealed \in Nat, NEW s \in Seed,
         NEW row \in Row
  PROVE  FirstRecord(rev, salt, sealed, s, row) \in Record
BY DEF FirstRecord, Record, Meta, Secrets

LEMMA RowType ==
  /\ \A n \in Name, b \in BOOLEAN, d \in BOOLEAN, i \in Nat : MakeRow(n, b, d, i) \in Row
  /\ \A n \in Name, b \in BOOLEAN, d \in BOOLEAN : NewRow(n, b, d) \in Row
  /\ \A r \in Row : BackedUp(r) \in Row /\ Derived(r) \in Row
  /\ \A r \in Row, n \in Name : Renamed(r, n) \in Row
  /\ \A r \in Row, i \in Nat : HandedOut(r, i) \in Row
BY DEF MakeRow, NewRow, Renamed, BackedUp, Derived, HandedOut, Row

\* The mutations start a save of well-typed metadata and secrets.
LEMMA CommitType ==
  ASSUME NEW t \in Tab, NEW c \in Call, NEW m \in Meta, NEW x \in Secrets,
         NEW d \in SUBSET Seed, TypeOK, Mutable(t), Commit(t, c, m, x, d)
  PROVE  TypeOK'
<1>1. record[t] \in Record /\ key[t] \in Nat
  BY DEF TypeOK, Mutable
<1>2. [pc |-> "save", from |-> record[t], key |-> key[t], meta |-> m,
       secrets |-> x, drop |-> d] \in CallState
  BY <1>1, StateTypes
<1>3. call' \in [Tab -> [Call -> CallState]]
  BY <1>2, GotoType DEF Commit, TypeOK
<1>4. QED
  BY <1>3 DEF Commit, TypeOK, tabVars

LEMMA MutateType ==
  ASSUME NEW t \in Tab, NEW c \in Call, TypeOK, Mutate(t, c)
  PROVE  TypeOK'
<1> PICK s \in Seed : 
      \/ \E n \in Name, how \in UserOps : AddWallet(t, c, s, n, how)
      \/ UpgradeSource(t, c, s)
      \/ \E n \in Name : RenameWallet(t, c, s, n)
      \/ RemoveWallet(t, c, s)
      \/ SetActive(t, c, s)
      \/ SetBackedUp(t, c, s)
      \/ \E i \in 1..MaxIndex : SetReceiveIndex(t, c, s, i)
      \/ RemoveLastWallet(t, c, s)
  BY DEF Mutate
<1>0. Mutable(t) => /\ record[t] \in Record /\ secrets[t] \in Secrets
                    /\ record[t].meta \in Meta
                    /\ \A w \in Ids(record[t]) : record[t].meta.wallets[w] \in Row
  BY DEF TypeOK, Mutable, Record, Meta, Ids
<1>r. Mutable(t) => /\ \A row \in Row : WithRow(t, s, row) \in Meta
                    /\ \A heir \in Seed :
                         /\ MakeMeta(heir, [record[t].meta.wallets EXCEPT ![s] = Nil]) \in Meta
                         /\ MakeMeta(heir, record[t].meta.wallets) \in Meta
                    /\ s \in Ids(record[t]) => OldRow(t, s) \in Row
  BY <1>0 DEF Meta, WithRow, MakeMeta, OldRow
<1>1. ASSUME NEW n \in Name, NEW how \in UserOps, AddWallet(t, c, s, n, how)
      PROVE  TypeOK'
  <2>1. NewRow(n, how = "restore", how = "derive") \in Row
    BY RowType
  <2>2. [mnemonics |-> secrets[t].mnemonics \cup {s},
         sources |-> IF how = "derive" THEN secrets[t].sources \cup {s}
                                       ELSE secrets[t].sources] \in Secrets
    BY <1>1, <1>0 DEF AddWallet, Secrets
  <2>3. QED
    BY <1>1, <1>r, <2>1, <2>2, CommitType DEF AddWallet
<1>2. ASSUME UpgradeSource(t, c, s) PROVE TypeOK'
  <2>1. s \in Ids(record[t]) => Derived(OldRow(t, s)) \in Row
    BY <1>r, <1>2, RowType DEF UpgradeSource
  <2>2. [mnemonics |-> secrets[t].mnemonics, sources |-> secrets[t].sources \cup {s}]
          \in Secrets
    BY <1>0, <1>2 DEF UpgradeSource, Secrets
  <2>3. (IF s \in Ids(record[t])
           THEN WithRow(t, s, Derived(OldRow(t, s)))
           ELSE record[t].meta) \in Meta
    BY <1>0, <1>r, <1>2, <2>1 DEF UpgradeSource
  <2>4. QED
    BY <1>2, <2>2, <2>3, CommitType DEF UpgradeSource
<1>3. ASSUME NEW n \in Name, RenameWallet(t, c, s, n) PROVE TypeOK'
  <2>1. Renamed(OldRow(t, s), n) \in Row
    BY <1>r, <1>3, RowType DEF RenameWallet
  <2>2. QED
    BY <1>0, <1>r, <1>3, <2>1, CommitType DEF RenameWallet
<1>4. ASSUME RemoveWallet(t, c, s) PROVE TypeOK'
  <2>1. Heirs(t, s) \subseteq Seed
    BY <1>0, <1>4 DEF RemoveWallet, Heirs, Ids, Meta
  <2>2. Without(t, s) \in Secrets
    BY <1>0, <1>4 DEF RemoveWallet, Without, Secrets
  <2>3. QED
    BY <1>r, <1>4, <2>1, <2>2, CommitType DEF RemoveWallet
<1>5. ASSUME SetActive(t, c, s) PROVE TypeOK'
  BY <1>0, <1>r, <1>5, CommitType DEF SetActive
<1>6. ASSUME SetBackedUp(t, c, s) PROVE TypeOK'
  <2>1. BackedUp(OldRow(t, s)) \in Row
    BY <1>r, <1>6, RowType DEF SetBackedUp
  <2>2. QED
    BY <1>0, <1>r, <1>6, <2>1, CommitType DEF SetBackedUp
<1>7. ASSUME NEW i \in 1..MaxIndex, SetReceiveIndex(t, c, s, i) PROVE TypeOK'
  <2>1. HandedOut(OldRow(t, s), i) \in Row
    BY <1>r, <1>7, RowType DEF SetReceiveIndex
  <2>2. QED
    BY <1>0, <1>r, <1>7, <2>1, CommitType DEF SetReceiveIndex
<1>8. ASSUME RemoveLastWallet(t, c, s) PROVE TypeOK'
  <2>1. call' \in [Tab -> [Call -> CallState]]
    BY <1>0, <1>8, StateTypes, GotoType DEF RemoveLastWallet, TypeOK
  <2>2. QED
    BY <1>8, <2>1 DEF RemoveLastWallet, TypeOK, tabVars
<1>9. QED
  BY <1>1, <1>2, <1>3, <1>4, <1>5, <1>6, <1>7, <1>8

\* A step of a call in flight.
LEMMA ResumeType ==
  ASSUME NEW t \in Tab, NEW c \in Call, TypeOK, Resume(t, c)
  PROVE  TypeOK'
<1> USE DEF tabVars
<1>s. salts \in Nat /\ salts + 1 \in Nat /\ Listeners \in Nat /\ NoKey \in Nat
      /\ mail \in [Tab -> Nat] /\ disk \in Record \cup {Nil}
  BY ConstantsOK DEF TypeOK, NoKey
<1>i. Idle \in CallState
  BY StateTypes DEF Idle
<1>b. Broadcast => mail' \in [Tab -> Nat]
  BY <1>s DEF Broadcast
<1>p. ASSUME NEW r \in Record, Put(r)
      PROVE  disk' \in Record \cup {Nil} /\ mail' \in [Tab -> Nat]
  BY <1>b, <1>p, <1>s DEF Put
<1>n. ASSUME NEW r \in Record
      PROVE  r.rev \in Nat /\ r.salt \in Nat /\ r.sealed \in Nat /\ r.secrets \in Secrets
             /\ r.meta \in Meta
  BY DEF Record
<1>r. \A u \in Tab : Rev(record[u]) \in Nat
  BY <1>n DEF TypeOK, Rev
<1>c. CopyStored(t) => /\ record' \in [Tab -> Record \cup {Nil}]
                       /\ primary' \in [Tab -> Seed \cup {Nil}]
  BY DEF CopyStored, TypeOK
<1>1. ASSUME SaveVaultRecord(t, c) PROVE TypeOK'
  <2> DEFINE me == call[t][c]
             saved == NextRecord(me)
  <2>1. me.from \in Record /\ me.key \in Nat /\ me.meta \in Meta /\ me.secrets \in Secrets
    BY <1>1, CallTypes DEF SaveVaultRecord
  <2>2. saved \in Record
    BY <2>1, <1>n DEF NextRecord, Record
  <2>3. call' \in [Tab -> [Call -> CallState]]
    BY <1>1, <1>i, GotoType DEF SaveVaultRecord, TypeOK
  <2>4. disk' \in Record \cup {Nil} /\ mail' \in [Tab -> Nat]
    BY <1>1, <2>2, <1>p DEF SaveVaultRecord
  <2>5. record' \in [Tab -> Record \cup {Nil}] /\ secrets' \in [Tab -> Secrets \cup {Nil}]
    BY <1>1, <2>1, <2>2 DEF SaveVaultRecord, TypeOK
  <2>6. QED
    BY <1>1, <2>3, <2>4, <2>5 DEF SaveVaultRecord, TypeOK
<1>2. ASSUME DeleteVaultRecord(t, c) PROVE TypeOK'
  BY <1>2, <1>s, <1>i, <1>b, GotoType DEF DeleteVaultRecord, TypeOK
<1>3. ASSUME Conflict(t, c) PROVE TypeOK'
  BY <1>3, StateTypes, GotoType DEF Conflict, TypeOK
<1>4. ASSUME Refresh(t, c) PROVE TypeOK'
  <2>1. disk # Nil => [pc |-> "decrypt", rec |-> disk, key |-> key[t]] \in CallState
    BY <1>s, StateTypes DEF TypeOK
  <2>2. call' \in [Tab -> [Call -> CallState]]
    BY <1>4, <2>1, <1>i, GotoType DEF Refresh, TypeOK
  <2>3. key' \in [Tab -> Nat] /\ secrets' \in [Tab -> Secrets \cup {Nil}]
    BY <1>4, <1>s DEF Refresh, TypeOK
  <2>4. QED
    BY <1>4, <2>2, <2>3, <1>c DEF Refresh, TypeOK
<1>5. ASSUME Refreshed(t, c) PROVE TypeOK'
  <2>1. call[t][c].rec.secrets \in Secrets
    BY <1>5, <1>n, CallTypes DEF Refreshed
  <2>2. call' \in [Tab -> [Call -> CallState]]
    BY <1>5, <1>i, GotoType DEF Refreshed, TypeOK
  <2>3. key' \in [Tab -> Nat] /\ secrets' \in [Tab -> Secrets \cup {Nil}]
    BY <1>5, <1>s, <2>1 DEF Refreshed, TypeOK
  <2>4. QED
    BY <1>5, <2>2, <2>3 DEF Refreshed, TypeOK
<1>6. ASSUME UnlockLoad(t, c) PROVE TypeOK'
  <2>1. /\ disk # Nil => [pc |-> "kdf", rec |-> disk] \in CallState
        /\ v1 # Nil => [pc |-> "v1seal", seed |-> v1] \in CallState
    BY <1>s, StateTypes DEF TypeOK
  <2>2. call' \in [Tab -> [Call -> CallState]]
    BY <1>6, <2>1, <1>i, GotoType DEF UnlockLoad, TypeOK
  <2>3. QED
    BY <1>6, <2>2, <1>c DEF UnlockLoad, TypeOK
<1>7. ASSUME UnlockOpen(t, c) PROVE TypeOK'
  <2>1. call[t][c].rec.secrets \in Secrets /\ call[t][c].rec.salt \in Nat
    BY <1>7, <1>n, CallTypes DEF UnlockOpen, At
  <2>2. call' \in [Tab -> [Call -> CallState]]
    BY <1>7, <1>i, StateTypes, GotoType DEF UnlockOpen, TypeOK
  <2>3. QED
    BY <1>7, <2>1, <2>2 DEF UnlockOpen, TypeOK
<1>8. ASSUME UnlockFallBack(t, c) PROVE TypeOK'
  <2>1. [pc |-> "v1seal", seed |-> primary[t]] \in CallState
    BY <1>8, StateTypes DEF UnlockFallBack, TypeOK
  <2>2. QED
    BY <1>8, <2>1, GotoType DEF UnlockFallBack, TypeOK
<1>9. ASSUME UnlockFail(t, c) \/ FirstSaveConflict(t, c) PROVE TypeOK'
  BY <1>9, <1>i, GotoType DEF UnlockFail, FirstSaveConflict, TypeOK
<1>10. ASSUME DeleteOrphan(t, c) PROVE TypeOK'
  BY <1>10, <1>i, GotoType DEF DeleteOrphan, TypeOK
<1>11. ASSUME MigrateSeal(t, c) PROVE TypeOK'
  <2>1. PICK n \in Name :
          Goto(t, c, [pc |-> "v1save",
                      rec |-> FirstRecord(Rev(record[t]) + 1, salts + 1, salts + 1,
                                          call[t][c].seed, NewRow(n, FALSE, FALSE))])
    BY <1>11 DEF MigrateSeal
  <2>2. FirstRecord(Rev(record[t]) + 1, salts + 1, salts + 1,
                    call[t][c].seed, NewRow(n, FALSE, FALSE)) \in Record
    <3>1. call[t][c].seed \in Seed
      BY <1>11, CallTypes DEF MigrateSeal
    <3>2. NewRow(n, FALSE, FALSE) \in Row
      BY RowType
    <3>3. Rev(record[t]) + 1 \in Nat
      BY <1>r
    <3>4. QED
      BY <3>1, <3>2, <3>3, <1>s, FirstRecordType
  <2>3. call' \in [Tab -> [Call -> CallState]]
    BY <2>1, <2>2, StateTypes, GotoType DEF TypeOK
  <2>4. QED
    BY <1>11, <1>s, <2>3 DEF MigrateSeal, TypeOK
<1>12. ASSUME MigrateSave(t, c) PROVE TypeOK'
  <2>1. call[t][c].rec \in Record
    BY <1>12, CallTypes DEF MigrateSave, At
  <2>2. call' \in [Tab -> [Call -> CallState]]
    BY <1>12, <2>1, StateTypes, GotoType DEF MigrateSave, TypeOK
  <2>3. QED
    BY <1>12, <2>1, <2>2, <1>p DEF MigrateSave, TypeOK
<1>13. ASSUME MigrateDrop(t, c) PROVE TypeOK'
  <2>1. call[t][c].rec \in Record
    BY <1>13, CallTypes DEF MigrateDrop, At
  <2>2. call' \in [Tab -> [Call -> CallState]]
    BY <1>13, <1>i, GotoType DEF MigrateDrop, TypeOK
  <2>3. QED
    BY <1>13, <2>1, <2>2, <1>n DEF MigrateDrop, TypeOK
<1>14. ASSUME CreateLoad(t, c) PROVE TypeOK'
  <2>1. \A s \in Seed, n \in Name, b \in BOOLEAN :
          [pc |-> "createsave",
           rec |-> FirstRecord(1, salts + 1, salts + 1, s, NewRow(n, b, FALSE))] \in CallState
    BY <1>s, RowType, FirstRecordType, StateTypes
  <2>2. call' \in [Tab -> [Call -> CallState]]
    BY <1>14, <2>1, <1>i, GotoType DEF CreateLoad, TypeOK
  <2>3. QED
    BY <1>14, <1>s, <1>c, <2>2 DEF CreateLoad, TypeOK
<1>15. ASSUME CreateSave(t, c) PROVE TypeOK'
  <2>1. call[t][c].rec \in Record
    BY <1>15, CallTypes DEF CreateSave, At
  <2>2. call' \in [Tab -> [Call -> CallState]]
    BY <1>15, <1>i, GotoType DEF CreateSave, TypeOK
  <2>3. QED
    BY <1>15, <2>1, <2>2, <1>n, <1>p DEF CreateSave, TypeOK
<1>16. ASSUME Load(t, c) PROVE TypeOK'
  BY <1>16, <1>i, <1>c, GotoType DEF Load, TypeOK
<1>17. QED
  BY <1>1, <1>2, <1>3, <1>4, <1>5, <1>6, <1>7, <1>8, <1>9, <1>10, <1>11, <1>12,
     <1>13, <1>14, <1>15, <1>16 DEF Resume

\* What starts a call or makes it fail.
LEMMA OtherType ==
  ASSUME NEW t \in Tab, NEW c \in Call, TypeOK,
         \/ OnVaultChanged(t, c) \/ Unlock(t, c) \/ CreateVault(t, c)
         \/ DeleteAllRecords(t, c) \/ StorageFails(t, c)
  PROVE  TypeOK'
<1> USE DEF tabVars
<1>s. Listeners \in Nat /\ NoKey \in Nat
  BY ConstantsOK DEF NoKey
<1>i. Idle \in CallState /\ [pc |-> "boot"] \in CallState
  BY StateTypes DEF Idle
<1>1. ASSUME OnVaultChanged(t, c) PROVE TypeOK'
  <2>1. mail' \in [Tab -> Nat]
    BY <1>1 DEF OnVaultChanged, TypeOK
  <2>2. QED
    BY <1>1, <2>1, StateTypes, GotoType DEF OnVaultChanged, TypeOK
<1>2. ASSUME Unlock(t, c) \/ CreateVault(t, c) \/ StorageFails(t, c) PROVE TypeOK'
  BY <1>2, <1>i, StateTypes, GotoType DEF Unlock, CreateVault, StorageFails, TypeOK
<1>3. ASSUME DeleteAllRecords(t, c) PROVE TypeOK'
  <2>1. mail' \in [Tab -> Nat]
    BY <1>3, <1>s DEF DeleteAllRecords, Broadcast, TypeOK
  <2>2. QED
    BY <1>3, <2>1, <1>i, GotoType DEF DeleteAllRecords, TypeOK
<1>4. QED
  BY <1>1, <1>2, <1>3

\* What ends a session.
LEMMA SessionType ==
  ASSUME NEW t \in Tab, TypeOK, Lock(t) \/ Restart(t)
  PROVE  TypeOK'
<1> USE DEF tabVars, NoKey
<1>1. CASE Lock(t)
  BY <1>1 DEF Lock, TypeOK
<1>2. CASE Restart(t)
  <2>1. Idle \in CallState /\ [pc |-> "boot"] \in CallState
    BY StateTypes DEF Idle
  <2>2. call' \in [Tab -> [Call -> CallState]]
    BY <1>2, <2>1 DEF Restart, TypeOK
  <2>3. QED
    BY <1>2, <2>2 DEF Restart, TypeOK
<1>3. QED
  BY <1>1, <1>2

LEMMA InitType == Init => TypeOK
<1> SUFFICES ASSUME Init PROVE TypeOK
  OBVIOUS
<1>1. PICK start \in Start, s \in Seed, n \in Name :
        /\ disk = CASE start = "vault" -> InitialRecord(s, n, 1)
                    [] start = "interrupted" -> InitialRecord(s, n, NoKey)
                    [] OTHER -> Nil
        /\ v1 = IF start \in {"v1", "interrupted"} THEN s ELSE Nil
  BY DEF Init
<1>2. InitialRecord(s, n, 1) \in Record /\ InitialRecord(s, n, NoKey) \in Record
  BY RowType, FirstRecordType DEF InitialRecord, NoKey
<1>3. disk \in Record \cup {Nil} /\ v1 \in Seed \cup {Nil}
  BY <1>1, <1>2
<1>4. Idle \in CallState
  BY DEF Idle, CallState
<1>5. QED
  BY <1>3, <1>4 DEF Init, TypeOK, NoKey

\* Whatever the tabs interleave, every stored record, copy and session keeps its
\* type.
THEOREM TypeCorrect == Spec => []TypeOK
<1>1. TypeOK /\ [Next]_vars => TypeOK'
  <2> SUFFICES ASSUME TypeOK, [Next]_vars PROVE TypeOK'
    OBVIOUS
  <2>1. CASE UNCHANGED vars
    BY <2>1 DEF vars, tabVars, TypeOK
  <2>2. CASE Next
    <3>1. PICK t \in Tab :
            \/ \E c \in Call : \/ Resume(t, c)
                               \/ OnVaultChanged(t, c)
                               \/ UserStep(t, c)
                               \/ StorageFails(t, c)
            \/ Lock(t) \/ Restart(t)
      BY <2>2 DEF Next
    <3>2. ASSUME NEW c \in Call, Resume(t, c) PROVE TypeOK'
      BY <3>2, ResumeType
    <3>3. ASSUME NEW c \in Call, UserStep(t, c) \/ OnVaultChanged(t, c) \/ StorageFails(t, c)
          PROVE  TypeOK'
      BY <3>3, MutateType, OtherType DEF UserStep
    <3>4. QED
      BY <3>1, <3>2, <3>3, SessionType
  <2>3. QED
    BY <2>1, <2>2
<1>2. QED
  BY <1>1, InitType, PTL DEF Spec

-----------------------------------------------------------------------------
(* A revision names one record *)

\* Revisions only grow while nothing deletes the vault and a write that was
\* reported is kept.
RevisionsOnlyGrow ==
  "abort" \notin Faults /\ "removeLast" \notin UserOps /\ "erase" \notin UserOps

\* A record r against what is stored, d.
Behind(r, d) ==
  r # Nil => /\ r.rev <= Rev(d)
             /\ r.rev = Rev(d) => r = d

RevInv ==
  \A t \in Tab :
    /\ Behind(record[t], disk)
    /\ \A c \in Call : /\ ~At(t, c, "delete")
                       /\ At(t, c, "save") => Behind(call[t][c].from, disk)
                       /\ At(t, c, "v1drop") => Behind(call[t][c].rec, disk)

LEMMA RevInvImplies == RevInv => RevNamesOneRecord
BY DEF RevInv, RevNamesOneRecord, Bases, Behind, At

\* A write at the next revision leaves every older record behind.
LEMMA NextRevision ==
  ASSUME NEW r \in Record, NEW d \in Record, NEW e \in Record \cup {Nil},
         Behind(r, e), Rev(e) + 1 = d.rev
  PROVE  Behind(r, d)
<1>1. r # Nil /\ d # Nil
  BY NilIsNothing
<1>2. Rev(e) \in Nat /\ r.rev \in Nat /\ d.rev \in Nat
  BY DEF Rev, Record
<1>3. QED
  BY <1>1, <1>2 DEF Behind, Rev

LEMMA BehindItself ==
  Behind(Nil, disk) /\ \A d \in Record \cup {Nil} : Behind(d, d)
BY DEF Behind, Rev, Record

\* Where each call is after a step of one of them.
LEMMA GotoAt ==
  ASSUME NEW t \in Tab, NEW c \in Call, NEW state, TypeOK, Goto(t, c, state)
  PROVE  \A u \in Tab, d \in Call :
           call'[u][d] = IF u = t /\ d = c THEN state ELSE call[u][d]
BY DEF Goto, TypeOK

\* Steps that write no record and at most copy the stored one.
LEMMA ReadOnlyRev ==
  ASSUME NEW t \in Tab, NEW c \in Call, NEW state, TypeOK, RevInv,
         Goto(t, c, state), state.pc \notin {"delete", "v1drop"},
         state.pc = "save" => state.from = record[t],
         disk' = disk, \A u \in Tab : record'[u] \in {record[u], disk, Nil}
  PROVE  RevInv'
<1>1. \A u \in Tab : Behind(record'[u], disk')
  BY BehindItself DEF RevInv, TypeOK
<1>2. \A u \in Tab, d \in Call :
        /\ call'[u][d].pc # "delete"
        /\ call'[u][d].pc = "save" => Behind(call'[u][d].from, disk')
        /\ call'[u][d].pc = "v1drop" => Behind(call'[u][d].rec, disk')
  BY GotoAt DEF RevInv, At
<1>3. QED
  BY <1>1, <1>2 DEF RevInv, At

\* Steps that store a record one revision up.
LEMMA WriteRev ==
  ASSUME NEW t \in Tab, NEW c \in Call, NEW state, NEW r \in Record, TypeOK, RevInv,
         Goto(t, c, state), state.pc \notin {"save", "delete"},
         state.pc = "v1drop" => state.rec = r,
         disk' = r, Rev(disk) + 1 = r.rev,
         \A u \in Tab : record'[u] \in {record[u], r}
  PROVE  RevInv'
<1>1. disk \in Record \cup {Nil} /\ Behind(r, r)
  BY BehindItself DEF TypeOK
<1>2. \A x \in Record \cup {Nil} : Behind(x, disk) => Behind(x, disk')
  <2> SUFFICES ASSUME NEW x \in Record, Behind(x, disk) PROVE Behind(x, r)
    BY BehindItself DEF Behind
  <2>1. QED
    BY <1>1, NextRevision
<1>3. \A u \in Tab : Behind(record'[u], disk')
  BY <1>1, <1>2 DEF RevInv, TypeOK
<1>4. ASSUME NEW u \in Tab, NEW d \in Call
      PROVE  /\ call'[u][d].pc # "delete"
             /\ call'[u][d].pc = "save" => Behind(call'[u][d].from, disk')
             /\ call'[u][d].pc = "v1drop" => Behind(call'[u][d].rec, disk')
  <2>1. CASE u = t /\ d = c
    BY <2>1, <1>1, GotoAt
  <2>2. CASE ~(u = t /\ d = c)
    <3>1. call'[u][d] = call[u][d]
      BY <2>2, GotoAt
    <3>2. /\ call[u][d].pc = "save" => call[u][d].from \in Record
          /\ call[u][d].pc = "v1drop" => call[u][d].rec \in Record
      BY CallTypes DEF At
    <3>3. QED
      BY <3>1, <3>2, <1>2 DEF RevInv, At
  <2>3. QED
    BY <2>1, <2>2
<1>5. QED
  BY <1>3, <1>4 DEF RevInv, At

\* A mutation starts from the tab's own copy.
LEMMA MutateRev ==
  ASSUME NEW t \in Tab, NEW c \in Call, RevisionsOnlyGrow, TypeOK, RevInv, Mutate(t, c)
  PROVE  RevInv'
<1>1. ASSUME NEW m, NEW x, NEW d, Commit(t, c, m, x, d) PROVE RevInv'
  BY <1>1, ReadOnlyRev DEF Commit, tabVars
<1>2. PICK s \in Seed :
      \/ \E n \in Name, how \in UserOps : AddWallet(t, c, s, n, how)
      \/ UpgradeSource(t, c, s)
      \/ \E n \in Name : RenameWallet(t, c, s, n)
      \/ RemoveWallet(t, c, s)
      \/ SetActive(t, c, s)
      \/ SetBackedUp(t, c, s)
      \/ \E i \in 1..MaxIndex : SetReceiveIndex(t, c, s, i)
      \/ RemoveLastWallet(t, c, s)
  BY DEF Mutate
<1>3. ASSUME NEW n \in Name, NEW how \in UserOps, AddWallet(t, c, s, n, how) PROVE RevInv'
  BY <1>3, <1>1 DEF AddWallet
<1>4. ASSUME NEW n \in Name, RenameWallet(t, c, s, n) PROVE RevInv'
  BY <1>4, <1>1 DEF RenameWallet
<1>5. ASSUME RemoveWallet(t, c, s) PROVE RevInv'
  BY <1>5, <1>1 DEF RemoveWallet
<1>6. ASSUME NEW i \in 1..MaxIndex, SetReceiveIndex(t, c, s, i) PROVE RevInv'
  BY <1>6, <1>1 DEF SetReceiveIndex
<1>7. ASSUME UpgradeSource(t, c, s) \/ SetActive(t, c, s) \/ SetBackedUp(t, c, s)
      PROVE  RevInv'
  BY <1>7, <1>1 DEF UpgradeSource, SetActive, SetBackedUp
<1>8. ~RemoveLastWallet(t, c, s)
  BY DEF RemoveLastWallet, RevisionsOnlyGrow
<1>9. QED
  BY <1>2, <1>3, <1>4, <1>5, <1>6, <1>7, <1>8

LEMMA ResumeRev ==
  ASSUME NEW t \in Tab, NEW c \in Call, RevisionsOnlyGrow, TypeOK, RevInv, Resume(t, c)
  PROVE  RevInv'
<1> USE DEF tabVars
<1>k. CopyStored(t) => \A u \in Tab : record'[u] \in {record[u], disk}
  BY DEF CopyStored, TypeOK
<1>p. \A r : Put(r) => disk' = r
  BY DEF Put, RevisionsOnlyGrow
<1>w. ASSUME NEW r \in Record, record' = [record EXCEPT ![t] = r]
      PROVE  \A u \in Tab : record'[u] \in {record[u], r}
  BY <1>w DEF TypeOK
<1>1. ASSUME SaveVaultRecord(t, c) PROVE RevInv'
  <2> DEFINE me == call[t][c]
             saved == NextRecord(me)
  <2>1. me.from \in Record /\ me.key \in Nat /\ me.meta \in Meta /\ me.secrets \in Secrets
    BY <1>1, CallTypes DEF SaveVaultRecord
  <2>2. saved \in Record
    BY <2>1 DEF NextRecord, Record
  <2>3. disk' = saved /\ record' = [record EXCEPT ![t] = saved] /\ Goto(t, c, Idle)
    BY <1>1, <1>p DEF SaveVaultRecord
  <2>4. Rev(disk) + 1 = saved.rev
    BY <1>1, <2>1 DEF SaveVaultRecord, NextRecord, StillAt
  <2> HIDE DEF saved
  <2>5. QED
    BY <2>2, <2>3, <2>4, <1>w, WriteRev DEF Idle
<1>2. ~DeleteVaultRecord(t, c)
  BY DEF DeleteVaultRecord, RevInv
<1>3. ASSUME Conflict(t, c) PROVE RevInv'
  BY <1>3, ReadOnlyRev DEF Conflict
<1>4. ASSUME Refresh(t, c) PROVE RevInv'
  <2>1. \E state : Goto(t, c, state) /\ state.pc \in {"idle", "decrypt"}
    BY <1>4 DEF Refresh, Idle
  <2>2. QED
    BY <1>4, <1>k, <2>1, ReadOnlyRev DEF Refresh
<1>5. ASSUME Refreshed(t, c) \/ UnlockFail(t, c) \/ FirstSaveConflict(t, c) \/ DeleteOrphan(t, c)
      PROVE  RevInv'
  BY <1>5, ReadOnlyRev DEF Refreshed, UnlockFail, FirstSaveConflict, DeleteOrphan, Idle
<1>6. ASSUME UnlockLoad(t, c) PROVE RevInv'
  <2>1. \E state : Goto(t, c, state) /\ state.pc \in {"idle", "kdf", "v1seal"}
    BY <1>6 DEF UnlockLoad, Idle
  <2>2. QED
    BY <1>6, <1>k, <2>1, ReadOnlyRev DEF UnlockLoad
<1>7. ASSUME UnlockOpen(t, c) PROVE RevInv'
  <2>1. \E state : Goto(t, c, state) /\ state.pc \in {"idle", "orphan"}
    BY <1>7 DEF UnlockOpen, Idle
  <2>2. QED
    BY <1>7, <2>1, ReadOnlyRev DEF UnlockOpen
<1>8. ASSUME UnlockFallBack(t, c) PROVE RevInv'
  BY <1>8, ReadOnlyRev DEF UnlockFallBack
<1>9. ASSUME MigrateSeal(t, c) PROVE RevInv'
  <2>1. \E state : Goto(t, c, state) /\ state.pc = "v1save"
    BY <1>9 DEF MigrateSeal
  <2>2. QED
    BY <1>9, <2>1, ReadOnlyRev DEF MigrateSeal
<1>10. ASSUME MigrateSave(t, c) PROVE RevInv'
  <2>1. call[t][c].rec \in Record
    BY <1>10, CallTypes DEF MigrateSave, At
  <2>2. /\ disk' = call[t][c].rec /\ record' = record
        /\ Goto(t, c, [pc |-> "v1drop", rec |-> call[t][c].rec])
    BY <1>10, <1>p DEF MigrateSave
  <2>3. Rev(disk) + 1 = call[t][c].rec.rev
    BY <1>10, <2>1 DEF MigrateSave, StillAt, Record
  <2>4. QED
    BY <2>1, <2>2, <2>3, WriteRev
<1>11. ASSUME MigrateDrop(t, c) PROVE RevInv'
  <2> DEFINE saved == call[t][c].rec
  <2>1. saved \in Record /\ Behind(saved, disk)
    BY <1>11, CallTypes DEF MigrateDrop, At, RevInv
  <2>2. \A u \in Tab : Behind(record'[u], disk')
    BY <1>11, <2>1 DEF MigrateDrop, RevInv, TypeOK
  <2>3. \A u \in Tab, d \in Call :
        /\ call'[u][d].pc # "delete"
        /\ call'[u][d].pc = "save" => Behind(call'[u][d].from, disk')
        /\ call'[u][d].pc = "v1drop" => Behind(call'[u][d].rec, disk')
    BY <1>11, GotoAt DEF MigrateDrop, RevInv, At, Idle
  <2>4. QED
    BY <2>2, <2>3 DEF RevInv, At
<1>12. ASSUME CreateLoad(t, c) PROVE RevInv'
  <2>1. \E state : Goto(t, c, state) /\ state.pc \in {"idle", "createsave"}
    <3>1. CASE Goto(t, c, Idle)
      BY <3>1 DEF Idle
    <3>2. CASE ~Goto(t, c, Idle)
      <4>1. PICK s \in Seed, n \in Name, b \in BOOLEAN :
              Goto(t, c, [pc |-> "createsave",
                          rec |-> FirstRecord(1, salts + 1, salts + 1, s, NewRow(n, b, FALSE))])
        BY <1>12, <3>2 DEF CreateLoad
      <4>2. QED
        BY <4>1
    <3>3. QED
      BY <3>1, <3>2
  <2>2. PICK state : Goto(t, c, state) /\ state.pc \in {"idle", "createsave"}
    BY <2>1
  <2>3. \A u \in Tab : record'[u] \in {record[u], disk, Nil}
    BY <1>12, <1>k DEF CreateLoad
  <2>4. QED
    BY <1>12, <2>2, <2>3, ReadOnlyRev DEF CreateLoad
<1>13. ASSUME CreateSave(t, c) PROVE RevInv'
  <2>1. call[t][c].rec \in Record
    BY <1>13, CallTypes DEF CreateSave, At
  <2>2. Rev(disk) + 1 = call[t][c].rec.rev
    BY <1>13, <2>1 DEF CreateSave, StillAt, Record
  <2>3. QED
    BY <1>13, <2>1, <2>2, <1>p, <1>w, WriteRev DEF CreateSave, Idle
<1>14. ASSUME Load(t, c) PROVE RevInv'
  BY <1>14, <1>k, ReadOnlyRev DEF Load, Idle
<1>15. QED
  BY <1>1, <1>2, <1>3, <1>4, <1>5, <1>6, <1>7, <1>8, <1>9, <1>10, <1>11, <1>12,
     <1>13, <1>14 DEF Resume

LEMMA OtherRev ==
  ASSUME NEW t \in Tab, NEW c \in Call, RevisionsOnlyGrow, TypeOK, RevInv,
         \/ OnVaultChanged(t, c) \/ Unlock(t, c) \/ CreateVault(t, c)
         \/ DeleteAllRecords(t, c) \/ StorageFails(t, c)
  PROVE  RevInv'
<1> USE DEF tabVars
<1>1. ~DeleteAllRecords(t, c)
  BY DEF DeleteAllRecords, RevisionsOnlyGrow
<1>2. ASSUME OnVaultChanged(t, c) PROVE RevInv'
  BY <1>2, ReadOnlyRev DEF OnVaultChanged
<1>3. ASSUME Unlock(t, c) PROVE RevInv'
  BY <1>3, ReadOnlyRev DEF Unlock
<1>4. ASSUME CreateVault(t, c) PROVE RevInv'
  <2>1. Goto(t, c, [pc |-> "createload"]) /\ disk' = disk /\ record' = record
    BY <1>4 DEF CreateVault
  <2>2. QED
    BY <2>1, ReadOnlyRev
<1>5. ASSUME StorageFails(t, c) PROVE RevInv'
  BY <1>5, ReadOnlyRev DEF StorageFails, Idle
<1>6. QED
  BY <1>1, <1>2, <1>3, <1>4, <1>5

LEMMA SessionRev ==
  ASSUME NEW t \in Tab, TypeOK, RevInv, Lock(t) \/ Restart(t)
  PROVE  RevInv'
<1>1. CASE Lock(t)
  BY <1>1 DEF Lock, RevInv, At
<1>2. CASE Restart(t)
  <2>1. \A u \in Tab : Behind(record'[u], disk')
    BY <1>2, BehindItself DEF Restart, RevInv, TypeOK
  <2>2. \A u \in Tab, d \in Call :
          call'[u][d] = call[u][d] \/ call'[u][d].pc \in {"boot", "idle"}
    BY <1>2 DEF Restart, TypeOK, Idle
  <2>3. QED
    BY <1>2, <2>1, <2>2 DEF Restart, RevInv, At
<1>3. QED
  BY <1>1, <1>2

\* With no vault deleted and no reported write lost, a revision names one record:
\* whatever passes saveVaultRecord's check was computed from what it replaces.
THEOREM RevisionsAreSound ==
  ASSUME RevisionsOnlyGrow
  PROVE  Spec => []RevNamesOneRecord
<1>1. Init => RevInv
  <2> SUFFICES ASSUME Init PROVE RevInv
    OBVIOUS
  <2>1. disk \in Record \cup {Nil} /\ \A t \in Tab : record[t] = disk
    BY InitType DEF Init, TypeOK
  <2>2. \A t \in Tab, c \in Call : call[t][c].pc = "idle"
    BY DEF Init, Idle
  <2>3. QED
    BY <2>1, <2>2, BehindItself DEF RevInv, At
<1>2. TypeOK /\ RevInv /\ [Next]_vars => RevInv'
  <2> SUFFICES ASSUME TypeOK, RevInv, [Next]_vars PROVE RevInv'
    OBVIOUS
  <2>1. CASE UNCHANGED vars
    BY <2>1 DEF vars, tabVars, RevInv, At
  <2>2. CASE Next
    <3>1. PICK t \in Tab :
            \/ \E c \in Call : \/ Resume(t, c)
                               \/ OnVaultChanged(t, c)
                               \/ UserStep(t, c)
                               \/ StorageFails(t, c)
            \/ Lock(t) \/ Restart(t)
      BY <2>2 DEF Next
    <3>2. ASSUME NEW c \in Call, Resume(t, c) PROVE RevInv'
      BY <3>2, ResumeRev
    <3>3. ASSUME NEW c \in Call, UserStep(t, c) \/ OnVaultChanged(t, c) \/ StorageFails(t, c)
          PROVE  RevInv'
      BY <3>3, MutateRev, OtherRev DEF UserStep
    <3>4. QED
      BY <3>1, <3>2, <3>3, SessionRev
  <2>3. QED
    BY <2>1, <2>2
<1>3. QED
  BY <1>1, <1>2, RevInvImplies, TypeCorrect, PTL DEF Spec

-----------------------------------------------------------------------------
(* A tab at rest shows what is stored *)

\* No call of a tab runs beside another of its calls.
NoOverlap == \A c, d \in Call : c = d

\* No profile of an older version, so nothing migrates.
NoLegacy == Start \subseteq {"empty", "vault"}

Migrating == {"v1seal", "v1save", "v1drop"}

\* Every broadcast is heard, no storage request is refused, and no refresh falls into
\* the tail of a migration.
Heard == Listeners > 0 /\ "fail" \notin Faults /\ (NoOverlap \/ NoLegacy)

\* A call that copies the stored record before it ends, or writes one.
Reloading == {"reload", "boot", "save", "delete"}
Owed(t) == mail[t] > 0 \/ \E c \in Call : call[t][c].pc \in Reloading

QuietInv ==
  /\ \A t \in Tab : record[t] = disk \/ Owed(t)
  /\ \A t \in Tab, c \in Call : At(t, c, "v1drop") => mail[t] > 0
  /\ NoLegacy => /\ v1 = Nil
                 /\ \A t \in Tab : primary[t] = Nil
                 /\ \A t \in Tab, c \in Call : call[t][c].pc \notin Migrating

LEMMA QuietImplies == QuietInv => QuietTabIsCurrent
BY DEF QuietInv, QuietTabIsCurrent, Owed, At, Reloading

\* A broadcast owes every tab a refresh.
LEMMA BroadcastOwes ==
  ASSUME Heard, TypeOK, Broadcast
  PROVE  \A u \in Tab : mail'[u] > 0
<1>1. \A u \in Tab : mail[u] \in Nat
  BY DEF TypeOK
<1>2. QED
  BY <1>1, ConstantsOK DEF Broadcast, Heard

\* A step of one call, under which every tab stays current or keeps its refresh.
LEMMA OneCallQuiet ==
  ASSUME Heard, TypeOK, QuietInv, NEW t \in Tab, NEW c \in Call, NEW state,
         Goto(t, c, state), v1' \in {v1, Nil},
         \A u \in Tab : primary'[u] \in {primary[u], v1, Nil},
         state.pc \in Migrating =>
           primary[t] # Nil \/ v1 # Nil \/ call[t][c].pc \in Migrating,
         \A u \in Tab \ {t} :
           \/ mail'[u] > 0
           \/ mail'[u] = mail[u] /\ record'[u] = record[u] /\ disk' = disk,
         \/ mail'[t] > 0
         \/ /\ state.pc # "v1drop"
            /\ mail'[t] = mail[t] \/ At(t, c, "idle")
            /\ \/ record'[t] = disk' \/ state.pc \in Reloading
               \/ /\ record'[t] = record[t] /\ disk' = disk /\ mail'[t] = mail[t]
                  /\ call[t][c].pc \notin Reloading
  PROVE  QuietInv'
<1>1. \A u \in Tab, d \in Call :
        call'[u][d] = IF u = t /\ d = c THEN state ELSE call[u][d]
  BY GotoAt
<1>2. ASSUME NEW u \in Tab PROVE record'[u] = disk' \/ Owed(u)'
  <2>1. CASE mail'[u] > 0
    BY <2>1 DEF Owed
  <2>2. CASE u # t /\ mail'[u] = mail[u] /\ record'[u] = record[u] /\ disk' = disk
    <3>1. \A d \in Call : call'[u][d] = call[u][d]
      BY <1>1, <2>2
    <3>2. QED
      BY <2>2, <3>1 DEF QuietInv, Owed
  <2>3. CASE u = t /\ state.pc \in Reloading
    BY <1>1, <2>3 DEF Owed
  <2>4. CASE /\ u = t /\ record'[t] = record[t] /\ disk' = disk /\ mail'[t] = mail[t]
             /\ call[t][c].pc \notin Reloading
    <3>1. \A d \in Call : call[t][d].pc \in Reloading => call'[t][d] = call[t][d]
      BY <1>1, <2>4
    <3>2. QED
      BY <2>4, <3>1 DEF QuietInv, Owed
  <2>5. QED
    BY <2>1, <2>2, <2>3, <2>4
<1>3. ASSUME NEW u \in Tab, NEW d \in Call, At(u, d, "v1drop")' PROVE mail'[u] > 0
  <2>1. CASE u = t /\ ~(mail'[t] > 0)
    <3>1. d # c /\ At(t, d, "v1drop")
      BY <1>1, <1>3, <2>1 DEF At
    <3>2. mail[t] > 0 /\ ~NoOverlap /\ ~NoLegacy
      BY <3>1 DEF QuietInv, NoOverlap, At, Migrating
    <3>3. QED
      BY <3>2 DEF Heard
  <2>2. CASE u # t /\ mail'[u] = mail[u]
    BY <1>1, <1>3, <2>2 DEF QuietInv, At
  <2>3. QED
    BY <2>1, <2>2
<1>4. ASSUME NoLegacy
      PROVE  /\ v1' = Nil /\ \A u \in Tab : primary'[u] = Nil
             /\ \A u \in Tab, d \in Call : call'[u][d].pc \notin Migrating
  BY <1>1, <1>4 DEF QuietInv
<1>5. QED
  BY <1>2, <1>3, <1>4 DEF QuietInv

\* A step that reads and writes nothing: no copy, no record, no broadcast.
LEMMA StillQuiet ==
  ASSUME Heard, TypeOK, QuietInv, NEW t \in Tab, NEW c \in Call, NEW state,
         Goto(t, c, state), state.pc # "v1drop",
         state.pc \in Migrating => primary[t] # Nil \/ call[t][c].pc \in Migrating,
         call[t][c].pc \in Reloading => state.pc \in Reloading,
         UNCHANGED <<disk, v1, record, primary, mail>>
  PROVE  QuietInv'
BY OneCallQuiet DEF At

LEMMA MutateQuiet ==
  ASSUME Heard, TypeOK, QuietInv, NEW t \in Tab, NEW c \in Call, Mutate(t, c)
  PROVE  QuietInv'
<1> USE DEF tabVars
<1>1. ASSUME NEW m, NEW x, NEW d, Commit(t, c, m, x, d) PROVE QuietInv'
  BY <1>1, StillQuiet DEF Commit, Reloading, Migrating
<1>2. ASSUME NEW s \in Seed, RemoveLastWallet(t, c, s) PROVE QuietInv'
  BY <1>2, StillQuiet DEF RemoveLastWallet, Reloading, Migrating
<1>3. QED
  BY <1>1, <1>2 DEF Mutate, AddWallet, UpgradeSource, RenameWallet, RemoveWallet, SetActive,
                    SetBackedUp, SetReceiveIndex

LEMMA ResumeQuiet ==
  ASSUME Heard, TypeOK, QuietInv, NEW t \in Tab, NEW c \in Call, Resume(t, c)
  PROVE  QuietInv'
<1> USE DEF tabVars, At
<1>k. CopyStored(t) =>
        /\ record'[t] = disk /\ primary'[t] = v1
        /\ \A u \in Tab \ {t} : record'[u] = record[u] /\ primary'[u] = primary[u]
  BY DEF CopyStored, TypeOK
\* A write is heard by every tab.
<1>w. ASSUME NEW state, Goto(t, c, state), UNCHANGED <<v1, primary>>, Broadcast,
             state.pc \in Migrating => call[t][c].pc \in Migrating
      PROVE  QuietInv'
  BY <1>w, BroadcastOwes, OneCallQuiet
\* A call that copies what is stored.
<1>c. ASSUME NEW state, Goto(t, c, state), CopyStored(t), UNCHANGED <<disk, v1, mail>>,
             state.pc # "v1drop", state.pc \in Migrating => v1 # Nil
      PROVE  QuietInv'
  BY <1>c, <1>k, OneCallQuiet
<1>1. ASSUME SaveVaultRecord(t, c) PROVE QuietInv'
  BY <1>1, <1>w DEF SaveVaultRecord, Put, Idle, Migrating
<1>2. ASSUME DeleteVaultRecord(t, c) PROVE QuietInv'
  BY <1>2, <1>w DEF DeleteVaultRecord, Idle, Migrating
<1>3. ASSUME Conflict(t, c) PROVE QuietInv'
  BY <1>3, StillQuiet DEF Conflict, Reloading, Migrating
<1>4. ASSUME Refresh(t, c) PROVE QuietInv'
  <2>1. \E state : Goto(t, c, state) /\ state.pc \in {"idle", "decrypt"}
    BY <1>4 DEF Refresh, Idle
  <2>2. QED
    BY <1>4, <2>1, <1>c DEF Refresh, Migrating
<1>5. ASSUME Refreshed(t, c) \/ UnlockFail(t, c) \/ FirstSaveConflict(t, c) PROVE QuietInv'
  BY <1>5, StillQuiet DEF Refreshed, UnlockFail, FirstSaveConflict, Idle, Reloading, Migrating
<1>6. ASSUME UnlockLoad(t, c) PROVE QuietInv'
  <2>1. \E state : /\ Goto(t, c, state) /\ state.pc \in {"idle", "kdf", "v1seal"}
                   /\ state.pc = "v1seal" => v1 # Nil
    BY <1>6 DEF UnlockLoad, Idle
  <2>2. QED
    BY <1>6, <2>1, <1>c DEF UnlockLoad, Migrating
<1>7. ASSUME UnlockOpen(t, c) PROVE QuietInv'
  <2>1. \E state : Goto(t, c, state) /\ state.pc \in {"idle", "orphan"}
    BY <1>7 DEF UnlockOpen, Idle
  <2>2. QED
    BY <1>7, <2>1, StillQuiet DEF UnlockOpen, Reloading, Migrating
<1>8. ASSUME UnlockFallBack(t, c) PROVE QuietInv'
  BY <1>8, StillQuiet DEF UnlockFallBack, Reloading, Migrating
<1>9. ASSUME DeleteOrphan(t, c) PROVE QuietInv'
  <2>1. \A u \in Tab : primary'[u] \in {primary[u], v1, Nil}
    BY <1>9 DEF DeleteOrphan, TypeOK
  <2>2. QED
    BY <1>9, <2>1, OneCallQuiet DEF DeleteOrphan, Idle, Reloading, Migrating
<1>10. ASSUME MigrateSeal(t, c) PROVE QuietInv'
  <2>1. \E state : Goto(t, c, state) /\ state.pc = "v1save"
    BY <1>10 DEF MigrateSeal
  <2>2. QED
    BY <1>10, <2>1, StillQuiet DEF MigrateSeal, Reloading, Migrating
<1>11. ASSUME MigrateSave(t, c) PROVE QuietInv'
  BY <1>11, <1>w DEF MigrateSave, Put, Migrating
<1>12. ASSUME MigrateDrop(t, c) PROVE QuietInv'
  <2>1. /\ \A u \in Tab : primary'[u] \in {primary[u], v1, Nil}
        /\ \A u \in Tab \ {t} : record'[u] = record[u]
    BY <1>12 DEF MigrateDrop, TypeOK
  <2>2. mail'[t] > 0
    BY <1>12 DEF MigrateDrop, QuietInv
  <2>3. QED
    BY <1>12, <2>1, <2>2, OneCallQuiet DEF MigrateDrop, Idle, Migrating
<1>13. ASSUME CreateLoad(t, c) PROVE QuietInv'
  <2>1. \E state : Goto(t, c, state) /\ state.pc \in {"idle", "createsave"}
    <3>1. CASE Goto(t, c, Idle)
      BY <3>1 DEF Idle
    <3>2. CASE ~Goto(t, c, Idle)
      <4>1. PICK s \in Seed, n \in Name, b \in BOOLEAN :
              Goto(t, c, [pc |-> "createsave",
                          rec |-> FirstRecord(1, salts + 1, salts + 1, s, NewRow(n, b, FALSE))])
        BY <1>13, <3>2 DEF CreateLoad
      <4>2. QED
        BY <4>1
    <3>3. QED
      BY <3>1, <3>2
  <2>2. PICK state : Goto(t, c, state) /\ state.pc \in {"idle", "createsave"}
    BY <2>1
  <2>3. QED
    BY <1>13, <2>2, <1>c DEF CreateLoad, Migrating
<1>14. ASSUME CreateSave(t, c) PROVE QuietInv'
  BY <1>14, <1>w DEF CreateSave, Put, Idle, Migrating
<1>15. ASSUME Load(t, c) PROVE QuietInv'
  BY <1>15, <1>c DEF Load, Idle, Migrating
<1>16. QED
  BY <1>1, <1>2, <1>3, <1>4, <1>5, <1>6, <1>7, <1>8, <1>9, <1>10, <1>11, <1>12,
     <1>13, <1>14, <1>15 DEF Resume

LEMMA OtherQuiet ==
  ASSUME Heard, TypeOK, QuietInv, NEW t \in Tab, NEW c \in Call,
         \/ OnVaultChanged(t, c) \/ Unlock(t, c) \/ CreateVault(t, c)
         \/ DeleteAllRecords(t, c) \/ StorageFails(t, c)
  PROVE  QuietInv'
<1> USE DEF tabVars
<1>1. ASSUME OnVaultChanged(t, c) PROVE QuietInv'
  <2>1. \A u \in Tab \ {t} : mail'[u] = mail[u]
    BY <1>1 DEF OnVaultChanged, TypeOK
  <2>2. QED
    BY <1>1, <2>1, OneCallQuiet DEF OnVaultChanged, Reloading, Migrating
<1>2. ASSUME Unlock(t, c) \/ CreateVault(t, c) PROVE QuietInv'
  BY <1>2, StillQuiet DEF Unlock, CreateVault, At, Reloading, Migrating
<1>3. ASSUME DeleteAllRecords(t, c) PROVE QuietInv'
  BY <1>3, BroadcastOwes, OneCallQuiet DEF DeleteAllRecords, Migrating
<1>4. ~StorageFails(t, c)
  BY DEF StorageFails, Heard
<1>5. QED
  BY <1>1, <1>2, <1>3, <1>4

LEMMA SessionQuiet ==
  ASSUME Heard, TypeOK, QuietInv, NEW t \in Tab, Lock(t) \/ Restart(t)
  PROVE  QuietInv'
<1>1. CASE Lock(t)
  BY <1>1 DEF Lock, QuietInv, Owed, At
<1>2. CASE Restart(t)
  <2>1. PICK c \in Call :
          call' = [call EXCEPT ![t] = [d \in Call |-> IF d = c THEN [pc |-> "boot"] ELSE Idle]]
    BY <1>2 DEF Restart
  <2>2. /\ \A d \in Call : call'[t][d].pc = IF d = c THEN "boot" ELSE "idle"
        /\ \A u \in Tab \ {t} : call'[u] = call[u]
    BY <2>1 DEF TypeOK, Idle
  <2>3. /\ UNCHANGED <<disk, v1>> /\ primary'[t] = Nil
        /\ \A u \in Tab \ {t} : /\ record'[u] = record[u] /\ primary'[u] = primary[u]
                                /\ mail'[u] = mail[u]
    BY <1>2 DEF Restart, TypeOK
  <2>4. Owed(t)'
    BY <2>2 DEF Owed, Reloading
  <2>5. QED
    BY <2>2, <2>3, <2>4 DEF QuietInv, Owed, At, Migrating
<1>3. QED
  BY <1>1, <1>2

\* At rest a tab shows what is stored (vault.js onVaultChanged, refresh), whatever any number
\* of tabs write, remove, erase, make again or restart, if broadcasts are heard, storage
\* answers, and no refresh runs into the end of a migration.
THEOREM QuietTabsAreCurrent ==
  ASSUME Heard
  PROVE  Spec => []QuietTabIsCurrent
<1>1. Init => QuietInv
  <2> SUFFICES ASSUME Init PROVE QuietInv
    OBVIOUS
  <2>1. \A t \in Tab, c \in Call : call[t][c].pc = "idle"
    BY DEF Init, Idle
  <2>2. NoLegacy => v1 = Nil
    BY DEF Init, NoLegacy
  <2>3. QED
    BY <2>1, <2>2 DEF Init, QuietInv, At, Migrating
<1>2. TypeOK /\ QuietInv /\ [Next]_vars => QuietInv'
  <2> SUFFICES ASSUME TypeOK, QuietInv, [Next]_vars PROVE QuietInv'
    OBVIOUS
  <2>1. CASE UNCHANGED vars
    BY <2>1 DEF vars, tabVars, QuietInv, Owed, At
  <2>2. CASE Next
    <3>1. PICK t \in Tab :
            \/ \E c \in Call : \/ Resume(t, c)
                               \/ OnVaultChanged(t, c)
                               \/ UserStep(t, c)
                               \/ StorageFails(t, c)
            \/ Lock(t) \/ Restart(t)
      BY <2>2 DEF Next
    <3>2. ASSUME NEW c \in Call, Resume(t, c) PROVE QuietInv'
      BY <3>2, ResumeQuiet
    <3>3. ASSUME NEW c \in Call, UserStep(t, c) \/ OnVaultChanged(t, c) \/ StorageFails(t, c)
          PROVE  QuietInv'
      BY <3>3, MutateQuiet, OtherQuiet DEF UserStep
    <3>4. QED
      BY <3>1, <3>2, <3>3, SessionQuiet
  <2>3. QED
    BY <2>1, <2>2
<1>3. QED
  BY <1>1, <1>2, QuietImplies, TypeCorrect, PTL DEF Spec

-----------------------------------------------------------------------------
(* A session's key opens its copy *)

\* Sealed under the key of the salt beside it, or left by an interrupted version
\* and opening under none.
Sealing(r) == r.sealed \in {r.salt, NoKey}

Opened(t) == record[t] # Nil /\ secrets[t] # Nil /\ record[t].sealed = key[t]

TabSess(t) ==
  /\ record[t] # Nil => Sealing(record[t])
  /\ ~Locked(t) /\ (\A c \in Call : ~At(t, c, "decrypt")) => Opened(t)

CallSess(t, c) ==
  /\ call[t][c].pc \in {"load", "boot", "kdf", "createload", "createsave"} \cup Migrating
       => Locked(t)
  /\ call[t][c].pc \in {"kdf", "decrypt"} => call[t][c].rec = record[t]
  /\ call[t][c].pc \in {"save", "decrypt"} /\ ~Locked(t) => call[t][c].key = key[t]
  /\ At(t, c, "save") => call[t][c].key = call[t][c].from.salt
  /\ call[t][c].pc \in {"createsave", "v1save", "v1drop"} =>
       call[t][c].rec.sealed = call[t][c].rec.salt

SessInv ==
  /\ disk # Nil => Sealing(disk)
  /\ \A t \in Tab : TabSess(t) /\ \A c \in Call : CallSess(t, c)

LEMMA SessImplies == SessInv => SessionFitsCopy
BY DEF SessInv, TabSess, Opened, SessionFitsCopy, Opens

\* With one call a tab, what the tab does is all that can disturb it.
LEMMA OneTabSess ==
  ASSUME NoOverlap, TypeOK, SessInv, NEW t \in Tab, NEW c \in Call, NEW state,
         Goto(t, c, state), disk' # Nil => Sealing(disk'),
         \A u \in Tab \ {t} :
           record'[u] = record[u] /\ key'[u] = key[u] /\ secrets'[u] = secrets[u],
         TabSess(t)', CallSess(t, c)'
  PROVE  SessInv'
<1>1. \A u \in Tab \ {t}, d \in Call : call'[u][d] = call[u][d]
  BY GotoAt
<1>2. ASSUME NEW u \in Tab \ {t} PROVE TabSess(u)' /\ \A d \in Call : CallSess(u, d)'
  BY <1>1 DEF SessInv, TabSess, CallSess, Opened, Locked, At
<1>3. \A d \in Call : d = c
  BY DEF NoOverlap
<1>4. QED
  BY <1>2, <1>3 DEF SessInv

\* A step that leaves what is stored, copied and unlocked alone.
LEMMA StillSess ==
  ASSUME NoOverlap, TypeOK, SessInv, NEW t \in Tab, NEW c \in Call, NEW state,
         Goto(t, c, state), ~At(t, c, "decrypt"), CallSess(t, c)',
         UNCHANGED <<disk, record, key, secrets>>
  PROVE  SessInv'
<1>1. \A d \in Call : d = c /\ ~At(t, d, "decrypt")
  BY DEF NoOverlap
<1>2. TabSess(t)'
  BY <1>1 DEF SessInv, TabSess, Opened, Locked
<1>3. QED
  BY <1>2, OneTabSess DEF SessInv

LEMMA MutateSess ==
  ASSUME NoOverlap, TypeOK, SessInv, NEW t \in Tab, NEW c \in Call, Mutate(t, c)
  PROVE  SessInv'
<1> USE DEF tabVars
<1>1. ASSUME Mutable(t), At(t, c, "idle")
      PROVE  record[t] # Nil /\ key[t] = record[t].salt
  BY <1>1 DEF Mutable, SessInv, TabSess, Opened, Sealing, Locked, NoOverlap, At
<1>2. ASSUME NEW m, NEW x, NEW d, Commit(t, c, m, x, d), Mutable(t) PROVE SessInv'
  <2>1. call'[t][c] = [pc |-> "save", from |-> record[t], key |-> key[t],
                       meta |-> m, secrets |-> x, drop |-> d]
    BY <1>2, GotoAt DEF Commit
  <2>2. CallSess(t, c)'
    BY <1>1, <1>2, <2>1 DEF CallSess, At, Commit, Migrating
  <2>3. QED
    BY <1>2, <2>2, StillSess DEF Commit, At
<1>3. ASSUME NEW s \in Seed, RemoveLastWallet(t, c, s) PROVE SessInv'
  <2>1. call'[t][c].pc = "delete"
    BY <1>3, GotoAt DEF RemoveLastWallet
  <2>2. QED
    BY <1>3, <2>1, StillSess DEF RemoveLastWallet, At, CallSess, Migrating
<1>4. QED
  BY <1>2, <1>3 DEF Mutate, AddWallet, UpgradeSource, RenameWallet, RemoveWallet, SetActive,
                    SetBackedUp, SetReceiveIndex

\* What a save writes is sealed under the key of the salt beside it.
LEMMA SavesOpen ==
  ASSUME TypeOK, SessInv, NEW t \in Tab, NEW c \in Call, SaveVaultRecord(t, c)
  PROVE  /\ NextRecord(call[t][c]) \in Record
         /\ NextRecord(call[t][c]).sealed = NextRecord(call[t][c]).salt
         /\ NextRecord(call[t][c]).sealed = call[t][c].key
<1>1. /\ call[t][c].from \in Record /\ call[t][c].key \in Nat
      /\ call[t][c].meta \in Meta /\ call[t][c].secrets \in Secrets
  BY CallTypes DEF SaveVaultRecord
<1>2. call[t][c].key = call[t][c].from.salt
  BY DEF SaveVaultRecord, SessInv, CallSess
<1>3. QED
  BY <1>1, <1>2 DEF NextRecord, Record

LEMMA ResumeSess ==
  ASSUME NoOverlap, TypeOK, SessInv, NEW t \in Tab, NEW c \in Call, Resume(t, c)
  PROVE  SessInv'
<1> USE DEF tabVars
<1>c. /\ CallSess(t, c) /\ TabSess(t) /\ \A d \in Call : d = c
      /\ disk # Nil => disk \in Record /\ Sealing(disk)
  BY DEF SessInv, NoOverlap, TypeOK
<1>g. \A state : Goto(t, c, state) => call'[t][c] = state
  BY GotoAt
<1>k. CopyStored(t) =>
        record'[t] = disk /\ \A u \in Tab \ {t} : record'[u] = record[u]
  BY DEF CopyStored, TypeOK
<1>s. \A r \in Record : r # Nil /\ r.secrets # Nil
  BY NilIsNothing DEF Record
\* The record of a locked tab may be anything that was stored.
<1>l. ASSUME NEW state, Goto(t, c, state), state.pc \notin {"save", "decrypt"}, Locked(t),
             CopyStored(t), UNCHANGED <<disk, key, secrets>>,
             state.pc = "kdf" => state.rec = disk,
             state.pc \in {"createsave", "v1save", "v1drop"} => state.rec.sealed = state.rec.salt
      PROVE  SessInv'
  <2>1. TabSess(t)'
    BY <1>l, <1>c, <1>k DEF TabSess, Locked
  <2>2. CallSess(t, c)'
    BY <1>l, <1>g, <1>k DEF CallSess, Locked, At
  <2>3. QED
    BY <1>l, <1>c, <1>k, <2>1, <2>2, OneTabSess
\* A tab takes over a record it has just written, with its key.
<1>t. ASSUME NEW r \in Record, r.sealed = r.salt, Goto(t, c, Idle),
             disk' \in {disk, r}, record' = [record EXCEPT ![t] = r],
             secrets' = [secrets EXCEPT ![t] = r.secrets],
             \/ key' = [key EXCEPT ![t] = r.salt]
             \/ key' = key /\ (~Locked(t) => key[t] = r.salt)
      PROVE  SessInv'
  <2>1. /\ record'[t] = r /\ secrets'[t] = r.secrets
        /\ \A u \in Tab \ {t} :
             record'[u] = record[u] /\ secrets'[u] = secrets[u] /\ key'[u] = key[u]
        /\ key'[t] = r.salt \/ key'[t] = NoKey
    BY <1>t DEF TypeOK, Locked
  <2>2. TabSess(t)'
    BY <1>t, <1>s, <2>1 DEF TabSess, Opened, Sealing, Locked
  <2>3. CallSess(t, c)'
    BY <1>t, <1>g DEF CallSess, At, Idle, Migrating
  <2>4. disk' # Nil => Sealing(disk')
    BY <1>t, <1>c DEF Sealing
  <2>5. QED
    BY <1>t, <2>1, <2>2, <2>3, <2>4, OneTabSess
<1>1. ASSUME SaveVaultRecord(t, c) PROVE SessInv'
  <2> DEFINE saved == NextRecord(call[t][c])
  <2>1. saved \in Record /\ saved.sealed = saved.salt /\ saved.sealed = call[t][c].key
    BY <1>1, SavesOpen
  <2>2. ~Locked(t) => key[t] = saved.salt
    BY <1>1, <1>c, <2>1 DEF SaveVaultRecord, CallSess, At
  <2>3. /\ disk' \in {disk, saved} /\ record' = [record EXCEPT ![t] = saved]
        /\ secrets' = [secrets EXCEPT ![t] = saved.secrets]
        /\ key' = key /\ Goto(t, c, Idle)
    BY <1>1 DEF SaveVaultRecord, Put, NextRecord
  <2> HIDE DEF saved
  <2>4. QED
    BY <2>1, <2>2, <2>3, <1>t
<1>2. ASSUME DeleteVaultRecord(t, c) PROVE SessInv'
  <2>1. /\ record'[t] = Nil /\ key'[t] = NoKey
        /\ \A u \in Tab \ {t} :
             record'[u] = record[u] /\ secrets'[u] = secrets[u] /\ key'[u] = key[u]
    BY <1>2 DEF DeleteVaultRecord, TypeOK
  <2>2. TabSess(t)' /\ CallSess(t, c)'
    BY <1>2, <1>g, <2>1 DEF DeleteVaultRecord, TabSess, CallSess, Locked, At, Idle, Migrating
  <2>3. QED
    BY <1>2, <2>1, <2>2, OneTabSess DEF DeleteVaultRecord
<1>3. ASSUME Conflict(t, c) PROVE SessInv'
  BY <1>3, <1>g, StillSess DEF Conflict, CallSess, At, Migrating
<1>4. ASSUME Refresh(t, c) PROVE SessInv'
  <2>1. CopyStored(t) /\ UNCHANGED <<disk, v1>> /\ At(t, c, "reload")
    BY <1>4 DEF Refresh
  <2>2. CASE Locked(t) /\ Goto(t, c, Idle) /\ UNCHANGED <<key, secrets>>
    BY <2>1, <2>2, <1>l DEF Idle
  <2>3. CASE /\ disk = Nil /\ key' = [key EXCEPT ![t] = NoKey]
             /\ secrets' = [secrets EXCEPT ![t] = Nil] /\ Goto(t, c, Idle)
    <3>1. /\ key'[t] = NoKey
          /\ \A u \in Tab \ {t} : key'[u] = key[u] /\ secrets'[u] = secrets[u]
      BY <2>3 DEF TypeOK
    <3>2. TabSess(t)' /\ CallSess(t, c)'
      BY <2>1, <2>3, <3>1, <1>g, <1>k DEF TabSess, CallSess, At, Locked, Idle, Migrating
    <3>3. QED
      BY <2>1, <2>3, <3>1, <3>2, <1>k, OneTabSess
  <2>4. CASE /\ ~Locked(t) /\ disk # Nil /\ UNCHANGED <<key, secrets>>
             /\ Goto(t, c, [pc |-> "decrypt", rec |-> disk, key |-> key[t]])
    <3>1. At(t, c, "decrypt")' /\ call'[t][c].rec = disk /\ call'[t][c].key = key[t]
      BY <2>4, <1>g DEF At
    <3>2. TabSess(t)'
      BY <2>1, <2>4, <3>1, <1>c, <1>k DEF TabSess
    <3>3. CallSess(t, c)'
      BY <2>1, <2>4, <3>1, <1>k DEF CallSess, At, Migrating
    <3>4. QED
      BY <2>1, <2>4, <3>2, <3>3, <1>c, <1>k, OneTabSess
  <2>5. QED
    BY <1>4, <2>2, <2>3, <2>4 DEF Refresh
<1>5. ASSUME Refreshed(t, c) PROVE SessInv'
  <2>1. /\ UNCHANGED <<disk, record>> /\ Goto(t, c, Idle) /\ At(t, c, "decrypt")
        /\ call[t][c].rec = record[t] /\ record[t] \in Record
        /\ ~Locked(t) => call[t][c].key = key[t]
    BY <1>5, <1>c, CallTypes DEF Refreshed, CallSess, At
  <2>2. CallSess(t, c)'
    BY <2>1, <1>g DEF CallSess, At, Idle, Migrating
  <2>3. CASE /\ Opens(call[t][c].rec, call[t][c].key) /\ UNCHANGED key
             /\ secrets' = [secrets EXCEPT ![t] = call[t][c].rec.secrets]
    <3>1. /\ secrets'[t] = record[t].secrets
          /\ \A u \in Tab \ {t} : secrets'[u] = secrets[u]
      BY <2>1, <2>3 DEF TypeOK
    <3>2. TabSess(t)'
      BY <2>1, <2>3, <3>1, <1>c, <1>s DEF TabSess, Opened, Opens, Locked
    <3>3. QED
      BY <2>1, <2>2, <2>3, <3>1, <3>2, <1>c, OneTabSess
  <2>4. CASE /\ secrets' = [secrets EXCEPT ![t] = Nil]
             /\ key' = [key EXCEPT ![t] = NoKey]
    <3>1. /\ key'[t] = NoKey
          /\ \A u \in Tab \ {t} : key'[u] = key[u] /\ secrets'[u] = secrets[u]
      BY <2>4 DEF TypeOK
    <3>2. TabSess(t)'
      BY <2>1, <3>1, <1>c DEF TabSess, Locked
    <3>3. QED
      BY <2>1, <2>2, <3>1, <3>2, <1>c, OneTabSess
  <2>5. QED
    BY <1>5, <2>3, <2>4 DEF Refreshed
<1>6. ASSUME UnlockLoad(t, c) PROVE SessInv'
  <2>1. Locked(t)
    BY <1>6, <1>c DEF UnlockLoad, CallSess, At
  <2>2. \E state : /\ Goto(t, c, state) /\ state.pc \in {"idle", "kdf", "v1seal"}
                   /\ state.pc = "kdf" => state.rec = disk
    BY <1>6 DEF UnlockLoad, Idle
  <2>3. QED
    BY <1>6, <2>1, <2>2, <1>l DEF UnlockLoad
<1>7. ASSUME UnlockOpen(t, c) PROVE SessInv'
  <2>1. /\ UNCHANGED <<disk, record>> /\ call[t][c].rec = record[t] /\ record[t] \in Record
        /\ record[t].sealed = record[t].salt
        /\ key' = [key EXCEPT ![t] = record[t].salt]
        /\ secrets' = [secrets EXCEPT ![t] = record[t].secrets]
    BY <1>7, <1>c, CallTypes DEF UnlockOpen, CallSess, Decrypts, Opens, At
  <2>2. \E state : Goto(t, c, state) /\ state.pc \in {"idle", "orphan"}
    BY <1>7 DEF UnlockOpen, Idle
  <2>3. /\ key'[t] = record[t].salt /\ secrets'[t] = record[t].secrets
        /\ \A u \in Tab \ {t} : key'[u] = key[u] /\ secrets'[u] = secrets[u]
    BY <2>1 DEF TypeOK
  <2>4. TabSess(t)'
    BY <2>1, <2>3, <1>c, <1>s DEF TabSess, Opened
  <2>5. CallSess(t, c)'
    BY <2>2, <1>g DEF CallSess, At, Migrating
  <2>6. QED
    BY <2>1, <2>2, <2>3, <2>4, <2>5, <1>c, OneTabSess
<1>8. ASSUME UnlockFallBack(t, c) PROVE SessInv'
  <2>1. Locked(t) /\ call'[t][c].pc = "v1seal"
    BY <1>8, <1>c, <1>g DEF UnlockFallBack, CallSess, At
  <2>2. QED
    BY <1>8, <2>1, StillSess DEF UnlockFallBack, CallSess, Locked, At
<1>9. ASSUME UnlockFail(t, c) \/ FirstSaveConflict(t, c) PROVE SessInv'
  <2>1. /\ Goto(t, c, Idle) /\ ~At(t, c, "decrypt")
        /\ UNCHANGED <<disk, record, key, secrets>>
    BY <1>9 DEF UnlockFail, FirstSaveConflict, At
  <2>2. QED
    BY <2>1, <1>g, StillSess DEF CallSess, At, Idle, Migrating
<1>10. ASSUME DeleteOrphan(t, c) PROVE SessInv'
  BY <1>10, <1>g, StillSess DEF DeleteOrphan, CallSess, At, Idle, Migrating
<1>11. ASSUME MigrateSeal(t, c) PROVE SessInv'
  <2>1. PICK n \in Name :
          Goto(t, c, [pc |-> "v1save",
                      rec |-> FirstRecord(Rev(record[t]) + 1, salts + 1, salts + 1,
                                          call[t][c].seed, NewRow(n, FALSE, FALSE))])
    BY <1>11 DEF MigrateSeal
  <2>2. /\ call'[t][c].pc = "v1save" /\ call'[t][c].rec.sealed = call'[t][c].rec.salt
        /\ Locked(t)
    BY <1>11, <1>c, <1>g, <2>1 DEF MigrateSeal, FirstRecord, CallSess, At, Migrating
  <2>3. QED
    BY <1>11, <2>1, <2>2, StillSess DEF MigrateSeal, CallSess, Locked, At
<1>12. ASSUME MigrateSave(t, c) PROVE SessInv'
  <2>1. /\ call[t][c].rec.sealed = call[t][c].rec.salt /\ Locked(t)
        /\ Goto(t, c, [pc |-> "v1drop", rec |-> call[t][c].rec])
        /\ disk' \in {disk, call[t][c].rec} /\ UNCHANGED <<record, key, secrets>>
    BY <1>12, <1>c DEF MigrateSave, CallSess, Put, At, Migrating
  <2>2. call'[t][c] = [pc |-> "v1drop", rec |-> call[t][c].rec]
    BY <2>1, <1>g
  <2>3. TabSess(t)'
    BY <2>1, <1>c DEF TabSess, Locked
  <2>4. CallSess(t, c)'
    BY <2>1, <2>2 DEF CallSess, Locked, At
  <2>5. disk' # Nil => Sealing(disk')
    BY <2>1, <1>c DEF Sealing
  <2>6. QED
    BY <2>1, <2>3, <2>4, <2>5, OneTabSess
<1>13. ASSUME MigrateDrop(t, c) PROVE SessInv'
  <2>1. call[t][c].rec \in Record /\ call[t][c].rec.sealed = call[t][c].rec.salt
    BY <1>13, <1>c, CallTypes DEF MigrateDrop, CallSess, At
  <2>2. QED
    BY <1>13, <2>1, <1>t DEF MigrateDrop
<1>14. ASSUME CreateLoad(t, c) PROVE SessInv'
  <2>1. Locked(t)
    BY <1>14, <1>c DEF CreateLoad, CallSess, At
  <2>2. CASE Goto(t, c, Idle)
    BY <1>14, <2>1, <2>2, <1>l DEF CreateLoad, Idle
  <2>3. CASE ~Goto(t, c, Idle)
    <3>1. PICK s \in Seed, n \in Name, b \in BOOLEAN :
            Goto(t, c, [pc |-> "createsave",
                        rec |-> FirstRecord(1, salts + 1, salts + 1, s, NewRow(n, b, FALSE))])
      BY <1>14, <2>3 DEF CreateLoad
    <3>2. FirstRecord(1, salts + 1, salts + 1, s, NewRow(n, b, FALSE)).sealed
            = FirstRecord(1, salts + 1, salts + 1, s, NewRow(n, b, FALSE)).salt
      BY DEF FirstRecord
    <3>3. QED
      BY <1>14, <2>1, <3>1, <3>2, <1>l DEF CreateLoad
  <2>4. QED
    BY <2>2, <2>3
<1>15. ASSUME CreateSave(t, c) PROVE SessInv'
  <2>1. call[t][c].rec \in Record /\ call[t][c].rec.sealed = call[t][c].rec.salt
    BY <1>15, <1>c, CallTypes DEF CreateSave, CallSess, At
  <2>2. QED
    BY <1>15, <2>1, <1>t DEF CreateSave, Put
<1>16. ASSUME Load(t, c) PROVE SessInv'
  <2>1. Locked(t)
    BY <1>16, <1>c DEF Load, CallSess, At
  <2>2. QED
    BY <1>16, <2>1, <1>l DEF Load, Idle
<1>17. QED
  BY <1>1, <1>2, <1>3, <1>4, <1>5, <1>6, <1>7, <1>8, <1>9, <1>10, <1>11, <1>12,
     <1>13, <1>14, <1>15, <1>16 DEF Resume

LEMMA OtherSess ==
  ASSUME NoOverlap, TypeOK, SessInv, NEW t \in Tab, NEW c \in Call,
         \/ OnVaultChanged(t, c) \/ Unlock(t, c) \/ CreateVault(t, c)
         \/ DeleteAllRecords(t, c) \/ StorageFails(t, c)
  PROVE  SessInv'
<1> USE DEF tabVars
<1>1. PICK state :
        /\ Goto(t, c, state) /\ ~At(t, c, "decrypt") /\ UNCHANGED <<record, key, secrets>>
        /\ state.pc \in {"idle", "reload", "load", "createload", "boot"}
        /\ state.pc \in {"load", "createload", "boot"} => Locked(t)
        /\ disk' \in {disk, Nil}
  BY DEF OnVaultChanged, Unlock, CreateVault, DeleteAllRecords, StorageFails, At, Idle
<1>2. call'[t][c] = state
  BY <1>1, GotoAt
<1>3. \A d \in Call : d = c
  BY DEF NoOverlap
<1>4. TabSess(t)' /\ CallSess(t, c)'
  BY <1>1, <1>2, <1>3 DEF SessInv, TabSess, CallSess, Opened, Locked, At, Migrating
<1>5. QED
  BY <1>1, <1>4, OneTabSess DEF SessInv

LEMMA SessionSess ==
  ASSUME NoOverlap, TypeOK, SessInv, NEW t \in Tab, Lock(t) \/ Restart(t)
  PROVE  SessInv'
<1>1. key'[t] = NoKey /\ disk' = disk /\ \A u \in Tab \ {t} :
        /\ record'[u] = record[u] /\ key'[u] = key[u]
        /\ secrets'[u] = secrets[u] /\ call'[u] = call[u]
  BY DEF Lock, Restart, TypeOK
<1>2. ASSUME NEW u \in Tab \ {t} PROVE TabSess(u)' /\ \A d \in Call : CallSess(u, d)'
  BY <1>1 DEF SessInv, TabSess, CallSess, Opened, Locked, At
<1>3. CASE Lock(t)
  <2>1. TabSess(t)' /\ \A d \in Call : CallSess(t, d)'
    BY <1>1, <1>3 DEF Lock, SessInv, TabSess, CallSess, Locked, At
  <2>2. QED
    BY <1>1, <1>2, <2>1 DEF SessInv
<1>4. CASE Restart(t)
  <2>1. record'[t] = Nil /\ \A d \in Call : call'[t][d].pc \in {"boot", "idle"}
    BY <1>4 DEF Restart, TypeOK, Idle
  <2>2. TabSess(t)' /\ \A d \in Call : CallSess(t, d)'
    BY <1>1, <2>1 DEF TabSess, CallSess, Locked, At, Migrating
  <2>3. QED
    BY <1>1, <1>2, <2>2 DEF SessInv
<1>5. QED
  BY <1>3, <1>4

LEMMA InitSess == Init => SessInv
<1> SUFFICES ASSUME Init PROVE SessInv
  OBVIOUS
<1>1. disk # Nil => Sealing(disk)
  <2>1. PICK start \in Start, s \in Seed, n \in Name :
          disk = CASE start = "vault" -> InitialRecord(s, n, 1)
                   [] start = "interrupted" -> InitialRecord(s, n, NoKey)
                   [] OTHER -> Nil
    BY DEF Init
  <2>2. Sealing(InitialRecord(s, n, 1)) /\ Sealing(InitialRecord(s, n, NoKey))
    BY DEF InitialRecord, FirstRecord, Sealing
  <2>3. QED
    BY <2>1, <2>2
<1>2. \A t \in Tab : record[t] = disk /\ key[t] = NoKey /\ \A c \in Call : call[t][c].pc = "idle"
  BY DEF Init, Idle
<1>3. QED
  BY <1>1, <1>2 DEF SessInv, TabSess, CallSess, Locked, At, Migrating

LEMMA StepSess ==
  ASSUME NoOverlap, TypeOK, SessInv, [Next]_vars
  PROVE  SessInv'
<1>1. CASE UNCHANGED vars
  BY <1>1 DEF vars, tabVars, SessInv, TabSess, CallSess, Opened, Locked, At
<1>2. CASE Next
  <2>1. PICK t \in Tab :
          \/ \E c \in Call : \/ Resume(t, c)
                             \/ OnVaultChanged(t, c)
                             \/ UserStep(t, c)
                             \/ StorageFails(t, c)
          \/ Lock(t) \/ Restart(t)
    BY <1>2 DEF Next
  <2>2. ASSUME NEW c \in Call, Resume(t, c) PROVE SessInv'
    BY <2>2, ResumeSess
  <2>3. ASSUME NEW c \in Call, UserStep(t, c) \/ OnVaultChanged(t, c) \/ StorageFails(t, c)
        PROVE  SessInv'
    BY <2>3, MutateSess, OtherSess DEF UserStep
  <2>4. QED
    BY <2>1, <2>2, <2>3, SessionSess
<1>3. QED
  BY <1>1, <1>2

\* The key of an unlocked tab opens its own copy (vault.js createVault, refresh), although
\* other tabs erase the vault and make another, storage refuses or loses writes, and the
\* user locks at any moment, if the calls of one tab do not overlap.
THEOREM SessionsFit ==
  ASSUME NoOverlap
  PROVE  Spec => []SessionFitsCopy
<1>1. TypeOK /\ SessInv /\ [Next]_vars => SessInv'
  BY StepSess
<1>2. QED
  BY InitSess, <1>1, SessImplies, TypeCorrect, PTL DEF Spec

-----------------------------------------------------------------------------
(* Something opens *)

Kept == v1 = Nil \/ (disk # Nil /\ Opens(disk, disk.salt))

\* A call about to drop the legacy record, or that will be.
KeptInv ==
  \A t \in Tab, c \in Call :
    /\ ~At(t, c, "delete")
    /\ call[t][c].pc \in {"orphan", "v1drop"} => Kept
    /\ At(t, c, "kdf") /\ Decrypts(call[t][c].rec) => Kept

\* Nothing deletes the vault alone, and a write that was reported is kept.
WritesLast == "removeLast" \notin UserOps /\ "abort" \notin Faults

LEMMA MutateStores ==
  ASSUME NEW t \in Tab, NEW c \in Call, Mutate(t, c)
  PROVE  /\ UNCHANGED <<disk, v1>> /\ At(t, c, "idle")
         /\ \E state : /\ Goto(t, c, state) /\ state.pc \in {"save", "delete"}
                       /\ "removeLast" \notin UserOps => state.pc = "save"
<1> USE DEF tabVars
<1>1. ASSUME NEW m, NEW x, NEW d, Commit(t, c, m, x, d)
      PROVE  /\ UNCHANGED <<disk, v1>> /\ At(t, c, "idle")
             /\ \E state : Goto(t, c, state) /\ state.pc = "save"
  BY <1>1 DEF Commit
<1>2. ASSUME NEW s \in Seed, RemoveLastWallet(t, c, s)
      PROVE  /\ UNCHANGED <<disk, v1>> /\ At(t, c, "idle") /\ "removeLast" \in UserOps
             /\ \E state : Goto(t, c, state) /\ state.pc = "delete"
  BY <1>2 DEF RemoveLastWallet
<1>3. QED
  BY <1>1, <1>2 DEF Mutate, AddWallet, UpgradeSource, RenameWallet, RemoveWallet, SetActive,
                    SetBackedUp, SetReceiveIndex

\* A call in flight stores what opens, deletes a vault it saw, or drops a legacy record.
LEMMA ResumeStores ==
  ASSUME TypeOK, SessInv, NEW t \in Tab, NEW c \in Call, Resume(t, c)
  PROVE  \/ UNCHANGED <<disk, v1>>
         \/ disk' \in Record /\ disk'.sealed = disk'.salt /\ UNCHANGED v1
         \/ UNCHANGED disk /\ v1' = Nil /\ call[t][c].pc \in {"orphan", "v1drop"}
         \/ disk' = Nil /\ UNCHANGED v1 /\ At(t, c, "delete")
<1> USE DEF tabVars
<1>1. CASE SaveVaultRecord(t, c)
  BY <1>1, SavesOpen DEF SaveVaultRecord, Put
<1>2. CASE MigrateSave(t, c) \/ CreateSave(t, c)
  <2>1. call[t][c].rec \in Record /\ call[t][c].rec.sealed = call[t][c].rec.salt
    BY <1>2, CallTypes DEF MigrateSave, CreateSave, At, SessInv, CallSess
  <2>2. QED
    BY <1>2, <2>1 DEF MigrateSave, CreateSave, Put
<1>3. CASE DeleteVaultRecord(t, c) \/ DeleteOrphan(t, c) \/ MigrateDrop(t, c)
  BY <1>3 DEF DeleteVaultRecord, DeleteOrphan, MigrateDrop, At
<1>4. QED
  BY <1>1, <1>2, <1>3 DEF Resume, Conflict, Refresh, Refreshed, UnlockLoad, UnlockOpen,
     UnlockFallBack, UnlockFail, MigrateSeal, CreateLoad, FirstSaveConflict, Load

\* What a step of the vault does to the two stored records.
LEMMA StepStores ==
  ASSUME TypeOK, SessInv, [Next]_vars
  PROVE  \/ UNCHANGED <<disk, v1>>
         \/ disk' \in Record /\ disk'.sealed = disk'.salt /\ UNCHANGED v1
         \/ /\ UNCHANGED disk /\ v1' = Nil
            /\ \E t \in Tab, c \in Call : call[t][c].pc \in {"orphan", "v1drop"}
         \/ /\ disk' = Nil
            /\ \/ UNCHANGED v1 /\ \E t \in Tab, c \in Call : At(t, c, "delete")
               \/ v1' = Nil /\ \E t \in Tab, c \in Call : DeleteAllRecords(t, c)
<1>1. CASE UNCHANGED vars
  BY <1>1 DEF vars
<1>2. CASE Next
  <2>1. PICK t \in Tab :
          \/ \E c \in Call : \/ Resume(t, c)
                             \/ OnVaultChanged(t, c)
                             \/ UserStep(t, c)
                             \/ StorageFails(t, c)
          \/ Lock(t) \/ Restart(t)
    BY <1>2 DEF Next
  <2>2. CASE \E c \in Call : Resume(t, c)
    BY <2>2, ResumeStores
  <2>3. CASE \E c \in Call : DeleteAllRecords(t, c)
    BY <2>3 DEF DeleteAllRecords
  <2>4. QED
    BY <2>1, <2>2, <2>3, MutateStores DEF UserStep, OnVaultChanged, StorageFails, Unlock,
       CreateVault, Lock, Restart
<1>3. QED
  BY <1>1, <1>2

LEMMA StaysKept ==
  ASSUME TypeOK, SessInv, KeptInv, Kept, [Next]_vars
  PROVE  Kept'
<1>1. \A t \in Tab, c \in Call : ~At(t, c, "delete")
  BY DEF KeptInv
<1>2. CASE UNCHANGED <<disk, v1>>
  BY <1>2 DEF Kept, Opens
<1>3. CASE disk' \in Record /\ disk'.sealed = disk'.salt
  BY <1>3, NilIsNothing DEF Kept, Opens
<1>4. CASE v1' = Nil
  BY <1>4 DEF Kept
<1>5. QED
  BY <1>1, <1>2, <1>3, <1>4, StepStores

\* A step of one call: where it goes may need what is stored to open.
LEMMA OneCallKept ==
  ASSUME TypeOK, SessInv, KeptInv, [Next]_vars, NEW t \in Tab, NEW c \in Call, NEW state,
         Goto(t, c, state), state.pc # "delete",
         state.pc \in {"orphan", "v1drop"} => Kept',
         state.pc = "kdf" /\ Decrypts(state.rec) => Kept'
  PROVE  KeptInv'
<1>1. \A u \in Tab, d \in Call :
        call'[u][d] = IF u = t /\ d = c THEN state ELSE call[u][d]
  BY GotoAt
<1>2. Kept => Kept'
  BY StaysKept
<1>3. QED
  BY <1>1, <1>2 DEF KeptInv, At, Decrypts, Opens

LEMMA ResumeKept ==
  ASSUME WritesLast, TypeOK, SessInv, KeptInv, NEW t \in Tab, NEW c \in Call, Resume(t, c)
  PROVE  KeptInv'
<1> USE DEF tabVars
<1>0. Next
  BY DEF Next
<1>1. ASSUME NEW state, Goto(t, c, state),
             state.pc \notin {"delete", "orphan", "v1drop", "kdf"}
      PROVE  KeptInv'
  BY <1>0, <1>1, OneCallKept
<1>2. CASE \/ SaveVaultRecord(t, c) \/ DeleteVaultRecord(t, c) \/ Conflict(t, c)
           \/ Refreshed(t, c) \/ UnlockFallBack(t, c) \/ UnlockFail(t, c)
           \/ DeleteOrphan(t, c) \/ MigrateDrop(t, c) \/ CreateSave(t, c)
           \/ FirstSaveConflict(t, c) \/ Load(t, c)
  BY <1>1, <1>2 DEF SaveVaultRecord, DeleteVaultRecord, Conflict, Refreshed, UnlockFallBack,
     UnlockFail, DeleteOrphan, MigrateDrop, CreateSave, FirstSaveConflict, Load, Idle
<1>3. CASE Refresh(t, c)
  <2>1. \E state : Goto(t, c, state) /\ state.pc \in {"idle", "decrypt"}
    BY <1>3 DEF Refresh, Idle
  <2>2. QED
    BY <1>1, <2>1
<1>4. CASE UnlockLoad(t, c)
  <2>1. CASE disk # Nil /\ Goto(t, c, [pc |-> "kdf", rec |-> disk])
    <3>1. Decrypts(disk) => Kept'
      BY <1>4, <2>1 DEF UnlockLoad, Kept, Decrypts
    <3>2. QED
      BY <1>0, <2>1, <3>1, OneCallKept
  <2>2. CASE ~(disk # Nil /\ Goto(t, c, [pc |-> "kdf", rec |-> disk]))
    <3>1. \E state : Goto(t, c, state) /\ state.pc \in {"idle", "v1seal"}
      BY <1>4, <2>2 DEF UnlockLoad, Idle
    <3>2. QED
      BY <1>1, <3>1
  <2>3. QED
    BY <2>1, <2>2
<1>5. CASE UnlockOpen(t, c)
  <2>1. Kept'
    BY <1>5 DEF UnlockOpen, KeptInv, Kept, Opens
  <2>2. PICK state : Goto(t, c, state) /\ state.pc \in {"idle", "orphan"}
    BY <1>5 DEF UnlockOpen, Idle
  <2>3. QED
    BY <1>0, <2>1, <2>2, OneCallKept
<1>6. CASE MigrateSeal(t, c)
  <2>1. \E state : Goto(t, c, state) /\ state.pc = "v1save"
    BY <1>6 DEF MigrateSeal
  <2>2. QED
    BY <1>1, <2>1
<1>7. CASE MigrateSave(t, c)
  <2>1. /\ disk' = call[t][c].rec
        /\ Goto(t, c, [pc |-> "v1drop", rec |-> call[t][c].rec])
    BY <1>7 DEF MigrateSave, Put, WritesLast
  <2>2. call[t][c].rec \in Record /\ call[t][c].rec.sealed = call[t][c].rec.salt
    BY <1>7, CallTypes DEF MigrateSave, At, SessInv, CallSess
  <2>3. Kept'
    BY <2>1, <2>2, NilIsNothing DEF Kept, Opens
  <2>4. QED
    BY <1>0, <2>1, <2>3, OneCallKept
<1>8. CASE CreateLoad(t, c)
  <2>1. CASE Goto(t, c, Idle)
    BY <1>1, <2>1 DEF Idle
  <2>2. CASE ~Goto(t, c, Idle)
    <3>1. PICK s \in Seed, n \in Name, b \in BOOLEAN :
            Goto(t, c, [pc |-> "createsave",
                        rec |-> FirstRecord(1, salts + 1, salts + 1, s, NewRow(n, b, FALSE))])
      BY <1>8, <2>2 DEF CreateLoad
    <3>2. QED
      BY <1>1, <3>1
  <2>3. QED
    BY <2>1, <2>2
<1>9. QED
  BY <1>2, <1>3, <1>4, <1>5, <1>6, <1>7, <1>8 DEF Resume

LEMMA StepKept ==
  ASSUME WritesLast, TypeOK, SessInv, KeptInv, [Next]_vars
  PROVE  KeptInv'
<1> USE DEF tabVars
<1>1. CASE UNCHANGED vars
  BY <1>1 DEF vars, KeptInv, Kept, At
<1>2. CASE Next
  <2>1. PICK t \in Tab :
          \/ \E c \in Call : \/ Resume(t, c)
                             \/ OnVaultChanged(t, c)
                             \/ UserStep(t, c)
                             \/ StorageFails(t, c)
          \/ Lock(t) \/ Restart(t)
    BY <1>2 DEF Next
  <2>2. ASSUME NEW c \in Call, Mutate(t, c) PROVE KeptInv'
    <3>1. \E state : Goto(t, c, state) /\ state.pc = "save"
      BY <2>2, MutateStores DEF WritesLast
    <3>2. QED
      BY <3>1, OneCallKept
  <2>3. ASSUME NEW c \in Call,
               \/ OnVaultChanged(t, c) \/ Unlock(t, c) \/ CreateVault(t, c)
               \/ DeleteAllRecords(t, c) \/ StorageFails(t, c)
        PROVE  KeptInv'
    <3>1. \E state : /\ Goto(t, c, state)
                     /\ state.pc \in {"idle", "reload", "load", "createload", "boot"}
      BY <2>3 DEF OnVaultChanged, Unlock, CreateVault, DeleteAllRecords, StorageFails, Idle
    <3>2. QED
      BY <3>1, OneCallKept
  <2>4. CASE Lock(t) \/ Restart(t)
    <3>1. UNCHANGED <<disk, v1>> /\ \A u \in Tab, d \in Call :
            call'[u][d] = call[u][d] \/ call'[u][d].pc \in {"boot", "idle"}
      BY <2>4 DEF Lock, Restart, TypeOK, Idle
    <3>2. QED
      BY <3>1 DEF KeptInv, Kept, At
  <2>5. QED
    BY <2>1, <2>2, <2>3, <2>4, ResumeKept DEF UserStep
<1>3. QED
  BY <1>1, <1>2

LEMMA InitKept == Init => KeptInv
BY DEF Init, Idle, KeptInv, At

\* Every record that is ever written opens under the key of its own salt (vault.js commit,
\* createVault, migrateV1), if the calls of one tab do not overlap.
THEOREM WhatIsWrittenOpens ==
  ASSUME NoOverlap
  PROVE  Spec => EveryWriteOpens
<1>1. TypeOK /\ SessInv /\ [Next]_vars => SessInv' /\ [disk' # Nil => disk'.sealed = disk'.salt]_disk
  BY StepSess, StepStores
<1>2. QED
  BY InitSess, <1>1, TypeCorrect, PTL DEF Spec, EveryWriteOpens

\* No wallet is stranded (vault.js migrateV1): while a profile holds a record its password
\* opens, no step leaves it without one, short of an erase. Migrations, their interruptions
\* and restarts of any number of tabs included, if the calls of one tab do not overlap, a
\* reported write is kept, and no last wallet is removed.
THEOREM SomethingAlwaysOpens ==
  ASSUME NoOverlap, WritesLast
  PROVE  Spec => SomethingOpens
<1> DEFINE Step == Opening => \/ Opening'
                              \/ \E t \in Tab, c \in Call :
                                   At(t, c, "delete") \/ DeleteAllRecords(t, c)
<1>1. TypeOK /\ SessInv /\ KeptInv /\ [Next]_vars => SessInv' /\ KeptInv' /\ [Step]_<<disk, v1>>
  <2> SUFFICES ASSUME TypeOK, SessInv, KeptInv, [Next]_vars, Opening
               PROVE  \/ Opening'
                      \/ \E t \in Tab, c \in Call : At(t, c, "delete") \/ DeleteAllRecords(t, c)
    BY StepSess, StepKept
  <2>1. CASE UNCHANGED <<disk, v1>>
    BY <2>1 DEF Opening, Opens
  <2>2. CASE disk' \in Record /\ disk'.sealed = disk'.salt
    BY <2>2, NilIsNothing DEF Opening, Opens
  <2>3. CASE /\ UNCHANGED disk /\ v1' = Nil
             /\ \E t \in Tab, c \in Call : call[t][c].pc \in {"orphan", "v1drop"}
    <3>1. Kept
      BY <2>3 DEF KeptInv
    <3>2. QED
      BY <2>3, <3>1 DEF Kept, Opening, Opens
  <2>4. QED
    BY <2>1, <2>2, <2>3, StepStores
<1>2. QED
  BY InitSess, InitKept, <1>1, TypeCorrect, PTL DEF Spec, SomethingOpens

-----------------------------------------------------------------------------
(* The vault is its list of wallets *)

\* A profile that holds a vault from the start, whose tabs run one call at a time; no vault
\* is created, none is erased from the locked screen, and a reported write is kept.
Serial ==
  /\ NoOverlap
  /\ Start \subseteq {"vault"}
  /\ "abort" \notin Faults
  /\ "create" \notin UserOps /\ "erase" \notin UserOps

-----------------------------------------------------------------------------
(* ... what a list is *)

Listed(m) == {w \in Seed : m.wallets[w] # Nil}

\* The secrets hold the wallets of the list and no others; one of them is active, and
\* their names differ.
Fits(m, x) ==
  /\ Listed(m) = x.mnemonics
  /\ {w \in Listed(m) : m.wallets[w].derived} = x.sources
  /\ m.activeId \in Listed(m)
  /\ \A v, w \in Listed(m) : m.wallets[v].name = m.wallets[w].name => v = w

Moves(old, new) ==
  /\ old.backedUp => new.backedUp
  /\ old.derived => new.derived
  /\ old.receiveIndex <= new.receiveIndex

\* The list of m has become that of n by one operation.
PutsARow(m, n, s) ==
  /\ n.wallets[s] # Nil /\ n.wallets = [m.wallets EXCEPT ![s] = n.wallets[s]]
  /\ m.wallets[s] # Nil => Moves(m.wallets[s], n.wallets[s])
  /\ n.activeId = m.activeId
TakesARow(m, n, s) ==
  /\ m.wallets[s] # Nil /\ n.wallets = [m.wallets EXCEPT ![s] = Nil]
  /\ m.activeId # s => n.activeId = m.activeId
Activates(m, n) == n.wallets = m.wallets
OneOperation(m, n) ==
  Activates(m, n) \/ \E s \in Seed : PutsARow(m, n, s) \/ TakesARow(m, n, s)

\* A wallet is backed up, or gets a source, for good.
LEMMA FlagsMove ==
  ASSUME NEW r \in Row
  PROVE  /\ BackedUp(r).name = r.name /\ BackedUp(r).derived = r.derived
         /\ Derived(r).name = r.name /\ Derived(r).derived = TRUE
         /\ Moves(r, BackedUp(r)) /\ Moves(r, Derived(r))
<1>1. r.receiveIndex <= r.receiveIndex
  BY DEF Row
<1>2. /\ BackedUp(r).name = r.name /\ BackedUp(r).derived = r.derived
      /\ BackedUp(r).backedUp = TRUE /\ BackedUp(r).receiveIndex = r.receiveIndex
      /\ Derived(r).name = r.name /\ Derived(r).derived = TRUE
      /\ Derived(r).backedUp = r.backedUp /\ Derived(r).receiveIndex = r.receiveIndex
  BY DEF BackedUp, Derived, MakeRow
<1> QED
  BY <1>1, <1>2, Zenon DEF Moves

LEMMA PutFits ==
  ASSUME NEW m \in Meta, NEW x \in Secrets, Fits(m, x), NEW s \in Seed, NEW row \in Row,
         \A w \in Listed(m) \ {s} : m.wallets[w].name # row.name,
         m.wallets[s] # Nil => Moves(m.wallets[s], row),
         NEW n, n = MakeMeta(m.activeId, [m.wallets EXCEPT ![s] = row]),
         NEW y \in Secrets, y.mnemonics = x.mnemonics \cup {s},
         y.sources = IF row.derived THEN x.sources \cup {s} ELSE x.sources \ {s}
  PROVE  Fits(n, y) /\ OneOperation(m, n)
<1>1. row # Nil /\ m.wallets \in [Seed -> Row \cup {Nil}]
  BY NilIsNothing DEF Meta
<1>2. /\ n.activeId = m.activeId /\ n.wallets = [m.wallets EXCEPT ![s] = row]
      /\ n.wallets[s] = row /\ \A w \in Seed \ {s} : n.wallets[w] = m.wallets[w]
  BY <1>1 DEF MakeMeta
<1>3. Listed(n) = Listed(m) \cup {s}
  BY <1>1, <1>2 DEF Listed
<1>4. Listed(n) = y.mnemonics /\ n.activeId \in Listed(n)
  BY <1>2, <1>3 DEF Fits
<1>5. {w \in Listed(n) : n.wallets[w].derived} = y.sources
  <2>1. \A w \in Seed \ {s} : w \in Listed(n) <=> w \in Listed(m)
    BY <1>3
  <2>2. \A w \in Seed \ {s} : w \in y.sources <=> w \in x.sources
    OBVIOUS
  <2>3. \A w \in Seed \ {s} : w \in x.sources <=> w \in Listed(m) /\ m.wallets[w].derived
    BY DEF Fits
  <2>4. s \in y.sources <=> row.derived
    OBVIOUS
  <2>5. y.sources \subseteq Seed /\ Listed(n) \subseteq Seed
    BY DEF Secrets, Listed
  <2> QED
    BY <1>2, <1>3, <2>1, <2>2, <2>3, <2>4, <2>5
<1>6. \A v, w \in Listed(n) : n.wallets[v].name = n.wallets[w].name => v = w
  BY <1>2, <1>3 DEF Fits, Listed
<1>7. PutsARow(m, n, s)
  BY <1>1, <1>2 DEF PutsARow
<1> QED
  BY <1>4, <1>5, <1>6, <1>7 DEF Fits, OneOperation

LEMMA TakeFits ==
  ASSUME NEW m \in Meta, NEW x \in Secrets, Fits(m, x), NEW s \in Listed(m),
         NEW heir \in Listed(m) \ {s}, m.activeId # s => heir = m.activeId,
         NEW n, n = MakeMeta(heir, [m.wallets EXCEPT ![s] = Nil]),
         NEW y, y.mnemonics = x.mnemonics \ {s}, y.sources = x.sources \ {s}
  PROVE  Fits(n, y) /\ OneOperation(m, n)
<1>1. s \in Seed /\ m.wallets[s] # Nil /\ m.wallets \in [Seed -> Row \cup {Nil}]
  BY DEF Listed, Meta
<1>2. /\ n.activeId = heir /\ n.wallets = [m.wallets EXCEPT ![s] = Nil]
      /\ n.wallets[s] = Nil /\ \A w \in Seed \ {s} : n.wallets[w] = m.wallets[w]
  BY <1>1 DEF MakeMeta
<1>3. Listed(n) = Listed(m) \ {s}
  BY <1>1, <1>2 DEF Listed
<1>4. Listed(n) = y.mnemonics /\ n.activeId \in Listed(n)
  BY <1>2, <1>3 DEF Fits
<1>5. {w \in Listed(n) : n.wallets[w].derived} = y.sources
  BY <1>2, <1>3 DEF Fits, Listed
<1>6. \A v, w \in Listed(n) : n.wallets[v].name = n.wallets[w].name => v = w
  BY <1>2, <1>3 DEF Fits, Listed
<1>7. TakesARow(m, n, s)
  BY <1>1, <1>2 DEF TakesARow
<1> QED
  BY <1>1, <1>4, <1>5, <1>6, <1>7 DEF Fits, OneOperation

LEMMA ActivateFits ==
  ASSUME NEW m \in Meta, NEW x \in Secrets, Fits(m, x), NEW s \in Listed(m)
  PROVE  /\ Fits(MakeMeta(s, m.wallets), x)
         /\ OneOperation(m, MakeMeta(s, m.wallets)) /\ OneOperation(m, m)
BY DEF Fits, Listed, MakeMeta, OneOperation, Activates

-----------------------------------------------------------------------------
(* ... what is true of every record *)

\* What every record is: sealed under its salt's key, over a list its secrets fit.
Sound(r) == r.rev >= 1 /\ r.salt = 1 /\ r.sealed = 1 /\ Fits(r.meta, r.secrets)

\* Where a record r is against what is stored, d: no matter once nothing is.
Tracks(r, d) == d # Nil => Behind(r, d)

CallInv(t, c) ==
  /\ call[t][c].pc \in {"idle", "load", "boot", "reload", "kdf", "decrypt", "save", "delete"}
  /\ call[t][c].pc \in {"load", "boot", "kdf"} => Locked(t)
  /\ call[t][c].pc \in {"kdf", "decrypt"} => call[t][c].rec = record[t]
  /\ At(t, c, "decrypt") => call[t][c].key = 1
  /\ call[t][c].pc \in {"save", "delete"} =>
       Sound(call[t][c].from) /\ Tracks(call[t][c].from, disk)
  /\ At(t, c, "save") => /\ Sound(NextRecord(call[t][c]))
                         /\ OneOperation(call[t][c].from.meta, call[t][c].meta)

\* An unlocked tab shows the secrets of its own copy, except while it refreshes them.
TabInv(t) ==
  /\ primary[t] = Nil /\ key[t] \in {NoKey, 1}
  /\ record[t] # Nil => Sound(record[t]) /\ Tracks(record[t], disk)
  /\ ~Locked(t) /\ (\A c \in Call : ~At(t, c, "decrypt"))
       => record[t] # Nil /\ secrets[t] = record[t].secrets

StoreInv ==
  /\ v1 = Nil /\ (disk # Nil => Sound(disk))
  /\ \A t \in Tab : TabInv(t) /\ \A c \in Call : CallInv(t, c)

-----------------------------------------------------------------------------
(* ... what a step keeps *)

\* With one call a tab, what the tab does is all that can disturb it.
LEMMA OneTab ==
  ASSUME Serial, TypeOK, StoreInv, NEW t \in Tab, NEW c \in Call, NEW state,
         Goto(t, c, state), v1' = Nil, disk' # Nil => Sound(disk'),
         \A r \in Record : Tracks(r, disk) => Tracks(r, disk'),
         \A u \in Tab \ {t} : /\ record'[u] = record[u] /\ primary'[u] = primary[u]
                              /\ key'[u] = key[u] /\ secrets'[u] = secrets[u],
         TabInv(t)', CallInv(t, c)'
  PROVE  StoreInv'
<1>1. \A u \in Tab \ {t}, d \in Call : call'[u][d] = call[u][d]
  BY GotoAt
<1>2. ASSUME NEW u \in Tab \ {t} PROVE TabInv(u)'
  <2>1. record[u] # Nil => record[u] \in Record
    BY DEF TypeOK
  <2>2. TabInv(u)
    BY DEF StoreInv
  <2> QED
    BY <1>1, <2>1, <2>2 DEF TabInv, Locked, At
<1>3. ASSUME NEW u \in Tab \ {t}, NEW d \in Call PROVE CallInv(u, d)'
  <2>1. call[u][d].pc \in {"save", "delete"} => call[u][d].from \in Record
    BY CallTypes DEF At
  <2>2. CallInv(u, d)
    BY DEF StoreInv
  <2> QED
    BY <1>1, <2>1, <2>2 DEF CallInv, Locked, At
<1>4. \A d \in Call : d = c
  BY DEF Serial, NoOverlap
<1> QED
  BY <1>2, <1>3, <1>4 DEF StoreInv

\* Steps that leave what is stored alone.
LEMMA OneTabReads ==
  ASSUME Serial, TypeOK, StoreInv, NEW t \in Tab, NEW c \in Call, NEW state,
         Goto(t, c, state), disk' = disk, v1' = v1,
         \A u \in Tab \ {t} : /\ record'[u] = record[u] /\ primary'[u] = primary[u]
                              /\ key'[u] = key[u] /\ secrets'[u] = secrets[u],
         TabInv(t)', CallInv(t, c)'
  PROVE  StoreInv'
BY OneTab DEF StoreInv

\* A mutation computes the next record from the tab's own copy.
LEMMA CommitKeeps ==
  ASSUME Serial, TypeOK, StoreInv, NEW t \in Tab, NEW c \in Call, Mutable(t),
         NEW m, NEW x, NEW drop, Commit(t, c, m, x, drop),
         Fits(m, x), OneOperation(record[t].meta, m)
  PROVE  StoreInv'
<1> DEFINE state == [pc |-> "save", from |-> record[t], key |-> key[t],
                     meta |-> m, secrets |-> x, drop |-> drop]
<1>1. Goto(t, c, state) /\ UNCHANGED <<disk, v1, record, primary, key, secrets>>
  BY DEF Commit, tabVars
<1>2. /\ key[t] = 1 /\ record[t] \in Record /\ Sound(record[t]) /\ Tracks(record[t], disk)
  BY DEF Mutable, StoreInv, TabInv, TypeOK
<1>3. call'[t][c] = state /\ \A d \in Call : d = c
  BY <1>1, GotoAt DEF Serial, NoOverlap
<1>4. TabInv(t)'
  BY <1>1, <1>3 DEF StoreInv, TabInv, Locked, At, Commit, Serial, NoOverlap
<1>5. Sound(NextRecord(state))
  BY <1>2 DEF Sound, NextRecord, Record
<1>6. CallInv(t, c)'
  <2> HIDE DEF state
  <2>1. state.pc = "save" /\ state.from = record[t] /\ state.meta = m
    BY DEF state
  <2> QED
    BY <1>1, <1>2, <1>3, <1>5, <2>1 DEF CallInv, At
<1> QED
  BY <1>1, <1>4, <1>6, OneTabReads

LEMMA MutateKeeps ==
  ASSUME Serial, TypeOK, StoreInv, NEW t \in Tab, NEW c \in Call, Mutate(t, c)
  PROVE  StoreInv'
<1> PICK s \in Seed :
      \/ \E n \in Name, how \in UserOps : AddWallet(t, c, s, n, how)
      \/ UpgradeSource(t, c, s)
      \/ \E n \in Name : RenameWallet(t, c, s, n)
      \/ RemoveWallet(t, c, s)
      \/ SetActive(t, c, s)
      \/ SetBackedUp(t, c, s)
      \/ \E i \in 1..MaxIndex : SetReceiveIndex(t, c, s, i)
      \/ RemoveLastWallet(t, c, s)
  BY DEF Mutate
<1> DEFINE m == record[t].meta
           x == secrets[t]
<1>0. Mutable(t) /\ At(t, c, "idle") =>
        /\ record[t] \in Record /\ m \in Meta /\ x \in Secrets /\ Fits(m, x)
        /\ Sound(record[t]) /\ Tracks(record[t], disk)
        /\ Ids(record[t]) = Listed(m)
        /\ \A w \in Listed(m) : m.wallets[w] \in Row
  <2>1. Mutable(t) /\ At(t, c, "idle") =>
          /\ record[t] \in Record /\ x = record[t].secrets /\ Sound(record[t])
          /\ Tracks(record[t], disk)
    BY DEF Mutable, TypeOK, StoreInv, TabInv, Locked, Serial, NoOverlap, At
  <2> QED
    BY <2>1 DEF Sound, Record, Meta, Ids, Listed
\* Putting one row, new or changed, with what the secrets then are.
<1>p. ASSUME NEW row \in Row, NEW y \in Secrets, Mutable(t), NEW drop,
             Commit(t, c, WithRow(t, s, row), y, drop),
             \A w \in Listed(m) \ {s} : m.wallets[w].name # row.name,
             m.wallets[s] # Nil => Moves(m.wallets[s], row),
             y.mnemonics = x.mnemonics \cup {s},
             y.sources = IF row.derived THEN x.sources \cup {s} ELSE x.sources \ {s}
      PROVE  StoreInv'
  <2>1. Fits(WithRow(t, s, row), y) /\ OneOperation(m, WithRow(t, s, row))
    BY <1>p, <1>0, PutFits DEF WithRow, Commit
  <2> QED
    BY <1>p, <2>1, CommitKeeps
\* The row of a wallet of the list, changed in anything but its name or source.
<1>r. ASSUME NEW row \in Row, Mutable(t), s \in Ids(record[t]),
             Commit(t, c, WithRow(t, s, row), x, {}),
             \A w \in Listed(m) \ {s} : m.wallets[w].name # row.name,
             Moves(OldRow(t, s), row), row.derived = OldRow(t, s).derived
      PROVE  StoreInv'
  <2>1. s \in x.mnemonics /\ (s \in x.sources <=> row.derived) /\ x \in Secrets
    BY <1>r, <1>0 DEF Fits, OldRow, Commit
  <2>2. x.mnemonics = x.mnemonics \cup {s}
        /\ x.sources = IF row.derived THEN x.sources \cup {s} ELSE x.sources \ {s}
    BY <2>1
  <2> QED
    BY <1>r, <1>p, <2>1, <2>2 DEF OldRow
<1>1. ASSUME NEW n \in Name, NEW how \in UserOps, AddWallet(t, c, s, n, how)
      PROVE  StoreInv'
  <2> DEFINE row == NewRow(n, how = "restore", how = "derive")
             y == [mnemonics |-> x.mnemonics \cup {s},
                   sources |-> IF how = "derive" THEN x.sources \cup {s} ELSE x.sources]
  <2>1. /\ Mutable(t) /\ At(t, c, "idle") /\ s \notin x.mnemonics \cup Ids(record[t])
        /\ NameFree(t, n, s) /\ Commit(t, c, WithRow(t, s, row), y, {})
    BY <1>1 DEF AddWallet, Commit
  <2>2. row \in Row /\ row.name = n /\ row.derived = (how = "derive")
    BY RowType DEF NewRow, MakeRow
  <2>3. s \notin x.sources
    BY <2>1, <1>0 DEF Fits
  <2>4. y \in Secrets
    BY <2>1, <1>0 DEF Secrets
  <2>5. m.wallets[s] = Nil
    BY <2>1, <1>0 DEF Listed
  <2>6. \A w \in Listed(m) \ {s} : m.wallets[w].name # row.name
    BY <2>1, <2>2, <1>0 DEF NameFree
  <2>7. y.mnemonics = x.mnemonics \cup {s}
        /\ y.sources = IF row.derived THEN x.sources \cup {s} ELSE x.sources \ {s}
    BY <2>2, <2>3
  <2> HIDE DEF row, y
  <2> QED
    BY <2>1, <2>2, <2>4, <2>5, <2>6, <2>7, <1>p
<1>2. ASSUME UpgradeSource(t, c, s) PROVE StoreInv'
  <2> DEFINE row == Derived(OldRow(t, s))
             y == [mnemonics |-> x.mnemonics, sources |-> x.sources \cup {s}]
  <2>1. Mutable(t) /\ s \in x.mnemonics \ x.sources /\ At(t, c, "idle")
    BY <1>2 DEF UpgradeSource, Commit
  <2>2. s \in Ids(record[t]) /\ OldRow(t, s) \in Row /\ OldRow(t, s) = m.wallets[s]
        /\ s \in Listed(m)
    BY <2>1, <1>0 DEF Fits, OldRow
  <2>3. Commit(t, c, WithRow(t, s, row), y, {})
    BY <1>2, <2>2 DEF UpgradeSource
  <2>4. /\ row \in Row /\ row.name = m.wallets[s].name /\ row.derived
        /\ Moves(m.wallets[s], row)
    BY <2>2, RowType, FlagsMove
  <2>5. \A w \in Listed(m) \ {s} : m.wallets[w].name # row.name
    BY <2>1, <2>2, <2>4, <1>0 DEF Fits
  <2>6. y \in Secrets /\ y.mnemonics = x.mnemonics \cup {s} /\ y.sources = x.sources \cup {s}
    BY <2>1, <1>0 DEF Secrets
  <2> HIDE DEF row, y
  <2> QED
    BY <2>1, <2>3, <2>4, <2>5, <2>6, <1>p
<1>3. ASSUME NEW n \in Name, RenameWallet(t, c, s, n) PROVE StoreInv'
  <2> DEFINE row == Renamed(OldRow(t, s), n)
  <2>1. /\ Mutable(t) /\ At(t, c, "idle") /\ s \in Ids(record[t]) /\ NameFree(t, n, s)
        /\ Commit(t, c, WithRow(t, s, row), x, {})
    BY <1>3 DEF RenameWallet, Commit
  <2>2. OldRow(t, s) \in Row
    BY <2>1, <1>0 DEF OldRow
  <2>3. /\ row \in Row /\ row.name = n /\ row.derived = OldRow(t, s).derived
        /\ Moves(OldRow(t, s), row)
    BY <2>2, RowType DEF Renamed, MakeRow, Moves, Row
  <2>4. \A w \in Listed(m) \ {s} : m.wallets[w].name # row.name
    BY <2>1, <2>3, <1>0 DEF NameFree
  <2> HIDE DEF row
  <2> QED
    BY <2>1, <2>3, <2>4, <1>r
<1>4. ASSUME RemoveWallet(t, c, s) PROVE StoreInv'
  <2>1. /\ Mutable(t) /\ At(t, c, "idle") /\ s \in Ids(record[t])
        /\ \E heir \in Heirs(t, s) :
             Commit(t, c, MakeMeta(heir, [m.wallets EXCEPT ![s] = Nil]), Without(t, s), {s})
    BY <1>4 DEF RemoveWallet, Commit
  <2>2. PICK heir \in Heirs(t, s) :
          Commit(t, c, MakeMeta(heir, [m.wallets EXCEPT ![s] = Nil]), Without(t, s), {s})
    BY <2>1
  <2>3. heir \in Listed(m) \ {s} /\ (m.activeId # s => heir = m.activeId)
    BY <2>1, <1>0 DEF Heirs, Fits
  <2>4. Without(t, s).mnemonics = x.mnemonics \ {s} /\ Without(t, s).sources = x.sources \ {s}
    BY DEF Without
  <2>5. /\ Fits(MakeMeta(heir, [m.wallets EXCEPT ![s] = Nil]), Without(t, s))
        /\ OneOperation(m, MakeMeta(heir, [m.wallets EXCEPT ![s] = Nil]))
    BY <2>1, <2>3, <2>4, <1>0, TakeFits
  <2> QED
    BY <2>1, <2>2, <2>5, CommitKeeps
<1>5. ASSUME SetActive(t, c, s) PROVE StoreInv'
  <2>1. Mutable(t) /\ At(t, c, "idle") /\ s \in Ids(record[t])
        /\ Commit(t, c, MakeMeta(s, m.wallets), x, {})
    BY <1>5 DEF SetActive, Commit
  <2>2. Fits(MakeMeta(s, m.wallets), x) /\ OneOperation(m, MakeMeta(s, m.wallets))
    BY <2>1, <1>0, ActivateFits
  <2> QED
    BY <2>1, <2>2, CommitKeeps
<1>6. ASSUME SetBackedUp(t, c, s) PROVE StoreInv'
  <2> DEFINE row == BackedUp(OldRow(t, s))
  <2>1. /\ Mutable(t) /\ At(t, c, "idle") /\ s \in Ids(record[t])
        /\ Commit(t, c, WithRow(t, s, row), x, {})
    BY <1>6 DEF SetBackedUp, Commit
  <2>2. OldRow(t, s) \in Row /\ OldRow(t, s) = m.wallets[s]
    BY <2>1, <1>0 DEF OldRow
  <2>3. /\ row \in Row /\ row.name = m.wallets[s].name /\ row.derived = OldRow(t, s).derived
        /\ Moves(OldRow(t, s), row)
    BY <2>2, RowType, FlagsMove
  <2>4. \A w \in Listed(m) \ {s} : m.wallets[w].name # row.name
    BY <2>1, <2>3, <1>0 DEF Fits
  <2> HIDE DEF row
  <2> QED
    BY <2>1, <2>3, <2>4, <1>r
<1>7. ASSUME NEW i \in 1..MaxIndex, SetReceiveIndex(t, c, s, i) PROVE StoreInv'
  <2> DEFINE row == HandedOut(OldRow(t, s), i)
  <2>1. /\ Mutable(t) /\ At(t, c, "idle") /\ s \in Ids(record[t])
        /\ i > OldRow(t, s).receiveIndex
        /\ Commit(t, c, WithRow(t, s, row), x, {})
    BY <1>7 DEF SetReceiveIndex, Commit
  <2>2. OldRow(t, s) \in Row /\ OldRow(t, s) = m.wallets[s] /\ i \in Nat
    BY <2>1, <1>0 DEF OldRow
  <2>3. /\ row \in Row /\ row.name = m.wallets[s].name /\ row.derived = OldRow(t, s).derived
        /\ Moves(OldRow(t, s), row)
    BY <2>1, <2>2, RowType DEF HandedOut, MakeRow, Moves, Row
  <2>4. \A w \in Listed(m) \ {s} : m.wallets[w].name # row.name
    BY <2>1, <2>3, <1>0 DEF Fits
  <2> HIDE DEF row
  <2> QED
    BY <2>1, <2>3, <2>4, <1>r
<1>8. ASSUME RemoveLastWallet(t, c, s) PROVE StoreInv'
  <2> DEFINE state == [pc |-> "delete", from |-> record[t]]
  <2>1. /\ Mutable(t) /\ At(t, c, "idle") /\ Goto(t, c, state)
        /\ UNCHANGED <<disk, v1, record, primary, key, secrets>>
    BY <1>8 DEF RemoveLastWallet, tabVars
  <2>2. call'[t][c] = state /\ \A d \in Call : d = c
    BY <2>1, GotoAt DEF Serial, NoOverlap
  <2>3. TabInv(t)'
    BY <2>1, <2>2 DEF StoreInv, TabInv, Locked, At
  <2>4. CallInv(t, c)'
    BY <2>1, <2>2, <1>0 DEF CallInv, At
  <2> QED
    BY <2>1, <2>3, <2>4, OneTabReads
<1> QED
  BY <1>1, <1>2, <1>3, <1>4, <1>5, <1>6, <1>7, <1>8

\* A save that passes the check replaces the record it was computed from.
LEMMA SaveReplaces ==
  ASSUME Serial, TypeOK, StoreInv, NEW t \in Tab, NEW c \in Call, SaveVaultRecord(t, c)
  PROVE  /\ disk \in Record /\ disk # Nil /\ Sound(disk) /\ disk = call[t][c].from
         /\ disk' = NextRecord(call[t][c]) /\ disk' \in Record /\ disk' # Nil /\ Sound(disk')
         /\ OneOperation(disk.meta, disk'.meta) /\ Rev(disk) + 1 = disk'.rev
<1> DEFINE me == call[t][c]
<1>1. /\ me.from \in Record /\ me.key \in Nat /\ me.meta \in Meta /\ me.secrets \in Secrets
      /\ me.from.rev \in Nat /\ me.from.salt \in Nat
  BY CallTypes DEF SaveVaultRecord, Record
<1>2. /\ Sound(me.from) /\ Tracks(me.from, disk) /\ Sound(NextRecord(me))
      /\ OneOperation(me.from.meta, me.meta)
  BY DEF SaveVaultRecord, StoreInv, CallInv, At
<1>3. Rev(disk) = me.from.rev
  BY DEF SaveVaultRecord, StillAt
<1>4. disk # Nil
  BY <1>1, <1>2, <1>3 DEF Rev, Sound
<1>5. disk = me.from /\ disk \in Record
  BY <1>1, <1>2, <1>3, <1>4, NilIsNothing DEF Tracks, Behind
<1>6. disk' = NextRecord(me)
  BY DEF SaveVaultRecord, Put, Serial, NoOverlap
<1>7. NextRecord(me) \in Record /\ NextRecord(me) # Nil
  BY <1>1, NilIsNothing DEF NextRecord, Record
<1>8. NextRecord(me).meta = me.meta /\ NextRecord(me).rev = me.from.rev + 1
  BY DEF NextRecord
<1> QED
  BY <1>1, <1>2, <1>3, <1>4, <1>5, <1>6, <1>7, <1>8

\* A delete that passes the check removes the record its tab saw.
LEMMA DeleteRemoves ==
  ASSUME Serial, TypeOK, StoreInv, NEW t \in Tab, NEW c \in Call, DeleteVaultRecord(t, c)
  PROVE  disk = call[t][c].from /\ disk # Nil /\ disk' = Nil
<1>1. call[t][c].from \in Record
  BY CallTypes DEF DeleteVaultRecord
<1>2. Sound(call[t][c].from) /\ Tracks(call[t][c].from, disk)
  BY DEF DeleteVaultRecord, StoreInv, CallInv, At
<1>3. Rev(disk) = call[t][c].from.rev
  BY DEF DeleteVaultRecord, StillAt
<1>4. disk # Nil
  BY <1>1, <1>2, <1>3 DEF Rev, Sound, Record
<1> QED
  BY <1>1, <1>2, <1>3, <1>4, NilIsNothing DEF Tracks, Behind, DeleteVaultRecord

LEMMA ResumeKeeps ==
  ASSUME Serial, TypeOK, StoreInv, NEW t \in Tab, NEW c \in Call, Resume(t, c)
  PROVE  StoreInv'
<1> USE DEF tabVars
<1>c. CallInv(t, c) /\ TabInv(t) /\ \A d \in Call : d = c
  BY DEF StoreInv, Serial, NoOverlap
<1>d. /\ v1 = Nil /\ disk \in Record \cup {Nil} /\ (disk # Nil => Sound(disk))
      /\ Tracks(disk, disk)
  BY BehindItself DEF StoreInv, TypeOK, Tracks
<1>g. \A state : Goto(t, c, state) => call'[t][c] = state
  BY GotoAt
<1>k. CopyStored(t) =>
        /\ record'[t] = disk /\ primary'[t] = Nil
        /\ \A u \in Tab \ {t} : record'[u] = record[u] /\ primary'[u] = primary[u]
  BY <1>d DEF CopyStored, TypeOK
<1>1. ASSUME SaveVaultRecord(t, c) PROVE StoreInv'
  <2> DEFINE saved == NextRecord(call[t][c])
  <2>1. /\ disk \in Record /\ disk' = saved /\ saved \in Record /\ Sound(saved)
        /\ Rev(disk) + 1 = saved.rev
    BY <1>1, SaveReplaces
  <2>2. /\ record' = [record EXCEPT ![t] = saved]
        /\ secrets' = [secrets EXCEPT ![t] = saved.secrets]
        /\ UNCHANGED <<v1, primary, key>> /\ Goto(t, c, Idle)
    BY <1>1 DEF SaveVaultRecord, NextRecord
  <2>3. \A r \in Record : Tracks(r, disk) => Tracks(r, disk')
    <3> SUFFICES ASSUME NEW r \in Record, Behind(r, disk) PROVE Behind(r, saved)
      BY <2>1, NilIsNothing DEF Tracks
    <3> QED
      BY <2>1, NextRevision
  <2> HIDE DEF saved
  <2>4. Tracks(saved, saved) /\ saved # Nil
    BY <2>1, BehindItself, NilIsNothing DEF Tracks
  <2>5. /\ record'[t] = saved /\ secrets'[t] = saved.secrets
        /\ \A u \in Tab \ {t} : record'[u] = record[u] /\ secrets'[u] = secrets[u]
    BY <2>2 DEF TypeOK
  <2>6. TabInv(t)'
    BY <2>1, <2>2, <2>4, <2>5, <1>c DEF TabInv
  <2>7. CallInv(t, c)'
    BY <2>2, <1>g DEF CallInv, At, Idle
  <2> QED
    BY <2>1, <2>2, <2>3, <2>5, <2>6, <2>7, <1>d, OneTab
<1>2. ASSUME DeleteVaultRecord(t, c) PROVE StoreInv'
  <2>1. /\ disk' = Nil /\ Goto(t, c, Idle) /\ UNCHANGED <<v1, primary>>
        /\ record' = [record EXCEPT ![t] = Nil] /\ key' = [key EXCEPT ![t] = NoKey]
        /\ secrets' = [secrets EXCEPT ![t] = Nil]
    BY <1>2 DEF DeleteVaultRecord
  <2>2. /\ record'[t] = Nil /\ key'[t] = NoKey
        /\ \A u \in Tab \ {t} : /\ record'[u] = record[u] /\ secrets'[u] = secrets[u]
                                /\ key'[u] = key[u]
    BY <2>1 DEF TypeOK
  <2>3. \A r \in Record : Tracks(r, disk')
    BY <2>1 DEF Tracks
  <2>4. TabInv(t)'
    BY <2>1, <2>2, <1>c DEF TabInv, Locked
  <2>5. CallInv(t, c)'
    BY <2>1, <1>g DEF CallInv, At, Idle
  <2> QED
    BY <2>1, <2>2, <2>3, <2>4, <2>5, <1>d, OneTab
<1>3. ASSUME Conflict(t, c) PROVE StoreInv'
  <2>1. /\ UNCHANGED <<disk, v1, record, primary, key, secrets>>
        /\ Goto(t, c, [pc |-> "reload"]) /\ call[t][c].pc \in {"save", "delete"}
    BY <1>3 DEF Conflict
  <2>2. TabInv(t)' /\ CallInv(t, c)'
    BY <2>1, <1>c, <1>g DEF TabInv, CallInv, At, Locked
  <2> QED
    BY <2>1, <2>2, OneTabReads
<1>4. ASSUME Refresh(t, c) PROVE StoreInv'
  <2>1. CopyStored(t) /\ UNCHANGED <<disk, v1>> /\ At(t, c, "reload")
    BY <1>4 DEF Refresh
  <2>2. CASE Locked(t) /\ Goto(t, c, Idle) /\ UNCHANGED <<key, secrets>>
    <3>1. TabInv(t)' /\ CallInv(t, c)'
      BY <2>1, <2>2, <1>c, <1>d, <1>g, <1>k DEF TabInv, CallInv, At, Locked, Idle
    <3> QED
      BY <2>1, <2>2, <3>1, <1>k, OneTabReads
  <2>3. CASE /\ disk = Nil /\ key' = [key EXCEPT ![t] = NoKey]
             /\ secrets' = [secrets EXCEPT ![t] = Nil] /\ Goto(t, c, Idle)
    <3>1. /\ key'[t] = NoKey
          /\ \A u \in Tab \ {t} : key'[u] = key[u] /\ secrets'[u] = secrets[u]
      BY <2>3 DEF TypeOK
    <3>2. TabInv(t)' /\ CallInv(t, c)'
      BY <2>1, <2>3, <3>1, <1>c, <1>g, <1>k DEF TabInv, CallInv, At, Locked, Idle
    <3> QED
      BY <2>1, <2>3, <3>1, <3>2, <1>k, OneTabReads
  <2>4. CASE /\ ~Locked(t) /\ disk # Nil /\ UNCHANGED <<key, secrets>>
             /\ Goto(t, c, [pc |-> "decrypt", rec |-> disk, key |-> key[t]])
    <3>1. key[t] = 1
      BY <2>4, <1>c DEF TabInv, Locked
    <3>2. At(t, c, "decrypt")'
      BY <2>4, <1>g DEF At
    <3>3. TabInv(t)'
      BY <2>1, <2>4, <3>2, <1>c, <1>d, <1>k DEF TabInv
    <3>4. CallInv(t, c)'
      BY <2>1, <2>4, <3>1, <1>g, <1>k DEF CallInv, At
    <3> QED
      BY <2>1, <2>4, <3>3, <3>4, <1>k, OneTabReads
  <2> QED
    BY <1>4, <2>2, <2>3, <2>4 DEF Refresh
<1>5. ASSUME Refreshed(t, c) PROVE StoreInv'
  <2> DEFINE rec == call[t][c].rec
  <2>1. /\ UNCHANGED <<disk, v1, record, primary>> /\ Goto(t, c, Idle) /\ At(t, c, "decrypt")
        /\ rec = record[t] /\ record[t] \in Record /\ Sound(record[t]) /\ call[t][c].key = 1
    BY <1>5, <1>c, CallTypes, NilIsNothing DEF Refreshed, CallInv, TabInv, At
  <2>2. Opens(rec, call[t][c].key)
    BY <2>1 DEF Opens, Sound
  <2>3. secrets' = [secrets EXCEPT ![t] = record[t].secrets] /\ UNCHANGED key
    BY <1>5, <2>1, <2>2 DEF Refreshed
  <2>4. /\ secrets'[t] = record[t].secrets
        /\ \A u \in Tab \ {t} : secrets'[u] = secrets[u]
    BY <2>3 DEF TypeOK
  <2>5. TabInv(t)' /\ CallInv(t, c)'
    BY <2>1, <2>3, <2>4, <1>c, <1>g, NilIsNothing DEF TabInv, CallInv, At, Idle
  <2> QED
    BY <2>1, <2>3, <2>4, <2>5, OneTabReads
<1>6. ASSUME UnlockLoad(t, c) PROVE StoreInv'
  <2>1. /\ CopyStored(t) /\ UNCHANGED <<disk, v1, key, secrets>> /\ At(t, c, "load")
        /\ Locked(t)
    BY <1>6, <1>c DEF UnlockLoad, CallInv, At
  <2>2. \/ disk # Nil /\ Goto(t, c, [pc |-> "kdf", rec |-> disk])
        \/ Goto(t, c, Idle)
    BY <1>6, <1>d DEF UnlockLoad
  <2>3. TabInv(t)' /\ CallInv(t, c)'
    BY <2>1, <2>2, <1>c, <1>d, <1>g, <1>k DEF TabInv, CallInv, At, Locked, Idle
  <2> QED
    BY <2>1, <2>2, <2>3, <1>k, OneTabReads
<1>7. ASSUME UnlockOpen(t, c) PROVE StoreInv'
  <2>1. /\ UNCHANGED <<disk, v1, record, primary>> /\ primary[t] = Nil /\ At(t, c, "kdf")
        /\ call[t][c].rec = record[t] /\ record[t] \in Record /\ Sound(record[t])
    BY <1>7, <1>c, CallTypes, NilIsNothing DEF UnlockOpen, CallInv, TabInv, At
  <2>2. /\ key' = [key EXCEPT ![t] = 1] /\ Goto(t, c, Idle)
        /\ secrets' = [secrets EXCEPT ![t] = record[t].secrets]
    BY <1>7, <2>1 DEF UnlockOpen, Sound
  <2>3. /\ key'[t] = 1 /\ secrets'[t] = record[t].secrets
        /\ \A u \in Tab \ {t} : key'[u] = key[u] /\ secrets'[u] = secrets[u]
    BY <2>2 DEF TypeOK
  <2>4. TabInv(t)' /\ CallInv(t, c)'
    BY <2>1, <2>2, <2>3, <1>c, <1>g, NilIsNothing DEF TabInv, CallInv, At, Idle
  <2> QED
    BY <2>1, <2>2, <2>3, <2>4, OneTabReads
<1>8. ASSUME UnlockFail(t, c) PROVE StoreInv'
  <2>1. /\ UNCHANGED <<disk, v1, record, primary, key, secrets>> /\ Goto(t, c, Idle)
        /\ At(t, c, "kdf")
    BY <1>8, <1>c DEF UnlockFail, CallInv, At
  <2>2. TabInv(t)' /\ CallInv(t, c)'
    BY <2>1, <1>c, <1>g DEF TabInv, CallInv, At, Locked, Idle
  <2> QED
    BY <2>1, <2>2, OneTabReads
<1>9. ASSUME Load(t, c) PROVE StoreInv'
  <2>1. /\ CopyStored(t) /\ UNCHANGED <<disk, v1, key, secrets>> /\ Goto(t, c, Idle)
        /\ Locked(t)
    BY <1>9, <1>c DEF Load, CallInv, At
  <2>2. TabInv(t)' /\ CallInv(t, c)'
    BY <2>1, <1>c, <1>d, <1>g, <1>k DEF TabInv, CallInv, At, Locked, Idle
  <2> QED
    BY <2>1, <2>2, <1>k, OneTabReads
\* Nothing here falls back to a legacy record, migrates one, or makes a first vault.
<1>10. /\ ~UnlockFallBack(t, c) /\ ~DeleteOrphan(t, c) /\ ~MigrateSeal(t, c)
       /\ ~MigrateSave(t, c) /\ ~MigrateDrop(t, c) /\ ~CreateLoad(t, c) /\ ~CreateSave(t, c)
       /\ ~FirstSaveConflict(t, c)
  BY <1>c DEF CallInv, TabInv, At, UnlockFallBack, DeleteOrphan, MigrateSeal, MigrateSave,
              MigrateDrop, CreateLoad, CreateSave, FirstSaveConflict
<1> QED
  BY <1>1, <1>2, <1>3, <1>4, <1>5, <1>6, <1>7, <1>8, <1>9, <1>10 DEF Resume

LEMMA OtherKeeps ==
  ASSUME Serial, TypeOK, StoreInv, NEW t \in Tab, NEW c \in Call,
         \/ OnVaultChanged(t, c) \/ Unlock(t, c) \/ CreateVault(t, c)
         \/ DeleteAllRecords(t, c) \/ StorageFails(t, c)
  PROVE  StoreInv'
<1> USE DEF tabVars
<1>c. CallInv(t, c) /\ TabInv(t) /\ \A d \in Call : d = c
  BY DEF StoreInv, Serial, NoOverlap
<1>1. ~CreateVault(t, c) /\ ~DeleteAllRecords(t, c)
  BY DEF CreateVault, DeleteAllRecords, Serial, NoOverlap
<1>2. /\ UNCHANGED <<disk, v1, record, primary, key, secrets>>
      /\ \/ At(t, c, "idle") /\ Goto(t, c, [pc |-> "reload"])
         \/ At(t, c, "idle") /\ Locked(t) /\ Goto(t, c, [pc |-> "load"])
         \/ ~At(t, c, "decrypt") /\ Goto(t, c, Idle)
  BY <1>1 DEF OnVaultChanged, Unlock, StorageFails, At
<1>3. \E state : Goto(t, c, state)
  BY <1>2
<1>4. \A state : Goto(t, c, state) => call'[t][c] = state
  BY GotoAt
<1>5. TabInv(t)' /\ CallInv(t, c)'
  BY <1>2, <1>4, <1>c DEF TabInv, CallInv, At, Locked, Idle
<1> QED
  BY <1>2, <1>3, <1>5, OneTabReads

LEMMA SessionKeeps ==
  ASSUME Serial, TypeOK, StoreInv, NEW t \in Tab, Lock(t) \/ Restart(t)
  PROVE  StoreInv'
<1>1. UNCHANGED <<disk, v1>>
  BY DEF Lock, Restart
<1>2. key'[t] = NoKey /\ \A u \in Tab \ {t} :
        /\ record'[u] = record[u] /\ primary'[u] = primary[u] /\ key'[u] = key[u]
        /\ secrets'[u] = secrets[u] /\ call'[u] = call[u]
  BY DEF Lock, Restart, TypeOK
<1>3. ASSUME NEW u \in Tab \ {t} PROVE TabInv(u)' /\ \A d \in Call : CallInv(u, d)'
  BY <1>1, <1>2 DEF StoreInv, TabInv, CallInv, Locked, At
<1>4. CASE Lock(t)
  <2>1. UNCHANGED <<record, primary, call>>
    BY <1>4 DEF Lock
  <2>2. TabInv(t)' /\ \A d \in Call : CallInv(t, d)'
    BY <1>1, <1>2, <2>1 DEF StoreInv, TabInv, CallInv, Locked, At
  <2> QED
    BY <1>1, <1>3, <2>2 DEF StoreInv
<1>5. CASE Restart(t)
  <2>1. /\ record'[t] = Nil /\ primary'[t] = Nil
        /\ \A d \in Call : call'[t][d].pc \in {"boot", "idle"}
    BY <1>5 DEF Restart, TypeOK, Idle
  <2>2. TabInv(t)' /\ \A d \in Call : CallInv(t, d)'
    BY <1>1, <1>2, <2>1 DEF TabInv, CallInv, Locked, At
  <2> QED
    BY <1>1, <1>3, <2>2 DEF StoreInv
<1> QED
  BY <1>4, <1>5

LEMMA InitKeeps == Serial /\ Init => StoreInv
<1> SUFFICES ASSUME Serial, Init PROVE StoreInv
  OBVIOUS
<1>1. PICK s \in Seed, n \in Name : disk = InitialRecord(s, n, 1) /\ v1 = Nil
  BY DEF Init, Serial, NoOverlap
<1> DEFINE row == NewRow(n, FALSE, FALSE)
<1>2. /\ disk.rev = 1 /\ disk.salt = 1 /\ disk.sealed = 1
      /\ disk.meta.activeId = s
      /\ disk.meta.wallets = [w \in Seed |-> IF w = s THEN row ELSE Nil]
      /\ disk.secrets.mnemonics = {s} /\ disk.secrets.sources = {}
      /\ row.derived = FALSE /\ row \in Row
  BY <1>1, RowType DEF InitialRecord, FirstRecord, NewRow, MakeRow
<1> HIDE DEF row
<1>3. row # Nil
  BY <1>2, NilIsNothing
<1>4. Fits(disk.meta, disk.secrets)
  <2>1. Listed(disk.meta) = {s} /\ disk.meta.wallets[s] = row
    BY <1>2, <1>3 DEF Listed
  <2> QED
    BY <1>2, <2>1 DEF Fits
<1>5. Sound(disk)
  BY <1>2, <1>4 DEF Sound
<1>6. Tracks(disk, disk)
  BY InitType, BehindItself DEF Tracks, TypeOK
<1>7. /\ \A t \in Tab : record[t] = disk /\ primary[t] = Nil /\ key[t] = NoKey
      /\ \A t \in Tab, c \in Call : call[t][c].pc = "idle"
  BY <1>1 DEF Init, Idle
<1> QED
  BY <1>1, <1>5, <1>6, <1>7 DEF StoreInv, TabInv, CallInv, Locked, At

LEMMA StepKeeps ==
  ASSUME Serial, TypeOK, StoreInv, [Next]_vars
  PROVE  StoreInv'
<1>1. CASE UNCHANGED vars
  BY <1>1 DEF vars, tabVars, StoreInv, TabInv, CallInv, Locked, At
<1>2. CASE Next
  <2>1. PICK t \in Tab :
          \/ \E c \in Call : \/ Resume(t, c)
                             \/ OnVaultChanged(t, c)
                             \/ UserStep(t, c)
                             \/ StorageFails(t, c)
          \/ Lock(t) \/ Restart(t)
    BY <1>2 DEF Next
  <2>2. ASSUME NEW c \in Call, Resume(t, c) PROVE StoreInv'
    BY <2>2, ResumeKeeps
  <2>3. ASSUME NEW c \in Call, UserStep(t, c) \/ OnVaultChanged(t, c) \/ StorageFails(t, c)
        PROVE  StoreInv'
    BY <2>3, MutateKeeps, OtherKeeps DEF UserStep
  <2> QED
    BY <2>1, <2>2, <2>3, SessionKeeps
<1> QED
  BY <1>1, <1>2

\* While the calls of a tab do not overlap, what is stored changes in a save or a delete
\* that passed its check, and only there.
LEMMA DiskChanges ==
  ASSUME Serial, TypeOK, StoreInv, [Next]_vars, disk' # disk
  PROVE  \E t \in Tab, c \in Call : SaveVaultRecord(t, c) \/ DeleteVaultRecord(t, c)
<1> USE DEF tabVars
<1>1. Next
  BY DEF vars
<1>2. PICK t \in Tab :
        \/ \E c \in Call : \/ Resume(t, c)
                           \/ OnVaultChanged(t, c)
                           \/ UserStep(t, c)
                           \/ StorageFails(t, c)
        \/ Lock(t) \/ Restart(t)
  BY <1>1 DEF Next
<1>3. ~Lock(t) /\ ~Restart(t)
  BY DEF Lock, Restart
<1>4. ASSUME NEW c \in Call
      PROVE  /\ ~Mutate(t, c) /\ ~Unlock(t, c) /\ ~CreateVault(t, c) /\ ~DeleteAllRecords(t, c)
             /\ ~OnVaultChanged(t, c) /\ ~StorageFails(t, c)
  <2>1. ~Mutate(t, c)
    BY DEF Mutate, AddWallet, UpgradeSource, RenameWallet, RemoveWallet, SetActive,
           SetBackedUp, SetReceiveIndex, RemoveLastWallet, Commit
  <2> QED
    BY <2>1 DEF Unlock, CreateVault, DeleteAllRecords, OnVaultChanged, StorageFails, Serial, NoOverlap
<1>5. PICK c \in Call : Resume(t, c)
  BY <1>2, <1>3, <1>4 DEF UserStep
<1>6. CallInv(t, c)
  BY DEF StoreInv
<1>7. ~MigrateSave(t, c) /\ ~CreateSave(t, c)
  BY <1>6 DEF CallInv, At, MigrateSave, CreateSave
<1> QED
  BY <1>5, <1>7 DEF Resume, Conflict, Refresh, Refreshed, UnlockLoad, UnlockOpen, UnlockFallBack,
     UnlockFail, DeleteOrphan, MigrateSeal, MigrateDrop, CreateLoad, FirstSaveConflict, Load

-----------------------------------------------------------------------------
(* ... and how it is what was promised *)

\* The refinement mapping shows a sound vault as its list of wallets.
Seen(d, s) == Opens(d, d.salt) /\ s \in d.secrets.mnemonics
WalletsOf(d) == [s \in Seed |-> IF Seen(d, s) THEN d.meta.wallets[s] ELSE Nil]
ActiveOf(d) == IF \E s \in Seed : Seen(d, s) THEN d.meta.activeId ELSE Nil

LEMMA MapOfSound ==
  ASSUME NEW d \in Record, Sound(d)
  PROVE  WalletsOf(d) = d.meta.wallets /\ ActiveOf(d) = d.meta.activeId
<1>1. d.meta.wallets \in [Seed -> Row \cup {Nil}]
  BY DEF Record, Meta
<1>2. \A s \in Seed : Seen(d, s) <=> d.meta.wallets[s] # Nil
  BY DEF Seen, Sound, Opens, Fits, Listed
<1>3. WalletsOf(d) = d.meta.wallets
  BY <1>1, <1>2 DEF WalletsOf
<1>4. \E s \in Seed : Seen(d, s)
  BY <1>2 DEF Sound, Fits, Listed
<1> QED
  BY <1>3, <1>4 DEF ActiveOf

LEMMA MapOfDisk ==
  /\ disk # Nil => storedWallets = WalletsOf(disk) /\ storedActiveId = ActiveOf(disk)
  /\ disk = Nil => storedWallets = [s \in Seed |-> Nil] /\ storedActiveId = Nil
  /\ disk' # Nil => storedWallets' = WalletsOf(disk') /\ storedActiveId' = ActiveOf(disk')
  /\ disk' = Nil => storedWallets' = [s \in Seed |-> Nil] /\ storedActiveId' = Nil
  /\ disk' = disk => storedWallets' = storedWallets /\ storedActiveId' = storedActiveId
BY DEF storedWallets, storedActiveId, Readable, WalletsOf, ActiveOf, Seen

LEMMA OperationIsPromised ==
  ASSUME NEW m \in Meta, NEW n \in Meta, NEW x, NEW y, Fits(m, x), Fits(n, y),
         OneOperation(m, n),
         storedWallets = m.wallets, storedActiveId = m.activeId,
         storedWallets' = n.wallets, storedActiveId' = n.activeId
  PROVE  Promised!StoreNext
<1>1. Promised!Present = Listed(m)
  BY DEF Promised!Present, Listed
<1>2. m.activeId \in Listed(m) /\ n.activeId \in Listed(n)
  BY DEF Fits
<1>3. ASSUME NEW s \in Seed, PutsARow(m, n, s) PROVE Promised!StoreNext
  <2> DEFINE row == n.wallets[s]
  <2>1. /\ row # Nil /\ storedWallets' = [storedWallets EXCEPT ![s] = row]
        /\ storedActiveId' = storedActiveId /\ s \in Listed(n) /\ storedWallets'[s] = row
    BY <1>3 DEF PutsARow, Listed
  <2>2. \A w \in Listed(m) \ {s} : n.wallets[w] = m.wallets[w] /\ w \in Listed(n)
    BY <1>3 DEF PutsARow, Listed, Meta
  <2>3. ~Promised!NameTaken(row.name, s)
    BY <1>1, <2>1, <2>2 DEF Promised!NameTaken, Fits
  <2>4. CASE s \in Listed(m)
    <3>1. Promised!Advances(storedWallets[s], row)
      BY <1>3, <2>4 DEF PutsARow, Listed, Moves, Promised!Advances
    <3>2. Promised!Change(s, storedWallets'[s])
      BY <1>1, <2>1, <2>3, <2>4, <3>1 DEF Promised!Change
    <3> QED
      BY <3>2 DEF Promised!StoreNext
  <2>5. CASE s \notin Listed(m)
    <3>1. Promised!Add(s, storedWallets'[s])
      BY <1>1, <1>2, <2>1, <2>3, <2>5 DEF Promised!Add
    <3> QED
      BY <3>1 DEF Promised!StoreNext
  <2> QED
    BY <2>4, <2>5
<1>4. ASSUME NEW s \in Seed, TakesARow(m, n, s) PROVE Promised!StoreNext
  <2>1. s \in Listed(m) /\ Listed(n) = Listed(m) \ {s}
    BY <1>4 DEF TakesARow, Listed, Meta
  <2>2. Promised!Remove(s)
    BY <1>1, <1>2, <1>4, <2>1 DEF TakesARow, Promised!Remove
  <2> QED
    BY <2>2 DEF Promised!StoreNext
<1>5. ASSUME Activates(m, n) PROVE Promised!StoreNext
  <2>1. Promised!Activate(n.activeId) /\ n.activeId \in Seed
    BY <1>1, <1>2, <1>5 DEF Activates, Promised!Activate, Listed
  <2> QED
    BY <2>1 DEF Promised!StoreNext
<1> QED
  BY <1>3, <1>4, <1>5 DEF OneOperation

LEMMA StepIsPromised ==
  ASSUME Serial, TypeOK, StoreInv, [Next]_vars
  PROVE  [Promised!StoreNext]_<<storedWallets, storedActiveId>>
<1>1. CASE disk' = disk
  BY <1>1, MapOfDisk
<1>2. ASSUME NEW t \in Tab, NEW c \in Call, SaveVaultRecord(t, c) PROVE Promised!StoreNext
  <2>1. /\ disk \in Record /\ disk # Nil /\ Sound(disk)
        /\ disk' \in Record /\ disk' # Nil /\ Sound(disk')
        /\ OneOperation(disk.meta, disk'.meta)
    BY <1>2, SaveReplaces
  <2>2. /\ storedWallets = disk.meta.wallets /\ storedActiveId = disk.meta.activeId
        /\ storedWallets' = disk'.meta.wallets /\ storedActiveId' = disk'.meta.activeId
    BY <2>1, MapOfDisk, MapOfSound
  <2>3. /\ disk.meta \in Meta /\ Fits(disk.meta, disk.secrets)
        /\ disk'.meta \in Meta /\ Fits(disk'.meta, disk'.secrets)
    BY <2>1 DEF Sound, Record
  <2> QED
    BY <2>1, <2>2, <2>3, OperationIsPromised
<1>3. ASSUME NEW t \in Tab, NEW c \in Call, DeleteVaultRecord(t, c) PROVE Promised!StoreNext
  <2>1. storedWallets' = [s \in Seed |-> Nil] /\ storedActiveId' = Nil
    BY <1>3, MapOfDisk DEF DeleteVaultRecord
  <2> QED
    BY <2>1 DEF Promised!StoreNext, Promised!Clear, Promised!NoWallets
<1> QED
  BY <1>1, <1>2, <1>3, DiskChanges

LEMMA StartIsPromised == Serial /\ Init => Promised!StoreInit
<1> SUFFICES ASSUME Serial, Init PROVE Promised!StoreInit
  OBVIOUS
<1>1. TypeOK /\ StoreInv
  BY InitType, InitKeeps
<1>2. PICK s \in Seed, n \in Name : disk = InitialRecord(s, n, 1)
  BY DEF Init, Serial, NoOverlap
<1>3. disk # Nil /\ disk \in Record /\ Sound(disk)
  <2>1. disk \in Record
    BY <1>2, RowType, FirstRecordType DEF InitialRecord
  <2> QED
    BY <2>1, <1>1, NilIsNothing DEF StoreInv
<1>4. storedWallets = disk.meta.wallets /\ storedActiveId = disk.meta.activeId
  BY <1>3, MapOfDisk, MapOfSound
<1>5. disk.meta.activeId = s /\ \A w \in Seed \ {s} : disk.meta.wallets[w] = Nil
  BY <1>2 DEF InitialRecord, FirstRecord
<1>6. Promised!Present = {s}
  BY <1>3, <1>4, <1>5 DEF Promised!Present, Sound, Fits, Listed
<1> QED
  BY <1>4, <1>5, <1>6 DEF Promised!StoreInit

\* An existing vault is the list of wallets it promises (vault.js commit; keystore.js
\* saveVaultRecord): whatever unlocks, adds, renames, switches and removals tabs interleave,
\* and whatever is refused or restarted between the awaits of a call, what is stored moves
\* by one whole operation at a time, for any number of tabs, seeds and names and with or
\* without broadcasts.  Only for profiles as Serial describes them: each tab runs one call
\* at a time, none creates or erases a vault or migrates an old one, and no reported write
\* is lost.  Revisions start again with a vault made anew, so nothing is promised there.
THEOREM VaultImplementsStore ==
  ASSUME Serial
  PROVE  Spec => ImplementsStore
<1>1. Init => TypeOK /\ StoreInv /\ Promised!StoreInit
  BY InitType, InitKeeps, StartIsPromised
<1>2. TypeOK /\ StoreInv /\ [Next]_vars
        => StoreInv' /\ [Promised!StoreNext]_<<storedWallets, storedActiveId>>
  BY StepKeeps, StepIsPromised
<1> QED
  BY <1>1, <1>2, TypeCorrect, PTL DEF Spec, ImplementsStore, Promised!StoreSpec, Promised!storeVars

\* Nothing is listed that cannot be opened, and nothing held that was removed (vault.js
\* addWallet, removeWallet): the list and the secrets name the same wallets in everything
\* that is ever stored, in a profile as Serial describes it.
THEOREM ListsFitSecrets ==
  ASSUME Serial
  PROVE  Spec => []ListedIsHeld
<1>1. StoreInv => ListedIsHeld
  BY DEF StoreInv, Sound, Fits, Listed, ListedIsHeld, Ids
<1>2. TypeOK /\ StoreInv /\ [Next]_vars => StoreInv'
  BY StepKeeps
<1> QED
  BY InitKeeps, <1>1, <1>2, TypeCorrect, PTL DEF Spec

\* The vault that goes with its last wallet is the one the remover saw (keystore.js
\* deleteVaultRecord), and not one to which another tab has just added.  In a profile as
\* Serial describes it: after an erase a new vault may be at the revision the remover saw.
THEOREM RemovalIsOfTheLast ==
  ASSUME Serial
  PROVE  Spec => DeletesOnlyWhatItSaw
<1> DEFINE Seen0 == disk # Nil /\ disk' = Nil =>
             \E t \in Tab, c \in Call : At(t, c, "delete") /\ call[t][c].from = disk
<1>1. TypeOK /\ StoreInv /\ [Next]_vars => StoreInv' /\ [Seen0]_disk
  <2> SUFFICES ASSUME TypeOK, StoreInv, [Next]_vars, disk # Nil, disk' = Nil
               PROVE  \E t \in Tab, c \in Call : At(t, c, "delete") /\ call[t][c].from = disk
    BY StepKeeps
  <2>1. PICK t \in Tab, c \in Call : SaveVaultRecord(t, c) \/ DeleteVaultRecord(t, c)
    BY DiskChanges
  <2>2. ~SaveVaultRecord(t, c)
    BY SaveReplaces
  <2> QED
    BY <2>1, <2>2, DeleteRemoves DEF DeleteVaultRecord
<1> QED
  BY InitKeeps, <1>1, TypeCorrect, PTL DEF Spec, DeletesOnlyWhatItSaw
=============================================================================
