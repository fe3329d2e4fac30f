-------------------------- MODULE WalletPageProofs --------------------------
(***************************************************************************)
(* Theorems about one tab of the wallet, for any wallets, payments, faults *)
(* and bounds.                                                             *)
(***************************************************************************)
EXTENDS WalletPage, WellFoundedInduction, TLAPS

-----------------------------------------------------------------------------
(* The invariant *)

Record == [rev : Nat, active : Wallet, wallets : [Wallet -> Nat \cup {Nil}]]
Sound(r) == r \in Record /\ r.active \in Held(r)
Op == [op : VaultOps, w : Wallet, base : Nat]

\* A revision names one record, until the vault is gone for good: what was computed
\* from the stored revision was computed from what is stored.
VaultInv ==
  /\ disk # Nil => Sound(disk)
  /\ copy # Nil => Sound(copy)
  /\ copy = Nil => disk = Nil
  /\ ~mail => copy = disk
  /\ copy # Nil /\ disk # Nil => copy.rev <= disk.rev /\ (copy.rev = disk.rev => copy = disk)
  /\ ops \subseteq Op
  /\ \A o \in ops : disk # Nil =>
       o.base <= disk.rev /\ (o.base = disk.rev /\ o.op # "addWallet" => o.w \in Held(disk))
  /\ unlocked \in BOOLEAN /\ unlocking \in BOOLEAN

\* The wallet on screen is the one the last generation opened.
ViewInv ==
  /\ opened \in Seq(Wallet) /\ walletGen <= MaxGen
  /\ wallet.seed \in Wallet \cup {Nil}
  /\ Open => walletGen # 0 /\ wallet.seed = opened[walletGen]
  /\ ScreenIsOfOpenWallet

\* A key is held for the wallet on screen, of which there is none while an unlock runs.
KeyInv ==
  /\ unlocking => ~Open
  /\ unlocked => Open \/ disk = Nil
  /\ AtRestOpenIsActive

\* Chains are of generations that have begun, a timer is the open one's, and without a
\* config there is neither.
PollInv ==
  /\ polling \in [Gens -> Nat] /\ moneyTimer \in Nat
  /\ \A g \in Gens : g > walletGen => polling[g] = 0
  /\ moneyTimer # 0 => Open /\ moneyTimer = walletGen
  /\ ~indexer => moneyTimer = 0 /\ \A g \in Gens : polling[g] = 0
  /\ indexer \in BOOLEAN
  /\ OnePollChain

\* A scan that counts is of a generation that has begun.
ScanInv ==
  /\ wallet = [seed |-> wallet.seed, index |-> wallet.index]
  /\ wallet.index \in Nat /\ handed \in Nat
  /\ receiveScanGen \in Nat /\ receiveScanGen <= walletGen
  /\ Open => handed <= wallet.index
WatchInv == PaidIsWatched

PageInv == VaultInv /\ ViewInv /\ KeyInv /\ PollInv /\ ScanInv

-----------------------------------------------------------------------------
(* What steps do to the page *)

Opens ==
  \E r \in Record : \E w \in Held(r) :
    OpenWallet(w, r) /\ (shown' = Nil \/ (~Open /\ UNCHANGED shown))
Follows == (Opens \/ CloseWallet \/ UNCHANGED pageVars) /\ UNCHANGED netVars

LEMMA Bounds == MaxGen \in Nat /\ MaxGen # 0 /\ Nil \notin Nat /\ Nil \notin Wallet
BY PageConstants

\* An opening is a new generation, on its own.
LEMMA OpeningShows ==
  ASSUME ViewInv, NEW r \in Record, NEW w \in Held(r), OpenWallet(w, r)
  PROVE  /\ opened' \in Seq(Wallet) /\ Len(opened') = walletGen + 1 /\ Len(opened') <= MaxGen
         /\ wallet'.seed = w /\ w # Nil /\ opened'[Len(opened')] = w
         /\ wallet' = [seed |-> w, index |-> r.wallets[w]]
         /\ r.wallets[w] \in Nat /\ handed' = r.wallets[w]
<1>1. w \in Wallet /\ r.wallets[w] \in Nat /\ w # Nil
  BY PageConstants DEF Held, Record
<1>2. walletGen \in Nat /\ walletGen < MaxGen
  BY DEF OpenWallet, ViewInv, walletGen
<1>3. opened' = Append(opened, w) /\ opened \in Seq(Wallet)
  BY DEF OpenWallet, ViewInv
<1>4. opened' \in Seq(Wallet) /\ Len(opened') = Len(opened) + 1 /\ opened'[Len(opened) + 1] = w
  BY <1>1, <1>3
<1> QED
  BY <1>1, <1>2, <1>4, Bounds DEF OpenWallet, walletGen

LEMMA PollFollows ==
  ASSUME ViewInv, PollInv, Follows
  PROVE  PollInv'
<1>1. CASE UNCHANGED pageVars
  BY <1>1 DEF Follows, PollInv, OnePollChain, Open, walletGen, pageVars, openVars, moneyVars, netVars
<1>2. CASE CloseWallet
  BY <1>2 DEF Follows, CloseWallet, PollInv, OnePollChain, Open, walletGen, netVars
<1>3. CASE Opens
  <2>1. PICK r \in Record : \E w \in Held(r) : OpenWallet(w, r)
    BY <1>3 DEF Opens
  <2>2. PICK w \in Held(r) : OpenWallet(w, r)
    BY <2>1
  <2> DEFINE g == walletGen + 1
  <2>3. walletGen \in Nat /\ walletGen' = g /\ g \in Gens
    BY <2>2, OpeningShows, Bounds DEF ViewInv, walletGen, Gens
  <2>4. /\ polling[g] = 0 /\ indexer' = indexer
        /\ \A h \in Gens : h > g => polling[h] = 0
    BY <2>3 DEF PollInv, Follows, netVars, Gens
  <2>5. Open'
    BY <2>2, OpeningShows DEF Open
  <2> HIDE DEF g
  <2>6. \/ indexer /\ polling' = [polling EXCEPT ![g] = @ + 1] /\ moneyTimer' = 0
        \/ UNCHANGED polling /\ moneyTimer' = IF indexer THEN g ELSE 0
    BY <2>2, Zenon DEF g, OpenWallet, StartMoneyPolling
  <2>7. polling' \in [Gens -> Nat] /\ moneyTimer' \in Nat /\ g \in Nat /\ g # 0
    BY <2>3, <2>6, PageConstants DEF PollInv, Gens
  <2>8. \A h \in Gens : h > g => polling'[h] = 0
    BY <2>3, <2>4, <2>6, <2>7 DEF PollInv, Gens
  <2>9. ~indexer' => moneyTimer' = 0 /\ \A h \in Gens : polling'[h] = 0
    BY <2>4, <2>6 DEF PollInv
  <2>10. polling'[g] + (IF moneyTimer' = g THEN 1 ELSE 0) <= 1
    BY <2>3, <2>4, <2>6, <2>7 DEF PollInv
  <2>11. (moneyTimer' # 0 => moneyTimer' = g) /\ indexer' \in BOOLEAN
    BY <2>4, <2>6 DEF PollInv
  <2> QED
    BY <2>3, <2>5, <2>7, <2>8, <2>9, <2>10, <2>11 DEF PollInv, OnePollChain
<1> QED
  BY <1>1, <1>2, <1>3 DEF Follows

LEMMA ScanFollows ==
  ASSUME ViewInv, ScanInv, Follows
  PROVE  ScanInv'
<1>1. CASE UNCHANGED pageVars
  BY <1>1 DEF ScanInv, Open, walletGen, pageVars, openVars, scanVars
<1>2. CASE CloseWallet
  BY <1>2 DEF CloseWallet, ScanInv, Open, walletGen, scanVars
<1>3. CASE Opens
  <2>1. PICK r \in Record : \E w \in Held(r) : OpenWallet(w, r)
    BY <1>3 DEF Opens
  <2>2. PICK w \in Held(r) : OpenWallet(w, r)
    BY <2>1
  <2>3. r.wallets[w] \in Nat /\ wallet' = [seed |-> w, index |-> r.wallets[w]]
          /\ handed' = r.wallets[w] /\ receiveScanGen' = receiveScanGen
    BY <2>2 DEF OpenWallet, SyncReceiveIndex, Held, Record
  <2>4. walletGen' = walletGen + 1 /\ walletGen \in Nat
    BY <2>2, OpeningShows DEF ViewInv, walletGen
  <2> QED
    BY <2>3, <2>4 DEF ScanInv
<1> QED
  BY <1>1, <1>2, <1>3 DEF Follows

LEMMA WatchFollows ==
  ASSUME ViewInv, ScanInv, WatchInv, Follows
  PROVE  WatchInv'
<1>1. CASE UNCHANGED pageVars
  BY <1>1 DEF WatchInv, PaidIsWatched, Open, walletGen, pageVars, openVars, scanVars
<1>2. CASE CloseWallet
  BY <1>2 DEF CloseWallet, WatchInv, PaidIsWatched, Open
<1>3. CASE Opens
  <2>1. receiveScanGen' = receiveScanGen /\ walletGen' = walletGen + 1 /\ walletGen \in Nat
    BY <1>3, OpeningShows DEF Opens, OpenWallet, SyncReceiveIndex, ViewInv, walletGen
  <2> QED
    BY <2>1 DEF ScanInv, WatchInv, PaidIsWatched
<1> QED
  BY <1>1, <1>2, <1>3 DEF Follows

LEMMA ViewFollows ==
  ASSUME ViewInv, Follows
  PROVE  ViewInv'
<1>1. CASE UNCHANGED pageVars
  BY <1>1 DEF ViewInv, ScreenIsOfOpenWallet, Open, walletGen, pageVars, openVars, moneyVars
<1>2. CASE CloseWallet
  BY <1>2 DEF CloseWallet, ViewInv, ScreenIsOfOpenWallet, Open, walletGen
<1>3. CASE Opens
  <2>1. PICK r \in Record : \E w \in Held(r) :
          OpenWallet(w, r) /\ (shown' = Nil \/ (~Open /\ UNCHANGED shown))
    BY <1>3 DEF Opens
  <2>2. PICK w \in Held(r) : OpenWallet(w, r) /\ (shown' = Nil \/ (~Open /\ UNCHANGED shown))
    BY <2>1
  <2>3. shown' = Nil
    BY <2>2 DEF ViewInv, ScreenIsOfOpenWallet, Open
  <2>4. walletGen' # 0 /\ walletGen' <= MaxGen
    BY <2>2, OpeningShows DEF ViewInv, walletGen
  <2> QED
    BY <2>2, <2>3, <2>4, OpeningShows DEF ViewInv, ScreenIsOfOpenWallet, Open, walletGen, Held
<1> QED
  BY <1>1, <1>2, <1>3 DEF Follows

-----------------------------------------------------------------------------
(* What steps do to the vault *)

LEMMA NextRecords ==
  ASSUME NEW r, Sound(r)
  PROVE  /\ \A w \in Held(r) : Sound(WithActive(r, w)) /\ WithActive(r, w).rev = r.rev + 1
                                 /\ WithActive(r, w).active = w
                                 /\ Held(WithActive(r, w)) = Held(r)
         /\ \A w \in Wallet, i \in Nat :
              Sound(WithIndex(r, w, i)) /\ WithIndex(r, w, i).rev = r.rev + 1
                /\ w \in Held(WithIndex(r, w, i))
         /\ \A w \in Held(r) : \A rec \in Without(r, w) :
              rec # Nil => Sound(rec) /\ rec.rev = r.rev + 1
<1> USE DEF Sound, Record, Held, Stored
<1>1. r.rev + 1 \in Nat /\ Nil \notin Nat /\ r.rev \in Nat
  BY Bounds
<1>2. \A w \in Held(r) : Sound(WithActive(r, w)) /\ WithActive(r, w).rev = r.rev + 1
                           /\ WithActive(r, w).active = w /\ Held(WithActive(r, w)) = Held(r)
  BY <1>1 DEF WithActive
<1>3. \A w \in Wallet, i \in Nat :
        Sound(WithIndex(r, w, i)) /\ WithIndex(r, w, i).rev = r.rev + 1
          /\ w \in Held(WithIndex(r, w, i))
  BY <1>1 DEF WithIndex
<1>4. ASSUME NEW w \in Held(r), NEW rec \in Without(r, w), rec # Nil
      PROVE  Sound(rec) /\ rec.rev = r.rev + 1
  <2> DEFINE kept == Stored([r EXCEPT !.wallets[w] = Nil])
  <2>1. kept \in Record /\ kept.rev = r.rev + 1 /\ Held(kept) = Held(r) \ {w}
    BY <1>1
  <2>2. Held(r) # {w}
    BY <1>4 DEF Without
  <2>3. PICK a \in IF r.active = w THEN Held(kept) ELSE {r.active} : rec = [kept EXCEPT !.active = a]
    BY <1>4, <2>2 DEF Without
  <2>4. a \in Held(kept)
    BY <2>1, <2>3
  <2> QED
    BY <2>1, <2>3, <2>4
<1> QED
  BY <1>2, <1>3, <1>4

LEMMA VaultRests ==
  ASSUME VaultInv, UNCHANGED <<disk, copy, mail, ops>>,
         unlocked' \in BOOLEAN, unlocking' \in BOOLEAN
  PROVE  VaultInv'
BY DEF VaultInv, Held

LEMMA VaultRereads ==
  ASSUME VaultInv, copy' = disk, UNCHANGED disk, ops' \subseteq ops,
         unlocked' \in BOOLEAN, unlocking' \in BOOLEAN
  PROVE  VaultInv'
<1>1. disk # Nil => disk.rev \in Nat
  BY DEF VaultInv, Sound, Record
<1> QED
  BY <1>1 DEF VaultInv, Held

\* A write replaces what it was computed from; other calls in flight have lost.
LEMMA VaultSaves ==
  ASSUME VaultInv, disk # Nil, NEW rec, rec # Nil => Sound(rec) /\ rec.rev = disk.rev + 1,
         disk' = rec, copy' = rec \/ UNCHANGED copy, mail' = TRUE,
         \A o \in ops' : \/ o \in ops
                         \/ o \in Op /\ (rec # Nil => o.base = rec.rev /\ o.w \in Held(rec)),
         unlocked' \in BOOLEAN, unlocking' \in BOOLEAN
  PROVE  VaultInv'
<1>1. disk.rev \in Nat /\ (copy # Nil => copy.rev \in Nat /\ copy.rev <= disk.rev)
  BY DEF VaultInv, Sound, Record
<1>2. \A o \in ops : o \in Op /\ o.base \in Nat /\ o.base <= disk.rev
  BY DEF VaultInv, Op
<1>3. rec # Nil => rec.rev \in Nat /\ rec.rev = disk.rev + 1
  BY DEF Sound, Record
<1>4. ops' \subseteq Op
  BY <1>2
<1>5. ASSUME NEW o \in ops', rec # Nil
      PROVE  o.base <= rec.rev /\ (o.base = rec.rev => o.w \in Held(rec))
  <2>1. CASE o \in ops
    BY <1>1, <1>2, <1>3, <1>5, <2>1
  <2>2. CASE o \notin ops
    BY <1>3, <1>5, <2>2
  <2> QED
    BY <2>1, <2>2
<1>6. copy' # Nil /\ rec # Nil => copy'.rev <= rec.rev /\ (copy'.rev = rec.rev => copy' = rec)
  BY <1>1, <1>3
<1> QED
  BY <1>4, <1>5, <1>6 DEF VaultInv, Held

-----------------------------------------------------------------------------
(* The steps of user, manager and other tabs *)

Keeps == VaultInv' /\ KeyInv' /\ Follows /\ (Open' => Open \/ unlocking)

\* An opening of what is active, while a broadcast is owed or the copy is current.
LEMMA SwitchFollows ==
  ASSUME ViewInv, NEW r, Sound(r), NEW w \in Held(r), SwitchToWallet(w, r), UNCHANGED netVars
  PROVE  Follows /\ Open' /\ wallet'.seed = w
<1>1. OpenWallet(w, r) /\ shown' = Nil /\ r \in Record
  BY DEF SwitchToWallet, Sound
<1> QED
  BY <1>1, OpeningShows DEF Follows, Opens, Open

LEMMA ReconcileFollows ==
  ASSUME ViewInv, NEW r, NEW open \in BOOLEAN, ReconcileVaultUi(r, open),
         open => Sound(r), UNCHANGED netVars
  PROVE  /\ Follows /\ (Open' => Open /\ open /\ wallet'.seed = r.active)
         /\ Open /\ open => Open'
<1>1. CASE open /\ Open /\ SwitchToWallet(r.active, r)
  BY <1>1, SwitchFollows DEF Sound
<1>2. CASE ~open /\ Open /\ CloseWallet
  BY <1>2 DEF CloseWallet, Follows, Open
<1>3. CASE (~Open \/ (open /\ r.active = wallet.seed)) /\ UNCHANGED pageVars
  BY <1>3 DEF Follows, Open, pageVars, openVars
<1> QED
  BY <1>1, <1>2, <1>3 DEF ReconcileVaultUi

LEMMA RestFollows ==
  ASSUME UNCHANGED pageVars, UNCHANGED netVars
  PROVE  Follows /\ Open' = Open /\ wallet' = wallet
BY DEF Follows, Open, pageVars, openVars

LEMMA UserKeeps ==
  ASSUME VaultInv, ViewInv, KeyInv,
         \/ LockWallet \/ Unlock
         \/ \E w \in Wallet : SetActive(w) \/ AddWallet(w) \/ RemoveWallet(w)
  PROVE  Keeps
<1>1. CASE LockWallet
  <2>1. VaultInv'
    BY <1>1, VaultRests DEF LockWallet, VaultInv
  <2>2. KeyInv' /\ Follows /\ ~Open'
    BY <1>1 DEF LockWallet, CloseWallet, KeyInv, AtRestOpenIsActive, Follows, Open
  <2> QED
    BY <2>1, <2>2 DEF Keeps
<1>2. CASE Unlock
  <2>1. VaultInv'
    BY <1>2, VaultRereads DEF Unlock, VaultInv
  <2>2. KeyInv' /\ Follows /\ Open' = Open
    BY <1>2, RestFollows DEF Unlock, KeyInv, AtRestOpenIsActive, VaultInv
  <2> QED
    BY <2>1, <2>2 DEF Keeps
<1>3. ASSUME NEW w \in Wallet, NEW op \in VaultOps, Begin(op, w), MayMutate,
             op # "addWallet" => w \in Held(copy)
      PROVE  Keeps
  <2>1. copy # Nil /\ copy.rev \in Nat
    BY <1>3 DEF MayMutate, VaultInv, Sound, Record
  <2>2. ops' = {[op |-> op, w |-> w, base |-> copy.rev]} /\ UNCHANGED <<vaultVars, unlocking, pageVars, netVars>>
    BY <1>3 DEF Begin
  <2>3. VaultInv'
    BY <1>3, <2>1, <2>2 DEF VaultInv, vaultVars, Op, Held
  <2>4. KeyInv' /\ Follows /\ Open' = Open
    BY <2>2, RestFollows DEF KeyInv, AtRestOpenIsActive, vaultVars
  <2> QED
    BY <2>3, <2>4 DEF Keeps
<1>4. ASSUME NEW w \in Wallet, SetActive(w), copy.active = w, SwitchToWallet(w, copy),
             UNCHANGED <<vaultVars, ops, unlocking, receivePersist, netVars>>
      PROVE  Keeps
  <2>1. Open /\ unlocked /\ copy # Nil /\ w \in Held(copy) /\ w # wallet.seed /\ Sound(copy)
    BY <1>4 DEF SetActive, MayMutate, VaultInv
  <2>2. mail
    BY <1>4, <2>1 DEF KeyInv, AtRestOpenIsActive
  <2>3. Follows /\ Open'
    BY <1>4, <2>1, SwitchFollows
  <2>4. VaultInv'
    BY <1>4, VaultRests DEF vaultVars, VaultInv
  <2>5. KeyInv'
    BY <1>4, <2>1, <2>2, <2>3 DEF KeyInv, AtRestOpenIsActive, vaultVars
  <2> QED
    BY <2>1, <2>3, <2>4, <2>5 DEF Keeps
<1>5. ASSUME NEW w \in Wallet, SetActive(w) PROVE Keeps
  BY <1>3, <1>4, <1>5 DEF SetActive, VaultOps
<1>6. ASSUME NEW w \in Wallet, AddWallet(w) \/ RemoveWallet(w) PROVE Keeps
  BY <1>3, <1>6 DEF AddWallet, RemoveWallet, VaultOps
<1> QED
  BY <1>1, <1>2, <1>5, <1>6

LEMMA ManagerKeeps ==
  ASSUME VaultInv, ViewInv, KeyInv, ScanInv, UnlockOpens \/ UnlockFails \/ OnVaultChanged \/ WriteIndex
  PROVE  Keeps
<1>1. CASE UnlockOpens
  <2>1. VaultInv'
    BY <1>1, VaultRests DEF UnlockOpens, VaultInv
  <2>2. CASE copy # Nil
    <3>1. Sound(copy) /\ copy.active \in Held(copy) /\ OpenWallet(copy.active, copy)
            /\ UNCHANGED <<shown, netVars>> /\ ~Open
      BY <1>1, <2>2 DEF UnlockOpens, VaultInv, Sound, KeyInv
    <3>2. Follows /\ Open' /\ wallet'.seed = copy.active
      BY <3>1, OpeningShows DEF Follows, Opens, Sound, Open
    <3>3. KeyInv'
      BY <1>1, <2>2, <3>2 DEF UnlockOpens, VaultInv, KeyInv, AtRestOpenIsActive
    <3> QED
      BY <1>1, <2>1, <3>2, <3>3 DEF Keeps, UnlockOpens
  <2>3. CASE copy = Nil
    <3>1. Follows /\ ~Open' /\ disk' = Nil
      BY <1>1, <2>3, RestFollows DEF UnlockOpens, VaultInv, KeyInv
    <3>2. KeyInv'
      BY <1>1, <3>1 DEF UnlockOpens, KeyInv, AtRestOpenIsActive
    <3> QED
      BY <2>1, <3>1, <3>2 DEF Keeps
  <2> QED
    BY <2>2, <2>3
<1>2. CASE UnlockFails
  <2>1. VaultInv'
    BY <1>2, VaultRests DEF UnlockFails, VaultInv, vaultVars
  <2>2. KeyInv' /\ Follows /\ Open' = Open
    BY <1>2, RestFollows DEF UnlockFails, KeyInv, AtRestOpenIsActive, vaultVars
  <2> QED
    BY <2>1, <2>2 DEF Keeps
<1>3. CASE OnVaultChanged
  <2>1. unlocked' \in BOOLEAN /\ unlocking' \in BOOLEAN /\ (unlocked' => disk # Nil)
    BY <1>3 DEF OnVaultChanged, VaultInv
  <2>2. VaultInv'
    BY <1>3, <2>1, VaultRereads DEF OnVaultChanged
  <2>3. /\ Follows /\ (Open' => Open /\ unlocked' /\ wallet'.seed = disk.active)
        /\ Open /\ unlocked' => Open'
    BY <1>3, <2>1, ReconcileFollows DEF OnVaultChanged, VaultInv
  <2>4. KeyInv'
    BY <1>3, <2>1, <2>3 DEF OnVaultChanged, KeyInv, AtRestOpenIsActive
  <2> QED
    BY <2>2, <2>3, <2>4 DEF Keeps
<1>4. CASE WriteIndex
  <2>1. Follows /\ Open' = Open /\ wallet' = wallet /\ UNCHANGED <<ops, unlocking>>
    BY <1>4, RestFollows DEF WriteIndex
  <2>2. CASE /\ Ours /\ disk # Nil /\ disk.wallets[wallet.seed] # Nil
             /\ wallet.index > disk.wallets[wallet.seed]
             /\ Save(WithIndex(disk, wallet.seed, wallet.index))
             /\ UNCHANGED unlocked
    <3> DEFINE rec == WithIndex(disk, wallet.seed, wallet.index)
    <3>1. Sound(disk) /\ wallet.seed \in Wallet /\ wallet.index \in Nat
      BY <2>2 DEF VaultInv, ViewInv, ScanInv, Ours, Open
    <3>2. Sound(rec) /\ rec.rev = disk.rev + 1
      BY <3>1, NextRecords
    <3>3. disk' = rec /\ copy' = rec /\ mail' = TRUE /\ ops' = ops
            /\ unlocked' \in BOOLEAN /\ unlocking' \in BOOLEAN
      BY <2>1, <2>2 DEF Save, VaultInv
    <3> HIDE DEF rec
    <3>4. VaultInv'
      BY <2>2, <3>2, <3>3, VaultSaves
    <3> QED
      BY <2>1, <2>2, <3>3, <3>4 DEF Keeps, KeyInv, AtRestOpenIsActive, Ours
  <2>3. CASE Ours /\ copy # disk /\ copy' = disk /\ unlocked' = (disk # Nil) /\ UNCHANGED <<disk, mail>>
    <3>1. VaultInv'
      BY <2>1, <2>3, VaultRereads DEF VaultInv
    <3> QED
      BY <2>1, <2>3, <3>1 DEF Keeps, KeyInv, AtRestOpenIsActive, Ours, VaultInv
  <2>4. CASE UNCHANGED vaultVars
    <3>1. VaultInv'
      BY <2>1, <2>4, VaultRests DEF VaultInv, vaultVars
    <3> QED
      BY <2>1, <2>4, <3>1 DEF Keeps, KeyInv, AtRestOpenIsActive, vaultVars
  <2> QED
    BY <1>4, <2>2, <2>3, <2>4 DEF WriteIndex
<1> QED
  BY <1>1, <1>2, <1>3, <1>4

\* What a mutation in flight was computed from is still stored when it lands.
LEMMA Landing ==
  ASSUME VaultInv, NEW o \in ops, StillAt(o.base)
  PROVE  /\ disk # Nil /\ Sound(disk) /\ o.w \in Wallet
         /\ o.op # "addWallet" => o.w \in Held(disk)
BY DEF VaultInv, StillAt, Op

LEMMA LandingsKeep ==
  ASSUME VaultInv, ViewInv, KeyInv, NEW o \in ops,
         \/ SetActiveLands(o) \/ AddWalletLands(o) \/ RemoveWalletLands(o)
         \/ Conflict(o) \/ SaveFails(o)
  PROVE  Keeps
<1>1. CASE SetActiveLands(o)
  <2> DEFINE rec == WithActive(disk, o.w)
  <2>1. disk # Nil /\ Sound(disk) /\ o.w \in Held(disk)
    BY <1>1, Landing DEF SetActiveLands
  <2>2. Sound(rec) /\ rec.rev = disk.rev + 1 /\ Held(rec) = Held(disk)
    BY <2>1, NextRecords
  <2>3. disk' = rec /\ copy' = rec /\ mail' = TRUE /\ ops' \subseteq ops
          /\ unlocked' = unlocked /\ unlocking' = unlocking /\ UNCHANGED netVars
    BY <1>1 DEF SetActiveLands, Save
  <2> HIDE DEF rec
  <2>4. VaultInv'
    BY <2>1, <2>2, <2>3, VaultSaves DEF VaultInv
  <2>5. CASE unlocked
    <3>1. Follows /\ Open'
      BY <1>1, <2>1, <2>2, <2>3, <2>5, SwitchFollows DEF SetActiveLands, MaySwitch
    <3> QED
      BY <2>1, <2>3, <2>4, <2>5, <3>1 DEF Keeps, KeyInv, AtRestOpenIsActive
  <2>6. CASE ~unlocked
    <3>1. Follows /\ Open' = Open
      BY <1>1, <2>3, <2>6, RestFollows DEF SetActiveLands, MaySwitch
    <3> QED
      BY <2>3, <2>4, <2>6, <3>1 DEF Keeps, KeyInv, AtRestOpenIsActive
  <2> QED
    BY <2>5, <2>6
<1>2. CASE AddWalletLands(o)
  <2> DEFINE rec == WithIndex(disk, o.w, 0)
             next == [op |-> "setActive", w |-> o.w, base |-> rec.rev]
  <2>1. disk # Nil /\ Sound(disk) /\ o.w \in Wallet
    BY <1>2, Landing DEF AddWalletLands
  <2>2. Sound(rec) /\ rec.rev = disk.rev + 1 /\ o.w \in Held(rec)
    BY <2>1, NextRecords
  <2>3. /\ disk' = rec /\ copy' = rec /\ mail' = TRUE /\ ops' \subseteq {next}
        /\ unlocked' = unlocked /\ unlocking' = unlocking
        /\ Follows /\ Open' = Open
    BY <1>2, RestFollows DEF AddWalletLands, Save
  <2>4. next \in Op /\ next.base = rec.rev /\ next.w = o.w
    BY <2>1, <2>2 DEF Op, VaultOps, Sound, Record
  <2> HIDE DEF rec, next
  <2>5. VaultInv'
    BY <2>1, <2>2, <2>3, <2>4, VaultSaves DEF VaultInv
  <2> QED
    BY <2>1, <2>3, <2>5 DEF Keeps, KeyInv, AtRestOpenIsActive
<1>3. CASE RemoveWalletLands(o)
  <2>1. disk # Nil /\ Sound(disk) /\ o.w \in Held(disk)
    BY <1>3, Landing DEF RemoveWalletLands
  <2>2. PICK rec \in Without(disk, o.w) :
          /\ Save(rec) /\ unlocked' = (unlocked /\ rec # Nil)
          /\ CASE rec = Nil -> CloseWallet
               [] rec # Nil /\ o.w = wallet.seed -> SwitchToWallet(rec.active, rec)
               [] OTHER -> UNCHANGED pageVars
    BY <1>3 DEF RemoveWalletLands
  <2>3. rec # Nil => Sound(rec) /\ rec.rev = disk.rev + 1
    BY <2>1, <2>2, NextRecords
  <2>4. disk' = rec /\ copy' = rec /\ mail' = TRUE /\ ops' \subseteq ops
          /\ unlocking' = unlocking /\ unlocked' \in BOOLEAN /\ UNCHANGED netVars
    BY <1>3, <2>2 DEF RemoveWalletLands, Save, VaultInv
  <2>5. VaultInv'
    BY <2>1, <2>3, <2>4, VaultSaves DEF VaultInv
  <2>6. CASE rec = Nil
    <3>1. CloseWallet
      BY <2>2, <2>6
    <3> QED
      BY <2>2, <2>4, <2>5, <2>6, <3>1 DEF CloseWallet, Follows, Open, Keeps, KeyInv, AtRestOpenIsActive
  <2>7. CASE rec # Nil /\ o.w = wallet.seed
    <3>1. SwitchToWallet(rec.active, rec)
      BY <2>2, <2>7
    <3>2. Follows /\ Open' /\ Open
      BY <2>1, <2>3, <2>4, <2>7, <3>1, SwitchFollows, Bounds DEF Sound, Open, Held
    <3> QED
      BY <2>2, <2>4, <2>5, <2>7, <3>2 DEF Keeps, KeyInv, AtRestOpenIsActive
  <2>8. CASE rec # Nil /\ o.w # wallet.seed
    <3>1. UNCHANGED pageVars
      BY <2>2, <2>8
    <3>2. Follows /\ Open' = Open
      BY <2>4, <3>1, RestFollows
    <3> QED
      BY <2>1, <2>2, <2>4, <2>5, <2>8, <3>2 DEF Keeps, KeyInv, AtRestOpenIsActive
  <2> QED
    BY <2>6, <2>7, <2>8
<1>4. CASE Conflict(o)
  <2>1. unlocked' \in BOOLEAN /\ unlocking' \in BOOLEAN /\ (unlocked' => disk # Nil)
    BY <1>4 DEF Conflict, VaultInv
  <2>2. VaultInv'
    BY <1>4, <2>1, VaultRereads DEF Conflict
  <2>3. /\ Follows /\ (Open' => Open /\ unlocked' /\ wallet'.seed = disk.active)
        /\ Open /\ unlocked' => Open'
    BY <1>4, <2>1, ReconcileFollows DEF Conflict, VaultInv
  <2>4. KeyInv'
    BY <1>4, <2>1, <2>3 DEF Conflict, KeyInv, AtRestOpenIsActive
  <2> QED
    BY <2>2, <2>3, <2>4 DEF Keeps
<1>5. CASE SaveFails(o)
  <2>1. Follows /\ Open' = Open /\ wallet' = wallet
    BY <1>5, RestFollows DEF SaveFails
  <2>2. VaultInv'
    BY <1>5 DEF SaveFails, VaultInv, vaultVars, Held
  <2> QED
    BY <1>5, <2>1, <2>2 DEF SaveFails, Keeps, KeyInv, AtRestOpenIsActive, vaultVars
<1> QED
  BY <1>1, <1>2, <1>3, <1>4, <1>5

LEMMA OtherTabKeeps ==
  ASSUME VaultInv, ViewInv, KeyInv, OtherTab
  PROVE  Keeps
<1>1. Follows /\ Open' = Open /\ mail' = TRUE /\ UNCHANGED <<copy, unlocked, ops, unlocking>>
  BY RestFollows DEF OtherTab
<1>2. disk # Nil /\ Sound(disk)
  BY DEF OtherTab, VaultInv
<1>3. disk' # Nil => Sound(disk') /\ disk'.rev = disk.rev + 1
  BY <1>2, NextRecords DEF OtherTab
<1>4. VaultInv'
  BY <1>1, <1>2, <1>3, VaultSaves DEF VaultInv
<1> QED
  BY <1>1, <1>2, <1>4 DEF Keeps, KeyInv, AtRestOpenIsActive

-----------------------------------------------------------------------------
(* The background work of an opening *)

\* A set of naturals has a least element, and a bounded one a greatest.
LEMMA Least ==
  ASSUME NEW S \in SUBSET Nat, S # {}
  PROVE  Min(S) \in S /\ \A n \in S : Min(S) <= n
<1>1. \E m \in S : \A n \in S : ~(<<n, m>> \in OpToRel(<, Nat))
  BY NatLessThanWellFounded, WFMin
<1>2. ASSUME NEW m \in Nat, NEW n \in Nat, n < m PROVE <<n, m>> \in OpToRel(<, Nat)
  <2>1. <<n, m>> \in Nat \X Nat /\ <<n, m>>[1] < <<n, m>>[2]
    BY <1>2
  <2> QED
    BY <2>1, Zenon DEF OpToRel
<1>3. PICK m \in S : \A n \in S : ~(<<n, m>> \in OpToRel(<, Nat))
  BY <1>1
<1>4. \A n \in S : ~(n < m)
  BY <1>2, <1>3
<1>5. \E k \in S : \A n \in S : k <= n
  BY <1>4
<1> QED
  BY <1>5 DEF Min

LEMMA Greatest ==
  ASSUME NEW b \in Nat, NEW S \in SUBSET (0 .. b), S # {}
  PROVE  Max(S) \in S /\ \A n \in S : n <= Max(S)
<1> DEFINE T == {b - n : n \in S}
<1>1. T \in SUBSET Nat /\ T # {}
  <2>1. \A n \in S : b - n \in Nat /\ b - n \in T
    OBVIOUS
  <2> QED
    BY <2>1
<1>2. Min(T) \in T /\ \A n \in T : Min(T) <= n
  BY <1>1, Least
<1>3. PICK m \in S : Min(T) = b - m
  BY <1>2
<1>4. \A n \in S : n <= m
  BY <1>2, <1>3
<1>5. \E n \in S : \A k \in S : n >= k
  BY <1>4
<1> QED
  BY <1>5 DEF Max

LEMMA ScanEnds ==
  ASSUME NEW seen \in SUBSET (0 .. MaxIndex - 1)
  PROVE  /\ Scanned(seen) \in Nat /\ Scanned(seen) >= Gap
         /\ seen \cap (Scanned(seen) - Gap .. Scanned(seen) - 1) = {}
<1> DEFINE S == {n \in {Batch * k : k \in 1 .. MaxIndex + Gap} :
                   n >= Gap /\ seen \cap (n - Gap .. n - 1) = {}}
           m == MaxIndex + Gap
<1>1. Gap \in Nat /\ Gap # 0 /\ Batch \in Nat /\ Batch # 0 /\ MaxIndex \in Nat
  BY PageConstants
<1>2. S \in SUBSET Nat
  <2>1. \A k \in Nat : Batch * k \in Nat
    BY <1>1
  <2> QED
    BY <2>1, <1>1
<1>3. Batch * m \in Nat /\ Batch * m >= m
  <2>1. m \in Nat /\ Batch - 1 \in Nat
    BY <1>1
  <2>2. (Batch - 1) * m \in Nat /\ Batch * m = (Batch - 1) * m + m
    BY <2>1, <1>1
  <2> QED
    BY <2>1, <2>2
<1>4. Batch * m \in S
  <2>1. m \in 1 .. MaxIndex + Gap
    BY <1>1
  <2> HIDE DEF m
  <2>2. Batch * m >= Gap
    BY <1>1, <1>3 DEF m
  <2>3. seen \cap (Batch * m - Gap .. Batch * m - 1) = {}
    BY <1>1, <1>3 DEF m
  <2> QED
    BY <1>3, <2>1, <2>3, <2>2 DEF m
<1>5. Min(S) \in S
  BY <1>2, <1>4, Least
<1> QED
  BY <1>2, <1>5 DEF Scanned

LEMMA NextIsPastSeen ==
  ASSUME NEW seen \in SUBSET (0 .. MaxIndex - 1)
  PROVE  /\ NextUnused(seen) \in Nat
         /\ \A i \in seen : i < Scanned(seen) => i < NextUnused(seen)
         /\ NextUnused(seen) # 0 => NextUnused(seen) - 1 \in seen
<1> DEFINE S == {0} \cup {i + 1 : i \in {j \in seen : j < Scanned(seen)}}
<1>1. MaxIndex \in Nat
  BY PageConstants
<1>2. S \in SUBSET (0 .. MaxIndex) /\ S # {}
  BY <1>1
<1>3. Max(S) \in S /\ \A n \in S : n <= Max(S)
  BY <1>1, <1>2, Greatest
<1>4. \A i \in seen : i < Scanned(seen) => i + 1 \in S
  OBVIOUS
<1>5. \A n \in S : n = 0 \/ n - 1 \in seen
  BY <1>1
<1> QED
  BY <1>1, <1>2, <1>3, <1>4, <1>5 DEF NextUnused

\* A scan that sees what was paid goes past all of it.
LEMMA ScanFindsPaid ==
  ASSUME PaidWithinGap, NEW w \in Wallet, NEW seen \in SUBSET (0 .. MaxIndex - 1),
         Paid[w] \subseteq seen
  PROVE  \A i \in Paid[w] : i < NextUnused(seen)
<1> DEFINE n == Scanned(seen)
<1> SUFFICES ASSUME NEW i \in Paid[w], i >= n PROVE FALSE
  BY NextIsPastSeen, ScanEnds, PageConstants
<1>1. Gap \in Nat /\ Gap # 0 /\ i \in Nat /\ n \in Nat /\ n >= Gap
  BY ScanEnds, PageConstants
<1>2. n - Gap \in 0 .. i /\ (n - Gap) + Gap <= i /\ (n - Gap) + Gap - 1 = n - 1
  BY <1>1
<1>3. Paid[w] \cap (n - Gap .. n - 1) # {}
  BY <1>2 DEF PaidWithinGap
<1> QED
  BY <1>3, ScanEnds

LEMMA BackgroundKeeps ==
  ASSUME VaultInv, ViewInv, KeyInv, UNCHANGED <<vaultVars, ops, unlocking, opened>>,
         wallet'.seed = wallet.seed, shown' \in {shown, wallet.seed}
  PROVE  VaultInv' /\ ViewInv' /\ KeyInv' /\ Open' = Open /\ walletGen' = walletGen
<1>1. VaultInv'
  BY VaultRests DEF VaultInv, vaultVars
<1>2. ViewInv'
  BY DEF ViewInv, ScreenIsOfOpenWallet, Open, walletGen
<1>3. KeyInv'
  BY DEF KeyInv, AtRestOpenIsActive, Open, vaultVars
<1> QED
  BY <1>1, <1>2, <1>3 DEF Open, walletGen

LEMMA PollRests ==
  ASSUME PollInv, UNCHANGED <<polling, moneyTimer, indexer>>, Open' = Open, walletGen' = walletGen
  PROVE  PollInv'
BY DEF PollInv, OnePollChain

Scans ==
  \/ \E g \in Gens : ScanAnswers(g) \/ ScanFails(g)
  \/ ScanRetry \/ LoadStatus \/ HandOut

ScansOnly ==
  /\ ScanInv' /\ UNCHANGED <<vaultVars, ops, unlocking, opened, polling, moneyTimer, indexer, shown>>
  /\ wallet'.seed = wallet.seed

\* The scan and the button move the index of the open wallet, and only forward.
LEMMA ScansKeep ==
  ASSUME ViewInv, ScanInv, Scans
  PROVE  ScansOnly
<1> USE DEF vaultVars, netVars, openVars, moneyVars, scanVars
<1>1. ASSUME NEW g \in Gens, ScanAnswers(g) PROVE ScansOnly
  <2>1. walletGen' = walletGen /\ walletGen \in Nat
    BY <1>1 DEF ScanAnswers, walletGen, ViewInv
  <2>2. CASE Mine(g)
    <3>1. PICK more \in SUBSET PaidLater[opened[g]] :
            LET seen == Paid[opened[g]] \cup more IN
            IF Further(NextUnused(seen))
               THEN /\ wallet' = [wallet EXCEPT !.index = NextUnused(seen)]
                    /\ RememberReceiveIndex
               ELSE UNCHANGED <<wallet, receivePersist>>
      BY <1>1, <2>2 DEF ScanAnswers
    <3> DEFINE seen == Paid[opened[g]] \cup more
    <3>2. NextUnused(seen) \in Nat
      <4>1. opened[g] \in Wallet
        BY <2>2 DEF Mine, Same, ViewInv, Open
      <4>2. seen \in SUBSET (0 .. MaxIndex - 1)
        BY <4>1, PageConstants
      <4> QED
        BY <4>2, NextIsPastSeen
    <3> HIDE DEF seen
    <3>3. \/ UNCHANGED wallet
          \/ NextUnused(seen) > wallet.index /\ wallet' = [wallet EXCEPT !.index = NextUnused(seen)]
      BY <3>1 DEF seen, Further
    <3>4. receiveScanGen' = walletGen /\ handed' = handed
      BY <1>1, <2>2 DEF ScanAnswers, Mine, Same
    <3>5. ScanInv' /\ wallet'.seed = wallet.seed
      BY <2>1, <3>2, <3>3, <3>4 DEF ScanInv, Open
    <3> QED
      BY <1>1, <3>5 DEF ScanAnswers, ScansOnly
  <2>3. CASE ~Mine(g)
    BY <1>1, <2>1, <2>3 DEF ScanAnswers, ScansOnly, ScanInv, Open
  <2> QED
    BY <2>2, <2>3
<1>2. ASSUME NEW g \in Gens, ScanFails(g) PROVE ScansOnly
  BY <1>2 DEF ScanFails, ScansOnly, ScanInv, Open, walletGen
<1>3. CASE ScanRetry \/ LoadStatus
  BY <1>3 DEF ScanRetry, LoadStatus, SyncReceiveIndex, ScansOnly, ScanInv,
              Open, walletGen
<1>4. CASE HandOut
  BY <1>4 DEF HandOut, ScansOnly, ScanInv, Open, walletGen
<1> QED
  BY <1>1, <1>2, <1>3, <1>4 DEF Scans

MoneyOnly ==
  /\ PollInv' /\ UNCHANGED <<vaultVars, ops, unlocking, opened, wallet, handed, receiveScanGen>>
  /\ shown' \in {shown, wallet.seed}

\* A chain's refresh becomes its timer, its timer the next refresh, and both end with
\* the opening; a late config starts the chain that boot could not.
LEMMA MoneyKeeps ==
  ASSUME ViewInv, PollInv, MoneyTimer \/ LateConfig \/ \E g \in Gens : PollEnds(g)
  PROVE  MoneyOnly
<1> USE DEF vaultVars, netVars, openVars, scanVars
<1>1. walletGen \in Nat /\ 0 \notin Gens /\ Gens \subseteq Nat
  BY DEF ViewInv, walletGen, Gens
<1>2. ASSUME NEW g \in Gens, PollEnds(g) PROVE MoneyOnly
  <2>1. /\ UNCHANGED <<vaultVars, ops, unlocking, opened, wallet, handed, receiveScanGen, indexer>>
        /\ walletGen' = walletGen /\ Open' = Open
    BY <1>2 DEF PollEnds, walletGen, Open
  <2>2. shown' \in {shown, wallet.seed}
    BY <1>2 DEF PollEnds, Paint, RefreshFails, Same, ViewInv
  <2>3. /\ polling[g] > 0 /\ polling' = [polling EXCEPT ![g] = @ - 1]
        /\ moneyTimer' = IF ~Same(g) \/ ~Open THEN moneyTimer ELSE g
    BY <1>2 DEF PollEnds, ChainEnds
  <2>4. polling \in [Gens -> Nat] /\ polling[g] \in Nat /\ polling[g] - 1 \in Nat
    BY <2>3 DEF PollInv
  <2>5. indexer
    BY <2>3 DEF PollInv
  <2>6. polling' \in [Gens -> Nat] /\ (\A h \in Gens : h > walletGen => polling'[h] = 0)
    BY <2>3, <2>4 DEF PollInv
  <2>7. CASE Same(g) /\ Open
    <3>1. moneyTimer' = g /\ walletGen = g /\ polling[g] = 1 /\ polling'[g] = 0
      BY <2>3, <2>4, <2>7 DEF Same, PollInv, OnePollChain
    <3>2. PollInv'
      BY <1>1, <2>1, <2>5, <2>6, <2>7, <3>1 DEF PollInv, OnePollChain
    <3> QED
      BY <2>1, <2>2, <3>2 DEF MoneyOnly
  <2>8. CASE ~(Same(g) /\ Open)
    <3>1. moneyTimer' = moneyTimer /\ (Open => polling'[walletGen] = polling[walletGen])
      BY <2>3, <2>4, <2>8 DEF Same
    <3>2. PollInv'
      BY <2>1, <2>5, <2>6, <3>1 DEF PollInv, OnePollChain
    <3> QED
      BY <2>1, <2>2, <3>2 DEF MoneyOnly
  <2> QED
    BY <2>7, <2>8
<1>3. CASE MoneyTimer
  <2>1. /\ UNCHANGED <<vaultVars, ops, unlocking, opened, wallet, handed, receiveScanGen, indexer, shown>>
        /\ walletGen' = walletGen /\ Open' = Open
    BY <1>3 DEF MoneyTimer, walletGen, Open
  <2>2. moneyTimer # 0 /\ moneyTimer = walletGen /\ Open /\ moneyTimer' = 0
          /\ polling' = [polling EXCEPT ![moneyTimer] = @ + 1]
    BY <1>3 DEF MoneyTimer, PollInv
  <2>3. walletGen \in Gens
    BY <1>1, <2>2 DEF ViewInv, Gens
  <2>4. polling[walletGen] = 0 /\ polling'[walletGen] = 1 /\ polling' \in [Gens -> Nat]
          /\ \A h \in Gens : h # walletGen => polling'[h] = polling[h]
    BY <2>2, <2>3 DEF PollInv, OnePollChain
  <2>5. PollInv'
    BY <1>1, <2>1, <2>2, <2>3, <2>4 DEF PollInv, OnePollChain
  <2> QED
    BY <2>1, <2>5 DEF MoneyOnly
<1>4. CASE LateConfig
  <2>1. /\ UNCHANGED <<vaultVars, ops, unlocking, opened, wallet, handed, receiveScanGen, shown>>
        /\ walletGen' = walletGen /\ Open' = Open
    BY <1>4 DEF LateConfig, walletGen, Open
  <2>2. moneyTimer = 0 /\ (\A g \in Gens : polling[g] = 0) /\ indexer' = TRUE
    BY <1>4 DEF LateConfig, PollInv
  <2>3. \/ UNCHANGED <<polling, moneyTimer>>
        \/ Open /\ polling' = [polling EXCEPT ![walletGen] = @ + 1] /\ moneyTimer' = 0
        \/ Open /\ UNCHANGED polling /\ moneyTimer' = walletGen
    BY <1>4, Zenon DEF LateConfig, StartMoneyPolling
  <2>4. Open => walletGen \in Gens
    BY <1>1 DEF ViewInv, Gens
  <2>5. PollInv'
    BY <1>1, <2>1, <2>2, <2>3, <2>4 DEF PollInv, OnePollChain
  <2> QED
    BY <2>1, <2>5 DEF MoneyOnly
<1> QED
  BY <1>2, <1>3, <1>4

-----------------------------------------------------------------------------
(* Theorems *)

LEMMA PageBegins == Init => PageInv
<1> SUFFICES ASSUME Init PROVE PageInv
  OBVIOUS
<1>1. Sound(disk)
  <2>1. disk \in {Fresh(held, a) : held \in FirstHeld, a \in Wallet}
    BY DEF Init
  <2>2. disk \in Record
    BY <2>1 DEF Fresh, Record
  <2>3. disk.active \in Held(disk)
    BY DEF Init
  <2> QED
    BY <2>2, <2>3 DEF Sound
<1>2. /\ copy = disk /\ unlocked = FALSE /\ mail = FALSE /\ ops = {} /\ unlocking = FALSE
      /\ opened = <<>> /\ wallet = [seed |-> Nil, index |-> 0] /\ receiveScanGen = 0
      /\ polling = [g \in Gens |-> 0] /\ moneyTimer = 0 /\ shown = Nil /\ handed = 0
  BY Zenon DEF Init
<1>3. indexer \in BOOLEAN
  BY DEF Init
<1>4. walletGen = 0 /\ ~Open
  BY <1>2 DEF walletGen, Open
<1>5. VaultInv
  <2>1. disk.rev <= disk.rev
    BY <1>1 DEF Sound, Record
  <2> QED
    BY <1>1, <1>2, <2>1, Zenon DEF VaultInv
<1>6. KeyInv
  BY <1>2, <1>4 DEF KeyInv, AtRestOpenIsActive
<1>7. ViewInv /\ ScanInv
  BY <1>2, <1>4, Bounds DEF ViewInv, ScanInv, ScreenIsOfOpenWallet
<1>8. PollInv
  BY <1>2, <1>4, <1>3 DEF PollInv, OnePollChain
<1> QED
  BY <1>6, <1>7, <1>8, <1>5 DEF PageInv

\* Every step follows the vault, scans, or counts money.
LEMMA StepKinds ==
  ASSUME PageInv, [Next]_vars
  PROVE  Keeps \/ Scans \/ MoneyOnly
<1>1. CASE User
  BY <1>1, UserKeeps DEF User, PageInv, Scans
<1>2. CASE Manager
  BY <1>2, ManagerKeeps, LandingsKeep DEF Manager, PageInv
<1>3. CASE OtherTab
  BY <1>3, OtherTabKeeps DEF PageInv
<1>4. CASE Page
  BY <1>4, MoneyKeeps DEF Page, PageInv, Scans
<1>5. CASE UNCHANGED vars
  <2>1. Follows /\ Open' = Open /\ wallet' = wallet
    BY <1>5, RestFollows DEF vars, pageVars, netVars
  <2>2. VaultInv'
    BY <1>5, VaultRests DEF vars, vaultVars, PageInv, VaultInv
  <2> QED
    BY <1>5, <2>1, <2>2 DEF vars, vaultVars, PageInv, Keeps, KeyInv, AtRestOpenIsActive
<1> QED
  BY <1>1, <1>2, <1>3, <1>4, <1>5 DEF Next

LEMMA PageSteps ==
  ASSUME PageInv, [Next]_vars
  PROVE  PageInv' /\ (Open' => Open \/ unlocking)
<1>1. CASE Keeps
  BY <1>1, ViewFollows, PollFollows, ScanFollows DEF PageInv, Keeps
<1>2. CASE Scans
  <2>1. ScansOnly
    BY <1>2, ScansKeep DEF PageInv
  <2>2. VaultInv' /\ ViewInv' /\ KeyInv' /\ Open' = Open /\ walletGen' = walletGen
    BY <2>1, BackgroundKeeps DEF PageInv, ScansOnly
  <2> QED
    BY <2>1, <2>2, PollRests DEF PageInv, ScansOnly
<1>3. CASE MoneyOnly
  <2>1. VaultInv' /\ ViewInv' /\ KeyInv' /\ Open' = Open /\ walletGen' = walletGen
    BY <1>3, BackgroundKeeps DEF PageInv, MoneyOnly
  <2>2. ScanInv'
    BY <1>3, <2>1 DEF PageInv, MoneyOnly, ScanInv
  <2> QED
    BY <1>3, <2>1, <2>2 DEF PageInv, MoneyOnly
<1> QED
  BY <1>1, <1>2, <1>3, StepKinds

LEMMA PageInvariant == Spec => []PageInv
<1>1. PageInv /\ [Next]_vars => PageInv'
  BY PageSteps
<1> QED
  BY <1>1, PageBegins, PTL DEF Spec

\* Whatever is locked, switched, removed or erased while refreshes, polls and scans are
\* under way, the screen never shows a balance of another wallet than the open one.
THEOREM ScreenIsTheOpenWallets == Spec => []ScreenIsOfOpenWallet
<1>1. PageInv => ScreenIsOfOpenWallet
  BY DEF PageInv, ViewInv
<1> QED
  BY <1>1, PageInvariant, PTL

\* With no broadcast owed an open page shows the wallet that is active in the stored
\* vault, unlocked and from its current record.  Every refresh the page asks for is
\* answered here: the code swallows one that is refused (app.js:1384) and stays behind
\* until the next broadcast.
THEOREM PageFollowsVault == Spec => []AtRestOpenIsActive
<1>1. PageInv => AtRestOpenIsActive
  BY DEF PageInv, KeyInv
<1> QED
  BY <1>1, PageInvariant, PTL

\* Nothing but an unlock puts a wallet on a locked screen, whichever mutations,
\* broadcasts and scans were under way when it was locked.
THEOREM LocksHold == Spec => LockHolds
<1>1. PageInv /\ [Next]_vars => [~Open /\ Open' => unlocking]_vars
  BY PageSteps
<1> QED
  BY <1>1, PageInvariant, PTL DEF Spec, LockHolds

\* An opening has one poll chain, whether it or the late config started it.
THEOREM ChainsDoNotOverlap == Spec => []OnePollChain
<1>1. PageInv => OnePollChain
  BY DEF PageInv, PollInv
<1> QED
  BY <1>1, PageInvariant, PTL

\* A scan counts once its answer is in, and the answer goes past all that was paid.
LEMMA WatchSteps ==
  ASSUME PaidWithinGap, PageInv, WatchInv, [Next]_vars
  PROVE  WatchInv'
<1>1. Lookahead \in Nat /\ Lookahead # 0 /\ wallet.index \in Nat
  BY PageConstants DEF PageInv, ScanInv
<1>2. \A w \in Wallet : Paid[w] \subseteq Nat
  BY PageConstants
<1>3. CASE Keeps
  BY <1>3, WatchFollows DEF Keeps, PageInv
<1>4. CASE MoneyOnly
  BY <1>4 DEF MoneyOnly, WatchInv, PaidIsWatched, Open, walletGen
<1>5. CASE HandOut
  <2>1. wallet'.seed = wallet.seed /\ wallet'.index = wallet.index + 1
          /\ receiveScanGen' = receiveScanGen /\ walletGen' = walletGen
    BY <1>5 DEF HandOut, PageInv, ScanInv, scanVars, walletGen
  <2> QED
    BY <1>1, <1>2, <2>1 DEF WatchInv, PaidIsWatched, Open, PageInv, ViewInv
<1>6. ASSUME NEW g \in Gens, ScanAnswers(g) PROVE WatchInv'
  <2>1. walletGen' = walletGen
    BY <1>6 DEF ScanAnswers, walletGen
  <2>2. CASE Mine(g)
    <3>1. PICK more \in SUBSET PaidLater[opened[g]] :
            LET seen == Paid[opened[g]] \cup more IN
            IF Further(NextUnused(seen))
               THEN /\ wallet' = [wallet EXCEPT !.index = NextUnused(seen)]
                    /\ RememberReceiveIndex
               ELSE UNCHANGED <<wallet, receivePersist>>
      BY <1>6, <2>2 DEF ScanAnswers
    <3> DEFINE seen == Paid[opened[g]] \cup more
    <3>2. wallet.seed \in Wallet /\ opened[g] = wallet.seed
      BY <2>2 DEF Mine, Same, PageInv, ViewInv, Open
    <3>3. seen \in SUBSET (0 .. MaxIndex - 1) /\ Paid[wallet.seed] \subseteq seen
      BY <3>2, PageConstants
    <3>4. NextUnused(seen) \in Nat /\ \A i \in Paid[wallet.seed] : i < NextUnused(seen)
      BY <3>2, <3>3, NextIsPastSeen, ScanFindsPaid
    <3> HIDE DEF seen
    <3>5. \/ wallet' = wallet /\ ~(NextUnused(seen) > wallet.index)
          \/ wallet' = [wallet EXCEPT !.index = NextUnused(seen)]
      BY <3>1 DEF seen, Further
    <3>6. wallet'.seed = wallet.seed /\ wallet'.index \in Nat /\ NextUnused(seen) <= wallet'.index
      BY <1>1, <3>4, <3>5 DEF PageInv, ScanInv
    <3> QED
      BY <1>1, <1>2, <3>2, <3>4, <3>6 DEF WatchInv, PaidIsWatched
  <2>3. CASE ~Mine(g)
    BY <1>6, <2>1, <2>3 DEF ScanAnswers, WatchInv, PaidIsWatched, Open, Mine, Same
  <2> QED
    BY <2>2, <2>3
<1>7. CASE ScanRetry \/ LoadStatus \/ \E g \in Gens : ScanFails(g)
  BY <1>7 DEF ScanRetry, LoadStatus, ScanFails, SyncReceiveIndex, openVars, WatchInv,
              PaidIsWatched, Open, walletGen
<1> QED
  BY <1>3, <1>4, <1>5, <1>6, <1>7, StepKinds DEF Scans

\* If payments keep within the gap limit, an opening whose scan counts as done watches
\* every address paid before it, however often scans fail and openings overlap.
THEOREM PaymentsAreWatched ==
  ASSUME PaidWithinGap
  PROVE  Spec => []PaidIsWatched
<1>1. Init => WatchInv
  BY DEF Init, WatchInv, PaidIsWatched, Open
<1>2. PageInv /\ WatchInv /\ [Next]_vars => WatchInv'
  BY WatchSteps
<1>3. WatchInv => PaidIsWatched
  BY DEF WatchInv
<1> QED
  BY <1>1, <1>2, <1>3, PageInvariant, PTL DEF Spec

-----------------------------------------------------------------------------
(* Whose the index is *)

\* What one stored record says of each wallet is its own, in the manager's copy too.
OwnRecord(r) == r # Nil => \A w \in Held(r) : Earned(w, r.wallets[w])
OwnShown == Open => Earned(wallet.seed, wallet.index)
OwnInv ==
  /\ OwnRecord(disk) /\ OwnRecord(copy) /\ OwnShown
  /\ handedEver \in [Wallet -> Nat]

\* No mutation moves an index but the one that stores the open wallet's.
LEMMA OwnMutations ==
  ASSUME NEW r, Sound(r), r # Nil, OwnRecord(r)
  PROVE  /\ \A w \in Held(r) : OwnRecord(WithActive(r, w))
         /\ \A w \in Wallet, i \in Nat : Earned(w, i) => OwnRecord(WithIndex(r, w, i))
         /\ \A w \in Held(r) : \A rec \in Without(r, w) : OwnRecord(rec)
<1> USE DEF Sound, Record, Held, Stored, OwnRecord
<1>1. r \in Record /\ Nil \notin Nat
  BY Bounds
<1>2. ASSUME NEW w \in Held(r) PROVE OwnRecord(WithActive(r, w))
  <2>1. WithActive(r, w).wallets = r.wallets
    BY <1>1 DEF WithActive
  <2> QED
    BY <2>1
<1>3. ASSUME NEW w \in Wallet, NEW i \in Nat, Earned(w, i) PROVE OwnRecord(WithIndex(r, w, i))
  <2>1. WithIndex(r, w, i).wallets = [r.wallets EXCEPT ![w] = i]
    BY <1>1 DEF WithIndex
  <2>2. ASSUME NEW v \in Held(WithIndex(r, w, i)) PROVE Earned(v, WithIndex(r, w, i).wallets[v])
    BY <1>1, <1>3, <2>1, <2>2
  <2> QED
    BY <2>2
<1>4. ASSUME NEW w \in Held(r), NEW rec \in Without(r, w), rec # Nil
      PROVE  OwnRecord(rec)
  <2> DEFINE kept == Stored([r EXCEPT !.wallets[w] = Nil])
  <2>1. \E a : rec = [kept EXCEPT !.active = a]
    BY <1>4 DEF Without
  <2>2. rec.wallets = [r.wallets EXCEPT ![w] = Nil]
    BY <1>1, <2>1
  <2>3. ASSUME NEW v \in Held(rec) PROVE v \in Held(r) /\ rec.wallets[v] = r.wallets[v]
    BY <1>1, <2>2
  <2> QED
    BY <2>3
<1> QED
  BY <1>2, <1>3, <1>4

\* A step that hands nothing out, stores what is its own, and opens what is stored.
LEMMA OwnFollows ==
  ASSUME OwnInv, UNCHANGED handedEver, OwnRecord(disk'), OwnRecord(copy'),
         \/ wallet' = wallet \/ wallet'.seed = Nil
         \/ \E r \in {disk, copy, disk', copy'} :
               /\ r # Nil
               /\ \E w \in Held(r) : wallet' = [seed |-> w, index |-> r.wallets[w]]
  PROVE  OwnInv'
<1>1. \A w, i : Earned(w, i)' <=> Earned(w, i)
  BY DEF Earned
<1>2. OwnRecord(disk)' /\ OwnRecord(copy)'
  BY DEF OwnRecord, Earned, Held
<1>3. CASE wallet' = wallet \/ wallet'.seed = Nil
  BY <1>2, <1>3 DEF OwnInv, OwnShown, Open, Earned
<1>4. ASSUME NEW r \in {disk, copy, disk', copy'}, r # Nil, NEW w \in Held(r),
             wallet' = [seed |-> w, index |-> r.wallets[w]]
      PROVE  OwnInv'
  <2>1. Earned(w, r.wallets[w])
    BY <1>4 DEF OwnInv, OwnRecord
  <2>2. wallet'.seed = w /\ wallet'.index = r.wallets[w]
    BY <1>4
  <2> QED
    BY <1>2, <2>1, <2>2 DEF OwnInv, OwnShown, Earned
<1> QED
  BY <1>3, <1>4

\* Whatever opens or closes a wallet shows the index of the record it was opened from.
LEMMA OpeningsShowStored ==
  ASSUME NEW r, NEW open \in BOOLEAN, open => Sound(r), ReconcileVaultUi(r, open)
  PROVE  /\ UNCHANGED handedEver
         /\ \/ wallet' = wallet \/ wallet'.seed = Nil
            \/ open /\ \E w \in Held(r) : wallet' = [seed |-> w, index |-> r.wallets[w]]
<1>1. CASE open /\ Open /\ SwitchToWallet(r.active, r)
  BY <1>1 DEF SwitchToWallet, OpenWallet, Sound
<1>2. CASE ~open /\ Open /\ CloseWallet
  BY <1>2 DEF CloseWallet
<1>3. CASE UNCHANGED pageVars
  BY <1>3 DEF pageVars, openVars
<1> QED
  BY <1>1, <1>2, <1>3 DEF ReconcileVaultUi

LEMMA UserOwns ==
  ASSUME PageInv, OwnInv, User
  PROVE  OwnInv'
<1> USE DEF PageInv
<1>1. CASE LockWallet
  BY <1>1, OwnFollows DEF LockWallet, CloseWallet, OwnInv
<1>2. CASE Unlock
  BY <1>2, OwnFollows DEF Unlock, pageVars, openVars, OwnInv
<1>3. ASSUME NEW w \in Wallet, SetActive(w) \/ AddWallet(w) \/ RemoveWallet(w)
      PROVE  OwnInv'
  <2>1. CASE \E op \in VaultOps : Begin(op, w)
    BY <2>1, OwnFollows DEF Begin, vaultVars, pageVars, openVars, OwnInv
  <2>2. CASE SwitchToWallet(w, copy) /\ UNCHANGED vaultVars /\ MayMutate /\ w \in Held(copy)
    <3>1. UNCHANGED handedEver /\ wallet' = [seed |-> w, index |-> copy.wallets[w]] /\ copy # Nil
      BY <2>2 DEF SwitchToWallet, OpenWallet, MayMutate
    <3> QED
      BY <2>2, <3>1, OwnFollows DEF vaultVars, OwnInv
  <2> QED
    BY <1>3, <2>1, <2>2 DEF SetActive, AddWallet, RemoveWallet, VaultOps
<1>4. CASE HandOut
  <2> DEFINE w == wallet.seed
             top == Max({handedEver[w], wallet.index + 1})
  <2>1. w \in Wallet /\ wallet.index \in Nat /\ handedEver[w] \in Nat
    BY <1>4 DEF HandOut, Open, ViewInv, ScanInv, OwnInv
  <2>2. top \in Nat /\ handedEver[w] <= top /\ wallet.index + 1 <= top
    <3> DEFINE S == {handedEver[w], wallet.index + 1}
               b == handedEver[w] + wallet.index + 1
    <3>1. b \in Nat /\ S \in SUBSET (0 .. b) /\ S # {}
      BY <2>1
    <3>2. handedEver[w] \in S /\ wallet.index + 1 \in S /\ S \subseteq Nat
      BY <2>1
    <3> HIDE DEF S, b
    <3>3. Max(S) \in S /\ \A n \in S : n <= Max(S)
      BY <3>1, Greatest
    <3> QED
      BY <3>2, <3>3 DEF S
  <2>3. /\ wallet' = [wallet EXCEPT !.index = wallet.index + 1] /\ UNCHANGED <<disk, copy>>
        /\ handedEver' = [handedEver EXCEPT ![w] = top]
    BY <1>4 DEF HandOut, vaultVars
  <2> HIDE DEF top
  <2>4. handedEver' \in [Wallet -> Nat] /\ handedEver'[w] = top
          /\ \A v \in Wallet : handedEver[v] <= handedEver'[v]
    BY <2>1, <2>2, <2>3 DEF OwnInv
  <2>5. ASSUME NEW v \in Wallet, NEW i \in Nat, Earned(v, i) PROVE Earned(v, i)'
    <3>1. handedEver[v] \in Nat /\ handedEver'[v] \in Nat /\ handedEver[v] <= handedEver'[v]
      BY <2>4 DEF OwnInv
    <3> QED
      BY <2>5, <3>1 DEF Earned
  <2>6. wallet'.seed = w /\ wallet'.index = wallet.index + 1
    BY <2>3 DEF ScanInv
  <2>7. OwnShown'
    BY <2>2, <2>4, <2>6 DEF OwnShown, Earned
  <2>8. OwnRecord(disk)' /\ OwnRecord(copy)'
    BY <2>3, <2>5 DEF OwnInv, VaultInv, OwnRecord, Sound, Record, Held
  <2> QED
    BY <2>4, <2>7, <2>8 DEF OwnInv
<1> QED
  BY <1>1, <1>2, <1>3, <1>4 DEF User

LEMMA ManagerOwns ==
  ASSUME PageInv, OwnInv, Manager
  PROVE  OwnInv'
<1> USE DEF PageInv
<1>1. CASE UnlockOpens
  <2>1. CASE copy # Nil
    <3>1. copy.active \in Held(copy)
      BY <2>1 DEF VaultInv, Sound
    <3>2. UNCHANGED <<disk, copy, handedEver>>
            /\ wallet' = [seed |-> copy.active, index |-> copy.wallets[copy.active]]
      BY <1>1, <2>1 DEF UnlockOpens, OpenWallet
    <3> QED
      BY <2>1, <3>1, <3>2, OwnFollows DEF OwnInv
  <2>2. CASE copy = Nil
    BY <1>1, <2>2, OwnFollows DEF UnlockOpens, pageVars, openVars, OwnInv
  <2> QED
    BY <2>1, <2>2
<1>2. CASE UnlockFails
  BY <1>2, OwnFollows DEF UnlockFails, vaultVars, pageVars, openVars, OwnInv
<1>3. ASSUME copy' = disk, disk' = disk, ReconcileVaultUi(disk, unlocked /\ disk # Nil)
      PROVE  OwnInv'
  <2>1. (unlocked /\ disk # Nil) \in BOOLEAN /\ (unlocked /\ disk # Nil => Sound(disk) /\ disk # Nil)
    BY DEF VaultInv
  <2> QED
    BY <1>3, <2>1, OpeningsShowStored, OwnFollows DEF OwnInv
<1>4. CASE OnVaultChanged
  BY <1>3, <1>4 DEF OnVaultChanged
<1>5. ASSUME NEW o \in ops, Conflict(o) PROVE OwnInv'
  BY <1>3, <1>5 DEF Conflict
<1>6. ASSUME NEW o \in ops, SaveFails(o) PROVE OwnInv'
  BY <1>6, OwnFollows DEF SaveFails, vaultVars, pageVars, openVars, OwnInv
<1>7. ASSUME NEW o \in ops, SetActiveLands(o) PROVE OwnInv'
  <2> DEFINE rec == WithActive(disk, o.w)
  <2>1. disk # Nil /\ Sound(disk) /\ o.w \in Held(disk) /\ OwnRecord(disk)
    BY <1>7, Landing DEF SetActiveLands, OwnInv
  <2>2. OwnRecord(rec) /\ rec.wallets = disk.wallets
    BY <2>1, OwnMutations DEF WithActive, Stored, Sound, Record
  <2>3. disk' = rec /\ copy' = rec
    BY <1>7 DEF SetActiveLands, Save
  <2>4. UNCHANGED handedEver
          /\ (wallet' = wallet \/ wallet' = [seed |-> o.w, index |-> disk.wallets[o.w]])
    BY <1>7, <2>2, <2>3 DEF SetActiveLands, SwitchToWallet, OpenWallet, pageVars, openVars
  <2> HIDE DEF rec
  <2> QED
    BY <2>1, <2>2, <2>3, <2>4, OwnFollows
<1>8. ASSUME NEW o \in ops, AddWalletLands(o) PROVE OwnInv'
  <2>1. disk # Nil /\ Sound(disk) /\ o.w \in Wallet /\ OwnRecord(disk)
    BY <1>8, Landing DEF AddWalletLands, OwnInv
  <2>2. Earned(o.w, 0)
    BY <2>1 DEF Earned, OwnInv
  <2>3. disk' = WithIndex(disk, o.w, 0) /\ copy' = disk' /\ UNCHANGED <<wallet, handedEver>>
    BY <1>8 DEF AddWalletLands, Save, pageVars, openVars
  <2> QED
    BY <2>1, <2>2, <2>3, OwnMutations, OwnFollows
<1>9. ASSUME NEW o \in ops, RemoveWalletLands(o) PROVE OwnInv'
  <2>1. disk # Nil /\ Sound(disk) /\ o.w \in Held(disk) /\ OwnRecord(disk)
    BY <1>9, Landing DEF RemoveWalletLands, OwnInv
  <2>2. PICK rec \in Without(disk, o.w) :
          /\ Save(rec)
          /\ CASE rec = Nil -> CloseWallet
               [] rec # Nil /\ o.w = wallet.seed -> SwitchToWallet(rec.active, rec)
               [] OTHER -> UNCHANGED pageVars
    BY <1>9 DEF RemoveWalletLands
  <2>3. OwnRecord(rec) /\ (rec # Nil => rec.active \in Held(rec))
    BY <2>1, <2>2, OwnMutations, NextRecords DEF Sound
  <2>4. disk' = rec /\ copy' = rec
    BY <2>2 DEF Save
  <2>5. CASE rec = Nil
    <3>1. CloseWallet
      BY <2>2, <2>5
    <3> QED
      BY <2>3, <2>4, <3>1, OwnFollows DEF CloseWallet
  <2>6. CASE rec # Nil /\ o.w = wallet.seed
    <3>1. SwitchToWallet(rec.active, rec)
      BY <2>2, <2>6
    <3>2. UNCHANGED handedEver /\ wallet' = [seed |-> rec.active, index |-> rec.wallets[rec.active]]
      BY <3>1 DEF SwitchToWallet, OpenWallet
    <3> QED
      BY <2>3, <2>4, <2>6, <3>2, OwnFollows
  <2>7. CASE rec # Nil /\ o.w # wallet.seed
    <3>1. UNCHANGED pageVars
      BY <2>2, <2>7
    <3> QED
      BY <2>3, <2>4, <3>1, OwnFollows DEF pageVars, openVars
  <2> QED
    BY <2>5, <2>6, <2>7
<1>10. CASE WriteIndex
  <2>1. UNCHANGED <<wallet, handedEver>>
    BY <1>10 DEF WriteIndex, pageVars, openVars
  <2>2. CASE Ours /\ disk # Nil /\ Save(WithIndex(disk, wallet.seed, wallet.index))
    <3>1. Sound(disk) /\ OwnRecord(disk) /\ wallet.seed \in Wallet /\ wallet.index \in Nat
            /\ Earned(wallet.seed, wallet.index)
      BY <2>2 DEF VaultInv, ViewInv, ScanInv, OwnInv, OwnShown, Ours, Open
    <3>2. OwnRecord(WithIndex(disk, wallet.seed, wallet.index))
      BY <2>2, <3>1, OwnMutations
    <3> QED
      BY <2>1, <2>2, <3>2, OwnFollows DEF Save
  <2>3. CASE disk' = disk /\ copy' \in {copy, disk}
    <3>1. OwnRecord(disk') /\ OwnRecord(copy')
      BY <2>3 DEF OwnInv
    <3> QED
      BY <2>1, <3>1, OwnFollows
  <2> QED
    BY <1>10, <2>2, <2>3 DEF WriteIndex, vaultVars
<1> QED
  BY <1>1, <1>2, <1>4, <1>5, <1>6, <1>7, <1>8, <1>9, <1>10 DEF Manager

LEMMA OtherTabOwns ==
  ASSUME PageInv, OwnInv, OtherTab
  PROVE  OwnInv'
<1>1. disk # Nil /\ Sound(disk) /\ OwnRecord(disk) /\ OwnRecord(copy)
  BY DEF OtherTab, PageInv, VaultInv, OwnInv
<1>2. OwnRecord(disk')
  <2>1. CASE disk' = Nil
    BY <2>1 DEF OwnRecord
  <2> QED
    BY <1>1, <2>1, OwnMutations DEF OtherTab
<1> QED
  BY <1>1, <1>2, OwnFollows DEF OtherTab, pageVars, openVars

LEMMA BackgroundOwns ==
  ASSUME PageInv, OwnInv, Page
  PROVE  OwnInv'
<1> USE DEF PageInv
<1>1. ASSUME UNCHANGED <<vaultVars, openVars>> PROVE OwnInv'
  BY <1>1, OwnFollows DEF vaultVars, openVars, OwnInv
<1>2. ASSUME NEW g \in Gens, ScanAnswers(g), Mine(g) PROVE OwnInv'
  <2>1. PICK more \in SUBSET PaidLater[opened[g]] :
          LET seen == Paid[opened[g]] \cup more IN
          IF Further(NextUnused(seen))
             THEN /\ wallet' = [wallet EXCEPT !.index = NextUnused(seen)]
                  /\ RememberReceiveIndex
             ELSE UNCHANGED <<wallet, receivePersist>>
    BY <1>2 DEF ScanAnswers
  <2> DEFINE w == wallet.seed
             seen == Paid[w] \cup more
             next == NextUnused(seen)
  <2>2. w \in Wallet /\ opened[g] = w
    BY <1>2 DEF Mine, Same, ViewInv, Open
  <2>3. more \subseteq PaidLater[w] /\ seen \in SUBSET (0 .. MaxIndex - 1)
    BY <2>1, <2>2, PageConstants
  <2>4. next \in Nat /\ (next = 0 \/ next - 1 \in seen)
    BY <2>3, NextIsPastSeen
  <2> HIDE DEF next
  <2>5. Earned(w, next)
    <3>1. CASE next = 0
      BY <2>2, <3>1 DEF Earned, OwnInv
    <3>2. CASE next - 1 \in seen
      BY <2>3, <3>2 DEF Earned
    <3> QED
      BY <2>4, <3>1, <3>2
  <2>6. UNCHANGED <<disk, copy, handedEver>>
    BY <1>2 DEF ScanAnswers, vaultVars
  <2>7. wallet' = wallet \/ wallet' = [wallet EXCEPT !.index = next]
    BY <2>1, <2>2 DEF next
  <2>8. CASE wallet' = wallet
    BY <2>6, <2>8, OwnFollows DEF OwnInv
  <2>9. CASE wallet' = [wallet EXCEPT !.index = next]
    <3>1. wallet'.seed = w /\ wallet'.index = next
      BY <2>9 DEF ScanInv
    <3> QED
      BY <2>5, <2>6, <3>1 DEF OwnInv, OwnShown, OwnRecord, Earned, Held
  <2> QED
    BY <2>7, <2>8, <2>9
<1>3. ASSUME NEW g \in Gens, ScanAnswers(g), ~Mine(g) PROVE OwnInv'
  BY <1>1, <1>3 DEF ScanAnswers, openVars
<1>4. ASSUME NEW g \in Gens, ScanFails(g) \/ PollEnds(g) PROVE OwnInv'
  BY <1>1, <1>4 DEF ScanFails, PollEnds
<1>5. CASE LoadStatus \/ LateConfig \/ MoneyTimer \/ ScanRetry
  BY <1>1, <1>5 DEF LoadStatus, LateConfig, MoneyTimer, ScanRetry
<1> QED
  BY <1>2, <1>3, <1>4, <1>5 DEF Page

\* Past what was handed out of a wallet only payments to it move its index, on screen
\* and in the vault, over any switches, locks, removals, late scans, lost or late saves
\* and other tabs.  What an opening watches is bounded from below by what that opening
\* began with and handed out, not by what an earlier one did: a save may be lost.
THEOREM IndexIsTheWallets == Spec => []IndexIsOwn
<1>1. Init => OwnInv
  <2>1. Init => /\ disk \in {Fresh(held, a) : held \in FirstHeld, a \in Wallet} /\ copy = disk
                /\ wallet.seed = Nil /\ handedEver = [w \in Wallet |-> 0]
    BY DEF Init
  <2>2. Init => \A w \in Held(disk) : disk.wallets[w] = 0 /\ w \in Wallet
    BY <2>1 DEF Fresh, Held
  <2>3. Init => (disk # Nil => \A w \in Held(disk) : Earned(w, disk.wallets[w]))
    BY <2>1, <2>2 DEF Earned
  <2> QED
    BY <2>1, <2>3 DEF OwnInv, OwnRecord, OwnShown, Open
<1>2. PageInv /\ OwnInv /\ [Next]_vars => OwnInv'
  <2>1. PageInv /\ OwnInv /\ UNCHANGED vars => OwnInv'
    BY OwnFollows DEF vars, vaultVars, openVars, OwnInv
  <2> QED
    BY <2>1, UserOwns, ManagerOwns, OtherTabOwns, BackgroundOwns DEF Next
<1>3. PageInv /\ OwnInv => IndexIsOwn
  BY DEF PageInv, ScanInv, OwnInv, OwnShown, OwnRecord, IndexIsOwn
<1> QED
  BY <1>1, <1>2, <1>3, PageInvariant, PTL DEF Spec
=============================================================================
