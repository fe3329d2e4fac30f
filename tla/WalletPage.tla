----------------------------- MODULE WalletPage -----------------------------
(***************************************************************************)
(* One tab of the wallet, apps/wallet/public/app.js: which wallet is on    *)
(* screen, and the background work asked for it.  A wallet is opened by    *)
(* unlocking, switching, adding, or by following what another tab did;     *)
(* every opening is a new generation.  The receive-chain scan, the money   *)
(* poll and the queue that stores the receive index each remember the      *)
(* generation they were started for and must not touch a later one.        *)
(*                                                                         *)
(* Abstractions: the vault manager is Vault's, with one step for a refresh *)
(* and one for a save, so a save that passes the revision check is applied *)
(* to the record it was computed from; an erased vault stays erased; a     *)
(* wallet's id is its seed; the page waits for one mutation at a time.  A  *)
(* balance is the wallet it is about, and a refresh asked for beside the   *)
(* poll's does to the screen what the poll's does, so it is not modelled.  *)
(* A scan is one answer about the wallet it was started for: what was paid *)
(* before the session, and what of PaidLater has been paid by then.        *)
(* Timers and queued writes of an opening that is over do nothing, so only *)
(* the last one is kept.                                                   *)
(***************************************************************************)
EXTENDS Naturals, Sequences, FiniteSets, FiniteSetsExt

CONSTANTS
  Wallet,
  Gap,       \* RECEIVE_GAP, unused indices that end a scan
  Batch,     \* RECEIVE_SCAN_BATCH
  Lookahead, \* addresses watched from the receive index on: 3 in the app
  FirstHeld, \* the wallets the vault may hold at first: a set of sets
  Paid,      \* [Wallet -> the indices paid before this session]
  PaidLater, \* [Wallet -> those that may be paid during it]
  Faults,    \* subset of {"indexer", "storage", "noConfig"}
  MaxGen,    \* bound: openings
  MaxRev,    \* bound: no mutation starts from a record at this revision
  MaxIndex,  \* bound: receive index
  Nil

VaultOps == {"setActive", "addWallet", "removeWallet"}
ASSUME PageConstants ==
  /\ Faults \subseteq {"indexer", "storage", "noConfig"}
  /\ \A n \in {Gap, Batch, Lookahead, MaxGen} : n \in Nat \ {0}
  /\ MaxRev \in Nat /\ MaxIndex \in Nat
  /\ FirstHeld \subseteq SUBSET Wallet
  /\ \A p \in {Paid, PaidLater} : p \in [Wallet -> SUBSET (0 .. MaxIndex - 1)]
  /\ Nil \notin Wallet \cup Nat

\* What the gap limit takes for granted: nobody paid an address past Gap unused ones.
PaidWithinGap ==
  \A w \in Wallet : \A i \in Paid[w] : \A n \in 0 .. i :
    n + Gap <= i => Paid[w] \cap (n .. n + Gap - 1) # {}

VARIABLES
  disk, copy, unlocked, mail,  \* the stored vault; the manager's record and key; a refresh owed
  ops, unlocking,              \* vault mutations in flight; an unlock in flight
  opened, wallet,              \* what each generation opened; wallet.seed and wallet.index
  receiveScanGen, receiveScanBusy, scans, scanTimer,
  receivePersist,              \* the last opening with a write of its index queued, or 0
  polling,                     \* [generation -> poll chains waiting for a refresh]
  moneyTimer, shown,
  indexer, netKnown,           \* appConfig.indexer; chainState.netKnown
  handed,                      \* history: what the vault held at this opening, or it handed out
  handedEver                   \* history: [Wallet -> the furthest any opening handed out]

vaultVars == <<disk, copy, unlocked, mail>>
openVars == <<opened, wallet, handed, handedEver>>
scanVars == <<receiveScanGen, receiveScanBusy, scans, scanTimer>>
moneyVars == <<polling, moneyTimer, shown>>
netVars == <<indexer, netKnown>>
pageVars == <<openVars, scanVars, moneyVars>>
vars == <<vaultVars, ops, unlocking, openVars, scanVars, receivePersist, moneyVars, netVars>>

walletGen == Len(opened)
Gens == 1 .. MaxGen
Held(r) == {w \in Wallet : r.wallets[w] # Nil}
Open == wallet.seed # Nil
Same(g) == walletGen = g

-----------------------------------------------------------------------------
(* Background work of one opening *)

StartBeforeConfig(g, configured) == polling' = [polling EXCEPT ![g] = @ + 1] /\ moneyTimer' = 0

\* A chain waits for its refresh, or, with nobody to ask yet, for its timer.
StartMoneyPolling(g, configured) ==
  IF configured /\ netKnown
  THEN polling' = [polling EXCEPT ![g] = @ + 1] /\ moneyTimer' = 0
  ELSE UNCHANGED polling /\ moneyTimer' = IF configured THEN g ELSE 0

MaySync(g, net) ==
  indexer /\ net /\ receiveScanGen # g /\ receiveScanBusy # g
MarkThenSync(g, net) ==
  /\ receiveScanBusy' = IF MaySync(g, net) THEN g ELSE receiveScanBusy
  /\ scans' = IF MaySync(g, net) THEN scans \cup {g} ELSE scans
  /\ receiveScanGen' = IF MaySync(g, net) THEN g ELSE receiveScanGen
SyncReceiveIndex(g, net) ==
  /\ receiveScanBusy' = IF MaySync(g, net) THEN g ELSE receiveScanBusy
  /\ scans' = IF MaySync(g, net) THEN scans \cup {g} ELSE scans
  /\ UNCHANGED receiveScanGen

RememberReceiveIndex ==
  receivePersist' = IF unlocked THEN walletGen ELSE receivePersist

-----------------------------------------------------------------------------
(* Opening and closing *)

OpenWallet(w, rec) ==
  /\ walletGen < MaxGen
  /\ opened' = Append(opened, w)
  /\ wallet' = [seed |-> w, index |-> rec.wallets[w]]
  /\ StartMoneyPolling(walletGen + 1, indexer)
  /\ SyncReceiveIndex(walletGen + 1, netKnown)
  /\ handed' = rec.wallets[w]
  /\ UNCHANGED <<scanTimer, handedEver>>

SwitchToWallet(w, rec) == OpenWallet(w, rec) /\ shown' = Nil

\* lockWallet's and reconcileVaultUi's teardown; the index dies with the seed.
CloseWallet ==
  /\ wallet' = [seed |-> Nil, index |-> 0]
  /\ shown' = Nil
  /\ moneyTimer' = 0
  /\ UNCHANGED <<opened, handed, handedEver, scanVars, polling>>

FollowOnlyErase(rec, open) ==
  \/ ~open /\ Open /\ CloseWallet
  \/ (open \/ ~Open) /\ UNCHANGED pageVars
\* The screen follows the manager's record, after a refresh.
ReconcileVaultUi(rec, open) ==
  \/ open /\ Open /\ rec.active # wallet.seed /\ SwitchToWallet(rec.active, rec)
  \/ ~open /\ Open /\ CloseWallet
  \/ /\ ~Open \/ (open /\ rec.active = wallet.seed)
     /\ UNCHANGED pageVars

LockWallet ==
  /\ Open
  /\ unlocked' = FALSE
  /\ CloseWallet
  /\ UNCHANGED <<disk, copy, mail, ops, unlocking, receivePersist, netVars>>

Unlock ==
  /\ ~Open /\ ~unlocking /\ copy # Nil /\ walletGen < MaxGen
  /\ copy' = disk
  /\ unlocking' = (disk # Nil)
  /\ UNCHANGED <<disk, unlocked, mail, ops, pageVars, receivePersist, netVars>>

\* The password opens the record loaded; the page opens what is active now.
UnlockOpens ==
  /\ unlocking
  /\ unlocking' = FALSE
  /\ unlocked' = TRUE
  /\ IF copy # Nil THEN OpenWallet(copy.active, copy) /\ UNCHANGED shown
     ELSE UNCHANGED pageVars
  /\ UNCHANGED <<disk, copy, mail, ops, receivePersist, netVars>>

UnlockFails ==
  /\ unlocking
  /\ unlocking' = FALSE
  /\ UNCHANGED <<vaultVars, ops, pageVars, receivePersist, netVars>>

-----------------------------------------------------------------------------
(* Vault mutations the page waits for *)

MayMutate == Open /\ unlocked /\ copy # Nil
Begin(op, w) ==
  /\ ops = {}
  /\ copy.rev < MaxRev
  /\ ops' = {[op |-> op, w |-> w, base |-> copy.rev]}
  /\ UNCHANGED <<vaultVars, unlocking, pageVars, receivePersist, netVars>>

SetActive(w) ==
  /\ MayMutate /\ w \in Held(copy) \ {wallet.seed}
  /\ \/ copy.active # w /\ Begin("setActive", w)
     \/ /\ copy.active = w
        /\ SwitchToWallet(w, copy)
        /\ UNCHANGED <<vaultVars, ops, unlocking, receivePersist, netVars>>
AddWallet(w) == MayMutate /\ w \notin Held(copy) /\ Begin("addWallet", w)
RemoveWallet(w) == MayMutate /\ w \in Held(copy) /\ Begin("removeWallet", w)

Stored(r) == [r EXCEPT !.rev = @ + 1]
WithActive(r, w) == Stored([r EXCEPT !.active = w])
WithIndex(r, w, i) == Stored([r EXCEPT !.wallets[w] = i])
\* Some other wallet becomes active when the active one goes.
Without(r, w) ==
  IF Held(r) = {w} THEN {Nil}
  ELSE LET kept == Stored([r EXCEPT !.wallets[w] = Nil])
       IN {[kept EXCEPT !.active = a] : a \in IF r.active = w THEN Held(kept) ELSE {r.active}}

StillAt(base) == disk # Nil /\ disk.rev = base
Save(rec) == disk' = rec /\ copy' = rec /\ mail' = TRUE

MayAlwaysSwitch == TRUE
\* getMnemonic refuses when the vault was locked meanwhile.
MaySwitch == unlocked
SetActiveLands(o) ==
  /\ o.op = "setActive" /\ StillAt(o.base)
  /\ Save(WithActive(disk, o.w))
  /\ ops' = ops \ {o}
  /\ IF MaySwitch THEN SwitchToWallet(o.w, disk') ELSE UNCHANGED pageVars
  /\ UNCHANGED <<unlocked, unlocking, receivePersist, netVars>>

\* createWalletEntry goes on to make the new wallet active.
AddWalletLands(o) ==
  /\ o.op = "addWallet" /\ StillAt(o.base)
  /\ Save(WithIndex(disk, o.w, 0))
  /\ ops' = IF unlocked THEN {[op |-> "setActive", w |-> o.w, base |-> disk'.rev]} ELSE {}
  /\ UNCHANGED <<unlocked, unlocking, pageVars, receivePersist, netVars>>

RemoveWalletLands(o) ==
  /\ o.op = "removeWallet" /\ StillAt(o.base)
  /\ \E rec \in Without(disk, o.w) :
       /\ Save(rec)
       /\ unlocked' = (unlocked /\ rec # Nil)
       /\ CASE rec = Nil -> CloseWallet
            [] rec # Nil /\ o.w = wallet.seed -> SwitchToWallet(rec.active, rec)
            [] OTHER -> UNCHANGED pageVars
  /\ ops' = ops \ {o}
  /\ UNCHANGED <<unlocking, receivePersist, netVars>>

\* commit re-reads and rethrows; surfaceError reconciles.
Conflict(o) ==
  /\ ~StillAt(o.base)
  /\ copy' = disk
  /\ unlocked' = (unlocked /\ disk # Nil)
  /\ ops' = ops \ {o}
  /\ ReconcileVaultUi(disk, unlocked')
  /\ UNCHANGED <<disk, mail, unlocking, receivePersist, netVars>>

SaveFails(o) ==
  /\ "storage" \in Faults
  /\ ops' = ops \ {o}
  /\ UNCHANGED <<vaultVars, unlocking, pageVars, receivePersist, netVars>>

-----------------------------------------------------------------------------
(* Other tabs *)

\* Another tab switches or erases; its removals reach this page as switches.
OtherTab ==
  /\ disk # Nil /\ disk.rev < MaxRev
  /\ \/ \E w \in Held(disk) \ {disk.active} : disk' = WithActive(disk, w)
     \/ disk' = Nil
  /\ mail' = TRUE
  /\ UNCHANGED <<copy, unlocked, ops, unlocking, pageVars, receivePersist, netVars>>

OnVaultChanged ==
  /\ mail
  /\ mail' = FALSE
  /\ copy' = disk
  /\ unlocked' = (unlocked /\ disk # Nil)
  /\ ReconcileVaultUi(disk, unlocked')
  /\ UNCHANGED <<disk, ops, unlocking, receivePersist, netVars>>

-----------------------------------------------------------------------------
(* The receive chain *)

\* A scan ends with the first batch after which Gap indices in a row are unused;
\* the next address is the one past the last seen paid until there.
Scanned(seen) ==
  Min({n \in {Batch * k : k \in 1 .. MaxIndex + Gap} :
         n >= Gap /\ seen \cap (n - Gap .. n - 1) = {}})
NextUnused(seen) == Max({0} \cup {i + 1 : i \in {j \in seen : j < Scanned(seen)}})

\* An answer is dropped unless the opening that asked is still on screen.
StillOpen(g) == Open
Mine(g) == Open /\ Same(g)
AsSeen(next) == next # wallet.index
Further(next) == next > wallet.index
ScanAnswers(g) ==
  /\ g \in scans
  /\ scans' = scans \ {g}
  /\ IF Mine(g)
     THEN /\ receiveScanGen' = g
          /\ \E more \in SUBSET PaidLater[opened[g]] :
               LET seen == Paid[opened[g]] \cup more IN
               IF Further(NextUnused(seen))
                  THEN /\ wallet' = [wallet EXCEPT !.index = NextUnused(seen)]
                       /\ RememberReceiveIndex
                  ELSE UNCHANGED <<wallet, receivePersist>>
     ELSE UNCHANGED <<receiveScanGen, wallet, receivePersist>>
  /\ UNCHANGED <<vaultVars, ops, unlocking, opened, handed, handedEver, receiveScanBusy, scanTimer,
                 polling, moneyTimer, shown, netVars>>

StillBusy == receiveScanBusy
NoScan == 0
\* Whatever generation it was of; a malformed answer is not retried.
ScanFails(g) ==
  /\ "indexer" \in Faults /\ g \in scans
  /\ scans' = scans \ {g}
  /\ receiveScanBusy' = NoScan
  /\ scanTimer' \in {scanTimer, IF Same(g) THEN g ELSE scanTimer}
  /\ UNCHANGED <<vaultVars, ops, unlocking, openVars, receiveScanGen, receivePersist, moneyVars, netVars>>

ScanRetry ==
  /\ scanTimer # 0
  /\ scanTimer' = 0
  /\ IF Open /\ Same(scanTimer) THEN SyncReceiveIndex(walletGen, netKnown)
     ELSE UNCHANGED <<receiveScanGen, receiveScanBusy, scans>>
  /\ UNCHANGED <<vaultVars, ops, unlocking, openVars, receivePersist, moneyVars, netVars>>

\* "Next address".
HandOut ==
  /\ Open /\ wallet.index < MaxIndex
  /\ wallet' = [wallet EXCEPT !.index = @ + 1]
  /\ handed' = wallet.index + 1
  /\ handedEver' = [handedEver EXCEPT ![wallet.seed] = Max({@, wallet.index + 1})]
  /\ RememberReceiveIndex
  /\ UNCHANGED <<vaultVars, ops, unlocking, opened, scanVars,
                 polling, moneyTimer, shown, netVars>>

\* A queued write, run once those before it are done: only for the opening that
\* queued it, and only if it moves the counter.  A lost race re-reads the vault and
\* is retried; what fails again is given up in silence.
Moves ==
  disk # Nil /\ wallet.seed \in Held(disk) /\ wallet.index > disk.wallets[wallet.seed]
Ours == unlocked /\ Open /\ Same(receivePersist)
WriteIndex ==
  /\ receivePersist # 0
  /\ receivePersist' = 0
  /\ \/ /\ Ours /\ disk # Nil /\ disk.rev < MaxRev /\ disk.wallets[wallet.seed] # Nil
        /\ wallet.index > disk.wallets[wallet.seed]
        /\ Save(WithIndex(disk, wallet.seed, wallet.index))
        /\ UNCHANGED unlocked
     \/ /\ Ours /\ copy # disk
        /\ copy' = disk /\ unlocked' = (disk # Nil)
        /\ UNCHANGED <<disk, mail>>
     \/ /\ ~(Ours /\ Moves) \/ "storage" \in Faults
        /\ UNCHANGED vaultVars
  /\ UNCHANGED <<ops, unlocking, pageVars, netVars>>

-----------------------------------------------------------------------------
(* Money *)

PaintIfOpen(g) == shown' = IF Open THEN opened[g] ELSE shown
\* The answer to a refresh of generation g reaches the screen.
Paint(g) == shown' = IF Open /\ Same(g) THEN opened[g] ELSE shown
RefreshFails == "indexer" \in Faults /\ UNCHANGED shown

\* The chain goes on for the wallet it was started for.
ChainEnds(g) == ~Same(g) \/ ~Open
PollEnds(g) ==
  /\ polling[g] > 0
  /\ polling' = [polling EXCEPT ![g] = @ - 1]
  /\ Paint(g) \/ RefreshFails
  /\ moneyTimer' = IF ChainEnds(g) THEN moneyTimer ELSE g
  /\ UNCHANGED <<vaultVars, ops, unlocking, openVars, scanVars, receivePersist, netVars>>

\* With nobody to ask yet the refresh returns at once, and the timer is set again.
MoneyTimer ==
  /\ moneyTimer # 0 /\ netKnown
  /\ moneyTimer' = 0
  /\ polling' = [polling EXCEPT ![moneyTimer] = @ + 1]
  /\ UNCHANGED <<vaultVars, ops, unlocking, openVars, scanVars, receivePersist, shown, netVars>>

-----------------------------------------------------------------------------
(* statusLoop *)

LoadStatus ==
  /\ netKnown' = TRUE
  /\ IF Open THEN SyncReceiveIndex(walletGen, TRUE)
     ELSE UNCHANGED <<receiveScanGen, receiveScanBusy, scans>>
  /\ UNCHANGED <<vaultVars, ops, unlocking, openVars, scanTimer, receivePersist, moneyVars, indexer>>

\* A config that boot failed to fetch: an open wallet's poll was refused until now.
LateConfig ==
  /\ ~indexer
  /\ indexer' = TRUE
  /\ IF ~Open THEN UNCHANGED <<polling, moneyTimer>>
     ELSE StartMoneyPolling(walletGen, TRUE)
  /\ UNCHANGED <<vaultVars, ops, unlocking, openVars, scanVars, receivePersist,
                 shown, netKnown>>

-----------------------------------------------------------------------------
(* The specification *)

Fresh(held, a) ==
  [rev |-> 1, active |-> a, wallets |-> [w \in Wallet |-> IF w \in held THEN 0 ELSE Nil]]

Init ==
  /\ disk \in {Fresh(held, a) : held \in FirstHeld, a \in Wallet}
  /\ disk.active \in Held(disk)
  /\ copy = disk /\ unlocked = FALSE /\ mail = FALSE
  /\ ops = {} /\ unlocking = FALSE
  /\ opened = <<>> /\ wallet = [seed |-> Nil, index |-> 0]
  /\ receiveScanGen = 0 /\ receiveScanBusy = 0 /\ scans = {} /\ scanTimer = 0
  /\ receivePersist = 0
  /\ polling = [g \in Gens |-> 0] /\ moneyTimer = 0
  /\ shown = Nil
  /\ indexer \in BOOLEAN /\ (indexer \/ "noConfig" \in Faults)
  /\ netKnown = FALSE
  /\ handed = 0 /\ handedEver = [w \in Wallet |-> 0]

User ==
  \/ LockWallet \/ Unlock \/ HandOut
  \/ \E w \in Wallet : SetActive(w) \/ AddWallet(w) \/ RemoveWallet(w)
Manager ==
  \/ UnlockOpens \/ UnlockFails \/ OnVaultChanged
  \/ \E o \in ops :
       SetActiveLands(o) \/ AddWalletLands(o) \/ RemoveWalletLands(o) \/ Conflict(o) \/ SaveFails(o)
  \/ WriteIndex
Page ==
  \/ LoadStatus \/ LateConfig \/ MoneyTimer \/ ScanRetry
  \/ \E g \in Gens :
       ScanAnswers(g) \/ ScanFails(g) \/ PollEnds(g)
Next == User \/ Manager \/ OtherTab \/ Page

\* Timers fire; scans and refreshes under way are not failed or put off for ever.
Fairness ==
  /\ WF_vars(LoadStatus) /\ WF_vars(LateConfig) /\ WF_vars(MoneyTimer)
  /\ WF_vars(ScanRetry)
  /\ SF_vars(\E g \in Gens : ScanAnswers(g))
  /\ SF_vars(\E g \in Gens : PollEnds(g) /\ Paint(g))

Spec == Init /\ [][Next]_vars /\ Fairness

-----------------------------------------------------------------------------
(* Properties *)

\* Nothing of one wallet is shown under another, or on a locked screen
\* (app.js "Async work started for one wallet must not land on the next one").
ScreenIsOfOpenWallet ==
  shown \in {Nil, wallet.seed}

\* With no broadcast owed the page follows the vault (app.js "an erased vault
\* relocks this tab", "a cross-tab switch/remove re-opens the wallet the vault now
\* says is active"): the wallet on screen is the active one of the stored vault.
AtRestOpenIsActive ==
  Open /\ ~mail => unlocked /\ copy = disk /\ disk # Nil /\ wallet.seed = disk.active

\* A lock holds until a password is typed: no continuation of a call begun
\* before it puts a wallet back on screen.
LockHolds == [][~Open /\ Open' => unlocking]_vars

\* Once an opening's scan counts as done, every address paid before the opening
\* is watched (app.js "marking the generation SCANNED before the I/O ... retired
\* rediscovery for the rest of the session").
PaidIsWatched ==
  Open /\ receiveScanGen = walletGen =>
    \A i \in Paid[wallet.seed] : i < wallet.index + Lookahead

\* The index is the wallet's own (app.js "Async work started for one wallet must not land
\* on the next one"), on screen and stored: past what was ever handed out of that wallet
\* it moves only by a payment to that wallet, whichever openings, scans, queued writes
\* and other tabs there were.  And an opening never watches less than it began with or
\* handed out (it may begin with less than an earlier one handed out: saves fail).
Earned(w, i) == i <= handedEver[w] \/ i - 1 \in Paid[w] \cup PaidLater[w]
IndexIsOwn ==
  /\ Open => handed <= wallet.index /\ Earned(wallet.seed, wallet.index)
  /\ disk # Nil => \A w \in Held(disk) : Earned(w, disk.wallets[w])

\* One poll chain per opening, whichever of openWallet and the late config
\* starts it (app.js "A chain cannot overlap itself").
OnePollChain ==
  Open => polling[walletGen] + (IF moneyTimer = walletGen THEN 1 ELSE 0) <= 1

\* However often wallets were switched before, the last one opened comes up for good if it
\* stays open: its own money is on screen and its own scan is done, however often the
\* indexer fails and whenever config and chain name arrive (app.js "a wallet that has
\* silently stopped looking for its own coins").
OpenWalletComesUp ==
  <>[]Open => <>[](shown = wallet.seed /\ receiveScanGen = walletGen)

=============================================================================
