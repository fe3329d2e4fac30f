# Verification of Diginaut

Diginaut is a browser wallet for DigiByte and DigiDollar with three small servers behind it. The
files here are TLA+ modules that model its stateful parts, TLC configurations that check them on
small instances, and TLAPS proofs that hold for every instance. `PROJECT.json` indexes them: the
parts of the system, the runs, the mutants that show each property can fail, the source lines behind
every definition, the hazards, and the theorems. All source paths below are relative to `src/`.

## 1. Inventory

| part | state it keeps | operations | what is hard | what makes it correct | module |
|---|---|---|---|---|---|
| Vault manager, `apps/wallet/public/vault.js` | per tab: `record` (v2) and `primary` (v1) copies, `key`, `secrets` | create, unlock, migrate, refresh, lock, and nine mutations | every operation awaits; several calls of one tab and several tabs interleave; a broadcast may land inside any of them | no update lost, what is stored opens, names unique, list and secrets agree, tabs catch up | Vault |
| Keystore, `keystore.js` | one IndexedDB record per version, a BroadcastChannel | compare-and-set save and delete, wipe, load, broadcast | the check must be inside the transaction; revisions restart after a wipe | a write replaces only what it was computed from | Vault |
| Faucet, `apps/faucet/server.js` | claims ledger in memory and in a JSON file, keys in flight | claim | claims interleave at their awaits; lost node answers, full disk, restarts | one dispense per address and IP and cooldown; no clock for who was not paid | Faucet |
| Broadcast journal, `broadcastlog.js`; verdicts, `dderrors.js` | signed transactions in localStorage, shared by tabs | record, drop, classify | a timeout is not a verdict; a limit on records; a full storage | a payment is made once; a failure is a failure; what may be on chain leaves a trace | Broadcast |
| Broadcasting and recovery card, `app.js` 60-172 and 3899-4038 | the attempt each tab waits for | broadcastTx, sendAndClassify, Check status, Rebroadcast, Delete | answers lost, pages closed, two attempts at one transaction | as above | Broadcast |
| Chain guard and price sampler, `apps/wallet/server.js` 340-470 | the chain the node last reported; the price history and its file | probe, proxied answer, sample, restart | the backend is swapped between a probe and what relies on it; answers arrive late | nothing served from an unconfirmed node; no point of another chain without a swap; the guard catches up | ChainGuard |
| Wallet server proxy, same file | rate-limit window | RPC, indexer and faucet proxies, bounded body read | a guard checked before an await, and used after it | refusals never reach the node | ChainGuard (the limiter's window is left out) |
| Indexer, `apps/indexer/server.js` | one Electrum socket, pending calls by id, transaction cache | connect, send, request, lookups | late events of a replaced socket, failed handshakes, cached failures | a call fails with its own session only; no failure stays cached; a cached body never says a position is open; every request ends | Indexer; what it computes: Ledger |
| Wallet page, `app.js` | `wallet`, `walletGen`, balances, receive index | unlock, switch, lock, scan, poll, auto-lock | results of an await that outlive the wallet they were asked for | nothing of one wallet shown or stored under another | WalletPage |
| Payment flows, `app.js` 3026-3815, `coinpick.js` | `pendingSend` and its siblings | review, confirm, cancel: send, Max, consolidate, mint, transfer, redeem | a draft reviewed over coins, a tip or a wallet that have moved on when it is signed | the network takes what is signed; amounts are those meant | Ledger |
| Send form, `app.js` 3046-3319 | one amount field, its currency, Max, the last price | type, paste a BIP21 URI, toggle, Max, review; the oracle poll | the poll rewrites the form under the user; awaits between a click and what it plans | a plan is what the form showed | SendForm |
| Connect modal, re-authentication, backup, `app.js` 735-2273, `autolock.js` | one modal mode, one prompt, one timer, the words on screen | add, back up, quiz, prompt, reveal, skip | popups and saves answered after what asked for them is gone; locks at any time | words belong to the wallet on display, and go away; no backup is skipped on mainnet | Ceremonies |
| Web3 wallets, `connect.js` | ceremony run counter | connect, sign twice, derive, reconnect | extensions that sign or encode differently each time; messages that changed over the years | what is stored can be derived again; nobody is falsely accused | SignToDerive, Ceremonies |
| Network status and gates, `netchrome.js`, `dca.js` | misses in a row, multiplier | fold, gate | flapping backends | a gate acts on what is known | SendForm, Ledger, Ceremonies (partly) |
| Persistence hints, `persistence.js` | a tombstone | mark, clear | erase and write of the hint are separate steps | an erased vault is not reported as lost | not modelled |
| Transaction planning, `packages/digidollar-js/src/txbuild.js`, `index.js`, `envelope.js` | none | coin selection, fees, collateral, outputs, what each key signs | dust, fee floor, rounding, varints, amounts paired with outputs by position | the network takes it; what is read back is what was written | TxBuild |
| Addresses and keys, the rest of that package | none | decode, encode, taproot, BIP21, HD | near misses of every address form | value goes where its owner can spend it | Address, TxBuild (partly) |

How they interact: tabs share the vault record, the journal and the broadcast channel. A tab calls
the wallet server, which proxies to the node (through the guard and the limiter), the indexer and the
faucet. The faucet and the sampler call the node on their own. Nothing pushes to the page except the
vault's broadcast, so everything else it knows is an answer it waited for, and may be stale.

## 2. Modules

```
Vault ── VaultProps ── VaultRefinement (INSTANCE WalletStore) ─┬─ MCVault
                                                               └─ VaultProofs
Faucet ──┬─ MCFaucet          ChainGuard ──┬─ MCChainGuard
         └─ FaucetProofs                   └─ ChainGuardProofs
Broadcast ─┬─ MCBroadcast     SendForm ──┬─ MCSendForm
           └───────── PaymentProofs ─────┘
Indexer ──┬─ MCIndexer        WalletPage ──┬─ MCWalletPage
          └─ IndexerProofs                 └─ WalletPageProofs
SignToDerive ── Ceremonies ──┬─ MCCeremonies
                             └─ CeremoniesProofs
TxBuild ─┬─ Ledger ─┬─ MCLedger
Address ─┘          └─ LedgerProofs
```

**Vault** models `vault.js` and the part of `keystore.js` under it. `disk` is the v2 record,
`v1` the legacy one; `record`, `primary`, `key`, `secrets` are the fields of one manager per tab.
`call[t][c]` is one asynchronous call of tab `t`, at the await its `pc` names, with the locals it
still needs. What the code does before the first await is one action, and each continuation another:
a mutation (`AddWallet` ... `RemoveLastWallet`) computes the whole next metadata and secrets from the
tab's own copies and enters pc "save"; `SaveVaultRecord` or `Conflict` is the compare-and-set
transaction; `Refresh` and `Refreshed` are the two halves of `refresh()`, and between them the tab has
the new record and the old secrets. Unlocking is `Unlock`, `UnlockLoad`, then `UnlockOpen`,
`UnlockFallBack` or `UnlockFail`, and `DeleteOrphan`; migration is `MigrateSeal`, `MigrateSave`,
`MigrateDrop`. `mail[t]` counts refreshes owed to a tab: a broadcast reaches the tab that posted
it too, and in each tab both the manager and the page listen. Cryptography is which salt's key
opens what; a wallet id is its seed, since the code generates a fresh id for every entry and refuses
to list the same words twice.

**WalletStore** is what a user is promised: a set of named wallets, changed one whole operation at a
time. **VaultRefinement** maps a stored record to it: a wallet is there when it is listed, its
words are held, and the password opens the record.

**Faucet** models `handleClaim` with one request per `Claim`. Nothing shared is touched before the
chain call answers, so `Accept` is everything from there to the next await: the chain check, the
keys, the cooldown. `OraclePriced` and `NoPrice` are the price call; `NodePays` is the node running
`sendtoaddress`, and `Record` is its answer reaching the faucet with the ledger written in memory and
on disk (or the disk refusing). `RpcFails` is a call that throws or times out, with or without the
payment, and `NodePaysLate` a payment run after the faucet gave up. `Crash` loses the memory.

**Broadcast** composes the journal, the classifier, the page's two senders and the recovery card with
a node that answers. `journal` is localStorage, `accepted` the node's mempool and chain, `told` the
last thing the user was told of a transaction. The server may refuse any request, and Rebroadcast may be
pressed at any time. Two variables are history: `gone` is how a transaction's record was lost, if it was
(refused by the storage, pushed out by the limit, deleted by hand), and `doubted` has the transactions
with a retry that the server refused or that overlapped another attempt. The properties name them where
the code does not keep its word.

**ChainGuard** models the guard, the sampler and the three proxies: every asker has an inquiry,
answers carry the chain the node was on when it gave them, and `Swap` changes the backend at any
time. An RPC call reads its body and then asks the guard; a Faucet claim asks the guard, then reads
its body (`ClaimArrives`, `ClaimBodyRead`); an indexer lookup asks and goes. `cycle` and `wasRight`
are history, for the properties only.

**Indexer** models one `ElectrumClient`, the cache and the handlers over them. A handler is the list
of its lookups (`Lookups`), made one after the other; a lookup is a call, or an entry of the cache
that holds one. A call waits for its session, is sent, and is settled by an answer, a timeout or the
end of its session, which for a call that waits is the one being opened (`Awaited`). `Hangup`,
`Overflow` and `LateClose` are the events of a socket, of the client's own and of those it has replaced
(`Owns`). `Part` is the head of a frame. Promises settle between two
events: `Continue` comes before any other step (`Quiet`). The cache is a set: an insertion makes a
call, so the order of the calls is the order of insertion that eviction goes by.

**TxBuild** and **Address** are operators: the builders and planners of `txbuild.js` with the
collateral of `index.js` and the amounts of `envelope.js`, and the decoders of `address.js`. A
transaction is a record of its inputs and outputs, a script a record of what it commits to, a
signature its key and the message it signs; a builder that throws is a `Can...` that is false. Totals
are folds over the coins (`TotalValue`, `TotalCents`); the sort of `planSpend` gives each coin its
place (`Place`), with equal values in either order, as the comparator leaves them.

**Ledger** puts the flows of the page over them. `task` is the review in flight, with the coins and
keys it has by then; `draft` is what the confirm screen shows; `chain` is every transaction the
network took, and what the indexer would answer is computed from it (`UtxosOf`, `DdUtxosOf`,
`PositionsOf`, translated from its scans). The rules of the network (`Valid`) are external: key and
signature of each input, relay fee and dust, and the DigiDollar rules as the package states them.
Locks, switches, blocks and spends by another device fall between any two steps. `meant` is history.

**SendForm** models the amount field and everybody who writes it: user, URI, Max and the oracle
poll; `line` is the amount in the other currency, `review` the reviews between their click and their
plan, `pendingSend` and `going` the drafts shown and sent. `by` and `in` of the field are history.

**SignToDerive** are the frozen messages, and what becomes of an extension's signature. **Ceremonies**
models the connect modal around it: `connectMode`, the fields of the ceremony on screen (`web3Entry`,
`web3Address`, `web3Force`, `web3Pending`, the step it shows in `view` and the disclosed `host`), every
popup that still waits for its user (`popups`, orphaned or not), the backup ceremony, the two grids of
words and their one timer, the password prompt and the verification in flight. The vault below is one
step a save, which may fail.

**WalletPage** models one tab of `app.js` around `walletGen`. `opened` lists what each generation
opened, `wallet` is the wallet on screen. `OpenWallet` (inside unlock, switch and reconciliation)
starts a poll chain and a receive scan for its generation; `polling`, `scans`, `scanTimer` and
`receivePersist` are what is in flight for each. The vault below it is Vault's in one step a refresh
and one step a save: `copy` and `unlocked` are the manager, `disk` what is stored, `mail` a broadcast
not yet heard, `ops` the mutation the page waits for. Other tabs switch wallets or erase the vault. A
balance on screen (`shown`) is the wallet it is about; a scan's answer is what was paid before the
session, and what of `PaidLater` was paid since. `handed` (what this opening began with or handed out)
and `handedEver` (the furthest any opening of each wallet handed out) are history, for one property.

## 3. Runs

Every property of a passing run has a mutant: a plausible bug in one definition that makes TLC find
that property violated under the same configuration.

| run | question | instance |
|---|---|---|
| VaultCas | Two tabs, two calls each, with broadcasts: does a revision name one record, is a tab at rest current? | 2 seeds, revisions to 3 |
| VaultSolo | Every list operation from two tabs that hear nothing of each other, with refused storage and restarts: does the vault implement `WalletStore`, keep list and secrets in step, and delete only what it saw? | 3 seeds, 2 names, one call a tab |
| VaultCatchUp | A v1 record migrated from scratch or beside a v2 record that opens under no key, vaults created, edited, erased and created again, with restarts: does a session's key fit its copy, does a record always open until it is given up, does a tab that fell behind catch up? (the last is liveness) | 1 seed, 2 salts, revisions to 2, one call a tab |
| VaultTorn (violation) | Are mnemonics kept when a mutation falls between the halves of a refresh? | 3 seeds, revisions to 4 |
| FaucetRestarts | Concurrent claims, lost answers, crashes, a full disk: is an answered claim honoured, does a clock run only for who was paid? | 2 claims, 3 addresses (one foreign), 2 IPs |
| BroadcastLog | Two tabs over a journal at its limit, with lost answers, crashes, full storage, first attempts and retries refused by the server: is a payment made once, is a failure a failure, does what may be on chain leave a trace? | 3 transactions for 2 payments, 2 coins, limit 1 |
| GuardSwaps | Swaps, outages and restarts between probes, proxied calls, claims, lookups and samples: does the guard fail closed, does a wrong point take a change within the cycle, does the guard agree with a settled node in the end? (the last is liveness) | 2 chains, 2 upsets, 1 proxied request |
| LedgerFlows | Every flow over a chain that moves, with locks, switches and a second device: is what is signed taken, do amounts read back as meant, are tokens those of open positions, can a matured position be redeemed, does value stay spendable? | 2 wallets, 3 keys, a mint on the chain, 2 transactions more, 8 recipients and 4 DigiDollar recipients, most of them near misses |
| IndexerSession | Two requests share a session that hangs up, overflows, stays silent or answers late and out of order: was a position reported open open, does a call fail with its own session, is no failure replayed, does every request end? (the last is liveness) | 2 requests, 2 sessions, 2 answers on the wire, cache of 2 |
| Ceremonies | Two extensions, a steady one and one that is not, and a wallet of an earlier era: is nobody falsely accused, is a stored source derivable, do derived seeds and words stay with their screen, is the backup not skipped on mainnet, do words go away? (the last is liveness) | mainnet with one wallet, testnet with none, one change of an extension, 2 popups |
| SendForm | Polls, URIs, Max, toggles and two reviews in every order: is a plan what was shown, do digits keep their currency? | 2 prices, 2 reviews, 2 misses |
| PageOpenings | An indexer and a storage that fail, config and chain name that come late, locks, switches, additions and removals here, switches and an erase elsewhere: is nothing of one wallet shown under another, does the screen follow the vault, does a lock hold, is what was paid watched, does an index move only by what its own wallet was paid or handed out, is there one poll chain, and does the wallet left open in the end come up for good? (the last is liveness) | 2 wallets, 2 openings, gap 2, index to 2 |

**What the violation shows.** `refresh()` replaces the record before it awaits the
decrypt that replaces the secrets (`vault.js` 76-80). A mutation computed in that gap carries the new
revision and the old secrets, passes the check, and the words another tab has just stored are gone.
Further disagreements between code and comments are in section 6.

**Bounds.** `MaxRev`, `MaxSalt`, `MaxIndex`, `MaxClock`, `MaxPayouts`, `MaxUpsets`, `MaxPoints`,
`MaxTxs`, `MaxTip`, `MaxElsewhere`, `MaxSession`, `MaxRequest`, `MaxWire`, `MaxWallets`, `MaxDrift`
and `MaxPopups` only stop counters. They leave room for what the properties need:

* Vault: three revisions are a record, one that overtakes it and one written over that; the second
  salt is that of the vault made after an erase or a migration. Two tabs and two calls a tab give
  every pairwise interleaving, and the lost-update races need no third.
* Faucet: a clock of five with a cooldown of two allows a claim, its boundary and a tick past it.
* Broadcast: two transactions for one payment over different coins are a payment made again; the third,
  for another payment, contends for one of the coins and pushes records out of a journal of one. The
  journal's order under a longer limit is covered by the proofs, which hold for any.
* ChainGuard: two upsets are a swap and a swap back, or a swap and a restart.
* WalletPage: two openings are one that is over and its successor, which is every pair the generation
  guards tell apart; a gap of two with batches of one and a watch window of one keep the order of the
  app's 20, 5 and 3, and the restored wallet is paid past an unused address, so that a scan has to
  walk over a hole; the other wallet may be paid at its first address during the session, so that an index
  carried from one wallet to the other shows.
* Ledger: two transactions beside those the chain starts with are any flow over the result of any
  other; one spend elsewhere takes a coin from under a review, two blocks mature a position. Money is
  scaled so that each case is hit: a change that is folded, one that is not, a fee that grows with the
  count of inputs past the one-byte varint, token change below the minimum.
* Indexer: the first request is for positions or a transaction, the second for positions; two sessions
  are one that ended and its successor; a time to live of one tick and a timeout of two put the end of
  an entry before, at and after an answer.
* Ceremonies: two wallets are the one on display and the one a ceremony adds; two popups are one that
  was left and one on screen. An extension changes only once it has derived a wallet, another tab
  derives only while a ceremony is on screen, and a prompt opens only while no popup does: other
  orders add states and nothing the properties tell apart.
* SendForm: the sats of an amount at one price are floored at the other; an amount of dollars and one
  of coins have the same digits; two misses are below and at the limit.

Symmetry is used for safety runs only. `CHECK_DEADLOCK FALSE` stands where the bounds end every
behaviour.

**Fairness.** Vault: a call in flight resumes (every await in `vault.js` is a storage request or
WebCrypto, and resolves or rejects), weakly; a delivered message runs, strongly, because in the model a
handler needs a free slot of `Call` where the browser needs none. Users and faults are owed nothing.
ChainGuard: the probe timer fires and answers that came are handled, weakly; a node that is up answers
the probe now and then, strongly, since single calls may fail any number of times. WalletPage: the
status, poll and retry timers fire, weakly; of the scans under way, and of the refreshes, some are
answered now and then, strongly, since each may fail any number of times; no save, user or other tab is
owed anything. Indexer: promises settle, timers fire and a TCP connection opens or fails (`Inner`),
weakly; the backend may answer nothing at all. Ceremonies: the timer that hides the words fires, weakly.

## 4. Proofs

| theorem | statement | argument |
|---|---|---|
| `VaultProofs!TypeCorrect` | `Spec => []TypeOK` | inductive as it stands; one lemma per group of actions |
| `VaultProofs!RevisionsAreSound` | `Spec => []RevNamesOneRecord` if `RevisionsOnlyGrow` | `RevInv` |
| `VaultProofs!VaultImplementsStore`, `ListsFitSecrets`, `RemovalIsOfTheLast` | `Spec => ImplementsStore`, `[]ListedIsHeld`, `DeletesOnlyWhatItSaw` if `Serial` | `StoreInv` |
| `VaultProofs!QuietTabsAreCurrent` | `Spec => []QuietTabIsCurrent` if `Heard` | `QuietInv` |
| `VaultProofs!SessionsFit`, `WhatIsWrittenOpens` | `Spec => []SessionFitsCopy`, `EveryWriteOpens` if `NoOverlap` | `SessInv` |
| `VaultProofs!SomethingAlwaysOpens` | `Spec => SomethingOpens` if `NoOverlap` and `WritesLast` | `SessInv`, `KeptInv` |
| `FaucetProofs!TypeCorrect` | `Spec => []TypeOK` | inductive as it stands |
| `FaucetProofs!HonouredUnlessTorn` | `Spec => []AnsweredIsHonoured` if a file cannot be torn | `HonourInv` |
| `FaucetProofs!ClocksAreEarned` | `Spec => []LedgerIsEarned` | `EarnedInv` |
| `ChainGuardProofs!TypeCorrect`, `GuardFailsClosed`, `LeaksAreExcused` | `Spec => []TypeOK`, `FailsClosed`, `[]LeakTakesASwap` | `Inv` |
| `PaymentProofs!TypeCorrect`, `SignedLeavesATrace` | `Spec => []TypeOK`, `[]TraceIsKept` | `TraceInv` |
| `PaymentProofs!PaymentsAreMadeOnce`, `FailuresWereNotSent` | `Spec => []PaidOnce`, `[]FailedIsUnsent` | `PaidInv` |
| `IndexerProofs!OpenPositionsWereOpen`, `CallsFailWithTheirSession`, `FailuresAreForgotten` | `Spec => []OpenWasOpen`, `[]FailsWithItsSession`, `[]NoFailureIsReplayed` | `Inv` |
| `WalletPageProofs!ScreenIsTheOpenWallets`, `PageFollowsVault`, `LocksHold`, `ChainsDoNotOverlap` | `Spec => []ScreenIsOfOpenWallet`, `[]AtRestOpenIsActive`, `LockHolds`, `[]OnePollChain` | `PageInv` |
| `WalletPageProofs!IndexIsTheWallets` | `Spec => []IndexIsOwn` | `PageInv`, `OwnInv` |
| `WalletPageProofs!PaymentsAreWatched` | `Spec => []PaidIsWatched` if `PaidWithinGap` | `PageInv`, well-founded induction over the indices |
| `CeremoniesProofs!WordsStayWithTheirWallet`, `PendingStaysOnScreen`, `StoredCanBeDerived`, `AccusedHasChanged`, `DisclosedIsAsked`, `NewWalletIsBackedUp` | `Spec => []WordsAreOfTheOpenWallet`, `[]PendingIsOnScreen`, `[]StoredIsDerivable`, `[]NoFalseAccusation`, `[]DisclosureIsOfTheMessage`, `MainnetIsNotSkipped` | `CeremonyInv` |
| `CeremoniesProofs!OneSeedPerSignature` | the four encodings of one ECDSA signature leave the same bytes | arithmetic on an odd order |
| `PaymentProofs!PlansAreAsShown`, `DigitsAreAsEntered` | `FormSpec => []PlansWhatWasShown`, `[]DigitsKeepTheirCurrency` | `FormInv` |
| `LedgerProofs!TransactionsAreValid`, `BalancesAreMeant`, `SupplyStaysBacked` | `Spec => []NeverInvalid`, `[]BalancesAreAsMeant`, `[]SupplyIsBacked` | `LedgerInv` |
| `LedgerProofs!ValueIsSpendable`, `NothingStaysStranded` | `Spec => []ValueStaysSpendable`, `[]NothingIsStranded` | `LedgerInv`, of which `Known` |

*RevisionsAreSound.* The property speaks of copies and calls in flight against the stored record.
`RevInv` says of each of them that it is `Behind` what is stored: its revision is not above, and if
equal it is the stored record itself. A write goes one revision past the stored one, so every
other copy falls strictly behind, and the writer's copy is what was stored. The assumption
`RevisionsOnlyGrow` (no last wallet removed, no erase, no reported write lost) is needed: after a
wipe revisions restart at one, and an old copy may carry the revision of an unrelated vault. That is
how the code is, see section 6.

*VaultImplementsStore.* A step of the code changes the stored record only in `SaveVaultRecord` and
`DeleteVaultRecord`, but what they write was computed awaits earlier, from copies. `StoreInv` bridges
the gap: what is stored, and every tab's copy, lists exactly the wallets its secrets hold (`Fits`); an
unlocked tab's secrets are those of its own copy, except between the two halves of a refresh; a save
in flight carries one operation on the record its `from` names, and fits; and a copy whose revision is
the stored one is the stored record (`Tracks`), so a save that passes the check replaces exactly what
it was computed from. The three theorems are about profiles as `Serial` describes them, and promise
nothing of others: each tab runs one call at a time; the profile holds a vault from the start, so that
nothing is created or migrated; nobody erases it from the locked screen; and no reported write is lost.
Each part rules out something the code does. A call that runs during another's refresh takes the new
record with the old secrets, which is the counterexample VaultTorn keeps; a vault made anew starts at
revision one again, and two migrations of one record both pass the check (section 6). The vault that
goes with its last wallet is covered.

*QuietTabsAreCurrent.* The property is of tabs at rest; `QuietInv` says why a tab that is not may
differ: its copy is what is stored, or a refresh or a write of its own is still under way or owed
(`Owed`). Every write posts a broadcast, so what it makes stale it also owes. `Heard` names what that
takes: somebody listens, no storage request fails during a refresh, and no refresh falls into the
tail of a migration, since either no two calls of a tab overlap or nothing is left to migrate. Without
it the property is false; section 6 has both counterexamples. Erases, new vaults, aborted writes and
restarts are all covered.

*SessionsFit, WhatIsWrittenOpens, SomethingAlwaysOpens.* A record opens under the key of the salt it
was sealed for. `SessInv` follows the key: an unlocked tab's key is that of its copy's salt, except
while a call that is about to replace both is under way, and what each call carries to its write is
sealed under the salt beside it. That the legacy record is only dropped when something else opens is
`KeptInv`: a call that is past its check has seen either no legacy record or a stored one that opens.
`NoOverlap` is needed (section 6), and so is `WritesLast`: removing the last wallet deletes the record on
purpose, and an aborted write may have been the only one.

*HonouredUnlessTorn.* The property says nothing of claims still to be paid. `HonourInv` adds: the
keys of claims being served are held and keep those claims apart (`Held`, `Apart`); both ledgers date
every answered dispense (`Covered`), so a claim is accepted only past the cooldown of each of them
(`Cooled`); between a payment and its record nothing related is dispensed (`Unrivalled`), so marking
it answered breaks nothing. A restart reads the file, and `Covered(file)` is why that is enough. The
assumption `"torn" \notin Faults` is needed: see section 6.

*ClocksAreEarned.* Every entry of both ledgers is due to a dispense that came no later (`EarnedIn`),
and a claim that was paid points at its own dispense (`PaidIsHis`), which is what its record will
write down. A torn file reads as an empty ledger, and an empty ledger is earned: nothing is assumed.

*ChainGuardProofs.* `FailsClosed` speaks of the step that passes a call on; what makes it true was
learnt earlier. `BelievedWasRight` says that the guard's belief, every answer on its way and every
claim whose body is still being read date from a time at which the node has been right; only a
restart forgets that time, and it forgets the answers with it. `Excusable` follows the sampler's
cycle: a price is asked for only under such a belief, and is right unless the node changed or did not
answer the probe; `PointsAreExcused` keeps that of what was recorded, in memory and in the file a
restart reads back.

*PaymentProofs, of Broadcast.* `TraceIsKept` is inductive once a removal is known to remove one record
and no other, which needs the journal to hold a transaction at most once (`Unique`, part of the types).
`PaidOnce` speaks of two transactions the node has; the user decided when the second was signed, from
what the wallet said of the first. `PaidInv` has two parts. Of a transaction outside `doubted`,
`AttemptsInv` says that one attempt at it is pending at most, that a refusal on its way means the node
does not have it (`NotTakenYet`), and that what was reported as failed is settled and not with the node.
Of two signed transactions of one payment, `OutcomesInv` says that one is `Over`: settled, without a
record, and failed or never reported, so that nothing moves it again (`OnePayment`). If both of them are
with the node, the one that is over was reported as failed, and then it is doubted, or was never
reported, and then `TraceIsKept` says how its record was lost. Nothing is assumed of users or server;
the two exceptions, a doubted failure and a lost record, are reachable, see section 6.

*PaymentProofs, of SendForm.* The plan is made from the field and the price, and the user has read the
line. So `LineIsTheQuote`: while a price is usable the two agree, which every step must restore that
moves one of them, the poll included. A drain is planned from a flag, so `ArmedOverItsOwn`: Max is armed
only over digits it has put there itself.

*IndexerProofs.* A call that was sent was sent over the client's own session (`Faithful`), so the end of
another session has nothing to fail; what a socket's late event could reach is cut off by `Owns`. One
that waits is counted to the session it will be sent over, so the late close of a replaced socket fails
neither. `OpenWasOpen` compares a report with the moment its request began. `OpenInv` follows a request
that began after the redemption: the collateral stays spent, the call it asks with is its own, and no
answer on the wire to that call says otherwise (`ToldSpent`). That a settled promise is let go only when
no request and no entry refers to it is part of it (`LetGo`).

*WalletPageProofs.* What a wallet's answers may touch is decided by `walletGen`, what a mutation may
save by a revision. `VaultInv` says that a revision names one record until the vault is gone for good,
for the stored record, the manager's copy and every mutation in flight. `ViewInv` ties the screen to the
last opening, `KeyInv` the key to the screen (none is held while an unlock runs, unless the vault is
gone), and `PollInv` counts chains: those of the open generation and its timer together are at most one,
and none is of a generation to come. `AtRestOpenIsActive` is of a page to which no broadcast is owed,
and whose refreshes were all answered, since the model refuses none (section 5). `OwnInv` says of the
wallet on screen, the stored record and the manager's copy that each index in them is earned: handed out
of that wallet at some time, or one past a payment to it. A save moves an index from one of the three to
another under the same wallet, and a scan's answer is of the wallet its opening opened, which is the one
on screen if the opening is still on. That is all that holds across openings: what an opening handed out
is watched as long as it lasts, and may be forgotten afterwards if its save failed or came late (section
6), so `IndexIsOwn` has that part for the opening on screen only. `PaymentsAreWatched` rests on
`PaidWithinGap`, the promise of every gap-limit wallet: nobody was paid past `Gap` unused addresses. It
is a promise of the world and not of the code, so it is a hypothesis, and the instance satisfies it with
a hole (`PaymentsAreInReach`). A scan in batches then passes the last paid index, by induction over the
indices.

*CeremoniesProofs.* `DisclosedIsAsked` holds where the picker opens only once the chain is known and the
node serves one chain while the page is open, as the model has it: the code reads the chain once for the
disclosure and again at the click. `CeremonyInv` has a part for the vault, the modal, the words on
screen, the step on screen, the popups, what is saved, and the accounts. The hard ones: of all popups at
most one is live, and it is of the extension and the step on screen (`PopupInv`), which is why an
orphaned answer changes nothing; a second signature compares with a first one of the same account and
message; whatever is being saved was made here, of this network's message (`StoreInv`).
`NoFalseAccusation` holds because the comparison with a stored wallet is reached only by a reconnection,
which signs that wallet's own message, or by the full ceremony where every wallet of the account is of
the message it signs (`FullIsOfThisChain`); an extension that then yields something else does change its
signatures. `OneSeedPerSignature` is why re-encoding one (low or high s, 0/1 or 27/28) never forks the
seed derived from it.

*LedgerProofs.* `NeverInvalid` speaks of the moment a draft is signed, and everything in the draft was
read earlier. `LedgerInv` is the three first properties and `Known`, which says where that comes from:
every coin, position and burn that a review, a Max or a draft holds is an output that was on the chain
with that value, key, cents and lock (it may be spent by now), every output is of a shape the flows
make, and the tip a review saw is behind. Outputs never change, so `Known` survives every step, and it
is all the rest needs.

* *What is signed is valid.* For each builder: if its coins are as the chain has them, the key that
  signs each leg is the one its output commits to, over the message the node will check; the fee pays
  for the weight the node will measure; what `FoldChange` leaves is no dust; amounts and outputs pair up
  (`SpendValid`, `MintValid`, `TransferValid`, `RedeemValid`).
* *What is read back was meant.* The next chain has the tokens and positions of the last, without those
  spent and with those of the new transaction. Which those are is worked out per transaction: none for
  a spend, one of each for a mint, recipients and change for a transfer, change and a position closed for
  a redemption. `Transferred` and its siblings then move both sides of both equations by the same cents.
* *Sums.* Totals over sets of coins are folds, which the library defines by recursion. What the proof
  needs of them (a part taken off, two disjoint parts joined, a renaming of the domain) is proved from
  that recursion as it unfolds: a set on which a table of partial sums went wrong would have a smallest
  such subset (`Fewest`), and the recursion rules that one out (`TablesAgree`, `SumPick`, `SumUnion`).
* *Assumptions.* `TxConstants` and `LedgerConstants`: positive rates, a flow fee that meets the floor
  `MIN_DD_TX_FEE_SATS`, and `CHANGE_FOLD_SATS` no more than that floor, as the code's constants have it.
  `GenesisIsPlain` and `MintedIsMint` describe the chain the model starts with: plain payments of
  standard forms, and one mint the wallet's own builder could have made. `MintsAreBacked`: no quote is
  so high that the collateral of a mint it is asked for is below `CHANGE_FOLD_SATS`; the builder does
  not look, and with the least mint ($100) and ratio (200%) that takes a price of $200,000 a coin.

`NothingIsStranded` and `ValueStaysSpendable` follow from `Known` without the history: a burn set covers
its position, every positive change of a redemption may be written (there is no minimum), and a
position's output commits to what a redemption claims.

The invariants of the proofs were first checked by TLC on the instances above (`Known` as well, on all
states of LedgerFlows).

Only model-checked: liveness (TabsCatchUp, GuardAgrees, OpenWalletComesUp, EveryRequestEnds,
WordsAreHidden), since fairness is beyond the prover; and the vault when the calls of a tab overlap (apart
from types, revisions and quiet tabs). Types are proved where a proof needs them, and have no invariant
of their own elsewhere.

## 5. Abstractions and assumptions

* Passwords: there is one, and a wrong one is `UnlockFail`. Display order of wallets is left out, so
  the wallet that becomes active after a removal is any of the others.
* A user locks, or closes a page, at any time; the unlock and create buttons are disabled while their
  own call runs, and so are not pressed twice.
* Faucet: capitals are one bit of an address; amounts are left out. The clock starts past one
  cooldown, as a date does.
* Broadcast: the node handles a request before its sender stops waiting, or never. The
  30-day age limit of records is left out. A user pays again only once no attempt is pending, and only
  what was reported as failed, or what was not reported at all and has no record: somebody who pays again
  in spite of a message that the outcome is unknown is not modelled.
* ChainGuard: a price is the chain it came from; the two probe intervals are an idle asker that may
  start at any time; the rate limiter is left out. The deployment without an expected chain has no
  guard and is not modelled.
* Indexer: the address holds one mint; an answer is whether the collateral was unspent when it was
  given; the tip a positions request asks for beside its scan is left out.
* Ledger: one review at a time; the indexer answers from the chain as it is; a lost answer of a
  broadcast is Broadcast's matter. A wallet watches a fixed sequence of keys. The network's dust rule is
  applied to everything but what a plain spend pays its recipient, which the user chose (section 6).
* SendForm: the balance is found anew each time; fee and change are Ledger's.
* Ceremonies: a wallet's id is its seed; one save and one quiz verdict in flight; decoys are one
  value; hashes are one-to-one; the node serves one chain while the page is open. At most one extension
  of an account signs deterministically; a Solana signature has one encoding; where an account has
  several wallets of one message, a reconnection may be of any of them.
* WalletPage: one mutation at a time; an erased vault stays erased; other tabs' removals reach the
  page as switches. Refreshes asked for beside the poll, messages and the price chart are left out. A
  lost race of the index queue is retried in the same step. A server that has no indexer at all, and
  a late config that reports a chain mismatch, are left out. A refresh of the vault that is refused,
  which `app.js` 1384 swallows, is left out too: it leaves the page behind until the next broadcast.

## 6. Observations without a run

Each holds of the code. Those of the first list are found by TLC in the models here, with the change
of a configuration or a property that is named; the others were met while translating.

* Two tabs migrate one v1 record: `migrateV1` reads its base revision after two awaits (`vault.js`
  179), which is what the comment above `commit()` (100-104) warns of; the save passes the check over
  a vault another tab has already migrated and extended, and mnemonics are lost. (`VaultTorn` with
  `Start = {"v1"}` and `MaxSalt = 3`: KeepsMnemonics.)
* Another tab erases the vault and makes a new one while this tab is inside a refresh: a mutation that
  falls into the refresh's decrypt passes the revision check (both vaults are at revision one) and
  writes a record sealed under the old key beside the new salt, which nothing opens. (`VaultCatchUp`
  with `Call = {c1, c2}`: EveryWriteOpens.)
* `migrateV1` assigns the record it saved after two more awaits (`vault.js` 181-183). A refresh that
  runs in between, for another tab's newer record, is overwritten, and the tab rests on the older copy.
  (`VaultCas` with `Start = {"v1"}` and `MaxSalt = 2`: QuietTabIsCurrent.)
* A storage request that is refused during a refresh leaves the tab behind for good: no retry, and the
  next broadcast may never come. (`VaultCatchUp` with "fail" in `Faults`: TabsCatchUp.)
* A Rebroadcast that the server's limiter refuses is taken for a verdict, although the first attempt
  may have been accepted: the record is dropped (`app.js` 149) and a failure reported, against the
  comment at 146 and `broadcastlog.js` 13-15. A user who believes it and pays again pays twice.
  (`BroadcastLog`, without `x \in doubted` in FailedIsUnsent, or without `Misreported` in PaidOnce.)
* The sampler's probe fails, the guard keeps its last answer (`server.js` 428-430), and the cycle
  records a price that nothing in it confirmed, against the comment at 371-373. (`GuardSwaps`:
  PointIsConfirmed.)
* Where two attempts at one transaction overlap, the late verdict of the older one drops the record of the
  newer. (`BroadcastLog`, as before, with `ServerRefuses` for first attempts only: FailedIsUnsent.)
* A page that dies before an answer, after its record was refused by the storage, pushed out or deleted
  from the card of another tab, leaves its user nothing to see, who may pay again. (`BroadcastLog`,
  without `LostSight` in PaidOnce.)
* `MAX_RECORDS` drops the oldest record whatever its state (`broadcastlog.js` 150), one of a transaction
  whose fate is unknown included. (`BroadcastLog`, without `"evicted"` in TraceIsKept.)
* `saveClaims` overwrites the ledger in place (`faucet/server.js` 71). A crash inside that write
  leaves a file that does not parse, which a restart reads as an empty ledger; the comment at 59-60
  says a restart does not reset anyone's clock. (`FaucetRestarts` with "torn" in `Faults` and
  `MaxPayouts = 3`:
  AnsweredIsHonoured.)

Vault and page:

* `lock()` between a commit's write and its continuation: the continuation assigns the secrets, and
  a locked tab holds plaintext until the next lock (`vault.js` 105-112).
* An IndexedDB put that is reported and then aborted (`"abort"` in `Faults`): migration deletes v1
  before v2 is durable.
* A vault erased and created again reuses revisions, so a save computed from the old vault can pass
  the check over the new one, with the old vault's salt.
* An unlock that loaded its record before a broadcast ends with the older secrets beside the newer
  copy. An unlock that races an erase leaves the manager with a key and no record.
* A faucet claim whose answer is lost starts no clock: its address is paid again at once.
* A scan of an earlier opening that fails clears the flag of the later one (`app.js` 1246), so a second
  scan of the later opening can start beside the first ("one scan per open", 1222). Both answers only
  raise the index, so nothing is lost but the requests.
* A lock and an unlock while a write of the receive index is in flight reopen the wallet below the index
  that then lands: the address handed out is not watched until the next opening or scan.
* The comment at `app.js` 1166 says erasing and restoring hand out the same id `w-1`; ids are made
  from the time.
* An answer given before a swap and delivered after it makes the guard believe the old chain until
  its next probe.

Payments and the send form:

* A review that is in flight when the wallet is locked, switched or the modal closed sets its draft
  afterwards (`app.js` 3290, after awaits that do not look at `walletGen`), while the comments at
  1297-1305 and 878-881 say that every draft is dropped. A confirm then spends the coins of the wallet
  before, with the change to its own key. Ledger and SendForm both contain these steps.
* Max arms itself after its await, whatever the form has become; toggling the currency with Max armed
  re-reads the digits, while Review still drains.
* `planMaxSpend` throws only where nothing is left after the fee (`txbuild.js` 530), so Max over a
  balance just above the fee plans a payment that is itself dust, which the network refuses. Dust is
  looked at for change only (29-34, 553).
* The review handler disables its button, and the `finally` of `busy()` enables it again at once
  (1442-1460); so does `resetSend` during a review. Two reviews can run.

Ceremonies and the indexer:

* A popup that ends after its ceremony was left re-enables the button of the ceremony that followed
  (1458); leaving the signing screen does not bump `web3Run` (1602).
* The disclosure is armed with the host of one moment (`app.js` 1541), and `gateChain` is read again at
  the click (1681).
* `findSource` without a fingerprint returns the first record of an account, and never looks at which
  extension it was derived with.
* `settleReauth` resolves with the password field's value at that time (1984), not the one that was
  verified.
* `reenterBackupCeremony` closes the network modal by its class, so a revealed seed outlives the modal
  (2151 and 886) until its timer. A quiz verified across a lock still sets `backup-done`.
* A handshake that fails leaves the socket in place with a rejected promise: every request fails until
  the backend closes the connection (`indexer/server.js` 56-85).

## 7. Not modelled, and the plan

Not modelled for good: byte encodings and elliptic curves (no state; test vectors), static files and
HTML rendering, file hashes of vendored code, form validation, container configuration, browser
drivers, the tombstone of `persistence.js` (it chooses between two texts and nothing else reads it).

What could still be added, in this order:

1. The limiter's window (`server.js` 490-526): a module of its own, with `ServerRefuses` of Broadcast
   as its interface.
2. Several reviews at once in Ledger, over WalletPage's openings instead of one step a lock.
3. The backup file's password in Ceremonies, and the auto-lock timer with its activity events.
4. The 30-day age limit of the journal.

Proofs that could be added: the vault with overlapping calls, for the operations that do keep their
promise there; and the places of `planSpend`, that its choice is of the fewest inputs.
