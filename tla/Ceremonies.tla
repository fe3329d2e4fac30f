----------------------------- MODULE Ceremonies -----------------------------
(***************************************************************************)
(* The connect modal of apps/wallet/public/app.js and the ceremonies that  *)
(* run in it or over it: adding a wallet, deriving one from a browser      *)
(* extension, reconnecting to it, backing a seed up, the password prompt   *)
(* and the seed reveal.  They share one modal, one mode variable, one      *)
(* prompt and one timer, each waits for popups and saves, and a lock or a  *)
(* switch tears all of them down at any time.                              *)
(*                                                                         *)
(* Abstractions: a wallet's id is its seed; a save is one step that may    *)
(* fail, and one that lands while the vault is locked, or is followed by a *)
(* setActive that fails, adds the wallet and opens nothing; one save of a  *)
(* wallet and one quiz verdict are in flight at a time.  Decoys are one    *)
(* value, and the quiz is its verdict.  The node serves one chain while    *)
(* the page is open.  A bump of web3Run marks the popups then open as      *)
(* orphaned, which is all its value is compared for.  An import is a       *)
(* restore.  Forms, files, quiz flags and the erase view are left out.     *)
(***************************************************************************)
EXTENDS SignToDerive, Sequences, SequencesExt

CONSTANTS
  Entry,       \* the extensions found; KindOf gives each its kind
  AccountOf,   \* [Entry -> its signing account]
  Steady,      \* the extensions that sign deterministically, one of an account
  Plain,       \* generated seeds
  Typed,       \* seeds a user restores or imports
  Starts,      \* <<the chain the node serves, the wallets the vault holds at first>>
  Other, Decoy,\* another key; a grid of random words
  MaxWallets,  \* bound: wallets in the vault
  MaxDrift,    \* bound: times an extension changes how it signs
  MaxPopups    \* bound: popups open at once

\* A seed is the entropy it was derived from, or a value of its own.
Seeds ==
  Plain \cup Typed \cup [by : {AccountOf[e] : e \in Entry}, msg : Version, how : Nat, s : Nat]

ASSUME CeremonyConstants ==
  /\ DOMAIN KindOf = Entry /\ DOMAIN AccountOf = Entry /\ Steady \subseteq Entry
  /\ \A e, f \in Steady : AccountOf[e] = AccountOf[f] => e = f
  /\ MaxWallets \in Nat /\ MaxDrift \in Nat /\ MaxPopups \in Nat
ASSUME CeremonyNil ==
  /\ Nil \notin {"main", "test", "regtest"} /\ Decoy # Nil
  /\ Nil \notin Seeds /\ Nil \notin [id : Seeds, mandatory : BOOLEAN]
\* The wallets a vault holds at first were derived the way this page derives them.
ASSUME StartsAreSound ==
  \A start \in Starts :
    /\ start[1] \in {"main", "test", "regtest"}
    /\ start[2] \in Seq(ToSet(start[2]))
    /\ \A w \in ToSet(start[2]) :
         /\ w.seed \in Seeds
         /\ w.source # Nil =>
              /\ w.source.fp = w.seed /\ w.seed.by = w.source.address
              /\ w.seed.msg = S2dForVersion(w.source.msgVersion) /\ w.seed.how = 0
              /\ \E e \in Steady : AccountOf[e] = w.source.address

VARIABLES
  node, netKnown,       \* the node's chain; chainState.netKnown
  drift,                \* [Entry -> times it changed how it signs]
  status, wallets, active,  \* the vault: its wallets in order, [seed, source]
  opened,               \* wallet.id: the seed on display, or Nil
  sheet, connectMode,   \* the connect modal is open; its mode
  web3Entry, web3Address, web3Force, web3Pending, \* the ceremony on screen
  view, host, go,       \* its step; the host it names; its button is enabled
  popups,               \* every popup waiting for its user
  adding, marking,      \* createWalletEntry and setBackedUp in flight
  ceremony, grid,       \* the backup ceremony; what w-backup-words holds
  seedWords, seedTimer, \* what w-seed-words holds; seedHideTimer is armed
  prompt, verifying     \* the reauth prompt's purpose; a verifyPassword in flight

netVars == <<node, netKnown, drift>>
vaultVars == <<status, wallets, active>>
web3Vars == <<web3Entry, web3Address, web3Force, web3Pending, view, host>>
modalVars == <<sheet, connectMode, web3Vars, go, popups>>
backupVars == <<ceremony, grid>>
seedVars == <<seedWords, seedTimer>>
promptVars == <<prompt, verifying>>
vars == <<netVars, vaultVars, opened, modalVars, adding, marking, backupVars, seedVars,
          promptVars>>
pageVars == <<opened, modalVars, backupVars, seedVars, prompt>>

gateChain == IF netKnown THEN node ELSE Nil
\* An allow-list: a chain that is not known is not skippable.
DenyMain(chain) == chain # "main"
BackupSkipAllowed(chain) == chain \in {"test", "regtest"}

Holds(seed) == \E i \in DOMAIN wallets : wallets[i].seed = seed
\* The wallets derived from this account; and of them, by this signature.
Of(kind, address) ==
  {i \in DOMAIN wallets :
     /\ wallets[i].source # Nil
     /\ wallets[i].source.kind = kind /\ wallets[i].source.address = address}
FindExact(source) ==
  {i \in Of(source.kind, source.address) : wallets[i].source.fp = source.fp}

-----------------------------------------------------------------------------
(* The modal *)

MakePopup(step, entry, address, version, first, live) ==
  [step |-> step, entry |-> entry, address |-> address, version |-> version,
   first |-> first, live |-> live]
Orphaned(p) == MakePopup(p.step, p.entry, p.address, p.version, p.first, FALSE)

\* Leaving web3-sign drops the derived seed and orphans the popups; the backup
\* grid's words stay only in its own mode.  What was clicked to leave may enable
\* the ceremony's button again once it is through.
NoWeb3 ==
  /\ web3Entry' = Nil /\ web3Address' = Nil /\ web3Force' = FALSE /\ web3Pending' = Nil
  /\ view' = "none" /\ host' = Nil
  /\ popups' = {Orphaned(p) : p \in popups}
LeaveTo(mode, words, enabled) ==
  /\ connectMode' = mode
  /\ grid' = IF mode = "backup" THEN words ELSE Nil
  /\ NoWeb3 /\ go' = enabled
SetConnectMode(mode, words) == LeaveTo(mode, words, FALSE)

KeepCeremony == ceremony
NoCeremony == Nil
CloseConnectModal(st, enabled) ==
  /\ sheet' = FALSE
  /\ ceremony' = NoCeremony
  /\ LeaveTo(IF st = "locked" THEN "unlock" ELSE "choice", Nil, enabled)

HideSeed == seedWords' = Nil /\ seedTimer' = FALSE
ResetWalletState(st, enabled) == HideSeed /\ CloseConnectModal(st, enabled) /\ prompt' = Nil
SwitchToWallet(seed, enabled) == ResetWalletState("unlocked", enabled) /\ opened' = seed

BeginBackupCeremony(seed, mandatory) ==
  /\ ceremony' = [id |-> seed, mandatory |-> mandatory]
  /\ SetConnectMode("backup", Decoy)
  /\ sheet' = TRUE

OpenConnectModal ==
  /\ ~sheet /\ prompt = Nil
  /\ SetConnectMode(IF status = "locked" THEN "unlock" ELSE "choice", Nil)
  /\ sheet' = TRUE
  /\ UNCHANGED <<netVars, vaultVars, opened, adding, marking, ceremony, seedVars, promptVars>>

Sealed ==
  ~BackupSkipAllowed(gateChain) /\ ceremony # Nil /\ ceremony.mandatory
  /\ connectMode \in {"backup", "quiz"}

\* Close, Done, and "Remind me later", which shows where skipping is allowed.
RequestCloseConnectModal ==
  /\ sheet /\ prompt = Nil /\ ~Sealed
  /\ CloseConnectModal(status, FALSE)
  /\ UNCHANGED <<netVars, vaultVars, opened, adding, marking, seedVars, promptVars>>

ChooseForm ==
  /\ sheet
  /\ \/ connectMode = "choice" /\ \E m \in {"create", "restore"} : SetConnectMode(m, Nil)
     \/ connectMode \in {"create", "restore", "web3-pick"} /\ SetConnectMode("choice", Nil)
  /\ UNCHANGED <<netVars, vaultVars, opened, sheet, adding, marking, ceremony, seedVars, promptVars>>

-----------------------------------------------------------------------------
(* Adding a wallet *)

CreateWalletEntry(seed, source) ==
  /\ adding = Nil /\ status # "locked"
  /\ Len(wallets) < MaxWallets
  /\ adding' = [seed |-> seed, source |-> source, mode |-> connectMode]
  /\ UNCHANGED <<netVars, vaultVars, pageVars, marking, verifying>>

SubmitForm ==
  /\ sheet
  /\ \/ connectMode = "create" /\ \E s \in Plain : ~Holds(s) /\ CreateWalletEntry(s, Nil)
     \/ connectMode = "restore" /\ \E s \in Typed : CreateWalletEntry(s, Nil)

\* A seed is never held twice; deriving one that came without its source adds it.
Added(a) ==
  IF Holds(a.seed)
  THEN [i \in DOMAIN wallets |->
          IF wallets[i].seed = a.seed /\ wallets[i].source = Nil
          THEN [seed |-> a.seed, source |-> a.source] ELSE wallets[i]]
  ELSE Append(wallets, [seed |-> a.seed, source |-> a.source])

MustBackUp(a) ==
  \/ a.mode = "create"
  \/ a.mode = "web3-sign" /\ ~Holds(a.seed) /\ ~BackupSkipAllowed(gateChain)
\* The wallet is stored, made active and opened, whatever the modal shows by now.
AddLands ==
  /\ adding # Nil /\ status # "locked"
  /\ wallets' = Added(adding)
  /\ status' = "unlocked" /\ active' = adding.seed /\ opened' = adding.seed
  /\ IF MustBackUp(adding)
     THEN HideSeed /\ prompt' = Nil /\ BeginBackupCeremony(adding.seed, TRUE)
     ELSE ResetWalletState("unlocked", FALSE)
  /\ adding' = Nil
  /\ UNCHANGED <<netVars, marking, verifying>>

\* A lost race or a full storage; or the second save fails, or finds the vault locked.
AddFails ==
  /\ adding # Nil
  /\ \/ UNCHANGED vaultVars
     \/ status # "none" /\ wallets' = Added(adding) /\ UNCHANGED <<status, active>>
  /\ adding' = Nil
  /\ UNCHANGED <<netVars, pageVars, marking, verifying>>

-----------------------------------------------------------------------------
(* Sign-to-derive *)

\* What the step asks of the user's extension.
Ask(step, entry, address, version) == MakePopup(step, entry, address, version, Nil, TRUE)
Others(p) == popups \ {p}
\* Bound: no popup opens while a password is verified, nor a prompt beside a popup.
MayPopUp == Cardinality(popups) < MaxPopups /\ ~verifying

OpenWeb3Picker ==
  /\ sheet /\ connectMode \in {"choice", "web3-sign"}
  /\ SetConnectMode(IF netKnown THEN "web3-pick" ELSE "choice", Nil)
  /\ UNCHANGED <<netVars, vaultVars, opened, sheet, adding, marking, ceremony, seedVars, promptVars>>

ceremonyOnly == <<netVars, vaultVars, opened, sheet, adding, marking, backupVars, seedVars, promptVars>>

PickEntry(e) ==
  /\ sheet /\ connectMode = "web3-pick" /\ MayPopUp
  /\ connectMode' = "web3-sign"
  /\ web3Entry' = e /\ view' = "connect"
  /\ popups' = popups \cup {Ask("connect", e, Nil, Nil)}
  /\ UNCHANGED <<web3Address, web3Force, web3Pending, host, go, ceremonyOnly>>

\* The disclosure names the host that the message about to be signed names.
ArmWeb3Disclosure == view' = "disclose" /\ host' = S2dOriginHost(S2dForChain(gateChain, Host))

\* Of several wallets of the account, whichever has its source recorded first.
VersionForChain(known) == S2dForChain(gateChain, Host)
VersionOfRecord(known) == known.source.msgVersion
Connect(p, address) ==
  /\ web3Address' = address
  /\ \/ \E i \in Of(KindOf[p.entry], address) :
          /\ status = "unlocked"
          /\ popups' = Others(p) \cup {Ask("verify", p.entry, address, VersionOfRecord(wallets[i]))}
          /\ view' = "verify" /\ UNCHANGED host
     \/ /\ status # "unlocked" \/ Of(KindOf[p.entry], address) = {}
        /\ popups' = Others(p)
        /\ ArmWeb3Disclosure
  /\ UNCHANGED <<web3Entry, web3Force, web3Pending>>
Connected(p) ==
  /\ p \in popups /\ p.step = "connect"
  /\ IF p.live THEN Connect(p, AccountOf[p.entry]) ELSE popups' = Others(p) /\ UNCHANGED web3Vars
  /\ UNCHANGED <<connectMode, go, ceremonyOnly>>

\* A deterministic extension repeats itself until it changes how it signs; of the
\* others no two signatures are alike.  An ed25519 signature has one encoding.
Signature(p, by) ==
  [by |-> by, msg |-> S2dForVersion(p.version),
   how |-> IF p.entry \in Steady THEN drift[p.entry] ELSE p.step]
Encoded(kind, sig) ==
  IF kind = "evm" THEN Encodings(sig, 1, 0)
  ELSE {[by |-> sig.by, msg |-> sig.msg, how |-> sig.how, s |-> 1, v |-> 0]}
Signatures(p) ==
  UNION {Encoded(KindOf[p.entry], Signature(p, by)) :
           by \in {p.address} \cup IF p.entry \in Steady THEN {} ELSE {Other}}

Stays(p) ==
  /\ popups' = Others(p)
  /\ UNCHANGED <<vaultVars, opened, sheet, connectMode, backupVars, seedVars, prompt>>
\* The verified wallet is made active and opened, unless that save fails.
ToVerified(seed, p, enabled) ==
  \/ active' = seed /\ SwitchToWallet(seed, enabled) /\ UNCHANGED <<status, wallets>>
  \/ Stays(p) /\ go' = (go \/ enabled) /\ UNCHANGED web3Vars

Verify(p, raw) ==
  LET derived == DeriveOnce(p.entry, p.address, p.version, raw)
  IN /\ derived # Nil /\ p.live
     /\ \/ \E i \in FindExact(derived.source) : ToVerified(wallets[i].seed, p, FALSE)
        \/ /\ FindExact(derived.source) = {}
           /\ Stays(p) /\ view' = "mismatch"
           /\ UNCHANGED <<web3Entry, web3Address, web3Force, web3Pending, host, go>>
VerifyAnswers(p) ==
  /\ p \in popups /\ p.step = "verify"
  /\ \E raw \in Signatures(p) : Verify(p, raw)
  /\ UNCHANGED <<netVars, adding, marking, verifying>>

\* A refused popup, or one whose ceremony was left: the page stays as it is.
PopupCloses(p) ==
  /\ p \in popups
  /\ p.step \in {"connect", "verify"}
  /\ popups' = Others(p)
  /\ UNCHANGED <<web3Vars, go, connectMode, ceremonyOnly>>

AgreeChanges ==
  /\ sheet /\ view = "disclose"
  /\ go' \in BOOLEAN
  /\ UNCHANGED <<connectMode, web3Vars, popups, ceremonyOnly>>

Go ==
  /\ sheet /\ view = "disclose" /\ go /\ MayPopUp
  /\ popups' = popups \cup {Ask("sign1", web3Entry, web3Address, S2dForChain(gateChain, Host))}
  /\ view' = "steps" /\ go' = FALSE
  /\ UNCHANGED <<connectMode, web3Entry, web3Address, web3Force, web3Pending, host, ceremonyOnly>>

\* busy() enables the button again whichever ceremony is on screen by then.
Refused(p) ==
  /\ IF p.live THEN ArmWeb3Disclosure ELSE UNCHANGED <<view, host>>
  /\ go' = TRUE
  /\ Stays(p) /\ UNCHANGED <<web3Entry, web3Address, web3Force, web3Pending>>

AnyRun(p) == TRUE
IsCurrent(p) == p.live
Derived(p, derived) ==
  LET checked == status = "unlocked" /\ ~web3Force
      known == Of(derived.source.kind, derived.source.address)
      exact == FindExact(derived.source)
  IN \/ ~IsCurrent(p) /\ Refused(p)
     \/ IsCurrent(p) /\ checked /\ \E i \in exact : ToVerified(wallets[i].seed, p, TRUE)
     \/ /\ IsCurrent(p) /\ ~(checked /\ exact # {})
        /\ web3Pending' = derived /\ go' = TRUE
        /\ view' = IF checked /\ known # {} THEN "mismatch" ELSE "save"
        /\ Stays(p) /\ UNCHANGED <<web3Entry, web3Address, web3Force, host>>

Sign1Answers(p) ==
  /\ p \in popups /\ p.step = "sign1"
  /\ \E raw \in Signatures(p) :
       LET sig == SignOnce(KindOf[p.entry], p.address, p.version, raw)
       IN /\ sig # Nil
          /\ popups' = Others(p) \cup {MakePopup("sign2", p.entry, p.address, p.version, sig, p.live)}
  /\ UNCHANGED <<web3Vars, go, connectMode, ceremonyOnly>>

Sign2Answers(p) ==
  /\ p \in popups /\ p.step = "sign2"
  /\ \E raw \in Signatures(p) :
       LET sig == SignOnce(KindOf[p.entry], p.address, p.version, raw)
       IN /\ sig # Nil
          /\ IF SameBytes(p.first, sig)
             THEN Derived(p, PackageDerived(p.entry, p.address, p.first, p.version))
             ELSE Refused(p)
  /\ UNCHANGED <<netVars, adding, marking, verifying>>

SignRefused(p) ==
  /\ p \in popups /\ p.step \in {"sign1", "sign2"}
  /\ Refused(p)
  /\ UNCHANGED <<netVars, adding, marking, verifying>>

NewWallet ==
  /\ sheet /\ view = "mismatch"
  /\ web3Force' = TRUE
  /\ IF web3Pending # Nil THEN view' = "save" /\ UNCHANGED host ELSE ArmWeb3Disclosure
  /\ UNCHANGED <<connectMode, web3Entry, web3Address, web3Pending, go, popups, ceremonyOnly>>

SaveGo ==
  /\ sheet /\ view = "save" /\ web3Pending # Nil
  /\ CreateWalletEntry(web3Pending.seed, web3Pending.source)

-----------------------------------------------------------------------------
(* Words on screen *)

wordsOnly == <<netVars, vaultVars, opened, sheet, adding, verifying, prompt>>

BackupShow ==
  /\ sheet /\ connectMode = "backup" /\ grid = Decoy /\ prompt = Nil
  /\ grid' = ceremony.id
  /\ seedTimer' = TRUE
  /\ UNCHANGED <<wordsOnly, connectMode, web3Vars, go, popups, marking, ceremony, seedWords>>

ToQuizAndBack ==
  /\ sheet
  /\ \/ connectMode = "backup" /\ SetConnectMode("quiz", Nil)
     \/ connectMode = "quiz" /\ SetConnectMode("backup", Decoy)
  /\ UNCHANGED <<wordsOnly, marking, ceremony, seedVars>>

QuizVerify ==
  /\ sheet /\ connectMode = "quiz" /\ marking = Nil
  /\ marking' = ceremony.id
  /\ UNCHANGED <<wordsOnly, connectMode, web3Vars, go, popups, backupVars, seedVars>>

\* The success view comes up whatever the page shows by now.
MarkLands ==
  /\ marking # Nil
  /\ marking' = Nil
  /\ \/ UNCHANGED <<connectMode, grid, web3Vars, go, popups>>
     \/ SetConnectMode("backup-done", Nil)
  /\ UNCHANGED <<netVars, vaultVars, opened, sheet, adding, ceremony, seedVars, promptVars>>

RequireReauth(purpose) ==
  /\ prompt = Nil /\ opened # Nil /\ popups = {}
  /\ CASE purpose = "file" -> sheet /\ connectMode = "backup-done" /\ ceremony # Nil
       [] purpose = "seed" -> ~sheet /\ seedWords = Nil
       [] purpose = "backup" -> ~sheet
  /\ prompt' = purpose
  /\ UNCHANGED <<netVars, vaultVars, opened, modalVars, adding, marking, backupVars, seedVars, verifying>>

VerifyPassword ==
  /\ prompt # Nil /\ ~verifying
  /\ verifying' = TRUE
  /\ UNCHANGED <<netVars, vaultVars, pageVars, adding, marking>>

ReauthCancel ==
  /\ prompt # Nil
  /\ prompt' = Nil
  /\ UNCHANGED <<netVars, vaultVars, opened, modalVars, adding, marking, backupVars, seedVars, verifying>>

Resume(purpose) ==
  \/ /\ purpose = "seed"
     /\ seedWords' = Decoy
     /\ UNCHANGED <<modalVars, backupVars, seedTimer>>
  \/ purpose = "backup" /\ BeginBackupCeremony(opened, FALSE) /\ UNCHANGED seedVars
  \/ purpose = "file" /\ UNCHANGED <<modalVars, backupVars, seedVars>>

\* The verdict settles whichever prompt is open by then, with what it holds: an
\* empty box counts as a cancel.
Verified ==
  /\ verifying
  /\ verifying' = FALSE
  /\ \/ UNCHANGED <<prompt, modalVars, backupVars, seedVars>>
     \/ /\ prompt # Nil
        /\ prompt' = Nil
        /\ Resume(prompt) \/ UNCHANGED <<modalVars, backupVars, seedVars>>
  /\ UNCHANGED <<netVars, vaultVars, opened, adding, marking>>

SeedShow ==
  /\ ~sheet /\ prompt = Nil /\ seedWords = Decoy
  /\ seedWords' = opened
  /\ seedTimer' = TRUE
  /\ UNCHANGED <<wordsOnly, connectMode, web3Vars, go, popups, marking, backupVars>>

CloseNetModal ==
  /\ ~sheet /\ seedWords # Nil
  /\ HideSeed
  /\ UNCHANGED <<wordsOnly, connectMode, web3Vars, go, popups, marking, backupVars>>

WipeSeedOnly == HideSeed /\ UNCHANGED grid
WipeRevealedSeeds ==
  /\ seedTimer' = FALSE
  /\ seedWords' = Nil
  /\ grid' = IF connectMode = "backup" /\ ceremony # Nil THEN Decoy ELSE grid

\* After 60 s, or as soon as the tab is hidden.
SeedTimer ==
  /\ seedTimer
  /\ WipeRevealedSeeds
  /\ UNCHANGED <<wordsOnly, connectMode, web3Vars, go, popups, marking, ceremony>>
TabHidden ==
  /\ seedWords # Nil \/ grid # Nil
  /\ WipeRevealedSeeds
  /\ UNCHANGED <<wordsOnly, connectMode, web3Vars, go, popups, marking, ceremony>>

-----------------------------------------------------------------------------
(* The vault, the other tabs, the node and the extensions *)

\* The user, or the inactivity timer.
LockWallet ==
  /\ opened # Nil
  /\ status' = "locked" /\ opened' = Nil
  /\ ResetWalletState("locked", FALSE)
  /\ UNCHANGED <<netVars, wallets, active, adding, marking, verifying>>

\* openWallet leaves a backup view open, and closes any other.
Unlock ==
  /\ sheet /\ connectMode = "unlock" /\ status = "locked"
  /\ status' = "unlocked" /\ opened' = active
  /\ HideSeed /\ CloseConnectModal("unlocked", FALSE)
  /\ UNCHANGED <<netVars, wallets, active, adding, marking, promptVars>>

\* Another tab makes another wallet active; this page follows.
OtherTabSwitches ==
  /\ status = "unlocked" /\ opened # Nil
  /\ \E i \in DOMAIN wallets :
       /\ wallets[i].seed # opened
       /\ active' = wallets[i].seed
       /\ SwitchToWallet(wallets[i].seed, FALSE)
  /\ UNCHANGED <<netVars, status, wallets, adding, marking, verifying>>

\* Another tab derives a wallet while a ceremony runs here; the active one stays.
OtherTabDerives(e) ==
  /\ web3Entry # Nil /\ status # "none" /\ e \in Steady /\ Len(wallets) < MaxWallets
  /\ LET sig == [by |-> AccountOf[e], msg |-> S2dForChain(node, Host), how |-> drift[e],
                 s |-> 1, recid |-> 0]
         derived == PackageDerived(e, AccountOf[e], sig, sig.msg)
     IN /\ ~Holds(derived.seed)
        /\ wallets' = Append(wallets, [seed |-> derived.seed, source |-> derived.source])
  /\ UNCHANGED <<netVars, status, active, pageVars, adding, marking, verifying>>

LoadStatus ==
  /\ ~netKnown
  /\ netKnown' = TRUE
  /\ UNCHANGED <<node, drift, vaultVars, pageVars, adding, marking, verifying>>

ExtensionChanges(e) ==
  /\ e \in Steady /\ drift[e] < MaxDrift /\ Of(KindOf[e], AccountOf[e]) # {}
  /\ drift' = [drift EXCEPT ![e] = @ + 1]
  /\ UNCHANGED <<node, netKnown, vaultVars, pageVars, adding, marking, verifying>>

-----------------------------------------------------------------------------
(* The specification *)

Init ==
  /\ \E start \in Starts : node = start[1] /\ wallets = start[2]
  /\ netKnown = FALSE
  /\ drift = [e \in Entry |-> 0]
  /\ status = IF wallets = <<>> THEN "none" ELSE "locked"
  /\ active = IF wallets = <<>> THEN Nil ELSE Head(wallets).seed
  /\ opened = Nil
  /\ sheet = FALSE /\ connectMode = IF wallets = <<>> THEN "choice" ELSE "unlock"
  /\ web3Entry = Nil /\ web3Address = Nil /\ web3Force = FALSE /\ web3Pending = Nil
  /\ view = "none" /\ host = Nil /\ go = FALSE /\ popups = {}
  /\ adding = Nil /\ marking = Nil
  /\ ceremony = Nil /\ grid = Nil
  /\ seedWords = Nil /\ seedTimer = FALSE
  /\ prompt = Nil /\ verifying = FALSE

Modal ==
  \/ OpenConnectModal \/ RequestCloseConnectModal \/ ChooseForm
  \/ SubmitForm \/ AddLands \/ AddFails \/ Unlock
Web3 ==
  \/ OpenWeb3Picker \/ AgreeChanges \/ Go \/ NewWallet \/ SaveGo
  \/ \E e \in Entry : PickEntry(e)
  \/ \E p \in popups :
       \/ Connected(p) \/ VerifyAnswers(p) \/ PopupCloses(p)
       \/ Sign1Answers(p) \/ Sign2Answers(p) \/ SignRefused(p)
Words ==
  \/ BackupShow \/ ToQuizAndBack \/ QuizVerify \/ MarkLands
  \/ \E purpose \in {"seed", "backup", "file"} : RequireReauth(purpose)
  \/ VerifyPassword \/ ReauthCancel \/ Verified
  \/ SeedShow \/ CloseNetModal \/ SeedTimer \/ TabHidden
Rest ==
  \/ LockWallet \/ OtherTabSwitches \/ LoadStatus
  \/ \E e \in Entry : OtherTabDerives(e) \/ ExtensionChanges(e)
Next == Modal \/ Web3 \/ Words \/ Rest

\* The timer fires: a user does not restart it forever.
Spec == Init /\ [][Next]_vars /\ WF_vars(SeedTimer)

-----------------------------------------------------------------------------
(* Properties *)

\* The page says an extension no longer makes the signature a stored wallet came
\* from (app.js:1660) only when that is so: some wallet of the account on screen is
\* one this extension, signing that wallet's own message, does not give any more.
Reproduces(e, source) ==
  /\ e \in Steady
  /\ [by |-> source.address, msg |-> S2dForVersion(source.msgVersion), how |-> drift[e], s |-> 1]
       = source.fp
NoFalseAccusation ==
  view = "mismatch" =>
    \E i \in Of(KindOf[web3Entry], web3Address) : ~Reproduces(web3Entry, wallets[i].source)

\* A wallet saved with a source can be derived again: the message its record names
\* made its seed, an extension that signs deterministically signed it, and a wallet
\* born on this page was derived from the message of the node's network.
Derivable(w) ==
  /\ w.source.fp = w.seed /\ w.seed.by = w.source.address
  /\ w.seed.msg = S2dForVersion(w.source.msgVersion)
  /\ \E e \in Steady : AccountOf[e] = w.source.address /\ w.seed.how \in 0 .. drift[e]
BornHere(w) == \A start \in Starts : w \notin ToSet(start[2])
StoredIsDerivable ==
  \A w \in ToSet(wallets) :
    w.source # Nil =>
      Derivable(w) /\ (BornHere(w) => w.source.msgVersion = S2dForChain(node, Host))

\* A derived seed is held only by the ceremony on screen, of the extension and the
\* account shown there: a late popup of a ceremony that was left never fills it.
PendingIsOnScreen ==
  web3Pending # Nil =>
    /\ connectMode = "web3-sign" /\ view \in {"mismatch", "save"}
    /\ web3Pending.source.kind = KindOf[web3Entry]
    /\ web3Pending.source.address = web3Address /\ web3Address = AccountOf[web3Entry]

\* Words are on screen, or held for it, only of the wallet on display, and only
\* while the vault is unlocked.
WordsAreOfTheOpenWallet ==
  /\ ceremony # Nil => status = "unlocked" /\ ceremony.id = opened
  /\ grid # Nil => ceremony # Nil /\ grid \in {Decoy, opened}
  /\ seedWords # Nil => status = "unlocked" /\ opened # Nil /\ seedWords \in {Decoy, opened}

\* On mainnet the ceremony of a wallet just created ends with the quiz, a lock or a
\* switch: nobody closes it, not even before the node has named its chain
\* (netchrome.js:22-31).
MainnetIsNotSkipped ==
  [][node = "main" /\ ceremony # Nil /\ ceremony.mandatory /\ connectMode \in {"backup", "quiz"}
     /\ ceremony' = Nil => opened' # ceremony.id]_vars

\* A wallet's words do not stay on screen.
WordsAreHidden == (grid \notin {Nil, Decoy} \/ seedWords \notin {Nil, Decoy}) ~>
                  (grid \in {Nil, Decoy} /\ seedWords \in {Nil, Decoy})
=============================================================================
