-------------------------- MODULE CeremoniesProofs --------------------------
(***************************************************************************)
(* What the connect modal and its ceremonies guarantee, for any extensions, *)
(* accounts, seeds, wallets stored before and bounds.                      *)
(***************************************************************************)
EXTENDS Ceremonies, SequenceTheorems, TLAPS

-----------------------------------------------------------------------------
(* The inductive invariant *)

chainVersion == S2dForChain(node, Host)

VaultInv ==
  /\ node \in {"main", "test", "regtest"}
  /\ drift \in [Entry -> Nat]
  /\ status \in {"none", "locked", "unlocked"}
  /\ wallets \in Seq(ToSet(wallets))
  /\ \A i \in DOMAIN wallets : wallets[i].seed \in Seeds
  /\ IF status = "none" THEN wallets = <<>> ELSE active \in Seeds
  /\ opened # Nil => opened \in Seeds /\ status = "unlocked"

\* The ceremony is over whenever its modal is, a locked modal shows no form, and
\* nothing is being added while a new wallet is backed up.
ModalInv ==
  /\ connectMode \in {"backup", "quiz"} => ceremony # Nil
  /\ status = "locked" => connectMode \in {"unlock", "backup-done"}
  /\ connectMode \in {"web3-pick", "web3-sign"} => netKnown
  /\ prompt # Nil => opened # Nil
  /\ prompt # Nil /\ prompt = "backup" => ~sheet
  /\ ceremony # Nil => sheet
  /\ ceremony # Nil /\ ceremony.mandatory /\ connectMode \in {"backup", "quiz"} => adding = Nil

\* The step on screen is one of an extension that was picked, at its own account.
ScreenInv ==
  /\ connectMode # "web3-sign" => view = "none" /\ web3Pending = Nil
  /\ view # "none" => web3Entry \in Entry
  /\ view \notin {"none", "connect"} => web3Address = AccountOf[web3Entry]
  /\ web3Pending # Nil => view \in {"mismatch", "save"}
  /\ view \in {"disclose", "steps"} => host = S2dOriginHost(chainVersion)

ViewOf(step) == IF step \in {"sign1", "sign2"} THEN "steps" ELSE step
Asks(p) ==
  /\ p.step \in {"connect", "verify", "sign1", "sign2"} /\ p.entry \in Entry
  /\ p.step # "connect" => p.address = AccountOf[p.entry]
  /\ p.step \in {"sign1", "sign2"} => p.version = chainVersion
  /\ p.step = "sign2" =>
       /\ p.first.by = p.address /\ p.first.msg = p.version /\ p.first.s = 1
       /\ p.entry \notin Steady => p.first.how = "sign1"
\* A popup of the ceremony on screen is the only one, and the one its step shows.
PopupInv ==
  \A p \in popups :
    /\ Asks(p)
    /\ p.live => p.entry = web3Entry /\ view = ViewOf(p.step)
    /\ p.live => \A q \in popups : q.live => q = p

\* What is being saved, or waits to be, was made by this page on this network.
MadeHere(w) == w.source # Nil => Derivable(w) /\ w.source.msgVersion = chainVersion
StoreInv ==
  /\ StoredIsDerivable
  /\ adding # Nil => adding.seed \in Seeds /\ MadeHere(adding)
  /\ web3Pending # Nil =>
       /\ web3Pending.seed \in Seeds /\ MadeHere(web3Pending)
       /\ web3Pending.source.kind = KindOf[web3Entry] /\ web3Pending.source.address = web3Address

\* The full ceremony runs only where no wallet of the account is of another message,
\* unless a new one was asked for; a reconnection signs the message of a stored one.
FullIsOfThisChain ==
  view \in {"disclose", "steps"} /\ ~web3Force =>
    \A i \in Of(KindOf[web3Entry], web3Address) : wallets[i].source.msgVersion = chainVersion
IsStored(p) == \E i \in Of(KindOf[p.entry], p.address) : wallets[i].source.msgVersion = p.version
AccountInv ==
  /\ FullIsOfThisChain
  /\ \A p \in popups : p.step = "verify" => IsStored(p)
  /\ NoFalseAccusation

CeremonyInv ==
  /\ VaultInv /\ ModalInv /\ WordsAreOfTheOpenWallet
  /\ ScreenInv /\ PopupInv /\ StoreInv /\ AccountInv

-----------------------------------------------------------------------------
(* Signatures *)

\* Whatever the encoding, what is kept of a signature is its low form.
LEMMA LowForm ==
  ASSUME NEW sig, NEW s \in 1 .. HalfOrder, NEW p \in {0, 1}, NEW raw \in Encodings(sig, s, p)
  PROVE  Canonicalize(raw) =
           [by |-> sig.by, msg |-> sig.msg, how |-> sig.how, s |-> s, recid |-> p]
<1>0. /\ s \in Nat /\ p \in Nat
      /\ ~(s > HalfOrder) /\ Order - s > HalfOrder /\ Order - (Order - s) = s
  BY OrderIsOdd DEF HalfOrder
<1>1. PICK enc \in {<<s, p>>, <<s, 27 + p>>, <<Order - s, 1 - p>>, <<Order - s, 28 - p>>} :
        raw = [by |-> sig.by, msg |-> sig.msg, how |-> sig.how, s |-> enc[1], v |-> enc[2]]
  BY DEF Encodings
<1>2. raw.by = sig.by /\ raw.msg = sig.msg /\ raw.how = sig.how /\ raw.s = enc[1] /\ raw.v = enc[2]
  BY <1>1
<1>3. CASE enc \in {<<s, p>>, <<s, 27 + p>>}
  <2>1. raw.s = s /\ RecoveryId(raw.v) = p
    BY <1>2, <1>3 DEF RecoveryId
  <2>2. ~(raw.s > HalfOrder)
    BY <1>0, <2>1
  <2> QED BY <1>2, <2>1, <2>2, Zenon DEF Canonicalize
<1>4. CASE enc \in {<<Order - s, 1 - p>>, <<Order - s, 28 - p>>}
  <2>1. raw.s = Order - s /\ RecoveryId(raw.v) = 1 - p
    BY <1>2, <1>4 DEF RecoveryId
  <2>2. raw.s > HalfOrder /\ Order - raw.s = s /\ 1 - RecoveryId(raw.v) = p
    BY <1>0, <2>1
  <2> QED BY <1>2, <2>2, Zenon DEF Canonicalize
<1> QED BY <1>1, <1>3, <1>4

\* However an extension encodes a signature - low or high s, recovery byte from 0
\* or from 27 (connect.js:189-204) - the same bytes are left of it: re-encoding
\* never forks the seed or fails a wallet's reconnection.
LEMMA OneSeedPerSignature ==
  ASSUME NEW sig, NEW s \in 1 .. HalfOrder, NEW p \in {0, 1},
         NEW r1 \in Encodings(sig, s, p), NEW r2 \in Encodings(sig, s, p)
  PROVE  Canonicalize(r1) = Canonicalize(r2)
BY LowForm

\* What a popup may yield is the signature of its account, the way its extension
\* signs today.
LEMMA Signed ==
  ASSUME NEW p, p.entry \in Entry, NEW version, NEW raw \in Signatures(p), NEW sig,
         sig = SignOnce(KindOf[p.entry], p.address, version, raw), sig # Nil
  PROVE  /\ sig.by = p.address /\ sig.msg = version /\ sig.s = 1
         /\ sig.how = IF p.entry \in Steady THEN drift[p.entry] ELSE p.step
<1>1. PICK by : raw \in Encoded(KindOf[p.entry], Signature(p, by))
  BY DEF Signatures
<1> DEFINE one == Signature(p, by)
<1>2. one.how = IF p.entry \in Steady THEN drift[p.entry] ELSE p.step
  BY DEF Signature
<1>3. CASE KindOf[p.entry] = "evm"
  <2>1. 1 \in 1 .. HalfOrder
    BY OrderIsOdd DEF HalfOrder
  <2>2. raw \in Encodings(one, 1, 0)
    BY <1>1, <1>3 DEF Encoded
  <2> HIDE DEF one
  <2>3. Canonicalize(raw) =
          [by |-> one.by, msg |-> one.msg, how |-> one.how, s |-> 1, recid |-> 0]
    BY <2>1, <2>2, LowForm
  <2>4. sig = Canonicalize(raw) /\ Recovers(sig, p.address, version)
    BY <1>3 DEF SignOnce
  <2> QED BY <1>2, <2>3, <2>4 DEF Recovers
<1>4. CASE KindOf[p.entry] # "evm"
  <2>1. raw = [by |-> one.by, msg |-> one.msg, how |-> one.how, s |-> 1, v |-> 0]
    BY <1>1, <1>4 DEF Encoded
  <2> HIDE DEF one
  <2>2. sig = TakenAsIs(raw) /\ Recovers(raw, p.address, version)
    BY <1>4 DEF SignOnce
  <2> QED BY <1>2, <2>1, <2>2 DEF Recovers, TakenAsIs
<1> QED BY <1>3, <1>4

LEMMA VersionIsItsOwn ==
  /\ chainVersion \in Version
  /\ S2dForVersion(chainVersion) = chainVersion
  /\ \A v : S2dForVersion(v) \in Version
BY DEF chainVersion, S2dForChain, S2dForVersion, Version, Messages

-----------------------------------------------------------------------------
(* The vault only grows *)

\* A step keeps the wallets that have a source, and adds none but what was made here.
Grows ==
  /\ wallets' \in Seq(ToSet(wallets'))
  /\ \A i \in DOMAIN wallets :
       i \in DOMAIN wallets' /\ (wallets[i].source # Nil => wallets'[i] = wallets[i])
  /\ \A i \in DOMAIN wallets' :
       \/ i \in DOMAIN wallets /\ wallets'[i] = wallets[i]
       \/ wallets'[i].seed \in Seeds /\ MadeHere(wallets'[i])

LEMMA GrowsByNothing ==
  ASSUME VaultInv, UNCHANGED wallets
  PROVE  Grows
BY DEF VaultInv, Grows

LEMMA GrowsByOne ==
  ASSUME VaultInv, NEW w, w.seed \in Seeds, MadeHere(w), wallets' = Append(wallets, w)
  PROVE  Grows
<1> DEFINE S == ToSet(wallets) \cup {w}
<1>1. wallets \in Seq(S)
  <2>1. wallets \in Seq(ToSet(wallets))
    BY DEF VaultInv
  <2> QED BY <2>1, SeqMonotonic
<1>2. /\ Len(wallets) \in Nat /\ DOMAIN wallets = 1 .. Len(wallets)
      /\ wallets' \in Seq(S) /\ Len(wallets') = Len(wallets) + 1
      /\ DOMAIN wallets' = 1 .. Len(wallets) + 1
      /\ \A i \in 1 .. Len(wallets) : wallets'[i] = wallets[i]
      /\ wallets'[Len(wallets) + 1] = w
  <2>1. w \in S
    OBVIOUS
  <2> HIDE DEF S
  <2> QED BY <1>1, <2>1
<1>3. wallets' \in Seq(ToSet(wallets'))
  BY <1>2 DEF ToSet
<1>4. ASSUME NEW i \in DOMAIN wallets'
      PROVE  i \in DOMAIN wallets \/ i = Len(wallets) + 1
  BY <1>2, <1>4
<1> QED BY <1>2, <1>3, <1>4 DEF Grows

LEMMA AddedGrows ==
  ASSUME VaultInv, NEW a, a.seed \in Seeds, MadeHere(a), wallets' = Added(a)
  PROVE  Grows
<1>1. CASE Holds(a.seed)
  <2> DEFINE now(i) == IF wallets[i].seed = a.seed /\ wallets[i].source = Nil
                       THEN [seed |-> a.seed, source |-> a.source] ELSE wallets[i]
  <2>1. wallets' = [i \in DOMAIN wallets |-> now(i)]
    BY <1>1 DEF Added
  <2>2. Len(wallets) \in Nat /\ DOMAIN wallets = 1 .. Len(wallets)
    BY DEF VaultInv
  <2>3. DOMAIN wallets' = DOMAIN wallets /\ \A i \in DOMAIN wallets : wallets'[i] = now(i)
    BY <2>1
  <2>4. wallets' \in Seq(ToSet(wallets'))
    <3>1. wallets' \in [1 .. Len(wallets) -> ToSet(wallets')]
      BY <2>1, <2>2, <2>3 DEF ToSet
    <3> QED BY <2>2, <3>1
  <2>5. ASSUME NEW i \in DOMAIN wallets
        PROVE  /\ wallets[i].source # Nil => wallets'[i] = wallets[i]
               /\ \/ wallets'[i] = wallets[i]
                  \/ wallets'[i].seed \in Seeds /\ MadeHere(wallets'[i])
    <3>1. CASE wallets[i].seed = a.seed /\ wallets[i].source = Nil
      <4>1. wallets'[i] = [seed |-> a.seed, source |-> a.source]
        BY <2>3, <3>1
      <4> QED BY <3>1, <4>1 DEF MadeHere, Derivable
    <3>2. CASE ~(wallets[i].seed = a.seed /\ wallets[i].source = Nil)
      BY <2>3, <3>2
    <3> QED BY <3>1, <3>2
  <2> QED BY <2>3, <2>4, <2>5 DEF Grows
<1>2. CASE ~Holds(a.seed)
  <2>1. wallets' = Append(wallets, [seed |-> a.seed, source |-> a.source])
    BY <1>2 DEF Added
  <2>2. MadeHere([seed |-> a.seed, source |-> a.source])
    BY DEF MadeHere, Derivable
  <2> QED BY <2>1, <2>2, GrowsByOne
<1> QED BY <1>1, <1>2

\* So the account's wallets stay, and those that join them are of this network.
LEMMA AccountsGrow ==
  ASSUME Grows, NEW kind, NEW address
  PROVE  /\ \A i \in Of(kind, address) : i \in Of(kind, address)' /\ wallets'[i] = wallets[i]
         /\ \A i \in Of(kind, address)' :
              \/ i \in Of(kind, address) /\ wallets'[i] = wallets[i]
              \/ wallets'[i].source.msgVersion = chainVersion
BY DEF Grows, Of, MadeHere

\* Extensions change how they sign, and never go back; the node keeps its chain.
Drifts ==
  /\ node' = node /\ (netKnown => netKnown')
  /\ drift' \in [Entry -> Nat] /\ \A e \in Entry : drift[e] <= drift'[e]

LEMMA StaysDerivable ==
  ASSUME VaultInv, Drifts, NEW w
  PROVE  /\ chainVersion' = chainVersion
         /\ Derivable(w) => Derivable(w)'
         /\ MadeHere(w) => MadeHere(w)'
<1>1. chainVersion' = chainVersion
  BY DEF Drifts, chainVersion
<1>2. ASSUME Derivable(w) PROVE Derivable(w)'
  <2>1. PICK e \in Steady : AccountOf[e] = w.source.address /\ w.seed.how \in 0 .. drift[e]
    BY <1>2 DEF Derivable
  <2>2. w.seed.how \in 0 .. drift'[e]
    BY <2>1, CeremonyConstants DEF Drifts, VaultInv
  <2> QED BY <1>2, <2>1, <2>2 DEF Derivable
<1> QED BY <1>1, <1>2 DEF MadeHere


LEMMA VaultGrows ==
  ASSUME CeremonyInv, [Next]_vars
  PROVE  Drifts /\ Grows
<1> USE DEF netVars, vaultVars, web3Vars, modalVars, pageVars, ceremonyOnly, wordsOnly
<1>1. drift \in [Entry -> Nat] /\ VaultInv /\ (adding # Nil => adding.seed \in Seeds /\ MadeHere(adding))
  BY DEF CeremonyInv, VaultInv, StoreInv
<1>2. UNCHANGED netVars /\ UNCHANGED wallets => Drifts /\ Grows
  BY <1>1, GrowsByNothing DEF Drifts
<1>3. CASE UNCHANGED vars
  BY <1>2, <1>3 DEF vars
<1>4. CASE Modal
  <2>1. CASE OpenConnectModal \/ RequestCloseConnectModal \/ ChooseForm \/ SubmitForm \/ Unlock
    BY <1>2, <2>1 DEF OpenConnectModal, RequestCloseConnectModal, ChooseForm, SubmitForm,
         CreateWalletEntry, Unlock
  <2>2. CASE AddLands
    BY <1>1, <2>2, AddedGrows DEF AddLands, Drifts
  <2>3. CASE AddFails
    BY <1>1, <2>3, AddedGrows, GrowsByNothing DEF AddFails, Drifts
  <2> QED BY <1>4, <2>1, <2>2, <2>3 DEF Modal
<1>5. CASE Web3
  <2>1. CASE OpenWeb3Picker \/ AgreeChanges \/ Go \/ NewWallet \/ SaveGo
    BY <1>2, <2>1 DEF OpenWeb3Picker, AgreeChanges, Go, NewWallet, SaveGo, CreateWalletEntry
  <2>2. ASSUME NEW e \in Entry, PickEntry(e)
        PROVE  Drifts /\ Grows
    BY <1>2, <2>2 DEF PickEntry
  <2>3. ASSUME NEW p \in popups, Connected(p) \/ PopupCloses(p) \/ Sign1Answers(p) \/ SignRefused(p)
        PROVE  Drifts /\ Grows
    BY <1>2, <2>3 DEF Connected, PopupCloses, Sign1Answers, SignRefused, Refused, Stays
  <2>4. ASSUME NEW p \in popups, VerifyAnswers(p) \/ Sign2Answers(p)
        PROVE  Drifts /\ Grows
    BY <1>2, <2>4 DEF VerifyAnswers, Verify, Sign2Answers, Derived, ToVerified, Refused, Stays
  <2> QED BY <1>5, <2>1, <2>2, <2>3, <2>4 DEF Web3
<1>6. CASE Words
  <2>1. CASE BackupShow \/ ToQuizAndBack \/ QuizVerify \/ MarkLands \/ VerifyPassword \/ ReauthCancel
    BY <1>2, <2>1 DEF BackupShow, ToQuizAndBack, QuizVerify, MarkLands, VerifyPassword, ReauthCancel
  <2>2. CASE \E purpose \in {"seed", "backup", "file"} : RequireReauth(purpose)
    BY <1>2, <2>2 DEF RequireReauth
  <2>3. CASE Verified \/ SeedShow \/ CloseNetModal \/ SeedTimer \/ TabHidden
    BY <1>2, <2>3 DEF Verified, SeedShow, CloseNetModal, SeedTimer, TabHidden
  <2> QED BY <1>6, <2>1, <2>2, <2>3 DEF Words
<1>7. CASE Rest
  <2>1. CASE LockWallet \/ OtherTabSwitches
    BY <1>2, <2>1 DEF LockWallet, OtherTabSwitches
  <2>2. CASE LoadStatus
    BY <1>1, <2>2, GrowsByNothing DEF LoadStatus, Drifts
  <2>3. ASSUME NEW e \in Entry, OtherTabDerives(e)
        PROVE  Drifts /\ Grows
    <3> DEFINE sig == [by |-> AccountOf[e], msg |-> chainVersion, how |-> drift[e], s |-> 1, recid |-> 0]
               w == [seed |-> Entropy(sig), source |-> PackageDerived(e, AccountOf[e], sig, sig.msg).source]
    <3>1. UNCHANGED netVars /\ wallets' = Append(wallets, w) /\ e \in Steady
      BY <2>3 DEF OtherTabDerives, PackageDerived, chainVersion
    <3>2. w.seed = [by |-> AccountOf[e], msg |-> chainVersion, how |-> drift[e], s |-> 1]
          /\ w.source = [kind |-> KindOf[e], address |-> AccountOf[e], msgVersion |-> chainVersion, fp |-> w.seed]
      BY DEF PackageDerived, Entropy
    <3>3. drift[e] \in Nat /\ chainVersion \in Version /\ S2dForVersion(chainVersion) = chainVersion
      BY <1>1, VersionIsItsOwn
    <3> HIDE DEF w
    <3>4. w.seed \in Seeds
      BY <3>2, <3>3 DEF Seeds
    <3>5. MadeHere(w)
      BY <3>1, <3>2, <3>3 DEF MadeHere, Derivable
    <3> QED BY <1>1, <3>1, <3>4, <3>5, GrowsByOne DEF Drifts
  <2>4. ASSUME NEW e \in Entry, ExtensionChanges(e)
        PROVE  Drifts /\ Grows
    BY <1>1, <2>4, GrowsByNothing DEF ExtensionChanges, Drifts
  <2> QED BY <1>7, <2>1, <2>2, <2>3, <2>4 DEF Rest
<1> QED BY <1>3, <1>4, <1>5, <1>6, <1>7 DEF Next

-----------------------------------------------------------------------------
(* The invariant is inductive *)

\* A popup that is answered in its own ceremony finds the vault open or none yet.
LEMMA LiveIsNotLocked ==
  ASSUME CeremonyInv, NEW p \in popups, p.live
  PROVE  /\ connectMode = "web3-sign" /\ status # "locked" /\ p.entry = web3Entry /\ p.entry \in Entry
         /\ view = ViewOf(p.step)
BY DEF CeremonyInv, ScreenInv, PopupInv, Asks, ModalInv, ViewOf

LEMMA VerifiedIsHeld ==
  ASSUME CeremonyInv, NEW p \in popups, p.live, NEW source, NEW i \in FindExact(source)
  PROVE  status = "unlocked" /\ wallets[i].seed \in Seeds
<1>1. i \in DOMAIN wallets
  BY DEF FindExact, Of
<1>2. status # "locked"
  BY LiveIsNotLocked
<1>3. status # "none"
  BY <1>1 DEF CeremonyInv, VaultInv
<1> QED BY <1>1, <1>2, <1>3 DEF CeremonyInv, VaultInv

LEMMA VaultStep ==
  ASSUME CeremonyInv, [Next]_vars
  PROVE  VaultInv'
<1> USE DEF netVars, vaultVars, web3Vars, modalVars, pageVars, ceremonyOnly, wordsOnly, CeremonyInv
<1> DEFINE Opens == /\ status' \in {"none", "locked", "unlocked"}
                    /\ IF status' = "none" THEN wallets' = <<>> ELSE active' \in Seeds
                    /\ opened' # Nil => opened' \in Seeds /\ status' = "unlocked"
<1>1. ASSUME Opens PROVE VaultInv'
  BY <1>1, VaultGrows DEF VaultInv, Grows, Drifts
<1>2. UNCHANGED <<vaultVars, opened>> => Opens
  BY DEF VaultInv
<1>3. adding # Nil => adding.seed \in Seeds
  BY DEF StoreInv
<1> HIDE DEF CeremonyInv
<1>4. VaultInv
  BY DEF CeremonyInv
<1>5. CASE UNCHANGED vars
  BY <1>1, <1>2, <1>5 DEF vars
<1>6. CASE Modal
  <2>1. CASE OpenConnectModal \/ RequestCloseConnectModal \/ ChooseForm \/ SubmitForm
    BY <1>1, <1>2, <2>1 DEF OpenConnectModal, RequestCloseConnectModal, ChooseForm, SubmitForm,
         CreateWalletEntry
  <2>2. CASE AddLands
    BY <1>1, <1>3, <2>2 DEF AddLands
  <2>3. CASE AddFails
    BY <1>1, <1>4, <2>3 DEF AddFails, VaultInv
  <2>4. CASE Unlock
    BY <1>1, <1>4, <2>4 DEF Unlock, VaultInv
  <2> QED BY <1>6, <2>1, <2>2, <2>3, <2>4 DEF Modal
<1>7. CASE Web3
  <2>1. CASE OpenWeb3Picker \/ AgreeChanges \/ Go \/ NewWallet \/ SaveGo
    BY <1>1, <1>2, <2>1 DEF OpenWeb3Picker, AgreeChanges, Go, NewWallet, SaveGo, CreateWalletEntry
  <2>2. ASSUME NEW e \in Entry, PickEntry(e)
        PROVE  VaultInv'
    BY <1>1, <1>2, <2>2 DEF PickEntry
  <2>3. ASSUME NEW p \in popups, Connected(p) \/ PopupCloses(p) \/ Sign1Answers(p) \/ SignRefused(p)
        PROVE  VaultInv'
    BY <1>1, <1>2, <2>3 DEF Connected, PopupCloses, Sign1Answers, SignRefused, Refused, Stays
  <2>4. ASSUME NEW p \in popups, p.live, NEW source, NEW i \in FindExact(source), NEW enabled,
               ToVerified(wallets[i].seed, p, enabled)
        PROVE  VaultInv'
    <3>1. status = "unlocked" /\ wallets[i].seed \in Seeds
      BY <2>4, VerifiedIsHeld
    <3> QED BY <1>1, <1>2, <2>4, <3>1 DEF ToVerified, SwitchToWallet, Stays
  <2>5. ASSUME NEW p \in popups, VerifyAnswers(p)
        PROVE  VaultInv'
    BY <1>1, <1>2, <2>4, <2>5 DEF VerifyAnswers, Verify, Stays
  <2>6. ASSUME NEW p \in popups, Sign2Answers(p)
        PROVE  VaultInv'
    BY <1>1, <1>2, <2>4, <2>6 DEF Sign2Answers, Derived, IsCurrent, Refused, Stays
  <2> QED BY <1>7, <2>1, <2>2, <2>3, <2>5, <2>6 DEF Web3
<1>8. CASE Words
  <2>1. UNCHANGED <<vaultVars, opened>>
    <3>1. CASE BackupShow \/ ToQuizAndBack \/ QuizVerify \/ MarkLands \/ VerifyPassword \/ ReauthCancel
      BY <3>1 DEF BackupShow, ToQuizAndBack, QuizVerify, MarkLands, VerifyPassword, ReauthCancel
    <3>2. CASE \E purpose \in {"seed", "backup", "file"} : RequireReauth(purpose)
      BY <3>2 DEF RequireReauth
    <3>3. CASE Verified \/ SeedShow \/ CloseNetModal \/ SeedTimer \/ TabHidden
      BY <3>3 DEF Verified, SeedShow, CloseNetModal, SeedTimer, TabHidden
    <3> QED BY <1>8, <3>1, <3>2, <3>3 DEF Words
  <2> QED BY <1>1, <1>2, <2>1
<1>9. CASE Rest
  <2>1. CASE LockWallet
    BY <1>1, <1>4, <2>1 DEF LockWallet, VaultInv
  <2>2. CASE OtherTabSwitches
    BY <1>1, <1>4, <2>2 DEF OtherTabSwitches, SwitchToWallet, VaultInv
  <2>3. CASE LoadStatus \/ \E e \in Entry : ExtensionChanges(e)
    BY <1>1, <1>2, <2>3 DEF LoadStatus, ExtensionChanges
  <2>4. ASSUME NEW e \in Entry, OtherTabDerives(e)
        PROVE  VaultInv'
    BY <1>1, <1>4, <2>4 DEF OtherTabDerives, VaultInv
  <2> QED BY <1>9, <2>1, <2>2, <2>3, <2>4 DEF Rest
<1> QED BY <1>5, <1>6, <1>7, <1>8, <1>9 DEF Next


LEMMA CeremonyIsSome ==
  ASSUME NEW s \in Seeds, NEW m \in BOOLEAN
  PROVE  [id |-> s, mandatory |-> m] # Nil
<1>1. [id |-> s, mandatory |-> m] \in [id : Seeds, mandatory : BOOLEAN]
  OBVIOUS
<1> QED BY <1>1, CeremonyNil, Zenon

LEMMA ModalStep ==
  ASSUME CeremonyInv, [Next]_vars
  PROVE  ModalInv' /\ WordsAreOfTheOpenWallet'
<1> USE DEF netVars, vaultVars, web3Vars, modalVars, backupVars, seedVars, promptVars, pageVars,
            ceremonyOnly, wordsOnly
<1>1. /\ VaultInv /\ ModalInv /\ WordsAreOfTheOpenWallet
      /\ view # "none" => connectMode = "web3-sign"
      /\ adding # Nil => adding.seed \in Seeds
  BY DEF CeremonyInv, ScreenInv, StoreInv
<1>2. UNCHANGED <<netVars, status, opened, sheet, connectMode, adding, backupVars, seedVars, prompt>> =>
        ModalInv' /\ WordsAreOfTheOpenWallet'
  BY <1>1 DEF ModalInv, WordsAreOfTheOpenWallet
<1>3. CASE UNCHANGED vars
  BY <1>2, <1>3 DEF vars
<1>4. CASE Modal
  <2>1. CASE OpenConnectModal
    BY <1>1, <2>1 DEF OpenConnectModal, SetConnectMode, LeaveTo, ModalInv, WordsAreOfTheOpenWallet, VaultInv
  <2>2. CASE RequestCloseConnectModal
    BY <1>1, <2>2 DEF RequestCloseConnectModal, CloseConnectModal, NoCeremony, LeaveTo, ModalInv,
         WordsAreOfTheOpenWallet, VaultInv
  <2>3. CASE ChooseForm
    BY <1>1, <2>3 DEF ChooseForm, SetConnectMode, LeaveTo, ModalInv, WordsAreOfTheOpenWallet
  <2>4. CASE SubmitForm
    BY <1>1, <2>4 DEF SubmitForm, CreateWalletEntry, ModalInv, WordsAreOfTheOpenWallet
  <2>5. CASE AddLands
    <3>1. CASE MustBackUp(adding)
      <4>1. /\ ceremony' = [id |-> adding.seed, mandatory |-> TRUE] /\ ceremony' # Nil
            /\ connectMode' = "backup" /\ grid' = Decoy /\ sheet' = TRUE /\ seedWords' = Nil
            /\ prompt' = Nil /\ status' = "unlocked" /\ opened' = adding.seed /\ adding' = Nil
        BY <1>1, <2>5, <3>1, CeremonyIsSome DEF AddLands, BeginBackupCeremony, SetConnectMode, LeaveTo, HideSeed
      <4> QED BY <4>1 DEF ModalInv, WordsAreOfTheOpenWallet
    <3>2. CASE ~MustBackUp(adding)
      BY <1>1, <2>5, <3>2 DEF AddLands, ResetWalletState, CloseConnectModal, NoCeremony, LeaveTo, HideSeed,
           ModalInv, WordsAreOfTheOpenWallet
    <3> QED BY <3>1, <3>2
  <2>6. CASE AddFails
    BY <1>1, <2>6 DEF AddFails, ModalInv, WordsAreOfTheOpenWallet
  <2>7. CASE Unlock
    BY <1>1, <2>7 DEF Unlock, CloseConnectModal, NoCeremony, LeaveTo, HideSeed, ModalInv,
         WordsAreOfTheOpenWallet, VaultInv
  <2> QED BY <1>4, <2>1, <2>2, <2>3, <2>4, <2>5, <2>6, <2>7 DEF Modal
<1>5. CASE Web3
  <2>1. CASE OpenWeb3Picker
    BY <1>1, <2>1 DEF OpenWeb3Picker, SetConnectMode, LeaveTo, ModalInv, WordsAreOfTheOpenWallet
  <2>2. CASE AgreeChanges \/ Go \/ NewWallet
    BY <1>2, <2>2 DEF AgreeChanges, Go, NewWallet
  <2>3. CASE SaveGo
    BY <1>1, <2>3 DEF SaveGo, CreateWalletEntry, ModalInv, WordsAreOfTheOpenWallet
  <2>4. ASSUME NEW e \in Entry, PickEntry(e)
        PROVE  ModalInv' /\ WordsAreOfTheOpenWallet'
    BY <1>1, <2>4 DEF PickEntry, ModalInv, WordsAreOfTheOpenWallet
  <2>5. ASSUME NEW p \in popups, Connected(p) \/ PopupCloses(p) \/ Sign1Answers(p) \/ SignRefused(p)
        PROVE  ModalInv' /\ WordsAreOfTheOpenWallet'
    BY <1>2, <2>5 DEF Connected, PopupCloses, Sign1Answers, SignRefused, Refused, Stays
  <2>6. ASSUME NEW p \in popups, p.live, NEW source, NEW i \in FindExact(source), NEW enabled,
               ToVerified(wallets[i].seed, p, enabled), UNCHANGED <<netVars, adding>>
        PROVE  ModalInv' /\ WordsAreOfTheOpenWallet'
    <3>1. status = "unlocked" /\ wallets[i].seed \in Seeds
      BY <2>6, VerifiedIsHeld
    <3> QED BY <1>1, <1>2, <2>6, <3>1 DEF ToVerified, SwitchToWallet, ResetWalletState, CloseConnectModal,
              NoCeremony, LeaveTo, HideSeed, Stays, ModalInv, WordsAreOfTheOpenWallet
  <2>7. ASSUME NEW p \in popups, VerifyAnswers(p)
        PROVE  ModalInv' /\ WordsAreOfTheOpenWallet'
    BY <1>2, <2>6, <2>7 DEF VerifyAnswers, Verify, Stays
  <2>8. ASSUME NEW p \in popups, Sign2Answers(p)
        PROVE  ModalInv' /\ WordsAreOfTheOpenWallet'
    BY <1>2, <2>6, <2>8 DEF Sign2Answers, Derived, IsCurrent, Refused, Stays
  <2> QED BY <1>5, <2>1, <2>2, <2>3, <2>4, <2>5, <2>7, <2>8 DEF Web3
<1>6. CASE Words
  <2>1. CASE BackupShow
    BY <1>1, <2>1 DEF BackupShow, ModalInv, WordsAreOfTheOpenWallet
  <2>2. CASE ToQuizAndBack
    BY <1>1, <2>2 DEF ToQuizAndBack, SetConnectMode, LeaveTo, ModalInv, WordsAreOfTheOpenWallet
  <2>3. CASE QuizVerify
    BY <1>1, <2>3 DEF QuizVerify, ModalInv, WordsAreOfTheOpenWallet
  <2>4. CASE MarkLands
    BY <1>1, <2>4 DEF MarkLands, SetConnectMode, LeaveTo, ModalInv, WordsAreOfTheOpenWallet
  <2>5. ASSUME NEW purpose \in {"seed", "backup", "file"}, RequireReauth(purpose)
        PROVE  ModalInv' /\ WordsAreOfTheOpenWallet'
    <3>1. prompt' = purpose /\ opened # Nil /\ (purpose = "backup" => ~sheet)
      BY <2>5 DEF RequireReauth
    <3> QED BY <1>1, <2>5, <3>1 DEF RequireReauth, ModalInv, WordsAreOfTheOpenWallet
  <2>6. CASE VerifyPassword \/ ReauthCancel
    BY <1>1, <2>6 DEF VerifyPassword, ReauthCancel, ModalInv, WordsAreOfTheOpenWallet
  <2>7. CASE Verified
    <3>1. CASE UNCHANGED <<modalVars, backupVars, seedVars>>
      BY <1>1, <2>7, <3>1 DEF Verified, ModalInv, WordsAreOfTheOpenWallet
    <3>2. ASSUME prompt # Nil, prompt' = Nil, Resume(prompt)
          PROVE  ModalInv' /\ WordsAreOfTheOpenWallet'
      <4>1. UNCHANGED <<netVars, vaultVars, opened, adding>> /\ opened # Nil
        BY <1>1, <2>7, <3>2 DEF Verified, ModalInv
      <4>2. CASE prompt = "backup" /\ BeginBackupCeremony(opened, FALSE) /\ UNCHANGED seedVars
        <5>1. /\ ceremony' = [id |-> opened, mandatory |-> FALSE] /\ ceremony' # Nil
              /\ connectMode' = "backup" /\ grid' = Decoy /\ sheet' = TRUE
          BY <1>1, <4>1, <4>2, CeremonyIsSome DEF BeginBackupCeremony, SetConnectMode, LeaveTo, VaultInv
        <5> QED BY <1>1, <3>2, <4>1, <4>2, <5>1 DEF ModalInv, WordsAreOfTheOpenWallet, VaultInv
      <4>3. CASE prompt # "backup"
        <5>1. UNCHANGED <<modalVars, backupVars>> /\ (seedWords' = Decoy \/ UNCHANGED seedWords)
          BY <3>2, <4>3 DEF Resume
        <5> QED BY <1>1, <3>2, <4>1, <5>1 DEF ModalInv, WordsAreOfTheOpenWallet, VaultInv
      <4> QED BY <3>2, <4>2, <4>3 DEF Resume
    <3> QED BY <2>7, <3>1, <3>2 DEF Verified
  <2>8. CASE SeedShow
    BY <1>1, <2>8, CeremonyNil DEF SeedShow, ModalInv, WordsAreOfTheOpenWallet
  <2>9. CASE CloseNetModal
    BY <1>1, <2>9 DEF CloseNetModal, HideSeed, ModalInv, WordsAreOfTheOpenWallet
  <2>10. CASE SeedTimer \/ TabHidden
    BY <1>1, <2>10 DEF SeedTimer, TabHidden, WipeRevealedSeeds, ModalInv, WordsAreOfTheOpenWallet
  <2> QED BY <1>6, <2>1, <2>2, <2>3, <2>4, <2>5, <2>6, <2>7, <2>8, <2>9, <2>10 DEF Words
<1>7. CASE Rest
  <2>1. CASE LockWallet
    BY <1>1, <2>1 DEF LockWallet, ResetWalletState, CloseConnectModal, NoCeremony, LeaveTo, HideSeed,
         ModalInv, WordsAreOfTheOpenWallet
  <2>2. CASE OtherTabSwitches
    BY <1>1, <2>2 DEF OtherTabSwitches, SwitchToWallet, ResetWalletState, CloseConnectModal, NoCeremony,
         LeaveTo, HideSeed, ModalInv, WordsAreOfTheOpenWallet
  <2>3. CASE LoadStatus
    BY <1>1, <2>3 DEF LoadStatus, ModalInv, WordsAreOfTheOpenWallet
  <2>4. CASE \E e \in Entry : OtherTabDerives(e) \/ ExtensionChanges(e)
    BY <1>1, <2>4 DEF OtherTabDerives, ExtensionChanges, ModalInv, WordsAreOfTheOpenWallet
  <2> QED BY <1>7, <2>1, <2>2, <2>3, <2>4 DEF Rest
<1> QED BY <1>3, <1>4, <1>5, <1>6, <1>7 DEF Next


\* While the ceremony is on screen the page knows the node's chain.
LEMMA ChainIsKnown ==
  ASSUME CeremonyInv, view # "none"
  PROVE  /\ connectMode = "web3-sign" /\ S2dForChain(gateChain, Host) = chainVersion
         /\ ArmWeb3Disclosure => view' = "disclose" /\ host' = S2dOriginHost(chainVersion)
<1>1. connectMode = "web3-sign" /\ netKnown
  BY DEF CeremonyInv, ScreenInv, ModalInv
<1>2. gateChain = node
  BY <1>1 DEF gateChain
<1> QED BY <1>1, <1>2 DEF ArmWeb3Disclosure, chainVersion

LEMMA ScreenStep ==
  ASSUME CeremonyInv, [Next]_vars
  PROVE  ScreenInv'
<1> USE DEF netVars, vaultVars, web3Vars, modalVars, backupVars, seedVars, promptVars, pageVars,
            ceremonyOnly, wordsOnly
<1>1. ScreenInv /\ chainVersion' = chainVersion
  BY VaultGrows, StaysDerivable DEF CeremonyInv
<1>2. ASSUME view' = "none", web3Pending' = Nil
      PROVE  ScreenInv'
  BY <1>2 DEF ScreenInv
<1>3. UNCHANGED <<connectMode, web3Vars>> => ScreenInv'
  BY <1>1 DEF ScreenInv
<1>4. ASSUME NEW p \in popups, p.live
      PROVE  /\ connectMode = "web3-sign" /\ p.entry = web3Entry /\ p.entry \in Entry
             /\ view = ViewOf(p.step) /\ view # "none"
  BY <1>4, LiveIsNotLocked, <1>1 DEF ViewOf, CeremonyInv, PopupInv, Asks
<1>5. CASE UNCHANGED vars
  BY <1>3, <1>5 DEF vars
<1>6. CASE Modal
  <2>1. CASE OpenConnectModal \/ RequestCloseConnectModal \/ ChooseForm
    BY <1>2, <2>1 DEF OpenConnectModal, RequestCloseConnectModal, ChooseForm, CloseConnectModal,
         SetConnectMode, LeaveTo, NoWeb3
  <2>2. CASE SubmitForm \/ AddFails
    BY <1>3, <2>2 DEF SubmitForm, CreateWalletEntry, AddFails
  <2>3. CASE AddLands \/ Unlock
    BY <1>2, <2>3 DEF AddLands, Unlock, BeginBackupCeremony, ResetWalletState, CloseConnectModal,
         SetConnectMode, LeaveTo, NoWeb3
  <2> QED BY <1>6, <2>1, <2>2, <2>3 DEF Modal
<1>7. CASE Web3
  <2>1. CASE OpenWeb3Picker
    BY <1>2, <2>1 DEF OpenWeb3Picker, SetConnectMode, LeaveTo, NoWeb3
  <2>2. CASE AgreeChanges \/ SaveGo
    BY <1>3, <2>2 DEF AgreeChanges, SaveGo, CreateWalletEntry
  <2>3. CASE Go
    BY <1>1, <2>3 DEF Go, ScreenInv
  <2>4. CASE NewWallet
    <3>1. view = "mismatch"
      BY <2>4 DEF NewWallet
    <3>2. CASE web3Pending # Nil
      BY <1>1, <2>4, <3>1, <3>2 DEF NewWallet, ScreenInv
    <3>3. CASE web3Pending = Nil
      BY <1>1, <2>4, <3>1, <3>3, ChainIsKnown DEF NewWallet, ScreenInv
    <3> QED BY <3>2, <3>3
  <2>5. ASSUME NEW e \in Entry, PickEntry(e)
        PROVE  ScreenInv'
    BY <1>1, <2>5 DEF PickEntry, ScreenInv
  <2>6. ASSUME NEW p \in popups, Connected(p)
        PROVE  ScreenInv'
    <3>1. CASE p.live /\ p.step = "connect"
      <4>1. /\ connectMode = "web3-sign" /\ p.entry = web3Entry /\ p.entry \in Entry
            /\ view = "connect" /\ web3Pending = Nil
        BY <1>1, <1>4, <3>1 DEF ViewOf, ScreenInv
      <4>2. /\ UNCHANGED <<connectMode, web3Entry, web3Pending>>
            /\ web3Address' = AccountOf[p.entry]
            /\ view' = "verify" \/ ArmWeb3Disclosure
        BY <2>6, <3>1 DEF Connected, Connect
      <4> QED BY <1>1, <4>1, <4>2, ChainIsKnown DEF ScreenInv
    <3>2. CASE ~p.live
      BY <1>3, <2>6, <3>2 DEF Connected
    <3> QED BY <2>6, <3>1, <3>2 DEF Connected
  <2>7. ASSUME NEW p \in popups, PopupCloses(p) \/ Sign1Answers(p)
        PROVE  ScreenInv'
    BY <1>3, <2>7 DEF PopupCloses, Sign1Answers
  <2>8. ASSUME NEW p \in popups, p.step \in {"sign1", "sign2"}, Refused(p)
        PROVE  ScreenInv'
    <3>1. CASE p.live
      BY <1>1, <1>4, <2>8, <3>1, ChainIsKnown DEF Refused, Stays, ViewOf, ScreenInv
    <3>2. CASE ~p.live
      BY <1>3, <2>8, <3>2 DEF Refused, Stays
    <3> QED BY <3>1, <3>2
  <2>9. ASSUME NEW p, NEW seed, NEW enabled, ToVerified(seed, p, enabled)
        PROVE  ScreenInv'
    BY <1>2, <1>3, <2>9 DEF ToVerified, SwitchToWallet, ResetWalletState, CloseConnectModal, LeaveTo,
         NoWeb3, Stays
  <2>10. ASSUME NEW p \in popups, VerifyAnswers(p)
         PROVE  ScreenInv'
    <3>1. p.live /\ p.step = "verify" /\ view = "verify"
      BY <1>4, <2>10 DEF VerifyAnswers, Verify, ViewOf
    <3>2. CASE view' = "mismatch" /\ Stays(p) /\ UNCHANGED <<web3Entry, web3Address, web3Pending>>
      BY <1>1, <1>4, <3>1, <3>2 DEF Stays, ScreenInv
    <3> QED BY <2>9, <2>10, <3>2 DEF VerifyAnswers, Verify
  <2>11. ASSUME NEW p \in popups, Sign2Answers(p)
         PROVE  ScreenInv'
    <3>1. p.step = "sign2"
      BY <2>11 DEF Sign2Answers
    <3>2. CASE /\ p.live /\ view' \in {"mismatch", "save"}
               /\ Stays(p) /\ UNCHANGED <<web3Entry, web3Address>>
      BY <1>1, <1>4, <3>1, <3>2 DEF Stays, ViewOf, ScreenInv
    <3> QED BY <2>8, <2>9, <2>11, <3>1, <3>2 DEF Sign2Answers, Derived, IsCurrent
  <2>12. ASSUME NEW p \in popups, SignRefused(p)
         PROVE  ScreenInv'
    BY <2>8, <2>12 DEF SignRefused
  <2> QED BY <1>7, <2>1, <2>2, <2>3, <2>4, <2>5, <2>6, <2>7, <2>10, <2>11, <2>12 DEF Web3
<1>8. CASE Words
  <2>1. CASE BackupShow \/ QuizVerify \/ VerifyPassword \/ ReauthCancel
    BY <1>3, <2>1 DEF BackupShow, QuizVerify, VerifyPassword, ReauthCancel
  <2>2. CASE ToQuizAndBack \/ MarkLands
    BY <1>2, <1>3, <2>2 DEF ToQuizAndBack, MarkLands, SetConnectMode, LeaveTo, NoWeb3
  <2>3. CASE \E purpose \in {"seed", "backup", "file"} : RequireReauth(purpose)
    BY <1>3, <2>3 DEF RequireReauth
  <2>4. CASE Verified
    BY <1>2, <1>3, <2>4 DEF Verified, Resume, BeginBackupCeremony, SetConnectMode, LeaveTo, NoWeb3
  <2>5. CASE SeedShow \/ CloseNetModal \/ SeedTimer \/ TabHidden
    BY <1>3, <2>5 DEF SeedShow, CloseNetModal, SeedTimer, TabHidden
  <2> QED BY <1>8, <2>1, <2>2, <2>3, <2>4, <2>5 DEF Words
<1>9. CASE Rest
  <2>1. CASE LockWallet \/ OtherTabSwitches
    BY <1>2, <2>1 DEF LockWallet, OtherTabSwitches, SwitchToWallet, ResetWalletState, CloseConnectModal,
         LeaveTo, NoWeb3
  <2>2. CASE LoadStatus \/ \E e \in Entry : OtherTabDerives(e) \/ ExtensionChanges(e)
    BY <1>3, <2>2 DEF LoadStatus, OtherTabDerives, ExtensionChanges
  <2> QED BY <1>9, <2>1, <2>2 DEF Rest
<1> QED BY <1>5, <1>6, <1>7, <1>8, <1>9 DEF Next


LEMMA PopupsClose ==
  ASSUME PopupInv, chainVersion' = chainVersion, popups' \subseteq popups,
         UNCHANGED <<web3Entry, view>> \/ \A p \in popups' : ~p.live
  PROVE  PopupInv'
BY DEF PopupInv, Asks

LEMMA PopupsOrphaned ==
  ASSUME PopupInv, chainVersion' = chainVersion, popups' = {Orphaned(p) : p \in popups}
  PROVE  PopupInv'
BY DEF PopupInv, Asks, Orphaned, MakePopup

\* An orphan stays one; and a popup of the ceremony on screen follows its only one.
LEMMA PopupOpens ==
  ASSUME PopupInv, chainVersion' = chainVersion, NEW q, Asks(q),
         popups' \subseteq popups \cup {q},
         \/ UNCHANGED <<web3Entry, view>> /\ ~q.live
         \/ /\ q.entry = web3Entry' /\ view' = ViewOf(q.step)
            /\ \A p \in popups' : p.live => p = q
  PROVE  PopupInv'
BY DEF PopupInv, Asks

LEMMA PopupStep ==
  ASSUME CeremonyInv, [Next]_vars
  PROVE  PopupInv'
<1> USE DEF netVars, vaultVars, web3Vars, modalVars, backupVars, seedVars, promptVars, pageVars,
            ceremonyOnly, wordsOnly
<1>1. PopupInv /\ ScreenInv /\ chainVersion' = chainVersion
  BY VaultGrows, StaysDerivable DEF CeremonyInv
<1>2. popups' = {Orphaned(p) : p \in popups} => PopupInv'
  BY <1>1, PopupsOrphaned
<1>3. UNCHANGED <<popups, web3Entry, view>> => PopupInv'
  BY <1>1, PopupsClose
<1>4. ASSUME NEW p \in popups, p.live
      PROVE  /\ connectMode = "web3-sign" /\ p.entry = web3Entry /\ Asks(p)
             /\ view = ViewOf(p.step) /\ view # "none"
             /\ \A q \in Others(p) : ~q.live
  BY <1>4, LiveIsNotLocked, <1>1 DEF ViewOf, PopupInv, Asks, Others
<1>5. ASSUME NEW p \in popups, popups' = Others(p), p.live \/ UNCHANGED <<web3Entry, view>>
      PROVE  PopupInv'
  BY <1>1, <1>4, <1>5, PopupsClose DEF Others
<1>6. CASE UNCHANGED vars
  BY <1>3, <1>6 DEF vars
<1>7. CASE Modal
  <2>1. CASE OpenConnectModal \/ RequestCloseConnectModal \/ ChooseForm
    BY <1>2, <2>1 DEF OpenConnectModal, RequestCloseConnectModal, ChooseForm, CloseConnectModal,
         SetConnectMode, LeaveTo, NoWeb3
  <2>2. CASE SubmitForm \/ AddFails
    BY <1>3, <2>2 DEF SubmitForm, CreateWalletEntry, AddFails
  <2>3. CASE AddLands \/ Unlock
    BY <1>2, <2>3 DEF AddLands, Unlock, BeginBackupCeremony, ResetWalletState, CloseConnectModal,
         SetConnectMode, LeaveTo, NoWeb3
  <2> QED BY <1>7, <2>1, <2>2, <2>3 DEF Modal
<1>8. CASE Web3
  <2>1. CASE OpenWeb3Picker
    BY <1>2, <2>1 DEF OpenWeb3Picker, SetConnectMode, LeaveTo, NoWeb3
  <2>2. CASE AgreeChanges \/ SaveGo
    BY <1>3, <2>2 DEF AgreeChanges, SaveGo, CreateWalletEntry
  <2>3. CASE Go
    <3> DEFINE q == Ask("sign1", web3Entry, web3Address, S2dForChain(gateChain, Host))
    <3>1. /\ q.step = "sign1" /\ q.entry = web3Entry /\ q.address = web3Address /\ q.live
          /\ q.version = S2dForChain(gateChain, Host)
      BY DEF Ask, MakePopup
    <3>2. popups' = popups \cup {q} /\ view = "disclose" /\ view' = "steps" /\ web3Entry' = web3Entry
      BY <2>3 DEF Go
    <3> HIDE DEF q
    <3>3. Asks(q)
      BY <1>1, <3>1, <3>2, ChainIsKnown DEF Asks, ScreenInv
    <3>4. \A p \in popups : ~p.live
      BY <1>4, <1>1, <3>2 DEF ViewOf, PopupInv, Asks
    <3> QED BY <1>1, <3>1, <3>2, <3>3, <3>4, PopupOpens DEF ViewOf
  <2>4. CASE NewWallet
    <3>1. \A p \in popups : ~p.live
      BY <1>4, <1>1, <2>4 DEF NewWallet, ViewOf, PopupInv, Asks
    <3> QED BY <1>1, <2>4, <3>1, PopupsClose DEF NewWallet
  <2>5. ASSUME NEW e \in Entry, PickEntry(e)
        PROVE  PopupInv'
    <3> DEFINE q == Ask("connect", e, Nil, Nil)
    <3>1. q.step = "connect" /\ q.entry = e
      BY DEF Ask, MakePopup
    <3>2. popups' = popups \cup {q} /\ connectMode = "web3-pick" /\ view' = "connect" /\ web3Entry' = e
      BY <2>5 DEF PickEntry
    <3> HIDE DEF q
    <3>3. Asks(q)
      BY <3>1 DEF Asks
    <3>4. \A p \in popups : ~p.live
      BY <1>4, <3>2
    <3> QED BY <1>1, <3>1, <3>2, <3>3, <3>4, PopupOpens DEF ViewOf
  <2>6. ASSUME NEW p \in popups, Connected(p)
        PROVE  PopupInv'
    <3>1. CASE ~p.live
      BY <1>5, <2>6, <3>1 DEF Connected
    <3>2. CASE p.live /\ popups' = Others(p)
      BY <1>5, <3>2
    <3>3. ASSUME p.live, NEW i,
                 popups' = Others(p) \cup {Ask("verify", p.entry, AccountOf[p.entry], VersionOfRecord(wallets[i]))},
                 view' = "verify", UNCHANGED web3Entry
          PROVE  PopupInv'
      <4> DEFINE q == Ask("verify", p.entry, AccountOf[p.entry], VersionOfRecord(wallets[i]))
      <4>1. q.step = "verify" /\ q.entry = p.entry /\ q.address = AccountOf[p.entry]
        BY DEF Ask, MakePopup
      <4> HIDE DEF q
      <4>2. Asks(q)
        BY <1>4, <3>3, <4>1 DEF Asks
      <4>3. popups' = Others(p) \cup {q}
        BY <3>3 DEF q
      <4> QED BY <1>1, <1>4, <3>3, <4>1, <4>2, <4>3, PopupOpens DEF ViewOf, Others
    <3> QED BY <2>6, <3>1, <3>2, <3>3 DEF Connected, Connect
  <2>7. ASSUME NEW p \in popups, PopupCloses(p)
        PROVE  PopupInv'
    BY <1>5, <2>7 DEF PopupCloses
  <2>8. ASSUME NEW p \in popups, p.live \/ UNCHANGED <<web3Entry, view>>, Stays(p)
        PROVE  PopupInv'
    BY <1>5, <2>8 DEF Stays
  <2>9. ASSUME NEW p \in popups, Refused(p)
        PROVE  PopupInv'
    BY <2>8, <2>9 DEF Refused
  <2>10. ASSUME NEW p \in popups, NEW seed, NEW enabled, ToVerified(seed, p, enabled)
         PROVE  PopupInv'
    BY <1>2, <2>8, <2>10 DEF ToVerified, SwitchToWallet, ResetWalletState, CloseConnectModal, LeaveTo, NoWeb3
  <2>11. ASSUME NEW p \in popups, VerifyAnswers(p) \/ Sign2Answers(p) \/ SignRefused(p)
         PROVE  PopupInv'
    BY <2>8, <2>9, <2>10, <2>11 DEF VerifyAnswers, Verify, Sign2Answers, SignRefused, Derived, IsCurrent
  <2>12. ASSUME NEW p \in popups, Sign1Answers(p)
         PROVE  PopupInv'
    <3>1. PICK raw \in Signatures(p) :
            LET sig == SignOnce(KindOf[p.entry], p.address, p.version, raw)
            IN sig # Nil /\ popups' = Others(p) \cup {MakePopup("sign2", p.entry, p.address, p.version, sig, p.live)}
      BY <2>12 DEF Sign1Answers
    <3> DEFINE sig == SignOnce(KindOf[p.entry], p.address, p.version, raw)
               q == MakePopup("sign2", p.entry, p.address, p.version, sig, p.live)
    <3>2. /\ q.step = "sign2" /\ q.entry = p.entry /\ q.address = p.address /\ q.version = p.version
          /\ q.first = sig /\ q.live = p.live
      BY DEF MakePopup
    <3>3. p.step = "sign1" /\ Asks(p) /\ UNCHANGED <<web3Entry, view>>
      BY <1>1, <2>12 DEF Sign1Answers, PopupInv
    <3>4. popups' = Others(p) \cup {q} /\ sig # Nil
      BY <3>1
    <3> HIDE DEF q
    <3>5. /\ sig.by = p.address /\ sig.msg = p.version /\ sig.s = 1
          /\ p.entry \notin Steady => sig.how = "sign1"
      BY <3>3, <3>4, Signed DEF Asks
    <3> HIDE DEF sig
    <3>6. Asks(q)
      BY <3>2, <3>3, <3>5 DEF Asks
    <3>7. CASE p.live
      BY <1>1, <1>4, <3>2, <3>3, <3>4, <3>6, <3>7, PopupOpens DEF Others, ViewOf
    <3>8. CASE ~p.live
      BY <1>1, <3>2, <3>3, <3>4, <3>6, <3>8, PopupOpens DEF Others
    <3> QED BY <3>7, <3>8
  <2> QED BY <1>8, <2>1, <2>2, <2>3, <2>4, <2>5, <2>6, <2>7, <2>11, <2>12 DEF Web3
<1>9. CASE Words
  <2>1. CASE BackupShow \/ QuizVerify \/ VerifyPassword \/ ReauthCancel
    BY <1>3, <2>1 DEF BackupShow, QuizVerify, VerifyPassword, ReauthCancel
  <2>2. CASE ToQuizAndBack \/ MarkLands
    BY <1>2, <1>3, <2>2 DEF ToQuizAndBack, MarkLands, SetConnectMode, LeaveTo, NoWeb3
  <2>3. CASE \E purpose \in {"seed", "backup", "file"} : RequireReauth(purpose)
    BY <1>3, <2>3 DEF RequireReauth
  <2>4. CASE Verified
    BY <1>2, <1>3, <2>4 DEF Verified, Resume, BeginBackupCeremony, SetConnectMode, LeaveTo, NoWeb3
  <2>5. CASE SeedShow \/ CloseNetModal \/ SeedTimer \/ TabHidden
    BY <1>3, <2>5 DEF SeedShow, CloseNetModal, SeedTimer, TabHidden
  <2> QED BY <1>9, <2>1, <2>2, <2>3, <2>4, <2>5 DEF Words
<1>10. CASE Rest
  <2>1. CASE LockWallet \/ OtherTabSwitches
    BY <1>2, <2>1 DEF LockWallet, OtherTabSwitches, SwitchToWallet, ResetWalletState, CloseConnectModal,
         LeaveTo, NoWeb3
  <2>2. CASE LoadStatus \/ \E e \in Entry : OtherTabDerives(e) \/ ExtensionChanges(e)
    BY <1>3, <2>2 DEF LoadStatus, OtherTabDerives, ExtensionChanges
  <2> QED BY <1>10, <2>1, <2>2 DEF Rest
<1> QED BY <1>6, <1>7, <1>8, <1>9, <1>10 DEF Next


\* Two signatures that match make a seed its extension can sign for again.
LEMMA TwiceSigned ==
  ASSUME CeremonyInv, NEW p \in popups, p.live, p.step = "sign2", NEW raw \in Signatures(p), NEW sig,
         sig = SignOnce(KindOf[p.entry], p.address, p.version, raw), sig # Nil, SameBytes(p.first, sig),
         NEW d, d = PackageDerived(p.entry, p.address, p.first, p.version)
  PROVE  /\ p.entry = web3Entry /\ p.entry \in Steady
         /\ d.seed = [by |-> AccountOf[p.entry], msg |-> chainVersion, how |-> drift[p.entry], s |-> 1]
         /\ d.source = [kind |-> KindOf[p.entry], address |-> AccountOf[p.entry],
                        msgVersion |-> chainVersion, fp |-> d.seed]
         /\ d.seed \in Seeds /\ MadeHere(d)
<1>1. /\ p.entry = web3Entry /\ p.entry \in Entry
      /\ p.address = AccountOf[p.entry] /\ p.version = chainVersion
      /\ p.first.by = p.address /\ p.first.msg = p.version /\ p.first.s = 1
      /\ p.entry \notin Steady => p.first.how = "sign1"
  BY DEF CeremonyInv, PopupInv, Asks
<1>2. sig.how = IF p.entry \in Steady THEN drift[p.entry] ELSE "sign2"
  BY <1>1, Signed
<1>3. p.first.how = sig.how
  BY DEF SameBytes
<1>4. p.entry \in Steady /\ p.first.how = drift[p.entry]
  BY <1>1, <1>2, <1>3
<1>5. d.seed = [by |-> AccountOf[p.entry], msg |-> chainVersion, how |-> drift[p.entry], s |-> 1]
  BY <1>1, <1>4 DEF PackageDerived, Entropy
<1>6. d.source = [kind |-> KindOf[p.entry], address |-> AccountOf[p.entry],
                  msgVersion |-> chainVersion, fp |-> d.seed]
  BY <1>1 DEF PackageDerived
<1>7. drift[p.entry] \in Nat /\ chainVersion \in Version /\ S2dForVersion(chainVersion) = chainVersion
  BY <1>1, VersionIsItsOwn DEF CeremonyInv, VaultInv
<1>8. d.seed \in Seeds
  BY <1>1, <1>5, <1>7 DEF Seeds
<1>9. MadeHere(d)
  BY <1>4, <1>5, <1>6, <1>7 DEF MadeHere, Derivable
<1> QED BY <1>1, <1>4, <1>5, <1>6, <1>8, <1>9

Kept(w) == w.seed \in Seeds /\ MadeHere(w)

LEMMA StoreStep ==
  ASSUME CeremonyInv, [Next]_vars
  PROVE  StoreInv'
<1> USE DEF netVars, vaultVars, web3Vars, modalVars, backupVars, seedVars, promptVars, pageVars,
            ceremonyOnly, wordsOnly
<1>1. StoreInv /\ ScreenInv /\ VaultInv /\ Drifts /\ Grows
  BY VaultGrows DEF CeremonyInv
<1>2. \A w : Kept(w) => Kept(w)'
  BY <1>1, StaysDerivable DEF Kept
<1>3. StoredIsDerivable'
  <2> SUFFICES ASSUME NEW i \in DOMAIN wallets', NEW w, w = wallets'[i], w.source # Nil
               PROVE  /\ Derivable(w)'
                      /\ BornHere(w) => w.source.msgVersion = chainVersion'
    BY DEF StoredIsDerivable, ToSet, chainVersion
  <2>1. CASE i \in DOMAIN wallets /\ w = wallets[i]
    BY <1>1, <2>1, StaysDerivable DEF StoreInv, StoredIsDerivable, ToSet, chainVersion
  <2>2. CASE MadeHere(w)
    BY <1>1, <2>2, StaysDerivable DEF MadeHere
  <2> QED BY <1>1, <2>1, <2>2 DEF Grows
<1> DEFINE Shown == web3Pending' # Nil =>
                      /\ Kept(web3Pending')
                      /\ web3Pending'.source.kind = KindOf[web3Entry'] /\ web3Pending'.source.address = web3Address'
           Adds == adding' # Nil => Kept(adding')
<1>4. ASSUME Shown, Adds PROVE StoreInv'
  BY <1>2, <1>3, <1>4 DEF StoreInv, Kept
<1>5. UNCHANGED adding \/ adding' = Nil => Adds
  BY <1>1 DEF StoreInv, Kept
<1>6. UNCHANGED web3Vars \/ web3Pending' = Nil => Shown
  BY <1>1 DEF StoreInv, Kept
<1> HIDE DEF Shown, Adds
<1>7. CASE UNCHANGED vars
  BY <1>4, <1>5, <1>6, <1>7 DEF vars
<1>8. CASE Modal
  <2>1. CASE OpenConnectModal \/ RequestCloseConnectModal \/ ChooseForm
    BY <1>4, <1>5, <1>6, <2>1 DEF OpenConnectModal, RequestCloseConnectModal, ChooseForm, CloseConnectModal,
         SetConnectMode, LeaveTo, NoWeb3
  <2>2. CASE SubmitForm
    <3>1. PICK s \in Plain \cup Typed : CreateWalletEntry(s, Nil)
      BY <2>2 DEF SubmitForm
    <3>2. Adds
      BY <3>1 DEF CreateWalletEntry, Adds, Kept, MadeHere, Derivable, Seeds
    <3> QED BY <1>4, <1>6, <3>1, <3>2 DEF CreateWalletEntry
  <2>3. CASE AddFails
    BY <1>4, <1>5, <1>6, <2>3 DEF AddFails
  <2>4. CASE AddLands \/ Unlock
    BY <1>4, <1>5, <1>6, <2>4 DEF AddLands, Unlock, BeginBackupCeremony, ResetWalletState, CloseConnectModal,
         SetConnectMode, LeaveTo, NoWeb3
  <2> QED BY <1>8, <2>1, <2>2, <2>3, <2>4 DEF Modal
<1>9. CASE Web3
  <2>1. CASE OpenWeb3Picker
    BY <1>4, <1>5, <1>6, <2>1 DEF OpenWeb3Picker, SetConnectMode, LeaveTo, NoWeb3
  <2>2. CASE AgreeChanges
    BY <1>4, <1>5, <1>6, <2>2 DEF AgreeChanges
  <2>3. CASE Go \/ NewWallet
    <3>1. UNCHANGED <<adding, web3Entry, web3Address, web3Pending>>
      BY <2>3 DEF Go, NewWallet
    <3>2. Shown
      BY <1>1, <3>1 DEF Shown, StoreInv, Kept
    <3> QED BY <1>4, <1>5, <3>1, <3>2
  <2>4. CASE SaveGo
    <3>1. Adds
      BY <1>1, <2>4 DEF SaveGo, CreateWalletEntry, Adds, StoreInv, Kept, MadeHere, Derivable
    <3> QED BY <1>4, <1>6, <2>4, <3>1 DEF SaveGo, CreateWalletEntry
  <2>5. ASSUME NEW e \in Entry, PickEntry(e)
        PROVE  StoreInv'
    BY <1>1, <1>4, <1>5, <1>6, <2>5 DEF PickEntry, ScreenInv
  <2>6. ASSUME NEW p \in popups, Connected(p)
        PROVE  StoreInv'
    <3>1. CASE p.live
      <4>1. web3Pending = Nil
        BY <1>1, <2>6, <3>1, LiveIsNotLocked DEF Connected, ViewOf, ScreenInv
      <4> QED BY <1>4, <1>5, <1>6, <2>6, <3>1, <4>1 DEF Connected, Connect
    <3>2. CASE ~p.live
      BY <1>4, <1>5, <1>6, <2>6, <3>2 DEF Connected
    <3> QED BY <3>1, <3>2
  <2>7. ASSUME NEW p \in popups, PopupCloses(p) \/ Sign1Answers(p)
        PROVE  StoreInv'
    BY <1>4, <1>5, <1>6, <2>7 DEF PopupCloses, Sign1Answers
  <2>8. UNCHANGED <<adding, web3Entry, web3Address, web3Pending>> => StoreInv'
    BY <1>1, <1>4, <1>5 DEF Shown, StoreInv, Kept
  <2>9. ASSUME NEW p, NEW seed, NEW enabled, ToVerified(seed, p, enabled), UNCHANGED adding
        PROVE  StoreInv'
    BY <1>4, <1>5, <1>6, <2>9 DEF ToVerified, SwitchToWallet, ResetWalletState, CloseConnectModal, LeaveTo, NoWeb3
  <2>10. ASSUME NEW p \in popups, VerifyAnswers(p) \/ SignRefused(p)
         PROVE  StoreInv'
    BY <2>8, <2>9, <2>10 DEF VerifyAnswers, Verify, SignRefused, Refused
  <2>11. ASSUME NEW p \in popups, Sign2Answers(p)
         PROVE  StoreInv'
    <3>1. PICK raw \in Signatures(p) :
            LET sig == SignOnce(KindOf[p.entry], p.address, p.version, raw)
            IN /\ sig # Nil
               /\ IF SameBytes(p.first, sig)
                  THEN Derived(p, PackageDerived(p.entry, p.address, p.first, p.version))
                  ELSE Refused(p)
      BY <2>11 DEF Sign2Answers
    <3> DEFINE sig == SignOnce(KindOf[p.entry], p.address, p.version, raw)
               d == PackageDerived(p.entry, p.address, p.first, p.version)
    <3>2. sig # Nil /\ p.step = "sign2" /\ UNCHANGED adding
      BY <2>11, <3>1 DEF Sign2Answers
    <3>3. Refused(p) \/ (SameBytes(p.first, sig) /\ Derived(p, d))
      BY <3>1
    <3>4. CASE Refused(p)
      BY <2>8, <3>2, <3>4 DEF Refused
    <3>5. CASE SameBytes(p.first, sig) /\ Derived(p, d)
      <4>1. CASE p.live /\ web3Pending' = d /\ UNCHANGED <<web3Entry, web3Address>>
        <5>1. p.live /\ SameBytes(p.first, sig)
          BY <3>5, <4>1
        <5> HIDE DEF sig, d
        <5>2. /\ p.entry = web3Entry /\ d.seed \in Seeds /\ MadeHere(d)
              /\ d.source = [kind |-> KindOf[p.entry], address |-> AccountOf[p.entry],
                             msgVersion |-> chainVersion, fp |-> d.seed]
          BY <3>2, <5>1, TwiceSigned DEF sig, d
        <5>3. Kept(d) /\ d.source.kind = KindOf[web3Entry] /\ d.source.address = AccountOf[web3Entry]
          BY <5>2 DEF Kept
        <5>4. web3Address = AccountOf[web3Entry]
          BY <1>1, <3>2, <4>1, LiveIsNotLocked DEF ScreenInv, ViewOf
        <5>5. Shown
          BY <4>1, <5>3, <5>4 DEF Shown
        <5> QED BY <1>4, <1>5, <3>2, <5>5
      <4> HIDE DEF d
      <4> QED BY <2>8, <2>9, <3>2, <3>5, <4>1 DEF Derived, IsCurrent, Refused
    <3> QED BY <3>3, <3>4, <3>5
  <2> QED BY <1>9, <2>1, <2>2, <2>3, <2>4, <2>5, <2>6, <2>7, <2>10, <2>11 DEF Web3
<1>10. CASE Words
  <2>1. CASE BackupShow \/ QuizVerify \/ VerifyPassword \/ ReauthCancel
    BY <1>4, <1>5, <1>6, <2>1 DEF BackupShow, QuizVerify, VerifyPassword, ReauthCancel
  <2>2. CASE ToQuizAndBack \/ MarkLands
    BY <1>4, <1>5, <1>6, <2>2 DEF ToQuizAndBack, MarkLands, SetConnectMode, LeaveTo, NoWeb3
  <2>3. CASE \E purpose \in {"seed", "backup", "file"} : RequireReauth(purpose)
    BY <1>4, <1>5, <1>6, <2>3 DEF RequireReauth
  <2>4. CASE Verified
    BY <1>4, <1>5, <1>6, <2>4 DEF Verified, Resume, BeginBackupCeremony, SetConnectMode, LeaveTo, NoWeb3
  <2>5. CASE SeedShow \/ CloseNetModal \/ SeedTimer \/ TabHidden
    BY <1>4, <1>5, <1>6, <2>5 DEF SeedShow, CloseNetModal, SeedTimer, TabHidden
  <2> QED BY <1>10, <2>1, <2>2, <2>3, <2>4, <2>5 DEF Words
<1>11. CASE Rest
  <2>1. CASE LockWallet \/ OtherTabSwitches
    BY <1>4, <1>5, <1>6, <2>1 DEF LockWallet, OtherTabSwitches, SwitchToWallet, ResetWalletState,
         CloseConnectModal, LeaveTo, NoWeb3
  <2>2. CASE LoadStatus \/ \E e \in Entry : OtherTabDerives(e) \/ ExtensionChanges(e)
    BY <1>4, <1>5, <1>6, <2>2 DEF LoadStatus, OtherTabDerives, ExtensionChanges
  <2> QED BY <1>11, <2>1, <2>2 DEF Rest
<1> QED BY <1>7, <1>8, <1>9, <1>10, <1>11 DEF Next


LEMMA VerifyStep ==
  ASSUME CeremonyInv, [Next]_vars
  PROVE  \A p \in popups' : p.step = "verify" => IsStored(p)'
<1> USE DEF netVars, vaultVars, web3Vars, modalVars, backupVars, seedVars, promptVars, pageVars,
            ceremonyOnly, wordsOnly
<1> DEFINE Goal == \A p \in popups' : p.step = "verify" => IsStored(p)'
<1>1. Grows /\ \A p \in popups : p.step = "verify" => IsStored(p)
  BY VaultGrows DEF CeremonyInv, AccountInv
<1>2. ASSUME NEW p, IsStored(p)
      PROVE  IsStored(p)'
  <2>1. PICK i \in Of(KindOf[p.entry], p.address) : wallets[i].source.msgVersion = p.version
    BY <1>2 DEF IsStored
  <2>2. i \in Of(KindOf[p.entry], p.address)' /\ wallets'[i] = wallets[i]
    BY <1>1, AccountsGrow
  <2> QED BY <2>1, <2>2 DEF IsStored
<1>3. popups' \subseteq popups => Goal
  BY <1>1, <1>2
<1>4. ASSUME popups' = {Orphaned(p) : p \in popups} PROVE Goal
  <2>1. \A p \in popups : IsStored(p) => IsStored(Orphaned(p))
    BY DEF IsStored, Orphaned, MakePopup
  <2>2. \A p \in popups : Orphaned(p).step = p.step
    BY DEF Orphaned, MakePopup
  <2> QED BY <1>1, <1>2, <1>4, <2>1, <2>2
<1>5. ASSUME NEW q, popups' \subseteq popups \cup {q}, q.step = "verify" => IsStored(q)
      PROVE  Goal
  BY <1>1, <1>2, <1>5
<1> SUFFICES Goal
  OBVIOUS
<1> HIDE DEF Goal
<1>6. CASE UNCHANGED vars
  BY <1>3, <1>6 DEF vars
<1>7. CASE Modal
  <2>1. CASE OpenConnectModal \/ RequestCloseConnectModal \/ ChooseForm
    BY <1>4, <2>1 DEF OpenConnectModal, RequestCloseConnectModal, ChooseForm, CloseConnectModal,
         SetConnectMode, LeaveTo, NoWeb3
  <2>2. CASE SubmitForm \/ AddFails
    BY <1>3, <2>2 DEF SubmitForm, CreateWalletEntry, AddFails
  <2>3. CASE AddLands \/ Unlock
    BY <1>4, <2>3 DEF AddLands, Unlock, BeginBackupCeremony, ResetWalletState, CloseConnectModal,
         SetConnectMode, LeaveTo, NoWeb3
  <2> QED BY <1>7, <2>1, <2>2, <2>3 DEF Modal
<1>8. CASE Web3
  <2>1. CASE OpenWeb3Picker
    BY <1>4, <2>1 DEF OpenWeb3Picker, SetConnectMode, LeaveTo, NoWeb3
  <2>2. CASE AgreeChanges \/ SaveGo \/ NewWallet
    BY <1>3, <2>2 DEF AgreeChanges, SaveGo, CreateWalletEntry, NewWallet
  <2>3. CASE Go
    BY <1>5, <2>3 DEF Go, Ask, MakePopup
  <2>4. ASSUME NEW e \in Entry, PickEntry(e)
        PROVE  Goal
    BY <1>5, <2>4 DEF PickEntry, Ask, MakePopup
  <2>5. ASSUME NEW p \in popups, Connected(p)
        PROVE  Goal
    <3>1. CASE popups' = Others(p)
      BY <1>3, <3>1 DEF Others
    <3>2. ASSUME NEW i \in Of(KindOf[p.entry], AccountOf[p.entry]),
                 popups' = Others(p) \cup {Ask("verify", p.entry, AccountOf[p.entry], VersionOfRecord(wallets[i]))}
          PROVE  Goal
      <4> DEFINE q == Ask("verify", p.entry, AccountOf[p.entry], VersionOfRecord(wallets[i]))
      <4>1. q.entry = p.entry /\ q.address = AccountOf[p.entry] /\ q.version = wallets[i].source.msgVersion
        BY DEF Ask, MakePopup, VersionOfRecord
      <4>2. popups' \subseteq popups \cup {q}
        BY <3>2 DEF Others
      <4> HIDE DEF q
      <4>3. IsStored(q)
        BY <4>1 DEF IsStored
      <4> QED BY <1>5, <4>2, <4>3
    <3> QED BY <2>5, <3>1, <3>2 DEF Connected, Connect
  <2>6. ASSUME NEW p \in popups, PopupCloses(p)
        PROVE  Goal
    BY <1>3, <2>6 DEF PopupCloses, Others
  <2>7. ASSUME NEW p \in popups, Stays(p) \/ Refused(p)
        PROVE  Goal
    BY <1>3, <2>7 DEF Refused, Stays, Others
  <2>8. ASSUME NEW p \in popups, NEW seed, NEW enabled, ToVerified(seed, p, enabled)
        PROVE  Goal
    BY <1>4, <2>7, <2>8 DEF ToVerified, SwitchToWallet, ResetWalletState, CloseConnectModal, LeaveTo, NoWeb3
  <2>9. ASSUME NEW p \in popups, VerifyAnswers(p) \/ Sign2Answers(p) \/ SignRefused(p)
        PROVE  Goal
    BY <2>7, <2>8, <2>9 DEF VerifyAnswers, Verify, Sign2Answers, SignRefused, Derived
  <2>10. ASSUME NEW p \in popups, Sign1Answers(p)
         PROVE  Goal
    <3>1. PICK sig : popups' = Others(p) \cup {MakePopup("sign2", p.entry, p.address, p.version, sig, p.live)}
      BY <2>10 DEF Sign1Answers
    <3>2. MakePopup("sign2", p.entry, p.address, p.version, sig, p.live).step = "sign2"
      BY DEF MakePopup
    <3> QED BY <1>5, <3>1, <3>2 DEF Others
  <2> QED BY <1>8, <2>1, <2>2, <2>3, <2>4, <2>5, <2>6, <2>9, <2>10 DEF Web3
<1>9. CASE Words
  <2>1. CASE BackupShow \/ QuizVerify \/ VerifyPassword \/ ReauthCancel
    BY <1>3, <2>1 DEF BackupShow, QuizVerify, VerifyPassword, ReauthCancel
  <2>2. CASE ToQuizAndBack \/ MarkLands
    BY <1>3, <1>4, <2>2 DEF ToQuizAndBack, MarkLands, SetConnectMode, LeaveTo, NoWeb3
  <2>3. CASE \E purpose \in {"seed", "backup", "file"} : RequireReauth(purpose)
    BY <1>3, <2>3 DEF RequireReauth
  <2>4. CASE Verified
    BY <1>3, <1>4, <2>4 DEF Verified, Resume, BeginBackupCeremony, SetConnectMode, LeaveTo, NoWeb3
  <2>5. CASE SeedShow \/ CloseNetModal \/ SeedTimer \/ TabHidden
    BY <1>3, <2>5 DEF SeedShow, CloseNetModal, SeedTimer, TabHidden
  <2> QED BY <1>9, <2>1, <2>2, <2>3, <2>4, <2>5 DEF Words
<1>10. CASE Rest
  <2>1. CASE LockWallet \/ OtherTabSwitches
    BY <1>4, <2>1 DEF LockWallet, OtherTabSwitches, SwitchToWallet, ResetWalletState, CloseConnectModal,
         LeaveTo, NoWeb3
  <2>2. CASE LoadStatus \/ \E e \in Entry : OtherTabDerives(e) \/ ExtensionChanges(e)
    BY <1>3, <2>2 DEF LoadStatus, OtherTabDerives, ExtensionChanges
  <2> QED BY <1>10, <2>1, <2>2 DEF Rest
<1> QED BY <1>6, <1>7, <1>8, <1>9, <1>10 DEF Next

\* A wallet its extension does not reproduce, it does not reproduce after a change.
LEMMA StaysLost ==
  ASSUME CeremonyInv, Drifts, NEW e \in Entry, NEW w, Derivable(w), w.source.address = AccountOf[e],
         ~Reproduces(e, w.source)
  PROVE  ~Reproduces(e, w.source)'
<1> SUFFICES ASSUME Reproduces(e, w.source)'
             PROVE  FALSE
  OBVIOUS
<1>1. e \in Steady
      /\ [by |-> w.source.address, msg |-> S2dForVersion(w.source.msgVersion), how |-> drift'[e], s |-> 1]
           = w.source.fp
  BY DEF Reproduces
<1>2. PICK f \in Steady : AccountOf[f] = w.source.address /\ w.seed.how \in 0 .. drift[f]
  BY DEF Derivable
<1>3. f = e
  BY <1>1, <1>2, CeremonyConstants
<1>4. w.source.fp.how = drift'[e] /\ w.source.fp.how \in 0 .. drift[e]
  BY <1>1, <1>2, <1>3 DEF Derivable
<1>5. drift'[e] = drift[e]
  BY <1>4 DEF Drifts, CeremonyInv, VaultInv
<1> QED BY <1>1, <1>5 DEF Reproduces

LEMMA AccusationStep ==
  ASSUME CeremonyInv, [Next]_vars
  PROVE  FullIsOfThisChain' /\ NoFalseAccusation'
<1> USE DEF netVars, vaultVars, web3Vars, modalVars, backupVars, seedVars, promptVars, pageVars,
            ceremonyOnly, wordsOnly
<1> DEFINE Goal == FullIsOfThisChain' /\ NoFalseAccusation'
           Same == UNCHANGED <<web3Entry, web3Address, web3Force>>
           Full == {"disclose", "steps"}
<1>1. /\ VaultInv /\ ScreenInv /\ PopupInv /\ StoreInv /\ FullIsOfThisChain /\ NoFalseAccusation
      /\ Drifts /\ Grows /\ chainVersion' = chainVersion
  BY VaultGrows, StaysDerivable DEF CeremonyInv, AccountInv
<1>2. ASSUME view' \notin Full \cup {"mismatch"} PROVE Goal
  BY <1>2 DEF FullIsOfThisChain, NoFalseAccusation
<1>3. ASSUME Same, view \in Full, view' \in Full PROVE Goal
  BY <1>1, <1>3, AccountsGrow DEF FullIsOfThisChain, NoFalseAccusation
<1>4. ASSUME Same, view = "mismatch", view' = "mismatch" PROVE Goal
  <2>1. PICK i \in Of(KindOf[web3Entry], web3Address) : ~Reproduces(web3Entry, wallets[i].source)
    BY <1>1, <1>4 DEF NoFalseAccusation
  <2>2. PICK e, address, w : e = web3Entry /\ address = web3Address /\ w = wallets[i]
    OBVIOUS
  <2>3. i \in Of(KindOf[e], address)' /\ wallets'[i] = w
    BY <1>1, <2>1, <2>2, AccountsGrow
  <2>4. e \in Entry /\ w.source.address = AccountOf[e] /\ Derivable(w)
    BY <1>1, <1>4, <2>1, <2>2 DEF ScreenInv, Of, StoreInv, StoredIsDerivable, ToSet
  <2>5. ~Reproduces(e, w.source)'
    BY <1>1, <2>1, <2>2, <2>4, StaysLost
  <2> QED BY <1>4, <2>2, <2>3, <2>5 DEF NoFalseAccusation, FullIsOfThisChain, Of, Reproduces
<1>5. Same /\ UNCHANGED view => Goal
  BY <1>2, <1>3, <1>4
<1>6. ASSUME NEW p \in popups, p.live
      PROVE  /\ p.entry = web3Entry /\ p.entry \in Entry /\ view = ViewOf(p.step)
             /\ p.step # "connect" => p.address = AccountOf[p.entry] /\ web3Address = AccountOf[p.entry]
  <2>1. p.entry = web3Entry /\ p.entry \in Entry /\ view = ViewOf(p.step) /\ Asks(p)
    BY <1>1, <1>6, LiveIsNotLocked DEF PopupInv
  <2> QED BY <1>1, <2>1 DEF ViewOf, ScreenInv, Asks
<1> SUFFICES Goal
  OBVIOUS
<1> HIDE DEF Goal
<1>7. CASE UNCHANGED vars
  BY <1>5, <1>7 DEF vars
<1>8. CASE Modal
  <2>1. CASE OpenConnectModal \/ RequestCloseConnectModal \/ ChooseForm
    BY <1>2, <2>1 DEF OpenConnectModal, RequestCloseConnectModal, ChooseForm, CloseConnectModal,
         SetConnectMode, LeaveTo, NoWeb3
  <2>2. CASE SubmitForm \/ AddFails
    BY <1>5, <2>2 DEF SubmitForm, CreateWalletEntry, AddFails
  <2>3. CASE AddLands \/ Unlock
    BY <1>2, <2>3 DEF AddLands, Unlock, BeginBackupCeremony, ResetWalletState, CloseConnectModal,
         SetConnectMode, LeaveTo, NoWeb3
  <2> QED BY <1>8, <2>1, <2>2, <2>3 DEF Modal
<1>9. CASE Web3
  <2>1. CASE OpenWeb3Picker
    BY <1>2, <2>1 DEF OpenWeb3Picker, SetConnectMode, LeaveTo, NoWeb3
  <2>2. CASE AgreeChanges \/ SaveGo
    BY <1>5, <2>2 DEF AgreeChanges, SaveGo, CreateWalletEntry
  <2>3. CASE Go
    BY <1>3, <2>3 DEF Go
  <2>4. CASE NewWallet
    <3>1. web3Force' = TRUE /\ view' \in {"save", "disclose"}
      BY <2>4 DEF NewWallet, ArmWeb3Disclosure
    <3> QED BY <3>1 DEF Goal, FullIsOfThisChain, NoFalseAccusation
  <2>5. ASSUME NEW e \in Entry, PickEntry(e)
        PROVE  Goal
    BY <1>2, <2>5 DEF PickEntry
  <2>6. ASSUME NEW p \in popups, Connected(p)
        PROVE  Goal
    <3>1. CASE ~p.live
      BY <1>5, <2>6, <3>1 DEF Connected
    <3>2. CASE p.live /\ view' = "verify"
      BY <1>2, <3>2
    <3>3. CASE p.live /\ ArmWeb3Disclosure
               /\ (status # "unlocked" \/ Of(KindOf[p.entry], AccountOf[p.entry]) = {})
      <4>1. Of(KindOf[p.entry], AccountOf[p.entry]) = {}
        <5>1. CASE status # "unlocked"
          <6>1. wallets = <<>>
            BY <1>1, <3>3, <5>1, LiveIsNotLocked DEF VaultInv
          <6> QED BY <6>1 DEF Of
        <5> QED BY <3>3, <5>1
      <4>2. web3Entry' = p.entry /\ web3Address' = AccountOf[p.entry] /\ view' = "disclose"
        BY <1>6, <2>6, <3>3 DEF Connected, Connect, ArmWeb3Disclosure
      <4> QED BY <1>1, <4>1, <4>2, AccountsGrow DEF Goal, FullIsOfThisChain, NoFalseAccusation
    <3> QED BY <2>6, <3>1, <3>2, <3>3 DEF Connected, Connect
  <2>7. ASSUME NEW p \in popups, PopupCloses(p) \/ Sign1Answers(p)
        PROVE  Goal
    BY <1>5, <2>7 DEF PopupCloses, Sign1Answers
  <2>8. ASSUME NEW p \in popups, p.step \in {"sign1", "sign2"}, Refused(p)
        PROVE  Goal
    <3>1. CASE p.live
      BY <1>3, <1>6, <2>8, <3>1 DEF Refused, Stays, ArmWeb3Disclosure, ViewOf
    <3>2. CASE ~p.live
      BY <1>5, <2>8, <3>2 DEF Refused, Stays
    <3> QED BY <3>1, <3>2
  <2>9. ASSUME NEW p, NEW seed, NEW enabled, ToVerified(seed, p, enabled)
        PROVE  Goal
    BY <1>2, <1>5, <2>9 DEF ToVerified, SwitchToWallet, ResetWalletState, CloseConnectModal, LeaveTo, NoWeb3
  \* No wallet of the account came from this signature, so one of this message did not.
  <2>10. ASSUME NEW p \in popups, p.live, p.step # "connect", NEW i \in Of(KindOf[p.entry], p.address),
                NEW d, FindExact(d.source) = {},
                d.source.kind = KindOf[p.entry], d.source.address = p.address,
                d.source.fp.by = p.address, d.source.fp.s = 1,
                d.source.fp.msg = S2dForVersion(wallets[i].source.msgVersion),
                p.entry \in Steady => d.source.fp.how = drift[p.entry],
                d.source.fp = [by |-> d.source.fp.by, msg |-> d.source.fp.msg, how |-> d.source.fp.how, s |-> d.source.fp.s],
                Stays(p), Same, netVars' = netVars, view' = "mismatch"
         PROVE  Goal
    <3>1. wallets[i].source.fp # d.source.fp /\ wallets[i].source.address = p.address
      BY <2>10 DEF FindExact, Of
    <3>2. ~Reproduces(p.entry, wallets[i].source)
      BY <2>10, <3>1 DEF Reproduces
    <3>3. /\ wallets' = wallets /\ drift' = drift
          /\ web3Entry' = p.entry /\ web3Address' = p.address
      BY <1>6, <2>10 DEF Stays
    <3> QED BY <2>10, <3>2, <3>3 DEF Goal, FullIsOfThisChain, NoFalseAccusation, Of, Reproduces
  <2>11. ASSUME NEW p \in popups, VerifyAnswers(p)
         PROVE  Goal
    <3>1. PICK raw \in Signatures(p) : Verify(p, raw)
      BY <2>11 DEF VerifyAnswers
    <3> DEFINE version == S2dForVersion(p.version)
               sig == SignOnce(KindOf[p.entry], p.address, version, raw)
               d == DeriveOnce(p.entry, p.address, p.version, raw)
    <3>2. /\ p.step = "verify" /\ netVars' = netVars
          /\ d # Nil /\ p.live
          /\ \/ \E i \in FindExact(d.source) : ToVerified(wallets[i].seed, p, FALSE)
             \/ FindExact(d.source) = {} /\ Stays(p) /\ view' = "mismatch" /\ Same
      BY <2>11, <3>1 DEF VerifyAnswers, Verify
    <3>3. sig # Nil /\ d = PackageDerived(p.entry, p.address, sig, version)
      BY <3>2 DEF DeriveOnce
    <3>4. p.entry \in Entry
      BY <1>6, <3>2
    <3>5. /\ sig.by = p.address /\ sig.msg = version /\ sig.s = 1
          /\ p.entry \in Steady => sig.how = drift[p.entry]
      BY <3>3, <3>4, Signed
    <3>6. d.source.kind = KindOf[p.entry] /\ d.source.address = p.address
          /\ d.source.fp = [by |-> sig.by, msg |-> sig.msg, how |-> sig.how, s |-> sig.s]
      BY <3>3 DEF PackageDerived, Entropy
    <3>7. PICK i \in Of(KindOf[p.entry], p.address) : wallets[i].source.msgVersion = p.version
      BY <3>2 DEF CeremonyInv, AccountInv, IsStored
    <3> HIDE DEF sig, d
    <3>8. CASE FindExact(d.source) = {} /\ Stays(p) /\ view' = "mismatch" /\ Same
      BY <2>10, <3>2, <3>5, <3>6, <3>7, <3>8
    <3> QED BY <2>9, <3>2, <3>8
  <2>12. ASSUME NEW p \in popups, Sign2Answers(p)
         PROVE  Goal
    <3>1. PICK raw \in Signatures(p) :
            LET sig == SignOnce(KindOf[p.entry], p.address, p.version, raw)
            IN /\ sig # Nil
               /\ IF SameBytes(p.first, sig)
                  THEN Derived(p, PackageDerived(p.entry, p.address, p.first, p.version))
                  ELSE Refused(p)
      BY <2>12 DEF Sign2Answers
    <3> DEFINE sig == SignOnce(KindOf[p.entry], p.address, p.version, raw)
               d == PackageDerived(p.entry, p.address, p.first, p.version)
    <3>2. sig # Nil /\ p.step = "sign2" /\ netVars' = netVars
          /\ (Refused(p) \/ (SameBytes(p.first, sig) /\ Derived(p, d)))
      BY <2>12, <3>1 DEF Sign2Answers
    <3> HIDE DEF sig, d
    <3>3. CASE Refused(p) \/ \E i \in FindExact(d.source) : ToVerified(wallets[i].seed, p, TRUE)
      BY <2>8, <2>9, <3>2, <3>3
    <3>4. CASE view' = "save"
      BY <1>2, <3>4
    <3>5. CASE /\ SameBytes(p.first, sig) /\ p.live /\ ~web3Force /\ FindExact(d.source) = {}
               /\ Of(d.source.kind, d.source.address) # {}
               /\ Stays(p) /\ Same /\ view' = "mismatch"
      <4>1. /\ p.entry \in Steady
            /\ d.seed = [by |-> AccountOf[p.entry], msg |-> chainVersion, how |-> drift[p.entry], s |-> 1]
            /\ d.source = [kind |-> KindOf[p.entry], address |-> AccountOf[p.entry],
                           msgVersion |-> chainVersion, fp |-> d.seed]
        BY <3>2, <3>5, TwiceSigned DEF sig, d
      <4>2. /\ p.address = AccountOf[p.entry] /\ p.entry = web3Entry /\ p.address = web3Address
            /\ view = "steps"
        BY <1>6, <3>2, <3>5 DEF ViewOf
      <4>3. PICK i \in Of(KindOf[p.entry], p.address) : TRUE
        BY <3>5, <4>1, <4>2
      <4>4. S2dForVersion(wallets[i].source.msgVersion) = chainVersion
        BY <1>1, <3>5, <4>2, <4>3, VersionIsItsOwn DEF FullIsOfThisChain
      <4>5. /\ d.source.kind = KindOf[p.entry] /\ d.source.address = p.address
            /\ d.source.fp = [by |-> p.address, msg |-> chainVersion, how |-> drift[p.entry], s |-> 1]
        BY <4>1, <4>2
      <4> QED BY <2>10, <3>2, <3>5, <4>3, <4>4, <4>5
    <3> QED BY <3>2, <3>3, <3>4, <3>5 DEF Derived, IsCurrent
  <2>13. ASSUME NEW p \in popups, SignRefused(p)
         PROVE  Goal
    BY <2>8, <2>13 DEF SignRefused
  <2> QED BY <1>9, <2>1, <2>2, <2>3, <2>4, <2>5, <2>6, <2>7, <2>11, <2>12, <2>13 DEF Web3
<1>10. CASE Words
  <2>1. CASE BackupShow \/ QuizVerify \/ VerifyPassword \/ ReauthCancel
    BY <1>5, <2>1 DEF BackupShow, QuizVerify, VerifyPassword, ReauthCancel
  <2>2. CASE ToQuizAndBack \/ MarkLands
    BY <1>2, <1>5, <2>2 DEF ToQuizAndBack, MarkLands, SetConnectMode, LeaveTo, NoWeb3
  <2>3. CASE \E purpose \in {"seed", "backup", "file"} : RequireReauth(purpose)
    BY <1>5, <2>3 DEF RequireReauth
  <2>4. CASE Verified
    BY <1>2, <1>5, <2>4 DEF Verified, Resume, BeginBackupCeremony, SetConnectMode, LeaveTo, NoWeb3
  <2>5. CASE SeedShow \/ CloseNetModal \/ SeedTimer \/ TabHidden
    BY <1>5, <2>5 DEF SeedShow, CloseNetModal, SeedTimer, TabHidden
  <2> QED BY <1>10, <2>1, <2>2, <2>3, <2>4, <2>5 DEF Words
<1>11. CASE Rest
  <2>1. CASE LockWallet \/ OtherTabSwitches
    BY <1>2, <2>1 DEF LockWallet, OtherTabSwitches, SwitchToWallet, ResetWalletState, CloseConnectModal,
         LeaveTo, NoWeb3
  <2>2. CASE LoadStatus \/ \E e \in Entry : OtherTabDerives(e) \/ ExtensionChanges(e)
    BY <1>5, <2>2 DEF LoadStatus, OtherTabDerives, ExtensionChanges
  <2> QED BY <1>11, <2>1, <2>2 DEF Rest
<1> QED BY <1>7, <1>8, <1>9, <1>10, <1>11 DEF Next


LEMMA CeremonyInit == Init => CeremonyInv
<1> SUFFICES ASSUME Init
             PROVE  CeremonyInv
  OBVIOUS
<1>1. PICK start \in Starts : node = start[1] /\ wallets = start[2]
  BY DEF Init
<1>2. \A i \in DOMAIN wallets : wallets[i] \in ToSet(start[2])
  BY <1>1 DEF ToSet
<1>3. VaultInv
  <2>1. wallets # <<>> => Head(wallets).seed \in Seeds
    <3> SUFFICES ASSUME wallets # <<>>
                 PROVE  Head(wallets).seed \in Seeds
      OBVIOUS
    <3>1. wallets \in Seq(ToSet(wallets)) /\ wallets # <<>>
      BY <1>1, StartsAreSound
    <3>2. Head(wallets) \in ToSet(wallets)
      BY <3>1
    <3> QED BY <1>1, <3>2, StartsAreSound
  <2> QED BY <1>1, <1>2, <2>1, StartsAreSound DEF Init, VaultInv
<1>4. ModalInv /\ WordsAreOfTheOpenWallet /\ ScreenInv /\ PopupInv
  BY DEF Init, ModalInv, WordsAreOfTheOpenWallet, ScreenInv, PopupInv
<1>5. AccountInv
  BY DEF Init, AccountInv, FullIsOfThisChain, NoFalseAccusation
<1>6. StoreInv
  <2>1. ASSUME NEW w \in ToSet(wallets), w.source # Nil
        PROVE  Derivable(w) /\ ~BornHere(w)
    <3>1. w \in ToSet(start[2])
      BY <1>1, <2>1
    <3>2. /\ w.source.fp = w.seed /\ w.seed.by = w.source.address
          /\ w.seed.msg = S2dForVersion(w.source.msgVersion) /\ w.seed.how = 0
      BY <2>1, <3>1, StartsAreSound
    <3>3. PICK e \in Steady : AccountOf[e] = w.source.address
      BY <2>1, <3>1, StartsAreSound
    <3>4. w.seed.how \in 0 .. drift[e]
      BY <3>2, <3>3, CeremonyConstants DEF Init
    <3> QED BY <3>1, <3>2, <3>3, <3>4 DEF Derivable, BornHere
  <2> QED BY <2>1 DEF Init, StoreInv, StoredIsDerivable
<1> QED BY <1>3, <1>4, <1>5, <1>6 DEF CeremonyInv

LEMMA CeremonyStep == CeremonyInv /\ [Next]_vars => CeremonyInv'
BY VaultStep, ModalStep, ScreenStep, PopupStep, StoreStep, VerifyStep, AccusationStep
   DEF CeremonyInv, AccountInv

LEMMA CeremonyInductive == Spec => []CeremonyInv
BY CeremonyInit, CeremonyStep, PTL DEF Spec

-----------------------------------------------------------------------------
(* Theorems *)

\* Words are on screen, or held for it, only of the wallet on display, and only while
\* the vault is unlocked (app.js:1321-1348, 2024-2039, 2237-2273).
THEOREM WordsStayWithTheirWallet == Spec => []WordsAreOfTheOpenWallet
BY CeremonyInductive, PTL DEF CeremonyInv

\* A derived seed is held only by the ceremony on screen, of the extension and the
\* account shown there (app.js:1682-1720): no late popup fills another's.
THEOREM PendingStaysOnScreen == Spec => []PendingIsOnScreen
<1>1. CeremonyInv => PendingIsOnScreen
  BY DEF CeremonyInv, ScreenInv, StoreInv, PendingIsOnScreen
<1> QED BY <1>1, CeremonyInductive, PTL

\* What is saved with a source was derived from the message its record names, by an
\* extension that signs deterministically, and here from the message of the node's
\* network (app.js:1546-1560, connect.js:351-370).
THEOREM StoredCanBeDerived == Spec => []StoredIsDerivable
<1>1. CeremonyInv => StoredIsDerivable
  BY DEF CeremonyInv, StoreInv
<1> QED BY <1>1, CeremonyInductive, PTL

\* An extension is told that it no longer makes the signature of a stored wallet only
\* when it does not (app.js:1620-1671).
THEOREM AccusedHasChanged == Spec => []NoFalseAccusation
<1>1. CeremonyInv => NoFalseAccusation
  BY DEF CeremonyInv, AccountInv
<1> QED BY <1>1, CeremonyInductive, PTL

\* The user is asked for a signature only of the message whose host the disclosure showed
\* (app.js:1533-1544), whichever earlier popups, reconnects and locks came between.  The
\* code reads the chain again when the button is clicked (app.js:1681), and the two agree
\* because the picker opens only once the chain is known and the node serves one chain
\* while the page is open: a node that changes chains in between is not covered.
DisclosureIsOfTheMessage ==
  \A p \in popups : p.live /\ p.step \in {"sign1", "sign2"} => host = S2dOriginHost(p.version)
THEOREM DisclosedIsAsked == Spec => []DisclosureIsOfTheMessage
<1>1. CeremonyInv => DisclosureIsOfTheMessage
  <2> SUFFICES ASSUME CeremonyInv, NEW p \in popups, p.live, p.step \in {"sign1", "sign2"}
               PROVE  host = S2dOriginHost(p.version)
    BY DEF DisclosureIsOfTheMessage
  <2>1. view = "steps"
    BY LiveIsNotLocked DEF ViewOf
  <2> QED BY <2>1 DEF CeremonyInv, ScreenInv, PopupInv, Asks
<1> QED BY <1>1, CeremonyInductive, PTL

\* On mainnet the ceremony of a wallet just created ends with the quiz, a lock or a
\* switch: nobody closes it (netchrome.js:22-31, app.js:849-876).
LEMMA NotSkippedStep ==
  ASSUME CeremonyInv, [Next]_vars, node = "main", ceremony # Nil, ceremony.mandatory,
         connectMode \in {"backup", "quiz"}, ceremony' = Nil
  PROVE  opened' # ceremony.id
<1> USE DEF netVars, vaultVars, web3Vars, modalVars, backupVars, seedVars, promptVars, pageVars,
            ceremonyOnly, wordsOnly
<1>1. /\ adding = Nil /\ sheet /\ status = "unlocked" /\ ceremony.id = opened
      /\ ~(prompt # Nil /\ prompt = "backup") /\ view = "none"
  BY DEF CeremonyInv, ModalInv, WordsAreOfTheOpenWallet, ScreenInv, VaultInv
<1>2. UNCHANGED ceremony => FALSE
  OBVIOUS
<1>3. CASE UNCHANGED vars
  BY <1>2, <1>3 DEF vars
<1>4. CASE Modal
  <2>1. CASE OpenConnectModal \/ AddLands \/ AddFails \/ Unlock
    BY <1>1, <2>1 DEF OpenConnectModal, AddLands, AddFails, Unlock
  <2>2. CASE RequestCloseConnectModal
    <3>1. Sealed
      BY CeremonyNil DEF Sealed, BackupSkipAllowed, gateChain
    <3> QED BY <2>2, <3>1 DEF RequestCloseConnectModal
  <2>3. CASE ChooseForm \/ SubmitForm
    BY <1>2, <2>3 DEF ChooseForm, SubmitForm, CreateWalletEntry
  <2> QED BY <1>4, <2>1, <2>2, <2>3 DEF Modal
<1>5. CASE Web3
  <2>1. CASE OpenWeb3Picker \/ AgreeChanges \/ Go \/ NewWallet \/ SaveGo
    BY <1>2, <2>1 DEF OpenWeb3Picker, AgreeChanges, Go, NewWallet, SaveGo, CreateWalletEntry
  <2>2. ASSUME NEW e \in Entry, PickEntry(e)
        PROVE  FALSE
    BY <1>2, <2>2 DEF PickEntry
  <2>3. ASSUME NEW p \in popups
        PROVE  ~p.live
    BY <1>1, <2>3, LiveIsNotLocked
  <2>4. ASSUME NEW p \in popups, Connected(p) \/ PopupCloses(p) \/ Sign1Answers(p) \/ SignRefused(p)
        PROVE  FALSE
    BY <1>2, <2>4 DEF Connected, PopupCloses, Sign1Answers, SignRefused, Refused, Stays
  <2>5. ASSUME NEW p \in popups, VerifyAnswers(p) \/ Sign2Answers(p)
        PROVE  FALSE
    BY <1>2, <2>3, <2>5 DEF VerifyAnswers, Verify, Sign2Answers, Derived, IsCurrent, Refused, Stays
  <2> QED BY <1>5, <2>1, <2>2, <2>4, <2>5 DEF Web3
<1>6. CASE Words
  <2>1. CASE BackupShow \/ ToQuizAndBack \/ QuizVerify \/ MarkLands \/ VerifyPassword \/ ReauthCancel
    BY <1>2, <2>1 DEF BackupShow, ToQuizAndBack, QuizVerify, MarkLands, VerifyPassword, ReauthCancel
  <2>2. CASE \E purpose \in {"seed", "backup", "file"} : RequireReauth(purpose)
    BY <1>2, <2>2 DEF RequireReauth
  <2>3. CASE Verified
    BY <1>1, <1>2, <2>3 DEF Verified, Resume
  <2>4. CASE SeedShow \/ CloseNetModal \/ SeedTimer \/ TabHidden
    BY <1>2, <2>4 DEF SeedShow, CloseNetModal, SeedTimer, TabHidden
  <2> QED BY <1>6, <2>1, <2>2, <2>3, <2>4 DEF Words
<1>7. CASE Rest
  <2>1. CASE LockWallet
    BY <1>1, <2>1 DEF LockWallet
  <2>2. CASE OtherTabSwitches
    BY <1>1, <2>2 DEF OtherTabSwitches, SwitchToWallet
  <2>3. CASE LoadStatus \/ \E e \in Entry : OtherTabDerives(e) \/ ExtensionChanges(e)
    BY <1>2, <2>3 DEF LoadStatus, OtherTabDerives, ExtensionChanges
  <2> QED BY <1>7, <2>1, <2>2, <2>3 DEF Rest
<1> QED BY <1>3, <1>4, <1>5, <1>6, <1>7 DEF Next

THEOREM NewWalletIsBackedUp == Spec => MainnetIsNotSkipped
<1> DEFINE A == node = "main" /\ ceremony # Nil /\ ceremony.mandatory /\ connectMode \in {"backup", "quiz"}
                /\ ceremony' = Nil => opened' # ceremony.id
<1>1. CeremonyInv /\ [Next]_vars => A
  BY NotSkippedStep
<1>2. CeremonyInv /\ [Next]_vars => [A]_vars
  BY <1>1
<1>3. Spec => [][A]_vars
  <2> HIDE DEF A
  <2> QED BY <1>2, CeremonyInductive, PTL DEF Spec
<1> QED BY <1>3 DEF MainnetIsNotSkipped

=============================================================================
