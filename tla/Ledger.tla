------------------------------- MODULE Ledger -------------------------------
(***************************************************************************)
(* The payments of the wallet page, apps/wallet/public/app.js, from review *)
(* to signature, over the transactions of TxBuild, the addresses of        *)
(* Address, and a chain read back the way apps/indexer/server.js does.     *)
(*                                                                         *)
(* A review looks coins up, plans, and leaves a draft with the keys of its *)
(* coins; the user confirms or cancels it.  Locks and switches of wallet   *)
(* fall between any two of these steps, blocks and spends by the user's    *)
(* other devices as well.                                                  *)
(*                                                                         *)
(* Abstractions: one payment is reviewed at a time; the indexer answers    *)
(* from the chain as it is; what becomes of a lost answer is Broadcast's.  *)
(* A wallet watches a fixed sequence of keys, the last one being its       *)
(* receive address.                                                        *)
(***************************************************************************)
EXTENDS TxBuild, Address, FiniteSets

CONSTANTS
  Wallet, KeysOf,  \* [Wallet -> Seq(keys)]
  Genesis,         \* the outputs the chain starts with
  Minted,          \* a mint that is already on it: [utxo, cents, tier, price, bps]
  NetName,         \* the node's network
  Recipients,      \* what users enter as a DGB recipient: address records
  DdRecipients,    \* and as a DigiDollar recipient
  SendAmounts, TransferAmounts,
  Mints,           \* the <<cents, tier>> users ask for
  Quotes,          \* the <<price, multiplier>> the node may quote
  FlowFee,         \* MINT_FEE_SATS, TRANSFER_FEE_SATS, REDEEM_FEE_SATS
  MinMint, MaxMint,\* DD_TX_LIMITS
  BetaCap,         \* mainnet's cap per transaction, in cents
  MaxTxs, MaxTip, MaxElsewhere, \* bounds: transactions, blocks, spends of other devices
  Nil

ASSUME LedgerConstants ==
  /\ \A n \in {FlowFee, MinMint, MaxMint, BetaCap, MaxTxs, MaxTip, MaxElsewhere} : n \in Nat
  /\ FlowFee >= MinFee /\ MinMint > 0
  /\ SendAmounts \subseteq Nat \ {0} /\ TransferAmounts \subseteq Nat
  /\ Nil \notin SendAmounts

\* The chain starts with plain payments of standard forms.
StandardForms == {"p2tr", "p2wpkh", "p2wsh", "p2pkh", "p2sh"}
ASSUME GenesisIsPlain ==
  /\ Genesis \in Seq(ToSet(Genesis))
  /\ \A n \in DOMAIN Genesis :
       /\ Genesis[n].value \in Nat /\ Genesis[n].script.kind \in StandardForms
       /\ Genesis[n].script = [kind |-> Genesis[n].script.kind, key |-> Genesis[n].script.key]

\* No quote is so high that the collateral of a mint would be dust.
Collateralised(cents, tier, price, bps) ==
  /\ cents \in Nat \ {0} /\ tier \in DOMAIN LockTiers
  /\ price \in Nat \ {0} /\ bps \in Nat \ {0}
  /\ RequiredCollateral(cents, tier, price, bps) >= Fold
ASSUME MintsAreBacked ==
  \A m \in Mints, q \in Quotes : m[1] >= MinMint => Collateralised(m[1], m[2], q[1], q[2])

\* The first mint spent a coin of the chain's start, as the wallet would have.
ASSUME MintedIsMint ==
  /\ Minted.utxo.at \in {1} \X DOMAIN Genesis
  /\ Minted.utxo.value = Genesis[Minted.utxo.at[2]].value
  /\ Minted.utxo.key \in UNION {ToSet(KeysOf[w]) : w \in Wallet}
  /\ Collateralised(Minted.cents, Minted.tier, Minted.price, Minted.bps)
  /\ CanMint(Minted.utxo, Minted.cents, Minted.tier, Minted.price, Minted.bps, FlowFee)

VARIABLES
  chain,      \* transactions the network took: [type, in (outpoints), out]
  confirmed,  \* how many of them are in blocks
  tip,
  open,       \* the wallet on screen, or Nil
  armed,      \* sendMaxArmed
  task,       \* the review in flight
  draft,      \* the pending draft shown for confirmation
  faulted,    \* history: the network refused a transaction whose coins were there
  meant       \* history: DigiDollar cents each key should hold

chainVars == <<chain, confirmed, tip>>
vars == <<chainVars, open, armed, task, draft, faulted, meant>>

PayableDd == {a \in DdRecipients : NetName \in DecodeDdAddress(a).networks}
Keys ==
  (UNION {ToSet(KeysOf[w]) : w \in Wallet}) \cup {DecodeDdAddress(a).key : a \in PayableDd}
Idle == [kind |-> "idle"]

-----------------------------------------------------------------------------
(* The chain, and what the indexer reads from it *)

Outpoints == UNION {{t} \X DOMAIN chain[t].out : t \in DOMAIN chain}
At(o) == chain[o[1]].out[o[2]]
Spent == UNION {ToSet(chain[t].in) : t \in DOMAIN chain}
Unspent == Outpoints \ Spent
Mined(o) == o[1] <= confirmed

\* listunspent on a key's two addresses.
UtxosOf(ks) ==
  {[at |-> o, value |-> At(o).value, type |-> At(o).script.kind, key |-> At(o).script.key] :
     o \in {p \in Unspent : At(p).script.kind \in {"p2tr", "p2wpkh"}
                            /\ At(p).script.key \in ks}}
SpendableUtxos(w) == UtxosOf(ToSet(KeysOf[w]))
DrainAll(w) == {u \in SpendableUtxos(w) : Mined(u.at)}

\* What Max and a consolidation drain.
Drainable(w) == {u \in SpendableUtxos(w) : Mined(u.at) /\ u.value > 0}

\* The cents of a zero-value output are in the transaction that made it.
IsToken(o) == o[2] \in DOMAIN DdAmountsByVout(chain[o[1]])
CentsAt(o) == DdAmountsByVout(chain[o[1]])[o[2]]
DdUtxosOf(ks) ==
  {[at |-> u.at, key |-> u.key, cents |-> CentsAt(u.at)] :
     u \in {v \in UtxosOf(ks) : v.value = 0 /\ IsToken(v.at)}}

\* A mint of this key whose collateral is unspent.
IsMintOf(t, ks) ==
  chain[t].type = "mint" /\ chain[t].out[Min(OpReturns(chain[t]))].script.pushes[4] \in ks
EverMinted(t) == TRUE
CollateralUnspent(t) == <<t, 1>> \in Unspent
PositionsOf(ks) ==
  {[at |-> <<t, 1>>, value |-> chain[t].out[1].value,
    cents |-> chain[t].out[3].script.pushes[1], lock |-> chain[t].out[3].script.pushes[2],
    key |-> chain[t].out[3].script.pushes[4]] :
     t \in {u \in DOMAIN chain : IsMintOf(u, ks) /\ CollateralUnspent(u)}}

-----------------------------------------------------------------------------
(* The network: what the source says consensus and relay require *)

Actual(t) ==
  [t EXCEPT !.in = [i \in DOMAIN t.in |->
     In(t.in[i].at, At(t.in[i].at).value, At(t.in[i].at).script, t.in[i].sequence)]]

SignedFor(tx, i) ==
  LET t == Actual(tx.body)
      s == t.in[i].script
      sig == tx.sigs[i]
  IN  /\ sig.key = s.key
      /\ s.kind = "p2tr" =>
           sig.alg = "schnorr" /\ sig.tweaked /\ sig.msg = TaprootSighash(t, i, NoLeaf)
      /\ s.kind = "p2wpkh" => sig.alg = "ecdsa" /\ sig.msg = Bip143Sighash(t, i)
      /\ s.kind = "collateral" =>
           /\ sig.msg = TaprootSighash(t, i, <<s.lock, s.cents>>) /\ ~sig.tweaked
           /\ t.locktime >= s.lock /\ t.in[i].sequence # "final"

FeeOf(t) == TotalValue(Actual(t).in) - TotalValue(t.out)
ActualWeight(t) ==
  TxOverheadWu + InputCountExtraWu(Len(t.in))
    + SumFunction([i \in DOMAIN t.in |-> InputWeight(At(t.in[i].at).script.kind)])
    + SumFunction([i \in DOMAIN t.out |-> OutputWeight(t.out[i].script)])
\* Change below the fold unit is dust; so is a worthless output that is not data or a
\* token.  What a plain spend pays its recipient is as much as the user asked for.
NoDust(t) ==
  \A n \in DOMAIN t.out : t.out[n].value < Fold =>
    \/ t.type = "dgb" /\ n = 1
    \/ t.type # "dgb" /\ t.out[n].value = 0 /\ t.out[n].script.kind \in {"p2tr", "return"}

DdIn(t) ==
  SumFunction([i \in DOMAIN t.in |-> IF IsToken(t.in[i].at) THEN CentsAt(t.in[i].at) ELSE 0])
DdOut(t) == SumFunction(DdAmountsByVout(t))

ValidMint(t) ==
  LET shaped == {i \in DOMAIN t.out : t.out[i].value > 0
                                      /\ t.out[i].script.kind \in {"collateral", "p2tr"}}
      meta == AmountsOf(t)
  IN  /\ shaped = {1} /\ Cardinality(DdVouts(t)) = 1
      /\ t.out[1].script.cents = meta[1] /\ MinMint <= meta[1] /\ meta[1] <= MaxMint
      /\ t.out[1].script.lock > tip + LockTiers[t.out[3].script.pushes[3]].lockBlocks
ValidTransfer(t) ==
  /\ DdIn(t) = DdOut(t) /\ Len(AmountsOf(t)) = Cardinality(DdVouts(t))
  /\ \A i \in DOMAIN AmountsOf(t) : AmountsOf(t)[i] >= MinOutput
ValidRedeem(t) ==
  /\ DdIn(t) - DdOut(t) = At(t.in[1].at).script.cents
  /\ Cardinality(DdVouts(t)) <= 1 /\ t.locktime <= tip
  /\ \E o \in ToSet(t.out) : o.value > 0

Valid(tx) ==
  LET t == tx.body
  IN  /\ \A i \in DOMAIN t.in : SignedFor(tx, i)
      /\ NoDust(t)
      /\ FeeOf(t) >= IF t.type = "dgb" THEN FeeFor(ActualWeight(t)) ELSE MinFee
      /\ t.type = "mint" => ValidMint(t)
      /\ t.type = "transfer" => ValidTransfer(t)
      /\ t.type = "redeem" => ValidRedeem(t)

InputsUnspent(t) == \A i \in DOMAIN t.in : t.in[i].at \in Unspent
OnChain(t) ==
  [type |-> t.type, in |-> [i \in DOMAIN t.in |-> t.in[i].at], out |-> t.out]

\* What the user meant, if the network takes the transaction.
Submit(tx, intent) ==
  /\ \/ /\ ~InputsUnspent(tx.body)
        /\ UNCHANGED <<chain, meant, draft, faulted>>
     \/ /\ InputsUnspent(tx.body) /\ Valid(tx)
        /\ chain' = Append(chain, OnChain(tx.body))
        /\ meant' = intent /\ draft' = Nil
        /\ UNCHANGED faulted
     \/ /\ InputsUnspent(tx.body) /\ ~Valid(tx)
        /\ faulted' = TRUE
        /\ UNCHANGED <<chain, meant, draft>>
  /\ UNCHANGED <<confirmed, tip>>

-----------------------------------------------------------------------------
(* Reviews *)

Start(t) == task = Idle /\ open # Nil /\ draft = Nil /\ task' = t
Continue(t) == task' = t
Plan(d) == task' = Idle /\ draft' = d
Fail == task # Idle /\ task' = Idle
ReceiveKey(w) == KeysOf[w][Len(KeysOf[w])]

BetaAllows(cents) == NetName = "mainnet" => cents <= BetaCap

AnyType == {"p2wpkh", "p2wsh", "p2tr", "p2pkh", "p2sh", "witness"}
PayableAddressTypes == {"p2wpkh", "p2wsh", "p2tr", "p2pkh", "p2sh"}
MayPay(a) ==
  /\ NetName \in DecodeAddress(a).networks
  /\ DecodeAddress(a).type \in PayableAddressTypes

MaxClicked == Start([kind |-> "max", of |-> open])
MaxPlanned ==
  /\ task.kind = "max"
  /\ PlanMaxSpend(Drainable(task.of), P2tr(Nil)) # {}
  /\ Continue(Idle)
  /\ armed' = TRUE
  /\ UNCHANGED draft

SendReview(a, amount) ==
  /\ MayPay(a)
  /\ Start([kind |-> "send", of |-> open, recipient |-> DecodeAddress(a).script,
            amount |-> IF armed THEN Nil ELSE amount])
\* The coins are those of the wallet the review began on.
SendPlans ==
  IF task.amount = Nil THEN PlanMaxSpend(Drainable(task.of), task.recipient)
  ELSE PlanSpend(SpendableUtxos(task.of), task.amount, task.recipient)
SendPlanned ==
  task.kind = "send" /\ \E plan \in SendPlans :
    Plan([kind |-> "send", of |-> task.of, plan |-> plan, recipient |-> task.recipient])

ConsolidateOpened == Start([kind |-> "consolidate", of |-> open])
ConsolidatePlanned ==
  /\ task.kind = "consolidate"
  /\ Cardinality(Drainable(task.of)) > 1
  /\ \E plan \in PlanMaxSpend(Drainable(task.of), P2tr(ReceiveKey(task.of))) :
       Plan([kind |-> "consolidate", of |-> task.of, plan |-> plan,
                            recipient |-> P2tr(ReceiveKey(task.of))])

\* The node is asked first; the coins are those of the wallet open by then.
MintReview(cents, tier) ==
  /\ MinMint <= cents /\ cents <= MaxMint /\ BetaAllows(cents)
  /\ Start([kind |-> "quote", cents |-> cents, tier |-> tier])
MintQuoted(price, bps) ==
  /\ task.kind = "quote"
  /\ open # Nil
  /\ Continue([kind |-> "mint", of |-> open, cents |-> task.cents, tier |-> task.tier,
                        price |-> price, bps |-> bps])
MintPlanned ==
  LET need == RequiredCollateral(task.cents, task.tier, task.price, task.bps) + FlowFee
  IN  task.kind = "mint" /\ \E u \in PickDgbCoin(SpendableUtxos(task.of), need, Nil) :
        Plan([kind |-> "mint", of |-> task.of, cents |-> task.cents, tier |-> task.tier,
              price |-> task.price, bps |-> task.bps, utxo |-> u])

LeavesLegalChange(d, cents) == d.cents = cents \/ d.cents - cents >= MinOutput
TransferReview(a, cents) ==
  /\ NetName \in DecodeDdAddress(a).networks
  /\ cents >= MinOutput /\ BetaAllows(cents)
  /\ Start([kind |-> "pickDd", of |-> open, to |-> DecodeDdAddress(a).key, cents |-> cents])
\* Then the fee coin, from the wallet open by then.
TransferPicked ==
  LET covering == {d \in DdUtxosOf(ToSet(KeysOf[task.of])) :
                     d.cents >= task.cents /\ LeavesLegalChange(d, task.cents)}
  IN  /\ task.kind = "pickDd" /\ open # Nil
      /\ \E d \in {e \in covering : \A f \in covering : e.cents <= f.cents} :
           Continue([kind |-> "transfer", of |-> open, dd |-> d, to |-> task.to,
                               cents |-> task.cents])
TransferPlanned ==
  task.kind = "transfer" /\ \E u \in PickDgbCoin(SpendableUtxos(task.of), FlowFee, task.dd.key) :
    Plan([kind |-> "transfer", of |-> task.of, dd |-> task.dd, to |-> task.to,
          cents |-> task.cents, feeUtxo |-> u])

\* Largest first, until they cover the position.
BurnSets(dds, need) ==
  UNION {Shortest({s \in Prefixes(o) : TotalCents(s) >= need}) :
           o \in LargestFirst([d \in dds |-> d.cents], dds)}
\* Offered once the tip has reached the lock.
RedeemReview(p) ==
  /\ p.lock <= tip /\ BetaAllows(p.cents)
  /\ Start([kind |-> "burn", of |-> open, position |-> p])
RedeemPicked ==
  task.kind = "burn" /\ \E burn \in BurnSets(DdUtxosOf({task.position.key}), task.position.cents) :
    /\ open # Nil
    /\ Continue([kind |-> "redeem", of |-> open, position |-> task.position,
                         burn |-> burn])
RedeemPlanned ==
  task.kind = "redeem" /\ \E u \in PickDgbCoin(SpendableUtxos(task.of), FlowFee, task.burn[1].key) :
    Plan([kind |-> "redeem", of |-> task.of, position |-> task.position, burn |-> task.burn,
          feeUtxo |-> u])

-----------------------------------------------------------------------------
(* Confirmations *)

Confirmed(kind) == task = Idle /\ open # Nil /\ draft # Nil /\ draft.kind = kind

SendGo ==
  /\ Confirmed("send")
  /\ Submit(SpendTx(draft.plan, draft.recipient, P2tr(ReceiveKey(open))), meant)
  /\ armed' = FALSE
  /\ UNCHANGED task

ConsolidateGo ==
  /\ Confirmed("consolidate")
  /\ Submit(SpendTx(draft.plan, draft.recipient, draft.recipient), meant)
  /\ UNCHANGED <<armed, task>>

TransferGo ==
  LET recipients == <<[key |-> draft.to, cents |-> draft.cents]>>
      left == [meant EXCEPT ![draft.dd.key] = @ - draft.cents]
  IN  /\ Confirmed("transfer")
      /\ CanTransfer(draft.dd, draft.feeUtxo, recipients, FlowFee)
      /\ Submit(TransferTx(draft.dd, draft.feeUtxo, recipients, FlowFee, P2tr(draft.dd.key)),
                [left EXCEPT ![draft.to] = @ + draft.cents])
      /\ UNCHANGED <<armed, task>>

RedeemGo ==
  /\ Confirmed("redeem")
  /\ CanRedeem(draft.position, draft.burn, draft.feeUtxo, FlowFee)
  /\ Submit(RedeemTx(draft.position, draft.burn, draft.feeUtxo, FlowFee,
                     P2tr(draft.position.key)),
            [meant EXCEPT ![draft.position.key] = @ - draft.position.cents])
  /\ UNCHANGED <<armed, task>>

\* The height is asked for once more; nothing is checked after that answer.
MintGo ==
  /\ Confirmed("mint")
  /\ task' = [kind |-> "signing", mint |-> draft]
  /\ UNCHANGED <<chainVars, armed, draft, faulted, meant>>
MintSigned ==
  /\ task.kind = "signing"
  /\ LET m == task.mint
     IN  /\ CanMint(m.utxo, m.cents, m.tier, m.price, m.bps, FlowFee)
         /\ Submit(MintTx(m.utxo, m.cents, m.tier, m.price, m.bps, tip, FlowFee),
                   [meant EXCEPT ![m.utxo.key] = @ + m.cents])
  /\ task' = Idle
  /\ UNCHANGED armed

Cancel == draft # Nil /\ task = Idle /\ draft' = Nil /\ armed' = FALSE

-----------------------------------------------------------------------------
(* The wallet on screen, and the world *)

ResetWalletState == draft' = Nil /\ armed' = FALSE
Lock == open # Nil /\ open' = Nil /\ ResetWalletState
OpenOther(w) == open # w /\ open' = w /\ ResetWalletState
EditAmount == armed /\ armed' = FALSE

Mine ==
  /\ tip < MaxTip
  /\ tip' = tip + 1
  /\ confirmed' = Len(chain)
\* Another device of the same user spends a coin to itself.
SpendElsewhere(o) ==
  /\ Cardinality({t \in DOMAIN chain : chain[t].type = "other"}) < MaxElsewhere
  /\ Mined(o) /\ At(o).value > 0 /\ At(o).script.kind # "collateral"
  /\ chain' = Append(chain, [type |-> "other", in |-> <<o>>,
                             out |-> <<Out(At(o).value - 1, [kind |-> "p2sh", key |-> Nil])>>])
  /\ UNCHANGED <<confirmed, tip>>

-----------------------------------------------------------------------------
FirstMint ==
  MintTx(Minted.utxo, Minted.cents, Minted.tier, Minted.price, Minted.bps, 0, FlowFee).body
Init ==
  /\ chain = <<[type |-> "dgb", in |-> <<>>, out |-> Genesis], OnChain(FirstMint)>>
  /\ confirmed = 2 /\ tip = 0
  /\ open \in Wallet
  /\ armed = FALSE /\ task = Idle /\ draft = Nil /\ faulted = FALSE
  /\ meant = [k \in Keys |-> IF k = Minted.utxo.key THEN Minted.cents ELSE 0]

Room == Len(chain) < MaxTxs
ReviewStep ==
  /\ Room
  /\ \/ ConsolidateOpened \/ MaxClicked
     \/ \E a \in Recipients, v \in SendAmounts : SendReview(a, v)
     \/ \E m \in Mints : MintReview(m[1], m[2])
     \/ \E q \in Quotes : MintQuoted(q[1], q[2])
     \/ \E a \in DdRecipients, c \in TransferAmounts : TransferReview(a, c)
     \/ TransferPicked
     \/ open # Nil /\ \E p \in PositionsOf(ToSet(KeysOf[open])) : RedeemReview(p)
     \/ RedeemPicked
     \/ Fail
  /\ UNCHANGED <<chainVars, open, armed, draft, faulted, meant>>
PlanStep ==
  /\ SendPlanned \/ ConsolidatePlanned \/ MintPlanned \/ TransferPlanned \/ RedeemPlanned
  /\ UNCHANGED <<chainVars, open, armed, faulted, meant>>
MaxStep == MaxPlanned /\ UNCHANGED <<chainVars, open, faulted, meant>>
ConfirmStep ==
  /\ Room
  /\ SendGo \/ ConsolidateGo \/ TransferGo \/ RedeemGo \/ MintGo \/ MintSigned
  /\ UNCHANGED open
ScreenStep ==
  \/ Cancel /\ UNCHANGED <<chainVars, open, task, faulted, meant>>
  \/ EditAmount /\ UNCHANGED <<chainVars, open, task, draft, faulted, meant>>
  \/ (Lock \/ \E w \in Wallet : OpenOther(w)) /\ UNCHANGED <<chainVars, task, faulted, meant>>
WorldStep ==
  /\ \/ Mine /\ UNCHANGED chain
     \/ Room /\ \E o \in Unspent : SpendElsewhere(o)
  /\ UNCHANGED <<open, armed, task, draft, faulted, meant>>

Next == ReviewStep \/ PlanStep \/ MaxStep \/ ConfirmStep \/ ScreenStep \/ WorldStep
Spec == Init /\ [][Next]_vars

-----------------------------------------------------------------------------
(* Properties *)

\* The cents of a set of tokens or positions.
CentsIn(S) == SumFunction([d \in S |-> d.cents])

\* Whatever was reviewed, and whatever happened since, a transaction signed over coins
\* that are still there is one the network takes: the right key signs each leg, no change
\* is dust, the fee is enough, and every DigiDollar rule holds.
NeverInvalid == ~faulted

\* What the indexer reads from the chain is what users meant: each key holds the cents
\* minted, received and not yet sent or burned, and no plain spend burns a token.
BalancesAreAsMeant ==
  \A k \in Keys :
    meant[k] = CentsIn(DdUtxosOf({k}))

\* The tokens that exist are those of the open positions.
SupplyIsBacked ==
  CentsIn(DdUtxosOf(Keys)) = CentsIn(PositionsOf(Keys))

\* A matured position whose tokens sit on its address can be redeemed with any coin that
\* pays the fee, whatever change the burned tokens leave.
NothingIsStranded ==
  \A p \in PositionsOf(Keys) : p.lock <= tip =>
    \A burn \in BurnSets(DdUtxosOf({p.key}), p.cents),
       u \in {v \in UtxosOf(Keys) : v.value >= FlowFee} :
      /\ CanRedeem(p, burn, u, FlowFee)
      /\ Valid(RedeemTx(p, burn, u, FlowFee, P2tr(p.key)))

\* Value goes only to scripts of a standard form, which their owner can spend: never to
\* data, nor to a witness version that does not exist yet.
ValueStaysSpendable ==
  \A t \in DOMAIN chain : \A o \in ToSet(chain[t].out) :
    o.value > 0 => o.script.kind \in {"p2tr", "p2wpkh", "p2wsh", "p2pkh", "p2sh", "collateral"}
=============================================================================
