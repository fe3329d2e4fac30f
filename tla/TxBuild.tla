------------------------------ MODULE TxBuild ------------------------------
(***************************************************************************)
(* The transactions of packages/digidollar-js: what a mint, a transfer, a  *)
(* redemption and a plain spend are made of, which key signs which input,  *)
(* how coins are chosen and fees priced, and how the DigiDollar amounts    *)
(* written into a transaction are read back.                               *)
(*                                                                         *)
(* Abstractions: a key stands for the private key, its x-only public key   *)
(* and the taproot output key made of them; a script is a record of what   *)
(* it commits to; a signature is its key and the message it signs.  A      *)
(* builder that throws is a Can... operator that is false.                 *)
(***************************************************************************)
EXTENDS Integers, Sequences, FiniteSets, SequencesExt, FiniteSetsExt

CONSTANTS
  Coin,          \* COIN, satoshis per DGB
  MaxMoney,      \* MAX_MONEY
  BpsScale,      \* DCA_BPS_SCALE
  LockTiers,     \* LOCK_TIERS: a sequence of [lockBlocks, ratioPercent]
  Buffer,        \* MINT_LOCK_CONFIRMATION_BUFFER_BLOCKS
  MinFee,        \* MIN_DD_TX_FEE_SATS
  MinOutput,     \* MIN_DD_OUTPUT_CENTS
  Fold,          \* CHANGE_FOLD_SATS
  FeeRate,       \* STANDARD_FEE_RATE_SATS_PER_KVB
  OneByteCount   \* the largest count a one-byte varint holds: 252

ASSUME TxConstants ==
  /\ \A n \in {Coin, BpsScale, MinFee, MinOutput, Fold, FeeRate} : n \in Nat \ {0}
  /\ MaxMoney \in Nat /\ Buffer \in Nat /\ OneByteCount \in Nat
  /\ LockTiers \in Seq([lockBlocks: Nat, ratioPercent: Nat \ {0}])
  /\ Fold <= MinFee

\* What a sequence of coins or outputs comes to.
TotalValue(s) == SumFunction([i \in DOMAIN s |-> s[i].value])
TotalCents(s) == SumFunction([i \in DOMAIN s |-> s[i].cents])
CeilDiv(n, d) == (n + d - 1) \div d

-----------------------------------------------------------------------------
(* Scripts, inputs and outputs *)

P2tr(k) == [kind |-> "p2tr", key |-> k]
P2wpkh(k) == [kind |-> "p2wpkh", key |-> k]
\* Two leaves under a key nobody has: both name the owner, the height, the amount.
Collateral(k, lock, cents) ==
  [kind |-> "collateral", key |-> k, lock |-> lock, cents |-> cents]
Metadata(type, pushes) == [kind |-> "return", type |-> type, pushes |-> pushes]

Out(v, script) == [value |-> v, script |-> script]
OutIfPositive(v, script) == IF v > 0 THEN <<Out(v, script)>> ELSE <<>>
In(at, v, script, sequence) ==
  [at |-> at, value |-> v, script |-> script, sequence |-> sequence]

DgbLegScript(u) == IF u.type = "p2wpkh" THEN P2wpkh(u.key) ELSE P2tr(u.key)

-----------------------------------------------------------------------------
(* What a signature commits to *)

\* BIP-341: every input's value and script, and the leaf of a script-path spend.
TaprootSighash(t, i, leaf) == [body |-> t, index |-> i, leaf |-> leaf]
\* BIP-143: the value and script of the input itself only.
Bip143Sighash(t, i) ==
  [prevouts |-> [j \in DOMAIN t.in |-> t.in[j].at],
   sequences |-> [j \in DOMAIN t.in |-> t.in[j].sequence],
   rest |-> <<t.type, t.locktime, t.out>>, own |-> t.in[i]]

NoLeaf == <<>>
KeyPathSig(k, t, i) ==
  [alg |-> "schnorr", key |-> k, tweaked |-> TRUE, msg |-> TaprootSighash(t, i, NoLeaf)]
LeafSig(k, t, i, leaf) ==
  [alg |-> "schnorr", key |-> k, tweaked |-> FALSE, msg |-> TaprootSighash(t, i, leaf)]
SignDgbLeg(u, t, i) ==
  IF u.type = "p2wpkh"
  THEN [alg |-> "ecdsa", key |-> u.key, tweaked |-> FALSE, msg |-> Bip143Sighash(t, i)]
  ELSE KeyPathSig(u.key, t, i)

-----------------------------------------------------------------------------
(* The DGB side *)

LeaveDust(change) == change

\* Change too small to relay is left to the fee.
FoldChange(change) == IF change < Fold THEN 0 ELSE change
PaysFee(u, fee) == fee >= MinFee /\ u.value >= fee

-----------------------------------------------------------------------------
(* Transfer *)

DdOutputs(recipients, change, owner) ==
  recipients \o IF change > 0 THEN <<[key |-> owner, cents |-> change]>> ELSE <<>>
DdChange(dd, recipients) == dd.cents - TotalCents(recipients)

TransferOutputs(dds, dgbChange, changeScript) ==
  [i \in DOMAIN dds |-> Out(0, P2tr(dds[i].key))]
    \o OutIfPositive(dgbChange, changeScript)
    \o <<Out(0, Metadata("transfer", [i \in DOMAIN dds |-> dds[i].cents]))>>

\* Every DigiDollar output meets the minimum, the change included.
CanTransfer(dd, feeCoin, recipients, fee) ==
  /\ PaysFee(feeCoin, fee) /\ recipients # <<>> /\ DdChange(dd, recipients) >= 0
  /\ \A o \in ToSet(DdOutputs(recipients, DdChange(dd, recipients), dd.key)) :
       o.cents >= MinOutput

TransferBody(dd, feeCoin, recipients, fee, changeScript) ==
  [type |-> "transfer", locktime |-> 0,
   in |-> <<In(dd.at, 0, P2tr(dd.key), "final"),
            In(feeCoin.at, feeCoin.value, DgbLegScript(feeCoin), "final")>>,
   out |-> TransferOutputs(DdOutputs(recipients, DdChange(dd, recipients), dd.key),
                           FoldChange(feeCoin.value - fee), changeScript)]
TransferTx(dd, feeCoin, recipients, fee, changeScript) ==
  LET t == TransferBody(dd, feeCoin, recipients, fee, changeScript)
  IN  [body |-> t, sigs |-> <<KeyPathSig(dd.key, t, 1), SignDgbLeg(feeCoin, t, 2)>>]

-----------------------------------------------------------------------------
(* Redeem *)

RedeemChange(position, burn) == TotalCents(burn) - position.cents

\* The change may be below the minimum: refusing it would strand the position.
RedeemOutputs(returned, owner, ddChange, dgbChange, changeScript) ==
  <<Out(returned, P2tr(owner))>>
    \o (IF ddChange > 0
        THEN <<Out(0, P2tr(owner)), Out(0, Metadata("redeem", <<ddChange>>))>> ELSE <<>>)
    \o OutIfPositive(dgbChange, changeScript)

MinimumChange(position, burn, feeCoin, fee) ==
  /\ PaysFee(feeCoin, fee)
  /\ RedeemChange(position, burn) = 0 \/ RedeemChange(position, burn) >= MinOutput

CanRedeem(position, burn, feeCoin, fee) ==
  PaysFee(feeCoin, fee) /\ RedeemChange(position, burn) >= 0

RedeemBody(position, burn, feeCoin, fee, changeScript) ==
  LET owner == burn[1].key
  IN  [type |-> "redeem", locktime |-> position.lock,
       in |-> <<In(position.at, position.value,
                   Collateral(owner, position.lock, position.cents), "cltv")>>
              \o [i \in DOMAIN burn |-> In(burn[i].at, 0, P2tr(owner), "cltv")]
              \o <<In(feeCoin.at, feeCoin.value, DgbLegScript(feeCoin), "final")>>,
       out |-> RedeemOutputs(position.value, owner, RedeemChange(position, burn),
                             FoldChange(feeCoin.value - fee), changeScript)]

\* The leaf is signed by the untweaked key, the burned tokens by the tweaked one,
\* the fee leg, which follows them, by its own.
RedeemTx(position, burn, feeCoin, fee, changeScript) ==
  LET t == RedeemBody(position, burn, feeCoin, fee, changeScript)
      owner == burn[1].key
      feeIndex == 2 + Len(burn)
  IN  [body |-> t,
       sigs |-> [i \in DOMAIN t.in |->
         IF i = 1 THEN LeafSig(owner, t, i, <<position.lock, position.cents>>)
         ELSE IF i = feeIndex THEN SignDgbLeg(feeCoin, t, i)
         ELSE KeyPathSig(owner, t, i)]]

-----------------------------------------------------------------------------
(* Mint *)

EffectiveRatioPercent(ratio, bps) == CeilDiv(ratio * bps, BpsScale)

\* Rounded up, with one percent on top, rounded down.
BaseCollateral(cents, ratio, price) == CeilDiv(cents * Coin * ratio * 100, price)
RequiredCollateral(cents, tier, price, bps) ==
  (BaseCollateral(cents, EffectiveRatioPercent(LockTiers[tier].ratioPercent, bps), price)
     * 101) \div 100

UnlockHeight(tip, tier) == tip + 1 + Buffer + LockTiers[tier].lockBlocks

CanMint(u, cents, tier, price, bps, fee) ==
  /\ fee >= MinFee /\ cents > 0 /\ price > 0
  /\ RequiredCollateral(cents, tier, price, bps) <= MaxMoney
  /\ u.value >= RequiredCollateral(cents, tier, price, bps) + fee

MintOutputs(owner, cents, tier, unlock, collateral, change) ==
  <<Out(collateral, Collateral(owner, unlock, cents)), Out(0, P2tr(owner)),
    Out(0, Metadata("mint", <<cents, unlock, tier, owner>>))>>
    \o OutIfPositive(change, P2wpkh(owner))

MintTx(u, cents, tier, price, bps, tip, fee) ==
  LET collateral == RequiredCollateral(cents, tier, price, bps)
      t == [type |-> "mint", locktime |-> 0,
            in |-> <<In(u.at, u.value, DgbLegScript(u), "rbf")>>,
            out |-> MintOutputs(u.key, cents, tier, UnlockHeight(tip, tier), collateral,
                                FoldChange(u.value - collateral - fee))]
  IN  [body |-> t, sigs |-> <<SignDgbLeg(u, t, 1)>>]

-----------------------------------------------------------------------------
(* Plain spends *)

TxOverheadWu == 42
P2trOutputWu == 172
InputCountExtraWu(n) == IF n <= OneByteCount THEN 0 ELSE 8
InputWeight(type) == IF type = "p2wpkh" THEN 272 ELSE 230
ScriptBytes(kind) ==
  CASE kind = "p2wpkh" -> 22
    [] kind = "p2pkh" -> 25 [] kind = "p2sh" -> 23 [] OTHER -> 34
OutputWeight(script) == 4 * (9 + ScriptBytes(script.kind))

FeeFor(weight) == CeilDiv(CeilDiv(weight, 4) * FeeRate, 1000)
InputsWeight(ins) ==
  TxOverheadWu + InputCountExtraWu(Len(ins))
    + SumFunction([i \in DOMAIN ins |-> InputWeight(ins[i].type)])
SpendFee(ins, recipient) == FeeFor(InputsWeight(ins) + OutputWeight(recipient) + P2trOutputWu)
MaxSpendFee(ins, recipient) == FeeFor(InputsWeight(ins) + OutputWeight(recipient))

\* Equal coins come oldest or newest first: the comparator leaves that to the engine.
Older(a, b) == a.at[1] < b.at[1] \/ (a.at[1] = b.at[1] /\ a.at[2] < b.at[2])
Before(size, oldest, a, b) ==
  size[a] > size[b] \/ (size[a] = size[b] /\ IF oldest THEN Older(a, b) ELSE Older(b, a))
Place(size, oldest, coins, c) == 1 + Cardinality({d \in coins : Before(size, oldest, d, c)})
Sorted(size, oldest, coins) ==
  [i \in 1 .. Cardinality(coins) |->
     CHOOSE c \in coins : Place(size, oldest, coins, c) = i]
LargestFirst(size, coins) == {Sorted(size, oldest, coins) : oldest \in BOOLEAN}
Shortest(seqs) == {s \in seqs : \A t \in seqs : Len(s) <= Len(t)}

Covers(ins, amount, recipient) ==
  TotalValue(ins) >= amount + SpendFee(ins, recipient)
PlanSpend(coins, amount, recipient) ==
  {[inputs |-> ins, amount |-> amount, fee |-> SpendFee(ins, recipient)] :
     ins \in UNION {Shortest({s \in Prefixes(o) : Covers(s, amount, recipient)}) :
                      o \in LargestFirst([c \in coins |-> c.value], coins)}}

\* Everything to one output.
PlanMaxSpend(coins, recipient) ==
  LET ins == SetToSeq(coins)
      fee == MaxSpendFee(ins, recipient)
  IN  IF coins = {} \/ TotalValue(ins) <= fee THEN {}
      ELSE {[inputs |-> ins, amount |-> TotalValue(ins) - fee, fee |-> fee]}

SpendTx(plan, recipient, changeScript) ==
  LET change == TotalValue(plan.inputs) - plan.amount - plan.fee
      t == [type |-> "dgb", locktime |-> 0,
            in |-> [i \in DOMAIN plan.inputs |->
                      In(plan.inputs[i].at, plan.inputs[i].value,
                         DgbLegScript(plan.inputs[i]), "rbf")],
            out |-> <<Out(plan.amount, recipient)>>
                    \o OutIfPositive(FoldChange(change), changeScript)]
  IN  [body |-> t, sigs |-> [i \in DOMAIN t.in |-> SignDgbLeg(plan.inputs[i], t, i)]]

\* The one coin that pays the DGB side: the preferred key's, any taproot coin, then
\* a witness-v0 coin; the smallest that is enough.
Smallest(coins) == {u \in coins : \A v \in coins : u.value <= v.value}
PickDgbCoin(coins, least, prefer) ==
  LET enough == {u \in coins : u.value >= least}
      taproot == {u \in enough : u.type # "p2wpkh"}
      preferred == {u \in taproot : u.key = prefer}
  IN  Smallest(IF preferred # {} THEN preferred
               ELSE IF taproot # {} THEN taproot ELSE enough)

-----------------------------------------------------------------------------
(* Reading the amounts back *)

OpReturns(t) == {i \in DOMAIN t.out : t.out[i].script.kind = "return"}
AmountsOf(t) ==
  LET meta == t.out[Min(OpReturns(t))].script
  IN  IF OpReturns(t) = {} \/ t.type = "dgb" THEN <<>>
      ELSE IF meta.type # t.type THEN <<>>
      ELSE IF t.type = "mint" THEN <<meta.pushes[1]>> ELSE meta.pushes

\* The indexer pairs the amounts with the zero-value taproot outputs, in order.
DdVouts(t) == {n \in DOMAIN t.out : t.out[n].value = 0 /\ t.out[n].script.kind = "p2tr"}
DdRank(t, n) == Cardinality({m \in DdVouts(t) : m <= n})
DdAmountsByVout(t) ==
  [n \in {m \in DdVouts(t) : DdRank(t, m) <= Len(AmountsOf(t))} |-> AmountsOf(t)[DdRank(t, n)]]
=============================================================================
