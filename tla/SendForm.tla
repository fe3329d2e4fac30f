------------------------------ MODULE SendForm ------------------------------
(***************************************************************************)
(* The send form of apps/wallet/public/app.js and the oracle poll under    *)
(* it.  One amount field is read in the currency selected beside it; the   *)
(* user, a pasted digibyte: URI, Max and the poll all write it, and Max,   *)
(* Review and Confirm each await something while the others run.           *)
(*                                                                         *)
(* Abstractions: a dollar amount is a number of cents, a DGB amount a      *)
(* number of sats, Dgb sats to the coin; a price is in cents to the coin.  *)
(* Coins are a balance, which is found anew each time.  The recipient, the *)
(* fee and change of a plan, the cap and what signing does are in Ledger.  *)
(***************************************************************************)
EXTENDS Integers

CONSTANTS
  Dgb,       \* sats to the coin
  Price,     \* what the oracle may quote
  Amount,    \* what a user types or a URI asks for
  Balance,   \* what the spendable coins may come to
  Slot,      \* reviews that may run at once
  MissLimit, \* NET_HEALTH_MISS_LIMIT
  Nil

ASSUME SendConstants ==
  /\ Dgb \in Nat \ {0} /\ Price \subseteq Nat \ {0}
  /\ Amount \subseteq Nat \ {0} /\ Balance \subseteq Nat \ {0}
  /\ MissLimit \in Nat \ {0}
  /\ Nil \notin Int \cup BOOLEAN

VARIABLES
  price,      \* [usd: lastPriceUsd, micro: lastPriceMicroUsd], each Nil before any
  aged,       \* the last quote is older than PRICE_MAX_AGE_MS
  flag,       \* netHealth.oracle
  misses,     \* netMisses.oracle
  sendCcy,    \* "DGB" or "USD"
  ccyOff,     \* the currency button is disabled
  field,      \* [n, in, by]: the digits; history: their currency, and who put them there
  sendMaxArmed,
  line,       \* the amount in the other currency, under the field, or Nil
  shown,      \* the send modal is open
  unlocked,
  maxRuns,    \* Max awaits the coins
  review,     \* [Slot -> a review under way, or Nil]
  reviewOff,  \* the Review button is disabled
  pendingSend,\* the draft on the confirm screen, or Nil
  going       \* the draft being broadcast, or Nil

oracle == <<price, aged, flag, misses>>
form == <<sendCcy, ccyOff, field, sendMaxArmed, line>>
drafts == <<maxRuns, review, reviewOff, pendingSend, going>>
vars == <<oracle, form, drafts, shown, unlocked>>

Ccy == {"DGB", "USD"}

-----------------------------------------------------------------------------
(* Prices *)

PriceUsable == price.micro # Nil /\ flag = TRUE /\ ~aged

UsdToSats(cents) == (cents * Dgb) \div price.micro
SatsToUsd(sats) == (sats * price.usd) \div Dgb

Empty == [n |-> 0, in |-> "DGB", by |-> "nobody"]
Filled == field # Empty

\* What the line would say of what is in the field.
Equivalent ==
  CASE Filled /\ sendCcy = "USD" /\ PriceUsable -> UsdToSats(field.n)
    [] Filled /\ sendCcy = "DGB" /\ price.usd # Nil -> SatsToUsd(field.n)
    [] OTHER -> Nil
UpdateSendEq == line' = Equivalent'

Put(n, ccy, author) == field' = [n |-> n, in |-> ccy, by |-> author]
Clear == field' = Empty

-----------------------------------------------------------------------------
(* The oracle poll.  It is a chain of timeouts and does not overlap itself. *)

\* foldNetHealth: answers count at once, failures from the second in a row.
FoldNetHealth(answer) ==
  IF answer # Nil
  THEN flag' = answer /\ misses' = 0
  ELSE /\ misses' = IF misses < MissLimit THEN misses + 1 ELSE misses
       /\ flag' = IF misses' >= MissLimit THEN FALSE ELSE flag

Demote == Clear /\ sendMaxArmed' = FALSE

SyncSendPriceGate ==
  /\ ccyOff' = ~PriceUsable'
  /\ IF ~PriceUsable' /\ sendCcy = "USD"
     THEN Demote /\ sendCcy' = "DGB"
     ELSE UNCHANGED <<field, sendMaxArmed, sendCcy>>

LineWaits == UNCHANGED line
EndOfPoll == UpdateSendEq

PollSettles ==
  /\ SyncSendPriceGate
  /\ EndOfPoll
  /\ UNCHANGED <<drafts, shown, unlocked>>

\* An older node may quote without the integer price, which then stays behind.
PollAnswered(usd, micro, stale) ==
  /\ price' = [usd |-> usd, micro |-> IF micro = Nil THEN price.micro ELSE micro]
  /\ aged' = FALSE
  /\ FoldNetHealth(~stale)
  /\ PollSettles

PollFails ==
  /\ FoldNetHealth(Nil)
  /\ UNCHANGED <<price, aged>>
  /\ PollSettles

\* An answer that quotes nothing is neither a success nor a miss.
PollQuotesNothing ==
  /\ UNCHANGED oracle
  /\ PollSettles

\* The tab slept, or polls go unanswered: nothing on screen moves.
QuoteAges ==
  /\ ~aged /\ aged' = TRUE
  /\ UNCHANGED <<price, flag, misses, form, drafts, shown, unlocked>>

-----------------------------------------------------------------------------
(* The field *)

Type(n) ==
  /\ shown
  /\ Put(n, sendCcy, "user")
  /\ sendMaxArmed' = FALSE
  /\ UNCHANGED <<sendCcy, ccyOff>>
  /\ UNCHANGED <<oracle, drafts, shown, unlocked>>
  /\ UpdateSendEq

Blank ==
  /\ shown
  /\ Clear
  /\ sendMaxArmed' = FALSE
  /\ UNCHANGED <<sendCcy, ccyOff>>
  /\ UNCHANGED <<oracle, drafts, shown, unlocked>>
  /\ UpdateSendEq

\* The currency a requested amount is read in.
CcyAsItWas == sendCcy
CcyOfUri == "DGB"

\* absorbSendUri: an empty field takes the amount the URI asks for.
PasteUri(n) ==
  /\ shown
  /\ ~Filled
  /\ sendCcy' = CcyOfUri
  /\ Put(n, "DGB", "user")
  /\ sendMaxArmed' = FALSE
  /\ UNCHANGED ccyOff
  /\ UNCHANGED <<oracle, drafts, shown, unlocked>>
  /\ UpdateSendEq

\* The user has the digits read in the other currency.
Toggle ==
  /\ shown /\ ~ccyOff
  /\ sendCcy' = IF sendCcy = "DGB" THEN "USD" ELSE "DGB"
  /\ field' = IF ~Filled THEN Empty ELSE [n |-> field.n, in |-> sendCcy', by |-> field.by]
  /\ UNCHANGED <<ccyOff, sendMaxArmed>>
  /\ UNCHANGED <<oracle, drafts, shown, unlocked>>
  /\ UpdateSendEq

MaxClick ==
  /\ shown /\ unlocked /\ ~maxRuns
  /\ maxRuns' = TRUE
  /\ UNCHANGED <<oracle, form, review, reviewOff, pendingSend, going, shown, unlocked>>

\* Whatever has happened to the form since the click.
MaxPlanned(sats) ==
  /\ maxRuns
  /\ maxRuns' = FALSE
  /\ sendMaxArmed' = TRUE
  /\ IF sendCcy = "USD" /\ PriceUsable
     THEN Put(SatsToUsd(sats), "USD", "max") /\ UNCHANGED sendCcy
     ELSE Put(sats, "DGB", "max") /\ sendCcy' = "DGB"
  /\ UNCHANGED ccyOff
  /\ UNCHANGED <<oracle, review, reviewOff, pendingSend, going, shown, unlocked>>
  /\ UpdateSendEq

MaxFails ==
  /\ maxRuns
  /\ maxRuns' = FALSE
  /\ UNCHANGED <<oracle, form, review, reviewOff, pendingSend, going, shown, unlocked>>

-----------------------------------------------------------------------------
(* Review and Confirm *)

\* sendAmountSats, at the click.  USD without a usable price is refused.
SendAmountSats == IF sendCcy = "USD" THEN UsdToSats(field.n) ELSE field.n

\* history: what the form showed, in sats, at the click.
ShownSats == IF sendCcy = "USD" THEN line ELSE field.n

Begin(s, r) == review' = [x \in Slot |-> IF x = s THEN r ELSE review[x]]

ReviewDrain(s) ==
  /\ sendMaxArmed
  /\ Begin(s, [drains |-> TRUE, sats |-> 0, seen |-> 0, by |-> field.by])

ReviewAmount(s) ==
  /\ ~sendMaxArmed
  /\ Filled
  /\ sendCcy = "USD" => PriceUsable
  /\ SendAmountSats > 0
  /\ Begin(s, [drains |-> FALSE, sats |-> SendAmountSats, seen |-> ShownSats, by |-> field.by])

ReviewClick(s) ==
  /\ shown /\ ~reviewOff
  /\ review[s] = Nil
  /\ ReviewDrain(s) \/ ReviewAmount(s)
  /\ reviewOff' = TRUE
  /\ UNCHANGED <<oracle, form, maxRuns, pendingSend, going, shown, unlocked>>

\* The handler disables the button and busy() enables it again behind it.
ReviewPlanned(s, balance) ==
  LET r == review[s]
      sats == IF r.drains THEN balance ELSE r.sats
  IN  /\ r # Nil
      /\ sats <= balance
      /\ pendingSend' = [drains |-> r.drains, sats |-> sats, seen |-> r.seen, by |-> r.by]
      /\ Begin(s, Nil)
      /\ reviewOff' = FALSE
      /\ UNCHANGED <<oracle, form, maxRuns, going, shown, unlocked>>

ReviewFails(s) ==
  /\ review[s] # Nil
  /\ Begin(s, Nil)
  /\ reviewOff' = FALSE
  /\ UNCHANGED <<oracle, form, maxRuns, pendingSend, going, shown, unlocked>>

\* The currency stays.
ResetSend ==
  /\ pendingSend' = Nil
  /\ reviewOff' = FALSE
  /\ sendMaxArmed' = FALSE
  /\ Clear
  /\ UNCHANGED <<sendCcy, ccyOff>>
  /\ line' = Nil
  /\ UNCHANGED <<oracle, maxRuns, review>>

SendGo ==
  /\ shown /\ unlocked
  /\ pendingSend # Nil /\ going = Nil
  /\ going' = pendingSend
  /\ UNCHANGED <<oracle, form, maxRuns, review, reviewOff, pendingSend, shown, unlocked>>

SendGoes == going # Nil /\ going' = Nil /\ ResetSend /\ UNCHANGED <<shown, unlocked>>

SendFails ==
  /\ going # Nil /\ going' = Nil
  /\ UNCHANGED <<oracle, form, maxRuns, review, reviewOff, pendingSend, shown, unlocked>>

Cancel == shown /\ pendingSend # Nil /\ ResetSend /\ UNCHANGED <<going, shown, unlocked>>

OpenModal ==
  unlocked /\ ~shown /\ shown' = TRUE /\ ResetSend /\ UNCHANGED <<going, unlocked>>
CloseModal == shown /\ shown' = FALSE /\ ResetSend /\ UNCHANGED <<going, unlocked>>

\* The tear-down that a lock shares with a switch of wallets; a lock's show() also
\* closes the modal.
ResetWalletState ==
  /\ unlocked
  /\ \/ unlocked' = FALSE /\ shown' = FALSE
     \/ UNCHANGED <<unlocked, shown>>
  /\ ResetSend
  /\ UNCHANGED going
Unlock ==
  ~unlocked /\ unlocked' = TRUE /\ UNCHANGED <<oracle, form, drafts, shown>>

-----------------------------------------------------------------------------
FormInit ==
  /\ price = [usd |-> Nil, micro |-> Nil]
  /\ aged = TRUE /\ flag = Nil /\ misses = 0
  /\ sendCcy = "DGB" /\ ccyOff = FALSE
  /\ field = Empty /\ sendMaxArmed = FALSE /\ line = Nil
  /\ shown = FALSE /\ unlocked = FALSE
  /\ maxRuns = FALSE /\ review = [s \in Slot |-> Nil] /\ reviewOff = FALSE
  /\ pendingSend = Nil /\ going = Nil

Poll ==
  \/ \E p \in Price, micro \in BOOLEAN, stale \in BOOLEAN :
       PollAnswered(p, IF micro THEN p ELSE Nil, stale)
  \/ PollFails \/ PollQuotesNothing

Fill ==
  \/ \E n \in Amount : Type(n) \/ PasteUri(n)
  \/ Blank \/ Toggle \/ MaxClick \/ MaxFails
  \/ \E sats \in Balance : MaxPlanned(sats)

Send ==
  \/ \E s \in Slot : \/ ReviewClick(s) \/ ReviewFails(s)
                     \/ \E balance \in Balance : ReviewPlanned(s, balance)
  \/ SendGo \/ SendGoes \/ SendFails \/ Cancel

FormNext ==
  \/ Poll \/ QuoteAges \/ Fill \/ Send
  \/ OpenModal \/ CloseModal \/ ResetWalletState \/ Unlock

FormSpec == FormInit /\ [][FormNext]_vars

-----------------------------------------------------------------------------
(* Properties *)

Reviewed(d) ==
  IF d.drains THEN d.by = "max" ELSE d.sats = d.seen

\* What is planned, confirmed and broadcast is what the form showed when Review was
\* pressed (app.js loadOracle: a line that lags leaves "$1.00 = 74.5 DGB on screen
\* while Review builds 294.1 DGB"): an amount in dollars is the sats of the line, and
\* the whole balance is drained only where Max had filled the field.
PlansWhatWasShown ==
  \A d \in {review[s] : s \in Slot} \cup {pendingSend, going} : d # Nil => Reviewed(d)

\* Digits are never read in a currency they were not entered in, unless the user
\* asks for it (app.js absorbSendUri "a ?amount=200 request was reviewed as $200";
\* syncSendPriceGate "re-reads the SAME digits in a different currency").
DigitsKeepTheirCurrency == Filled => field.in = sendCcy

=============================================================================
