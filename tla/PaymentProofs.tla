--------------------------- MODULE PaymentProofs ---------------------------
(***************************************************************************)
(* Theorems about a payment outside the ledger.  Before its signature: the *)
(* send form plans what it showed, for every price, amount, balance and    *)
(* number of reviews at once.  After it: Broadcast, for any tabs,          *)
(* transactions, payments and coins, and for a journal of any size.        *)
(***************************************************************************)
EXTENDS SendForm, Broadcast, SequenceTheorems, TLAPS

(***************************************************************************)
(* The send form                                                           *)
(***************************************************************************)

\* Review reads the field and the price, the user reads the line: under a usable
\* price the two agree.  Ageing keeps this only because Review refuses an aged one.
LineIsTheQuote ==
  Filled /\ sendCcy = "USD" /\ PriceUsable => line = UsdToSats(field.n)

\* Max is armed only over the digits it put there itself.
ArmedOverItsOwn ==
  /\ sendMaxArmed \in BOOLEAN
  /\ sendMaxArmed => field.by = "max"

FormInv == LineIsTheQuote /\ ArmedOverItsOwn /\ DigitsKeepTheirCurrency /\ PlansWhatWasShown

\* A step that ends in updateSendEq leaves a line that Review agrees with.
LEMMA Repainted == UpdateSendEq => LineIsTheQuote'
BY DEF UpdateSendEq, Equivalent, LineIsTheQuote, Filled, PriceUsable

\* A step that only moves drafts on keeps what is true of the form.
LEMMA FormKept ==
  ASSUME LineIsTheQuote, ArmedOverItsOwn, DigitsKeepTheirCurrency,
         UNCHANGED <<oracle, form>>
  PROVE  LineIsTheQuote' /\ ArmedOverItsOwn' /\ DigitsKeepTheirCurrency'
BY DEF LineIsTheQuote, ArmedOverItsOwn, DigitsKeepTheirCurrency, oracle, form,
       Filled, PriceUsable, UsdToSats

\* A step that leaves the drafts alone keeps what is true of them.
LEMMA DraftsKept ==
  ASSUME PlansWhatWasShown, UNCHANGED drafts
  PROVE  PlansWhatWasShown'
BY DEF PlansWhatWasShown, drafts, Reviewed

\* A reset leaves an empty form and no draft but those under way.
LEMMA Emptied ==
  ASSUME PlansWhatWasShown, ResetSend, UNCHANGED going \/ going' = Nil
  PROVE  FormInv'
<1>1. LineIsTheQuote' /\ ArmedOverItsOwn' /\ DigitsKeepTheirCurrency'
  BY DEF ResetSend, Clear, Filled, LineIsTheQuote, ArmedOverItsOwn,
         DigitsKeepTheirCurrency
<1>2. PlansWhatWasShown'
  BY DEF ResetSend, PlansWhatWasShown, Reviewed
<1>. QED  BY <1>1, <1>2 DEF FormInv

\* The poll, whatever it answers: a demoted field is empty and disarmed, any other
\* keeps its digits and its currency.
LEMMA PollKeeps == ASSUME FormInv, PollSettles PROVE FormInv'
<1>1. LineIsTheQuote'
  BY Repainted DEF PollSettles, EndOfPoll
<1>2. ArmedOverItsOwn' /\ DigitsKeepTheirCurrency'
  BY DEF FormInv, PollSettles, SyncSendPriceGate, Demote, Clear, Filled,
         ArmedOverItsOwn, DigitsKeepTheirCurrency
<1>3. PlansWhatWasShown'
  BY DraftsKept DEF FormInv, PollSettles
<1>. QED  BY <1>1, <1>2, <1>3 DEF FormInv

\* What writes the field repaints the line with it.
LEMMA FillKeeps == ASSUME FormInv, Fill PROVE FormInv'
<1>1. ASSUME NEW n \in Amount, Type(n) \/ PasteUri(n) PROVE FormInv'
  <2>1. LineIsTheQuote'
    BY <1>1, Repainted DEF Type, PasteUri
  <2>2. ArmedOverItsOwn' /\ DigitsKeepTheirCurrency'
    <3>1. sendMaxArmed' = FALSE
      BY <1>1 DEF Type, PasteUri
    <3>2. field'.in = sendCcy'
      BY <1>1 DEF Type, PasteUri, Put, CcyOfUri
    <3>. QED  BY <3>1, <3>2 DEF ArmedOverItsOwn, DigitsKeepTheirCurrency
  <2>3. PlansWhatWasShown'
    BY <1>1, DraftsKept DEF FormInv, Type, PasteUri
  <2>. QED  BY <2>1, <2>2, <2>3 DEF FormInv
<1>2. CASE Blank
  <2>1. LineIsTheQuote'
    BY <1>2, Repainted DEF Blank
  <2>2. ArmedOverItsOwn' /\ DigitsKeepTheirCurrency'
    BY <1>2 DEF Blank, Clear, Filled, ArmedOverItsOwn, DigitsKeepTheirCurrency
  <2>3. PlansWhatWasShown'
    BY <1>2, DraftsKept DEF FormInv, Blank
  <2>. QED  BY <2>1, <2>2, <2>3 DEF FormInv
<1>3. CASE Toggle
  <2>1. LineIsTheQuote'
    BY <1>3, Repainted DEF Toggle
  <2>2. DigitsKeepTheirCurrency'
    BY <1>3 DEF Toggle, Filled, DigitsKeepTheirCurrency
  <2>3. ArmedOverItsOwn'
    BY <1>3 DEF FormInv, Toggle, ArmedOverItsOwn, Filled, Empty
  <2>4. PlansWhatWasShown'
    BY <1>3, DraftsKept DEF FormInv, Toggle
  <2>. QED  BY <2>1, <2>2, <2>3, <2>4 DEF FormInv
<1>4. CASE MaxClick \/ MaxFails
  <2>1. UNCHANGED <<oracle, form>> /\ UNCHANGED <<review, pendingSend, going>>
    BY <1>4 DEF MaxClick, MaxFails
  <2>2. PlansWhatWasShown'
    BY <2>1 DEF FormInv, PlansWhatWasShown, Reviewed
  <2>. QED  BY <2>1, <2>2, FormKept DEF FormInv
<1>5. ASSUME NEW sats \in Balance, MaxPlanned(sats) PROVE FormInv'
  <2>1. LineIsTheQuote'
    BY <1>5, Repainted DEF MaxPlanned
  <2>2. ArmedOverItsOwn' /\ DigitsKeepTheirCurrency'
    BY <1>5 DEF MaxPlanned, Put, Filled, ArmedOverItsOwn, DigitsKeepTheirCurrency
  <2>3. PlansWhatWasShown'
    BY <1>5 DEF FormInv, MaxPlanned, PlansWhatWasShown, Reviewed
  <2>. QED  BY <2>1, <2>2, <2>3 DEF FormInv
<1>. QED  BY <1>1, <1>2, <1>3, <1>4, <1>5 DEF Fill

\* A review begins with what the form shows, and its draft keeps it.
LEMMA SendKeeps == ASSUME FormInv, Send PROVE FormInv'
<1>1. ASSUME NEW s \in Slot, ReviewClick(s) PROVE FormInv'
  <2>1. UNCHANGED <<oracle, form>> /\ UNCHANGED <<pendingSend, going>>
    BY <1>1 DEF ReviewClick
  <2>2. ASSUME NEW r, Begin(s, r), Reviewed(r) PROVE PlansWhatWasShown'
    BY <2>1, <2>2 DEF FormInv, Begin, PlansWhatWasShown, Reviewed
  <2>3. ASSUME ReviewDrain(s) PROVE PlansWhatWasShown'
    BY <2>2, <2>3 DEF FormInv, ReviewDrain, ArmedOverItsOwn, Reviewed
  <2>4. ASSUME ReviewAmount(s) PROVE PlansWhatWasShown'
    <3>1. SendAmountSats = ShownSats
      BY <2>4 DEF FormInv, ReviewAmount, SendAmountSats, ShownSats, LineIsTheQuote
    <3>. QED  BY <2>2, <2>4, <3>1 DEF ReviewAmount, Reviewed
  <2>5. PlansWhatWasShown'
    BY <1>1, <2>3, <2>4 DEF ReviewClick
  <2>. QED  BY <2>1, <2>5, FormKept DEF FormInv
<1>2. ASSUME NEW s \in Slot, NEW balance \in Balance, ReviewPlanned(s, balance) PROVE FormInv'
  <2>1. UNCHANGED <<oracle, form, going>> /\ Begin(s, Nil)
    BY <1>2 DEF ReviewPlanned
  <2>2. Reviewed(review[s])
    BY <1>2 DEF FormInv, ReviewPlanned, PlansWhatWasShown
  <2>3. Reviewed(pendingSend')
    BY <1>2, <2>2 DEF ReviewPlanned, Reviewed
  <2>4. PlansWhatWasShown'
    BY <2>1, <2>3 DEF FormInv, Begin, PlansWhatWasShown, Reviewed
  <2>. QED  BY <2>1, <2>4, FormKept DEF FormInv
<1>3. ASSUME NEW s \in Slot, ReviewFails(s) PROVE FormInv'
  <2>1. UNCHANGED <<oracle, form>> /\ UNCHANGED <<pendingSend, going>> /\ Begin(s, Nil)
    BY <1>3 DEF ReviewFails
  <2>2. PlansWhatWasShown'
    BY <2>1 DEF FormInv, Begin, PlansWhatWasShown, Reviewed
  <2>. QED  BY <2>1, <2>2, FormKept DEF FormInv
<1>4. CASE SendGo \/ SendFails
  <2>1. UNCHANGED <<oracle, form>> /\ UNCHANGED <<review, pendingSend>>
    BY <1>4 DEF SendGo, SendFails
  <2>2. going' \in {pendingSend, Nil}
    BY <1>4 DEF SendGo, SendFails
  <2>3. PlansWhatWasShown'
    BY <2>1, <2>2 DEF FormInv, PlansWhatWasShown, Reviewed
  <2>. QED  BY <2>1, <2>3, FormKept DEF FormInv
<1>5. CASE SendGoes \/ Cancel
  BY <1>5, Emptied DEF FormInv, SendGoes, Cancel
<1>. QED  BY <1>1, <1>2, <1>3, <1>4, <1>5 DEF Send

\* The invariant holds from the start and every step keeps it.
THEOREM FormIsInvariant == FormSpec => []FormInv
<1>1. FormInit => FormInv
  BY DEF FormInit, FormInv, LineIsTheQuote, ArmedOverItsOwn, DigitsKeepTheirCurrency,
         PlansWhatWasShown, Filled, Empty
<1>2. FormInv /\ [FormNext]_vars => FormInv'
  <2>. SUFFICES ASSUME FormInv, [FormNext]_vars PROVE FormInv'
    OBVIOUS
  <2>1. CASE Poll
    BY <2>1, PollKeeps DEF Poll, PollAnswered, PollFails, PollQuotesNothing
  <2>2. CASE QuoteAges
    <3>1. aged' /\ UNCHANGED <<form, drafts>>
      BY <2>2 DEF QuoteAges
    <3>2. LineIsTheQuote'
      BY <3>1 DEF LineIsTheQuote, PriceUsable
    <3>3. ArmedOverItsOwn' /\ DigitsKeepTheirCurrency'
      BY <3>1 DEF FormInv, ArmedOverItsOwn, DigitsKeepTheirCurrency, Filled, form
    <3>. QED  BY <3>1, <3>2, <3>3, DraftsKept DEF FormInv
  <2>3. CASE Fill
    BY <2>3, FillKeeps
  <2>4. CASE Send
    BY <2>4, SendKeeps
  <2>5. CASE OpenModal \/ CloseModal \/ ResetWalletState
    BY <2>5, Emptied DEF FormInv, OpenModal, CloseModal, ResetWalletState
  <2>6. CASE Unlock
    BY <2>6, FormKept, DraftsKept DEF FormInv, Unlock
  <2>7. CASE UNCHANGED vars
    BY <2>7, FormKept, DraftsKept DEF FormInv, vars
  <2>. QED  BY <2>1, <2>2, <2>3, <2>4, <2>5, <2>6, <2>7 DEF FormNext
<1>. QED  BY <1>1, <1>2, PTL DEF FormSpec

\* Whatever prices, polls, currencies and reviews come between, what is planned,
\* confirmed and broadcast is what the form showed.
THEOREM PlansAreAsShown == FormSpec => []PlansWhatWasShown
<1>1. FormInv => PlansWhatWasShown
  BY DEF FormInv
<1>. QED  BY <1>1, FormIsInvariant, PTL

\* No poll, paste or Max has digits read in another currency than their own.
THEOREM DigitsAreAsEntered == FormSpec => []DigitsKeepTheirCurrency
<1>1. FormInv => DigitsKeepTheirCurrency
  BY DEF FormInv
<1>. QED  BY <1>1, FormIsInvariant, PTL

(***************************************************************************)
(* Broadcast                                                               *)
(***************************************************************************)

USE BroadcastConstants

TypeOK ==
  /\ journal \in Seq(Tx) /\ Unique(journal)
  /\ call \in [Tab -> CallState]
  /\ accepted \subseteq Tx
  /\ told \in [Tx -> Told]
  /\ gone \in [Tx -> Gone]
  /\ doubted \subseteq Tx

(***************************************************************************)
(* The journal                                                             *)
(***************************************************************************)

\* Removing one entry of a list without repetitions removes its value and no other.
LEMMA RemoveOne ==
  ASSUME NEW s \in Seq(Tx), Unique(s), NEW k \in DOMAIN s
  PROVE  /\ RemoveAt(s, k) \in Seq(Tx) /\ Unique(RemoveAt(s, k))
         /\ ToSet(RemoveAt(s, k)) = ToSet(s) \ {s[k]}
<1> DEFINE a == SubSeq(s, 1, k - 1)
           b == SubSeq(s, k + 1, Len(s))
           r == RemoveAt(s, k)
<1>1. k \in Nat /\ 1 <= k /\ k <= Len(s) /\ Len(s) \in Nat /\ DOMAIN s = 1 .. Len(s)
  BY LenProperties
<1>2. a \in Seq(Tx) /\ Len(a) = k - 1 /\ \A i \in 1 .. k - 1 : a[i] = s[i]
  BY <1>1, SubSeqProperties
<1>3. b \in Seq(Tx) /\ Len(b) = Len(s) - k /\ \A i \in 1 .. Len(s) - k : b[i] = s[k + i]
  BY <1>1, SubSeqProperties
<1>9. /\ Len(a) = k - 1 /\ Len(b) = Len(s) - k /\ Len(a) + Len(b) = Len(s) - 1
      /\ k \in 1 .. Len(s) /\ Len(s) \in Nat
  BY <1>1, <1>2, <1>3
<1>4. /\ r \in Seq(Tx) /\ Len(r) = Len(s) - 1 /\ DOMAIN r = 1 .. Len(s) - 1
      /\ \A i \in 1 .. Len(s) - 1 : r[i] = IF i < k THEN s[i] ELSE s[i + 1]
  <2>1. r = a \o b
    BY DEF RemoveAt
  <2>2. r \in Seq(Tx) /\ Len(r) = Len(a) + Len(b)
    BY <2>1, <1>2, <1>3
  <2>3. \A i \in 1 .. Len(s) - 1 : r[i] = IF i <= Len(a) THEN a[i] ELSE b[i - Len(a)]
    <3> HIDE DEF a, b, r
    <3>1. a \in Seq(Tx) /\ b \in Seq(Tx)
      BY <1>2, <1>3
    <3>2. \A i \in 1 .. Len(a) + Len(b) : (a \o b)[i] = IF i <= Len(a) THEN a[i] ELSE b[i - Len(a)]
      BY <3>1, ConcatProperties
    <3> QED
      BY <2>1, <3>2, <1>9
  <2>4. \A i \in 1 .. Len(s) - 1 : r[i] = IF i < k THEN s[i] ELSE s[i + 1]
    <3> HIDE DEF a, b, r
    <3> TAKE i \in 1 .. Len(s) - 1
    <3>1. CASE i < k
      BY <3>1, <2>3, <1>1, <1>2
    <3>2. CASE ~(i < k)
      <4>1. /\ ~(i <= Len(a)) /\ i - Len(a) = i - k + 1 /\ i - k + 1 \in 1 .. Len(s) - k
            /\ k + (i - k + 1) = i + 1
        BY <3>2, <1>9
      <4>2. r[i] = b[i - Len(a)]
        BY <4>1, <2>3
      <4>3. b[i - k + 1] = s[k + (i - k + 1)]
        BY <4>1, <1>3
      <4> QED
        BY <3>2, <4>1, <4>2, <4>3
    <3> QED
      BY <3>1, <3>2
  <2>5. Len(r) = Len(s) - 1
    BY <2>2, <1>9
  <2>6. DOMAIN r = 1 .. Len(s) - 1
    <3> HIDE DEF r
    <3> QED
      BY <2>2, <2>5, LenProperties
  <2> QED
    BY <2>2, <2>4, <2>5, <2>6
<1> HIDE DEF r
\* Where an entry was before.
<1> DEFINE was(i) == IF i < k THEN i ELSE i + 1
<1>0. \A i \in 1 .. Len(s) - 1 : was(i) \in 1 .. Len(s) /\ was(i) # k /\ r[i] = s[was(i)]
  BY <1>1, <1>4
<1>5. Unique(r)
  <2>1. \A i, j \in 1 .. Len(s) - 1 : was(i) = was(j) => i = j
    BY <1>1
  <2> SUFFICES ASSUME NEW i \in 1 .. Len(s) - 1, NEW j \in 1 .. Len(s) - 1, r[i] = r[j]
               PROVE  i = j
    BY <1>4 DEF Unique
  <2>2. was(i) \in DOMAIN s /\ was(j) \in DOMAIN s /\ s[was(i)] = s[was(j)]
    BY <1>0, <1>1
  <2>3. was(i) = was(j)
    BY <2>2 DEF Unique
  <2> QED
    BY <2>1, <2>3
<1>6. ToSet(r) \subseteq ToSet(s) \ {s[k]}
  <2> HIDE DEF was
  <2> QED
    BY <1>0, <1>1, <1>4 DEF Unique, ToSet
<1>7. \A i \in 1 .. Len(s) : s[i] # s[k] => \E j \in 1 .. Len(s) - 1 : r[j] = s[i]
  <2> SUFFICES ASSUME NEW i \in 1 .. Len(s), s[i] # s[k]
               PROVE  \E j \in 1 .. Len(s) - 1 : r[j] = s[i]
    OBVIOUS
  <2>1. CASE i < k
    BY <2>1, <1>1, <1>4
  <2>2. CASE i > k
    <3>1. i - 1 \in 1 .. Len(s) - 1 /\ ~(i - 1 < k) /\ (i - 1) + 1 = i
      BY <2>2, <1>1
    <3> QED
      BY <3>1, <1>4
  <2> QED
    BY <2>1, <2>2, <1>1
<1>8. ToSet(s) \ {s[k]} \subseteq ToSet(r)
  <2> SUFFICES ASSUME NEW v \in ToSet(s), v # s[k]
               PROVE  v \in ToSet(r)
    BY Zenon
  <2>1. PICK i \in 1 .. Len(s) : s[i] = v
    BY <1>1 DEF ToSet
  <2>2. PICK j \in 1 .. Len(s) - 1 : r[j] = v
    BY <1>7, <2>1
  <2> QED
    BY <1>4, <2>2 DEF ToSet
<1> QED
  BY <1>4, <1>5, <1>6, <1>8 DEF r

LEMMA WithoutOne ==
  ASSUME TypeOK, NEW x \in Tx
  PROVE  /\ Without(x) \in Seq(Tx) /\ Unique(Without(x))
         /\ ToSet(Without(x)) = ToSet(journal) \ {x}
<1>1. CASE Journalled(x)
  <2> DEFINE k == CHOOSE i \in DOMAIN journal : journal[i] = x
  <2>1. k \in DOMAIN journal /\ journal[k] = x
    BY <1>1 DEF Journalled, ToSet
  <2> HIDE DEF k
  <2>2. Without(x) = RemoveAt(journal, k)
    BY <1>1 DEF Without, k
  <2> QED
    BY <2>1, <2>2, RemoveOne DEF TypeOK
<1>2. CASE ~Journalled(x)
  BY <1>2 DEF Without, Journalled, TypeOK
<1> QED
  BY <1>1, <1>2

\* The limit keeps the newest record, and invents none.
LEMMA NewestFirst ==
  ASSUME NEW s \in Seq(Tx), Unique(s), NEW x \in Tx, x \notin ToSet(s)
  PROVE  LET r == Newest(<<x>> \o s)
         IN  r \in Seq(Tx) /\ Unique(r) /\ x \in ToSet(r) /\ ToSet(r) \subseteq ToSet(s) \cup {x}
<1> DEFINE q == <<x>> \o s
           r == Newest(q)
<1>1. /\ q \in Seq(Tx) /\ Len(q) = Len(s) + 1 /\ q[1] = x
      /\ \A i \in 2 .. Len(q) : q[i] = s[i - 1] /\ i - 1 \in DOMAIN s
      /\ DOMAIN q = 1 .. Len(q) /\ Len(s) \in Nat /\ DOMAIN s = 1 .. Len(s)
  BY LenProperties
<1> HIDE DEF q
<1>2. Unique(q) /\ \A i \in DOMAIN q : q[i] \in ToSet(s) \cup {x}
  <2>1. \A i \in 2 .. Len(q) : q[i] \in ToSet(s) /\ q[i] # x
    BY <1>1 DEF ToSet
  <2>2. \A i, j \in 2 .. Len(q) : q[i] = q[j] => i = j
    BY <1>1 DEF Unique
  <2> QED
    BY <1>1, <2>1, <2>2 DEF Unique
<1>3. /\ r \in Seq(Tx) /\ DOMAIN r = 1 .. Len(r) /\ Len(r) \in Nat /\ 1 <= Len(r)
      /\ Len(r) <= Len(q) /\ \A i \in DOMAIN r : r[i] = q[i]
  <2>1. CASE Len(q) > MaxRecords
    <3>1. r = SubSeq(q, 1, MaxRecords)
      BY <2>1 DEF Newest
    <3> QED
      BY <3>1, <2>1, <1>1, SubSeqProperties, LenProperties
  <2>2. CASE ~(Len(q) > MaxRecords)
    BY <2>2, <1>1 DEF Newest
  <2> QED
    BY <2>1, <2>2
<1> HIDE DEF r
<1>4. Unique(r)
  BY <1>1, <1>2, <1>3 DEF Unique
<1>5. x \in ToSet(r) /\ ToSet(r) \subseteq ToSet(s) \cup {x}
  <2>1. 1 \in DOMAIN r /\ r[1] = x
    BY <1>1, <1>3
  <2>2. \A i \in DOMAIN r : r[i] \in ToSet(s) \cup {x}
    BY <1>1, <1>2, <1>3
  <2> QED
    BY <2>1, <2>2, Zenon DEF ToSet
<1> QED
  BY <1>3, <1>4, <1>5 DEF r, q

LEMMA DropStep ==
  ASSUME TypeOK, NEW x \in Tx, Drop(x)
  PROVE  /\ journal' \in Seq(Tx) /\ Unique(journal')
         /\ ToSet(journal') = ToSet(journal) \ {x}
BY WithoutOne DEF Drop

\* Recording a transaction keeps it or says that it could not, and so for any record it
\* pushes out.
LEMMA RecordStep ==
  ASSUME TypeOK, NEW x \in Tx, Record(x)
  PROVE  /\ journal' \in Seq(Tx) /\ Unique(journal')
         /\ ToSet(journal') \subseteq ToSet(journal) \cup {x}
         /\ gone' \in [Tx -> Gone]
         /\ x \in ToSet(journal') \/ gone'[x] # "kept"
         /\ \A y \in (Tx \ {x}) \ ToSet(journal') :
              gone'[y] = IF y \in ToSet(journal) THEN "evicted" ELSE gone[y]
<1>1. CASE /\ journal' = Newest(<<x>> \o Without(x))
           /\ gone' = [y \in Tx |-> IF Journalled(y) /\ y \notin ToSet(journal')
                                  THEN "evicted" ELSE gone[y]]
  <2>1. x \notin ToSet(Without(x))
    BY WithoutOne
  <2>2. /\ journal' \in Seq(Tx) /\ Unique(journal') /\ x \in ToSet(journal')
        /\ ToSet(journal') \subseteq ToSet(Without(x)) \cup {x}
    BY <1>1, <2>1, WithoutOne, NewestFirst
  <2>3. gone' \in [Tx -> Gone]
    BY <1>1 DEF TypeOK, Gone
  <2>4. \A y \in Tx \ ToSet(journal') :
          gone'[y] = IF y \in ToSet(journal) THEN "evicted" ELSE gone[y]
    BY <1>1 DEF Journalled
  <2> QED
    BY <2>2, <2>3, <2>4, WithoutOne
<1>2. CASE gone' = [gone EXCEPT ![x] = "unstored"] /\ UNCHANGED journal
  BY <1>2 DEF TypeOK, Gone
<1> QED
  BY <1>1, <1>2 DEF Record

(***************************************************************************)
(* Type correctness                                                        *)
(***************************************************************************)

LEMMA StateTypes ==
  /\ Idle \in CallState
  /\ \A x \in Tx, k \in {"send", "resend"} : [pc |-> "sending", tx |-> x, kind |-> k] \in CallState
  /\ \A x \in Tx, v \in Verdicts : [pc |-> "answered", tx |-> x, verdict |-> v] \in CallState
BY DEF Idle, CallState

\* An attempt is of a transaction; an answered one has its verdict.
LEMMA CallTypes ==
  ASSUME TypeOK, NEW t \in Tab, call[t] # Idle
  PROVE  /\ call[t].tx \in Tx
         /\ call[t].pc = "answered" => call[t].verdict \in Verdicts
         /\ call[t].pc = "sending" => call[t].kind \in {"send", "resend"}
<1>1. call[t] \in CallState
  BY DEF TypeOK
<1> QED
  BY <1>1 DEF CallState, Idle

LEMMA MeaningTypes == \A v \in Verdicts : Meaning(v) \in {"sent", "spent", "failed"}
BY DEF Verdicts, Meaning

LEMMA TypesKept ==
  ASSUME TypeOK, [Next]_broadcastVars
  PROVE  TypeOK'
<1> USE StateTypes
<1>1. ASSUME NEW t \in Tab, NEW x \in Tx, BroadcastTx(t, x)
      PROVE  TypeOK'
  BY <1>1, RecordStep DEF BroadcastTx, TypeOK, Tell, Told
<1>2. ASSUME NEW t \in Tab, NEW x \in Tx, Rebroadcast(t, x)
      PROVE  TypeOK'
  BY <1>2 DEF Rebroadcast, TypeOK
<1>3. ASSUME NEW t \in Tab, NodeAnswers(t)
      PROVE  TypeOK'
  <2>1. call[t] # Idle /\ call[t].tx \in Tx
    BY <1>3, CallTypes DEF NodeAnswers, Idle
  <2>2. \A v \in NodeVerdicts(call[t].tx) : v \in Verdicts
    BY DEF NodeVerdicts, Verdicts
  <2> QED
    BY <1>3, <2>1, <2>2 DEF NodeAnswers, TypeOK
<1>4. ASSUME NEW t \in Tab, ServerRefuses(t)
      PROVE  TypeOK'
  <2>1. call[t] # Idle /\ call[t].tx \in Tx /\ "refused" \in Verdicts
    BY <1>4, CallTypes DEF ServerRefuses, Idle, Verdicts
  <2> QED
    BY <1>4, <2>1 DEF ServerRefuses, TypeOK
<1>5. ASSUME NEW t \in Tab, Classify(t)
      PROVE  TypeOK'
  <2>1. call[t].tx \in Tx /\ call[t].verdict \in Verdicts
    BY <1>5, CallTypes DEF Classify, Idle
  <2>2. Meaning(call[t].verdict) \in Told
    BY <2>1, MeaningTypes DEF Told
  <2> QED
    BY <1>5, <2>1, <2>2, DropStep DEF Classify, TypeOK, Tell
<1>6. ASSUME NEW t \in Tab, NoAnswer(t)
      PROVE  TypeOK'
  <2>1. call[t].tx \in Tx
    BY <1>6, CallTypes DEF NoAnswer
  <2> QED
    BY <1>6, <2>1 DEF NoAnswer, FailAmbiguous, TypeOK, Tell, Told
<1>7. ASSUME NEW t \in Tab, Crash(t)
      PROVE  TypeOK'
  BY <1>7 DEF Crash, TypeOK
<1>8. ASSUME NEW x \in Tx, CheckStatus(x) \/ DeleteSaved(x)
      PROVE  TypeOK'
  BY <1>8, DropStep DEF CheckStatus, DeleteSaved, TypeOK, Tell, Told, Gone
<1>9. CASE UNCHANGED broadcastVars
  BY <1>9 DEF broadcastVars, TypeOK
<1> QED
  BY <1>1, <1>2, <1>3, <1>4, <1>5, <1>6, <1>7, <1>8, <1>9 DEF Next

LEMMA TypesInit == Init => TypeOK
BY StateTypes DEF Init, TypeOK, Unique, Told, Gone

\* Every state has its type; the journal holds a transaction at most once
\* (broadcastlog.js record, which replaces the record it had).
THEOREM TypeCorrect == Spec => []TypeOK
<1>1. TypeOK /\ [Next]_broadcastVars => TypeOK'
  BY TypesKept
<1> QED
  BY TypesInit, <1>1, PTL DEF Spec

(***************************************************************************)
(* A signed transaction leaves a trace                                     *)
(***************************************************************************)

TraceInv == TypeOK /\ TraceIsKept

LEMMA TraceStep ==
  ASSUME TraceInv, [Next]_broadcastVars
  PROVE  TraceInv'
<1> USE DEF TraceInv
<1>0. TypeOK'
  BY TypesKept
<1> SUFFICES TraceIsKept'
  BY <1>0
<1>1. ASSUME NEW t \in Tab, NEW x \in Tx, BroadcastTx(t, x)
      PROVE  TraceIsKept'
  <2>1. told' = [told EXCEPT ![x] = "unknown"] /\ Record(x)
    BY <1>1 DEF BroadcastTx, Tell
  <2> SUFFICES ASSUME NEW y \in Tx, y \notin ToSet(journal')
               PROVE  /\ told'[y] = "unknown" => gone'[y] # "kept"
                      /\ told'[y] = "ambiguous" => gone'[y] \in {"evicted", "deleted"}
    BY DEF TraceIsKept
  <2>2. CASE y = x
    BY <2>1, <2>2, RecordStep DEF TypeOK
  <2>3. CASE y # x
    <3>1. told'[y] = told[y]
      BY <2>1, <2>3 DEF TypeOK
    <3>2. gone'[y] = IF y \in ToSet(journal) THEN "evicted" ELSE gone[y]
      BY <2>1, <2>3, RecordStep
    <3> QED
      BY <3>1, <3>2 DEF TraceIsKept
  <2> QED
    BY <2>2, <2>3
<1>2. ASSUME NEW t \in Tab, Classify(t)
      PROVE  TraceIsKept'
  <2> DEFINE x == call[t].tx
  <2>1. x \in Tx /\ call[t].verdict \in Verdicts
    BY <1>2, CallTypes DEF Classify, Idle
  <2>2. told'[x] \notin {"unknown", "ambiguous"} /\ \A y \in Tx \ {x} : told'[y] = told[y]
    BY <1>2, <2>1, MeaningTypes DEF Classify, Tell, TypeOK
  <2>3. ToSet(journal') = ToSet(journal) \ {x} /\ gone' = gone
    BY <1>2, <2>1, DropStep DEF Classify
  <2> QED
    BY <2>2, <2>3 DEF TraceIsKept
<1>3. ASSUME NEW t \in Tab, NoAnswer(t)
      PROVE  TraceIsKept'
  BY <1>3, CallTypes DEF NoAnswer, FailAmbiguous, Tell, TypeOK, TraceIsKept, Journalled
<1>4. ASSUME NEW x \in Tx, CheckStatus(x)
      PROVE  TraceIsKept'
  BY <1>4, DropStep DEF CheckStatus, Tell, TypeOK, TraceIsKept
<1>5. ASSUME NEW x \in Tx, DeleteSaved(x)
      PROVE  TraceIsKept'
  BY <1>5, DropStep DEF DeleteSaved, TypeOK, TraceIsKept
<1>6. ASSUME UNCHANGED <<journal, told, gone>>
      PROVE  TraceIsKept'
  BY <1>6 DEF TraceIsKept
<1> QED
  BY <1>1, <1>2, <1>3, <1>4, <1>5, <1>6
     DEF Next, Rebroadcast, NodeAnswers, ServerRefuses, Crash, broadcastVars

\* What the node may have, and nobody was told the fate of, is in the journal, for journals
\* of any size and any number of tabs (app.js broadcastTx, sendAndClassify): unless the
\* storage refused the record, the limit pushed it out, or the user deleted it; and nobody
\* is sent to the panel for a record that was refused.
THEOREM SignedLeavesATrace == Spec => []TraceIsKept
<1>1. Init => TraceInv
  BY TypesInit DEF TraceInv, Init, TraceIsKept
<1>2. TraceInv /\ [Next]_broadcastVars => TraceInv'
  BY TraceStep
<1>3. TraceInv => TraceIsKept
  BY DEF TraceInv
<1> QED
  BY <1>1, <1>2, <1>3, PTL DEF Spec

(***************************************************************************)
(* A payment is made once                                                  *)
(***************************************************************************)

\* What is known of a transaction that was never refused a retry, and tried by one tab at
\* a time: one attempt is pending; the node has it only once an attempt was let through,
\* and never after a refusal; when it is reported as failed, it is over.
OneAttempt ==
  \A t, u \in Tab : \A x \in Tx \ doubted : Sending(t, x) /\ Sending(u, x) => t = u
NotTakenYet ==
  \A t \in Tab : call[t] # Idle /\ call[t].tx \notin doubted =>
    /\ call[t].pc = "sending" /\ call[t].kind = "send" => call[t].tx \notin accepted
    /\ call[t].pc = "answered" /\ call[t].verdict \in {"reject", "refused"}
         => call[t].tx \notin accepted
FailuresAreReal ==
  \A x \in Tx \ doubted : told[x] = "failed" => Settled(x) /\ x \notin accepted

\* What was never signed is nowhere.  What has failed has no record left to send again.
Nowhere(x) == Settled(x) /\ x \notin accepted /\ ~Journalled(x) /\ x \notin doubted
UnsignedIsNowhere == \A x \in Tx : told[x] = "unsigned" => Nowhere(x)
FailedHasNoRecord == \A x \in Tx : told[x] = "failed" => ~Journalled(x)

\* Of two transactions for one payment, one has left the wallet's sight: nothing happens
\* to it any more.
Over(x) == Settled(x) /\ ~Journalled(x) /\ told[x] \in {"failed", "unknown"}
OnePayment ==
  \A x, y \in Tx :
    x # y /\ PaysFor[x] = PaysFor[y] /\ told[x] # "unsigned" /\ told[y] # "unsigned" =>
      Over(x) \/ Over(y)

AttemptsInv == OneAttempt /\ NotTakenYet /\ FailuresAreReal
OutcomesInv == UnsignedIsNowhere /\ FailedHasNoRecord /\ OnePayment
PaidInv == TraceInv /\ AttemptsInv /\ OutcomesInv

\* The attempts of the others stay as they are when one tab's attempt ends or moves on.
LEMMA SameAttempts ==
  ASSUME TypeOK, OneAttempt, NEW t \in Tab, NEW s \in CallState,
         call' = [call EXCEPT ![t] = s], s = Idle \/ (call[t] # Idle /\ s.tx = call[t].tx),
         doubted \subseteq doubted'
  PROVE  /\ OneAttempt'
         /\ \A x \in Tx : Settled(x) => Settled(x)'
         /\ \A u \in Tab \ {t} : call'[u] = call[u]
         /\ call'[t] = s
BY DEF TypeOK, OneAttempt, Settled, Sending

\* Outcomes survive a step that only ends attempts and records, of transactions that are
\* neither unsigned nor over, and tells no failure.
LEMMA OutcomesKept ==
  ASSUME PaidInv, NEW x \in Tx, told[x] # "unsigned", ~Over(x),
         \A y \in Tx : Settled(y) => Settled(y)',
         ToSet(journal') \subseteq ToSet(journal),
         accepted' \subseteq accepted \cup {x}, doubted' \subseteq doubted \cup {x},
         NEW what \in Told \ {"unsigned"}, told' = [told EXCEPT ![x] = what],
         what = "failed" => x \notin ToSet(journal')
  PROVE  OutcomesInv'
<1> USE DEF PaidInv, TraceInv, OutcomesInv
<1>1. told'[x] = what /\ \A y \in Tx \ {x} : told'[y] = told[y]
  BY DEF TypeOK
<1>2. \A y \in Tx : ~Journalled(y) => ~Journalled(y)'
  BY DEF Journalled
<1>3. UnsignedIsNowhere'
  BY <1>1, <1>2 DEF UnsignedIsNowhere, Nowhere
<1>4. FailedHasNoRecord'
  BY <1>1, <1>2 DEF FailedHasNoRecord, Journalled
<1>5. \A y \in Tx : Over(y) => Over(y)'
  BY <1>1, <1>2 DEF Over
<1>6. OnePayment'
  BY <1>1, <1>5 DEF OnePayment
<1> QED
  BY <1>3, <1>4, <1>6

\* An attempt under way is of a signed transaction that is not over.
LEMMA NotOver ==
  ASSUME PaidInv, NEW t \in Tab, call[t] # Idle
  PROVE  /\ call[t].tx \in Tx /\ told[call[t].tx] # "unsigned" /\ ~Over(call[t].tx)
         /\ told[call[t].tx] = "failed" => call[t].tx \in doubted
         /\ told' = told => told' = [told EXCEPT ![call[t].tx] = told[call[t].tx]]
BY CallTypes DEF PaidInv, TraceInv, OutcomesInv, AttemptsInv, UnsignedIsNowhere, Nowhere,
                 FailuresAreReal, Over, Settled, Sending, TypeOK

LEMMA BroadcastTxStep ==
  ASSUME PaidInv, NEW t \in Tab, NEW x \in Tx, BroadcastTx(t, x)
  PROVE  AttemptsInv' /\ OutcomesInv'
<1> USE DEF PaidInv, TraceInv, AttemptsInv, OutcomesInv
<1>1. /\ told[x] = "unsigned" /\ Nowhere(x) /\ call[t] = Idle
      /\ told' = [told EXCEPT ![x] = "unknown"] /\ accepted' = accepted /\ doubted' = doubted
      /\ call' = [call EXCEPT ![t] = [pc |-> "sending", tx |-> x, kind |-> "send"]]
  BY DEF BroadcastTx, Tell, UnsignedIsNowhere
<1>2. ToSet(journal') \subseteq ToSet(journal) \cup {x}
  BY RecordStep DEF BroadcastTx
<1>3. call'[t] # Idle /\ call'[t].tx = x /\ \A u \in Tab \ {t} : call'[u] = call[u]
  BY <1>1 DEF TypeOK, Idle
<1>4. /\ \A y \in Tx \ {x} : told'[y] = told[y] /\ (Settled(y) => Settled(y)')
                             /\ (~Journalled(y) => ~Journalled(y)')
      /\ told'[x] = "unknown"
  BY <1>1, <1>2, <1>3 DEF TypeOK, Settled, Sending, Journalled
<1>5. OneAttempt'
  BY <1>1, <1>3 DEF OneAttempt, Nowhere, Settled, Sending
<1>6. NotTakenYet'
  BY <1>1, <1>3 DEF NotTakenYet, Nowhere, TypeOK
<1>7. FailuresAreReal'
  BY <1>1, <1>4 DEF FailuresAreReal
<1>8. UnsignedIsNowhere' /\ FailedHasNoRecord'
  BY <1>1, <1>4 DEF UnsignedIsNowhere, FailedHasNoRecord, Nowhere
<1>9. \A y \in Tx \ {x} : Over(y) => Over(y)'
  BY <1>4 DEF Over
<1>10. \A y \in Tx \ {x} : PaysFor[y] = PaysFor[x] /\ told[y] # "unsigned" => Over(y)
  BY DEF BroadcastTx, MayPayAgain, Over, FailedHasNoRecord
<1>11. OnePayment'
  BY <1>4, <1>9, <1>10 DEF OnePayment
<1> QED
  BY <1>5, <1>6, <1>7, <1>8, <1>11

LEMMA RebroadcastStep ==
  ASSUME PaidInv, NEW t \in Tab, NEW x \in Tx, Rebroadcast(t, x)
  PROVE  AttemptsInv' /\ OutcomesInv'
<1> USE DEF PaidInv, TraceInv, AttemptsInv, OutcomesInv
<1>1. /\ Journalled(x) /\ call[t] = Idle
      /\ call' = [call EXCEPT ![t] = [pc |-> "sending", tx |-> x, kind |-> "resend"]]
      /\ doubted' = IF Settled(x) THEN doubted ELSE doubted \cup {x}
      /\ UNCHANGED <<journal, accepted, told, gone>>
  BY DEF Rebroadcast
<1>2. /\ call'[t].pc = "sending" /\ call'[t].kind = "resend" /\ call'[t].tx = x
      /\ \A u \in Tab \ {t} : call'[u] = call[u]
  BY <1>1 DEF TypeOK
<1>3. told[x] \notin {"unsigned", "failed"} /\ ~Over(x)
  BY <1>1 DEF UnsignedIsNowhere, FailedHasNoRecord, Nowhere, Over
<1>4. \A y \in Tx \ {x} : Settled(y) => Settled(y)'
  BY <1>2 DEF Settled, Sending
<1>5. OneAttempt'
  BY <1>1, <1>2 DEF OneAttempt, Settled, Sending
<1>6. NotTakenYet'
  BY <1>1, <1>2 DEF NotTakenYet
<1>7. FailuresAreReal'
  BY <1>1, <1>3, <1>4 DEF FailuresAreReal
<1>8. UnsignedIsNowhere' /\ FailedHasNoRecord'
  BY <1>1, <1>3, <1>4 DEF UnsignedIsNowhere, FailedHasNoRecord, Nowhere, Journalled
<1>9. OnePayment'
  BY <1>1, <1>3, <1>4 DEF OnePayment, Over, Journalled
<1> QED
  BY <1>5, <1>6, <1>7, <1>8, <1>9

\* The attempt of a tab is answered: by the node, which then has it if it said so, or by the
\* server, which leaves a doubt if it was not the first.
LEMMA AnswerStep ==
  ASSUME PaidInv, NEW t \in Tab, call[t].pc = "sending", NEW v \in Verdicts,
         call' = [call EXCEPT ![t] = [pc |-> "answered", tx |-> call[t].tx, verdict |-> v]],
         accepted \subseteq accepted', accepted' \subseteq accepted \cup {call[t].tx},
         doubted \subseteq doubted', doubted' \subseteq doubted \cup {call[t].tx},
         v \in {"reject", "refused"} => call[t].tx \notin accepted' \ doubted',
         UNCHANGED <<journal, told, gone>>
  PROVE  AttemptsInv' /\ OutcomesInv'
<1> USE DEF PaidInv, TraceInv, AttemptsInv
<1> DEFINE x == call[t].tx
           s == [pc |-> "answered", tx |-> call[t].tx, verdict |-> v]
<1>1. call[t] # Idle /\ x \in Tx
  BY CallTypes DEF Idle
<1>2. s \in CallState /\ s.tx = call[t].tx
  BY <1>1, StateTypes
<1>3. /\ OneAttempt' /\ \A y \in Tx : Settled(y) => Settled(y)'
      /\ \A u \in Tab \ {t} : call'[u] = call[u]
      /\ call'[t] = s
  <2> HIDE DEF s
  <2>1. call' = [call EXCEPT ![t] = s]
    BY DEF s
  <2> QED
    BY <2>1, <1>1, <1>2, SameAttempts
<1>4. NotTakenYet'
  <2> SUFFICES ASSUME NEW u \in Tab, call'[u] # Idle, call'[u].tx \notin doubted'
               PROVE  /\ call'[u].pc = "sending" /\ call'[u].kind = "send"
                           => call'[u].tx \notin accepted'
                      /\ call'[u].pc = "answered" /\ call'[u].verdict \in {"reject", "refused"}
                           => call'[u].tx \notin accepted'
    BY DEF NotTakenYet
  <2>1. CASE u = t
    BY <2>1, <1>3
  <2>2. CASE u # t
    <3>1. call'[u] = call[u] /\ call[u] # Idle /\ call[u].tx \in Tx \ doubted
      BY <2>2, <1>3, CallTypes
    <3>2. call[u].tx # x
      BY <2>2, <3>1, <1>1 DEF OneAttempt, Sending
    <3> QED
      BY <3>1, <3>2 DEF NotTakenYet
  <2> QED
    BY <2>1, <2>2
<1>5. told[x] # "unsigned" /\ ~Over(x) /\ (told[x] = "failed" => x \in doubted)
      /\ told' = [told EXCEPT ![x] = told[x]] /\ told[x] \in Told
  BY <1>1, NotOver DEF TypeOK
<1> HIDE DEF x
<1>6. FailuresAreReal'
  BY <1>1, <1>3, <1>5 DEF FailuresAreReal, x
<1>7. OutcomesInv'
  <2>1. told[x] = "failed" => x \notin ToSet(journal')
    BY <1>1 DEF OutcomesInv, FailedHasNoRecord, Journalled
  <2> QED
    BY <1>1, <1>3, <1>5, <2>1, OutcomesKept DEF x
<1> QED
  BY <1>3, <1>4, <1>6, <1>7

LEMMA NodeAnswersStep ==
  ASSUME PaidInv, NEW t \in Tab, NodeAnswers(t)
  PROVE  AttemptsInv' /\ OutcomesInv'
<1>1. PICK v \in NodeVerdicts(call[t].tx) :
        /\ call' = [call EXCEPT ![t] = [pc |-> "answered", tx |-> call[t].tx, verdict |-> v]]
        /\ accepted' = IF v = "txid" THEN accepted \cup {call[t].tx} ELSE accepted
  BY DEF NodeAnswers
<1>2. v \in Verdicts /\ (v \in {"reject", "refused"} => call[t].tx \notin accepted /\ v # "txid")
  BY DEF NodeVerdicts, Verdicts
<1>3. call[t].pc = "sending" /\ UNCHANGED <<journal, told, gone, doubted>>
  BY DEF NodeAnswers
<1> QED
  BY <1>1, <1>2, <1>3, AnswerStep

LEMMA ServerRefusesStep ==
  ASSUME PaidInv, NEW t \in Tab, ServerRefuses(t)
  PROVE  AttemptsInv' /\ OutcomesInv'
<1>1. /\ call[t].pc = "sending" /\ call[t] # Idle /\ "refused" \in Verdicts
      /\ call' = [call EXCEPT ![t] = [pc |-> "answered", tx |-> call[t].tx, verdict |-> "refused"]]
      /\ doubted' = IF call[t].kind = "send" THEN doubted ELSE doubted \cup {call[t].tx}
      /\ UNCHANGED <<journal, accepted, told, gone>>
  BY DEF ServerRefuses, Verdicts, Idle
<1>2. call[t].tx \notin accepted' \ doubted'
  BY <1>1 DEF PaidInv, AttemptsInv, NotTakenYet
<1> QED
  BY <1>1, <1>2, AnswerStep

\* The end of an attempt: with the record dropped and a verdict told, or without.
LEMMA EndStep ==
  ASSUME PaidInv, NEW t \in Tab, call[t] # Idle, NEW what \in Told,
         call' = [call EXCEPT ![t] = Idle], told' = [told EXCEPT ![call[t].tx] = what],
         what # "unsigned", UNCHANGED <<accepted, gone, doubted>>,
         ToSet(journal') \subseteq ToSet(journal),
         what = "failed" => call[t].tx \notin accepted \ doubted /\ call[t].tx \notin ToSet(journal')
  PROVE  AttemptsInv' /\ OutcomesInv'
<1> USE DEF PaidInv, TraceInv, AttemptsInv
<1>0. PICK x \in Tx : x = call[t].tx
  BY CallTypes
<1>1. told'[x] = what /\ \A y \in Tx \ {x} : told'[y] = told[y]
  BY <1>0 DEF TypeOK
<1>2. /\ OneAttempt' /\ \A y \in Tx : Settled(y) => Settled(y)'
      /\ \A u \in Tab \ {t} : call'[u] = call[u]
      /\ call'[t] = Idle
  BY SameAttempts, StateTypes
<1>3. NotTakenYet'
  BY <1>2 DEF NotTakenYet
<1>4. x \notin doubted => Settled(x)'
  BY <1>0, <1>2 DEF OneAttempt, Settled, Sending
<1>5. FailuresAreReal'
  BY <1>0, <1>1, <1>2, <1>4 DEF FailuresAreReal
<1>6. OutcomesInv'
  BY <1>0, <1>2, NotOver, OutcomesKept
<1> QED
  BY <1>2, <1>3, <1>5, <1>6

LEMMA ClassifyStep ==
  ASSUME PaidInv, NEW t \in Tab, Classify(t)
  PROVE  AttemptsInv' /\ OutcomesInv'
<1> USE DEF PaidInv, TraceInv
<1>1. call[t] # Idle /\ call[t].tx \in Tx /\ call[t].verdict \in Verdicts
  BY CallTypes DEF Classify, Idle
<1>2. ToSet(journal') = ToSet(journal) \ {call[t].tx}
  BY <1>1, DropStep DEF Classify
<1>3. Meaning(call[t].verdict) \in {"sent", "spent", "failed"}
  BY <1>1, MeaningTypes
<1>4. Meaning(call[t].verdict) = "failed" => call[t].verdict \in {"reject", "refused"}
  BY <1>1 DEF Meaning, Verdicts
<1>5. Meaning(call[t].verdict) = "failed" => call[t].tx \notin accepted \ doubted
  BY <1>1, <1>4 DEF AttemptsInv, NotTakenYet, Classify
<1> QED
  BY <1>1, <1>2, <1>3, <1>5, EndStep DEF Classify, Tell, Told

LEMMA NoAnswerStep ==
  ASSUME PaidInv, NEW t \in Tab, NoAnswer(t)
  PROVE  AttemptsInv' /\ OutcomesInv'
BY EndStep DEF NoAnswer, FailAmbiguous, Tell, Told

LEMMA CrashStep ==
  ASSUME PaidInv, NEW t \in Tab, Crash(t)
  PROVE  AttemptsInv' /\ OutcomesInv'
<1> USE DEF PaidInv, TraceInv, AttemptsInv
<1>1. /\ OneAttempt' /\ \A y \in Tx : Settled(y) => Settled(y)'
      /\ \A u \in Tab \ {t} : call'[u] = call[u]
      /\ call'[t] = Idle /\ UNCHANGED <<journal, accepted, told, gone, doubted>>
  BY SameAttempts, StateTypes DEF Crash
<1>2. NotTakenYet' /\ FailuresAreReal'
  BY <1>1 DEF NotTakenYet, FailuresAreReal
<1>3. OutcomesInv'
  BY <1>1 DEF OutcomesInv, UnsignedIsNowhere, FailedHasNoRecord, OnePayment, Nowhere, Over,
              Journalled
<1> QED
  BY <1>1, <1>2, <1>3

\* The recovery card, which only looks at records.
LEMMA CardStep ==
  ASSUME PaidInv, NEW x \in Tx, CheckStatus(x) \/ DeleteSaved(x)
  PROVE  AttemptsInv' /\ OutcomesInv'
<1> USE DEF PaidInv, TraceInv
<1>1. /\ told[x] \notin {"unsigned", "failed"} /\ ~Over(x)
      /\ UNCHANGED <<call, accepted, doubted>>
      /\ ToSet(journal') \subseteq ToSet(journal)
  BY DropStep DEF CheckStatus, DeleteSaved, OutcomesInv, UnsignedIsNowhere, FailedHasNoRecord,
                  Nowhere, Over
<1>2. PICK what \in Told \ {"unsigned", "failed"} : told' = [told EXCEPT ![x] = what]
  <2>1. told' = [told EXCEPT ![x] = "sent"] \/ told' = [told EXCEPT ![x] = told[x]]
    BY DEF CheckStatus, DeleteSaved, Tell, TypeOK
  <2> QED
    BY <1>1, <2>1 DEF TypeOK, Told
<1>3. told'[x] # "failed" /\ \A y \in Tx \ {x} : told'[y] = told[y]
  BY <1>2 DEF TypeOK
<1>4. AttemptsInv'
  BY <1>1, <1>3 DEF AttemptsInv, OneAttempt, NotTakenYet, FailuresAreReal, Settled, Sending
<1>5. \A y \in Tx : Settled(y) => Settled(y)'
  BY <1>1 DEF Settled, Sending
<1>6. OutcomesInv'
  BY <1>1, <1>2, <1>5, OutcomesKept
<1> QED
  BY <1>4, <1>6

LEMMA PaidStep ==
  ASSUME PaidInv, [Next]_broadcastVars
  PROVE  PaidInv'
<1>1. TraceInv'
  BY TraceStep DEF PaidInv
<1>2. CASE UNCHANGED broadcastVars
  BY <1>1, <1>2 DEF PaidInv, broadcastVars, AttemptsInv, OutcomesInv, Journalled, OneAttempt,
              NotTakenYet, FailuresAreReal, UnsignedIsNowhere, FailedHasNoRecord, Nowhere, Settled,
              Sending, Over, OnePayment
<1>3. CASE Next
  BY <1>1, <1>3, BroadcastTxStep, RebroadcastStep, NodeAnswersStep, ServerRefusesStep,
     ClassifyStep, NoAnswerStep, CrashStep, CardStep DEF Next, PaidInv
<1> QED
  BY <1>2, <1>3

LEMMA PaidInit == Init => PaidInv
<1> SUFFICES ASSUME Init PROVE PaidInv
  OBVIOUS
<1>1. TraceInv
  BY TypesInit DEF TraceInv, Init, TraceIsKept
<1> QED
  BY <1>1 DEF Init, PaidInv, AttemptsInv, OutcomesInv, OneAttempt, NotTakenYet, FailuresAreReal,
              UnsignedIsNowhere, FailedHasNoRecord, Nowhere, Settled, Sending, Over, Journalled,
              ToSet, OnePayment

\* The invariant holds from the start and every step keeps it.
THEOREM PaidAlways == Spec => []PaidInv
BY PaidInit, PaidStep, PTL DEF Spec

\* A payment goes through once, for any number of tabs, payments and contended coins, for
\* refusals and retries at any time (app.js sendAndClassify, Rebroadcast): of two accepted
\* transactions for it, the wallet lost sight of one before an answer came, or reported its
\* failure on a retry that the server refused or that overlapped another attempt.
THEOREM PaymentsAreMadeOnce == Spec => []PaidOnce
<1>1. ASSUME PaidInv PROVE PaidOnce
  <2> SUFFICES ASSUME NEW x \in accepted, NEW y \in accepted, x # y, PaysFor[x] = PaysFor[y]
               PROVE  \E z \in {x, y} : LostSight(z) \/ Misreported(z)
    BY DEF PaidOnce
  <2>1. x \in Tx /\ y \in Tx
    BY <1>1 DEF PaidInv, TraceInv, TypeOK
  <2>2. PICK z \in {x, y} : Over(z)
    BY <1>1, <2>1 DEF PaidInv, OutcomesInv, OnePayment, UnsignedIsNowhere, Nowhere
  <2>3. CASE told[z] = "unknown"
    BY <1>1, <2>1, <2>2, <2>3 DEF PaidInv, TraceInv, TraceIsKept, Over, Journalled, LostSight
  <2>4. CASE told[z] = "failed"
    BY <1>1, <2>1, <2>2, <2>4 DEF PaidInv, AttemptsInv, FailuresAreReal, Misreported
  <2> QED
    BY <2>2, <2>3, <2>4 DEF Over
<1> QED
  BY PaidAlways, <1>1, PTL

\* What the wallet calls failed is not in the node's mempool or chain (app.js broadcastTx,
\* dderrors.js classifyBroadcastError), after any lost answers, crashes and retries: the
\* exceptions are a retry that the server refused, and attempts that overlapped.
THEOREM FailuresWereNotSent == Spec => []FailedIsUnsent
<1>1. PaidInv => FailedIsUnsent
  BY DEF PaidInv, AttemptsInv, FailuresAreReal, FailedIsUnsent
<1> QED
  BY PaidAlways, <1>1, PTL
=============================================================================
