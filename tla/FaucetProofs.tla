---------------------------- MODULE FaucetProofs ----------------------------
(* Theorems about Faucet, for any claims, addresses, IPs and cooldown. *)
EXTENDS Faucet, SequenceTheorems, TLAPS

USE FaucetConstants

(***************************************************************************)
(* Type correctness                                                        *)
(***************************************************************************)

LEMMA LedgerTypes ==
  ASSUME NEW b \in [Written -> Nat], NEW i \in [Ip -> Nat]
  PROVE  [byAddress |-> b, byIp |-> i] \in Ledger
BY DEF Ledger

LEMMA StateTypes ==
  /\ Idle \in ClaimState
  /\ \A a \in Written, i \in Ip, w \in Waiting :
       [pc |-> w, address |-> a, ip |-> i] \in ClaimState
  /\ \A a \in Written, i \in Ip, n \in Nat :
       [pc |-> "paid", address |-> a, ip |-> i, payout |-> n] \in ClaimState
BY DEF Idle, ClaimState

\* A claim being served has an address and an IP, and a payout once it has one.
LEMMA ServedTypes ==
  ASSUME TypeOK, NEW c \in Claim, claim[c].pc \in Waiting \cup {"paid"}
  PROVE  /\ claim[c].address \in Written /\ claim[c].ip \in Ip
         /\ At(c, "paid") => claim[c].payout \in Nat
<1>1. claim[c] \in ClaimState
  BY DEF TypeOK
<1>2. QED
  BY <1>1 DEF ClaimState, Waiting, At

LEMMA GotoType ==
  ASSUME TypeOK, NEW c \in Claim, NEW s \in ClaimState, Goto(c, s)
  PROVE  claim' \in [Claim -> ClaimState]
BY DEF TypeOK, Goto

LEMMA KeysType ==
  ASSUME NEW a \in Written, NEW i \in Ip
  PROVE  Keys(a, i) \subseteq ({"a"} \X Written) \cup ({"i"} \X Ip)
BY DEF Keys

LEMMA LowerType == \A w \in Written : Lower(w) \in Written /\ ~Lower(w).upper
BY DEF Lower, Written

LEMMA StampedType ==
  ASSUME TypeOK, NEW c \in Claim, claim[c].pc \in Waiting \cup {"paid"}
  PROVE  Stamped(c) \in Ledger
<1>1. claims.byAddress \in [Written -> Nat] /\ claims.byIp \in [Ip -> Nat] /\ clock \in Nat
  BY DEF TypeOK, Ledger
<1>2. QED
  BY <1>1, LedgerTypes, ServedTypes DEF Stamped

LEMMA AppendType ==
  ASSUME TypeOK, NEW p \in Payout
  PROVE  /\ Append(payouts, p) \in Seq(Payout)
         /\ Len(Append(payouts, p)) = Len(payouts) + 1
         /\ \A i \in 1..Len(payouts) : Append(payouts, p)[i] = payouts[i]
         /\ Append(payouts, p)[Len(payouts) + 1] = p
BY DEF TypeOK

\* Marking a payout answered leaves every other field and payout alone.
LEMMA AnswerType ==
  ASSUME TypeOK, NEW n,
         payouts' = [payouts EXCEPT ![n] = [@ EXCEPT !.answered = TRUE]]
  PROVE  /\ payouts' \in Seq(Payout)
         /\ Len(payouts') = Len(payouts)
         /\ \A i \in 1..Len(payouts) :
              payouts'[i] = IF i = n THEN [payouts[i] EXCEPT !.answered = TRUE] ELSE payouts[i]
<1>1. payouts \in Seq(Payout) /\ payouts \in [1..Len(payouts) -> Payout]
  BY DEF TypeOK
<1> DEFINE e == [payouts[n] EXCEPT !.answered = TRUE]
<1>2. CASE n \in 1..Len(payouts)
  <2>1. e \in Payout
    BY <1>1, <1>2 DEF Payout
  <2>2. payouts' = [payouts EXCEPT ![n] = e]
    OBVIOUS
  <2>3. \A i \in 1..Len(payouts) :
          (IF i = n THEN e ELSE payouts[i])
            = (IF i = n THEN [payouts[i] EXCEPT !.answered = TRUE] ELSE payouts[i])
    BY Zenon
  <2> HIDE DEF e
  <2>4. /\ payouts' \in Seq(Payout)
        /\ Len(payouts') = Len(payouts)
        /\ \A i \in 1..Len(payouts) : payouts'[i] = IF i = n THEN e ELSE payouts[i]
    <3>1. /\ [payouts EXCEPT ![n] = e] \in Seq(Payout)
          /\ Len([payouts EXCEPT ![n] = e]) = Len(payouts)
          /\ \A i \in 1..Len(payouts) :
               [payouts EXCEPT ![n] = e][i] = IF i = n THEN e ELSE payouts[i]
      <4> DEFINE q == payouts
      <4>1. q \in Seq(Payout) /\ n \in 1..Len(q)
        BY <1>1, <1>2
      <4> HIDE DEF q
      <4>2. [q EXCEPT ![n] = e] \in Seq(Payout) /\ Len([q EXCEPT ![n] = e]) = Len(q)
        BY <4>1, <2>1, ExceptSeq
      <4>3. \A i \in 1..Len(q) : [q EXCEPT ![n] = e][i] = IF i = n THEN e ELSE q[i]
        BY <4>1, <2>1, ExceptSeq
      <4>4. QED
        BY <4>2, <4>3 DEF q
    <3>2. QED
      BY <2>2, <3>1, Zenon
  <2>5. SUFFICES ASSUME NEW i \in 1..Len(payouts)
                 PROVE  payouts'[i] = IF i = n THEN [payouts[i] EXCEPT !.answered = TRUE]
                                               ELSE payouts[i]
    BY <2>4, Zenon
  <2>6. payouts'[i] = IF i = n THEN e ELSE payouts[i]
    BY <2>4
  <2>7. QED
    BY <2>3, <2>6, Zenon
<1>3. CASE n \notin 1..Len(payouts)
  <2>1. payouts' = payouts
    BY <1>1, <1>3
  <2>2. QED
    BY <1>1, <1>3, <2>1
<1>4. QED
  BY <1>2, <1>3

LEMMA TypeStep == TypeOK /\ [Next]_faucetVars => TypeOK'
<1> SUFFICES ASSUME TypeOK, [Next]_faucetVars PROVE TypeOK'
  OBVIOUS
<1>1. ASSUME NEW c \in Claim, NEW w \in Written, NEW i \in Ip, Accept(c, w, i) PROVE TypeOK'
  <2>1. Lower(w) \in Written
    BY LowerType
  <2>2. claim' \in [Claim -> ClaimState]
    BY <1>1, <2>1, StateTypes, GotoType DEF Accept, Waiting
  <2>3. QED
    BY <1>1, <2>1, <2>2, KeysType DEF Accept, TypeOK
<1>2. ASSUME NEW c \in Claim, OraclePriced(c) PROVE TypeOK'
  <2>1. claim' \in [Claim -> ClaimState]
    BY <1>2, ServedTypes, StateTypes, GotoType DEF OraclePriced, At, Waiting
  <2>2. QED
    BY <1>2, <2>1 DEF OraclePriced, TypeOK
<1>3. ASSUME NEW c \in Claim, NoPrice(c) PROVE TypeOK'
  BY <1>3, StateTypes, GotoType DEF NoPrice, Release, TypeOK
<1>4. ASSUME NEW c \in Claim, NodePays(c) PROVE TypeOK'
  <2>1. claim[c].address \in Written /\ claim[c].ip \in Ip
    BY <1>4, ServedTypes DEF NodePays, At, Waiting
  <2>2. Len(payouts) + 1 \in Nat
    BY DEF TypeOK
  <2>3. claim' \in [Claim -> ClaimState]
    BY <1>4, <2>1, <2>2, StateTypes, GotoType DEF NodePays
  <2>4. [address |-> claim[c].address.of, ip |-> claim[c].ip, at |-> clock,
         answered |-> FALSE, late |-> FALSE] \in Payout
    BY <2>1 DEF Payout, Written, TypeOK
  <2>5. payouts' \in Seq(Payout)
    BY <1>4, <2>4, AppendType DEF NodePays
  <2>6. QED
    BY <1>4, <2>3, <2>5 DEF NodePays, TypeOK
<1>5. ASSUME NEW c \in Claim, Record(c) PROVE TypeOK'
  <2>1. Stamped(c) \in Ledger
    BY <1>5, StampedType DEF Record, At
  <2>2. claim' \in [Claim -> ClaimState]
    BY <1>5, StateTypes, GotoType DEF Record
  <2>3. payouts' \in Seq(Payout)
    <3>1. CASE UNCHANGED payouts
      BY <3>1 DEF TypeOK
    <3>2. CASE payouts' = [payouts EXCEPT ![claim[c].payout] = [@ EXCEPT !.answered = TRUE]]
      BY <3>2, AnswerType
    <3>3. QED
      BY <1>5, <3>1, <3>2 DEF Record
  <2>4. QED
    BY <1>5, <2>1, <2>2, <2>3 DEF Record, Release, TypeOK
<1>6. ASSUME NEW c \in Claim, RpcFails(c) PROVE TypeOK'
  <2>1. claim' \in [Claim -> ClaimState]
    BY <1>6, StateTypes, GotoType DEF RpcFails
  <2>2. late' \subseteq [address: Address, ip: Ip]
    BY <1>6, ServedTypes DEF RpcFails, TypeOK, Written
  <2>3. QED
    BY <1>6, <2>1, <2>2 DEF RpcFails, Release, TypeOK
<1>7. ASSUME NEW l \in late, NodePaysLate(l) PROVE TypeOK'
  <2>1. [address |-> l.address, ip |-> l.ip, at |-> clock,
         answered |-> FALSE, late |-> TRUE] \in Payout
    BY DEF TypeOK, Payout
  <2>2. payouts' \in Seq(Payout)
    BY <1>7, <2>1, AppendType DEF NodePaysLate
  <2>3. QED
    BY <1>7, <2>2 DEF NodePaysLate, TypeOK
<1>8. ASSUME Crash PROVE TypeOK'
  <2>1. file' \in Ledger \cup {Torn}
    BY <1>8 DEF Crash, TypeOK
  <2>2. NoClaims \in Ledger
    BY DEF NoClaims, Ledger
  <2>3. claims' \in Ledger
    BY <1>8, <2>1, <2>2 DEF Crash, LoadClaims
  <2>4. late' \subseteq [address: Address, ip: Ip]
    <3>1. \A d \in Claim : At(d, "send") =>
            [address |-> claim[d].address.of, ip |-> claim[d].ip] \in [address: Address, ip: Ip]
      BY ServedTypes DEF At, Waiting, Written
    <3>2. QED
      BY <1>8, <3>1 DEF Crash, TypeOK
  <2>5. QED
    BY <1>8, <2>1, <2>3, <2>4, StateTypes DEF Crash, TypeOK
<1>9. ASSUME Tick PROVE TypeOK'
  BY <1>9 DEF Tick, TypeOK
<1>10. CASE UNCHANGED faucetVars
  BY <1>10 DEF faucetVars, TypeOK
<1>11. QED
  BY <1>1, <1>2, <1>3, <1>4, <1>5, <1>6, <1>7, <1>8, <1>9, <1>10 DEF Next, Serve

LEMMA TypeInit == Init => TypeOK
<1> SUFFICES ASSUME Init PROVE TypeOK
  OBVIOUS
<1>1. NoClaims \in Ledger
  BY DEF NoClaims, Ledger
<1>2. QED
  BY <1>1, StateTypes DEF Init, TypeOK

\* Whatever claims interleave and whatever fails, ledger, claims and payouts keep
\* their types.
THEOREM TypeCorrect == Spec => []TypeOK
BY TypeInit, TypeStep, PTL DEF Spec

(***************************************************************************)
(* Answered claims are honoured, unless a write of the file can be torn    *)
(*                                                                         *)
(* The property alone is not inductive: it says nothing of the claims that *)
(* are still to be paid.  What carries it is that the locks keep related   *)
(* claims apart while one is being served (Held, Apart), that the ledger,  *)
(* in memory and on disk, dates every answered dispense (Covered), so that *)
(* a claim is accepted only past the cooldown (Cooled), and that nothing   *)
(* related is dispensed between a payment and its record (Unrivalled).     *)
(***************************************************************************)

Served(c) == claim[c].pc \in Waiting \cup {"paid"}
Reaches(c, p) == claim[c].address.of = p.address \/ claim[c].ip = p.ip

Covered(ledger) ==
  \A i \in 1..Len(payouts) : payouts[i].answered =>
    /\ payouts[i].at <= ledger.byAddress[[of |-> payouts[i].address, upper |-> FALSE]]
    /\ payouts[i].at <= ledger.byIp[payouts[i].ip]

Past == \A i \in 1..Len(payouts) : payouts[i].at <= clock

Held == \A c \in Claim : Served(c) => ~claim[c].address.upper /\ Locks(c) \subseteq inFlight

Apart ==
  \A c, d \in Claim : c # d /\ Served(c) /\ Served(d) =>
    claim[c].address.of # claim[d].address.of /\ claim[c].ip # claim[d].ip

Cooled ==
  \A c \in Claim, i \in 1..Len(payouts) :
    claim[c].pc \in Waiting /\ payouts[i].answered /\ Reaches(c, payouts[i])
      => payouts[i].at + Cooldown <= clock

Unrivalled ==
  \A c \in Claim : At(c, "paid") =>
    /\ claim[c].payout \in 1..Len(payouts)
    /\ payouts[claim[c].payout].address = claim[c].address.of
    /\ payouts[claim[c].payout].ip = claim[c].ip
    /\ \A j \in 1..Len(payouts) :
         j > claim[c].payout => payouts[j].late \/ ~Reaches(c, payouts[j])

HonourInv ==
  /\ TypeOK
  /\ file \in Ledger
  /\ Covered(claims) /\ Covered(file)
  /\ Past /\ Held /\ Apart /\ Cooled /\ Unrivalled
  /\ AnsweredIsHonoured

LEMMA PayoutTypes ==
  ASSUME TypeOK, NEW i \in 1..Len(payouts)
  PROVE  /\ payouts[i] \in Payout
         /\ payouts[i].address \in Address /\ payouts[i].ip \in Ip
         /\ payouts[i].at \in Nat /\ payouts[i].answered \in BOOLEAN
<1>1. payouts[i] \in Payout
  BY DEF TypeOK
<1>2. QED
  BY <1>1 DEF Payout

LEMMA AnswerFields ==
  ASSUME TypeOK, NEW n,
         payouts' = [payouts EXCEPT ![n] = [@ EXCEPT !.answered = TRUE]]
  PROVE  /\ Len(payouts') = Len(payouts)
         /\ \A i \in 1..Len(payouts) :
              /\ payouts'[i].address = payouts[i].address
              /\ payouts'[i].ip = payouts[i].ip
              /\ payouts'[i].at = payouts[i].at
              /\ payouts'[i].late = payouts[i].late
              /\ payouts'[i].answered => payouts[i].answered \/ i = n
<1>1. Len(payouts') = Len(payouts)
  BY AnswerType
<1>2. ASSUME NEW i \in 1..Len(payouts)
      PROVE  /\ payouts'[i].address = payouts[i].address
             /\ payouts'[i].ip = payouts[i].ip
             /\ payouts'[i].at = payouts[i].at
             /\ payouts'[i].late = payouts[i].late
             /\ payouts'[i].answered => payouts[i].answered \/ i = n
  <2>1. payouts[i] \in Payout
    BY PayoutTypes
  <2>2. payouts'[i] = IF i = n THEN [payouts[i] EXCEPT !.answered = TRUE] ELSE payouts[i]
    BY AnswerType
  <2>3. QED
    BY <2>1, <2>2 DEF Payout
<1>3. QED
  BY <1>1, <1>2

LEMMA GotoFrame ==
  ASSUME TypeOK, NEW c \in Claim, NEW s, Goto(c, s)
  PROVE  claim'[c] = s /\ \A d \in Claim : d # c => claim'[d] = claim[d]
BY DEF TypeOK, Goto

\* What is appended is the last payout and moves no other.
LEMMA AppendFrame ==
  ASSUME TypeOK, NEW p \in Payout, payouts' = Append(payouts, p)
  PROVE  /\ Len(payouts') = Len(payouts) + 1
         /\ Len(payouts) \in Nat
         /\ payouts'[Len(payouts) + 1] = p
         /\ \A i \in 1..Len(payouts) : payouts'[i] = payouts[i]
         /\ \A i \in 1..Len(payouts') : i \in 1..Len(payouts) \/ i = Len(payouts) + 1
BY AppendType DEF TypeOK

LEMMA HonourInit == Init => HonourInv
<1> SUFFICES ASSUME Init PROVE HonourInv
  OBVIOUS
<1>1. TypeOK
  BY TypeInit
<1>2. NoClaims \in Ledger
  BY DEF NoClaims, Ledger
<1>3. \A c \in Claim : claim[c].pc = "idle"
  BY DEF Init, Idle
<1>4. Held /\ Apart /\ Cooled /\ Unrivalled
  BY <1>3 DEF Held, Apart, Cooled, Unrivalled, Served, Waiting, At
<1>5. Len(payouts) = 0
  BY DEF Init
<1>6. Covered(claims) /\ Covered(file) /\ Past /\ AnsweredIsHonoured
  BY <1>5 DEF Covered, Past, AnsweredIsHonoured
<1>7. QED
  BY <1>1, <1>2, <1>4, <1>6 DEF Init, HonourInv

\* A claim is accepted apart from those being served and past the cooldown of every
\* answered dispense it is related to.
LEMMA HonourAccept ==
  ASSUME HonourInv, NEW c \in Claim, NEW w \in Written, NEW i \in Ip, Accept(c, w, i)
  PROVE  HonourInv'
<1> DEFINE address == Lower(w)
<1>1. TypeOK /\ TypeOK'
  BY TypeStep DEF HonourInv, Next
<1>2. address \in Written /\ ~address.upper
  BY LowerType
<1>3. /\ claim'[c] = [pc |-> "oracle", address |-> address, ip |-> i]
      /\ \A d \in Claim : d # c => claim'[d] = claim[d]
  BY <1>1, GotoFrame DEF Accept
<1>4. inFlight' = inFlight \cup Keys(address, i) /\ Keys(address, i) \cap inFlight = {}
  BY DEF Accept
<1>5. Held'
  BY <1>2, <1>3, <1>4 DEF HonourInv, Held, Served, Locks
<1>6. ASSUME NEW d \in Claim, d # c, Served(d)
      PROVE  claim[d].address.of # address.of /\ claim[d].ip # i
  <2>1. Keys(claim[d].address, claim[d].ip) \cap Keys(address, i) = {}
    BY <1>4, <1>6 DEF HonourInv, Held, Locks
  <2>2. claim[d].address # address /\ claim[d].ip # i
    BY <2>1 DEF Keys
  <2>3. claim[d].address \in Written /\ ~claim[d].address.upper
    BY <1>1, <1>6, ServedTypes DEF Served, HonourInv, Held
  <2>4. QED
    BY <1>2, <2>2, <2>3 DEF Written
<1>7. Apart'
  BY <1>3, <1>6 DEF HonourInv, Apart, Served
<1>8. ASSUME NEW k \in 1..Len(payouts), payouts[k].answered,
             payouts[k].address = address.of \/ payouts[k].ip = i
      PROVE  payouts[k].at + Cooldown <= clock
  <2>1. address = [of |-> address.of, upper |-> FALSE]
    BY <1>2 DEF Written
  <2>2. payouts[k].at <= claims.byAddress[address] \/ payouts[k].at <= claims.byIp[i]
    BY <1>8, <2>1 DEF HonourInv, Covered
  <2>3. claims.byAddress[address] \in Nat /\ claims.byIp[i] \in Nat /\ clock \in Nat
    BY <1>1, <1>2 DEF TypeOK, Ledger
  <2>4. ~(LaterOf(claims.byAddress[address], claims.byIp[i]) > clock - Cooldown)
    BY DEF Accept, CoolingDown
  <2>5. payouts[k].at \in Nat
    BY <1>1, PayoutTypes
  <2>6. QED
    BY <2>2, <2>3, <2>4, <2>5 DEF LaterOf
<1>9. Cooled'
  BY <1>3, <1>8 DEF HonourInv, Cooled, Reaches, Accept
<1>10. Unrivalled'
  BY <1>3 DEF HonourInv, Unrivalled, Reaches, At, Accept
<1>11. UNCHANGED <<clock, claims, file, payouts>>
  BY DEF Accept
<1>12. Covered(claims)' /\ Covered(file)' /\ Past' /\ AnsweredIsHonoured' /\ file' \in Ledger
  BY <1>11 DEF HonourInv, Covered, Past, AnsweredIsHonoured
<1>13. QED
  BY <1>1, <1>5, <1>7, <1>9, <1>10, <1>12 DEF HonourInv

\* Steps that leave clock, ledgers and payouts alone, and give a claim no new part.
LEMMA HonourQuiet ==
  ASSUME HonourInv, TypeOK', NEW c \in Claim, UNCHANGED <<clock, claims, file, payouts>>,
         \A d \in Claim : d # c => claim'[d] = claim[d],
         \/ claim'[c] = Idle /\ inFlight' = inFlight \ Locks(c)
         \/ /\ claim[c].pc \in Waiting /\ claim'[c].pc \in Waiting
            /\ claim'[c].address = claim[c].address /\ claim'[c].ip = claim[c].ip
            /\ UNCHANGED inFlight,
         Served(c)
  PROVE  HonourInv'
<1>1. Covered(claims)' /\ Covered(file)' /\ Past' /\ AnsweredIsHonoured' /\ file' \in Ledger
  BY DEF HonourInv, Covered, Past, AnsweredIsHonoured
<1>2. Apart'
  BY DEF HonourInv, Apart, Served, Idle, Waiting
<1>3. Cooled'
  BY DEF HonourInv, Cooled, Reaches, Idle, Waiting
<1>4. Unrivalled'
  BY DEF HonourInv, Unrivalled, Reaches, At, Idle, Waiting
<1>5. ASSUME NEW d \in Claim, d # c, Served(d)
      PROVE  Locks(d) \cap Locks(c) = {}
  BY <1>5 DEF HonourInv, Apart, Locks, Keys
<1>6. Held'
  BY <1>5 DEF HonourInv, Held, Served, Locks, Idle, Waiting
<1>7. QED
  BY <1>1, <1>2, <1>3, <1>4, <1>6 DEF HonourInv

\* The node pays a claim being served: related to no other, and cooled.
LEMMA HonourPays ==
  ASSUME HonourInv, NEW c \in Claim, NodePays(c)
  PROVE  HonourInv'
<1> DEFINE n == Len(payouts) + 1
           p == [address |-> claim[c].address.of, ip |-> claim[c].ip, at |-> clock,
                 answered |-> FALSE, late |-> FALSE]
<1>1. TypeOK /\ TypeOK'
  BY TypeStep DEF HonourInv, Next, Serve
<1>2. claim[c].pc = "send" /\ claim[c].address \in Written /\ claim[c].ip \in Ip
  BY <1>1, ServedTypes DEF NodePays, At, Waiting
<1>3. p \in Payout
  BY <1>1, <1>2 DEF Payout, Written, TypeOK
<1>4. /\ Len(payouts') = n /\ Len(payouts) \in Nat /\ payouts'[n] = p
      /\ \A i \in 1..Len(payouts) : payouts'[i] = payouts[i]
      /\ \A i \in 1..Len(payouts') : i \in 1..Len(payouts) \/ i = n
  BY <1>1, <1>3, AppendFrame DEF NodePays
<1>5. /\ claim'[c] = [pc |-> "paid", address |-> claim[c].address, ip |-> claim[c].ip,
                      payout |-> n]
      /\ \A d \in Claim : d # c => claim'[d] = claim[d]
  BY <1>1, GotoFrame DEF NodePays
<1>6. p.answered = FALSE /\ p.at = clock /\ p.address = claim[c].address.of /\ p.ip = claim[c].ip
  OBVIOUS
<1> HIDE DEF p
<1>7. UNCHANGED <<clock, claims, file, inFlight>> /\ clock \in Nat
  BY <1>1 DEF NodePays, TypeOK
<1>8. Covered(claims)' /\ Covered(file)' /\ Past'
  BY <1>4, <1>6, <1>7 DEF HonourInv, Covered, Past
<1>9. Held' /\ Apart'
  BY <1>2, <1>5, <1>7 DEF HonourInv, Held, Apart, Served, Locks, Waiting
<1>10. Cooled'
  <2>1. ASSUME NEW d \in Claim, NEW i \in 1..Len(payouts'), claim'[d].pc \in Waiting,
               payouts'[i].answered, Reaches(d, payouts[i])'
        PROVE  payouts'[i].at + Cooldown <= clock'
    <3>1. d # c /\ claim'[d] = claim[d]
      BY <1>5, <2>1 DEF Waiting
    <3>2. i \in 1..Len(payouts) /\ payouts'[i] = payouts[i]
      BY <1>4, <1>6, <2>1
    <3>3. QED
      BY <1>7, <2>1, <3>1, <3>2 DEF HonourInv, Cooled, Reaches
  <2>2. QED
    BY <2>1 DEF Cooled
<1>11. Unrivalled'
  <2>1. ASSUME NEW d \in Claim, At(d, "paid"), d # c
        PROVE  ~Reaches(d, p)
    BY <1>2, <1>6, <2>1 DEF HonourInv, Apart, Served, Reaches, At, Waiting
  <2>2. ASSUME NEW d \in Claim, claim'[d].pc = "paid", d # c
        PROVE  /\ claim'[d].payout \in 1..Len(payouts')
               /\ payouts'[claim'[d].payout].address = claim'[d].address.of
               /\ payouts'[claim'[d].payout].ip = claim'[d].ip
               /\ \A j \in 1..Len(payouts') :
                    j > claim'[d].payout => payouts'[j].late \/ ~Reaches(d, payouts[j])'
    <3>1. At(d, "paid") /\ claim'[d] = claim[d]
      BY <1>5, <2>2 DEF At
    <3>2. QED
      BY <1>4, <2>1, <2>2, <3>1 DEF HonourInv, Unrivalled, Reaches
  <2>3. QED
    BY <1>4, <1>5, <1>6, <2>2 DEF Unrivalled, At
<1>12. AnsweredIsHonoured'
  <2>1. ASSUME NEW i \in 1..Len(payouts'), NEW j \in 1..Len(payouts'), i < j,
               payouts'[i].answered, ~payouts'[j].late, Related(payouts'[i], payouts'[j])
        PROVE  payouts'[j].at >= payouts'[i].at + Cooldown
    <3>1. i \in 1..Len(payouts) /\ payouts'[i] = payouts[i]
      BY <1>4, <1>6, <2>1
    <3>2. CASE j = n
      <4>1. payouts[i].at + Cooldown <= clock
        BY <1>2, <1>4, <1>6, <2>1, <3>1, <3>2
           DEF HonourInv, Cooled, Reaches, Related, Waiting
      <4>2. QED
        BY <1>1, <1>4, <1>6, <1>7, <3>1, <3>2, <4>1, PayoutTypes
    <3>3. CASE j # n
      BY <1>4, <2>1, <3>1, <3>3 DEF HonourInv, AnsweredIsHonoured
    <3>4. QED
      BY <3>2, <3>3
  <2>2. QED
    BY <2>1 DEF AnsweredIsHonoured
<1>13. QED
  BY <1>1, <1>7, <1>8, <1>9, <1>10, <1>11, <1>12 DEF HonourInv

\* The claim is written down before its claimer is answered: the stamps are not
\* earlier than any dispense, and what was paid while it was served is unrelated.
LEMMA HonourRecord ==
  ASSUME HonourInv, NEW c \in Claim, Record(c)
  PROVE  HonourInv'
<1> DEFINE n == claim[c].payout
<1>1. TypeOK /\ TypeOK'
  BY TypeStep DEF HonourInv, Next, Serve
<1>2. /\ claim[c].pc = "paid" /\ Served(c)
      /\ claim[c].address \in Written /\ claim[c].ip \in Ip /\ ~claim[c].address.upper
  BY <1>1, ServedTypes DEF Record, At, Served, HonourInv, Held
<1>3. claim[c].address = [of |-> claim[c].address.of, upper |-> FALSE]
  BY <1>2 DEF Written
<1>4. claim'[c] = Idle /\ \A d \in Claim : d # c => claim'[d] = claim[d]
  BY <1>1, GotoFrame DEF Record
<1>5. clock' = clock /\ claims' = Stamped(c) /\ clock \in Nat /\ Stamped(c) \in Ledger
  BY <1>1, StampedType DEF Record, TypeOK, At
<1>6. /\ Len(payouts') = Len(payouts)
      /\ \A i \in 1..Len(payouts) :
           /\ payouts'[i].address = payouts[i].address /\ payouts'[i].ip = payouts[i].ip
           /\ payouts'[i].at = payouts[i].at /\ payouts'[i].late = payouts[i].late
           /\ payouts'[i].answered => payouts[i].answered \/ (i = n /\ file' = Stamped(c))
  <2>1. CASE UNCHANGED <<file, payouts>>
    BY <2>1
  <2>2. CASE file' = Stamped(c)
               /\ payouts' = [payouts EXCEPT ![n] = [@ EXCEPT !.answered = TRUE]]
    BY <1>1, <2>2, AnswerFields
  <2>3. QED
    BY <2>1, <2>2 DEF Record
<1>7. \A i \in 1..Len(payouts) : payouts[i].at \in Nat /\ payouts[i].at <= clock
                                 /\ payouts[i].address \in Address /\ payouts[i].ip \in Ip
  BY <1>1, PayoutTypes DEF HonourInv, Past
<1>8. Past'
  BY <1>5, <1>6, <1>7 DEF Past
<1>9. n \in 1..Len(payouts) /\ payouts[n].address = claim[c].address.of
      /\ payouts[n].ip = claim[c].ip
  BY <1>2 DEF HonourInv, Unrivalled, At
<1>10. ASSUME NEW i \in 1..Len(payouts), payouts[i].answered \/ i = n
       PROVE  /\ payouts[i].at <= Stamped(c).byAddress[[of |-> payouts[i].address, upper |-> FALSE]]
              /\ payouts[i].at <= Stamped(c).byIp[payouts[i].ip]
  <2> DEFINE a == [of |-> payouts[i].address, upper |-> FALSE]
  <2>1. a \in Written /\ payouts[i].ip \in Ip
    BY <1>7 DEF Written
  <2>2. claims.byAddress \in [Written -> Nat] /\ claims.byIp \in [Ip -> Nat]
    BY <1>1 DEF TypeOK, Ledger
  <2>3. /\ Stamped(c).byAddress[a] = IF a = claim[c].address THEN clock ELSE claims.byAddress[a]
        /\ Stamped(c).byIp[payouts[i].ip] =
             IF payouts[i].ip = claim[c].ip THEN clock ELSE claims.byIp[payouts[i].ip]
    BY <1>2, <2>1, <2>2 DEF Stamped
  <2>4. CASE payouts[i].answered
    <3>1. payouts[i].at <= claims.byAddress[a] /\ payouts[i].at <= claims.byIp[payouts[i].ip]
      BY <2>4 DEF HonourInv, Covered
    <3>2. QED
      BY <1>7, <2>3, <3>1
  <2>5. CASE i = n
    BY <1>3, <1>7, <1>9, <2>3, <2>5
  <2>6. QED
    BY <1>10, <2>4, <2>5
<1>11. Covered(claims)'
  BY <1>5, <1>6, <1>10 DEF Covered
<1>12. file' \in Ledger /\ Covered(file)'
  <2>1. CASE file' = Stamped(c)
    BY <1>5, <1>6, <1>10, <2>1 DEF Covered
  <2>2. CASE UNCHANGED <<file, payouts>>
    BY <2>2 DEF Covered, HonourInv
  <2>3. QED
    BY <2>1, <2>2 DEF Record
<1>13. ASSUME NEW d \in Claim, d # c, Served(d)
       PROVE  claim[d].address.of # claim[c].address.of /\ claim[d].ip # claim[c].ip
  BY <1>2, <1>13 DEF HonourInv, Apart
<1>14. Held'
  <2>1. ASSUME NEW d \in Claim, d # c, Served(d)
        PROVE  Locks(d) \cap Locks(c) = {}
    BY <1>13, <2>1 DEF Locks, Keys
  <2>2. inFlight' = inFlight \ Locks(c)
    BY DEF Record, Release
  <2>3. QED
    BY <1>4, <2>1, <2>2 DEF HonourInv, Held, Served, Locks, Idle, Waiting
<1>15. Apart'
  BY <1>4 DEF HonourInv, Apart, Served, Idle, Waiting
<1>16. Cooled'
  <2>1. ASSUME NEW d \in Claim, NEW i \in 1..Len(payouts'), claim'[d].pc \in Waiting,
               payouts'[i].answered, Reaches(d, payouts[i])'
        PROVE  payouts'[i].at + Cooldown <= clock'
    <3>1. d # c /\ claim'[d] = claim[d] /\ Served(d)
      BY <1>4, <2>1 DEF Waiting, Idle, Served
    <3>2. i \in 1..Len(payouts) /\ Reaches(d, payouts[i])
      BY <1>6, <2>1, <3>1 DEF Reaches
    <3>3. i # n
      BY <1>9, <1>13, <3>1, <3>2 DEF Reaches
    <3>4. payouts[i].answered
      BY <1>6, <2>1, <3>2, <3>3
    <3>5. QED
      BY <1>5, <1>6, <2>1, <3>1, <3>2, <3>4 DEF HonourInv, Cooled
  <2>2. QED
    BY <2>1 DEF Cooled
<1>17. Unrivalled'
  <2>1. ASSUME NEW d \in Claim, At(d, "paid")'
        PROVE  At(d, "paid") /\ claim'[d] = claim[d]
    BY <1>4, <2>1 DEF At, Idle
  <2>2. QED
    BY <1>6, <2>1 DEF HonourInv, Unrivalled, Reaches
<1>18. AnsweredIsHonoured'
  <2>1. ASSUME NEW i \in 1..Len(payouts'), NEW j \in 1..Len(payouts'), i < j,
               payouts'[i].answered, ~payouts'[j].late, Related(payouts'[i], payouts'[j])
        PROVE  payouts'[j].at >= payouts'[i].at + Cooldown
    <3>1. /\ i \in 1..Len(payouts) /\ j \in 1..Len(payouts)
          /\ ~payouts[j].late /\ Related(payouts[i], payouts[j])
      BY <1>6, <2>1 DEF Related
    <3>2. i # n
      BY <1>2, <1>9, <2>1, <3>1 DEF HonourInv, Unrivalled, Related, Reaches, At
    <3>3. payouts[j].at >= payouts[i].at + Cooldown
      BY <1>6, <2>1, <3>1, <3>2 DEF HonourInv, AnsweredIsHonoured
    <3>4. QED
      BY <1>6, <3>1, <3>3
  <2>2. QED
    BY <2>1 DEF AnsweredIsHonoured
<1>19. QED
  BY <1>1, <1>8, <1>11, <1>12, <1>14, <1>15, <1>16, <1>17, <1>18 DEF HonourInv

\* A call the faucet gave up on is run: nobody is answered for it.
LEMMA HonourPaysLate ==
  ASSUME HonourInv, NEW l \in late, NodePaysLate(l)
  PROVE  HonourInv'
<1> DEFINE n == Len(payouts) + 1
           p == [address |-> l.address, ip |-> l.ip, at |-> clock,
                 answered |-> FALSE, late |-> TRUE]
<1>1. TypeOK /\ TypeOK'
  BY TypeStep DEF HonourInv, Next
<1>2. p \in Payout
  BY <1>1 DEF TypeOK, Payout
<1>3. /\ Len(payouts') = n /\ Len(payouts) \in Nat /\ payouts'[n] = p
      /\ \A i \in 1..Len(payouts) : payouts'[i] = payouts[i]
      /\ \A i \in 1..Len(payouts') : i \in 1..Len(payouts) \/ i = n
  BY <1>1, <1>2, AppendFrame DEF NodePaysLate
<1>4. p.answered = FALSE /\ p.late = TRUE /\ p.at = clock
  OBVIOUS
<1> HIDE DEF p
<1>5. UNCHANGED <<clock, claims, file, inFlight, claim>> /\ clock \in Nat
  BY <1>1 DEF NodePaysLate, TypeOK
<1>6. Covered(claims)' /\ Covered(file)' /\ Past'
  BY <1>3, <1>4, <1>5 DEF HonourInv, Covered, Past
<1>7. Held' /\ Apart'
  BY <1>5 DEF HonourInv, Held, Apart, Served, Locks
<1>8. Cooled'
  BY <1>3, <1>4, <1>5 DEF HonourInv, Cooled, Reaches
<1>9. Unrivalled'
  BY <1>3, <1>4, <1>5 DEF HonourInv, Unrivalled, Reaches, At
<1>10. AnsweredIsHonoured'
  BY <1>3, <1>4 DEF HonourInv, AnsweredIsHonoured, Related
<1>11. QED
  BY <1>1, <1>5, <1>6, <1>7, <1>8, <1>9, <1>10 DEF HonourInv

\* A restart reads back a ledger that dates every answered dispense.
LEMMA HonourCrash ==
  ASSUME HonourInv, "torn" \notin Faults, Crash
  PROVE  HonourInv'
<1>1. TypeOK'
  BY TypeStep DEF HonourInv, Next
<1>2. file' = file /\ claims' = file /\ UNCHANGED <<clock, payouts>>
  BY TornIsNoLedger DEF HonourInv, Crash, LoadClaims
<1>3. \A c \in Claim : claim'[c].pc = "idle"
  BY DEF Crash, Idle
<1>4. Held' /\ Apart' /\ Cooled' /\ Unrivalled'
  BY <1>3 DEF Held, Apart, Cooled, Unrivalled, Served, Waiting, At
<1>5. Covered(claims)' /\ Covered(file)' /\ Past' /\ AnsweredIsHonoured'
  BY <1>2 DEF HonourInv, Covered, Past, AnsweredIsHonoured
<1>6. QED
  BY <1>1, <1>2, <1>4, <1>5 DEF HonourInv

LEMMA HonourTick ==
  ASSUME HonourInv, Tick
  PROVE  HonourInv'
<1>1. TypeOK'
  BY TypeStep DEF HonourInv, Next
<1>2. clock' = clock + 1 /\ clock \in Nat
      /\ UNCHANGED <<claims, file, inFlight, claim, payouts>>
  BY DEF Tick, HonourInv, TypeOK
<1>3. \A i \in 1..Len(payouts) : payouts[i].at \in Nat
  BY PayoutTypes DEF HonourInv
<1>4. Past'
  BY <1>2, <1>3 DEF HonourInv, Past
<1>5. Cooled'
  <2>1. ASSUME NEW c \in Claim, NEW i \in 1..Len(payouts), claim[c].pc \in Waiting,
               payouts[i].answered, Reaches(c, payouts[i])
        PROVE  payouts[i].at + Cooldown <= clock + 1
    <3>1. payouts[i].at + Cooldown <= clock
      BY <2>1 DEF HonourInv, Cooled
    <3>2. QED
      BY <1>2, <1>3, <3>1
  <2>2. QED
    BY <1>2, <2>1 DEF Cooled, Reaches
<1>6. /\ Covered(claims)' /\ Covered(file)' /\ Held' /\ Apart' /\ Unrivalled'
      /\ AnsweredIsHonoured' /\ file' \in Ledger
  BY <1>2 DEF HonourInv, Covered, Held, Apart, Unrivalled, AnsweredIsHonoured,
              Served, Locks, Reaches, At
<1>7. QED
  BY <1>1, <1>4, <1>5, <1>6 DEF HonourInv

LEMMA HonourStep ==
  ASSUME "torn" \notin Faults, HonourInv, [Next]_faucetVars
  PROVE  HonourInv'
<1>1. TypeOK /\ TypeOK'
  BY TypeStep DEF HonourInv
<1>2. ASSUME NEW c \in Claim, OraclePriced(c) PROVE HonourInv'
  <2>1. /\ claim'[c] = [pc |-> "send", address |-> claim[c].address, ip |-> claim[c].ip]
        /\ \A d \in Claim : d # c => claim'[d] = claim[d]
    BY <1>1, <1>2, GotoFrame DEF OraclePriced
  <2>2. claim[c].pc \in Waiting /\ Served(c) /\ claim'[c].pc \in Waiting
    BY <1>2, <2>1 DEF OraclePriced, At, Waiting, Served
  <2>3. QED
    BY <1>1, <1>2, <2>1, <2>2, HonourQuiet DEF OraclePriced
<1>3. ASSUME NEW c \in Claim, NoPrice(c) \/ RpcFails(c) PROVE HonourInv'
  <2>1. claim'[c] = Idle /\ \A d \in Claim : d # c => claim'[d] = claim[d]
    BY <1>1, <1>3, GotoFrame DEF NoPrice, RpcFails
  <2>2. Served(c)
    BY <1>3 DEF NoPrice, RpcFails, At, Waiting, Served
  <2>3. inFlight' = inFlight \ Locks(c) /\ UNCHANGED <<clock, claims, file, payouts>>
    BY <1>3 DEF NoPrice, RpcFails, Release
  <2>4. QED
    BY <1>1, <2>1, <2>2, <2>3, HonourQuiet
<1>4. CASE UNCHANGED faucetVars
  <2>1. /\ Covered(claims)' /\ Covered(file)' /\ Past' /\ Held' /\ Apart' /\ Cooled'
        /\ Unrivalled' /\ AnsweredIsHonoured' /\ file' \in Ledger
    BY <1>4 DEF faucetVars, HonourInv, Covered, Past, Held, Apart, Cooled, Unrivalled,
                AnsweredIsHonoured, Served, Locks, Reaches, At
  <2>2. QED
    BY <1>1, <2>1 DEF HonourInv
<1>5. QED
  BY <1>2, <1>3, <1>4, HonourAccept, HonourPays, HonourRecord, HonourPaysLate, HonourCrash,
     HonourTick DEF Next, Serve

\* A claimer who was answered keeps that address and IP out for the cooldown, across
\* any interleaving of claims, lost replies, full disks and restarts, as long as no
\* crash cuts the ledger's file short (server.js loadClaims, handleClaim).
THEOREM HonouredUnlessTorn ==
  ASSUME "torn" \notin Faults
  PROVE  Spec => []AnsweredIsHonoured
<1>1. Init => HonourInv
  BY HonourInit
<1>2. HonourInv /\ [Next]_faucetVars => HonourInv'
  BY HonourStep
<1>3. HonourInv => AnsweredIsHonoured
  BY DEF HonourInv
<1>4. QED
  BY <1>1, <1>2, <1>3, PTL DEF Spec

(***************************************************************************)
(* A clock runs only for who was paid                                      *)
(*                                                                         *)
(* The property speaks of the ledger in memory, which a restart replaces   *)
(* by the file, and a payment stamps with what its claim remembers.  So    *)
(* the file is earned too (or torn, and then nobody's clock runs), and a   *)
(* claim that was paid points at the dispense it was paid with (PaidIsHis).*)
(***************************************************************************)

EarnedIn(ledger, dispenses) ==
  /\ \A w \in Written : ledger.byAddress[w] > 0 =>
       \E i \in 1..Len(dispenses) :
         dispenses[i].address = w.of /\ dispenses[i].at <= ledger.byAddress[w]
  /\ \A p \in Ip : ledger.byIp[p] > 0 =>
       \E i \in 1..Len(dispenses) :
         dispenses[i].ip = p /\ dispenses[i].at <= ledger.byIp[p]

PaidIsHis ==
  \A c \in Claim : At(c, "paid") =>
    /\ claim[c].payout \in 1..Len(payouts)
    /\ payouts[claim[c].payout].address = claim[c].address.of
    /\ payouts[claim[c].payout].ip = claim[c].ip
    /\ payouts[claim[c].payout].at <= clock

EarnedInv ==
  /\ TypeOK
  /\ EarnedIn(claims, payouts)
  /\ file # Torn => EarnedIn(file, payouts)
  /\ PaidIsHis

\* A ledger stays earned when dispenses are added, or answered.
LEMMA EarnedStays ==
  ASSUME NEW ps, NEW qs, NEW ledger, EarnedIn(ledger, ps),
         \A i \in 1..Len(ps) : /\ i \in 1..Len(qs) /\ qs[i].at = ps[i].at
                               /\ qs[i].address = ps[i].address /\ qs[i].ip = ps[i].ip
  PROVE  EarnedIn(ledger, qs)
BY DEF EarnedIn

\* Nothing is stamped by an empty ledger.
LEMMA NothingToEarn == ASSUME NEW ps PROVE EarnedIn(NoClaims, ps)
BY DEF EarnedIn, NoClaims

LEMMA EarnedInit == Init => EarnedInv
<1> SUFFICES ASSUME Init PROVE EarnedInv
  OBVIOUS
<1>1. TypeOK
  BY TypeInit
<1>2. EarnedIn(claims, payouts) /\ EarnedIn(file, payouts)
  BY NothingToEarn DEF Init
<1>3. PaidIsHis
  BY DEF Init, PaidIsHis, At, Idle
<1>4. QED
  BY <1>1, <1>2, <1>3 DEF EarnedInv

\* A step that stamps nothing and pays no claim keeps everything earned.
LEMMA EarnedQuiet ==
  ASSUME EarnedInv, TypeOK', UNCHANGED <<claims, file>>, clock' >= clock,
         \A i \in 1..Len(payouts) : i \in 1..Len(payouts') /\ payouts'[i] = payouts[i],
         \A d \in Claim : At(d, "paid")' => claim'[d] = claim[d]
  PROVE  EarnedInv'
<1>1. EarnedIn(claims, payouts)' /\ (file # Torn => EarnedIn(file, payouts))'
  BY EarnedStays DEF EarnedInv
<1>2. PaidIsHis'
  <2>1. ASSUME NEW d \in Claim, At(d, "paid")'
        PROVE  /\ claim'[d].payout \in 1..Len(payouts')
               /\ payouts'[claim'[d].payout].address = claim'[d].address.of
               /\ payouts'[claim'[d].payout].ip = claim'[d].ip
               /\ payouts'[claim'[d].payout].at <= clock'
    <3>1. claim'[d] = claim[d] /\ At(d, "paid")
      BY <2>1 DEF At
    <3>2. /\ claim[d].payout \in 1..Len(payouts)
          /\ payouts[claim[d].payout].at \in Nat
      BY <3>1, PayoutTypes DEF EarnedInv, PaidIsHis
    <3>3. clock \in Nat /\ clock' \in Nat
      BY DEF EarnedInv, TypeOK
    <3>4. QED
      BY <3>1, <3>2, <3>3 DEF EarnedInv, PaidIsHis
  <2>2. QED
    BY <2>1 DEF PaidIsHis
<1>3. QED
  BY <1>1, <1>2 DEF EarnedInv

\* The node pays a claim: the dispense it points at is the one just made.
LEMMA EarnedPays ==
  ASSUME EarnedInv, NEW c \in Claim, NodePays(c)
  PROVE  EarnedInv'
<1> DEFINE n == Len(payouts) + 1
           p == [address |-> claim[c].address.of, ip |-> claim[c].ip, at |-> clock,
                 answered |-> FALSE, late |-> FALSE]
<1>1. TypeOK /\ TypeOK'
  BY TypeStep DEF EarnedInv, Next, Serve
<1>2. claim[c].address \in Written /\ claim[c].ip \in Ip
  BY <1>1, ServedTypes DEF NodePays, At, Waiting
<1>3. p \in Payout
  BY <1>1, <1>2 DEF Payout, Written, TypeOK
<1>4. /\ Len(payouts') = n /\ Len(payouts) \in Nat /\ payouts'[n] = p
      /\ \A i \in 1..Len(payouts) : payouts'[i] = payouts[i]
  BY <1>1, <1>3, AppendFrame DEF NodePays
<1>5. /\ claim'[c] = [pc |-> "paid", address |-> claim[c].address, ip |-> claim[c].ip,
                      payout |-> n]
      /\ \A d \in Claim : d # c => claim'[d] = claim[d]
  BY <1>1, GotoFrame DEF NodePays
<1>6. p.at = clock /\ p.address = claim[c].address.of /\ p.ip = claim[c].ip
  OBVIOUS
<1> HIDE DEF p
<1>7. UNCHANGED <<clock, claims, file>> /\ clock \in Nat
  BY <1>1 DEF NodePays, TypeOK
<1>8. EarnedIn(claims, payouts)' /\ (file # Torn => EarnedIn(file, payouts))'
  BY <1>4, <1>7, EarnedStays DEF EarnedInv
<1>9. PaidIsHis'
  <2>1. ASSUME NEW d \in Claim, claim'[d].pc = "paid"
        PROVE  /\ claim'[d].payout \in 1..Len(payouts')
               /\ payouts'[claim'[d].payout].address = claim'[d].address.of
               /\ payouts'[claim'[d].payout].ip = claim'[d].ip
               /\ payouts'[claim'[d].payout].at <= clock'
    <3>1. CASE d = c
      BY <1>4, <1>5, <1>6, <1>7, <3>1
    <3>2. CASE d # c
      BY <1>4, <1>5, <1>7, <2>1, <3>2 DEF EarnedInv, PaidIsHis, At
    <3>3. QED
      BY <3>1, <3>2
  <2>2. QED
    BY <2>1 DEF PaidIsHis, At
<1>10. QED
  BY <1>1, <1>8, <1>9 DEF EarnedInv

\* What a paid claim stamps is dated no earlier than its own dispense.
LEMMA EarnedStamp ==
  ASSUME EarnedInv, NEW c \in Claim, At(c, "paid")
  PROVE  EarnedIn(Stamped(c), payouts)
<1> DEFINE n == claim[c].payout
<1>1. claim[c].address \in Written /\ claim[c].ip \in Ip
  BY ServedTypes DEF EarnedInv, At
<1>2. claims.byAddress \in [Written -> Nat] /\ claims.byIp \in [Ip -> Nat]
  BY DEF EarnedInv, TypeOK, Ledger
<1>3. /\ n \in 1..Len(payouts) /\ payouts[n].address = claim[c].address.of
      /\ payouts[n].ip = claim[c].ip /\ payouts[n].at <= clock
  BY DEF EarnedInv, PaidIsHis
<1>4. ASSUME NEW w \in Written, Stamped(c).byAddress[w] > 0
      PROVE  \E i \in 1..Len(payouts) :
               payouts[i].address = w.of /\ payouts[i].at <= Stamped(c).byAddress[w]
  <2>1. Stamped(c).byAddress[w] = IF w = claim[c].address THEN clock ELSE claims.byAddress[w]
    BY <1>2 DEF Stamped
  <2>2. QED
    BY <1>3, <1>4, <2>1 DEF EarnedInv, EarnedIn
<1>5. ASSUME NEW p \in Ip, Stamped(c).byIp[p] > 0
      PROVE  \E i \in 1..Len(payouts) :
               payouts[i].ip = p /\ payouts[i].at <= Stamped(c).byIp[p]
  <2>1. Stamped(c).byIp[p] = IF p = claim[c].ip THEN clock ELSE claims.byIp[p]
    BY <1>2 DEF Stamped
  <2>2. QED
    BY <1>3, <1>5, <2>1 DEF EarnedInv, EarnedIn
<1>6. QED
  BY <1>4, <1>5 DEF EarnedIn

LEMMA EarnedRecord ==
  ASSUME EarnedInv, NEW c \in Claim, Record(c)
  PROVE  EarnedInv'
<1>1. TypeOK /\ TypeOK'
  BY TypeStep DEF EarnedInv, Next, Serve
<1>2. At(c, "paid") /\ claims' = Stamped(c) /\ clock' = clock
  BY DEF Record
<1>3. claim'[c] = Idle /\ \A d \in Claim : d # c => claim'[d] = claim[d]
  BY <1>1, GotoFrame DEF Record
<1>4. /\ Len(payouts') = Len(payouts)
      /\ \A i \in 1..Len(payouts) :
           /\ payouts'[i].address = payouts[i].address /\ payouts'[i].ip = payouts[i].ip
           /\ payouts'[i].at = payouts[i].at
  BY <1>1, AnswerFields DEF Record
<1>5. EarnedIn(Stamped(c), payouts')
  BY <1>2, <1>4, EarnedStamp, EarnedStays
<1>6. (file # Torn => EarnedIn(file, payouts))'
  <2>1. CASE file' = Stamped(c)
    BY <1>5, <2>1
  <2>2. CASE UNCHANGED <<file, payouts>>
    BY <2>2 DEF EarnedInv
  <2>3. QED
    BY <2>1, <2>2 DEF Record
<1>7. PaidIsHis'
  <2>1. ASSUME NEW d \in Claim, At(d, "paid")'
        PROVE  At(d, "paid") /\ claim'[d] = claim[d]
    BY <1>3, <2>1 DEF At, Idle
  <2>2. QED
    BY <1>2, <1>4, <2>1 DEF EarnedInv, PaidIsHis
<1>8. QED
  BY <1>1, <1>2, <1>5, <1>6, <1>7 DEF EarnedInv

\* A restart reads the file; one that does not parse holds nobody's clock.
LEMMA EarnedCrash ==
  ASSUME EarnedInv, Crash
  PROVE  EarnedInv'
<1>1. TypeOK'
  BY TypeStep DEF EarnedInv, Next
<1>2. /\ file' = file \/ file' = Torn
      /\ claims' = IF file' = Torn THEN NoClaims ELSE file'
      /\ payouts' = payouts
  BY DEF Crash, LoadClaims
<1>3. (file # Torn => EarnedIn(file, payouts))'
  BY <1>2 DEF EarnedInv
<1>4. EarnedIn(claims, payouts)'
  BY <1>2, <1>3, NothingToEarn
<1>5. PaidIsHis'
  BY DEF Crash, PaidIsHis, At, Idle
<1>6. QED
  BY <1>1, <1>3, <1>4, <1>5 DEF EarnedInv

LEMMA EarnedStep ==
  ASSUME EarnedInv, [Next]_faucetVars
  PROVE  EarnedInv'
<1>1. TypeOK /\ TypeOK' /\ clock \in Nat
  BY TypeStep DEF EarnedInv, TypeOK
<1>2. ASSUME NEW c \in Claim, NEW s, Goto(c, s), s.pc # "paid",
             UNCHANGED <<clock, claims, file, payouts>>
      PROVE  EarnedInv'
  <2>1. claim'[c] = s /\ \A d \in Claim : d # c => claim'[d] = claim[d]
    BY <1>1, <1>2, GotoFrame
  <2>2. QED
    BY <1>1, <1>2, <2>1, EarnedQuiet DEF At
<1>3. ASSUME NEW c \in Claim, NEW w \in Written, NEW i \in Ip, Accept(c, w, i) PROVE EarnedInv'
  BY <1>2, <1>3 DEF Accept
<1>4. ASSUME NEW c \in Claim, OraclePriced(c) \/ NoPrice(c) \/ RpcFails(c) PROVE EarnedInv'
  BY <1>2, <1>4 DEF OraclePriced, NoPrice, RpcFails, Idle
<1>5. ASSUME NEW l \in late, NodePaysLate(l) PROVE EarnedInv'
  <2>1. [address |-> l.address, ip |-> l.ip, at |-> clock, answered |-> FALSE, late |-> TRUE]
          \in Payout
    BY <1>1 DEF TypeOK, Payout
  <2>2. \A i \in 1..Len(payouts) : i \in 1..Len(payouts') /\ payouts'[i] = payouts[i]
    BY <1>1, <1>5, <2>1, AppendFrame DEF NodePaysLate
  <2>3. QED
    BY <1>1, <1>5, <2>2, EarnedQuiet DEF NodePaysLate
<1>6. ASSUME Tick PROVE EarnedInv'
  BY <1>1, <1>6, EarnedQuiet DEF Tick
<1>7. CASE UNCHANGED faucetVars
  BY <1>1, <1>7, EarnedQuiet DEF faucetVars
<1>8. QED
  BY <1>3, <1>4, <1>5, <1>6, <1>7, EarnedPays, EarnedRecord, EarnedCrash DEF Next, Serve

\* A clock runs only for who was paid, whatever claims interleave, fail or are cut off
\* by a restart, and even if the ledger's file is torn (server.js handleClaim).
THEOREM ClocksAreEarned == Spec => []LedgerIsEarned
<1>1. Init => EarnedInv
  BY EarnedInit
<1>2. EarnedInv /\ [Next]_faucetVars => EarnedInv'
  BY EarnedStep
<1>3. EarnedInv => LedgerIsEarned
  BY DEF EarnedInv, EarnedIn, LedgerIsEarned
<1>4. QED
  BY <1>1, <1>2, <1>3, PTL DEF Spec
=============================================================================
