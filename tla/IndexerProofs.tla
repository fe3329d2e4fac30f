---------------------------- MODULE IndexerProofs ----------------------------
(***************************************************************************)
(* Theorems about the indexer's session, its cache and what it reports,    *)
(* for any requests, sessions and bounds.                                  *)
(***************************************************************************)
EXTENDS Indexer, SequenceTheorems, TLAPS

-----------------------------------------------------------------------------
(* The invariant *)

Kind == {"positions", "dd-utxos", "tx", "utxos", "history", "health"}
What == Tx \cup {"unspent", "history", "tip", "hello", "gone"}
Why == {"none", "closed", "handshake", "timeout", "error"}
Lookup == [cached : BOOLEAN, what : What]
Call == [what : What, st : {"waiting", "sent", "ok", "err"}, sess : Nat \cup {Nil}, at : Nat,
         why : Why, unspent : BOOLEAN]
Handler == [st : {"idle", "running", "done", "failed"}, kind : Kind \cup {"none"}, step : Nat,
            on : Nat \cup {Nil}, unspent : BOOLEAN, redeemListed : BOOLEAN, wasUnspent : BOOLEAN]

TypeOK ==
  /\ now \in Nat /\ redeemedAt \in Nat \cup {Nil}
  /\ sock \in Nat \cup {Nil} /\ opened \in Nat
  /\ broken \subseteq Nat /\ closing \subseteq broken
  /\ calls \in Seq(Call)
  /\ entries \subseteq [tx : What, at : Nat, call : DOMAIN calls]
  /\ wire \subseteq [call : DOMAIN calls, sess : Nat \cup {Nil}, unspent : BOOLEAN]
  /\ asked \in [Request -> Handler]

\* A call that waits or was sent is of the client's own session, and one that failed for a
\* closed connection has seen the end of the session it was of.
Faithful(c, s, ended) ==
  /\ c.st \in {"waiting", "sent"} => s # Nil /\ c.sess = s
  /\ c.why = "closed" => c.st = "err" /\ c.sess \in ended
CallsInv == \A i \in DOMAIN calls : Faithful(calls[i], sock, broken)

\* A request that runs waits for one of its lookups.
Waits(h, n) == h.kind \in Kind /\ h.step \in DOMAIN Lookups(h) /\ h.on \in 1 .. n
RunInv == \A q \in Request : asked[q].st = "running" => Waits(asked[q], Len(calls))

\* Once redeemed, the collateral stays spent: a request that began afterwards learns it from
\* the call it made itself, whose answer was given afterwards too.
Checks(h) == h.st = "running" /\ Lookups(h)[h.step] = CheckUnspent
ToldSpent(i, cs, answers) ==
  /\ cs[i].what = "unspent" /\ (cs[i].st = "ok" => ~cs[i].unspent)
  /\ \A a \in answers : a.call = i => ~a.unspent
Late(h) == h.st \in {"running", "done"} /\ ~h.wasUnspent
OpenInv ==
  \A q \in Request : Late(asked[q]) =>
    /\ ~asked[q].unspent /\ ~Unspent
    /\ Checks(asked[q]) => ToldSpent(asked[q].on, calls, wire)

Inv == TypeOK /\ CallsInv /\ RunInv /\ NoFailureIsReplayed /\ OpenInv

-----------------------------------------------------------------------------
(* Calls and lookups *)

LEMMA Bounds == Nil \notin Nat /\ MaxClock \in Nat /\ MaxSession \in Nat \ {0} /\ CacheMax \in Nat \ {0}
BY IndexerConstants

LEMMA LookupsAreSome ==
  ASSUME NEW h \in Handler, h.kind \in Kind
  PROVE  Lookups(h) \in Seq(Lookup) /\ 1 \in DOMAIN Lookups(h)
<1> DEFINE P == <<Direct("history"), Cached(Mint), CheckUnspent>>
           R == IF h.redeemListed THEN <<Cached(Redeem)>> ELSE <<>>
<1>1. /\ \A m \in {"unspent", "history", "tip"} : Direct(m) \in Lookup
      /\ \A t \in Tx : Cached(t) \in Lookup
      /\ CheckUnspent \in Lookup
  BY DEF Direct, Cached, CheckUnspent, Lookup, What
<1>2. Mint \in Tx /\ Redeem \in Tx /\ Funding \in Tx
  BY DEF Tx
<1>3. CASE h.kind = "positions"
  <2>1. P \in Seq(Lookup) /\ Len(P) = 3 /\ R \in Seq(Lookup) /\ Len(R) \in Nat
    BY <1>1, <1>2
  <2>2. P \o R \in Seq(Lookup) /\ Len(P \o R) >= 3
    BY <2>1, ConcatProperties
  <2>3. Lookups(h) = P \o R
    BY <1>3 DEF Lookups
  <2> QED
    BY <2>2, <2>3
<1>4. CASE h.kind # "positions"
  <2>1. \/ Lookups(h) = <<CheckUnspent, Cached(Mint)>>
        \/ Lookups(h) = <<Cached(Redeem), Cached(Mint), Cached(Funding)>>
        \/ \E l \in Lookup : Lookups(h) = <<l>>
    BY <1>1, <1>4 DEF Lookups, Kind
  <2>2. ASSUME NEW a \in Lookup, NEW b \in Lookup, NEW c \in Lookup
        PROVE  /\ <<a, b, c>> \in Seq(Lookup) /\ 1 \in DOMAIN <<a, b, c>>
               /\ <<a, b>> \in Seq(Lookup) /\ 1 \in DOMAIN <<a, b>>
               /\ <<a>> \in Seq(Lookup) /\ 1 \in DOMAIN <<a>>
    OBVIOUS
  <2> QED
    BY <1>1, <1>2, <2>1, <2>2
<1> QED
  BY <1>3, <1>4

LEMMA FailedIs ==
  ASSUME NEW c \in Call, NEW why \in Why
  PROVE  /\ Failed(c, why) \in Call
         /\ Failed(c, why).st = "err" /\ Failed(c, why).why = why
         /\ Failed(c, why).what = c.what
         /\ why = "closed" => Failed(c, why).sess = c.sess
BY DEF Failed, Call

LEMMA NewCallIs ==
  ASSUME NEW what \in What
  PROVE  /\ NewCall(what) \in Call /\ NewCall(what).what = what /\ NewCall(what).why = "none"
         /\ NewCall(what).st = "waiting" /\ NewCall(what).sess = Nil
BY DEF NewCall, Call, Why

LEMMA GoneIs == Gone \in Call /\ Gone.st = "ok" /\ Gone.why = "none" /\ Gone.what = "gone"
BY NewCallIs DEF Gone, Call, What

LEMMA SentIs ==
  ASSUME TypeOK, sock # Nil, NEW c \in Call
  PROVE  /\ Sent(c) \in Call /\ Sent(c).st = "sent" /\ Sent(c).sess = sock
         /\ Sent(c).why = c.why /\ Sent(c).what = c.what
BY DEF Sent, Call, TypeOK

LEMMA HelloIs ==
  ASSUME TypeOK, sock # Nil
  PROVE  /\ Hello(sock) \in Call /\ Hello(sock).st = "sent" /\ Hello(sock).sess = sock
         /\ Hello(sock).why = "none" /\ Hello(sock).what = "hello"
<1>1. "hello" \in What
  BY DEF What
<1>2. NewCall("hello") \in Call /\ NewCall("hello").what = "hello" /\ NewCall("hello").why = "none"
  BY <1>1, NewCallIs
<1> QED
  BY <1>2 DEF Hello, Call, TypeOK

\* What a request makes of its lookup: a call of the client's own session.
LEMMA RequestedIs ==
  ASSUME TypeOK, NEW what \in What
  PROVE  /\ Requested(what) \in Call /\ Requested(what).what = what
         /\ Requested(what).st # "ok" /\ Requested(what).why # "closed"
         /\ Requested(what).st \in {"waiting", "sent"} => Requested(what).sess = Awaited
<1>1. CASE sock = Nil \/ ready \in {"dialing", "shaking"}
  <2>1. Awaited \in Nat
    BY DEF Awaited, TypeOK
  <2> QED
    BY <1>1, <2>1, NewCallIs DEF Requested, Call
<1>2. CASE sock # Nil /\ ready = "open"
  BY <1>2, NewCallIs, SentIs DEF Requested, Awaited
<1>3. CASE sock # Nil /\ ready \notin {"dialing", "shaking", "open"}
  BY <1>3, NewCallIs, FailedIs DEF Requested, Why
<1> QED
  BY <1>1, <1>2, <1>3

LEMMA CallsAre ==
  ASSUME TypeOK
  PROVE  /\ DOMAIN calls = 1 .. Len(calls) /\ Len(calls) \in Nat
         /\ \A i \in DOMAIN calls : calls[i] \in Call
BY DEF TypeOK
-----------------------------------------------------------------------------
(* Events of the session *)

LEMMA ForgetsFailures ==
  ASSUME NEW es, NEW cs
  PROVE  Forget(es, cs) \subseteq es /\ \A e \in Forget(es, cs) : cs[e.call].st # "err"
BY DEF Forget

\* Calls keep what they ask for; one is answered by bytes on the wire.
Moves(cs, ds, answers) ==
  \A i \in DOMAIN cs : cs[i].what = "unspent" =>
    /\ ds[i].what = "unspent"
    /\ ds[i].st = "ok" => \/ cs[i].st = "ok" /\ ds[i].unspent = cs[i].unspent
                          \/ \E a \in answers : a.call = i /\ ds[i].unspent = a.unspent

LEMMA SessionFrame ==
  ASSUME Inv, UNCHANGED <<world, asked>>,
         calls' \in Seq(Call), Len(calls') >= Len(calls), Moves(calls, calls', wire),
         \A i \in DOMAIN calls' : Faithful(calls'[i], sock', broken'),
         entries' \subseteq entries, \A e \in entries' : calls'[e.call].st # "err",
         wire' \subseteq wire, sock' \in Nat \cup {Nil}, opened' \in Nat,
         broken' \subseteq Nat, closing' \subseteq broken'
  PROVE  Inv'
<1>1. DOMAIN calls \subseteq DOMAIN calls'
  BY CallsAre DEF Inv, TypeOK
<1>2. TypeOK'
  BY <1>1 DEF Inv, TypeOK, world
<1>3. CallsInv'
  BY DEF CallsInv
<1>4. RunInv'
  BY CallsAre DEF Inv, RunInv, Waits, TypeOK
<1>5. NoFailureIsReplayed'
  BY DEF NoFailureIsReplayed
<1>6. OpenInv'
  <2> SUFFICES ASSUME NEW q \in Request, Late(asked[q])
               PROVE  /\ ~asked[q].unspent /\ ~Unspent
                      /\ Checks(asked[q]) => ToldSpent(asked[q].on, calls', wire')
    BY DEF OpenInv, Unspent, world
  <2>1. ~asked[q].unspent /\ ~Unspent /\ (Checks(asked[q]) => ToldSpent(asked[q].on, calls, wire))
    BY DEF Inv, OpenInv
  <2>2. Checks(asked[q]) => asked[q].on \in DOMAIN calls
    BY CallsAre DEF Inv, RunInv, Waits, Checks
  <2> QED
    BY <2>1, <2>2 DEF ToldSpent, Moves
<1> QED
  BY <1>2, <1>3, <1>4, <1>5, <1>6 DEF Inv

LEMMA CallsAsTheyWere ==
  ASSUME Inv, UNCHANGED <<world, asked, calls, entries, sock, opened, broken, closing>>, wire' \subseteq wire
  PROVE  Inv'
<1>1. Moves(calls, calls, wire)
  BY DEF Moves
<1>2. Moves(calls, calls', wire)
  BY <1>1
<1>3. \A i \in DOMAIN calls' : Faithful(calls'[i], sock', broken')
  BY DEF Inv, CallsInv
<1>4. \A e \in entries' : calls'[e.call].st # "err"
  BY DEF Inv, NoFailureIsReplayed
<1>5. calls' \in Seq(Call) /\ Len(calls') >= Len(calls)
  BY CallsAre DEF Inv, TypeOK
<1> QED
  BY <1>2, <1>3, <1>4, <1>5, SessionFrame DEF Inv, TypeOK

\* The end of the client's own session takes every call of it along.
LEMMA EndIsTold ==
  ASSUME Inv, sock \in Nat, calls' = FailWhere({"waiting", "sent"}, "closed", calls)
  PROVE  /\ calls' \in Seq(Call) /\ Len(calls') = Len(calls) /\ Moves(calls, calls', wire)
         /\ \A ended \in SUBSET Nat : broken \cup {sock} \subseteq ended =>
              \A i \in DOMAIN calls' : Faithful(calls'[i], Nil, ended)
<1>1. /\ DOMAIN calls' = DOMAIN calls
      /\ \A i \in DOMAIN calls :
           calls'[i] = IF calls[i].st \in {"waiting", "sent"} THEN Failed(calls[i], "closed") ELSE calls[i]
  BY DEF FailWhere
<1>2. \A i \in DOMAIN calls :
        /\ calls[i] \in Call /\ Failed(calls[i], "closed") \in Call
        /\ Failed(calls[i], "closed").st = "err" /\ Failed(calls[i], "closed").what = calls[i].what
        /\ Failed(calls[i], "closed").sess = calls[i].sess
  <2> SUFFICES ASSUME NEW i \in DOMAIN calls
               PROVE  /\ calls[i] \in Call /\ Failed(calls[i], "closed") \in Call
                      /\ Failed(calls[i], "closed").st = "err"
                      /\ Failed(calls[i], "closed").what = calls[i].what
                      /\ Failed(calls[i], "closed").sess = calls[i].sess
    OBVIOUS
  <2> QED
    BY FailedIs, CallsAre DEF Inv, Why
<1>3. calls' \in Seq(Call) /\ Len(calls') = Len(calls)
  <2>1. calls' = [i \in 1 .. Len(calls) |->
                    IF calls[i].st \in {"waiting", "sent"} THEN Failed(calls[i], "closed") ELSE calls[i]]
    BY CallsAre DEF FailWhere, Inv
  <2> QED
    BY <2>1, <1>2, CallsAre DEF Inv
<1>4. Moves(calls, calls', wire)
  BY <1>1, <1>2 DEF Moves
<1>5. ASSUME NEW ended \in SUBSET Nat, broken \cup {sock} \subseteq ended, NEW i \in DOMAIN calls
      PROVE  Faithful(calls'[i], Nil, ended)
  <2>1. Faithful(calls[i], sock, broken)
    BY DEF Inv, CallsInv
  <2>2. CASE calls[i].st \in {"waiting", "sent"}
    BY <1>1, <1>2, <1>5, <2>1, <2>2 DEF Faithful
  <2>3. CASE calls[i].st \notin {"waiting", "sent"}
    BY <1>1, <1>5, <2>1, <2>3 DEF Faithful
  <2> QED
    BY <2>2, <2>3
<1> QED
  BY <1>1, <1>3, <1>4, <1>5

LEMMA StaysFaithful ==
  ASSUME Inv, NEW ended \in SUBSET Nat, broken \subseteq ended
  PROVE  \A i \in DOMAIN calls : Faithful(calls[i], sock, ended)
BY DEF Inv, CallsInv, Faithful

LEMMA CallsStay == Moves(calls, calls, wire)
BY DEF Moves
LEMMA ConnectedStep ==
  ASSUME Inv, Connected
  PROVE  Inv'
<1>1. calls' = Append(calls, Hello(sock)) /\ sock # Nil
  BY DEF Connected
<1>2. /\ Hello(sock) \in Call /\ Hello(sock).st = "sent" /\ Hello(sock).sess = sock
      /\ Hello(sock).why = "none"
  BY <1>1, HelloIs DEF Inv
<1>3. /\ calls' \in Seq(Call) /\ Len(calls') = Len(calls) + 1
      /\ \A i \in 1 .. Len(calls) : calls'[i] = calls[i]
      /\ calls'[Len(calls) + 1] = Hello(sock)
  BY <1>1, <1>2, AppendProperties DEF Inv, TypeOK
<1>4. DOMAIN calls' = 1 .. Len(calls) + 1 /\ Len(calls) \in Nat
  BY <1>3, CallsAre DEF Inv
<1>5. Faithful(Hello(sock), sock, broken)
  BY <1>1, <1>2 DEF Faithful
<1>6. \A i \in DOMAIN calls' : Faithful(calls'[i], sock, broken)
  BY <1>3, <1>4, <1>5, CallsAre DEF Inv, CallsInv
<1>7. Moves(calls, calls', wire)
  BY <1>3, CallsAre DEF Inv, Moves
<1>8. \A e \in entries : e.call \in 1 .. Len(calls) /\ calls[e.call].st # "err"
  BY CallsAre DEF Inv, TypeOK, NoFailureIsReplayed
<1>9. UNCHANGED <<world, asked, wire, entries, sock, opened, broken, closing>>
  BY DEF Connected
<1> QED
  BY <1>3, <1>4, <1>6, <1>7, <1>8, <1>9, SessionFrame DEF Inv, TypeOK

\* An end that is not that of the client's own session changes nothing of it.
LEMMA FailsStep ==
  ASSUME Inv, NEW s \in Nat, Fails(s), s \in broken',
         broken \subseteq broken', broken' \subseteq Nat, closing' \subseteq broken',
         wire' \subseteq wire, UNCHANGED <<world, asked>>
  PROVE  Inv'
<1>1. CASE Owns(s)
  <2>1. sock = s /\ sock' = Nil /\ calls' = FailWhere({"waiting", "sent"}, "closed", calls)
    BY <1>1 DEF Fails, Owns, RejectAll
  <2>2. entries' = Forget(entries, calls') /\ opened' = opened
    BY <1>1 DEF Fails
  <2>3. broken \cup {sock} \subseteq broken'
    BY <2>1
  <2> QED
    BY <2>1, <2>2, <2>3, EndIsTold, ForgetsFailures, SessionFrame DEF Inv, TypeOK
<1>2. CASE ~Owns(s)
  <2>1. UNCHANGED <<sock, calls, entries, opened>>
    BY <1>2 DEF Fails
  <2>2. \A i \in DOMAIN calls : Faithful(calls[i], sock, broken')
    BY StaysFaithful
  <2>3. \A e \in entries : calls[e.call].st # "err"
    BY DEF Inv, NoFailureIsReplayed
  <2> QED
    BY <2>1, <2>2, <2>3, CallsStay, SessionFrame, CallsAre DEF Inv, TypeOK
<1> QED
  BY <1>1, <1>2

LEMMA HangupStep ==
  ASSUME Inv, NEW s \in Session, Hangup(s)
  PROVE  Inv'
<1>1. Fails(s) /\ broken' = broken \cup {s} /\ UNCHANGED <<world, closing, asked>>
  BY DEF Hangup
<1>2. wire' \subseteq wire
  BY DEF Hangup, BytesOfOthers
<1>3. s \in Nat /\ broken \subseteq Nat /\ closing \subseteq broken
  BY DEF Session, Inv, TypeOK
<1> QED
  BY <1>1, <1>2, <1>3, FailsStep

LEMMA LateCloseStep ==
  ASSUME Inv, NEW s \in Session, LateClose(s)
  PROVE  Inv'
BY FailsStep DEF LateClose, Session, BytesOfOthers, Inv, TypeOK

LEMMA OverflowStep ==
  ASSUME Inv, NEW s \in Session, Overflow(s)
  PROVE  Inv'
<1>1. /\ sock = s /\ sock' = Nil /\ calls' = FailWhere({"waiting", "sent"}, "closed", calls)
      /\ entries' = Forget(entries, calls') /\ broken' = broken \cup {s} /\ closing' = closing \cup {s}
      /\ UNCHANGED <<world, opened, wire, asked>>
  BY DEF Overflow
<1>2. s \in Nat
  BY DEF Session
<1> QED
  BY <1>1, <1>2, EndIsTold, ForgetsFailures, SessionFrame DEF Inv, TypeOK

\* An answer or a timeout settles the call that was sent, and no other, except that the end of
\* the handshake sends or fails the calls that waited for it.
LEMMA SettleStep ==
  ASSUME Inv, NEW i \in DOMAIN calls, calls[i].st = "sent", NEW settled \in Call, Settle(i, settled),
         settled.what = calls[i].what, settled.st \in {"ok", "err"}, settled.why # "closed",
         settled.st = "ok" => \E a \in wire : a.call = i /\ settled.unspent = a.unspent,
         wire' \subseteq wire, UNCHANGED <<world, sock, opened, broken, closing, asked>>
  PROVE  Inv'
<1> DEFINE mine == IF settled.what = "hello" THEN Gone ELSE settled
           cs == [calls EXCEPT ![i] = mine]
<1>1. sock # Nil /\ i \in 1 .. Len(calls) /\ calls \in Seq(Call)
  BY CallsAre DEF Inv, CallsInv, Faithful, TypeOK
<1>2. mine \in Call /\ mine.st \in {"ok", "err"} /\ mine.why # "closed"
  BY GoneIs
<1>3. cs \in Seq(Call) /\ Len(cs) = Len(calls) /\ cs[i] = mine
      /\ \A j \in 1 .. Len(calls) : j # i => cs[j] = calls[j]
  BY <1>1, <1>2, ExceptSeq
<1>4. \A j \in 1 .. Len(calls) : Faithful(cs[j], sock, broken) /\ cs[j] \in Call
  BY <1>1, <1>2, <1>3, CallsAre DEF Inv, CallsInv, Faithful
<1>5. Moves(calls, cs, wire)
  BY <1>3, CallsAre DEF Moves, Inv
<1> HIDE DEF mine, cs
<1>6. \A j \in 1 .. Len(calls) :
        /\ Sent(cs[j]) \in Call /\ Failed(cs[j], "handshake") \in Call
        /\ Sent(cs[j]).what = cs[j].what /\ Failed(cs[j], "handshake").what = cs[j].what
        /\ Sent(cs[j]).st = "sent" /\ Failed(cs[j], "handshake").st = "err"
        /\ Sent(cs[j]).sess = sock /\ Failed(cs[j], "handshake").why = "handshake"
        /\ Sent(cs[j]).why = cs[j].why
  BY <1>1, <1>4, SentIs, FailedIs DEF Inv, Why
<1>7. \/ calls' = cs
      \/ calls' = [j \in DOMAIN cs |-> IF Waiting(cs[j]) THEN Sent(cs[j]) ELSE cs[j]]
      \/ calls' = FailWhere({"waiting"}, "handshake", cs)
  BY DEF Settle, mine, cs
<1>8. /\ calls' \in Seq(Call) /\ Len(calls') = Len(calls)
      /\ \A j \in 1 .. Len(calls) :
           \/ calls'[j] = cs[j]
           \/ cs[j].st = "waiting" /\ calls'[j] \in {Sent(cs[j]), Failed(cs[j], "handshake")}
  <2>1. CASE calls' = cs
    BY <1>3, <2>1
  <2>2. CASE calls' = [j \in DOMAIN cs |-> IF Waiting(cs[j]) THEN Sent(cs[j]) ELSE cs[j]]
    <3>1. calls' = [j \in 1 .. Len(calls) |-> IF Waiting(cs[j]) THEN Sent(cs[j]) ELSE cs[j]]
      BY <1>3, <2>2
    <3> QED
      BY <1>1, <1>4, <1>6, <3>1 DEF Waiting
  <2>3. CASE calls' = FailWhere({"waiting"}, "handshake", cs)
    <3>1. calls' = [j \in 1 .. Len(calls) |->
                      IF cs[j].st \in {"waiting"} THEN Failed(cs[j], "handshake") ELSE cs[j]]
      BY <1>3, <2>3 DEF FailWhere
    <3> QED
      BY <1>1, <1>4, <1>6, <3>1
  <2> QED
    BY <1>7, <2>1, <2>2, <2>3
<1>9. \A j \in 1 .. Len(calls) : Faithful(calls'[j], sock, broken)
  BY <1>1, <1>4, <1>6, <1>8 DEF Faithful
<1>10. Moves(calls, calls', wire)
  <2> SUFFICES ASSUME NEW j \in DOMAIN calls, calls[j].what = "unspent"
               PROVE  /\ calls'[j].what = "unspent"
                      /\ calls'[j].st = "ok" =>
                           \/ calls[j].st = "ok" /\ calls'[j].unspent = calls[j].unspent
                           \/ \E a \in wire : a.call = j /\ calls'[j].unspent = a.unspent
    BY DEF Moves
  <2>1. /\ cs[j].what = "unspent"
        /\ cs[j].st = "ok" => \/ calls[j].st = "ok" /\ cs[j].unspent = calls[j].unspent
                              \/ \E a \in wire : a.call = j /\ cs[j].unspent = a.unspent
    BY <1>5 DEF Moves
  <2>2. j \in 1 .. Len(calls)
    BY CallsAre DEF Inv
  <2>3. CASE calls'[j] = cs[j]
    BY <2>1, <2>3
  <2>4. CASE calls'[j] \in {Sent(cs[j]), Failed(cs[j], "handshake")}
    <3>1. calls'[j].what = cs[j].what /\ calls'[j].st # "ok"
      BY <1>6, <2>2, <2>4
    <3> QED
      BY <2>1, <3>1
  <2> QED
    BY <1>8, <2>2, <2>3, <2>4
<1>11. entries' \subseteq entries /\ \A e \in entries' : calls'[e.call].st # "err"
  <2>1. entries' = Forget(entries, calls')
    BY DEF Settle
  <2> QED
    BY <2>1 DEF Forget
<1> QED
  BY <1>8, <1>9, <1>10, <1>11, SessionFrame, CallsAre DEF Inv, TypeOK

LEMMA TimeOutStep ==
  ASSUME Inv, NEW i \in DOMAIN calls, TimeOut(i)
  PROVE  Inv'
<1>1. calls[i] \in Call /\ calls[i].st = "sent" /\ Settle(i, Failed(calls[i], "timeout"))
  BY CallsAre DEF TimeOut, Expired, Inv
<1>2. UNCHANGED <<world, sock, opened, broken, closing, wire, asked>>
  BY DEF TimeOut
<1>3. /\ Failed(calls[i], "timeout") \in Call /\ Failed(calls[i], "timeout").st = "err"
      /\ Failed(calls[i], "timeout").why = "timeout" /\ Failed(calls[i], "timeout").what = calls[i].what
  BY <1>1, FailedIs DEF Why
<1> QED
  BY <1>1, <1>2, <1>3, SettleStep

LEMMA ReceiveStep ==
  ASSUME Inv, NEW a \in wire, NEW ok \in BOOLEAN, Receive(a, ok)
  PROVE  Inv'
<1> DEFINE c == calls[a.call]
           settled == IF ok THEN [c EXCEPT !.st = "ok", !.at = 0, !.sess = Nil, !.unspent = a.unspent]
                      ELSE Failed(c, "error")
<1>1. a.call \in DOMAIN calls /\ c \in Call /\ a.unspent \in BOOLEAN
  BY CallsAre DEF Inv, TypeOK
<1>2. UNCHANGED <<world, sock, opened, broken, closing, asked>> /\ wire' \subseteq wire
  BY DEF Receive
<1>3. CASE Settle(a.call, settled) /\ c.st = "sent"
  <2>1. c.why # "closed"
    BY <1>1, <1>3 DEF Inv, CallsInv, Faithful
  <2>2. /\ settled \in Call /\ settled.what = c.what /\ settled.st \in {"ok", "err"}
        /\ settled.why # "closed"
        /\ settled.st = "ok" => settled.unspent = a.unspent
    <3>1. CASE ok
      BY <1>1, <2>1, <3>1 DEF Call
    <3>2. CASE ~ok
      BY <1>1, <3>2, FailedIs DEF Why
    <3> QED
      BY <3>1, <3>2
  <2>3. settled.st = "ok" => \E b \in wire : b.call = a.call /\ settled.unspent = b.unspent
    BY <2>2
  <2>4. calls[a.call].st = "sent" /\ Settle(a.call, settled) /\ settled.what = calls[a.call].what
    BY <1>3, <2>2
  <2> HIDE DEF settled
  <2> QED
    BY <1>1, <1>2, <2>2, <2>3, <2>4, SettleStep
<1>4. CASE UNCHANGED <<calls, entries>>
  BY <1>2, <1>4, CallsAsTheyWere
<1> QED
  BY <1>3, <1>4 DEF Receive

LEMMA PartStep ==
  ASSUME Inv, NEW a \in wire, Part(a)
  PROVE  Inv'
BY CallsAsTheyWere DEF Part

\* The bytes under way are of calls that were sent, and tell what holds by then.
LEMMA AnswerStep ==
  ASSUME Inv, NEW i \in DOMAIN calls, Answer(i)
  PROVE  Inv'
<1> DEFINE a == [call |-> i, sess |-> calls[i].sess,
                 unspent |-> calls[i].what \in {"unspent", "history"} => Unspent]
<1>1. wire' = wire \cup {a} /\ UNCHANGED <<world, session, calls, entries, asked>>
  BY DEF Answer
<1>2. calls[i].sess \in Nat \cup {Nil}
  BY CallsAre DEF Inv, Call
<1>3. TypeOK'
  <2>1. a.unspent \in BOOLEAN
    OBVIOUS
  <2>2. a \in [call : DOMAIN calls, sess : Nat \cup {Nil}, unspent : BOOLEAN]
    BY <1>2
  <2> HIDE DEF a
  <2> QED
    BY <1>1, <2>2 DEF Inv, TypeOK, world, session
<1>4. CallsInv' /\ RunInv' /\ NoFailureIsReplayed'
  BY <1>1 DEF Inv, CallsInv, RunInv, NoFailureIsReplayed, session
<1>5. OpenInv'
  <2> SUFFICES ASSUME NEW q \in Request, Late(asked[q])
               PROVE  /\ ~asked[q].unspent /\ ~Unspent
                      /\ Checks(asked[q]) => ToldSpent(asked[q].on, calls, wire')
    BY <1>1 DEF OpenInv, Unspent, world
  <2>1. ~asked[q].unspent /\ ~Unspent /\ (Checks(asked[q]) => ToldSpent(asked[q].on, calls, wire))
    BY DEF Inv, OpenInv
  <2>2. calls[i].what = "unspent" => ~a.unspent
    BY <2>1
  <2> QED
    BY <1>1, <2>1, <2>2 DEF ToldSpent
<1> QED
  BY <1>3, <1>4, <1>5 DEF Inv

LEMMA TickStep ==
  ASSUME Inv, Tick
  PROVE  Inv'
BY DEF Tick, Inv, TypeOK, CallsInv, RunInv, NoFailureIsReplayed, OpenInv, Unspent, session

LEMMA RedeemOnChainStep ==
  ASSUME Inv, RedeemOnChain
  PROVE  Inv'
BY Bounds DEF RedeemOnChain, Inv, TypeOK, CallsInv, RunInv, NoFailureIsReplayed, OpenInv, Unspent,
              session

-----------------------------------------------------------------------------
(* Requests *)

LEMMA LookupsStay ==
  ASSUME NEW h \in Handler, NEW on \in Nat
  PROVE  /\ [h EXCEPT !.on = on] \in Handler /\ [h EXCEPT !.on = on].on = on
         /\ [h EXCEPT !.on = on].kind = h.kind /\ [h EXCEPT !.on = on].step = h.step
         /\ [h EXCEPT !.on = on].unspent = h.unspent
         /\ Lookups([h EXCEPT !.on = on]) = Lookups(h)
         /\ Checks([h EXCEPT !.on = on]) <=> Checks(h)
         /\ Late([h EXCEPT !.on = on]) <=> Late(h)
<1> DEFINE g == [h EXCEPT !.on = on]
<1>1. /\ g.kind = h.kind /\ g.redeemListed = h.redeemListed /\ g.step = h.step
      /\ g.st = h.st /\ g.wasUnspent = h.wasUnspent
  BY DEF Handler
<1>4. /\ g \in Handler /\ g.on = on /\ g.kind = h.kind /\ g.step = h.step /\ g.unspent = h.unspent
  BY DEF Handler
<1> HIDE DEF g
<1>2. Lookups(g) = Lookups(h)
  BY <1>1 DEF Lookups
<1>3. (Checks(g) <=> Checks(h)) /\ (Late(g) <=> Late(h))
  BY <1>1, <1>2 DEF Checks, Late
<1> QED
  BY <1>2, <1>3, <1>4 DEF g

LEMMA InsertsItself ==
  ASSUME TypeOK, NEW tx, NEW c
  PROVE  Inserted(tx, c) \subseteq entries \cup {[tx |-> tx, at |-> now, call |-> c]}
BY DEF Inserted, Newest
LEMMA LookUpStep ==
  ASSUME Inv, NEW q \in Request, NEW h \in Handler, NEW cs \in Seq(Call),
         h.st = "running", h.kind \in Kind, h.step \in DOMAIN Lookups(h),
         Late(h) => ~h.unspent /\ ~Unspent,
         Len(cs) = Len(calls),
         \A i \in 1 .. Len(calls) :
           \/ cs[i] = calls[i]
           \/ /\ cs[i] = Gone
              /\ (\A e \in entries : e.call # i) /\ (\A p \in Request \ {q} : asked[p].on # i),
         LookUp(q, h, Lookups(h)[h.step], cs),
         UNCHANGED <<world, broken, closing, half, wire>>
  PROVE  Inv'
<1> DEFINE look == Lookups(h)[h.step]
<1>1. look \in Lookup /\ look.what \in What
  <2>1. Lookups(h) \in Seq(Lookup)
    BY LookupsAreSome
  <2>2. look \in Lookup
    BY <2>1, ElementOfSeq
  <2> HIDE DEF look
  <2> QED
    BY <2>2 DEF Lookup
<1>2. Len(calls) \in Nat /\ DOMAIN calls = 1 .. Len(calls) /\ \A i \in 1 .. Len(calls) : calls[i] \in Call
  BY CallsAre DEF Inv
<1>3. \A i \in 1 .. Len(calls) : Faithful(cs[i], sock, broken)
  <2>1. Faithful(Gone, sock, broken)
    BY GoneIs DEF Faithful
  <2> QED
    BY <1>2, <2>1 DEF Inv, CallsInv
<1>4. \A e \in entries : e.call \in 1 .. Len(calls) /\ cs[e.call].st # "err"
  BY <1>2 DEF Inv, TypeOK, NoFailureIsReplayed
<1>5. ASSUME NEW p \in Request, p # q, asked[p].st = "running"
      PROVE  Waits(asked[p], Len(calls)) /\ cs[asked[p].on] = calls[asked[p].on]
  BY <1>5 DEF Inv, RunInv, Waits
<1>6. ASSUME NEW p \in Request, p # q, Late(asked[p])
      PROVE  /\ ~asked[p].unspent /\ ~Unspent
             /\ Checks(asked[p]) => ToldSpent(asked[p].on, cs, wire) /\ asked[p].on \in 1 .. Len(calls)
  BY <1>5, <1>6 DEF Inv, OpenInv, Checks, ToldSpent, Waits
<1> HIDE DEF look
<1>7. CASE /\ look.cached /\ calls' = cs /\ UNCHANGED <<entries, sock, opened, ready>>
           /\ \E e \in Hits(look.what) : asked' = [asked EXCEPT ![q] = [h EXCEPT !.on = e.call]]
  <2>1. PICK e \in Hits(look.what) : asked' = [asked EXCEPT ![q] = [h EXCEPT !.on = e.call]]
    BY <1>7
  <2>2. e.call \in 1 .. Len(calls)
    BY <1>4 DEF Hits, EntryOf
  <2> DEFINE g == [h EXCEPT !.on = e.call]
  <2>3. /\ g \in Handler /\ g.on = e.call /\ g.kind = h.kind /\ g.step = h.step /\ g.unspent = h.unspent
        /\ Lookups(g) = Lookups(h) /\ (Late(g) <=> Late(h)) /\ (Checks(g) <=> Checks(h))
    <3>1. e.call \in Nat
      BY <1>2, <2>2
    <3> QED
      BY <3>1, LookupsStay
  <2>4. ~Checks(h)
    BY <1>7 DEF look, Checks, CheckUnspent, Direct
  <2> HIDE DEF g
  <2>5. /\ asked' \in [Request -> Handler] /\ asked'[q] = g
        /\ \A p \in Request : p # q => asked'[p] = asked[p]
    BY <2>1, <2>3 DEF Inv, TypeOK, g
  <2>6. Len(calls') = Len(calls) /\ DOMAIN calls' = 1 .. Len(calls)
    BY <1>7, <1>2
  <2>7. TypeOK'
    BY <1>2, <1>7, <2>5, <2>6 DEF Inv, TypeOK, world
  <2>8. CallsInv'
    BY <1>3, <1>7, <2>6 DEF CallsInv
  <2>9. RunInv'
    BY <1>5, <2>2, <2>3, <2>5, <2>6 DEF RunInv, Waits
  <2>10. NoFailureIsReplayed'
    BY <1>4, <1>7 DEF NoFailureIsReplayed
  <2>11. OpenInv'
    <3> SUFFICES ASSUME NEW p \in Request, Late(asked'[p])
                 PROVE  /\ ~asked'[p].unspent /\ ~Unspent
                        /\ Checks(asked'[p]) => ToldSpent(asked'[p].on, calls', wire')
      BY DEF OpenInv, Unspent, world
    <3>1. CASE p = q
      BY <2>3, <2>4, <2>5, <3>1
    <3>2. CASE p # q
      BY <1>6, <1>7, <2>5, <3>2
    <3> QED
      BY <3>1, <3>2
  <2> QED
    BY <2>7, <2>8, <2>9, <2>10, <2>11 DEF Inv
<1>8. CASE /\ Connect /\ calls' = Append(cs, Requested(look.what))
           /\ entries' = IF look.cached THEN Forget(Inserted(look.what, Len(calls')), calls') ELSE entries
           /\ asked' = [asked EXCEPT ![q] = [h EXCEPT !.on = Len(calls')]]
  <2> DEFINE n == Len(calls) + 1
             c == Requested(look.what)
             g == [h EXCEPT !.on = n]
             new == [tx |-> look.what, at |-> now, call |-> n]
  <2>1. /\ c \in Call /\ c.what = look.what /\ c.st # "ok" /\ c.why # "closed"
        /\ c.st \in {"waiting", "sent"} => c.sess = Awaited
    BY <1>1, RequestedIs DEF Inv
  <2> HIDE DEF c
  <2>2. /\ calls' \in Seq(Call) /\ Len(calls') = n /\ DOMAIN calls' = 1 .. n /\ calls'[n] = c
        /\ \A i \in 1 .. Len(calls) : calls'[i] = cs[i]
    BY <1>2, <1>8, <2>1, AppendProperties DEF c
  <2>3. /\ g \in Handler /\ g.on = n /\ g.kind = h.kind /\ g.step = h.step /\ g.unspent = h.unspent
        /\ Lookups(g) = Lookups(h) /\ (Late(g) <=> Late(h)) /\ (Checks(g) <=> Checks(h))
    <3>1. n \in Nat
      BY <1>2
    <3> QED
      BY <3>1, LookupsStay
  <2>4. /\ asked' \in [Request -> Handler] /\ asked'[q] = g
        /\ \A p \in Request : p # q => asked'[p] = asked[p]
    BY <1>8, <2>2, <2>3 DEF Inv, TypeOK
  <2>5. entries' \subseteq entries \cup {new} /\ \A e \in entries' : calls'[e.call].st # "err"
    <3>1. CASE look.cached
      BY <1>8, <2>2, <3>1, InsertsItself DEF Forget, Inv
    <3>2. CASE ~look.cached
      BY <1>2, <1>4, <1>8, <2>2, <3>2
    <3> QED
      BY <3>1, <3>2
  <2>6. /\ sock' \in Nat \cup {Nil} /\ opened' \in Nat /\ (sock # Nil => sock' = sock)
    BY <1>8 DEF Connect, Inv, TypeOK
  <2>7. new \in [tx : What, at : Nat, call : 1 .. n]
    BY <1>1, <1>2 DEF Inv, TypeOK
  <2> HIDE DEF new, g
  <2>8. TypeOK'
    BY <1>2, <2>2, <2>4, <2>5, <2>6, <2>7 DEF Inv, TypeOK, world
  <2>9. CallsInv'
    <3>1. ASSUME NEW d, Faithful(d, sock, broken)
          PROVE  Faithful(d, sock', broken)
      BY <2>6, <3>1 DEF Faithful
    <3>2. Faithful(c, sock', broken)
      <4>1. sock' = Awaited /\ sock' # Nil
        BY <1>8, Bounds DEF Connect, Awaited, Inv, TypeOK
      <4> QED
        BY <2>1, <4>1 DEF Faithful
    <3>3. broken' = broken
      OBVIOUS
    <3> QED
      BY <1>2, <1>3, <2>2, <3>1, <3>2, <3>3 DEF CallsInv
  <2>10. RunInv'
    BY <1>2, <1>5, <2>2, <2>3, <2>4 DEF RunInv, Waits
  <2>11. NoFailureIsReplayed'
    BY <2>5 DEF NoFailureIsReplayed
  <2>12. OpenInv'
    <3> SUFFICES ASSUME NEW p \in Request, Late(asked'[p])
                 PROVE  /\ ~asked'[p].unspent /\ ~Unspent
                        /\ Checks(asked'[p]) => ToldSpent(asked'[p].on, calls', wire')
      BY DEF OpenInv, Unspent, world
    <3>1. CASE p = q
      <4>1. Checks(h) => c.what = "unspent"
        BY <2>1 DEF Checks, CheckUnspent, Direct, look
      <4>2. \A a \in wire : a.call # n
        BY <1>2 DEF Inv, TypeOK
      <4> QED
        BY <2>1, <2>2, <2>3, <2>4, <3>1, <4>1, <4>2 DEF ToldSpent
    <3>2. CASE p # q
      BY <1>6, <2>2, <2>4, <3>2 DEF ToldSpent
    <3> QED
      BY <3>1, <3>2
  <2> QED
    BY <2>8, <2>9, <2>10, <2>11, <2>12 DEF Inv
<1> QED
  BY <1>7, <1>8 DEF LookUp, look
LEMMA AskStep ==
  ASSUME Inv, NEW q \in Request, NEW kind \in Kinds[q], Ask(q, kind)
  PROVE  Inv'
<1> DEFINE h == [Idle EXCEPT !.st = "running", !.kind = kind, !.step = 1, !.wasUnspent = Unspent]
<1>1. kind \in Kind
  BY IndexerConstants DEF Kind, Request
<1>2. /\ h \in Handler /\ h.st = "running" /\ h.kind = kind /\ h.step = 1
      /\ ~h.unspent /\ h.wasUnspent = Unspent
  BY <1>1 DEF Idle, Handler, Unspent
<1>3. LookUp(q, h, Lookups(h)[h.step], calls) /\ UNCHANGED <<world, broken, closing, half, wire>>
  BY <1>2 DEF Ask
<1> HIDE DEF h
<1>4. h.step \in DOMAIN Lookups(h)
  BY <1>1, <1>2, LookupsAreSome
<1>5. Late(h) => ~h.unspent /\ ~Unspent
  BY <1>2 DEF Late
<1>6. calls \in Seq(Call)
  BY DEF Inv, TypeOK
<1> QED
  BY <1>1, <1>2, <1>3, <1>4, <1>5, <1>6, LookUpStep

LEMMA LetGoIs ==
  ASSUME Inv, NEW q \in Request
  PROVE  /\ LetGo(q) \in Seq(Call) /\ Len(LetGo(q)) = Len(calls) /\ DOMAIN LetGo(q) = 1 .. Len(calls)
         /\ \A i \in 1 .. Len(calls) :
              \/ LetGo(q)[i] = calls[i]
              \/ /\ LetGo(q)[i] = Gone
                 /\ (\A e \in entries : e.call # i) /\ (\A p \in Request \ {q} : asked[p].on # i)
<1> DEFINE free(i) == i = asked[q].on /\ (\A e \in entries : e.call # i)
                                      /\ (\A p \in Request \ {q} : asked[p].on # i)
<1>1. LetGo(q) = [i \in 1 .. Len(calls) |-> IF free(i) THEN Gone ELSE calls[i]]
  BY CallsAre DEF LetGo, Inv
<1>2. Len(calls) \in Nat /\ \A i \in 1 .. Len(calls) : calls[i] \in Call
  BY CallsAre DEF Inv
<1>3. \A i \in 1 .. Len(calls) : free(i) =>
        (\A e \in entries : e.call # i) /\ (\A p \in Request \ {q} : asked[p].on # i)
  OBVIOUS
<1> HIDE DEF free
<1> QED
  BY <1>1, <1>2, <1>3, GoneIs

\* What a request has learnt when it goes on, or when it ends.
LEMMA LearnIs ==
  ASSUME Inv, NEW q \in Request, asked[q].st = "running", calls[asked[q].on].st = "ok"
  PROVE  LET g == Learn(asked[q], calls[asked[q].on])
         IN  /\ g \in Handler /\ g.st = "running" /\ g.kind \in Kind /\ g.step = asked[q].step + 1
             /\ g.wasUnspent = asked[q].wasUnspent
             /\ ~g.wasUnspent => ~g.unspent /\ ~Unspent
<1> DEFINE h == asked[q]
           c == calls[h.on]
           look == Lookups(h)[h.step]
           g == Learn(h, c)
<1>1. h \in Handler /\ Waits(h, Len(calls))
  BY DEF Inv, TypeOK, RunInv
<1>2. c \in Call
  BY <1>1, CallsAre DEF Inv, Waits
<1>3. ~h.wasUnspent => ~h.unspent /\ ~Unspent /\ (look = CheckUnspent => ~c.unspent)
  BY DEF Inv, OpenInv, Late, Checks, ToldSpent
<1>4. g = [h EXCEPT !.step = h.step + 1, !.on = Nil,
             !.unspent = IF look = CheckUnspent THEN c.unspent ELSE h.unspent,
             !.redeemListed = IF look.what = "history" THEN ~c.unspent ELSE h.redeemListed]
  BY DEF Learn
<1>5. /\ h.step + 1 \in Nat /\ (IF look = CheckUnspent THEN c.unspent ELSE h.unspent) \in BOOLEAN
      /\ (IF look.what = "history" THEN ~c.unspent ELSE h.redeemListed) \in BOOLEAN
  <2>1. /\ c.unspent \in BOOLEAN /\ h.unspent \in BOOLEAN /\ h.redeemListed \in BOOLEAN
        /\ h.step \in Nat
    BY <1>1, <1>2 DEF Handler, Call
  <2> HIDE DEF c, h, look
  <2>2. h.step + 1 \in Nat
    BY <2>1
  <2>3. (IF look = CheckUnspent THEN c.unspent ELSE h.unspent) \in BOOLEAN
    BY <2>1, Zenon
  <2>4. (IF look.what = "history" THEN ~c.unspent ELSE h.redeemListed) \in BOOLEAN
    BY <2>1, Zenon
  <2> QED
    BY <2>2, <2>3, <2>4
<1>6. /\ g \in Handler /\ g.st = h.st /\ g.kind = h.kind /\ g.step = h.step + 1
      /\ g.wasUnspent = h.wasUnspent
      /\ g.unspent = IF look = CheckUnspent THEN c.unspent ELSE h.unspent
  BY <1>1, <1>4, <1>5 DEF Handler
<1> QED
  BY <1>1, <1>3, <1>6 DEF Waits

\* A request that ends keeps the promise of those that go on.
LEMMA EndsStep ==
  ASSUME Inv, NEW q \in Request, NEW over \in Handler, over.st \in {"failed", "done"},
         Late(over) => ~over.unspent /\ ~Unspent,
         asked' = [asked EXCEPT ![q] = over], calls' = LetGo(q),
         UNCHANGED <<world, session, wire, entries>>
  PROVE  Inv'
<1>1. /\ asked' \in [Request -> Handler] /\ asked'[q] = over
      /\ \A p \in Request : p # q => asked'[p] = asked[p]
  BY DEF Inv, TypeOK
<1>2. Len(calls) \in Nat /\ DOMAIN calls = 1 .. Len(calls)
  BY CallsAre DEF Inv
<1>3. /\ calls' \in Seq(Call) /\ Len(calls') = Len(calls) /\ DOMAIN calls' = 1 .. Len(calls)
      /\ \A i \in 1 .. Len(calls) :
           \/ calls'[i] = calls[i]
           \/ /\ calls'[i] = Gone
              /\ (\A e \in entries : e.call # i) /\ (\A p \in Request \ {q} : asked[p].on # i)
  BY LetGoIs
<1>4. TypeOK'
  BY <1>1, <1>2, <1>3 DEF Inv, TypeOK, world, session
<1>5. CallsInv'
  <2>1. Faithful(Gone, sock, broken)
    BY GoneIs DEF Faithful
  <2> QED
    BY <1>2, <1>3, <2>1 DEF Inv, CallsInv, session
<1>6. RunInv'
  BY <1>1, <1>3 DEF Inv, RunInv
<1>7. NoFailureIsReplayed'
  BY <1>2, <1>3 DEF Inv, TypeOK, NoFailureIsReplayed
<1>8. OpenInv'
  <2> SUFFICES ASSUME NEW p \in Request, Late(asked'[p])
               PROVE  /\ ~asked'[p].unspent /\ ~Unspent
                      /\ Checks(asked'[p]) => ToldSpent(asked'[p].on, calls', wire)
    BY DEF OpenInv, Unspent, world
  <2>1. CASE p = q
    BY <1>1, <2>1 DEF Checks
  <2>2. CASE p # q
    <3>1. /\ ~asked[p].unspent /\ ~Unspent
          /\ Checks(asked[p]) => ToldSpent(asked[p].on, calls, wire)
      BY <1>1, <2>2 DEF Inv, OpenInv
    <3>2. Checks(asked[p]) => calls'[asked[p].on] = calls[asked[p].on]
      BY <1>3, <2>2 DEF Inv, RunInv, Waits, Checks
    <3> QED
      BY <1>1, <2>2, <3>1, <3>2 DEF ToldSpent
  <2> QED
    BY <2>1, <2>2
<1> QED
  BY <1>4, <1>5, <1>6, <1>7, <1>8 DEF Inv

LEMMA ContinueStep ==
  ASSUME Inv, NEW q \in Request, Continue(q)
  PROVE  Inv'
<1> DEFINE h == asked[q]
           c == calls[h.on]
           g == Learn(h, c)
           over == IF c.st = "err" THEN [Idle EXCEPT !.st = "failed"]
                   ELSE [Idle EXCEPT !.st = "done", !.unspent = g.unspent, !.wasUnspent = g.wasUnspent]
<1>1. /\ h.st = "running" /\ ~Live(c) /\ UNCHANGED <<world, broken, closing, half, wire>>
      /\ \/ /\ asked' = [asked EXCEPT ![q] = over] /\ calls' = LetGo(q)
            /\ UNCHANGED <<entries, sock, opened, ready>>
         \/ c.st # "err" /\ g.step <= Len(Lookups(g)) /\ LookUp(q, g, Lookups(g)[g.step], LetGo(q))
         \/ c.st # "err" /\ ~(g.step <= Len(Lookups(g))) /\ ~(g.step > Len(Lookups(g)))
  BY DEF Continue
<1>2. h \in Handler /\ Waits(h, Len(calls)) /\ c \in Call
  BY <1>1, CallsAre DEF Inv, TypeOK, RunInv, Waits
<1>3. c.st \in {"ok", "err"}
  BY <1>1, <1>2 DEF Live, Call
<1>4. c.st = "ok" =>
        /\ g \in Handler /\ g.st = "running" /\ g.kind \in Kind /\ g.step = h.step + 1
        /\ ~g.wasUnspent => ~g.unspent /\ ~Unspent
  BY <1>1, LearnIs
<1> HIDE DEF g
<1>5. over \in Handler /\ over.st \in {"failed", "done"} /\ (Late(over) => ~over.unspent /\ ~Unspent)
  <2>1. CASE c.st = "err"
    BY <2>1 DEF Idle, Handler, Late
  <2>2. CASE c.st = "ok"
    BY <1>4, <2>2 DEF Idle, Handler, Late
  <2> QED
    BY <1>3, <2>1, <2>2
<1> HIDE DEF over
<1>6. CASE /\ asked' = [asked EXCEPT ![q] = over] /\ calls' = LetGo(q)
           /\ UNCHANGED <<entries, sock, opened, ready>>
  BY <1>1, <1>5, <1>6, EndsStep DEF session
<1>7. CASE c.st # "err" /\ g.step <= Len(Lookups(g)) /\ LookUp(q, g, Lookups(g)[g.step], LetGo(q))
  <2>1. Lookups(g) \in Seq(Lookup) /\ g.step \in 1 .. Len(Lookups(g))
    BY <1>2, <1>3, <1>4, <1>7, LookupsAreSome DEF Handler
  <2>2. g.step \in DOMAIN Lookups(g)
    BY <2>1
  <2>3. Late(g) => ~g.unspent /\ ~Unspent
    BY <1>3, <1>4, <1>7 DEF Late
  <2> QED
    BY <1>1, <1>3, <1>4, <1>7, <2>2, <2>3, LetGoIs, LookUpStep
<1>8. CASE c.st # "err" /\ ~(g.step <= Len(Lookups(g))) /\ ~(g.step > Len(Lookups(g)))
  <2>1. Lookups(g) \in Seq(Lookup) /\ g.step \in Nat
    BY <1>3, <1>4, <1>8, LookupsAreSome DEF Handler
  <2>2. Len(Lookups(g)) \in Nat
    BY <2>1
  <2> QED
    BY <1>8, <2>1, <2>2
<1> QED
  BY <1>1, <1>6, <1>7, <1>8

-----------------------------------------------------------------------------
(* The theorems *)

LEMMA InitInv == Init => Inv
<1> SUFFICES ASSUME Init PROVE Inv
  OBVIOUS
<1>1. Idle \in Handler /\ Idle.st = "idle"
  BY Bounds DEF Idle, Handler
<1>2. TypeOK
  BY <1>1 DEF Init, TypeOK
<1> QED
  BY <1>1, <1>2 DEF Init, Inv, CallsInv, RunInv, NoFailureIsReplayed, OpenInv, Late

LEMMA StepInv == Inv /\ [Next]_vars => Inv'
<1> SUFFICES ASSUME Inv, [Next]_vars PROVE Inv'
  OBVIOUS
<1>1. CASE UNCHANGED vars
  BY <1>1, CallsAsTheyWere DEF vars, session
<1>2. CASE Next
  BY <1>2, AskStep, ContinueStep, ConnectedStep, HangupStep, LateCloseStep, OverflowStep, TimeOutStep,
     AnswerStep, PartStep, ReceiveStep, TickStep, RedeemOnChainStep DEF Next, Event
<1> QED
  BY <1>1, <1>2

LEMMA AlwaysInv == Spec => []Inv
BY InitInv, StepInv, PTL DEF Spec

\* Whatever the cache holds and however answers are delayed, a position reported open was
\* unspent when the request began or later (server.js createTxCache, scanPositions).
THEOREM OpenPositionsWereOpen == Spec => []OpenWasOpen
<1>1. Inv => OpenWasOpen
  BY DEF Inv, TypeOK, OpenInv, OpenWasOpen, Late, Handler
<1> QED
  BY AlwaysInv, <1>1, PTL

\* However many sessions have come and gone, a call that fails for a closed connection was of
\* a session that has ended: sent over it, or waiting for its handshake (server.js
\* ElectrumClient.connect, fail).
THEOREM CallsFailWithTheirSession == Spec => []FailsWithItsSession
<1>1. Inv => FailsWithItsSession
  BY DEF Inv, CallsInv, Faithful, FailsWithItsSession
<1> QED
  BY AlwaysInv, <1>1, PTL

\* A lookup that failed is in no later request's way (server.js createTxCache).
THEOREM FailuresAreForgotten == Spec => []NoFailureIsReplayed
<1>1. Inv => NoFailureIsReplayed
  BY DEF Inv
<1> QED
  BY AlwaysInv, <1>1, PTL
=============================================================================
