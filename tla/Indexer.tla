------------------------------- MODULE Indexer -------------------------------
(***************************************************************************)
(* apps/indexer/server.js: the wallet's requests, the Electrum session     *)
(* they share, its framing and time limits, and the cache of transaction   *)
(* bodies.                                                                 *)
(*                                                                         *)
(* Abstractions: the address holds one mint, Mint, which the transaction   *)
(* Redeem may redeem; an answer is the time it speaks of and whether the   *)
(* collateral was unspent then; the tip that a positions request asks for  *)
(* beside its scan is left out.  Promises settle before the next event.    *)
(***************************************************************************)
EXTENDS Integers, Sequences, FiniteSets

CONSTANTS
  Kinds,        \* what each request may ask for
  Mint, Redeem, Funding, \* the transactions: the mint, its redemption, its fee coin's
  Ttl,          \* txCacheTtlMs, in ticks
  CallTimeout,  \* the 15 s of #send, in ticks
  CacheMax,     \* TX_CACHE_MAX
  MaxClock, MaxSession, MaxRequest, MaxWire, \* bounds; MaxWire: on answers under way
  Nil

ASSUME IndexerConstants ==
  /\ \A n \in {Ttl, CallTimeout, MaxClock, MaxRequest} : n \in Nat
  /\ CacheMax \in Nat \ {0} /\ MaxSession \in Nat \ {0} /\ Nil \notin Nat
  /\ Kinds \in [1 .. MaxRequest ->
                SUBSET {"positions", "dd-utxos", "tx", "utxos", "history", "health"}]

VARIABLES
  now, redeemedAt, \* the clock, and when Redeem reached the chain
  sock,     \* the current session, or Nil
  ready,    \* its promise: "dialing", "shaking", "open" or "failed"
  opened,   \* sessions so far
  broken,   \* those that ended
  closing,  \* those destroyed whose 'close' has not come
  half,     \* the session whose bytes begin the frame buffer, or Nil
  wire,     \* answers under way: [call, sess, unspent]
  calls,    \* electrum requests so far; a call's index is its id
  entries,  \* the cache: {[tx, at, call]}, inserted in the order of their calls
  asked     \* [Request -> handler]

world == <<now, redeemedAt>>
session == <<sock, ready, opened, broken, closing, half>>
vars == <<world, session, wire, calls, entries, asked>>

Session == 1 .. MaxSession
Request == 1 .. MaxRequest   \* in the order they come
Tx == {Mint, Redeem, Funding}
Unspent == redeemedAt = Nil

-----------------------------------------------------------------------------
(* Handlers: the lookups a request makes, one after the other *)

Direct(method) == [cached |-> FALSE, what |-> method]
Cached(tx) == [cached |-> TRUE, what |-> tx]

MemoizedUnspent == Cached("unspent")

\* Whether collateral is spent is never read from the cache.
CheckUnspent == Direct("unspent")

Lookups(h) ==
  CASE h.kind = "positions" ->
         <<Direct("history"), Cached(Mint), CheckUnspent>>
           \o IF h.redeemListed THEN <<Cached(Redeem)>> ELSE <<>>
    [] h.kind = "dd-utxos" -> <<CheckUnspent, Cached(Mint)>>
    [] h.kind = "tx" -> <<Cached(Redeem), Cached(Mint), Cached(Funding)>>
    [] h.kind = "utxos" -> <<CheckUnspent>>
    [] h.kind = "history" -> <<Direct("history")>>
    [] h.kind = "health" -> <<Direct("tip")>>

-----------------------------------------------------------------------------
(* Calls *)

Live(c) == c.st \in {"waiting", "sent"}
Failed(c, why) ==
  [c EXCEPT !.st = "err", !.why = why, !.at = 0, !.sess = IF why = "closed" THEN @ ELSE Nil]
FailWhere(states, why, cs) ==
  [i \in DOMAIN cs |-> IF cs[i].st \in states THEN Failed(cs[i], why) ELSE cs[i]]
Sent(c) == [c EXCEPT !.st = "sent", !.sess = sock, !.at = now]
Waiting(c) == c.st = "waiting"

\* connect(), then #send once the session is ready: until then a call waits for the
\* session there is, or the one it opens.
NewCall(what) == [what |-> what, st |-> "waiting", sess |-> Nil, at |-> 0, why |-> "none",
                  unspent |-> TRUE]
Gone == [NewCall("gone") EXCEPT !.st = "ok"]
Connect ==
  IF sock = Nil
  THEN sock' = opened + 1 /\ opened' = opened + 1 /\ ready' = "dialing"
  ELSE UNCHANGED <<sock, opened, ready>>
Awaited == IF sock = Nil THEN opened + 1 ELSE sock
Requested(what) ==
  CASE sock = Nil \/ ready \in {"dialing", "shaking"} -> [NewCall(what) EXCEPT !.sess = Awaited]
    [] sock # Nil /\ ready = "open" -> Sent(NewCall(what))
    [] OTHER -> Failed(NewCall(what), "handshake")

-----------------------------------------------------------------------------
(* The cache *)

EntryOf(tx) == {e \in entries : e.tx = tx}
Fresh(e) == now - e.at < Ttl
Hits(tx) == {e \in EntryOf(tx) : Fresh(e)}
Newest(es) ==
  IF Cardinality(es) > CacheMax THEN {e \in es : \E older \in es : older.call < e.call} ELSE es
Inserted(tx, c) == Newest((entries \ EntryOf(tx)) \cup {[tx |-> tx, at |-> now, call |-> c]})
Kept(es, cs) == es

\* A failed lookup is not kept.
Forget(es, cs) == {e \in es : cs[e.call].st # "err"}

-----------------------------------------------------------------------------
(* Requests *)

Idle == [st |-> "idle", kind |-> "none", step |-> 0, on |-> Nil,
         unspent |-> FALSE, redeemListed |-> FALSE,
         wasUnspent |-> FALSE]  \* history: when it began

\* The next lookup: through the cache, or to the backend.
LookUp(q, h, look, cs) ==
  \/ /\ look.cached
     /\ \E e \in Hits(look.what) : asked' = [asked EXCEPT ![q] = [h EXCEPT !.on = e.call]]
     /\ calls' = cs
     /\ UNCHANGED <<entries, sock, opened, ready>>
  \/ /\ look.cached => Hits(look.what) = {}
     /\ Connect
     /\ calls' = Append(cs, Requested(look.what))
     /\ entries' = IF look.cached
                   THEN Forget(Inserted(look.what, Len(calls')), calls') ELSE entries
     /\ asked' = [asked EXCEPT ![q] = [h EXCEPT !.on = Len(calls')]]

Ask(q, kind) ==
  LET h == [Idle EXCEPT !.st = "running", !.kind = kind, !.step = 1,
                               !.wasUnspent = Unspent]
  IN  /\ asked[q] = Idle /\ \A p \in 1 .. q - 1 : asked[p] # Idle
      /\ LookUp(q, h, Lookups(h)[1], calls)
      /\ UNCHANGED <<world, broken, closing, half, wire>>

\* What a handler keeps of an answer.
Learn(h, c) ==
  LET look == Lookups(h)[h.step]
  IN  [h EXCEPT !.step = @ + 1, !.on = Nil,
        !.unspent = IF look = CheckUnspent THEN c.unspent ELSE @,
        !.redeemListed = IF look.what = "history" THEN ~c.unspent ELSE @]

\* A settled promise nobody refers to any more is gone.
LetGo(q) ==
  [i \in DOMAIN calls |->
     IF i = asked[q].on /\ (\A e \in entries : e.call # i)
                       /\ (\A p \in Request \ {q} : asked[p].on # i)
     THEN Gone ELSE calls[i]]

\* No promise has yet to be reacted to.
Quiet == \A q \in Request : asked[q].st = "running" => Live(calls[asked[q].on])

Continue(q) ==
  LET h == asked[q]
      c == calls[h.on]
      g == Learn(h, c)
  IN  /\ h.st = "running" /\ h.on # Nil /\ ~Live(c)
      /\ IF c.st = "err" \/ g.step > Len(Lookups(g))
         THEN /\ asked' = [asked EXCEPT ![q] =
                   IF c.st = "err" THEN [Idle EXCEPT !.st = "failed"]
                   ELSE [Idle EXCEPT !.st = "done", !.unspent = g.unspent,
                                     !.wasUnspent = g.wasUnspent]]
              /\ calls' = LetGo(q)
              /\ UNCHANGED <<entries, sock, opened, ready>>
         ELSE LookUp(q, g, Lookups(g)[g.step], LetGo(q))
      /\ UNCHANGED <<world, broken, closing, half, wire>>

-----------------------------------------------------------------------------
(* The session *)

Hello(s) == [NewCall("hello") EXCEPT !.st = "sent", !.sess = s, !.at = now]

Connected ==
  /\ ready = "dialing"
  /\ sock # Nil
  /\ ready' = "shaking"
  /\ calls' = Append(calls, Hello(sock))
  /\ UNCHANGED <<world, sock, opened, broken, closing, half, wire, entries, asked>>

AnySocket(s) == TRUE
\* Errors and 'close' count only while the socket is the client's own.
Owns(s) == sock = s
\* A half-assembled frame belongs to the dead socket.
ResetFrames == half' = Nil
RejectPending(cs) == FailWhere({"sent"}, "closed", cs)
\* The calls sent, and those that wait for the session to be ready.
RejectAll(cs) == FailWhere({"waiting", "sent"}, "closed", cs)

Fails(s) ==
  IF Owns(s)
  THEN /\ sock' = Nil /\ ResetFrames
       /\ calls' = RejectAll(calls)
       /\ entries' = Forget(entries, calls')
       /\ UNCHANGED <<ready, opened>>
  ELSE UNCHANGED <<sock, half, calls, entries, ready, opened>>

BytesOfOthers(s) == {a \in wire : a.sess # s}

\* The peer hangs up, or refuses the connection.
Hangup(s) ==
  /\ s = sock /\ s < MaxSession
  /\ broken' = broken \cup {s} /\ wire' = BytesOfOthers(s)
  /\ Fails(s)
  /\ UNCHANGED <<world, closing, asked>>
LateClose(s) ==
  /\ s \in closing
  /\ closing' = closing \ {s} /\ wire' = BytesOfOthers(s)
  /\ Fails(s)
  /\ UNCHANGED <<world, broken, asked>>

\* More bytes than MAX_ELECTRUM_FRAME without a newline.
Overflow(s) ==
  /\ s = sock /\ ready # "dialing" /\ s < MaxSession
  /\ calls' = FailWhere({"waiting", "sent"}, "closed", calls)
  /\ entries' = Forget(entries, calls')
  /\ sock' = Nil /\ half' = Nil
  /\ broken' = broken \cup {s} /\ closing' = closing \cup {s}
  /\ UNCHANGED <<world, ready, opened, wire, asked>>

\* A session that answers its handshake sends what waited for it.
Settle(i, settled) ==
  LET hello == settled.what = "hello"
      cs == [calls EXCEPT ![i] = IF hello THEN Gone ELSE settled]
  IN  /\ ready' = IF hello THEN IF settled.st = "ok" THEN "open" ELSE "failed" ELSE ready
      /\ calls' = IF ~hello THEN cs
                  ELSE IF settled.st = "ok"
                  THEN [j \in DOMAIN cs |-> IF Waiting(cs[j]) THEN Sent(cs[j]) ELSE cs[j]]
                  ELSE FailWhere({"waiting"}, "handshake", cs)
      /\ entries' = Forget(entries, calls')

Expired(c) == c.st = "sent" /\ (now - c.at >= CallTimeout \/ now = MaxClock)
TimeOut(i) ==
  /\ Expired(calls[i])
  /\ Settle(i, Failed(calls[i], "timeout"))
  /\ UNCHANGED <<world, sock, opened, broken, closing, half, wire, asked>>

-----------------------------------------------------------------------------
(* The backend, and the bytes *)

Answer(i) ==
  /\ calls[i].st = "sent" /\ calls[i].sess \notin broken
  /\ (\A a \in wire : a.call # i) /\ Cardinality(wire) < MaxWire
  /\ wire' = wire \cup
       {[call |-> i, sess |-> calls[i].sess,
         unspent |-> calls[i].what \in {"unspent", "history"} => Unspent]}
  /\ UNCHANGED <<world, session, calls, entries, asked>>

\* The beginning of an answer, without its newline.
Part(a) ==
  /\ a.sess = sock /\ half = Nil
  /\ half' = sock
  /\ UNCHANGED <<world, sock, ready, opened, broken, closing, wire, calls, entries, asked>>

\* The rest of it.  A line that starts with another session's bytes does not parse;
\* an answer nobody waits for any more is dropped.  An error is an answer too.
Receive(a, ok) ==
  LET c == calls[a.call]
      parses == half \in {Nil, a.sess}
  IN  /\ wire' = wire \ {a}
      /\ IF a.sess = sock
         THEN /\ half' = Nil
              /\ IF parses /\ c.st = "sent"
                 THEN Settle(a.call,
                        IF ok THEN [c EXCEPT !.st = "ok", !.at = 0, !.sess = Nil, !.unspent = a.unspent]
                        ELSE Failed(c, "error"))
                 ELSE UNCHANGED <<ready, calls, entries>>
         ELSE UNCHANGED <<half, ready, calls, entries>>
      /\ UNCHANGED <<world, sock, opened, broken, closing, asked>>

Tick == now < MaxClock /\ now' = now + 1
          /\ UNCHANGED <<redeemedAt, session, wire, calls, entries, asked>>
RedeemOnChain == redeemedAt = Nil /\ redeemedAt' = now
          /\ UNCHANGED <<now, session, wire, calls, entries, asked>>

-----------------------------------------------------------------------------
Init ==
  /\ now = 0 /\ redeemedAt = Nil
  /\ sock = Nil /\ ready = "none" /\ opened = 0 /\ broken = {} /\ closing = {} /\ half = Nil
  /\ wire = {} /\ calls = <<>> /\ entries = {}
  /\ asked = [q \in Request |-> Idle]

Event ==
  \/ \E q \in Request : \E k \in Kinds[q] : Ask(q, k)
  \/ Connected
  \/ \E s \in Session : Hangup(s) \/ LateClose(s) \/ Overflow(s)
  \/ \E i \in DOMAIN calls : TimeOut(i) \/ Answer(i)
  \/ \E a \in wire : Part(a) \/ \E ok \in BOOLEAN : Receive(a, ok)
  \/ Tick \/ RedeemOnChain
Next == (Quiet /\ Event) \/ \E q \in Request : Continue(q)

\* Timers fire, TCP connects or gives up, promises settle; the backend may stay silent.
Inner ==
  \/ \E q \in Request : Continue(q)
  \/ Quiet /\ (Connected \/ Tick \/ \E i \in DOMAIN calls : TimeOut(i))
Fairness == WF_vars(Inner)
Spec == Init /\ [][Next]_vars
FairSpec == Spec /\ Fairness

-----------------------------------------------------------------------------
(* Properties *)

\* The comment above createTxCache (server.js:186-189): a position reported open was
\* unspent at some moment after the request began, whatever the cache held.
OpenWasOpen ==
  \A q \in Request : asked[q].st = "done" /\ asked[q].unspent => asked[q].wasUnspent

\* A call fails for a closed connection only if the very connection it was sent over, or
\* was waiting for, has ended (server.js:62-71): never with one that was replaced.
FailsWithItsSession ==
  \A i \in DOMAIN calls : calls[i].why = "closed" => calls[i].sess \in broken

\* A lookup that failed is not replayed from the cache (server.js:208-210).
NoFailureIsReplayed == \A e \in entries : calls[e.call].st # "err"

\* Every request is answered, though the backend may never answer anything: the indexer
\* always comes to rest again.
EveryRequestEnds == []<>(\A q \in Request : asked[q].st # "running")
=============================================================================
