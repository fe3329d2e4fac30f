------------------------------- MODULE Faucet -------------------------------
(***************************************************************************)
(* The testnet faucet (apps/faucet/server.js): one dispense per address    *)
(* and per IP every cooldown, paid by the hot wallet of a node.            *)
(*                                                                         *)
(* Claims interleave at their awaits; everything between two awaits is one *)
(* step.  A claim touches nothing shared before the chain call answers, so *)
(* it begins there, and one that is refused there changes nothing.  The    *)
(* clocks live in memory and in one JSON file.                             *)
(*                                                                         *)
(* Abstractions: an address in a request is what it decodes to and whether *)
(* it is spelled in capitals; the amount is left out.                      *)
(***************************************************************************)
EXTENDS Naturals, Sequences

CONSTANTS
  Claim,      \* requests being served at once
  Address,    \* addresses that decode
  Foreign,    \* the ones of another chain than the node's
  Ip,
  Faults,     \* subset of {"lost", "crash", "torn", "disk"}
  Cooldown,   \* in ticks of the clock
  MaxClock,   \* bound: the clock stops here
  MaxPayouts, \* bound: dispenses
  Torn        \* a claims file cut short by a crash

ASSUME FaucetConstants ==
  /\ Faults \subseteq {"lost", "crash", "torn", "disk"}
  /\ Foreign \subseteq Address
  /\ Cooldown \in Nat \ {0}
  /\ MaxClock \in Nat /\ MaxPayouts \in Nat

\* Bech32 may be written in capitals; both spellings name one address.
Written == [of: Address, upper: BOOLEAN]
Lower(w) == [of |-> w.of, upper |-> FALSE]

Ledger == [byAddress: [Written -> Nat], byIp: [Ip -> Nat]]
NoClaims == [byAddress |-> [w \in Written |-> 0], byIp |-> [i \in Ip |-> 0]]

ASSUME TornIsNoLedger == Torn \notin Ledger

VARIABLES
  clock,
  claims,    \* the ledger in memory
  file,      \* the ledger on disk, or Torn
  inFlight,  \* address and IP keys of claims being served
  claim,     \* [Claim -> state of one request]
  payouts,   \* history: what the hot wallet sent, in order
  late       \* sendtoaddress calls given up on that the node may yet run

faucetVars == <<clock, claims, file, inFlight, claim, payouts, late>>

Waiting == {"oracle", "send"}
ClaimState == [pc: {"idle"}]
                \cup [pc: Waiting, address: Written, ip: Ip]
                \cup [pc: {"paid"}, address: Written, ip: Ip, payout: Nat]
Payout == [address: Address, ip: Ip, at: Nat, answered: BOOLEAN, late: BOOLEAN]
Idle == [pc |-> "idle"]

At(c, pc) == claim[c].pc = pc
Goto(c, state) == claim' = [claim EXCEPT ![c] = state]

-----------------------------------------------------------------------------
(* The claim handler *)

Keys(address, ip) == {<<"a", address>>, <<"i", ip>>}
Locks(c) == Keys(claim[c].address, claim[c].ip)

LaterOf(a, b) == IF a >= b THEN a ELSE b

AddressOnly(address, ip) == claims.byAddress[address] > clock - Cooldown
CoolingDown(address, ip) ==
  LaterOf(claims.byAddress[address], claims.byIp[ip]) > clock - Cooldown

\* Refused: an address of another chain than the node's, a key of a claim being
\* served, a clock that still runs.
Accept(c, written, ip) ==
  LET address == Lower(written) IN
  /\ At(c, "idle")
  /\ address.of \notin Foreign
  /\ Keys(address, ip) \cap inFlight = {}
  /\ ~CoolingDown(address, ip)
  /\ inFlight' = inFlight \cup Keys(address, ip)
  /\ Goto(c, [pc |-> "oracle", address |-> address, ip |-> ip])
  /\ UNCHANGED <<clock, claims, file, payouts, late>>

Stamped(c) ==
  [byAddress |-> [claims.byAddress EXCEPT ![claim[c].address] = clock],
   byIp |-> [claims.byIp EXCEPT ![claim[c].ip] = clock]]

ChargedFirst(c) ==
  /\ At(c, "oracle")
  /\ claims' = Stamped(c)
  /\ Goto(c, [pc |-> "send", address |-> claim[c].address, ip |-> claim[c].ip])
  /\ UNCHANGED <<clock, file, inFlight, payouts, late>>
OraclePriced(c) ==
  /\ At(c, "oracle")
  /\ Goto(c, [pc |-> "send", address |-> claim[c].address, ip |-> claim[c].ip])
  /\ UNCHANGED <<clock, claims, file, inFlight, payouts, late>>

\* finally: the keys go, however the claim ends.
Release(c) == inFlight' = inFlight \ Locks(c)

NoPrice(c) ==
  /\ At(c, "oracle")
  /\ Release(c)
  /\ Goto(c, Idle)
  /\ UNCHANGED <<clock, claims, file, payouts, late>>

\* The node runs sendtoaddress.
NodePays(c) ==
  /\ At(c, "send")
  /\ Len(payouts) < MaxPayouts
  /\ payouts' = Append(payouts, [address |-> claim[c].address.of, ip |-> claim[c].ip,
                                 at |-> clock, answered |-> FALSE, late |-> FALSE])
  /\ Goto(c, [pc |-> "paid", address |-> claim[c].address, ip |-> claim[c].ip,
              payout |-> Len(payouts) + 1])
  /\ UNCHANGED <<clock, claims, file, inFlight, late>>

Record(c) ==
  /\ At(c, "paid")
  /\ claims' = Stamped(c)
  /\ \/ /\ file' = Stamped(c)
        /\ payouts' = [payouts EXCEPT ![claim[c].payout] =
                         [@ EXCEPT !.answered = TRUE]]
     \/ /\ "disk" \in Faults
        /\ UNCHANGED <<file, payouts>>
  /\ Release(c)
  /\ Goto(c, Idle)
  /\ UNCHANGED <<clock, late>>

-----------------------------------------------------------------------------
(* Faults *)

\* The call throws or outlives its 15 seconds; sendtoaddress may have run, or
\* may run later.
RpcFails(c) ==
  /\ "lost" \in Faults
  /\ claim[c].pc \in Waiting \cup {"paid"}
  /\ late' \in {late} \cup (IF At(c, "send")
                              THEN {late \cup {[address |-> claim[c].address.of,
                                                ip |-> claim[c].ip]}}
                              ELSE {})
  /\ Release(c)
  /\ Goto(c, Idle)
  /\ UNCHANGED <<clock, claims, file, payouts>>

NodePaysLate(l) ==
  /\ l \in late
  /\ Len(payouts) < MaxPayouts
  /\ late' = late \ {l}
  /\ payouts' = Append(payouts, [address |-> l.address, ip |-> l.ip, at |-> clock,
                                 answered |-> FALSE, late |-> TRUE])
  /\ UNCHANGED <<clock, claims, file, inFlight, claim>>

\* loadClaims: what does not parse is an empty ledger.
LoadClaims(f) == IF f = Torn THEN NoClaims ELSE f

\* The process dies, perhaps inside saveClaims, and starts again.
Crash ==
  /\ "crash" \in Faults
  /\ file' \in {file} \cup (IF "torn" \in Faults /\ \E c \in Claim : At(c, "paid")
                              THEN {Torn} ELSE {})
  /\ claims' = LoadClaims(file')
  /\ inFlight' = {}
  /\ claim' = [c \in Claim |-> Idle]
  /\ late' = late \cup {[address |-> claim[c].address.of, ip |-> claim[c].ip] :
                          c \in {d \in Claim : At(d, "send")}}
  /\ UNCHANGED <<clock, payouts>>

Tick ==
  /\ clock < MaxClock
  /\ clock' = clock + 1
  /\ UNCHANGED <<claims, file, inFlight, claim, payouts, late>>

-----------------------------------------------------------------------------
\* The clock starts past one cooldown: now - cooldown is a date.
Init ==
  /\ clock = Cooldown
  /\ claims = NoClaims /\ file = NoClaims
  /\ inFlight = {}
  /\ claim = [c \in Claim |-> Idle]
  /\ payouts = <<>>
  /\ late = {}

Serve(c) ==
  OraclePriced(c) \/ NoPrice(c) \/ NodePays(c) \/ Record(c)

Next ==
  \/ \E c \in Claim :
       \/ \E w \in Written, i \in Ip : Accept(c, w, i)
       \/ Serve(c)
       \/ RpcFails(c)
  \/ \E l \in late : NodePaysLate(l)
  \/ Crash
  \/ Tick

Spec == Init /\ [][Next]_faucetVars

-----------------------------------------------------------------------------
(* Properties *)

\* Every ledger, claim and payout has its type.
TypeOK ==
  /\ clock \in Nat
  /\ claims \in Ledger
  /\ file \in Ledger \cup {Torn}
  /\ inFlight \subseteq ({"a"} \X Written) \cup ({"i"} \X Ip)
  /\ claim \in [Claim -> ClaimState]
  /\ payouts \in Seq(Payout)
  /\ late \subseteq [address: Address, ip: Ip]

Related(p, q) == p.address = q.address \/ p.ip = q.ip

\* "A faucet restart does not reset anyone's clock" (server.js loadClaims): a
\* dispense whose claimer was answered keeps its address and IP out for the
\* cooldown, across restarts, lost replies and a full disk.
AnsweredIsHonoured ==
  \A i, j \in 1..Len(payouts) :
    i < j /\ payouts[i].answered /\ ~payouts[j].late /\ Related(payouts[i], payouts[j])
      => payouts[j].at >= payouts[i].at + Cooldown

\* A clock runs only for who was paid (server.js handleClaim): an entry of the
\* ledger stands for a dispense to that address or IP no later than the entry.
LedgerIsEarned ==
  /\ \A w \in Written : claims.byAddress[w] > 0 =>
       \E i \in 1..Len(payouts) :
         payouts[i].address = w.of /\ payouts[i].at <= claims.byAddress[w]
  /\ \A p \in Ip : claims.byIp[p] > 0 =>
       \E i \in 1..Len(payouts) :
         payouts[i].ip = p /\ payouts[i].at <= claims.byIp[p]

=============================================================================
