----------------------------- MODULE ChainGuard -----------------------------
(***************************************************************************)
(* The wallet server's guard against a cross-wired node, the price sampler *)
(* behind it and the three proxies before it (apps/wallet/server.js        *)
(* startChainGuard, startPriceSampler, handleRpc, handleFaucetClaim,       *)
(* handleIndexer), in a deployment with EXPECTED_CHAIN set.                *)
(*                                                                         *)
(* Three kinds of askers call the node at once: the guard's own probe, the *)
(* sampler's cycle, and browsers, who also have claims and lookups passed  *)
(* on to the Faucet and the indexer.  An answer carries the chain the node *)
(* was on when it gave it, and feeds the guard when it arrives.            *)
(*                                                                         *)
(* Abstractions: a price point is the chain it came from; timers and the   *)
(* two probe intervals are an asker that is idle and may start again; the  *)
(* rate limiter, which lets a request in or answers it, is left out.       *)
(***************************************************************************)
EXTENDS Naturals, Sequences

CONSTANTS
  Chain, Expected,
  Request,     \* proxied requests that may be under way at once
  Down,        \* the node behind the URL does not answer
  Unknown,     \* the guard has heard nothing yet
  Failed,      \* an answer that never came
  MaxUpsets,   \* bound: swaps of the backend and restarts of the server
  MaxPoints    \* the history's window, in points

ASSUME GuardConstants ==
  /\ Expected \in Chain
  /\ Down \notin Chain /\ Unknown \notin Chain /\ Failed \notin Chain
  /\ Request \cap {"loop", "sampler"} = {}
  /\ MaxUpsets \in Nat /\ MaxPoints \in Nat \ {0}

VARIABLES
  node,      \* what answers at the RPC URL: a chain, or Down
  actual,    \* guard.actual
  inquiry,   \* [Asker -> its call to the node]
  series,    \* the price history in memory
  file,      \* and on disk
  cycle,     \* history: what the sampler's cycle heard, and whether the node changed since
  wasRight,  \* history: the node has been on the expected chain since the server started
  upsets

guardVars == <<node, actual, inquiry, series, file, cycle, wasRight, upsets>>
history == <<cycle, wasRight>>

\* What is passed on without the guard learning from it.
Relays == {"other", "claim", "lookup"}

Asker == {"loop", "sampler"} \cup Request
Idle == [pc |-> "idle"]
Asking(what) == [pc |-> "asking", what |-> what]
Answered(what, said) == [pc |-> "answered", what |-> what, said |-> said]
Reading(what) == [pc |-> "reading", what |-> what]
Inquiry ==
  [pc: {"idle", "writing"}]
    \cup [pc: {"reading"}, what: {"rpc", "claim"}]
    \cup [pc: {"asking"}, what: {"chain", "price"} \cup Relays]
    \cup [pc: {"answered"}, what: {"chain", "price"}, said: Chain \cup {Failed}]
Point == [from: Chain, heard: Chain \cup {Failed}, changed: BOOLEAN, wasRight: BOOLEAN]

Goto(a, state) == inquiry' = [inquiry EXCEPT ![a] = state]
At(a, pc, what) == inquiry[a].pc = pc /\ inquiry[a].what = what

-----------------------------------------------------------------------------
(* The guard *)

\* blocked(): another chain than expected, or none confirmed yet.
MismatchOnly == actual # Unknown /\ actual # Expected
Blocked == actual # Expected

\* Without the catch, a failed call is taken for an answer.
\* seen(): the last answer that arrives counts; a failed call leaves it.
LearnOnce(said) ==
  actual' = IF said = Failed \/ actual # Unknown THEN actual ELSE said
Learn(said) == actual' = IF said = Failed THEN actual ELSE said

NodeAnswers(a) ==
  /\ inquiry[a].pc = "asking" /\ inquiry[a].what \in {"chain", "price"}
  /\ node # Down
  /\ Goto(a, Answered(inquiry[a].what, node))
  /\ UNCHANGED <<node, actual, series, file, history, upsets>>

\* Refused, timed out, or an error of the node.
CallFails(a) ==
  /\ inquiry[a].pc = "asking" /\ inquiry[a].what \in {"chain", "price"}
  /\ Goto(a, Answered(inquiry[a].what, Failed))
  /\ UNCHANGED <<node, actual, series, file, history, upsets>>

LoopProbe ==
  /\ inquiry["loop"] = Idle
  /\ Goto("loop", Asking("chain"))
  /\ UNCHANGED <<node, actual, series, file, history, upsets>>

\* The answer to a probe or to a proxied getblockchaininfo.
Seen(a) ==
  /\ a # "sampler"
  /\ At(a, "answered", "chain")
  /\ Learn(inquiry[a].said)
  /\ Goto(a, Idle)
  /\ UNCHANGED <<node, series, file, history, upsets>>

-----------------------------------------------------------------------------
(* The proxies *)

\* handleRpc reads the body before it asks the guard, handleFaucetClaim after.
RpcArrives(r) == inquiry[r] = Idle /\ Goto(r, Reading("rpc"))
ClaimArrives(r) == inquiry[r] = Idle /\ ~Blocked /\ Goto(r, Reading("claim"))
LookupArrives(r) == inquiry[r] = Idle /\ ~Blocked /\ Goto(r, Asking("lookup"))

\* The client went away, the body is too large or no JSON, or the method is not
\* one of those allowed.
BodyRefused(r) == inquiry[r].pc = "reading" /\ Goto(r, Idle)

RpcBodyRead(r) ==
  /\ inquiry[r] = Reading("rpc")
  /\ IF Blocked THEN Goto(r, Idle)
     ELSE \E what \in {"chain", "other"} : Goto(r, Asking(what))

ClaimBodyRead(r) == inquiry[r] = Reading("claim") /\ Goto(r, Asking("claim"))

\* An upstream answers, refuses or times out, and the browser is told.
Relayed(r) ==
  inquiry[r].pc = "asking" /\ inquiry[r].what \in Relays /\ Goto(r, Idle)

Proxy(r) ==
  /\ \/ RpcArrives(r) \/ ClaimArrives(r) \/ LookupArrives(r)
     \/ BodyRefused(r) \/ RpcBodyRead(r) \/ ClaimBodyRead(r) \/ Relayed(r)
  /\ UNCHANGED <<node, actual, series, file, history, upsets>>

-----------------------------------------------------------------------------
(* The price sampler: probe, price, write *)

SampleProbe ==
  /\ inquiry["sampler"] = Idle
  /\ Goto("sampler", Asking("chain"))
  /\ UNCHANGED <<node, actual, series, file, history, upsets>>

SamplesAnyway == FALSE
BlocksSampling == actual' # Expected

SampleSeen ==
  LET said == inquiry["sampler"].said IN
  /\ At("sampler", "answered", "chain")
  /\ Learn(said)
  /\ Goto("sampler", IF BlocksSampling THEN Idle ELSE Asking("price"))
  /\ cycle' = [heard |-> said, changed |-> said # Failed /\ node # said]
  /\ UNCHANGED <<node, series, file, wasRight, upsets>>

\* Points older than the window leave from the front.
Shifted(points) == {SubSeq(points, k, Len(points)) : k \in 1..Len(points) + 1}

PointFrom(said) ==
  [from |-> said, heard |-> cycle.heard, changed |-> cycle.changed, wasRight |-> wasRight]

SamplePrice ==
  LET said == inquiry["sampler"].said IN
  /\ At("sampler", "answered", "price")
  /\ IF said = Failed
       THEN /\ Goto("sampler", Idle)
            /\ UNCHANGED series
       ELSE /\ Goto("sampler", [pc |-> "writing"])
            /\ \E kept \in Shifted(series) :
                 \/ series' = kept   \* no price, or none above zero
                 \/ Len(kept) < MaxPoints /\ series' = Append(kept, PointFrom(said))
  /\ UNCHANGED <<node, actual, file, history, upsets>>

\* A disk that refuses the write costs nothing but the copy.
SampleWrite ==
  /\ inquiry["sampler"].pc = "writing"
  /\ file' \in {series, file}
  /\ Goto("sampler", Idle)
  /\ UNCHANGED <<node, actual, series, history, upsets>>

-----------------------------------------------------------------------------
(* Upsets *)

Swap ==
  /\ upsets < MaxUpsets
  /\ upsets' = upsets + 1
  /\ node' \in (Chain \cup {Down}) \ {node}
  /\ cycle' = [cycle EXCEPT !.changed = TRUE]
  /\ wasRight' = (wasRight \/ node' = Expected)
  /\ UNCHANGED <<actual, inquiry, series, file>>

Restart ==
  /\ upsets < MaxUpsets
  /\ upsets' = upsets + 1
  /\ actual' = Unknown
  /\ inquiry' = [a \in Asker |-> Idle]
  /\ series' \in Shifted(file)
  /\ cycle' = [heard |-> Failed, changed |-> FALSE]
  /\ wasRight' = (node = Expected)
  /\ UNCHANGED <<node, file>>

-----------------------------------------------------------------------------
Init ==
  /\ node \in Chain \cup {Down}
  /\ actual = Unknown
  /\ inquiry = [a \in Asker |-> Idle]
  /\ series = <<>> /\ file = <<>>
  /\ cycle = [heard |-> Failed, changed |-> FALSE]
  /\ wasRight = (node = Expected)
  /\ upsets = 0

Next ==
  \/ LoopProbe \/ SampleProbe \/ SampleSeen \/ SamplePrice \/ SampleWrite
  \/ \E r \in Request : Proxy(r)
  \/ \E a \in Asker : NodeAnswers(a) \/ CallFails(a) \/ Seen(a)
  \/ Swap \/ Restart

Spec == Init /\ [][Next]_guardVars

\* Timers fire and answers are handled.  A node that is up answers the probe now
\* and then, which is all that is asked of it.
FairSpec ==
  /\ Spec
  /\ WF_guardVars(LoopProbe)
  /\ SF_guardVars(NodeAnswers("loop"))
  /\ \A a \in Asker : WF_guardVars(Seen(a))
  /\ WF_guardVars(SampleSeen)

-----------------------------------------------------------------------------
(* Properties *)

\* Every inquiry, point and answer has its type.
TypeOK ==
  /\ node \in Chain \cup {Down}
  /\ actual \in Chain \cup {Unknown}
  /\ inquiry \in [Asker -> Inquiry]
  /\ \A r \in Request \cup {"loop"} :
       inquiry[r].pc \in {"asking", "answered"} => inquiry[r].what # "price"
  /\ series \in Seq(Point) /\ Len(series) <= MaxPoints
  /\ file \in Seq(Point) /\ Len(file) <= MaxPoints
  /\ cycle \in [heard: Chain \cup {Failed}, changed: BOOLEAN]
  /\ wasRight \in BOOLEAN
  /\ upsets \in 0..MaxUpsets

\* "Proxying is refused until the node's chain has been confirmed once" (server.js
\* startChainGuard): no call, claim or lookup leaves the server before its node has
\* been on the expected chain since the start, although the guard is asked before a
\* claim's body is read and the claim is passed on after.
FailsClosed ==
  [][\A r \in Request :
       inquiry'[r].pc = "asking" /\ inquiry[r].pc # "asking" => wasRight]_guardVars

\* The sampler confirms the chain in the cycle that records the price (server.js
\* startPriceSampler sample): a wrong point takes a node that was right since the
\* start, and one that changed after the cycle's probe or did not answer it.
LeakTakesASwap ==
  \A i \in 1..Len(series) :
    series[i].from # Expected =>
      series[i].wasRight /\ (series[i].changed \/ series[i].heard = Failed)

\* A swap is caught without a restart (server.js startChainGuard): whatever answers
\* were still on their way, a node that stays on one chain is in the end what the
\* guard believes.
GuardAgrees == \A c \in Chain : <>[](node = c) => <>[](actual = c)

\* "Re-confirm the chain in the same cycle that records the price" (server.js
\* startPriceSampler): every point's cycle heard the expected chain.
PointIsConfirmed == \A i \in 1..Len(series) : series[i].heard = Expected

=============================================================================
