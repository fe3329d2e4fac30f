-------------------------- MODULE ChainGuardProofs --------------------------
(***************************************************************************)
(* The guard fails closed, and a wrong price takes a change within its     *)
(* cycle, for every set of chains and requests and any number of upsets.   *)
(***************************************************************************)
EXTENDS ChainGuard, SequenceTheorems, TLAPS

\* An asker may hold q: an answer it believes, and a claim whose body is still being
\* read, come from a time at which the node has been right.
Believable(a, q) ==
  /\ q.pc = "answered" /\ q.said = Expected => wasRight
  /\ a \in Request /\ q = Reading("claim") => wasRight
  /\ a # "sampler" /\ q.pc \in {"asking", "answered"} => q.what # "price"

BelievedWasRight ==
  /\ node = Expected => wasRight
  /\ actual = Expected => wasRight
  /\ \A a \in Asker : Believable(a, inquiry[a])

\* The cycle under way may be in q: what it records is right, or it had to be upset.
Upset == cycle.changed \/ cycle.heard = Failed
Excusable(q) ==
  /\ q.pc \in {"asking", "answered"} /\ q.what = "price" => wasRight
  /\ q.pc = "asking" /\ q.what = "price" => node = Expected \/ Upset
  /\ q.pc = "answered" /\ q.what = "price" => q.said \in {Expected, Failed} \/ Upset

\* So of a point.
Excused(p) == p.from # Expected => p.wasRight /\ (p.changed \/ p.heard = Failed)
PointsAreExcused ==
  /\ \A i \in 1..Len(series) : Excused(series[i])
  /\ \A i \in 1..Len(file) : Excused(file[i])

Inv ==
  /\ TypeOK
  /\ BelievedWasRight
  /\ Excusable(inquiry["sampler"])
  /\ PointsAreExcused

-----------------------------------------------------------------------------
\* Moving one inquiry leaves the others, and the table's shape.
LEMMA GotoMoves ==
  ASSUME TypeOK, NEW a \in Asker, NEW q \in Inquiry, Goto(a, q)
  PROVE  /\ inquiry' \in [Asker -> Inquiry]
         /\ inquiry'[a] = q
         /\ \A b \in Asker \ {a} : inquiry'[b] = inquiry[b]
BY DEF TypeOK, Goto

\* What is left of a history is a history, no longer, of the same points.
LEMMA ShiftedPoints ==
  ASSUME NEW points \in Seq(Point), NEW kept \in Shifted(points)
  PROVE  /\ kept \in Seq(Point) /\ Len(kept) <= Len(points)
         /\ \A i \in 1..Len(kept) : \E j \in 1..Len(points) : kept[i] = points[j]
<1>1. PICK k \in 1..Len(points) + 1 : kept = SubSeq(points, k, Len(points))
  BY DEF Shifted
<1>2. kept \in Seq(Point) /\ Len(kept) = Len(points) + 1 - k
  BY <1>1, SubSeqProperties
<1>3. \A i \in 1..Len(kept) : kept[i] = points[k + i - 1] /\ k + i - 1 \in 1..Len(points)
  BY <1>1, <1>2, SubSeqProperties
<1>. QED  BY <1>2, <1>3

\* A step that only moves one inquiry keeps the invariant if it may be moved there.
LEMMA MoveKeeps ==
  ASSUME Inv, NEW a \in Asker, NEW q \in Inquiry, Goto(a, q),
         UNCHANGED <<node, actual, series, file, history, upsets>>,
         Believable(a, q), a = "sampler" => Excusable(q)
  PROVE  Inv'
<1>1. /\ inquiry' \in [Asker -> Inquiry]
      /\ inquiry'[a] = q
      /\ \A b \in Asker \ {a} : inquiry'[b] = inquiry[b]
  BY GotoMoves DEF Inv
<1>2. \A b \in Asker : Believable(b, inquiry'[b])
  BY <1>1 DEF Inv, BelievedWasRight
<1>3. BelievedWasRight'
  BY <1>2 DEF Inv, BelievedWasRight, Believable, history
<1>4. TypeOK'
  BY <1>1, <1>2, GuardConstants DEF Inv, TypeOK, history, Believable, Asker
<1>5. Excusable(inquiry["sampler"])'
  <2>1. Excusable(inquiry'["sampler"])
    BY <1>1 DEF Inv, Asker
  <2>. QED  BY <2>1 DEF Excusable, Upset, history
<1>6. PointsAreExcused'
  BY DEF Inv, PointsAreExcused
<1>. QED  BY <1>3, <1>4, <1>5, <1>6 DEF Inv

-----------------------------------------------------------------------------
(* One lemma per group of actions *)

LEMMA InitInv == ASSUME Init PROVE Inv
<1>. USE DEF Init
<1>1. TypeOK
  BY GuardConstants DEF TypeOK, Idle, Inquiry, Asker
<1>2. BelievedWasRight
  BY GuardConstants DEF BelievedWasRight, Believable, Idle, Reading
<1>3. Excusable(inquiry["sampler"])
  BY DEF Excusable, Idle, Asker
<1>4. PointsAreExcused
  BY DEF PointsAreExcused
<1>. QED  BY <1>1, <1>2, <1>3, <1>4 DEF Inv

LEMMA ProbesKeep == ASSUME Inv, LoopProbe \/ SampleProbe PROVE Inv'
<1>. DEFINE q == Asking("chain")
<1>1. PICK a \in Asker : Goto(a, q) /\ UNCHANGED <<node, actual, series, file, history, upsets>>
  BY DEF LoopProbe, SampleProbe, Asker
<1>2. q \in Inquiry /\ Believable(a, q) /\ Excusable(q)
  BY DEF Asking, Inquiry, Believable, Excusable, Reading
<1>. QED  BY <1>1, <1>2, MoveKeeps

\* The node answers with the chain it is on, or the call fails.
LEMMA AnswersKeep ==
  ASSUME Inv, NEW a \in Asker, NodeAnswers(a) \/ CallFails(a)
  PROVE  Inv'
<1>. DEFINE what == inquiry[a].what
<1>1. PICK said \in {node, Failed} :
        /\ said = Failed \/ node # Down
        /\ Goto(a, Answered(what, said))
        /\ UNCHANGED <<node, actual, series, file, history, upsets>>
  BY DEF NodeAnswers, CallFails
<1>2. inquiry[a].pc = "asking" /\ what \in {"chain", "price"}
  BY DEF NodeAnswers, CallFails
<1>3. said \in Chain \cup {Failed}
  BY <1>1 DEF Inv, TypeOK
<1>4. Answered(what, said) \in Inquiry
  BY <1>2, <1>3 DEF Answered, Inquiry
<1>5. Believable(a, Answered(what, said))
  BY <1>1, <1>2, GuardConstants DEF Answered, Reading, Inv, BelievedWasRight, Believable
<1>6. a = "sampler" => Excusable(Answered(what, said))
  BY <1>1, <1>2 DEF Answered, Inv, Excusable
<1>. QED  BY <1>1, <1>4, <1>5, <1>6, MoveKeeps

\* Hearing an answer: the guard believes what it may.
LEMMA LearnIsRight ==
  ASSUME Inv, NEW a \in Asker, At(a, "answered", "chain"), Learn(inquiry[a].said)
  PROVE  actual' \in Chain \cup {Unknown} /\ (actual' = Expected => wasRight)
<1>1. inquiry[a].said \in Chain \cup {Failed}
  BY DEF Inv, TypeOK, Inquiry, At
<1>. QED  BY <1>1 DEF Inv, TypeOK, BelievedWasRight, Believable, Learn, At

LEMMA SeenKeeps == ASSUME Inv, NEW a \in Asker, Seen(a) PROVE Inv'
<1>1. Idle \in Inquiry
  BY DEF Idle, Inquiry
<1>2. /\ inquiry' \in [Asker -> Inquiry]
      /\ inquiry'[a] = Idle
      /\ \A b \in Asker \ {a} : inquiry'[b] = inquiry[b]
  BY <1>1, GotoMoves DEF Inv, Seen
<1>3. actual' \in Chain \cup {Unknown} /\ (actual' = Expected => wasRight)
  BY LearnIsRight DEF Seen
<1>4. \A b \in Asker : Believable(b, inquiry'[b])
  BY <1>2 DEF Inv, BelievedWasRight, Believable, Idle, Reading
<1>5. BelievedWasRight'
  BY <1>3, <1>4 DEF Inv, BelievedWasRight, Believable, Seen, history
<1>6. TypeOK'
  BY <1>2, <1>3, <1>4, GuardConstants DEF Inv, TypeOK, Seen, history, Believable, Asker
<1>7. Excusable(inquiry["sampler"])'
  BY <1>2 DEF Inv, Excusable, Upset, Seen, history, Asker
<1>8. PointsAreExcused'
  BY DEF Inv, PointsAreExcused, Seen
<1>. QED  BY <1>5, <1>6, <1>7, <1>8 DEF Inv

\* A claim is taken up, and a lookup or a call passed on, only by a guard that
\* believes the node right.
LEMMA ProxyKeeps == ASSUME Inv, NEW r \in Request, Proxy(r) PROVE Inv'
<1>1. r \in Asker /\ r # "sampler"
  BY GuardConstants DEF Asker
<1>2. PICK q \in {Idle, Reading("rpc"), Reading("claim")}
                   \cup {Asking(what) : what \in {"chain"} \cup Relays} :
        Goto(r, q) /\ (q = Reading("claim") => ~Blocked)
  <2>1. CASE RpcArrives(r) \/ ClaimArrives(r)
    BY <2>1 DEF RpcArrives, ClaimArrives, Reading
  <2>2. CASE LookupArrives(r) \/ ClaimBodyRead(r)
    BY <2>2 DEF LookupArrives, ClaimBodyRead, Asking, Reading, Relays
  <2>3. CASE BodyRefused(r) \/ Relayed(r)
    BY <2>3 DEF BodyRefused, Relayed, Idle, Reading
  <2>4. CASE RpcBodyRead(r)
    <3>1. PICK q \in {Idle, Asking("chain"), Asking("other")} : Goto(r, q)
      BY <2>4 DEF RpcBodyRead
    <3>. QED  BY <3>1 DEF Idle, Asking, Reading, Relays
  <2>. QED  BY <2>1, <2>2, <2>3, <2>4 DEF Proxy
<1>3. q \in Inquiry
  BY <1>2 DEF Idle, Reading, Asking, Inquiry
<1>4. Believable(r, q)
  BY <1>2 DEF Inv, BelievedWasRight, Believable, Blocked, Idle, Reading, Asking, Relays
<1>. QED  BY <1>1, <1>2, <1>3, <1>4, MoveKeeps DEF Proxy

\* The cycle goes on to its price only under a guard that believes the node right.
LEMMA SampleSeenKeeps == ASSUME Inv, SampleSeen PROVE Inv'
<1>. DEFINE said == inquiry["sampler"].said
            q == IF BlocksSampling THEN Idle ELSE Asking("price")
<1>1. q \in Inquiry /\ "sampler" \in Asker
  BY DEF Idle, Asking, Inquiry, Asker
<1>2. /\ inquiry' \in [Asker -> Inquiry]
      /\ inquiry'["sampler"] = q
      /\ \A b \in Asker \ {"sampler"} : inquiry'[b] = inquiry[b]
  BY <1>1, GotoMoves DEF Inv, SampleSeen
<1>3. actual' \in Chain \cup {Unknown} /\ (actual' = Expected => wasRight)
  BY <1>1, LearnIsRight DEF SampleSeen
<1>4. said \in Chain \cup {Failed}
  BY <1>1 DEF Inv, TypeOK, Inquiry, SampleSeen, At
<1>5. cycle' = [heard |-> said, changed |-> said # Failed /\ node # said]
  BY DEF SampleSeen
<1>6. BelievedWasRight'
  <2>1. \A b \in Asker : Believable(b, inquiry'[b])
    BY <1>2, GuardConstants
    DEF Inv, BelievedWasRight, Believable, Idle, Asking, Reading
  <2>. QED  BY <2>1, <1>3 DEF Inv, BelievedWasRight, Believable, SampleSeen
<1>7. TypeOK'
  <2>1. \A r \in Request \cup {"loop"} : r \in Asker \ {"sampler"}
    BY GuardConstants DEF Asker
  <2>. QED  BY <1>2, <1>3, <1>4, <1>5, <2>1 DEF Inv, TypeOK, SampleSeen
<1>8. Excusable(inquiry["sampler"])'
  <2>1. CASE q = Idle
    BY <1>2, <2>1 DEF Excusable, Idle
  <2>2. CASE q = Asking("price") /\ actual' = Expected
    <3>1. wasRight' /\ (said = Failed \/ said = Expected)
      BY <2>2, <1>3 DEF SampleSeen, Learn
    <3>2. node' = Expected \/ Upset'
      <4>1. /\ cycle'.heard = said
            /\ cycle'.changed = (said # Failed /\ node # said)
            /\ node' = node
        BY <1>5 DEF SampleSeen
      <4>. QED  BY <3>1, <4>1 DEF Upset
    <3>. QED  BY <1>2, <2>2, <3>1, <3>2 DEF Excusable, Asking
  <2>. QED  BY <2>1, <2>2 DEF BlocksSampling
<1>9. PointsAreExcused'
  BY DEF Inv, PointsAreExcused, SampleSeen
<1>. QED  BY <1>6, <1>7, <1>8, <1>9 DEF Inv

\* The price makes an excused point, beside those that are kept.
LEMMA SamplePriceKeeps == ASSUME Inv, SamplePrice PROVE Inv'
<1>. DEFINE said == inquiry["sampler"].said
            point == PointFrom(said)
<1>1. PICK q \in {Idle, [pc |-> "writing"]} : Goto("sampler", q)
  BY DEF SamplePrice
<1>2. q \in Inquiry /\ "sampler" \in Asker
  BY DEF Idle, Inquiry, Asker
<1>3. /\ inquiry' \in [Asker -> Inquiry]
      /\ inquiry'["sampler"] = q
      /\ \A b \in Asker \ {"sampler"} : inquiry'[b] = inquiry[b]
  BY <1>1, <1>2, GotoMoves DEF Inv
<1>4. At("sampler", "answered", "price") /\ said \in Chain \cup {Failed}
  BY <1>2 DEF Inv, TypeOK, Inquiry, SamplePrice, At
<1>5. /\ series' \in Seq(Point) /\ Len(series') <= MaxPoints
      /\ \A i \in 1..Len(series') : Excused(series'[i])
  <2>1. CASE said = Failed
    BY <2>1 DEF SamplePrice, Inv, TypeOK, PointsAreExcused
  <2>2. CASE said # Failed
    <3>1. point \in Point /\ Excused(point)
      BY <1>4, <2>2 DEF Inv, TypeOK, Point, PointFrom, Excused, Excusable, Upset, At
    <3>2. PICK kept \in Shifted(series) :
            \/ series' = kept
            \/ Len(kept) < MaxPoints /\ series' = Append(kept, point)
      BY <2>2 DEF SamplePrice
    <3>3. series \in Seq(Point) /\ Len(series) <= MaxPoints
      BY DEF Inv, TypeOK
    <3>4. /\ kept \in Seq(Point) /\ Len(kept) <= MaxPoints
          /\ \A i \in 1..Len(kept) : \E j \in 1..Len(series) : kept[i] = series[j]
      BY <3>3, ShiftedPoints, GuardConstants
    <3>5. \A i \in 1..Len(kept) : Excused(kept[i])
      BY <3>4 DEF Inv, PointsAreExcused
    <3>6. CASE series' = kept
      BY <3>4, <3>5, <3>6
    <3>7. CASE Len(kept) < MaxPoints /\ series' = Append(kept, point)
      <4>1. /\ series' \in Seq(Point) /\ Len(series') = Len(kept) + 1
            /\ \A i \in 1..Len(kept) : series'[i] = kept[i]
            /\ series'[Len(kept) + 1] = point
        BY <3>1, <3>4, <3>7
      <4>. QED  BY <3>1, <3>4, <3>5, <3>7, <4>1, GuardConstants
    <3>. QED  BY <3>2, <3>6, <3>7
  <2>. QED  BY <2>1, <2>2
<1>6. BelievedWasRight'
  <2>1. \A b \in Asker : Believable(b, inquiry'[b])
    BY <1>1, <1>3 DEF Inv, BelievedWasRight, Believable, Idle, Reading
  <2>. QED  BY <2>1 DEF Inv, BelievedWasRight, Believable, SamplePrice, history
<1>7. TypeOK'
  <2>1. \A r \in Request \cup {"loop"} : r \in Asker \ {"sampler"}
    BY GuardConstants DEF Asker
  <2>. QED  BY <1>3, <1>5, <2>1 DEF Inv, TypeOK, SamplePrice, history
<1>8. Excusable(inquiry["sampler"])'
  BY <1>1, <1>3 DEF Excusable, Idle
<1>9. PointsAreExcused'
  BY <1>5 DEF Inv, PointsAreExcused, SamplePrice
<1>. QED  BY <1>6, <1>7, <1>8, <1>9 DEF Inv

LEMMA SampleWriteKeeps == ASSUME Inv, SampleWrite PROVE Inv'
<1>1. Idle \in Inquiry /\ "sampler" \in Asker
  BY DEF Idle, Inquiry, Asker
<1>2. /\ inquiry' \in [Asker -> Inquiry]
      /\ inquiry'["sampler"] = Idle
      /\ \A b \in Asker \ {"sampler"} : inquiry'[b] = inquiry[b]
  BY <1>1, GotoMoves DEF Inv, SampleWrite
<1>3. BelievedWasRight'
  <2>1. \A b \in Asker : Believable(b, inquiry'[b])
    BY <1>2 DEF Inv, BelievedWasRight, Believable, Idle, Reading
  <2>. QED  BY <2>1 DEF Inv, BelievedWasRight, Believable, SampleWrite, history
<1>4. TypeOK'
  <2>1. \A r \in Request \cup {"loop"} : r \in Asker \ {"sampler"}
    BY GuardConstants DEF Asker
  <2>. QED  BY <1>2, <2>1 DEF Inv, TypeOK, SampleWrite, history
<1>5. Excusable(inquiry["sampler"])'
  BY <1>2 DEF Excusable, Idle
<1>6. PointsAreExcused'
  BY DEF Inv, PointsAreExcused, SampleWrite
<1>. QED  BY <1>3, <1>4, <1>5, <1>6 DEF Inv

\* A swap upsets the cycle under way; nothing that was right stops having been so.
LEMMA SwapKeeps == ASSUME Inv, Swap PROVE Inv'
<1>1. node' \in Chain \cup {Down} /\ upsets' \in 0..MaxUpsets
  BY GuardConstants DEF Inv, TypeOK, Swap
<1>2. /\ cycle' \in [heard: Chain \cup {Failed}, changed: BOOLEAN]
      /\ cycle'.changed
  BY DEF Inv, TypeOK, Swap
<1>3. wasRight' \in BOOLEAN /\ (wasRight => wasRight') /\ (node' = Expected => wasRight')
  BY DEF Inv, TypeOK, Swap
<1>4. TypeOK'
  BY <1>1, <1>2, <1>3 DEF Inv, TypeOK, Swap
<1>5. BelievedWasRight'
  BY <1>3 DEF Inv, BelievedWasRight, Believable, Swap
<1>6. Excusable(inquiry["sampler"])'
  BY <1>2, <1>3 DEF Inv, Excusable, Upset, Swap
<1>7. PointsAreExcused'
  BY DEF Inv, PointsAreExcused, Swap
<1>. QED  BY <1>4, <1>5, <1>6, <1>7 DEF Inv

\* A restart forgets every answer, and reads back points that were excused.
LEMMA RestartKeeps == ASSUME Inv, Restart PROVE Inv'
<1>1. inquiry' \in [Asker -> Inquiry] /\ \A a \in Asker : inquiry'[a] = Idle
  BY DEF Restart, Idle, Inquiry
<1>2. file \in Seq(Point) /\ Len(file) <= MaxPoints
  BY DEF Inv, TypeOK
<1>3. /\ series' \in Seq(Point) /\ Len(series') <= MaxPoints
      /\ \A i \in 1..Len(series') : \E j \in 1..Len(file) : series'[i] = file[j]
  BY <1>2, ShiftedPoints, GuardConstants DEF Restart
<1>4. TypeOK'
  <2>1. \A r \in Request \cup {"loop"} : r \in Asker
    BY DEF Asker
  <2>. QED  BY <1>1, <1>3, <2>1, GuardConstants DEF Inv, TypeOK, Restart, Idle
<1>5. BelievedWasRight'
  BY <1>1, GuardConstants DEF BelievedWasRight, Believable, Restart, Idle, Reading
<1>6. Excusable(inquiry["sampler"])'
  BY <1>1 DEF Excusable, Idle, Asker
<1>7. PointsAreExcused'
  BY <1>3 DEF Inv, PointsAreExcused, Restart
<1>. QED  BY <1>4, <1>5, <1>6, <1>7 DEF Inv

-----------------------------------------------------------------------------
LEMMA StepKeeps == ASSUME Inv, [Next]_guardVars PROVE Inv'
<1>1. CASE UNCHANGED guardVars
  <2>1. TypeOK' /\ PointsAreExcused'
    BY <1>1 DEF Inv, guardVars, history, TypeOK, PointsAreExcused
  <2>2. BelievedWasRight' /\ Excusable(inquiry["sampler"])'
    BY <1>1 DEF Inv, guardVars, history, BelievedWasRight, Believable, Excusable, Upset
  <2>. QED  BY <2>1, <2>2 DEF Inv
<1>2. CASE Next
  BY <1>2, ProbesKeep, AnswersKeep, SeenKeeps, ProxyKeeps, SampleSeenKeeps,
     SamplePriceKeeps, SampleWriteKeeps, SwapKeeps, RestartKeeps DEF Next
<1>. QED  BY <1>1, <1>2

\* The invariant holds of every reachable state.
LEMMA GuardInvariant == Spec => []Inv
<1>1. Init => Inv
  BY InitInv
<1>2. Inv /\ [Next]_guardVars => Inv'
  BY StepKeeps
<1>. QED  BY <1>1, <1>2, PTL DEF Spec

\* The guard, the proxies, the sampler and its history keep their types.
THEOREM TypeCorrect == Spec => []TypeOK
<1>1. Inv => TypeOK
  BY DEF Inv
<1>. QED  BY <1>1, GuardInvariant, PTL

\* A request's call leaves the server only through a proxy.
LEMMA OnlyProxiesAsk ==
  ASSUME Inv, [Next]_guardVars, NEW r \in Request,
         inquiry'[r].pc = "asking", inquiry[r].pc # "asking"
  PROVE  Proxy(r)
<1>1. r \in Asker /\ r # "sampler" /\ r # "loop"
  BY GuardConstants DEF Asker
<1>2. inquiry'[r] # inquiry[r] /\ inquiry'[r] # Idle
  BY DEF Idle
<1>3. ASSUME NEW a \in Asker, NEW q, Goto(a, q) PROVE a = r /\ q = inquiry'[r]
  BY <1>1, <1>2, <1>3 DEF Inv, TypeOK, Goto
<1>4. ~(LoopProbe \/ SampleProbe \/ SampleWrite)
  BY <1>1, <1>3 DEF LoopProbe, SampleProbe, SampleWrite, Asker
<1>5. ~(SampleSeen \/ SamplePrice)
  BY <1>1, <1>3 DEF SampleSeen, SamplePrice, Asker
<1>6. \A a \in Asker : ~(NodeAnswers(a) \/ CallFails(a) \/ Seen(a))
  BY <1>2, <1>3 DEF NodeAnswers, CallFails, Seen, Answered
<1>7. ~(Swap \/ Restart \/ UNCHANGED guardVars)
  BY <1>1, <1>2 DEF Swap, Restart, guardVars
<1>8. PICK s \in Request : Proxy(s)
  BY <1>4, <1>5, <1>6, <1>7 DEF Next
<1>9. PICK q : Goto(s, q)
  BY <1>8 DEF Proxy, RpcArrives, ClaimArrives, LookupArrives, BodyRefused, RpcBodyRead,
     ClaimBodyRead, Relayed
<1>10. s = r
  BY <1>2, <1>9 DEF Inv, TypeOK, Goto, Asker
<1>. QED  BY <1>8, <1>10

\* The guard fails closed: nothing is passed on before the node has been right.
THEOREM GuardFailsClosed == Spec => FailsClosed
<1>1. ASSUME Inv, [Next]_guardVars, NEW r \in Request,
             inquiry'[r].pc = "asking", inquiry[r].pc # "asking"
      PROVE  wasRight
  <2>1. Proxy(r)
    BY <1>1, OnlyProxiesAsk
  <2>2. \A q : Goto(r, q) => inquiry'[r] = q
    BY <1>1 DEF Inv, TypeOK, Goto, Asker
  <2>3. CASE inquiry[r] = Reading("claim")
    BY <1>1, <2>3 DEF Inv, BelievedWasRight, Believable, Asker
  <2>4. CASE inquiry[r] # Reading("claim")
    <3>1. ~Blocked
      BY <1>1, <2>1, <2>2, <2>4
      DEF Proxy, RpcArrives, ClaimArrives, LookupArrives, BodyRefused, RpcBodyRead,
          ClaimBodyRead, Relayed, Idle, Reading
    <3>. QED  BY <1>1, <3>1 DEF Inv, BelievedWasRight, Blocked
  <2>. QED  BY <2>3, <2>4
<1>2. Inv /\ [Next]_guardVars =>
        [\A r \in Request :
           inquiry'[r].pc = "asking" /\ inquiry[r].pc # "asking" => wasRight]_guardVars
  BY <1>1
<1>. QED  BY <1>2, GuardInvariant, PTL DEF Spec, FailsClosed

\* A wrong price takes a change within the cycle that recorded it.
THEOREM LeaksAreExcused == Spec => []LeakTakesASwap
<1>1. Inv => LeakTakesASwap
  BY DEF Inv, PointsAreExcused, Excused, LeakTakesASwap
<1>. QED  BY <1>1, GuardInvariant, PTL
=============================================================================
