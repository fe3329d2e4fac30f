------------------------------ MODULE Broadcast ------------------------------
(***************************************************************************)
(* From a signed transaction to a verdict: broadcastTx, sendAndClassify    *)
(* and the recovery card of apps/wallet/public/app.js over the journal of  *)
(* apps/wallet/public/broadcastlog.js, which all tabs share.               *)
(*                                                                         *)
(* The signed bytes are journalled before the request leaves.  An answer   *)
(* that is no verdict keeps the record; the recovery card then checks the  *)
(* indexer, sends the same bytes again, or deletes the record.             *)
(*                                                                         *)
(* Abstractions: a record is its transaction; a refusal is one of three    *)
(* families (the node's, the server's, and coins already spent).  The node *)
(* handles a request before its sender stops waiting, or never.            *)
(***************************************************************************)
EXTENDS Naturals, Sequences, SequencesExt

CONSTANTS
  Tab,
  Tx,          \* the transactions that may be signed
  Payment, Coin,
  PaysFor,     \* [Tx -> what the user wants paid]
  Spends,      \* [Tx -> the coins it spends]
  Faults,      \* subset of {"lost", "crash", "quota"}
  MaxRecords   \* MAX_RECORDS

ASSUME BroadcastConstants ==
  /\ PaysFor \in [Tx -> Payment]
  /\ Spends \in [Tx -> SUBSET Coin]
  /\ Faults \subseteq {"lost", "crash", "quota"}
  /\ MaxRecords \in Nat \ {0}

VARIABLES
  journal,   \* the stored records, newest first
  call,      \* [Tab -> the attempt the tab is waiting for]
  accepted,  \* what the node's mempool or chain holds
  told,      \* [Tx -> the last thing the wallet said of it]
  gone,      \* history: [Tx -> how its record was lost, if it was]
  doubted    \* history: second attempts that were refused, or overlapped another

broadcastVars == <<journal, call, accepted, told, gone, doubted>>

Verdicts == {"txid", "already", "spent", "reject", "refused"}
Gone == {"kept", "unstored", "evicted", "deleted"}
Told == {"unsigned", "unknown", "sent", "failed", "spent", "ambiguous", "handed"}
Idle == [pc |-> "idle"]
CallState ==
  [pc: {"idle"}]
    \cup [pc: {"sending"}, tx: Tx, kind: {"send", "resend"}]
    \cup [pc: {"answered"}, tx: Tx, verdict: Verdicts]

Journalled(x) == x \in ToSet(journal)
Sending(t, x) == call[t] # Idle /\ call[t].tx = x
Settled(x) == \A t \in Tab : ~Sending(t, x)

-----------------------------------------------------------------------------
(* The journal *)

\* The newest records, up to the limit; the others are forgotten.
Newest(recs) == IF Len(recs) > MaxRecords THEN SubSeq(recs, 1, MaxRecords) ELSE recs

\* A transaction has one record: record() replaces the one it had.
Unique(recs) == \A i, j \in DOMAIN recs : recs[i] = recs[j] => i = j
Without(x) ==
  IF Journalled(x) THEN RemoveAt(journal, CHOOSE i \in DOMAIN journal : journal[i] = x) ELSE journal

\* record(): best effort, a full storage keeps nothing new.
SentFirst(x) == UNCHANGED <<journal, gone>>
Record(x) ==
  \/ /\ journal' = Newest(<<x>> \o Without(x))
     /\ gone' = [y \in Tx |-> IF Journalled(y) /\ y \notin ToSet(journal') THEN "evicted" ELSE gone[y]]
  \/ /\ "quota" \in Faults
     /\ gone' = [gone EXCEPT ![x] = "unstored"]
     /\ UNCHANGED journal

Drop(x) == journal' = Without(x)

Tell(x, what) == told' = [told EXCEPT ![x] = what]

-----------------------------------------------------------------------------
(* Sending *)

\* A user pays again only what is known to have failed, or what left no trace.
MayPayAgain(x) ==
  /\ Settled(x)
  /\ told[x] = "failed" \/ (told[x] = "unknown" /\ ~Journalled(x))

BroadcastTx(t, x) ==
  /\ call[t] = Idle
  /\ told[x] = "unsigned"
  /\ \A y \in Tx \ {x} :
       PaysFor[y] = PaysFor[x] /\ told[y] # "unsigned" => MayPayAgain(y)
  /\ Record(x)
  /\ call' = [call EXCEPT ![t] = [pc |-> "sending", tx |-> x, kind |-> "send"]]
  /\ Tell(x, "unknown")
  /\ UNCHANGED <<accepted, doubted>>

\* Rebroadcast on the recovery card: the identical bytes, at any time, the tabs that
\* still wait for an answer included.
Rebroadcast(t, x) ==
  /\ call[t] = Idle
  /\ Journalled(x)
  /\ call' = [call EXCEPT ![t] = [pc |-> "sending", tx |-> x, kind |-> "resend"]]
  /\ doubted' = IF Settled(x) THEN doubted ELSE doubted \cup {x}
  /\ UNCHANGED <<journal, accepted, told, gone>>

Conflicts(x) == \E y \in accepted \ {x} : Spends[y] \cap Spends[x] # {}

\* A transaction the node has is "already known" until a block holds it, and
\* spends missing coins from then on.
NodeVerdicts(x) ==
  CASE x \in accepted -> {"already", "spent"}
    [] Conflicts(x)   -> {"spent"}
    [] OTHER          -> {"txid", "reject"}

NodeAnswers(t) ==
  /\ call[t].pc = "sending"
  /\ \E v \in NodeVerdicts(call[t].tx) :
       /\ call' = [call EXCEPT ![t] = [pc |-> "answered", tx |-> call[t].tx, verdict |-> v]]
       /\ accepted' = IF v = "txid" THEN accepted \cup {call[t].tx} ELSE accepted
  /\ UNCHANGED <<journal, told, gone, doubted>>

\* The wallet server answers in the node's place: rate limit, wrong chain.  A refused
\* Rebroadcast says nothing of the attempt before it.
ServerRefuses(t) ==
  /\ call[t].pc = "sending"
  /\ call' = [call EXCEPT ![t] = [pc |-> "answered", tx |-> call[t].tx, verdict |-> "refused"]]
  /\ doubted' = IF call[t].kind = "send" THEN doubted ELSE doubted \cup {call[t].tx}
  /\ UNCHANGED <<journal, accepted, told, gone>>

\* What the user hears of a verdict; every one of them ends the ambiguity.
AlreadyIsFailure(v) ==
  CASE v = "txid" -> "sent" [] v = "spent" -> "spent" [] OTHER -> "failed"
Meaning(v) ==
  CASE v \in {"txid", "already"}   -> "sent"
    [] v = "spent"                 -> "spent"
    [] v \in {"reject", "refused"} -> "failed"

Classify(t) ==
  /\ call[t].pc = "answered"
  /\ Drop(call[t].tx)
  /\ Tell(call[t].tx, Meaning(call[t].verdict))
  /\ call' = [call EXCEPT ![t] = Idle]
  /\ UNCHANGED <<accepted, gone, doubted>>

\* No verdict: a timeout, a dropped socket, an answer nobody recognises.  Without
\* a record, the error itself carries the signed bytes.
FailDefinite(x) == Drop(x) /\ Tell(x, "failed")
FailAmbiguous(x) ==
  /\ UNCHANGED journal
  /\ Tell(x, IF Journalled(x) THEN "ambiguous" ELSE "handed")

NoAnswer(t) ==
  /\ "lost" \in Faults
  /\ call[t] # Idle
  /\ FailAmbiguous(call[t].tx)
  /\ call' = [call EXCEPT ![t] = Idle]
  /\ UNCHANGED <<accepted, gone, doubted>>

-----------------------------------------------------------------------------
(* The recovery card *)

\* Check status finds it.  An indexer that never saw it, or is down, changes
\* nothing.
CheckStatus(x) ==
  /\ Journalled(x)
  /\ x \in accepted
  /\ Drop(x)
  /\ Tell(x, "sent")
  /\ UNCHANGED <<call, accepted, gone, doubted>>

DeleteSaved(x) ==
  /\ Journalled(x)
  /\ Drop(x)
  /\ gone' = [gone EXCEPT ![x] = "deleted"]
  /\ UNCHANGED <<call, accepted, told, doubted>>

\* The page dies between signing and the answer.
Crash(t) ==
  /\ "crash" \in Faults
  /\ call[t] # Idle
  /\ call' = [call EXCEPT ![t] = Idle]
  /\ UNCHANGED <<journal, accepted, told, gone, doubted>>

-----------------------------------------------------------------------------
Init ==
  /\ journal = <<>>
  /\ call = [t \in Tab |-> Idle]
  /\ accepted = {}
  /\ told = [x \in Tx |-> "unsigned"]
  /\ gone = [x \in Tx |-> "kept"]
  /\ doubted = {}

Next ==
  \/ \E t \in Tab : \/ \E x \in Tx : BroadcastTx(t, x) \/ Rebroadcast(t, x)
                    \/ NodeAnswers(t) \/ ServerRefuses(t)
                    \/ Classify(t) \/ NoAnswer(t)
                    \/ Crash(t)
  \/ \E x \in Tx : CheckStatus(x) \/ DeleteSaved(x)

Spec == Init /\ [][Next]_broadcastVars

-----------------------------------------------------------------------------
(* Properties *)

\* A payment goes through at most once (broadcastlog.js, "the only thing a user can do
\* with a plain failure is rebuild and send again").  A user who pays again only what
\* failed, or what the card shows no trace of, pays twice in two cases: the page died
\* before an answer and the record is lost, or a failure was reported on a second
\* attempt that the server refused (app.js 149) or that overlapped another.
LostSight(x) == told[x] = "unknown" /\ gone[x] # "kept"
Misreported(x) == told[x] = "failed" /\ x \in doubted
PaidOnce ==
  \A x, y \in accepted :
    x # y /\ PaysFor[x] = PaysFor[y] => \E z \in {x, y} : LostSight(z) \/ Misreported(z)

\* "Nothing was broadcast, so nothing to recover" (app.js sendAndClassify): what the
\* wallet reports as failed, once no attempt is pending, the node does not have, after any
\* number of lost answers, crashes and retries one after the other.  The words are not true
\* of a retry the server refused, nor of one beside an attempt still pending.
FailedIsUnsent ==
  \A x \in Tx : told[x] = "failed" /\ Settled(x) => x \notin accepted \/ x \in doubted

\* "A crash between signing and the node's answer must still leave a trace of what was
\* signed" (app.js broadcastLog; broadcastlog.js rule 1): a transaction nobody was told
\* the fate of is in the journal, unless its record was refused, pushed out or deleted.
\* And who is sent to the panel finds it there: a record the storage refused is no excuse,
\* since the error then carries the signed bytes itself.
TraceIsKept ==
  \A x \in Tx \ ToSet(journal) :
    /\ told[x] = "unknown" => gone[x] # "kept"
    /\ told[x] = "ambiguous" => gone[x] \in {"evicted", "deleted"}

=============================================================================
