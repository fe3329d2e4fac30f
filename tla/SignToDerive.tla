---------------------------- MODULE SignToDerive ----------------------------
(***************************************************************************)
(* The sign-to-derive protocol, apps/wallet/public/connect.js: which frozen *)
(* message a wallet is derived from, which answers of a browser extension   *)
(* are admitted as signatures, and what is kept of the result.              *)
(*                                                                         *)
(* A message is its version, an index of Messages.  A signature is what the *)
(* key did ("by", "msg", and "how", which an extension that signs           *)
(* deterministically repeats) and its encoding (s and the recovery byte v;  *)
(* an encoding has one r, left out).  SHA-256, the mnemonic and the         *)
(* fingerprint are one-to-one, so the entropy stands for all three.         *)
(***************************************************************************)
EXTENDS Integers, FiniteSets

CONSTANTS
  Host,     \* location.hostname
  Order,    \* the order of secp256k1
  KindOf,   \* [entry -> "evm" or "sol"]: what EIP-6963 and Phantom announce
  Nil

ASSUME OrderIsOdd == Order \in Nat /\ Order > 2 /\ Order % 2 = 1
ASSUME KindsAreKnown == \A e \in DOMAIN KindOf : KindOf[e] \in {"evm", "sol"}

-----------------------------------------------------------------------------
(* Messages *)

Messages ==
  << [network |-> "testnet", origin |-> "dgb.ludere.space"],
     [network |-> "mainnet", origin |-> "diginaut.ludere.space"],
     [network |-> "testnet", origin |-> "testnet.diginaut.space"],
     [network |-> "mainnet", origin |-> "diginaut.space"] >>
Version == DOMAIN Messages
LegacyS2dHosts == {"dgb.ludere.space", "diginaut.ludere.space"}

\* The message of a wallet's first derivation: the era by host, then the network.
S2dForChain(chain, hostname) ==
  LET base == IF hostname \in LegacyS2dHosts THEN 0 ELSE 2
  IN base + IF chain \in {"main", "mainnet"} THEN 2 ELSE 1

\* The message a stored wallet was derived from; old records name none.
S2dForVersion(version) == IF version \in Version THEN version ELSE 1

S2dOriginHost(version) == Messages[version].origin

-----------------------------------------------------------------------------
(* Signatures *)

HalfOrder == Order \div 2
RecoveryId(v) == IF v >= 27 THEN v - 27 ELSE v
IsEncoded(raw) == RecoveryId(raw.v) \in {0, 1} /\ raw.s \in 1 .. Order - 1

TakenAsIs(raw) ==
  [by |-> raw.by, msg |-> raw.msg, how |-> raw.how, s |-> raw.s, recid |-> RecoveryId(raw.v)]
\* s and Order - s sign alike, with opposite parities of the nonce's point.
Canonicalize(raw) ==
  [by |-> raw.by, msg |-> raw.msg, how |-> raw.how,
   s |-> IF raw.s > HalfOrder THEN Order - raw.s ELSE raw.s,
   recid |-> IF raw.s > HalfOrder THEN 1 - RecoveryId(raw.v) ELSE RecoveryId(raw.v)]

\* Every way a signature whose low s is s, at parity p, may come encoded.
Encodings(sig, s, p) ==
  {[by |-> sig.by, msg |-> sig.msg, how |-> sig.how, s |-> enc[1], v |-> enc[2]] :
     enc \in {<<s, p>>, <<s, 27 + p>>, <<Order - s, 1 - p>>, <<Order - s, 28 - p>>}}

\* The account is the key that signed this message: no contract signs for it.
Recovers(canonical, address, msg) == canonical.by = address /\ canonical.msg = msg

\* The 64 bytes a signing popup yields, or Nil when the answer is refused.
SignOnce(kind, address, msg, raw) ==
  IF kind = "evm"
  THEN IF IsEncoded(raw) /\ Recovers(Canonicalize(raw), address, msg)
       THEN Canonicalize(raw) ELSE Nil
  ELSE IF Recovers(raw, address, msg) THEN TakenAsIs(raw) ELSE Nil

AnyBytes(a, b) == TRUE
SameBytes(a, b) == a.by = b.by /\ a.msg = b.msg /\ a.how = b.how /\ a.s = b.s

Entropy(sig) == [by |-> sig.by, msg |-> sig.msg, how |-> sig.how, s |-> sig.s]

\* What a finished ceremony holds: the mnemonic and the record of its source.
PackageDerived(entry, address, sig, msgVersion) ==
  [seed |-> Entropy(sig),
   source |-> [kind |-> KindOf[entry], address |-> address,
               msgVersion |-> msgVersion, fp |-> Entropy(sig)]]

\* Reconnecting: one signature of the message the record names.
DeriveOnce(entry, address, msgVersion, raw) ==
  LET version == S2dForVersion(msgVersion)
      sig == SignOnce(KindOf[entry], address, version, raw)
  IN IF sig = Nil THEN Nil ELSE PackageDerived(entry, address, sig, version)

=============================================================================
