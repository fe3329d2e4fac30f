------------------------------ MODULE Address ------------------------------
(***************************************************************************)
(* packages/digidollar-js/src/address.js: which strings are payment or     *)
(* DigiDollar addresses, and what script they pay.                         *)
(*                                                                         *)
(* Abstractions: an address is a record of what the decoders look at: its  *)
(* form, letter case, prefix, version, length in bytes and checksum.  The  *)
(* key stands for the bytes themselves; base 32 and base 58 keep them.     *)
(***************************************************************************)
EXTENDS Naturals

NotAnAddress == [kind |-> "none", type |-> "none", networks |-> {}]

-----------------------------------------------------------------------------
(* Segwit: bech32 for version 0, bech32m above *)

WitnessNetworks(hrp) ==
  CASE hrp = "dgb" -> {"mainnet"} [] hrp = "dgbt" -> {"testnet"}
    [] hrp = "dgbrt" -> {"regtest"} [] OTHER -> {}

Checksum(version) == IF version = 0 THEN "bech32" ELSE "bech32m"

\* The version the decoder accepts is the version the encoder writes.
VersionInRange(version) == version <= 16
ProgramFits(version, bytes) ==
  /\ 2 <= bytes /\ bytes <= 40
  /\ version = 0 => bytes \in {20, 32}

IsWitnessAddress(a) ==
  /\ a.form = "bech32"
  /\ a.case # "mixed" /\ a.length <= 90
  /\ VersionInRange(a.version)
  /\ a.sum = Checksum(a.version)
  /\ ProgramFits(a.version, a.bytes)

WitnessType(version, bytes) ==
  CASE version = 0 /\ bytes = 20 -> "p2wpkh"
    [] version = 0 /\ bytes = 32 -> "p2wsh"
    [] version = 1 /\ bytes = 32 -> "p2tr"
    [] OTHER -> "witness"

\* The opcode is 0x50 + version: 0x6a, OP_RETURN, for 26.
WitnessScript(version, bytes, key) ==
  [kind |-> IF version = 26 THEN "return" ELSE WitnessType(version, bytes), key |-> key]

EncodeWitnessAddress(hrp, version, bytes, key) ==
  [form |-> "bech32", case |-> "lower", length |-> 60, hrp |-> hrp, version |-> version,
   bytes |-> bytes, sum |-> Checksum(version), key |-> key]

-----------------------------------------------------------------------------
(* Base 58 *)

\* Test networks share their version bytes.
LegacyVersions == {30, 63, 5, 126, 140}
LegacyType(version) == IF version \in {30, 126} THEN "p2pkh" ELSE "p2sh"
LegacyNetworks(version) ==
  IF version \in {30, 63, 5} THEN {"mainnet"} ELSE {"testnet", "regtest"}
IsLegacyAddress(a) ==
  a.form = "base58" /\ a.sum = "ok" /\ a.bytes = 21 /\ a.version \in LegacyVersions

DdVersions == [DD |-> "mainnet", TD |-> "testnet", RD |-> "regtest"]
IsDdBase58(a) ==
  a.form = "base58" /\ a.sum = "ok" /\ a.bytes = 34 /\ a.version \in DOMAIN DdVersions
EncodeDdAddress(key, network) ==
  [form |-> "base58", sum |-> "ok", bytes |-> 34, key |-> key,
   version |-> CHOOSE v \in DOMAIN DdVersions : DdVersions[v] = network]

-----------------------------------------------------------------------------
(* Any payment address; any DigiDollar address *)

LegacyScript(type, key) == [kind |-> type, key |-> key]

DecodeAddress(a) ==
  IF IsWitnessAddress(a)
  THEN [kind |-> "witness", type |-> WitnessType(a.version, a.bytes),
        networks |-> WitnessNetworks(a.hrp),
        script |-> WitnessScript(a.version, a.bytes, a.key)]
  ELSE IF IsLegacyAddress(a)
  THEN [kind |-> "legacy", type |-> LegacyType(a.version),
        networks |-> LegacyNetworks(a.version),
        script |-> LegacyScript(LegacyType(a.version), a.key)]
  ELSE NotAnAddress

\* A witness form must be taproot; the base 58 form carries its network.
IsDdWitness(a) ==
  IsWitnessAddress(a) /\ WitnessNetworks(a.hrp) # {} /\ a.version = 1 /\ a.bytes = 32
DecodeDdAddress(a) ==
  IF a.form = "bech32" /\ WitnessNetworks(a.hrp) # {}
  THEN IF IsDdWitness(a) THEN [networks |-> WitnessNetworks(a.hrp), key |-> a.key]
       ELSE NotAnAddress
  ELSE IF IsDdBase58(a) THEN [networks |-> {DdVersions[a.version]}, key |-> a.key]
  ELSE NotAnAddress
=============================================================================
