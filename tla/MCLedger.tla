------------------------------ MODULE MCLedger ------------------------------
(* Two wallets of one user, one of them with two keys; money in units of a
   thousandth of a DGB, DigiDollar in units of half the least output. *)
EXTENDS Ledger
CONSTANTS w1, w2, k1, k2, k3, f

MCKeysOf == w1 :> <<k1, k2>> @@ w2 :> <<k3>>
MCTiers == <<[lockBlocks |-> 0, ratioPercent |-> 2], [lockBlocks |-> 1, ratioPercent |-> 3]>>
MCGenesis ==
  <<Out(350, P2tr(k1)), Out(700, P2tr(k1)), Out(160, P2wpkh(k2)), Out(122, P2tr(k2)), Out(160, P2tr(k3))>>

\* A recipient of each form, and the near misses of each.
Bech32(version, bytes) == EncodeWitnessAddress("dgbt", version, bytes, f)
MCRecipients ==
  {Bech32(1, 32), Bech32(2, 32), Bech32(26, 32), Bech32(0, 25),
   [Bech32(1, 32) EXCEPT !.sum = "bech32"], [Bech32(1, 32) EXCEPT !.hrp = "dgb"],
   [form |-> "base58", sum |-> "ok", bytes |-> 21, version |-> 126, key |-> f],
   [form |-> "base58", sum |-> "ok", bytes |-> 21, version |-> 30, key |-> f]}
MCDdRecipients ==
  {Bech32(1, 32), EncodeDdAddress(k2, "testnet"),
   EncodeDdAddress(f, "mainnet"), Bech32(0, 32)}
MCMinted ==
  [utxo |-> [at |-> <<1, 1>>, value |-> 350, type |-> "p2tr", key |-> k1],
   cents |-> 5, tier |-> 1, price |-> 100, bps |-> 4]
MCMints == {<<4, 2>>}
MCQuotes == {<<80, 5>>}
=============================================================================
