------------------------------ MODULE MCWallet ------------------------------
(***************************************************************************)
(* Two accounts, with keys 1 and 2.                                        *)
(* Keys and public keys have one byte, hashes two.                         *)
(***************************************************************************)
EXTENDS Wallet

MCpublic_key(k) == <<k[1] + 10>>
MChash_160(p) == <<p[1] + 20, 9>>
MCChecksum(b) == <<Len(b), b[Len(b)], 7, 7>>
MCsignature(message, key) == <<[message |-> message, key |-> key]>>

Address(k) == generate_address(<<k>>)
Wif(k) == <<239, k, 1, 0, 0, 0, 0>>
P2PKH(k, v) == [value |-> v, script |-> generate_pubkey_script(Address(k)).val]
P2WPKH(k, v) == [value |-> v, script |-> <<0, HashLen>> \o MChash_160(MCpublic_key(<<k>>))]

\* Coins of account 1: 2 and 3 in one transaction, 4 in another one.
Funding == [ins |-> <<>>, outs |-> <<P2PKH(1, 2), P2PKH(2, 1), P2PKH(1, 3)>>]
Funding2 == [ins |-> <<>>, outs |-> <<P2PKH(1, 4)>>]
MCConfirmed == {Funding, Funding2}

\* Made with the key of account 1 in some other wallet: spends one of its
\* coins and pays both accounts, account 1 as P2WPKH.
Elsewhere == [ins |-> <<[hash |-> Funding2, index |-> 1, script |-> <<1>>]>>,
              outs |-> <<P2WPKH(1, 2), P2PKH(2, 2)>>]
MCIncoming == {Elsewhere}

MCLogins == {[wif |-> Wif(1), address |-> Address(1)], [wif |-> Wif(2), address |-> Address(2)],
             [wif |-> Wif(1), address |-> Address(2)]}
MCPayments == {[to |-> Address(2), amount |-> 4, fee |-> 1], [to |-> <<1>>, amount |-> 1, fee |-> 1]}
=============================================================================
