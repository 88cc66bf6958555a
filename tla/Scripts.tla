------------------------------- MODULE Scripts -------------------------------
(***************************************************************************)
(* Keys, addresses and the scripts of outputs and inputs: address_         *)
(* decoder.rs and transactions/script.  A base58 text is given by the      *)
(* bytes it stands for, which determine it and its length.                 *)
(*                                                                         *)
(* The result of a function is [st, val]: "ok", "err", or "panic" for a    *)
(* slice out of range.                                                     *)
(***************************************************************************)
EXTENDS Integers, SequencesExt

CONSTANTS public_key(_),    \* of secp256k1, PubkeyLen bytes
          hash_160(_),      \* ripemd160 of sha256, HashLen bytes
          Checksum(_),      \* four bytes of a double sha256
          signature(_, _),  \* of a message, with a private key
          KeyLen, PubkeyLen, HashLen    \* 32, 33 and 20

ASSUME LengthsAssumption == KeyLen \in Nat \ {0} /\ PubkeyLen \in Nat \ {0} /\ HashLen \in Nat \ {0, 1}

Ok(v) == [st |-> "ok", val |-> v]
Error == [st |-> "err", val |-> <<>>]
Panic == [st |-> "panic", val |-> <<>>]

OP_DUP == 118
OP_HASH160 == 169
OP_EQUALVERIFY == 136
OP_CHECKSIG == 172
TestnetByte == 111

(***************************************************************************)
(* Addresses and private keys.                                             *)
(***************************************************************************)
WithChecksum(bytes) == bytes \o Checksum(bytes)

generate_address(private_key) == WithChecksum(<<TestnetByte>> \o hash_160(public_key(private_key)))

validate_address(address) ==
    LET body == SubSeq(address, 1, Len(address) - 4)
    IN Len(address) = 1 + HashLen + 4 /\ address = WithChecksum(body)

get_pubkey_hash_from_address(address) ==
    IF validate_address(address) THEN Ok(SubSeq(address, 2, Len(address) - 4)) ELSE Error

validate_address_private_key(private_key, address) == generate_address(private_key) = address

\* The checksum of a WIF key is not looked at.
UncompressedWifLen == 1 + KeyLen + 4
CompressedWifLen == UncompressedWifLen + 1
decode_wif_private_key(wif) ==
    IF Len(wif) \notin UncompressedWifLen .. CompressedWifLen THEN Error
    ELSE Ok(SubSeq(wif, 2, Len(wif) - (IF Len(wif) = UncompressedWifLen THEN 4 ELSE 5)))

(***************************************************************************)
(* Scripts.                                                                *)
(***************************************************************************)
generate_pubkey_script(address) ==
    LET h == get_pubkey_hash_from_address(address)
    IN IF h.st # "ok" THEN h
       ELSE Ok(<<OP_DUP, OP_HASH160, HashLen>> \o h.val \o <<OP_EQUALVERIFY, OP_CHECKSIG>>)

\* Mutant: the opcodes at the end of the script are not left out.
AddressWithOpcodes(script) ==
    IF Len(script) <= 3 THEN Error
    ELSE Ok(WithChecksum(<<TestnetByte>> \o SubSeq(script, IF script[1] = 0 THEN 3 ELSE 4, Len(script))))

\* The address of an output: of a P2PKH or of a P2WPKH script; that of no
\* bytes for any other.
Pubkey_generate_address(script) ==
    LET n == Len(script)
        hash == CASE script[1] = 0 -> SubSeq(script, 3, n)
                  [] script[1] = OP_DUP -> SubSeq(script, 4, n - 2)
                  [] OTHER -> <<>>
    IN IF n <= 3 THEN Error
       ELSE IF script[1] = OP_DUP /\ n = 4 THEN Panic
       ELSE Ok(WithChecksum(<<TestnetByte>> \o hash))

generate_sig_script(message, private_key) ==
    LET sig == signature(message, private_key)
    IN <<Len(sig)>> \o sig \o <<PubkeyLen>> \o public_key(private_key)

\* P2PKH: the signature itself is not verified.
p2pkh_validate(p2pkh_script, sig_script) ==
    LET pubkey == SubSeq(sig_script, sig_script[1] + 3, sig_script[1] + 2 + PubkeyLen)
    IN IF p2pkh_script[1] # OP_DUP \/ p2pkh_script[2] # OP_HASH160 THEN Ok(FALSE)
       ELSE IF Len(p2pkh_script) < HashLen + 5 THEN Panic
       ELSE Ok(/\ p2pkh_script[HashLen + 4] = OP_EQUALVERIFY
               /\ SubSeq(p2pkh_script, 4, HashLen + 3) = hash_160(pubkey)
               /\ p2pkh_script[HashLen + 5] = OP_CHECKSIG)
=============================================================================
