--------------------------- MODULE MCMessageStream ---------------------------
(***************************************************************************)
(* Instance of MessageStream: blocks of one, two, three and five           *)
(* transactions, one of them with a script that needs a compact size of    *)
(* three bytes, and a toy digest in the place of sha256d.                  *)
(***************************************************************************)
EXTENDS MessageStream

ToyDigest(bytes) ==
    LET column[i \in 1 .. Len(bytes) + 32] ==
            IF i > Len(bytes) THEN Len(bytes) ELSE (3 * column[i + 32] + bytes[i] + i) % 251
    IN [i \in 1 .. 32 |-> column[i] % 251]

Repeat(n, b) == [i \in 1 .. n |-> b]

In(tx_id, index, script_) ==
    [previous_output |-> [tx_id |-> tx_id, index |-> index], script_bytes |-> CompactSize(Len(script_)),
     height |-> <<>>, signature_script |-> script_, sequence |-> <<65535, 65535>>]
Out(value, script_) ==
    [value |-> value, pk_script_bytes |-> CompactSize(Len(script_)), pk_script |-> script_]
Tx(ins, outs) ==
    [version |-> <<2, 0>>, txin_count |-> CompactSize(Len(ins)), tx_in |-> ins,
     txout_count |-> CompactSize(Len(outs)), tx_out |-> outs, lock_time |-> <<0, 0>>]

\* Height 2428246 is 0x250D56.
Coinbase(low) ==
    Tx(<<[previous_output |-> [tx_id |-> Zeros(32), index |-> <<65535, 65535>>],
          script_bytes |-> CompactSize(6), height |-> <<3, low, 13, 37>>,
          signature_script |-> <<1, 2>>, sequence |-> <<0, 1>>]>>,
       <<Out(<<48160, 298, 0, 0>>, Repeat(25, 118))>>)
Pay(n) == Tx(<<In(Repeat(32, n), <<1, 0>>, Repeat(n, 9))>>, <<Out(<<n, 0, 7, 0>>, Repeat(3, n))>>)
LongPay == Tx(<<In(Repeat(32, 5), <<0, 0>>, Repeat(253, 1)), In(Repeat(32, 6), <<2, 0>>, <<>>)>>,
              <<Out(<<65535, 65535, 0, 0>>, <<1>>), Out(<<1, 0, 0, 0>>, Repeat(25, 2))>>)

Header(previous, root, time) ==
    [version |-> <<4, 8192>>, previous_block_header_hash |-> previous, merkle_root_hash |-> root,
     time |-> <<time, 25651>>, n_bits |-> <<65535, 8447>>, nonce |-> <<5, 6>>]

MakeBlock(previous, time, txs) ==
    [block_header |-> Header(previous, ReferenceRoot([i \in DOMAIN txs |-> Transaction_hash(txs[i])]), time),
     txn_count |-> CompactSize(Len(txs)), txn |-> txs]

Genesis == Header(Zeros(32), Repeat(32, 3), 1)
Block1 == MakeBlock(BlockHeader_hash(Genesis), 2, <<Coinbase(86), LongPay>>)
Block2 == MakeBlock(BlockHeader_hash(Block1.block_header), 3, <<Coinbase(87), Pay(1), Pay(2)>>)
Block3 == MakeBlock(BlockHeader_hash(Block2.block_header), 4,
                    <<Coinbase(88), Pay(3), Pay(4), LongPay, Pay(7)>>)
Block4 == MakeBlock(BlockHeader_hash(Block3.block_header), 5, <<Coinbase(89)>>)

MCConfig == [protocol_version |-> <<4479, 1>>, user_agent |-> Repeat(16, 83)]
MCVersion == get_version_payload(MCConfig, <<127, 0, 0, 1>>, <<10, 0, 0, 2>>, <<41504, 25651, 0, 0>>,
                                 <<1, 2, 3, 4>>)
MCNode == [headers |-> <<Genesis, Block1.block_header>>, blocks |-> {Block1}, pending |-> <<Pay(1), Pay(2)>>]

M(command, value) == [command |-> command, value |-> value]
PeerVersion == M("version", [MCVersion EXCEPT !.nonce = <<9, 9, 9, 9>>, !.relay = FALSE])
Verack == M("verack", <<>>)
Ping(n) == M("ping", Repeat(8, n))
Headers == <<Block1.block_header, Block2.block_header>>

MCScripts ==
    { [incoming |-> FALSE,
       messages |-> <<PeerVersion, Verack, Ping(1), M("headers", Headers), Ping(2), M("block", Block2),
                      Ping(3), M("block", Block3)>>],
      [incoming |-> FALSE,
       messages |-> <<PeerVersion, M("sendheaders", <<>>), Verack, M("headers", Headers),
                      M("inv", <<new_tx(Repeat(32, 8))>>), M("block", Block4),
                      M("getdata", <<new_tx(Transaction_hash(Pay(1))), new_tx(Transaction_hash(Pay(2))),
                                     new_block(BlockHeader_hash(Block1.block_header)),
                                     new_block(Repeat(32, 4))>>)>>],
      [incoming |-> TRUE,
       messages |-> <<PeerVersion, Verack, M("getheaders", <<BlockHeader_hash(Genesis)>>),
                      M("tx", LongPay), M("inv", <<new_block(Repeat(32, 1)), new_tx(Repeat(32, 2))>>),
                      M("verack", <<>>), M("headers", <<>>)>>] }

\* 0, the limits of the four forms, and the largest number.
MCSizes == {<<0, 0, 0, 0>>, <<252, 0, 0, 0>>, <<253, 0, 0, 0>>, <<254, 0, 0, 0>>, <<255, 0, 0, 0>>,
            <<256, 0, 0, 0>>, <<65535, 0, 0, 0>>, <<0, 1, 0, 0>>, <<65535, 65535, 0, 0>>,
            <<0, 0, 1, 0>>, <<65535, 65535, 65535, 65535>>}

\* A compact size is read back as the number it was made from, at all the
\* limits between its forms.
ASSUME CompactSizesExact ==
    \A n \in MCSizes : LET bytes == CompactSizeUint(n)
                           r == ReadCompactSize(ReadFrom(bytes \o <<7>>), "n")
                       IN r.st = "ok" /\ r.offset = Len(bytes) /\ decoded_value(r.val["n"]) = n
=============================================================================
