----------------------------- MODULE WireFormats -----------------------------
(***************************************************************************)
(* The structures of the bitcoin protocol, as the node writes them         *)
(* (marshalling, to_le_bytes) and as it reads them (unmarshalling,         *)
(* from_le_bytes).  The code has a function for each direction, so each    *)
(* direction has its own definition here: that they agree is a theorem of  *)
(* the runs, not of the notation.                                          *)
(*                                                                         *)
(* A reader takes and returns a read in progress (Bytes).  An absent       *)
(* Option is the empty sequence.                                           *)
(***************************************************************************)
EXTENDS Bytes

CONSTANT sha256d(_)     \* the double hash of a byte string: 32 bytes

Hash == [1 .. 32 -> Byte]
Zeros(n) == [i \in 1 .. n |-> 0]
Each(Writer(_), list) == FlattenSeq([i \in DOMAIN list |-> Writer(list[i])])

(***************************************************************************)
(* Outpoint, TxIn, TxOut, Transaction.                                     *)
(***************************************************************************)
is_a_coinbase_outpoint(o) == o.index = <<65535, 65535>> \/ o.tx_id = Zeros(32)

Outpoint_marshalling(o) == o.tx_id \o to_le_bytes(o.index)

Outpoint_unmarshalling(r) ==
    Read(Need(r, 36), <<Field("tx_id", 32, "raw"), Field("index", 4, "le")>>)

TxIn_marshalling(in) ==
    Outpoint_marshalling(in.previous_output) \o in.script_bytes \o in.height
        \o in.signature_script \o to_le_bytes(in.sequence)

TxIn_unmarshalling(r) ==
    LET a == ReadCompactSize(ReadInner(Need(r, 41), "previous_output", Outpoint_unmarshalling),
                             "script_bytes")
        n == Count(a, "script_bytes")
        coinbase == a.st = "ok" /\ is_a_coinbase_outpoint(a.val["previous_output"])
        b == IF ~coinbase THEN Set(a, "height", <<>>)
             ELSE ReadField(IF n > 100 THEN Stop(a, "err") ELSE a, Field("height", 4, "raw"))
    IN Read(b, <<Field("signature_script", n - (IF coinbase THEN 4 ELSE 0), "raw"),
                 Field("sequence", 4, "le")>>)

\* The height in a coinbase: the first of the four bytes is their count, the
\* other three a little endian number.
get_height(in) ==
    IF in.height = <<>> THEN 0
    ELSE Length(from_le_bytes(Reverse(<<0>> \o SubSeq(Reverse(in.height), 1, 3))))

TxOut_marshalling(out) == to_le_bytes(out.value) \o out.pk_script_bytes \o out.pk_script

TxOut_unmarshalling(r) ==
    LET a == ReadCompactSize(ReadField(Need(r, 9), Field("value", 8, "le")), "pk_script_bytes")
    IN ReadField(a, Field("pk_script", Count(a, "pk_script_bytes"), "raw"))

Transaction_marshalling(tx) ==
    to_le_bytes(tx.version) \o tx.txin_count \o Each(TxIn_marshalling, tx.tx_in)
        \o tx.txout_count \o Each(TxOut_marshalling, tx.tx_out) \o to_le_bytes(tx.lock_time)

\* Looking at the first input of a transaction that has none panics.
OneInputIfCoinbase(r) ==
    IF r.st # "ok" THEN r
    ELSE IF r.val["tx_in"] = <<>> THEN Stop(r, "panic")
    ELSE IF r.val["tx_in"][1].height # <<>> /\ Count(r, "txin_count") # 1 THEN Stop(r, "err")
    ELSE r

Transaction_unmarshalling(r) ==
    LET a == ReadCompactSize(ReadField(IF Len(r.bytes) < 10 THEN Stop(r, "err") ELSE r,
                                       Field("version", 4, "le")), "txin_count")
        b == ReadTimes(a, "tx_in", Count(a, "txin_count"), TxIn_unmarshalling)
        c == ReadCompactSize(OneInputIfCoinbase(b), "txout_count")
        d == ReadTimes(c, "tx_out", Count(c, "txout_count"), TxOut_unmarshalling)
    IN ReadField(d, Field("lock_time", 4, "le"))

Transaction_hash(tx) == sha256d(Transaction_marshalling(tx))

(***************************************************************************)
(* BlockHeader and Block.                                                  *)
(***************************************************************************)
BlockHeader_marshalling(h) ==
    to_le_bytes(h.version) \o h.previous_block_header_hash \o h.merkle_root_hash
        \o to_le_bytes(h.time) \o to_le_bytes(h.n_bits) \o to_le_bytes(h.nonce)

\* Mutant: the time and the target swapped.
BlockHeaderSwapped(r) ==
    Read(Need(r, 80),
         <<Field("version", 4, "le"), Field("previous_block_header_hash", 32, "raw"),
           Field("merkle_root_hash", 32, "raw"), Field("n_bits", 4, "le"),
           Field("time", 4, "le"), Field("nonce", 4, "le")>>)

BlockHeader_unmarshalling(r) ==
    Read(Need(r, 80),
         <<Field("version", 4, "le"), Field("previous_block_header_hash", 32, "raw"),
           Field("merkle_root_hash", 32, "raw"), Field("time", 4, "le"),
           Field("n_bits", 4, "le"), Field("nonce", 4, "le")>>)

BlockHeader_hash(h) == sha256d(BlockHeader_marshalling(h))

\* a < b for arrays of bytes: at the first difference.
ArrayLess(a, b) == \E i \in DOMAIN a : a[i] < b[i] /\ \A j \in 1 .. i - 1 : a[j] = b[j]

\* Proof of work: the hash, as a big endian number, below the target that
\* n_bits stands for (a first byte of 3 to 32; an index panics below 3).
BlockHeader_validate(h) ==
    LET n_bits_bytes == Reverse(to_le_bytes(h.n_bits))
        initial_mantissa_position == 32 - n_bits_bytes[1]
        target == [i \in 1 .. 32 |->
                     IF i - initial_mantissa_position \in 1 .. 3
                     THEN n_bits_bytes[1 + i - initial_mantissa_position] ELSE 0]
    IN n_bits_bytes[1] <= 32 /\ ArrayLess(Reverse(BlockHeader_hash(h)), target)

Block_marshalling(b) ==
    BlockHeader_marshalling(b.block_header) \o b.txn_count \o Each(Transaction_marshalling, b.txn)

Block_unmarshalling(r) ==
    LET a == ReadCompactSize(ReadInner(r, "block_header", BlockHeader_unmarshalling), "txn_count")
    IN ReadTimes(a, "txn", Count(a, "txn_count"), Transaction_unmarshalling)

(***************************************************************************)
(* HeaderMessage.  A command is its code: names are all different and      *)
(* shorter than the twelve bytes of the field, which zeros complete.       *)
(***************************************************************************)
Commands == <<"version", "verack", "sendheaders", "getheaders", "headers", "getdata", "block",
              "inv", "tx", "ping", "pong", "notfound", "none">>

command_name_to_bytes(c) == <<CHOOSE i \in DOMAIN Commands : Commands[i] = c>> \o Zeros(11)

\* The name up to the first zero; a name of no command is "other".
get_header_command_name_as_str(bytes) ==
    IF bytes[1] \in DOMAIN Commands /\ Tail(bytes) = Zeros(11) THEN Commands[bytes[1]] ELSE "other"

START_STRING_TESTNET == <<11, 17, 9, 7>>
CHECKSUM_EMPTY_PAYLOAD == <<93, 246, 224, 226>>

get_checksum(payload) == SubSeq(sha256d(payload), 1, 4)

HeaderMessage_new(command, payload) ==
    [start_string |-> START_STRING_TESTNET, command_name |-> command_name_to_bytes(command),
     payload_size |-> Number(2, Len(payload)), checksum |-> get_checksum(payload)]

\* The header of a message without payload (None).
HeaderMessage_empty(command) ==
    [start_string |-> START_STRING_TESTNET, command_name |-> command_name_to_bytes(command),
     payload_size |-> <<0, 0>>, checksum |-> CHECKSUM_EMPTY_PAYLOAD]

HeaderMessage_to_le_bytes(h) ==
    h.start_string \o h.command_name \o to_le_bytes(h.payload_size) \o h.checksum

HeaderMessage_from_le_bytes(bytes) ==
    Read(ReadFrom(bytes), <<Field("start_string", 4, "raw"), Field("command_name", 12, "raw"),
                            Field("payload_size", 4, "le"), Field("checksum", 4, "raw")>>).val

\* A message with its payload.
Framed(command, payload) ==
    HeaderMessage_to_le_bytes(HeaderMessage_new(command, payload)) \o payload

write_pong_message(payload) == Framed("pong", payload)
write_verack_message == HeaderMessage_to_le_bytes(HeaderMessage_empty("verack"))
write_sendheaders_message == HeaderMessage_to_le_bytes(HeaderMessage_empty("sendheaders"))
get_block_message(b) == Framed("block", Block_marshalling(b))
get_tx_message(tx) == Framed("tx", Transaction_marshalling(tx))

(***************************************************************************)
(* HeadersMessage: each header followed by the byte of a count of zero     *)
(* transactions.                                                           *)
(***************************************************************************)
HeaderAndCount(h) == BlockHeader_marshalling(h) \o <<0>>

HeadersMessage_marshalling(headers) ==
    Framed("headers", CompactSize(Len(headers)) \o Each(HeaderAndCount, headers))

\* The offset may step past the end after the last header.
HeaderThenCount(r) ==
    LET a == BlockHeader_unmarshalling(r)
    IN IF a.st = "ok" THEN [a EXCEPT !.offset = @ + 1] ELSE a

HeadersMessage_unmarshalling(r) ==
    LET a == ReadCompactSize(r, "count") IN ReadTimes(a, "headers", Count(a, "count"), HeaderThenCount)

(***************************************************************************)
(* GetHeadersPayload.  The count written is 1 whatever the list is.        *)
(***************************************************************************)
GetHeadersPayload_to_le_bytes(p) ==
    to_le_bytes(p.version) \o p.hash_count \o FlattenSeq(p.locator_hashes) \o p.stop_hash

HashField(r) == ReadField(r, Field("hash", 32, "raw"))

GetHeadersPayload_read_from(r) ==
    LET a == ReadCompactSize(ReadField(r, Field("version", 4, "le")), "hash_count")
        b == ReadTimes(a, "read", Count(a, "hash_count"), HashField)
        hashes == IF b.st = "ok" THEN [i \in DOMAIN b.val["read"] |-> b.val["read"][i].hash] ELSE <<>>
    IN ReadField(Set(b, "locator_hashes", hashes), Field("stop_hash", 32, "raw"))

build_getheaders_message(protocol_version, locator_hashes) ==
    Framed("getheaders",
           GetHeadersPayload_to_le_bytes([version |-> protocol_version, hash_count |-> CompactSize(1),
                                          locator_hashes |-> locator_hashes, stop_hash |-> Zeros(32)]))

(***************************************************************************)
(* Inventories, and the messages that are lists of them.                   *)
(***************************************************************************)
new_block(hash) == [type_identifier |-> <<2, 0>>, hash |-> hash]
new_tx(hash) == [type_identifier |-> <<1, 0>>, hash |-> hash]

Inventory_to_le_bytes(inv) == to_le_bytes(inv.type_identifier) \o inv.hash

Inventory_from_le_bytes(r) ==
    Read(r, <<Field("type_identifier", 4, "le"), Field("hash", 32, "raw")>>)

get_data_payload_bytes(invs) == CompactSize(Len(invs)) \o Each(Inventory_to_le_bytes, invs)

inv_mershalling(invs) == Framed("inv", CompactSize(Len(invs)) \o Each(Inventory_to_le_bytes, invs))

GetDataMessage_marshalling(invs) == Framed("getdata", get_data_payload_bytes(invs))

\* The payload of notfound is a whole inv message, its header included.
get_notfound_message(invs) == Framed("notfound", inv_mershalling(invs))

GetDataPayload_unmarshalling(r) ==
    LET a == ReadCompactSize(r, "count")
    IN ReadTimes(a, "inventories", Count(a, "count"), Inventory_from_le_bytes)

(***************************************************************************)
(* VersionPayload.  The length of the user agent is written as 16 whatever *)
(* the configured one is.  A payload that ends too early makes a slice     *)
(* panic, also where the compact size is an error (it is read as 0).       *)
(***************************************************************************)
get_ipv6_address_ip(v4) == Zeros(10) \o <<255, 255>> \o v4

get_version_payload(config, socket_addr, local_ip_addr, timestamp, nonce) ==
    [version |-> config.protocol_version, services |-> Number(4, 0), timestamp |-> timestamp,
     addr_recv_service |-> Number(4, 1), addr_recv_ip |-> get_ipv6_address_ip(socket_addr),
     addr_recv_port |-> <<18333>>,
     addr_trans_service |-> Number(4, 0), addr_trans_ip |-> get_ipv6_address_ip(local_ip_addr),
     addr_trans_port |-> <<18333>>, nonce |-> nonce,
     user_agent_bytes |-> CompactSize(16), user_agent |-> config.user_agent,
     start_height |-> Number(2, 1), relay |-> TRUE]

VersionPayload_to_le_bytes(p) ==
    to_le_bytes(p.version) \o to_le_bytes(p.services) \o to_le_bytes(p.timestamp)
        \o to_le_bytes(p.addr_recv_service) \o p.addr_recv_ip \o Reverse(to_le_bytes(p.addr_recv_port))
        \o to_le_bytes(p.addr_trans_service) \o p.addr_trans_ip
        \o Reverse(to_le_bytes(p.addr_trans_port))
        \o to_le_bytes(p.nonce) \o p.user_agent_bytes \o p.user_agent
        \o to_le_bytes(p.start_height) \o <<IF p.relay THEN 1 ELSE 0>>

\* The fixed fields before the user agent.
VersionFixedFields ==
    <<Field("version", 4, "le"), Field("services", 8, "le"), Field("timestamp", 8, "le"),
      Field("addr_recv_service", 8, "le"), Field("addr_recv_ip", 16, "raw"),
      Field("addr_recv_port", 2, "be"), Field("addr_trans_service", 8, "le"),
      Field("addr_trans_ip", 16, "raw"), Field("addr_trans_port", 2, "be"), Field("nonce", 8, "le")>>

VersionPayload_from_le_bytes(r) ==
    LET read == ReadCompactSize(Read(r, VersionFixedFields), "user_agent_bytes")
        a == IF read.st = "err" THEN [read EXCEPT !.st = "panic"] ELSE read
        b == ReadField(a, Field("user_agent", Count(a, "user_agent_bytes"), "raw"))
        c == Read(b, <<Field("start_height", 4, "le"), Field("relay", 1, "raw")>>)
    IN IF c.st = "ok" THEN [c EXCEPT !.val["relay"] = @ = <<1>>] ELSE c

get_version_message(payload) == Framed("version", VersionPayload_to_le_bytes(payload))
=============================================================================
