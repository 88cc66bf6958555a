---------------------------- MODULE MessageStream ----------------------------
(***************************************************************************)
(* The bytes of one connection, from the handshake to the loop of its      *)
(* handler thread.  The peer sends well formed messages, which arrive in   *)
(* segments; it may close the connection at any moment.                    *)
(*                                                                         *)
(* The node first runs a fixed sequence of writes and reads: connect_to_   *)
(* node and the first requests on a connection it opened, handle_incoming_ *)
(* connection on one it accepted.  These reads are read_from of message_   *)
(* header.rs: they skip other messages, answering pings, until the wanted  *)
(* one comes.  Then the thread of handle_messages_from_node takes over: in *)
(* each iteration it writes at most one queued message, reads a header and *)
(* a payload, and handles the message, which may queue answers.            *)
(*                                                                         *)
(* read_from("block") sets a read timeout on the socket, which stays.  In  *)
(* the loop of the thread a timeout means "try again", but read_exact has  *)
(* then dropped the bytes it had: torn records that this happened.         *)
(*                                                                         *)
(* What a message does to the node is in NodeHandlers; Node is what its    *)
(* answers are made from.                                                  *)
(***************************************************************************)
EXTENDS MerkleTree

CONSTANTS Scripts,          \* what a peer may send: [incoming, messages]
          SegmentSizes,     \* sizes of a first segment of a message
          Config,           \* protocol_version, user_agent
          Version,          \* the payload of our version message
          Node              \* headers, blocks and pending transactions of the node

VARIABLES script, sent,     \* the peer's script, and how far it is
          network, socket,  \* segments on their way, bytes to read
          closed,           \* the peer has closed
          step,             \* in the program of the connection
          header,           \* the header read, <<>> before that
          polled,           \* the loop has looked at its queue in this iteration
          queue,            \* messages for the loop to write
          written,          \* messages written to the peer
          delivered,        \* messages handled, decoded
          timeout,          \* the socket has a read timeout
          torn, outcome

streamVars == <<script, sent, network, socket, closed, step, header, polled, queue, written,
                delivered, timeout, torn, outcome>>
readerVars == <<step, header, polled, queue, written, delivered, timeout, torn, outcome>>

Write_(command) == [op |-> "write", command |-> command]
Read_(command) == [op |-> "read", command |-> command]

\* connect_to_node, then the first headers and the first block.
connect_to_node == <<Write_("version"), Read_("version"), Write_("verack"), Read_("verack"),
                     Write_("sendheaders"), Write_("getheaders"), Read_("headers"),
                     Write_("getdata"), Read_("block")>>

handle_incoming_connection == <<Read_("version"), Write_("version"), Read_("verack"), Write_("verack")>>

Program == IF script.incoming THEN handle_incoming_connection ELSE connect_to_node

Listening == step > Len(Program)
Wanted == Program[step].command
Running == outcome = "running"

(***************************************************************************)
(* Messages: to bytes, and a payload to its value.                         *)
(***************************************************************************)
Encode(m) == CASE m.command = "version" -> get_version_message(m.value)
               [] m.command = "verack" -> write_verack_message
               [] m.command = "sendheaders" -> write_sendheaders_message
               [] m.command = "headers" -> HeadersMessage_marshalling(m.value)
               [] m.command = "block" -> get_block_message(m.value)
               [] m.command = "tx" -> get_tx_message(m.value)
               [] m.command = "inv" -> inv_mershalling(m.value)
               [] m.command = "getdata" -> GetDataMessage_marshalling(m.value)
               [] m.command = "getheaders" -> build_getheaders_message(Config.protocol_version, m.value)
               [] m.command = "ping" -> Framed("ping", m.value)

\* The commands the loop has a handler for.
HandledCommands == {"headers", "getdata", "block", "inv", "ping", "tx", "getheaders"}

\* The read in progress after the payload, with the value of the message.
Unmarshalled(command, payload) ==
    LET r == ReadFrom(payload)
        part(s, name) == IF s.st = "ok" THEN [s EXCEPT !.val = @[name]] ELSE s
    IN CASE command = "version" -> VersionPayload_from_le_bytes(r)
         [] command = "headers" -> part(HeadersMessage_unmarshalling(r), "headers")
         [] command = "block" -> Block_unmarshalling(r)
         [] command = "tx" -> Transaction_unmarshalling(r)
         [] command \in {"inv", "getdata"} -> part(GetDataPayload_unmarshalling(r), "inventories")
         [] command = "getheaders" -> part(GetHeadersPayload_read_from(r), "locator_hashes")
         [] command = "ping" -> [r EXCEPT !.val = payload]
         [] OTHER -> r

(***************************************************************************)
(* The peer and the network.                                               *)
(***************************************************************************)
\* A message leaves in one segment or in two.
Segments(bytes) == {<<bytes>>} \cup {<<SubSeq(bytes, 1, n), SubSeq(bytes, n + 1, Len(bytes))>> :
                                       n \in {size \in SegmentSizes : size < Len(bytes)}}

PeerSend == /\ ~closed /\ network = <<>> /\ sent < Len(script.messages)
            /\ network' \in Segments(Encode(script.messages[sent + 1]))
            /\ sent' = sent + 1
            /\ UNCHANGED <<script, socket, closed, readerVars>>

PeerClose == /\ ~closed /\ closed' = TRUE
             /\ UNCHANGED <<script, sent, network, socket, readerVars>>

Arrive == /\ network # <<>>
          /\ socket' = socket \o Head(network) /\ network' = Tail(network)
          /\ UNCHANGED <<script, sent, closed, readerVars>>

(***************************************************************************)
(* Steps of the program.  The getdata asks for the last header received.   *)
(***************************************************************************)
OwnMessage(command) ==
    CASE command = "version" -> get_version_message(Version)
      [] command = "verack" -> write_verack_message
      [] command = "sendheaders" -> write_sendheaders_message
      [] command = "getheaders" ->
            build_getheaders_message(Config.protocol_version, <<BlockHeader_hash(Last(Node.headers))>>)
      [] command = "getdata" ->
            GetDataMessage_marshalling(<<new_block(BlockHeader_hash(Last(Last(delivered).value)))>>)

WriteStep == /\ Running /\ ~Listening /\ Program[step].op = "write"
             /\ written' = Append(written, OwnMessage(Wanted))
             /\ step' = step + 1
             /\ UNCHANGED <<script, sent, network, socket, closed, header, polled, queue, delivered,
                            timeout, torn, outcome>>

\* A read is possible: in the program, or in the loop after the poll.
Reading == Running /\ (IF Listening THEN polled ELSE Program[step].op = "read")

\* read_from("block") sets the timeout before it reads.
SetReadTimeout == /\ Reading /\ ~Listening /\ Wanted = "block" /\ ~timeout
                  /\ timeout' = TRUE
                  /\ UNCHANGED <<script, sent, network, socket, closed, step, header, polled, queue,
                                 written, delivered, torn, outcome>>

CanRead == Reading /\ (~Listening /\ Wanted = "block" => timeout)

\* How many bytes the read in course is for.
BytesToRead == IF header = <<>> THEN 24 ELSE Length(header.payload_size)

Command == get_header_command_name_as_str(header.command_name)
Payload == SubSeq(socket, 1, BytesToRead)

\* A name that is not ASCII is an error (from_utf8).
ReadHeader == /\ CanRead /\ header = <<>> /\ Len(socket) >= 24
              /\ LET h == HeaderMessage_from_le_bytes(SubSeq(socket, 1, 24)) IN
                 IF \E i \in DOMAIN h.command_name : h.command_name[i] > 127
                 THEN outcome' = "err" /\ UNCHANGED header
                 ELSE header' = h /\ UNCHANGED outcome
              /\ socket' = SubSeq(socket, 25, Len(socket))
              /\ UNCHANGED <<script, sent, network, closed, step, polled, queue, written, delivered,
                             timeout, torn>>

PayloadRead == /\ CanRead /\ header # <<>> /\ Len(socket) >= BytesToRead
               /\ socket' = SubSeq(socket, BytesToRead + 1, Len(socket))
               /\ header' = <<>>
               /\ UNCHANGED <<script, sent, network, closed, timeout, torn>>

\* Mutant: a skipped ping is not answered.
SkipSilently == /\ PayloadRead /\ ~Listening /\ Command # Wanted
                /\ UNCHANGED <<step, polled, queue, delivered, outcome, written>>

SkipMessage == /\ PayloadRead /\ ~Listening /\ Command # Wanted
               /\ written' = IF Command = "ping" THEN Append(written, write_pong_message(Payload))
                             ELSE written
               /\ UNCHANGED <<step, polled, queue, delivered, outcome>>

ReadWanted == /\ PayloadRead /\ ~Listening /\ Command = Wanted
              /\ LET r == Unmarshalled(Wanted, Payload) IN
                 IF r.st = "ok"
                 THEN /\ delivered' = Append(delivered, [command |-> Wanted, value |-> r.val])
                      /\ step' = step + 1 /\ UNCHANGED outcome
                 ELSE outcome' = r.st /\ UNCHANGED <<delivered, step>>
              /\ UNCHANGED <<polled, queue, written>>

(***************************************************************************)
(* The loop of the handler thread.                                         *)
(***************************************************************************)
\* Mutant: the poll of the queue is skipped when a message was just handled.
PollAtStartOnly == /\ Running /\ Listening /\ ~polled
                   /\ polled' = TRUE
                   /\ IF queue = <<>> \/ delivered # <<>> THEN UNCHANGED <<queue, written>>
                      ELSE /\ written' = Append(written, Head(queue)) /\ queue' = Tail(queue)
                   /\ UNCHANGED <<script, sent, network, socket, closed, step, header, delivered,
                                  timeout, torn, outcome>>

\* Mutant: the thread waits for a queued message (recv for try_recv).
PollBlocks == /\ Running /\ Listening /\ ~polled /\ queue # <<>>
              /\ polled' = TRUE
              /\ written' = Append(written, Head(queue)) /\ queue' = Tail(queue)
              /\ UNCHANGED <<script, sent, network, socket, closed, step, header, delivered, timeout,
                             torn, outcome>>

PollQueue == /\ Running /\ Listening /\ ~polled
             /\ polled' = TRUE
             /\ IF queue = <<>> THEN UNCHANGED <<queue, written>>
                ELSE written' = Append(written, Head(queue)) /\ queue' = Tail(queue)
             /\ UNCHANGED <<script, sent, network, socket, closed, step, header, delivered, timeout,
                            torn, outcome>>

\* handle_getdata_message: a message for each pending transaction asked for,
\* then one message with the blocks found and the notfound of the others.
GetDataAnswers(invs) ==
    LET txs == SelectSeq(Node.pending, LAMBDA tx : new_tx(Transaction_hash(tx)) \in ToSet(invs))
        blockInvs == SelectSeq(invs, LAMBDA inv : inv.type_identifier = <<2, 0>>)
        stored(inv) == {b \in Node.blocks : BlockHeader_hash(b.block_header) = inv.hash}
        missing == SelectSeq(blockInvs, LAMBDA inv : stored(inv) = {})
        found == SelectSeq(blockInvs, LAMBDA inv : stored(inv) # {})
    IN [i \in DOMAIN txs |-> get_tx_message(txs[i])]
       \o <<Each(LAMBDA inv : get_block_message(CHOOSE b \in stored(inv) : TRUE), found)
            \o (IF missing = <<>> THEN <<>> ELSE get_notfound_message(missing))>>

\* What the other handlers queue: a getdata for each new header, and one for
\* the transactions of an inv; the headers after the first locator hash (the
\* chain from the second header on if it is unknown); the pong of a ping.
Answers(command, value) ==
    CASE command = "getdata" -> GetDataAnswers(value)
      [] command = "headers" ->
            LET new == SelectSeq(value, LAMBDA h : h \notin ToSet(Node.headers))
            IN [i \in DOMAIN new |-> GetDataMessage_marshalling(<<new_block(BlockHeader_hash(new[i]))>>)]
      [] command = "inv" ->
            LET txs == SelectSeq(value, LAMBDA inv : inv.type_identifier = <<1, 0>>)
            IN IF txs = <<>> THEN <<>> ELSE <<GetDataMessage_marshalling(txs)>>
      [] command = "getheaders" ->
            LET known == {i \in DOMAIN Node.headers : BlockHeader_hash(Node.headers[i]) = value[1]}
                first == IF known = {} THEN 1 ELSE CHOOSE i \in known : TRUE
            IN <<HeadersMessage_marshalling(SubSeq(Node.headers, first + 1, Len(Node.headers)))>>
      [] command = "ping" -> <<write_pong_message(value)>>
      [] OTHER -> <<>>

HandleMessage == /\ PayloadRead /\ Listening
                 /\ polled' = FALSE
                 /\ LET r == Unmarshalled(Command, Payload) IN
                    IF Command \notin HandledCommands THEN UNCHANGED <<delivered, queue, outcome>>
                    ELSE IF r.st = "ok"
                    THEN /\ delivered' = Append(delivered, [command |-> Command, value |-> r.val])
                         /\ queue' = queue \o Answers(Command, r.val)
                         /\ UNCHANGED outcome
                    ELSE outcome' = r.st /\ UNCHANGED <<delivered, queue>>
                 /\ UNCHANGED <<step, written>>

(***************************************************************************)
(* A read that cannot be completed.                                        *)
(***************************************************************************)
Short == CanRead /\ Len(socket) < BytesToRead

\* The peer has closed: read_exact fails, which ends the connection.
ReadEof == /\ Short /\ closed /\ network = <<>>
           /\ outcome' = "err"
           /\ UNCHANGED <<script, sent, network, socket, closed, step, header, polled, queue, written,
                          delivered, timeout, torn>>

\* read_from returns the timeout as an error.
ReadFromTimesOut == /\ Short /\ timeout /\ ~Listening
                    /\ outcome' = "err" /\ socket' = <<>>
                    /\ UNCHANGED <<script, sent, network, closed, step, header, polled, queue, written,
                                   delivered, timeout, torn>>

\* read_header gives up until the next iteration, read_payload starts again.
WouldBlock == /\ Short /\ timeout /\ Listening
              /\ socket' = <<>> /\ torn' = (torn \/ socket # <<>>)
              /\ polled' = (header # <<>>)
              /\ UNCHANGED <<script, sent, network, closed, step, header, queue, written, delivered,
                             timeout, outcome>>

Init == /\ script \in Scripts /\ sent = 0
        /\ network = <<>> /\ socket = <<>> /\ closed = FALSE
        /\ step = 1 /\ header = <<>> /\ polled = FALSE
        /\ queue = <<>> /\ written = <<>> /\ delivered = <<>>
        /\ timeout = FALSE /\ torn = FALSE /\ outcome = "running"

ReaderStep == WriteStep \/ SetReadTimeout \/ ReadHeader \/ SkipMessage \/ ReadWanted \/ PollQueue
              \/ HandleMessage \/ ReadEof

Next == PeerSend \/ PeerClose \/ Arrive \/ ReaderStep \/ ReadFromTimesOut \/ WouldBlock

\* Where the thread is neither waiting for bytes nor about to look at its
\* queue, it has a step to take.
ReaderCanStep == Running /\ ((Reading /\ ~CanRead) \/ (CanRead /\ ~Short) \/ (~Reading /\ ~Listening))
ReaderMoves == UNCHANGED <<script, sent, network, closed>>

\* The thread and the network go on; the peer sends its messages unless it
\* closes; a read timeout expires if the bytes do not come.  The weak
\* fairness of ReaderStep is written out, with its guard.
Fairness == /\ []<>~ReaderCanStep \/ []<><<ReaderMoves>>_streamVars
            /\ WF_streamVars(PollQueue) /\ WF_streamVars(Arrive) /\ WF_streamVars(ReadEof)
            /\ []<>(closed \/ network # <<>> \/ sent = Len(script.messages)) \/ []<><<sent' > sent>>_streamVars
            /\ WF_streamVars(WouldBlock)

Spec == Init /\ [][Next]_streamVars /\ Fairness

(***************************************************************************)
(* Properties.                                                             *)
(***************************************************************************)
\* The messages a reader of whole messages would handle: those the program
\* waits for, in its order, then all that have a handler.
ProgramReads == SelectSeq([i \in DOMAIN Program |-> Program[i]], LAMBDA s : s.op = "read")

Handled(messages) ==
    FoldLeft(LAMBDA seen, m :
               IF Len(seen) < Len(ProgramReads)
               THEN IF m.command = ProgramReads[Len(seen) + 1].command THEN Append(seen, m) ELSE seen
               ELSE IF m.command \in HandledCommands THEN Append(seen, m) ELSE seen,
             <<>>, messages)

SentMessages == SubSeq(script.messages, 1, sent)

\* Every message is handled as it was sent, in the order of sending, none
\* twice, whatever the segments and the messages skipped in between, as long
\* as no read was torn: marshalling, framing and unmarshalling agree.
DeliveredAsSent == torn \/ IsPrefix(delivered, Handled(SentMessages))

\* The same with no exception.  read_payload is said to read "until receiving
\* the expected payload".
AlwaysDeliveredAsSent == IsPrefix(delivered, Handled(SentMessages))

\* Each ping is answered by a pong with its payload, in order, both by
\* read_from (directly) and by the loop (through the queue).
IsPong(bytes) == Len(bytes) >= 24
                 /\ get_header_command_name_as_str(HeaderMessage_from_le_bytes(bytes).command_name) = "pong"

PongsInOrder ==
    torn \/ LET pongs == SelectSeq(written \o queue, IsPong)
                pings == SelectSeq(SentMessages, LAMBDA m : m.command = "ping")
                read == Len(SelectSeq(delivered, LAMBDA m : m.command = "ping"))
            IN /\ Len(pongs) <= Len(pings)
               /\ \A i \in DOMAIN pongs : pongs[i] = Framed("pong", pings[i].value)
               /\ Len(pongs) >= read
               /\ (Len(delivered) = Len(Handled(script.messages)) => Len(pongs) = Len(pings))

\* The height in a coinbase script: a count of bytes, then the number.
ReferenceHeight(in) ==
    LET bytes == in.height \o in.signature_script
    IN FoldLeft(LAMBDA n, byte : n * 256 + byte, 0, Reverse(SubSeq(bytes, 2, 1 + bytes[1])))

\* A block that arrives can be validated and shown: its merkle root is the
\* one of the header, every transaction has a proof of inclusion that ends
\* in that root (blocks of one transaction excepted: the tree hashes the one
\* leaf with itself, the block does not), and its height is the real one.
BlocksVerifiable ==
    torn \/ \A i \in DOMAIN delivered : delivered[i].command = "block" =>
              LET b == delivered[i].value
                  root == b.block_header.merkle_root_hash
              IN /\ Block_validate(b) /\ root = ReferenceRoot(TxIds(b))
                 /\ get_height(b.txn[1].tx_in[1]) = ReferenceHeight(b.txn[1].tx_in[1])
                 /\ \A k \in DOMAIN b.txn :
                       LET id == Transaction_hash(b.txn[k])
                           path == merkle_proof_of_inclusion(b, id)
                       IN path # <<>> /\ make_merkle_proof(path, id)
                          /\ (Len(b.txn) > 1 => Last(path)[1] = root)

\* Unless the peer closes, a block does not come in time or a read is torn,
\* everything the peer sends is handled in the end: a well formed stream never
\* makes the reader fail or panic.
EverythingHandled == <>(closed \/ torn \/ (outcome # "running" /\ ~Listening)
                        \/ Len(delivered) = Len(Handled(script.messages)))

\* On a connection with a read timeout queued answers do not wait for the
\* peer to speak: one leaves in each iteration of the loop.
AnswersLeave == (queue # <<>> /\ timeout) ~> (queue = <<>> \/ outcome # "running" \/ torn)
=============================================================================
