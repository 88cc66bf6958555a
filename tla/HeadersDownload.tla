---------------------------- MODULE HeadersDownload ----------------------------
(***************************************************************************)
(* The thread that downloads the block headers during the initial block    *)
(* download: download_missing_headers and everything it calls              *)
(* (blockchain_download/headers_download.rs).                              *)
(*                                                                         *)
(* Headers are told apart by their height only.  The peers serve one chain *)
(* 0..Tip, so the vector of headers is its length, `headers`, and a list   *)
(* of headers is a run of consecutive heights [lo, hi] (hi = lo - 1 for    *)
(* the empty list).  A header's time is at least the configured date       *)
(* exactly from FirstBlock on.                                             *)
(***************************************************************************)
EXTENDS Integers, Sequences, FiniteSets

CONSTANTS
    Peers,              \* the connections the handshake left in `nodes`
    NoPeer,             \* "no connection is held"
    BatchSize,          \* headers in a full headers message (2000)
    InitialHeaders,     \* length of `headers` after get_initial_headers
    Tip,                \* height of the last header the peers have
    FirstBlock,         \* height of the first block to download
    MaxHeaderFailures   \* bound: connection failures met by this thread

ASSUME PeersAssumption == IsFiniteSet(Peers) /\ NoPeer \notin Peers
ASSUME ChainAssumption == /\ BatchSize \in Nat \ {0}
                          /\ InitialHeaders \in Nat \ {0}
                          /\ Tip \in Nat
                          /\ InitialHeaders <= Tip + 1
                          /\ FirstBlock \in Nat
                          /\ MaxHeaderFailures \in Nat

VARIABLES
    nodes,              \* Arc<RwLock<Vec<TcpStream>>>: connections not in use
    headers,            \* Arc<RwLock<Vec<BlockHeader>>>: its length
    heights,            \* header_heights holds the heights below this one
    hpc,                \* where the headers thread is
    hnode,              \* the connection the headers thread holds
    first_block_found,  \* local of download_missing_headers_from_node
    headers_read,       \* the last list of headers received
    chan,               \* lists of headers sent to the blocks thread
    hdrFailures         \* connection failures met so far

hdrVars == <<headers, heights, hpc, hnode, first_block_found, headers_read,
             hdrFailures>>

(***************************************************************************)
(* Lists of headers.                                                       *)
(***************************************************************************)
Batch(lo, hi) == [lo |-> lo, hi |-> hi]
Heights(b) == b.lo .. b.hi
Size(b) == b.hi - b.lo + 1
Least(a, b) == IF a <= b THEN a ELSE b
Most(a, b) == IF a >= b THEN a ELSE b

Batches == [lo : Nat, hi : Int]

\* The peers' answer to a getheaders message that names the last header.
Answer == Batch(headers, Least(headers + BatchSize - 1, Tip))

\* The part of a list from the first block to download on.
search_first_header_block_to_download(b) == Batch(Most(b.lo, FirstBlock), b.hi)

HeadersInit ==
    /\ nodes = Peers
    /\ headers = InitialHeaders
    /\ heights = InitialHeaders
    /\ hpc = "get"
    /\ hnode = NoPeer
    /\ first_block_found = FALSE
    /\ headers_read = Batch(InitialHeaders, InitialHeaders - 1)
    /\ chan = <<>>
    /\ hdrFailures = 0

(***************************************************************************)
(* get_node pops a connection, return_node_to_vec pushes it back.  The     *)
(* order of the vector depends on the threads' timing and is left out.     *)
(***************************************************************************)
\* Mutant: the connection is copied, not popped.
get_node_kept(n) == n \in nodes /\ UNCHANGED nodes

get_node(n) == n \in nodes /\ nodes' = nodes \ {n}

return_node_to_vec(n) == nodes' = nodes \cup {n}

\* A connection at the start and after each one that failed; without one left
\* download_missing_headers returns an error.
HeadersGetNode ==
    /\ hpc = "get"
    /\ \E n \in Peers : get_node(n) /\ hnode' = n
    /\ hpc' = "first"
    /\ first_block_found' = FALSE
    /\ UNCHANGED <<headers, heights, headers_read, chan, hdrFailures>>

HeadersNoNode ==
    /\ hpc = "get"
    /\ nodes = {}
    /\ hpc' = "failed"
    /\ UNCHANGED <<nodes, headers, heights, hnode, first_block_found,
                   headers_read, chan, hdrFailures>>

\* request_headers_from_node, receive_headers_from_node, load_header_heights
\* and store_headers_in_local_headers_vec of a list that is valid.
ReceiveAndStore ==
    /\ headers_read' = Answer
    /\ heights' = Most(heights, Answer.hi + 1)
    /\ headers' = Answer.hi + 1

\* The loop of download_missing_headers_from_node goes on after a full list.
AfterBatch(b) == IF Size(b) = BatchSize THEN "loop" ELSE "return"

\* The first list from each connection: stored, never sent.
HeadersFirstBatch ==
    /\ hpc = "first"
    /\ ReceiveAndStore
    /\ hpc' = AfterBatch(Answer)
    /\ UNCHANGED <<nodes, hnode, first_block_found, chan, hdrFailures>>

\* A later list with blocks to download in it: stored now, sent by HeadersSend.
HeadersBatchToSend ==
    /\ hpc = "loop"
    /\ first_block_found \/ (Size(Answer) > 0 /\ Answer.hi >= FirstBlock)
    /\ ReceiveAndStore
    /\ hpc' = "send"
    /\ UNCHANGED <<nodes, hnode, first_block_found, chan, hdrFailures>>

\* A later list that ends before the first block to download.
HeadersBatchSkipped ==
    /\ hpc = "loop"
    /\ ~first_block_found
    /\ Size(Answer) > 0
    /\ Answer.hi < FirstBlock
    /\ ReceiveAndStore
    /\ hpc' = AfterBatch(Answer)
    /\ UNCHANGED <<nodes, hnode, first_block_found, chan, hdrFailures>>

\* An empty list before the first block was found: "Can not get last header",
\* an error like any other, so the connection is discarded.
HeadersBatchEmpty ==
    /\ hpc = "loop"
    /\ ~first_block_found
    /\ Size(Answer) = 0
    /\ ReceiveAndStore
    /\ hpc' = "get"
    /\ hnode' = NoPeer
    /\ UNCHANGED <<nodes, first_block_found, chan, hdrFailures>>

\* What is sent: all of the list, or its part from the first block on.
ToSend == IF first_block_found
          THEN headers_read
          ELSE search_first_header_block_to_download(headers_read)

\* tx.send: delivered while the blocks thread holds the receiver, otherwise
\* a ThreadChannelError that ends the thread (its connection is dropped).
HeadersSend(receiverOpen) ==
    /\ hpc = "send"
    /\ first_block_found' = TRUE
    /\ IF receiverOpen
       THEN /\ chan' = Append(chan, ToSend)
            /\ hpc' = AfterBatch(headers_read)
            /\ UNCHANGED hnode
       ELSE /\ hpc' = "failed"
            /\ hnode' = NoPeer
            /\ UNCHANGED chan
    /\ UNCHANGED <<nodes, headers, heights, headers_read, hdrFailures>>

\* A write or read error on the connection: it is discarded.
HeadersNodeError ==
    /\ hpc \in {"first", "loop"}
    /\ hdrFailures < MaxHeaderFailures
    /\ hdrFailures' = hdrFailures + 1
    /\ hpc' = "get"
    /\ hnode' = NoPeer
    /\ UNCHANGED <<nodes, headers, heights, first_block_found, headers_read,
                   chan>>

\* A list with an invalid header at height k: the heights are loaded before
\* validate_headers refuses the list, and the connection is discarded.
HeadersInvalid ==
    /\ hpc \in {"first", "loop"}
    /\ hdrFailures < MaxHeaderFailures
    /\ \E k \in Heights(Answer) : heights' = Most(heights, k)
    /\ hdrFailures' = hdrFailures + 1
    /\ hpc' = "get"
    /\ hnode' = NoPeer
    /\ UNCHANGED <<nodes, headers, first_block_found, headers_read, chan>>

\* return_node_to_vec, and the end of download_missing_headers.
HeadersReturnNode ==
    /\ hpc = "return"
    /\ return_node_to_vec(hnode)
    /\ hnode' = NoPeer
    /\ hpc' = "done"
    /\ UNCHANGED <<headers, heights, first_block_found, headers_read, chan,
                   hdrFailures>>

\* The steps the thread takes by itself, and the failures the peers impose.
HeadersStep(receiverOpen) ==
    \/ HeadersGetNode
    \/ HeadersNoNode
    \/ HeadersFirstBatch
    \/ HeadersBatchToSend
    \/ HeadersBatchSkipped
    \/ HeadersBatchEmpty
    \/ HeadersSend(receiverOpen)
    \/ HeadersReturnNode

HeadersFault == HeadersNodeError \/ HeadersInvalid

HeadersTypeOK ==
    /\ nodes \in SUBSET Peers
    /\ headers \in Nat \ {0}
    /\ heights \in Nat
    /\ hpc \in {"get", "first", "loop", "send", "return", "done", "failed"}
    /\ hnode \in Peers \cup {NoPeer}
    /\ first_block_found \in BOOLEAN
    /\ headers_read \in Batches
    /\ chan \in Seq(Batches)
    /\ hdrFailures \in 0..MaxHeaderFailures
=============================================================================
