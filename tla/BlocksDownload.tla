---------------------------- MODULE BlocksDownload ----------------------------
(***************************************************************************)
(* The thread that downloads the blocks and the workers it starts:         *)
(* download_blocks and everything it calls                                 *)
(* (blockchain_download/blocks_download.rs).                               *)
(***************************************************************************)
EXTENDS HeadersDownload, UtxoLoader

CONSTANTS
    NThreads,           \* config.n_threads
    BlocksPerNode,      \* config.blocks_download_per_node
    MaxBlockFailures    \* bound: connection failures met by the workers

ASSUME WorkersAssumption == /\ NThreads \in Nat \ {0}
                            /\ BlocksPerNode \in Nat \ {0}
                            /\ MaxBlockFailures \in Nat

Workers == 1 .. NThreads

VARIABLES
    bpc,                \* where the blocks thread is
    wpc,                \* where each worker is
    wchunk,             \* block_headers of each worker
    wnext,              \* the next block each worker asks for
    wnode,              \* the connection each worker holds
    blocks,             \* Arc<RwLock<HashMap<_, Block>>>: heights of its blocks
    blkFailures         \* connection failures met so far

blkVars == <<bpc, wpc, wchunk, wnext, wnode, blocks, blkFailures>>

\* download_blocks has not returned, so its receiver of header lists lives.
ReceiverOpen == bpc \in {"recv", "spawn"}

LiveWorker(w) == wpc[w] \in {"run", "stored"}

BlocksInit ==
    /\ bpc = "recv"
    /\ wpc = [w \in Workers |-> "idle"]
    /\ wchunk = [w \in Workers |-> Batch(0, -1)]
    /\ wnext = [w \in Workers |-> 0]
    /\ wnode = [w \in Workers |-> NoPeer]
    /\ blocks = {}
    /\ blkFailures = 0

(***************************************************************************)
(* divide_blocks_to_download_in_equal_chunks: the pieces of b, each of     *)
(* ceil(len / n) headers but for a shorter last one.                       *)
(***************************************************************************)
CeilDiv(a, b) == (a + b - 1) \div b

ChunkSize(b) ==
    CeilDiv(Size(b), IF Size(b) <= BlocksPerNode THEN 1 ELSE NThreads)

Chunk(b, i) == Batch(b.lo + (i - 1) * ChunkSize(b),
                     Least(b.lo + i * ChunkSize(b) - 1, b.hi))

AmountOfChunks(b) == CeilDiv(Size(b), ChunkSize(b))

\* The blocks thread receives a list of headers and divides it; the chunks
\* wait for a worker each.
BlocksReceive ==
    /\ bpc = "recv"
    /\ chan # <<>>
    /\ LET b == Head(chan) IN
         /\ Size(b) > 0
         /\ wpc' = [w \in Workers |->
                      IF w <= AmountOfChunks(b) THEN "waiting" ELSE "idle"]
         /\ wchunk' = [w \in Workers |->
                      IF w <= AmountOfChunks(b) THEN Chunk(b, w) ELSE Batch(0, -1)]
         /\ wnext' = [w \in Workers |->
                      IF w <= AmountOfChunks(b) THEN Chunk(b, w).lo ELSE 0]
    /\ chan' = Tail(chan)
    /\ bpc' = "spawn"
    /\ UNCHANGED <<nodes, wnode, blocks, blkFailures, hdrVars, utxoVars>>

\* "The list has 0 elements!"
BlocksReceiveEmpty ==
    /\ bpc = "recv"
    /\ chan # <<>>
    /\ Size(Head(chan)) = 0
    /\ chan' = Tail(chan)
    /\ bpc' = "failed"
    /\ UNCHANGED <<nodes, wpc, wchunk, wnext, wnode, blocks, blkFailures,
                   hdrVars, utxoVars>>

\* download_blocks_chunck: get_node and spawn a worker for the next chunk.
BlocksSpawn(w) ==
    /\ bpc = "spawn"
    /\ wpc[w] = "waiting"
    /\ \A v \in Workers : v < w => wpc[v] # "waiting"
    /\ \E n \in Peers : get_node(n) /\ wnode' = [wnode EXCEPT ![w] = n]
    /\ wpc' = [wpc EXCEPT ![w] = "run"]
    /\ UNCHANGED <<bpc, wchunk, wnext, blocks, blkFailures, chan, hdrVars,
                   utxoVars>>

\* Without a connection left for a chunk, download_blocks returns an error;
\* the workers already started go on unattended.
BlocksNoNode ==
    /\ bpc = "spawn"
    /\ \E w \in Workers : wpc[w] = "waiting"
    /\ nodes = {}
    /\ bpc' = "failed"
    /\ UNCHANGED <<nodes, wpc, wchunk, wnext, wnode, blocks, blkFailures, chan,
                   hdrVars, utxoVars>>

\* Mutant: the test below with the count of headers off by one.
OneBlockShort == Cardinality(blocks) >= headers - FirstBlock - 1

\* The test that ends download_blocks: as many blocks as headers from the
\* first block to download on.
AllBlocksDownloaded == Cardinality(blocks) = headers - FirstBlock

\* join_threads, then the end of download_blocks or the next list.
BlocksJoin ==
    /\ bpc = "spawn"
    /\ \A w \in Workers : wpc[w] \in {"idle", "ended", "failed"}
    /\ bpc' = IF \E w \in Workers : wpc[w] = "failed" THEN "failed"
              ELSE IF AllBlocksDownloaded THEN "done" ELSE "recv"
    /\ UNCHANGED <<nodes, wpc, wchunk, wnext, wnode, blocks, blkFailures, chan,
                   hdrVars, utxoVars>>

\* The blocks a worker asks for next.
SubChunk(w) == Batch(wnext[w], Least(wnext[w] + BlocksPerNode - 1, wchunk[w].hi))

\* request_blocks_from_node and receive_requested_blocks_from_node succeed:
\* the blocks go to the utxo loader at once, to `blocks` only at the end.
WorkerReceive(w) ==
    /\ wpc[w] = "run"
    /\ wnext[w] <= wchunk[w].hi
    /\ SendToLoader(SubChunk(w))
    /\ wnext' = [wnext EXCEPT ![w] = SubChunk(w).hi + 1]
    /\ UNCHANGED <<nodes, bpc, wpc, wchunk, wnode, blocks, blkFailures, chan,
                   hdrVars>>

\* Mutants: a retry of what the worker has not received yet only, and no retry.
try_only_the_rest(w) ==
    /\ chan' = Append(chan, Batch(wnext[w], wchunk[w].hi))
    /\ wpc' = [wpc EXCEPT ![w] = "ended"]
try_no_other_node(w) ==
    /\ wpc' = [wpc EXCEPT ![w] = "ended"]
    /\ UNCHANGED chan

\* The whole chunk goes back to the channel; when that is closed the worker
\* ends with an error.
try_to_download_blocks_from_other_node(w) ==
    IF ReceiverOpen
    THEN /\ chan' = Append(chan, wchunk[w])
         /\ wpc' = [wpc EXCEPT ![w] = "ended"]
    ELSE /\ wpc' = [wpc EXCEPT ![w] = "failed"]
         /\ UNCHANGED chan

\* A write error, a read error or an invalid block: the connection is dropped
\* and the chunk is left to another connection.
WorkerFail(w) ==
    /\ wpc[w] = "run"
    /\ wnext[w] <= wchunk[w].hi
    /\ blkFailures < MaxBlockFailures
    /\ blkFailures' = blkFailures + 1
    /\ wnode' = [wnode EXCEPT ![w] = NoPeer]
    /\ try_to_download_blocks_from_other_node(w)
    /\ UNCHANGED <<nodes, bpc, wchunk, wnext, blocks, hdrVars, utxoVars>>

\* add_blocks_downloaded_to_local_blocks
WorkerStore(w) ==
    /\ wpc[w] = "run"
    /\ wnext[w] > wchunk[w].hi
    /\ blocks' = blocks \cup Heights(wchunk[w])
    /\ wpc' = [wpc EXCEPT ![w] = "stored"]
    /\ UNCHANGED <<nodes, bpc, wchunk, wnext, wnode, blkFailures, chan, hdrVars,
                   utxoVars>>

\* return_node_to_vec
WorkerReturnNode(w) ==
    /\ wpc[w] = "stored"
    /\ return_node_to_vec(wnode[w])
    /\ wnode' = [wnode EXCEPT ![w] = NoPeer]
    /\ wpc' = [wpc EXCEPT ![w] = "ended"]
    /\ UNCHANGED <<bpc, wchunk, wnext, blocks, blkFailures, chan, hdrVars,
                   utxoVars>>

BlocksStep ==
    \/ BlocksReceive
    \/ BlocksReceiveEmpty
    \/ \E w \in Workers : BlocksSpawn(w)
    \/ BlocksNoNode
    \/ BlocksJoin

WorkerStep(w) ==
    \/ WorkerReceive(w)
    \/ WorkerStore(w)
    \/ WorkerReturnNode(w)

\* The senders to the loader are gone: download_blocks and all workers.
SendersGone == ~ReceiverOpen /\ \A w \in Workers : ~LiveWorker(w)

BlocksTypeOK ==
    /\ bpc \in {"recv", "spawn", "done", "failed"}
    /\ wpc \in [Workers -> {"idle", "waiting", "run", "stored", "ended", "failed"}]
    /\ wchunk \in [Workers -> Batches]
    /\ wnext \in [Workers -> Nat]
    /\ wnode \in [Workers -> Peers \cup {NoPeer}]
    /\ blocks \in SUBSET (FirstBlock .. Tip)
    /\ blkFailures \in 0..MaxBlockFailures
=============================================================================
