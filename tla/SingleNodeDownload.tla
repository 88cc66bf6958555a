-------------------------- MODULE SingleNodeDownload --------------------------
(***************************************************************************)
(* The initial block download from a single node: all the headers first,   *)
(* with their lists queued in the channel, then the blocks from one        *)
(* connection without retries, while load_utxo_set builds the utxo set     *)
(* (download_full_blockchain_from_single_node,                             *)
(* download_blocks_single_node).                                           *)
(***************************************************************************)
EXTENDS UtxoLoader

CONSTANTS
    BlocksPerNode,      \* config.blocks_download_per_node
    MaxBlockFailures    \* bound: failures of the connection the blocks come from

ASSUME SingleAssumption == BlocksPerNode \in Nat \ {0} /\ MaxBlockFailures \in Nat

VARIABLES
    spc,                \* where the main thread is
    snode,              \* the connection it downloads blocks from
    schunk,             \* the list of headers it is at
    snext,              \* the next block it asks for
    blocks,             \* heights of the stored blocks
    blkFailures,        \* failures so far
    result              \* what it returns: "running" until then

mainVars == <<spc, snode, schunk, snext, blocks, blkFailures, result>>
vars == <<nodes, chan, hdrVars, utxoVars, mainVars>>

Init ==
    /\ HeadersInit
    /\ LoaderInit
    /\ spc = "headers"
    /\ snode = NoPeer
    /\ schunk = Batch(0, -1)
    /\ snext = 0
    /\ blocks = {}
    /\ blkFailures = 0
    /\ result = "running"

\* download_missing_headers, with the receiver at hand all the time.
Headers == HeadersStep(TRUE) /\ UNCHANGED <<utxoVars, mainVars>>
HeadersPeerFault == HeadersFault /\ UNCHANGED <<utxoVars, mainVars>>

\* Mutant: an empty list of headers is an error.
FailOnEmptyList ==
    /\ \/ spc = "headers" /\ hpc = "failed"
       \/ spc = "recv" /\ chan # <<>> /\ Size(Head(chan)) = 0
    /\ spc' = "end"
    /\ result' = "err"
    /\ UNCHANGED <<nodes, chan, hdrVars, utxoVars, snode, schunk, snext, blocks,
                   blkFailures>>

\* An error of download_missing_headers, or no connection for the blocks, is
\* returned before load_utxo_set is started.
Fail ==
    /\ spc = "headers"
    /\ hpc = "failed" \/ (hpc = "done" /\ nodes = {})
    /\ spc' = "end"
    /\ result' = "err"
    /\ UNCHANGED <<nodes, chan, hdrVars, utxoVars, snode, schunk, snext, blocks,
                   blkFailures>>

\* get_node for the blocks; load_utxo_set starts.
GetNode ==
    /\ spc = "headers"
    /\ hpc = "done"
    /\ \E n \in Peers : get_node(n) /\ snode' = n
    /\ spc' = "recv"
    /\ UNCHANGED <<chan, hdrVars, utxoVars, schunk, snext, blocks, blkFailures,
                   result>>

\* The next list of headers in the channel, whose senders are gone.
NextList ==
    /\ spc = "recv"
    /\ chan # <<>>
    /\ schunk' = Head(chan)
    /\ snext' = Head(chan).lo
    /\ chan' = Tail(chan)
    /\ spc' = "blocks"
    /\ UNCHANGED <<nodes, hdrVars, utxoVars, snode, blocks, blkFailures, result>>

SubChunk == Batch(snext, Least(snext + BlocksPerNode - 1, schunk.hi))

\* request_blocks_from_node and receive_requested_blocks_from_node succeed.
ReceiveBlocks ==
    /\ spc = "blocks"
    /\ snext <= schunk.hi
    /\ SendToLoader(SubChunk)
    /\ snext' = SubChunk.hi + 1
    /\ UNCHANGED <<nodes, chan, hdrVars, spc, snode, schunk, blocks, blkFailures,
                   result>>

\* They fail: there is no other node to try, the error is returned and the
\* connection dropped.
ReceiveBlocksFail ==
    /\ spc = "blocks"
    /\ snext <= schunk.hi
    /\ blkFailures < MaxBlockFailures
    /\ blkFailures' = blkFailures + 1
    /\ spc' = "end"
    /\ snode' = NoPeer
    /\ result' = "err"
    /\ UNCHANGED <<nodes, chan, hdrVars, utxoVars, schunk, snext, blocks>>

\* Mutant: only the blocks asked for last are stored.
StoreLastOnly ==
    /\ spc = "blocks"
    /\ snext > schunk.hi
    /\ blocks' = blocks \cup (Most(schunk.lo, snext - BlocksPerNode) .. schunk.hi)
    /\ spc' = "recv"
    /\ UNCHANGED <<nodes, chan, hdrVars, utxoVars, snode, schunk, snext, blkFailures,
                   result>>

\* add_blocks_downloaded_to_local_blocks at the end of a list.
StoreBlocks ==
    /\ spc = "blocks"
    /\ snext > schunk.hi
    /\ blocks' = blocks \cup Heights(schunk)
    /\ spc' = "recv"
    /\ UNCHANGED <<nodes, chan, hdrVars, utxoVars, snode, schunk, snext, blkFailures,
                   result>>

\* No list is left: return_node_to_vec and drop(tx_utxo_set).
ReturnNode ==
    /\ spc = "recv"
    /\ chan = <<>>
    /\ return_node_to_vec(snode)
    /\ snode' = NoPeer
    /\ spc' = "join"
    /\ UNCHANGED <<chan, hdrVars, utxoVars, schunk, snext, blocks, blkFailures,
                   result>>

\* load_utxo_set is joined.
JoinLoader ==
    /\ spc = "join"
    /\ lpc = "ended"
    /\ spc' = "end"
    /\ result' = "ok"
    /\ UNCHANGED <<nodes, chan, hdrVars, utxoVars, snode, schunk, snext, blocks,
                   blkFailures>>

MainStep == \/ Fail \/ GetNode \/ NextList \/ ReceiveBlocks \/ StoreBlocks
            \/ ReturnNode \/ JoinLoader

\* load_utxo_set runs from GetNode on; tx_utxo_set goes with the end.
Loader ==
    /\ spc # "headers"
    /\ LoaderStep(spc \in {"join", "end"})
    /\ UNCHANGED <<nodes, chan, hdrVars, mainVars>>

\* The function has returned.
Finished == result # "running" /\ UNCHANGED vars

Next ==
    \/ Headers
    \/ HeadersPeerFault
    \/ MainStep
    \/ ReceiveBlocksFail
    \/ Loader
    \/ Finished

Spec == Init /\ [][Next]_vars

--------------------------------------------------------------------------------
\* No headers connection has failed, and the first block to download is not in
\* the first list of headers.
NoGap == hdrFailures = 0 /\ FirstBlock >= InitialHeaders + BatchSize

\* Ok means that every block to the tip is stored, that the utxo set holds the
\* coins that no block spends and nothing else, and that the connection is
\* back in `nodes`: one connection at a time keeps the blocks in order.
OkMeansComplete ==
    (result = "ok" /\ NoGap) => /\ blocks = FirstBlock .. Tip
                                /\ utxo_set = Unspent(FirstBlock .. Tip)
                                /\ nodes = Peers

\* An error is returned only after a connection failed: a last list of headers
\* that is empty (a chain that ends with a full list) is no error here.
ErrorMeansFailure == result = "err" => hdrFailures + blkFailures > 0
=============================================================================
