------------------------- MODULE InitialBlockDownload -------------------------
(***************************************************************************)
(* The initial block download from several nodes: the headers thread, the  *)
(* blocks thread with its workers and the utxo loader run concurrently,    *)
(* and the main thread joins them                                          *)
(* (download_full_blockchain_from_multiple_nodes, blockchain_download).    *)
(***************************************************************************)
EXTENDS BlocksDownload

VARIABLE result         \* what the main thread returns: "running" until then

vars == <<nodes, chan, hdrVars, blkVars, utxoVars, result>>

Init == HeadersInit /\ BlocksInit /\ LoaderInit /\ result = "running"

(***************************************************************************)
(* The main thread: join_threads on the headers thread, then on the blocks *)
(* thread, with the first error returned at once; then the utxo loader.    *)
(***************************************************************************)
JoinHeadersFailed == hpc = "failed" /\ result' = "err"

JoinBlocksFailed == hpc = "done" /\ bpc = "failed" /\ result' = "err"

JoinAll == hpc = "done" /\ bpc = "done" /\ lpc = "ended" /\ result' = "ok"

MainStep ==
    /\ result = "running"
    /\ JoinHeadersFailed \/ JoinBlocksFailed \/ JoinAll
    /\ UNCHANGED <<nodes, chan, hdrVars, blkVars, utxoVars>>

\* The function has returned.
Finished == result # "running" /\ UNCHANGED vars

HeadersThread == HeadersStep(ReceiverOpen) /\ UNCHANGED <<blkVars, utxoVars, result>>
HeadersPeerFault == HeadersFault /\ UNCHANGED <<blkVars, utxoVars, result>>
BlocksThread == BlocksStep /\ UNCHANGED result
Worker(w) == WorkerStep(w) /\ UNCHANGED result
WorkerPeerFault(w) == WorkerFail(w) /\ UNCHANGED result
Loader == LoaderStep(SendersGone) /\ UNCHANGED <<nodes, chan, hdrVars, blkVars, result>>

Next ==
    \/ HeadersThread
    \/ HeadersPeerFault
    \/ BlocksThread
    \/ \E w \in Workers : Worker(w)
    \/ \E w \in Workers : WorkerPeerFault(w)
    \/ Loader
    \/ MainStep
    \/ Finished

(***************************************************************************)
(* Every thread is scheduled, and a peer whose connection does not fail    *)
(* answers.  Failures are never required to happen.                        *)
(***************************************************************************)
Fairness ==
    /\ WF_vars(HeadersThread)
    /\ WF_vars(BlocksThread)
    /\ \A w \in Workers : WF_vars(Worker(w))
    /\ WF_vars(Loader)
    /\ WF_vars(MainStep)

Spec == Init /\ [][Next]_vars /\ Fairness

--------------------------------------------------------------------------------
(***************************************************************************)
(* Properties.                                                             *)
(***************************************************************************)
\* The values of the variables.
TypeOK ==
    /\ HeadersTypeOK
    /\ BlocksTypeOK
    /\ LoaderTypeOK
    /\ result \in {"running", "ok", "err"}

\* get_node and return_node_to_vec hand each connection to one thread at a
\* time: a connection in use is not in `nodes`, and no two threads use the
\* same one (their reads and writes on one socket would mix).
NodesNotShared ==
    /\ hnode # NoPeer => hnode \notin nodes
    /\ \A w \in Workers :
         wnode[w] # NoPeer =>
           /\ wnode[w] \notin nodes
           /\ wnode[w] # hnode
           /\ \A v \in Workers \ {w} : wnode[v] # wnode[w]

\* The block of header h is stored, or h waits in the channel, is with a
\* worker, or is about to be sent by the headers thread.
Accounted(h) ==
    \/ h \in blocks
    \/ \E i \in DOMAIN chan : h \in Heights(chan[i])
    \/ \E w \in Workers : /\ wpc[w] \in {"waiting", "run"}
                          /\ h \in Heights(wchunk[w])
    \/ hpc = "send" /\ h \in Heights(headers_read)

\* No headers connection has failed, and the first block to download is not in
\* the first list of headers (which is never sent to the blocks thread).
NoGap == hdrFailures = 0 /\ FirstBlock >= InitialHeaders + BatchSize

\* As long as download_blocks runs, the block of every stored header from the
\* first one on is accounted for: the retry of a chunk loses none.
WorkConserved ==
    (ReceiverOpen /\ NoGap) => \A h \in FirstBlock .. (headers - 1) : Accounted(h)

\* Ok from the main thread means that all blocks to the tip are there, if no
\* headers connection failed on the way.
CompleteIfHeadersNodeSurvives ==
    (result = "ok" /\ NoGap) => blocks = FirstBlock .. Tip

\* amount_of_headers - height_first_block_to_download (an unsigned
\* subtraction) does not underflow where download_blocks and the workers
\* compute it.
TotalDoesNotUnderflow ==
    (bpc = "spawn" \/ \E w \in Workers : LiveWorker(w)) => headers >= FirstBlock

\* No coin that stays unspent is lost: a stored block's coin that no block
\* spends is in the utxo set or on its way to the loader.
CoinKept(h) == h \in utxo_set \/ \E i \in DOMAIN uchan : h \in Heights(uchan[i])

UnspentCoinsKept == \A h \in Unspent(blocks) : CoinKept(h)

\* download_blocks ends with Ok only at a moment when exactly the blocks of
\* the headers known so far are stored.
DoneOnlyWhenAllKnownStored ==
    [][bpc # "done" /\ bpc' = "done" => blocks = FirstBlock .. (headers - 1)]_vars

\* The download returns, unless it loses a headers connection: the blocks of
\* the list that is then never sent keep download_blocks waiting for ever.
Termination == <>(result # "running" \/ hdrFailures > 0)

\* The threads together keep the promise of ChainSync: what is known and stored
\* only grows, and nothing moves after Ok, which means a complete chain when
\* no headers connection was lost.
Sync == INSTANCE ChainSync WITH
    Start <- InitialHeaders,
    known <- headers,
    stored <- blocks,
    lossy <- ~NoGap,
    answer <- result

ImplementsChainSync == Sync!SyncSpec

(***************************************************************************)
(* The inductive invariant behind the safety properties, in parts.         *)
(***************************************************************************)
\* A thread holds a connection exactly while it talks to a peer.
NodesInv ==
    /\ NodesNotShared
    /\ hnode # NoPeer <=> hpc \in {"first", "loop", "send", "return"}
    /\ \A w \in Workers : wnode[w] # NoPeer <=> wpc[w] \in {"run", "stored"}

\* Lists of headers hold only heights from FirstBlock on, below len.
InRange(b, len) == FirstBlock <= b.lo /\ b.lo <= b.hi + 1 /\ b.hi < len

RangeInv ==
    /\ headers <= Tip + 1
    /\ blocks \subseteq FirstBlock .. (headers - 1)
    /\ utxo_set \subseteq FirstBlock .. (headers - 1)
    /\ \A i \in DOMAIN chan : InRange(chan[i], headers)
    /\ \A i \in DOMAIN uchan : InRange(uchan[i], headers)
    /\ \A w \in Workers : wpc[w] \in {"waiting", "run", "stored"} =>
         /\ InRange(wchunk[w], headers)
         /\ wchunk[w].lo <= wnext[w]
         /\ wnext[w] <= wchunk[w].hi + 1

\* What each thread's place says about the shared state.
PhaseInv ==
    /\ first_block_found => headers > FirstBlock
    /\ hpc = "send" => /\ headers_read.hi = headers - 1
                       /\ headers_read.lo <= headers
                       /\ headers > FirstBlock
                       /\ first_block_found => headers_read.lo > FirstBlock
                       /\ Size(headers_read) # BatchSize => headers = Tip + 1
    /\ hpc \in {"return", "done"} => headers = Tip + 1
    /\ bpc = "spawn" => headers > FirstBlock
    /\ bpc \in {"recv", "done"} => \A w \in Workers : wpc[w] \in {"idle", "ended"}
    /\ ReceiverOpen => \A w \in Workers : wpc[w] # "failed"
    /\ result = "ok" => hpc = "done" /\ bpc = "done"

\* A connection starts before any block is asked for.
NotStarted ==
    hpc \in {"get", "first"} =>
        ~first_block_found /\ (headers = InitialHeaders \/ FirstBlock > Tip)

\* Before the first block is found the blocks thread has nothing to do.
NothingSent ==
    ~first_block_found =>
        /\ bpc = "recv" /\ chan = <<>>
        /\ hpc = "send" => headers_read.lo <= FirstBlock
        /\ hpc # "send" => headers <= FirstBlock

\* After download_blocks is done only a failing send can follow.
NothingMissed ==
    bpc = "done" => \/ hpc \in {"send", "failed"}
                    \/ FirstBlock .. (headers - 1) \subseteq blocks

WorkInv == WorkConserved /\ (NoGap => NotStarted /\ NothingSent /\ NothingMissed)

\* A worker has sent to the loader what it received so far.
CoinInv ==
    /\ UnspentCoinsKept
    /\ \A w \in Workers : wpc[w] = "waiting" => wnext[w] = wchunk[w].lo
    /\ \A w \in Workers : wpc[w] = "run" =>
         \A h \in Unspent(wchunk[w].lo .. (wnext[w] - 1)) : CoinKept(h)

IInv == TypeOK /\ NodesInv /\ RangeInv /\ PhaseInv /\ WorkInv /\ CoinInv

(***************************************************************************)
(* What a comment of the code says, refuted by the code.                   *)
(***************************************************************************)
\* download_full_blockchain_from_multiple_nodes: "Returns Ok(()) if the
\* blockchain is downloaded correctly or an error if it fails".
OkMeansComplete == result = "ok" => blocks = FirstBlock .. Tip
=============================================================================
