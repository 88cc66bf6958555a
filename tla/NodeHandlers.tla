----------------------------- MODULE NodeHandlers -----------------------------
(***************************************************************************)
(* The node after the initial download: one thread per connection runs     *)
(* handle_messages_from_node (handler/node_message_handler.rs), and all of *)
(* them share the chain, the utxo set and the wallet's account.            *)
(***************************************************************************)
EXTENDS ChainHandlers

vars == <<pc, txVars, allChainVars>>

Labels ==
    {"idle", "ended", "panicked", "headers_check", "headers_len", "headers_height",
     "block_check", "block_push", "block_height", "block_spend", "block_coin",
     "block_accounts", "tx_find", "tx_remove", "tx_confirm", "inv_push", "tx_push",
     "getheaders_stop", "getheaders_slice", "getheaders_slice_stop"}

Init == ChainInit /\ TxInit /\ pc = [p \in Peers |-> "idle"]

GetHeaders(p) ==
    \E h \in Chain :
        \/ ReceiveGetHeaders(p, h)
        \/ \E s \in Chain : ReceiveGetHeadersStop(p, h, s)

\* The thread reads the next message of its peer.
Message(p) ==
    \/ ReceiveHeaders(p)
    \/ ReceiveBadHeaders(p)
    \/ GetHeaders(p)
    \/ TxMessage(p) /\ UNCHANGED allChainVars

\* The next step of the handler that the thread is in.
HandlerStep(p) ==
    \/ HeadersCheck(p)
    \/ HeadersLen(p)
    \/ HeadersHeight(p)
    \/ BlockCheck(p)
    \/ BlockPush(p)
    \/ BlockHeight(p)
    \/ BlockSpend(p)
    \/ BlockCoin(p)
    \/ BlockAccounts(p)
    \/ BlockStore(p)
    \/ GetHeadersStop(p)
    \/ GetHeadersSlice(p)
    \/ GetHeadersSliceStop(p)
    \/ TxStep(p) /\ UNCHANGED allChainVars

Next ==
    \E p \in Peers : Message(p) \/ ReceiveBlock(p) \/ HandlerStep(p) \/ PeerGone(p)

(***************************************************************************)
(* Every thread is scheduled, and a peer that stays connected sends the    *)
(* blocks it is asked for, whatever else it sends before (the connection   *)
(* is one ordered stream).  No peer has to announce anything.              *)
(***************************************************************************)
Fairness ==
    \A p \in Peers : WF_vars(HandlerStep(p)) /\ SF_vars(ReceiveBlock(p))

Spec == Init /\ [][Next]_vars /\ Fairness

--------------------------------------------------------------------------------
(***************************************************************************)
(* Properties.                                                             *)
(***************************************************************************)
\* The values of the variables.  header_heights, which getheaders uses as
\* indices, never points more than one behind the end of the vector, races
\* and invalid headers included.
TypeOK ==
    /\ pc \in [Peers -> Labels]
    /\ TxTypeOK
    /\ headers \in Seq(Chain)
    /\ header_heights \in [Hashes -> NoHeight .. Len(headers)]
    /\ blocks \in SUBSET Chain
    /\ utxo_set \in SUBSET Chain
    /\ account_utxos \in SUBSET Chain
    /\ announced \in [Peers -> Chain]
    /\ asked \in [Peers -> Seq(Mined)]
    /\ cur \in [Peers -> Hashes]
    /\ first \in [Peers -> Nat]
    /\ stop \in [Peers -> Nat]

\* Threads that have put a block's header in the vector and not yet stored
\* the block.
Including(p) ==
    pc[p] \in {"block_height", "block_spend", "block_coin", "block_accounts",
               "tx_find", "tx_remove", "tx_confirm"}

AtRest == \A p \in Peers : ~Including(p)

Stopped(p) == pc[p] \in {"ended", "panicked"}

\* include_new_header and include_new_block are far apart: the block of every
\* header in the vector is stored, or some thread is still at it.  Only a
\* thread that found the pending transactions poisoned may leave a gap.
HeadersGetBlocks ==
    /\ blocks \subseteq Range(headers)
    /\ ~poisoned =>
         \A h \in Range(headers) : h \in blocks \/ \E p \in Peers : Including(p) /\ cur[p] = h

\* A block's header comes after the one of its parent, whichever peers they
\* come from: each peer is asked for the blocks in order, and a block that is
\* not asked for is already included.
ParentFirst ==
    \A i \in DOMAIN headers :
        headers[i] # 0 => \E j \in 1 .. (i - 1) : headers[j] = headers[i] - 1

\* Outside give_me_utxos and the update that follows it, the account has the
\* coins of the utxo set.
AccountsCurrent ==
    (\A p \in Peers : pc[p] \notin {"block_coin", "block_accounts"}) =>
        account_utxos = utxo_set

\* A coin that no block spends is in the utxo set once its block is stored,
\* in whatever order threads apply blocks, or apply them twice.
NeverSpent(c) == \A b \in Mined : c \notin Spends[b]

UnspentCoinsKept == \A c \in blocks : NeverSpent(c) => c \in utxo_set

\* A block that a peer has announced is stored in the end, by whichever thread
\* came first, unless that peer's thread stops or the lock is poisoned.
AnnouncedGetsStored ==
    \A p \in Peers : \A b \in Mined :
        announced[p] >= b ~> (b \in blocks \/ Stopped(p) \/ poisoned)

(***************************************************************************)
(* What holds with one connection; the races of several break it.          *)
(***************************************************************************)
\* Between two blocks the height of an included header is its index
\* (get_index_of_header "Returns the index of the header (same as the height in
\* the hashmap)"), and the utxo set has the coins of the chain that no block
\* spends (give_me_utxos "Adds the new utxos and removes the spent ones").
ChainStateExact ==
    AtRest =>
        /\ \A i \in DOMAIN headers : header_heights[headers[i]] = i - 1
        /\ utxo_set = {c \in Range(headers) :
                         \A b \in Range(headers) \ {0} : c \notin Spends[b]}

\* contains_pending_tx confirms a pending transaction that the block contains:
\* a confirmed transaction is in a block of the chain.
ConfirmedInBlock ==
    \A i \in DOMAIN confirmed :
        \E b \in Range(headers) \ {0} : Contains(BlockTxs[b], confirmed[i])
=============================================================================
