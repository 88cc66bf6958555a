----------------------------- MODULE ChainHandlers -----------------------------
(***************************************************************************)
(* The chain as the peer threads handle it after the initial download:     *)
(* handle_headers_message, handle_block_message, handle_getheaders_message *)
(* (handler/message_handlers.rs).  Each step is what a thread does under   *)
(* one lock.                                                               *)
(*                                                                         *)
(* Block 0 is the last one of the initial download; 1..NBlocks are the     *)
(* blocks that are mined later, in the order of the chain, and Bad is the  *)
(* hash of a header that fails validation.  Block b makes one coin, b.     *)
(***************************************************************************)
EXTENDS TxHandlers

CONSTANTS
    NBlocks,            \* bound: blocks mined while the node runs
    Window,             \* headers searched for a new one (10)
    BlockTxs,           \* the account's transactions in each block
    Spends              \* the coins each block spends

Mined == 1 .. NBlocks
Chain == 0 .. NBlocks
Bad == NBlocks + 1
Hashes == Chain \cup {Bad}
NoHeight == -1

ASSUME ChainAssumption ==
    /\ NBlocks \in Nat
    /\ Window \in Nat \ {0}
    /\ BlockTxs \in [Mined -> Seq(Txs)]
    /\ Spends \in [Mined -> SUBSET Chain]
    /\ \A b \in Mined : \A c \in Spends[b] : c < b

VARIABLES
    headers,            \* the vector of headers
    header_heights,     \* their heights by hash, NoHeight for none
    blocks,             \* the map of blocks
    utxo_set,           \* the coins in the utxo set
    account_utxos,      \* utxo_set of the account
    announced,          \* the last block each peer has announced
    asked,              \* blocks asked of each peer, not answered yet
    cur,                \* the hash each thread is at
    first, stop         \* local indices of load_header_heights and getheaders

chainVars == <<headers, header_heights, blocks>>
coinVars == <<utxo_set, account_utxos>>
peerVars == <<announced, asked>>
localVars == <<cur, first, stop>>
allChainVars == <<chainVars, coinVars, peerVars, localVars>>

ChainInit ==
    /\ headers = <<0>>
    /\ header_heights = [h \in Hashes |-> IF h = 0 THEN 0 ELSE NoHeight]
    /\ blocks = {0}
    /\ utxo_set = {0}
    /\ account_utxos = {0}
    /\ announced = [p \in Peers |-> 0]
    /\ asked = [p \in Peers |-> <<>>]
    /\ cur = [p \in Peers |-> 0]
    /\ first = [p \in Peers |-> 0]
    /\ stop = [p \in Peers |-> 0]

\* The handler returns: its local variables go, and the thread reads on.
Return(p) ==
    /\ Goto(p, "idle")
    /\ cur' = [cur EXCEPT ![p] = 0]
    /\ first' = [first EXCEPT ![p] = 0]
    /\ stop' = [stop EXCEPT ![p] = 0]

\* header_is_not_included: only the last headers are searched.
header_is_not_included(h) ==
    \A i \in DOMAIN headers : i > Len(headers) - Window => headers[i] # h

(***************************************************************************)
(* handle_headers_message.  A peer announces the blocks in order.  A new   *)
(* one is asked for; its height is stored, whether it is new or not, from  *)
(* a length of the chain read before.                                      *)
(***************************************************************************)
ReceiveHeaders(p) ==
    /\ pc[p] = "idle"
    /\ announced[p] < NBlocks
    /\ announced' = [announced EXCEPT ![p] = @ + 1]
    /\ cur' = [cur EXCEPT ![p] = announced[p] + 1]
    /\ Goto(p, "headers_check")
    /\ UNCHANGED <<chainVars, coinVars, asked, first, stop, txVars>>

\* A header that fails validation is only logged, but its height is stored.
ReceiveBadHeaders(p) ==
    /\ pc[p] = "idle"
    /\ cur' = [cur EXCEPT ![p] = Bad]
    /\ Goto(p, "headers_len")
    /\ UNCHANGED <<chainVars, coinVars, peerVars, first, stop, txVars>>

\* Mutant: a header whose height is known counts as included.
HeadersCheckByHeight(p) ==
    /\ pc[p] = "headers_check"
    /\ asked' = IF header_heights[cur[p]] = NoHeight
                THEN [asked EXCEPT ![p] = Append(@, cur[p])]
                ELSE asked
    /\ Goto(p, "headers_len")
    /\ UNCHANGED <<chainVars, coinVars, announced, localVars, txVars>>

HeadersCheck(p) ==
    /\ pc[p] = "headers_check"
    /\ asked' = IF header_is_not_included(cur[p])
                THEN [asked EXCEPT ![p] = Append(@, cur[p])]
                ELSE asked
    /\ Goto(p, "headers_len")
    /\ UNCHANGED <<chainVars, coinVars, announced, localVars, txVars>>

\* Mutant: heights counted from one.
HeadersLenPlusOne(p) ==
    /\ pc[p] = "headers_len"
    /\ first' = [first EXCEPT ![p] = Len(headers) + 1]
    /\ Goto(p, "headers_height")
    /\ UNCHANGED <<chainVars, coinVars, peerVars, cur, stop, txVars>>

\* load_header_heights
HeadersLen(p) ==
    /\ pc[p] = "headers_len"
    /\ first' = [first EXCEPT ![p] = Len(headers)]
    /\ Goto(p, "headers_height")
    /\ UNCHANGED <<chainVars, coinVars, peerVars, cur, stop, txVars>>

HeadersHeight(p) ==
    /\ pc[p] = "headers_height"
    /\ header_heights' = [header_heights EXCEPT ![cur[p]] = first[p]]
    /\ Return(p)
    /\ UNCHANGED <<headers, blocks, coinVars, peerVars, txVars>>

(***************************************************************************)
(* handle_block_message.  A peer answers in the order it was asked.        *)
(***************************************************************************)
ReceiveBlock(p) ==
    /\ pc[p] = "idle"
    /\ asked[p] # <<>>
    /\ cur' = [cur EXCEPT ![p] = Head(asked[p])]
    /\ asked' = [asked EXCEPT ![p] = Tail(@)]
    /\ Goto(p, "block_check")
    /\ UNCHANGED <<chainVars, coinVars, announced, first, stop, txVars>>

BlockCheck(p) ==
    /\ pc[p] = "block_check"
    /\ IF header_is_not_included(cur[p])
       THEN Goto(p, "block_push") /\ UNCHANGED localVars
       ELSE Return(p)
    /\ UNCHANGED <<chainVars, coinVars, peerVars, txVars>>

\* include_new_header: the vector under one lock, the height under another.
BlockPush(p) ==
    /\ pc[p] = "block_push"
    /\ headers' = Append(headers, cur[p])
    /\ Goto(p, "block_height")
    /\ UNCHANGED <<header_heights, blocks, coinVars, peerVars, localVars, txVars>>

BlockHeight(p) ==
    /\ pc[p] = "block_height"
    /\ header_heights' = [header_heights EXCEPT ![cur[p]] = Len(headers) - 1]
    /\ Goto(p, "block_spend")
    /\ UNCHANGED <<headers, blocks, coinVars, peerVars, localVars, txVars>>

\* Mutant: the spent coins stay.
BlockSpendNothing(p) ==
    /\ pc[p] = "block_spend"
    /\ Goto(p, "block_coin")
    /\ UNCHANGED <<chainVars, coinVars, peerVars, localVars, txVars>>

\* give_me_utxos: Transaction::remove_utxos, then Transaction::load_utxos.
BlockSpend(p) ==
    /\ pc[p] = "block_spend"
    /\ utxo_set' = utxo_set \ Spends[cur[p]]
    /\ Goto(p, "block_coin")
    /\ UNCHANGED <<chainVars, account_utxos, peerVars, localVars, txVars>>

\* Mutant: the set is replaced by a copy that was read before.
BlockCoinFromCopy(p) ==
    /\ pc[p] = "block_coin"
    /\ utxo_set' = account_utxos \cup {cur[p]}
    /\ Goto(p, "block_accounts")
    /\ UNCHANGED <<chainVars, account_utxos, peerVars, localVars, txVars>>

BlockCoin(p) ==
    /\ pc[p] = "block_coin"
    /\ utxo_set' = utxo_set \cup {cur[p]}
    /\ Goto(p, "block_accounts")
    /\ UNCHANGED <<chainVars, account_utxos, peerVars, localVars, txVars>>

\* Mutant: the account only gets the new coin.
BlockAccountsAdd(p) ==
    /\ pc[p] = "block_accounts"
    /\ \A q \in Peers : ~ReadsAccounts(q)
    /\ account_utxos' = account_utxos \cup {cur[p]}
    /\ todo' = [todo EXCEPT ![p] = BlockTxs[cur[p]]]
    /\ Goto(p, "tx_find")
    /\ UNCHANGED <<chainVars, utxo_set, peerVars, localVars, askVars, tx, idx,
                   accountVars>>

\* update_accounts_utxo_set, with the list of accounts locked for writing.
BlockAccounts(p) ==
    /\ pc[p] = "block_accounts"
    /\ \A q \in Peers : ~ReadsAccounts(q)
    /\ account_utxos' = utxo_set
    /\ todo' = [todo EXCEPT ![p] = BlockTxs[cur[p]]]
    /\ Goto(p, "tx_find")
    /\ UNCHANGED <<chainVars, utxo_set, peerVars, localVars, askVars, tx, idx,
                   accountVars>>

\* include_new_block, once contains_pending_tx has seen every transaction.
BlockStore(p) ==
    /\ pc[p] = "tx_find"
    /\ todo[p] = <<>>
    /\ blocks' = blocks \cup {cur[p]}
    /\ Return(p)
    /\ UNCHANGED <<headers, header_heights, coinVars, peerVars, txVars>>

(***************************************************************************)
(* handle_getheaders_message: the indices are looked up in header_heights, *)
(* then the vector is sliced; a slice that is out of bounds panics.        *)
(***************************************************************************)
get_index_of_header(h) == IF header_heights[h] = NoHeight THEN 0 ELSE header_heights[h]

\* A peer asks for what follows a header it has, up to the end of the chain
\* or to the header with the stop hash.  The node may have neither.  (Fewer
\* than 2000 headers follow: the other slice is within a length that was read.)
ReceiveGetHeaders(p, h) ==
    /\ pc[p] = "idle"
    /\ first' = [first EXCEPT ![p] = get_index_of_header(h) + 1]
    /\ Goto(p, "getheaders_slice")
    /\ UNCHANGED <<chainVars, coinVars, peerVars, cur, stop, txVars>>

ReceiveGetHeadersStop(p, h, s) ==
    /\ pc[p] = "idle"
    /\ h < s
    /\ first' = [first EXCEPT ![p] = get_index_of_header(h) + 1]
    /\ cur' = [cur EXCEPT ![p] = s]
    /\ Goto(p, "getheaders_stop")
    /\ UNCHANGED <<chainVars, coinVars, peerVars, stop, txVars>>

GetHeadersStop(p) ==
    /\ pc[p] = "getheaders_stop"
    /\ stop' = [stop EXCEPT ![p] = get_index_of_header(cur[p])]
    /\ Goto(p, "getheaders_slice_stop")
    /\ UNCHANGED <<chainVars, coinVars, peerVars, cur, first, txVars>>

GetHeadersSlice(p) ==
    /\ pc[p] = "getheaders_slice"
    /\ IF first[p] <= Len(headers)
       THEN Return(p)
       ELSE Goto(p, "panicked") /\ UNCHANGED localVars
    /\ UNCHANGED <<chainVars, coinVars, peerVars, txVars>>

GetHeadersSliceStop(p) ==
    /\ pc[p] = "getheaders_slice_stop"
    /\ IF first[p] <= stop[p] /\ stop[p] <= Len(headers)
       THEN Return(p)
       ELSE Goto(p, "panicked") /\ UNCHANGED localVars
    /\ UNCHANGED <<chainVars, coinVars, peerVars, txVars>>

\* The connection is closed or fails: the thread ends.
PeerGone(p) ==
    /\ pc[p] = "idle"
    /\ Goto(p, "ended")
    /\ UNCHANGED <<allChainVars, txVars>>
=============================================================================
