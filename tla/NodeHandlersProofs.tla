-------------------------- MODULE NodeHandlersProofs --------------------------
(***************************************************************************)
(* Proofs about NodeHandlers, for every number of connections, blocks and  *)
(* transactions, every window and every choice of what blocks contain.     *)
(***************************************************************************)
EXTENDS NodeHandlers, ListLemmas

--------------------------------------------------------------------------------
(***************************************************************************)
(* Removing from a list, and finding in one.                               *)
(***************************************************************************)
\* Vec::remove within the bounds leaves a list of the same kind.
LEMMA RemoveAtType ==
    ASSUME NEW S, NEW s \in Seq(S), NEW i \in 1 .. Len(s)
    PROVE  RemoveAt(s, i) \in Seq(S)
BY DEF RemoveAt

\* Iterator::position gives an index of the transaction if it is pending.
LEMMA PositionFound ==
    ASSUME pending \in Seq(Txs), NEW t, Contains(pending, t)
    PROVE  position(t) \in 1 .. Len(pending) /\ pending[position(t)] = t
<1> DEFINE T == {i \in 1 .. Len(pending) : pending[i] = t}
<1>1. T \subseteq Nat /\ T # {}
  BY DEF Contains
<1>2. PICK n \in T : \A m \in T : n <= m
  BY <1>1, LeastElement
<1>3. n \in DOMAIN pending /\ pending[n] = t /\ \A j \in 1 .. (n - 1) : pending[j] # t
  BY <1>2
<1> QED
  BY <1>3 DEF position

--------------------------------------------------------------------------------
(***************************************************************************)
(* The steps of a thread: it begins with a message or ends, goes on with a *)
(* headers, block or getheaders message, or works on transactions.         *)
(***************************************************************************)
Begins(p) ==
    \/ ReceiveHeaders(p) \/ ReceiveBadHeaders(p) \/ GetHeaders(p)
    \/ ReceiveBlock(p) \/ PeerGone(p)

ChainStep(p) ==
    \/ HeadersCheck(p) \/ HeadersLen(p) \/ HeadersHeight(p)
    \/ BlockCheck(p) \/ BlockPush(p) \/ BlockHeight(p)
    \/ BlockSpend(p) \/ BlockCoin(p) \/ BlockAccounts(p) \/ BlockStore(p)
    \/ GetHeadersStop(p) \/ GetHeadersSlice(p) \/ GetHeadersSliceStop(p)

TxWork(p) == (TxMessage(p) \/ TxStep(p)) /\ UNCHANGED allChainVars

LEMMA NextCases == Next <=> \E p \in Peers : Begins(p) \/ ChainStep(p) \/ TxWork(p)
BY DEF Next, Message, HandlerStep, Begins, ChainStep, TxWork

--------------------------------------------------------------------------------
(***************************************************************************)
(* Type correctness.  What a handler relies on from its earlier steps is   *)
(* part of the invariant.                                                  *)
(***************************************************************************)
\* Threads that handle a block message.
InBlock(p) == pc[p] \in {"block_check", "block_push"} \/ Including(p)

LocalsOK(p) ==
    /\ pc[p] \in {"inv_push", "tx_push", "tx_confirm"} => tx[p] \in Txs
    /\ pc[p] \in {"tx_remove", "tx_confirm"} => todo[p] # <<>>
    /\ pc[p] = "tx_remove" => idx[p] # 0
    /\ pc[p] = "headers_height" => first[p] <= Len(headers)
    /\ pc[p] = "headers_check" \/ InBlock(p) => cur[p] \in Mined

TypeInv == TypeOK /\ \A p \in Peers : LocalsOK(p)

\* TypeOK in two parts: what the handlers of transactions change, without the
\* flag, and the rest.
TxTypes ==
    /\ transactions_received \in SUBSET Txs
    /\ invs \in [Peers -> SUBSET Txs]
    /\ txAsked \in [Peers -> SUBSET Txs]
    /\ tx \in [Peers -> Txs \cup {NoTx}]
    /\ todo \in [Peers -> Seq(Txs)]
    /\ idx \in [Peers -> Nat]
    /\ pending \in Seq(Txs)
    /\ confirmed \in Seq(Txs)

ChainTypes ==
    /\ headers \in Seq(Chain)
    /\ header_heights \in [Hashes -> NoHeight .. Len(headers)]
    /\ blocks \in SUBSET Chain
    /\ utxo_set \in SUBSET Chain
    /\ account_utxos \in SUBSET Chain
    /\ announced \in [Peers -> Chain]
    /\ asked \in [Peers -> Seq(Mined)]
    /\ cur \in [Peers -> Hashes]
    /\ first \in [Peers -> Nat]
    /\ stop \in [Peers -> Nat]

PcTypes == pc \in [Peers -> Labels]
FlagType == poisoned \in BOOLEAN

LEMMA TypeParts == TypeOK <=> PcTypes /\ TxTypes /\ FlagType /\ ChainTypes
BY Zenon DEF TypeOK, TxTypeOK, TxTypes, ChainTypes, PcTypes, FlagType

\* The numbers that stand for blocks.
LEMMA ChainFacts ==
    /\ NBlocks \in Nat /\ 0 \in Chain /\ Bad \in Hashes /\ 0 \in Hashes
    /\ Chain \subseteq Hashes /\ Mined \subseteq Chain /\ Hashes \subseteq Nat
    /\ Bad \notin Chain
    /\ \A b \in Chain : b \in Nat /\ (b # 0 => b \in Mined /\ b - 1 \in Chain)
BY ChainAssumption DEF Chain, Hashes, Bad, Mined

LEMMA TypeInit == Init => TypeInv
<1> SUFFICES ASSUME Init PROVE TypeInv
  OBVIOUS
<1>1. FlagType
  BY Zenon DEF Init, TxInit, FlagType
<1>2. TxTypes
  BY DEF Init, TxInit, TxTypes
<1>3. ChainTypes /\ PcTypes
  BY ChainFacts DEF Init, ChainInit, ChainTypes, PcTypes, Labels, NoHeight
<1>4. \A p \in Peers : LocalsOK(p)
  BY DEF Init, LocalsOK, InBlock, Including
<1> QED
  BY <1>1, <1>2, <1>3, <1>4, TypeParts DEF TypeInv

\* Only Vec::remove behind the end poisons the lock.
LEMMA FlagTypeStep ==
    ASSUME FlagType, Next
    PROVE  FlagType'
<1>1. PICK p \in Peers : Message(p) \/ ReceiveBlock(p) \/ HandlerStep(p) \/ PeerGone(p)
  BY DEF Next
<1>2. CASE TxRemove(p)
  BY <1>2, Zenon DEF TxRemove, FlagType
<1>3. CASE ~TxRemove(p)
  <2>1. poisoned' = poisoned
    BY <1>1, <1>3
       DEF Message, HandlerStep, GetHeaders, TxMessage, TxStep, InvCheck, TxCheck, InvPush,
           TxPush, TxFind, TxConfirm, ReceiveHeaders, ReceiveBadHeaders, ReceiveGetHeaders,
           ReceiveGetHeadersStop, ReceiveBlock, PeerGone, HeadersCheck, HeadersLen,
           HeadersHeight, BlockCheck, BlockPush, BlockHeight, BlockSpend, BlockCoin,
           BlockAccounts, BlockStore, GetHeadersStop, GetHeadersSlice, GetHeadersSliceStop,
           txVars, accountVars
  <2> QED
    BY <2>1, Zenon DEF FlagType
<1> QED
  BY <1>2, <1>3

\* Steps that leave the chain alone: inv and tx messages, contains_pending_tx.
LEMMA TxTypeStep ==
    ASSUME TypeInv, NEW p \in Peers, TxWork(p)
    PROVE  (PcTypes /\ TxTypes /\ ChainTypes /\ \A q \in Peers : LocalsOK(q))'
<1>1. PcTypes /\ TxTypes /\ ChainTypes /\ \A q \in Peers : LocalsOK(q)
  BY TypeParts DEF TypeInv
<1>2. ChainTypes'
  BY <1>1 DEF TxWork, ChainTypes, allChainVars, chainVars, coinVars, peerVars, localVars
<1>3. headers' = headers /\ cur' = cur /\ first' = first
  BY DEF TxWork, allChainVars, chainVars, localVars
<1> USE <1>1, <1>3 DEF PcTypes, TxTypes, LocalsOK, InBlock, Including, Goto, Labels
<1>4. ASSUME NEW t \in Txs, InvCheck(p, t)
      PROVE  (PcTypes /\ TxTypes /\ \A q \in Peers : LocalsOK(q))'
  <2>1. TxTypes'
    <3>1. tx' = tx \/ tx' = [tx EXCEPT ![p] = t]
      BY <1>4 DEF InvCheck
    <3> QED
      BY <1>4, <3>1 DEF InvCheck, accountVars
  <2>2. (PcTypes /\ \A q \in Peers : LocalsOK(q))'
    BY <1>4 DEF InvCheck, accountVars
  <2> QED
    BY <2>1, <2>2
<1>5. ASSUME NEW t \in Txs, TxCheck(p, t)
      PROVE  (PcTypes /\ TxTypes /\ \A q \in Peers : LocalsOK(q))'
  <2>1. TxTypes'
    <3>1. tx' = tx \/ tx' = [tx EXCEPT ![p] = t]
      BY <1>5 DEF TxCheck
    <3> QED
      BY <1>5, <3>1 DEF TxCheck, accountVars
  <2>2. (PcTypes /\ \A q \in Peers : LocalsOK(q))'
    <3>1. \/ tx' = tx /\ (pc' = pc \/ pc' = [pc EXCEPT ![p] = "ended"])
          \/ tx' = [tx EXCEPT ![p] = t] /\ pc' = [pc EXCEPT ![p] = "tx_push"]
      BY <1>5 DEF TxCheck
    <3>2. todo' = todo /\ idx' = idx
      BY <1>5 DEF TxCheck
    <3> QED
      BY <3>1, <3>2
  <2> QED
    BY <2>1, <2>2
<1>6. CASE InvPush(p)
  BY <1>2, <1>6 DEF InvPush, accountVars
<1>7. CASE TxPush(p)
  <2>1. pending' \in Seq(Txs)
    <3>1. Append(pending, tx[p]) \in Seq(Txs)
      BY <1>7 DEF TxPush
    <3> QED
      BY <1>7, <3>1 DEF TxPush
  <2>2. TxTypes'
    BY <1>7, <2>1 DEF TxPush, askVars
  <2>3. (PcTypes /\ \A q \in Peers : LocalsOK(q))'
    BY <1>7 DEF TxPush, askVars
  <2> QED
    BY <1>2, <2>2, <2>3
<1>8. CASE TxFind(p)
  <2>1. Contains(pending, Head(todo[p])) =>
          position(Head(todo[p])) \in Nat \ {0}
    BY <1>8, PositionFound DEF TxFind
  <2>2. /\ UNCHANGED <<transactions_received, invs, txAsked, tx, pending, confirmed>>
        /\ \/ Goto(p, "ended") /\ UNCHANGED <<idx, todo>>
           \/ /\ Goto(p, "tx_remove") /\ UNCHANGED todo
              /\ \E i \in Nat \ {0} : idx' = [idx EXCEPT ![p] = i]
           \/ todo' = [todo EXCEPT ![p] = Tail(@)] /\ UNCHANGED <<pc, idx>>
    BY <1>8, <2>1 DEF TxFind, askVars, accountVars
  <2>3. todo[p] # <<>> /\ pc[p] = "tx_find"
    BY <1>8 DEF TxFind
  <2>4. TxTypes'
    <3>1. todo[p] \in Seq(Txs) /\ Tail(todo[p]) \in Seq(Txs)
      BY <2>3
    <3>2. todo' \in [Peers -> Seq(Txs)] /\ idx' \in [Peers -> Nat]
      BY <2>2, <3>1
    <3> QED
      BY <2>2, <3>2
  <2>5. (PcTypes /\ \A q \in Peers : LocalsOK(q))'
    BY <2>2, <2>3
  <2> QED
    BY <1>2, <2>4, <2>5
<1>9. CASE TxRemove(p)
  <2>1. idx[p] <= Len(pending) => /\ RemoveAt(pending, idx[p]) \in Seq(Txs)
                                  /\ pending[idx[p]] \in Txs
    <3>1. idx[p] \in Nat \ {0} /\ Len(pending) \in Nat
      BY <1>9 DEF TxRemove
    <3> QED
      BY <3>1, RemoveAtType
  <2>2. /\ UNCHANGED <<transactions_received, invs, txAsked, todo, idx, confirmed>>
        /\ \/ /\ Goto(p, "ended") \/ Goto(p, "panicked")
              /\ UNCHANGED <<tx, pending>>
           \/ /\ Goto(p, "tx_confirm")
              /\ pending' \in Seq(Txs)
              /\ \E t \in Txs : tx' = [tx EXCEPT ![p] = t]
    BY <1>9, <2>1 DEF TxRemove, askVars
  <2>3. pc[p] = "tx_remove"
    BY <1>9 DEF TxRemove
  <2>4. TxTypes'
    BY <2>2
  <2>5. (PcTypes /\ \A q \in Peers : LocalsOK(q))'
    BY <2>2, <2>3
  <2> QED
    BY <1>2, <2>4, <2>5
<1>10. CASE TxConfirm(p)
  BY <1>2, <1>10 DEF TxConfirm, askVars
<1> QED
  BY <1>2, <1>4, <1>5, <1>6, <1>7, <1>8, <1>9, <1>10 DEF TxWork, TxMessage, TxStep

\* Messages that start a handler, and the end of a connection.
LEMMA MessageTypeStep ==
    ASSUME TypeInv, NEW p \in Peers, Begins(p)
    PROVE  (PcTypes /\ TxTypes /\ ChainTypes /\ \A q \in Peers : LocalsOK(q))'
<1>1. PcTypes /\ TxTypes /\ ChainTypes /\ \A q \in Peers : LocalsOK(q)
  BY TypeParts DEF TypeInv
<1>2. UNCHANGED <<txVars, chainVars, coinVars>>
  BY DEF Begins, ReceiveHeaders, ReceiveBadHeaders, GetHeaders, ReceiveBlock, PeerGone,
         ReceiveGetHeaders, ReceiveGetHeadersStop, allChainVars
<1>3. TxTypes' /\ (tx' = tx /\ todo' = todo /\ idx' = idx)
  BY <1>1, <1>2 DEF TxTypes, txVars, askVars, accountVars
<1>4. /\ headers' = headers /\ header_heights' = header_heights
      /\ blocks' = blocks /\ utxo_set' = utxo_set /\ account_utxos' = account_utxos
  BY <1>2 DEF chainVars, coinVars
<1> USE <1>1, <1>3, <1>4, ChainFacts
    DEF PcTypes, ChainTypes, LocalsOK, InBlock, Including, Goto, Labels
<1>5. CASE ReceiveHeaders(p)
  <2>1. announced[p] + 1 \in Mined
    BY <1>5 DEF ReceiveHeaders, Chain, Mined
  <2> QED
    BY <1>5, <2>1 DEF ReceiveHeaders
<1>6. CASE ReceiveBadHeaders(p)
  BY <1>6 DEF ReceiveBadHeaders, peerVars
<1>7. ASSUME NEW h \in Chain PROVE get_index_of_header(h) + 1 \in Nat
  BY <1>7 DEF get_index_of_header, NoHeight
<1>8. ASSUME NEW h \in Chain, ReceiveGetHeaders(p, h)
      PROVE  (PcTypes /\ ChainTypes /\ \A q \in Peers : LocalsOK(q))'
  BY <1>7, <1>8 DEF ReceiveGetHeaders, peerVars
<1>9. ASSUME NEW h \in Chain, NEW s \in Chain, ReceiveGetHeadersStop(p, h, s)
      PROVE  (PcTypes /\ ChainTypes /\ \A q \in Peers : LocalsOK(q))'
  BY <1>7, <1>9 DEF ReceiveGetHeadersStop, peerVars
<1>10. CASE ReceiveBlock(p)
  <2>1. Head(asked[p]) \in Mined /\ Tail(asked[p]) \in Seq(Mined)
    BY <1>10 DEF ReceiveBlock
  <2> QED
    BY <1>10, <2>1 DEF ReceiveBlock
<1>11. CASE PeerGone(p)
  BY <1>11 DEF PeerGone, allChainVars, peerVars, localVars
<1> QED
  BY <1>5, <1>6, <1>8, <1>9, <1>10, <1>11 DEF GetHeaders, Begins

\* The steps of the handlers of headers, block and getheaders messages.
LEMMA HandlerTypeStep ==
    ASSUME TypeInv, NEW p \in Peers, ChainStep(p)
    PROVE  (PcTypes /\ TxTypes /\ ChainTypes /\ \A q \in Peers : LocalsOK(q))'
<1>1. PcTypes /\ TxTypes /\ ChainTypes /\ \A q \in Peers : LocalsOK(q)
  BY TypeParts DEF TypeInv
<1> USE DEF PcTypes, LocalsOK, InBlock, Including, Goto, Labels
<1>2. ASSUME UNCHANGED txVars
      PROVE  TxTypes' /\ (tx' = tx /\ todo' = todo /\ idx' = idx)
  BY <1>1, <1>2 DEF TxTypes, txVars, askVars, accountVars
<1>3. Len(headers) \in Nat
  BY <1>1 DEF ChainTypes
<1>4. CASE HeadersCheck(p)
  <2>1. Append(asked[p], cur[p]) \in Seq(Mined)
    BY <1>1, <1>4 DEF HeadersCheck, ChainTypes
  <2>2. ChainTypes'
    BY <1>1, <1>4, <2>1 DEF HeadersCheck, ChainTypes, chainVars, coinVars, localVars
  <2> QED
    BY <1>1, <1>2, <1>4, <2>2 DEF HeadersCheck, chainVars, localVars
<1>5. CASE HeadersLen(p)
  <2>1. ChainTypes'
    BY <1>1, <1>3, <1>5 DEF HeadersLen, ChainTypes, chainVars, coinVars, peerVars
  <2> QED
    BY <1>1, <1>2, <1>3, <1>5, <2>1 DEF HeadersLen, chainVars, ChainTypes
<1>6. CASE HeadersHeight(p)
  <2>1. header_heights' \in [Hashes -> NoHeight .. Len(headers)]
    BY <1>1, <1>3, <1>6 DEF HeadersHeight, ChainTypes, NoHeight
  <2>2. ChainTypes'
    BY <1>1, <1>6, <2>1, ChainFacts DEF HeadersHeight, ChainTypes, coinVars, peerVars, Return
  <2> QED
    BY <1>1, <1>2, <1>6, <2>2 DEF HeadersHeight, Return, ChainTypes
<1>7. CASE BlockCheck(p)
  <2>1. ChainTypes'
    BY <1>1, <1>7, ChainFacts
       DEF BlockCheck, ChainTypes, chainVars, coinVars, peerVars, localVars, Return
  <2>2. CASE header_is_not_included(cur[p])
    BY <1>1, <1>2, <1>7, <2>1, <2>2 DEF BlockCheck, chainVars, localVars
  <2>3. CASE ~header_is_not_included(cur[p])
    <3>1. Return(p) /\ headers' = headers /\ UNCHANGED txVars
      BY <1>7, <2>3 DEF BlockCheck, chainVars
    <3> QED
      BY <1>1, <1>2, <2>1, <3>1 DEF Return, ChainTypes
  <2> QED
    BY <2>2, <2>3
<1>8. CASE BlockPush(p)
  <2>1. /\ headers' \in Seq(Chain) /\ Len(headers') = Len(headers) + 1
        /\ Len(headers') \in Nat
    <3>1. cur[p] \in Chain
      BY <1>1, <1>8, ChainFacts DEF BlockPush
    <3> QED
      BY <1>1, <1>3, <1>8, <3>1 DEF BlockPush, ChainTypes
  <2>2. NoHeight .. Len(headers) \subseteq NoHeight .. Len(headers')
    BY <1>3, <2>1 DEF NoHeight
  <2>3. header_heights' \in [Hashes -> NoHeight .. Len(headers')]
    BY <1>1, <1>8, <2>2 DEF BlockPush, ChainTypes
  <2>4. ChainTypes'
    BY <1>1, <1>8, <2>1, <2>3 DEF BlockPush, ChainTypes, coinVars, peerVars, localVars
  <2>5. \A q \in Peers : first[q] <= Len(headers) => first[q] <= Len(headers')
    BY <1>1, <1>3, <2>1 DEF ChainTypes
  <2> QED
    BY <1>1, <1>2, <1>8, <2>4, <2>5 DEF BlockPush, localVars
<1>9. CASE BlockHeight(p)
  <2>1. header_heights' \in [Hashes -> NoHeight .. Len(headers)]
    BY <1>1, <1>3, <1>9 DEF BlockHeight, ChainTypes, NoHeight
  <2>2. ChainTypes'
    BY <1>1, <1>9, <2>1 DEF BlockHeight, ChainTypes, coinVars, peerVars, localVars
  <2> QED
    BY <1>1, <1>2, <1>9, <2>2 DEF BlockHeight, localVars
<1>10. CASE BlockSpend(p)
  <2>1. ChainTypes'
    BY <1>1, <1>10 DEF BlockSpend, ChainTypes, chainVars, peerVars, localVars
  <2> QED
    BY <1>1, <1>2, <1>10, <2>1 DEF BlockSpend, chainVars, localVars
<1>11. CASE BlockCoin(p)
  <2>1. ChainTypes'
    BY <1>1, <1>11, ChainFacts DEF BlockCoin, ChainTypes, chainVars, peerVars, localVars
  <2> QED
    BY <1>1, <1>2, <1>11, <2>1 DEF BlockCoin, chainVars, localVars
<1>12. CASE BlockAccounts(p)
  <2>1. ChainTypes'
    BY <1>1, <1>12 DEF BlockAccounts, ChainTypes, chainVars, peerVars, localVars
  <2>2. BlockTxs[cur[p]] \in Seq(Txs)
    BY <1>1, <1>12, ChainAssumption DEF BlockAccounts
  <2>3. TxTypes'
    BY <1>1, <1>12, <2>2 DEF BlockAccounts, TxTypes, askVars, accountVars
  <2> QED
    BY <1>1, <1>12, <2>1, <2>3 DEF BlockAccounts, chainVars, localVars
<1>13. CASE BlockStore(p)
  <2>1. ChainTypes'
    BY <1>1, <1>13, ChainFacts DEF BlockStore, ChainTypes, coinVars, peerVars, Return
  <2> QED
    BY <1>1, <1>2, <1>13, <2>1 DEF BlockStore, Return, ChainTypes
<1>14. CASE GetHeadersStop(p)
  <2>1. get_index_of_header(cur[p]) \in Nat
    BY <1>1, <1>3 DEF get_index_of_header, ChainTypes, NoHeight
  <2>2. ChainTypes'
    BY <1>1, <1>14, <2>1 DEF GetHeadersStop, ChainTypes, chainVars, coinVars, peerVars
  <2> QED
    BY <1>1, <1>2, <1>14, <2>2 DEF GetHeadersStop, chainVars
<1>15. CASE GetHeadersSlice(p) \/ GetHeadersSliceStop(p)
  <2>1. /\ UNCHANGED <<chainVars, coinVars, peerVars, txVars>>
        /\ Return(p) \/ (Goto(p, "panicked") /\ UNCHANGED localVars)
    BY <1>15 DEF GetHeadersSlice, GetHeadersSliceStop
  <2>2. ChainTypes'
    <3>1. cur' \in [Peers -> Hashes] /\ first' \in [Peers -> Nat] /\ stop' \in [Peers -> Nat]
      <4>1. cur \in [Peers -> Hashes] /\ first \in [Peers -> Nat] /\ stop \in [Peers -> Nat]
        BY <1>1 DEF ChainTypes
      <4>2. CASE Return(p)
        BY <4>1, <4>2, ChainFacts DEF Return
      <4>3. CASE UNCHANGED localVars
        BY <4>1, <4>3 DEF localVars
      <4> QED
        BY <2>1, <4>2, <4>3
    <3> QED
      BY <1>1, <2>1, <3>1 DEF ChainTypes, chainVars, coinVars, peerVars
  <2>3. CASE Return(p)
    BY <1>1, <1>2, <2>1, <2>2, <2>3 DEF Return, chainVars, ChainTypes
  <2>4. CASE Goto(p, "panicked") /\ UNCHANGED localVars
    BY <1>1, <1>2, <2>1, <2>2, <2>4 DEF chainVars, localVars
  <2> QED
    BY <2>1, <2>3, <2>4
<1> QED
  BY <1>4, <1>5, <1>6, <1>7, <1>8, <1>9, <1>10, <1>11, <1>12, <1>13, <1>14, <1>15
     DEF ChainStep

\* The invariant is inductive.
LEMMA TypeStep == TypeInv /\ [Next]_vars => TypeInv'
<1> SUFFICES ASSUME TypeInv, [Next]_vars PROVE TypeInv'
  OBVIOUS
<1>1. CASE Next
  <2>1. FlagType'
    BY <1>1, FlagTypeStep, TypeParts DEF TypeInv
  <2>2. (PcTypes /\ TxTypes /\ ChainTypes /\ \A q \in Peers : LocalsOK(q))'
    BY <1>1, NextCases, TxTypeStep, MessageTypeStep, HandlerTypeStep DEF TxWork
  <2>3. TypeOK'
    BY <2>1, <2>2, TypeParts, PTL
  <2> QED
    BY <2>2, <2>3 DEF TypeInv
<1>2. CASE UNCHANGED vars
  <2>1. FlagType'
    BY <1>2, Zenon, TypeParts DEF TypeInv, FlagType, vars, txVars, accountVars
  <2> QED
    BY <1>2 DEF TypeInv, TypeOK, TxTypeOK, LocalsOK, InBlock, Including, vars, txVars,
                askVars, accountVars, allChainVars, chainVars, coinVars, peerVars, localVars
<1> QED
  BY <1>1, <1>2

\* TypeOK for every number of connections, blocks and transactions: among
\* others, header_heights never points more than one behind the end of the
\* vector of headers, whatever the threads interleave (load_header_heights
\* stores a length that was read under an earlier lock).
THEOREM TypeCorrect == Spec => []TypeOK
<1>1. TypeInv => TypeOK
  BY DEF TypeInv
<1> QED
  BY <1>1, TypeInit, TypeStep, PTL DEF Spec

--------------------------------------------------------------------------------
(***************************************************************************)
(* What the three kinds of steps do to the state.                          *)
(***************************************************************************)
\* A thread changes no local variable of another one.
LEMMA OthersKeep ==
    ASSUME TypeInv, NEW p \in Peers, Begins(p) \/ ChainStep(p) \/ TxWork(p),
           NEW q \in Peers, q # p
    PROVE  /\ pc'[q] = pc[q] /\ cur'[q] = cur[q]
           /\ announced'[q] = announced[q] /\ asked'[q] = asked[q]
<1>1. /\ pc \in [Peers -> Labels] /\ cur \in [Peers -> Hashes]
      /\ announced \in [Peers -> Chain] /\ asked \in [Peers -> Seq(Mined)]
  BY DEF TypeInv, TypeOK
<1> USE DEF Goto, Return, allChainVars, peerVars, localVars
<1>2. CASE Begins(p)
  BY <1>1, <1>2 DEF Begins, GetHeaders, ReceiveHeaders, ReceiveBadHeaders, ReceiveBlock,
                    PeerGone, ReceiveGetHeaders, ReceiveGetHeadersStop
<1>3. CASE ChainStep(p)
  BY <1>1, <1>3 DEF ChainStep, HeadersCheck, HeadersLen, HeadersHeight, BlockCheck,
                    BlockPush, BlockHeight, BlockSpend, BlockCoin, BlockAccounts, BlockStore,
                    GetHeadersStop, GetHeadersSlice, GetHeadersSliceStop
<1>4. CASE TxWork(p)
  BY <1>1, <1>4 DEF TxWork, TxMessage, TxStep, InvCheck, TxCheck, InvPush, TxPush, TxFind,
                    TxRemove, TxConfirm
<1> QED
  BY <1>2, <1>3, <1>4

\* A message that arrives changes nothing that threads share.
LEMMA BeginsKeeps ==
    ASSUME TypeInv, NEW p \in Peers, Begins(p)
    PROVE  /\ UNCHANGED <<chainVars, coinVars, txVars>>
           /\ pc[p] = "idle"
           /\ pc'[p] \in {"headers_check", "headers_len", "getheaders_stop",
                          "getheaders_slice", "block_check", "ended"}
BY DEF TypeInv, TypeOK, Begins, GetHeaders, ReceiveHeaders, ReceiveBadHeaders, ReceiveBlock,
       PeerGone, ReceiveGetHeaders, ReceiveGetHeadersStop, allChainVars, Goto

\* Work on transactions leaves the chain alone, and goes on with the
\* transactions of a block unless the lock is poisoned.
LEMMA TxWorkKeeps ==
    ASSUME TypeInv, NEW p \in Peers, TxWork(p)
    PROVE  /\ UNCHANGED allChainVars
           /\ poisoned => poisoned'
           /\ \/ /\ pc[p] \in {"idle", "inv_push", "tx_push"}
                 /\ pc'[p] \in {"idle", "inv_push", "tx_push", "ended"}
              \/ /\ pc[p] \in {"tx_find", "tx_remove", "tx_confirm"}
                 /\ pc'[p] \in {"tx_find", "tx_remove", "tx_confirm"}
              \/ /\ pc[p] \in {"tx_find", "tx_remove", "tx_confirm"}
                 /\ poisoned' /\ pc'[p] \in {"ended", "panicked"}
<1>1. pc \in [Peers -> Labels]
  BY DEF TypeInv, TypeOK
<1>2. UNCHANGED allChainVars
  BY DEF TxWork
<1> USE DEF Goto, accountVars
<1>3. ASSUME NEW t \in Txs, InvCheck(p, t) \/ TxCheck(p, t)
      PROVE  /\ pc[p] = "idle" /\ pc'[p] \in {"idle", "inv_push", "tx_push", "ended"}
             /\ poisoned' = poisoned
  BY <1>1, <1>3 DEF InvCheck, TxCheck
<1>4. CASE InvPush(p) \/ TxPush(p)
  BY <1>1, <1>2, <1>4 DEF InvPush, TxPush
<1>5. CASE TxFind(p)
  BY <1>1, <1>2, <1>5 DEF TxFind
<1>6. CASE TxRemove(p)
  BY <1>1, <1>2, <1>6 DEF TxRemove
<1>7. CASE TxConfirm(p)
  BY <1>1, <1>2, <1>7 DEF TxConfirm
<1> QED
  BY <1>2, <1>3, <1>4, <1>5, <1>6, <1>7 DEF TxWork, TxMessage, TxStep

--------------------------------------------------------------------------------
(***************************************************************************)
(* The account's coins.                                                    *)
(***************************************************************************)
LEMMA AccountsStep ==
    TypeInv /\ AccountsCurrent /\ [Next]_vars => AccountsCurrent'
<1> SUFFICES ASSUME TypeInv, AccountsCurrent, [Next]_vars,
                    \A p \in Peers : pc'[p] \notin {"block_coin", "block_accounts"}
             PROVE  account_utxos' = utxo_set'
  BY DEF AccountsCurrent
<1>1. pc \in [Peers -> Labels]
  BY DEF TypeInv, TypeOK
<1>2. ASSUME UNCHANGED coinVars, \A p \in Peers : pc[p] \notin {"block_coin", "block_accounts"}
      PROVE  account_utxos' = utxo_set'
  BY <1>2 DEF AccountsCurrent, coinVars
<1>3. CASE UNCHANGED vars
  BY <1>2, <1>3 DEF vars, allChainVars
<1>4. ASSUME NEW p \in Peers, Begins(p) \/ TxWork(p) PROVE account_utxos' = utxo_set'
  BY <1>2, <1>4, BeginsKeeps, TxWorkKeeps, OthersKeep DEF allChainVars
<1>5. ASSUME NEW p \in Peers, ChainStep(p) PROVE account_utxos' = utxo_set'
  <2>1. CASE BlockSpend(p) \/ BlockCoin(p)
    BY <1>1, <2>1 DEF BlockSpend, BlockCoin, Goto
  <2>2. CASE BlockAccounts(p)
    BY <2>2 DEF BlockAccounts
  <2>3. CASE ~(BlockSpend(p) \/ BlockCoin(p) \/ BlockAccounts(p))
    <3>1. UNCHANGED coinVars /\ pc[p] \notin {"block_coin", "block_accounts"}
      BY <1>5, <2>3 DEF ChainStep, HeadersCheck, HeadersLen, HeadersHeight, BlockCheck,
                        BlockPush, BlockHeight, BlockStore, GetHeadersStop, GetHeadersSlice,
                        GetHeadersSliceStop
    <3> QED
      BY <1>2, <1>5, <3>1, OthersKeep
  <2> QED
    BY <2>1, <2>2, <2>3
<1> QED
  BY <1>3, <1>4, <1>5, NextCases

\* The account has the coins of the utxo set whenever no thread is between
\* give_me_utxos and update_accounts_utxo_set, however many threads apply
\* blocks at the same time.
THEOREM AccountsStayCurrent == Spec => []AccountsCurrent
<1>1. Init => AccountsCurrent
  BY DEF Init, ChainInit, AccountsCurrent
<1> QED
  BY <1>1, TypeInit, TypeStep, AccountsStep, PTL DEF Spec

--------------------------------------------------------------------------------
(***************************************************************************)
(* The utxo set.                                                           *)
(***************************************************************************)
\* Threads that have added the coin of their block to the utxo set.
CoinAdded(p) == pc[p] \in {"block_accounts", "tx_find", "tx_remove", "tx_confirm"}

CoinInv ==
    /\ UnspentCoinsKept
    /\ \A p \in Peers : CoinAdded(p) /\ NeverSpent(cur[p]) => cur[p] \in utxo_set

LEMMA CoinStep == TypeInv /\ CoinInv /\ [Next]_vars => CoinInv'
<1> SUFFICES ASSUME TypeInv, CoinInv, [Next]_vars PROVE CoinInv'
  OBVIOUS
<1>1. /\ pc \in [Peers -> Labels] /\ cur \in [Peers -> Hashes]
      /\ \A p \in Peers : InBlock(p) => cur[p] \in Mined
  BY DEF TypeInv, TypeOK, LocalsOK
<1>2. ASSUME NEW p \in Peers, Begins(p) \/ ChainStep(p) \/ TxWork(p),
             \A c \in utxo_set : NeverSpent(c) => c \in utxo_set',
             \A c \in blocks' \ blocks : NeverSpent(c) => c \in utxo_set',
             CoinAdded(p)' /\ NeverSpent(cur'[p]) => cur'[p] \in utxo_set'
      PROVE  CoinInv'
  <2>1. ASSUME NEW q \in Peers, q # p, CoinAdded(q)', NeverSpent(cur'[q])
        PROVE  cur'[q] \in utxo_set'
    BY <1>2, <2>1, OthersKeep DEF CoinInv, CoinAdded
  <2>2. UnspentCoinsKept'
    BY <1>2 DEF CoinInv, UnspentCoinsKept, NeverSpent
  <2> QED
    BY <1>2, <2>1, <2>2 DEF CoinInv, NeverSpent
<1>3. CASE UNCHANGED vars
  BY <1>3 DEF CoinInv, UnspentCoinsKept, NeverSpent, CoinAdded, vars, allChainVars, chainVars,
              coinVars, localVars
<1>4. ASSUME NEW p \in Peers, Begins(p) PROVE CoinInv'
  BY <1>2, <1>4, BeginsKeeps DEF chainVars, coinVars, CoinAdded
<1>5. ASSUME NEW p \in Peers, TxWork(p) PROVE CoinInv'
  <2>1. UNCHANGED <<blocks, utxo_set, cur>> /\ (CoinAdded(p)' => CoinAdded(p))
    BY <1>5, TxWorkKeeps DEF allChainVars, chainVars, coinVars, localVars, CoinAdded
  <2> QED
    BY <1>2, <1>5, <2>1 DEF CoinInv
<1>6. ASSUME NEW p \in Peers, ChainStep(p) PROVE CoinInv'
  <2>1. CASE BlockSpend(p)
    <3>1. cur[p] \in Mined /\ ~CoinAdded(p)'
      BY <1>1, <2>1 DEF BlockSpend, InBlock, Including, Goto, CoinAdded
    <3> QED
      BY <1>2, <1>6, <2>1, <3>1 DEF BlockSpend, NeverSpent, chainVars
  <2>2. CASE BlockCoin(p)
    BY <1>2, <1>6, <2>2 DEF BlockCoin, chainVars, localVars
  <2>3. CASE BlockAccounts(p)
    BY <1>2, <1>6, <2>3 DEF BlockAccounts, chainVars, localVars, CoinInv, CoinAdded
  <2>4. CASE BlockStore(p)
    <3>1. ~CoinAdded(p)' /\ CoinAdded(p)
      BY <1>1, <2>4 DEF BlockStore, Return, Goto, CoinAdded
    <3> QED
      BY <1>2, <1>6, <2>4, <3>1 DEF BlockStore, coinVars, CoinInv
  <2>5. CASE ~(BlockSpend(p) \/ BlockCoin(p) \/ BlockAccounts(p) \/ BlockStore(p))
    <3>1. UNCHANGED <<blocks, utxo_set>> /\ ~CoinAdded(p)'
      BY <1>1, <1>6, <2>5
         DEF ChainStep, HeadersCheck, HeadersLen, HeadersHeight, BlockCheck, BlockPush,
             BlockHeight, GetHeadersStop, GetHeadersSlice, GetHeadersSliceStop, Return, Goto,
             CoinAdded, chainVars, coinVars
    <3> QED
      BY <1>2, <1>6, <3>1
  <2> QED
    BY <2>1, <2>2, <2>3, <2>4, <2>5
<1> QED
  BY <1>3, <1>4, <1>5, <1>6, NextCases

\* A coin that no block spends is in the utxo set once its block is stored,
\* although threads remove and add coins (Transaction::remove_utxos and
\* load_utxos in give_me_utxos) in any order and for the same block twice.
THEOREM UnspentKept == Spec => []UnspentCoinsKept
<1>1. Init => CoinInv
  BY DEF Init, ChainInit, CoinInv, UnspentCoinsKept, CoinAdded
<1>2. CoinInv => UnspentCoinsKept
  BY DEF CoinInv
<1> QED
  BY <1>1, <1>2, TypeInit, TypeStep, CoinStep, PTL DEF Spec

--------------------------------------------------------------------------------
(***************************************************************************)
(* Headers and blocks.                                                     *)
(***************************************************************************)
\* Vec::push adds one element.
LEMMA AppendRange ==
    ASSUME NEW S, NEW s \in Seq(S), NEW e
    PROVE  Range(Append(s, e)) = Range(s) \cup {e}
<1>1. \A i \in 1 .. Len(s) : Append(s, e)[i] = s[i]
  OBVIOUS
<1>2. Append(s, e)[Len(s) + 1] = e
  OBVIOUS
<1>3. DOMAIN Append(s, e) = 1 .. Len(s) + 1 /\ DOMAIN s = 1 .. Len(s) /\ Len(s) \in Nat
  OBVIOUS
<1> QED
  BY <1>1, <1>2, <1>3 DEF Range

StoreInv ==
    /\ HeadersGetBlocks
    /\ \A p \in Peers : Including(p) => cur[p] \in Range(headers)

LEMMA StoreStep == TypeInv /\ StoreInv /\ [Next]_vars => StoreInv'
<1> SUFFICES ASSUME TypeInv, StoreInv, [Next]_vars PROVE StoreInv'
  OBVIOUS
<1>1. /\ pc \in [Peers -> Labels] /\ cur \in [Peers -> Hashes] /\ headers \in Seq(Chain)
  BY DEF TypeInv, TypeOK
\* A step of p that goes on with the block p is at, or has none.
<1>2. ASSUME NEW p \in Peers, Begins(p) \/ ChainStep(p) \/ TxWork(p),
             headers' = headers, blocks' = blocks, poisoned => poisoned',
             Including(p)' => Including(p) /\ cur'[p] = cur[p],
             Including(p) => Including(p)' \/ poisoned'
      PROVE  StoreInv'
  <2>1. \A q \in Peers : q # p => (Including(q)' <=> Including(q)) /\ cur'[q] = cur[q]
    BY <1>2, OthersKeep DEF Including
  <2>2. \A q \in Peers : Including(q)' => cur'[q] \in Range(headers')
    BY <1>2, <2>1 DEF StoreInv
  <2>3. ASSUME ~poisoned', NEW h \in Range(headers')
        PROVE  h \in blocks' \/ \E q \in Peers : Including(q)' /\ cur'[q] = h
    BY <1>2, <2>1, <2>3 DEF StoreInv, HeadersGetBlocks
  <2> QED
    BY <1>2, <2>2, <2>3 DEF StoreInv, HeadersGetBlocks
<1>3. CASE UNCHANGED vars
  BY <1>3 DEF StoreInv, HeadersGetBlocks, Including, vars, allChainVars, chainVars, localVars,
              txVars, accountVars
<1>4. ASSUME NEW p \in Peers, Begins(p) PROVE StoreInv'
  BY <1>2, <1>4, BeginsKeeps DEF chainVars, Including, txVars, accountVars
<1>5. ASSUME NEW p \in Peers, TxWork(p) PROVE StoreInv'
  BY <1>2, <1>5, TxWorkKeeps DEF allChainVars, chainVars, localVars, Including
<1>6. ASSUME NEW p \in Peers, ChainStep(p) PROVE StoreInv'
  <2>1. CASE BlockPush(p)
    <3>1. /\ Range(headers') = Range(headers) \cup {cur[p]}
          /\ blocks' = blocks /\ cur' = cur /\ Including(p)' /\ ~Including(p)
          /\ poisoned' = poisoned
      BY <1>1, <2>1, AppendRange DEF BlockPush, Goto, Including, localVars, txVars, accountVars
    <3>2. \A q \in Peers : q # p => (Including(q)' <=> Including(q))
      BY <1>6, OthersKeep DEF Including
    <3> QED
      BY <3>1, <3>2 DEF StoreInv, HeadersGetBlocks
  <2>2. CASE BlockStore(p)
    <3>1. /\ headers' = headers /\ blocks' = blocks \cup {cur[p]} /\ Including(p) /\ ~Including(p)'
          /\ poisoned' = poisoned
      BY <1>1, <2>2 DEF BlockStore, Return, Goto, Including, txVars, accountVars
    <3>2. \A q \in Peers : q # p => (Including(q)' <=> Including(q)) /\ cur'[q] = cur[q]
      BY <1>6, OthersKeep DEF Including
    <3> QED
      BY <3>1, <3>2 DEF StoreInv, HeadersGetBlocks
  <2>3. CASE BlockHeight(p) \/ BlockSpend(p) \/ BlockCoin(p) \/ BlockAccounts(p)
    <3>1. /\ UNCHANGED <<headers, blocks, cur, poisoned>>
          /\ Including(p) /\ Including(p)'
      BY <1>1, <2>3 DEF BlockHeight, BlockSpend, BlockCoin, BlockAccounts, Goto, Including,
                        chainVars, localVars, txVars, accountVars
    <3> QED
      BY <1>2, <1>6, <3>1
  <2>4. CASE ~(\/ BlockPush(p) \/ BlockStore(p) \/ BlockHeight(p) \/ BlockSpend(p)
               \/ BlockCoin(p) \/ BlockAccounts(p))
    <3>1. UNCHANGED <<headers, blocks, poisoned>> /\ ~Including(p) /\ ~Including(p)'
      BY <1>1, <1>6, <2>4
         DEF ChainStep, HeadersCheck, HeadersLen, HeadersHeight, BlockCheck, GetHeadersStop,
             GetHeadersSlice, GetHeadersSliceStop, Return, Goto, Including, chainVars,
             txVars, accountVars
    <3> QED
      BY <1>2, <1>6, <3>1
  <2> QED
    BY <2>1, <2>2, <2>3, <2>4
<1> QED
  BY <1>3, <1>4, <1>5, <1>6, NextCases

\* No header stays without its block: include_new_header and
\* include_new_block are many steps apart, and a thread gives up between them
\* only when it finds the pending transactions poisoned.
THEOREM NoHeaderWithoutBlock == Spec => []HeadersGetBlocks
<1>1. Init => StoreInv
  <2> SUFFICES ASSUME Init PROVE StoreInv
    OBVIOUS
  <2>1. Range(headers) = {0} /\ blocks = {0} /\ \A p \in Peers : ~Including(p)
    BY DEF Init, ChainInit, Including, Range
  <2> QED
    BY <2>1 DEF StoreInv, HeadersGetBlocks
<1>2. StoreInv => HeadersGetBlocks
  BY DEF StoreInv
<1> QED
  BY <1>1, <1>2, TypeInit, TypeStep, StoreStep, PTL DEF Spec

--------------------------------------------------------------------------------
(***************************************************************************)
(* The order of the chain.  A header that a peer has announced and that    *)
(* the thread has looked up is in the vector, asked of this peer, or in    *)
(* the block the thread is about to include; what is asked for increases,  *)
(* so the parent of the next answer can only be in the vector.             *)
(***************************************************************************)
\* The thread has received a block and not yet put its header in the vector.
Answered(p) == pc[p] \in {"block_check", "block_push"}

\* The last block that the peer announced and the thread has looked up.
Checked(p) == IF pc[p] = "headers_check" THEN announced[p] - 1 ELSE announced[p]

AskedInOrder(p) ==
    /\ pc[p] = "headers_check" => cur[p] = announced[p]
    /\ \A i, j \in DOMAIN asked[p] : i < j => asked[p][i] < asked[p][j]
    /\ \A i \in DOMAIN asked[p] : asked[p][i] <= Checked(p)
    /\ Answered(p) => cur[p] <= Checked(p) /\ \A i \in DOMAIN asked[p] : cur[p] < asked[p][i]

NothingForgotten(p) ==
    \A b \in 0 .. Checked(p) :
        b \in Range(headers) \/ b \in Range(asked[p]) \/ (Answered(p) /\ b = cur[p])

OrderInv == ParentFirst /\ \A p \in Peers : AskedInOrder(p) /\ NothingForgotten(p)

\* The order is that of the step's own thread: the others keep theirs, and
\* headers are never taken out of the vector.
LEMMA OrderKept ==
    ASSUME TypeInv, OrderInv, NEW p \in Peers, Begins(p) \/ ChainStep(p) \/ TxWork(p),
           Range(headers) \subseteq Range(headers'), ParentFirst',
           AskedInOrder(p)', NothingForgotten(p)'
    PROVE  OrderInv'
<1> SUFFICES ASSUME NEW q \in Peers, q # p PROVE (AskedInOrder(q) /\ NothingForgotten(q))'
  BY DEF OrderInv
<1>1. /\ pc'[q] = pc[q] /\ cur'[q] = cur[q]
      /\ announced'[q] = announced[q] /\ asked'[q] = asked[q]
  BY OthersKeep
<1>2. Checked(q)' = Checked(q) /\ (Answered(q)' <=> Answered(q))
  BY <1>1 DEF Checked, Answered
<1>3. AskedInOrder(q) /\ NothingForgotten(q)
  BY DEF OrderInv
<1>4. AskedInOrder(q)'
  BY <1>1, <1>2, <1>3 DEF AskedInOrder
<1>5. NothingForgotten(q)'
  BY <1>1, <1>2, <1>3 DEF NothingForgotten
<1> QED
  BY <1>4, <1>5

LEMMA OrderStep == TypeInv /\ OrderInv /\ [Next]_vars => OrderInv'
<1> SUFFICES ASSUME TypeInv, OrderInv, [Next]_vars PROVE OrderInv'
  OBVIOUS
<1>1. /\ pc \in [Peers -> Labels] /\ cur \in [Peers -> Hashes] /\ headers \in Seq(Chain)
      /\ announced \in [Peers -> Chain] /\ asked \in [Peers -> Seq(Mined)]
      /\ ParentFirst
  BY DEF TypeInv, TypeOK, OrderInv
<1>2. \A p \in Peers : /\ AskedInOrder(p) /\ NothingForgotten(p)
                       /\ announced[p] \in Nat /\ Checked(p) \in Int
  <2>1. \A p \in Peers : AskedInOrder(p) /\ NothingForgotten(p)
    BY DEF OrderInv
  <2>2. \A p \in Peers : announced[p] \in Nat
    BY <1>1, ChainFacts
  <2>3. \A p \in Peers : Checked(p) \in Int
    BY <2>2 DEF Checked
  <2> QED
    BY <2>1, <2>2, <2>3
<1>3. headers' = headers => ParentFirst' /\ Range(headers) \subseteq Range(headers')
  BY <1>1 DEF ParentFirst
\* Steps outside the handling of an announced header and of a block that is
\* not included.
<1>4. ASSUME NEW p \in Peers, Begins(p) \/ ChainStep(p) \/ TxWork(p),
             headers' = headers, announced'[p] = announced[p], asked'[p] = asked[p],
             pc[p] # "headers_check", pc'[p] # "headers_check", ~Answered(p)', ~Answered(p)
      PROVE  OrderInv'
  <2>1. Checked(p)' = Checked(p)
    BY <1>4 DEF Checked
  <2>2. AskedInOrder(p)'
    BY <1>2, <1>4, <2>1 DEF AskedInOrder
  <2>3. NothingForgotten(p)'
    BY <1>2, <1>4, <2>1 DEF NothingForgotten
  <2> QED
    BY <1>3, <1>4, <2>2, <2>3, OrderKept
<1>5. CASE UNCHANGED vars
  BY <1>5 DEF OrderInv, ParentFirst, AskedInOrder, NothingForgotten, Checked, Answered, vars,
              allChainVars, chainVars, localVars, peerVars
<1>6. ASSUME NEW p \in Peers, TxWork(p) PROVE OrderInv'
  BY <1>4, <1>6, TxWorkKeeps DEF allChainVars, chainVars, peerVars, Answered
<1>7. ASSUME NEW p \in Peers, Begins(p) PROVE OrderInv'
  <2>1. headers' = headers
    BY <1>7, BeginsKeeps DEF chainVars
  <2>2. CASE ReceiveHeaders(p)
    <3>1. /\ pc[p] = "idle" /\ pc'[p] = "headers_check" /\ cur'[p] = announced[p] + 1
          /\ announced'[p] = announced[p] + 1 /\ asked'[p] = asked[p]
      BY <1>1, <2>2 DEF ReceiveHeaders, Goto
    <3>2. Checked(p)' = Checked(p) /\ ~Answered(p) /\ ~Answered(p)'
      BY <1>2, <3>1 DEF Checked, Answered
    <3>3. AskedInOrder(p)'
      BY <1>2, <3>1, <3>2 DEF AskedInOrder
    <3>4. NothingForgotten(p)'
      BY <1>2, <2>1, <3>1, <3>2 DEF NothingForgotten
    <3> QED
      BY <1>3, <1>7, <2>1, <3>3, <3>4, OrderKept
  <2>3. CASE ReceiveBlock(p)
    <3>1. /\ pc[p] = "idle" /\ pc'[p] = "block_check" /\ cur'[p] = Head(asked[p])
          /\ announced'[p] = announced[p] /\ asked'[p] = Tail(asked[p])
          /\ asked[p] \in Seq(Mined) /\ asked[p] # <<>>
      BY <1>1, <2>3 DEF ReceiveBlock, Goto
    <3>2. Checked(p)' = Checked(p) /\ ~Answered(p) /\ Answered(p)'
      BY <3>1 DEF Checked, Answered
    <3>3. /\ cur'[p] = asked[p][1] /\ 1 \in DOMAIN asked[p]
          /\ Len(asked[p]) \in Nat
          /\ DOMAIN asked[p] = 1 .. Len(asked[p])
          /\ DOMAIN asked'[p] = 1 .. (Len(asked[p]) - 1)
          /\ \A i \in DOMAIN asked'[p] : asked'[p][i] = asked[p][i + 1]
      BY <3>1
    <3>4. \A i \in DOMAIN asked'[p] : /\ i + 1 \in DOMAIN asked[p] /\ 1 < i + 1
                                      /\ \A j \in DOMAIN asked'[p] : i < j => i + 1 < j + 1
      BY <3>3
    <3>5. AskedInOrder(p)'
      BY <1>2, <3>1, <3>2, <3>3, <3>4 DEF AskedInOrder
    <3>6. \A b \in Range(asked[p]) : b = cur'[p] \/ b \in Range(asked'[p])
      <4> SUFFICES ASSUME NEW k \in DOMAIN asked[p], k # 1
                   PROVE  asked[p][k] \in Range(asked'[p])
        BY <3>3 DEF Range
      <4>1. k - 1 \in DOMAIN asked'[p] /\ asked'[p][k - 1] = asked[p][k]
        BY <3>3
      <4> QED
        BY <4>1 DEF Range
    <3>7. NothingForgotten(p)'
      BY <1>2, <2>1, <3>2, <3>6 DEF NothingForgotten
    <3> QED
      BY <1>3, <1>7, <2>1, <3>5, <3>7, OrderKept
  <2>4. CASE ReceiveBadHeaders(p) \/ GetHeaders(p) \/ PeerGone(p)
    <3>1. UNCHANGED <<announced, asked>> /\ pc[p] = "idle"
          /\ pc'[p] \in {"headers_len", "getheaders_stop", "getheaders_slice", "ended"}
      BY <1>1, <2>4 DEF ReceiveBadHeaders, GetHeaders, ReceiveGetHeaders,
                        ReceiveGetHeadersStop, PeerGone, Goto, allChainVars, peerVars
    <3> QED
      BY <1>4, <1>7, <2>1, <3>1 DEF Answered
  <2> QED
    BY <1>7, <2>2, <2>3, <2>4 DEF Begins
<1>8. ASSUME NEW p \in Peers, ChainStep(p) PROVE OrderInv'
  <2>1. CASE HeadersCheck(p)
    <3>1. /\ pc[p] = "headers_check" /\ pc'[p] = "headers_len" /\ cur'[p] = cur[p]
          /\ announced'[p] = announced[p] /\ headers' = headers
          /\ cur[p] = announced[p]
          /\ \/ asked'[p] = Append(asked[p], cur[p])
             \/ asked'[p] = asked[p] /\ ~header_is_not_included(cur[p])
      BY <1>1, <1>2, <2>1 DEF HeadersCheck, Goto, localVars, chainVars, AskedInOrder
    <3>2. /\ Checked(p)' = announced[p] /\ Checked(p) = announced[p] - 1
          /\ ~Answered(p) /\ ~Answered(p)'
      BY <3>1 DEF Checked, Answered
    <3>0. \A i \in DOMAIN asked[p] : asked[p][i] \in Nat
      <4>1. asked[p] \in Seq(Mined)
        BY <1>1
      <4>2. \A i \in DOMAIN asked[p] : asked[p][i] \in Mined
        BY <4>1
      <4> QED
        BY <4>2, ChainFacts
    <3>3. CASE asked'[p] = Append(asked[p], cur[p])
      <4>1. /\ Len(asked[p]) \in Nat
            /\ DOMAIN asked[p] = 1 .. Len(asked[p])
            /\ DOMAIN asked'[p] = 1 .. (Len(asked[p]) + 1)
            /\ asked'[p][Len(asked[p]) + 1] = announced[p]
            /\ \A i \in DOMAIN asked[p] : asked'[p][i] = asked[p][i]
        <5>1. asked[p] \in Seq(Mined)
          BY <1>1
        <5> QED
          BY <3>1, <3>3, <5>1
      <4>2. AskedInOrder(p)'
        <5>1. \A i \in DOMAIN asked[p] : asked[p][i] < announced[p]
          BY <1>2, <3>0, <3>2 DEF AskedInOrder
        <5>2. \A i \in DOMAIN asked'[p] : i \in DOMAIN asked[p] \/ i = Len(asked[p]) + 1
          BY <4>1
        <5>3. \A i, j \in DOMAIN asked'[p] : i < j => asked'[p][i] < asked'[p][j]
          BY <1>2, <4>1, <5>1, <5>2 DEF AskedInOrder
        <5>4. \A i \in DOMAIN asked'[p] : asked'[p][i] <= announced[p]
          BY <1>2, <3>0, <4>1, <5>1, <5>2
        <5> QED
          BY <3>1, <3>2, <5>3, <5>4 DEF AskedInOrder
      <4>3. Range(asked'[p]) = Range(asked[p]) \cup {announced[p]}
        BY <1>1, <3>1, <3>3, AppendRange
      <4>4. NothingForgotten(p)'
        BY <1>2, <3>1, <3>2, <4>3 DEF NothingForgotten
      <4> QED
        BY <1>3, <1>8, <3>1, <4>2, <4>4, OrderKept
    <3>4. CASE asked'[p] = asked[p] /\ ~header_is_not_included(cur[p])
      <4>1. announced[p] \in Range(headers)
        BY <3>1, <3>4 DEF header_is_not_included, Range
      <4>3. AskedInOrder(p)'
        BY <1>2, <3>0, <3>1, <3>2, <3>4 DEF AskedInOrder
      <4>4. NothingForgotten(p)'
        BY <1>2, <3>1, <3>2, <3>4, <4>1 DEF NothingForgotten
      <4> QED
        BY <1>3, <1>8, <3>1, <4>3, <4>4, OrderKept
    <3> QED
      BY <3>1, <3>3, <3>4
  <2>2. CASE BlockCheck(p)
    <3>1. /\ pc[p] = "block_check" /\ headers' = headers
          /\ announced'[p] = announced[p] /\ asked'[p] = asked[p]
          /\ \/ pc'[p] = "block_push" /\ cur'[p] = cur[p]
             \/ pc'[p] = "idle" /\ ~header_is_not_included(cur[p])
      BY <1>1, <2>2 DEF BlockCheck, Return, Goto, localVars, chainVars, peerVars
    <3>2. Checked(p)' = Checked(p) /\ Answered(p) /\ (Answered(p)' <=> pc'[p] = "block_push")
      BY <3>1 DEF Checked, Answered
    <3>3. AskedInOrder(p)'
      BY <1>2, <3>1, <3>2 DEF AskedInOrder
    <3>4. pc'[p] = "block_push" \/ cur[p] \in Range(headers)
      BY <3>1 DEF header_is_not_included, Range
    <3>5. NothingForgotten(p)'
      BY <1>2, <3>1, <3>2, <3>4 DEF NothingForgotten
    <3> QED
      BY <1>3, <1>8, <3>1, <3>3, <3>5, OrderKept
  <2>3. CASE BlockPush(p)
    <3>1. /\ pc[p] = "block_push" /\ pc'[p] = "block_height"
          /\ headers' = Append(headers, cur[p]) /\ cur[p] \in Mined
          /\ announced'[p] = announced[p] /\ asked'[p] = asked[p]
      BY <1>1, <2>3 DEF BlockPush, Goto, peerVars, TypeInv, LocalsOK, InBlock
    <3>2. Checked(p)' = Checked(p) /\ Answered(p) /\ ~Answered(p)'
      BY <3>1 DEF Checked, Answered
    <3>3. Range(headers') = Range(headers) \cup {cur[p]}
      BY <1>1, <3>1, AppendRange
    <3>4. cur[p] - 1 \in Range(headers)
      <4>1. cur[p] \in Nat /\ cur[p] # 0
        BY <3>1, ChainFacts DEF Mined
      <4>2. cur[p] - 1 \in 0 .. Checked(p)
        BY <1>2, <3>2, <4>1 DEF AskedInOrder
      <4>3. cur[p] - 1 \notin Range(asked[p])
        BY <1>2, <3>2, <4>1 DEF AskedInOrder, Range
      <4> QED
        BY <1>2, <4>1, <4>2, <4>3 DEF NothingForgotten
    <3>5. ParentFirst'
      <4>1. /\ Len(headers) \in Nat /\ DOMAIN headers = 1 .. Len(headers)
            /\ DOMAIN headers' = 1 .. (Len(headers) + 1)
            /\ \A i \in DOMAIN headers : headers'[i] = headers[i]
            /\ headers'[Len(headers) + 1] = cur[p]
        BY <1>1, <3>1
      <4>2. PICK j \in DOMAIN headers : headers[j] = cur[p] - 1
        BY <3>4 DEF Range
      <4>3. ASSUME NEW i \in DOMAIN headers, headers'[i] # 0
            PROVE  \E k \in 1 .. (i - 1) : headers'[k] = headers'[i] - 1
        <5>1. PICK k \in 1 .. (i - 1) : headers[k] = headers[i] - 1
          BY <1>1, <4>1, <4>3 DEF ParentFirst
        <5>2. k \in DOMAIN headers
          BY <4>1
        <5> QED
          BY <4>1, <5>1, <5>2
      <4>4. j \in 1 .. (Len(headers) + 1) - 1 /\ headers'[j] = headers'[Len(headers) + 1] - 1
        BY <4>1, <4>2
      <4> QED
        BY <4>1, <4>3, <4>4 DEF ParentFirst
    <3>6. AskedInOrder(p)'
      BY <1>2, <3>1, <3>2 DEF AskedInOrder
    <3>7. NothingForgotten(p)'
      BY <1>2, <3>1, <3>2, <3>3 DEF NothingForgotten
    <3> QED
      BY <1>8, <3>3, <3>5, <3>6, <3>7, OrderKept
  <2>4. CASE ~(HeadersCheck(p) \/ BlockCheck(p) \/ BlockPush(p))
    <3>1. /\ UNCHANGED <<headers, announced, asked>>
          /\ pc[p] \notin {"headers_check", "block_check", "block_push"}
          /\ pc'[p] \notin {"headers_check", "block_check", "block_push"}
      BY <1>1, <1>8, <2>4
         DEF ChainStep, HeadersLen, HeadersHeight, BlockHeight, BlockSpend, BlockCoin,
             BlockAccounts, BlockStore, GetHeadersStop, GetHeadersSlice, GetHeadersSliceStop,
             Return, Goto, chainVars, peerVars
    <3> QED
      BY <1>4, <1>8, <3>1 DEF Answered
  <2> QED
    BY <2>1, <2>2, <2>3, <2>4
<1> QED
  BY <1>5, <1>6, <1>7, <1>8, NextCases

\* The vector of headers is in the order of the chain, whichever peers the
\* blocks come from and in whatever order their threads push them; a block may
\* be in it twice (header_is_not_included and include_new_header take the lock
\* one after the other), but never before its parent.
THEOREM ParentsFirst == Spec => []ParentFirst
<1>1. Init => OrderInv
  <2> SUFFICES ASSUME Init PROVE OrderInv
    OBVIOUS
  <2>1. /\ headers = <<0>> /\ 0 \in Range(headers) /\ DOMAIN headers = {1} /\ headers[1] = 0
        /\ \A p \in Peers : /\ pc[p] = "idle" /\ announced[p] = 0 /\ asked[p] = <<>>
                            /\ Checked(p) = 0 /\ ~Answered(p)
    BY DEF Init, ChainInit, Range, Checked, Answered
  <2>2. ParentFirst
    BY <2>1 DEF ParentFirst
  <2>3. \A p \in Peers : AskedInOrder(p)
    BY <2>1 DEF AskedInOrder
  <2>4. \A p \in Peers : NothingForgotten(p)
    BY <2>1 DEF NothingForgotten
  <2> QED
    BY <2>2, <2>3, <2>4 DEF OrderInv
<1>2. OrderInv => ParentFirst
  BY DEF OrderInv
<1> QED
  BY <1>1, <1>2, TypeInit, TypeStep, OrderStep, PTL DEF Spec

(***************************************************************************)
(* With a single connection, for every chain and every choice of           *)
(* transactions, what the races of several threads break is exact.         *)
(***************************************************************************)
OneConnection == \E p : Peers = {p}

Height == Len(headers)

(***************************************************************************)
(* The invariant, for the only thread p.  The vector is the chain in       *)
(* order, what is asked for is what comes next, and each step of a block's *)
(* handler has done its part.                                              *)
(***************************************************************************)
HeadersExact(p) ==
    /\ Height > 0
    /\ \A i \in DOMAIN headers : headers[i] = i - 1
    /\ Answered(p) => cur[p] = Height
    /\ Including(p) => cur[p] = Height - 1
    /\ pc[p] \in {"headers_len", "headers_height"} => cur[p] >= Height

NextBlock(p) == IF Answered(p) THEN Height + 1 ELSE Height

AskedExact(p) ==
    /\ \A i \in DOMAIN asked[p] : asked[p][i] = NextBlock(p) + i - 1
    /\ Checked(p) = NextBlock(p) + Len(asked[p]) - 1
    /\ pc[p] = "headers_check" => cur[p] = announced[p]

HeightsExact(p) ==
    \A h \in 0 .. (Height - 1) :
        header_heights[h] = h \/ (pc[p] = "block_height" /\ h = Height - 1)

\* The coins of the first n blocks that none of these spends.
UnspentBelow(n) == {c \in 0 .. (n - 1) : \A b \in 1 .. (n - 1) : c \notin Spends[b]}

CoinsExact(p) ==
    /\ pc[p] \in {"block_height", "block_spend"} => utxo_set = UnspentBelow(Height - 1)
    /\ pc[p] = "block_coin" => utxo_set = UnspentBelow(Height - 1) \ Spends[Height - 1]
    /\ pc[p] \notin {"block_height", "block_spend", "block_coin"} =>
         utxo_set = UnspentBelow(Height)

PendingExact(p) ==
    /\ ~poisoned
    /\ pc[p] \in {"tx_find", "tx_remove", "tx_confirm"} =>
         Range(todo[p]) \subseteq Range(BlockTxs[cur[p]])
    /\ pc[p] = "tx_remove" => idx[p] <= Len(pending) /\ pending[idx[p]] = Head(todo[p])
    /\ pc[p] = "tx_confirm" => tx[p] = Head(todo[p])

ChainInv(p) == HeadersExact(p) /\ AskedExact(p) /\ HeightsExact(p) /\ CoinsExact(p)

OneInv == (\A p \in Peers : ChainInv(p) /\ PendingExact(p)) /\ ConfirmedInBlock

--------------------------------------------------------------------------------
\* The first element and the others are elements of the list.
LEMMA TailRange ==
    ASSUME NEW S, NEW s \in Seq(S), s # <<>>
    PROVE  Range(Tail(s)) \subseteq Range(s) /\ Head(s) \in Range(s)
<1>1. /\ DOMAIN s = 1 .. Len(s) /\ Len(s) \in Nat /\ Len(s) > 0
      /\ Head(s) = s[1]
      /\ DOMAIN Tail(s) = 1 .. (Len(s) - 1)
      /\ \A i \in 1 .. (Len(s) - 1) : Tail(s)[i] = s[i + 1]
  OBVIOUS
<1> QED
  BY <1>1 DEF Range

\* A block adds its own coin and takes away the ones it spends, which are
\* older than itself.
LEMMA UnspentNext ==
    ASSUME NEW n \in Mined
    PROVE  UnspentBelow(n + 1) = (UnspentBelow(n) \ Spends[n]) \cup {n}
<1>1. n \in Nat /\ n > 0 /\ NBlocks \in Nat /\ n <= NBlocks
  BY ChainFacts DEF Mined
<1>2. \A b \in 1 .. n : n \notin Spends[b]
  <2> SUFFICES ASSUME NEW b \in 1 .. n, n \in Spends[b] PROVE FALSE
    OBVIOUS
  <2>1. b \in Mined
    BY <1>1 DEF Mined
  <2>2. n < b
    BY <2>1, ChainAssumption
  <2> QED
    BY <1>1, <2>2
<1>3. ASSUME NEW c
      PROVE  c \in UnspentBelow(n + 1) <=> c \in (UnspentBelow(n) \ Spends[n]) \cup {n}
  <2>1. CASE c = n
    BY <1>1, <1>2, <2>1 DEF UnspentBelow
  <2>2. CASE c # n
    <3>1. c \in 0 .. (n + 1) - 1 <=> c \in 0 .. (n - 1)
      BY <1>1, <2>2
    <3>2. (\A b \in 1 .. (n + 1) - 1 : c \notin Spends[b])
            <=> (\A b \in 1 .. (n - 1) : c \notin Spends[b]) /\ c \notin Spends[n]
      BY <1>1
    <3> QED
      BY <2>2, <3>1, <3>2 DEF UnspentBelow
  <2> QED
    BY <2>1, <2>2
<1> QED
  BY <1>3

--------------------------------------------------------------------------------
\* What the proofs below use of the types.
LEMMA OneTypes ==
    ASSUME TypeInv, NEW p \in Peers, ChainInv(p)
    PROVE  /\ pc \in [Peers -> Labels] /\ cur \in [Peers -> Hashes] /\ cur[p] \in Nat
           /\ headers \in Seq(Chain) /\ announced \in [Peers -> Chain]
           /\ asked \in [Peers -> Seq(Mined)] /\ asked[p] \in Seq(Mined)
           /\ header_heights \in [Hashes -> NoHeight .. Len(headers)]
           /\ Height \in Nat /\ Height > 0 /\ DOMAIN headers = 1 .. Height
           /\ Height <= NBlocks + 1
           /\ announced[p] \in Nat /\ announced[p] <= NBlocks
           /\ InBlock(p) => cur[p] \in Mined
<1>1. /\ pc \in [Peers -> Labels] /\ cur \in [Peers -> Hashes]
      /\ headers \in Seq(Chain) /\ announced \in [Peers -> Chain]
      /\ asked \in [Peers -> Seq(Mined)]
      /\ header_heights \in [Hashes -> NoHeight .. Len(headers)]
      /\ InBlock(p) => cur[p] \in Mined
  BY DEF TypeInv, TypeOK, LocalsOK
<1>2. cur[p] \in Nat /\ asked[p] \in Seq(Mined) /\ announced[p] \in Nat /\ announced[p] <= NBlocks
  <2>1. cur[p] \in Hashes /\ asked[p] \in Seq(Mined) /\ announced[p] \in Chain
    BY <1>1
  <2>2. cur[p] \in Nat
    BY <2>1, ChainFacts
  <2>3. announced[p] \in Nat /\ announced[p] <= NBlocks
    BY <2>1, ChainAssumption DEF Chain
  <2> QED
    BY <2>1, <2>2, <2>3
<1>3. Height \in Nat /\ Height > 0 /\ DOMAIN headers = 1 .. Height
  BY <1>1 DEF ChainInv, HeadersExact, Height
<1>4. headers[Height] = Height - 1 /\ headers[Height] \in Chain
  <2>1. Height \in DOMAIN headers
    BY <1>3
  <2> QED
    BY <1>1, <2>1 DEF ChainInv, HeadersExact
<1>5. Height <= NBlocks + 1
  BY <1>3, <1>4, ChainFacts DEF Chain
<1> QED
  BY <1>1, <1>2, <1>3, <1>5

\* A message that arrives.
LEMMA OneBegins ==
    ASSUME TypeInv, NEW p \in Peers, ChainInv(p), Begins(p)
    PROVE  ChainInv(p)'
<1>1. /\ pc \in [Peers -> Labels] /\ cur \in [Peers -> Hashes]
      /\ announced \in [Peers -> Chain] /\ asked \in [Peers -> Seq(Mined)]
      /\ asked[p] \in Seq(Mined) /\ announced[p] \in Nat /\ Height \in Nat
      /\ Height <= NBlocks + 1
  BY OneTypes
<1>2. /\ headers' = headers /\ header_heights' = header_heights /\ utxo_set' = utxo_set
      /\ Height' = Height /\ pc[p] = "idle"
      /\ pc'[p] \in {"headers_check", "headers_len", "getheaders_stop",
                     "getheaders_slice", "block_check", "ended"}
  BY BeginsKeeps DEF chainVars, coinVars, Height
<1>3. HeightsExact(p)' /\ CoinsExact(p)'
  BY <1>2 DEF ChainInv, HeightsExact, CoinsExact
<1>4. ~Answered(p) /\ ~Including(p) /\ ~Including(p)' /\ Checked(p) = announced[p]
      /\ NextBlock(p) = Height
  BY <1>2 DEF Answered, Including, Checked, NextBlock
<1>5. CASE ReceiveHeaders(p)
  <2>1. /\ pc'[p] = "headers_check" /\ cur'[p] = announced[p] + 1
        /\ announced'[p] = announced[p] + 1 /\ asked'[p] = asked[p]
    BY <1>1, <1>5 DEF ReceiveHeaders, Goto
  <2>2. Checked(p)' = Checked(p) /\ ~Answered(p)' /\ NextBlock(p)' = NextBlock(p)
    BY <1>1, <1>2, <1>4, <2>1 DEF Checked, Answered, NextBlock
  <2>3. AskedExact(p)'
    BY <2>1, <2>2 DEF ChainInv, AskedExact
  <2>4. HeadersExact(p)'
    BY <1>2, <1>4, <2>1, <2>2 DEF ChainInv, HeadersExact
  <2> QED
    BY <1>3, <2>3, <2>4 DEF ChainInv
<1>6. CASE ReceiveBlock(p)
  <2>1. /\ pc'[p] = "block_check" /\ cur'[p] = Head(asked[p]) /\ asked[p] # <<>>
        /\ announced'[p] = announced[p] /\ asked'[p] = Tail(asked[p])
    BY <1>1, <1>6 DEF ReceiveBlock, Goto
  <2>2. Checked(p)' = Checked(p) /\ Answered(p)' /\ NextBlock(p)' = Height + 1
    BY <1>2, <1>4, <2>1 DEF Checked, Answered, NextBlock
  <2>3. /\ Head(asked[p]) = asked[p][1] /\ 1 \in DOMAIN asked[p] /\ Len(asked[p]) \in Nat
        /\ Len(asked'[p]) = Len(asked[p]) - 1
        /\ DOMAIN asked[p] = 1 .. Len(asked[p])
        /\ DOMAIN asked'[p] = 1 .. (Len(asked[p]) - 1)
        /\ \A i \in DOMAIN asked'[p] : asked'[p][i] = asked[p][i + 1] /\ i + 1 \in DOMAIN asked[p]
    BY <1>1, <2>1
  <2>4. cur'[p] = Height
    BY <1>1, <1>4, <2>1, <2>3 DEF ChainInv, AskedExact
  <2>5. AskedExact(p)'
    <3>1. ASSUME NEW i \in DOMAIN asked'[p] PROVE asked'[p][i] = Height + 1 + i - 1
      <4>1. i \in Nat /\ i + 1 \in DOMAIN asked[p] /\ asked'[p][i] = asked[p][i + 1]
        BY <2>3
      <4>2. asked[p][i + 1] = Height + (i + 1) - 1
        BY <1>4, <4>1 DEF ChainInv, AskedExact
      <4> QED
        BY <1>1, <4>1, <4>2
    <3>2. Checked(p) = Height + Len(asked[p]) - 1
      BY <1>4 DEF ChainInv, AskedExact
    <3> QED
      BY <1>1, <2>1, <2>2, <2>3, <3>1, <3>2 DEF AskedExact
  <2>6. HeadersExact(p)'
    BY <1>2, <1>4, <2>1, <2>4 DEF ChainInv, HeadersExact
  <2> QED
    BY <1>3, <2>5, <2>6 DEF ChainInv
<1>7. CASE ReceiveBadHeaders(p) \/ GetHeaders(p) \/ PeerGone(p)
  <2>1. /\ announced' = announced /\ asked' = asked
        /\ \/ pc'[p] = "headers_len" /\ cur'[p] = Bad
           \/ pc'[p] \in {"getheaders_stop", "getheaders_slice", "ended"}
    BY <1>1, <1>7 DEF ReceiveBadHeaders, GetHeaders, ReceiveGetHeaders, ReceiveGetHeadersStop,
                      PeerGone, Goto, allChainVars, peerVars
  <2>2. Checked(p)' = Checked(p) /\ ~Answered(p)' /\ NextBlock(p)' = NextBlock(p)
    BY <1>2, <1>4, <2>1 DEF Checked, Answered, NextBlock
  <2>3. AskedExact(p)'
    BY <2>1, <2>2 DEF ChainInv, AskedExact
  <2>4. Bad >= Height
    BY <1>1, ChainFacts DEF Bad
  <2>5. HeadersExact(p)'
    BY <1>2, <1>4, <2>1, <2>2, <2>4 DEF ChainInv, HeadersExact
  <2> QED
    BY <1>3, <2>3, <2>5 DEF ChainInv
<1> QED
  BY <1>5, <1>6, <1>7 DEF Begins

\* Handling announced headers.
LEMMA OneHeaders ==
    ASSUME TypeInv, NEW p \in Peers, ChainInv(p),
           HeadersCheck(p) \/ HeadersLen(p) \/ HeadersHeight(p)
    PROVE  ChainInv(p)'
<1>1. /\ pc \in [Peers -> Labels] /\ cur \in [Peers -> Hashes] /\ cur[p] \in Nat
      /\ asked \in [Peers -> Seq(Mined)] /\ asked[p] \in Seq(Mined)
      /\ header_heights \in [Hashes -> NoHeight .. Len(headers)]
      /\ announced[p] \in Nat /\ Height \in Nat /\ DOMAIN headers = 1 .. Height
  BY OneTypes
<1>2. /\ headers' = headers /\ utxo_set' = utxo_set /\ announced' = announced
      /\ Height' = Height
      /\ pc[p] \in {"headers_check", "headers_len", "headers_height"}
      /\ pc'[p] \in {"headers_len", "headers_height", "idle"}
  BY <1>1 DEF HeadersCheck, HeadersLen, HeadersHeight, Goto, Return, chainVars, coinVars,
              peerVars, Height
<1>3. /\ ~Answered(p) /\ ~Including(p) /\ ~Answered(p)' /\ ~Including(p)'
      /\ NextBlock(p) = Height /\ NextBlock(p)' = Height /\ Checked(p)' = announced[p]
  BY <1>2 DEF Answered, Including, NextBlock, Checked
<1>4. CoinsExact(p)'
  BY <1>2 DEF ChainInv, CoinsExact
<1>5. CASE HeadersCheck(p)
  <2>1. /\ cur' = cur /\ header_heights' = header_heights
        /\ pc[p] = "headers_check" /\ cur[p] = announced[p]
    BY <1>5 DEF HeadersCheck, localVars, chainVars, ChainInv, AskedExact
  <2>2. Len(asked[p]) \in Nat /\ announced[p] = Height + Len(asked[p])
    <3>1. announced[p] - 1 = Height + Len(asked[p]) - 1
      BY <1>3, <2>1 DEF ChainInv, AskedExact, Checked
    <3>2. PICK n \in Nat : n = Len(asked[p])
      BY <1>1
    <3>3. PICK a \in Nat : a = announced[p]
      BY <1>1
    <3>4. PICK h \in Nat : h = Height
      BY <1>1
    <3>5. a - 1 = h + n - 1
      BY <3>1, <3>2, <3>3, <3>4
    <3>6. a = h + n
      BY <3>5
    <3> QED
      BY <3>2, <3>3, <3>4, <3>6
  <2>3. header_is_not_included(cur[p])
    <3>1. \A i \in DOMAIN headers : headers[i] = i - 1 /\ i - 1 < Height
      BY <1>1 DEF ChainInv, HeadersExact
    <3>2. cur[p] \in Nat /\ cur[p] >= Height
      BY <1>1, <2>1, <2>2
    <3>3. \A i \in DOMAIN headers : headers[i] # cur[p]
      BY <1>1, <3>1, <3>2
    <3> QED
      BY <3>3 DEF header_is_not_included
  <2>4. asked'[p] = Append(asked[p], cur[p])
    BY <1>1, <1>5, <2>3 DEF HeadersCheck
  <2>5. /\ Len(asked'[p]) = Len(asked[p]) + 1
        /\ DOMAIN asked'[p] = 1 .. (Len(asked[p]) + 1)
        /\ DOMAIN asked[p] = 1 .. Len(asked[p])
        /\ asked'[p][Len(asked[p]) + 1] = cur[p]
        /\ \A i \in DOMAIN asked[p] : asked'[p][i] = asked[p][i]
    BY <1>1, <2>4
  <2>6. \A i \in DOMAIN asked'[p] : asked'[p][i] = Height + i - 1
    <3> SUFFICES ASSUME NEW i \in DOMAIN asked'[p] PROVE asked'[p][i] = Height + i - 1
      OBVIOUS
    <3>1. CASE i = Len(asked[p]) + 1
      BY <1>1, <2>1, <2>2, <2>5, <3>1
    <3>2. CASE i \in DOMAIN asked[p]
      BY <1>3, <2>5, <3>2 DEF ChainInv, AskedExact
    <3> QED
      BY <2>2, <2>5, <3>1, <3>2
  <2>7. AskedExact(p)'
    BY <1>1, <1>2, <1>3, <2>2, <2>5, <2>6 DEF AskedExact
  <2>8. HeadersExact(p)'
    BY <1>1, <1>2, <1>3, <2>1, <2>2 DEF ChainInv, HeadersExact
  <2>9. HeightsExact(p)'
    BY <1>2, <2>1 DEF ChainInv, HeightsExact
  <2> QED
    BY <1>4, <2>7, <2>8, <2>9 DEF ChainInv
<1>6. CASE HeadersLen(p)
  <2>1. /\ cur' = cur /\ header_heights' = header_heights /\ asked' = asked
        /\ pc[p] = "headers_len" /\ pc'[p] = "headers_height"
    BY <1>1, <1>6 DEF HeadersLen, chainVars, peerVars, Goto
  <2>2. HeadersExact(p)' /\ HeightsExact(p)'
    BY <1>2, <1>3, <2>1 DEF ChainInv, HeadersExact, HeightsExact
  <2>3. AskedExact(p)'
    BY <1>2, <1>3, <2>1 DEF ChainInv, AskedExact, Checked
  <2> QED
    BY <1>4, <2>2, <2>3 DEF ChainInv
<1>7. CASE HeadersHeight(p)
  <2>1. /\ header_heights' = [header_heights EXCEPT ![cur[p]] = first[p]] /\ asked' = asked
        /\ pc[p] = "headers_height" /\ pc'[p] = "idle" /\ cur[p] >= Height
    BY <1>1, <1>7 DEF HeadersHeight, peerVars, Return, Goto, ChainInv, HeadersExact
  <2>2. HeightsExact(p)'
    <3>1. ASSUME NEW h \in 0 .. (Height - 1) PROVE header_heights'[h] = h
      <4>1. h # cur[p] /\ header_heights[h] = h
        BY <1>1, <2>1 DEF ChainInv, HeightsExact
      <4> QED
        BY <1>1, <2>1, <4>1
    <3> QED
      BY <1>2, <3>1 DEF HeightsExact
  <2>3. HeadersExact(p)'
    BY <1>2, <1>3, <2>1 DEF ChainInv, HeadersExact
  <2>4. AskedExact(p)'
    BY <1>2, <1>3, <2>1 DEF ChainInv, AskedExact, Checked
  <2> QED
    BY <1>4, <2>2, <2>3, <2>4 DEF ChainInv
<1> QED
  BY <1>5, <1>6, <1>7

\* Handling a block message up to its header.
LEMMA OneBlockHeader ==
    ASSUME TypeInv, NEW p \in Peers, ChainInv(p), BlockCheck(p) \/ BlockPush(p)
    PROVE  ChainInv(p)'
<1>1. /\ pc \in [Peers -> Labels] /\ headers \in Seq(Chain)
      /\ Height \in Nat /\ Height > 0 /\ DOMAIN headers = 1 .. Height
  BY OneTypes
<1>2. /\ pc[p] \in {"block_check", "block_push"} /\ Answered(p) /\ cur[p] = Height
      /\ NextBlock(p) = Height + 1 /\ Checked(p) = announced[p]
  BY DEF BlockCheck, BlockPush, Answered, NextBlock, Checked, ChainInv, HeadersExact
<1>3. CASE BlockCheck(p)
  <2>1. header_is_not_included(cur[p])
    <3>1. \A i \in DOMAIN headers : headers[i] = i - 1 /\ i - 1 < Height
      BY <1>1 DEF ChainInv, HeadersExact
    <3> QED
      BY <1>1, <1>2, <3>1 DEF header_is_not_included
  <2>2. /\ UNCHANGED <<headers, header_heights, utxo_set, cur, asked, announced>>
        /\ pc'[p] = "block_push" /\ Height' = Height
    BY <1>1, <1>3, <2>1 DEF BlockCheck, Goto, chainVars, coinVars, peerVars, localVars, Height
  <2>3. Answered(p)' /\ ~Including(p)' /\ NextBlock(p)' = NextBlock(p) /\ Checked(p)' = Checked(p)
    BY <1>2, <2>2 DEF Answered, Including, NextBlock, Checked
  <2>4. HeadersExact(p)'
    BY <1>2, <2>2, <2>3 DEF ChainInv, HeadersExact
  <2>5. AskedExact(p)'
    BY <2>2, <2>3 DEF ChainInv, AskedExact
  <2>6. HeightsExact(p)' /\ CoinsExact(p)'
    BY <1>2, <2>2 DEF ChainInv, HeightsExact, CoinsExact
  <2> QED
    BY <2>4, <2>5, <2>6 DEF ChainInv
<1>4. CASE BlockPush(p)
  <2>1. /\ UNCHANGED <<header_heights, utxo_set, cur, asked, announced>>
        /\ headers' = Append(headers, Height) /\ pc'[p] = "block_height"
    BY <1>1, <1>2, <1>4 DEF BlockPush, Goto, coinVars, peerVars, localVars
  <2>2. /\ Height' = Height + 1 /\ DOMAIN headers' = 1 .. (Height + 1)
        /\ headers'[Height + 1] = Height
        /\ \A i \in DOMAIN headers : headers'[i] = headers[i]
    BY <1>1, <2>1 DEF Height
  <2>3. ~Answered(p)' /\ Including(p)' /\ NextBlock(p)' = NextBlock(p) /\ Checked(p)' = Checked(p)
    BY <1>2, <2>1, <2>2 DEF Answered, Including, NextBlock, Checked
  <2>4. \A i \in DOMAIN headers' : headers'[i] = i - 1
    <3> SUFFICES ASSUME NEW i \in DOMAIN headers' PROVE headers'[i] = i - 1
      OBVIOUS
    <3>1. CASE i = Height + 1
      BY <1>1, <2>2, <3>1
    <3>2. CASE i \in DOMAIN headers
      BY <2>2, <3>2 DEF ChainInv, HeadersExact
    <3> QED
      BY <1>1, <2>2, <3>1, <3>2
  <2>5. HeadersExact(p)'
    BY <1>1, <1>2, <2>1, <2>2, <2>3, <2>4 DEF HeadersExact
  <2>6. AskedExact(p)'
    BY <2>1, <2>3 DEF ChainInv, AskedExact
  <2>7. HeightsExact(p)'
    <3>1. ASSUME NEW h \in 0 .. Height PROVE header_heights[h] = h \/ h = Height
      BY <1>1, <1>2, <3>1 DEF ChainInv, HeightsExact
    <3> QED
      BY <1>1, <2>1, <2>2, <3>1 DEF HeightsExact
  <2>8. CoinsExact(p)'
    <3>1. utxo_set = UnspentBelow(Height)
      BY <1>2 DEF ChainInv, CoinsExact
    <3>2. Height' - 1 = Height
      BY <1>1, <2>2
    <3>3. UnspentBelow(Height' - 1) = UnspentBelow(Height)
      BY <3>2
    <3> QED
      BY <2>1, <3>1, <3>3 DEF CoinsExact, UnspentBelow
  <2> QED
    BY <2>5, <2>6, <2>7, <2>8 DEF ChainInv
<1> QED
  BY <1>3, <1>4

\* Handling a block message from its height on.
LEMMA OneBlockApplied ==
    ASSUME TypeInv, NEW p \in Peers, ChainInv(p),
           BlockHeight(p) \/ BlockSpend(p) \/ BlockCoin(p) \/ BlockAccounts(p) \/ BlockStore(p)
    PROVE  ChainInv(p)'
<1>1. /\ pc \in [Peers -> Labels] /\ Height \in Nat /\ Height > 0
      /\ header_heights \in [Hashes -> NoHeight .. Len(headers)] /\ cur[p] \in Hashes
  BY OneTypes
<1>2. /\ Including(p) /\ ~Answered(p) /\ cur[p] = Height - 1 /\ cur[p] \in Mined
      /\ NextBlock(p) = Height /\ Checked(p) = announced[p]
  <2>1. /\ pc[p] \in {"block_height", "block_spend", "block_coin", "block_accounts", "tx_find"}
    BY DEF BlockHeight, BlockSpend, BlockCoin, BlockAccounts, BlockStore
  <2> QED
    BY <2>1, OneTypes DEF Including, InBlock, Answered, NextBlock, Checked, ChainInv, HeadersExact
<1>3. /\ UNCHANGED <<headers, asked, announced>> /\ Height' = Height
      /\ \/ pc'[p] = "idle"
         \/ /\ cur' = cur
            /\ pc'[p] \in {"block_spend", "block_coin", "block_accounts", "tx_find"}
  BY <1>1 DEF BlockHeight, BlockSpend, BlockCoin, BlockAccounts, BlockStore, Goto, Return,
              chainVars, peerVars, localVars, Height
<1>4. ~Answered(p)' /\ NextBlock(p)' = NextBlock(p) /\ Checked(p)' = Checked(p)
  BY <1>2, <1>3 DEF Answered, NextBlock, Checked
<1>5. HeadersExact(p)'
  BY <1>2, <1>3, <1>4 DEF ChainInv, HeadersExact, Including
<1>6. AskedExact(p)'
  BY <1>2, <1>3, <1>4 DEF ChainInv, AskedExact
<1>7. HeightsExact(p)'
  <2>1. CASE BlockHeight(p)
    <3>1. header_heights' = [header_heights EXCEPT ![cur[p]] = Height - 1]
      BY <2>1 DEF BlockHeight, Height
    <3>2. ASSUME NEW h \in 0 .. (Height - 1) PROVE header_heights'[h] = h
      <4>1. CASE h = cur[p]
        BY <1>1, <1>2, <3>1, <4>1
      <4>2. CASE h # cur[p]
        BY <1>1, <1>2, <3>1, <4>2 DEF ChainInv, HeightsExact
      <4> QED
        BY <4>1, <4>2
    <3> QED
      BY <1>3, <3>2 DEF HeightsExact
  <2>2. CASE ~BlockHeight(p)
    <3>1. header_heights' = header_heights /\ pc[p] # "block_height"
      BY <2>2 DEF BlockSpend, BlockCoin, BlockAccounts, BlockStore, chainVars
    <3> QED
      BY <1>3, <3>1 DEF ChainInv, HeightsExact
  <2> QED
    BY <2>1, <2>2
<1>8. CoinsExact(p)'
  <2> DEFINE H == Height
  <2>1. UnspentBelow(Height)' = UnspentBelow(H) /\ UnspentBelow(Height - 1)' = UnspentBelow(H - 1)
        /\ Spends[Height - 1]' = Spends[H - 1]
    BY <1>3 DEF UnspentBelow
  <2> HIDE DEF H
  <2>2. CASE BlockHeight(p)
    BY <1>1, <1>3, <2>1, <2>2 DEF BlockHeight, Goto, coinVars, ChainInv, CoinsExact, H
  <2>3. CASE BlockSpend(p)
    BY <1>1, <1>2, <1>3, <2>1, <2>3 DEF BlockSpend, Goto, ChainInv, CoinsExact, H
  <2>4. CASE BlockCoin(p)
    <3>1. UnspentBelow(H) = (UnspentBelow(H - 1) \ Spends[H - 1]) \cup {H - 1}
      <4>1. H - 1 \in Mined /\ (H - 1) + 1 = H
        BY <1>1, <1>2 DEF H
      <4> QED
        BY <4>1, UnspentNext
    <3>2. utxo_set' = utxo_set \cup {H - 1} /\ utxo_set = UnspentBelow(H - 1) \ Spends[H - 1]
      BY <1>2, <2>4 DEF BlockCoin, ChainInv, CoinsExact, H
    <3>3. utxo_set' = UnspentBelow(H) /\ pc'[p] = "block_accounts"
      BY <1>1, <2>4, <3>1, <3>2 DEF BlockCoin, Goto
    <3> QED
      BY <2>1, <3>3 DEF CoinsExact
  <2>5. CASE BlockAccounts(p) \/ BlockStore(p)
    <3>1. utxo_set' = utxo_set /\ pc[p] \in {"block_accounts", "tx_find"} /\ pc'[p] \in {"tx_find", "idle"}
      BY <1>1, <2>5 DEF BlockAccounts, BlockStore, Return, Goto, coinVars
    <3> QED
      BY <2>1, <3>1 DEF ChainInv, CoinsExact, H
  <2> QED
    BY <2>2, <2>3, <2>4, <2>5
<1> QED
  BY <1>5, <1>6, <1>7, <1>8 DEF ChainInv

\* Answering a getheaders message, and work on transactions.
LEMMA OneElsewhere ==
    ASSUME TypeInv, NEW p \in Peers, ChainInv(p),
           \/ GetHeadersStop(p) \/ GetHeadersSlice(p) \/ GetHeadersSliceStop(p)
           \/ TxWork(p) /\ ~poisoned'
    PROVE  ChainInv(p)'
<1>1. pc \in [Peers -> Labels]
  BY OneTypes
<1> DEFINE Quiet == {"getheaders_stop", "getheaders_slice", "getheaders_slice_stop", "idle",
                     "panicked", "ended", "inv_push", "tx_push"}
           Txing == {"tx_find", "tx_remove", "tx_confirm"}
<1>2. /\ UNCHANGED <<headers, header_heights, utxo_set, asked, announced>> /\ Height' = Height
      /\ \/ pc[p] \in Quiet /\ pc'[p] \in Quiet
         \/ pc[p] \in Txing /\ pc'[p] \in Txing /\ cur' = cur
  <2>1. CASE GetHeadersStop(p) \/ GetHeadersSlice(p) \/ GetHeadersSliceStop(p)
    BY <1>1, <2>1 DEF GetHeadersStop, GetHeadersSlice, GetHeadersSliceStop, Return, Goto,
                      chainVars, coinVars, peerVars, Height
  <2>2. CASE TxWork(p) /\ ~poisoned'
    BY <2>2, TxWorkKeeps DEF allChainVars, chainVars, coinVars, peerVars, localVars, Height
  <2> QED
    BY <2>1, <2>2
<1>3. /\ ~Answered(p) /\ ~Answered(p)' /\ (Including(p)' => Including(p) /\ cur' = cur)
      /\ NextBlock(p)' = NextBlock(p) /\ Checked(p)' = Checked(p)
  BY <1>2 DEF Answered, Including, NextBlock, Checked
<1>4. HeadersExact(p)'
  BY <1>2, <1>3 DEF ChainInv, HeadersExact
<1>5. AskedExact(p)'
  BY <1>2, <1>3 DEF ChainInv, AskedExact
<1>6. HeightsExact(p)' /\ CoinsExact(p)'
  BY <1>2 DEF ChainInv, HeightsExact, CoinsExact, UnspentBelow
<1> QED
  BY <1>4, <1>5, <1>6 DEF ChainInv

--------------------------------------------------------------------------------
\* contains_pending_tx finds, removes and confirms the same transaction: no
\* other thread changes the pending ones between its locks.
LEMMA OnePending ==
    ASSUME TypeInv, NEW p \in Peers, ChainInv(p), PendingExact(p), ConfirmedInBlock,
           Begins(p) \/ ChainStep(p) \/ TxWork(p)
    PROVE  PendingExact(p)' /\ ConfirmedInBlock'
<1>1. /\ pc \in [Peers -> Labels] /\ headers \in Seq(Chain)
      /\ Including(p) => cur[p] \in Range(headers) \ {0}
      /\ confirmed \in Seq(Txs) /\ todo \in [Peers -> Seq(Txs)] /\ todo[p] \in Seq(Txs)
      /\ pending \in Seq(Txs) /\ idx \in [Peers -> Nat] /\ tx \in [Peers -> Txs \cup {NoTx}]
      /\ pc[p] = "tx_confirm" \/ pc[p] = "tx_remove" => todo[p] # <<>>
      /\ pc[p] = "tx_remove" => idx[p] \in Nat \ {0}
  <2>1. pc \in [Peers -> Labels] /\ headers \in Seq(Chain)
    BY OneTypes
  <2>2. Including(p) => cur[p] \in Range(headers) \ {0}
    <3> SUFFICES ASSUME Including(p) PROVE cur[p] \in Range(headers) \ {0}
      OBVIOUS
    <3>1. cur[p] = Height - 1 /\ cur[p] \in Mined /\ Height \in DOMAIN headers
          /\ headers[Height] = Height - 1
      BY OneTypes DEF ChainInv, HeadersExact, InBlock
    <3> QED
      BY <3>1 DEF Range, Mined
  <2> QED
    BY <2>1, <2>2 DEF TypeInv, TypeOK, TxTypeOK, LocalsOK
\* A step that confirms nothing.
<1>2. ASSUME confirmed' = confirmed, Range(headers) \subseteq Range(headers')
      PROVE  ConfirmedInBlock'
  BY <1>2 DEF ConfirmedInBlock
<1> DEFINE Txing == {"tx_find", "tx_remove", "tx_confirm"}
<1>3. CASE Begins(p)
  BY <1>2, <1>3, BeginsKeeps DEF PendingExact, txVars, accountVars, chainVars
<1>4. CASE ChainStep(p)
  <2>1. /\ confirmed' = confirmed /\ poisoned' = poisoned
        /\ headers' = headers \/ headers' = Append(headers, cur[p])
        /\ \/ pc'[p] \notin Txing
           \/ pc'[p] = "tx_find" /\ todo'[p] = BlockTxs[cur[p]] /\ cur' = cur
    BY <1>1, <1>4
       DEF ChainStep, HeadersCheck, HeadersLen, HeadersHeight, BlockCheck, BlockPush,
           BlockHeight, BlockSpend, BlockCoin, BlockAccounts, BlockStore, GetHeadersStop,
           GetHeadersSlice, GetHeadersSliceStop, Return, Goto, chainVars, localVars,
           txVars, accountVars
  <2>2. Range(headers) \subseteq Range(headers')
    <3>1. Range(Append(headers, cur[p])) = Range(headers) \cup {cur[p]}
      BY <1>1, AppendRange
    <3> QED
      BY <2>1, <3>1
  <2>3. PendingExact(p)'
    BY <2>1 DEF PendingExact
  <2> QED
    BY <1>2, <2>1, <2>2, <2>3
<1>5. CASE TxWork(p)
  <2>1. headers' = headers /\ cur' = cur
    BY <1>5 DEF TxWork, allChainVars, chainVars, localVars
  <2>2. ASSUME NEW t \in Txs, InvCheck(p, t) \/ TxCheck(p, t)
        PROVE  PendingExact(p)' /\ ConfirmedInBlock'
    <3>1. confirmed' = confirmed /\ poisoned' = poisoned /\ pc'[p] \notin Txing
      BY <1>1, <2>2 DEF InvCheck, TxCheck, Goto, accountVars
    <3> QED
      BY <1>2, <2>1, <3>1 DEF PendingExact
  <2>3. CASE InvPush(p) \/ TxPush(p)
    <3>1. confirmed' = confirmed /\ poisoned' = poisoned /\ pc'[p] \notin Txing
      BY <1>1, <2>3 DEF InvPush, TxPush, Goto, accountVars
    <3> QED
      BY <1>2, <2>1, <3>1 DEF PendingExact
  <2>4. CASE TxFind(p)
    <3>1. /\ confirmed' = confirmed /\ poisoned' = poisoned /\ pending' = pending
          /\ pc[p] = "tx_find" /\ todo[p] # <<>>
          /\ \/ /\ pc'[p] = "tx_remove" /\ todo' = todo /\ Contains(pending, Head(todo[p]))
                /\ idx'[p] = position(Head(todo[p]))
             \/ /\ pc'[p] = "tx_find" /\ todo'[p] = Tail(todo[p])
      BY <1>1, <2>4 DEF TxFind, Goto, accountVars, PendingExact
    <3>2. Range(todo'[p]) \subseteq Range(todo[p])
      BY <1>1, <3>1, TailRange
    <3>3. pc'[p] = "tx_remove" => idx'[p] <= Len(pending) /\ pending[idx'[p]] = Head(todo[p])
      BY <1>1, <3>1, PositionFound
    <3> QED
      BY <1>2, <2>1, <3>1, <3>2, <3>3 DEF PendingExact
  <2>5. CASE TxRemove(p)
    <3>1. ~poisoned /\ ~(idx[p] > Len(pending)) /\ pc[p] = "tx_remove"
          /\ pending[idx[p]] = Head(todo[p])
      BY <1>1, <2>5 DEF TxRemove, PendingExact
    <3>2. /\ confirmed' = confirmed /\ poisoned' = poisoned /\ todo' = todo
          /\ pc'[p] = "tx_confirm" /\ tx'[p] = Head(todo[p])
      BY <1>1, <2>5, <3>1 DEF TxRemove, Goto
    <3> QED
      BY <1>2, <2>1, <3>1, <3>2 DEF PendingExact
  <2>6. CASE TxConfirm(p)
    <3>1. /\ confirmed' = Append(confirmed, tx[p]) /\ poisoned' = poisoned
          /\ todo'[p] = Tail(todo[p]) /\ pc'[p] = "tx_find"
          /\ pc[p] = "tx_confirm" /\ todo[p] # <<>>
          /\ tx[p] = Head(todo[p])
      BY <1>1, <2>6 DEF TxConfirm, Goto, PendingExact
    <3>2. /\ Range(todo'[p]) \subseteq Range(todo[p]) /\ Head(todo[p]) \in Range(todo[p])
          /\ Range(todo[p]) \subseteq Range(BlockTxs[cur[p]])
      BY <1>1, <3>1, TailRange DEF PendingExact
    <3>3. PendingExact(p)'
      BY <2>1, <3>1, <3>2 DEF PendingExact
    <3>4. cur[p] \in Range(headers) \ {0} /\ cur[p] \in Mined
      BY <1>1, <3>1, OneTypes DEF Including, InBlock
    <3>5. Contains(BlockTxs[cur[p]], tx[p])
      <4>1. BlockTxs[cur[p]] \in Seq(Txs)
        BY <3>4, ChainAssumption
      <4>2. DOMAIN BlockTxs[cur[p]] = 1 .. Len(BlockTxs[cur[p]])
        BY <4>1
      <4>3. tx[p] \in Range(BlockTxs[cur[p]])
        BY <3>1, <3>2
      <4> QED
        BY <4>2, <4>3 DEF Contains, Range
    <3>6. /\ DOMAIN confirmed' = 1 .. (Len(confirmed) + 1) /\ Len(confirmed) \in Nat
          /\ DOMAIN confirmed = 1 .. Len(confirmed)
          /\ confirmed'[Len(confirmed) + 1] = tx[p]
          /\ \A i \in DOMAIN confirmed : confirmed'[i] = confirmed[i]
      BY <1>1, <3>1
    <3>7. ASSUME NEW i \in DOMAIN confirmed'
          PROVE  \E b \in Range(headers) \ {0} : Contains(BlockTxs[b], confirmed'[i])
      <4>1. CASE i \in DOMAIN confirmed
        BY <3>6, <4>1 DEF ConfirmedInBlock
      <4>2. CASE i = Len(confirmed) + 1
        BY <3>4, <3>5, <3>6, <4>2
      <4> QED
        BY <3>6, <4>1, <4>2
    <3>8. ConfirmedInBlock'
      BY <2>1, <3>7 DEF ConfirmedInBlock
    <3> QED
      BY <3>3, <3>8
  <2> QED
    BY <1>5, <2>2, <2>3, <2>4, <2>5, <2>6 DEF TxWork, TxMessage, TxStep
<1> QED
  BY <1>3, <1>4, <1>5

LEMMA OneStep ==
    OneConnection => (TypeInv /\ OneInv /\ [Next]_vars => OneInv')
<1> SUFFICES ASSUME OneConnection, TypeInv, OneInv, [Next]_vars PROVE OneInv'
  OBVIOUS
<1>1. PICK p : Peers = {p}
  BY DEF OneConnection
<1>2. p \in Peers /\ ChainInv(p) /\ PendingExact(p) /\ ConfirmedInBlock
  BY <1>1 DEF OneInv
<1>3. CASE Next
  <2>1. Begins(p) \/ ChainStep(p) \/ TxWork(p)
    BY <1>1, <1>3, NextCases
  <2>2. PendingExact(p)' /\ ConfirmedInBlock'
    BY <1>2, <2>1, OnePending
  <2>3. ~poisoned'
    BY <2>2 DEF PendingExact
  <2>4. ChainInv(p)'
    BY <1>2, <2>1, <2>3, OneBegins, OneHeaders, OneBlockHeader, OneBlockApplied, OneElsewhere
       DEF ChainStep
  <2> QED
    BY <1>1, <2>2, <2>4 DEF OneInv
<1>4. CASE UNCHANGED vars
  BY <1>4 DEF OneInv, ChainInv, PendingExact, ConfirmedInBlock, HeadersExact, AskedExact,
              HeightsExact, CoinsExact, NextBlock, UnspentBelow, Checked, Answered, Including,
              Height, vars, txVars, askVars, accountVars, allChainVars, chainVars, coinVars,
              peerVars, localVars
<1> QED
  BY <1>3, <1>4

LEMMA OneInit == Init => OneInv
<1> SUFFICES ASSUME Init PROVE OneInv
  OBVIOUS
<1>1. /\ headers = <<0>> /\ Height = 1 /\ DOMAIN headers = {1} /\ headers[1] = 0
      /\ header_heights[0] = 0 /\ utxo_set = {0} /\ confirmed = <<>> /\ ~poisoned
  BY ChainFacts DEF Init, ChainInit, TxInit, Height
<1>2. ASSUME NEW p \in Peers
      PROVE  /\ pc[p] = "idle" /\ announced[p] = 0 /\ asked[p] = <<>>
             /\ ~Answered(p) /\ ~Including(p) /\ Checked(p) = 0 /\ NextBlock(p) = 1
  BY <1>1 DEF Init, ChainInit, Answered, Including, Checked, NextBlock
<1>3. UnspentBelow(1) = {0}
  BY DEF UnspentBelow
<1>4. ASSUME NEW p \in Peers PROVE ChainInv(p)
  <2>1. HeadersExact(p)
    BY <1>1, <1>2 DEF HeadersExact
  <2>2. AskedExact(p)
    BY <1>2 DEF AskedExact
  <2>3. HeightsExact(p)
    BY <1>1 DEF HeightsExact
  <2>4. CoinsExact(p)
    BY <1>1, <1>2, <1>3 DEF CoinsExact
  <2> QED
    BY <2>1, <2>2, <2>3, <2>4 DEF ChainInv
<1>5. ASSUME NEW p \in Peers PROVE PendingExact(p)
  BY <1>1, <1>2 DEF PendingExact
<1>6. ConfirmedInBlock
  BY <1>1 DEF ConfirmedInBlock
<1> QED
  BY <1>4, <1>5, <1>6 DEF OneInv

--------------------------------------------------------------------------------
\* With one connection, header_heights holds the index of every header and the
\* utxo set the coins of the chain that no block spends, whenever no block is
\* being handled.
THEOREM OneConnectionExact == OneConnection => (Spec => []ChainStateExact)
<1> SUFFICES ASSUME OneConnection PROVE Spec => []ChainStateExact
  OBVIOUS
<1>1. TypeInv /\ OneInv => ChainStateExact
  <2> SUFFICES ASSUME TypeInv, OneInv, AtRest
               PROVE  /\ \A i \in DOMAIN headers : header_heights[headers[i]] = i - 1
                      /\ utxo_set = {c \in Range(headers) :
                                       \A b \in Range(headers) \ {0} : c \notin Spends[b]}
    BY DEF ChainStateExact
  <2>1. PICK p \in Peers : ChainInv(p) /\ ~Including(p)
    BY DEF OneConnection, OneInv, AtRest
  <2>2. /\ Height \in Nat /\ Height > 0 /\ DOMAIN headers = 1 .. Height
        /\ \A i \in DOMAIN headers : headers[i] = i - 1
    BY <2>1, OneTypes DEF ChainInv, HeadersExact
  <2>3. \A h \in 0 .. (Height - 1) : header_heights[h] = h
    BY <2>1 DEF ChainInv, HeightsExact, Including
  <2>4. \A i \in DOMAIN headers : header_heights[headers[i]] = i - 1
    BY <2>2, <2>3
  <2>5. Range(headers) = 0 .. (Height - 1)
    <3>1. \A h \in 0 .. (Height - 1) : h + 1 \in DOMAIN headers /\ headers[h + 1] = h
      BY <2>2
    <3>2. \A i \in DOMAIN headers : headers[i] \in 0 .. (Height - 1)
      BY <2>2
    <3> QED
      BY <3>1, <3>2 DEF Range
  <2>6. (0 .. (Height - 1)) \ {0} = 1 .. (Height - 1)
    BY <2>2
  <2>7. utxo_set = UnspentBelow(Height)
    BY <2>1 DEF ChainInv, CoinsExact, Including
  <2> QED
    BY <2>4, <2>5, <2>6, <2>7 DEF UnspentBelow
<1> QED
  BY <1>1, TypeInit, TypeStep, OneInit, OneStep, PTL DEF Spec

\* With one connection, contains_pending_tx confirms only transactions that
\* are in a block of the chain.
THEOREM OneConnectionConfirms == OneConnection => (Spec => []ConfirmedInBlock)
<1> SUFFICES ASSUME OneConnection PROVE Spec => []ConfirmedInBlock
  OBVIOUS
<1>1. OneInv => ConfirmedInBlock
  BY DEF OneInv
<1> QED
  BY <1>1, TypeInit, TypeStep, OneInit, OneStep, PTL DEF Spec

\* With one connection, Vec::remove in contains_pending_tx is never behind the
\* end: no thread panics with the pending transactions locked.
THEOREM OneConnectionNeverPoisons == OneConnection => (Spec => []~poisoned)
<1> SUFFICES ASSUME OneConnection PROVE Spec => []~poisoned
  OBVIOUS
<1>1. OneInv => ~poisoned
  BY DEF OneInv, PendingExact, OneConnection
<1> QED
  BY <1>1, TypeInit, TypeStep, OneInit, OneStep, PTL DEF Spec
=============================================================================
