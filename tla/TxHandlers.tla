------------------------------ MODULE TxHandlers ------------------------------
(***************************************************************************)
(* The transactions of a wallet account as the peer threads handle them:   *)
(* handle_inv_message, handle_tx_message (handler/message_handlers.rs),    *)
(* TxOut::involves_user_account and Block::contains_pending_tx.  Each step *)
(* is what a thread does under one lock.                                   *)
(*                                                                         *)
(* Transactions are told apart by their hash and all of them pay the       *)
(* account: others change nothing.                                         *)
(***************************************************************************)
EXTENDS Integers, Sequences, SequencesExt

CONSTANTS
    Peers,                  \* the connections, one thread each
    Txs,                    \* the transactions that involve the account
    NoTx                    \* "no transaction"

ASSUME TxsAssumption == NoTx \notin Txs

VARIABLES
    pc,                     \* where each thread is
    transactions_received,  \* hashes asked for so far, by any thread
    invs,                   \* transactions each peer has announced
    txAsked,                \* transactions asked of each peer, not answered yet
    tx,                     \* the transaction each thread is at
    todo,                   \* transactions of the block it has still to look up
    idx,                    \* pending_transaction_index (from 1)
    pending,                \* pending_transactions of the account
    confirmed,              \* confirmed_transactions of the account
    poisoned                \* a thread panicked with pending_transactions locked

askVars == <<transactions_received, invs, txAsked>>
accountVars == <<pending, confirmed, poisoned>>
txVars == <<askVars, tx, todo, idx, accountVars>>

TxInit ==
    /\ transactions_received = {}
    /\ invs = [p \in Peers |-> {}]
    /\ txAsked = [p \in Peers |-> {}]
    /\ tx = [p \in Peers |-> NoTx]
    /\ todo = [p \in Peers |-> <<>>]
    /\ idx = [p \in Peers |-> 0]
    /\ pending = <<>>
    /\ confirmed = <<>>
    /\ poisoned = FALSE

Goto(p, l) == pc' = [pc EXCEPT ![p] = l]

\* Threads that hold the list of accounts for reading.
ReadsAccounts(p) == pc[p] \in {"tx_push", "tx_remove", "tx_confirm"}

(***************************************************************************)
(* handle_inv_message: a hash that is not in the list of those received is *)
(* added to it, under a second lock, and asked for.                        *)
(***************************************************************************)
InvCheck(p, t) ==
    /\ pc[p] = "idle"
    /\ t \notin invs[p]
    /\ invs' = [invs EXCEPT ![p] = @ \cup {t}]
    /\ IF t \in transactions_received
       THEN UNCHANGED <<pc, tx>>
       ELSE Goto(p, "inv_push") /\ tx' = [tx EXCEPT ![p] = t]
    /\ UNCHANGED <<transactions_received, txAsked, todo, idx, accountVars>>

InvPush(p) ==
    /\ pc[p] = "inv_push"
    /\ transactions_received' = transactions_received \cup {tx[p]}
    /\ txAsked' = [txAsked EXCEPT ![p] = @ \cup {tx[p]}]
    /\ tx' = [tx EXCEPT ![p] = NoTx]
    /\ Goto(p, "idle")
    /\ UNCHANGED <<invs, todo, idx, accountVars>>

(***************************************************************************)
(* handle_tx_message: a transaction that is not pending is added, under a  *)
(* second lock.  A poisoned lock is an error, which ends the thread.       *)
(***************************************************************************)
TxCheck(p, t) ==
    /\ pc[p] = "idle"
    /\ t \in txAsked[p]
    /\ txAsked' = [txAsked EXCEPT ![p] = @ \ {t}]
    /\ CASE poisoned -> Goto(p, "ended") /\ UNCHANGED tx
         [] ~poisoned /\ Contains(pending, t) -> UNCHANGED <<pc, tx>>
         [] OTHER -> Goto(p, "tx_push") /\ tx' = [tx EXCEPT ![p] = t]
    /\ UNCHANGED <<transactions_received, invs, todo, idx, accountVars>>

TxPush(p) ==
    /\ pc[p] = "tx_push"
    /\ IF poisoned
       THEN Goto(p, "ended") /\ UNCHANGED pending
       ELSE Goto(p, "idle") /\ pending' = Append(pending, tx[p])
    /\ tx' = [tx EXCEPT ![p] = NoTx]
    /\ UNCHANGED <<askVars, todo, idx, confirmed, poisoned>>

(***************************************************************************)
(* contains_pending_tx for the next transaction of the block: its index    *)
(* among the pending ones is read under one lock, used under a second one, *)
(* and what was there is confirmed under a third.                          *)
(***************************************************************************)
\* Mutant: the last pending transaction instead of the one that was found.
position_last(t) == Len(pending)

position(t) ==
    CHOOSE i \in DOMAIN pending :
        pending[i] = t /\ \A j \in 1 .. (i - 1) : pending[j] # t

TxFind(p) ==
    /\ pc[p] = "tx_find"
    /\ todo[p] # <<>>
    /\ CASE poisoned -> Goto(p, "ended") /\ UNCHANGED <<idx, todo>>
         [] ~poisoned /\ Contains(pending, Head(todo[p])) ->
              /\ Goto(p, "tx_remove")
              /\ idx' = [idx EXCEPT ![p] = position(Head(todo[p]))]
              /\ UNCHANGED todo
         [] OTHER -> todo' = [todo EXCEPT ![p] = Tail(@)] /\ UNCHANGED <<pc, idx>>
    /\ UNCHANGED <<askVars, tx, accountVars>>

\* Vec::remove panics behind the end, with the lock held.
TxRemove(p) ==
    /\ pc[p] = "tx_remove"
    /\ CASE poisoned -> Goto(p, "ended") /\ UNCHANGED <<tx, pending, poisoned>>
         [] ~poisoned /\ idx[p] > Len(pending) ->
              /\ Goto(p, "panicked")
              /\ poisoned' = TRUE
              /\ UNCHANGED <<tx, pending>>
         [] OTHER ->
              /\ Goto(p, "tx_confirm")
              /\ tx' = [tx EXCEPT ![p] = pending[idx[p]]]
              /\ pending' = RemoveAt(pending, idx[p])
              /\ UNCHANGED poisoned
    /\ UNCHANGED <<askVars, todo, idx, confirmed>>

\* Mutant: the handler returns once a transaction is confirmed.
TxConfirmReturns(p) ==
    /\ pc[p] = "tx_confirm"
    /\ confirmed' = Append(confirmed, tx[p])
    /\ todo' = [todo EXCEPT ![p] = <<>>]
    /\ tx' = [tx EXCEPT ![p] = NoTx]
    /\ idx' = [idx EXCEPT ![p] = 0]
    /\ Goto(p, "idle")
    /\ UNCHANGED <<askVars, pending, poisoned>>

TxConfirm(p) ==
    /\ pc[p] = "tx_confirm"
    /\ confirmed' = Append(confirmed, tx[p])
    /\ todo' = [todo EXCEPT ![p] = Tail(@)]
    /\ tx' = [tx EXCEPT ![p] = NoTx]
    /\ idx' = [idx EXCEPT ![p] = 0]
    /\ Goto(p, "tx_find")
    /\ UNCHANGED <<askVars, pending, poisoned>>

TxMessage(p) == \E t \in Txs : InvCheck(p, t) \/ TxCheck(p, t)
TxStep(p) == InvPush(p) \/ TxPush(p) \/ TxFind(p) \/ TxRemove(p) \/ TxConfirm(p)

TxTypeOK ==
    /\ transactions_received \in SUBSET Txs
    /\ invs \in [Peers -> SUBSET Txs]
    /\ txAsked \in [Peers -> SUBSET Txs]
    /\ tx \in [Peers -> Txs \cup {NoTx}]
    /\ todo \in [Peers -> Seq(Txs)]
    /\ idx \in [Peers -> Nat]
    /\ pending \in Seq(Txs)
    /\ confirmed \in Seq(Txs)
    /\ poisoned \in BOOLEAN
=============================================================================
