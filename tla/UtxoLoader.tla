----------------------------- MODULE UtxoLoader -----------------------------
(***************************************************************************)
(* The thread that builds the utxo set during the initial block download:  *)
(* load_utxo_set (blockchain_download/mod.rs).                             *)
(*                                                                         *)
(* A block is its height.  The block at height h makes one coin, h, and    *)
(* spends the coins Spends[h] of earlier blocks.                           *)
(***************************************************************************)
EXTENDS HeadersDownload

CONSTANT Spends         \* the coins each block spends

ASSUME SpendsAssumption ==
    /\ DOMAIN Spends = FirstBlock .. Tip
    /\ \A h \in FirstBlock .. Tip : Spends[h] \subseteq FirstBlock .. (h - 1)

VARIABLES
    uchan,              \* lists of blocks sent to load_utxo_set
    lpc,                \* where load_utxo_set is
    utxo_set            \* the coins in the utxo set

utxoVars == <<uchan, lpc, utxo_set>>

LoaderInit == uchan = <<>> /\ lpc = "run" /\ utxo_set = {}

\* Mutant: the list is dropped.
SendToLoader_lost(b) == UNCHANGED utxoVars

\* tx_utxo_set.send: the loader keeps its receiver to the end.
SendToLoader(b) == uchan' = Append(uchan, b) /\ UNCHANGED <<lpc, utxo_set>>

\* Block::give_me_utxos on each block of a list, in order: spent coins go,
\* new coins come; a coin that is not there is not missed.
give_me_utxos(coins, b) ==
    (coins \cup Heights(b)) \ UNION {Spends[h] : h \in Heights(b)}

\* load_utxo_set takes the next list of blocks.
LoadUtxoSet ==
    /\ lpc = "run"
    /\ uchan # <<>>
    /\ utxo_set' = give_me_utxos(utxo_set, Head(uchan))
    /\ uchan' = Tail(uchan)
    /\ UNCHANGED lpc

\* ... and ends once every sender is gone.
LoadUtxoSetEnd(sendersGone) ==
    /\ lpc = "run"
    /\ uchan = <<>>
    /\ sendersGone
    /\ lpc' = "ended"
    /\ UNCHANGED <<uchan, utxo_set>>

LoaderStep(sendersGone) == LoadUtxoSet \/ LoadUtxoSetEnd(sendersGone)

\* The coins of S that no block spends.
Unspent(S) == {h \in S : \A g \in FirstBlock .. Tip : h \notin Spends[g]}

LoaderTypeOK ==
    /\ uchan \in Seq(Batches)
    /\ lpc \in {"run", "ended"}
    /\ utxo_set \in SUBSET (FirstBlock .. Tip)
=============================================================================
