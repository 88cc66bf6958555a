---------------------------- MODULE MCNodeHandlers ----------------------------
(***************************************************************************)
(* Instances of NodeHandlers for TLC.                                      *)
(***************************************************************************)
EXTENDS NodeHandlers, TLC

\* Each block spends the coin of the block before it.
MCSpends == [b \in Mined |-> {b - 1}]

\* The first block contains one of the account's transactions, if it has any.
MCBlockTxs ==
    [b \in Mined |-> IF b = 1 /\ Txs # {} THEN <<CHOOSE t \in Txs : TRUE>> ELSE <<>>]

\* The connections are interchangeable.
PeerSymmetry == Permutations(Peers)
=============================================================================
