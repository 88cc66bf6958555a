------------------------- MODULE MCSingleNodeDownload -------------------------
(***************************************************************************)
(* Instances of SingleNodeDownload for TLC.                                *)
(***************************************************************************)
EXTENDS SingleNodeDownload

\* Each block spends the coin of the block before it.
MCSpends == [h \in FirstBlock .. Tip |-> {h - 1} \cap (FirstBlock .. Tip)]
=============================================================================
