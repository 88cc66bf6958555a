------------------------ MODULE MCInitialBlockDownload ------------------------
(***************************************************************************)
(* Instances of InitialBlockDownload for TLC.                              *)
(***************************************************************************)
EXTENDS InitialBlockDownload

\* Each block spends the coin of the block before it.
MCSpends == [h \in FirstBlock .. Tip |-> {h - 1} \cap (FirstBlock .. Tip)]
=============================================================================
