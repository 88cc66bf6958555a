------------------------------ MODULE ChainSync ------------------------------
(***************************************************************************)
(* What the initial block download promises to the rest of the program,    *)
(* whatever its threads do (initial_block_download): the headers known     *)
(* only grow, blocks are stored in any order but only for known headers,   *)
(* Ok is returned once and means that the chain is complete unless a       *)
(* headers connection was lost, and after Ok the node and the wallet find  *)
(* headers and blocks at rest.                                             *)
(***************************************************************************)
EXTENDS Integers

CONSTANTS Start, Tip, FirstBlock

VARIABLES
    known,              \* number of headers
    stored,             \* heights of the stored blocks
    lossy,              \* the chain may be incomplete
    answer              \* "running", then "ok" or "err"

syncVars == <<known, stored, lossy, answer>>

SyncInit == known = Start /\ stored = {} /\ lossy \in BOOLEAN /\ answer = "running"

Learn ==
    /\ answer = "running"
    /\ known' \in (known + 1) .. (Tip + 1)
    /\ UNCHANGED <<stored, lossy, answer>>

\* Also after an error: workers the main thread does not wait for.
Store ==
    /\ answer # "ok"
    /\ stored' \in SUBSET (FirstBlock .. (known - 1))
    /\ stored \subseteq stored'
    /\ UNCHANGED <<known, lossy, answer>>

LoseConnection ==
    /\ ~lossy
    /\ lossy' = TRUE
    /\ UNCHANGED <<known, stored, answer>>

ReturnOk ==
    /\ answer = "running"
    /\ known = Tip + 1
    /\ lossy \/ stored = FirstBlock .. Tip
    /\ answer' = "ok"
    /\ UNCHANGED <<known, stored, lossy>>

ReturnErr ==
    /\ answer = "running"
    /\ answer' = "err"
    /\ UNCHANGED <<known, stored, lossy>>

SyncNext == Learn \/ Store \/ LoseConnection \/ ReturnOk \/ ReturnErr

SyncSpec == SyncInit /\ [][SyncNext]_syncVars
=============================================================================
