----------------------- MODULE SingleNodeDownloadProofs -----------------------
(***************************************************************************)
(* What the download from a single node promises, for every chain, every   *)
(* size of the lists and every pattern of spending: as long as no          *)
(* connection fails, the lists of headers form one run without a gap or an *)
(* overlap from the first block to the tip, and the blocks thread and      *)
(* load_utxo_set each stand at one height of that run.                     *)
(***************************************************************************)
EXTENDS SingleNodeDownload, TLAPS

\* There is a block to download, and it is not in the first list of headers.
BlocksAhead == InitialHeaders + BatchSize <= FirstBlock /\ FirstBlock <= Tip

--------------------------------------------------------------------------------
(***************************************************************************)
(* The inductive invariant.                                                *)
(***************************************************************************)
TypeInv ==
    /\ HeadersTypeOK
    /\ headers <= Tip + 1
    /\ uchan \in Seq(Batches)
    /\ lpc \in {"run", "ended"}
    /\ spc \in {"headers", "recv", "blocks", "join", "end"}
    /\ snode \in Peers \cup {NoPeer}
    /\ schunk \in Batches
    /\ snext \in Nat
    /\ blkFailures \in Nat
    /\ result \in {"running", "ok", "err"}

\* The headers thread ends with every header; the main thread leaves "headers"
\* once the headers thread has ended, and "end" is where it has a result.
PhaseInv ==
    /\ hpc \in {"return", "done"} => headers = Tip + 1
    /\ hpc \in {"first", "loop", "send", "return"} => hnode \in Peers
    /\ spc \in {"recv", "blocks"} => snode \in Peers
    /\ hpc = "send" => /\ headers_read.lo <= headers
                       /\ headers_read.hi + 1 = headers
                       /\ Size(headers_read) # BatchSize => headers = Tip + 1
    /\ spc # "headers" => hpc \in {"done", "failed"}
    /\ spc \notin {"headers", "end"} => hpc = "done"
    /\ (result = "running") = (spc # "end")
    /\ lpc = "ended" => uchan = <<>> /\ spc \in {"join", "end"}

\* Every header below this height is in a list that was sent.
Sent == IF ~first_block_found THEN FirstBlock
        ELSE IF hpc = "send" THEN headers_read.lo ELSE headers

\* The height of the next block to ask for.
Asked == IF snext = 0 THEN FirstBlock ELSE snext

\* The height a channel of lists starts at, when the next list starts at `to`.
Front(s, to) == IF s = <<>> THEN to ELSE s[1].lo

\* The lists of a channel follow each other up to `to`.
Contiguous(s, to) ==
    \A i \in DOMAIN s :
        /\ FirstBlock <= s[i].lo
        /\ s[i].lo <= s[i].hi + 1
        /\ s[i].hi + 1 <= to
        /\ i + 1 \in DOMAIN s => s[i + 1].lo = s[i].hi + 1
        /\ i + 1 \notin DOMAIN s => to = s[i].hi + 1

\* The headers thread, before it ends: one connection, and no list sent before
\* the first block is found.
HeadersInv ==
    /\ hpc \in {"get", "first"} => headers = InitialHeaders /\ ~first_block_found
    /\ hpc # "send" /\ ~first_block_found => headers <= FirstBlock
    /\ ~first_block_found => chan = <<>>
    /\ hpc = "send" /\ ~first_block_found =>
         headers_read.lo <= FirstBlock /\ FirstBlock < headers
    /\ first_block_found => FirstBlock <= Sent
    /\ Contiguous(chan, Sent)

\* The connections: all of them are in `nodes`, but for the one in use.
NodesInv ==
    /\ hpc \in {"get", "failed"} => nodes = Peers
    /\ hpc \in {"first", "loop", "send", "return"} => nodes = Peers \ {hnode}
    /\ hpc = "done" /\ spc \in {"headers", "join", "end"} => nodes = Peers
    /\ spc \in {"recv", "blocks"} => nodes = Peers \ {snode}
    /\ hpc = "failed" => Peers = {}

\* The blocks thread: what is stored ends where the list at hand, or the rest
\* of the channel, begins.
BlocksInv ==
    /\ FirstBlock <= Asked
    /\ spc = "headers" => snext = 0 /\ blocks = {} /\ Front(chan, Sent) = FirstBlock
    /\ spc = "recv" => blocks = FirstBlock .. (Asked - 1) /\ Front(chan, Sent) = Asked
    /\ spc = "blocks" => /\ FirstBlock <= schunk.lo
                         /\ blocks = FirstBlock .. (schunk.lo - 1)
                         /\ schunk.lo <= snext /\ snext <= schunk.hi + 1
                         /\ schunk.hi <= Tip
                         /\ Front(chan, Sent) = schunk.hi + 1
    /\ spc \in {"join", "end"} => /\ blocks = FirstBlock .. Tip
                                  /\ Asked = Tip + 1

\* The coins of the blocks below height k that no block below k spends.
CoinsBelow(k) == {h \in FirstBlock .. (k - 1) :
                    \A g \in FirstBlock .. (k - 1) : h \notin Spends[g]}

\* load_utxo_set has the coins of exactly the blocks before its next list.
LoaderInv ==
    /\ Contiguous(uchan, Asked)
    /\ Asked <= Tip + 1
    /\ FirstBlock <= Front(uchan, Asked)
    /\ utxo_set = CoinsBelow(Front(uchan, Asked))
    /\ result = "ok" => lpc = "ended"

\* What holds until a connection fails.
CleanInv == HeadersInv /\ NodesInv /\ BlocksInv /\ LoaderInv

Clean == hdrFailures = 0 /\ result # "err"

SInv == TypeInv /\ PhaseInv /\ (Clean => CleanInv)

--------------------------------------------------------------------------------
(***************************************************************************)
(* Lists of headers and channels of lists.                                 *)
(***************************************************************************)
\* A list of headers has its two ends.
LEMMA ListFacts ==
    /\ \A lo \in Nat, hi \in Int :
         Batch(lo, hi) \in Batches /\ Batch(lo, hi).lo = lo /\ Batch(lo, hi).hi = hi
    /\ \A b \in Batches : b.lo \in Nat /\ b.hi \in Int
BY DEF Batch, Batches

\* The list of headers the peers answer with.
LEMMA AnswerIs ==
    ASSUME TypeInv
    PROVE  /\ Answer \in Batches
           /\ Answer.lo = headers /\ Answer.hi \in Int
           /\ headers <= Answer.hi + 1 /\ Answer.hi <= Tip
           /\ Answer.hi + 1 <= headers + BatchSize
           /\ headers <= Tip => headers <= Answer.hi
           /\ Size(Answer) # BatchSize => Answer.hi = Tip
           /\ Size(Answer) = 0 => headers = Tip + 1
<1>1. headers \in Nat \ {0} /\ BatchSize \in Nat \ {0} /\ Tip \in Nat /\ headers <= Tip + 1
  BY ChainAssumption DEF HeadersTypeOK, TypeInv
<1> DEFINE hi == Least(headers + BatchSize - 1, Tip)
<1>2. /\ hi \in Int /\ headers <= hi + 1 /\ hi <= Tip /\ hi + 1 <= headers + BatchSize
      /\ headers <= Tip => headers <= hi
      /\ hi - headers + 1 # BatchSize => hi = Tip
      /\ hi - headers + 1 = 0 => headers = Tip + 1
  BY <1>1 DEF Least
<1>3. Answer = Batch(headers, hi)
  BY DEF Answer
<1> HIDE DEF hi
<1>4. Answer \in Batches /\ Answer.lo = headers /\ Answer.hi = hi
  BY <1>1, <1>2, <1>3, ListFacts
<1>5. Size(Answer) = hi - headers + 1
  BY <1>4 DEF Size
<1> QED
  BY <1>2, <1>4, <1>5

\* A list that begins where the channel ends goes at its end.
LEMMA SendKeepsOrder ==
    ASSUME NEW s \in Seq(Batches), NEW to \in Nat, NEW b \in Batches,
           Contiguous(s, to), b.lo = to, to <= b.hi + 1, FirstBlock <= to
    PROVE  /\ Append(s, b) \in Seq(Batches)
           /\ Append(s, b) # <<>>
           /\ Contiguous(Append(s, b), b.hi + 1)
           /\ Front(Append(s, b), b.hi + 1) = Front(s, to)
<1> DEFINE t == Append(s, b)
<1>1. FirstBlock \in Nat /\ b.lo \in Nat /\ b.hi \in Int
  BY ListFacts, ChainAssumption
<1>2. /\ t \in Seq(Batches)
      /\ t # <<>>
      /\ Len(s) \in Nat
      /\ DOMAIN s = 1 .. Len(s)
      /\ DOMAIN t = 1 .. (Len(s) + 1)
      /\ \A i \in 1 .. Len(s) : t[i] = s[i]
      /\ t[Len(s) + 1] = b
  OBVIOUS
<1>3. PICK n \in Nat : n = Len(s)
  BY <1>2
<1>4. /\ DOMAIN s = 1 .. n /\ DOMAIN t = 1 .. (n + 1)
      /\ \A i \in 1 .. n : t[i] = s[i] /\ s[i] \in Batches
      /\ t[n + 1] = b
  BY <1>2, <1>3
<1> HIDE DEF t
<1>5. ASSUME NEW i \in 1 .. (n + 1)
      PROVE  /\ FirstBlock <= t[i].lo
             /\ t[i].lo <= t[i].hi + 1
             /\ t[i].hi + 1 <= b.hi + 1
             /\ i + 1 \in 1 .. (n + 1) => t[i + 1].lo = t[i].hi + 1
             /\ i + 1 \notin 1 .. (n + 1) => b.hi + 1 = t[i].hi + 1
  <2>1. CASE i = n + 1
    BY <1>1, <1>4, <2>1
  <2>2. CASE i \in 1 .. n
    <3>1. /\ t[i] = s[i] /\ s[i].lo \in Nat /\ s[i].hi \in Int
          /\ FirstBlock <= s[i].lo /\ s[i].lo <= s[i].hi + 1 /\ s[i].hi + 1 <= to
          /\ i + 1 \in 1 .. n => s[i + 1].lo = s[i].hi + 1
          /\ i + 1 \notin 1 .. n => to = s[i].hi + 1
      BY <1>4, <2>2, ListFacts DEF Contiguous
    <3>2. i + 1 \in 1 .. (n + 1)
      BY <2>2
    <3>3. t[i + 1].lo = t[i].hi + 1
      <4>1. CASE i + 1 \in 1 .. n
        BY <1>4, <3>1, <4>1
      <4>2. CASE i + 1 = n + 1
        BY <1>4, <3>1, <4>2
      <4> QED
        BY <3>2, <4>1, <4>2
    <3> QED
      BY <1>1, <3>1, <3>2, <3>3
  <2> QED
    BY <2>1, <2>2
<1>6. Contiguous(t, b.hi + 1)
  BY <1>4, <1>5 DEF Contiguous
<1>7. t[1].lo = Front(s, to)
  <2>1. CASE s = <<>>
    <3>1. n = 0
      BY <1>3, <2>1
    <3> QED
      BY <1>4, <2>1, <3>1 DEF Front
  <2>2. CASE s # <<>>
    <3>1. n > 0
      BY <1>3, <2>2
    <3> QED
      BY <1>4, <2>2, <3>1 DEF Front
  <2> QED
    BY <2>1, <2>2
<1> QED
  BY <1>2, <1>6, <1>7 DEF Front, t

\* Taking the first list leaves a channel that begins where that list ends.
LEMMA ReceiveKeepsOrder ==
    ASSUME NEW s \in Seq(Batches), NEW to \in Nat, s # <<>>, Contiguous(s, to)
    PROVE  /\ Head(s) \in Batches
           /\ Tail(s) \in Seq(Batches)
           /\ Contiguous(Tail(s), to)
           /\ Head(s).lo = Front(s, to)
           /\ FirstBlock <= Head(s).lo
           /\ Head(s).lo <= Head(s).hi + 1
           /\ Head(s).hi + 1 <= to
           /\ Front(Tail(s), to) = Head(s).hi + 1
<1> DEFINE t == Tail(s)
<1>1. /\ Len(s) \in Nat /\ Len(s) > 0
      /\ DOMAIN s = 1 .. Len(s)
      /\ \A i \in 1 .. Len(s) : s[i] \in Batches
      /\ Head(s) = s[1]
  OBVIOUS
<1>2. /\ t \in Seq(Batches)
      /\ DOMAIN t = 1 .. (Len(s) - 1)
      /\ \A i \in 1 .. (Len(s) - 1) : t[i] = s[i + 1]
      /\ Len(t) = Len(s) - 1
  BY <1>1
<1>3. PICK n \in Nat : n = Len(s)
  BY <1>1
<1>8. t = <<>> <=> n = 1
  <2> HIDE DEF t
  <2>1. t = <<>> <=> Len(t) = 0
    BY <1>2
  <2> QED
    BY <1>2, <1>3, <2>1
<1>4. /\ n > 0 /\ DOMAIN s = 1 .. n /\ DOMAIN t = 1 .. (n - 1)
      /\ \A i \in 1 .. (n - 1) : t[i] = s[i + 1]
      /\ t = <<>> <=> n = 1
  BY <1>1, <1>2, <1>3, <1>8
<1> HIDE DEF t
<1>5. /\ Head(s) \in Batches /\ Head(s).lo = Front(s, to)
      /\ FirstBlock <= Head(s).lo /\ Head(s).lo <= Head(s).hi + 1 /\ Head(s).hi + 1 <= to
  BY <1>1, <1>4 DEF Contiguous, Front
<1>6. Contiguous(t, to)
  <2> SUFFICES ASSUME NEW i \in 1 .. (n - 1)
               PROVE  /\ FirstBlock <= t[i].lo
                      /\ t[i].lo <= t[i].hi + 1
                      /\ t[i].hi + 1 <= to
                      /\ i + 1 \in 1 .. (n - 1) => t[i + 1].lo = t[i].hi + 1
                      /\ i + 1 \notin 1 .. (n - 1) => to = t[i].hi + 1
    BY <1>4 DEF Contiguous
  <2>1. i + 1 \in 1 .. n /\ t[i] = s[i + 1]
    BY <1>4
  <2>2. /\ FirstBlock <= s[i + 1].lo /\ s[i + 1].lo <= s[i + 1].hi + 1
        /\ s[i + 1].hi + 1 <= to
        /\ (i + 1) + 1 \in 1 .. n => s[(i + 1) + 1].lo = s[i + 1].hi + 1
        /\ (i + 1) + 1 \notin 1 .. n => to = s[i + 1].hi + 1
    BY <1>4, <2>1 DEF Contiguous
  <2>3. (i + 1) + 1 \in 1 .. n <=> i + 1 \in 1 .. (n - 1)
    BY <1>4
  <2>4. i + 1 \in 1 .. (n - 1) => t[i + 1] = s[(i + 1) + 1]
    BY <1>4
  <2> QED
    BY <2>1, <2>2, <2>3, <2>4
<1>7. Front(t, to) = Head(s).hi + 1
  <2>1. /\ 1 + 1 \in 1 .. n => s[1 + 1].lo = s[1].hi + 1
        /\ 1 + 1 \notin 1 .. n => to = s[1].hi + 1
    BY <1>4 DEF Contiguous
  <2>2. CASE n = 1
    BY <1>1, <1>4, <2>1, <2>2 DEF Front
  <2>3. CASE n # 1
    <3>1. 1 + 1 \in 1 .. n /\ t[1] = s[1 + 1]
      BY <1>4, <2>3
    <3> QED
      BY <1>1, <1>4, <2>1, <2>3, <3>1 DEF Front
  <2> QED
    BY <2>2, <2>3
<1> QED
  BY <1>2, <1>5, <1>6, <1>7 DEF t

\* give_me_utxos on a list of blocks that begins where the coins end.
LEMMA CoinsOfList ==
    ASSUME NEW b \in Batches, FirstBlock <= b.lo, b.lo <= b.hi + 1, b.hi <= Tip
    PROVE  give_me_utxos(CoinsBelow(b.lo), b) = CoinsBelow(b.hi + 1)
<1>1. b.lo \in Nat /\ b.hi \in Int /\ FirstBlock \in Nat /\ Tip \in Nat
  BY ListFacts, ChainAssumption
<1> DEFINE k == b.lo
           m == b.hi
<1>2. \A h : h \in give_me_utxos(CoinsBelow(k), b) <=>
               /\ h \in CoinsBelow(k) \/ h \in k .. m
               /\ \A g \in k .. m : h \notin Spends[g]
  BY DEF give_me_utxos, Heights
<1>3. \A g \in FirstBlock .. Tip : \A h \in Spends[g] : h \in FirstBlock .. (g - 1)
  BY SpendsAssumption
<1>4. k \in Nat /\ m \in Int /\ FirstBlock <= k /\ k <= m + 1 /\ m <= Tip
  BY <1>1
<1> HIDE DEF k, m
<1>5. \A h : h \in FirstBlock .. ((m + 1) - 1) <=> h \in FirstBlock .. (k - 1) \/ h \in k .. m
  BY <1>1, <1>4
<1>6. ASSUME NEW h \in k .. m, NEW g \in FirstBlock .. (k - 1)
      PROVE  h \notin Spends[g]
  BY <1>1, <1>3, <1>4
<1>7. ASSUME NEW h
      PROVE  h \in CoinsBelow(m + 1) <=>
               /\ h \in CoinsBelow(k) \/ h \in k .. m
               /\ \A g \in k .. m : h \notin Spends[g]
  <2>1. h \in CoinsBelow(m + 1) <=>
          /\ h \in FirstBlock .. (k - 1) \/ h \in k .. m
          /\ \A g \in FirstBlock .. (k - 1) : h \notin Spends[g]
          /\ \A g \in k .. m : h \notin Spends[g]
    BY <1>5, Zenon DEF CoinsBelow
  <2>2. h \in CoinsBelow(k) <=>
          /\ h \in FirstBlock .. (k - 1)
          /\ \A g \in FirstBlock .. (k - 1) : h \notin Spends[g]
    BY DEF CoinsBelow
  <2> QED
    BY <1>6, <2>1, <2>2, Zenon
<1> QED
  BY <1>2, <1>7, Zenon DEF k, m

--------------------------------------------------------------------------------
(***************************************************************************)
(* Types and phases.                                                       *)
(***************************************************************************)
\* The initial states satisfy the invariant.
LEMMA TypesInit == ASSUME Init PROVE TypeInv /\ PhaseInv
<1> USE ChainAssumption, PeersAssumption DEF Init, HeadersInit, LoaderInit
<1>1. TypeInv
  <2>1. Batch(0, -1) \in Batches /\ headers_read \in Batches
    BY ListFacts
  <2>2. first_block_found \in BOOLEAN
    BY Zenon
  <2> QED
    BY <2>1, <2>2 DEF TypeInv, HeadersTypeOK
<1>2. PhaseInv
  BY DEF PhaseInv
<1> QED
  BY <1>1, <1>2

LEMMA SingleInit == ASSUME BlocksAhead, Init PROVE SInv
<1> USE ChainAssumption, PeersAssumption DEF Init, HeadersInit, LoaderInit
<1>3. HeadersInv
  BY DEF HeadersInv, Sent, Contiguous, BlocksAhead
<1>4. NodesInv
  BY DEF NodesInv
<1>5. BlocksInv /\ Asked = FirstBlock
  BY DEF BlocksInv, Asked, Front, Sent
<1>6. LoaderInv
  BY <1>5 DEF LoaderInv, Contiguous, Front, CoinsBelow, BlocksAhead
<1> QED
  BY TypesInit, <1>3, <1>4, <1>5, <1>6 DEF SInv, CleanInv

\* What a sent list is: a list of headers.
LEMMA ToSendIs ==
    ASSUME TypeInv
    PROVE  /\ ToSend \in Batches
           /\ ToSend.hi = headers_read.hi
           /\ ToSend.lo = IF first_block_found THEN headers_read.lo
                          ELSE Most(headers_read.lo, FirstBlock)
<1>1. headers_read \in Batches /\ headers_read.lo \in Nat /\ headers_read.hi \in Int
  BY ListFacts DEF TypeInv, HeadersTypeOK
<1>2. Most(headers_read.lo, FirstBlock) \in Nat
  BY <1>1, ChainAssumption DEF Most
<1> QED
  BY <1>1, <1>2, ListFacts DEF ToSend, search_first_header_block_to_download

\* A step of the headers thread keeps the types and the phases.
LEMMA HeadersTypes ==
    ASSUME TypeInv, PhaseInv, HeadersStep(TRUE) \/ HeadersFault, UNCHANGED <<utxoVars, mainVars>>
    PROVE  TypeInv' /\ PhaseInv'
<1> USE DEF utxoVars, mainVars
<1>0. TypeInv /\ PhaseInv /\ HeadersTypeOK
  BY DEF SInv, TypeInv
<1>a. Tip \in Nat /\ headers \in Nat \ {0} /\ heights \in Nat /\ MaxHeaderFailures \in Nat
  BY <1>0, ChainAssumption DEF HeadersTypeOK
<1>b. UNCHANGED <<uchan, lpc, utxo_set, spc, snode, schunk, snext, blocks, blkFailures, result>>
  OBVIOUS
<1>c. /\ Answer \in Batches /\ Answer.hi \in Int /\ headers <= Answer.hi + 1
      /\ Answer.hi <= Tip
      /\ Size(Answer) # BatchSize => Answer.hi = Tip
  BY <1>0, AnswerIs
<1>h. Answer.hi + 1 \in Nat \ {0} /\ Most(heights, Answer.hi + 1) \in Nat
  BY <1>a, <1>c DEF Most
<1>d. ASSUME HeadersTypeOK', headers' <= Tip + 1 PROVE TypeInv'
  BY <1>0, <1>b, <1>d DEF TypeInv
<1>e. ASSUME hpc \notin {"done", "failed"}, hpc' \in {"return", "done"} => headers' = Tip + 1,
             hpc' # "send", hpc' \in {"first", "loop", "send", "return"} => hnode' \in Peers
      PROVE  PhaseInv'
  <2>1. spc = "headers"
    BY <1>0, <1>e DEF PhaseInv
  <2> QED
    BY <1>0, <1>b, <1>e, <2>1 DEF PhaseInv
<1>f. ASSUME ReceiveAndStore, hpc' \in {"get", "loop", "return", "send"},
             hnode' \in Peers \cup {NoPeer}, UNCHANGED <<nodes, first_block_found, chan, hdrFailures>>
      PROVE  HeadersTypeOK' /\ headers' <= Tip + 1 /\ headers' = Answer.hi + 1
  <2>1. headers_read' = Answer /\ heights' \in Nat /\ headers' = Answer.hi + 1
    BY <1>h, <1>f DEF ReceiveAndStore
  <2>2. headers' \in Nat \ {0} /\ headers' <= Tip + 1
    BY <1>a, <1>c, <1>h, <2>1
  <2> QED
    BY <1>0, <1>c, <1>f, <2>1, <2>2 DEF HeadersTypeOK
<1>g. AfterBatch(Answer) \in {"loop", "return"}
      /\ (AfterBatch(Answer) = "return" => Answer.hi = Tip)
  BY <1>c DEF AfterBatch
<1>1. CASE HeadersGetNode
  <2>1. HeadersTypeOK' /\ headers' <= Tip + 1
    <3>1. first_block_found' \in BOOLEAN
      BY <1>1, Zenon DEF HeadersGetNode
    <3> QED
      BY <1>0, <1>1, <3>1 DEF HeadersGetNode, HeadersTypeOK, get_node, TypeInv
  <2>2. hpc \notin {"done", "failed"} /\ hpc' \notin {"return", "done", "send"}
        /\ hnode' \in Peers
    BY <1>1 DEF HeadersGetNode
  <2> QED
    BY <1>d, <1>e, <2>1, <2>2
<1>2. CASE HeadersNoNode
  <2>1. HeadersTypeOK' /\ headers' <= Tip + 1
    BY <1>0, <1>2 DEF HeadersNoNode, HeadersTypeOK, TypeInv
  <2>2. hpc \notin {"done", "failed"} /\ hpc' = "failed"
    BY <1>2 DEF HeadersNoNode
  <2> QED
    BY <1>d, <1>e, <2>1, <2>2
<1>3. CASE HeadersFirstBatch
  <2>1. /\ ReceiveAndStore /\ hpc' = AfterBatch(Answer) /\ hnode' = hnode
        /\ UNCHANGED <<nodes, first_block_found, chan, hdrFailures>>
        /\ hpc \in {"first", "loop"} /\ hnode \in Peers
    BY <1>0, <1>3 DEF HeadersFirstBatch, PhaseInv
  <2>2. HeadersTypeOK' /\ headers' <= Tip + 1 /\ headers' = Answer.hi + 1
    BY <1>0, <1>f, <1>g, <2>1 DEF HeadersTypeOK
  <2> QED
    BY <1>d, <1>e, <1>g, <2>1, <2>2
<1>4. CASE HeadersBatchToSend
  <2>1. /\ ReceiveAndStore /\ hpc' = "send" /\ hnode' = hnode
        /\ UNCHANGED <<nodes, first_block_found, chan, hdrFailures>>
        /\ hpc \notin {"done", "failed"}
    BY <1>4 DEF HeadersBatchToSend
  <2>2. HeadersTypeOK' /\ headers' <= Tip + 1 /\ headers' = Answer.hi + 1
    BY <1>0, <1>f, <1>g, <2>1 DEF HeadersTypeOK
  <2>3. headers_read' = Answer /\ Answer.lo <= Answer.hi + 1
    BY <1>0, <2>1, AnswerIs DEF ReceiveAndStore
  <2>4. Size(headers_read') = Size(Answer)
    BY <2>3
  <2>5. spc = "headers"
    BY <1>0, <2>1 DEF PhaseInv
  <2>7. hpc = "loop" /\ hnode \in Peers
    BY <1>0, <1>4 DEF HeadersBatchToSend, PhaseInv
  <2>6. PhaseInv'
    BY <1>0, <1>b, <1>c, <2>1, <2>2, <2>3, <2>4, <2>5, <2>7 DEF PhaseInv, Size
  <2> QED
    BY <1>d, <2>2, <2>6
<1>5. CASE HeadersBatchSkipped
  <2>1. /\ ReceiveAndStore /\ hpc' = AfterBatch(Answer) /\ hnode' = hnode
        /\ UNCHANGED <<nodes, first_block_found, chan, hdrFailures>>
        /\ hpc \in {"first", "loop"} /\ hnode \in Peers
    BY <1>0, <1>5 DEF HeadersBatchSkipped, PhaseInv
  <2>2. HeadersTypeOK' /\ headers' <= Tip + 1 /\ headers' = Answer.hi + 1
    BY <1>0, <1>f, <1>g, <2>1 DEF HeadersTypeOK
  <2> QED
    BY <1>d, <1>e, <1>g, <2>1, <2>2
<1>6. CASE HeadersBatchEmpty
  <2>1. /\ ReceiveAndStore /\ hpc' = "get" /\ hnode' = NoPeer
        /\ UNCHANGED <<nodes, first_block_found, chan, hdrFailures>>
        /\ hpc \notin {"done", "failed"}
    BY <1>6 DEF HeadersBatchEmpty
  <2>2. HeadersTypeOK' /\ headers' <= Tip + 1 /\ headers' = Answer.hi + 1
    BY <1>0, <1>f, <1>g, <2>1 DEF HeadersTypeOK
  <2> QED
    BY <1>d, <1>e, <1>g, <2>1, <2>2
<1>7. CASE HeadersSend(TRUE)
  <2>1. /\ hpc = "send" /\ first_block_found' = TRUE
        /\ chan' = Append(chan, ToSend) /\ hpc' = AfterBatch(headers_read)
        /\ UNCHANGED <<nodes, headers, heights, headers_read, hdrFailures, hnode>>
    BY <1>7 DEF HeadersSend
  <2>2. first_block_found' \in BOOLEAN
    BY <2>1, Zenon
  <2>3. chan' \in Seq(Batches)
    BY <1>0, <2>1, ToSendIs DEF HeadersTypeOK
  <2>4. hpc' \in {"loop", "return"} /\ (hpc' = "return" => headers = Tip + 1) /\ hnode \in Peers
    BY <1>0, <2>1 DEF AfterBatch, PhaseInv
  <2>5. HeadersTypeOK' /\ headers' <= Tip + 1
    BY <1>0, <2>1, <2>2, <2>3, <2>4 DEF HeadersTypeOK, TypeInv
  <2> QED
    BY <1>d, <1>e, <2>1, <2>4, <2>5
<1>8. CASE HeadersReturnNode
  <2>1. /\ hpc = "return" /\ nodes' = nodes \cup {hnode} /\ hnode' = NoPeer
        /\ hpc' = "done"
        /\ UNCHANGED <<headers, heights, first_block_found, headers_read, chan, hdrFailures>>
    BY <1>8 DEF HeadersReturnNode, return_node_to_vec
  <2>2. hnode \in Peers
    BY <1>0, <2>1 DEF PhaseInv
  <2>3. HeadersTypeOK' /\ headers' <= Tip + 1
    BY <1>0, <2>1, <2>2 DEF HeadersTypeOK, TypeInv
  <2>4. headers' = Tip + 1
    BY <1>0, <2>1 DEF PhaseInv
  <2> QED
    BY <1>d, <1>e, <2>1, <2>3, <2>4
<1>9. CASE HeadersFault
  <2>1. /\ hpc \in {"first", "loop"} /\ hdrFailures < MaxHeaderFailures
        /\ hdrFailures' = hdrFailures + 1 /\ hpc' = "get" /\ hnode' = NoPeer
        /\ UNCHANGED <<nodes, headers, first_block_found, headers_read, chan>>
    BY <1>9 DEF HeadersFault, HeadersNodeError, HeadersInvalid
  <2>2. heights' \in Nat
    <3>1. CASE HeadersNodeError
      BY <1>a, <3>1 DEF HeadersNodeError
    <3>2. CASE HeadersInvalid
      <4>1. PICK k \in Heights(Answer) : heights' = Most(heights, k)
        BY <3>2 DEF HeadersInvalid
      <4>2. k \in Int
        BY <1>0, <1>a, AnswerIs DEF Heights
      <4> QED
        BY <1>a, <4>1, <4>2 DEF Most
    <3> QED
      BY <1>9, <3>1, <3>2 DEF HeadersFault
  <2>3. hdrFailures' \in 0 .. MaxHeaderFailures
    BY <1>0, <1>a, <2>1 DEF HeadersTypeOK
  <2>4. HeadersTypeOK' /\ headers' <= Tip + 1
    BY <1>0, <2>1, <2>2, <2>3 DEF HeadersTypeOK, TypeInv
  <2> QED
    BY <1>d, <1>e, <2>1, <2>4
<1> QED
  BY <1>1, <1>2, <1>3, <1>4, <1>5, <1>6, <1>7, <1>8, <1>9 DEF HeadersStep

\* The blocks asked for next: a part of the list at hand that is not empty.
LEMMA SubChunkIs ==
    ASSUME TypeInv, snext <= schunk.hi
    PROVE  /\ SubChunk \in Batches
           /\ SubChunk.lo = snext
           /\ snext <= SubChunk.hi /\ SubChunk.hi <= schunk.hi
           /\ SubChunk.hi + 1 \in Nat \ {0}
<1>1. snext \in Nat /\ schunk.lo \in Nat /\ schunk.hi \in Int /\ BlocksPerNode \in Nat \ {0}
  BY ListFacts, SingleAssumption DEF TypeInv
<1> DEFINE hi == Least(snext + BlocksPerNode - 1, schunk.hi)
<1>2. hi \in Int /\ snext <= hi /\ hi <= schunk.hi
  BY <1>1 DEF Least
<1> HIDE DEF hi
<1>3. SubChunk \in Batches /\ SubChunk.lo = snext /\ SubChunk.hi = hi
  BY <1>1, <1>2, ListFacts DEF SubChunk, hi
<1> QED
  BY <1>1, <1>2, <1>3

\* A step of the main thread or of load_utxo_set keeps the types and the phases.
LEMMA MainTypes ==
    ASSUME TypeInv, PhaseInv, MainStep \/ ReceiveBlocksFail \/ Loader
    PROVE  TypeInv' /\ PhaseInv'
<1>0. TypeInv /\ PhaseInv /\ HeadersTypeOK
  BY DEF SInv, TypeInv
<1>a. chan \in Seq(Batches) /\ uchan \in Seq(Batches) /\ blkFailures \in Nat
  BY <1>0 DEF TypeInv, HeadersTypeOK
<1>b. ASSUME UNCHANGED hdrVars, nodes' \in SUBSET Peers, chan' \in Seq(Batches)
      PROVE  HeadersTypeOK' /\ headers' <= Tip + 1
  BY <1>0, <1>b DEF TypeInv, HeadersTypeOK, hdrVars
<1>1. CASE Fail
  <2>1. UNCHANGED <<nodes, chan, hdrVars, utxoVars, snode, schunk, snext, blocks, blkFailures>>
        /\ spc = "headers" /\ spc' = "end" /\ result' = "err" /\ hpc \in {"failed", "done"}
    BY <1>1 DEF Fail
  <2>2. HeadersTypeOK' /\ headers' <= Tip + 1
    BY <1>0, <1>b, <2>1 DEF HeadersTypeOK
  <2> QED
    BY <1>0, <2>1, <2>2 DEF TypeInv, PhaseInv, hdrVars, utxoVars
<1>2. CASE GetNode
  <2>1. PICK n \in Peers : get_node(n) /\ snode' = n
    BY <1>2 DEF GetNode
  <2>2. /\ UNCHANGED <<chan, hdrVars, utxoVars, schunk, snext, blocks, blkFailures, result>>
        /\ spc = "headers" /\ spc' = "recv" /\ hpc = "done"
    BY <1>2 DEF GetNode
  <2>3. HeadersTypeOK' /\ headers' <= Tip + 1
    BY <1>0, <1>b, <2>1, <2>2 DEF HeadersTypeOK, get_node
  <2> QED
    BY <1>0, <2>1, <2>2, <2>3 DEF TypeInv, PhaseInv, hdrVars, utxoVars
<1>3. CASE NextList
  <2>1. /\ UNCHANGED <<nodes, hdrVars, utxoVars, snode, blocks, blkFailures, result>>
        /\ spc = "recv" /\ spc' = "blocks" /\ chan # <<>>
        /\ schunk' = Head(chan) /\ snext' = Head(chan).lo /\ chan' = Tail(chan)
    BY <1>3 DEF NextList
  <2>2. chan' \in Seq(Batches) /\ schunk' \in Batches
    BY <1>a, <2>1
  <2>3. snext' \in Nat
    BY <2>1, <2>2, ListFacts
  <2>4. HeadersTypeOK' /\ headers' <= Tip + 1
    BY <1>0, <1>b, <2>1, <2>2 DEF HeadersTypeOK
  <2> QED
    BY <1>0, <2>1, <2>2, <2>3, <2>4 DEF TypeInv, PhaseInv, hdrVars, utxoVars
<1>4. CASE ReceiveBlocks
  <2>1. /\ UNCHANGED <<nodes, chan, hdrVars, spc, snode, schunk, blocks, blkFailures, result,
                       lpc, utxo_set>>
        /\ spc = "blocks" /\ snext <= schunk.hi
        /\ uchan' = Append(uchan, SubChunk) /\ snext' = SubChunk.hi + 1
    BY <1>4 DEF ReceiveBlocks, SendToLoader
  <2>2. uchan' \in Seq(Batches) /\ snext' \in Nat
    BY <1>0, <1>a, <2>1, SubChunkIs
  <2>3. HeadersTypeOK' /\ headers' <= Tip + 1
    BY <1>0, <1>b, <2>1 DEF HeadersTypeOK
  <2>4. lpc = "run"
    BY <1>0, <2>1 DEF TypeInv, PhaseInv
  <2> QED
    BY <1>0, <2>1, <2>2, <2>3, <2>4 DEF TypeInv, PhaseInv, hdrVars
<1>5. CASE StoreBlocks
  <2>1. /\ UNCHANGED <<nodes, chan, hdrVars, utxoVars, snode, schunk, snext, blkFailures, result>>
        /\ spc = "blocks" /\ spc' = "recv"
    BY <1>5 DEF StoreBlocks
  <2>2. HeadersTypeOK' /\ headers' <= Tip + 1
    BY <1>0, <1>b, <2>1 DEF HeadersTypeOK
  <2> QED
    BY <1>0, <2>1, <2>2 DEF TypeInv, PhaseInv, hdrVars, utxoVars
<1>6. CASE ReturnNode
  <2>1. /\ UNCHANGED <<chan, hdrVars, utxoVars, schunk, snext, blocks, blkFailures, result>>
        /\ spc = "recv" /\ spc' = "join" /\ snode' = NoPeer /\ nodes' = nodes \cup {snode}
    BY <1>6 DEF ReturnNode, return_node_to_vec
  <2>2. snode \in Peers
    BY <1>0, <2>1 DEF PhaseInv
  <2>3. HeadersTypeOK' /\ headers' <= Tip + 1
    BY <1>0, <1>b, <2>1, <2>2 DEF HeadersTypeOK
  <2> QED
    BY <1>0, <2>1, <2>3 DEF TypeInv, PhaseInv, hdrVars, utxoVars
<1>7. CASE JoinLoader
  <2>1. /\ UNCHANGED <<nodes, chan, hdrVars, utxoVars, snode, schunk, snext, blocks, blkFailures>>
        /\ spc = "join" /\ spc' = "end" /\ result' = "ok"
    BY <1>7 DEF JoinLoader
  <2>2. HeadersTypeOK' /\ headers' <= Tip + 1
    BY <1>0, <1>b, <2>1 DEF HeadersTypeOK
  <2> QED
    BY <1>0, <2>1, <2>2 DEF TypeInv, PhaseInv, hdrVars, utxoVars
<1>8. CASE ReceiveBlocksFail
  <2>1. /\ UNCHANGED <<nodes, chan, hdrVars, utxoVars, schunk, snext, blocks>>
        /\ spc = "blocks" /\ spc' = "end" /\ result' = "err" /\ snode' = NoPeer
        /\ blkFailures' = blkFailures + 1
    BY <1>8 DEF ReceiveBlocksFail
  <2>2. HeadersTypeOK' /\ headers' <= Tip + 1 /\ blkFailures' \in Nat
    BY <1>0, <1>a, <1>b, <2>1 DEF HeadersTypeOK
  <2> QED
    BY <1>0, <2>1, <2>2 DEF TypeInv, PhaseInv, hdrVars, utxoVars
<1>9. CASE Loader
  <2>1. UNCHANGED <<nodes, chan, hdrVars, mainVars>>
    BY <1>9 DEF Loader
  <2>2. HeadersTypeOK' /\ headers' <= Tip + 1
    BY <1>0, <1>b, <2>1 DEF HeadersTypeOK
  <2>3. CASE LoadUtxoSet
    <3>1. uchan # <<>> /\ uchan' = Tail(uchan) /\ lpc = "run" /\ lpc' = "run"
      BY <2>3 DEF LoadUtxoSet
    <3>2. uchan' \in Seq(Batches)
      BY <1>a, <3>1
    <3> QED
      BY <1>0, <2>1, <2>2, <3>1, <3>2 DEF TypeInv, PhaseInv, hdrVars, mainVars
  <2>4. CASE LoadUtxoSetEnd(spc \in {"join", "end"})
    <3>1. uchan' = uchan /\ uchan = <<>> /\ lpc' = "ended" /\ spc \in {"join", "end"}
      BY <2>4 DEF LoadUtxoSetEnd
    <3> QED
      BY <1>0, <2>1, <2>2, <3>1 DEF TypeInv, PhaseInv, hdrVars, mainVars
  <2> QED
    BY <1>9, <2>3, <2>4 DEF Loader, LoaderStep
<1> QED
  BY <1>1, <1>2, <1>3, <1>4, <1>5, <1>6, <1>7, <1>8, <1>9 DEF MainStep

--------------------------------------------------------------------------------
(***************************************************************************)
(* The run of heights, while no connection fails.                          *)
(***************************************************************************)
\* A step of the headers thread keeps the run: it begins at the first block
\* and ends where the lists sent so far end.
LEMMA HeadersClean ==
    ASSUME BlocksAhead, SInv, Clean', TypeInv',
           HeadersStep(TRUE) \/ HeadersFault, UNCHANGED <<utxoVars, mainVars>>
    PROVE  CleanInv'
<1>0. TypeInv /\ PhaseInv /\ HeadersTypeOK
  BY DEF SInv, TypeInv
<1>a. /\ Tip \in Nat /\ FirstBlock \in Nat \ {0} /\ BatchSize \in Nat \ {0}
      /\ InitialHeaders \in Nat \ {0} /\ headers \in Nat \ {0}
      /\ headers <= Tip + 1
      /\ InitialHeaders + BatchSize <= FirstBlock /\ FirstBlock <= Tip
  BY <1>0, ChainAssumption DEF HeadersTypeOK, BlocksAhead, TypeInv
<1>b. UNCHANGED <<uchan, lpc, utxo_set, spc, snode, schunk, snext, blocks, blkFailures, result>>
  BY DEF utxoVars, mainVars
<1>c. hdrFailures' = 0 /\ result' # "err"
  BY DEF Clean
<1>d. ~HeadersFault /\ hdrFailures' = hdrFailures
  <2>1. hdrFailures \in Nat
    BY <1>0, ChainAssumption DEF HeadersTypeOK
  <2>2. ASSUME HeadersFault PROVE FALSE
    BY <1>c, <2>1, <2>2 DEF HeadersFault, HeadersNodeError, HeadersInvalid
  <2> QED
    BY <2>2 DEF HeadersStep, HeadersGetNode, HeadersNoNode, HeadersFirstBatch,
                HeadersBatchToSend, HeadersBatchSkipped, HeadersBatchEmpty, HeadersSend,
                HeadersReturnNode
<1>e. CleanInv
  BY <1>b, <1>c, <1>d DEF SInv, Clean
<1>f. hpc \notin {"done", "failed"}
  BY <1>d DEF HeadersStep, HeadersGetNode, HeadersNoNode, HeadersFirstBatch,
              HeadersBatchToSend, HeadersBatchSkipped, HeadersBatchEmpty, HeadersSend,
              HeadersReturnNode
<1>g. spc = "headers" /\ snext = 0 /\ blocks = {} /\ Front(chan, Sent) = FirstBlock
  BY <1>0, <1>e, <1>f DEF PhaseInv, CleanInv, BlocksInv
<1>h. ASSUME HeadersInv', NodesInv', Front(chan', Sent') = FirstBlock
      PROVE  CleanInv'
  <2>1. BlocksInv'
    BY <1>a, <1>b, <1>e, <1>g, <1>h DEF CleanInv, BlocksInv, Asked, Front
  <2>2. LoaderInv'
    BY <1>b, <1>e DEF CleanInv, LoaderInv, Asked, Front, Contiguous, CoinsBelow
  <2> QED
    BY <1>h, <2>1, <2>2 DEF CleanInv
<1>i. /\ Answer \in Batches /\ Answer.lo = headers /\ Answer.hi \in Int
      /\ headers <= Answer.hi + 1 /\ Answer.hi <= Tip
      /\ Answer.hi + 1 <= headers + BatchSize
      /\ headers <= Tip => headers <= Answer.hi
      /\ Size(Answer) # BatchSize => Answer.hi = Tip
      /\ Size(Answer) = 0 => headers = Tip + 1
  BY <1>0, AnswerIs
<1>j. HeadersInv /\ NodesInv
  BY <1>e DEF CleanInv
<1>k. ASSUME chan' = chan, Sent' = Sent PROVE Contiguous(chan', Sent') /\ Front(chan', Sent') = FirstBlock
  BY <1>g, <1>j, <1>k DEF HeadersInv
<1>l. AfterBatch(Answer) \in {"loop", "return"}
  BY DEF AfterBatch
<1>1. CASE HeadersGetNode
  <2>1. PICK n \in Peers : n \in nodes /\ nodes' = nodes \ {n} /\ hnode' = n
    BY <1>1 DEF HeadersGetNode, get_node
  <2>2. /\ hpc = "get" /\ hpc' = "first" /\ first_block_found' = FALSE
        /\ UNCHANGED <<headers, heights, headers_read, chan, hdrFailures>>
    BY <1>1 DEF HeadersGetNode
  <2>3. ~first_block_found /\ headers = InitialHeaders /\ nodes = Peers /\ chan = <<>>
    BY <1>j, <2>2 DEF HeadersInv, NodesInv
  <2>4. Sent' = Sent
    BY <2>2, <2>3 DEF Sent
  <2>5. HeadersInv'
    BY <1>a, <1>k, <2>2, <2>3, <2>4 DEF HeadersInv
  <2>6. NodesInv'
    BY <1>b, <1>g, <2>1, <2>2, <2>3 DEF NodesInv
  <2> QED
    BY <1>h, <1>k, <2>2, <2>4, <2>5, <2>6
<1>2. CASE HeadersNoNode
  <2>1. /\ hpc = "get" /\ hpc' = "failed" /\ nodes = {}
        /\ UNCHANGED <<nodes, headers, heights, hnode, first_block_found, headers_read, chan>>
    BY <1>2 DEF HeadersNoNode
  <2>2. Peers = {} /\ ~first_block_found /\ headers = InitialHeaders /\ chan = <<>>
    BY <1>j, <2>1 DEF HeadersInv, NodesInv
  <2>3. Sent' = Sent
    BY <2>1, <2>2 DEF Sent
  <2>4. HeadersInv' /\ NodesInv'
    BY <1>a, <1>b, <1>g, <1>k, <2>1, <2>2, <2>3 DEF HeadersInv, NodesInv
  <2> QED
    BY <1>h, <1>k, <2>1, <2>3, <2>4
<1>3. CASE HeadersFirstBatch \/ HeadersBatchSkipped
  <2>1. /\ hpc \in {"first", "loop"} /\ hpc' = AfterBatch(Answer)
        /\ headers' = Answer.hi + 1
        /\ UNCHANGED <<nodes, hnode, first_block_found, chan, hdrFailures>>
    BY <1>3 DEF HeadersFirstBatch, HeadersBatchSkipped, ReceiveAndStore
  <2>2. ~first_block_found
    BY <1>3, <1>j DEF HeadersFirstBatch, HeadersBatchSkipped, HeadersInv
  <2>3. headers' <= FirstBlock
    <3>1. CASE HeadersFirstBatch
      <4>1. headers = InitialHeaders
        BY <1>j, <3>1 DEF HeadersFirstBatch, HeadersInv
      <4> QED
        BY <1>a, <1>i, <2>1, <4>1
    <3>2. CASE HeadersBatchSkipped
      <4>1. Answer.hi < FirstBlock
        BY <3>2 DEF HeadersBatchSkipped
      <4> QED
        BY <1>a, <1>i, <2>1, <4>1
    <3> QED
      BY <1>3, <3>1, <3>2
  <2>4. chan = <<>> /\ Sent = FirstBlock /\ Sent' = FirstBlock
    BY <1>j, <2>1, <2>2 DEF HeadersInv, Sent
  <2>5. HeadersInv'
    BY <1>k, <1>l, <2>1, <2>2, <2>3, <2>4 DEF HeadersInv
  <2>6. NodesInv'
    BY <1>b, <1>g, <1>j, <1>l, <2>1 DEF NodesInv
  <2> QED
    BY <1>h, <1>k, <2>1, <2>4, <2>5, <2>6
<1>4. CASE HeadersBatchToSend
  <2>1. /\ hpc = "loop" /\ hpc' = "send" /\ headers_read' = Answer /\ headers' = Answer.hi + 1
        /\ first_block_found \/ Answer.hi >= FirstBlock
        /\ UNCHANGED <<nodes, hnode, first_block_found, chan, hdrFailures>>
    BY <1>4 DEF HeadersBatchToSend, ReceiveAndStore
  <2>2. Sent' = Sent
    BY <1>i, <2>1 DEF Sent
  <2>3. ~first_block_found => headers <= FirstBlock /\ chan = <<>> /\ FirstBlock < headers'
    BY <1>a, <1>i, <1>j, <2>1 DEF HeadersInv
  <2>4. first_block_found => FirstBlock <= Sent
    BY <1>j DEF HeadersInv
  <2>5. HeadersInv'
    BY <1>i, <1>k, <2>1, <2>2, <2>3, <2>4 DEF HeadersInv
  <2>6. NodesInv'
    BY <1>b, <1>g, <1>j, <2>1 DEF NodesInv
  <2> QED
    BY <1>h, <1>k, <2>1, <2>2, <2>5, <2>6
<1>5. CASE HeadersBatchEmpty
  <2>1. hpc = "loop" /\ ~first_block_found /\ Size(Answer) = 0
    BY <1>5 DEF HeadersBatchEmpty
  <2>2. headers <= FirstBlock
    BY <1>j, <2>1 DEF HeadersInv
  <2> QED
    BY <1>a, <1>i, <2>1, <2>2
<1>6. CASE HeadersSend(TRUE)
  <2>1. /\ hpc = "send" /\ first_block_found' = TRUE
        /\ chan' = Append(chan, ToSend) /\ hpc' = AfterBatch(headers_read)
        /\ UNCHANGED <<nodes, headers, heights, headers_read, hdrFailures, hnode>>
    BY <1>6 DEF HeadersSend
  <2>2. hpc' \in {"loop", "return"}
    BY <2>1 DEF AfterBatch
  <2>3. /\ ToSend \in Batches /\ ToSend.hi = headers_read.hi
        /\ ToSend.lo = IF first_block_found THEN headers_read.lo
                       ELSE Most(headers_read.lo, FirstBlock)
    BY <1>0, ToSendIs
  <2>4. /\ headers_read.lo \in Nat /\ headers_read.hi \in Int
        /\ headers_read.lo <= headers /\ headers_read.hi + 1 = headers
    BY <1>0, <2>1, ListFacts DEF PhaseInv, HeadersTypeOK
  <2>5. /\ Sent \in Nat /\ FirstBlock <= Sent /\ ToSend.lo = Sent /\ Sent <= headers
    <3>1. CASE first_block_found
      BY <1>j, <2>1, <2>3, <2>4, <3>1 DEF HeadersInv, Sent
    <3>2. CASE ~first_block_found
      <4>1. headers_read.lo <= FirstBlock /\ FirstBlock < headers
        BY <1>j, <2>1, <3>2 DEF HeadersInv
      <4>2. Most(headers_read.lo, FirstBlock) = FirstBlock
        BY <1>a, <2>4, <4>1 DEF Most
      <4> QED
        BY <1>a, <2>3, <3>2, <4>1, <4>2 DEF Sent
    <3> QED
      BY <3>1, <3>2
  <2>6. ToSend.hi + 1 = headers /\ Sent' = headers
    BY <2>1, <2>2, <2>3, <2>4 DEF Sent
  <2>7. chan \in Seq(Batches) /\ Contiguous(chan, Sent)
    BY <1>0, <1>j DEF HeadersTypeOK, HeadersInv
  <2>8. /\ Contiguous(Append(chan, ToSend), ToSend.hi + 1)
        /\ Front(Append(chan, ToSend), ToSend.hi + 1) = Front(chan, Sent)
    BY <2>3, <2>5, <2>6, <2>7, SendKeepsOrder
  <2>9. Contiguous(chan', Sent') /\ Front(chan', Sent') = FirstBlock
    BY <1>g, <2>1, <2>6, <2>8
  <2>10. FirstBlock <= headers
    BY <1>a, <2>5
  <2>11. HeadersInv'
    BY <2>1, <2>2, <2>6, <2>9, <2>10 DEF HeadersInv
  <2>12. NodesInv'
    BY <1>b, <1>g, <1>j, <2>1, <2>2 DEF NodesInv
  <2> QED
    BY <1>h, <2>9, <2>11, <2>12
<1>7. CASE HeadersReturnNode
  <2>1. /\ hpc = "return" /\ nodes' = nodes \cup {hnode} /\ hnode' = NoPeer /\ hpc' = "done"
        /\ UNCHANGED <<headers, heights, first_block_found, headers_read, chan, hdrFailures>>
    BY <1>7 DEF HeadersReturnNode, return_node_to_vec
  <2>2. Sent' = Sent
    BY <2>1 DEF Sent
  <2>3. HeadersInv'
    BY <1>j, <1>k, <2>1, <2>2 DEF HeadersInv
  <2>4. nodes' = Peers
    <3>1. hnode \in Peers /\ nodes = Peers \ {hnode}
      BY <1>0, <1>j, <2>1 DEF PhaseInv, NodesInv
    <3> QED
      BY <2>1, <3>1
  <2>5. NodesInv'
    BY <1>b, <1>g, <2>1, <2>4 DEF NodesInv
  <2> QED
    BY <1>h, <1>k, <2>1, <2>2, <2>3, <2>5
<1> QED
  BY <1>d, <1>1, <1>2, <1>3, <1>4, <1>5, <1>6, <1>7 DEF HeadersStep

\* A step of the main thread or of load_utxo_set keeps the run: each takes the
\* list that begins where its own work ends.
LEMMA MainClean ==
    ASSUME BlocksAhead, SInv, Clean', MainStep \/ ReceiveBlocksFail \/ Loader
    PROVE  CleanInv'
<1>0. TypeInv /\ PhaseInv /\ HeadersTypeOK
  BY DEF SInv, TypeInv
<1>a. /\ Tip \in Nat /\ FirstBlock \in Nat \ {0} /\ headers \in Nat /\ snext \in Nat
      /\ headers <= Tip + 1 /\ FirstBlock <= Tip
      /\ chan \in Seq(Batches) /\ uchan \in Seq(Batches)
      /\ schunk.lo \in Nat /\ schunk.hi \in Int
  <2>1. InitialHeaders + BatchSize <= FirstBlock /\ FirstBlock <= Tip
    BY DEF BlocksAhead
  <2> QED
    BY <1>0, <2>1, ChainAssumption, ListFacts DEF HeadersTypeOK, TypeInv
<1>b. hdrFailures' = 0 /\ result' # "err"
  BY DEF Clean
<1>c. result # "err"
  BY <1>0, <1>b DEF PhaseInv, MainStep, Fail, GetNode, NextList, ReceiveBlocks, StoreBlocks,
     ReturnNode, JoinLoader, ReceiveBlocksFail, Loader, mainVars
<1>d. UNCHANGED hdrVars
  BY DEF MainStep, Fail, GetNode, NextList, ReceiveBlocks, StoreBlocks,
     ReturnNode, JoinLoader, ReceiveBlocksFail, Loader
<1>e. UNCHANGED <<headers, heights, hpc, hnode, first_block_found, headers_read, hdrFailures>>
  BY <1>d DEF hdrVars
<1>f. HeadersInv /\ NodesInv /\ BlocksInv /\ LoaderInv
  BY <1>b, <1>c, <1>e DEF SInv, Clean, CleanInv
<1>g. Sent' = Sent
  BY <1>e DEF Sent
<1>h. Asked \in Nat /\ Asked <= Tip + 1
  BY <1>a, <1>f DEF LoaderInv, Asked
<1>i. ASSUME hpc = "done" PROVE Sent = Tip + 1 /\ headers = Tip + 1 /\ first_block_found
  <2>1. headers = Tip + 1
    BY <1>0, <1>i DEF PhaseInv
  <2>2. first_block_found
    BY <1>a, <1>f, <1>i, <2>1 DEF HeadersInv
  <2> QED
    BY <1>i, <2>1, <2>2 DEF Sent
<1>j. ASSUME chan' = chan PROVE HeadersInv'
  BY <1>e, <1>f, <1>g, <1>j DEF HeadersInv, Contiguous
<1>k. ASSUME UNCHANGED <<uchan, utxo_set, lpc, result>>, Asked' = Asked PROVE LoaderInv'
  BY <1>f, <1>k DEF LoaderInv, Contiguous, CoinsBelow, Front
<1>1. CASE Fail \/ ReceiveBlocksFail
  BY <1>1, <1>b DEF Fail, ReceiveBlocksFail
<1>2. CASE GetNode
  <2>1. PICK n \in Peers : n \in nodes /\ nodes' = nodes \ {n} /\ snode' = n
    BY <1>2 DEF GetNode, get_node
  <2>2. /\ UNCHANGED <<chan, uchan, lpc, utxo_set, schunk, snext, blocks, blkFailures, result>>
        /\ spc = "headers" /\ spc' = "recv" /\ hpc = "done"
    BY <1>2 DEF GetNode, utxoVars
  <2>3. snext = 0 /\ blocks = {} /\ Front(chan, Sent) = FirstBlock /\ nodes = Peers
    BY <1>f, <2>2 DEF BlocksInv, NodesInv
  <2>4. Asked = FirstBlock /\ Asked' = FirstBlock
    BY <2>2, <2>3 DEF Asked
  <2>5. FirstBlock .. (FirstBlock - 1) = {}
    BY <1>a
  <2>6. BlocksInv'
    BY <1>a, <1>g, <2>2, <2>3, <2>4, <2>5 DEF BlocksInv
  <2>7. NodesInv'
    BY <1>e, <2>1, <2>2, <2>3 DEF NodesInv
  <2> QED
    BY <1>j, <1>k, <2>2, <2>4, <2>6, <2>7 DEF CleanInv
<1>3. CASE NextList
  <2>1. /\ UNCHANGED <<nodes, uchan, lpc, utxo_set, snode, blocks, blkFailures, result>>
        /\ spc = "recv" /\ spc' = "blocks" /\ chan # <<>>
        /\ schunk' = Head(chan) /\ snext' = Head(chan).lo /\ chan' = Tail(chan)
    BY <1>3 DEF NextList, utxoVars
  <2>2. hpc = "done" /\ Sent = Tip + 1 /\ Sent \in Nat /\ first_block_found
    BY <1>0, <1>a, <1>i, <2>1 DEF PhaseInv
  <2>3. Contiguous(chan, Sent)
    BY <1>f DEF HeadersInv
  <2>4. /\ Head(chan) \in Batches /\ Contiguous(Tail(chan), Sent)
        /\ Head(chan).lo = Front(chan, Sent) /\ FirstBlock <= Head(chan).lo
        /\ Head(chan).lo <= Head(chan).hi + 1 /\ Head(chan).hi + 1 <= Sent
        /\ Front(Tail(chan), Sent) = Head(chan).hi + 1
    BY <1>a, <2>1, <2>2, <2>3, ReceiveKeepsOrder
  <2>5. Head(chan).lo \in Nat /\ Head(chan).hi \in Int
    BY <2>4, ListFacts
  <2>6. blocks = FirstBlock .. (Asked - 1) /\ Front(chan, Sent) = Asked
    BY <1>f, <2>1 DEF BlocksInv
  <2>7. Asked' = Asked
    BY <1>a, <2>1, <2>4, <2>5, <2>6 DEF Asked
  <2>8. Head(chan).hi <= Tip
    BY <1>a, <2>2, <2>4, <2>5
  <2>9. BlocksInv'
    <3>1. FirstBlock <= Asked
      BY <1>f DEF BlocksInv
    <3>2. Front(chan', Sent') = schunk'.hi + 1
      BY <1>g, <2>1, <2>4
    <3>3. /\ FirstBlock <= schunk'.lo /\ blocks' = FirstBlock .. (schunk'.lo - 1)
          /\ schunk'.lo <= snext' /\ snext' <= schunk'.hi + 1 /\ schunk'.hi <= Tip
      BY <2>1, <2>4, <2>5, <2>6, <2>8
    <3> QED
      BY <2>1, <2>7, <3>1, <3>2, <3>3 DEF BlocksInv
  <2>10. HeadersInv'
    <3>1. Contiguous(chan', Sent')
      BY <1>g, <2>1, <2>4
    <3> QED
      BY <1>e, <1>f, <1>g, <2>2, <3>1 DEF HeadersInv
  <2>11. NodesInv'
    BY <1>e, <1>f, <2>1, <2>2 DEF NodesInv
  <2> QED
    BY <1>k, <2>1, <2>7, <2>9, <2>10, <2>11 DEF CleanInv
<1>4. CASE ReceiveBlocks
  <2>1. /\ UNCHANGED <<nodes, chan, spc, snode, schunk, blocks, blkFailures, result, lpc, utxo_set>>
        /\ spc = "blocks" /\ snext <= schunk.hi
        /\ uchan' = Append(uchan, SubChunk) /\ snext' = SubChunk.hi + 1
    BY <1>4 DEF ReceiveBlocks, SendToLoader
  <2>2. /\ SubChunk \in Batches /\ SubChunk.lo = snext
        /\ snext <= SubChunk.hi /\ SubChunk.hi <= schunk.hi /\ SubChunk.hi + 1 \in Nat \ {0}
    BY <1>0, <2>1, SubChunkIs
  <2>3. SubChunk.hi \in Int
    BY <2>2, ListFacts
  <2>4. /\ FirstBlock <= schunk.lo /\ schunk.lo <= snext /\ schunk.hi <= Tip
        /\ blocks = FirstBlock .. (schunk.lo - 1) /\ Front(chan, Sent) = schunk.hi + 1
    BY <1>f, <2>1 DEF BlocksInv
  <2>5. Asked = snext /\ Asked' = SubChunk.hi + 1 /\ FirstBlock <= Asked /\ FirstBlock <= Asked'
    BY <1>a, <2>1, <2>2, <2>3, <2>4 DEF Asked
  <2>6. /\ Contiguous(uchan', Asked') /\ Front(uchan', Asked') = Front(uchan, Asked)
    <3>1. Contiguous(uchan, Asked)
      BY <1>f DEF LoaderInv
    <3>2. Asked <= SubChunk.hi + 1
      BY <1>a, <2>2, <2>3, <2>5
    <3> QED
      BY <1>a, <1>h, <2>1, <2>2, <2>5, <3>1, <3>2, SendKeepsOrder
  <2>7. Asked' <= Tip + 1
    BY <1>a, <2>2, <2>3, <2>4, <2>5
  <2>8. LoaderInv'
    BY <1>f, <2>1, <2>6, <2>7 DEF LoaderInv, CoinsBelow
  <2>9. schunk.lo <= snext' /\ snext' <= schunk.hi + 1
    <3> DEFINE lo == schunk.lo
               hi == schunk.hi
               end == SubChunk.hi
    <3>1. lo \in Nat /\ hi \in Int /\ end \in Int /\ snext \in Nat
      BY <1>a, <2>3
    <3>2. lo <= snext /\ snext <= end /\ end <= hi /\ snext' = end + 1
      BY <2>1, <2>2, <2>4
    <3> HIDE DEF lo, hi, end
    <3>3. lo <= end + 1 /\ end + 1 <= hi + 1
      BY <3>1, <3>2
    <3> QED
      BY <3>2, <3>3 DEF lo, hi
  <2>10. BlocksInv'
    BY <1>g, <2>1, <2>4, <2>5, <2>9 DEF BlocksInv
  <2>11. NodesInv'
    BY <1>e, <1>f, <2>1 DEF NodesInv
  <2> QED
    BY <1>j, <2>1, <2>8, <2>10, <2>11 DEF CleanInv
<1>5. CASE StoreBlocks
  <2>1. /\ UNCHANGED <<nodes, chan, uchan, lpc, utxo_set, snode, schunk, snext, blkFailures, result>>
        /\ spc = "blocks" /\ spc' = "recv" /\ snext > schunk.hi
        /\ blocks' = blocks \cup (schunk.lo .. schunk.hi)
    BY <1>5 DEF StoreBlocks, utxoVars, Heights
  <2>2. /\ FirstBlock <= schunk.lo /\ schunk.lo <= snext /\ snext <= schunk.hi + 1
        /\ blocks = FirstBlock .. (schunk.lo - 1) /\ Front(chan, Sent) = schunk.hi + 1
    BY <1>f, <2>1 DEF BlocksInv
  <2>3. snext = schunk.hi + 1 /\ Asked = snext /\ Asked' = snext
    BY <1>a, <2>1, <2>2 DEF Asked
  <2>4. blocks' = FirstBlock .. (snext - 1)
    BY <1>a, <2>1, <2>2, <2>3
  <2>5. FirstBlock <= snext
    BY <1>a, <2>2
  <2>6. BlocksInv'
    BY <1>g, <2>1, <2>2, <2>3, <2>4, <2>5 DEF BlocksInv
  <2>7. NodesInv'
    BY <1>e, <1>f, <2>1 DEF NodesInv
  <2> QED
    BY <1>j, <1>k, <2>1, <2>3, <2>6, <2>7 DEF CleanInv
<1>6. CASE ReturnNode
  <2>1. /\ UNCHANGED <<chan, uchan, lpc, utxo_set, schunk, snext, blocks, blkFailures, result>>
        /\ spc = "recv" /\ spc' = "join" /\ snode' = NoPeer /\ nodes' = nodes \cup {snode}
        /\ chan = <<>>
    BY <1>6 DEF ReturnNode, return_node_to_vec, utxoVars
  <2>2. hpc = "done" /\ Sent = Tip + 1
    BY <1>0, <1>i, <2>1 DEF PhaseInv
  <2>3. blocks = FirstBlock .. (Asked - 1) /\ Front(chan, Sent) = Asked
    BY <1>f, <2>1 DEF BlocksInv
  <2>4. Asked = Tip + 1 /\ Asked' = Asked /\ (Tip + 1) - 1 = Tip
    BY <1>a, <2>1, <2>2, <2>3 DEF Front, Asked
  <2>5. BlocksInv'
    BY <1>f, <2>1, <2>3, <2>4 DEF BlocksInv
  <2>6. nodes' = Peers
    <3>1. snode \in Peers /\ nodes = Peers \ {snode}
      BY <1>0, <1>f, <2>1 DEF PhaseInv, NodesInv
    <3> QED
      BY <2>1, <3>1
  <2>7. NodesInv'
    BY <1>e, <2>1, <2>2, <2>6 DEF NodesInv
  <2> QED
    BY <1>j, <1>k, <2>1, <2>4, <2>5, <2>7 DEF CleanInv
<1>7. CASE JoinLoader
  <2>1. /\ UNCHANGED <<nodes, chan, uchan, lpc, utxo_set, snode, schunk, snext, blocks, blkFailures>>
        /\ spc = "join" /\ spc' = "end" /\ result' = "ok" /\ lpc = "ended"
    BY <1>7 DEF JoinLoader, utxoVars
  <2>2. hpc = "done"
    BY <1>0, <2>1 DEF PhaseInv
  <2>3. Asked' = Asked
    BY <2>1 DEF Asked
  <2>4. BlocksInv' /\ NodesInv'
    BY <1>e, <1>f, <2>1, <2>2, <2>3 DEF BlocksInv, NodesInv
  <2>5. LoaderInv'
    BY <1>f, <2>1, <2>3 DEF LoaderInv, Contiguous, CoinsBelow, Front
  <2> QED
    BY <1>j, <2>1, <2>4, <2>5 DEF CleanInv
<1>8. CASE Loader
  <2>1. UNCHANGED <<nodes, chan, spc, snode, schunk, snext, blocks, blkFailures, result>>
    BY <1>8 DEF Loader, mainVars
  <2>2. Asked' = Asked
    BY <2>1 DEF Asked
  <2>3. BlocksInv' /\ NodesInv'
    BY <1>e, <1>f, <1>g, <2>1, <2>2 DEF BlocksInv, NodesInv
  <2>4. LoaderInv'
    <3>1. CASE LoadUtxoSet
      <4>1. /\ uchan # <<>> /\ uchan' = Tail(uchan) /\ lpc = "run"
            /\ utxo_set' = give_me_utxos(utxo_set, Head(uchan))
        BY <3>1 DEF LoadUtxoSet
      <4>2. Contiguous(uchan, Asked) /\ utxo_set = CoinsBelow(Front(uchan, Asked)) /\ result # "ok"
        BY <1>f, <4>1 DEF LoaderInv
      <4>3. /\ Head(uchan) \in Batches /\ Contiguous(Tail(uchan), Asked)
            /\ Head(uchan).lo = Front(uchan, Asked) /\ FirstBlock <= Head(uchan).lo
            /\ Head(uchan).lo <= Head(uchan).hi + 1 /\ Head(uchan).hi + 1 <= Asked
            /\ Front(Tail(uchan), Asked) = Head(uchan).hi + 1
        BY <1>a, <1>h, <4>1, <4>2, ReceiveKeepsOrder
      <4>4. Head(uchan).lo \in Nat /\ Head(uchan).hi \in Int
        BY <4>3, ListFacts
      <4>5. Head(uchan).hi <= Tip /\ FirstBlock <= Head(uchan).hi + 1
        BY <1>a, <1>h, <4>3, <4>4
      <4>6. utxo_set' = CoinsBelow(Head(uchan).hi + 1)
        BY <4>1, <4>2, <4>3, <4>5, CoinsOfList
      <4>7. Front(uchan', Asked') = Head(uchan).hi + 1
        BY <2>2, <4>1, <4>3
      <4>8. utxo_set' = CoinsBelow(Front(uchan', Asked'))
        BY <4>6, <4>7
      <4>9. Contiguous(uchan', Asked') /\ Asked' <= Tip + 1 /\ FirstBlock <= Front(uchan', Asked')
        BY <1>h, <2>2, <4>1, <4>3, <4>5, <4>7
      <4> QED
        BY <2>1, <4>2, <4>8, <4>9 DEF LoaderInv, CoinsBelow
    <3>2. CASE LoadUtxoSetEnd(spc \in {"join", "end"})
      <4>1. UNCHANGED <<uchan, utxo_set>> /\ lpc' = "ended"
        BY <3>2 DEF LoadUtxoSetEnd
      <4> QED
        BY <1>f, <2>1, <2>2, <4>1 DEF LoaderInv, Contiguous, CoinsBelow, Front
    <3> QED
      BY <1>8, <3>1, <3>2 DEF Loader, LoaderStep
  <2> QED
    BY <1>j, <2>1, <2>3, <2>4 DEF CleanInv
<1> QED
  BY <1>1, <1>2, <1>3, <1>4, <1>5, <1>6, <1>7, <1>8 DEF MainStep

\* Every step keeps the types and the phases.
LEMMA TypesStep == ASSUME TypeInv, PhaseInv, [Next]_vars PROVE TypeInv' /\ PhaseInv'
<1>1. CASE Headers \/ HeadersPeerFault
  BY <1>1, HeadersTypes DEF Headers, HeadersPeerFault
<1>2. CASE MainStep \/ ReceiveBlocksFail \/ Loader
  BY <1>2, MainTypes
<1>3. CASE UNCHANGED vars
  BY <1>3 DEF vars, hdrVars, utxoVars, mainVars, TypeInv, HeadersTypeOK, PhaseInv
<1> QED
  BY <1>1, <1>2, <1>3 DEF Next, Finished

\* Every step keeps the invariant.
LEMMA SingleStep == ASSUME BlocksAhead, SInv, [Next]_vars PROVE SInv'
<1>1. CASE Headers \/ HeadersPeerFault
  <2>1. (HeadersStep(TRUE) \/ HeadersFault) /\ UNCHANGED <<utxoVars, mainVars>>
    BY <1>1 DEF Headers, HeadersPeerFault
  <2>2. TypeInv' /\ PhaseInv'
    BY <2>1, HeadersTypes DEF SInv
  <2>3. Clean' => CleanInv'
    BY <2>1, <2>2, HeadersClean
  <2> QED
    BY <2>2, <2>3 DEF SInv
<1>2. CASE MainStep \/ ReceiveBlocksFail \/ Loader
  BY <1>2, MainTypes, MainClean DEF SInv
<1>3. CASE UNCHANGED vars
  <2>1. UNCHANGED <<nodes, headers, heights, hpc, hnode, first_block_found, headers_read, chan,
                    hdrFailures, uchan, lpc, utxo_set, spc, snode, schunk, snext, blocks,
                    blkFailures, result>>
    BY <1>3 DEF vars, hdrVars, utxoVars, mainVars
  <2>2. TypeInv' = TypeInv /\ PhaseInv' = PhaseInv /\ Clean' = Clean
    BY <2>1 DEF TypeInv, HeadersTypeOK, PhaseInv, Clean
  <2>3. Sent' = Sent /\ Asked' = Asked
    BY <2>1 DEF Sent, Asked
  <2>4. CleanInv => CleanInv'
    BY <2>1, <2>3 DEF CleanInv, HeadersInv, NodesInv, BlocksInv, LoaderInv, Contiguous, Front,
                      CoinsBelow
  <2> QED
    BY <2>2, <2>4 DEF SInv
<1> QED
  BY <1>1, <1>2, <1>3 DEF Next, Finished

--------------------------------------------------------------------------------
(***************************************************************************)
(* What the function's result means.                                       *)
(***************************************************************************)
\* Ok, with no failure of a headers connection on the way, means every block to
\* the tip, exactly the unspent coins and every connection back in `nodes`
\* (download_full_blockchain_from_single_node), as long as there is a block to
\* download at all: the lists reach the blocks thread and load_utxo_set in the
\* order of the heights, each height once.
THEOREM SingleOkIsComplete == FirstBlock <= Tip => (Spec => []OkMeansComplete)
<1> SUFFICES ASSUME FirstBlock <= Tip PROVE Spec => []OkMeansComplete
  OBVIOUS
<1>1. CASE BlocksAhead
  <2>1. Init => SInv
    BY <1>1, SingleInit
  <2>2. SInv /\ [Next]_vars => SInv'
    BY <1>1, SingleStep
  <2>3. SInv => OkMeansComplete
    <3> SUFFICES ASSUME SInv, result = "ok", NoGap PROVE OkMeansComplete
      BY DEF OkMeansComplete
    <3>1. PhaseInv /\ HeadersTypeOK /\ CleanInv
      BY DEF SInv, Clean, NoGap, TypeInv
    <3>2. spc = "end" /\ lpc = "ended" /\ uchan = <<>> /\ hpc \in {"done", "failed"}
      BY <3>1 DEF PhaseInv, CleanInv, LoaderInv
    <3>3. blocks = FirstBlock .. Tip /\ Asked = Tip + 1
      BY <3>1, <3>2 DEF CleanInv, BlocksInv
    <3>4. utxo_set = CoinsBelow(Tip + 1)
      BY <3>1, <3>2, <3>3 DEF CleanInv, LoaderInv, Front
    <3>5. CoinsBelow(Tip + 1) = Unspent(FirstBlock .. Tip)
      <4>1. (Tip + 1) - 1 = Tip
        BY ChainAssumption
      <4> QED
        BY <4>1 DEF CoinsBelow, Unspent
    <3>6. nodes = Peers
      BY <3>1, <3>2 DEF CleanInv, NodesInv
    <3> QED
      BY <3>3, <3>4, <3>5, <3>6 DEF OkMeansComplete
  <2> QED
    BY <2>1, <2>2, <2>3, PTL DEF Spec
<1>2. CASE ~BlocksAhead
  <2>1. OkMeansComplete
    BY <1>2, ChainAssumption DEF OkMeansComplete, NoGap, BlocksAhead
  <2> QED
    BY <2>1, PTL
<1> QED
  BY <1>1, <1>2

(***************************************************************************)
(* Errors.  HeadersBatchEmpty drops a connection that did not fail, at the *)
(* end of a chain whose last list is full and has no block to download;    *)
(* the next connection finds nothing left to ask for.                      *)
(***************************************************************************)
SomeoneLeft == hdrFailures = 0 /\ result # "err" =>
    /\ hpc = "get" => nodes # {}
    /\ hpc = "get" /\ headers # Tip + 1 => nodes = Peers
    /\ hpc = "first" /\ headers # Tip + 1 => nodes = Peers \ {hnode}
    /\ hpc \in {"loop", "send"} => nodes = Peers \ {hnode}
    /\ hpc # "failed"
    /\ hpc = "done" /\ spc = "headers" => nodes # {}

SeveralPeers == \E p, q \in Peers : p # q

LEMMA SomeoneLeftStep ==
    ASSUME SeveralPeers, TypeInv, PhaseInv, SomeoneLeft, [Next]_vars
    PROVE  SomeoneLeft'
<1> SUFFICES ASSUME hdrFailures' = 0, result' # "err"
             PROVE  /\ hpc' = "get" => nodes' # {}
                    /\ hpc' = "get" /\ headers' # Tip + 1 => nodes' = Peers
                    /\ hpc' = "first" /\ headers' # Tip + 1 => nodes' = Peers \ {hnode'}
                    /\ hpc' \in {"loop", "send"} => nodes' = Peers \ {hnode'}
                    /\ hpc' # "failed"
                    /\ hpc' = "done" /\ spc' = "headers" => nodes' # {}
  BY DEF SomeoneLeft
<1>1. hdrFailures \in Nat /\ headers \in Nat /\ Tip \in Nat /\ BatchSize \in Nat \ {0} /\ nodes \subseteq Peers
  BY ChainAssumption DEF TypeInv, HeadersTypeOK
<1>2. PICK p, q \in Peers : p # q
  BY DEF SeveralPeers
<1>a. Peers # {} /\ \A n : Peers \ {n} # {}
  BY <1>2
<1>b. result # "err" => /\ hpc = "get" => nodes # {}
                        /\ hpc = "get" /\ headers # Tip + 1 => nodes = Peers
                        /\ hpc = "first" /\ headers # Tip + 1 => nodes = Peers \ {hnode}
                        /\ hpc \in {"loop", "send"} => nodes = Peers \ {hnode}
                        /\ hpc # "failed"
                        /\ hpc = "done" /\ spc = "headers" => nodes # {}
                     \/ hdrFailures # 0
  BY DEF SomeoneLeft
<1>3. CASE HeadersPeerFault
  BY <1>1, <1>3 DEF HeadersPeerFault, HeadersFault, HeadersNodeError, HeadersInvalid
<1>4. CASE Headers
  <2>0. HeadersStep(TRUE) /\ spc' = spc /\ result' = result
    BY <1>4 DEF Headers, mainVars
  <2>1. CASE HeadersGetNode
    BY <1>a, <1>b, <2>0, <2>1 DEF HeadersGetNode, get_node
  <2>2. CASE HeadersNoNode
    BY <1>b, <2>0, <2>2 DEF HeadersNoNode
  <2>3. CASE HeadersFirstBatch
    <3>1. Answer.hi \in Int /\ Size(Answer) = BatchSize => headers # Tip + 1
      BY <1>1, AnswerIs DEF Size
    <3>2. UNCHANGED <<nodes, hnode, hdrFailures>> /\ hpc = "first" /\ hpc' \in {"loop", "return"}
      BY <2>3 DEF HeadersFirstBatch, AfterBatch
    <3>3. hpc' = "loop" => Size(Answer) = BatchSize
      BY <2>3 DEF HeadersFirstBatch, AfterBatch
    <3>4. Answer.hi \in Int
      BY AnswerIs
    <3> QED
      BY <1>b, <2>0, <3>1, <3>2, <3>3, <3>4
  <2>4. CASE HeadersBatchToSend
    BY <1>b, <2>0, <2>4 DEF HeadersBatchToSend
  <2>5. CASE HeadersBatchSkipped
    BY <1>b, <2>0, <2>5 DEF HeadersBatchSkipped, AfterBatch
  <2>6. CASE HeadersBatchEmpty
    <3>1. headers' = Tip + 1
      <4>1. headers' = Answer.hi + 1 /\ Size(Answer) = 0
        BY <2>6 DEF HeadersBatchEmpty, ReceiveAndStore
      <4>2. Answer.lo = headers /\ Answer.hi \in Int /\ headers = Tip + 1
        BY <4>1, AnswerIs
      <4>3. Answer.hi + 1 = headers
        BY <1>1, <4>1, <4>2 DEF Size
      <4> QED
        BY <4>1, <4>2, <4>3
    <3> QED
      BY <1>a, <1>b, <2>0, <2>6, <3>1 DEF HeadersBatchEmpty
  <2>7. CASE HeadersSend(TRUE)
    BY <1>b, <2>0, <2>7 DEF HeadersSend, AfterBatch
  <2>8. CASE HeadersReturnNode
    <3>1. nodes' = nodes \cup {hnode}
      BY <2>8 DEF HeadersReturnNode, return_node_to_vec
    <3> QED
      BY <2>8, <3>1 DEF HeadersReturnNode
  <2> QED
    BY <2>0, <2>1, <2>2, <2>3, <2>4, <2>5, <2>6, <2>7, <2>8 DEF HeadersStep
<1>5. CASE MainStep \/ ReceiveBlocksFail
  <2>1. UNCHANGED hdrVars
    BY <1>5 DEF MainStep, Fail, GetNode, NextList, ReceiveBlocks, StoreBlocks, ReturnNode, JoinLoader,
                ReceiveBlocksFail
  <2>2. UNCHANGED <<headers, hpc, hnode, hdrFailures>>
    BY <2>1 DEF hdrVars
  <2>3. CASE nodes' = nodes /\ (result' = result \/ result # "err") /\ (spc' = "headers" => spc = "headers")
    BY <1>b, <2>2, <2>3
  <2>4. CASE GetNode \/ ReturnNode
    <3>1. hpc = "done" /\ spc' # "headers"
      BY <2>4 DEF GetNode, ReturnNode, PhaseInv
    <3> QED
      BY <2>2, <3>1
  <2>5. CASE Fail \/ ReceiveBlocksFail
    BY <2>5 DEF Fail, ReceiveBlocksFail
  <2>6. CASE NextList \/ ReceiveBlocks \/ StoreBlocks \/ JoinLoader
    <3>1. nodes' = nodes /\ spc' # "headers" /\ (result' = result \/ result' = "ok")
      BY <2>6 DEF NextList, ReceiveBlocks, StoreBlocks, JoinLoader
    <3>2. result # "err"
      BY <2>6 DEF NextList, ReceiveBlocks, StoreBlocks, JoinLoader, PhaseInv
    <3> QED
      BY <2>3, <3>1, <3>2
  <2> QED
    BY <1>5, <2>4, <2>5, <2>6 DEF MainStep
<1>6. CASE Loader \/ UNCHANGED vars
  <2>1. UNCHANGED <<nodes, headers, hpc, hnode, hdrFailures, spc, result>>
    BY <1>6 DEF Loader, vars, hdrVars, mainVars
  <2> QED
    BY <1>b, <2>1
<1> QED
  BY <1>3, <1>4, <1>5, <1>6 DEF Next, Finished

\* A list after the first one holds a block to download.
BlocksInLaterList == InitialHeaders + BatchSize <= Tip /\ FirstBlock <= Tip

\* Then the first block is found before the end of the chain, so no connection
\* is dropped before one has failed.
NobodyDropped == hdrFailures = 0 /\ result # "err" =>
    /\ hpc = "get" => nodes = Peers /\ headers = InitialHeaders
    /\ hpc = "first" => nodes = Peers \ {hnode} /\ headers = InitialHeaders
    /\ hpc = "loop" /\ first_block_found = FALSE => headers <= Tip
    /\ hpc # "failed"
    /\ hpc = "done" /\ spc = "headers" => nodes # {}

LEMMA NobodyDroppedStep ==
    ASSUME BlocksInLaterList, Peers # {}, TypeInv, PhaseInv, NobodyDropped, [Next]_vars
    PROVE  NobodyDropped'
<1> SUFFICES ASSUME hdrFailures' = 0, result' # "err"
             PROVE  /\ hpc' = "get" => nodes' = Peers /\ headers' = InitialHeaders
                    /\ hpc' = "first" => nodes' = Peers \ {hnode'} /\ headers' = InitialHeaders
                    /\ hpc' = "loop" /\ first_block_found' = FALSE => headers' <= Tip
                    /\ hpc' # "failed"
                    /\ hpc' = "done" /\ spc' = "headers" => nodes' # {}
  BY DEF NobodyDropped
<1>1. /\ hdrFailures \in Nat /\ headers \in Nat /\ Tip \in Nat /\ BatchSize \in Nat \ {0}
      /\ InitialHeaders \in Nat /\ FirstBlock \in Nat /\ nodes \subseteq Peers
  BY ChainAssumption DEF TypeInv, HeadersTypeOK
<1>2. result # "err" => /\ hpc = "get" => nodes = Peers /\ headers = InitialHeaders
                        /\ hpc = "first" => nodes = Peers \ {hnode} /\ headers = InitialHeaders
                        /\ hpc = "loop" /\ first_block_found = FALSE => headers <= Tip
                        /\ hpc # "failed"
                        /\ hpc = "done" /\ spc = "headers" => nodes # {}
                     \/ hdrFailures # 0
  BY DEF NobodyDropped
<1>3. CASE HeadersPeerFault
  BY <1>1, <1>3 DEF HeadersPeerFault, HeadersFault, HeadersNodeError, HeadersInvalid
<1>4. CASE Headers
  <2>0. HeadersStep(TRUE) /\ spc' = spc /\ result' = result
    BY <1>4 DEF Headers, mainVars
  <2>1. CASE HeadersGetNode
    BY <1>2, <2>0, <2>1 DEF HeadersGetNode, get_node
  <2>2. CASE HeadersNoNode
    BY <1>2, <2>0, <2>2 DEF HeadersNoNode
  <2>3. CASE HeadersFirstBatch
    <3>1. /\ hpc = "first" /\ hpc' \in {"loop", "return"} /\ hdrFailures' = hdrFailures
          /\ headers' = Answer.hi + 1 /\ (hpc' = "loop" => Size(Answer) = BatchSize)
      BY <2>3 DEF HeadersFirstBatch, AfterBatch, ReceiveAndStore
    <3>2. headers = InitialHeaders
      BY <1>2, <2>0, <3>1
    <3>3. Answer.lo = headers /\ Answer.hi \in Int
      BY AnswerIs
    <3>4. hpc' = "loop" => headers' <= Tip
      BY <1>1, <3>1, <3>2, <3>3 DEF Size, BlocksInLaterList
    <3> QED
      BY <3>1, <3>4
  <2>4. CASE HeadersBatchToSend
    BY <2>4 DEF HeadersBatchToSend
  <2>5. CASE HeadersBatchSkipped
    <3>1. hpc' \in {"loop", "return"} /\ headers' = Answer.hi + 1 /\ Answer.hi < FirstBlock
      BY <2>5 DEF HeadersBatchSkipped, AfterBatch, ReceiveAndStore
    <3>2. Answer.hi \in Int
      BY AnswerIs
    <3>3. headers' <= Tip
      BY <1>1, <3>1, <3>2 DEF BlocksInLaterList
    <3> QED
      BY <3>1, <3>3
  <2>6. CASE HeadersBatchEmpty
    <3>1. hpc = "loop" /\ first_block_found = FALSE /\ Size(Answer) = 0 /\ hdrFailures' = hdrFailures
      BY <2>6 DEF HeadersBatchEmpty, TypeInv, HeadersTypeOK
    <3>2. headers <= Tip
      BY <1>2, <2>0, <3>1
    <3>3. headers = Tip + 1
      BY <3>1, AnswerIs
    <3> QED
      BY <1>1, <3>2, <3>3
  <2>7. CASE HeadersSend(TRUE)
    BY <2>7 DEF HeadersSend, AfterBatch
  <2>8. CASE HeadersReturnNode
    <3>1. nodes' = nodes \cup {hnode}
      BY <2>8 DEF HeadersReturnNode, return_node_to_vec
    <3> QED
      BY <2>8, <3>1 DEF HeadersReturnNode
  <2> QED
    BY <2>0, <2>1, <2>2, <2>3, <2>4, <2>5, <2>6, <2>7, <2>8 DEF HeadersStep
<1>5. CASE MainStep \/ ReceiveBlocksFail
  <2>1. UNCHANGED hdrVars
    BY <1>5 DEF MainStep, Fail, GetNode, NextList, ReceiveBlocks, StoreBlocks, ReturnNode, JoinLoader,
                ReceiveBlocksFail
  <2>2. UNCHANGED <<headers, hpc, hnode, first_block_found, hdrFailures>>
    BY <2>1 DEF hdrVars
  <2>3. CASE GetNode \/ ReturnNode
    <3>1. hpc = "done" /\ spc' # "headers"
      BY <2>3 DEF GetNode, ReturnNode, PhaseInv
    <3> QED
      BY <2>2, <3>1
  <2>4. CASE Fail \/ ReceiveBlocksFail
    BY <2>4 DEF Fail, ReceiveBlocksFail
  <2>5. CASE NextList \/ ReceiveBlocks \/ StoreBlocks \/ JoinLoader
    <3>1. nodes' = nodes /\ spc' # "headers"
      BY <2>5 DEF NextList, ReceiveBlocks, StoreBlocks, JoinLoader
    <3>2. result # "err"
      BY <2>5 DEF NextList, ReceiveBlocks, StoreBlocks, JoinLoader, PhaseInv
    <3> QED
      BY <1>2, <2>2, <3>1, <3>2
  <2> QED
    BY <1>5, <2>3, <2>4, <2>5 DEF MainStep
<1>6. CASE Loader \/ UNCHANGED vars
  <2>1. UNCHANGED <<nodes, headers, hpc, hnode, first_block_found, hdrFailures, spc, result>>
    BY <1>6 DEF Loader, vars, hdrVars, mainVars
  <2> QED
    BY <1>2, <2>1
<1> QED
  BY <1>3, <1>4, <1>5, <1>6 DEF Next, Finished

\* What is left for Fail, in either case.
LEMMA ErrorStep ==
    ASSUME TypeInv, [Next]_vars, ErrorMeansFailure,
           Fail => hdrFailures # 0
    PROVE  ErrorMeansFailure'
<1>1. hdrFailures \in Nat /\ blkFailures \in Nat
  BY ChainAssumption DEF TypeInv, HeadersTypeOK
<1>2. CASE Fail
  <2>1. hdrFailures' = hdrFailures /\ blkFailures' = blkFailures
    BY <1>2 DEF Fail, hdrVars
  <2> QED
    BY <1>1, <1>2, <2>1 DEF ErrorMeansFailure
<1>3. CASE ReceiveBlocksFail
  <2>1. hdrFailures' = hdrFailures /\ blkFailures' = blkFailures + 1
    BY <1>3 DEF ReceiveBlocksFail, hdrVars
  <2> QED
    BY <1>1, <2>1 DEF ErrorMeansFailure
<1>4. CASE ~Fail /\ ~ReceiveBlocksFail
  <2>1. result' = result \/ result' = "ok"
    BY <1>4 DEF Next, MainStep, GetNode, NextList, ReceiveBlocks, StoreBlocks, ReturnNode,
                JoinLoader, Loader, Finished, Headers, HeadersPeerFault, vars, mainVars
  <2>2. blkFailures' = blkFailures
    BY <1>4 DEF Next, MainStep, GetNode, NextList, ReceiveBlocks, StoreBlocks, ReturnNode,
                JoinLoader, Loader, Finished, Headers, HeadersPeerFault, vars, mainVars
  <2>3. hdrFailures' = hdrFailures \/ hdrFailures' = hdrFailures + 1
    BY <1>4 DEF Next, MainStep, GetNode, NextList, ReceiveBlocks, StoreBlocks, ReturnNode,
                JoinLoader, Loader, Finished, Headers, HeadersPeerFault, vars, hdrVars,
                HeadersStep, HeadersFault, HeadersGetNode, HeadersNoNode, HeadersFirstBatch,
                HeadersBatchToSend, HeadersBatchSkipped, HeadersBatchEmpty, HeadersSend,
                HeadersReturnNode, HeadersNodeError, HeadersInvalid
  <2> QED
    BY <1>1, <2>1, <2>2, <2>3 DEF ErrorMeansFailure
<1> QED
  BY <1>2, <1>3, <1>4

\* The single-node download returns an error only after a connection failed,
\* when there are several connections to begin with: the one that
\* HeadersBatchEmpty may drop is not the last.  With one connection it is needed
\* that a list after the first one holds a block to download.
THEOREM SingleErrorIsFailure ==
    SeveralPeers \/ (BlocksInLaterList /\ Peers # {}) => (Spec => []ErrorMeansFailure)
<1>1. ASSUME SeveralPeers PROVE Spec => []ErrorMeansFailure
  <2> DEFINE Inv == TypeInv /\ PhaseInv /\ SomeoneLeft /\ ErrorMeansFailure
  <2>1. Init => Inv
    <3> SUFFICES ASSUME Init PROVE Inv
      OBVIOUS
    <3>1. Peers # {}
      BY <1>1 DEF SeveralPeers
    <3> QED
      BY TypesInit, <3>1 DEF Init, HeadersInit, SomeoneLeft, ErrorMeansFailure
  <2>2. Inv /\ [Next]_vars => Inv'
    <3> SUFFICES ASSUME Inv, [Next]_vars PROVE Inv'
      OBVIOUS
    <3>1. TypeInv' /\ PhaseInv' /\ SomeoneLeft'
      BY <1>1, TypesStep, SomeoneLeftStep
    <3>2. Fail => hdrFailures # 0
      BY DEF Fail, SomeoneLeft, PhaseInv
    <3>3. ErrorMeansFailure'
      BY <3>2, ErrorStep
    <3> QED
      BY <3>1, <3>3
  <2> QED
    BY <2>1, <2>2, PTL DEF Spec
<1>2. ASSUME BlocksInLaterList, Peers # {} PROVE Spec => []ErrorMeansFailure
  <2> DEFINE Inv == TypeInv /\ PhaseInv /\ NobodyDropped /\ ErrorMeansFailure
  <2>1. Init => Inv
    BY <1>2, TypesInit DEF Init, HeadersInit, NobodyDropped, ErrorMeansFailure
  <2>2. Inv /\ [Next]_vars => Inv'
    <3> SUFFICES ASSUME Inv, [Next]_vars PROVE Inv'
      OBVIOUS
    <3>1. TypeInv' /\ PhaseInv' /\ NobodyDropped'
      BY <1>2, TypesStep, NobodyDroppedStep
    <3>2. Fail => hdrFailures # 0
      BY DEF Fail, NobodyDropped, PhaseInv
    <3>3. ErrorMeansFailure'
      BY <3>2, ErrorStep
    <3> QED
      BY <3>1, <3>3
  <2> QED
    BY <2>1, <2>2, PTL DEF Spec
<1> QED
  BY <1>1, <1>2
=============================================================================
