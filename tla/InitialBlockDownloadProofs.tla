---------------------- MODULE InitialBlockDownloadProofs ----------------------
EXTENDS InitialBlockDownload, TLAPS, FiniteSetTheorems

--------------------------------------------------------------------------------
(***************************************************************************)
(* Division rounded up, and the chunks of a list of headers.               *)
(***************************************************************************)
\* Division rounds down.
LEMMA DivisionRoundsDown ==
    ASSUME NEW a \in Nat, NEW d \in Nat \ {0}
    PROVE  /\ a \div d \in Nat
           /\ d * (a \div d) <= a
           /\ a < d * (a \div d) + d
BY Z3

\* CeilDiv is the least q with a <= q * d.
LEMMA CeilDivBounds ==
    ASSUME NEW a \in Nat \ {0}, NEW d \in Nat \ {0}
    PROVE  /\ CeilDiv(a, d) \in Nat \ {0}
           /\ a <= d * CeilDiv(a, d)
           /\ d * (CeilDiv(a, d) - 1) < a
<1> DEFINE n == a + d - 1
<1>1. n \in Nat
  OBVIOUS
<1>2. /\ n \div d \in Nat
      /\ d * (n \div d) <= n
      /\ n < d * (n \div d) + d
  BY <1>1, DivisionRoundsDown
<1>3. CeilDiv(a, d) = n \div d
  BY DEF CeilDiv
<1> DEFINE q == n \div d
<1>4. q \in Nat /\ d * q <= n /\ n < d * q + d
  BY <1>2
<1> HIDE DEF q
<1>5. a <= d * q
  BY <1>4
<1>6. q # 0
  BY <1>4, <1>5
<1>7. d * (q - 1) = d * q - d
  BY <1>4
<1>8. d * (q - 1) < a
  BY <1>4, <1>7
<1> QED
  BY <1>3, <1>4, <1>5, <1>6, <1>8 DEF q

\* There are at most NThreads chunks, each is a non-empty part of the list,
\* and together they cover it (divide_blocks_to_download_in_equal_chunks).
LEMMA ChunkFacts ==
    ASSUME NEW b \in Batches, Size(b) > 0
    PROVE  /\ AmountOfChunks(b) \in 1 .. NThreads
           /\ \A i \in 1 .. AmountOfChunks(b) :
                /\ Chunk(b, i) \in Batches
                /\ b.lo <= Chunk(b, i).lo
                /\ Chunk(b, i).lo <= Chunk(b, i).hi
                /\ Chunk(b, i).hi <= b.hi
           /\ \A h \in Heights(b) :
                \E i \in 1 .. AmountOfChunks(b) : h \in Heights(Chunk(b, i))
<1> DEFINE n == IF Size(b) <= BlocksPerNode THEN 1 ELSE NThreads
           c == ChunkSize(b)
           m == AmountOfChunks(b)
           s == Size(b)
<1>1. /\ b.lo \in Nat /\ b.hi \in Int /\ s = b.hi - b.lo + 1
      /\ s \in Nat \ {0} /\ n \in Nat \ {0} /\ n <= NThreads
  BY WorkersAssumption DEF Batches, Size
<1>2. /\ c \in Nat \ {0}
      /\ s <= n * c
      /\ n * (c - 1) < s
  <2>1. c = CeilDiv(s, n)
    BY DEF ChunkSize
  <2> QED
    BY <1>1, <2>1, CeilDivBounds
<1>3. /\ m \in Nat \ {0}
      /\ s <= c * m
      /\ c * (m - 1) < s
  <2>1. m = CeilDiv(s, c)
    BY DEF AmountOfChunks
  <2> QED
    BY <1>1, <1>2, <2>1, CeilDivBounds
<1>4. \A i \in 1 .. m :
        /\ Chunk(b, i).lo = b.lo + (i - 1) * c
        /\ Chunk(b, i).hi = Least(b.lo + i * c - 1, b.hi)
        /\ Chunk(b, i) = [lo |-> Chunk(b, i).lo, hi |-> Chunk(b, i).hi]
  BY DEF Chunk, Batch
<1> HIDE DEF n, c, m, s
<1>5. m <= n
  <2> SUFFICES ASSUME m > n PROVE FALSE
    BY <1>1, <1>3
  <2>1. c * n <= c * (m - 1)
    BY <1>1, <1>2, <1>3
  <2> QED
    BY <1>1, <1>2, <1>3, <2>1
<1>6. ASSUME NEW i \in 1 .. m
      PROVE  /\ (i - 1) * c \in Nat
             /\ i * c = (i - 1) * c + c
             /\ (i - 1) * c < s
  <2>1. i \in Nat /\ 1 <= i /\ i <= m
    BY <1>3
  <2>2. (i - 1) * c <= (m - 1) * c
    BY <1>2, <1>3, <2>1
  <2>3. (m - 1) * c = c * (m - 1)
    BY <1>2, <1>3
  <2>4. (i - 1) * c \in Nat /\ i * c = (i - 1) * c + c
    BY <1>2, <2>1
  <2> QED
    BY <1>1, <1>2, <1>3, <2>2, <2>3, <2>4
<1>7. ASSUME NEW i \in 1 .. m
      PROVE  /\ Chunk(b, i) \in Batches
             /\ b.lo <= Chunk(b, i).lo
             /\ Chunk(b, i).lo <= Chunk(b, i).hi
             /\ Chunk(b, i).hi <= b.hi
  <2>1. /\ Chunk(b, i).lo \in Nat
        /\ Chunk(b, i).hi \in Int
        /\ b.lo <= Chunk(b, i).lo
        /\ Chunk(b, i).lo <= Chunk(b, i).hi
        /\ Chunk(b, i).hi <= b.hi
    <3> DEFINE x == (i - 1) * c
    <3>1. x \in Nat /\ x < s /\ i * c = x + c
      BY <1>6
    <3>2. Chunk(b, i).lo = b.lo + x /\ Chunk(b, i).hi = Least(b.lo + i * c - 1, b.hi)
      BY <1>4
    <3> HIDE DEF x
    <3>3. Chunk(b, i).hi = Least(b.lo + (x + c) - 1, b.hi)
      BY <3>1, <3>2
    <3> QED
      BY <1>1, <1>2, <3>1, <3>2, <3>3 DEF Least
  <2> QED
    BY <1>4, <2>1 DEF Batches
<1>8. ASSUME NEW h \in Heights(b)
      PROVE  \E i \in 1 .. m : h \in Heights(Chunk(b, i))
  <2> DEFINE q == (h - b.lo) \div c
             y == c * q
  <2>1. h \in Int /\ b.lo <= h /\ h <= b.hi
    BY <1>1 DEF Heights
  <2>2. q \in Nat /\ y <= h - b.lo /\ h - b.lo < y + c
    <3>1. h - b.lo \in Nat
      BY <1>1, <2>1
    <3> QED
      BY <1>2, <3>1, DivisionRoundsDown
  <2>3. y \in Nat
    BY <1>2, <2>2
  <2> HIDE DEF q
  <2>4. q < m
    <3> SUFFICES ASSUME q >= m PROVE FALSE
      BY <1>3, <2>2
    <3>1. c * m <= c * q
      BY <1>2, <1>3, <2>2
    <3> QED
      BY <1>1, <1>2, <1>3, <2>1, <2>2, <3>1
  <2>5. q + 1 \in 1 .. m
    BY <1>3, <2>2, <2>4
  <2>6. \A j \in 1 .. m : j = q + 1 => (j - 1) * c = y /\ j * c = y + c
    BY <1>2, <2>2
  <2> HIDE DEF y
  <2>7. /\ Chunk(b, q + 1).lo = b.lo + y
        /\ Chunk(b, q + 1).hi = Least(b.lo + (y + c) - 1, b.hi)
    <3>1. PICK j \in 1 .. m : j = q + 1
      BY <2>5
    <3>2. (j - 1) * c = y /\ j * c = y + c
      BY <2>6, <3>1
    <3>3. /\ Chunk(b, j).lo = b.lo + (j - 1) * c
          /\ Chunk(b, j).hi = Least(b.lo + j * c - 1, b.hi)
      BY <1>4
    <3> QED
      BY <3>1, <3>2, <3>3
  <2>8. h \in Heights(Chunk(b, q + 1))
    BY <1>1, <1>2, <2>1, <2>2, <2>3, <2>7 DEF Heights, Least
  <2> QED
    BY <2>5, <2>8
<1>9. m \in 1 .. NThreads
  BY <1>1, <1>3, <1>5, WorkersAssumption
<1> QED
  BY <1>7, <1>8, <1>9 DEF m
--------------------------------------------------------------------------------
(***************************************************************************)
(* The channels as sequences: what sending and receiving do.               *)
(***************************************************************************)
\* A list of headers has its two ends.
LEMMA BatchFacts ==
    /\ \A lo \in Nat, hi \in Int :
         Batch(lo, hi) \in Batches /\ Batch(lo, hi).lo = lo /\ Batch(lo, hi).hi = hi
    /\ \A b \in Batches : b.lo \in Nat /\ b.hi \in Int
BY DEF Batch, Batches

\* Sending keeps what is in the channel and adds one list.
LEMMA AppendFacts ==
    ASSUME NEW s \in Seq(Batches), NEW b \in Batches
    PROVE  /\ Append(s, b) \in Seq(Batches)
           /\ \A i \in DOMAIN s : i \in DOMAIN Append(s, b) /\ Append(s, b)[i] = s[i]
           /\ \E i \in DOMAIN Append(s, b) : Append(s, b)[i] = b
           /\ \A i \in DOMAIN Append(s, b) :
                \/ Append(s, b)[i] = b
                \/ i \in DOMAIN s /\ Append(s, b)[i] = s[i]
<1>1. Len(s) + 1 \in DOMAIN Append(s, b) /\ Append(s, b)[Len(s) + 1] = b
  OBVIOUS
<1> QED
  BY <1>1

\* Receiving takes the first list and leaves the others.
LEMMA TailFacts ==
    ASSUME NEW s \in Seq(Batches), s # <<>>
    PROVE  /\ Head(s) \in Batches
           /\ Tail(s) \in Seq(Batches)
           /\ \E i \in DOMAIN s : s[i] = Head(s)
           /\ \A i \in DOMAIN Tail(s) : \E j \in DOMAIN s : Tail(s)[i] = s[j]
           /\ \A j \in DOMAIN s :
                s[j] = Head(s) \/ \E i \in DOMAIN Tail(s) : Tail(s)[i] = s[j]
<1>1. Len(s) \in Nat /\ Len(s) > 0 /\ DOMAIN s = 1 .. Len(s)
  OBVIOUS
<1>2. /\ Head(s) = s[1] /\ Tail(s) \in Seq(Batches)
      /\ DOMAIN Tail(s) = 1 .. (Len(s) - 1)
      /\ \A i \in 1 .. (Len(s) - 1) : Tail(s)[i] = s[i + 1]
  BY <1>1
<1>3. Head(s) \in Batches /\ \E i \in DOMAIN s : s[i] = Head(s)
  BY <1>1, <1>2
<1>4. ASSUME NEW i \in DOMAIN Tail(s)
      PROVE  \E j \in DOMAIN s : Tail(s)[i] = s[j]
  BY <1>1, <1>2
<1>5. ASSUME NEW j \in DOMAIN s, s[j] # Head(s)
      PROVE  \E i \in DOMAIN Tail(s) : Tail(s)[i] = s[j]
  <2>1. j - 1 \in 1 .. (Len(s) - 1) /\ Tail(s)[j - 1] = s[j]
    BY <1>1, <1>2, <1>5
  <2> QED
    BY <1>2, <2>1
<1> QED
  BY <1>2, <1>3, <1>4, <1>5

--------------------------------------------------------------------------------
(***************************************************************************)
(* The invariant holds initially.                                          *)
(***************************************************************************)
\* The initial states satisfy the inductive invariant.
LEMMA InitInv == Init => IInv
<1> SUFFICES ASSUME Init PROVE IInv
  OBVIOUS
<1> USE ChainAssumption, PeersAssumption, WorkersAssumption
        DEF Init, HeadersInit, BlocksInit, LoaderInit, Workers
<1>1. TypeOK
  <2>1. Batch(0, -1) \in Batches /\ headers_read \in Batches
    BY BatchFacts
  <2>2. HeadersTypeOK
    <3>1. first_block_found \in BOOLEAN
      BY Zenon
    <3> QED
      BY <2>1, <3>1 DEF HeadersTypeOK
  <2>3. BlocksTypeOK /\ LoaderTypeOK
    BY <2>1 DEF BlocksTypeOK, LoaderTypeOK
  <2> QED
    BY <2>2, <2>3 DEF TypeOK
<1>2. NodesInv
  BY DEF NodesInv, NodesNotShared
<1>3. RangeInv
  BY DEF RangeInv, InRange
<1>4. PhaseInv
  BY DEF PhaseInv, ReceiverOpen
<1>5. WorkInv
  BY DEF WorkInv, NoGap, WorkConserved, NotStarted, NothingSent, NothingMissed
<1>6. CoinInv
  BY DEF CoinInv, UnspentCoinsKept, Unspent
<1> QED
  BY <1>1, <1>2, <1>3, <1>4, <1>5, <1>6 DEF IInv

--------------------------------------------------------------------------------
(***************************************************************************)
(* Steps of the headers thread.                                            *)
(***************************************************************************)
\* The list of headers the peers answer with.
LEMMA AnswerFacts ==
    ASSUME HeadersTypeOK, headers <= Tip + 1
    PROVE  /\ Answer \in Batches
           /\ Answer.lo = headers /\ Answer.hi \in Int
           /\ headers <= Answer.hi + 1 /\ Answer.hi <= Tip
           /\ Size(Answer) = Answer.hi + 1 - headers
           /\ Size(Answer) \in 0 .. BatchSize
           /\ Size(Answer) # BatchSize => Answer.hi = Tip
<1>1. headers \in Nat \ {0} /\ BatchSize \in Nat \ {0} /\ Tip \in Nat
  BY ChainAssumption DEF HeadersTypeOK
<1> DEFINE hi == Least(headers + BatchSize - 1, Tip)
<1>2. /\ hi \in Int /\ headers <= hi + 1 /\ hi <= Tip /\ hi <= headers + BatchSize - 1
      /\ hi + 1 - headers # BatchSize => hi = Tip
  BY <1>1 DEF Least
<1>3. Answer = Batch(headers, hi)
  BY DEF Answer
<1> HIDE DEF hi
<1>4. Answer \in Batches /\ Answer.lo = headers /\ Answer.hi = hi
  BY <1>1, <1>2, <1>3, BatchFacts
<1>5. Size(Answer) = hi - headers + 1
  BY <1>4 DEF Size
<1> QED
  BY <1>1, <1>2, <1>4, <1>5

\* Steps that leave the blocks thread, the workers and the loader alone keep
\* what the invariant says of them, as long as headers only grow.
LEMMA HeadersGrow ==
    ASSUME IInv, UNCHANGED <<blkVars, utxoVars, result>>, headers' \in Nat,
           headers <= headers'
    PROVE  /\ (BlocksTypeOK /\ LoaderTypeOK)'
           /\ CoinInv'
           /\ result' \in {"running", "ok", "err"}
           /\ blocks' \subseteq FirstBlock .. (headers' - 1)
           /\ utxo_set' \subseteq FirstBlock .. (headers' - 1)
           /\ \A b \in Batches : InRange(b, headers) => InRange(b, headers')
           /\ \A i \in DOMAIN uchan' : InRange(uchan'[i], headers')
           /\ \A w \in Workers : wpc'[w] \in {"waiting", "run", "stored"} =>
                /\ InRange(wchunk'[w], headers')
                /\ wchunk'[w].lo <= wnext'[w]
                /\ wnext'[w] <= wchunk'[w].hi + 1
<1> USE DEF blkVars, utxoVars
<1>1. headers \in Nat /\ FirstBlock \in Nat
  BY ChainAssumption DEF IInv, TypeOK, HeadersTypeOK
<1>2. (BlocksTypeOK /\ LoaderTypeOK)'
  BY DEF IInv, TypeOK, BlocksTypeOK, LoaderTypeOK
<1>3. CoinInv'
  BY DEF IInv, CoinInv, UnspentCoinsKept, CoinKept
<1>4. result' \in {"running", "ok", "err"}
  BY DEF IInv, TypeOK
<1>5. \A b \in Batches : InRange(b, headers) => InRange(b, headers')
  BY <1>1, BatchFacts DEF InRange
<1>6. /\ blocks' \subseteq FirstBlock .. (headers' - 1)
      /\ utxo_set' \subseteq FirstBlock .. (headers' - 1)
  <2>1. /\ blocks \subseteq FirstBlock .. (headers - 1)
        /\ utxo_set \subseteq FirstBlock .. (headers - 1)
    BY DEF IInv, RangeInv
  <2>2. PICK len \in Nat : len = headers'
    OBVIOUS
  <2>3. headers <= len
    BY <2>2
  <2>4. FirstBlock .. (headers - 1) \subseteq FirstBlock .. (len - 1)
    BY <1>1, <2>3
  <2> QED
    BY <2>1, <2>2, <2>4
<1>7. \A i \in DOMAIN uchan' : InRange(uchan'[i], headers')
  <2>1. uchan \in Seq(Batches) /\ \A i \in DOMAIN uchan : InRange(uchan[i], headers)
    BY DEF IInv, TypeOK, BlocksTypeOK, LoaderTypeOK, RangeInv
  <2> QED
    BY <1>5, <2>1
<1>8. \A w \in Workers : wpc'[w] \in {"waiting", "run", "stored"} =>
                /\ InRange(wchunk'[w], headers')
                /\ wchunk'[w].lo <= wnext'[w]
                /\ wnext'[w] <= wchunk'[w].hi + 1
  <2>1. wchunk \in [Workers -> Batches]
    BY DEF IInv, TypeOK, BlocksTypeOK, LoaderTypeOK
  <2> QED
    BY <1>5, <2>1 DEF IInv, RangeInv
<1> QED
  BY <1>2, <1>3, <1>4, <1>5, <1>6, <1>7, <1>8

\* A step that neither receives headers nor sends keeps RangeInv.
LEMMA RangeKept ==
    ASSUME IInv, UNCHANGED <<blkVars, utxoVars, result, headers, chan>>
    PROVE  RangeInv'
BY DEF IInv, RangeInv, blkVars, utxoVars

\* get_node by the headers thread.
LEMMA HeadersGetNodeInv ==
    ASSUME IInv, HeadersGetNode, UNCHANGED <<blkVars, utxoVars, result>>
    PROVE  IInv'
<1> USE DEF HeadersGetNode, get_node
<1>1. headers' \in Nat /\ headers <= headers'
  BY DEF IInv, TypeOK, HeadersTypeOK
<1>2. TypeOK'
  <2>1. first_block_found' \in BOOLEAN
    BY Zenon
  <2>2. HeadersTypeOK'
    BY <2>1 DEF IInv, TypeOK, HeadersTypeOK
  <2> QED
    BY <1>1, <2>2, HeadersGrow DEF TypeOK
<1>3. NodesInv'
  BY PeersAssumption DEF IInv, TypeOK, HeadersTypeOK, NodesInv, NodesNotShared, blkVars
<1>4. RangeInv'
  BY RangeKept
<1>5. PhaseInv'
  BY DEF IInv, PhaseInv, ReceiverOpen, blkVars
<1>6. WorkInv'
  BY DEF IInv, WorkInv, WorkConserved, NotStarted, NothingSent, NothingMissed,
         Accounted, NoGap, ReceiverOpen, blkVars
<1> QED
  BY <1>1, <1>2, <1>3, <1>4, <1>5, <1>6, HeadersGrow DEF IInv

\* No connection is left for the headers thread.
LEMMA HeadersNoNodeInv ==
    ASSUME IInv, HeadersNoNode, UNCHANGED <<blkVars, utxoVars, result>>
    PROVE  IInv'
<1> USE DEF HeadersNoNode
<1>1. headers' \in Nat /\ headers <= headers'
  BY DEF IInv, TypeOK, HeadersTypeOK
<1>2. TypeOK'
  <2>1. HeadersTypeOK'
    BY DEF IInv, TypeOK, HeadersTypeOK
  <2> QED
    BY <1>1, <2>1, HeadersGrow DEF TypeOK
<1>3. NodesInv'
  BY DEF IInv, NodesInv, NodesNotShared, blkVars
<1>4. RangeInv'
  BY RangeKept
<1>5. PhaseInv'
  BY DEF IInv, PhaseInv, ReceiverOpen, blkVars
<1>6. WorkInv'
  BY ChainAssumption
     DEF IInv, WorkInv, WorkConserved, NotStarted, NothingSent, NothingMissed,
         Accounted, NoGap, ReceiverOpen, blkVars
<1> QED
  BY <1>1, <1>2, <1>3, <1>4, <1>5, <1>6, HeadersGrow DEF IInv

\* What receiving a list of headers does to the headers and the ranges.
LEMMA ReceiveAndStoreFacts ==
    ASSUME IInv, ReceiveAndStore, UNCHANGED <<blkVars, utxoVars, result, chan>>
    PROVE  /\ headers' \in Nat \ {0} /\ headers <= headers' /\ headers' <= Tip + 1
           /\ heights' \in Nat
           /\ headers_read' = Answer /\ headers' = Answer.hi + 1
           /\ RangeInv'
           /\ headers \in Nat \ {0} /\ headers <= Tip + 1
           /\ Answer \in Batches /\ Answer.lo = headers /\ Answer.hi \in Int
           /\ headers <= Answer.hi + 1 /\ Answer.hi <= Tip
           /\ Size(Answer) = Answer.hi + 1 - headers
           /\ Size(Answer) \in 0 .. BatchSize
           /\ Size(Answer) # BatchSize => Answer.hi = Tip
<1>1. HeadersTypeOK /\ headers <= Tip + 1 /\ headers \in Nat \ {0} /\ heights \in Nat
  BY DEF IInv, TypeOK, HeadersTypeOK, RangeInv
<1>2. /\ Answer.hi \in Int /\ headers <= Answer.hi + 1 /\ Answer.hi <= Tip
  BY <1>1, AnswerFacts
<1>3. /\ headers' = Answer.hi + 1
      /\ heights' = Most(heights, Answer.hi + 1)
      /\ headers_read' = Answer
  BY DEF ReceiveAndStore
<1>4. headers' \in Nat \ {0} /\ headers <= headers' /\ headers' <= Tip + 1 /\ heights' \in Nat
  BY <1>1, <1>2, <1>3, ChainAssumption DEF Most
<1>5. RangeInv'
  <2>1. \A b \in Batches : InRange(b, headers) => InRange(b, headers')
    BY <1>4, HeadersGrow
  <2>2. \A i \in DOMAIN chan' : InRange(chan'[i], headers')
    BY <2>1 DEF IInv, TypeOK, HeadersTypeOK, RangeInv
  <2> QED
    BY <1>4, <2>2, HeadersGrow DEF RangeInv
<1> QED
  BY <1>1, <1>3, <1>4, <1>5, AnswerFacts

\* The first list of headers from a connection.
LEMMA HeadersFirstBatchInv ==
    ASSUME IInv, HeadersFirstBatch, UNCHANGED <<blkVars, utxoVars, result>>
    PROVE  IInv'
<1> USE DEF HeadersFirstBatch
<1>1. /\ headers' \in Nat \ {0} /\ headers <= headers' /\ heights' \in Nat
      /\ headers_read' = Answer /\ headers' = Answer.hi + 1
      /\ RangeInv'
  BY ReceiveAndStoreFacts
<1>2. headers \in Nat \ {0} /\ headers <= Tip + 1
  BY ReceiveAndStoreFacts
<1>3. /\ Answer \in Batches /\ Answer.lo = headers /\ Answer.hi \in Int
      /\ headers <= Answer.hi + 1 /\ Answer.hi <= Tip
      /\ Size(Answer) = Answer.hi + 1 - headers
      /\ Size(Answer) \in 0 .. BatchSize
      /\ Size(Answer) # BatchSize => Answer.hi = Tip
  BY ReceiveAndStoreFacts
<1>4. TypeOK'
  <2>1. hpc' \in {"loop", "return"}
    BY DEF AfterBatch
  <2>2. HeadersTypeOK'
    BY <1>1, <1>2, <1>3, <2>1 DEF IInv, TypeOK, HeadersTypeOK
  <2> QED
    BY <1>1, <2>2, HeadersGrow DEF TypeOK
<1>5. NodesInv'
  BY DEF IInv, NodesInv, NodesNotShared, blkVars, AfterBatch
<1>6. PhaseInv'
  <2>1. hpc' = "return" => headers' = Tip + 1
    BY <1>1, <1>3 DEF AfterBatch
  <2>2. headers > FirstBlock => headers' > FirstBlock
    BY <1>1, <1>2, <1>3, ChainAssumption
  <2>3. hpc' # "send" /\ hpc' # "done"
    BY DEF AfterBatch
  <2> QED
    BY <2>1, <2>2, <2>3 DEF IInv, PhaseInv, ReceiverOpen, blkVars
<1>7. WorkInv'
  <2> SUFFICES ASSUME NoGap' PROVE (WorkConserved /\ NotStarted /\ NothingSent /\ NothingMissed)'
    BY DEF WorkInv, WorkConserved
  <2>1. /\ ~first_block_found /\ bpc = "recv" /\ chan = <<>>
        /\ headers = InitialHeaders \/ FirstBlock > Tip
        /\ FirstBlock >= InitialHeaders + BatchSize
    BY DEF NoGap, IInv, WorkInv, NotStarted, NothingSent
  <2>2. headers' <= FirstBlock
    BY <1>1, <1>2, <1>3, <2>1, ChainAssumption
  <2>3. hpc' \in {"loop", "return"}
    BY DEF AfterBatch
  <2>4. FirstBlock .. (headers' - 1) = {}
    BY <1>1, <1>2, <1>3, <2>2, ChainAssumption
  <2> QED
    BY <2>1, <2>2, <2>3, <2>4
       DEF WorkConserved, NotStarted, NothingSent, NothingMissed, blkVars
<1> QED
  BY <1>1, <1>4, <1>5, <1>6, <1>7, HeadersGrow DEF IInv

\* A later list of headers, stored and about to be sent.
LEMMA HeadersBatchToSendInv ==
    ASSUME IInv, HeadersBatchToSend, UNCHANGED <<blkVars, utxoVars, result>>
    PROVE  IInv'
<1> USE DEF HeadersBatchToSend
<1>1. /\ headers' \in Nat \ {0} /\ headers <= headers' /\ heights' \in Nat
      /\ headers_read' = Answer /\ headers' = Answer.hi + 1
      /\ RangeInv'
  BY ReceiveAndStoreFacts
<1>2. headers \in Nat \ {0} /\ headers <= Tip + 1
  BY ReceiveAndStoreFacts
<1>3. /\ Answer \in Batches /\ Answer.lo = headers /\ Answer.hi \in Int
      /\ headers <= Answer.hi + 1 /\ Answer.hi <= Tip
      /\ Size(Answer) = Answer.hi + 1 - headers
      /\ Size(Answer) \in 0 .. BatchSize
      /\ Size(Answer) # BatchSize => Answer.hi = Tip
  BY ReceiveAndStoreFacts
<1>4. TypeOK'
  <2>1. HeadersTypeOK'
    BY <1>1, <1>2, <1>3 DEF IInv, TypeOK, HeadersTypeOK
  <2> QED
    BY <1>1, <2>1, HeadersGrow DEF TypeOK
<1>5. NodesInv'
  BY DEF IInv, NodesInv, NodesNotShared, blkVars
<1>6. headers' > FirstBlock /\ (first_block_found => headers > FirstBlock)
  <2>1. first_block_found => headers > FirstBlock
    BY DEF IInv, PhaseInv
  <2> QED
    BY <1>1, <1>2, <1>3, <2>1, ChainAssumption
<1>7. PhaseInv'
  <2>1. /\ headers_read'.hi = headers' - 1
        /\ headers_read'.lo <= headers'
        /\ first_block_found => headers_read'.lo > FirstBlock
        /\ Size(headers_read)' # BatchSize => headers' = Tip + 1
    BY <1>1, <1>2, <1>3, <1>6, ChainAssumption DEF Size
  <2> QED
    BY <1>6, <2>1 DEF IInv, PhaseInv, ReceiverOpen, blkVars
<1>8. WorkInv'
  <2> SUFFICES ASSUME NoGap' PROVE (WorkConserved /\ NotStarted /\ NothingSent /\ NothingMissed)'
    BY DEF WorkInv, WorkConserved
  <2>1. WorkConserved /\ NothingSent /\ NoGap
    BY DEF NoGap, IInv, WorkInv
  <2>2. NothingSent'
    BY <1>1, <1>3, <2>1 DEF NothingSent, blkVars
  <2>3. WorkConserved'
    <3> SUFFICES ASSUME ReceiverOpen', NEW h \in FirstBlock .. (headers' - 1)
                 PROVE  Accounted(h)'
      BY DEF WorkConserved
    <3>1. h \in Int /\ FirstBlock <= h /\ h <= Answer.hi
      BY <1>1, <1>3, ChainAssumption
    <3>2. CASE h < headers
      <4>1. Accounted(h)
        BY <1>2, <2>1, <3>1, <3>2, ChainAssumption DEF WorkConserved, ReceiverOpen, blkVars
      <4> QED
        BY <4>1 DEF Accounted, blkVars
    <3>3. CASE h >= headers
      BY <1>1, <1>2, <1>3, <3>1, <3>3 DEF Accounted, Heights
    <3> QED
      BY <1>2, <3>1, <3>2, <3>3
  <2> QED
    BY <2>2, <2>3 DEF NotStarted, NothingMissed
<1> QED
  BY <1>1, <1>4, <1>5, <1>7, <1>8, HeadersGrow DEF IInv

\* A later list of headers that ends before the first block to download.
LEMMA HeadersBatchSkippedInv ==
    ASSUME IInv, HeadersBatchSkipped, UNCHANGED <<blkVars, utxoVars, result>>
    PROVE  IInv'
<1> USE DEF HeadersBatchSkipped
<1>1. /\ headers' \in Nat \ {0} /\ headers <= headers' /\ heights' \in Nat
      /\ headers_read' = Answer /\ headers' = Answer.hi + 1
      /\ RangeInv'
  BY ReceiveAndStoreFacts
<1>2. headers \in Nat \ {0} /\ headers <= Tip + 1
  BY ReceiveAndStoreFacts
<1>3. /\ Answer \in Batches /\ Answer.lo = headers /\ Answer.hi \in Int
      /\ headers <= Answer.hi + 1 /\ Answer.hi <= Tip
      /\ Size(Answer) = Answer.hi + 1 - headers
      /\ Size(Answer) \in 0 .. BatchSize
      /\ Size(Answer) # BatchSize => Answer.hi = Tip
  BY ReceiveAndStoreFacts
<1>4. hpc' \in {"loop", "return"} /\ (hpc' = "return" => headers' = Tip + 1)
  BY <1>1, <1>3 DEF AfterBatch
<1>5. TypeOK'
  <2>1. HeadersTypeOK'
    BY <1>1, <1>2, <1>3, <1>4 DEF IInv, TypeOK, HeadersTypeOK
  <2> QED
    BY <1>1, <2>1, HeadersGrow DEF TypeOK
<1>6. NodesInv'
  BY <1>4 DEF IInv, NodesInv, NodesNotShared, blkVars
<1>7. PhaseInv'
  <2>1. headers > FirstBlock => headers' > FirstBlock
    BY <1>1, <1>2, <1>3, ChainAssumption
  <2> QED
    BY <1>4, <2>1 DEF IInv, PhaseInv, ReceiverOpen, blkVars
<1>8. WorkInv'
  <2> SUFFICES ASSUME NoGap' PROVE (WorkConserved /\ NotStarted /\ NothingSent /\ NothingMissed)'
    BY DEF WorkInv, WorkConserved
  <2>1. bpc = "recv" /\ chan = <<>>
    BY DEF NoGap, IInv, WorkInv, NothingSent
  <2>2. headers' <= FirstBlock /\ FirstBlock .. (headers' - 1) = {}
    BY <1>1, <1>2, <1>3, ChainAssumption
  <2> QED
    BY <1>4, <2>1, <2>2
       DEF WorkConserved, NotStarted, NothingSent, NothingMissed, blkVars
<1> QED
  BY <1>1, <1>5, <1>6, <1>7, <1>8, HeadersGrow DEF IInv

\* An empty list before the first block was found.
LEMMA HeadersBatchEmptyInv ==
    ASSUME IInv, HeadersBatchEmpty, UNCHANGED <<blkVars, utxoVars, result>>
    PROVE  IInv'
<1> USE DEF HeadersBatchEmpty
<1>1. /\ headers' \in Nat \ {0} /\ headers <= headers' /\ heights' \in Nat
      /\ headers_read' = Answer /\ headers' = Answer.hi + 1
      /\ RangeInv'
  BY ReceiveAndStoreFacts
<1>2. headers \in Nat \ {0} /\ headers <= Tip + 1
  BY ReceiveAndStoreFacts
<1>3. /\ Answer \in Batches /\ Answer.lo = headers /\ Answer.hi \in Int
      /\ headers <= Answer.hi + 1 /\ Answer.hi <= Tip
      /\ Size(Answer) = Answer.hi + 1 - headers
      /\ Size(Answer) \in 0 .. BatchSize
      /\ Size(Answer) # BatchSize => Answer.hi = Tip
  BY ReceiveAndStoreFacts
<1>4. headers' = headers /\ headers = Tip + 1
  BY <1>1, <1>2, <1>3, ChainAssumption
<1>5. TypeOK'
  <2>1. HeadersTypeOK'
    BY <1>1, <1>2, <1>3 DEF IInv, TypeOK, HeadersTypeOK
  <2> QED
    BY <1>1, <2>1, HeadersGrow DEF TypeOK
<1>6. NodesInv'
  BY PeersAssumption
     DEF IInv, TypeOK, BlocksTypeOK, LoaderTypeOK, NodesInv, NodesNotShared, blkVars
<1>7. PhaseInv'
  BY <1>4 DEF IInv, PhaseInv, ReceiverOpen, blkVars
<1>8. WorkInv'
  <2> SUFFICES ASSUME NoGap' PROVE (WorkConserved /\ NotStarted /\ NothingSent /\ NothingMissed)'
    BY DEF WorkInv, WorkConserved
  <2>1. bpc = "recv" /\ chan = <<>> /\ headers <= FirstBlock
    BY DEF NoGap, IInv, WorkInv, NothingSent
  <2>2. FirstBlock > Tip /\ FirstBlock .. (headers - 1) = {}
    BY <1>2, <1>4, <2>1, ChainAssumption
  <2> QED
    BY <1>4, <2>1, <2>2
       DEF WorkConserved, NotStarted, NothingSent, NothingMissed, blkVars
<1> QED
  BY <1>1, <1>5, <1>6, <1>7, <1>8, HeadersGrow DEF IInv

\* A list of headers goes to the blocks thread, or the channel is closed.
LEMMA HeadersSendInv ==
    ASSUME IInv, HeadersSend(ReceiverOpen), UNCHANGED <<blkVars, utxoVars, result>>
    PROVE  IInv'
<1> USE DEF HeadersSend
<1>1. /\ headers \in Nat \ {0} /\ headers' = headers /\ headers <= Tip + 1
      /\ headers_read' = headers_read /\ headers_read \in Batches
      /\ headers_read.lo \in Nat /\ headers_read.hi \in Int /\ chan \in Seq(Batches)
  BY BatchFacts DEF IInv, TypeOK, HeadersTypeOK, RangeInv
<1>2. /\ headers_read.hi = headers - 1
      /\ headers_read.lo <= headers
      /\ headers > FirstBlock
      /\ first_block_found => headers_read.lo > FirstBlock
      /\ Size(headers_read) # BatchSize => headers = Tip + 1
  BY DEF IInv, PhaseInv
<1>3. /\ ToSend \in Batches /\ InRange(ToSend, headers)
      /\ \A h \in Heights(headers_read) : h >= FirstBlock => h \in Heights(ToSend)
  <2>1. CASE first_block_found
    BY <1>1, <1>2, <2>1, ChainAssumption DEF ToSend, InRange
  <2>2. CASE ~first_block_found
    <3>1. ToSend = Batch(Most(headers_read.lo, FirstBlock), headers_read.hi)
      BY <2>2 DEF ToSend, search_first_header_block_to_download
    <3>2. Most(headers_read.lo, FirstBlock) \in Nat
      BY <1>1, ChainAssumption DEF Most
    <3>3. /\ ToSend \in Batches /\ ToSend.hi = headers_read.hi
          /\ ToSend.lo = Most(headers_read.lo, FirstBlock)
      BY <1>1, <3>1, <3>2, BatchFacts
    <3> QED
      BY <1>1, <1>2, <3>3, ChainAssumption DEF InRange, Most, Heights
  <2> QED
    BY <2>1, <2>2
<1>4. TypeOK'
  <2>1. first_block_found' \in BOOLEAN
    BY Zenon
  <2>2. chan' \in Seq(Batches)
    BY <1>1, <1>3, AppendFacts
  <2>3. HeadersTypeOK'
    BY <2>1, <2>2 DEF IInv, TypeOK, HeadersTypeOK, AfterBatch
  <2> QED
    BY <1>1, <2>3, HeadersGrow DEF TypeOK
<1>5. NodesInv'
  BY PeersAssumption
     DEF IInv, TypeOK, BlocksTypeOK, LoaderTypeOK, NodesInv, NodesNotShared, AfterBatch, blkVars
<1>6. RangeInv'
  <2>1. \A i \in DOMAIN chan : InRange(chan[i], headers)
    BY DEF IInv, RangeInv
  <2>2. \A i \in DOMAIN chan' : InRange(chan'[i], headers)
    <3>1. \A i \in DOMAIN chan' : chan'[i] = ToSend \/ (i \in DOMAIN chan /\ chan'[i] = chan[i])
      <4>1. \A i \in DOMAIN Append(chan, ToSend) :
               Append(chan, ToSend)[i] = ToSend \/ (i \in DOMAIN chan /\ Append(chan, ToSend)[i] = chan[i])
        BY <1>3, AppendFacts
      <4>2. chan' = chan \/ chan' = Append(chan, ToSend)
        BY <1>1
      <4> QED
        BY <4>1, <4>2, Zenon
    <3> QED
      BY <1>3, <2>1, <3>1, Zenon
  <2> QED
    BY <1>1, <2>2, HeadersGrow DEF RangeInv
<1>7. PhaseInv'
  <2>1. hpc' \in {"loop", "return", "failed"} /\ (hpc' = "return" => headers = Tip + 1)
    BY <1>2 DEF AfterBatch
  <2> QED
    BY <1>1, <1>2, <2>1 DEF IInv, PhaseInv, ReceiverOpen, blkVars
<1>8. WorkInv'
  <2> SUFFICES ASSUME NoGap' PROVE (WorkConserved /\ NotStarted /\ NothingSent /\ NothingMissed)'
    BY DEF WorkInv, WorkConserved
  <2>1. WorkConserved /\ NoGap
    BY DEF NoGap, IInv, WorkInv
  <2>2. WorkConserved'
    <3> SUFFICES ASSUME ReceiverOpen', NEW h \in FirstBlock .. (headers - 1)
                 PROVE  Accounted(h)'
      BY <1>1 DEF WorkConserved
    <3>1. ReceiverOpen /\ chan' = Append(chan, ToSend)
      BY DEF ReceiverOpen, blkVars
    <3>2. Accounted(h)
      BY <2>1, <3>1 DEF WorkConserved
    <3>3. CASE h \in Heights(headers_read)
      <4>1. h \in Heights(ToSend)
        BY <1>1, <1>3, <3>3, ChainAssumption
      <4> QED
        BY <1>1, <1>3, <3>1, <4>1, AppendFacts DEF Accounted
    <3>4. CASE \E i \in DOMAIN chan : h \in Heights(chan[i])
      BY <1>1, <1>3, <3>1, <3>4, AppendFacts DEF Accounted
    <3> QED
      BY <3>2, <3>3, <3>4 DEF Accounted, blkVars
  <2>3. NothingMissed'
    BY DEF NothingMissed, ReceiverOpen, blkVars
  <2> QED
    BY <2>2, <2>3 DEF NotStarted, NothingSent, AfterBatch
<1> QED
  BY <1>1, <1>4, <1>5, <1>6, <1>7, <1>8, HeadersGrow DEF IInv

\* A connection of the headers thread fails, before or after it delivered an
\* invalid list.
LEMMA HeadersFaultInv ==
    ASSUME IInv, HeadersFault, UNCHANGED <<blkVars, utxoVars, result>>
    PROVE  IInv'
<1>1. /\ UNCHANGED <<nodes, headers, first_block_found, headers_read, chan>>
      /\ hpc \in {"first", "loop"} /\ hpc' = "get" /\ hnode' = NoPeer
      /\ hdrFailures < MaxHeaderFailures /\ hdrFailures' = hdrFailures + 1
  BY DEF HeadersFault, HeadersNodeError, HeadersInvalid
<1>2. heights' \in Nat
  <2>1. HeadersTypeOK /\ headers <= Tip + 1 /\ heights \in Nat /\ headers \in Nat
    BY DEF IInv, TypeOK, HeadersTypeOK, RangeInv
  <2>2. Answer.lo \in Nat /\ Answer.hi \in Int
    BY <2>1, AnswerFacts
  <2>3. CASE HeadersNodeError
    BY <2>1, <2>3 DEF HeadersNodeError
  <2>4. CASE HeadersInvalid
    BY <2>1, <2>2, <2>4 DEF HeadersInvalid, Most, Heights
  <2> QED
    BY <2>3, <2>4 DEF HeadersFault
<1>3. headers' \in Nat /\ headers <= headers'
  BY <1>1 DEF IInv, TypeOK, HeadersTypeOK
<1>4. TypeOK'
  <2>1. hdrFailures' \in 0 .. MaxHeaderFailures
    BY <1>1, ChainAssumption DEF IInv, TypeOK, HeadersTypeOK
  <2>2. HeadersTypeOK'
    BY <1>1, <1>2, <2>1 DEF IInv, TypeOK, HeadersTypeOK
  <2> QED
    BY <1>3, <2>2, HeadersGrow DEF TypeOK
<1>5. NodesInv'
  BY <1>1, PeersAssumption
     DEF IInv, TypeOK, BlocksTypeOK, LoaderTypeOK, NodesInv, NodesNotShared, blkVars
<1>6. RangeInv'
  BY <1>1, RangeKept
<1>7. PhaseInv'
  BY <1>1 DEF IInv, PhaseInv, ReceiverOpen, blkVars
<1>8. ~NoGap'
  BY <1>1 DEF NoGap, IInv, TypeOK, HeadersTypeOK
<1>9. WorkInv'
  BY <1>8 DEF WorkInv, WorkConserved
<1> QED
  BY <1>3, <1>4, <1>5, <1>6, <1>7, <1>9, HeadersGrow DEF IInv

\* The headers thread ends and gives its connection back.
LEMMA HeadersReturnNodeInv ==
    ASSUME IInv, HeadersReturnNode, UNCHANGED <<blkVars, utxoVars, result>>
    PROVE  IInv'
<1> USE DEF HeadersReturnNode, return_node_to_vec
<1>1. headers' \in Nat /\ headers <= headers'
  BY DEF IInv, TypeOK, HeadersTypeOK
<1>2. TypeOK'
  <2>1. hnode \in Peers
    BY DEF IInv, TypeOK, HeadersTypeOK, NodesInv
  <2>2. HeadersTypeOK'
    BY <2>1 DEF IInv, TypeOK, HeadersTypeOK
  <2> QED
    BY <1>1, <2>2, HeadersGrow DEF TypeOK
<1>3. NodesInv'
  BY DEF IInv, NodesInv, NodesNotShared, blkVars
<1>4. RangeInv'
  BY RangeKept
<1>5. PhaseInv'
  BY DEF IInv, PhaseInv, ReceiverOpen, blkVars
<1>6. WorkInv'
  BY DEF IInv, WorkInv, WorkConserved, NotStarted, NothingSent, NothingMissed,
         Accounted, NoGap, ReceiverOpen, blkVars
<1> QED
  BY <1>1, <1>2, <1>3, <1>4, <1>5, <1>6, HeadersGrow DEF IInv

--------------------------------------------------------------------------------
(***************************************************************************)
(* Steps of the blocks thread.                                             *)
(***************************************************************************)
\* A step that leaves the headers thread and the channel alone keeps the types
\* of their variables.
LEMMA HeadersTypeKept ==
    ASSUME IInv, UNCHANGED <<hdrVars>>, nodes' \in SUBSET Peers, chan' \in Seq(Batches)
    PROVE  HeadersTypeOK'
BY DEF IInv, TypeOK, HeadersTypeOK, hdrVars

\* The blocks thread receives a list and divides it into chunks.
LEMMA BlocksReceiveInv ==
    ASSUME IInv, BlocksReceive, UNCHANGED result
    PROVE  IInv'
<1> DEFINE b == Head(chan)
           m == AmountOfChunks(b)
<1>1. /\ bpc = "recv" /\ chan # <<>> /\ Size(b) > 0 /\ bpc' = "spawn"
      /\ chan' = Tail(chan)
      /\ UNCHANGED <<nodes, wnode, blocks, blkFailures, hdrVars, utxoVars>>
      /\ wpc' = [w \in Workers |-> IF w <= m THEN "waiting" ELSE "idle"]
      /\ wchunk' = [w \in Workers |-> IF w <= m THEN Chunk(b, w) ELSE Batch(0, -1)]
      /\ wnext' = [w \in Workers |-> IF w <= m THEN Chunk(b, w).lo ELSE 0]
  BY DEF BlocksReceive
<1>2. /\ chan \in Seq(Batches) /\ b \in Batches /\ InRange(b, headers)
      /\ b.lo \in Nat /\ b.hi \in Int /\ headers \in Nat /\ FirstBlock \in Nat
      /\ \A i \in DOMAIN chan' : \E j \in DOMAIN chan : chan'[i] = chan[j]
      /\ \A j \in DOMAIN chan : chan[j] = b \/ \E i \in DOMAIN chan' : chan'[i] = chan[j]
      /\ chan' \in Seq(Batches)
  <2>1. chan \in Seq(Batches) /\ headers \in Nat /\ FirstBlock \in Nat
    BY ChainAssumption DEF IInv, TypeOK, HeadersTypeOK
  <2>2. /\ b \in Batches /\ chan' \in Seq(Batches) /\ \E i \in DOMAIN chan : chan[i] = b
        /\ \A i \in DOMAIN chan' : \E j \in DOMAIN chan : chan'[i] = chan[j]
        /\ \A j \in DOMAIN chan : chan[j] = b \/ \E i \in DOMAIN chan' : chan'[i] = chan[j]
    BY <1>1, <2>1, TailFacts
  <2>3. InRange(b, headers)
    BY <2>2 DEF IInv, RangeInv
  <2> QED
    BY <2>1, <2>2, <2>3, BatchFacts
<1>3. /\ m \in 1 .. NThreads
      /\ \A i \in 1 .. m : /\ Chunk(b, i) \in Batches
                           /\ b.lo <= Chunk(b, i).lo
                           /\ Chunk(b, i).lo <= Chunk(b, i).hi
                           /\ Chunk(b, i).hi <= b.hi
      /\ \A h \in Heights(b) : \E i \in 1 .. m : h \in Heights(Chunk(b, i))
  BY <1>1, <1>2, ChunkFacts
<1> HIDE DEF b, m
<1>4. \A w \in Workers : w <= m => w \in 1 .. m
  BY <1>3, WorkersAssumption DEF Workers
<1>5. TypeOK'
  <2>1. Batch(0, -1) \in Batches
    BY BatchFacts
  <2>2. wchunk' \in [Workers -> Batches]
    BY <1>1, <1>3, <1>4, <2>1
  <2>3. wnext' \in [Workers -> Nat]
    BY <1>1, <1>3, <1>4, BatchFacts
  <2>4. (BlocksTypeOK /\ LoaderTypeOK)'
    BY <1>1, <2>2, <2>3 DEF IInv, TypeOK, BlocksTypeOK, LoaderTypeOK, utxoVars
  <2>5. HeadersTypeOK'
    BY <1>1, <1>2, HeadersTypeKept DEF IInv, TypeOK, HeadersTypeOK
  <2> QED
    BY <2>4, <2>5 DEF TypeOK, IInv
<1>6. \A w \in Workers : wpc[w] \in {"idle", "ended"} /\ wpc'[w] \in {"waiting", "idle"}
  BY <1>1 DEF IInv, PhaseInv
<1>7. NodesInv'
  <2>1. \A w \in Workers : wnode[w] = NoPeer
    BY <1>6 DEF IInv, NodesInv
  <2> QED
    BY <1>1, <1>6, <2>1 DEF IInv, NodesInv, NodesNotShared, hdrVars
<1>8. RangeInv'
  <2>1. \A i \in DOMAIN chan' : InRange(chan'[i], headers)
    BY <1>2 DEF IInv, RangeInv
  <2>2. ASSUME NEW w \in Workers, wpc'[w] \in {"waiting", "run", "stored"}
        PROVE  /\ InRange(wchunk'[w], headers)
               /\ wchunk'[w].lo <= wnext'[w]
               /\ wnext'[w] <= wchunk'[w].hi + 1
    <3>1. w <= m
      BY <1>1, <2>2
    <3>2. wchunk'[w] = Chunk(b, w) /\ wnext'[w] = Chunk(b, w).lo
      BY <1>1, <3>1
    <3>3. /\ Chunk(b, w).lo \in Nat /\ Chunk(b, w).hi \in Int
          /\ b.lo <= Chunk(b, w).lo
          /\ Chunk(b, w).lo <= Chunk(b, w).hi
          /\ Chunk(b, w).hi <= b.hi
      BY <1>3, <1>4, <3>1, BatchFacts
    <3> QED
      BY <1>2, <3>2, <3>3 DEF InRange
  <2> QED
    BY <1>1, <2>1, <2>2 DEF IInv, RangeInv, hdrVars, utxoVars
<1>9. PhaseInv'
  <2>1. headers > FirstBlock
    BY <1>1, <1>2 DEF InRange, Size
  <2> QED
    BY <1>1, <1>6, <2>1 DEF IInv, PhaseInv, ReceiverOpen, hdrVars
<1>10. WorkInv'
  <2> SUFFICES ASSUME NoGap' PROVE (WorkConserved /\ NotStarted /\ NothingSent /\ NothingMissed)'
    BY DEF WorkInv, WorkConserved
  <2>1. NoGap /\ WorkConserved /\ NotStarted /\ NothingSent /\ ReceiverOpen
    BY <1>1 DEF NoGap, IInv, WorkInv, hdrVars, ReceiverOpen
  <2>2. WorkConserved'
    <3> SUFFICES ASSUME NEW h \in FirstBlock .. (headers - 1) PROVE Accounted(h)'
      BY <1>1 DEF WorkConserved, hdrVars
    <3>1. Accounted(h)
      BY <2>1 DEF WorkConserved
    <3>2. CASE \E i \in DOMAIN chan : h \in Heights(chan[i])
      <4>1. CASE h \in Heights(b)
        <5>1. PICK i \in 1 .. m : h \in Heights(Chunk(b, i))
          BY <1>3, <4>1
        <5>2. i \in Workers /\ i <= m
          BY <1>3, WorkersAssumption DEF Workers
        <5>3. wpc'[i] = "waiting" /\ wchunk'[i] = Chunk(b, i)
          BY <1>1, <5>2
        <5> QED
          BY <5>1, <5>2, <5>3 DEF Accounted
      <4>2. CASE \E i \in DOMAIN chan' : h \in Heights(chan'[i])
        BY <4>2 DEF Accounted
      <4> QED
        BY <1>2, <3>2, <4>1, <4>2
    <3> QED
      BY <1>1, <1>6, <3>1, <3>2 DEF Accounted, hdrVars
  <2> QED
    BY <1>1, <2>1, <2>2 DEF NotStarted, NothingSent, NothingMissed, hdrVars
<1>11. CoinInv'
  <2>1. \A w \in Workers : wpc'[w] = "waiting" => wnext'[w] = wchunk'[w].lo
    BY <1>1
  <2> QED
    BY <1>1, <1>6, <2>1 DEF IInv, CoinInv, UnspentCoinsKept, CoinKept, utxoVars
<1> QED
  BY <1>5, <1>7, <1>8, <1>9, <1>10, <1>11 DEF IInv

\* An empty list ends download_blocks.
LEMMA BlocksReceiveEmptyInv ==
    ASSUME IInv, BlocksReceiveEmpty, UNCHANGED result
    PROVE  IInv'
<1> USE DEF BlocksReceiveEmpty
<1>1. /\ chan \in Seq(Batches) /\ chan' \in Seq(Batches)
      /\ \A i \in DOMAIN chan' : \E j \in DOMAIN chan : chan'[i] = chan[j]
  BY TailFacts DEF IInv, TypeOK, HeadersTypeOK
<1>2. TypeOK'
  <2>1. (BlocksTypeOK /\ LoaderTypeOK)'
    BY DEF IInv, TypeOK, BlocksTypeOK, LoaderTypeOK, utxoVars
  <2>2. HeadersTypeOK'
    BY <1>1, HeadersTypeKept DEF IInv, TypeOK, HeadersTypeOK
  <2> QED
    BY <2>1, <2>2 DEF TypeOK, IInv
<1>3. NodesInv'
  BY DEF IInv, NodesInv, NodesNotShared, hdrVars
<1>4. RangeInv'
  BY <1>1 DEF IInv, RangeInv, hdrVars, utxoVars
<1>5. PhaseInv'
  BY DEF IInv, PhaseInv, ReceiverOpen, hdrVars
<1>6. WorkInv'
  BY DEF IInv, WorkInv, WorkConserved, NotStarted, NothingSent, NothingMissed,
         NoGap, ReceiverOpen, hdrVars
<1>7. CoinInv'
  BY DEF IInv, CoinInv, UnspentCoinsKept, CoinKept, utxoVars
<1> QED
  BY <1>2, <1>3, <1>4, <1>5, <1>6, <1>7 DEF IInv

\* A worker is started with a connection of its own.
LEMMA BlocksSpawnInv ==
    ASSUME IInv, NEW w \in Workers, BlocksSpawn(w), UNCHANGED result
    PROVE  IInv'
<1> USE DEF BlocksSpawn, get_node
<1>1. /\ wpc \in [Workers -> {"idle", "waiting", "run", "stored", "ended", "failed"}]
      /\ wnode \in [Workers -> Peers \cup {NoPeer}]
      /\ nodes \in SUBSET Peers /\ chan \in Seq(Batches)
  BY DEF IInv, TypeOK, HeadersTypeOK, BlocksTypeOK, LoaderTypeOK
<1>2. PICK n \in nodes : wnode' = [wnode EXCEPT ![w] = n] /\ nodes' = nodes \ {n}
  OBVIOUS
<1>3. TypeOK'
  <2>1. (BlocksTypeOK /\ LoaderTypeOK)'
    BY <1>1, <1>2 DEF IInv, TypeOK, BlocksTypeOK, LoaderTypeOK, utxoVars
  <2>2. HeadersTypeOK'
    BY <1>1, <1>2, HeadersTypeKept
  <2> QED
    BY <2>1, <2>2 DEF TypeOK, IInv
<1>4. NodesInv'
  BY <1>1, <1>2, PeersAssumption DEF IInv, NodesInv, NodesNotShared, hdrVars
<1>5. RangeInv'
  BY <1>1 DEF IInv, RangeInv, hdrVars, utxoVars
<1>6. PhaseInv'
  BY <1>1 DEF IInv, PhaseInv, ReceiverOpen, hdrVars
<1>7. WorkInv'
  BY <1>1 DEF IInv, WorkInv, WorkConserved, Accounted, NotStarted, NothingSent,
              NothingMissed, NoGap, ReceiverOpen, hdrVars
<1>8. CoinInv'
  <2>1. wpc[w] = "waiting" /\ wnext' = wnext /\ wchunk' = wchunk
    OBVIOUS
  <2>2. wnext[w] = wchunk[w].lo /\ wnext[w] \in Nat
    BY <2>1 DEF IInv, CoinInv, TypeOK, BlocksTypeOK, LoaderTypeOK
  <2>3. wchunk[w].lo .. (wnext[w] - 1) = {}
    BY <2>2
  <2>4. Unspent(wchunk[w].lo .. (wnext[w] - 1)) = {}
    BY <2>3 DEF Unspent
  <2> QED
    BY <1>1, <2>1, <2>4 DEF IInv, CoinInv, UnspentCoinsKept, CoinKept, utxoVars
<1> QED
  BY <1>3, <1>4, <1>5, <1>6, <1>7, <1>8 DEF IInv

\* No connection is left for a chunk.
LEMMA BlocksNoNodeInv ==
    ASSUME IInv, BlocksNoNode, UNCHANGED result
    PROVE  IInv'
<1> USE DEF BlocksNoNode
<1>1. TypeOK'
  <2>1. (BlocksTypeOK /\ LoaderTypeOK)'
    BY DEF IInv, TypeOK, BlocksTypeOK, LoaderTypeOK, utxoVars
  <2>2. HeadersTypeOK'
    BY HeadersTypeKept DEF IInv, TypeOK, HeadersTypeOK
  <2> QED
    BY <2>1, <2>2 DEF TypeOK, IInv
<1>2. NodesInv'
  BY DEF IInv, NodesInv, NodesNotShared, hdrVars
<1>3. RangeInv'
  BY DEF IInv, RangeInv, hdrVars, utxoVars
<1>4. PhaseInv'
  BY DEF IInv, PhaseInv, ReceiverOpen, hdrVars
<1>5. WorkInv'
  BY DEF IInv, WorkInv, WorkConserved, NotStarted, NothingSent, NothingMissed,
         NoGap, ReceiverOpen, hdrVars
<1>6. CoinInv'
  BY DEF IInv, CoinInv, UnspentCoinsKept, CoinKept, utxoVars
<1> QED
  BY <1>1, <1>2, <1>3, <1>4, <1>5, <1>6 DEF IInv

\* As many blocks as headers from the first block on means that the stored
\* blocks are exactly those.
LEMMA CountIsEnough ==
    ASSUME IInv, bpc = "spawn", AllBlocksDownloaded
    PROVE  blocks = FirstBlock .. (headers - 1)
<1> DEFINE S == FirstBlock .. (headers - 1)
<1>1. blocks \subseteq S /\ headers \in Nat /\ FirstBlock \in Nat /\ headers > FirstBlock
  BY ChainAssumption DEF IInv, TypeOK, HeadersTypeOK, RangeInv, PhaseInv
<1>2. IsFiniteSet(S) /\ Cardinality(S) = headers - FirstBlock
  BY <1>1, FS_Interval
<1>3. Cardinality(blocks) = Cardinality(S)
  BY <1>2 DEF AllBlocksDownloaded
<1> QED
  BY <1>1, <1>2, <1>3, FS_Subset

\* The workers are joined: download_blocks ends or goes on.
LEMMA BlocksJoinInv ==
    ASSUME IInv, BlocksJoin, UNCHANGED result
    PROVE  IInv'
<1> USE DEF BlocksJoin
<1>1. \A w \in Workers : wpc[w] \in {"idle", "ended"}
  BY DEF IInv, PhaseInv, ReceiverOpen
<1>2. bpc' = IF AllBlocksDownloaded THEN "done" ELSE "recv"
  BY <1>1
<1>3. TypeOK'
  <2>1. (BlocksTypeOK /\ LoaderTypeOK)'
    BY DEF IInv, TypeOK, BlocksTypeOK, LoaderTypeOK, utxoVars
  <2>2. HeadersTypeOK'
    BY HeadersTypeKept DEF IInv, TypeOK, HeadersTypeOK
  <2> QED
    BY <2>1, <2>2 DEF TypeOK, IInv
<1>4. NodesInv'
  BY DEF IInv, NodesInv, NodesNotShared, hdrVars
<1>5. RangeInv'
  BY DEF IInv, RangeInv, hdrVars, utxoVars
<1>6. PhaseInv'
  BY <1>1, <1>2 DEF IInv, PhaseInv, ReceiverOpen, hdrVars
<1>7. WorkInv'
  <2> SUFFICES ASSUME NoGap' PROVE (WorkConserved /\ NotStarted /\ NothingSent /\ NothingMissed)'
    BY DEF WorkInv, WorkConserved
  <2>1. NoGap /\ WorkConserved /\ NotStarted /\ NothingSent
    BY DEF NoGap, IInv, WorkInv, hdrVars
  <2>2. WorkConserved'
    BY <2>1 DEF WorkConserved, Accounted, ReceiverOpen, hdrVars
  <2>3. bpc' = "done" => blocks = FirstBlock .. (headers - 1)
    BY <1>2, CountIsEnough
  <2> QED
    BY <2>1, <2>2, <2>3 DEF NotStarted, NothingSent, NothingMissed, hdrVars
<1>8. CoinInv'
  BY DEF IInv, CoinInv, UnspentCoinsKept, CoinKept, utxoVars
<1> QED
  BY <1>3, <1>4, <1>5, <1>6, <1>7, <1>8 DEF IInv

--------------------------------------------------------------------------------
(***************************************************************************)
(* Steps of the workers, of the loader and of the main thread.             *)
(***************************************************************************)
\* What the invariant says of a worker that talks to its peer.
LEMMA RunningWorker ==
    ASSUME IInv, NEW w \in Workers, wpc[w] = "run"
    PROVE  /\ wchunk[w] \in Batches /\ wchunk[w].lo \in Nat /\ wchunk[w].hi \in Int
           /\ wnext[w] \in Nat /\ headers \in Nat /\ FirstBlock \in Nat /\ Tip \in Nat
           /\ headers <= Tip + 1
           /\ FirstBlock <= wchunk[w].lo /\ wchunk[w].hi < headers
           /\ wchunk[w].lo <= wnext[w] /\ wnext[w] <= wchunk[w].hi + 1
           /\ wpc \in [Workers -> {"idle", "waiting", "run", "stored", "ended", "failed"}]
           /\ wnode \in [Workers -> Peers \cup {NoPeer}]
           /\ wnext \in [Workers -> Nat]
           /\ wchunk \in [Workers -> Batches]
           /\ bpc \in {"spawn", "failed"}
<1>1. /\ wpc \in [Workers -> {"idle", "waiting", "run", "stored", "ended", "failed"}]
      /\ wnode \in [Workers -> Peers \cup {NoPeer}]
      /\ wnext \in [Workers -> Nat]
      /\ wchunk \in [Workers -> Batches]
      /\ headers \in Nat
  BY DEF IInv, TypeOK, HeadersTypeOK, BlocksTypeOK, LoaderTypeOK
<1>2. InRange(wchunk[w], headers) /\ wchunk[w].lo <= wnext[w]
      /\ wnext[w] <= wchunk[w].hi + 1 /\ headers <= Tip + 1
  BY DEF IInv, RangeInv
<1>3. bpc \in {"spawn", "failed"}
  BY DEF IInv, TypeOK, BlocksTypeOK, LoaderTypeOK, PhaseInv
<1> QED
  BY <1>1, <1>2, <1>3, BatchFacts, ChainAssumption DEF InRange

\* The blocks a worker receives next are a non-empty part of its chunk.
LEMMA SubChunkFacts ==
    ASSUME IInv, NEW w \in Workers, wpc[w] = "run", wnext[w] <= wchunk[w].hi
    PROVE  /\ SubChunk(w) \in Batches
           /\ SubChunk(w).lo = wnext[w] /\ SubChunk(w).hi \in Nat
           /\ wnext[w] <= SubChunk(w).hi /\ SubChunk(w).hi <= wchunk[w].hi
           /\ InRange(SubChunk(w), headers)
<1>1. /\ wchunk[w].lo \in Nat /\ wchunk[w].hi \in Int /\ wnext[w] \in Nat
      /\ headers \in Nat /\ FirstBlock \in Nat
      /\ FirstBlock <= wchunk[w].lo /\ wchunk[w].hi < headers /\ wchunk[w].lo <= wnext[w]
  BY RunningWorker
<1> DEFINE hi == Least(wnext[w] + BlocksPerNode - 1, wchunk[w].hi)
<1>2. hi \in Nat /\ wnext[w] <= hi /\ hi <= wchunk[w].hi
  BY <1>1, WorkersAssumption DEF Least
<1>3. SubChunk(w) = Batch(wnext[w], hi)
  BY DEF SubChunk
<1> HIDE DEF hi
<1>4. SubChunk(w) \in Batches /\ SubChunk(w).lo = wnext[w] /\ SubChunk(w).hi = hi
  BY <1>1, <1>2, <1>3, BatchFacts
<1> QED
  BY <1>1, <1>2, <1>4 DEF InRange

\* A worker receives blocks and passes them to the utxo loader.
LEMMA WorkerReceiveInv ==
    ASSUME IInv, NEW w \in Workers, WorkerReceive(w), UNCHANGED result
    PROVE  IInv'
<1> USE DEF WorkerReceive, SendToLoader
<1> DEFINE c == SubChunk(w)
<1>1. /\ c \in Batches /\ c.lo = wnext[w] /\ c.hi \in Nat
      /\ wnext[w] <= c.hi /\ c.hi <= wchunk[w].hi /\ InRange(c, headers)
  BY SubChunkFacts
<1>2. /\ wchunk[w].lo \in Nat /\ wchunk[w].hi \in Int /\ wnext[w] \in Nat
      /\ wchunk[w].lo <= wnext[w]
      /\ wnext \in [Workers -> Nat] /\ wchunk \in [Workers -> Batches]
  BY RunningWorker
<1>3. uchan \in Seq(Batches) /\ uchan' = Append(uchan, c)
  BY DEF IInv, TypeOK, BlocksTypeOK, LoaderTypeOK
<1>4. wnext' = [wnext EXCEPT ![w] = c.hi + 1]
  OBVIOUS
<1> HIDE DEF c
<1>5. /\ uchan' \in Seq(Batches)
      /\ \A i \in DOMAIN uchan : i \in DOMAIN uchan' /\ uchan'[i] = uchan[i]
      /\ \E i \in DOMAIN uchan' : uchan'[i] = c
      /\ \A i \in DOMAIN uchan' : uchan'[i] = c \/ (i \in DOMAIN uchan /\ uchan'[i] = uchan[i])
  BY <1>1, <1>3, AppendFacts
<1>6. TypeOK'
  <2>1. wnext' \in [Workers -> Nat]
    BY <1>1, <1>2, <1>4
  <2>2. (BlocksTypeOK /\ LoaderTypeOK)'
    BY <1>5, <2>1 DEF IInv, TypeOK, BlocksTypeOK, LoaderTypeOK
  <2>3. HeadersTypeOK'
    BY HeadersTypeKept DEF IInv, TypeOK, HeadersTypeOK
  <2> QED
    BY <2>2, <2>3 DEF TypeOK, IInv
<1>7. NodesInv'
  BY DEF IInv, NodesInv, NodesNotShared, hdrVars
<1>8. RangeInv'
  <2>1. \A i \in DOMAIN uchan' : InRange(uchan'[i], headers)
    BY <1>1, <1>5 DEF IInv, RangeInv
  <2>2. ASSUME NEW v \in Workers, wpc'[v] \in {"waiting", "run", "stored"}
        PROVE  /\ InRange(wchunk'[v], headers)
               /\ wchunk'[v].lo <= wnext'[v]
               /\ wnext'[v] <= wchunk'[v].hi + 1
    <3>1. CASE v = w
      <4>1. wnext'[v] = c.hi + 1 /\ wchunk'[v] = wchunk[w]
        BY <1>2, <1>4, <3>1
      <4>2. InRange(wchunk[w], headers)
        BY DEF IInv, RangeInv
      <4> QED
        BY <1>1, <1>2, <4>1, <4>2
    <3>2. CASE v # w
      BY <1>2, <1>4, <2>2, <3>2 DEF IInv, RangeInv
    <3> QED
      BY <3>1, <3>2
  <2> QED
    BY <2>1, <2>2 DEF IInv, RangeInv, hdrVars
<1>9. PhaseInv'
  BY DEF IInv, PhaseInv, ReceiverOpen, hdrVars
<1>10. WorkInv'
  BY DEF IInv, WorkInv, WorkConserved, Accounted, NotStarted, NothingSent,
         NothingMissed, NoGap, ReceiverOpen, hdrVars
<1>11. CoinInv'
  <2>1. \A h : CoinKept(h) => CoinKept(h)'
    BY <1>5 DEF CoinKept
  <2>2. \A h \in Heights(c) : CoinKept(h)'
    BY <1>5 DEF CoinKept
  <2>3. UnspentCoinsKept'
    BY <2>1 DEF IInv, CoinInv, UnspentCoinsKept, Unspent
  <2>4. ASSUME NEW v \in Workers, wpc'[v] = "run",
               NEW h \in Unspent(wchunk'[v].lo .. (wnext'[v] - 1))
        PROVE  CoinKept(h)'
    <3>1. CASE v = w
      <4>1. wnext'[v] = c.hi + 1 /\ wchunk'[v] = wchunk[w]
        BY <1>2, <1>4, <3>1
      <4>2. h \in Unspent(wchunk[w].lo .. c.hi)
        BY <1>1, <4>1 DEF Unspent
      <4>3. h \in Heights(c) \/ h \in Unspent(wchunk[w].lo .. (wnext[w] - 1))
        BY <1>1, <1>2, <4>2 DEF Unspent, Heights
      <4> QED
        BY <2>1, <2>2, <4>3 DEF IInv, CoinInv
    <3>2. CASE v # w
      <4>1. wnext'[v] = wnext[v] /\ wchunk'[v] = wchunk[v] /\ wpc[v] = "run"
        BY <1>2, <1>4, <2>4, <3>2
      <4> QED
        BY <2>1, <2>4, <4>1 DEF IInv, CoinInv
    <3> QED
      BY <3>1, <3>2
  <2>5. \A v \in Workers : wpc'[v] = "waiting" => wnext'[v] = wchunk'[v].lo
    BY <1>2, <1>4 DEF IInv, CoinInv
  <2> QED
    BY <2>3, <2>4, <2>5 DEF CoinInv
<1> QED
  BY <1>6, <1>7, <1>8, <1>9, <1>10, <1>11 DEF IInv

\* A worker's connection fails: its chunk goes back to the channel, or the
\* channel is closed already.
LEMMA WorkerFailInv ==
    ASSUME IInv, NEW w \in Workers, WorkerFail(w), UNCHANGED result
    PROVE  IInv'
<1> USE DEF WorkerFail, try_to_download_blocks_from_other_node
<1>1. /\ wchunk[w] \in Batches
      /\ wpc \in [Workers -> {"idle", "waiting", "run", "stored", "ended", "failed"}]
      /\ wnode \in [Workers -> Peers \cup {NoPeer}]
      /\ bpc \in {"spawn", "failed"} /\ chan \in Seq(Batches)
  BY RunningWorker DEF IInv, TypeOK, HeadersTypeOK
<1>2. CASE ReceiverOpen
  <2>1. /\ chan' = Append(chan, wchunk[w]) /\ wpc' = [wpc EXCEPT ![w] = "ended"]
    BY <1>2
  <2>2. /\ chan' \in Seq(Batches)
        /\ \A i \in DOMAIN chan : i \in DOMAIN chan' /\ chan'[i] = chan[i]
        /\ \E i \in DOMAIN chan' : chan'[i] = wchunk[w]
        /\ \A i \in DOMAIN chan' :
             chan'[i] = wchunk[w] \/ (i \in DOMAIN chan /\ chan'[i] = chan[i])
    BY <1>1, <2>1, AppendFacts
  <2>3. TypeOK'
    <3>1. blkFailures' \in 0 .. MaxBlockFailures
      BY WorkersAssumption DEF IInv, TypeOK, BlocksTypeOK, LoaderTypeOK
    <3>2. (BlocksTypeOK /\ LoaderTypeOK)'
      BY <1>1, <2>1, <3>1 DEF IInv, TypeOK, BlocksTypeOK, LoaderTypeOK, utxoVars
    <3>3. HeadersTypeOK'
      BY <2>2, HeadersTypeKept DEF IInv, TypeOK, HeadersTypeOK
    <3> QED
      BY <3>2, <3>3 DEF TypeOK, IInv
  <2>4. NodesInv'
    BY <1>1, <2>1, PeersAssumption DEF IInv, NodesInv, NodesNotShared, hdrVars
  <2>5. RangeInv'
    <3>1. InRange(wchunk[w], headers)
      BY DEF IInv, RangeInv
    <3>2. \A i \in DOMAIN chan' : InRange(chan'[i], headers)
      BY <2>2, <3>1 DEF IInv, RangeInv
    <3> QED
      BY <1>1, <2>1, <3>2 DEF IInv, RangeInv, hdrVars, utxoVars
  <2>6. PhaseInv'
    BY <1>1, <1>2, <2>1 DEF IInv, PhaseInv, ReceiverOpen, hdrVars
  <2>7. WorkInv'
    <3> SUFFICES ASSUME NoGap' PROVE (WorkConserved /\ NotStarted /\ NothingSent /\ NothingMissed)'
      BY DEF WorkInv, WorkConserved
    <3>1. NoGap /\ WorkConserved /\ NotStarted /\ NothingSent /\ NothingMissed
      BY DEF NoGap, IInv, WorkInv, hdrVars
    <3>2. WorkConserved'
      <4> SUFFICES ASSUME NEW h \in FirstBlock .. (headers - 1) PROVE Accounted(h)'
        BY DEF WorkConserved, hdrVars
      <4>1. Accounted(h)
        BY <1>2, <3>1 DEF WorkConserved
      <4>2. CASE h \in Heights(wchunk[w])
        BY <2>2, <4>2 DEF Accounted
      <4>3. CASE \E i \in DOMAIN chan : h \in Heights(chan[i])
        BY <2>2, <4>3 DEF Accounted
      <4>4. CASE \E v \in Workers \ {w} : /\ wpc[v] \in {"waiting", "run"}
                                          /\ h \in Heights(wchunk[v])
        BY <1>1, <2>1, <4>4 DEF Accounted
      <4> QED
        BY <4>1, <4>2, <4>3, <4>4 DEF Accounted, hdrVars
    <3> QED
      BY <1>1, <3>1, <3>2 DEF NotStarted, NothingSent, NothingMissed, hdrVars
  <2>8. CoinInv'
    BY <1>1, <2>1 DEF IInv, CoinInv, UnspentCoinsKept, CoinKept, utxoVars
  <2> QED
    BY <2>3, <2>4, <2>5, <2>6, <2>7, <2>8 DEF IInv
<1>3. CASE ~ReceiverOpen
  <2>1. chan' = chan /\ wpc' = [wpc EXCEPT ![w] = "failed"] /\ bpc = "failed"
    BY <1>1, <1>3 DEF ReceiverOpen
  <2>2. TypeOK'
    <3>1. blkFailures' \in 0 .. MaxBlockFailures
      BY WorkersAssumption DEF IInv, TypeOK, BlocksTypeOK, LoaderTypeOK
    <3>2. (BlocksTypeOK /\ LoaderTypeOK)'
      BY <1>1, <2>1, <3>1 DEF IInv, TypeOK, BlocksTypeOK, LoaderTypeOK, utxoVars
    <3>3. HeadersTypeOK'
      BY <1>1, <2>1, HeadersTypeKept DEF IInv, TypeOK, HeadersTypeOK
    <3> QED
      BY <3>2, <3>3 DEF TypeOK, IInv
  <2>3. NodesInv'
    BY <1>1, <2>1, PeersAssumption DEF IInv, NodesInv, NodesNotShared, hdrVars
  <2>4. RangeInv'
    BY <1>1, <2>1 DEF IInv, RangeInv, hdrVars, utxoVars
  <2>5. PhaseInv'
    BY <1>1, <2>1 DEF IInv, PhaseInv, ReceiverOpen, hdrVars
  <2>6. WorkInv'
    BY <2>1 DEF IInv, WorkInv, WorkConserved, NotStarted, NothingSent,
                NothingMissed, NoGap, ReceiverOpen, hdrVars
  <2>7. CoinInv'
    BY <1>1, <2>1 DEF IInv, CoinInv, UnspentCoinsKept, CoinKept, utxoVars
  <2> QED
    BY <2>2, <2>3, <2>4, <2>5, <2>6, <2>7 DEF IInv
<1> QED
  BY <1>2, <1>3

\* A worker stores the blocks of its chunk.
LEMMA WorkerStoreInv ==
    ASSUME IInv, NEW w \in Workers, WorkerStore(w), UNCHANGED result
    PROVE  IInv'
<1> USE DEF WorkerStore
<1>1. /\ wchunk[w].lo \in Nat /\ wchunk[w].hi \in Int /\ wnext[w] \in Nat
      /\ headers \in Nat /\ FirstBlock \in Nat /\ Tip \in Nat /\ headers <= Tip + 1
      /\ FirstBlock <= wchunk[w].lo /\ wchunk[w].hi < headers
      /\ wnext[w] <= wchunk[w].hi + 1
      /\ wpc \in [Workers -> {"idle", "waiting", "run", "stored", "ended", "failed"}]
      /\ bpc \in {"spawn", "failed"}
  BY RunningWorker
<1>2. /\ blocks' \subseteq FirstBlock .. (headers - 1)
      /\ blocks' \subseteq FirstBlock .. Tip
  <2>1. Heights(wchunk[w]) \subseteq FirstBlock .. (headers - 1)
    BY <1>1 DEF Heights
  <2>2. blocks \subseteq FirstBlock .. (headers - 1)
    BY DEF IInv, RangeInv
  <2>3. FirstBlock .. (headers - 1) \subseteq FirstBlock .. Tip
    BY <1>1
  <2> QED
    BY <2>1, <2>2, <2>3
<1>3. TypeOK'
  <2>1. (BlocksTypeOK /\ LoaderTypeOK)'
    BY <1>1, <1>2 DEF IInv, TypeOK, BlocksTypeOK, LoaderTypeOK, utxoVars
  <2>2. HeadersTypeOK'
    BY HeadersTypeKept DEF IInv, TypeOK, HeadersTypeOK
  <2> QED
    BY <2>1, <2>2 DEF TypeOK, IInv
<1>4. NodesInv'
  BY <1>1 DEF IInv, NodesInv, NodesNotShared, hdrVars
<1>5. RangeInv'
  BY <1>1, <1>2 DEF IInv, RangeInv, hdrVars, utxoVars
<1>6. PhaseInv'
  BY <1>1 DEF IInv, PhaseInv, ReceiverOpen, hdrVars
<1>7. WorkInv'
  <2> SUFFICES ASSUME NoGap' PROVE (WorkConserved /\ NotStarted /\ NothingSent /\ NothingMissed)'
    BY DEF WorkInv, WorkConserved
  <2>1. NoGap /\ WorkConserved /\ NotStarted /\ NothingSent /\ NothingMissed
    BY DEF NoGap, IInv, WorkInv, hdrVars
  <2>2. WorkConserved'
    <3> SUFFICES ASSUME ReceiverOpen, NEW h \in FirstBlock .. (headers - 1)
                 PROVE  Accounted(h)'
      BY DEF WorkConserved, ReceiverOpen, hdrVars
    <3>1. Accounted(h)
      BY <2>1 DEF WorkConserved
    <3>2. CASE h \in Heights(wchunk[w])
      BY <3>2 DEF Accounted
    <3>3. CASE \E v \in Workers \ {w} : /\ wpc[v] \in {"waiting", "run"}
                                        /\ h \in Heights(wchunk[v])
      BY <1>1, <3>3 DEF Accounted
    <3> QED
      BY <3>1, <3>2, <3>3 DEF Accounted, hdrVars
  <2> QED
    BY <1>1, <2>1, <2>2 DEF NotStarted, NothingSent, NothingMissed, hdrVars
<1>8. CoinInv'
  <2>1. \A h : CoinKept(h)' <=> CoinKept(h)
    BY DEF CoinKept, utxoVars
  <2>2. wchunk[w].lo .. (wnext[w] - 1) = Heights(wchunk[w])
    BY <1>1 DEF Heights
  <2>3. \A h \in Unspent(Heights(wchunk[w])) : CoinKept(h)
    BY <2>2 DEF IInv, CoinInv
  <2>4. UnspentCoinsKept'
    BY <2>1, <2>3 DEF IInv, CoinInv, UnspentCoinsKept, Unspent
  <2> QED
    BY <1>1, <2>1, <2>4 DEF IInv, CoinInv
<1> QED
  BY <1>3, <1>4, <1>5, <1>6, <1>7, <1>8 DEF IInv

\* A worker gives its connection back.
LEMMA WorkerReturnNodeInv ==
    ASSUME IInv, NEW w \in Workers, WorkerReturnNode(w), UNCHANGED result
    PROVE  IInv'
<1> USE DEF WorkerReturnNode, return_node_to_vec
<1>1. /\ wpc \in [Workers -> {"idle", "waiting", "run", "stored", "ended", "failed"}]
      /\ wnode \in [Workers -> Peers \cup {NoPeer}] /\ wnode[w] \in Peers
      /\ chan \in Seq(Batches)
  BY DEF IInv, TypeOK, HeadersTypeOK, BlocksTypeOK, LoaderTypeOK, NodesInv
<1>2. TypeOK'
  <2>1. (BlocksTypeOK /\ LoaderTypeOK)'
    BY <1>1 DEF IInv, TypeOK, BlocksTypeOK, LoaderTypeOK, utxoVars
  <2>2. HeadersTypeOK'
    BY <1>1, HeadersTypeKept DEF IInv, TypeOK, HeadersTypeOK
  <2> QED
    BY <2>1, <2>2 DEF TypeOK, IInv
<1>3. NodesInv'
  BY <1>1, PeersAssumption DEF IInv, NodesInv, NodesNotShared, hdrVars
<1>4. RangeInv'
  BY <1>1 DEF IInv, RangeInv, hdrVars, utxoVars
<1>5. PhaseInv'
  BY <1>1 DEF IInv, PhaseInv, ReceiverOpen, hdrVars
<1>6. WorkInv'
  <2> SUFFICES ASSUME NoGap' PROVE (WorkConserved /\ NotStarted /\ NothingSent /\ NothingMissed)'
    BY DEF WorkInv, WorkConserved
  <2>1. NoGap /\ WorkConserved /\ NotStarted /\ NothingSent /\ NothingMissed
    BY DEF NoGap, IInv, WorkInv, hdrVars
  <2> QED
    BY <1>1, <2>1
       DEF WorkConserved, Accounted, NotStarted, NothingSent, NothingMissed,
           ReceiverOpen, hdrVars
<1>7. CoinInv'
  BY <1>1 DEF IInv, CoinInv, UnspentCoinsKept, CoinKept, utxoVars
<1> QED
  BY <1>2, <1>3, <1>4, <1>5, <1>6, <1>7 DEF IInv

--------------------------------------------------------------------------------
(***************************************************************************)
(* The utxo loader and the main thread.                                    *)
(***************************************************************************)
\* The loader takes the next list of blocks: a coin that no block spends is
\* added if it is new and stays if it is not.
LEMMA LoadUtxoSetInv ==
    ASSUME IInv, LoadUtxoSet, UNCHANGED <<nodes, chan, hdrVars, blkVars, result>>
    PROVE  IInv'
<1> USE DEF LoadUtxoSet
<1> DEFINE b == Head(uchan)
<1>1. /\ uchan \in Seq(Batches) /\ uchan # <<>> /\ chan \in Seq(Batches)
      /\ headers \in Nat /\ FirstBlock \in Nat /\ Tip \in Nat /\ headers <= Tip + 1
  BY ChainAssumption DEF IInv, TypeOK, HeadersTypeOK, BlocksTypeOK, LoaderTypeOK, RangeInv
<1>2. /\ b \in Batches /\ uchan' \in Seq(Batches) /\ 1 \in DOMAIN uchan /\ b = uchan[1]
      /\ \A i \in DOMAIN uchan' : i + 1 \in DOMAIN uchan /\ uchan'[i] = uchan[i + 1]
      /\ \A i \in DOMAIN uchan :
           uchan[i] = b \/ \E j \in DOMAIN uchan' : uchan'[j] = uchan[i]
  BY <1>1, TailFacts
<1>3. b.lo \in Nat /\ b.hi \in Int
  BY <1>2, BatchFacts
<1>4. InRange(b, headers)
  BY <1>2 DEF IInv, RangeInv
<1>5. Heights(b) \subseteq FirstBlock .. (headers - 1)
  BY <1>1, <1>3, <1>4 DEF InRange, Heights
<1>6. utxo_set' \subseteq FirstBlock .. (headers - 1)
  BY <1>5 DEF give_me_utxos, IInv, RangeInv
<1>7. TypeOK'
  <2>1. utxo_set' \subseteq FirstBlock .. Tip
    BY <1>1, <1>6
  <2>2. (BlocksTypeOK /\ LoaderTypeOK)'
    BY <1>2, <2>1 DEF IInv, TypeOK, BlocksTypeOK, LoaderTypeOK, blkVars
  <2>3. HeadersTypeOK'
    BY <1>1, HeadersTypeKept DEF IInv, TypeOK, HeadersTypeOK
  <2> QED
    BY <2>2, <2>3 DEF TypeOK, IInv
<1>8. NodesInv'
  BY DEF IInv, NodesInv, NodesNotShared, hdrVars, blkVars
<1>9. RangeInv'
  BY <1>2, <1>6 DEF IInv, RangeInv, hdrVars, blkVars
<1>10. PhaseInv'
  BY DEF IInv, PhaseInv, ReceiverOpen, hdrVars, blkVars
<1>11. WorkInv'
  BY DEF IInv, WorkInv, WorkConserved, Accounted, NotStarted, NothingSent,
         NothingMissed, NoGap, ReceiverOpen, hdrVars, blkVars
<1>12. CoinInv'
  <2>1. ASSUME NEW h, h \in Unspent({h}), CoinKept(h) PROVE CoinKept(h)'
    <3>1. h \notin UNION {Spends[g] : g \in Heights(b)}
      BY <1>1, <1>5, <2>1 DEF Unspent
    <3>2. CASE h \in utxo_set \cup Heights(b)
      BY <3>1, <3>2 DEF give_me_utxos, CoinKept
    <3>3. CASE \E i \in DOMAIN uchan : uchan[i] # b /\ h \in Heights(uchan[i])
      BY <1>2, <3>3 DEF CoinKept
    <3> QED
      BY <2>1, <3>2, <3>3 DEF CoinKept
  <2>2. \A S : \A h \in Unspent(S) : h \in Unspent({h})
    BY DEF Unspent
  <2>3. UnspentCoinsKept'
    BY <2>1, <2>2 DEF IInv, CoinInv, UnspentCoinsKept, blkVars
  <2>4. ASSUME NEW w \in Workers, wpc'[w] = "run",
               NEW h \in Unspent(wchunk[w].lo .. (wnext[w] - 1))
        PROVE  CoinKept(h)'
    BY <2>1, <2>2, <2>4 DEF IInv, CoinInv, blkVars
  <2> QED
    BY <2>3, <2>4 DEF IInv, CoinInv, blkVars
<1> QED
  BY <1>7, <1>8, <1>9, <1>10, <1>11, <1>12 DEF IInv

\* The loader ends; the main thread joins; nothing changes.
LEMMA RestInv ==
    ASSUME IInv,
           \/ /\ LoadUtxoSetEnd(SendersGone)
              /\ UNCHANGED <<nodes, chan, hdrVars, blkVars, result>>
           \/ MainStep
           \/ UNCHANGED vars
    PROVE  IInv'
<1>1. /\ UNCHANGED <<nodes, chan, hdrVars, blkVars, uchan, utxo_set>>
      /\ lpc' \in {lpc, "ended"}
      /\ result' \in {"running", "ok", "err"}
      /\ result' = "ok" => hpc = "done" /\ bpc = "done"
  BY DEF LoadUtxoSetEnd, MainStep, JoinHeadersFailed, JoinBlocksFailed, JoinAll, vars,
         utxoVars, IInv, TypeOK, PhaseInv
<1>2. chan \in Seq(Batches)
  BY DEF IInv, TypeOK, HeadersTypeOK
<1>3. TypeOK'
  <2>1. (BlocksTypeOK /\ LoaderTypeOK)'
    BY <1>1 DEF IInv, TypeOK, BlocksTypeOK, LoaderTypeOK, blkVars
  <2>2. HeadersTypeOK'
    BY <1>1, <1>2, HeadersTypeKept DEF IInv, TypeOK, HeadersTypeOK
  <2> QED
    BY <1>1, <2>1, <2>2 DEF TypeOK
<1>4. NodesInv'
  BY <1>1 DEF IInv, NodesInv, NodesNotShared, hdrVars, blkVars
<1>5. RangeInv'
  BY <1>1 DEF IInv, RangeInv, hdrVars, blkVars
<1>6. PhaseInv'
  BY <1>1 DEF IInv, PhaseInv, ReceiverOpen, hdrVars, blkVars
<1>7. WorkInv'
  BY <1>1 DEF IInv, WorkInv, WorkConserved, Accounted, NotStarted, NothingSent,
              NothingMissed, NoGap, ReceiverOpen, hdrVars, blkVars
<1>8. CoinInv'
  BY <1>1 DEF IInv, CoinInv, UnspentCoinsKept, CoinKept, blkVars
<1> QED
  BY <1>3, <1>4, <1>5, <1>6, <1>7, <1>8 DEF IInv

--------------------------------------------------------------------------------
(***************************************************************************)
(* The invariant holds in every reachable state.                           *)
(***************************************************************************)
\* Every step of every thread keeps the invariant.
LEMMA NextInv == IInv /\ [Next]_vars => IInv'
<1> SUFFICES ASSUME IInv, [Next]_vars PROVE IInv'
  OBVIOUS
<1>1. CASE HeadersThread
  BY <1>1, HeadersGetNodeInv, HeadersNoNodeInv, HeadersFirstBatchInv,
     HeadersBatchToSendInv, HeadersBatchSkippedInv, HeadersBatchEmptyInv,
     HeadersSendInv, HeadersReturnNodeInv
     DEF HeadersThread, HeadersStep
<1>2. CASE HeadersPeerFault
  BY <1>2, HeadersFaultInv DEF HeadersPeerFault
<1>3. CASE BlocksThread
  BY <1>3, BlocksReceiveInv, BlocksReceiveEmptyInv, BlocksSpawnInv, BlocksNoNodeInv,
     BlocksJoinInv
     DEF BlocksThread, BlocksStep
<1>4. CASE \E w \in Workers : Worker(w)
  BY <1>4, WorkerReceiveInv, WorkerStoreInv, WorkerReturnNodeInv DEF Worker, WorkerStep
<1>5. CASE \E w \in Workers : WorkerPeerFault(w)
  BY <1>5, WorkerFailInv DEF WorkerPeerFault
<1>6. CASE Loader
  BY <1>6, LoadUtxoSetInv, RestInv DEF Loader, LoaderStep
<1>7. CASE MainStep \/ Finished \/ UNCHANGED vars
  BY <1>7, RestInv DEF Finished
<1> QED
  BY <1>1, <1>2, <1>3, <1>4, <1>5, <1>6, <1>7 DEF Next

\* The inductive invariant holds throughout the download, whatever the number
\* of peers and workers, the batch and chunk sizes, the length of the chain and
\* the failures of the connections.
THEOREM Invariant == Spec => []IInv
  BY InitInv, NextInv, PTL DEF Spec

\* Type correctness of the download's state.
THEOREM TypeCorrect == Spec => []TypeOK
<1>1. IInv => TypeOK
  BY DEF IInv
<1> QED
  BY <1>1, Invariant, PTL

\* get_node and return_node_to_vec never let two threads use one connection.
THEOREM ConnectionsExclusive == Spec => []NodesNotShared
<1>1. IInv => NodesNotShared
  BY DEF IInv, NodesInv
<1> QED
  BY <1>1, Invariant, PTL

\* As long as download_blocks runs and no headers connection has failed, no
\* header's block is lost, whatever chunks fail and are retried.
THEOREM NoWorkLost == Spec => []WorkConserved
<1>1. IInv => WorkConserved
  BY DEF IInv, WorkInv
<1> QED
  BY <1>1, Invariant, PTL

\* Ok means complete when no headers connection failed: the count compared at
\* the end of download_blocks cannot stop the download before the last list
\* of headers unless a send fails, which makes the whole download fail.
THEOREM OkIsComplete == Spec => []CompleteIfHeadersNodeSurvives
<1>1. IInv => CompleteIfHeadersNodeSurvives
  <2> SUFFICES ASSUME IInv, result = "ok", NoGap PROVE blocks = FirstBlock .. Tip
    BY DEF CompleteIfHeadersNodeSurvives
  <2>1. hpc = "done" /\ bpc = "done" /\ headers = Tip + 1
    BY DEF IInv, PhaseInv
  <2>2. FirstBlock .. (headers - 1) \subseteq blocks
    BY <2>1 DEF IInv, WorkInv, NothingMissed
  <2>3. headers - 1 = Tip
    BY <2>1, ChainAssumption
  <2> QED
    BY <2>2, <2>3 DEF IInv, TypeOK, BlocksTypeOK, LoaderTypeOK
<1> QED
  BY <1>1, Invariant, PTL

\* The unsigned subtraction in download_blocks never underflows.
THEOREM NoUnderflow == Spec => []TotalDoesNotUnderflow
<1>1. IInv => TotalDoesNotUnderflow
  <2> SUFFICES ASSUME IInv, bpc = "spawn" \/ \E w \in Workers : LiveWorker(w)
               PROVE  headers >= FirstBlock
    BY DEF TotalDoesNotUnderflow
  <2>1. headers \in Nat /\ FirstBlock \in Nat
    BY ChainAssumption DEF IInv, TypeOK, HeadersTypeOK
  <2>2. CASE bpc = "spawn"
    BY <2>1, <2>2 DEF IInv, PhaseInv
  <2>3. ASSUME NEW w \in Workers, LiveWorker(w) PROVE headers >= FirstBlock
    <3>1. wchunk[w] \in Batches
      BY DEF IInv, TypeOK, BlocksTypeOK
    <3>2. wchunk[w].lo \in Nat /\ wchunk[w].hi \in Int
      BY <3>1, BatchFacts
    <3>3. InRange(wchunk[w], headers)
      BY <2>3 DEF IInv, RangeInv, LiveWorker
    <3> QED
      BY <2>1, <3>2, <3>3 DEF InRange
  <2> QED
    BY <2>2, <2>3
<1> QED
  BY <1>1, Invariant, PTL

\* However the lists of blocks reach load_utxo_set, no coin that stays unspent
\* is lost.
THEOREM NoUnspentCoinLost == Spec => []UnspentCoinsKept
<1>1. IInv => UnspentCoinsKept
  BY DEF IInv, CoinInv
<1> QED
  BY <1>1, Invariant, PTL

\* download_blocks ends with Ok only when the blocks of all headers stored at
\* that moment are stored: comparing the two counts is as good as comparing
\* the sets.
THEOREM DoneIsExact == Spec => DoneOnlyWhenAllKnownStored
<1>1. ASSUME IInv, [Next]_vars
      PROVE  [bpc # "done" /\ bpc' = "done" => blocks = FirstBlock .. (headers - 1)]_vars
  <2> SUFFICES ASSUME bpc # "done", bpc' = "done"
               PROVE  blocks = FirstBlock .. (headers - 1)
    OBVIOUS
  <2>1. BlocksJoin
    BY <1>1
       DEF Next, vars, blkVars, HeadersThread, HeadersPeerFault, BlocksThread,
           BlocksStep, BlocksReceive, BlocksReceiveEmpty, BlocksSpawn, BlocksNoNode,
           Worker, WorkerStep, WorkerReceive, WorkerStore, WorkerReturnNode,
           WorkerPeerFault, WorkerFail, Loader, LoaderStep, LoadUtxoSet,
           LoadUtxoSetEnd, MainStep, Finished
  <2>2. bpc = "spawn" /\ AllBlocksDownloaded
    BY <2>1 DEF BlocksJoin
  <2> QED
    BY <1>1, <2>2, CountIsEnough
<1> QED
  BY <1>1, Invariant, PTL DEF Spec, DoneOnlyWhenAllKnownStored
--------------------------------------------------------------------------------
(***************************************************************************)
(* The threads of the initial block download implement ChainSync.          *)
(***************************************************************************)
\* The main thread returns only after the headers thread has ended: it joins
\* that one first.
HeadersJoined == result # "running" => hpc \in {"done", "failed"}

\* After the main thread has returned no header arrives any more.
LEMMA HeadersJoinedInvariant == Spec => []HeadersJoined
<1>1. Init => HeadersJoined
  BY DEF Init, HeadersJoined
<1>2. HeadersJoined /\ [Next]_vars => HeadersJoined'
  <2> SUFFICES ASSUME HeadersJoined, [Next]_vars PROVE HeadersJoined'
    OBVIOUS
  <2> USE DEF HeadersJoined
  <2>1. CASE HeadersThread
    BY <2>1 DEF HeadersThread, HeadersStep, HeadersGetNode, HeadersNoNode,
        HeadersFirstBatch, HeadersBatchToSend, HeadersBatchSkipped, HeadersBatchEmpty,
        HeadersSend, HeadersReturnNode
  <2>2. CASE HeadersPeerFault
    BY <2>2 DEF HeadersPeerFault, HeadersFault, HeadersNodeError, HeadersInvalid
  <2>3. CASE MainStep
    BY <2>3 DEF MainStep, JoinHeadersFailed, JoinBlocksFailed, JoinAll, hdrVars
  <2>4. CASE UNCHANGED <<hpc, result>>
    BY <2>4
  <2>5. CASE BlocksThread
    BY <2>4, <2>5 DEF BlocksThread, BlocksStep, BlocksReceive, BlocksReceiveEmpty,
        BlocksSpawn, BlocksNoNode, BlocksJoin, hdrVars
  <2>6. CASE \E w \in Workers : Worker(w) \/ WorkerPeerFault(w)
    BY <2>4, <2>6 DEF Worker, WorkerStep, WorkerReceive, WorkerStore, WorkerReturnNode,
        WorkerPeerFault, WorkerFail, hdrVars
  <2>7. CASE Loader \/ Finished \/ UNCHANGED vars
    BY <2>4, <2>7 DEF Loader, Finished, vars, hdrVars
  <2> QED
    BY <2>1, <2>2, <2>3, <2>5, <2>6, <2>7 DEF Next
<1> QED
  BY <1>1, <1>2, PTL DEF Spec

--------------------------------------------------------------------------------
(***************************************************************************)
(* Steps of the threads as steps of ChainSync.                             *)
(***************************************************************************)
\* A list of headers is learned; an empty one changes nothing.
LEMMA ReceiveLearns ==
    ASSUME IInv, HeadersJoined, ReceiveAndStore, hpc \in {"first", "loop"},
           UNCHANGED <<hdrFailures, blkVars, result>>
    PROVE  Sync!Learn \/ UNCHANGED Sync!syncVars
<1>1. /\ Answer.hi \in Int /\ headers <= Answer.hi + 1 /\ Answer.hi <= Tip
  BY AnswerFacts DEF IInv, TypeOK, RangeInv
<1>2. headers' = Answer.hi + 1 /\ headers \in Nat /\ Tip \in Nat
  BY ChainAssumption DEF ReceiveAndStore, IInv, TypeOK, HeadersTypeOK
<1>3. result = "running"
  BY DEF HeadersJoined
<1>4. PICK len \in Int : len = headers' /\ headers <= len /\ len <= Tip + 1
  BY <1>1, <1>2
<1>5. /\ UNCHANGED <<blocks, result>>
      /\ (~NoGap)' = ~NoGap
  BY DEF blkVars, NoGap
<1>6. CASE len = headers
  BY <1>4, <1>5, <1>6 DEF Sync!syncVars
<1>7. CASE len # headers
  <2>1. len \in (headers + 1) .. (Tip + 1)
    BY <1>2, <1>4, <1>7
  <2> QED
    BY <1>3, <1>4, <1>5, <2>1 DEF Sync!Learn
<1> QED
  BY <1>6, <1>7

\* A worker that stores its chunk stores blocks of known headers, and not
\* after Ok.
LEMMA WorkerStores ==
    ASSUME IInv, IInv', NEW w \in Workers, WorkerStore(w), UNCHANGED result
    PROVE  Sync!Store
<1>1. blocks' = blocks \cup Heights(wchunk[w]) /\ UNCHANGED <<headers, hdrFailures, result>>
  BY DEF WorkerStore, hdrVars
<1>2. blocks' \subseteq FirstBlock .. (headers' - 1)
  BY DEF IInv, RangeInv
<1>3. result # "ok"
  BY DEF IInv, PhaseInv, WorkerStore
<1>4. (~NoGap)' = ~NoGap
  BY <1>1 DEF NoGap
<1> QED
  BY <1>1, <1>2, <1>3, <1>4 DEF Sync!Store

\* A connection that fails is lost, unless one was before.
LEMMA FaultLoses ==
    ASSUME IInv, HeadersFault, UNCHANGED <<blkVars, result>>
    PROVE  Sync!LoseConnection \/ UNCHANGED Sync!syncVars
<1>1. hdrFailures \in Nat /\ hdrFailures' = hdrFailures + 1 /\ UNCHANGED <<headers, blocks, result>>
  BY ChainAssumption
     DEF HeadersFault, HeadersNodeError, HeadersInvalid, IInv, TypeOK, HeadersTypeOK, blkVars
<1>2. hdrFailures' # 0
  BY <1>1
<1>3. ~NoGap'
  BY <1>2 DEF NoGap
<1> QED
  BY <1>1, <1>3 DEF Sync!LoseConnection, Sync!syncVars

\* The main thread returns Ok once, with all headers and, unless a connection
\* was lost, all blocks.
LEMMA MainReturns ==
    ASSUME IInv, IInv', MainStep
    PROVE  Sync!ReturnOk \/ Sync!ReturnErr
<1>1. result = "running" /\ UNCHANGED <<headers, hdrFailures, blocks>>
  BY DEF MainStep, hdrVars, blkVars
<1>2. (~NoGap)' = ~NoGap
  BY <1>1 DEF NoGap
<1>3. CASE result' = "err"
  BY <1>1, <1>2, <1>3 DEF Sync!ReturnErr
<1>4. CASE result' = "ok"
  <2>1. hpc = "done" /\ bpc = "done"
    BY <1>4 DEF MainStep, JoinHeadersFailed, JoinBlocksFailed, JoinAll
  <2>2. headers = Tip + 1
    BY <2>1 DEF IInv, PhaseInv
  <2>3. NoGap => blocks = FirstBlock .. Tip
    <3> SUFFICES ASSUME NoGap PROVE blocks = FirstBlock .. Tip
      OBVIOUS
    <3>1. FirstBlock .. (headers - 1) \subseteq blocks
      BY <2>1 DEF IInv, WorkInv, NothingMissed
    <3>2. headers - 1 = Tip
      BY <2>2, ChainAssumption
    <3> QED
      BY <3>1, <3>2 DEF IInv, TypeOK, BlocksTypeOK, LoaderTypeOK
  <2> QED
    BY <1>1, <1>2, <1>4, <2>2, <2>3 DEF Sync!ReturnOk
<1> QED
  BY <1>3, <1>4 DEF MainStep, JoinHeadersFailed, JoinBlocksFailed, JoinAll

--------------------------------------------------------------------------------
\* Every step of the threads is a step of ChainSync or changes nothing that
\* ChainSync speaks of.
LEMMA StepSimulation ==
    IInv /\ IInv' /\ HeadersJoined /\ [Next]_vars => [Sync!SyncNext]_(Sync!syncVars)
<1> SUFFICES ASSUME IInv, IInv', HeadersJoined, [Next]_vars
             PROVE  Sync!SyncNext \/ UNCHANGED Sync!syncVars
  OBVIOUS
<1>1. ASSUME UNCHANGED <<headers, hdrFailures, blocks, result>>
      PROVE  UNCHANGED Sync!syncVars
  BY <1>1 DEF Sync!syncVars, NoGap
<1>2. CASE HeadersThread
  <2>1. CASE HeadersFirstBatch \/ HeadersBatchToSend \/ HeadersBatchSkipped \/ HeadersBatchEmpty
    BY <1>2, <2>1, ReceiveLearns
       DEF HeadersThread, HeadersFirstBatch, HeadersBatchToSend, HeadersBatchSkipped,
           HeadersBatchEmpty, Sync!SyncNext
  <2>2. CASE HeadersGetNode \/ HeadersNoNode \/ HeadersSend(ReceiverOpen) \/ HeadersReturnNode
    BY <1>1, <1>2, <2>2
       DEF HeadersThread, HeadersGetNode, HeadersNoNode, HeadersSend, HeadersReturnNode, blkVars
  <2> QED
    BY <1>2, <2>1, <2>2 DEF HeadersThread, HeadersStep
<1>3. CASE HeadersPeerFault
  BY <1>3, FaultLoses DEF HeadersPeerFault, Sync!SyncNext
<1>4. CASE BlocksThread
  BY <1>1, <1>4
     DEF BlocksThread, BlocksStep, BlocksReceive, BlocksReceiveEmpty, BlocksSpawn,
         BlocksNoNode, BlocksJoin, hdrVars
<1>5. ASSUME NEW w \in Workers, Worker(w) \/ WorkerPeerFault(w)
      PROVE  Sync!SyncNext \/ UNCHANGED Sync!syncVars
  <2>1. CASE WorkerStore(w) /\ UNCHANGED result
    BY <2>1, WorkerStores DEF Sync!SyncNext
  <2>2. CASE (WorkerReceive(w) \/ WorkerReturnNode(w) \/ WorkerFail(w)) /\ UNCHANGED result
    BY <1>1, <2>2 DEF WorkerReceive, WorkerReturnNode, WorkerFail, hdrVars
  <2> QED
    BY <1>5, <2>1, <2>2 DEF Worker, WorkerStep, WorkerPeerFault
<1>6. CASE MainStep
  BY <1>6, MainReturns DEF Sync!SyncNext
<1>7. CASE Loader \/ Finished \/ UNCHANGED vars
  BY <1>1, <1>7 DEF Loader, Finished, vars, hdrVars, blkVars
<1> QED
  BY <1>2, <1>3, <1>4, <1>5, <1>6, <1>7 DEF Next

\* download_full_blockchain_from_multiple_nodes keeps the promise of ChainSync,
\* for every number of connections and workers, every chain and every failure:
\* headers and blocks only grow, blocks are those of known headers, and after
\* Ok, which means a complete chain unless a headers connection was lost,
\* nothing moves any more.
THEOREM Refinement == Spec => ImplementsChainSync
<1>1. Init => Sync!SyncInit
  <2> SUFFICES ASSUME Init PROVE Sync!SyncInit
    OBVIOUS
  <2>1. (~NoGap) = TRUE \/ (~NoGap) = FALSE
    OBVIOUS
  <2> QED
    BY <2>1 DEF Init, HeadersInit, BlocksInit, Sync!SyncInit
<1> QED
  BY <1>1, Invariant, HeadersJoinedInvariant, StepSimulation, PTL
     DEF Spec, ImplementsChainSync, Sync!SyncSpec
=============================================================================
