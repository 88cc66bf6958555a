-------------------------- MODULE HeadersFileProofs --------------------------
(***************************************************************************)
(* Proofs about the headers file, for every size of a list, height of the  *)
(* chain, number of peers, of crashes and of faults, and whatever a write  *)
(* that fails leaves behind.                                               *)
(***************************************************************************)
EXTENDS HeadersFile, ListLemmas

Messages == [heads : Seq(Int), bytes : Nat]

TypeInv ==
    /\ exists \in BOOLEAN
    /\ file \in Seq(Messages)
    /\ headers \in Seq(Int) /\ headers # <<>>
    /\ pc \in {"start", "read", "create", "get", "loop", "ready", "failed", "panic"}
    /\ pos \in Nat
    /\ nodes \subseteq Peers
    /\ pc = "loop" => node \in Peers
    /\ tips \in [Peers -> Chain]

\* What the history says of the lists of the file.
FileInv ==
    /\ \A i \in DOMAIN file : /\ file[i].bytes \in 1 .. SizeOf(file[i].heads)
                              /\ Len(file[i].heads) <= BatchSize
    /\ "short" \notin seen => \A i \in DOMAIN file : Full(file[i])
    /\ "cut" \notin seen => \A i \in DOMAIN file : Whole(file[i])
    /\ "failed" \notin seen => \A i \in DOMAIN file : Whole(file[i])
    /\ "gap" \notin seen => \A i \in DOMAIN file : i < Len(file) => Whole(file[i])

\* All lists of the file are full, and all but the last one whole.
Tidy == /\ \A i \in DOMAIN file : Full(file[i])
        /\ \A i \in DOMAIN file : i < Len(file) => Whole(file[i])

\* The headers of the first k lists of the file.
HeadsOf(m) == SubSeq(m.heads, 1, Kept(m))
ContentsTo(k) == FlattenSeq([i \in 1 .. k |-> HeadsOf(file[i])])

\* Slices of a tidy file are its lists.
ReadInv == Tidy /\ pc = "read" =>
    \E k \in 0 .. Len(file) : /\ pos = Offset(k)
                              /\ \A i \in 1 .. k : Whole(file[i])
                              /\ Tail(headers) = ContentsTo(k)

\* Where the process is and what it has in memory.
PlaceInv ==
    /\ pc = "start" => pos = 0
    /\ pc \in {"start", "read", "create"} /\ pos = 0 => headers = <<0>>
    /\ pc \in {"create", "get", "loop", "failed"} /\ pos > 0 =>
         seen \cap {"short", "gap"} # {} /\ seen \cap {"short", "cut"} # {}

Counted(s) == \A j \in DOMAIN s : s[j] = j /\ s[j] \in 1 .. Tip

\* The lists of the file follow each other, from the first header on.
FileChainInv == seen \cap {"behind", "refused", "short", "gap"} = {} =>
    \A k \in 0 .. Len(file) : Counted(ContentsTo(k))

HeightsRight == \A h \in 1 .. Len(headers) - 1 : h \in Chain /\ header_heights[h] = h

MemoryInv ==
    "behind" \notin seen /\ (pos = 0 \/ seen \cap {"refused", "short", "gap"} = {}) =>
        IsChain(headers) /\ HeightsRight

FileLifeInv == /\ TypeInv /\ FileInv /\ ReadInv /\ PlaceInv /\ FileChainInv /\ MemoryInv
               /\ PersistedEqualsMemory /\ PanicOnlyIfCut

--------------------------------------------------------------------------------
(***************************************************************************)
(* Bytes.                                                                  *)
(***************************************************************************)
\* The sums of bytes are natural numbers, each the one before and the bytes
\* of a list.
LEMMA OffsetDef ==
    ASSUME file \in Seq(Messages)
    PROVE  /\ Offset(0) = 0 /\ \A k \in 0 .. Len(file) : Offset(k) \in Nat
           /\ \A k \in 1 .. Len(file) : Offset(k) = Offset(k - 1) + file[k].bytes
<1> DEFINE N == Len(file)
           g == [x \in (1 .. N) \X Nat |-> x[2] + file[x[1]].bytes]
<1>0. N \in Nat /\ DOMAIN file = 1 .. N
  OBVIOUS
<1>1. \A k \in 1 .. N : file[k].bytes \in Nat
  <2>1. \A k \in 1 .. N : file[k] \in Messages
    OBVIOUS
  <2> QED
    BY <2>1 DEF Messages
<1>2. g \in [(1 .. N) \X Nat -> Nat]
  <2> SUFFICES ASSUME NEW x \in (1 .. N) \X Nat PROVE x[2] + file[x[1]].bytes \in Nat
    OBVIOUS
  <2>1. x[1] \in 1 .. N /\ x[2] \in Nat
    OBVIOUS
  <2>2. file[x[1]].bytes \in Nat
    BY <1>1, <2>1
  <2> QED
    BY <2>1, <2>2
<1> DEFINE Body(f) == [k \in 0 .. N |-> IF k = 0 THEN 0 ELSE f[k - 1] + file[k].bytes]
           F == CHOOSE f : f = Body(f)
<1>3. \E f : f = Body(f)
  <2> HIDE DEF g, N
  <2>1. PICK f \in [0 .. N -> Nat] : Steps(f, N, 0, g)
    BY <1>0, <1>2, StepByStep
  <2>2. f[0] = 0 /\ \A n \in 1 .. N : f[n] = g[<<n, f[n - 1]>>]
    BY <2>1 DEF Steps
  <2>3. \A n \in 1 .. N : f[n] = f[n - 1] + file[n].bytes
    <3> SUFFICES ASSUME NEW n \in 1 .. N PROVE f[n] = f[n - 1] + file[n].bytes
      OBVIOUS
    <3>1. n - 1 \in 0 .. N
      BY <1>0
    <3>2. <<n, f[n - 1]>> \in (1 .. N) \X Nat
      BY <2>1, <3>1
    <3>3. g[<<n, f[n - 1]>>] = f[n - 1] + file[n].bytes
      BY <3>2 DEF g
    <3> QED
      BY <2>2, <3>3
  <2>4. \A n \in 0 .. N : f[n] = IF n = 0 THEN 0 ELSE f[n - 1] + file[n].bytes
    BY <1>0, <2>2, <2>3
  <2>5. f = [n \in 0 .. N |-> f[n]]
    BY <2>1
  <2>6. f = Body(f)
    BY <2>4, <2>5
  <2> HIDE DEF Body
  <2> QED
    BY <2>6
<1>4. F = Body(F)
  <2> HIDE DEF Body
  <2> QED
    BY <1>3
<1>5. \A k : Offset(k) = F[k]
  BY DEF Offset
<1> HIDE DEF F
<1>6. \A k \in 0 .. N : F[k] = IF k = 0 THEN 0 ELSE F[k - 1] + file[k].bytes
  BY <1>4
<1>7. F[0] = 0 /\ \A k \in 1 .. N : F[k] = F[k - 1] + file[k].bytes
  BY <1>0, <1>6
<1> DEFINE G == {k \in 0 .. N : F[k] \in Nat}
<1>8. 0 .. N \subseteq G
  <2>1. 0 \in G
    BY <1>0, <1>7
  <2>2. ASSUME NEW k \in 0 .. (N - 1), k \in G PROVE k + 1 \in G
    <3>1. k + 1 \in 1 .. N /\ (k + 1) - 1 = k /\ F[k] \in Nat
      BY <1>0, <2>2
    <3>2. F[k + 1] = F[k] + file[k + 1].bytes /\ file[k + 1].bytes \in Nat
      BY <1>1, <1>7, <3>1
    <3> QED
      BY <1>0, <3>1, <3>2
  <2> HIDE DEF G, N
  <2> QED
    BY <1>0, <2>1, <2>2, UpTo
<1> QED
  BY <1>5, <1>7, <1>8

\* The bytes before a list are fewer than those before a later one.
LEMMA OffsetGrows ==
    ASSUME file \in Seq(Messages), \A i \in DOMAIN file : file[i].bytes >= 1,
           NEW j \in 0 .. Len(file), NEW k \in 0 .. Len(file), j < k
    PROVE  Offset(j) < Offset(k)
<1> DEFINE N == Len(file)
           G == {n \in (j + 1) .. N : Offset(j) < Offset(n)}
<1>0. N \in Nat /\ DOMAIN file = 1 .. N
  OBVIOUS
<1>1. /\ \A n \in 0 .. N : Offset(n) \in Nat
      /\ \A n \in 1 .. N : Offset(n) = Offset(n - 1) + file[n].bytes
  BY OffsetDef
<1>2. \A n \in 1 .. N : file[n].bytes \in Nat /\ file[n].bytes >= 1
  <2>1. \A n \in 1 .. N : file[n] \in Messages
    OBVIOUS
  <2> QED
    BY <2>1, <1>0 DEF Messages
<1>3. \A n \in 1 .. N : Offset(n - 1) < Offset(n) /\ n - 1 \in 0 .. N
  <2> SUFFICES ASSUME NEW n \in 1 .. N PROVE Offset(n - 1) < Offset(n) /\ n - 1 \in 0 .. N
    OBVIOUS
  <2>1. n - 1 \in 0 .. N /\ n \in 0 .. N
    BY <1>0
  <2>2. Offset(n - 1) \in Nat /\ Offset(n) \in Nat
    BY <1>1, <2>1
  <2>3. Offset(n) = Offset(n - 1) + file[n].bytes /\ file[n].bytes \in Nat /\ file[n].bytes >= 1
    BY <1>1, <1>2
  <2> DEFINE a == Offset(n - 1)
             b == Offset(n)
             c == file[n].bytes
  <2>4. a \in Nat /\ c \in Nat /\ c >= 1 /\ b = a + c
    BY <2>2, <2>3
  <2> HIDE DEF a, b, c, N
  <2>5. a < b
    BY <2>4
  <2> QED
    BY <2>1, <2>5 DEF a, b
<1> HIDE DEF N
<1>4. j + 1 \in G
  <2>1. j + 1 \in 1 .. N /\ (j + 1) - 1 = j /\ j + 1 \in (j + 1) .. N
    BY <1>0 DEF N
  <2> QED
    BY <1>3, <2>1
<1>5. ASSUME NEW n \in (j + 1) .. (N - 1), n \in G PROVE n + 1 \in G
  <2>1. n + 1 \in 1 .. N /\ (n + 1) - 1 = n /\ n + 1 \in (j + 1) .. N /\ n \in 0 .. N /\ n + 1 \in 0 .. N /\ j \in 0 .. N
    BY <1>0 DEF N
  <2>2. Offset(j) < Offset(n) /\ Offset(n) < Offset(n + 1)
    BY <1>3, <1>5, <2>1
  <2>3. Offset(j) \in Nat /\ Offset(n) \in Nat /\ Offset(n + 1) \in Nat
    BY <1>1, <2>1
  <2> DEFINE a == Offset(j)
             b == Offset(n)
             c == Offset(n + 1)
  <2> HIDE DEF a, b, c
  <2>4. a < c
    BY <2>2, <2>3 DEF a, b, c
  <2> QED
    BY <2>1, <2>4 DEF a, c
<1> HIDE DEF G
<1>6. (j + 1) .. N \subseteq G
  <2>1. j + 1 \in Nat
    OBVIOUS
  <2> QED
    BY <1>0, <1>4, <1>5, <2>1, UpTo DEF N
<1>7. k \in (j + 1) .. N
  BY <1>0 DEF N
<1> QED
  BY <1>6, <1>7 DEF G

\* Of a list at most its headers are kept, and all if it is whole.
LEMMA KeptHeads ==
    ASSUME NEW m \in Messages, m.bytes \in 0 .. SizeOf(m.heads)
    PROVE  /\ Kept(m) \in 0 .. Len(m.heads)
           /\ Whole(m) => Kept(m) = Len(m.heads) /\ HasCount(m) /\ HeadsOf(m) = m.heads
           /\ HeadsOf(m) \in Seq(Int) /\ Len(HeadsOf(m)) = Kept(m)
           /\ \A j \in 1 .. Kept(m) : HeadsOf(m)[j] = m.heads[j]
<1> DEFINE heads == m.heads
           b == m.bytes
           l == Len(heads)
           c == CountSize(heads)
<1>1. heads \in Seq(Int) /\ b \in Nat /\ l \in Nat
  BY DEF Messages
<1>2. c \in {1, 3} /\ b <= c + 81 * l /\ (Whole(m) => b = c + 81 * l) /\ (HasCount(m) <=> b >= c)
  <2>1. SizeOf(heads) = c + 81 * l
    BY DEF SizeOf
  <2>2. c \in {1, 3}
    BY DEF CountSize
  <2>3. (Whole(m) <=> b = SizeOf(heads)) /\ (HasCount(m) <=> b >= c)
    BY DEF Whole, HasCount
  <2> HIDE DEF c, l, b, heads
  <2>4. c + 81 * l \in Nat
    BY <1>1, <2>2
  <2>5. b \in 0 .. SizeOf(heads)
    BY DEF b, heads
  <2> QED
    BY <2>1, <2>2, <2>3, <2>4, <2>5
<1>3. Kept(m) = IF HasCount(m) THEN (b - c + 1) \div 81 ELSE 0
  BY DEF Kept
<1> HIDE DEF c, b
<1>4. Kept(m) \in 0 .. l
  <2> HIDE DEF l
  <2>1. CASE HasCount(m)
    BY <1>1, <1>2, <1>3, <2>1
  <2>2. CASE ~HasCount(m)
    BY <1>1, <1>3, <2>2
  <2> QED
    BY <2>1, <2>2
<1>5. Whole(m) => Kept(m) = l /\ HasCount(m)
  <2> HIDE DEF l
  <2> QED
    BY <1>1, <1>2, <1>3
<1>6. /\ SubSeq(heads, 1, l) = heads
      /\ \A n \in 0 .. l : SubSeq(heads, 1, n) \in Seq(Int) /\ Len(SubSeq(heads, 1, n)) = n
      /\ \A n \in 0 .. l : \A j \in 1 .. n : SubSeq(heads, 1, n)[j] = heads[j]
  <2> HIDE DEF heads
  <2> QED
    BY <1>1, PrefixIs DEF l
<1> QED
  BY <1>4, <1>5, <1>6 DEF HeadsOf

--------------------------------------------------------------------------------
(***************************************************************************)
(* What the file holds.                                                    *)
(***************************************************************************)
WellFormed == /\ file \in Seq(Messages)
              /\ \A i \in DOMAIN file : file[i].bytes \in 1 .. SizeOf(file[i].heads)

\* The headers of the file, list by list.
ContentsAre == /\ ContentsTo(0) = <<>> /\ Contents = ContentsTo(Len(file))
               /\ \A k \in 0 .. Len(file) : ContentsTo(k) \in Seq(Int)
               /\ \A k \in 1 .. Len(file) : ContentsTo(k) = ContentsTo(k - 1) \o HeadsOf(file[k])

LEMMA ContentsIs == WellFormed => ContentsAre
<1> SUFFICES ASSUME WellFormed PROVE ContentsAre
  OBVIOUS
<1> DEFINE N == Len(file)
           L(k) == [i \in 1 .. k |-> HeadsOf(file[i])]
<1>0. N \in Nat /\ DOMAIN file = 1 .. N
  BY DEF WellFormed
<1>1. ASSUME NEW i \in 1 .. N PROVE HeadsOf(file[i]) \in Seq(Int)
  <2>1. file[i] \in Messages /\ file[i].bytes \in 0 .. SizeOf(file[i].heads)
    BY <1>0 DEF WellFormed
  <2> QED
    BY <2>1, KeptHeads
<1>2. ContentsTo(0) = <<>>
  <2>1. L(0) = <<>>
    OBVIOUS
  <2>2. FlattenSeq(<<>>) = <<>>
    BY DEF FlattenSeq
  <2> QED
    BY <2>1, <2>2 DEF ContentsTo
<1>3. Contents = ContentsTo(N)
  BY <1>0 DEF Contents, ContentsTo, HeadsOf
<1> DEFINE S == Seq(Int)
<1>4. ASSUME NEW k \in 0 .. N PROVE L(k) \in Seq(S) /\ Len(L(k)) = k /\ \A i \in 1 .. k : L(k)[i] = HeadsOf(file[i])
  <2>1. \A i \in 1 .. k : HeadsOf(file[i]) \in S
    BY <1>0, <1>1
  <2>2. k \in Nat
    BY <1>0
  <2> HIDE DEF S
  <2> QED
    BY <2>1, <2>2
<1>5. ASSUME NEW k \in 1 .. N PROVE ContentsTo(k) = ContentsTo(k - 1) \o HeadsOf(file[k])
  <2>1. k - 1 \in 0 .. N /\ k \in 0 .. N /\ (k - 1) + 1 = k /\ k - 1 \in Nat
    BY <1>0
  <2> DEFINE a == L(k - 1)
             b == L(k)
             e == HeadsOf(file[k])
  <2>2. /\ a \in Seq(S) /\ Len(a) = k - 1 /\ b \in Seq(S) /\ Len(b) = k
        /\ (\A i \in 1 .. k - 1 : a[i] = b[i]) /\ b[k] = e /\ e \in S
    <3>1. /\ L(k - 1) \in Seq(S) /\ Len(L(k - 1)) = k - 1
          /\ \A i \in 1 .. k - 1 : L(k - 1)[i] = HeadsOf(file[i])
      BY <1>4, <2>1
    <3>2. /\ L(k) \in Seq(S) /\ Len(L(k)) = k /\ \A i \in 1 .. k : L(k)[i] = HeadsOf(file[i])
      BY <1>4, <2>1
    <3>3. \A i \in 1 .. k - 1 : i \in 1 .. k
      BY <2>1
    <3> HIDE DEF L, S
    <3> QED
      BY <1>1, <3>1, <3>2, <3>3 DEF S
  <2> HIDE DEF S, a, b, e
  <2>3. b = Append(a, e)
    <3>1. IsLonger(S, a, e, k - 1, Append(a, e))
      BY <2>1, <2>2, Longer
    <3>2. /\ Append(a, e) \in Seq(S) /\ Len(Append(a, e)) = k
          /\ \A i \in 1 .. k : b[i] = Append(a, e)[i]
      <4>1. \A i \in 1 .. k : i \in 1 .. k - 1 \/ i = k
        BY <2>1
      <4> QED
        BY <2>1, <2>2, <3>1, <4>1 DEF IsLonger
    <3> QED
      BY <2>2, <3>2, SameList
  <2>4. FlattenSeq(Append(a, e)) = FlattenSeq(a) \o e
    BY <2>2, FlattenAppend DEF S
  <2> QED
    BY <2>3, <2>4 DEF ContentsTo, a, b, e
<1>6. ASSUME NEW k \in 0 .. N PROVE ContentsTo(k) \in Seq(Int)
  <2>1. L(k) \in Seq(Seq(Int))
    BY <1>4
  <2>2. FlattenSeq(L(k)) \in Seq(Int)
    BY <2>1, FlattenType
  <2> QED
    BY <2>2 DEF ContentsTo
<1> QED
  BY <1>2, <1>3, <1>5, <1>6 DEF ContentsAre

LEMMA ContentsAreNext == WellFormed' => ContentsAre'
BY ContentsIs, PTL

LEMMA SameFile ==
    ASSUME UNCHANGED file
    PROVE  /\ Contents' = Contents /\ Length' = Length
           /\ \A k : ContentsTo(k)' = ContentsTo(k) /\ Offset(k)' = Offset(k)
BY DEF Contents, ContentsTo, Offset, Length

\* The file after a list of which n bytes are written, and what the history
\* says of it.
Wrote(heads, n) == \/ file' = file /\ (n = 0 \/ heads = <<>>)
                   \/ n > 0 /\ file' = Append(file, [heads |-> heads, bytes |-> n])

Noted(heads, n) ==
    /\ seen \subseteq seen'
    /\ n > 0 /\ Len(heads) < BatchSize => "short" \in seen'
    /\ 0 < n /\ n < SizeOf(heads) => "cut" \in seen'
    /\ n < SizeOf(heads) => "failed" \in seen'
    /\ n > 0 /\ "failed" \in seen => "gap" \in seen'

LEMMA SizeIsNat ==
    ASSUME NEW heads \in Seq(Int)
    PROVE  SizeOf(heads) \in Nat \ {0} /\ Len(heads) \in Nat
<1>1. PICK l \in Nat : l = Len(heads)
  OBVIOUS
<1> QED
  BY <1>1 DEF SizeOf, CountSize

\* The file is the same or one list longer.
LEMMA FileWritten ==
    ASSUME WellFormed, FileInv, NEW heads \in Seq(Int), Len(heads) <= BatchSize,
           NEW n \in 0 .. SizeOf(heads), Wrote(heads, n), Noted(heads, n)
    PROVE  /\ WellFormed' /\ FileInv'
           /\ Len(file) \in Nat /\ Len(file') \in {Len(file), Len(file) + 1}
           /\ \A k \in 0 .. Len(file) : ContentsTo(k)' = ContentsTo(k)
           /\ \E j \in 0 .. Len(heads) : /\ Contents' = Contents \o SubSeq(heads, 1, j)
                                         /\ n = SizeOf(heads) => j = Len(heads)
                                         /\ file' = file => j = 0
<1> DEFINE m == [heads |-> heads, bytes |-> n]
<1>0. PICK N \in Nat : N = Len(file)
  BY DEF WellFormed
<1>1. SizeOf(heads) \in Nat \ {0} /\ Len(heads) \in Nat /\ BatchSize \in Nat
  BY SizeIsNat, HeadersFileAssumption
<1>2. file \in Seq(Messages) /\ N \in Nat /\ DOMAIN file = 1 .. N /\ Len(file) = N
  BY <1>0 DEF WellFormed
<1>3. Contents \in Seq(Int) /\ Contents = ContentsTo(N)
  BY <1>2, ContentsIs DEF ContentsAre
<1>4. CASE file' = file /\ (n = 0 \/ heads = <<>>)
  <2>1. WellFormed'
    BY <1>4 DEF WellFormed
  <2>2. FileInv'
    BY <1>4 DEF FileInv, Noted, Whole, Full
  <2>3. Contents' = Contents /\ \A k : ContentsTo(k)' = ContentsTo(k)
    BY <1>4, SameFile
  <2>4. Contents \o SubSeq(heads, 1, 0) = Contents
    <3>1. SubSeq(heads, 1, 0) = <<>>
      BY PrefixIs
    <3>2. \A c \in Seq(Int) : c \o <<>> = c
      OBVIOUS
    <3> QED
      BY <1>3, <3>1, <3>2
  <2>5. n = SizeOf(heads) => 0 = Len(heads)
    BY <1>1, <1>4
  <2>6. 0 \in 0 .. Len(heads) /\ Len(file') = N
    BY <1>1, <1>2, <1>4
  <2> QED
    BY <1>2, <2>1, <2>2, <2>3, <2>4, <2>5, <2>6
<1>5. CASE n > 0 /\ file' = Append(file, m)
  <2>1. m \in Messages /\ m.heads = heads /\ m.bytes = n /\ m.bytes \in 1 .. SizeOf(m.heads)
    BY <1>1, <1>5 DEF Messages
  <2> HIDE DEF m
  <2>2. /\ file' \in Seq(Messages) /\ Len(file') = N + 1 /\ DOMAIN file' = 1 .. (N + 1)
        /\ file'[N + 1] = m /\ \A i \in 1 .. N : file'[i] = file[i]
    <3>1. IsLonger(Messages, file, m, N, Append(file, m))
      BY <1>2, <2>1, Longer
    <3> QED
      BY <1>5, <3>1 DEF IsLonger
  <2>3. \A i \in 1 .. (N + 1) : i \in 1 .. N \/ i = N + 1
    BY <1>2
  <2>4. WellFormed'
    <3>1. \A i \in 1 .. N : file[i].bytes \in 1 .. SizeOf(file[i].heads)
      BY <1>2 DEF WellFormed
    <3>2. \A i \in 1 .. (N + 1) : file'[i].bytes \in 1 .. SizeOf(file'[i].heads)
      BY <2>1, <2>2, <2>3, <3>1
    <3> QED
      BY <2>2, <3>2 DEF WellFormed
  <2>5. FileInv'
    <3>1. \A i \in 1 .. N : file[i].bytes \in 1 .. SizeOf(file[i].heads) /\ Len(file[i].heads) <= BatchSize
      BY <1>2 DEF FileInv
    <3>2. \A i \in DOMAIN file' : /\ file'[i].bytes \in 1 .. SizeOf(file'[i].heads)
                                  /\ Len(file'[i].heads) <= BatchSize
      <4> QED
        BY <2>1, <2>2, <2>3, <3>1
    <3>3. ASSUME "short" \notin seen' PROVE \A i \in DOMAIN file' : Full(file'[i])
      <4>1. Full(m)
        BY <1>1, <1>5, <2>1, <3>3 DEF Noted, Full
      <4>2. \A i \in 1 .. N : Full(file[i])
        BY <1>2, <3>3 DEF Noted, FileInv
      <4> QED
        BY <2>2, <2>3, <4>1, <4>2
    <3>4. "cut" \notin seen' \/ "failed" \notin seen' => Whole(m)
      BY <1>1, <1>5, <2>1 DEF Noted, Whole
    <3>5. ASSUME "cut" \notin seen' PROVE \A i \in DOMAIN file' : Whole(file'[i])
      <4>1. \A i \in 1 .. N : Whole(file[i])
        BY <1>2, <3>5 DEF Noted, FileInv
      <4> QED
        BY <2>2, <2>3, <3>4, <3>5, <4>1
    <3>6. ASSUME "failed" \notin seen' PROVE \A i \in DOMAIN file' : Whole(file'[i])
      <4>1. \A i \in 1 .. N : Whole(file[i])
        BY <1>2, <3>6 DEF Noted, FileInv
      <4> QED
        BY <2>2, <2>3, <3>4, <3>6, <4>1
    <3>7. ASSUME "gap" \notin seen' PROVE \A i \in DOMAIN file' : i < Len(file') => Whole(file'[i])
      <4>1. "failed" \notin seen
        BY <1>5, <3>7 DEF Noted
      <4>2. \A i \in 1 .. N : Whole(file[i])
        BY <1>2, <4>1 DEF FileInv
      <4>3. \A i \in DOMAIN file' : i < Len(file') => i \in 1 .. N
        BY <1>2, <2>2
      <4> QED
        BY <2>2, <4>2, <4>3
    <3> QED
      BY <3>2, <3>3, <3>5, <3>6, <3>7 DEF FileInv, Whole, Full
  <2>6. ASSUME NEW k \in 0 .. N PROVE ContentsTo(k)' = ContentsTo(k)
    <3>1. \A i \in 1 .. k : i \in 1 .. N
      BY <1>2
    <3>2. \A i \in 1 .. k : HeadsOf(file'[i]) = HeadsOf(file[i])
      BY <2>2, <3>1
    <3>3. [i \in 1 .. k |-> HeadsOf(file'[i])] = [i \in 1 .. k |-> HeadsOf(file[i])]
      BY <3>2
    <3> QED
      BY <3>3 DEF ContentsTo, HeadsOf, Kept, HasCount
  <2>7. Contents' = Contents \o HeadsOf(m)
    <3>1. ContentsAre'
      BY <2>4, ContentsAreNext
    <3>2. N + 1 \in 1 .. N + 1 /\ (N + 1) - 1 = N /\ N \in 0 .. N
      BY <1>2
    <3>3. Contents' = ContentsTo(N + 1)' /\ ContentsTo(N + 1)' = ContentsTo(N)' \o HeadsOf(file'[N + 1])
      <4>1. /\ Contents' = ContentsTo(Len(file))'
            /\ \A k \in 1 .. Len(file') : ContentsTo(k)' = ContentsTo(k - 1)' \o HeadsOf(file[k])'
        BY <3>1 DEF ContentsAre
      <4>2. ContentsTo(Len(file))' = ContentsTo(N + 1)'
        BY <2>2 DEF ContentsTo
      <4>3. HeadsOf(file[N + 1])' = HeadsOf(file'[N + 1])
        BY DEF HeadsOf, Kept, HasCount
      <4> QED
        BY <2>2, <3>2, <4>1, <4>2, <4>3
    <3> QED
      BY <1>3, <2>2, <2>6, <3>2, <3>3
  <2>8. /\ Kept(m) \in 0 .. Len(heads) /\ HeadsOf(m) = SubSeq(heads, 1, Kept(m))
        /\ n = SizeOf(heads) => Kept(m) = Len(heads)
    <3>1. m.bytes \in 0 .. SizeOf(m.heads)
      BY <1>1, <2>1
    <3> QED
      BY <2>1, <3>1, KeptHeads DEF HeadsOf, Whole
  <2>9. file' # file
    BY <1>2, <2>2
  <2> QED
    BY <1>2, <2>2, <2>4, <2>5, <2>6, <2>7, <2>8, <2>9
<1> QED
  BY <1>4, <1>5 DEF Wrote

--------------------------------------------------------------------------------
(***************************************************************************)
(* Slices of a tidy file.                                                  *)
(***************************************************************************)
LEMMA NextSlice ==
    ASSUME WellFormed, Tidy, NEW k \in 0 .. Len(file), pos = Offset(k)
    PROVE  /\ pos + HEADERS_MESSAGE_SIZE <= Length =>
                /\ k + 1 \in 1 .. Len(file) /\ Whole(file[k + 1])
                /\ Offset(k + 1) = pos + HEADERS_MESSAGE_SIZE
                /\ Slices = {file[k + 1].heads}
                /\ Begins(k + 1)
           /\ pos >= Length => k = Len(file)
           /\ pos < Length /\ Length < pos + HEADERS_MESSAGE_SIZE => \E i \in DOMAIN file : ~Whole(file[i])
<1> DEFINE S == HEADERS_MESSAGE_SIZE
<1>0. PICK N \in Nat : N = Len(file)
  BY DEF WellFormed
<1>1. /\ file \in Seq(Messages) /\ DOMAIN file = 1 .. N /\ S \in Nat \ {0} /\ k \in 0 .. N
      /\ BatchSize \in Nat \ {0} /\ LongCount \in 1 .. BatchSize
  BY <1>0, HeadersFileAssumption DEF WellFormed, HEADERS_MESSAGE_SIZE
<1>2. ASSUME NEW i \in 1 .. N
      PROVE  /\ file[i] \in Messages /\ file[i].bytes \in 1 .. S /\ (Whole(file[i]) <=> file[i].bytes = S)
             /\ file[i].bytes \in 0 .. SizeOf(file[i].heads)
  <2>1. file[i] \in Messages /\ file[i].bytes \in 1 .. SizeOf(file[i].heads)
    BY <1>1 DEF WellFormed
  <2>2. SizeOf(file[i].heads) = S
    <3>1. Len(file[i].heads) = BatchSize
      BY <1>1 DEF Tidy, Full
    <3> QED
      BY <1>1, <3>1 DEF SizeOf, CountSize, HEADERS_MESSAGE_SIZE
  <2> QED
    BY <1>1, <2>1, <2>2 DEF Whole
<1>3. /\ \A j \in 0 .. N : Offset(j) \in Nat
      /\ \A j \in 1 .. N : Offset(j) = Offset(j - 1) + file[j].bytes
  BY <1>0, <1>1, OffsetDef
<1>4. Length = Offset(N)
  BY <1>0 DEF Length
<1>5. \A j \in 0 .. N : \A l \in 0 .. N : j < l => Offset(j) < Offset(l)
  <2>1. \A i \in DOMAIN file : file[i].bytes >= 1
    BY <1>1, <1>2
  <2> QED
    BY <1>0, <1>1, <2>1, OffsetGrows
<1> HIDE DEF S
<1>6. k # N => k + 1 \in 1 .. N /\ Offset(k + 1) = Offset(k) + file[k + 1].bytes /\ Offset(k) < Length
  <2> SUFFICES ASSUME k # N
               PROVE  k + 1 \in 1 .. N /\ Offset(k + 1) = Offset(k) + file[k + 1].bytes /\ Offset(k) < Length
    OBVIOUS
  <2>1. k + 1 \in 1 .. N /\ (k + 1) - 1 = k /\ k < N /\ N \in 0 .. N
    BY <1>1
  <2>2. Offset(k + 1) = Offset(k) + file[k + 1].bytes
    BY <1>3, <2>1
  <2>3. Offset(k) < Offset(N)
    BY <1>1, <1>5, <2>1
  <2> QED
    BY <1>4, <2>1, <2>2, <2>3
<1>7. Offset(k) \in Nat /\ Length \in Nat /\ pos \in Nat
  <2>1. N \in 0 .. N
    OBVIOUS
  <2> QED
    BY <1>1, <1>3, <1>4, <2>1
<1>8. ASSUME pos + S <= Length
      PROVE  k + 1 \in 1 .. N /\ Whole(file[k + 1]) /\ Offset(k + 1) = pos + S
  <2>1. k # N
    BY <1>1, <1>4, <1>7, <1>8
  <2>2. k + 1 \in 1 .. N /\ Offset(k + 1) = Offset(k) + file[k + 1].bytes /\ file[k + 1].bytes \in 1 .. S
    BY <1>2, <1>6, <2>1
  <2>3. Whole(file[k + 1])
    <3>1. CASE k + 1 = N
      <4>1. Offset(k + 1) = Length
        BY <1>4, <3>1
      <4>2. PICK b \in 1 .. S : b = file[k + 1].bytes
        BY <2>2
      <4>3. b = S
        BY <1>1, <1>7, <1>8, <2>2, <4>1, <4>2
      <4> QED
        BY <1>2, <2>2, <4>2, <4>3
    <3>2. CASE k + 1 # N
      <4>1. k + 1 < N
        BY <1>1, <2>2, <3>2
      <4> QED
        BY <1>0, <1>1, <2>2, <4>1 DEF Tidy
    <3> QED
      BY <3>1, <3>2
  <2> QED
    BY <1>2, <2>2, <2>3
<1>9. ASSUME pos + S <= Length
      PROVE  Begins(k + 1) /\ Slices = {file[k + 1].heads}
  <2>1. k + 1 \in 1 .. N /\ Whole(file[k + 1]) /\ (k + 1) - 1 = k
    BY <1>1, <1>8, <1>9
  <2>2. /\ Kept(file[k + 1]) = Len(file[k + 1].heads) /\ HasCount(file[k + 1])
        /\ HeadsOf(file[k + 1]) = file[k + 1].heads /\ file[k + 1].heads \in Seq(Int)
    BY <1>2, <2>1, KeptHeads DEF Messages
  <2>3. Begins(k + 1)
    BY <2>1, <2>2 DEF Begins
  <2>4. ASSUME NEW i \in DOMAIN file, Begins(i) PROVE i = k + 1
    <3>1. i - 1 \in 0 .. N /\ Offset(i - 1) = Offset(k) /\ i \in 1 .. N
      BY <1>1, <2>4 DEF Begins
    <3>2. ~(i - 1 < k) /\ ~(k < i - 1)
      BY <1>1, <1>3, <1>5, <3>1
    <3> QED
      BY <1>1, <3>1, <3>2
  <2>5. {i \in DOMAIN file : Begins(i)} = {k + 1}
    BY <1>1, <2>1, <2>3, <2>4
  <2> DEFINE heads == file[k + 1].heads
             Slice(i) == SubSeq(file[i].heads, 1, Kept(file[i])) \o BadHeaders(Len(file[i].heads) - Kept(file[i]))
  <2>6. Slice(k + 1) = heads
    <3>1. BadHeaders(Len(heads) - Kept(file[k + 1])) = <<>>
      <4>1. Len(heads) - Kept(file[k + 1]) = 0
        BY <2>2
      <4> QED
        BY <4>1 DEF BadHeaders
    <3>2. SubSeq(heads, 1, Kept(file[k + 1])) = heads
      BY <2>2 DEF HeadsOf
    <3>3. \A c \in Seq(Int) : c \o <<>> = c
      OBVIOUS
    <3> QED
      BY <2>2, <3>1, <3>2, <3>3
  <2>7. {Slice(i) : i \in {k + 1}} = {heads}
    <3> HIDE DEF Slice, heads
    <3> QED
      BY <2>6
  <2>8. {n \in 0 .. BatchSize : ~\E i \in DOMAIN file : Begins(i)} = {}
    BY <1>1, <2>1, <2>3
  <2>9. Slices = {Slice(i) : i \in {i \in DOMAIN file : Begins(i)}}
                 \cup {BadHeaders(n) : n \in {n \in 0 .. BatchSize : ~\E i \in DOMAIN file : Begins(i)}}
    BY DEF Slices
  <2> HIDE DEF Slice, heads
  <2>10. Slices = {heads}
    BY <2>5, <2>7, <2>8, <2>9
  <2> QED
    BY <2>3, <2>10 DEF heads
<1>10. pos >= Length => k = N
  BY <1>6, <1>7
<1>11. ASSUME pos < Length, Length < pos + S PROVE \E i \in DOMAIN file : ~Whole(file[i])
  <2> SUFFICES ASSUME \A i \in DOMAIN file : Whole(file[i]) PROVE FALSE
    OBVIOUS
  <2>1. k # N
    BY <1>4, <1>7, <1>11
  <2>2. k + 1 \in 1 .. N /\ Offset(k + 1) = Offset(k) + S
    <3>1. k + 1 \in 1 .. N /\ Offset(k + 1) = Offset(k) + file[k + 1].bytes
      BY <1>6, <2>1
    <3>2. file[k + 1].bytes = S
      BY <1>1, <1>2, <3>1
    <3> QED
      BY <3>1, <3>2
  <2>3. Offset(k + 1) <= Length
    <3>1. k + 1 = N \/ (k + 1 < N /\ k + 1 \in 0 .. N /\ N \in 0 .. N)
      BY <1>1, <2>2
    <3>2. k + 1 < N => Offset(k + 1) < Offset(N)
      BY <1>5, <3>1
    <3>3. Offset(k + 1) \in Nat
      BY <1>1, <1>7, <2>2
    <3> QED
      BY <1>4, <1>7, <3>1, <3>2, <3>3
  <2> QED
    BY <1>1, <1>7, <1>11, <2>2, <2>3
<1> QED
  BY <1>0, <1>8, <1>9, <1>10, <1>11 DEF S

--------------------------------------------------------------------------------
(***************************************************************************)
(* Answers, heights and prefixes.                                          *)
(***************************************************************************)
\* The answer of a peer is a list of at most BatchSize headers.
LEMMA AnswerType ==
    ASSUME TypeInv, NEW p \in Peers
    PROVE  Answer(p) \in Seq(Int) /\ Len(Answer(p)) <= BatchSize
<1> DEFINE last == Last(headers)
           from == IF last \in 0 .. tips[p] THEN last + 1 ELSE 1
           to == IF from + BatchSize - 1 <= tips[p] THEN from + BatchSize - 1 ELSE tips[p]
           n == to - from + 1
<1>1. tips[p] \in Int /\ BatchSize \in Nat /\ Tip \in Nat
  BY HeadersFileAssumption DEF TypeInv, Chain
<1>2. from \in Int /\ to \in Int /\ n \in Int /\ n <= BatchSize
  BY <1>1
<1>3. Answer(p) = [i \in 1 .. n |-> from + i - 1]
  BY DEF Answer
<1> HIDE DEF from, n
<1>4. CASE n >= 0
  BY <1>1, <1>2, <1>3, <1>4
<1>5. CASE n < 0
  <2>1. 1 .. n = 1 .. 0
    BY <1>2, <1>5
  <2>2. Answer(p) = [i \in 1 .. 0 |-> from + i - 1]
    BY <1>3, <2>1
  <2>3. Answer(p) \in Seq(Int) /\ Len(Answer(p)) = 0
    BY <1>2, <2>2
  <2> QED
    BY <1>1, <2>3
<1> QED
  BY <1>2, <1>4, <1>5

\* The headers of an answer follow each other, after the genesis block.
LEMMA AnswerCounts ==
    ASSUME TypeInv, NEW p \in Peers, NEW k \in DOMAIN Answer(p)
    PROVE  Answer(p) # <<>> /\ Answer(p)[k] = Answer(p)[1] + k - 1 /\ Answer(p)[k] \in 1 .. Tip
<1> DEFINE last == Last(headers)
           from == IF last \in 0 .. tips[p] THEN last + 1 ELSE 1
           to == IF from + BatchSize - 1 <= tips[p] THEN from + BatchSize - 1 ELSE tips[p]
           n == to - from + 1
<1>1. tips[p] \in 0 .. Tip /\ BatchSize \in Nat /\ Tip \in Nat
  BY HeadersFileAssumption DEF TypeInv, Chain
<1>2. from \in Nat \ {0} /\ to \in Int /\ n \in Int /\ to <= tips[p]
  BY <1>1
<1>3. Answer(p) = [i \in 1 .. n |-> from + i - 1]
  BY DEF Answer
<1> HIDE DEF from, to
<1>4. k \in 1 .. n /\ 1 \in 1 .. n
  BY <1>2, <1>3
<1>5. Answer(p)[k] = from + k - 1 /\ Answer(p)[1] = from + 1 - 1
  BY <1>3, <1>4
<1>6. from + k - 1 \in 1 .. Tip
  BY <1>1, <1>2, <1>4
<1>7. Answer(p) # <<>>
  BY <1>3, <1>4
<1> QED
  BY <1>2, <1>4, <1>5, <1>6, <1>7

\* A list that follows the headers makes a longer chain.
LEMMA ChainGrows ==
    ASSUME headers \in Seq(Int), NEW heads \in Seq(Int), IsChain(headers),
           \A k \in DOMAIN heads : heads[k] = Len(headers) + k - 1
    PROVE  IsChain(headers \o heads)
<1> DEFINE L == Len(headers)
           M == Len(heads)
           all == headers \o heads
<1>1. L \in Nat /\ M \in Nat /\ DOMAIN headers = 1 .. L /\ DOMAIN heads = 1 .. M
  OBVIOUS
<1>2. /\ DOMAIN all = 1 .. (L + M) /\ \A i \in 1 .. L : all[i] = headers[i]
      /\ \A i \in (L + 1) .. (L + M) : all[i] = heads[i - L]
  OBVIOUS
<1>3. \A k \in 1 .. M : heads[k] = L + k - 1
  BY <1>1
<1> HIDE DEF L, M, all
<1> SUFFICES ASSUME NEW i \in 1 .. (L + M) PROVE all[i] = i - 1
  BY <1>2 DEF IsChain, all
<1>4. CASE i \in 1 .. L
  BY <1>1, <1>2, <1>4 DEF IsChain
<1>5. CASE i \in (L + 1) .. (L + M)
  <2>1. i - L \in 1 .. M
    BY <1>1, <1>5
  <2>2. heads[i - L] = L + (i - L) - 1
    BY <1>3, <2>1
  <2> QED
    BY <1>1, <1>2, <1>5, <2>2
<1> QED
  BY <1>1, <1>4, <1>5

\* Storing the heights of a list that follows the headers, and the list.
LEMMA HeightsStored ==
    ASSUME headers \in Seq(Int), headers # <<>>, NEW heads \in Seq(Int),
           \A k \in DOMAIN heads : heads[k] = Len(headers) + k - 1 /\ heads[k] \in 1 .. Tip,
           IsChain(headers), \A h \in 1 .. Len(headers) - 1 : h \in Chain /\ header_heights[h] = h,
           load_header_heights(heads), headers' = headers \o heads
    PROVE  /\ Len(headers') = Len(headers) + Len(heads)
           /\ IsChain(headers')
           /\ \A h \in 1 .. Len(headers') - 1 : h \in Chain /\ header_heights'[h] = h
<1> DEFINE L == Len(headers)
           M == Len(heads)
<1>1. L \in Nat /\ L >= 1 /\ M \in Nat /\ DOMAIN headers = 1 .. L /\ DOMAIN heads = 1 .. M
  OBVIOUS
<1>2. /\ Len(headers') = L + M /\ DOMAIN headers' = 1 .. (L + M)
      /\ \A i \in 1 .. L : headers'[i] = headers[i]
      /\ \A i \in (L + 1) .. (L + M) : headers'[i] = heads[i - L]
  OBVIOUS
<1>3. ASSUME NEW h \in Chain, h \in ToSet(heads) PROVE header_heights'[h] = h
  <2> DEFINE c == CHOOSE i \in DOMAIN heads : heads[i] = h
  <2>1. \E i \in DOMAIN heads : heads[i] = h
    BY <1>3 DEF ToSet
  <2>2. c \in DOMAIN heads /\ heads[c] = h
    BY <2>1
  <2>3. header_heights'[h] = L - 1 + c
    BY <1>3 DEF load_header_heights
  <2> HIDE DEF c
  <2>4. c \in 1 .. M /\ h = L + c - 1
    BY <1>1, <2>2
  <2> HIDE DEF L, M
  <2> QED
    BY <1>1, <2>3, <2>4
<1>4. ASSUME NEW h \in Chain, h \notin ToSet(heads) PROVE header_heights'[h] = header_heights[h]
  BY <1>4 DEF load_header_heights
<1> HIDE DEF L, M
<1>5. IsChain(headers')
  BY ChainGrows
<1>6. ASSUME NEW h \in 1 .. (L + M) - 1 PROVE h \in Chain /\ header_heights'[h] = h
  <2>1. CASE h \in 1 .. L - 1
    <3>1. h \in Chain /\ header_heights[h] = h
      BY <2>1 DEF L
    <3> QED
      BY <1>3, <1>4, <3>1
  <2>2. CASE h \in L .. (L + M) - 1
    <3>1. h - L + 1 \in 1 .. M
      BY <1>1, <2>2
    <3>2. heads[h - L + 1] = L + (h - L + 1) - 1 /\ heads[h - L + 1] \in 1 .. Tip
      BY <1>1, <3>1 DEF L
    <3>3. heads[h - L + 1] = h
      BY <1>1, <2>2, <3>2
    <3>4. h \in ToSet(heads)
      BY <1>1, <3>1, <3>3 DEF ToSet
    <3>5. h \in Chain
      BY <3>2, <3>3, HeadersFileAssumption DEF Chain
    <3> QED
      BY <1>3, <3>4, <3>5
  <2> QED
    BY <1>1, <2>1, <2>2
<1> QED
  BY <1>2, <1>5, <1>6 DEF L, M


\* What comes behind the first element is what comes behind the rest.
LEMMA TailOfJoined ==
    ASSUME NEW s \in Seq(Int), s # <<>>, NEW t \in Seq(Int)
    PROVE  Tail(s \o t) = Tail(s) \o t /\ Tail(s) \in Seq(Int)
<1> DEFINE m == Len(s)
           n == Len(t)
           a == Tail(s \o t)
           b == Tail(s) \o t
<1>1. m \in Nat \ {0} /\ n \in Nat
  OBVIOUS
<1>2. Tail(s) \in Seq(Int) /\ Len(Tail(s)) = m - 1 /\ \A i \in 1 .. m - 1 : Tail(s)[i] = s[i + 1]
  OBVIOUS
<1>3. IsJoined(Int, s, t, m, n, s \o t)
  BY <1>1, Joined
<1>4. IsJoined(Int, Tail(s), t, m - 1, n, b)
  <2>1. m - 1 \in Nat
    BY <1>1
  <2> QED
    BY <1>1, <1>2, <2>1, Joined
<1>5. s \o t # <<>>
  BY <1>1, <1>3 DEF IsJoined
<1>6. /\ a \in Seq(Int) /\ Len(a) = m + n - 1 /\ \A i \in 1 .. m + n - 1 : a[i] = (s \o t)[i + 1]
  <2> DEFINE u == s \o t
  <2>1. u \in Seq(Int) /\ u # <<>> /\ Len(u) = m + n
    BY <1>3, <1>5 DEF IsJoined
  <2> HIDE DEF u
  <2>2. Tail(u) \in Seq(Int) /\ Len(Tail(u)) = Len(u) - 1 /\ \A i \in 1 .. Len(u) - 1 : Tail(u)[i] = u[i + 1]
    BY <2>1
  <2> QED
    BY <2>1, <2>2 DEF u
<1>7. b \in Seq(Int) /\ Len(b) = m + n - 1
  BY <1>1, <1>4 DEF IsJoined
<1> HIDE DEF m, n, a, b
<1>8. ASSUME NEW i \in 1 .. m + n - 1 PROVE a[i] = b[i]
  <2>1. CASE i \in 1 .. m - 1
    <3>1. i + 1 \in 1 .. m
      BY <1>1, <2>1
    <3> QED
      BY <1>2, <1>3, <1>4, <1>6, <2>1, <3>1 DEF IsJoined
  <2>2. CASE i \notin 1 .. m - 1
    <3>1. PICK j \in 1 .. n : i = m - 1 + j
      <4>1. i - (m - 1) \in 1 .. n /\ i = m - 1 + (i - (m - 1))
        BY <1>1, <2>2
      <4> QED
        BY <4>1
    <3>2. i + 1 = m + j
      BY <1>1, <3>1
    <3> QED
      BY <1>3, <1>4, <1>6, <3>1, <3>2 DEF IsJoined
  <2> QED
    BY <2>1, <2>2
<1>9. a = b
  BY <1>6, <1>7, <1>8, SameList
<1> QED
  BY <1>2, <1>9 DEF a, b

\* A list is a prefix of itself and of itself with more behind it.
LEMMA PrefixOfJoined ==
    ASSUME NEW s \in Seq(Int), NEW t \in Seq(Int), NEW u \in Seq(Int), IsPrefix(s, t)
    PROVE  IsPrefix(s, t \o u)
<1> DEFINE l == Len(s)
           m == Len(t)
           n == Len(u)
           v == t \o u
<1>1. l \in Nat /\ m \in Nat /\ n \in Nat /\ l <= m
  BY DEF IsPrefix
<1>2. IsJoined(Int, t, u, m, n, v)
  BY <1>1, Joined
<1>3. v \in Seq(Int) /\ Len(v) = m + n
  BY <1>2 DEF IsJoined
<1> HIDE DEF l, m, n, v
<1>4. /\ SubSeq(t, 1, l) \in Seq(Int) /\ Len(SubSeq(t, 1, l)) = l
      /\ \A i \in 1 .. l : SubSeq(t, 1, l)[i] = t[i]
  BY <1>1, PrefixIs DEF m
<1>5. /\ SubSeq(v, 1, l) \in Seq(Int) /\ Len(SubSeq(v, 1, l)) = l
      /\ \A i \in 1 .. l : SubSeq(v, 1, l)[i] = v[i]
  <2>1. l \in 0 .. Len(v)
    BY <1>1, <1>3
  <2> QED
    BY <1>3, <2>1, PrefixIs
<1>6. \A i \in 1 .. l : v[i] = t[i]
  <2>1. \A i \in 1 .. l : i \in 1 .. m
    BY <1>1
  <2> QED
    BY <1>2, <2>1 DEF IsJoined
<1>7. SubSeq(t, 1, l) = SubSeq(v, 1, l)
  <2>1. \A i \in 1 .. l : SubSeq(t, 1, l)[i] = SubSeq(v, 1, l)[i]
    BY <1>4, <1>5, <1>6
  <2> QED
    BY <1>4, <1>5, <2>1, SameList
<1>8. l <= Len(v)
  BY <1>1, <1>3
<1> QED
  BY <1>7, <1>8 DEF IsPrefix, l, v

LEMMA PrefixOfItself ==
    ASSUME NEW s \in Seq(Int)
    PROVE  IsPrefix(s, s)
<1>1. Len(s) \in Nat
  OBVIOUS
<1> QED
  BY <1>1 DEF IsPrefix

\* The first part of what comes behind a list gives a prefix.
LEMMA PrefixOfMore ==
    ASSUME NEW s \in Seq(Int), NEW t \in Seq(Int), NEW j \in 0 .. Len(t)
    PROVE  IsPrefix(s \o SubSeq(t, 1, j), s \o t)
<1> DEFINE m == Len(s)
           n == Len(t)
           p == SubSeq(t, 1, j)
           a == s \o p
           b == s \o t
<1>1. m \in Nat /\ n \in Nat /\ j \in 0 .. n
  OBVIOUS
<1>2. p \in Seq(Int) /\ Len(p) = j /\ \A i \in 1 .. j : p[i] = t[i]
  BY PrefixIs
<1> HIDE DEF p
<1>3. IsJoined(Int, s, p, m, j, a) /\ IsJoined(Int, s, t, m, n, b)
  BY <1>1, <1>2, Joined
<1>4. a \in Seq(Int) /\ Len(a) = m + j /\ b \in Seq(Int) /\ Len(b) = m + n /\ m + j \in Nat
  BY <1>1, <1>3 DEF IsJoined
<1> HIDE DEF m, n, a, b
<1>5. ASSUME NEW i \in 1 .. m + j PROVE a[i] = b[i]
  <2>1. CASE i \in 1 .. m
    BY <1>3, <2>1 DEF IsJoined
  <2>2. CASE i \notin 1 .. m
    <3>1. i - m \in 1 .. j /\ i - m \in 1 .. n /\ i = m + (i - m)
      BY <1>1, <2>2
    <3>2. a[m + (i - m)] = p[i - m] /\ b[m + (i - m)] = t[i - m]
      BY <1>3, <3>1 DEF IsJoined
    <3> QED
      BY <1>2, <3>1, <3>2
  <2> QED
    BY <2>1, <2>2
<1>6. SubSeq(a, 1, m + j) = a
  BY <1>4, PrefixIs
<1>7. /\ SubSeq(b, 1, m + j) \in Seq(Int) /\ Len(SubSeq(b, 1, m + j)) = m + j
      /\ \A i \in 1 .. m + j : SubSeq(b, 1, m + j)[i] = b[i]
  <2>1. m + j \in 0 .. Len(b)
    BY <1>1, <1>4
  <2> QED
    BY <1>4, <2>1, PrefixIs
<1>8. a = SubSeq(b, 1, m + j)
  BY <1>4, <1>5, <1>7, SameList
<1>9. m + j <= m + n
  BY <1>1
<1> QED
  BY <1>4, <1>6, <1>8, <1>9 DEF IsPrefix, a, b

--------------------------------------------------------------------------------
(***************************************************************************)
(* A list goes to the file.                                                *)
(***************************************************************************)
\* A file without short lists and gaps, or without short and cut ones, is tidy.
LEMMA TidyIs ==
    ASSUME TypeInv, FileInv
    PROVE  /\ WellFormed
           /\ "short" \notin seen /\ ("gap" \notin seen \/ "cut" \notin seen) => Tidy
           /\ "cut" \notin seen => \A i \in DOMAIN file : Whole(file[i])
BY DEF TypeInv, FileInv, WellFormed, Tidy

\* The headers behind the genesis block.
LEMMA ChainTail ==
    ASSUME TypeInv, IsChain(headers), HeightsRight
    PROVE  Tail(headers) \in Seq(Int) /\ Counted(Tail(headers)) /\ Last(headers) = Len(headers) - 1
<1>1. PICK L \in Nat : L = Len(headers)
  BY DEF TypeInv
<1>2. headers \in Seq(Int) /\ headers # <<>> /\ L # 0 /\ DOMAIN headers = 1 .. L
  BY <1>1 DEF TypeInv
<1>3. /\ Tail(headers) \in Seq(Int) /\ DOMAIN Tail(headers) = 1 .. L - 1
      /\ \A i \in 1 .. L - 1 : Tail(headers)[i] = headers[i + 1]
  BY <1>1, <1>2
<1>4. ASSUME NEW i \in 1 .. L - 1 PROVE Tail(headers)[i] = i /\ i \in 1 .. Tip
  <2>1. i + 1 \in 1 .. L /\ (i + 1) - 1 = i
    BY <1>4
  <2>2. headers[i + 1] = i
    BY <1>2, <2>1 DEF IsChain
  <2>3. i \in 0 .. Tip
    BY <1>1, <1>4 DEF HeightsRight, Chain
  <2> QED
    BY <1>3, <1>4, <2>2, <2>3, HeadersFileAssumption
<1>5. Last(headers) = L - 1
  <2>1. L \in 1 .. L
    BY <1>2
  <2> QED
    BY <1>1, <1>2, <2>1 DEF Last, IsChain
<1> QED
  BY <1>1, <1>3, <1>4, <1>5 DEF Counted

\* A prefix of an answer that follows the headers continues the count.
LEMMA CountedOn ==
    ASSUME NEW s \in Seq(Int), Counted(s), NEW t \in Seq(Int), NEW m \in Nat, Len(s) = m,
           \A k \in DOMAIN t : t[k] = m + k /\ t[k] \in 1 .. Tip
    PROVE  Counted(s \o t)
<1>1. PICK n \in Nat : n = Len(t)
  OBVIOUS
<1>2. IsJoined(Int, s, t, m, n, s \o t)
  BY <1>1, Joined
<1>3. DOMAIN s = 1 .. m /\ DOMAIN t = 1 .. n /\ DOMAIN (s \o t) = 1 .. (m + n)
  <2>1. s \o t \in Seq(Int) /\ Len(s \o t) = m + n
    BY <1>2 DEF IsJoined
  <2> QED
    BY <1>1, <2>1
<1> SUFFICES ASSUME NEW i \in 1 .. (m + n) PROVE (s \o t)[i] = i /\ (s \o t)[i] \in 1 .. Tip
  BY <1>3 DEF Counted
<1>4. CASE i \in 1 .. m
  BY <1>2, <1>3, <1>4 DEF IsJoined, Counted
<1>5. CASE i \notin 1 .. m
  <2>1. i - m \in 1 .. n /\ m + (i - m) = i
    BY <1>5
  <2>2. (s \o t)[m + (i - m)] = t[i - m]
    BY <1>2, <2>1 DEF IsJoined
  <2>3. t[i - m] = m + (i - m) /\ t[i - m] \in 1 .. Tip
    BY <1>3, <2>1
  <2> QED
    BY <2>1, <2>2, <2>3
<1> QED
  BY <1>4, <1>5

\* write_all writes no more than the list.
LEMMA WritesIs ==
    ASSUME NEW heads \in Seq(Int), NEW n \in Writes(heads)
    PROVE  n \in Nat /\ n \in 0 .. SizeOf(heads) /\ SizeOf(heads) \in Nat \ {0}
<1>1. SizeOf(heads) \in Nat \ {0}
  BY SizeIsNat
<1>2. n = SizeOf(heads) \/ (n \in {0} \cup Cuts /\ n < SizeOf(heads))
  BY Zenon DEF Writes
<1>3. {0} \cup Cuts \subseteq Nat
  BY HeadersFileAssumption
<1>4. PICK size \in Nat : size = SizeOf(heads)
  BY <1>1
<1>5. n \in Nat /\ n <= size
  BY <1>2, <1>3, <1>4
<1> QED
  BY <1>1, <1>4, <1>5

LEMMA NoteIs ==
    ASSUME NEW heads, NEW n
    PROVE  /\ "short" \in Note(heads, n) <=> n > 0 /\ Len(heads) < BatchSize
           /\ "cut" \in Note(heads, n) <=> 0 < n /\ n < SizeOf(heads)
           /\ "failed" \in Note(heads, n) <=> n < SizeOf(heads)
           /\ "gap" \in Note(heads, n) <=> n > 0 /\ "failed" \in seen
           /\ "behind" \in Note(heads, n) <=> Answer(node) # <<>> /\ Answer(node)[1] # Last(headers) + 1
BY DEF Note

LEMMA PersistIs ==
    ASSUME NEW heads, NEW n \in Nat, Persist(heads, n)
    PROVE  Wrote(heads, n) /\ Noted(heads, n)
<1>1. Noted(heads, n)
  BY NoteIs DEF Persist, Noted
<1>2. Wrote(heads, n)
  BY DEF Persist, Wrote, LeftOut
<1> QED
  BY <1>1, <1>2

\* What becomes of the file with the next list, of which n bytes are written.
LEMMA AnswerWritten ==
    ASSUME FileLifeInv, HeadersMissing, NEW n \in 0 .. SizeOf(Answer(node)), Persist(Answer(node), n)
    PROVE  /\ WellFormed' /\ FileInv' /\ FileChainInv' /\ seen \subseteq seen'
           /\ pos = 0 /\ seen' \cap {"refused", "gap"} = {} =>
                /\ IsPrefix(Contents', Tail(headers) \o Answer(node))
                /\ "failed" \notin seen' => Contents' = Tail(headers) \o Answer(node)
           /\ pos > 0 => seen' \cap {"short", "gap"} # {} /\ seen' \cap {"short", "cut"} # {}
           /\ "behind" \notin seen' /\ Answer(node) # <<>> => Answer(node)[1] = Last(headers) + 1
<1> USE DEF FileLifeInv
<1> DEFINE heads == Answer(node)
           rest == Tail(headers)
<1>1. pc = "loop" /\ node \in Peers /\ heads \in Seq(Int) /\ Len(heads) <= BatchSize
  BY AnswerType DEF HeadersMissing, TypeInv
<1>2. SizeOf(heads) \in Nat \ {0} /\ n \in 0 .. SizeOf(heads) /\ n \in Nat
  BY <1>1, SizeIsNat
<1>3. Wrote(heads, n) /\ Noted(heads, n)
  BY <1>2, PersistIs
<1>4. WellFormed
  BY TidyIs
<1>5. "behind" \notin seen' /\ heads # <<>> => heads[1] = Last(headers) + 1
  BY NoteIs DEF Persist
<1>6. ASSUME NEW k \in DOMAIN heads PROVE heads # <<>> /\ heads[k] = heads[1] + k - 1 /\ heads[k] \in 1 .. Tip
  BY <1>1, AnswerCounts
<1>7. headers \in Seq(Int) /\ headers # <<>> /\ rest \in Seq(Int)
  BY DEF TypeInv
<1>8. Contents \in Seq(Int) /\ Contents = ContentsTo(Len(file))
  <2>1. Len(file) \in 0 .. Len(file)
    BY <1>4 DEF WellFormed
  <2> QED
    BY <1>4, <2>1, ContentsIs DEF ContentsAre
<1> HIDE DEF heads, FileLifeInv
<1>9. /\ WellFormed' /\ FileInv' /\ Len(file) \in Nat /\ Len(file') \in {Len(file), Len(file) + 1}
      /\ \A k \in 0 .. Len(file) : ContentsTo(k)' = ContentsTo(k)
  BY <1>1, <1>2, <1>3, <1>4, FileWritten DEF FileLifeInv
<1>10. PICK j \in 0 .. Len(heads) : /\ Contents' = Contents \o SubSeq(heads, 1, j)
                                    /\ n = SizeOf(heads) => j = Len(heads)
                                    /\ file' = file => j = 0
  BY <1>1, <1>2, <1>3, <1>4, FileWritten DEF FileLifeInv
<1>11. seen \subseteq seen'
  BY <1>3 DEF Noted
<1>12. /\ SubSeq(heads, 1, 0) = <<>> /\ SubSeq(heads, 1, Len(heads)) = heads
       /\ SubSeq(heads, 1, j) \in Seq(Int) /\ Len(SubSeq(heads, 1, j)) = j
       /\ \A k \in 1 .. j : SubSeq(heads, 1, j)[k] = heads[k]
  BY <1>1, PrefixIs
\* Nothing is written after a write that failed.
<1>13. "gap" \notin seen' /\ "failed" \in seen => Contents' = Contents
  <2> SUFFICES ASSUME "gap" \notin seen', "failed" \in seen PROVE Contents' = Contents
    OBVIOUS
  <2>1. n = 0
    BY <1>2, <1>3 DEF Noted
  <2>2. j = 0
    BY <1>3, <1>10, <2>1 DEF Wrote
  <2>3. \A c \in Seq(Int) : c \o <<>> = c
    OBVIOUS
  <2> QED
    BY <1>8, <1>10, <1>12, <2>2, <2>3
<1>14. ASSUME pos = 0, seen' \cap {"refused", "gap"} = {}
       PROVE  /\ IsPrefix(Contents', rest \o heads)
              /\ "failed" \notin seen' => Contents' = rest \o heads
              /\ \/ Contents' = Contents
                 \/ Contents' = rest \o SubSeq(heads, 1, j) /\ Contents = rest
  <2>1. IsPrefix(Contents, rest) /\ ("failed" \notin seen => Contents = rest)
    BY <1>1, <1>11, <1>14 DEF FileLifeInv, PersistedEqualsMemory
  <2>2. CASE "failed" \in seen
    <3>1. Contents' = Contents /\ "failed" \in seen'
      BY <1>11, <1>13, <1>14, <2>2
    <3>2. IsPrefix(Contents, rest \o heads)
      <4> HIDE DEF rest
      <4> QED
        BY <1>1, <1>7, <1>8, <2>1, PrefixOfJoined
    <3> QED
      BY <3>1, <3>2
  <2>3. CASE "failed" \notin seen
    <3>1. Contents = rest
      BY <2>1, <2>3
    <3>2. IsPrefix(rest \o SubSeq(heads, 1, j), rest \o heads)
      <4> HIDE DEF rest
      <4> QED
        BY <1>1, <1>7, PrefixOfMore
    <3>3. "failed" \notin seen' => n = SizeOf(heads)
      BY <1>2, <1>3 DEF Noted
    <3> QED
      BY <1>10, <1>12, <3>1, <3>2, <3>3
  <2> QED
    BY <2>2, <2>3
<1>15. FileChainInv'
  <2> SUFFICES ASSUME seen' \cap {"behind", "refused", "short", "gap"} = {}
               PROVE  (\A k \in 0 .. Len(file) : Counted(ContentsTo(k)))'
    BY DEF FileChainInv
  <2>1. seen \cap {"behind", "refused", "short", "gap"} = {} /\ seen' \cap {"refused", "gap"} = {}
    BY <1>11
  <2>2. pos = 0
    <3>1. pos \in Nat
      BY DEF FileLifeInv, TypeInv
    <3> QED
      BY <1>1, <2>1, <3>1 DEF FileLifeInv, PlaceInv
  <2>3. IsChain(headers) /\ HeightsRight
    BY <2>1, <2>2 DEF FileLifeInv, MemoryInv
  <2>4. Counted(rest) /\ Last(headers) = Len(headers) - 1
    BY <2>3, ChainTail DEF FileLifeInv
  <2>5. \A k \in 0 .. Len(file) : Counted(ContentsTo(k))
    BY <2>1 DEF FileLifeInv, FileChainInv
  <2>6. Counted(Contents')
    <3>1. CASE Contents' = Contents
      <4>1. Len(file) \in 0 .. Len(file)
        BY <1>9
      <4> QED
        BY <1>8, <2>5, <3>1, <4>1
    <3>2. CASE Contents' = rest \o SubSeq(heads, 1, j)
      <4> DEFINE t == SubSeq(heads, 1, j)
      <4>1. PICK m \in Nat : Len(rest) = m /\ Len(headers) = m + 1
        BY <1>7
      <4>2. ASSUME NEW k \in DOMAIN t PROVE t[k] = m + k /\ t[k] \in 1 .. Tip
        <5>1. k \in 1 .. j /\ k \in DOMAIN heads /\ t[k] = heads[k]
          BY <1>1, <1>12, <4>2
        <5>2. heads # <<>> /\ heads[k] = heads[1] + k - 1 /\ heads[k] \in 1 .. Tip
          BY <1>6, <5>1
        <5>3. heads[1] = m + 1
          BY <1>5, <2>4, <4>1, <5>2
        <5> QED
          BY <5>1, <5>2, <5>3
      <4>3. t \in Seq(Int)
        BY <1>12
      <4> HIDE DEF rest, t
      <4>4. Counted(rest \o t)
        BY <1>7, <2>4, <4>1, <4>2, <4>3, CountedOn
      <4> QED
        BY <3>2, <4>4 DEF t
    <3> QED
      BY <1>14, <2>1, <2>2, <3>1, <3>2
  <2>7. Contents' = ContentsTo(Len(file))'
    <3>1. ContentsAre'
      BY <1>9, ContentsAreNext
    <3> QED
      BY <3>1 DEF ContentsAre
  <2>8. PICK M \in Nat : M = Len(file')
    BY <1>9
  <2>9. ContentsTo(M)' = Contents'
    BY <2>7, <2>8 DEF ContentsTo
  <2>10. ASSUME NEW k \in 0 .. M PROVE Counted(ContentsTo(k)')
    <3>1. CASE k \in 0 .. Len(file)
      BY <1>9, <2>5, <3>1
    <3>2. CASE k \notin 0 .. Len(file)
      <4>1. k = M
        BY <1>9, <2>8, <3>2
      <4> QED
        BY <2>6, <2>9, <4>1
    <3> QED
      BY <3>1, <3>2
  <2> QED
    BY <2>8, <2>10 DEF Counted
<1>16. pos > 0 => seen' \cap {"short", "gap"} # {} /\ seen' \cap {"short", "cut"} # {}
  BY <1>1, <1>11 DEF FileLifeInv, PlaceInv
<1> QED
  BY <1>5, <1>9, <1>11, <1>14, <1>15, <1>16 DEF heads

--------------------------------------------------------------------------------
(***************************************************************************)
(* Each step keeps the invariant.                                          *)
(***************************************************************************)
\* The steps that only say where the process is, and with which connection.
LEMMA PlaceKeepsInv ==
    ASSUME FileLifeInv,
           UNCHANGED <<exists, file, headers, header_heights, pos, seen>>,
           nodes' \subseteq Peers, pc' = "loop" => node' \in Peers, tips' \in [Peers -> Chain],
           \/ pc = "start" /\ pc' \in {"read", "create"}
           \/ pc = "read" /\ pc' = "ready" /\ pos >= Length
           \/ pc = "read" /\ pc' = "create"
              /\ (pos > 0 => seen \cap {"short", "gap"} # {} /\ seen \cap {"short", "cut"} # {})
           \/ pc = "read" /\ pc' = "panic" /\ seen \cap {"short", "cut"} # {}
           \/ pc = "create" /\ pc' = "failed"
           \/ pc = "get" /\ pc' \in {"loop", "failed"}
           \/ pc = "loop" /\ pc' \in {"get", "ready"}
           \/ pc' = pc
    PROVE  FileLifeInv'
<1> USE DEF FileLifeInv
<1>1. Contents' = Contents /\ \A k : ContentsTo(k)' = ContentsTo(k) /\ Offset(k)' = Offset(k)
  BY SameFile
<1>2. TypeInv'
  BY DEF TypeInv
<1>3. FileInv'
  BY DEF FileInv, Whole, Full
<1>4. PanicOnlyIfCut'
  BY DEF PanicOnlyIfCut
<1>5. FileChainInv'
  <2>1. Len(file') = Len(file) /\ seen' = seen
    OBVIOUS
  <2> QED
    BY <1>1, <2>1 DEF FileChainInv, Counted
<1>6. MemoryInv'
  BY DEF MemoryInv, IsChain, HeightsRight
<1>7. pos \in Nat /\ headers # <<>> /\ WellFormed /\ Len(file) \in Nat
  BY TidyIs DEF TypeInv
<1>8. PlaceInv'
  BY <1>7 DEF PlaceInv
<1>9. ContentsAre /\ Offset(0) = 0
  BY <1>7, ContentsIs, OffsetDef DEF TypeInv
<1>10. ReadInv'
  <2> SUFFICES ASSUME Tidy, pc' = "read"
               PROVE  \E k \in 0 .. Len(file) : /\ pos = Offset(k)
                                                /\ \A i \in 1 .. k : Whole(file[i])
                                                /\ Tail(headers) = ContentsTo(k)
    BY <1>1 DEF ReadInv, Tidy, Whole, Full
  <2>1. CASE pc = "start"
    <3>1. pos = 0 /\ headers = <<0>>
      BY <2>1 DEF PlaceInv
    <3>2. Tail(<<0>>) = <<>>
      OBVIOUS
    <3>3. 0 \in 0 .. Len(file) /\ 1 .. 0 = {} /\ Tail(headers) = ContentsTo(0) /\ pos = Offset(0)
      BY <1>7, <1>9, <3>1, <3>2 DEF ContentsAre
    <3> QED
      BY <3>3
  <2>2. CASE pc = "read"
    BY <2>2 DEF ReadInv
  <2> QED
    BY <2>1, <2>2
<1>11. PersistedEqualsMemory'
  <2>1. CASE pc = "read" /\ pc' = "ready" /\ pos >= Length
    <3>1. ASSUME seen \cap {"short", "gap"} = {} \/ seen \cap {"short", "cut"} = {}
          PROVE  Contents = Tail(headers)
      <4>1. Tidy
        BY <3>1, TidyIs
      <4>2. PICK k \in 0 .. Len(file) : pos = Offset(k) /\ Tail(headers) = ContentsTo(k)
        BY <2>1, <4>1 DEF ReadInv
      <4>3. k = Len(file)
        BY <1>7, <2>1, <4>1, <4>2, NextSlice
      <4> QED
        BY <1>9, <4>2, <4>3 DEF ContentsAre
    <3>2. pos = 0 => Contents = Tail(headers)
      <4> SUFFICES ASSUME pos = 0 PROVE Contents = Tail(headers)
        OBVIOUS
      <4>1. Len(file) = 0
        <5> SUFFICES ASSUME Len(file) # 0 PROVE FALSE
          OBVIOUS
        <5>1. 0 \in 0 .. Len(file) /\ Len(file) \in 0 .. Len(file) /\ 0 < Len(file)
          BY <1>7
        <5>2. \A i \in DOMAIN file : file[i].bytes >= 1
          BY DEF FileInv
        <5>3. Offset(0) < Offset(Len(file)) /\ Offset(Len(file)) \in Nat
          BY <5>1, <5>2, OffsetGrows, OffsetDef DEF TypeInv
        <5> QED
          BY <1>9, <2>1, <5>3 DEF Length
      <4>2. headers = <<0>> /\ Tail(<<0>>) = <<>>
        BY <2>1 DEF PlaceInv
      <4> QED
        BY <1>9, <4>1, <4>2 DEF ContentsAre
    <3>3. IsPrefix(Tail(headers), Tail(headers))
      <4>1. Tail(headers) \in Seq(Int)
        BY <1>7 DEF TypeInv
      <4> QED
        BY <4>1, PrefixOfItself
    <3> QED
      BY <1>1, <2>1, <3>1, <3>2, <3>3 DEF PersistedEqualsMemory
  <2>2. CASE pc' \in {"get", "loop", "ready"} /\ ~(pc = "read" /\ pc' = "ready" /\ pos >= Length)
    <3>1. pc \in {"get", "loop", "ready"} /\ (pc' = "ready" => pc \in {"loop", "ready"})
      BY <2>2
    <3>2. pc = "loop" /\ pos > 0 => seen \cap {"short", "cut"} # {}
      BY DEF PlaceInv
    <3> QED
      BY <1>1, <3>1, <3>2 DEF PersistedEqualsMemory, IsPrefix
  <2>3. CASE pc' \notin {"get", "loop", "ready"}
    BY <2>3 DEF PersistedEqualsMemory
  <2> QED
    BY <2>1, <2>2, <2>3
<1> QED
  BY <1>2, <1>3, <1>4, <1>5, <1>6, <1>8, <1>10, <1>11

\* A slice that no list begins, or a file too short for it, tells of a file
\* that is not tidy, or has a cut list.
LEMMA SliceTells ==
    ASSUME FileLifeInv, pc = "read"
    PROVE  /\ SliceThere /\ ~(\E i \in DOMAIN file : Begins(i)) =>
                seen \cap {"short", "gap"} # {} /\ seen \cap {"short", "cut"} # {}
           /\ TooShort => seen \cap {"short", "cut"} # {}
<1> USE DEF FileLifeInv
<1>1. WellFormed
  BY TidyIs
<1>2. ASSUME SliceThere, ~\E i \in DOMAIN file : Begins(i) PROVE ~Tidy
  <2> SUFFICES ASSUME Tidy PROVE FALSE
    OBVIOUS
  <2>1. PICK k \in 0 .. Len(file) : pos = Offset(k)
    BY DEF ReadInv
  <2>2. k + 1 \in 1 .. Len(file) /\ Begins(k + 1)
    BY <1>1, <1>2, <2>1, NextSlice DEF SliceThere
  <2>3. DOMAIN file = 1 .. Len(file)
    BY <1>1 DEF WellFormed
  <2> QED
    BY <1>2, <2>2, <2>3
<1>3. ASSUME TooShort, seen \cap {"short", "cut"} = {} PROVE FALSE
  <2>1. Tidy /\ \A i \in DOMAIN file : Whole(file[i])
    BY <1>3, TidyIs
  <2>2. PICK k \in 0 .. Len(file) : pos = Offset(k)
    BY <2>1 DEF ReadInv
  <2> QED
    BY <1>1, <1>3, <2>1, <2>2, NextSlice DEF TooShort
<1> QED
  BY <1>2, <1>3, TidyIs

LEMMA PlaceStepsKeepInv ==
    ASSUME FileLifeInv,
           \/ \E reading \in BOOLEAN : get_initial_headers(reading)
           \/ UnmarshallingError \/ ReadPanics \/ ReadEnd \/ ReadFails \/ CreateFails
           \/ GetNode \/ NoNode \/ NodeFails \/ ReturnNode \/ \E p \in Peers : CatchUp(p)
    PROVE  FileLifeInv'
<1> USE DEF fileVars, memVars, envVars
<1>1. nodes \subseteq Peers /\ (pc = "loop" => node \in Peers) /\ tips \in [Peers -> Chain]
  BY DEF FileLifeInv, TypeInv
<1>2. CASE \E reading \in BOOLEAN : get_initial_headers(reading)
  <2>1. /\ pc = "start" /\ pc' \in {"read", "create"}
        /\ UNCHANGED <<exists, file, headers, header_heights, pos, nodes, node, tips, seen>>
    BY <1>2 DEF get_initial_headers
  <2> QED
    BY <1>1, <2>1, PlaceKeepsInv
<1>3. CASE UnmarshallingError
  <2>1. /\ pc = "read" /\ pc' = "create"
        /\ UNCHANGED <<exists, file, headers, header_heights, pos, nodes, node, tips, seen>>
    BY <1>3 DEF UnmarshallingError, SliceThere
  <2>2. seen \cap {"short", "gap"} # {} /\ seen \cap {"short", "cut"} # {}
    BY <1>3, <2>1, SliceTells DEF UnmarshallingError
  <2> QED
    BY <1>1, <2>1, <2>2, PlaceKeepsInv
<1>4. CASE ReadPanics
  <2>1. /\ pc = "read" /\ pc' = "panic" /\ TooShort
        /\ UNCHANGED <<exists, file, headers, header_heights, pos, nodes, node, tips, seen>>
    BY <1>4 DEF ReadPanics, TooShort
  <2>2. seen \cap {"short", "cut"} # {}
    BY <2>1, SliceTells
  <2> QED
    BY <1>1, <2>1, <2>2, PlaceKeepsInv
<1>5. CASE ReadEnd
  <2>1. /\ pc = "read" /\ pc' = "ready" /\ pos >= Length
        /\ UNCHANGED <<exists, file, headers, header_heights, pos, nodes, node, tips, seen>>
    BY <1>5 DEF ReadEnd
  <2> QED
    BY <1>1, <2>1, PlaceKeepsInv
<1>6. CASE ReadFails \/ CreateFails
  <2>1. /\ \/ pc = "read" /\ pc' = "create" /\ pos = 0
           \/ pc = "create" /\ pc' = "failed"
        /\ UNCHANGED <<exists, file, headers, header_heights, pos, nodes, node, tips, seen>>
    BY <1>6 DEF ReadFails, CreateFails
  <2> QED
    BY <1>1, <2>1, PlaceKeepsInv
<1>7. CASE GetNode
  <2>1. /\ pc = "get" /\ pc' = "loop" /\ node' \in nodes /\ nodes' \subseteq nodes
        /\ UNCHANGED <<exists, file, headers, header_heights, pos, tips, seen>>
    BY <1>7 DEF GetNode
  <2>2. nodes' \subseteq Peers /\ node' \in Peers
    BY <1>1, <2>1
  <2> QED
    BY <1>1, <2>1, <2>2, PlaceKeepsInv
<1>8. CASE NoNode
  <2>1. /\ pc = "get" /\ pc' = "failed"
        /\ UNCHANGED <<exists, file, headers, header_heights, pos, nodes, node, tips, seen>>
    BY <1>8 DEF NoNode
  <2> QED
    BY <1>1, <2>1, PlaceKeepsInv
<1>9. CASE NodeFails
  <2>1. /\ pc = "loop" /\ pc' = "get"
        /\ UNCHANGED <<exists, file, headers, header_heights, pos, nodes, tips, seen>>
    BY <1>9 DEF NodeFails, HeadersMissing
  <2> QED
    BY <1>1, <2>1, PlaceKeepsInv
<1>10. CASE ReturnNode
  <2>1. /\ pc = "loop" /\ pc' = "ready" /\ nodes' = nodes \cup {node}
        /\ UNCHANGED <<exists, file, headers, header_heights, pos, tips, seen>>
    BY <1>10 DEF ReturnNode
  <2>2. nodes' \subseteq Peers
    BY <1>1, <2>1
  <2> QED
    BY <1>1, <2>1, <2>2, PlaceKeepsInv
<1>11. CASE \E p \in Peers : CatchUp(p)
  <2>1. PICK p \in Peers : /\ pc' = pc /\ tips[p] < Tip /\ tips' = [tips EXCEPT ![p] = @ + 1]
                           /\ UNCHANGED <<exists, file, headers, header_heights, pos, nodes, node, seen>>
    BY <1>11 DEF CatchUp
  <2>2. tips[p] + 1 \in Chain
    BY <1>1, <2>1, HeadersFileAssumption DEF Chain
  <2>3. tips' \in [Peers -> Chain]
    BY <1>1, <2>1, <2>2
  <2> QED
    BY <1>1, <2>1, <2>3, PlaceKeepsInv
<1> QED
  BY <1>2, <1>3, <1>4, <1>5, <1>6, <1>7, <1>8, <1>9, <1>10, <1>11

\* A slice of a file without short lists and gaps is the next list.
LEMMA ReadMessageKeepsInv ==
    ASSUME FileLifeInv, ReadMessage
    PROVE  FileLifeInv'
<1> USE DEF FileLifeInv
<1>1. PICK heads \in Slices :
        /\ pc = "read" /\ pos + HEADERS_MESSAGE_SIZE <= Length
        /\ load_header_heights(heads) /\ headers' = headers \o heads /\ pos' = pos + HEADERS_MESSAGE_SIZE
        /\ UNCHANGED <<exists, file, nodes, node, pc, tips, seen>>
  BY DEF ReadMessage, SliceThere, fileVars, envVars
<1>2. /\ WellFormed /\ file \in Seq(Messages) /\ headers \in Seq(Int) /\ headers # <<>> /\ pos \in Nat
      /\ Len(file) \in Nat /\ DOMAIN file = 1 .. Len(file)
  BY TidyIs DEF TypeInv
<1>3. Contents' = Contents /\ \A k : ContentsTo(k)' = ContentsTo(k) /\ Offset(k)' = Offset(k)
  BY <1>1, SameFile
<1>4. ContentsAre
  BY <1>2, ContentsIs
<1>5. heads \in Seq(Int)
  <2>1. ASSUME NEW n \in Nat PROVE BadHeaders(n) \in Seq(Int)
    BY DEF BadHeaders, Bad
  <2>2. ASSUME NEW i \in DOMAIN file
        PROVE  SubSeq(file[i].heads, 1, Kept(file[i])) \o BadHeaders(Len(file[i].heads) - Kept(file[i])) \in Seq(Int)
    <3>1. file[i] \in Messages /\ file[i].bytes \in 0 .. SizeOf(file[i].heads)
      BY <1>2, <2>2 DEF WellFormed
    <3>2. Kept(file[i]) \in 0 .. Len(file[i].heads) /\ HeadsOf(file[i]) \in Seq(Int)
      BY <3>1, KeptHeads
    <3>3. Len(file[i].heads) \in Nat
      BY <3>1 DEF Messages
    <3>4. Len(file[i].heads) - Kept(file[i]) \in Nat
      BY <3>2, <3>3
    <3>5. \A s \in Seq(Int), t \in Seq(Int) : s \o t \in Seq(Int)
      OBVIOUS
    <3> QED
      BY <2>1, <3>2, <3>4, <3>5 DEF HeadsOf
  <2>3. 0 .. BatchSize \subseteq Nat
    BY HeadersFileAssumption
  <2> QED
    BY <2>1, <2>2, <2>3 DEF Slices
<1>6. headers' \in Seq(Int) /\ headers' # <<>> /\ Tail(headers') = Tail(headers) \o heads
  <2>1. headers' = headers \o heads
    BY <1>1
  <2>2. headers \o heads \in Seq(Int) /\ headers \o heads # <<>>
    BY <1>2, <1>5
  <2> QED
    BY <1>2, <1>5, <2>1, <2>2, TailOfJoined
<1>7. HEADERS_MESSAGE_SIZE \in Nat \ {0}
  BY HeadersFileAssumption DEF HEADERS_MESSAGE_SIZE
<1>8. TypeInv'
  BY <1>1, <1>2, <1>6, <1>7 DEF TypeInv
<1>9. FileInv'
  BY <1>1 DEF FileInv, Whole, Full
<1>10. PanicOnlyIfCut' /\ PersistedEqualsMemory'
  BY <1>1 DEF PanicOnlyIfCut, PersistedEqualsMemory
<1>11. FileChainInv'
  <2>1. Len(file') = Len(file) /\ seen' = seen
    BY <1>1
  <2> QED
    BY <1>3, <2>1 DEF FileChainInv, Counted
<1>12. PlaceInv'
  BY <1>1, <1>2, <1>7 DEF PlaceInv
\* The list that comes next.
<1>13. ASSUME Tidy
       PROVE  \E k \in 0 .. Len(file) :
                 /\ k + 1 \in 1 .. Len(file) /\ Offset(k + 1) = pos' /\ \A i \in 1 .. k + 1 : Whole(file[i])
                 /\ Tail(headers) = ContentsTo(k) /\ Tail(headers') = ContentsTo(k + 1)
  <2>1. PICK k \in 0 .. Len(file) : /\ pos = Offset(k) /\ (\A i \in 1 .. k : Whole(file[i]))
                                    /\ Tail(headers) = ContentsTo(k)
    BY <1>1, <1>13 DEF ReadInv
  <2>2. /\ k + 1 \in 1 .. Len(file) /\ Whole(file[k + 1]) /\ Offset(k + 1) = pos'
        /\ heads = file[k + 1].heads
    BY <1>1, <1>2, <1>13, <2>1, NextSlice
  <2>3. HeadsOf(file[k + 1]) = heads
    <3>1. file[k + 1] \in Messages /\ file[k + 1].bytes \in 0 .. SizeOf(file[k + 1].heads)
      BY <1>2, <2>2 DEF WellFormed
    <3> QED
      BY <2>2, <3>1, KeptHeads
  <2>4. ContentsTo(k + 1) = ContentsTo(k) \o heads
    <3>1. (k + 1) - 1 = k
      OBVIOUS
    <3> QED
      BY <1>4, <2>2, <2>3, <3>1 DEF ContentsAre
  <2>5. \A i \in 1 .. k + 1 : i \in 1 .. k \/ i = k + 1
    OBVIOUS
  <2> QED
    BY <1>6, <2>1, <2>2, <2>4, <2>5
<1>14. ReadInv'
  <2> SUFFICES ASSUME Tidy'
               PROVE  \E k \in 0 .. Len(file) : /\ pos' = Offset(k)
                                                /\ \A i \in 1 .. k : Whole(file[i])
                                                /\ Tail(headers') = ContentsTo(k)
    BY <1>1, <1>3 DEF ReadInv, Whole
  <2>1. Tidy
    BY <1>1 DEF Tidy, Whole, Full
  <2>2. PICK k \in 0 .. Len(file) :
           /\ k + 1 \in 1 .. Len(file) /\ Offset(k + 1) = pos' /\ \A i \in 1 .. k + 1 : Whole(file[i])
           /\ Tail(headers') = ContentsTo(k + 1)
    BY <1>13, <2>1
  <2>3. k + 1 \in 0 .. Len(file)
    BY <1>2, <2>2
  <2> QED
    BY <2>2, <2>3
<1>15. MemoryInv'
  <2> SUFFICES ASSUME seen \cap {"behind", "refused", "short", "gap"} = {}
               PROVE  (IsChain(headers) /\ HeightsRight)'
    <3>1. pos' > 0
      BY <1>1, <1>2, <1>7
    <3> QED
      BY <1>1, <3>1 DEF MemoryInv
  <2>1. IsChain(headers) /\ HeightsRight
    BY DEF MemoryInv
  <2>2. PICK k \in 0 .. Len(file) : k + 1 \in 1 .. Len(file) /\ Tail(headers') = ContentsTo(k + 1)
    BY <1>13, TidyIs
  <2>3. Counted(Tail(headers) \o heads)
    <3>1. k + 1 \in 0 .. Len(file)
      BY <1>2, <2>2
    <3> QED
      BY <1>6, <2>2, <3>1 DEF FileChainInv
  <2>4. PICK L \in Nat : Len(headers) = L + 1 /\ Tail(headers) \in Seq(Int) /\ Len(Tail(headers)) = L
    <3>1. Tail(headers) \in Seq(Int) /\ Len(Tail(headers)) \in Nat /\ Len(headers) = Len(Tail(headers)) + 1
      BY <1>2
    <3> QED
      BY <3>1
  <2>5. PICK n \in Nat : n = Len(heads) /\ DOMAIN heads = 1 .. n
    BY <1>5
  <2>6. IsJoined(Int, Tail(headers), heads, L, n, Tail(headers) \o heads)
    BY <1>5, <2>4, <2>5, Joined
  <2>7. ASSUME NEW j \in DOMAIN heads PROVE heads[j] = Len(headers) + j - 1 /\ heads[j] \in 1 .. Tip
    <3> DEFINE t == Tail(headers) \o heads
    <3>1. t \in Seq(Int) /\ Len(t) = L + n /\ t[L + j] = heads[j]
      BY <2>5, <2>6 DEF IsJoined
    <3>2. L + j \in DOMAIN t
      BY <2>5, <3>1
    <3> HIDE DEF t
    <3>3. t[L + j] = L + j /\ t[L + j] \in 1 .. Tip
      BY <2>3, <3>2 DEF Counted, t
    <3> QED
      BY <2>4, <2>5, <3>1, <3>3
  <2>8. /\ Len(headers') = Len(headers) + Len(heads) /\ IsChain(headers')
        /\ \A h \in 1 .. Len(headers') - 1 : h \in Chain /\ header_heights'[h] = h
    BY <1>1, <1>2, <1>5, <2>1, <2>7, HeightsStored DEF HeightsRight
  <2> QED
    BY <2>8 DEF IsChain, HeightsRight, Chain
<1> QED
  BY <1>8, <1>9, <1>10, <1>11, <1>12, <1>14, <1>15

\* An empty file, of which there is no history if no header was read.
LEMMA CreateKeepsInv ==
    ASSUME FileLifeInv, CreateFile
    PROVE  FileLifeInv'
<1> USE DEF FileLifeInv
<1>1. /\ pc = "create" /\ pc' = "get" /\ exists' = TRUE /\ file' = <<>>
      /\ seen' = IF pos = 0 THEN {} ELSE seen
      /\ UNCHANGED <<headers, header_heights, pos, nodes, node, tips>>
  BY DEF CreateFile, memVars
<1>2. file' \in Seq(Messages) /\ Len(file') = 0 /\ DOMAIN file' = {}
  BY <1>1
<1>3. TypeInv'
  BY <1>1, <1>2 DEF TypeInv
<1>4. FileInv' /\ ReadInv' /\ PanicOnlyIfCut'
  BY <1>1, <1>2 DEF FileInv, ReadInv, PanicOnlyIfCut
<1>5. PlaceInv'
  BY <1>1 DEF PlaceInv
<1>6. Contents' = <<>> /\ ContentsTo(0)' = <<>>
  <2>1. WellFormed'
    BY <1>2 DEF WellFormed
  <2>2. ContentsAre'
    BY <2>1, ContentsAreNext
  <2>3. ContentsTo(0)' = <<>> /\ Contents' = ContentsTo(Len(file))'
    BY <2>2 DEF ContentsAre
  <2>4. ContentsTo(Len(file))' = ContentsTo(0)'
    BY <1>2 DEF ContentsTo
  <2> QED
    BY <2>3, <2>4
<1>7. FileChainInv'
  <2>1. Counted(<<>>)
    BY DEF Counted
  <2>2. \A k \in 0 .. 0 : Counted(ContentsTo(k)')
    <3>1. \A k \in 0 .. 0 : k = 0
      OBVIOUS
    <3>2. Counted(ContentsTo(0)')
      BY <1>6, <2>1
    <3> QED
      BY <3>1, <3>2
  <2> QED
    BY <1>2, <2>2 DEF FileChainInv, Counted
<1>8. pos = 0 => headers = <<0>>
  BY <1>1 DEF PlaceInv
<1>9. headers = <<0>> => IsChain(headers) /\ HeightsRight /\ Tail(headers) = <<>>
  BY DEF IsChain, HeightsRight
<1>10. MemoryInv'
  BY <1>1, <1>8, <1>9 DEF MemoryInv, IsChain, HeightsRight
<1>11. PersistedEqualsMemory'
  <2>1. <<>> \in Seq(Int)
    OBVIOUS
  <2>2. IsPrefix(<<>>, <<>>)
    BY <2>1, PrefixOfItself
  <2> QED
    BY <1>1, <1>6, <1>8, <1>9, <2>2 DEF PersistedEqualsMemory
<1> QED
  BY <1>3, <1>4, <1>5, <1>7, <1>10, <1>11

\* A new life begins with the genesis block and what is in the file.
LEMMA ResetKeepsInv ==
    ASSUME FileLifeInv, Reset, exists' = exists, tips' = tips, WellFormed', FileInv', FileChainInv'
    PROVE  FileLifeInv'
<1>1. /\ headers' = <<0>> /\ pos' = 0 /\ nodes' = Peers /\ pc' = "start"
  BY DEF Reset
<1>2. <<0>> \in Seq(Int) /\ <<0>> # <<>>
  BY OneElement
<1>3. TypeInv'
  <2>1. exists \in BOOLEAN /\ tips \in [Peers -> Chain]
    BY DEF FileLifeInv, TypeInv
  <2>2. file' \in Seq(Messages)
    BY DEF WellFormed
  <2> QED
    BY <1>1, <1>2, <2>1, <2>2 DEF TypeInv
<1>4. (PlaceInv /\ ReadInv /\ PanicOnlyIfCut /\ PersistedEqualsMemory)'
  BY <1>1 DEF PlaceInv, ReadInv, PanicOnlyIfCut, PersistedEqualsMemory
<1>5. MemoryInv'
  BY <1>1 DEF MemoryInv, IsChain, HeightsRight
<1> QED
  BY <1>3, <1>4, <1>5 DEF FileLifeInv

LEMMA RestartKeepsInv ==
    ASSUME FileLifeInv, Restart
    PROVE  FileLifeInv'
<1>1. Reset /\ UNCHANGED <<exists, file, tips, seen>>
  BY DEF Restart, fileVars
<1>2. WellFormed'
  BY <1>1, TidyIs DEF FileLifeInv, WellFormed
<1>3. FileInv'
  BY <1>1 DEF FileLifeInv, FileInv, Whole, Full
<1>4. FileChainInv'
  <2>1. \A k : ContentsTo(k)' = ContentsTo(k)
    BY <1>1, SameFile
  <2>2. Len(file') = Len(file) /\ seen' = seen
    BY <1>1
  <2> QED
    BY <2>1, <2>2 DEF FileLifeInv, FileChainInv, Counted
<1> QED
  BY <1>1, <1>2, <1>3, <1>4, ResetKeepsInv

LEMMA CrashKeepsInv ==
    ASSUME FileLifeInv, CrashInWrite
    PROVE  FileLifeInv'
<1>1. PICK n \in Cuts : HeadersMissing /\ n < SizeOf(Answer(node)) /\ Persist(Answer(node), n)
  BY DEF CrashInWrite
<1>2. Reset /\ UNCHANGED <<exists, tips>>
  BY DEF CrashInWrite
<1>3. n \in 0 .. SizeOf(Answer(node))
  <2>1. SizeOf(Answer(node)) \in Nat
    BY <1>1, AnswerType, SizeIsNat DEF FileLifeInv, TypeInv, HeadersMissing
  <2> QED
    BY <1>1, <2>1, HeadersFileAssumption
<1> QED
  BY <1>1, <1>2, <1>3, AnswerWritten, ResetKeepsInv

\* A list goes to the file, to header_heights and to the headers.
LEMMA DownloadKeepsInv ==
    ASSUME FileLifeInv, DownloadList
    PROVE  FileLifeInv'
<1> USE DEF FileLifeInv
<1> DEFINE heads == Answer(node)
<1>1. /\ HeadersMissing /\ load_header_heights(heads) /\ headers' = headers \o heads
      /\ UNCHANGED <<exists, pos, nodes, node, pc, tips>>
  BY DEF DownloadList
<1>2. pc = "loop" /\ node \in Peers /\ heads \in Seq(Int)
  BY <1>1, AnswerType DEF HeadersMissing, TypeInv
<1>3. PICK n \in 0 .. SizeOf(heads) : Persist(heads, n)
  <2>1. PICK n \in Writes(heads) : Persist(heads, n)
    BY DEF DownloadList
  <2>2. n \in 0 .. SizeOf(heads)
    BY <1>2, WritesIs
  <2> QED
    BY <2>1, <2>2
<1>4. /\ WellFormed' /\ FileInv' /\ FileChainInv' /\ seen \subseteq seen'
      /\ pos = 0 /\ seen' \cap {"refused", "gap"} = {} =>
           /\ IsPrefix(Contents', Tail(headers) \o heads)
           /\ "failed" \notin seen' => Contents' = Tail(headers) \o heads
      /\ pos > 0 => seen' \cap {"short", "gap"} # {} /\ seen' \cap {"short", "cut"} # {}
      /\ "behind" \notin seen' /\ heads # <<>> => heads[1] = Last(headers) + 1
  BY <1>1, <1>3, AnswerWritten
<1>5. \A k \in DOMAIN heads : heads # <<>> /\ heads[k] = heads[1] + k - 1 /\ heads[k] \in 1 .. Tip
  BY <1>2, AnswerCounts
<1> HIDE DEF heads
<1>6. headers \in Seq(Int) /\ headers # <<>> /\ pos \in Nat
  BY DEF TypeInv
<1>7. headers' \in Seq(Int) /\ headers' # <<>> /\ Tail(headers') = Tail(headers) \o heads
  <2>1. headers' = headers \o heads
    BY <1>1
  <2>2. headers \o heads \in Seq(Int) /\ headers \o heads # <<>>
    BY <1>2, <1>6
  <2> QED
    BY <1>2, <1>6, <2>1, <2>2, TailOfJoined
<1>8. TypeInv'
  <2>1. file' \in Seq(Messages)
    BY <1>4 DEF WellFormed
  <2> QED
    BY <1>1, <1>7, <2>1 DEF TypeInv
<1>9. ReadInv' /\ PanicOnlyIfCut'
  BY <1>1, <1>2 DEF ReadInv, PanicOnlyIfCut
<1>10. PlaceInv'
  BY <1>1, <1>2, <1>4 DEF PlaceInv
<1>11. MemoryInv'
  <2> SUFFICES ASSUME "behind" \notin seen', pos = 0 \/ seen' \cap {"refused", "short", "gap"} = {}
               PROVE  (IsChain(headers) /\ HeightsRight)'
    BY <1>1 DEF MemoryInv
  <2>1. pos = 0 /\ "behind" \notin seen
    BY <1>4, <1>6
  <2>2. IsChain(headers) /\ HeightsRight
    BY <2>1 DEF MemoryInv
  <2>3. Last(headers) = Len(headers) - 1 /\ Len(headers) \in Nat
    BY <1>6, <2>2, ChainTail
  <2>4. ASSUME NEW k \in DOMAIN heads PROVE heads[k] = Len(headers) + k - 1 /\ heads[k] \in 1 .. Tip
    <3>1. heads # <<>> /\ heads[k] = heads[1] + k - 1 /\ heads[k] \in 1 .. Tip
      BY <1>5, <2>4
    <3>2. heads[1] = Len(headers)
      BY <1>4, <2>3, <3>1
    <3> QED
      BY <3>1, <3>2
  <2>5. /\ Len(headers') = Len(headers) + Len(heads) /\ IsChain(headers')
        /\ \A h \in 1 .. Len(headers') - 1 : h \in Chain /\ header_heights'[h] = h
    BY <1>1, <1>2, <1>6, <2>2, <2>4, HeightsStored DEF HeightsRight
  <2> QED
    BY <2>5 DEF IsChain, HeightsRight, Chain
<1>12. PersistedEqualsMemory'
  <2>1. pos = 0 /\ seen' \cap {"refused", "gap"} = {} =>
          /\ IsPrefix(Contents', Tail(headers'))
          /\ "failed" \notin seen' => Contents' = Tail(headers')
    BY <1>4, <1>7
  <2> QED
    BY <1>1, <1>2, <2>1 DEF PersistedEqualsMemory, IsPrefix
<1> QED
  BY <1>4, <1>8, <1>9, <1>10, <1>11, <1>12

\* A list with a foreign header stays in the file; only the heights of headers
\* that are not in memory change.
LEMMA RefusedKeepsInv ==
    ASSUME FileLifeInv, ListRefused
    PROVE  FileLifeInv'
<1> USE DEF FileLifeInv
<1> DEFINE answer == Answer(node)
           heads == [answer EXCEPT ![1] = Bad]
<1>1. /\ HeadersMissing /\ answer # <<>> /\ load_header_heights(heads)
      /\ pc' = "get" /\ node' = NoPeer
      /\ UNCHANGED <<exists, headers, pos, nodes, tips>>
  BY DEF ListRefused
<1>2. pc = "loop" /\ node \in Peers /\ answer \in Seq(Int) /\ Len(answer) <= BatchSize
  BY <1>1, AnswerType DEF HeadersMissing, TypeInv
<1>3. PICK n \in Writes(heads) :
        /\ file' = IF n = 0 THEN file ELSE Append(file, [heads |-> heads, bytes |-> n])
        /\ seen' = seen \cup Note(heads, n) \cup {"refused"}
  BY DEF ListRefused
<1>4. \A k \in DOMAIN answer : answer[k] = answer[1] + k - 1
  BY <1>2, AnswerCounts
<1> HIDE DEF answer
<1>5. heads \in Seq(Int) /\ Len(heads) = Len(answer) /\ DOMAIN heads = DOMAIN answer
  BY <1>1, <1>2 DEF Bad
<1>6. \A k \in DOMAIN heads : heads[k] = Bad \/ (k # 1 /\ heads[k] = answer[1] + k - 1)
  BY <1>2, <1>4
<1> HIDE DEF heads
<1>7. SizeOf(heads) \in Nat \ {0} /\ n \in 0 .. SizeOf(heads) /\ n \in Nat
  BY <1>5, WritesIs
<1>8. Wrote(heads, n) /\ Noted(heads, n)
  <2>1. Noted(heads, n)
    BY <1>3, NoteIs DEF Noted
  <2>2. Wrote(heads, n)
    BY <1>3, <1>7 DEF Wrote
  <2> QED
    BY <2>1, <2>2
<1>9. WellFormed' /\ FileInv'
  <2>1. WellFormed
    BY TidyIs
  <2>2. Len(heads) <= BatchSize
    BY <1>2, <1>5
  <2> QED
    BY <1>5, <1>7, <1>8, <2>1, <2>2, FileWritten
<1>10. "refused" \in seen' /\ seen \subseteq seen'
  BY <1>3
<1>11. pos \in Nat /\ headers \in Seq(Int) /\ headers # <<>>
  BY DEF TypeInv
<1>12. TypeInv'
  BY <1>1, <1>9 DEF TypeInv, WellFormed
<1>13. ReadInv' /\ PanicOnlyIfCut' /\ FileChainInv' /\ PersistedEqualsMemory'
  BY <1>1, <1>10 DEF ReadInv, PanicOnlyIfCut, FileChainInv, PersistedEqualsMemory
<1>14. PlaceInv'
  BY <1>1, <1>2, <1>10 DEF PlaceInv
<1>15. MemoryInv'
  <2> SUFFICES ASSUME "behind" \notin seen', pos = 0 PROVE (IsChain(headers) /\ HeightsRight)'
    BY <1>1, <1>10, <1>11 DEF MemoryInv
  <2>1. IsChain(headers) /\ HeightsRight
    BY <1>10 DEF MemoryInv
  <2>2. Last(headers) = Len(headers) - 1
    BY <2>1, ChainTail
  <2>3. PICK L \in Nat : L = Len(headers)
    BY <1>11
  <2>4. answer[1] = L
    <3>1. "behind" \notin Note(heads, n)
      BY <1>3
    <3>2. answer[1] = Last(headers) + 1
      BY <1>1, <3>1, NoteIs DEF answer
    <3> QED
      BY <2>2, <2>3, <3>2
  <2>5. ASSUME NEW h \in 1 .. L - 1 PROVE header_heights'[h] = header_heights[h]
    <3>1. h \in Chain /\ h # Bad
      BY <2>1, <2>3, <2>5 DEF HeightsRight, Bad
    <3>2. h \notin ToSet(heads)
      <4> SUFFICES ASSUME h \in ToSet(heads) PROVE FALSE
        OBVIOUS
      <4>1. PICK k \in DOMAIN heads : heads[k] = h
        BY DEF ToSet
      <4>2. heads[k] = L + k - 1 /\ k \in Nat
        BY <1>5, <1>6, <2>4, <3>1, <4>1
      <4>3. k >= 1
        BY <1>5, <4>1
      <4> QED
        BY <2>5, <4>1, <4>2, <4>3
    <3> QED
      BY <1>1, <3>1, <3>2 DEF load_header_heights
  <2>6. headers' = headers /\ \A h \in 1 .. Len(headers) - 1 : header_heights'[h] = header_heights[h]
    BY <1>1, <2>3, <2>5
  <2> QED
    BY <2>1, <2>6 DEF IsChain, HeightsRight
<1> QED
  BY <1>9, <1>12, <1>13, <1>14, <1>15

--------------------------------------------------------------------------------
(***************************************************************************)
(* The theorems.                                                           *)
(***************************************************************************)
LEMMA FileLifeInit == Init => FileLifeInv
<1> SUFFICES ASSUME Init PROVE FileLifeInv
  OBVIOUS
<1>1. /\ exists = FALSE /\ file = <<>> /\ headers = <<0>> /\ pc = "start" /\ pos = 0 /\ nodes = Peers
      /\ tips \in [Peers -> Chain] /\ seen = {}
  BY DEF Init
<1>2. <<0>> \in Seq(Int) /\ <<0>> # <<>> /\ Len(<<0>>) = 1 /\ DOMAIN <<0>> = 1 .. 1
  BY OneElement
<1>3. file \in Seq(Messages) /\ DOMAIN file = {} /\ Len(file) = 0
  BY <1>1
<1>4. TypeInv
  <2>1. exists \in BOOLEAN
    BY <1>1, Zenon
  <2>2. /\ pc # "loop" /\ pos \in Nat /\ nodes \subseteq Peers
        /\ pc \in {"start", "read", "create", "get", "loop", "ready", "failed", "panic"}
        /\ tips \in [Peers -> Chain] /\ headers \in Seq(Int) /\ headers # <<>>
    BY <1>1, <1>2
  <2> QED
    BY <1>3, <2>1, <2>2, Zenon DEF TypeInv
<1>5. FileInv /\ ReadInv /\ PlaceInv /\ PanicOnlyIfCut /\ PersistedEqualsMemory
  BY <1>1, <1>3 DEF FileInv, ReadInv, PlaceInv, PanicOnlyIfCut, PersistedEqualsMemory
<1>6. FileChainInv
  <2>1. ContentsTo(0) = <<>>
    <3>1. WellFormed
      BY <1>3 DEF WellFormed
    <3> QED
      BY <3>1, ContentsIs DEF ContentsAre
  <2>2. \A k \in 0 .. 0 : k = 0
    OBVIOUS
  <2>3. Counted(<<>>)
    BY DEF Counted
  <2> QED
    BY <1>3, <2>1, <2>2, <2>3 DEF FileChainInv
<1>7. MemoryInv
  BY <1>1, <1>2 DEF MemoryInv, IsChain, HeightsRight
<1> QED
  BY <1>4, <1>5, <1>6, <1>7 DEF FileLifeInv

LEMMA FileLifeStep == FileLifeInv /\ [Next]_vars => FileLifeInv'
<1> SUFFICES ASSUME FileLifeInv, [Next]_vars PROVE FileLifeInv'
  OBVIOUS
<1>1. CASE \/ \E reading \in BOOLEAN : get_initial_headers(reading)
           \/ UnmarshallingError \/ ReadPanics \/ ReadEnd \/ ReadFails \/ CreateFails
           \/ GetNode \/ NoNode \/ NodeFails \/ ReturnNode \/ \E p \in Peers : CatchUp(p)
  BY <1>1, PlaceStepsKeepInv
<1>2. CASE ReadMessage
  BY <1>2, ReadMessageKeepsInv
<1>3. CASE CreateFile
  BY <1>3, CreateKeepsInv
<1>4. CASE DownloadList
  BY <1>4, DownloadKeepsInv
<1>5. CASE ListRefused
  BY <1>5, RefusedKeepsInv
<1>6. CASE Restart
  BY <1>6, RestartKeepsInv
<1>7. CASE CrashInWrite
  BY <1>7, CrashKeepsInv
<1>8. CASE UNCHANGED vars
  <2>1. UNCHANGED <<exists, file, headers, header_heights, pos, nodes, node, pc, tips, seen>>
    BY <1>8 DEF vars, fileVars, memVars, envVars
  <2>2. nodes \subseteq Peers /\ (pc = "loop" => node \in Peers) /\ tips \in [Peers -> Chain]
    BY DEF FileLifeInv, TypeInv
  <2> QED
    BY <2>1, <2>2, PlaceKeepsInv
<1> QED
  BY <1>1, <1>2, <1>3, <1>4, <1>5, <1>6, <1>7, <1>8 DEF Next, ProcessStep

LEMMA FileLife == Spec => []FileLifeInv
BY FileLifeInit, FileLifeStep, PTL DEF Spec

\* However often the process is killed, also inside write_all, whichever writes
\* fail, however much of a list they leave, and however far behind the peers
\* are: the headers in memory are the chain from the genesis block and
\* header_heights gives their places, unless a peer that did not know the last
\* header answered from the start, or the headers come from a file with a short
\* list, a refused one, or one written after a write that failed.
THEOREM HeadersAreChain == Spec => []LoadedHeadersAreChain
<1>1. FileLifeInv => LoadedHeadersAreChain
  <2> SUFFICES ASSUME FileLifeInv, "behind" \notin seen,
                      pos = 0 \/ seen \cap {"refused", "short", "gap"} = {}
               PROVE  IsChain(headers) /\ \A i \in 2 .. Len(headers) : header_heights[headers[i]] = i - 1
    BY DEF LoadedHeadersAreChain
  <2>1. IsChain(headers) /\ \A h \in 1 .. Len(headers) - 1 : header_heights[h] = h
    BY DEF FileLifeInv, MemoryInv, HeightsRight
  <2>2. DOMAIN headers = 1 .. Len(headers) /\ Len(headers) \in Nat
    BY DEF FileLifeInv, TypeInv
  <2>3. ASSUME NEW i \in 2 .. Len(headers) PROVE header_heights[headers[i]] = i - 1
    <3>1. i \in DOMAIN headers /\ i - 1 \in 1 .. Len(headers) - 1
      BY <2>2
    <3>2. headers[i] = i - 1
      BY <2>1, <3>1 DEF IsChain
    <3> QED
      BY <2>1, <3>1, <3>2
  <2> QED
    BY <2>1, <2>3
<1> QED
  BY <1>1, FileLife, PTL

\* What download_and_persist_headers wrote is what the process has, or the first
\* part of it after a write that failed; what read_headers_from_disk loads from
\* full lists is what the file holds.
THEOREM FileEqualsMemory == Spec => []PersistedEqualsMemory
<1>1. FileLifeInv => PersistedEqualsMemory
  BY DEF FileLifeInv
<1> QED
  BY <1>1, FileLife, PTL

\* read_headers_from_disk panics only on a file in which a short list was
\* written or one was cut.
THEOREM PanicsOnlyIfCut == Spec => []PanicOnlyIfCut
<1>1. FileLifeInv => PanicOnlyIfCut
  BY DEF FileLifeInv
<1> QED
  BY <1>1, FileLife, PTL
=============================================================================
