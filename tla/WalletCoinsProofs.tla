-------------------------- MODULE WalletCoinsProofs --------------------------
(***************************************************************************)
(* The money of the accounts, for any chain, payments, blocks and clicks:  *)
(* the coins of an account are the unspent outputs that pay its address, a *)
(* transaction the wallet makes is balanced and signed, and it spends      *)
(* nothing that a block has spent.                                         *)
(***************************************************************************)
EXTENDS WalletProofs

(***************************************************************************)
(* Sums, and parts of lists.                                               *)
(***************************************************************************)
\* The function that SumOf defines exists.
LEMMA SumIs ==
    ASSUME NEW s \in Seq(Int)
    PROVE  \E F \in [0 .. Len(s) -> Int] :
              F[0] = 0 /\ (\A n \in 1 .. Len(s) : F[n] = F[n - 1] + s[n]) /\ SumOf(s) = F[Len(s)]
<1> DEFINE N == Len(s)
           g == [p \in (1 .. N) \X Int |-> p[2] + s[p[1]]]
           Body(f) == [n \in 0 .. N |-> IF n = 0 THEN 0 ELSE f[n - 1] + s[n]]
<1>0. N \in Nat /\ \A n \in 1 .. N : s[n] \in Int
  OBVIOUS
<1>1. g \in [(1 .. N) \X Int -> Int]
  BY <1>0
<1>2. PICK E \in [0 .. N -> Int] : Steps(E, N, 0, g)
  <2> HIDE DEF g, N
  <2>1. N \in Nat /\ 0 \in Int /\ g \in [(1 .. N) \X Int -> Int]
    BY <1>0, <1>1
  <2> QED
    BY <2>1, StepByStep
<1>3. ASSUME NEW n \in 1 .. N PROVE E[n] = E[n - 1] + s[n]
  <2> HIDE DEF N, g
  <2>1. n - 1 \in 0 .. N
    BY <1>0
  <2>2. E[n - 1] \in Int
    BY <2>1
  <2>3. E[n] = g[<<n, E[n - 1]>>]
    BY <1>2 DEF Steps
  <2>4. g[<<n, E[n - 1]>>] = E[n - 1] + s[n]
    BY <2>2 DEF g
  <2> QED
    BY <2>3, <2>4
<1>4. E = Body(E)
  <2>1. \A n \in 0 .. N : n # 0 => n \in 1 .. N
    BY <1>0
  <2> QED
    BY <1>2, <1>3, <2>1 DEF Steps
<1> DEFINE F == CHOOSE f : f = Body(f)
<1>5. F = Body(F)
  <2> HIDE DEF Body
  <2> QED
    BY <1>4
<1>6. SumOf(s) = F[N]
  BY DEF SumOf
<1> HIDE DEF F
<1>7. DOMAIN F = 0 .. N /\ F[0] = 0 /\ \A n \in 1 .. N : F[n] = F[n - 1] + s[n]
  <2>1. \A n \in 0 .. N : F[n] = IF n = 0 THEN 0 ELSE F[n - 1] + s[n]
    BY <1>5
  <2>2. 0 \in 0 .. N /\ \A n \in 1 .. N : n \in 0 .. N /\ n # 0
    BY <1>0
  <2> QED
    BY <1>5, <2>1, <2>2
<1> DEFINE G == {n \in 0 .. N : F[n] \in Int}
<1>8. 0 .. N \subseteq G
  <2>1. 0 \in G
    BY <1>0, <1>7
  <2>2. ASSUME NEW n \in 0 .. (N - 1), n \in G PROVE n + 1 \in G
    <3>1. n + 1 \in 1 .. N /\ n + 1 \in 0 .. N /\ (n + 1) - 1 = n /\ F[n] \in Int /\ s[n + 1] \in Int
      BY <1>0, <2>2
    <3>2. F[n + 1] = F[n] + s[n + 1]
      BY <1>7, <3>1
    <3> QED
      BY <3>1, <3>2
  <2> HIDE DEF G, N
  <2> QED
    BY <1>0, <2>1, <2>2, UpTo
<1>9. F \in [0 .. N -> Int]
  BY <1>5, <1>8
<1> QED
  BY <1>6, <1>7, <1>9

\* One more number at the end.
LEMMA SumAppend ==
    ASSUME NEW s \in Seq(Int), NEW x \in Int
    PROVE  SumOf(s) \in Int /\ SumOf(Append(s, x)) = SumOf(s) + x
<1> DEFINE t == Append(s, x)
<1>1. PICK N \in Nat : N = Len(s)
  OBVIOUS
<1>2. t \in Seq(Int) /\ Len(t) = N + 1 /\ t[N + 1] = x /\ \A n \in 1 .. N : t[n] = s[n]
  BY <1>1
<1> HIDE DEF t
<1>3. PICK F \in [0 .. N -> Int] : F[0] = 0 /\ (\A n \in 1 .. N : F[n] = F[n - 1] + s[n]) /\ SumOf(s) = F[N]
  BY <1>1, SumIs
<1>4. PICK E \in [0 .. N + 1 -> Int] :
         E[0] = 0 /\ (\A n \in 1 .. N + 1 : E[n] = E[n - 1] + t[n]) /\ SumOf(t) = E[N + 1]
  BY <1>2, SumIs
<1> DEFINE G == {n \in 0 .. N : F[n] = E[n]}
<1>5. 0 .. N \subseteq G
  <2>1. 0 \in G
    BY <1>3, <1>4
  <2>2. ASSUME NEW n \in 0 .. (N - 1), n \in G PROVE n + 1 \in G
    <3>1. n + 1 \in 1 .. N /\ n + 1 \in 1 .. N + 1 /\ n + 1 \in 0 .. N /\ (n + 1) - 1 = n /\ F[n] = E[n]
      BY <2>2
    <3>2. F[n + 1] = F[n] + s[n + 1] /\ E[n + 1] = E[n] + t[n + 1] /\ t[n + 1] = s[n + 1]
      BY <1>2, <1>3, <1>4, <3>1
    <3> QED
      BY <3>1, <3>2
  <2> HIDE DEF G
  <2> QED
    BY <2>1, <2>2, UpTo
<1>6. F[N] = E[N] /\ F[N] \in Int
  BY <1>5
<1>7. E[N + 1] = E[N] + x
  <2>1. N + 1 \in 1 .. N + 1 /\ (N + 1) - 1 = N
    OBVIOUS
  <2> QED
    BY <1>2, <1>4, <2>1
<1> QED
  BY <1>3, <1>4, <1>6, <1>7 DEF t

\* The sum of no numbers.
LEMMA SumEmpty == SumOf(<<>>) = 0
<1>1. <<>> \in Seq(Int) /\ Len(<<>>) = 0
  OBVIOUS
<1>2. PICK F \in [0 .. 0 -> Int] : F[0] = 0 /\ SumOf(<<>>) = F[0]
  BY <1>1, SumIs
<1> QED
  BY <1>2

\* Two lists, one after the other.
LEMMA SumConcat ==
    ASSUME NEW s \in Seq(Int), NEW t \in Seq(Int)
    PROVE  SumOf(s \o t) = SumOf(s) + SumOf(t)
<1> DEFINE P(n) == SubSeq(t, 1, n)
           G == {n \in 0 .. Len(t) : SumOf(s \o P(n)) = SumOf(s) + SumOf(P(n))}
<1>1. PICK N \in Nat : N = Len(t)
  OBVIOUS
<1>2. SumOf(s) \in Int
  BY SumAppend
<1>3. 0 \in G
  <2>1. P(0) = <<>>
    BY PrefixIs
  <2>2. s \o <<>> = s
    OBVIOUS
  <2>3. SumOf(s \o <<>>) = SumOf(s) + SumOf(<<>>)
    <3> DEFINE z == SumOf(s)
               w == SumOf(<<>>)
    <3>1. z = z + w
      BY <1>2, SumEmpty
    <3> QED
      BY <2>2, <3>1
  <2>4. SumOf(s \o P(0)) = SumOf(s) + SumOf(P(0))
    BY <2>1, <2>3
  <2> HIDE DEF P
  <2> QED
    BY <1>1, <2>4
<1>4. ASSUME NEW n \in 0 .. (N - 1), n \in G PROVE n + 1 \in G
  <2>1. n + 1 \in 1 .. Len(t) /\ n \in 0 .. Len(t) /\ n + 1 \in 0 .. Len(t) /\ (n + 1) - 1 = n
    BY <1>1
  <2> DEFINE p == P(n)
             e == t[n + 1]
             q == P(n + 1)
  <2>2. q = Append(p, e) /\ p \in Seq(Int) /\ e \in Int
    <3>1. \A k \in 1 .. Len(t) : SubSeq(t, 1, k) = Append(SubSeq(t, 1, k - 1), t[k])
      BY PrefixIs
    <3>2. \A k \in 0 .. Len(t) : SubSeq(t, 1, k) \in Seq(Int)
      BY PrefixIs
    <3> QED
      BY <2>1, <3>1, <3>2
  <2>3. SumOf(s \o p) = SumOf(s) + SumOf(p)
    BY <1>4
  <2>4. q = P(n + 1)
    OBVIOUS
  <2> HIDE DEF p, e, q, P
  <2>5. s \o Append(p, e) = Append(s \o p, e) /\ s \o p \in Seq(Int)
    BY <2>2
  <2>6. SumOf(p) \in Int /\ SumOf(Append(p, e)) = SumOf(p) + e /\ SumOf(Append(s \o p, e)) = SumOf(s \o p) + e
    BY <2>2, <2>5, SumAppend
  <2>7. SumOf(s \o q) = SumOf(s) + SumOf(q)
    BY <1>2, <2>2, <2>3, <2>5, <2>6
  <2> QED
    BY <2>1, <2>4, <2>7
<1> HIDE DEF G
<1>5. 0 .. N \subseteq G
  BY <1>3, <1>4, UpTo
<1>6. P(N) = t
  BY <1>1, PrefixIs
<1>7. N \in G
  BY <1>5
<1> QED
  BY <1>6, <1>7 DEF G

\* Keep puts lists of at most one element together.
LEMMA KeepParts ==
    ASSUME NEW S, NEW s \in Seq(S), NEW P
    PROVE  [i \in DOMAIN s |-> IF s[i] \in P THEN <<s[i]>> ELSE <<>>] \in Seq(Seq(S))
<1> DEFINE ss == [i \in 1 .. Len(s) |-> IF s[i] \in P THEN <<s[i]>> ELSE <<>>]
<1>1. ASSUME NEW i \in 1 .. Len(s) PROVE (IF s[i] \in P THEN <<s[i]>> ELSE <<>>) \in Seq(S)
  <2>1. s[i] \in S
    OBVIOUS
  <2>2. <<s[i]>> \in Seq(S)
    BY <2>1, OneElement
  <2>3. <<>> \in Seq(S)
    OBVIOUS
  <2> QED
    BY <2>2, <2>3
<1>2. ss \in [1 .. Len(s) -> Seq(S)] /\ Len(s) \in Nat /\ DOMAIN s = 1 .. Len(s)
  BY <1>1
<1>3. ss \in Seq(Seq(S))
  <2> HIDE DEF ss
  <2> QED
    BY <1>2
<1> QED
  BY <1>2, <1>3

\* The elements that are kept.
LEMMA KeepIs ==
    ASSUME NEW S, NEW s \in Seq(S), NEW P
    PROVE  Keep(s, P) \in Seq(S) /\ Range(Keep(s, P)) = Range(s) \cap P
<1> DEFINE ss == [i \in DOMAIN s |-> IF s[i] \in P THEN <<s[i]>> ELSE <<>>]
<1>1. ss \in Seq(Seq(S))
  BY KeepParts
<1>2. Keep(s, P) = FlattenSeq(ss)
  BY DEF Keep
<1>3. DOMAIN ss = DOMAIN s /\ \A i \in DOMAIN s : Range(ss[i]) = IF s[i] \in P THEN {s[i]} ELSE {}
  <2>1. \A i \in DOMAIN s : ss[i] = IF s[i] \in P THEN <<s[i]>> ELSE <<>>
    OBVIOUS
  <2>2. ASSUME NEW x PROVE Range(<<x>>) = {x}
    BY DEF Range
  <2>3. Range(<<>>) = {}
    BY DEF Range
  <2>4. DOMAIN ss = DOMAIN s
    OBVIOUS
  <2> HIDE DEF ss
  <2> QED
    BY <2>1, <2>2, <2>3, <2>4
<1> HIDE DEF ss
<1>4. FlattenSeq(ss) \in Seq(S)
  BY <1>1, FlattenType
<1>5. Range(FlattenSeq(ss)) = UNION {Range(ss[i]) : i \in DOMAIN ss}
  BY <1>1, FlattenRange
<1> DEFINE R(i) == Range(ss[i])
<1>6. UNION {R(i) : i \in DOMAIN ss} = Range(s) \cap P
  <2>1. DOMAIN ss = DOMAIN s /\ \A i \in DOMAIN s : R(i) = IF s[i] \in P THEN {s[i]} ELSE {}
    BY <1>3
  <2> HIDE DEF R
  <2>2. ASSUME NEW x \in Range(s) \cap P PROVE \E i \in DOMAIN ss : x \in R(i)
    <3>1. PICK i \in DOMAIN s : x = s[i]
      BY DEF Range
    <3> QED
      BY <2>1, <3>1
  <2>3. ASSUME NEW i \in DOMAIN ss, NEW x \in R(i) PROVE x \in Range(s) \cap P
    BY <2>1 DEF Range
  <2> QED
    BY <2>2, <2>3
<1> QED
  BY <1>2, <1>4, <1>5, <1>6

\* Keep after one more element.
LEMMA KeepAppend ==
    ASSUME NEW S, NEW s \in Seq(S), NEW P, NEW e \in S
    PROVE  Keep(Append(s, e), P) = IF e \in P THEN Append(Keep(s, P), e) ELSE Keep(s, P)
<1> DEFINE ss == [i \in DOMAIN s |-> IF s[i] \in P THEN <<s[i]>> ELSE <<>>]
           x == IF e \in P THEN <<e>> ELSE <<>>
           t == Append(s, e)
           tt == [i \in DOMAIN t |-> IF t[i] \in P THEN <<t[i]>> ELSE <<>>]
<1>1. ss \in Seq(Seq(S)) /\ x \in Seq(S)
  <2>1. ss \in Seq(Seq(S))
    BY KeepParts
  <2>2. <<e>> \in Seq(S) /\ <<>> \in Seq(S)
    BY OneElement
  <2> QED
    BY <2>1, <2>2
<1>2. PICK N \in Nat : N = Len(s)
  OBVIOUS
<1>3. /\ DOMAIN s = 1 .. N /\ DOMAIN t = 1 .. N + 1 /\ t[N + 1] = e /\ \A i \in 1 .. N : t[i] = s[i]
  BY <1>2
<1>4. tt = Append(ss, x)
  <2>1. /\ Len(ss) = N /\ DOMAIN tt = 1 .. N + 1 /\ tt[N + 1] = x
        /\ \A i \in 1 .. N : tt[i] = ss[i]
    <3>1. DOMAIN ss = 1 .. N /\ \A i \in 1 .. N : ss[i] = IF s[i] \in P THEN <<s[i]>> ELSE <<>>
      BY <1>3
    <3>2. DOMAIN tt = 1 .. N + 1 /\ \A i \in 1 .. N + 1 : tt[i] = IF t[i] \in P THEN <<t[i]>> ELSE <<>>
      BY <1>3
    <3>3. N + 1 \in 1 .. N + 1 /\ \A i \in 1 .. N : i \in 1 .. N + 1
      OBVIOUS
    <3>4. Len(ss) = N
      <4> HIDE DEF ss
      <4> QED
        BY <1>1, <3>1
    <3> HIDE DEF ss, tt, t
    <3> QED
      BY <1>3, <3>1, <3>2, <3>3, <3>4
  <2>2. tt \in Seq(Seq(S))
    <3>1. t \in Seq(S)
      OBVIOUS
    <3> HIDE DEF t
    <3> QED
      BY <3>1, KeepParts
  <2> HIDE DEF ss, tt, x, t
  <2>3. Len(tt) = N + 1
    BY <2>1, <2>2
  <2>4. /\ Append(ss, x) \in Seq(Seq(S)) /\ Len(Append(ss, x)) = N + 1 /\ Append(ss, x)[N + 1] = x
        /\ \A i \in 1 .. N : Append(ss, x)[i] = ss[i]
    BY <1>1, <2>1
  <2>5. \A i \in 1 .. N + 1 : tt[i] = Append(ss, x)[i]
    <3>1. \A i \in 1 .. N + 1 : i \in 1 .. N \/ i = N + 1
      OBVIOUS
    <3> QED
      BY <2>1, <2>4, <3>1
  <2> QED
    BY <2>2, <2>3, <2>4, <2>5
<1>5. FlattenSeq(Append(ss, x)) = FlattenSeq(ss) \o x
  <2> HIDE DEF ss, x
  <2> QED
    BY <1>1, FlattenAppend
<1>6. Keep(s, P) = FlattenSeq(ss) /\ Keep(Append(s, e), P) = FlattenSeq(tt)
  BY DEF Keep
<1>7. Keep(s, P) \in Seq(S)
  BY KeepIs
<1> DEFINE k == Keep(s, P)
<1>8. Keep(Append(s, e), P) = k \o x
  BY <1>4, <1>5, <1>6
<1> HIDE DEF k
<1>9. k \in Seq(S) /\ k \o <<>> = k /\ k \o <<e>> = Append(k, e)
  BY <1>7 DEF k
<1> QED
  BY <1>8, <1>9 DEF k

\* What is different stays different.
Different(s) == \A i, j \in DOMAIN s : s[i].index = s[j].index => i = j

\* A list of entries with different indices stays one when an entry with a
\* new index is added.
LEMMA DifferentAppend ==
    ASSUME NEW S, NEW s \in Seq(S), NEW e \in S, Different(s), \A x \in Range(s) : x.index # e.index
    PROVE  Different(Append(s, e))
<1> DEFINE t == Append(s, e)
<1>1. PICK N \in Nat : N = Len(s)
  OBVIOUS
<1>2. DOMAIN s = 1 .. N /\ DOMAIN t = 1 .. N + 1 /\ t[N + 1] = e /\ \A i \in 1 .. N : t[i] = s[i]
  BY <1>1
<1>3. \A i \in 1 .. N : s[i].index # e.index
  BY <1>2 DEF Range
<1> HIDE DEF t
<1>4. ASSUME NEW i \in 1 .. N + 1, NEW j \in 1 .. N + 1, t[i].index = t[j].index PROVE i = j
  <2>1. (i \in 1 .. N \/ i = N + 1) /\ (j \in 1 .. N \/ j = N + 1)
    OBVIOUS
  <2>2. CASE i \in 1 .. N /\ j \in 1 .. N
    BY <1>2, <1>4, <2>2 DEF Different
  <2>3. CASE i \in 1 .. N /\ j = N + 1
    BY <1>2, <1>3, <1>4, <2>3
  <2>4. CASE i = N + 1 /\ j \in 1 .. N
    BY <1>2, <1>3, <1>4, <2>4
  <2> QED
    BY <2>1, <2>2, <2>3, <2>4
<1>5. Different(t)
  BY <1>2, <1>4 DEF Different
<1> QED
  BY <1>5 DEF t

\* Part of a list of entries with different indices has different indices.
LEMMA KeepDifferent ==
    ASSUME NEW S, NEW s \in Seq(S), NEW P, Different(s)
    PROVE  Different(Keep(s, P))
<1> DEFINE p(n) == SubSeq(s, 1, n)
           G == {n \in 0 .. Len(s) : Different(Keep(p(n), P))}
<1>1. PICK N \in Nat : N = Len(s) /\ DOMAIN s = 1 .. N
  OBVIOUS
<1>2. 0 \in G
  <2>1. p(0) = <<>>
    BY PrefixIs
  <2>2. Keep(<<>>, P) = <<>>
    BY DEF Keep, FlattenSeq
  <2>3. Different(<<>>)
    BY DEF Different
  <2>4. Different(Keep(p(0), P))
    BY <2>1, <2>2, <2>3
  <2> HIDE DEF p
  <2> QED
    BY <1>1, <2>4
<1>3. ASSUME NEW n \in 0 .. (N - 1), n \in G PROVE n + 1 \in G
  <2>1. n + 1 \in 1 .. Len(s) /\ n \in 0 .. Len(s) /\ n + 1 \in 0 .. Len(s) /\ (n + 1) - 1 = n
    BY <1>1
  <2> DEFINE a == p(n)
             e == s[n + 1]
             b == p(n + 1)
  <2>2. b = Append(a, e) /\ a \in Seq(S) /\ e \in S /\ Len(a) = n /\ \A i \in 1 .. n : a[i] = s[i]
    <3>1. \A k \in 1 .. Len(s) : SubSeq(s, 1, k) = Append(SubSeq(s, 1, k - 1), s[k])
      BY PrefixIs
    <3>2. \A k \in 0 .. Len(s) : SubSeq(s, 1, k) \in Seq(S) /\ Len(SubSeq(s, 1, k)) = k
      BY PrefixIs
    <3>3. \A k \in 0 .. Len(s) : \A i \in 1 .. k : SubSeq(s, 1, k)[i] = s[i]
      BY PrefixIs
    <3> QED
      BY <2>1, <3>1, <3>2, <3>3
  <2>3. Different(Keep(a, P))
    BY <1>3
  <2>4. ASSUME NEW x \in Range(a) PROVE x.index # e.index
    <3>1. PICK i \in 1 .. n : x = s[i]
      <4> HIDE DEF a, e, b, p
      <4> QED
        BY <2>2 DEF Range
    <3>2. i # n + 1 /\ i \in 1 .. N /\ n + 1 \in 1 .. N
      BY <1>1, <2>1
    <3> QED
      BY <1>1, <3>1, <3>2 DEF Different
  <2>5. b = p(n + 1)
    OBVIOUS
  <2> HIDE DEF a, e, b, p
  <2>6. Keep(b, P) = IF e \in P THEN Append(Keep(a, P), e) ELSE Keep(a, P)
    BY <2>2, KeepAppend
  <2>7. Keep(a, P) \in Seq(S) /\ Range(Keep(a, P)) = Range(a) \cap P
    BY <2>2, KeepIs
  <2>8. Different(Append(Keep(a, P), e))
    BY <2>2, <2>3, <2>4, <2>7, DifferentAppend
  <2>9. Different(Keep(b, P))
    BY <2>3, <2>6, <2>8
  <2> QED
    BY <2>1, <2>5, <2>9
<1> HIDE DEF G
<1>4. 0 .. N \subseteq G
  BY <1>2, <1>3, UpTo
<1>5. p(N) = s
  BY <1>1, PrefixIs
<1>6. N \in G
  BY <1>4
<1> QED
  BY <1>5, <1>6 DEF G

(***************************************************************************)
(* Scripts and addresses.                                                  *)
(***************************************************************************)
\* The private keys that the user may enter.
Keys == {decode_wif_private_key(l.wif).val : l \in {l \in Logins : decode_wif_private_key(l.wif).st = "ok"}}

\* The lengths that the libraries give: four bytes of checksum, HashLen of a
\* hash.
LibraryLengths ==
    /\ \A b \in Seq(Int) \ {<<>>} : Checksum(b) \in Seq(Int) /\ Len(Checksum(b)) = 4
    /\ \A k \in Keys : hash_160(public_key(k)) \in Seq(Int) /\ Len(hash_160(public_key(k))) = HashLen

\* A script that begins like a P2WPKH or a P2PKH script is one, of a hash of
\* whatever length.
Standard(script) ==
    LET n == Len(script)
    IN n > 3 => /\ script[1] = 0 => script[2] = n - 2
                /\ script[1] = OP_DUP => /\ script[2] = OP_HASH160 /\ script[3] = n - 5
                                         /\ script[n - 1] = OP_EQUALVERIFY /\ script[n] = OP_CHECKSIG

\* What a checksum is taken of.
LEMMA VersionIs ==
    ASSUME NEW h \in Seq(Int)
    PROVE  <<TestnetByte>> \o h \in Seq(Int) \ {<<>>}
<1> DEFINE t == <<TestnetByte>>
<1>1. t \in Seq(Int) /\ Len(t) = 1
  BY DEF TestnetByte
<1> HIDE DEF t
<1>2. PICK n \in Nat : n = Len(h)
  OBVIOUS
<1>3. IsJoined(Int, t, h, 1, n, t \o h)
  <2>1. 1 \in Nat /\ Len(h) = n
    BY <1>2
  <2> QED
    BY <1>1, <2>1, Joined
<1>4. t \o h \in Seq(Int) /\ Len(t \o h) = 1 + n
  BY <1>3 DEF IsJoined
<1>5. t \o h # <<>>
  BY <1>2, <1>4
<1> QED
  BY <1>4, <1>5 DEF t

\* A checksum hides nothing.
LEMMA ChecksumCancels ==
    ASSUME LibraryLengths, NEW a \in Seq(Int) \ {<<>>}, NEW b \in Seq(Int) \ {<<>>}, WithChecksum(a) = WithChecksum(b)
    PROVE  a = b
<1> DEFINE c == Checksum(a)
           d == Checksum(b)
<1>1. c \in Seq(Int) /\ Len(c) = 4 /\ d \in Seq(Int) /\ Len(d) = 4
  BY DEF LibraryLengths
<1>2. a \o c = b \o d
  BY DEF WithChecksum
<1> HIDE DEF c, d
<1>3. PICK m \in Nat, n \in Nat : m = Len(a) /\ n = Len(b)
  OBVIOUS
<1>4. Len(a \o c) = m + 4 /\ \A i \in 1 .. m : (a \o c)[i] = a[i]
  <2>1. 4 \in Nat /\ Len(a) = m
    BY <1>3
  <2>2. IsJoined(Int, a, c, m, 4, a \o c)
    BY <1>1, <2>1, Joined
  <2> QED
    BY <2>2 DEF IsJoined
<1>5. Len(b \o d) = n + 4 /\ \A i \in 1 .. n : (b \o d)[i] = b[i]
  <2>1. 4 \in Nat /\ Len(b) = n
    BY <1>3
  <2>2. IsJoined(Int, b, d, n, 4, b \o d)
    BY <1>1, <2>1, Joined
  <2> QED
    BY <2>2 DEF IsJoined
<1>6. m = n
  BY <1>2, <1>4, <1>5
<1>7. \A i \in 1 .. m : a[i] = b[i]
  BY <1>2, <1>4, <1>5, <1>6
<1>8. Len(a) = m /\ Len(b) = m
  BY <1>3, <1>6
<1> QED
  BY <1>7, <1>8, SameList

\* The hash in an address.
LEMMA HashOfAddress ==
    ASSUME LibraryLengths, NEW h \in Seq(Int), Len(h) = HashLen
    PROVE  SubSeq(WithChecksum(<<TestnetByte>> \o h), 2, 1 + HashLen) = h
<1> DEFINE b == <<TestnetByte>> \o h
           c == Checksum(b)
           a == b \o c
<1>1. PICK m \in Nat : m = HashLen
  BY LengthsAssumption
<1>2. b \in Seq(Int) /\ Len(b) = 1 + m /\ \A i \in 1 .. m : b[1 + i] = h[i]
  <2> DEFINE t == <<TestnetByte>>
  <2>1. t \in Seq(Int) /\ Len(t) = 1
    BY DEF TestnetByte
  <2> HIDE DEF t
  <2>2. t \o h \in Seq(Int) /\ Len(t \o h) = 1 + m /\ \A i \in 1 .. m : (t \o h)[1 + i] = h[i]
    <3>1. 1 \in Nat /\ Len(h) = m
      BY <1>1
    <3>2. IsJoined(Int, t, h, 1, m, t \o h)
      BY <2>1, <3>1, Joined
    <3> QED
      BY <3>2 DEF IsJoined
  <2> QED
    BY <2>2 DEF t
<1> HIDE DEF b
<1>3. c \in Seq(Int) /\ Len(c) = 4
  <2>1. b # <<>>
    BY <1>1, <1>2
  <2> QED
    BY <1>2, <2>1 DEF LibraryLengths
<1> HIDE DEF c
<1>4. a \in Seq(Int) /\ Len(a) = m + 5 /\ \A i \in 1 .. m : a[1 + i] = h[i]
  <2>1. a \in Seq(Int) /\ Len(a) = (1 + m) + 4 /\ \A i \in 1 .. 1 + m : a[i] = b[i]
    <3>1. 4 \in Nat /\ 1 + m \in Nat
      BY <1>1
    <3>2. IsJoined(Int, b, c, 1 + m, 4, b \o c)
      BY <1>2, <1>3, <3>1, Joined
    <3> QED
      BY <3>2 DEF IsJoined
  <2>2. \A i \in 1 .. m : 1 + i \in 1 .. 1 + m
    BY <1>1
  <2>3. (1 + m) + 4 = m + 5
    BY <1>1
  <2> QED
    BY <1>2, <2>1, <2>2, <2>3
<1> HIDE DEF a
<1>5. /\ SubSeq(a, 2, 1 + m) \in Seq(Int) /\ Len(SubSeq(a, 2, 1 + m)) = m
      /\ \A i \in 1 .. m : SubSeq(a, 2, 1 + m)[i] = a[1 + i]
  <2>1. 1 + m <= Len(a) /\ 1 \in Nat /\ 2 = 1 + 1
    BY <1>1, <1>4
  <2> QED
    <3>1. IsCut(Int, a, 1, m, SubSeq(a, 1 + 1, 1 + m))
      BY <1>1, <1>4, <2>1, CutOut
    <3> QED
      BY <2>1, <3>1 DEF IsCut
<1>6. SubSeq(a, 2, 1 + m) = h
  <2> DEFINE z == SubSeq(a, 2, 1 + m)
  <2>1. z \in Seq(Int) /\ Len(z) = m /\ \A i \in 1 .. m : z[i] = h[i]
    BY <1>4, <1>5
  <2> HIDE DEF z
  <2>2. z = h
    BY <1>1, <2>1, SameList
  <2> QED
    BY <2>2 DEF z
<1> QED
  BY <1>1, <1>6 DEF WithChecksum, a, b, c

\* The script of an address.
PayScript(h) == <<OP_DUP, OP_HASH160, HashLen>> \o h \o <<OP_EQUALVERIFY, OP_CHECKSIG>>
\* The bytes of the script that pays a hash.
LEMMA PayScriptIs ==
    ASSUME NEW h \in Seq(Int), NEW m \in Nat, m = HashLen, Len(h) = m
    PROVE  LET k == PayScript(h)
           IN /\ k \in Seq(Int) /\ Len(k) = m + 5 /\ k[1] = OP_DUP /\ k[2] = OP_HASH160 /\ k[3] = m
              /\ k[m + 4] = OP_EQUALVERIFY /\ k[m + 5] = OP_CHECKSIG
              /\ \A i \in 1 .. m : k[3 + i] = h[i]
<1> DEFINE k == PayScript(h)
<1> DEFINE p == <<OP_DUP, OP_HASH160, HashLen>>
           q == <<OP_EQUALVERIFY, OP_CHECKSIG>>
           r == p \o h
<1>1. p \in Seq(Int) /\ Len(p) = 3 /\ p[1] = OP_DUP /\ p[2] = OP_HASH160 /\ p[3] = m
  BY DEF OP_DUP, OP_HASH160
<1>2. q \in Seq(Int) /\ Len(q) = 2 /\ q[1] = OP_EQUALVERIFY /\ q[2] = OP_CHECKSIG
  BY DEF OP_EQUALVERIFY, OP_CHECKSIG
<1>3. k = r \o q
  BY DEF PayScript
<1> HIDE DEF p, q, k
<1>4. r \in Seq(Int) /\ Len(r) = 3 + m /\ r[1] = p[1] /\ r[2] = p[2] /\ r[3] = p[3] /\ \A i \in 1 .. m : r[3 + i] = h[i]
  <2>1. r \in Seq(Int) /\ Len(r) = 3 + m /\ (\A i \in 1 .. 3 : r[i] = p[i]) /\ \A i \in 1 .. m : r[3 + i] = h[i]
    <3>1. 3 \in Nat /\ Len(h) = m
      OBVIOUS
    <3>2. IsJoined(Int, p, h, 3, m, p \o h)
      BY <1>1, <3>1, Joined
    <3> QED
      BY <3>2 DEF IsJoined
  <2> QED
    BY <2>1
<1> HIDE DEF r
<1>5. /\ k \in Seq(Int) /\ Len(k) = m + 5 /\ k[m + 4] = q[1] /\ k[m + 5] = q[2]
      /\ \A i \in 1 .. 3 + m : k[i] = r[i]
  <2>1. /\ k \in Seq(Int) /\ Len(k) = (3 + m) + 2 /\ \A i \in 1 .. 3 + m : k[i] = r[i]
        /\ \A i \in 1 .. 2 : k[(3 + m) + i] = q[i]
    <3>1. 2 \in Nat /\ 3 + m \in Nat
      OBVIOUS
    <3>2. IsJoined(Int, r, q, 3 + m, 2, r \o q)
      BY <1>2, <1>4, <3>1, Joined
    <3> QED
      BY <1>3, <3>2 DEF IsJoined
  <2>2. (3 + m) + 2 = m + 5 /\ (3 + m) + 1 = m + 4
    OBVIOUS
  <2>3. k[(3 + m) + 1] = q[1] /\ k[(3 + m) + 2] = q[2]
    BY <2>1
  <2> QED
    BY <2>1, <2>2, <2>3
<1>6. \A i \in 1 .. m : 3 + i \in 1 .. 3 + m
  OBVIOUS
<1>7. 1 \in 1 .. 3 + m /\ 2 \in 1 .. 3 + m /\ 3 \in 1 .. 3 + m
  OBVIOUS
<1> QED
  BY <1>1, <1>2, <1>4, <1>5, <1>6, <1>7 DEF k

\* The address of an output is that of an account exactly if its script pays it.
LEMMA PaysIs ==
    ASSUME LibraryLengths, NEW script \in Seq(Int), Standard(script), NEW h \in Seq(Int), Len(h) = HashLen
    PROVE  LET a == WithChecksum(<<TestnetByte>> \o h)
           IN Pubkey_generate_address(script) = Ok(a) <=> script \in PayingScripts(a)
<1> DEFINE a == WithChecksum(<<TestnetByte>> \o h)
           k == <<OP_DUP, OP_HASH160, HashLen>> \o h \o <<OP_EQUALVERIFY, OP_CHECKSIG>>
           w == <<0, HashLen>> \o h
           of == CASE script[1] = 0 -> SubSeq(script, 3, Len(script))
                   [] script[1] = OP_DUP -> SubSeq(script, 4, Len(script) - 2)
                   [] OTHER -> <<>>
<1>1. PICK m \in Nat, n \in Nat : m = HashLen /\ n = Len(script) /\ m > 1
  BY LengthsAssumption
<1>2. PayingScripts(a) = {k, w}
  <2>1. SubSeq(a, 2, 1 + HashLen) = h
    BY HashOfAddress
  <2> HIDE DEF a
  <2> QED
    BY <2>1 DEF PayingScripts
<1>3. /\ k \in Seq(Int) /\ Len(k) = m + 5 /\ k[1] = OP_DUP /\ k[2] = OP_HASH160 /\ k[3] = m
      /\ k[m + 4] = OP_EQUALVERIFY /\ k[m + 5] = OP_CHECKSIG
      /\ \A i \in 1 .. m : k[3 + i] = h[i]
  <2>1. Len(h) = m
    BY <1>1
  <2> QED
    BY <1>1, <2>1, PayScriptIs DEF PayScript
<1>4. w \in Seq(Int) /\ Len(w) = m + 2 /\ w[1] = 0 /\ w[2] = m /\ \A i \in 1 .. m : w[2 + i] = h[i]
  <2> DEFINE p == <<0, HashLen>>
  <2>1. p \in Seq(Int) /\ Len(p) = 2 /\ p[1] = 0 /\ p[2] = m
    BY <1>1
  <2> HIDE DEF p
  <2>2. /\ p \o h \in Seq(Int) /\ Len(p \o h) = 2 + m /\ \A i \in 1 .. 2 : (p \o h)[i] = p[i]
        /\ \A i \in 1 .. m : (p \o h)[2 + i] = h[i]
    <3>1. 2 \in Nat /\ Len(h) = m
      BY <1>1
    <3>2. IsJoined(Int, p, h, 2, m, p \o h)
      BY <1>1, <2>1, <3>1, Joined
    <3> QED
      BY <3>2 DEF IsJoined
  <2>3. (p \o h)[1] = 0 /\ (p \o h)[2] = m
    BY <2>1, <2>2
  <2> QED
    BY <1>1, <2>2, <2>3 DEF p
<1>5. Pubkey_generate_address(script) = Ok(a) <=> n > 3 /\ ~(script[1] = OP_DUP /\ n = 4) /\ of = h
  <2> DEFINE g == WithChecksum(<<TestnetByte>> \o of)
  <2>1. of \in Seq(Int)
    BY <1>1
  <2>2. Pubkey_generate_address(script) = IF n <= 3 THEN Error ELSE IF script[1] = OP_DUP /\ n = 4 THEN Panic ELSE Ok(g)
    BY <1>1 DEF Pubkey_generate_address
  <2>3. Error # Ok(a) /\ Panic # Ok(a) /\ (Ok(g) = Ok(a) <=> g = a)
    <3> HIDE DEF g, a
    <3>1. Error.st = "err" /\ Panic.st = "panic" /\ Ok(a).st = "ok" /\ Ok(g).val = g /\ Ok(a).val = a
      BY DEF Error, Panic, Ok
    <3> QED
      BY <3>1
  <2>4. g = a <=> of = h
    <3> HIDE DEF of
    <3> DEFINE x == <<TestnetByte>> \o of
               y == <<TestnetByte>> \o h
    <3>1. x \in Seq(Int) \ {<<>>} /\ y \in Seq(Int) \ {<<>>}
      BY <2>1, VersionIs
    <3>2. ASSUME g = a PROVE x = y
      <4> HIDE DEF x, y
      <4>1. WithChecksum(x) = WithChecksum(y)
        BY <3>2 DEF x, y
      <4> QED
        BY <3>1, <4>1, ChecksumCancels
    <3>3. ASSUME x = y PROVE of = h
      <4> DEFINE t == <<TestnetByte>>
      <4>1. t \in Seq(Int) /\ Len(t) = 1
        BY DEF TestnetByte
      <4>2. t \o of = t \o h
        BY <3>3
      <4> HIDE DEF t, x, y
      <4>3. PICK u \in Nat, v \in Nat : u = Len(of) /\ v = Len(h)
        BY <2>1
      <4>4. Len(t \o of) = 1 + u /\ \A i \in 1 .. u : (t \o of)[1 + i] = of[i]
        <5>1. 1 \in Nat /\ Len(of) = u
          BY <4>3
        <5>2. IsJoined(Int, t, of, 1, u, t \o of)
          BY <2>1, <4>1, <5>1, Joined
        <5> QED
          BY <5>2 DEF IsJoined
      <4>5. Len(t \o h) = 1 + v /\ \A i \in 1 .. v : (t \o h)[1 + i] = h[i]
        <5>1. 1 \in Nat /\ Len(h) = v
          BY <4>3
        <5>2. IsJoined(Int, t, h, 1, v, t \o h)
          BY <2>1, <4>1, <5>1, Joined
        <5> QED
          BY <5>2 DEF IsJoined
      <4>6. u = v
        BY <4>2, <4>4, <4>5
      <4>7. \A i \in 1 .. v : of[i] = h[i]
        BY <4>2, <4>4, <4>5, <4>6
      <4> QED
        BY <2>1, <4>3, <4>6, <4>7, SameList
    <3> QED
      BY <3>2, <3>3
  <2> HIDE DEF g, of, a
  <2> QED
    BY <1>1, <2>2, <2>3, <2>4
<1> HIDE DEF a, k, w
<1>6. ASSUME n > 3, ~(script[1] = OP_DUP /\ n = 4), of = h PROVE script = k \/ script = w
  <2>1. CASE script[1] = 0
    <3>1. of = SubSeq(script, 3, n)
      BY <1>1, <2>1 DEF OP_DUP
    <3> HIDE DEF of
    <3>2. Len(h) = n - 2 /\ \A i \in 1 .. n - 2 : h[i] = script[2 + i]
      <4>1. PICK j \in Nat : j = n - 2 /\ 2 + j = n
        BY <1>1, <1>6
      <4>2. 2 + j <= Len(script) /\ 2 \in Nat /\ 3 = 2 + 1
        BY <1>1, <4>1
      <4>3. IsCut(Int, script, 2, j, SubSeq(script, 2 + 1, 2 + j))
        BY <4>1, <4>2, CutOut
      <4>4. IsCut(Int, script, 2, j, h)
        BY <1>6, <3>1, <4>1, <4>2, <4>3
      <4> QED
        BY <4>1, <4>4 DEF IsCut
    <3>3. n = m + 2 /\ script[2] = m
      BY <1>1, <1>6, <2>1, <3>2 DEF Standard
    <3>4. \A i \in 1 .. m + 2 : script[i] = w[i]
      <4>1. \A i \in 1 .. m + 2 : i = 1 \/ i = 2 \/ (i - 2 \in 1 .. m /\ 2 + (i - 2) = i)
        OBVIOUS
      <4>2. ASSUME NEW j \in 1 .. m PROVE script[2 + j] = w[2 + j]
        <5>1. w[2 + j] = h[j]
          BY <1>4
        <5>2. j \in 1 .. n - 2
          BY <1>1, <3>3
        <5>3. h[j] = script[2 + j]
          BY <5>2, <3>2
        <5> QED
          BY <5>1, <5>3
      <4>3. script[1] = w[1] /\ script[2] = w[2]
        BY <1>4, <2>1, <3>3
      <4> TAKE i \in 1 .. m + 2
      <4>4. CASE i = 1 \/ i = 2
        BY <4>3, <4>4
      <4>5. CASE i - 2 \in 1 .. m /\ 2 + (i - 2) = i
        <5>1. script[2 + (i - 2)] = w[2 + (i - 2)]
          BY <4>2, <4>5
        <5> QED
          BY <4>5, <5>1
      <4> QED
        BY <4>1, <4>4, <4>5
    <3>5. script = w
      <4>1. Len(script) = m + 2
        BY <1>1, <3>3
      <4> QED
        BY <1>4, <3>4, <4>1, SameList
    <3> QED
      BY <3>5
  <2>2. CASE script[1] = OP_DUP
    <3>1. of = SubSeq(script, 4, n - 2)
      BY <1>1, <2>2 DEF OP_DUP
    <3> HIDE DEF of
    <3>a. n \in Nat
      BY <1>1
    <3>2. n >= 5
      <4>1. n > 3 /\ n # 4
        BY <1>6, <2>2
      <4> QED
        BY <3>a, <4>1
    <3>3. Len(h) = n - 5 /\ \A i \in 1 .. n - 5 : h[i] = script[3 + i]
      <4>1. PICK j \in Nat : j = n - 5 /\ 3 + j = n - 2
        BY <3>a, <3>2
      <4>2. 3 + j <= Len(script) /\ 3 \in Nat /\ 4 = 3 + 1
        BY <1>1, <4>1
      <4>3. IsCut(Int, script, 3, j, SubSeq(script, 3 + 1, 3 + j))
        BY <4>1, <4>2, CutOut
      <4>4. IsCut(Int, script, 3, j, h)
        BY <1>6, <3>1, <4>1, <4>2, <4>3
      <4> QED
        BY <4>1, <4>4 DEF IsCut
    <3>4. /\ n = m + 5 /\ script[2] = OP_HASH160 /\ script[3] = m /\ script[m + 4] = OP_EQUALVERIFY
          /\ script[m + 5] = OP_CHECKSIG
      <4>1. n = m + 5
        BY <1>1, <3>3
      <4>2. n - 1 = m + 4 /\ n = m + 5 /\ n - 5 = m
        BY <4>1
      <4>3. script[2] = OP_HASH160 /\ script[3] = n - 5 /\ script[n - 1] = OP_EQUALVERIFY /\ script[n] = OP_CHECKSIG
        BY <1>1, <1>6, <2>2 DEF Standard
      <4> QED
        BY <4>2, <4>3
    <3>5. \A i \in 1 .. m + 5 : script[i] = k[i]
      <4>1. \A i \in 1 .. m + 5 : i \in {1, 2, 3} \/ i = m + 4 \/ i = m + 5 \/ (i - 3 \in 1 .. m /\ 3 + (i - 3) = i)
        OBVIOUS
      <4>2. ASSUME NEW j \in 1 .. m PROVE script[3 + j] = k[3 + j]
        <5>1. k[3 + j] = h[j]
          BY <1>3
        <5>2. j \in 1 .. n - 5
          BY <1>1, <3>4
        <5>3. h[j] = script[3 + j]
          BY <5>2, <3>3
        <5> QED
          BY <5>1, <5>3
      <4>3. /\ script[1] = k[1] /\ script[2] = k[2] /\ script[3] = k[3]
            /\ script[m + 4] = k[m + 4] /\ script[m + 5] = k[m + 5]
        BY <1>3, <2>2, <3>4
      <4> TAKE i \in 1 .. m + 5
      <4>4. CASE i \in {1, 2, 3} \/ i = m + 4 \/ i = m + 5
        BY <4>3, <4>4
      <4>5. CASE i - 3 \in 1 .. m /\ 3 + (i - 3) = i
        <5>1. script[3 + (i - 3)] = k[3 + (i - 3)]
          BY <4>2, <4>5
        <5> QED
          BY <4>5, <5>1
      <4> QED
        BY <4>1, <4>4, <4>5
    <3>6. script = k
      <4>1. Len(script) = m + 5
        BY <1>1, <3>4
      <4> QED
        BY <1>3, <3>5, <4>1, SameList
    <3> QED
      BY <3>6
  <2>3. CASE script[1] # 0 /\ script[1] # OP_DUP
    <3>1. of = <<>>
      BY <2>3
    <3>2. Len(of) = 0
      BY <3>1
    <3> HIDE DEF of
    <3> QED
      BY <1>1, <1>6, <3>2
  <2> QED
    BY <2>1, <2>2, <2>3
<1>7. ASSUME script = w PROVE n > 3 /\ ~(script[1] = OP_DUP /\ n = 4) /\ of = h
  <2>1. n = m + 2 /\ script[1] = 0 /\ \A i \in 1 .. m : script[2 + i] = h[i]
    BY <1>1, <1>4, <1>7
  <2>2. of = SubSeq(script, 3, n) /\ script[1] # OP_DUP
    BY <1>1, <2>1 DEF OP_DUP
  <2>3. SubSeq(script, 3, n) = h
    <3> DEFINE z == SubSeq(script, 3, n)
    <3>1. z \in Seq(Int) /\ Len(z) = m /\ \A i \in 1 .. m : z[i] = script[2 + i]
      <4>1. n = 2 + m /\ 2 + m <= Len(script) /\ 2 \in Nat /\ 3 = 2 + 1
        BY <1>1, <2>1
      <4>2. IsCut(Int, script, 2, m, SubSeq(script, 2 + 1, 2 + m))
        BY <1>1, <4>1, CutOut
      <4>3. IsCut(Int, script, 2, m, z)
        BY <4>1, <4>2
      <4> QED
        BY <4>3 DEF IsCut
    <3> HIDE DEF z
    <3>2. Len(h) = m /\ \A i \in 1 .. m : z[i] = h[i]
      BY <1>1, <2>1, <3>1
    <3>3. z = h
      BY <3>1, <3>2, SameList
    <3> QED
      BY <3>3 DEF z
  <2> HIDE DEF of
  <2> QED
    BY <1>1, <2>1, <2>2, <2>3
<1>8. ASSUME script = k PROVE n > 3 /\ ~(script[1] = OP_DUP /\ n = 4) /\ of = h
  <2>1. n = m + 5 /\ script[1] = OP_DUP /\ \A i \in 1 .. m : script[3 + i] = h[i]
    BY <1>1, <1>3, <1>8
  <2>2. of = SubSeq(script, 4, n - 2)
    BY <1>1, <2>1 DEF OP_DUP
  <2>3. SubSeq(script, 4, n - 2) = h
    <3> DEFINE z == SubSeq(script, 4, n - 2)
    <3>1. z \in Seq(Int) /\ Len(z) = m /\ \A i \in 1 .. m : z[i] = script[3 + i]
      <4>1. n - 2 = 3 + m /\ 3 + m <= Len(script) /\ 3 \in Nat /\ 4 = 3 + 1
        BY <1>1, <2>1
      <4>2. IsCut(Int, script, 3, m, SubSeq(script, 3 + 1, 3 + m))
        BY <1>1, <4>1, CutOut
      <4>3. IsCut(Int, script, 3, m, z)
        BY <4>1, <4>2
      <4> QED
        BY <4>3 DEF IsCut
    <3> HIDE DEF z
    <3>2. Len(h) = m /\ \A i \in 1 .. m : z[i] = h[i]
      BY <1>1, <2>1, <3>1
    <3>3. z = h
      BY <3>1, <3>2, SameList
    <3> QED
      BY <3>3 DEF z
  <2> HIDE DEF of
  <2> QED
    BY <1>1, <2>1, <2>2, <2>3
<1> HIDE DEF of
<1>9. Pubkey_generate_address(script) = Ok(a) <=> script \in PayingScripts(a)
  BY <1>2, <1>5, <1>6, <1>7, <1>8
<1> QED
  BY <1>9 DEF a

(***************************************************************************)
(* Transactions and coins.                                                 *)
(***************************************************************************)
\* Outputs whose script is standard, and transactions with such outputs.
TxOut == [value : Int, script : Seq(Int)]
GoodOut == {out \in TxOut : Standard(out.script)}
GoodTx(tx) == IsList(tx.ins) /\ tx.outs \in Seq(GoodOut)

\* Tuples whose outputs have different indices, and sets of them with
\* different hashes.
Entry == [out : GoodOut, index : Nat]
IsTuple(t) == t \in [hash : {t.hash}, utxo_set : Seq(Entry)] /\ Different(t.utxo_set)
GoodCoins(S) ==
    /\ IsFiniteSet(S) /\ \A t \in S : IsTuple(t)
    /\ \A t, u \in S : t.hash = u.hash => t = u

\* A coin of a set of tuples.
LEMMA CoinIs ==
    ASSUME NEW S, NEW c
    PROVE  c \in Coins(S) <=> \E t \in S : \E u \in Range(t.utxo_set) : c = [hash |-> t.hash, index |-> u.index]
BY DEF Coins

\* The elements of a list, and the empty list.
LEMMA RangeIs ==
    ASSUME NEW S, NEW s \in Seq(S)
    PROVE  Range(s) \subseteq S /\ (s = <<>> <=> Range(s) = {})
<1>1. PICK N \in Nat : N = Len(s) /\ DOMAIN s = 1 .. N /\ \A i \in 1 .. N : s[i] \in S
  OBVIOUS
<1>2. Range(s) = {s[i] : i \in 1 .. N}
  BY <1>1 DEF Range
<1>3. s = <<>> => N = 0
  BY <1>1
<1>4. N = 0 => s = <<>>
  BY <1>1
<1>5. N # 0 => s[1] \in Range(s)
  BY <1>2
<1>6. N = 0 => Range(s) = {}
  BY <1>2
<1> QED
  BY <1>1, <1>2, <1>3, <1>4, <1>5, <1>6

\* The values of a function on a finite set.
LEMMA FiniteImage ==
    ASSUME NEW S, IsFiniteSet(S), NEW f, DOMAIN f = S
    PROVE  IsFiniteSet({f[x] : x \in S})
<1> DEFINE T == {f[x] : x \in S}
           g == [x \in S |-> f[x]]
<1>1. g \in [S -> T]
  OBVIOUS
<1>2. \A y \in T : \E x \in S : g[x] = y
  OBVIOUS
<1> HIDE DEF g, T
<1>3. g \in Surjection(S, T)
  BY <1>1, <1>2 DEF Surjection
<1>4. IsFiniteSet(T)
  BY <1>3, FS_Surjection
<1> QED
  BY <1>4 DEF T

\* Part of the outputs of a tuple.
LEMMA PartOfTuple ==
    ASSUME NEW t, IsTuple(t), NEW P
    PROVE  LET part == [t EXCEPT !.utxo_set = Keep(@, P)]
           IN /\ IsTuple(part) /\ part.hash = t.hash
              /\ Range(part.utxo_set) = Range(t.utxo_set) \cap P
<1>1. t \in [hash : {t.hash}, utxo_set : Seq(Entry)] /\ Different(t.utxo_set)
  BY DEF IsTuple
<1> DEFINE k == Keep(t.utxo_set, P)
           part == [t EXCEPT !.utxo_set = k]
<1>2. k \in Seq(Entry) /\ Range(k) = Range(t.utxo_set) \cap P
  BY <1>1, KeepIs
<1>3. Different(k)
  BY <1>1, KeepDifferent
<1> HIDE DEF k
<1>4. part \in [hash : {t.hash}, utxo_set : Seq(Entry)] /\ part.hash = t.hash /\ part.utxo_set = k
  BY <1>1, <1>2
<1> HIDE DEF part
<1>5. IsTuple(part)
  BY <1>2, <1>3, <1>4 DEF IsTuple
<1> QED
  BY <1>2, <1>4, <1>5 DEF part, k

\* The coins of an account.
LEMMA ReferencedIs ==
    ASSUME NEW S, GoodCoins(S), NEW address
    PROVE  LET R == utxos_referenced_to_account(S, address)
           IN /\ GoodCoins(R)
              /\ \A t \in R : t.utxo_set # <<>>
              /\ \A c : c \in Coins(R) <=>
                    \E t \in S : \E u \in Range(t.utxo_set) :
                        get_address(u.out) = Ok(address) /\ c = [hash |-> t.hash, index |-> u.index]
<1> DEFINE r(t) == referenced_utxos(t, address)
           Q == {r(t) : t \in S}
           R == {t \in Q : t.utxo_set # <<>>}
<1>1. ASSUME NEW t \in S
      PROVE  /\ IsTuple(r(t)) /\ r(t).hash = t.hash
             /\ Range(r(t).utxo_set) = {u \in Range(t.utxo_set) : get_address(u.out) = Ok(address)}
  <2> DEFINE P == {u \in Range(t.utxo_set) : get_address(u.out) = Ok(address)}
  <2>1. IsTuple(t)
    BY DEF GoodCoins
  <2>2. t \in [hash : {t.hash}, utxo_set : Seq(Entry)]
    BY <2>1 DEF IsTuple
  <2>3. r(t) = [t EXCEPT !.utxo_set = Keep(@, P)]
    BY <2>2 DEF referenced_utxos
  <2>4. Range(t.utxo_set) \cap P = P
    OBVIOUS
  <2> HIDE DEF P
  <2> DEFINE part == [t EXCEPT !.utxo_set = Keep(@, P)]
  <2>5. IsTuple(part) /\ part.hash = t.hash /\ Range(part.utxo_set) = Range(t.utxo_set) \cap P
    BY <2>1, PartOfTuple
  <2> HIDE DEF r, part
  <2>6. r(t) = part
    BY <2>3 DEF part
  <2> QED
    BY <2>4, <2>5, <2>6 DEF P
<1>2. R = utxos_referenced_to_account(S, address)
  BY DEF utxos_referenced_to_account
<1> HIDE DEF r
<1>3. IsFiniteSet(Q) /\ R \subseteq Q
  <2> DEFINE f == [t \in S |-> r(t)]
  <2>1. Q = {f[t] : t \in S}
    OBVIOUS
  <2>2. DOMAIN f = S
    OBVIOUS
  <2> HIDE DEF f, Q
  <2>3. IsFiniteSet(Q)
    BY <2>1, <2>2, FiniteImage DEF GoodCoins
  <2> QED
    BY <2>3
<1>4. IsFiniteSet(R)
  BY <1>3, FS_Subset
<1>5. ASSUME NEW q \in R PROVE \E t \in S : q = r(t) /\ q.utxo_set # <<>>
  OBVIOUS
<1>6. \A q \in R : IsTuple(q)
  BY <1>1, <1>5
<1>7. \A p, q \in R : p.hash = q.hash => p = q
  <2> TAKE p, q \in R
  <2>1. PICK t \in S, u \in S : p = r(t) /\ q = r(u)
    BY <1>5
  <2>2. p.hash = t.hash /\ q.hash = u.hash
    BY <1>1, <2>1
  <2>3. t.hash = u.hash => t = u
    BY DEF GoodCoins
  <2> QED
    BY <2>1, <2>2, <2>3
<1>8. ASSUME NEW c
      PROVE  c \in Coins(R) <=>
                    \E t \in S : \E u \in Range(t.utxo_set) :
                        get_address(u.out) = Ok(address) /\ c = [hash |-> t.hash, index |-> u.index]
  <2>1. c \in Coins(R) <=> \E q \in R : \E u \in Range(q.utxo_set) : c = [hash |-> q.hash, index |-> u.index]
    BY CoinIs
  <2>2. ASSUME NEW q \in R, NEW u \in Range(q.utxo_set), c = [hash |-> q.hash, index |-> u.index]
        PROVE  \E t \in S : \E v \in Range(t.utxo_set) :
                        get_address(v.out) = Ok(address) /\ c = [hash |-> t.hash, index |-> v.index]
    <3>1. PICK t \in S : q = r(t)
      BY <1>5
    <3>2. q.hash = t.hash /\ u \in Range(t.utxo_set) /\ get_address(u.out) = Ok(address)
      BY <1>1, <3>1
    <3> QED
      BY <2>2, <3>2
  <2>3. ASSUME NEW t \in S, NEW u \in Range(t.utxo_set), get_address(u.out) = Ok(address), c = [hash |-> t.hash, index |-> u.index]
        PROVE  \E q \in R : \E v \in Range(q.utxo_set) : c = [hash |-> q.hash, index |-> v.index]
    <3>1. r(t).hash = t.hash /\ u \in Range(r(t).utxo_set) /\ IsTuple(r(t))
      BY <1>1, <2>3
    <3>2. r(t).utxo_set \in Seq(Entry)
      BY <3>1 DEF IsTuple
    <3>3. r(t).utxo_set # <<>>
      BY <3>1, <3>2, RangeIs
    <3>4. r(t) \in R
      BY <3>3
    <3> QED
      BY <2>3, <3>1, <3>4
  <2> QED
    BY <2>1, <2>2, <2>3
<1> HIDE DEF R
<1>9. GoodCoins(R)
  BY <1>4, <1>6, <1>7 DEF GoodCoins
<1>10. \A t \in R : t.utxo_set # <<>>
  BY DEF R
<1> QED
  BY <1>2, <1>8, <1>9, <1>10

\* They are those whose scripts pay its address.
LEMMA PayingIs ==
    ASSUME LibraryLengths, GoodCoins(utxo_set), NEW k \in Keys
    PROVE  Coins(utxos_referenced_to_account(utxo_set, generate_address(k))) = CoinsPaying(generate_address(k))
<1> DEFINE h == hash_160(public_key(k))
           a == generate_address(k)
           R == utxos_referenced_to_account(utxo_set, a)
<1>1. h \in Seq(Int) /\ Len(h) = HashLen /\ a = WithChecksum(<<TestnetByte>> \o h)
  BY DEF LibraryLengths, generate_address
<1>2. ASSUME NEW t \in utxo_set, NEW u \in Range(t.utxo_set)
      PROVE  get_address(u.out) = Ok(a) <=> u.out.script \in PayingScripts(a)
  <2>1. t.utxo_set \in Seq(Entry)
    BY DEF GoodCoins, IsTuple
  <2>2. u \in Entry
    BY <2>1, RangeIs
  <2>3. u.out.script \in Seq(Int) /\ Standard(u.out.script)
    BY <2>2 DEF Entry, GoodOut, TxOut
  <2> HIDE DEF h, a
  <2>4. Pubkey_generate_address(u.out.script) = Ok(a) <=> u.out.script \in PayingScripts(a)
    BY <1>1, <2>3, PaysIs
  <2> QED
    BY <2>4 DEF get_address
<1> HIDE DEF h, a
<1>3. \A c : c \in Coins(R) <=>
                    \E t \in utxo_set : \E u \in Range(t.utxo_set) :
                        get_address(u.out) = Ok(a) /\ c = [hash |-> t.hash, index |-> u.index]
  BY ReferencedIs
<1> HIDE DEF R
<1>4. \A c : c \in CoinsPaying(a) <=>
                    \E t \in utxo_set : \E u \in Range(t.utxo_set) :
                        u.out.script \in PayingScripts(a) /\ c = [hash |-> t.hash, index |-> u.index]
  BY DEF CoinsPaying
<1>5. \A c : c \in Coins(R) <=> c \in CoinsPaying(a)
  BY <1>2, <1>3, <1>4
<1>6. Coins(R) = CoinsPaying(a)
  BY <1>5
<1> QED
  BY <1>6 DEF R, a

\* The coins that a transaction spends are removed.
LEMMA RemoveIs ==
    ASSUME NEW S, GoodCoins(S), NEW tx
    PROVE  LET R == remove_utxos(S, tx)
           IN /\ GoodCoins(R)
              /\ \A q \in R : \E t \in S : q.hash = t.hash
              /\ \A c : c \in Coins(R) <=> c \in Coins(S) /\ c \notin CoinsSpentBy(tx)
<1> DEFINE r(t) == remove_utxo(t, IndicesSpent(tx, t.hash))
           R == {r(t) : t \in S}
<1>1. ASSUME NEW t \in S
      PROVE  /\ IsTuple(r(t)) /\ r(t).hash = t.hash
             /\ Range(r(t).utxo_set) = {u \in Range(t.utxo_set) : u.index \notin IndicesSpent(tx, t.hash)}
  <2> DEFINE P == {u \in Range(t.utxo_set) : u.index \notin IndicesSpent(tx, t.hash)}
  <2>1. IsTuple(t)
    BY DEF GoodCoins
  <2>2. t \in [hash : {t.hash}, utxo_set : Seq(Entry)]
    BY <2>1 DEF IsTuple
  <2>3. r(t) = [t EXCEPT !.utxo_set = Keep(@, P)]
    BY <2>2 DEF remove_utxo
  <2>4. Range(t.utxo_set) \cap P = P
    OBVIOUS
  <2> HIDE DEF P
  <2> DEFINE part == [t EXCEPT !.utxo_set = Keep(@, P)]
  <2>5. IsTuple(part) /\ part.hash = t.hash /\ Range(part.utxo_set) = Range(t.utxo_set) \cap P
    BY <2>1, PartOfTuple
  <2> HIDE DEF r, part
  <2>6. r(t) = part
    BY <2>3 DEF part
  <2> QED
    BY <2>4, <2>5, <2>6 DEF P
<1>2. R = remove_utxos(S, tx)
  BY DEF remove_utxos
<1> HIDE DEF r
<1>3. IsFiniteSet(R)
  <2> DEFINE f == [t \in S |-> r(t)]
  <2>1. R = {f[t] : t \in S}
    OBVIOUS
  <2>2. DOMAIN f = S
    OBVIOUS
  <2> HIDE DEF f, R
  <2> QED
    BY <2>1, <2>2, FiniteImage DEF GoodCoins
<1>4. ASSUME NEW q \in R PROVE \E t \in S : q = r(t)
  OBVIOUS
<1>5. \A q \in R : IsTuple(q) /\ \E t \in S : q.hash = t.hash
  BY <1>1, <1>4
<1>6. \A p, q \in R : p.hash = q.hash => p = q
  <2> TAKE p, q \in R
  <2>1. PICK t \in S, u \in S : p = r(t) /\ q = r(u)
    BY <1>4
  <2>2. p.hash = t.hash /\ q.hash = u.hash
    BY <1>1, <2>1
  <2>3. t.hash = u.hash => t = u
    BY DEF GoodCoins
  <2> QED
    BY <2>1, <2>2, <2>3
<1>7. ASSUME NEW t, NEW u
      PROVE  u.index \in IndicesSpent(tx, t.hash) <=> [hash |-> t.hash, index |-> u.index] \in CoinsSpentBy(tx)
  <2> DEFINE c == [hash |-> t.hash, index |-> u.index]
  <2>1. u.index \in IndicesSpent(tx, t.hash) <=> \E in \in Range(tx.ins) : in.hash = t.hash /\ in.index = u.index
    BY DEF IndicesSpent
  <2>2. c \in CoinsSpentBy(tx) <=> \E in \in Range(tx.ins) : c = [hash |-> in.hash, index |-> in.index]
    BY DEF CoinsSpentBy, Coin
  <2>3. \A in : c = [hash |-> in.hash, index |-> in.index] <=> in.hash = t.hash /\ in.index = u.index
    <3> TAKE in
    <3>1. c.hash = t.hash /\ c.index = u.index
      OBVIOUS
    <3>2. [hash |-> in.hash, index |-> in.index].hash = in.hash /\ [hash |-> in.hash, index |-> in.index].index = in.index
      OBVIOUS
    <3>3. in.hash = t.hash /\ in.index = u.index => c = [hash |-> in.hash, index |-> in.index]
      OBVIOUS
    <3> QED
      BY <3>1, <3>2, <3>3
  <2> QED
    BY <2>1, <2>2, <2>3
<1>8. ASSUME NEW c
      PROVE  c \in Coins(R) <=> c \in Coins(S) /\ c \notin CoinsSpentBy(tx)
  <2>1. c \in Coins(R) <=> \E q \in R : \E u \in Range(q.utxo_set) : c = [hash |-> q.hash, index |-> u.index]
    BY CoinIs
  <2>2. c \in Coins(S) <=> \E q \in S : \E u \in Range(q.utxo_set) : c = [hash |-> q.hash, index |-> u.index]
    BY CoinIs
  <2>3. ASSUME NEW q \in R, NEW u \in Range(q.utxo_set), c = [hash |-> q.hash, index |-> u.index]
        PROVE  c \in Coins(S) /\ c \notin CoinsSpentBy(tx)
    <3>1. PICK t \in S : q = r(t)
      BY <1>4
    <3>2. q.hash = t.hash /\ u \in Range(t.utxo_set) /\ u.index \notin IndicesSpent(tx, t.hash)
      BY <1>1, <3>1
    <3>3. c = [hash |-> t.hash, index |-> u.index]
      BY <2>3, <3>2
    <3> QED
      BY <1>7, <2>2, <3>2, <3>3
  <2>4. ASSUME NEW t \in S, NEW u \in Range(t.utxo_set), c = [hash |-> t.hash, index |-> u.index], c \notin CoinsSpentBy(tx)
        PROVE  c \in Coins(R)
    <3>1. u.index \notin IndicesSpent(tx, t.hash)
      BY <1>7, <2>4
    <3>2. r(t) \in R /\ r(t).hash = t.hash /\ u \in Range(r(t).utxo_set)
      BY <1>1, <3>1
    <3> QED
      BY <2>1, <2>4, <3>2
  <2> QED
    BY <2>1, <2>2, <2>3, <2>4
<1> HIDE DEF R
<1>9. GoodCoins(R)
  BY <1>3, <1>5, <1>6 DEF GoodCoins
<1> QED
  BY <1>2, <1>5, <1>8, <1>9

\* The outputs of a transaction are added.
LEMMA LoadIs ==
    ASSUME NEW S, GoodCoins(S), NEW tx, GoodTx(tx)
    PROVE  LET R == load_utxos(S, tx)
           IN /\ GoodCoins(R)
              /\ \A q \in R : q.hash = tx \/ \E t \in S : q.hash = t.hash
              /\ \A c : c \in Coins(R) =>
                    \/ c \in Coins(S) /\ c.hash # tx
                    \/ c.hash = tx
<1> DEFINE outs == tx.outs
           new == [i \in DOMAIN outs |-> [out |-> outs[i], index |-> i]]
           tuple == [hash |-> tx, utxo_set |-> new]
           old == {t \in S : t.hash # tx}
           R == old \cup {tuple}
<1>1. outs \in Seq(GoodOut)
  BY DEF GoodTx
<1> HIDE DEF outs
<1>2. PICK N \in Nat : N = Len(outs) /\ DOMAIN outs = 1 .. N /\ \A i \in 1 .. N : outs[i] \in GoodOut
  BY <1>1
<1>3. \A i \in 1 .. N : [out |-> outs[i], index |-> i] \in Entry
  BY <1>2 DEF Entry
<1>4. new \in Seq(Entry) /\ DOMAIN new = 1 .. N
  <2>1. new \in [1 .. N -> Entry]
    BY <1>2, <1>3
  <2> HIDE DEF new
  <2> QED
    BY <2>1
<1>5. Different(new)
  BY <1>2 DEF Different
<1> HIDE DEF new
<1>6. tuple.hash = tx /\ tuple.utxo_set = new /\ tuple \in [hash : {tx}, utxo_set : Seq(Entry)]
  BY <1>4
<1> HIDE DEF tuple
<1>7. IsTuple(tuple)
  BY <1>5, <1>6 DEF IsTuple
<1>8. R = load_utxos(S, tx)
  BY DEF load_utxos, tuple, new, outs
<1>9. IsFiniteSet(R)
  <2>1. IsFiniteSet(old)
    BY FS_Subset DEF GoodCoins
  <2> QED
    BY <2>1, FS_AddElement
<1>10. \A q \in R : IsTuple(q) /\ (q = tuple \/ (q \in S /\ q.hash # tx))
  BY <1>7 DEF GoodCoins
<1>11. \A p, q \in R : p.hash = q.hash => p = q
  BY <1>6, <1>10 DEF GoodCoins
<1>12. \A q \in R : q.hash = tx \/ \E t \in S : q.hash = t.hash
  BY <1>6, <1>10
<1> HIDE DEF R
<1>13. ASSUME NEW c, c \in Coins(R)
       PROVE  (c \in Coins(S) /\ c.hash # tx) \/ c.hash = tx
  <2>1. PICK q \in R : \E u \in Range(q.utxo_set) : c = [hash |-> q.hash, index |-> u.index]
    BY <1>13, CoinIs
  <2>2. c.hash = q.hash
    BY <2>1
  <2>3. CASE q = tuple
    BY <1>6, <2>2, <2>3
  <2>4. CASE q \in S /\ q.hash # tx
    <3>1. c \in Coins(S)
      BY <2>1, <2>4, CoinIs
    <3> QED
      BY <2>2, <2>4, <3>1
  <2> QED
    BY <1>10, <2>3, <2>4
<1>14. GoodCoins(R)
  BY <1>9, <1>10, <1>11 DEF GoodCoins
<1> QED
  BY <1>8, <1>12, <1>13, <1>14

\* The coins after one transaction.
Applying(S, tx) == load_utxos(remove_utxos(S, tx), tx)

\* What is known of the coins U that were S before the transactions of txs.
FromBefore(S, U, txs) ==
    /\ GoodCoins(U)
    /\ \A t \in U : t.hash \in txs \/ \E s \in S : t.hash = s.hash
    /\ \A c \in Coins(U) : c.hash \in txs \/ (c \in Coins(S) /\ \A tx \in txs : c \notin CoinsSpentBy(tx))

\* One more transaction of a block is applied.
LEMMA ApplyingIs ==
    ASSUME NEW S, NEW U, NEW txs, FromBefore(S, U, txs), NEW tx, GoodTx(tx)
    PROVE  FromBefore(S, Applying(U, tx), txs \cup {tx})
<1> DEFINE M == remove_utxos(U, tx)
           R == load_utxos(M, tx)
<1>1. /\ GoodCoins(M) /\ \A q \in M : \E t \in U : q.hash = t.hash
      /\ \A c : c \in Coins(M) <=> c \in Coins(U) /\ c \notin CoinsSpentBy(tx)
  BY RemoveIs DEF FromBefore
<1> HIDE DEF M
<1>2. /\ GoodCoins(R) /\ \A q \in R : q.hash = tx \/ \E t \in M : q.hash = t.hash
      /\ \A c : c \in Coins(R) => (c \in Coins(M) /\ c.hash # tx) \/ c.hash = tx
  BY <1>1, LoadIs
<1> HIDE DEF R
<1>3. \A t \in R : t.hash \in txs \cup {tx} \/ \E s \in S : t.hash = s.hash
  <2> TAKE q \in R
  <2>1. CASE q.hash = tx
    BY <2>1
  <2>2. CASE \E t \in M : q.hash = t.hash
    <3>1. PICK t \in U : q.hash = t.hash
      BY <1>1, <2>2
    <3>2. t.hash \in txs \/ \E s \in S : t.hash = s.hash
      BY DEF FromBefore
    <3> QED
      BY <3>1, <3>2
  <2> QED
    BY <1>2, <2>1, <2>2
<1>4. ASSUME NEW c \in Coins(R)
      PROVE  c.hash \in txs \cup {tx} \/ (c \in Coins(S) /\ \A x \in txs \cup {tx} : c \notin CoinsSpentBy(x))
  <2>1. CASE c.hash = tx
    BY <2>1
  <2>2. CASE c \in Coins(M)
    <3>1. c \in Coins(U) /\ c \notin CoinsSpentBy(tx)
      BY <1>1, <2>2
    <3>2. c.hash \in txs \/ (c \in Coins(S) /\ \A x \in txs : c \notin CoinsSpentBy(x))
      BY <3>1 DEF FromBefore
    <3> QED
      BY <3>1, <3>2
  <2> QED
    BY <1>2, <2>1, <2>2
<1>5. FromBefore(S, R, txs \cup {tx})
  BY <1>2, <1>3, <1>4 DEF FromBefore
<1> QED
  BY <1>5 DEF Applying, R, M

\* Tuples of certain hashes.
TuplesOf(H) == SUBSET [hash : H, utxo_set : Seq(Entry)]
\* Coins by the hashes of their transactions.
LEMMA TuplesAre ==
    ASSUME NEW H, NEW S, GoodCoins(S), \A t \in S : t.hash \in H
    PROVE  S \in TuplesOf(H)
<1>1. ASSUME NEW t \in S PROVE t \in [hash : H, utxo_set : Seq(Entry)]
  <2>1. t \in [hash : {t.hash}, utxo_set : Seq(Entry)] /\ t.hash \in H
    BY DEF GoodCoins, IsTuple
  <2> QED
    BY <2>1
<1> QED
  BY <1>1 DEF TuplesOf

\* The function that UtxosAfter defines exists.
LEMMA AfterIs ==
    ASSUME GoodCoins(utxo_set), NEW txs, IsList(txs), \A k \in DOMAIN txs : GoodTx(txs[k])
    PROVE  FromBefore(utxo_set, UtxosAfter(txs), Range(txs))
<1> DEFINE N == Len(txs)
           H == {t.hash : t \in utxo_set} \cup Range(txs)
           V == {S \in TuplesOf(H) : GoodCoins(S)}
           g == [p \in (1 .. N) \X V |-> Applying(p[2], txs[p[1]])]
           Body(f) == [k \in 0 .. N |-> IF k = 0 THEN utxo_set ELSE Applying(f[k - 1], txs[k])]
<1>0. N \in Nat /\ DOMAIN txs = 1 .. N /\ \A k \in 1 .. N : GoodTx(txs[k]) /\ txs[k] \in H /\ txs[k] \in Range(txs)
  <2>1. N \in Nat /\ DOMAIN txs = 1 .. N
    BY DEF IsList
  <2>2. \A k \in 1 .. N : txs[k] \in Range(txs)
    BY <2>1 DEF Range
  <2> QED
    BY <2>1, <2>2
<1>1. utxo_set \in V
  <2>1. \A t \in utxo_set : t.hash \in H
    OBVIOUS
  <2> HIDE DEF H
  <2> QED
    BY <2>1, TuplesAre
<1>2. ASSUME NEW S \in V, NEW k \in 1 .. N PROVE Applying(S, txs[k]) \in V
  <2>1. GoodCoins(S) /\ \A t \in S : t.hash \in H
    BY DEF TuplesOf
  <2> HIDE DEF H, V
  <2>2. FromBefore(S, S, {})
    BY <2>1 DEF FromBefore
  <2>3. FromBefore(S, Applying(S, txs[k]), {} \cup {txs[k]})
    BY <1>0, <2>2, ApplyingIs
  <2> DEFINE U == Applying(S, txs[k])
  <2> HIDE DEF U
  <2>4. GoodCoins(U) /\ \A t \in U : t.hash \in H
    BY <1>0, <2>1, <2>3 DEF FromBefore, U
  <2>5. U \in TuplesOf(H)
    BY <2>4, TuplesAre
  <2> QED
    BY <2>4, <2>5 DEF U, V
<1> HIDE DEF V
<1>3. g \in [(1 .. N) \X V -> V]
  BY <1>2
<1>4. PICK E \in [0 .. N -> V] : Steps(E, N, utxo_set, g)
  <2> HIDE DEF g, N
  <2> QED
    BY <1>0, <1>1, <1>3, StepByStep
<1>5. ASSUME NEW n \in 1 .. N PROVE E[n] = Applying(E[n - 1], txs[n])
  <2>1. n - 1 \in 0 .. N /\ E[n - 1] \in V
    BY <1>0
  <2> QED
    BY <1>4, <2>1 DEF Steps
<1>6. E = Body(E)
  <2>1. \A n \in 0 .. N : n # 0 => n \in 1 .. N
    BY <1>0
  <2> QED
    BY <1>4, <1>5, <2>1 DEF Steps
<1> DEFINE F == CHOOSE f : f = Body(f)
<1>7. F = Body(F)
  <2> HIDE DEF Body
  <2> QED
    BY <1>6
<1>8. UtxosAfter(txs) = F[N]
  BY DEF UtxosAfter, Applying
<1> HIDE DEF F
<1>9. F[0] = utxo_set /\ \A n \in 1 .. N : F[n] = Applying(F[n - 1], txs[n])
  <2>1. \A n \in 0 .. N : F[n] = IF n = 0 THEN utxo_set ELSE Applying(F[n - 1], txs[n])
    BY <1>7
  <2>2. 0 \in 0 .. N /\ \A n \in 1 .. N : n \in 0 .. N /\ n # 0
    BY <1>0
  <2> QED
    BY <2>1, <2>2
<1> DEFINE T(n) == {txs[k] : k \in 1 .. n}
           G == {n \in 0 .. N : FromBefore(utxo_set, F[n], T(n))}
<1>10. 0 .. N \subseteq G
  <2>1. 0 \in G
    <3>1. T(0) = {}
      OBVIOUS
    <3> HIDE DEF T
    <3>2. FromBefore(utxo_set, F[0], T(0))
      BY <1>9, <3>1 DEF FromBefore
    <3> QED
      BY <1>0, <3>2
  <2>2. ASSUME NEW n \in 0 .. (N - 1), n \in G PROVE n + 1 \in G
    <3>1. n + 1 \in 1 .. N /\ n + 1 \in 0 .. N /\ (n + 1) - 1 = n /\ n \in Nat
      BY <1>0
    <3>2. F[n + 1] = Applying(F[n], txs[n + 1]) /\ GoodTx(txs[n + 1])
      BY <1>0, <1>9, <3>1
    <3>3. T(n + 1) = T(n) \cup {txs[n + 1]}
      <4>1. 1 .. (n + 1) = (1 .. n) \cup {n + 1}
        BY <3>1
      <4> QED
        BY <4>1
    <3> HIDE DEF T
    <3>4. FromBefore(utxo_set, F[n], T(n))
      BY <2>2
    <3>5. FromBefore(utxo_set, Applying(F[n], txs[n + 1]), T(n) \cup {txs[n + 1]})
      BY <3>2, <3>4, ApplyingIs
    <3>6. FromBefore(utxo_set, F[n + 1], T(n + 1))
      BY <3>2, <3>3, <3>5
    <3> QED
      BY <3>1, <3>6
  <2> HIDE DEF G, N
  <2> QED
    BY <1>0, <2>1, <2>2, UpTo
<1>11. T(N) = Range(txs)
  BY <1>0 DEF Range
<1>12. FromBefore(utxo_set, F[N], T(N))
  <2>1. N \in G
    BY <1>0, <1>10
  <2> HIDE DEF T
  <2> QED
    BY <2>1
<1> HIDE DEF T
<1> QED
  BY <1>8, <1>11, <1>12

(***************************************************************************)
(* The outputs that a payment spends.                                      *)
(***************************************************************************)
\* The coins of an account in some order.
IsCoinList(coins) ==
    /\ IsList(coins)
    /\ \A k \in DOMAIN coins : IsTuple(coins[k]) /\ coins[k].utxo_set # <<>>
    /\ \A j, k \in DOMAIN coins : coins[j].hash = coins[k].hash => j = k

\* Any order in which the wallet goes through the coins of an account.
LEMMA OrderIs ==
    ASSUME NEW S, GoodCoins(S), \A t \in S : t.utxo_set # <<>>, NEW coins \in SetToSeqs(S)
    PROVE  IsCoinList(coins) /\ Range(coins) \subseteq S
<1>1. PICK N \in Nat : N = Cardinality(S)
  BY FS_CardinalityType DEF GoodCoins
<1>2. coins \in [1 .. N -> S] /\ \A i, j \in 1 .. N : i # j => coins[i] # coins[j]
  BY <1>1 DEF SetToSeqs
<1>3. coins \in Seq(S) /\ DOMAIN coins = 1 .. N
  BY <1>2
<1>4. Range(coins) \subseteq S
  BY <1>3, RangeIs
<1>5. IsList(coins)
  BY <1>3, ListIs
<1>6. \A k \in DOMAIN coins : IsTuple(coins[k]) /\ coins[k].utxo_set # <<>> /\ coins[k] \in S
  BY <1>2, <1>3 DEF GoodCoins
<1>7. \A j, k \in DOMAIN coins : coins[j].hash = coins[k].hash => j = k
  BY <1>2, <1>3, <1>6 DEF GoodCoins
<1> QED
  BY <1>4, <1>5, <1>6, <1>7 DEF IsCoinList

\* The values of some outputs.
Values(us) == [i \in DOMAIN us |-> us[i].out.value]
\* The values of a tuple's outputs are a list of numbers.
LEMMA ValuesAre ==
    ASSUME NEW us \in Seq(Entry)
    PROVE  Values(us) \in Seq(Int) /\ Len(Values(us)) = Len(us)
<1>1. PICK N \in Nat : N = Len(us) /\ DOMAIN us = 1 .. N /\ \A i \in 1 .. N : us[i] \in Entry
  OBVIOUS
<1>2. \A i \in 1 .. N : us[i].out.value \in Int
  BY <1>1 DEF Entry, GoodOut, TxOut
<1>3. Values(us) \in [1 .. N -> Int]
  BY <1>1, <1>2 DEF Values
<1> QED
  BY <1>1, <1>3

\* The balance of a tuple is a number.
LEMMA BalanceIs ==
    ASSUME NEW t, t.utxo_set \in Seq(Entry)
    PROVE  balance(t) = SumOf(Values(t.utxo_set)) /\ balance(t) \in Int
<1>1. balance(t) = SumOf(Values(t.utxo_set))
  BY DEF balance, Values
<1>2. Values(t.utxo_set) \in Seq(Int) /\ 0 \in Int
  BY ValuesAre
<1>3. SumOf(Values(t.utxo_set)) \in Int
  BY <1>2, SumAppend
<1> QED
  BY <1>1, <1>3

\* The first outputs of a tuple.
LEMMA PrefixOfTuple ==
    ASSUME NEW t, IsTuple(t), NEW n \in 1 .. Len(t.utxo_set)
    PROVE  LET part == PrefixOf(t, n)
           IN IsTuple(part) /\ part.hash = t.hash /\ part.utxo_set # <<>> /\ part.utxo_set = SubSeq(t.utxo_set, 1, n)
              /\ Range(part.utxo_set) \subseteq Range(t.utxo_set)
<1> DEFINE us == t.utxo_set
           vs == SubSeq(us, 1, n)
           part == PrefixOf(t, n)
<1>1. t \in [hash : {t.hash}, utxo_set : Seq(Entry)] /\ Different(us)
  BY DEF IsTuple
<1>2. us \in Seq(Entry)
  BY <1>1
<1>3. part = [t EXCEPT !.utxo_set = vs]
  BY <1>1 DEF PrefixOf
<1> HIDE DEF us, part
<1>4. n \in 1 .. Len(us)
  BY DEF us
<1>5. PICK N \in Nat : N = Len(us) /\ DOMAIN us = 1 .. N
  BY <1>2
<1>6. n \in 0 .. Len(us) /\ n \in 1 .. N /\ n \in Nat
  BY <1>4, <1>5
<1>7. vs \in Seq(Entry) /\ Len(vs) = n /\ \A i \in 1 .. n : vs[i] = us[i]
  BY <1>2, <1>6, PrefixIs
<1> HIDE DEF vs
<1>8. part \in [hash : {t.hash}, utxo_set : Seq(Entry)] /\ part.hash = t.hash /\ part.utxo_set = vs
  BY <1>1, <1>3, <1>7 DEF us
<1>9. DOMAIN vs = 1 .. n /\ \A i \in 1 .. n : i \in DOMAIN us /\ vs[i] = us[i]
  BY <1>5, <1>6, <1>7
<1>10. Different(vs)
  BY <1>1, <1>9 DEF Different
<1>11. vs # <<>>
  BY <1>6, <1>7
<1>12. Range(vs) \subseteq Range(us)
  BY <1>9 DEF Range
<1>13. IsTuple(part)
  BY <1>8, <1>10 DEF IsTuple
<1> QED
  BY <1>8, <1>11, <1>12, <1>13 DEF us, part, vs

\* Enough of them, or all.
LEMMA ToSpendIs ==
    ASSUME NEW t, IsTuple(t), t.utxo_set # <<>>, NEW value \in Int, NEW partial \in Int
    PROVE  \E n \in 1 .. Len(t.utxo_set) :
              /\ utxos_to_spend(t, value, partial) = PrefixOf(t, n)
              /\ partial + balance(PrefixOf(t, n)) > value \/ PrefixOf(t, n) = t
<1> DEFINE Exceeds(n) == partial + balance(PrefixOf(t, n)) > value
           all == Len(t.utxo_set)
           Right(n) == (Exceeds(n) \/ n = all) /\ \A k \in 1 .. (n - 1) : ~Exceeds(k)
           T == {n \in 1 .. all : Exceeds(n) \/ n = all}
<1>1. t \in [hash : {t.hash}, utxo_set : Seq(Entry)]
  BY DEF IsTuple
<1>2. all \in Nat /\ all # 0
  <2>1. t.utxo_set \in Seq(Entry)
    BY <1>1
  <2> QED
    BY <2>1
<1> HIDE DEF Exceeds
<1>3. T \subseteq Nat /\ all \in T
  BY <1>2
<1>4. PICK n \in T : \A m \in T : n <= m
  <2> HIDE DEF T
  <2> QED
    BY <1>3, LeastElement
<1>5. n \in 1 .. all /\ Right(n)
  <2>1. n \in 1 .. all /\ (Exceeds(n) \/ n = all)
    BY <1>4
  <2>2. ASSUME NEW k \in 1 .. (n - 1) PROVE ~Exceeds(k)
    <3>1. k \in 1 .. all /\ ~(n <= k)
      BY <1>2, <2>1
    <3>2. k \notin T
      BY <1>4, <3>1
    <3> QED
      BY <3>1, <3>2
  <2> QED
    BY <2>1, <2>2
<1> DEFINE c == CHOOSE n1 \in 1 .. all : Right(n1)
<1>6. c \in 1 .. all /\ Right(c)
  <2> HIDE DEF Right
  <2> QED
    BY <1>5
<1>7. utxos_to_spend(t, value, partial) = PrefixOf(t, c)
  BY DEF utxos_to_spend, Exceeds
<1> HIDE DEF c
<1>8. PrefixOf(t, all) = t
  <2>1. t.utxo_set \in Seq(Entry)
    BY <1>1
  <2>2. SubSeq(t.utxo_set, 1, all) = t.utxo_set
    BY <2>1, PrefixIs
  <2>3. PrefixOf(t, all) = [t EXCEPT !.utxo_set = t.utxo_set]
    BY <1>1, <2>2 DEF PrefixOf
  <2> QED
    BY <1>1, <2>3
<1>9. Exceeds(c) \/ PrefixOf(t, c) = t
  BY <1>6, <1>8
<1> QED
  BY <1>6, <1>7, <1>9 DEF Exceeds

\* The balances of a list of tuples are numbers, and so is their sum.
LEMMA BalancesAre ==
    ASSUME NEW S, \A t \in S : IsTuple(t), NEW coins \in Seq(S)
    PROVE  [k \in DOMAIN coins |-> balance(coins[k])] \in Seq(Int) /\ BalanceOf(coins) \in Int
<1> DEFINE b == [k \in DOMAIN coins |-> balance(coins[k])]
<1>1. PICK N \in Nat : N = Len(coins) /\ DOMAIN coins = 1 .. N /\ \A k \in 1 .. N : coins[k] \in S
  OBVIOUS
<1>2. \A k \in 1 .. N : balance(coins[k]) \in Int
  <2> TAKE k \in 1 .. N
  <2>1. coins[k].utxo_set \in Seq(Entry)
    BY <1>1 DEF IsTuple
  <2> QED
    BY <2>1, BalanceIs
<1>3. b \in [1 .. N -> Int]
  BY <1>1, <1>2
<1>4. b \in Seq(Int)
  BY <1>3
<1> HIDE DEF b
<1>5. SumOf(b) \in Int
  <2>1. 0 \in Int
    OBVIOUS
  <2> QED
    BY <1>4, <2>1, SumAppend
<1> QED
  BY <1>4, <1>5 DEF BalanceOf, b

\* One more tuple.
LEMMA BalanceAppend ==
    ASSUME NEW S, \A t \in S : IsTuple(t), NEW coins \in Seq(S), NEW t \in S
    PROVE  BalanceOf(Append(coins, t)) = BalanceOf(coins) + balance(t)
<1> DEFINE b == [k \in DOMAIN coins |-> balance(coins[k])]
           more == Append(coins, t)
           c == [k \in DOMAIN more |-> balance(more[k])]
<1>1. PICK N \in Nat : N = Len(coins) /\ DOMAIN coins = 1 .. N
  OBVIOUS
<1>2. more \in Seq(S) /\ DOMAIN more = 1 .. (N + 1) /\ (\A k \in 1 .. N : more[k] = coins[k]) /\ more[N + 1] = t
  <2>1. IsLonger(S, coins, t, N, more)
    BY <1>1, Longer
  <2> QED
    BY <2>1 DEF IsLonger
<1>3. b \in Seq(Int) /\ Len(b) = N
  <2>1. b \in Seq(Int)
    BY BalancesAre
  <2>2. DOMAIN b = 1 .. N
    BY <1>1
  <2> HIDE DEF b
  <2> QED
    BY <2>1, <2>2
<1>4. balance(t) \in Int
  <2>1. t.utxo_set \in Seq(Entry)
    BY DEF IsTuple
  <2> QED
    BY <2>1, BalanceIs
<1> HIDE DEF more
<1>5. c \in Seq(Int) /\ Len(c) = N + 1
  <2>1. c \in Seq(Int)
    BY <1>2, BalancesAre
  <2>2. DOMAIN c = 1 .. (N + 1)
    BY <1>2
  <2> HIDE DEF c
  <2> QED
    BY <2>1, <2>2
<1>6. Append(b, balance(t)) \in Seq(Int) /\ Len(Append(b, balance(t))) = N + 1
  BY <1>3, <1>4
<1>7. ASSUME NEW k \in 1 .. (N + 1) PROVE c[k] = Append(b, balance(t))[k]
  <2>1. CASE k = N + 1
    <3>1. IsLonger(Int, b, balance(t), N, Append(b, balance(t)))
      BY <1>3, <1>4, Longer
    <3>2. Append(b, balance(t))[N + 1] = balance(t)
      BY <3>1 DEF IsLonger
    <3>3. c[N + 1] = balance(t)
      BY <1>2, <2>1
    <3> QED
      BY <2>1, <3>2, <3>3
  <2>2. CASE k \in 1 .. N
    <3>1. Append(b, balance(t))[k] = b[k]
      BY <1>3, <1>4, <2>2
    <3> QED
      BY <1>1, <1>2, <2>2, <3>1
  <2>3. k = N + 1 \/ k \in 1 .. N
    BY <1>1
  <2> HIDE DEF b, c
  <2> QED
    BY <2>1, <2>2, <2>3
<1> HIDE DEF b, c
<1>8. c = Append(b, balance(t))
  BY <1>5, <1>6, <1>7, SameList
<1>9. SumOf(c) = SumOf(b) + balance(t)
  BY <1>3, <1>4, <1>8, SumAppend
<1> QED
  BY <1>9 DEF b, c, more, BalanceOf

\* Tuples with some outputs of those of the account.
PartOf(spend, coins) ==
    /\ IsCoinList(spend)
    /\ \A k \in DOMAIN spend : /\ k \in DOMAIN coins /\ spend[k].hash = coins[k].hash
                               /\ Range(spend[k].utxo_set) \subseteq Range(coins[k].utxo_set)

\* Account::get_utxos_for_amount: what is chosen is part of the coins, and is
\* worth the amount.
LEMMA SpendIs ==
    ASSUME NEW coins, IsCoinList(coins), NEW value \in Int, value > 0, has_balance(coins, value)
    PROVE  LET spend == get_utxos_for_amount(coins, value)
           IN PartOf(spend, coins) /\ spend # <<>> /\ BalanceOf(spend) \in Int /\ BalanceOf(spend) >= value
<1> DEFINE S == Range(coins)
           Reached(k) == BalanceOf(SubSeq(coins, 1, k)) >= value
           ks == {k \in DOMAIN coins : Reached(k) /\ \A j \in 1 .. (k - 1) : ~Reached(j)}
           spend == get_utxos_for_amount(coins, value)
<1>1. coins \in Seq(S) /\ \A t \in S : IsTuple(t) /\ t.utxo_set # <<>>
  BY DEF IsCoinList, IsList, Range
<1>2. PICK N \in Nat : N = Len(coins) /\ DOMAIN coins = 1 .. N /\ \A k \in 1 .. N : coins[k] \in S
  BY <1>1
<1>3. BalanceOf(coins) \in Int /\ BalanceOf(coins) > value
  BY <1>1, BalancesAre DEF has_balance
<1>4. CASE ks = {}
  <2>1. spend = coins
    BY <1>4 DEF get_utxos_for_amount
  <2>2. coins # <<>>
    <3> SUFFICES ASSUME coins = <<>> PROVE FALSE
      OBVIOUS
    <3>1. [k \in DOMAIN coins |-> balance(coins[k])] = <<>>
      OBVIOUS
    <3>2. BalanceOf(coins) = 0
      BY <3>1, SumEmpty DEF BalanceOf
    <3> QED
      BY <1>3, <3>2
  <2>3. PartOf(coins, coins)
    BY DEF PartOf
  <2> QED
    BY <1>3, <2>1, <2>2, <2>3
<1>5. CASE ks # {}
  <2> DEFINE c == CHOOSE k \in ks : TRUE
             whole == SubSeq(coins, 1, c - 1)
             last == utxos_to_spend(coins[c], value, BalanceOf(whole))
  <2>1. c \in ks
    BY <1>5
  <2>2. spend = Append(whole, last)
    BY <1>5 DEF get_utxos_for_amount
  <2>3. c \in 1 .. N /\ Reached(c)
    BY <1>2, <2>1
  <2> HIDE DEF c, ks, spend
  <2>4. c - 1 \in 0 .. N /\ c \in Nat /\ c - 1 \in Nat /\ (c - 1) + 1 = c
    BY <2>3
  <2>5. /\ whole \in Seq(S) /\ Len(whole) = c - 1 /\ \A k \in 1 .. (c - 1) : whole[k] = coins[k]
        /\ SubSeq(coins, 1, c) = Append(whole, coins[c])
    BY <1>1, <1>2, <2>3, <2>4, PrefixIs
  <2>6. IsTuple(coins[c]) /\ coins[c].utxo_set # <<>> /\ coins[c] \in S
    BY <1>1, <1>2, <2>3
  <2> HIDE DEF whole
  <2>7. BalanceOf(whole) \in Int
    BY <1>1, <2>5, BalancesAre
  <2>8. PICK n \in 1 .. Len(coins[c].utxo_set) :
           /\ last = PrefixOf(coins[c], n)
           /\ BalanceOf(whole) + balance(PrefixOf(coins[c], n)) > value \/ PrefixOf(coins[c], n) = coins[c]
    BY <2>6, <2>7, ToSpendIs
  <2> HIDE DEF last
  <2>9. /\ IsTuple(last) /\ last.hash = coins[c].hash /\ last.utxo_set # <<>>
        /\ Range(last.utxo_set) \subseteq Range(coins[c].utxo_set)
    BY <2>6, <2>8, PrefixOfTuple
  <2> DEFINE T == S \cup {last}
  <2>10. whole \in Seq(T) /\ last \in T /\ \A t \in T : IsTuple(t)
    <3>1. whole \in Seq(T)
      BY <2>5
    <3> QED
      BY <1>1, <2>9, <3>1
  <2> HIDE DEF T
  <2>11. BalanceOf(spend) = BalanceOf(whole) + balance(last)
    BY <2>2, <2>10, BalanceAppend
  <2>12. spend \in Seq(T)
    BY <2>2, <2>10
  <2>13. BalanceOf(spend) \in Int
    BY <2>10, <2>12, BalancesAre
  <2>14. BalanceOf(spend) >= value
    <3>1. CASE BalanceOf(whole) + balance(last) > value
      BY <2>11, <2>13, <3>1
    <3>2. CASE last = coins[c]
      <4>1. BalanceOf(SubSeq(coins, 1, c)) = BalanceOf(whole) + balance(coins[c])
        BY <1>1, <2>5, <2>6, BalanceAppend
      <4> QED
        BY <2>3, <2>11, <3>2, <4>1
    <3> QED
      BY <2>8, <3>1, <3>2
  <2>15. DOMAIN spend = 1 .. c /\ (\A k \in 1 .. (c - 1) : spend[k] = coins[k]) /\ spend[c] = last
    <3>1. IsLonger(T, whole, last, c - 1, Append(whole, last))
      BY <2>4, <2>5, <2>10, Longer
    <3>2. IsLonger(T, whole, last, c - 1, spend)
      BY <2>2, <3>1
    <3> QED
      BY <2>4, <2>5, <3>2 DEF IsLonger
  <2>16. \A k \in 1 .. c : k \in 1 .. N /\ (k = c \/ k \in 1 .. (c - 1))
    BY <2>3
  <2>17. \A k \in DOMAIN spend : /\ k \in DOMAIN coins /\ spend[k].hash = coins[k].hash
                                 /\ Range(spend[k].utxo_set) \subseteq Range(coins[k].utxo_set)
                                 /\ IsTuple(spend[k]) /\ spend[k].utxo_set # <<>>
    <3> TAKE k \in DOMAIN spend
    <3>1. k \in 1 .. N /\ coins[k] \in S /\ k \in DOMAIN coins
      BY <1>2, <2>15, <2>16
    <3>2. CASE k = c
      BY <2>9, <2>15, <3>1, <3>2
    <3>3. CASE k \in 1 .. (c - 1)
      <4>1. spend[k] = coins[k]
        BY <2>15, <3>3
      <4> QED
        BY <1>1, <3>1, <4>1
    <3> QED
      BY <2>15, <2>16, <3>2, <3>3
  <2>18. IsList(spend)
    BY <2>12, ListIs
  <2>19. \A j, k \in DOMAIN spend : spend[j].hash = spend[k].hash => j = k
    BY <2>17 DEF IsCoinList
  <2>20. IsCoinList(spend)
    BY <2>17, <2>18, <2>19 DEF IsCoinList
  <2>21. PartOf(spend, coins)
    BY <2>17, <2>20 DEF PartOf
  <2>22. spend # <<>>
    <3>1. 1 \in DOMAIN spend
      BY <2>4, <2>15
    <3> HIDE <2>15
    <3> QED
      BY <3>1
  <2> QED
    BY <2>13, <2>14, <2>21, <2>22 DEF spend
<1> QED
  BY <1>4, <1>5

\* The outputs of tuples with certain hashes, and what they are worth.
Output(H) == [hash : H, index : Nat, out : GoodOut]
Worths(os) == [i \in DOMAIN os |-> os[i].out.value]
Apart(os) == \A i, j \in DOMAIN os : os[i].hash = os[j].hash /\ os[i].index = os[j].index => i = j

\* What a list of outputs is worth is a number.
LEMMA WorthsAre ==
    ASSUME NEW H, NEW os \in Seq(Output(H))
    PROVE  Worths(os) \in Seq(Int) /\ Len(Worths(os)) = Len(os) /\ SumOf(Worths(os)) \in Int
<1>1. PICK N \in Nat : N = Len(os) /\ DOMAIN os = 1 .. N /\ \A i \in 1 .. N : os[i] \in Output(H)
  OBVIOUS
<1>2. \A i \in 1 .. N : os[i].out.value \in Int
  BY <1>1 DEF Output, GoodOut, TxOut
<1>3. Worths(os) \in [1 .. N -> Int]
  BY <1>1, <1>2 DEF Worths
<1>4. Worths(os) \in Seq(Int) /\ Len(Worths(os)) = N /\ 0 \in Int
  BY <1>3
<1>5. SumOf(Worths(os)) \in Int
  BY <1>4, SumAppend
<1> QED
  BY <1>1, <1>4, <1>5

\* The outputs of one tuple.
LEMMA OutputsOfIs ==
    ASSUME NEW t, IsTuple(t), NEW H, t.hash \in H
    PROVE  LET os == OutputsOf(t)
           IN /\ os \in Seq(Output(H)) /\ Apart(os) /\ SumOf(Worths(os)) = balance(t)
              /\ DOMAIN os = DOMAIN t.utxo_set
              /\ \A i \in DOMAIN os : os[i] = [hash |-> t.hash, index |-> t.utxo_set[i].index, out |-> t.utxo_set[i].out]
<1> DEFINE us == t.utxo_set
           os == OutputsOf(t)
<1>1. us \in Seq(Entry) /\ Different(us)
  BY DEF IsTuple
<1>2. PICK N \in Nat : N = Len(us) /\ DOMAIN us = 1 .. N /\ \A i \in 1 .. N : us[i] \in Entry
  BY <1>1
<1>3. DOMAIN os = 1 .. N /\ \A i \in 1 .. N : os[i] = [hash |-> t.hash, index |-> us[i].index, out |-> us[i].out]
  BY <1>2 DEF OutputsOf
<1>4. os = [i \in 1 .. N |-> os[i]]
  BY <1>2 DEF OutputsOf
<1> HIDE DEF os, us
<1>5. \A i \in 1 .. N : os[i] \in Output(H)
  BY <1>2, <1>3 DEF Entry, Output
<1>6. os \in Seq(Output(H))
  <2>1. os \in [1 .. N -> Output(H)]
    BY <1>4, <1>5
  <2> QED
    BY <2>1
<1>7. \A i \in 1 .. N : os[i].hash = t.hash /\ os[i].index = us[i].index /\ os[i].out = us[i].out
  BY <1>3
<1>8. Apart(os)
  BY <1>1, <1>2, <1>3, <1>7 DEF Apart, Different
<1>9. Worths(os) = Values(us)
  BY <1>2, <1>3, <1>7 DEF Worths, Values
<1>10. balance(t) = SumOf(Values(us))
  BY <1>1, BalanceIs DEF us
<1> QED
  BY <1>2, <1>3, <1>6, <1>8, <1>9, <1>10 DEF us, os

\* Those of two lists of tuples.
LEMMA JoinedOutputs ==
    ASSUME NEW H, NEW s \in Seq(Output(H)), NEW t \in Seq(Output(H)), Apart(s), Apart(t),
           \A i \in DOMAIN s, j \in DOMAIN t : s[i].hash # t[j].hash
    PROVE  /\ s \o t \in Seq(Output(H)) /\ Apart(s \o t)
           /\ SumOf(Worths(s \o t)) = SumOf(Worths(s)) + SumOf(Worths(t))
           /\ Range(s \o t) = Range(s) \cup Range(t)
<1> DEFINE st == s \o t
<1>1. PICK m \in Nat, n \in Nat : Len(s) = m /\ Len(t) = n /\ DOMAIN s = 1 .. m /\ DOMAIN t = 1 .. n
  OBVIOUS
<1>2. IsJoined(Output(H), s, t, m, n, st)
  BY <1>1, Joined
<1> HIDE DEF st
<1>3. /\ st \in Seq(Output(H)) /\ Len(st) = m + n
      /\ \A i \in 1 .. m : st[i] = s[i]
      /\ \A i \in 1 .. n : st[m + i] = t[i]
  BY <1>2 DEF IsJoined
<1>4. DOMAIN st = 1 .. (m + n)
  BY <1>3
<1>5. ASSUME NEW i \in 1 .. (m + n)
      PROVE  \/ i \in 1 .. m /\ st[i] = s[i]
             \/ \E k \in 1 .. n : i = m + k /\ st[i] = t[k]
  <2>1. CASE i \in 1 .. m
    BY <1>3, <2>1
  <2>2. CASE i \notin 1 .. m
    <3>1. i - m \in 1 .. n /\ i = m + (i - m)
      BY <2>2
    <3>2. st[m + (i - m)] = t[i - m]
      BY <1>3, <3>1
    <3> QED
      BY <3>1, <3>2
  <2> QED
    BY <2>1, <2>2
<1>6. Apart(st)
  <2> SUFFICES ASSUME NEW i \in 1 .. (m + n), NEW j \in 1 .. (m + n), st[i].hash = st[j].hash, st[i].index = st[j].index
               PROVE  i = j
    BY <1>4 DEF Apart
  <2>1. CASE i \in 1 .. m /\ st[i] = s[i] /\ j \in 1 .. m /\ st[j] = s[j]
    BY <1>1, <2>1 DEF Apart
  <2>2. CASE \E k \in 1 .. n, l \in 1 .. n : i = m + k /\ st[i] = t[k] /\ j = m + l /\ st[j] = t[l]
    <3>1. PICK k \in 1 .. n, l \in 1 .. n : i = m + k /\ st[i] = t[k] /\ j = m + l /\ st[j] = t[l]
      BY <2>2
    <3>2. k = l
      BY <1>1, <3>1 DEF Apart
    <3> QED
      BY <3>1, <3>2
  <2>3. ~(i \in 1 .. m /\ st[i] = s[i] /\ \E l \in 1 .. n : st[j] = t[l])
    BY <1>1
  <2>4. ~(j \in 1 .. m /\ st[j] = s[j] /\ \E l \in 1 .. n : st[i] = t[l])
    BY <1>1
  <2> QED
    BY <1>5, <2>1, <2>2, <2>3, <2>4
<1>7. Worths(st) = Worths(s) \o Worths(t)
  <2> DEFINE a == Worths(s)
             b == Worths(t)
             c == Worths(st)
  <2>1. a \in Seq(Int) /\ Len(a) = m /\ b \in Seq(Int) /\ Len(b) = n /\ c \in Seq(Int) /\ Len(c) = m + n
    BY <1>1, <1>3, WorthsAre
  <2>2. /\ \A i \in 1 .. m : a[i] = s[i].out.value
        /\ \A i \in 1 .. n : b[i] = t[i].out.value
        /\ \A i \in 1 .. (m + n) : c[i] = st[i].out.value
    BY <1>1, <1>4 DEF Worths
  <2> HIDE DEF a, b, c
  <2>3. IsJoined(Int, a, b, m, n, a \o b)
    BY <2>1, Joined
  <2> DEFINE ab == a \o b
  <2> HIDE DEF ab
  <2>4. /\ ab \in Seq(Int) /\ Len(ab) = m + n
        /\ \A i \in 1 .. m : ab[i] = a[i]
        /\ \A i \in 1 .. n : ab[m + i] = b[i]
    BY <2>3 DEF IsJoined, ab
  <2>5. ASSUME NEW i \in 1 .. (m + n) PROVE c[i] = ab[i]
    <3>1. CASE i \in 1 .. m /\ st[i] = s[i]
      <4>1. c[i] = s[i].out.value
        BY <2>2, <3>1
      <4>2. ab[i] = a[i] /\ a[i] = s[i].out.value
        BY <2>2, <2>4, <3>1
      <4> QED
        BY <4>1, <4>2
    <3>2. CASE \E k \in 1 .. n : i = m + k /\ st[i] = t[k]
      <4>1. PICK k \in 1 .. n : i = m + k /\ st[i] = t[k]
        BY <3>2
      <4>2. c[i] = t[k].out.value
        BY <2>2, <4>1
      <4>3. ab[m + k] = b[k] /\ b[k] = t[k].out.value
        BY <2>2, <2>4
      <4> QED
        BY <4>1, <4>2, <4>3
    <3> QED
      BY <1>5, <3>1, <3>2
  <2>6. c = ab
    <3>1. c \in Seq(Int) /\ ab \in Seq(Int)
      BY <2>1, <2>4
    <3>2. Len(c) = m + n /\ Len(ab) = m + n
      BY <2>1, <2>4
    <3>3. m + n \in Nat
      OBVIOUS
    <3>4. \A i \in 1 .. (m + n) : c[i] = ab[i]
      BY <2>5
    <3> DEFINE mn == m + n
    <3> HIDE DEF mn
    <3>5. mn \in Nat /\ Len(c) = mn /\ Len(ab) = mn /\ \A i \in 1 .. mn : c[i] = ab[i]
      BY <3>2, <3>3, <3>4 DEF mn
    <3> QED
      BY <3>1, <3>5, SameList
  <2> QED
    BY <2>6 DEF a, b, c, ab
<1>8. SumOf(Worths(st)) = SumOf(Worths(s)) + SumOf(Worths(t))
  <2>1. Worths(s) \in Seq(Int) /\ Worths(t) \in Seq(Int)
    BY WorthsAre
  <2> QED
    BY <1>7, <2>1, SumConcat
<1>9. Range(st) = Range(s) \cup Range(t)
  <2>1. IsList(s) /\ IsList(t)
    BY ListIs
  <2> QED
    BY <2>1, ListConcatRange DEF st
<1> QED
  BY <1>3, <1>6, <1>8, <1>9 DEF st

\* Those of all.
LEMMA OutputsAre ==
    ASSUME NEW spend, IsCoinList(spend)
    PROVE  LET os == Outputs(spend)
               H == {t.hash : t \in Range(spend)}
           IN /\ os \in Seq(Output(H)) /\ Apart(os) /\ SumOf(Worths(os)) = BalanceOf(spend)
              /\ \A o \in Range(os) : \E k \in DOMAIN spend : \E u \in Range(spend[k].utxo_set) :
                    o = [hash |-> spend[k].hash, index |-> u.index, out |-> u.out]
              /\ spend # <<>> => os # <<>>
<1> DEFINE S == Range(spend)
           H == {t.hash : t \in S}
           ss == [k \in DOMAIN spend |-> OutputsOf(spend[k])]
           os == Outputs(spend)
           P(n) == SubSeq(ss, 1, n)
           Q(n) == SubSeq(spend, 1, n)
           Right(n) ==
              LET o == FlattenSeq(P(n))
              IN /\ o \in Seq(Output(H)) /\ Apart(o) /\ SumOf(Worths(o)) = BalanceOf(Q(n))
                 /\ \A x \in Range(o) : \E k \in 1 .. n : \E u \in Range(spend[k].utxo_set) :
                    x = [hash |-> spend[k].hash, index |-> u.index, out |-> u.out]
                 /\ n # 0 => Range(o) # {}
<1>1. PICK N \in Nat : N = Len(spend) /\ DOMAIN spend = 1 .. N
  BY DEF IsCoinList, IsList
<1>2. spend \in Seq(S) /\ \A t \in S : IsTuple(t) /\ t.hash \in H
  BY DEF IsCoinList, IsList, Range
<1>3. ASSUME NEW k \in 1 .. N
      PROVE  /\ IsTuple(spend[k]) /\ spend[k].hash \in H /\ spend[k].utxo_set # <<>>
             /\ ss[k] \in Seq(Output(H)) /\ Apart(ss[k]) /\ SumOf(Worths(ss[k])) = balance(spend[k])
             /\ \A x \in Range(ss[k]) : \E u \in Range(spend[k].utxo_set) :
                    x = [hash |-> spend[k].hash, index |-> u.index, out |-> u.out]
             /\ Range(ss[k]) # {}
  <2>1. IsTuple(spend[k]) /\ spend[k].hash \in H /\ spend[k].utxo_set # <<>> /\ ss[k] = OutputsOf(spend[k])
    BY <1>1, <1>2 DEF IsCoinList, Range
  <2> DEFINE o == ss[k]
  <2> HIDE DEF ss, H, S
  <2>2. /\ o \in Seq(Output(H)) /\ Apart(o) /\ SumOf(Worths(o)) = balance(spend[k])
        /\ DOMAIN o = DOMAIN spend[k].utxo_set
        /\ \A i \in DOMAIN o : o[i] = [hash |-> spend[k].hash, index |-> spend[k].utxo_set[i].index, out |-> spend[k].utxo_set[i].out]
    BY <2>1, OutputsOfIs
  <2> HIDE DEF o
  <2>3. \A x \in Range(o) : \E u \in Range(spend[k].utxo_set) :
                    x = [hash |-> spend[k].hash, index |-> u.index, out |-> u.out]
    BY <2>2 DEF Range
  <2>4. Range(o) # {}
    <3>1. spend[k].utxo_set \in Seq(Entry)
      BY <2>1 DEF IsTuple
    <3>2. Range(spend[k].utxo_set) # {}
      BY <2>1, <3>1, RangeIs
    <3> QED
      BY <2>2, <3>2 DEF Range
  <2> QED
    BY <2>1, <2>2, <2>3, <2>4 DEF o
<1>4. ss \in Seq(Seq(Output(H))) /\ Len(ss) = N
  <2>1. ss = [k \in 1 .. N |-> ss[k]] /\ \A k \in 1 .. N : ss[k] \in Seq(Output(H))
    BY <1>1, <1>3
  <2> HIDE DEF ss, H
  <2>2. ss \in [1 .. N -> Seq(Output(H))]
    BY <2>1
  <2> QED
    BY <2>2
<1>5. os = FlattenSeq(ss)
  BY DEF Outputs
<1> HIDE DEF ss, os, H, S
<1>6. /\ P(0) = <<>> /\ P(N) = ss
      /\ \A n \in 1 .. N : P(n) = Append(P(n - 1), ss[n])
      /\ \A n \in 0 .. N : P(n) \in Seq(Seq(Output(H)))
  BY <1>4, PrefixIs
<1>7. /\ Q(0) = <<>> /\ Q(N) = spend
      /\ \A n \in 1 .. N : Q(n) = Append(Q(n - 1), spend[n])
      /\ \A n \in 0 .. N : Q(n) \in Seq(S)
  BY <1>1, <1>2, PrefixIs
<1> HIDE DEF P, Q
<1>8. Right(0)
  <2>1. FlattenSeq(P(0)) = <<>>
    BY <1>6 DEF FlattenSeq
  <2>2. <<>> \in Seq(Output(H)) /\ Apart(<<>>) /\ Worths(<<>>) = <<>> /\ Range(<<>>) = {}
    BY DEF Apart, Worths, Range
  <2>3. BalanceOf(Q(0)) = 0 /\ SumOf(Worths(<<>>)) = 0
    <3>1. [k \in DOMAIN <<>> |-> balance(<<>>[k])] = <<>>
      OBVIOUS
    <3> QED
      BY <1>7, <2>2, <3>1, SumEmpty DEF BalanceOf
  <2> QED
    BY <2>1, <2>2, <2>3
<1>9. ASSUME NEW n \in 0 .. (N - 1), Right(n) PROVE Right(n + 1)
  <2>1. n + 1 \in 1 .. N /\ n \in 0 .. N /\ (n + 1) - 1 = n /\ n \in Nat /\ n + 1 # 0
    BY <1>1
  <2> DEFINE m == n + 1
             o == FlattenSeq(P(n))
             x == ss[m]
  <2>2. P(m) = Append(P(n), x) /\ P(n) \in Seq(Seq(Output(H))) /\ x \in Seq(Output(H)) /\ Apart(x)
        /\ SumOf(Worths(x)) = balance(spend[m]) /\ Q(m) = Append(Q(n), spend[m]) /\ Q(n) \in Seq(S)
        /\ Range(x) # {}
    BY <1>3, <1>6, <1>7, <2>1
  <2>3. FlattenSeq(P(m)) = o \o x
    BY <2>2, FlattenAppend
  <2>4. /\ o \in Seq(Output(H)) /\ Apart(o) /\ SumOf(Worths(o)) = BalanceOf(Q(n))
        /\ \A y \in Range(o) : \E k \in 1 .. n : \E u \in Range(spend[k].utxo_set) :
              y = [hash |-> spend[k].hash, index |-> u.index, out |-> u.out]
    BY <1>9
  <2>5. \A y \in Range(x) : \E u \in Range(spend[m].utxo_set) :
              y = [hash |-> spend[m].hash, index |-> u.index, out |-> u.out]
    BY <1>3, <2>1
  <2>6. \A i \in DOMAIN o, j \in DOMAIN x : o[i].hash # x[j].hash
    <3> TAKE i \in DOMAIN o, j \in DOMAIN x
    <3>1. o[i] \in Range(o) /\ x[j] \in Range(x)
      BY DEF Range
    <3> HIDE DEF o, x
    <3>2. PICK k \in 1 .. n : o[i].hash = spend[k].hash
      BY <2>4, <3>1
    <3>3. x[j].hash = spend[m].hash
      BY <2>5, <3>1
    <3>4. k \in DOMAIN spend /\ m \in DOMAIN spend /\ k # m
      BY <1>1, <2>1
    <3> QED
      BY <3>2, <3>3, <3>4 DEF IsCoinList
  <2>7. spend[m] \in S
    BY <1>1, <2>1 DEF S, Range
  <2> HIDE DEF o, x, m
  <2>8. /\ o \o x \in Seq(Output(H)) /\ Apart(o \o x)
        /\ SumOf(Worths(o \o x)) = SumOf(Worths(o)) + SumOf(Worths(x))
        /\ Range(o \o x) = Range(o) \cup Range(x)
    BY <2>2, <2>4, <2>6, JoinedOutputs
  <2>9. BalanceOf(Q(m)) = BalanceOf(Q(n)) + balance(spend[m])
    BY <1>2, <2>2, <2>7, BalanceAppend
  <2>10. SumOf(Worths(o \o x)) = BalanceOf(Q(m))
    BY <2>2, <2>4, <2>8, <2>9
  <2>11. \A y \in Range(o \o x) : \E k \in 1 .. m : \E u \in Range(spend[k].utxo_set) :
              y = [hash |-> spend[k].hash, index |-> u.index, out |-> u.out]
    <3> TAKE y \in Range(o \o x)
    <3>1. CASE y \in Range(o)
      <4>1. PICK k \in 1 .. n : \E u \in Range(spend[k].utxo_set) :
              y = [hash |-> spend[k].hash, index |-> u.index, out |-> u.out]
        BY <2>4, <3>1
      <4>2. k \in 1 .. m
        BY <2>1 DEF m
      <4> QED
        BY <4>1, <4>2
    <3>2. CASE y \in Range(x)
      <4>1. m \in 1 .. m
        BY <2>1 DEF m
      <4> QED
        BY <2>5, <3>2, <4>1
    <3> QED
      BY <2>8, <3>1, <3>2
  <2>12. Range(o \o x) # {}
    BY <2>2, <2>8
  <2>13. Right(m)
    BY <2>3, <2>8, <2>10, <2>11, <2>12
  <2> QED
    BY <2>13 DEF m
<1> DEFINE G == {n \in 0 .. N : Right(n)}
<1>10. Right(N)
  <2> HIDE DEF Right
  <2>1. 0 \in G /\ \A n \in 0 .. (N - 1) : n \in G => n + 1 \in G
    BY <1>1, <1>8, <1>9
  <2> HIDE DEF G
  <2>2. 0 .. N \subseteq G
    BY <1>1, <2>1, UpTo
  <2>3. N \in G
    BY <1>1, <2>2
  <2> QED
    BY <2>3 DEF G
<1>11. spend # <<>> => N # 0
  BY <1>1, <1>2
<1>12. /\ os \in Seq(Output(H)) /\ Apart(os) /\ SumOf(Worths(os)) = BalanceOf(spend)
       /\ \A x \in Range(os) : \E k \in 1 .. N : \E u \in Range(spend[k].utxo_set) :
              x = [hash |-> spend[k].hash, index |-> u.index, out |-> u.out]
       /\ N # 0 => Range(os) # {}
  BY <1>5, <1>6, <1>7, <1>10
<1>13. spend # <<>> => os # <<>>
  BY <1>11, <1>12, RangeIs
<1> QED
  BY <1>1, <1>12, <1>13 DEF os, H, S

\* The script that pays an address is standard.
LEMMA PubkeyScriptIs ==
    ASSUME NEW address \in Seq(Int), generate_pubkey_script(address).st = "ok"
    PROVE  LET script == generate_pubkey_script(address).val
           IN script \in Seq(Int) /\ Standard(script)
<1> DEFINE h == SubSeq(address, 2, Len(address) - 4)
           k == PayScript(h)
<1>1. PICK m \in Nat : m = HashLen /\ m > 1
  BY LengthsAssumption
<1>2. validate_address(address) /\ generate_pubkey_script(address) = Ok(k)
  BY DEF generate_pubkey_script, get_pubkey_hash_from_address, PayScript, Ok, Error
<1>3. Len(address) = 1 + HashLen + 4
  BY <1>2 DEF validate_address
<1>4. IsCut(Int, address, 1, m, h)
  <2>1. 1 + m <= Len(address) /\ 1 \in Nat /\ 2 = 1 + 1 /\ Len(address) - 4 = 1 + m
    BY <1>1, <1>3
  <2>2. IsCut(Int, address, 1, m, SubSeq(address, 1 + 1, 1 + m))
    BY <1>1, <2>1, CutOut
  <2> QED
    BY <2>1, <2>2
<1> HIDE DEF h
<1>5. h \in Seq(Int) /\ Len(h) = m
  BY <1>4 DEF IsCut
<1>6. /\ k \in Seq(Int) /\ Len(k) = m + 5 /\ k[1] = OP_DUP /\ k[2] = OP_HASH160 /\ k[3] = m
      /\ k[m + 4] = OP_EQUALVERIFY /\ k[m + 5] = OP_CHECKSIG
  BY <1>1, <1>5, PayScriptIs
<1> HIDE DEF k
<1>7. Standard(k)
  <2>1. (m + 5) - 1 = m + 4 /\ (m + 5) - 5 = m
    BY <1>1
  <2>2. k[1] # 0
    BY <1>6 DEF OP_DUP
  <2> QED
    BY <1>6, <2>1, <2>2 DEF Standard
<1>8. Ok(k).val = k
  BY DEF Ok
<1> QED
  BY <1>2, <1>6, <1>7, <1>8

\* A transaction that spends the outputs os of the account, each input with
\* its script.
InputFor(o, script) == [hash |-> o.hash, index |-> o.index, script |-> script]
Spends(tx, os) ==
    /\ IsList(tx.ins) /\ DOMAIN tx.ins = DOMAIN os
    /\ \A i \in DOMAIN os : tx.ins[i] = InputFor(os[i], tx.ins[i].script)

\* What the wallet signs for input i: the transaction with only the script of
\* the output that it spends.
ToSign(os, outs, i, script) ==
    [ins |-> [j \in DOMAIN os |-> InputFor(os[j], IF j = i THEN script ELSE <<>>)], outs |-> outs]

\* tx spends the outputs of spend, part of coins, worth at least value, and is
\* signed with key.
Pays(tx, coins, spend, value, key) ==
    LET os == Outputs(spend)
    IN /\ PartOf(spend, coins) /\ os # <<>>
       /\ BalanceOf(spend) \in Int /\ BalanceOf(spend) >= value
       /\ tx = [ins |-> tx.ins, outs |-> tx.outs]
       /\ GoodTx(tx) /\ Spends(tx, os) /\ tx.outs[2].value = BalanceOf(spend) - value
       /\ \A i \in DOMAIN os :
             LET scripts == UNION {find(spend[k], os[i].hash, os[i].index) : k \in DOMAIN spend}
                 script == CHOOSE s \in scripts : TRUE
             IN tx.ins[i].script = generate_sig_script(ToSign(os, tx.outs, i, script), key)
       /\ \A i \in DOMAIN os : os[i].out.script[1] = OP_DUP

\* The transaction that an account makes.
LEMMA PaymentIs ==
    ASSUME NEW account, account.address \in Seq(Int), NEW coins, IsCoinList(coins),
           NEW to \in Seq(Int), NEW amount \in Int, NEW fee \in Int, amount + fee > 0,
           Account_make_transaction(account, coins, to, amount, fee).st = "ok"
    PROVE  Pays(Account_make_transaction(account, coins, to, amount, fee).val, coins,
                get_utxos_for_amount(coins, amount + fee), amount + fee, decode_wif_private_key(account.private_key).val)
<1> DEFINE spend == get_utxos_for_amount(coins, amount + fee)
           os == Outputs(spend)
           key == decode_wif_private_key(account.private_key).val
           unsigned == generate_unsigned_transaction(to, account.address, amount, fee, spend)
           u == unsigned.val
           signed == sign(u, key, spend)
           pay == generate_pubkey_script(to)
           change == generate_pubkey_script(account.address)
           rest == BalanceOf(spend) - (amount + fee)
           outs == <<[value |-> amount, script |-> pay.val], [value |-> rest, script |-> change.val]>>
           none == [i \in DOMAIN os |-> incomplete_txin(os[i])]
           S(i) == CHOOSE s \in UNION {find(spend[k], os[i].hash, os[i].index) : k \in DOMAIN spend} : TRUE
           sig(i) == generate_sig_script(ToSign(os, outs, i, S(i)), key)
           ins == [i \in DOMAIN os |-> InputFor(os[i], sig(i))]
<1>1. /\ has_balance(coins, amount + fee) /\ unsigned.st = "ok" /\ validate(signed, spend)
      /\ Account_make_transaction(account, coins, to, amount, fee) = Ok(signed)
  BY DEF Account_make_transaction, Error
<1>2. pay.st = "ok" /\ change.st = "ok" /\ u = [ins |-> none, outs |-> outs]
  BY <1>1 DEF generate_unsigned_transaction, Error, Ok
<1>3. /\ PartOf(spend, coins) /\ spend # <<>> /\ BalanceOf(spend) \in Int /\ BalanceOf(spend) >= amount + fee
  <2>1. amount + fee \in Int
    OBVIOUS
  <2> QED
    BY <1>1, <2>1, SpendIs
<1>4. Account_make_transaction(account, coins, to, amount, fee).val = signed
  BY <1>1 DEF Ok
<1> HIDE DEF spend, unsigned
<1> DEFINE H == {t.hash : t \in Range(spend)}
<1>5. os \in Seq(Output(H)) /\ os # <<>>
  BY <1>3, OutputsAre DEF PartOf
<1> HIDE DEF H, os
<1>6. PICK N \in Nat : DOMAIN os = 1 .. N
  BY <1>5
<1>7. ASSUME NEW i \in DOMAIN os PROVE generate_message_to_sign(u, i, spend) = ToSign(os, outs, i, S(i))
  <2> DEFINE s == S(i)
             a == [none EXCEPT ![i].script = s]
             b == [j \in DOMAIN os |-> InputFor(os[j], IF j = i THEN s ELSE <<>>)]
  <2>1. u.ins = none /\ u.outs = outs /\ none[i].hash = os[i].hash /\ none[i].index = os[i].index
    BY <1>2 DEF incomplete_txin
  <2> DEFINE scripts == UNION {find(spend[k], u.ins[i].hash, u.ins[i].index) : k \in DOMAIN spend}
             m == CHOOSE x \in scripts : TRUE
  <2>2. generate_message_to_sign(u, i, spend) = [u EXCEPT !.ins[i].script = m] /\ m = s
    <3>1. generate_message_to_sign(u, i, spend) = [u EXCEPT !.ins[i].script = m]
      BY DEF generate_message_to_sign
    <3>2. u.ins[i].hash = os[i].hash /\ u.ins[i].index = os[i].index
      BY <2>1
    <3> HIDE DEF u, none
    <3>3. m = s
      BY <3>2
    <3> QED
      BY <3>1, <3>3
  <2> HIDE DEF s, m, outs, none
  <2>3. [u EXCEPT !.ins[i].script = s] = [ins |-> a, outs |-> outs]
    <3> DEFINE w == [ins |-> none, outs |-> outs]
    <3>1. u = w
      BY <1>2
    <3>2. [w EXCEPT !.ins[i].script = s] = [ins |-> a, outs |-> outs]
      OBVIOUS
    <3> HIDE DEF u, w, a
    <3> QED
      BY <3>1, <3>2
  <2>4. a = b
    <3> USE DEF none
    <3>1. \A j \in DOMAIN os : a[j] = b[j]
      <4> TAKE j \in DOMAIN os
      <4>1. CASE j = i
        BY <4>1 DEF InputFor, incomplete_txin
      <4>2. CASE j # i
        BY <4>2 DEF InputFor, incomplete_txin
      <4> QED
        BY <4>1, <4>2
    <3> QED
      BY <3>1
  <2> HIDE DEF a
  <2>5. [ins |-> a, outs |-> outs] = ToSign(os, outs, i, s)
    BY <2>4 DEF ToSign
  <2> HIDE DEF u
  <2> QED
    BY <2>2, <2>3, <2>5 DEF s
<1>8. signed = [ins |-> ins, outs |-> outs]
  <2> DEFINE c(i) == generate_sig_script(generate_message_to_sign(u, i, spend), key)
             d == [i \in DOMAIN none |-> [none[i] EXCEPT !.script = c(i)]]
  <2>1. signed = [u EXCEPT !.ins = d]
    BY <1>2 DEF sign
  <2>2. ASSUME NEW i \in DOMAIN os PROVE [none[i] EXCEPT !.script = c(i)] = InputFor(os[i], sig(i))
    <3>1. c(i) = sig(i)
      BY <1>7
    <3> DEFINE x == sig(i)
    <3> HIDE DEF c, x
    <3>2. [none[i] EXCEPT !.script = x] = InputFor(os[i], x)
      BY DEF InputFor, incomplete_txin
    <3> QED
      BY <3>1, <3>2 DEF x
  <2> HIDE DEF c, sig
  <2>3. d = ins
    BY <2>2
  <2> HIDE DEF d, ins, outs, none
  <2> QED
    BY <1>2, <2>1, <2>3
<1>9. signed.ins = ins /\ signed.outs = outs /\ signed = [ins |-> signed.ins, outs |-> signed.outs]
  <2> HIDE DEF ins, outs, signed
  <2> QED
    BY <1>8
<1>10. \A i \in DOMAIN os : ins[i] = InputFor(os[i], sig(i)) /\ ins[i].script = sig(i)
  <2> HIDE DEF sig
  <2> QED
    BY DEF InputFor
<1>11. IsList(ins) /\ DOMAIN ins = DOMAIN os
  <2>1. ins = [i \in 1 .. N |-> ins[i]]
    BY <1>6
  <2> HIDE DEF ins
  <2>2. IsList(ins) /\ DOMAIN ins = 1 .. N
    BY <2>1, ListOf
  <2> QED
    BY <1>6, <2>2
<1>12. outs \in Seq(GoodOut) /\ outs[2].value = rest
  <2>1. pay.val \in Seq(Int) /\ Standard(pay.val) /\ change.val \in Seq(Int) /\ Standard(change.val)
    BY <1>2, PubkeyScriptIs
  <2> HIDE DEF pay, change
  <2>2. rest \in Int
    BY <1>3
  <2> HIDE DEF rest
  <2> DEFINE first == [value |-> amount, script |-> pay.val]
             second == [value |-> rest, script |-> change.val]
  <2>3. first \in GoodOut /\ second \in GoodOut /\ second.value = rest
    BY <2>1, <2>2 DEF GoodOut, TxOut
  <2> HIDE DEF first, second
  <2>4. <<first, second>> \in Seq(GoodOut) /\ <<first, second>>[2] = second
    BY <2>3
  <2> QED
    BY <2>3, <2>4 DEF first, second
<1>13. \A i \in DOMAIN os : os[i].out.script[1] = OP_DUP
  <2> TAKE i \in DOMAIN os
  <2>1. p2pkh_validate(os[i].out.script, ins[i].script) = Ok(TRUE)
    BY <1>1, <1>9, <1>11 DEF validate, os
  <2> DEFINE s == os[i].out.script
             x == ins[i].script
  <2> HIDE DEF s, x, ins
  <2>2. p2pkh_validate(s, x) = Ok(TRUE)
    BY <2>1 DEF s, x
  <2>3. Ok(FALSE) # Ok(TRUE) /\ Panic # Ok(TRUE)
    BY DEF Ok, Panic
  <2>4. s[1] = OP_DUP
    <3>1. s[1] # OP_DUP => p2pkh_validate(s, x) = Ok(FALSE)
      BY DEF p2pkh_validate
    <3> QED
      BY <2>2, <2>3, <3>1
  <2> QED
    BY <2>4 DEF s
<1> HIDE DEF ins, outs, sig, u, signed
<1>14. GoodTx(signed)
  BY <1>9, <1>11, <1>12 DEF GoodTx
<1>15. Spends(signed, os)
  BY <1>9, <1>10, <1>11 DEF Spends
<1>16. \A i \in DOMAIN os : signed.ins[i].script = generate_sig_script(ToSign(os, signed.outs, i, S(i)), key)
  BY <1>9, <1>10 DEF sig
<1> HIDE DEF S, rest, key
<1>17. signed.outs[2].value = rest
  BY <1>9, <1>12
<1>18. Pays(signed, coins, spend, amount + fee, key)
  BY <1>3, <1>5, <1>9, <1>13, <1>14, <1>15, <1>16, <1>17 DEF Pays, os, rest, S
<1> QED
  BY <1>4, <1>18 DEF spend, key

(***************************************************************************)
(* The invariant.                                                          *)
(***************************************************************************)
\* The scripts of the transactions of others.
StandardScripts == \A tx \in Confirmed \cup Incoming : \A k \in DOMAIN tx.outs : Standard(tx.outs[k].script)

\* A payment and a key are those the user may enter.
Entered(e) ==
    /\ Send(e) => e.payment \in Payments
    /\ Login(e) => e.wif \in {l.wif : l \in Logins}

\* The transactions have lists of inputs and outputs.
TxsInv == (\A t \in KnownTxs : GoodTx(t)) /\ \A k \in DOMAIN toWallet : Entered(toWallet[k])

\* An account has coins, and the address of its key.
Keyed(a) ==
    LET key == decode_wif_private_key(a.private_key).val
    IN key \in Keys /\ a.address = generate_address(key)
Coined(a) == GoodCoins(a.utxo_set) /\ (\A t \in a.utxo_set : t.utxo_set # <<>>) /\ Keyed(a)

CoinsInv ==
    /\ GoodCoins(utxo_set)
    /\ \A i \in DOMAIN accounts : Coined(accounts[i])
    /\ wallet.at = "adding" => Coined(wallet.account)

\* Its coins are the unspent outputs that pay its address, but for the time
\* between the two steps of a block that change them, and for an account that
\* is added with coins from before them.
Exact(a) == a.utxo_set = utxos_referenced_to_account(utxo_set, a.address)
ExactInv ==
    /\ handler.at # "accounts" => \A i \in DOMAIN accounts \ raced : Exact(accounts[i])
    /\ wallet.at = "adding" /\ Len(accounts) + 1 \notin raced => Exact(wallet.account)

CoinInv == TxsInv /\ CoinsInv /\ ExactInv

--------------------------------------------------------------------------------
\* The coins stay as they are.
LEMMA CoinsKept ==
    ASSUME CoinsInv, ExactInv, UNCHANGED <<utxo_set, wallet, raced>>, SameNames, SameCoins,
           handler'.at # "accounts" => handler.at # "accounts"
    PROVE  CoinsInv' /\ ExactInv'
<1>1. /\ DOMAIN accounts' = DOMAIN accounts /\ Len(accounts') = Len(accounts)
      /\ utxo_set' = utxo_set /\ wallet' = wallet /\ raced' = raced
  BY DEF SameNames
<1>2. ASSUME NEW i \in DOMAIN accounts
      PROVE  /\ Coined(accounts[i]) => Coined(accounts'[i])
             /\ Exact(accounts[i]) => Exact(accounts[i])'
  <2>1. /\ accounts'[i].address = accounts[i].address /\ accounts'[i].private_key = accounts[i].private_key
        /\ accounts'[i].utxo_set = accounts[i].utxo_set
    BY DEF SameNames, SameCoins
  <2> QED
    BY <1>1, <2>1 DEF Coined, Keyed, Exact
<1>3. CoinsInv'
  BY <1>1, <1>2 DEF CoinsInv
<1>4. ExactInv'
  BY <1>1, <1>2 DEF ExactInv, Exact
<1> QED
  BY <1>3, <1>4

\* Requests are taken, or sent that may be entered.
LEMMA TxsKept ==
    ASSUME TxsInv, NEW d, NEW E, Moved(toWallet, toWallet', d, E), \A e \in E : Entered(e),
           made' = made
    PROVE  TxsInv'
<1>1. \A i \in DOMAIN toWallet' : toWallet'[i] \in E \/ (i + d \in DOMAIN toWallet /\ toWallet'[i] = toWallet[i + d])
  BY OldEvents
<1>2. \A k \in DOMAIN toWallet' : Entered(toWallet'[k])
  BY <1>1 DEF TxsInv
<1>3. KnownTxs' = KnownTxs
  BY KnownStays
<1> QED
  BY <1>2, <1>3 DEF TxsInv

\* Only events have been sent.
LEMMA EventsKeepCoins ==
    ASSUME CoinInv, ShapeInv, UNCHANGED <<utxo_set, accounts, wallet, raced, handler, made>>,
           NEW d, NEW E, Moved(toWallet, toWallet', d, E), \A e \in E : Entered(e)
    PROVE  CoinInv'
<1>1. SameNames /\ SameCoins
  BY DEF SameNames, SameCoins, ShapeInv
<1>2. TxsInv'
  BY TxsKept DEF CoinInv
<1>3. CoinsInv' /\ ExactInv'
  BY <1>1, CoinsKept DEF CoinInv
<1> QED
  BY <1>2, <1>3 DEF CoinInv

\* The user clicks.
LEMMA ClickCoins ==
    ASSUME CoinInv, ShapeInv, NEW button, NEW bound, Click(button, bound), NEW e, Request(e), Entered(e)
    PROVE  CoinInv'
<1>1. UNCHANGED <<utxo_set, accounts, wallet, raced, handler, made>> /\ toWallet' = Append(toWallet, e)
  BY DEF Click, Request, chainVars, walletVars, histVars
<1>2. Moved(toWallet, toWallet', 0, {e})
  BY <1>1, MovedAppend DEF ShapeInv
<1>3. \A x \in {e} : Entered(x)
  OBVIOUS
<1> QED
  BY <1>1, <1>2, <1>3, EventsKeepCoins

\* A click of the user leaves the coins alone.
LEMMA ClicksCoins == ASSUME CoinInv, WalletInv, Clicks PROVE CoinInv'
<1>1. ShapeInv
  BY DEF WalletInv
<1>2. ASSUME NEW l \in Logins, login_button_clicked(l) PROVE CoinInv'
  <2> DEFINE e == [type |-> "AddAccountRequest", wif |-> l.wif, address |-> l.address]
  <2>1. Click("login", MaxLogins) /\ Request(e) /\ Entered(e)
    BY <1>2 DEF login_button_clicked, Entered, Send
  <2> HIDE DEF e
  <2> QED
    BY <1>1, <2>1, ClickCoins
<1>3. ASSUME NEW p \in Payments, send_button_clicked(p) PROVE CoinInv'
  <2> DEFINE e == [type |-> "MakeTransaction", payment |-> p, shown |-> ui.selected]
  <2>1. Click("send", MaxSends) /\ Request(e) /\ Entered(e)
    BY <1>3 DEF send_button_clicked, Entered, Login
  <2> HIDE DEF e
  <2> QED
    BY <1>1, <2>1, ClickCoins
<1>4. ASSUME NEW i, dropdown_accounts_changed(i) PROVE CoinInv'
  <2> DEFINE e == [type |-> "ChangeAccount", index |-> i]
  <2>1. Click("select", MaxSelects) /\ Request(e) /\ Entered(e)
    BY <1>4 DEF dropdown_accounts_changed, Entered, Send, Login
  <2> HIDE DEF e
  <2> QED
    BY <1>1, <2>1, ClickCoins
<1>5. ASSUME NEW b, search_blocks_button_clicked(b) PROVE CoinInv'
  <2> DEFINE e == [type |-> "SearchBlock", hash |-> b, listed |-> Contains(ui.blocks, b)]
  <2>1. Click("search", MaxSearches) /\ Request(e) /\ Entered(e)
    BY <1>5 DEF search_blocks_button_clicked, Entered, Send, Login
  <2> HIDE DEF e
  <2> QED
    BY <1>1, <2>1, ClickCoins
<1>6. ASSUME NEW b, search_headers_button_clicked(b) PROVE CoinInv'
  <2> DEFINE e == [type |-> "SearchHeader", hash |-> b, listed |-> Contains(ui.blocks, b)]
  <2>1. Click("search", MaxSearches) /\ Request(e) /\ Entered(e)
    BY <1>6 DEF search_headers_button_clicked, Entered, Send, Login
  <2> HIDE DEF e
  <2> QED
    BY <1>1, <2>1, ClickCoins
<1>7. ASSUME NEW b, NEW tx, search_tx_poi_button_clicked(b, tx) PROVE CoinInv'
  <2> DEFINE e == [type |-> "PoiOfTransactionRequest", hash |-> b, tx |-> tx, listed |-> Contains(ui.blocks, b)]
  <2>1. Click("search", MaxSearches) /\ Request(e) /\ Entered(e)
    BY <1>7 DEF search_tx_poi_button_clicked, Entered, Send, Login
  <2> HIDE DEF e
  <2> QED
    BY <1>1, <2>1, ClickCoins
<1> QED
  BY <1>2, <1>3, <1>4, <1>5, <1>6, <1>7 DEF Clicks

\* The interface handles an event.
LEMMA UIStepCoins == ASSUME CoinInv, WalletInv, UIStep PROVE CoinInv'
<1>1. ShapeInv
  BY DEF WalletInv
<1>2. ASSUME NEW types, OnUIEvent(types), Asks PROVE CoinInv'
  <2>1. UNCHANGED <<utxo_set, accounts, wallet, raced, handler, made>>
    BY <1>2 DEF OnUIEvent, chainVars, walletVars, histVars
  <2>2. PICK E : Moved(toWallet, toWallet', 0, E) /\ \A e \in E : ~Send(e) /\ ~Login(e)
    BY <1>1, <1>2, AsksMoves
  <2>3. \A e \in E : Entered(e)
    BY <2>2 DEF Entered
  <2> QED
    BY <1>1, <2>1, <2>2, <2>3, EventsKeepCoins
<1>3. CASE render_main_window
  BY <1>2, <1>3 DEF render_main_window, Asks
<1>4. CASE account_tab
  BY <1>2, <1>4 DEF account_tab, Asks
<1>5. CASE account_changed
  BY <1>2, <1>5 DEF account_changed, Asks
<1>6. CASE render_transactions
  BY <1>2, <1>6 DEF render_transactions, Asks
<1>7. CASE handle_add_block
  BY <1>2, <1>7 DEF handle_add_block, Asks
<1>8. CASE transactions_changed
  BY <1>2, <1>8 DEF transactions_changed, Asks
<1>9. CASE show_dialog_message_pop_up
  BY <1>2, <1>9 DEF show_dialog_message_pop_up, Asks
<1> QED
  BY <1>3, <1>4, <1>5, <1>6, <1>7, <1>8, <1>9 DEF UIStep

\* The wallet takes a request that changes no account.
LEMMA AnswerCoins ==
    ASSUME CoinInv, ShapeInv, NEW type, OnWalletEvent(type), UNCHANGED <<accounts, wallet, made, raced>>
    PROVE  CoinInv'
<1>1. Moved(toWallet, toWallet', 1, {}) /\ UNCHANGED <<chainVars, handler>>
  BY WalletTakes
<1>2. UNCHANGED <<utxo_set, accounts, wallet, raced, handler, made>>
  BY <1>1 DEF chainVars
<1> QED
  BY <1>1, <1>2, EventsKeepCoins

\* So does an event that the wallet only answers.
LEMMA AnswersCoins ==
    ASSUME CoinInv, WalletInv,
           \/ change_account \/ get_current_account \/ handle_get_transactions
           \/ handle_search_block \/ handle_search_header \/ handle_poi
    PROVE  CoinInv'
<1>1. ShapeInv
  BY DEF WalletInv
<1>2. CASE change_account
  <2>1. OnWalletEvent("ChangeAccount") /\ UNCHANGED <<accounts, wallet, made, raced>>
    BY <1>2 DEF change_account, histVars
  <2> QED
    BY <1>1, <2>1, AnswerCoins
<1>3. CASE get_current_account
  <2>1. OnWalletEvent("GetAccountRequest") /\ UNCHANGED <<accounts, wallet, made, raced>>
    BY <1>3 DEF get_current_account, walletVars, histVars
  <2> QED
    BY <1>1, <2>1, AnswerCoins
<1>4. CASE handle_get_transactions
  <2>1. OnWalletEvent("GetTransactionsRequest") /\ UNCHANGED <<accounts, wallet, made, raced>>
    BY <1>4 DEF handle_get_transactions, walletVars
  <2> QED
    BY <1>1, <2>1, AnswerCoins
<1>5. CASE handle_search_block
  <2>1. OnWalletEvent("SearchBlock") /\ UNCHANGED <<accounts, wallet, made, raced>>
    BY <1>5 DEF handle_search_block, walletVars, histVars
  <2> QED
    BY <1>1, <2>1, AnswerCoins
<1>6. CASE handle_search_header
  <2>1. OnWalletEvent("SearchHeader") /\ UNCHANGED <<accounts, wallet, made, raced>>
    BY <1>6 DEF handle_search_header, walletVars, histVars
  <2> QED
    BY <1>1, <2>1, AnswerCoins
<1>7. CASE handle_poi
  <2>1. OnWalletEvent("PoiOfTransactionRequest") /\ UNCHANGED <<accounts, wallet, made, raced>>
    BY <1>7 DEF handle_poi, walletVars, histVars
  <2> QED
    BY <1>1, <2>1, AnswerCoins
<1> QED
  BY <1>2, <1>3, <1>4, <1>5, <1>6, <1>7

--------------------------------------------------------------------------------
\* The coins of the address are read, and the address is that of the key.
LEMMA AddAccountCoins == ASSUME CoinInv, WalletInv, add_account PROVE CoinInv'
<1>1. ShapeInv
  BY DEF WalletInv
<1>2. /\ OnWalletEvent("AddAccountRequest") /\ UNCHANGED <<accounts, made, raced>>
  BY DEF add_account, histVars
<1> DEFINE e == Head(toWallet)
           new == new_account(e.wif, e.address)
           a == [new.val EXCEPT !.utxo_set = utxos_referenced_to_account(utxo_set, new.val.address)]
<1>3. CASE wallet' = wallet
  BY <1>1, <1>2, <1>3, AnswerCoins
<1>4. CASE new.st = "ok" /\ wallet' = [at |-> "adding", account |-> a]
  <2>1. Moved(toWallet, toWallet', 1, {}) /\ UNCHANGED <<chainVars, handler>>
    BY <1>1, <1>2, WalletTakes
  <2>2. UNCHANGED <<utxo_set, accounts, raced, handler, made>>
    BY <1>2, <2>1 DEF chainVars
  <2>3. TxsInv'
    BY <2>1, <2>2, TxsKept DEF CoinInv
  <2> DEFINE val == [address |-> e.address, private_key |-> e.wif, utxo_set |-> {}, pending |-> <<>>, confirmed |-> <<>>]
             key == decode_wif_private_key(e.wif)
             U == utxos_referenced_to_account(utxo_set, e.address)
  <2>4. new.val = val /\ key.st = "ok" /\ generate_address(key.val) = e.address
    BY <1>4 DEF new_account, validate_address_private_key, Ok, Error
  <2>5. GoodCoins(U) /\ \A t \in U : t.utxo_set # <<>>
    BY ReferencedIs DEF CoinInv, CoinsInv
  <2>12. key.val \in Keys
    <3>1. 1 \in DOMAIN toWallet /\ e = toWallet[1] /\ Login(toWallet[1])
      BY <1>1, <1>2, WalletTakes DEF Login
    <3> HIDE DEF e
    <3>2. e.wif \in {l.wif : l \in Logins}
      BY <3>1 DEF CoinInv, TxsInv, Entered
    <3> QED
      BY <2>4, <3>2 DEF Keys
  <2> HIDE DEF new, e, key
  <2>6. a.address = e.address /\ a.private_key = e.wif /\ a.utxo_set = U
    BY <2>4
  <2> HIDE DEF val, a, U
  <2>7. Coined(a)
    BY <2>4, <2>5, <2>12, <2>6 DEF Coined, Keyed, key
  <2>8. a.utxo_set = utxos_referenced_to_account(utxo_set, a.address)
    BY <2>6 DEF U
  <2>9. wallet'.account = a
    BY <1>4
  <2>10. CoinsInv'
    BY <2>2, <2>7, <2>9 DEF CoinInv, CoinsInv
  <2>11. ExactInv'
    BY <2>2, <2>8, <2>9 DEF CoinInv, ExactInv, Exact
  <2> QED
    BY <2>3, <2>10, <2>11 DEF CoinInv
<1> QED
  BY <1>3, <1>4 DEF add_account

\* The account is added with the coins that were read.
LEMMA PushAccountCoins == ASSUME CoinInv, WalletInv, push_account PROVE CoinInv'
<1> DEFINE a == wallet.account
<1>1. IsList(accounts) /\ accounts' = Append(accounts, a) /\ wallet.at = "adding"
  BY DEF push_account, WalletInv, ShapeInv
<1>2. UNCHANGED <<utxo_set, raced, handler, made, toWallet>> /\ wallet'.at = "loop"
  BY DEF push_account, chainVars, histVars
<1>3. PICK N \in Nat : N = Len(accounts) /\ DOMAIN accounts = 1 .. N
  BY <1>1 DEF IsList
<1> HIDE DEF a
<1>4. /\ DOMAIN accounts' = 1 .. (N + 1) /\ accounts'[N + 1] = a
      /\ \A i \in 1 .. N : accounts'[i] = accounts[i]
  BY <1>1, <1>3, ListAppend
<1>5. \A i \in 1 .. (N + 1) : i \in 1 .. N \/ i = N + 1
  OBVIOUS
<1>6. TxsInv'
  <2>1. KnownTxs' = KnownTxs
    BY <1>2, KnownStays
  <2> QED
    BY <1>2, <2>1 DEF CoinInv, TxsInv
<1>7. Coined(a) /\ (N + 1 \notin raced => Exact(a))
  BY <1>1, <1>3 DEF a, CoinInv, CoinsInv, ExactInv
<1>8. \A i \in 1 .. (N + 1) : Coined(accounts'[i])
  BY <1>3, <1>4, <1>5, <1>7 DEF CoinInv, CoinsInv
<1>9. CoinsInv'
  BY <1>2, <1>4, <1>8 DEF CoinInv, CoinsInv
<1>10. ASSUME handler.at # "accounts", NEW i \in (1 .. (N + 1)) \ raced PROVE Exact(accounts'[i])
  BY <1>3, <1>4, <1>5, <1>7, <1>10 DEF CoinInv, ExactInv
<1>11. ExactInv'
  BY <1>2, <1>4, <1>10 DEF ExactInv, Exact
<1> QED
  BY <1>6, <1>9, <1>11 DEF CoinInv

\* The peer's thread leaves the requests, the account that is being added and
\* the payments alone.
LEMMA PeerTxs ==
    ASSUME TxsInv, UNCHANGED <<toWallet, made>>
    PROVE  TxsInv'
BY KnownStays DEF TxsInv

\* A step that does not concern the coins.
LEMMA PeerCoins ==
    ASSUME CoinInv, UNCHANGED <<utxo_set, wallet, raced, toWallet, made>>, SameNames, SameCoins,
           handler'.at # "accounts" => handler.at # "accounts"
    PROVE  CoinInv'
BY CoinsKept, PeerTxs DEF CoinInv

\* So do the steps of a peer that do not touch the unspent outputs or the
\* accounts' coins.
LEMMA QuietPeerCoins ==
    ASSUME CoinInv, WalletInv, PlaceInv,
           \/ \E tx \in Incoming : handle_tx_message(tx)
           \/ \E b \in 1 .. (headers + 1) : handle_headers_message(b)
           \/ \E txs \in BlockLists : handle_block_message(txs)
           \/ involves_user_account \/ push_pending \/ contains_pending_tx \/ push_confirmed \/ include_new_block
    PROVE  CoinInv'
<1>1. ASSUME accounts' = accounts PROVE SameNames /\ SameCoins
  BY <1>1 DEF SameNames, SameCoins, WalletInv, ShapeInv
<1>2. ASSUME NEW tx \in Incoming, handle_tx_message(tx) PROVE CoinInv'
  <2>1. /\ OnlyPeer /\ accounts' = accounts /\ handler.at = "idle"
    BY <1>2, TxMessageIs
  <2>2. UNCHANGED <<utxo_set, raced>>
    BY <1>2 DEF handle_tx_message, chainVars
  <2> QED
    BY <1>1, <2>1, <2>2, PeerCoins DEF OnlyPeer
<1>3. ASSUME NEW txs \in BlockLists, handle_block_message(txs) PROVE CoinInv'
  <2>1. /\ UNCHANGED <<accounts, wallet, toWallet, made>> /\ handler.at = "idle"
    BY <1>3, BlockMessageIs
  <2>2. UNCHANGED <<utxo_set, raced>>
    BY <1>3 DEF handle_block_message, histVars
  <2> QED
    BY <1>1, <2>1, <2>2, PeerCoins
<1>4. CASE involves_user_account
  <2>1. /\ OnlyPeer /\ accounts' = accounts /\ handler.at = "tx_check"
    BY <1>4, InvolvesIs
  <2>2. UNCHANGED <<utxo_set, raced>>
    BY <1>4 DEF involves_user_account, chainVars, histVars
  <2> QED
    BY <1>1, <2>1, <2>2, PeerCoins DEF OnlyPeer
<1>5. CASE push_pending
  <2>1. /\ OnlyPeer /\ SameNames /\ SameCoins /\ handler.at = "tx_push"
    BY <1>5, PushPendingIs
  <2>2. UNCHANGED <<utxo_set, raced>>
    BY <1>5 DEF push_pending, chainVars, histVars
  <2> QED
    BY <2>1, <2>2, PeerCoins DEF OnlyPeer
<1>6. CASE contains_pending_tx
  <2>1. /\ OnlyPeer /\ SameNames /\ SameCoins /\ handler.at = "confirm"
    BY <1>6, ContainsPendingIs
  <2>2. UNCHANGED <<utxo_set, raced>>
    BY <1>6 DEF contains_pending_tx, chainVars, histVars
  <2> QED
    BY <2>1, <2>2, PeerCoins DEF OnlyPeer
<1>7. CASE push_confirmed
  <2>1. /\ OnlyPeer /\ SameNames /\ SameCoins /\ handler.at = "confirm_push"
    BY <1>7, PushConfirmedIs
  <2>2. UNCHANGED <<utxo_set, raced>>
    BY <1>7 DEF push_confirmed, chainVars, histVars
  <2> QED
    BY <2>1, <2>2, PeerCoins DEF OnlyPeer
<1>8. CASE include_new_block
  <2>1. /\ UNCHANGED <<accounts, wallet, toWallet, made>> /\ handler.at = "include"
    BY <1>8, IncludeIs
  <2>2. UNCHANGED <<utxo_set, raced>>
    BY <1>8 DEF include_new_block, histVars
  <2> QED
    BY <1>1, <2>1, <2>2, PeerCoins
<1>9. ASSUME NEW b \in 1 .. (headers + 1), handle_headers_message(b) PROVE CoinInv'
  <2>1. /\ UNCHANGED <<accounts, wallet, toWallet, made, handler>> /\ handler.at = "idle"
    BY <1>9, HeaderIs DEF trackVars, handle_headers_message, OnPeer
  <2>2. UNCHANGED <<utxo_set, raced>>
    BY <1>9 DEF handle_headers_message
  <2> QED
    BY <1>1, <2>1, <2>2, PeerCoins
<1> QED
  BY <1>2, <1>3, <1>4, <1>5, <1>6, <1>7, <1>8, <1>9

\* The transactions of others have lists of standard outputs.
LEMMA OthersGood ==
    ASSUME StandardScripts, NEW tx \in Confirmed \cup Incoming
    PROVE  GoodTx(tx)
<1>1. tx.ins \in Seq(Range(tx.ins)) /\ tx.outs \in Seq([value : Int, script : Seq(Int)])
  BY WalletAssumption
<1> DEFINE outs == tx.outs
<1>2. PICK N \in Nat : N = Len(outs) /\ outs \in [1 .. N -> TxOut] /\ DOMAIN outs = 1 .. N
  <2>1. outs \in Seq(TxOut)
    BY <1>1 DEF TxOut
  <2> HIDE DEF outs
  <2> QED
    BY <2>1
<1>3. \A k \in 1 .. N : outs[k] \in GoodOut
  BY <1>2 DEF StandardScripts, GoodOut
<1>4. outs \in Seq(GoodOut)
  <2> HIDE DEF outs
  <2>1. outs \in [1 .. N -> GoodOut]
    BY <1>2, <1>3
  <2> QED
    BY <2>1
<1> QED
  BY <1>1, <1>4 DEF GoodTx, IsList

\* The coins of the chain that was downloaded.
LEMMA InitCoins == ASSUME StandardScripts, Init PROVE CoinInv
<1>1. /\ accounts = <<>> /\ toWallet = <<>> /\ made = <<>> /\ wallet.at = "loop"
      /\ utxo_set = UNION {load_utxos({}, tx) : tx \in {t \in Confirmed : DOMAIN blocks # {}}}
  BY DEF Init
<1>2. GoodCoins({})
  BY FS_EmptySet DEF GoodCoins
<1> DEFINE C == {t \in Confirmed : DOMAIN blocks # {}}
           L(tx) == load_utxos({}, tx)
           f == [tx \in C |-> L(tx)]
           Ls == {f[tx] : tx \in C}
<1>3. ASSUME NEW tx \in Confirmed PROVE GoodCoins(L(tx)) /\ \A q \in L(tx) : q.hash = tx
  <2>1. GoodTx(tx)
    BY OthersGood
  <2>2. /\ GoodCoins(L(tx)) /\ \A q \in L(tx) : q.hash = tx \/ \E t \in {} : q.hash = t.hash
    BY <1>2, <2>1, LoadIs
  <2> QED
    BY <2>2
<1>4. DOMAIN f = C /\ C \subseteq Confirmed /\ \A tx \in C : f[tx] = L(tx)
  OBVIOUS
<1>5. utxo_set = UNION Ls
  BY <1>1, <1>4
<1> HIDE DEF L, f, C
<1>6. IsFiniteSet(UNION Ls)
  <2>1. IsFiniteSet(C)
    BY <1>4, WalletAssumption, FS_Subset
  <2>2. IsFiniteSet(Ls)
    BY <1>4, <2>1, FiniteImage
  <2>3. \A S \in Ls : IsFiniteSet(S)
    BY <1>3, <1>4 DEF GoodCoins
  <2> HIDE DEF Ls
  <2> QED
    BY <2>2, <2>3, FS_UNION
<1>7. \A t \in UNION Ls : \E tx \in Confirmed : t \in L(tx)
  BY <1>4
<1>8. GoodCoins(utxo_set)
  <2>1. \A t \in utxo_set : IsTuple(t)
    BY <1>3, <1>5, <1>7 DEF GoodCoins
  <2>2. ASSUME NEW t \in utxo_set, NEW u \in utxo_set, t.hash = u.hash PROVE t = u
    <3>1. PICK tx \in Confirmed : t \in L(tx)
      BY <1>5, <1>7
    <3>2. PICK ty \in Confirmed : u \in L(ty)
      BY <1>5, <1>7
    <3>3. tx = ty
      BY <1>3, <2>2, <3>1, <3>2
    <3>4. \A p, q \in L(tx) : p.hash = q.hash => p = q
      BY <1>3 DEF GoodCoins
    <3> QED
      BY <2>2, <3>1, <3>2, <3>3, <3>4
  <2> QED
    BY <1>5, <1>6, <2>1, <2>2 DEF GoodCoins
<1>9. TxsInv
  BY <1>1, OthersGood DEF TxsInv, KnownTxs
<1>10. CoinsInv /\ ExactInv
  BY <1>1, <1>8 DEF CoinsInv, ExactInv
<1> QED
  BY <1>9, <1>10 DEF CoinInv

\* The unspent outputs after the transactions of the block that is handled.
LEMMA GiveMeUtxosIs ==
    ASSUME CoinInv, KnownInv, PlaceInv
    PROVE  FromBefore(utxo_set, UtxosAfter(handler.txs), Range(handler.txs))
<1>1. IsList(handler.txs)
  BY DEF PlaceInv
<1>2. \A k \in DOMAIN handler.txs : GoodTx(handler.txs[k])
  BY DEF CoinInv, TxsInv, KnownInv
<1>3. GoodCoins(utxo_set)
  BY DEF CoinInv, CoinsInv
<1> QED
  BY <1>1, <1>2, <1>3, AfterIs

\* The transactions of a block are applied to the unspent outputs.
LEMMA GiveMeUtxosCoins == ASSUME CoinInv, SafeInv, give_me_utxos PROVE CoinInv'
<1>1. WalletInv /\ KnownInv /\ PlaceInv
  BY DEF SafeInv
<1>2. OnlyPeer /\ accounts' = accounts /\ handler'.at = "accounts"
  BY <1>1, UtxosIs
<1>3. /\ utxo_set' = UtxosAfter(handler.txs)
      /\ raced' = IF wallet.at = "adding" THEN raced \cup {Len(accounts) + 1} ELSE raced
  BY DEF give_me_utxos
<1>4. GoodCoins(utxo_set')
  BY <1>1, <1>3, GiveMeUtxosIs DEF FromBefore
<1>5. TxsInv'
  BY <1>2, PeerTxs DEF CoinInv, OnlyPeer
<1>6. CoinsInv'
  BY <1>2, <1>4 DEF CoinInv, CoinsInv, OnlyPeer
<1>7. ExactInv'
  BY <1>2, <1>3 DEF ExactInv, OnlyPeer
<1> QED
  BY <1>5, <1>6, <1>7 DEF CoinInv

\* The coins of the accounts after the block.
LEMMA UpdateCoins == ASSUME CoinInv, WalletInv, update_accounts_utxo_set PROVE CoinInv'
<1>1. OnlyPeer /\ SameNames /\ DOMAIN accounts' = DOMAIN accounts
  BY UpdateIs DEF SameNames
<1> DEFINE U(i) == utxos_referenced_to_account(utxo_set, accounts[i].address)
<1>2. /\ accounts' = [i \in DOMAIN accounts |-> [accounts[i] EXCEPT !.utxo_set = U(i)]]
      /\ raced' = raced \ DOMAIN accounts /\ utxo_set' = utxo_set
  BY DEF update_accounts_utxo_set, chainVars
<1> HIDE DEF U
<1>3. ASSUME NEW i \in DOMAIN accounts
      PROVE  /\ accounts'[i].address = accounts[i].address /\ accounts'[i].private_key = accounts[i].private_key
             /\ accounts'[i].utxo_set = U(i)
  <2>1. IsAccount(accounts[i])
    BY DEF WalletInv, ShapeInv
  <2>2. accounts'[i] = [accounts[i] EXCEPT !.utxo_set = U(i)]
    BY <1>2
  <2> QED
    BY <2>1, <2>2 DEF IsAccount
<1>4. GoodCoins(utxo_set)
  BY DEF CoinInv, CoinsInv
<1>5. ASSUME NEW i \in DOMAIN accounts PROVE Coined(accounts'[i]) /\ Exact(accounts[i])'
  <2>1. GoodCoins(U(i)) /\ \A t \in U(i) : t.utxo_set # <<>>
    BY <1>4, ReferencedIs DEF U
  <2>2. Keyed(accounts[i])
    BY DEF CoinInv, CoinsInv, Coined
  <2>3. Coined(accounts'[i])
    BY <1>3, <2>1, <2>2 DEF Coined, Keyed
  <2>4. Exact(accounts[i])'
    BY <1>2, <1>3 DEF Exact, U
  <2> QED
    BY <2>3, <2>4
<1>6. TxsInv'
  BY <1>1, PeerTxs DEF CoinInv, OnlyPeer
<1>7. CoinsInv'
  BY <1>1, <1>2, <1>4, <1>5 DEF CoinInv, CoinsInv, OnlyPeer
<1>8. Len(accounts') = Len(accounts) /\ Len(accounts) + 1 \notin DOMAIN accounts
  BY <1>1 DEF SameNames, IsList, WalletInv, ShapeInv
<1>9. ExactInv'
  <2>1. wallet' = wallet
    BY <1>1 DEF OnlyPeer
  <2>2. wallet.at = "adding" /\ Len(accounts) + 1 \notin raced' => Exact(wallet.account)
    BY <1>2, <1>8 DEF CoinInv, ExactInv
  <2> QED
    BY <1>1, <1>2, <1>5, <1>8, <2>1, <2>2 DEF ExactInv, Exact
<1> QED
  BY <1>6, <1>7, <1>9 DEF CoinInv

(***************************************************************************)
(* A payment.                                                              *)
(***************************************************************************)
\* What it spends: different outputs of the coins.
LEMMA PaidOutputs ==
    ASSUME NEW tx, NEW coins, NEW spend, NEW value, NEW key, Pays(tx, coins, spend, value, key)
    PROVE  LET os == Outputs(spend)
           IN /\ IsList(os) /\ os # <<>> /\ Apart(os) /\ SumOf(Worths(os)) = BalanceOf(spend)
              /\ IsList(tx.ins) /\ DOMAIN tx.ins = DOMAIN os
              /\ \A i \in DOMAIN os :
                    /\ tx.ins[i] = InputFor(os[i], tx.ins[i].script)
                    /\ tx.ins[i].hash = os[i].hash /\ tx.ins[i].index = os[i].index
                    /\ os[i].out.value \in Int
                    /\ \E k \in DOMAIN spend : \E u \in Range(spend[k].utxo_set) :
                          /\ os[i].hash = spend[k].hash /\ os[i].index = u.index /\ os[i].out = u.out
<1> DEFINE os == Outputs(spend)
           H == {t.hash : t \in Range(spend)}
<1>1. PartOf(spend, coins) /\ os # <<>> /\ Spends(tx, os)
  BY DEF Pays
<1>2. /\ os \in Seq(Output(H)) /\ Apart(os) /\ SumOf(Worths(os)) = BalanceOf(spend)
      /\ \A o \in Range(os) : \E k \in DOMAIN spend : \E u \in Range(spend[k].utxo_set) :
            o = [hash |-> spend[k].hash, index |-> u.index, out |-> u.out]
  BY <1>1, OutputsAre DEF PartOf
<1> HIDE DEF os, H
<1>3. IsList(os)
  <2>1. os \in [1 .. Len(os) -> Range(os)] /\ Len(os) \in Nat
    BY <1>2 DEF Range
  <2>2. os = [i \in 1 .. Len(os) |-> os[i]]
    BY <1>2
  <2> QED
    BY <2>1, <2>2, ListOf
<1>4. /\ IsList(tx.ins) /\ DOMAIN tx.ins = DOMAIN os
      /\ \A i \in DOMAIN os : tx.ins[i] = InputFor(os[i], tx.ins[i].script)
  BY <1>1 DEF Spends
<1>5. ASSUME NEW i \in DOMAIN os PROVE tx.ins[i].hash = os[i].hash /\ tx.ins[i].index = os[i].index
  <2> DEFINE s == tx.ins[i].script
             in == tx.ins[i]
  <2>1. in = InputFor(os[i], s)
    BY <1>4
  <2> HIDE DEF in, s
  <2>2. in.hash = os[i].hash /\ in.index = os[i].index
    BY <2>1 DEF InputFor
  <2> QED
    BY <2>2 DEF in
<1>6. ASSUME NEW i \in DOMAIN os
      PROVE  /\ os[i].out.value \in Int
             /\ \E k \in DOMAIN spend : \E u \in Range(spend[k].utxo_set) :
                   os[i].hash = spend[k].hash /\ os[i].index = u.index /\ os[i].out = u.out
  <2>1. os[i] \in Range(os) /\ os[i] \in Output(H)
    BY <1>2 DEF Range
  <2>2. os[i].out.value \in Int
    BY <2>1 DEF Output, GoodOut, TxOut
  <2>3. PICK k \in DOMAIN spend : \E u \in Range(spend[k].utxo_set) :
            os[i] = [hash |-> spend[k].hash, index |-> u.index, out |-> u.out]
    BY <1>2, <2>1
  <2>4. PICK u \in Range(spend[k].utxo_set) :
            os[i] = [hash |-> spend[k].hash, index |-> u.index, out |-> u.out]
    BY <2>3
  <2>5. os[i].hash = spend[k].hash /\ os[i].index = u.index /\ os[i].out = u.out
    BY <2>4
  <2> QED
    BY <2>2, <2>5
<1> QED
  BY <1>1, <1>2, <1>3, <1>4, <1>5, <1>6 DEF os

\* It spends some coins, and only coins of the account.
LEMMA PaidCoins ==
    ASSUME NEW tx, NEW coins, NEW spend, NEW value, NEW key, Pays(tx, coins, spend, value, key)
    PROVE  CoinsSpentBy(tx) \subseteq Coins(Range(coins)) /\ CoinsSpentBy(tx) # {}
<1> DEFINE os == Outputs(spend)
<1>1. /\ IsList(os) /\ os # <<>> /\ IsList(tx.ins) /\ DOMAIN tx.ins = DOMAIN os
      /\ \A i \in DOMAIN os : tx.ins[i].hash = os[i].hash /\ tx.ins[i].index = os[i].index
      /\ \A i \in DOMAIN os : \E k \in DOMAIN spend : \E u \in Range(spend[k].utxo_set) :
                          /\ os[i].hash = spend[k].hash /\ os[i].index = u.index
  BY PaidOutputs
<1> HIDE DEF os
<1>2. PartOf(spend, coins)
  BY DEF Pays
<1>3. CoinsSpentBy(tx) = {Coin(tx.ins[i]) : i \in DOMAIN os}
  BY <1>1 DEF CoinsSpentBy, Range
<1>4. ASSUME NEW i \in DOMAIN os PROVE Coin(tx.ins[i]) \in Coins(Range(coins))
  <2>1. PICK k \in DOMAIN spend : \E u \in Range(spend[k].utxo_set) : os[i].hash = spend[k].hash /\ os[i].index = u.index
    BY <1>1
  <2>2. PICK u \in Range(spend[k].utxo_set) : os[i].hash = spend[k].hash /\ os[i].index = u.index
    BY <2>1
  <2>3. k \in DOMAIN coins /\ spend[k].hash = coins[k].hash /\ u \in Range(coins[k].utxo_set)
    BY <1>2 DEF PartOf
  <2>4. coins[k] \in Range(coins) /\ Coin(tx.ins[i]) = [hash |-> coins[k].hash, index |-> u.index]
    BY <1>1, <2>2, <2>3 DEF Range, Coin
  <2> QED
    BY <2>3, <2>4, CoinIs
<1>5. 1 \in DOMAIN os
  BY <1>1 DEF IsList
<1> QED
  BY <1>3, <1>4, <1>5

\* An output among the coins is found by its hash and index.
LEMMA OneOutput ==
    ASSUME NEW coins, IsCoinList(coins), NEW k \in DOMAIN coins, NEW u \in Range(coins[k].utxo_set)
    PROVE  /\ \A t \in Range(coins) : t.hash = coins[k].hash => t = coins[k]
           /\ \A v \in Range(coins[k].utxo_set) : v.index = u.index => v = u
<1>1. \A j \in DOMAIN coins : coins[j].hash = coins[k].hash => j = k
  BY DEF IsCoinList
<1>2. \A t \in Range(coins) : \E j \in DOMAIN coins : t = coins[j]
  BY DEF Range
<1>3. Different(coins[k].utxo_set)
  BY DEF IsCoinList, IsTuple
<1>4. \A v \in Range(coins[k].utxo_set) : \E j \in DOMAIN coins[k].utxo_set : v = coins[k].utxo_set[j]
  BY DEF Range
<1>5. \A v \in Range(coins[k].utxo_set) : v.index = u.index => v = u
  <2> TAKE v \in Range(coins[k].utxo_set)
  <2>1. PICK i \in DOMAIN coins[k].utxo_set : v = coins[k].utxo_set[i]
    BY <1>4
  <2>2. PICK j \in DOMAIN coins[k].utxo_set : u = coins[k].utxo_set[j]
    BY <1>4
  <2> QED
    BY <1>3, <2>1, <2>2 DEF Different
<1> QED
  BY <1>1, <1>2, <1>5

\* What it is worth.
LEMMA ValueIs ==
    ASSUME NEW coins, IsCoinList(coins), NEW k \in DOMAIN coins, NEW u \in Range(coins[k].utxo_set)
    PROVE  ValueOf(coins, [hash |-> coins[k].hash, index |-> u.index]) = u.out.value
<1> DEFINE c == [hash |-> coins[k].hash, index |-> u.index]
           t == CHOOSE t \in Range(coins) : c \in Coins({t})
           v == CHOOSE v \in Range(t.utxo_set) : v.index = c.index
<1>1. c.hash = coins[k].hash /\ c.index = u.index
  OBVIOUS
<1>2. \A x : c \in Coins({x}) <=> \E w \in Range(x.utxo_set) : c = [hash |-> x.hash, index |-> w.index]
  <2> TAKE x
  <2> DEFINE S == {x}
  <2>1. c \in Coins(S) <=> \E y \in S : \E w \in Range(y.utxo_set) : c = [hash |-> y.hash, index |-> w.index]
    <3> HIDE DEF S, c
    <3> QED
      BY CoinIs
  <2> HIDE DEF c
  <2> QED
    BY <2>1
<1>3. coins[k] \in Range(coins) /\ c \in Coins({coins[k]})
  BY <1>2 DEF Range
<1> HIDE DEF c
<1>4. t \in Range(coins) /\ c \in Coins({t})
  BY <1>3
<1> HIDE DEF t
<1>5. PICK w \in Range(t.utxo_set) : c = [hash |-> t.hash, index |-> w.index]
  BY <1>2, <1>4
<1>6. t.hash = coins[k].hash
  BY <1>1, <1>5
<1>7. t = coins[k]
  BY <1>4, <1>6, OneOutput
<1>8. v \in Range(t.utxo_set) /\ v.index = c.index
  BY <1>1, <1>7
<1> HIDE DEF v
<1>9. v = u
  BY <1>1, <1>7, <1>8, OneOutput
<1>10. ValueOf(coins, c) = v.out.value
  BY DEF ValueOf, t, v
<1> QED
  BY <1>9, <1>10 DEF c

\* The coins of a payment are worth its outputs and the fee.
LEMMA PaidBalanced ==
    ASSUME NEW m, NEW spend, NEW value \in Int, NEW key, IsCoinList(m.coins), Pays(m.tx, m.coins, spend, value, key),
           m.payment.amount + m.payment.fee = value
    PROVE  Balanced(m)
<1> DEFINE os == Outputs(spend)
           tx == m.tx
           coins == m.coins
           ins == CoinsSpentBy(tx)
           rest == tx.outs[2].value
<1>1. /\ IsList(os) /\ os # <<>> /\ Apart(os) /\ SumOf(Worths(os)) = BalanceOf(spend)
      /\ IsList(tx.ins) /\ DOMAIN tx.ins = DOMAIN os
      /\ \A i \in DOMAIN os :
            /\ tx.ins[i].hash = os[i].hash /\ tx.ins[i].index = os[i].index
            /\ \E k \in DOMAIN spend : \E u \in Range(spend[k].utxo_set) :
                  /\ os[i].hash = spend[k].hash /\ os[i].index = u.index /\ os[i].out = u.out
  BY PaidOutputs
<1>2. /\ PartOf(spend, coins) /\ BalanceOf(spend) \in Int /\ BalanceOf(spend) >= value
      /\ rest = BalanceOf(spend) - value
  BY DEF Pays
<1>3. ins \subseteq Coins(Range(coins))
  BY PaidCoins
<1> HIDE DEF os, tx, coins
<1>4. ASSUME NEW i \in DOMAIN os PROVE ValueOf(coins, Coin(tx.ins[i])) = os[i].out.value
  <2>1. PICK k \in DOMAIN spend : \E u \in Range(spend[k].utxo_set) :
            os[i].hash = spend[k].hash /\ os[i].index = u.index /\ os[i].out = u.out
    BY <1>1
  <2>2. PICK u \in Range(spend[k].utxo_set) : os[i].hash = spend[k].hash /\ os[i].index = u.index /\ os[i].out = u.out
    BY <2>1
  <2>3. k \in DOMAIN coins /\ spend[k].hash = coins[k].hash /\ u \in Range(coins[k].utxo_set)
    BY <1>2 DEF PartOf
  <2>4. ValueOf(coins, [hash |-> coins[k].hash, index |-> u.index]) = u.out.value
    BY <2>3, ValueIs DEF coins
  <2>5. Coin(tx.ins[i]) = [hash |-> coins[k].hash, index |-> u.index]
    BY <1>1, <2>2, <2>3 DEF Coin
  <2> QED
    BY <2>2, <2>4, <2>5
<1>5. [i \in DOMAIN tx.ins |-> ValueOf(coins, Coin(tx.ins[i]))] = Worths(os)
  BY <1>1, <1>4 DEF Worths
<1>6. SumOf([i \in DOMAIN tx.ins |-> ValueOf(coins, Coin(tx.ins[i]))]) = BalanceOf(spend)
  BY <1>1, <1>5
<1>7. Cardinality(ins) = Len(tx.ins)
  <2>1. PICK N \in Nat : N = Len(tx.ins) /\ DOMAIN tx.ins = 1 .. N
    BY <1>1 DEF IsList
  <2> DEFINE f == [i \in 1 .. N |-> Coin(tx.ins[i])]
  <2>2. ins = {f[i] : i \in 1 .. N}
    BY <2>1 DEF CoinsSpentBy, Range
  <2>3. ASSUME NEW i \in 1 .. N, NEW j \in 1 .. N, f[i] = f[j] PROVE i = j
    <3>1. tx.ins[i].hash = tx.ins[j].hash /\ tx.ins[i].index = tx.ins[j].index
      BY <2>3 DEF Coin
    <3> QED
      BY <1>1, <2>1, <3>1 DEF Apart
  <2> HIDE DEF ins
  <2>4. f \in Bijection(1 .. N, ins)
    <3>1. f \in [1 .. N -> ins] /\ DOMAIN f = 1 .. N
      BY <2>2
    <3>2. \A y \in ins : \E i \in 1 .. N : f[i] = y
      BY <2>2
    <3> HIDE DEF f
    <3> QED
      BY <2>3, <3>1, <3>2 DEF Bijection, Injection, Surjection, IsInjective
  <2>5. ExistsBijection(1 .. N, ins)
    BY <2>4 DEF ExistsBijection
  <2>6. IsFiniteSet(1 .. N) /\ Cardinality(1 .. N) = N
    <3>1. 1 \in Int /\ N \in Int /\ (IF 1 > N THEN 0 ELSE N - 1 + 1) = N
      BY <2>1
    <3> QED
      BY <3>1, FS_Interval
  <2> QED
    BY <2>1, <2>5, <2>6, FS_Bijection
<1>8. BalanceOf(spend) = m.payment.amount + m.payment.fee + rest /\ rest >= 0
  <2> DEFINE b == BalanceOf(spend)
             s == m.payment.amount + m.payment.fee
  <2>1. b \in Int /\ b >= value /\ rest = b - value /\ s = value
    BY <1>2
  <2> HIDE DEF b, s, rest
  <2>2. b = s + rest /\ rest >= 0
    BY <2>1
  <2> QED
    BY <2>2 DEF b, s
<1> QED
  BY <1>3, <1>6, <1>7, <1>8 DEF Balanced, tx, coins

\* The script that is found for an input is that of the output it spends.
LEMMA FoundScript ==
    ASSUME NEW spend, IsCoinList(spend), NEW k \in DOMAIN spend, NEW u \in Range(spend[k].utxo_set)
    PROVE  UNION {find(spend[j], spend[k].hash, u.index) : j \in DOMAIN spend} = {u.out.script}
<1> DEFINE F(j) == find(spend[j], spend[k].hash, u.index)
<1>1. \A j \in DOMAIN spend : spend[j].hash = spend[k].hash => j = k
  BY DEF IsCoinList
<1>2. \A v \in Range(spend[k].utxo_set) : v.index = u.index => v = u
  BY OneOutput
<1>3. {v \in Range(spend[k].utxo_set) : v.index = u.index} = {u}
  BY <1>2
<1>4. F(k) = {u.out.script}
  <2>1. F(k) = {v.out.script : v \in {w \in Range(spend[k].utxo_set) : w.index = u.index}}
    BY DEF find
  <2> QED
    BY <1>3, <2>1
<1>5. \A j \in DOMAIN spend : j # k => F(j) = {}
  BY <1>1 DEF find
<1> HIDE DEF F
<1>6. UNION {F(j) : j \in DOMAIN spend} = {u.out.script}
  BY <1>4, <1>5
<1> QED
  BY <1>6 DEF F

\* Its inputs are signed with the key, each over the script of its output.
LEMMA PaidSigned ==
    ASSUME NEW m, NEW spend, NEW value, NEW key, IsCoinList(m.coins), Pays(m.tx, m.coins, spend, value, key),
           key = decode_wif_private_key(accounts[m.account].private_key).val
    PROVE  Signed(m)
<1> DEFINE os == Outputs(spend)
           tx == m.tx
           coins == m.coins
           S(i) == CHOOSE s \in UNION {find(spend[k], os[i].hash, os[i].index) : k \in DOMAIN spend} : TRUE
           with(i) == {t \in Range(coins) : t.hash = tx.ins[i].hash}
           among(i) == UNION {Range(t.utxo_set) : t \in with(i)}
           found(i) == CHOOSE u \in among(i) : u.index = tx.ins[i].index
           blank(i, s) == [tx EXCEPT !.ins = [j \in DOMAIN @ |-> [@[j] EXCEPT !.script = IF j = i THEN s ELSE <<>>]]]
<1>1. /\ DOMAIN tx.ins = DOMAIN os
      /\ \A i \in DOMAIN os :
            /\ tx.ins[i] = InputFor(os[i], tx.ins[i].script)
            /\ tx.ins[i].hash = os[i].hash /\ tx.ins[i].index = os[i].index
            /\ \E k \in DOMAIN spend : \E u \in Range(spend[k].utxo_set) :
                  /\ os[i].hash = spend[k].hash /\ os[i].index = u.index /\ os[i].out = u.out
  BY PaidOutputs
<1>2. /\ PartOf(spend, coins) /\ tx = [ins |-> tx.ins, outs |-> tx.outs]
      /\ \A i \in DOMAIN os : tx.ins[i].script = generate_sig_script(ToSign(os, tx.outs, i, S(i)), key)
      /\ \A i \in DOMAIN os : os[i].out.script[1] = OP_DUP
  BY DEF Pays
<1> HIDE DEF os, tx
<1>3. ASSUME NEW i \in DOMAIN os PROVE S(i) = os[i].out.script /\ found(i).out = os[i].out
  <2>1. PICK k \in DOMAIN spend : \E u \in Range(spend[k].utxo_set) :
            os[i].hash = spend[k].hash /\ os[i].index = u.index /\ os[i].out = u.out
    BY <1>1
  <2>2. PICK u \in Range(spend[k].utxo_set) : os[i].hash = spend[k].hash /\ os[i].index = u.index /\ os[i].out = u.out
    BY <2>1
  <2>3. k \in DOMAIN coins /\ spend[k].hash = coins[k].hash /\ u \in Range(coins[k].utxo_set)
    BY <1>2 DEF PartOf
  <2>4. S(i) = u.out.script
    <3> DEFINE hash == spend[k].hash
               index == u.index
    <3>1. IsCoinList(spend)
      BY <1>2 DEF PartOf
    <3>2. UNION {find(spend[j], hash, index) : j \in DOMAIN spend} = {u.out.script}
      BY <3>1, FoundScript
    <3>3. os[i].hash = hash /\ os[i].index = index
      BY <2>2
    <3> HIDE DEF hash, index
    <3>4. S(i) = CHOOSE s \in UNION {find(spend[j], hash, index) : j \in DOMAIN spend} : TRUE
      BY <3>3
    <3> QED
      BY <3>2, <3>4
  <2>5. /\ \A t \in Range(coins) : t.hash = coins[k].hash => t = coins[k]
        /\ \A v \in Range(coins[k].utxo_set) : v.index = u.index => v = u
    BY <2>3, OneOutput DEF coins
  <2>6. coins[k] \in Range(coins)
    BY <2>3 DEF Range
  <2> HIDE DEF coins
  <2>7. with(i) = {coins[k]}
    BY <1>1, <2>2, <2>3, <2>5, <2>6
  <2> HIDE DEF with
  <2>8. among(i) = Range(coins[k].utxo_set)
    BY <2>7
  <2> HIDE DEF among
  <2>9. found(i) = u
    <3>1. u \in among(i) /\ u.index = tx.ins[i].index
      BY <1>1, <2>2, <2>3, <2>8
    <3>2. found(i) \in among(i) /\ found(i).index = tx.ins[i].index
      BY <3>1
    <3> HIDE DEF found
    <3> QED
      BY <2>5, <2>8, <3>1, <3>2
  <2> HIDE DEF found, S
  <2> QED
    BY <2>2, <2>4, <2>9
<1>4. ASSUME NEW i \in DOMAIN os, NEW s PROVE blank(i, s) = ToSign(os, tx.outs, i, s)
  <2> DEFINE a == [j \in DOMAIN tx.ins |-> [tx.ins[j] EXCEPT !.script = IF j = i THEN s ELSE <<>>]]
             b == [j \in DOMAIN os |-> InputFor(os[j], IF j = i THEN s ELSE <<>>)]
             w == [ins |-> tx.ins, outs |-> tx.outs]
  <2>1. ASSUME NEW j \in DOMAIN os PROVE a[j] = b[j]
    <3> DEFINE x == IF j = i THEN s ELSE <<>>
               in == tx.ins[j]
               y == in.script
    <3>1. in = InputFor(os[j], y)
      BY <1>1
    <3>2. a[j] = [in EXCEPT !.script = x] /\ b[j] = InputFor(os[j], x)
      BY <1>1
    <3> HIDE DEF x, in, y
    <3>3. [in EXCEPT !.script = x] = InputFor(os[j], x)
      BY <3>1 DEF InputFor
    <3> QED
      BY <3>2, <3>3
  <2>2. a = b
    <3>1. a = [j \in DOMAIN os |-> a[j]]
      BY <1>1
    <3>2. b = [j \in DOMAIN os |-> b[j]]
      OBVIOUS
    <3> HIDE DEF a, b
    <3> QED
      BY <2>1, <3>1, <3>2
  <2>3. blank(i, s) = [tx EXCEPT !.ins = a]
    OBVIOUS
  <2>4. ToSign(os, tx.outs, i, s) = [ins |-> b, outs |-> tx.outs]
    BY DEF ToSign
  <2> HIDE DEF a, b, blank
  <2>5. [tx EXCEPT !.ins = a] = [ins |-> a, outs |-> tx.outs]
    <3>1. tx = w
      BY <1>2
    <3>2. [w EXCEPT !.ins = a] = [ins |-> a, outs |-> tx.outs]
      OBVIOUS
    <3> HIDE DEF w
    <3> QED
      BY <3>1, <3>2
  <2> QED
    BY <2>2, <2>3, <2>4, <2>5
<1>5. ASSUME NEW i \in DOMAIN tx.ins
      PROVE  /\ tx.ins[i].script = generate_sig_script(blank(i, found(i).out.script), key)
             /\ found(i).out.script[1] = OP_DUP
  <2>1. i \in DOMAIN os
    BY <1>1
  <2> DEFINE s == os[i].out.script
  <2>2. S(i) = s /\ found(i).out.script = s
    BY <1>3, <2>1
  <2>3. tx.ins[i].script = generate_sig_script(ToSign(os, tx.outs, i, s), key) /\ s[1] = OP_DUP
    <3>1. tx.ins[i].script = generate_sig_script(ToSign(os, tx.outs, i, S(i)), key) /\ s[1] = OP_DUP
      BY <1>2, <2>1
    <3> HIDE DEF S, s
    <3> QED
      BY <2>2, <3>1
  <2> HIDE DEF S, found, blank, s
  <2>4. blank(i, s) = ToSign(os, tx.outs, i, s)
    BY <1>4, <2>1
  <2> QED
    BY <2>2, <2>3, <2>4
<1> QED
  BY <1>5 DEF Signed, tx

\* The address of an account is a list of bytes.
LEMMA AddressIs ==
    ASSUME LibraryLengths, NEW a, Keyed(a)
    PROVE  a.address \in Seq(Int)
<1> DEFINE h == hash_160(public_key(decode_wif_private_key(a.private_key).val))
           b == <<TestnetByte>> \o h
<1>1. h \in Seq(Int)
  BY DEF LibraryLengths, Keyed
<1> HIDE DEF h
<1>2. b \in Seq(Int) \ {<<>>}
  BY <1>1, VersionIs
<1> HIDE DEF b
<1>3. WithChecksum(b) \in Seq(Int)
  BY <1>2 DEF WithChecksum, LibraryLengths
<1> QED
  BY <1>3 DEF Keyed, generate_address, b, h

\* What a payment of the wallet is.
IsPayment(m) ==
    /\ GoodTx(m.tx) /\ m.account = current /\ Balanced(m) /\ Signed(m)
    /\ CoinsSpentBy(m.tx) # {} /\ CoinsSpentBy(m.tx) \subseteq Coins(accounts[current].utxo_set)
    /\ m.current => handler.at \notin {"utxos", "accounts"} /\ current \notin raced

\* The wallet handles a payment: it makes one that is balanced and signed, of
\* coins of the account in use, or none.
LEMMA PaymentMade ==
    ASSUME LibraryLengths, CoinInv, WalletInv, handle_make_transaction
    PROVE  /\ Moved(toWallet, toWallet', 1, {}) /\ UNCHANGED <<chainVars, handler, wallet, raced>>
           /\ \/ UNCHANGED <<accounts, network, made>>
              \/ \E m : /\ current \in DOMAIN accounts /\ SameNames /\ SameCoins
                        /\ made' = Append(made, m) /\ network' \subseteq network \cup {m.tx} /\ IsPayment(m)
<1>1. ShapeInv /\ AccountsInv
  BY DEF WalletInv
<1>2. /\ Moved(toWallet, toWallet', 1, {}) /\ Head(toWallet) = toWallet[1] /\ 1 \in DOMAIN toWallet
      /\ Send(toWallet[1]) /\ UNCHANGED <<chainVars, handler>>
  BY <1>1, WalletTakes DEF handle_make_transaction, Send
<1>3. UNCHANGED <<wallet, raced>>
  BY <1>1, MakeTransactionIs
<1>4. PICK sent, coins : /\ coins \in SetToSeqs(IF current = 0 THEN {} ELSE accounts[current].utxo_set)
                         /\ make_transaction(coins, sent)
  BY DEF handle_make_transaction
<1> DEFINE p == Head(toWallet).payment
           a == accounts[current]
           r == Account_make_transaction(a, coins, p.to, p.amount, p.fee)
           tx == r.val
           up == handler.at \notin {"utxos", "accounts"} /\ current \notin raced
           m == [tx |-> tx, account |-> current, shown |-> Head(toWallet).shown,
                 payment |-> p, coins |-> coins, current |-> up]
           fails == current = 0 \/ ~validate_transaction_data(p.amount, p.fee) \/ r.st # "ok"
<1>5. CASE fails
  <2>1. UNCHANGED <<accounts, network, made>>
    BY <1>4, <1>5 DEF make_transaction, histVars
  <2> QED
    BY <1>2, <1>3, <2>1
<1>6. CASE ~fails
  <2>1. /\ current # 0 /\ validate_transaction_data(p.amount, p.fee) /\ r.st = "ok"
        /\ accounts' = [accounts EXCEPT ![current] = add_transaction(@, tx, sent)]
        /\ network' = IF sent THEN network \cup {tx} ELSE network
        /\ made' = Append(made, m)
    BY <1>4, <1>6 DEF make_transaction
  <2>2. current \in DOMAIN accounts
    BY <1>1, <2>1 DEF AccountsInv, SelectInv, NamesInv
  <2>3. Coined(a)
    BY <2>2 DEF CoinInv, CoinsInv
  <2>4. IsCoinList(coins) /\ Range(coins) \subseteq a.utxo_set
    <3>1. coins \in SetToSeqs(a.utxo_set)
      BY <1>4, <2>1
    <3> HIDE DEF a
    <3> QED
      BY <2>3, <3>1, OrderIs DEF Coined
  <2>5. p.to \in Seq(Int) /\ p.amount \in Int /\ p.fee \in Int /\ p.amount + p.fee > 0
    <3>1. p \in Payments
      BY <1>2 DEF CoinInv, TxsInv, Entered
    <3>2. p \in [to : Seq(Int), amount : Int, fee : Int]
      BY <3>1, WalletAssumption
    <3> QED
      BY <2>1, <3>2 DEF validate_transaction_data
  <2>6. a.address \in Seq(Int)
    BY <2>3, AddressIs DEF Coined
  <2> DEFINE value == p.amount + p.fee
             spend == get_utxos_for_amount(coins, value)
             key == decode_wif_private_key(a.private_key).val
  <2>7. Pays(tx, coins, spend, value, key) /\ value \in Int
    <3> HIDE DEF p, a
    <3> QED
      BY <2>1, <2>4, <2>5, <2>6, PaymentIs
  <2>8. SameNames /\ SameCoins
    <3> DEFINE x == Append(accounts[current].pending, tx)
    <3>1. IsList(x)
      BY <1>1, <2>2, ListAppend DEF ShapeInv, IsAccount
    <3>2. accounts' = [accounts EXCEPT ![current].pending = x]
      BY <2>1, <2>2 DEF add_transaction
    <3> HIDE DEF x
    <3> QED
      BY <1>1, <2>2, <3>1, <3>2, PendingSet
  <2>9. m.tx = tx /\ m.account = current /\ m.payment = p /\ m.coins = coins
    OBVIOUS
  <2>10. m.current => handler.at \notin {"utxos", "accounts"} /\ current \notin raced
    <3> HIDE DEF tx, p
    <3> QED
      BY Zenon
  <2>11. network' \subseteq network \cup {tx}
    BY <2>1
  <2> HIDE DEF m, tx, spend, key, p, r, up
  <2>12. GoodTx(tx)
    BY <2>7 DEF Pays
  <2>13. CoinsSpentBy(tx) # {} /\ CoinsSpentBy(tx) \subseteq Coins(Range(coins))
    BY <2>7, PaidCoins
  <2>14. Coins(Range(coins)) \subseteq Coins(a.utxo_set)
    BY <2>4 DEF Coins
  <2>15. Pays(m.tx, m.coins, spend, value, key) /\ m.payment.amount + m.payment.fee = value /\ IsCoinList(m.coins)
    BY <2>4, <2>7, <2>9
  <2> HIDE DEF value
  <2>16. Balanced(m)
    BY <2>7, <2>15, PaidBalanced
  <2>17. Signed(m)
    <3>1. key = decode_wif_private_key(accounts[m.account].private_key).val
      BY <2>9 DEF key
    <3> QED
      BY <2>15, <3>1, PaidSigned
  <2>18. IsPayment(m)
    BY <2>9, <2>10, <2>12, <2>13, <2>14, <2>16, <2>17 DEF IsPayment
  <2>19. made' = Append(made, m) /\ network' \subseteq network \cup {m.tx}
    BY <2>1, <2>9, <2>11
  <2> QED
    BY <1>2, <1>3, <2>2, <2>8, <2>18, <2>19
<1> QED
  BY <1>5, <1>6

\* A payment is made.
LEMMA MakeCoins == ASSUME LibraryLengths, CoinInv, WalletInv, handle_make_transaction PROVE CoinInv'
<1>1. /\ Moved(toWallet, toWallet', 1, {}) /\ UNCHANGED <<chainVars, handler, wallet, raced>>
      /\ \/ UNCHANGED <<accounts, network, made>>
         \/ \E m : /\ current \in DOMAIN accounts /\ SameNames /\ SameCoins
                   /\ made' = Append(made, m) /\ network' \subseteq network \cup {m.tx} /\ IsPayment(m)
  BY PaymentMade
<1>2. UNCHANGED <<utxo_set, wallet, raced, handler>>
  BY <1>1 DEF chainVars
<1>3. ShapeInv
  BY DEF WalletInv
<1>4. CASE UNCHANGED <<accounts, network, made>>
  BY <1>1, <1>2, <1>3, <1>4, EventsKeepCoins
<1>5. ASSUME NEW m, SameNames, SameCoins, made' = Append(made, m), IsPayment(m) PROVE CoinInv'
  <2>1. CoinsInv' /\ ExactInv'
    BY <1>2, <1>5, CoinsKept DEF CoinInv
  <2>2. /\ Len(made) \in Nat /\ DOMAIN made = 1 .. Len(made) /\ DOMAIN made' = 1 .. (Len(made) + 1)
        /\ (\A n \in 1 .. Len(made) : made'[n] = made[n]) /\ made'[Len(made) + 1] = m
    BY <1>3, <1>5, ListAppend DEF ShapeInv
  <2>3. \A n \in DOMAIN made' : n \in DOMAIN made \/ n = Len(made) + 1
    BY <2>2
  <2>4. KnownTxs' \subseteq KnownTxs \cup {m.tx}
    BY <2>2, <2>3 DEF KnownTxs
  <2>5. \A t \in KnownTxs' : GoodTx(t)
    BY <1>5, <2>4 DEF IsPayment, CoinInv, TxsInv
  <2>6. \A i \in DOMAIN toWallet' : i + 1 \in DOMAIN toWallet /\ toWallet'[i] = toWallet[i + 1]
    BY <1>1, OldEvents
  <2>7. TxsInv'
    BY <2>5, <2>6 DEF CoinInv, TxsInv
  <2> QED
    BY <2>1, <2>7 DEF CoinInv
<1> QED
  BY <1>1, <1>4, <1>5

\* Every step keeps the invariant.
LEMMA NextCoins == ASSUME LibraryLengths, CoinInv, SafeInv, [Next]_vars PROVE CoinInv'
<1>1. WalletInv /\ PlaceInv
  BY DEF SafeInv
<1>2. CASE Clicks
  BY <1>1, <1>2, ClicksCoins
<1>3. CASE UIStep
  BY <1>1, <1>3, UIStepCoins
<1>4. CASE WalletStep
  BY <1>1, <1>4, AddAccountCoins, PushAccountCoins, AnswersCoins, MakeCoins DEF WalletStep
<1>5. CASE PeerStep
  BY <1>1, <1>5, QuietPeerCoins, GiveMeUtxosCoins, UpdateCoins DEF PeerStep
<1>6. CASE PeerMessage
  BY <1>1, <1>6, QuietPeerCoins DEF PeerMessage, BlockLists
<1>7. CASE UNCHANGED vars
  <2>1. UNCHANGED <<utxo_set, accounts, wallet, raced, handler, made, toWallet>>
    BY <1>7 DEF vars, chainVars, walletVars, histVars
  <2>2. ShapeInv /\ Moved(toWallet, toWallet', 0, {})
    BY <1>1, <2>1, MovedNot DEF WalletInv, ShapeInv
  <2> QED
    BY <2>1, <2>2, EventsKeepCoins
<1> QED
  BY <1>2, <1>3, <1>4, <1>5, <1>6, <1>7 DEF Next

\* The keys of the accounts stay, and only a payment is recorded.
LEMMA KeysStay ==
    ASSUME SafeInv, [Next]_vars, ~handle_make_transaction
    PROVE  made' = made /\ \A i \in DOMAIN accounts : accounts'[i].private_key = accounts[i].private_key
<1>1. WalletInv /\ PlaceInv
  BY DEF SafeInv
<1>2. ASSUME UNCHANGED trackVars
      PROVE  made' = made /\ \A i \in DOMAIN accounts : accounts'[i].private_key = accounts[i].private_key
  BY <1>2 DEF trackVars
<1>3. CASE Clicks \/ UIStep
  BY <1>1, <1>2, <1>3, ClicksKeep, UIStepKeeps
<1>4. CASE push_account
  <2>1. made' = made /\ accounts' = Append(accounts, wallet.account) /\ IsList(accounts)
    BY <1>1, <1>4, PushAccountKeepsAll DEF WalletInv, ShapeInv
  <2>2. DOMAIN accounts = 1 .. Len(accounts) /\ \A i \in 1 .. Len(accounts) : accounts'[i] = accounts[i]
    BY <2>1, ListAppend
  <2> QED
    BY <2>1, <2>2
<1>5. CASE WalletStep /\ ~push_account
  BY <1>1, <1>2, <1>5, AddAccountKeepsAll, ChangeAccountKeepsAll, GettersKeep, SearchesKeep DEF WalletStep
<1>6. CASE PeerStep
  <2>1. OnlyPeer => made' = made
    BY DEF OnlyPeer
  <2>2. SameNames => \A i \in DOMAIN accounts : accounts'[i].private_key = accounts[i].private_key
    BY DEF SameNames
  <2>3. CASE involves_user_account
    BY <1>1, <2>1, <2>3, InvolvesIs
  <2>4. CASE push_pending
    BY <1>1, <2>1, <2>2, <2>4, PushPendingIs
  <2>5. CASE give_me_utxos
    BY <1>1, <2>1, <2>5, UtxosIs
  <2>6. CASE update_accounts_utxo_set
    BY <1>1, <2>1, <2>2, <2>6, UpdateIs
  <2>7. CASE contains_pending_tx
    BY <1>1, <2>1, <2>2, <2>7, ContainsPendingIs
  <2>8. CASE push_confirmed
    BY <1>1, <2>1, <2>2, <2>8, PushConfirmedIs
  <2>9. CASE include_new_block
    BY <1>1, <2>9, IncludeIs
  <2> QED
    BY <1>6, <2>3, <2>4, <2>5, <2>6, <2>7, <2>8, <2>9 DEF PeerStep
<1>7. CASE PeerMessage
  <2>1. ASSUME NEW tx, handle_tx_message(tx) PROVE UNCHANGED <<made, accounts>>
    BY <1>1, <2>1, TxMessageIs DEF OnlyPeer
  <2>2. ASSUME NEW txs, handle_block_message(txs) PROVE UNCHANGED <<made, accounts>>
    BY <1>1, <2>2, BlockMessageIs
  <2>3. ASSUME NEW b \in 1 .. (headers + 1), handle_headers_message(b) PROVE UNCHANGED <<made, accounts>>
    BY <1>1, <2>3, HeaderIs DEF trackVars
  <2> QED
    BY <1>7, <2>1, <2>2, <2>3 DEF PeerMessage
<1>8. CASE UNCHANGED vars
  BY <1>8 DEF vars, walletVars, histVars
<1> QED
  BY <1>3, <1>4, <1>5, <1>6, <1>7, <1>8 DEF Next

\* The payments stay valid, and a new one is.
LEMMA NextValid == ASSUME LibraryLengths, CoinInv, SafeInv, PaymentsValid, [Next]_vars PROVE PaymentsValid'
<1>1. /\ IsList(made) /\ WalletInv /\ \A n \in DOMAIN made : made[n].account \in DOMAIN accounts
  BY DEF SafeInv, WalletInv, ShapeInv, AccountsInv, MadeInv, NamesInv
<1>2. ASSUME \A i \in DOMAIN accounts : accounts'[i].private_key = accounts[i].private_key, NEW m \in Range(made)
      PROVE  Balanced(m) /\ Signed(m)'
  <2>1. Balanced(m) /\ Signed(m)
    BY DEF PaymentsValid
  <2>2. accounts'[m.account].private_key = accounts[m.account].private_key
    BY <1>1, <1>2 DEF Range
  <2>3. Signed(m)'
    BY <2>1, <2>2 DEF Signed
  <2> QED
    BY <2>1, <2>3
<1>3. CASE ~handle_make_transaction
  BY <1>2, <1>3, KeysStay DEF PaymentsValid
<1>4. CASE handle_make_transaction
  <2>1. CASE UNCHANGED <<accounts, network, made>>
    BY <1>2, <2>1 DEF PaymentsValid
  <2>2. ASSUME NEW m, current \in DOMAIN accounts, SameNames, made' = Append(made, m), IsPayment(m) PROVE PaymentsValid'
    <3>1. /\ DOMAIN made = 1 .. Len(made) /\ DOMAIN made' = 1 .. (Len(made) + 1) /\ Len(made) \in Nat
          /\ (\A n \in 1 .. Len(made) : made'[n] = made[n]) /\ made'[Len(made) + 1] = m
      BY <1>1, <2>2, ListAppend
    <3>2. \A n \in DOMAIN made' : n \in DOMAIN made \/ n = Len(made) + 1
      BY <3>1
    <3>3. \A x \in Range(made') : x \in Range(made) \/ x = m
      BY <3>1, <3>2 DEF Range
    <3>4. \A i \in DOMAIN accounts : accounts'[i].private_key = accounts[i].private_key
      BY <2>2 DEF SameNames
    <3>5. Balanced(m) /\ Signed(m)'
      <4>1. Balanced(m) /\ Signed(m) /\ m.account \in DOMAIN accounts
        BY <2>2 DEF IsPayment
      <4> QED
        BY <3>4, <4>1 DEF Signed
    <3> QED
      BY <1>2, <3>3, <3>4, <3>5 DEF PaymentsValid
  <2> QED
    BY <1>1, <1>4, <2>1, <2>2, PaymentMade
<1> QED
  BY <1>3, <1>4

\* BalanceExact: when no block is between give_me_utxos and
\* update_accounts_utxo_set (block_handler.rs), the coins that Account::set_utxos
\* gave an account are exactly the unspent outputs that pay its address, unless
\* add_account read them in the middle of a block.
THEOREM BalancesExact == LibraryLengths /\ StandardScripts /\ Spec => []BalanceExact
<1> SUFFICES ASSUME LibraryLengths, StandardScripts PROVE Spec => []BalanceExact
  OBVIOUS
<1>1. Init => SafeInv /\ CoinInv
  BY InitSafe, InitCoins
<1>2. SafeInv /\ CoinInv /\ [Next]_vars => SafeInv' /\ CoinInv'
  BY NextSafe, NextCoins
<1>3. CoinInv => BalanceExact
  <2> SUFFICES ASSUME CoinInv, handler.at \notin {"utxos", "accounts"}, NEW i \in DOMAIN accounts \ raced
               PROVE  Coins(accounts[i].utxo_set) = CoinsPaying(accounts[i].address)
    BY DEF BalanceExact
  <2> DEFINE a == accounts[i]
             k == decode_wif_private_key(a.private_key).val
  <2>1. Exact(a) /\ Keyed(a) /\ k \in Keys /\ GoodCoins(utxo_set)
    BY DEF CoinInv, ExactInv, CoinsInv, Coined, Keyed
  <2> HIDE DEF a
  <2>2. a.address = generate_address(k) /\ a.utxo_set = utxos_referenced_to_account(utxo_set, a.address)
    BY <2>1 DEF Exact, Keyed
  <2> HIDE DEF k
  <2>3. Coins(utxos_referenced_to_account(utxo_set, generate_address(k))) = CoinsPaying(generate_address(k))
    BY <2>1, PayingIs
  <2>4. Coins(a.utxo_set) = CoinsPaying(a.address)
    BY <2>2, <2>3
  <2> QED
    BY <2>4 DEF a
<1> QED
  BY <1>1, <1>2, <1>3, PTL DEF Spec

\* PaymentsValid: a transaction that Account::make_transaction broadcasts spends
\* what it pays, with the fee and the change, and each of its inputs has the
\* signature of the account's key over the script of the output it spends.
THEOREM PaymentsAreValid == LibraryLengths /\ StandardScripts /\ Spec => []PaymentsValid
<1> SUFFICES ASSUME LibraryLengths, StandardScripts PROVE Spec => []PaymentsValid
  OBVIOUS
<1>1. Init => SafeInv /\ CoinInv /\ PaymentsValid
  <2>1. Init => PaymentsValid
    BY DEF Init, PaymentsValid, Range
  <2> QED
    BY <2>1, InitSafe, InitCoins
<1>2. SafeInv /\ CoinInv /\ PaymentsValid /\ [Next]_vars => SafeInv' /\ CoinInv' /\ PaymentsValid'
  BY NextSafe, NextCoins, NextValid
<1> QED
  BY <1>1, <1>2, PTL DEF Spec

(***************************************************************************)
(* The coins that the transactions of the chain have spent.                *)
(***************************************************************************)
\* The transactions of the blocks that came in, and those of them that are in
\* the unspent outputs.
Taken == MinedTxs \cup (IF handler.at \in BlockPhases THEN Range(handler.txs) ELSE {})
Applied == MinedTxs \cup (IF handler.at \in BlockPhases \ {"utxos"} THEN Range(handler.txs) ELSE {})

\* A new transaction is none of the chain that was downloaded.
Fresh == network \cap Confirmed = {}

\* What was spent is not there, nor can it come back: it is an output of a
\* transaction of the chain.
SpentInv ==
    /\ \A t \in Applied : CoinsSpentBy(t) \cap Coins(utxo_set) = {}
    /\ \A t \in Applied : \A c \in CoinsSpentBy(t) : c.hash \in Confirmed \cup Applied
    /\ \A t \in utxo_set : t.hash \in Confirmed \cup Applied
    /\ handler.at = "utxos" =>
          \A t \in Range(handler.txs) : CoinsSpentBy(t) \subseteq Coins(utxo_set) /\ t \notin Confirmed \cup Applied
    /\ \A t \in network \cap Taken : CoinsSpentBy(t) # {}

\* Neither the unspent outputs nor the blocks change.
LEMMA SpentKept ==
    ASSUME SpentInv, UNCHANGED <<utxo_set, blocks>>,
           handler'.at \in BlockPhases <=> handler.at \in BlockPhases, handler'.at = "utxos" <=> handler.at = "utxos",
           handler.at \in BlockPhases => handler'.txs = handler.txs,
           \A t \in network' : t \in network \/ CoinsSpentBy(t) # {}
    PROVE  SpentInv'
<1>1. "utxos" \in BlockPhases /\ MinedTxs' = MinedTxs
  BY DEF BlockPhases, MinedTxs
<1>2. Taken' = Taken
  BY <1>1 DEF Taken
<1>3. Applied' = Applied
  BY <1>1 DEF Applied
<1> QED
  BY <1>1, <1>2, <1>3 DEF SpentInv

\* The other threads.
LEMMA OthersSpent ==
    ASSUME SpentInv, UNCHANGED <<utxo_set, blocks, handler, network>>
    PROVE  SpentInv'
BY SpentKept

\* The user and the interface change none of it.
LEMMA ClicksAndEventsSpent == ASSUME SpentInv, Clicks \/ UIStep PROVE SpentInv'
<1>1. ASSUME NEW button, NEW bound, Click(button, bound) PROVE SpentInv'
  BY <1>1, OthersSpent DEF Click, chainVars, netVars
<1>2. ASSUME NEW types, OnUIEvent(types) PROVE SpentInv'
  BY <1>2, OthersSpent DEF OnUIEvent, chainVars, netVars
<1>3. CASE Clicks
  BY <1>1, <1>3 DEF Clicks, login_button_clicked, send_button_clicked, dropdown_accounts_changed,
                    search_blocks_button_clicked, search_headers_button_clicked, search_tx_poi_button_clicked
<1>4. CASE UIStep
  BY <1>2, <1>4 DEF UIStep, render_main_window, account_tab, account_changed, render_transactions,
                    handle_add_block, transactions_changed, show_dialog_message_pop_up
<1> QED
  BY <1>3, <1>4

\* Nor does the wallet, but for a new transaction, which spends something.
LEMMA WalletSpent == ASSUME LibraryLengths, SpentInv, CoinInv, WalletInv, WalletStep PROVE SpentInv'
<1>1. CASE handle_make_transaction
  <2>1. /\ UNCHANGED <<chainVars, handler>>
        /\ \/ network' = network
           \/ \E m : network' \subseteq network \cup {m.tx} /\ IsPayment(m)
    BY <1>1, PaymentMade
  <2>2. \A t \in network' : t \in network \/ CoinsSpentBy(t) # {}
    BY <2>1 DEF IsPayment
  <2> QED
    BY <2>1, <2>2, SpentKept DEF chainVars
<1>2. CASE push_account
  BY <1>2, OthersSpent DEF push_account, chainVars, netVars
<1>3. ASSUME NEW type, OnWalletEvent(type), network' = network PROVE SpentInv'
  BY <1>3, OthersSpent DEF OnWalletEvent, chainVars
<1>4. CASE ~handle_make_transaction /\ ~push_account
  BY <1>3, <1>4 DEF WalletStep, add_account, change_account, get_current_account, handle_get_transactions,
                    handle_search_block, handle_search_header, handle_poi
<1> QED
  BY <1>1, <1>2, <1>4

\* A block comes in: what it spends is there, so none of its transactions is
\* in the chain.
LEMMA BlockSpent ==
    ASSUME SpentInv, Fresh, SafeInv, NEW txs \in BlockLists, handle_block_message(txs)
    PROVE  SpentInv'
<1>1. /\ WalletInv /\ IsFiniteSet(network)
  BY DEF SafeInv, KnownInv
<1>2. /\ handler.at = "idle" /\ handler'.at = "utxos" /\ handler'.txs = txs /\ blocks' = blocks
  BY <1>1, BlockMessageIs
<1>3. utxo_set' = utxo_set /\ network' = network \ Range(txs) /\ Mineable(Range(txs))
  BY DEF handle_block_message
<1>4. MinedTxs' = MinedTxs
  BY <1>2 DEF MinedTxs
<1>5. Applied = MinedTxs /\ Taken = MinedTxs /\ Applied' = MinedTxs /\ Taken' = MinedTxs \cup Range(txs)
  BY <1>2, <1>4 DEF Applied, Taken, BlockPhases
<1>6. ASSUME NEW t \in Range(txs)
      PROVE  CoinsSpentBy(t) \subseteq Coins(utxo_set) /\ t \notin Confirmed \cup MinedTxs
  <2>1. t \in network
    BY <1>1, BlockTxs DEF Range
  <2>2. CoinsSpentBy(t) \subseteq Coins(utxo_set)
    BY <1>3 DEF Mineable
  <2>3. t \notin Confirmed
    BY <2>1 DEF Fresh
  <2>4. t \in MinedTxs => CoinsSpentBy(t) # {} /\ CoinsSpentBy(t) \cap Coins(utxo_set) = {}
    BY <1>5, <2>1 DEF SpentInv
  <2> QED
    BY <2>2, <2>3, <2>4
<1>7. \A t \in network' \cap Taken' : CoinsSpentBy(t) # {}
  BY <1>3, <1>5 DEF SpentInv
<1> QED
  BY <1>2, <1>3, <1>5, <1>6, <1>7 DEF SpentInv

\* Its transactions are applied to the unspent outputs.
LEMMA GiveMeUtxosSpent == ASSUME SpentInv, CoinInv, SafeInv, give_me_utxos PROVE SpentInv'
<1>1. WalletInv /\ KnownInv /\ PlaceInv
  BY DEF SafeInv
<1> DEFINE T == Range(handler.txs)
<1>2. /\ handler.at = "utxos" /\ handler'.at = "accounts" /\ handler'.txs = handler.txs /\ UNCHANGED <<blocks, network>>
  BY <1>1, UtxosIs DEF OnlyPeer
<1>3. FromBefore(utxo_set, utxo_set', T)
  <2>1. FromBefore(utxo_set, UtxosAfter(handler.txs), T)
    BY <1>1, GiveMeUtxosIs
  <2>2. utxo_set' = UtxosAfter(handler.txs)
    BY DEF give_me_utxos
  <2> QED
    BY <2>1, <2>2
<1>4. MinedTxs' = MinedTxs
  BY <1>2 DEF MinedTxs
<1>5. Applied = MinedTxs /\ Applied' = MinedTxs \cup T /\ Taken' = Taken
  BY <1>2, <1>4 DEF Applied, Taken, BlockPhases
<1>6. \A c \in Coins(utxo_set) : c.hash \in Confirmed \cup Applied
  BY CoinIs DEF SpentInv
<1>7. \A t \in T : CoinsSpentBy(t) \subseteq Coins(utxo_set) /\ t \notin Confirmed \cup Applied
  BY <1>2 DEF SpentInv
<1>8. \A c \in Coins(utxo_set') : c.hash \in T \/ (c \in Coins(utxo_set) /\ \A t \in T : c \notin CoinsSpentBy(t))
  BY <1>3 DEF FromBefore
<1> HIDE DEF T
<1>9. ASSUME NEW t \in Applied', NEW c \in CoinsSpentBy(t)
      PROVE  c \notin Coins(utxo_set') /\ c.hash \in Confirmed \cup Applied
  <2>1. c.hash \in Confirmed \cup Applied
    BY <1>5, <1>6, <1>7 DEF SpentInv
  <2>2. c.hash \notin T
    BY <1>7, <2>1
  <2>3. t \notin T => c \notin Coins(utxo_set)
    BY <1>5 DEF SpentInv
  <2> QED
    BY <1>8, <2>1, <2>2, <2>3
<1>10. \A t \in utxo_set' : t.hash \in Confirmed \cup Applied'
  <2>1. \A t \in utxo_set' : t.hash \in T \/ \E s \in utxo_set : t.hash = s.hash
    BY <1>3 DEF FromBefore
  <2>2. \A s \in utxo_set : s.hash \in Confirmed \cup Applied
    BY DEF SpentInv
  <2> QED
    BY <1>5, <2>1, <2>2
<1>11. \A t \in network' \cap Taken' : CoinsSpentBy(t) # {}
  BY <1>2, <1>5 DEF SpentInv
<1> QED
  BY <1>2, <1>5, <1>9, <1>10, <1>11 DEF SpentInv

\* The steps of a peer.
LEMMA PeerSpent == ASSUME SpentInv, Fresh, CoinInv, SafeInv, PeerStep \/ PeerMessage PROVE SpentInv'
<1>1. WalletInv /\ PlaceInv /\ KnownInv
  BY DEF SafeInv
<1>2. "tx_check" \notin BlockPhases /\ "tx_push" \notin BlockPhases /\ "idle" \notin BlockPhases /\ Idle.at = "idle"
      /\ "accounts" \in BlockPhases /\ "confirm" \in BlockPhases /\ "confirm_push" \in BlockPhases
      /\ "include" \in BlockPhases
  BY IdleIs DEF BlockPhases
<1>3. ASSUME NEW tx, handle_tx_message(tx) PROVE SpentInv'
  <2>1. OnlyPeer /\ network' = network /\ handler.at = "idle" /\ handler'.at = "tx_check"
    BY <1>1, <1>3, TxMessageIs
  <2>2. utxo_set' = utxo_set
    BY <1>3 DEF handle_tx_message, chainVars
  <2> QED
    BY <1>2, <2>1, <2>2, SpentKept DEF OnlyPeer
<1>4. CASE involves_user_account
  <2>1. OnlyPeer /\ network' = network /\ handler.at = "tx_check" /\ (handler'.at = "tx_push" \/ handler' = Idle)
    BY <1>1, <1>4, InvolvesIs
  <2>2. utxo_set' = utxo_set
    BY <1>4 DEF involves_user_account, chainVars
  <2> QED
    BY <1>2, <2>1, <2>2, SpentKept DEF OnlyPeer
<1>5. CASE push_pending
  <2>1. OnlyPeer /\ network' = network /\ handler.at = "tx_push" /\ handler'.at = "tx_check"
    BY <1>1, <1>5, PushPendingIs
  <2>2. utxo_set' = utxo_set
    BY <1>5 DEF push_pending, chainVars
  <2> QED
    BY <1>2, <2>1, <2>2, SpentKept DEF OnlyPeer
<1>6. CASE update_accounts_utxo_set
  <2>1. OnlyPeer /\ network' = network /\ handler.at = "accounts" /\ handler'.at = "confirm" /\ handler'.txs = handler.txs
    BY <1>1, <1>6, UpdateIs
  <2>2. utxo_set' = utxo_set
    BY <1>6 DEF update_accounts_utxo_set, chainVars
  <2> QED
    BY <1>2, <2>1, <2>2, SpentKept DEF OnlyPeer
<1>7. CASE contains_pending_tx
  <2>1. OnlyPeer /\ network' = network /\ handler.at = "confirm" /\ handler'.txs = handler.txs
        /\ (handler'.at = "include" \/ handler'.at = "confirm_push")
    BY <1>1, <1>7, ContainsPendingIs
  <2>2. utxo_set' = utxo_set
    BY <1>7 DEF contains_pending_tx, chainVars
  <2> QED
    BY <1>2, <2>1, <2>2, SpentKept DEF OnlyPeer
<1>8. CASE push_confirmed
  <2>1. OnlyPeer /\ network' = network /\ handler.at = "confirm_push" /\ handler'.at = "confirm" /\ handler'.txs = handler.txs
    BY <1>1, <1>8, PushConfirmedIs
  <2>2. utxo_set' = utxo_set
    BY <1>8 DEF push_confirmed, chainVars
  <2> QED
    BY <1>2, <2>1, <2>2, SpentKept DEF OnlyPeer
<1>9. CASE include_new_block
  <2>1. /\ network' = network /\ handler.at = "include" /\ handler' = Idle
        /\ DOMAIN blocks' = DOMAIN blocks \cup {headers} /\ headers \notin DOMAIN blocks
        /\ blocks'[headers] = handler.txs /\ \A b \in DOMAIN blocks : blocks'[b] = blocks[b]
    BY <1>1, <1>9, IncludeIs
  <2>2. MinedTxs' = MinedTxs \cup Range(handler.txs)
    BY <2>1, MinedGrows
  <2>3. utxo_set' = utxo_set
    BY <1>9 DEF include_new_block
  <2>4. Applied' = Applied /\ Taken' = Taken
    BY <1>2, <2>1, <2>2 DEF Applied, Taken
  <2>5. handler'.at # "utxos"
    BY <1>2, <2>1
  <2> QED
    BY <2>1, <2>3, <2>4, <2>5 DEF SpentInv
<1>10. CASE give_me_utxos
  BY <1>10, GiveMeUtxosSpent
<1>11. CASE PeerStep
  BY <1>4, <1>5, <1>6, <1>7, <1>8, <1>9, <1>10, <1>11 DEF PeerStep
<1>12. ASSUME NEW b \in 1 .. (headers + 1), handle_headers_message(b) PROVE SpentInv'
  <2>1. UNCHANGED <<utxo_set, blocks, handler, network>>
    BY <1>12 DEF handle_headers_message, netVars
  <2> QED
    BY <2>1, OthersSpent
<1>13. CASE PeerMessage
  BY <1>3, <1>12, <1>13, BlockSpent DEF PeerMessage, BlockLists
<1> QED
  BY <1>11, <1>13

\* Every step keeps it.
LEMMA NextSpent == ASSUME LibraryLengths, SpentInv, Fresh, CoinInv, SafeInv, [Next]_vars PROVE SpentInv'
<1>1. CASE UNCHANGED vars
  BY <1>1, OthersSpent DEF vars, chainVars, netVars
<1> QED
  BY <1>1, ClicksAndEventsSpent, WalletSpent, PeerSpent DEF Next, SafeInv

\* It holds at the start, where the unspent outputs are those of the chain.
LEMMA InitSpent == ASSUME Init PROVE SpentInv
<1>1. /\ utxo_set = UNION {load_utxos({}, tx) : tx \in {t \in Confirmed : DOMAIN blocks # {}}} /\ handler = Idle
      /\ \E stored \in SUBSET (1 .. headers) : blocks = [b \in stored |-> <<>>]
  BY DEF Init
<1>2. MinedTxs = {}
  BY <1>1 DEF MinedTxs, Range
<1>3. handler.at = "idle" /\ Applied = {} /\ Taken = {}
  BY <1>1, <1>2, IdleIs DEF Applied, Taken, BlockPhases
<1>4. \A tx \in Confirmed : \A t \in load_utxos({}, tx) : t.hash = tx
  BY DEF load_utxos
<1>5. \A t \in utxo_set : t.hash \in Confirmed
  BY <1>1, <1>4
<1> QED
  BY <1>3, <1>5 DEF SpentInv

\* A payment of coins that are up to date spends none that a block of the chain
\* has spent.
Unspent == Len(made') > Len(made) /\ made'[Len(made')].current =>
               \A t \in MinedTxs : CoinsSpentBy(t) \cap CoinsSpentBy(made'[Len(made')].tx) = {}

\* Every step pays with such coins only.
LEMMA NextUnspent == ASSUME LibraryLengths, SpentInv, CoinInv, SafeInv, [Next]_vars PROVE Unspent
<1>1. WalletInv /\ IsList(made)
  BY DEF SafeInv, WalletInv, ShapeInv
<1>2. Len(made) \in Nat
  BY <1>1 DEF IsList
<1>3. CASE made' = made
  BY <1>2, <1>3 DEF Unspent
<1>4. CASE handle_make_transaction /\ made' # made
  <2>1. PICK m : made' = Append(made, m) /\ IsPayment(m) /\ current \in DOMAIN accounts
    BY <1>1, <1>4, PaymentMade
  <2>2. Len(made') = Len(made) + 1 /\ made'[Len(made) + 1] = m
    BY <1>1, <2>1, ListAppend
  <2>3. ASSUME m.current, NEW t \in MinedTxs PROVE CoinsSpentBy(t) \cap CoinsSpentBy(m.tx) = {}
    <3> DEFINE a == accounts[current]
    <3>1. handler.at # "accounts" /\ current \notin raced
      BY <2>1, <2>3 DEF IsPayment
    <3>2. a.utxo_set = utxos_referenced_to_account(utxo_set, a.address) /\ GoodCoins(utxo_set)
      BY <2>1, <3>1 DEF CoinInv, CoinsInv, ExactInv, Exact
    <3> HIDE DEF a
    <3>3. \A c : c \in Coins(utxos_referenced_to_account(utxo_set, a.address)) =>
              \E s \in utxo_set : \E u \in Range(s.utxo_set) : c = [hash |-> s.hash, index |-> u.index]
      BY <3>2, ReferencedIs
    <3>4. \A c : c \in Coins(utxo_set) <=> \E s \in utxo_set : \E u \in Range(s.utxo_set) : c = [hash |-> s.hash, index |-> u.index]
      BY CoinIs
    <3>5. Coins(a.utxo_set) \subseteq Coins(utxo_set)
      BY <3>2, <3>3, <3>4
    <3>6. CoinsSpentBy(m.tx) \subseteq Coins(utxo_set)
      BY <2>1, <3>5 DEF IsPayment, a
    <3>7. CoinsSpentBy(t) \cap Coins(utxo_set) = {}
      BY DEF SpentInv, Applied
    <3> QED
      BY <3>6, <3>7
  <2> QED
    BY <2>2, <2>3 DEF Unspent
<1> QED
  BY <1>3, <1>4, KeysStay

\* SpendsUnspentCoins: get_utxos_for_amount chooses no output that a block has
\* spent (remove_utxos, then set_utxos), while the coins of the account are up to
\* date; for networks whose new transactions are none of the downloaded chain.
THEOREM PaidUnspent == LibraryLengths /\ StandardScripts /\ Spec /\ []Fresh => SpendsUnspentCoins
<1> SUFFICES ASSUME LibraryLengths, StandardScripts PROVE Spec /\ []Fresh => SpendsUnspentCoins
  OBVIOUS
<1>1. Init => SafeInv /\ CoinInv /\ SpentInv
  BY InitSafe, InitCoins, InitSpent
<1>2. SafeInv /\ CoinInv /\ SpentInv /\ Fresh /\ [Next]_vars => SafeInv' /\ CoinInv' /\ SpentInv'
  BY NextSafe, NextCoins, NextSpent
<1>3. SafeInv /\ CoinInv /\ SpentInv /\ [Next]_vars => [Unspent]_vars
  BY NextUnspent
<1>4. SpendsUnspentCoins <=> [][Unspent]_vars
  BY DEF SpendsUnspentCoins, Unspent
<1> QED
  BY <1>1, <1>2, <1>3, <1>4, PTL DEF Spec
===============================================================================
