----------------------------- MODULE ListLemmas -----------------------------
(***************************************************************************)
(* Facts about natural numbers and lists that the proofs of several        *)
(* components rest on: induction up to a number, through least elements,   *)
(* and what FlattenSeq, a recursive function over the list, computes.      *)
(***************************************************************************)
EXTENDS Integers, SequencesExt, TLAPS, WellFoundedInduction

\* A set of natural numbers that is not empty has a least element.
LEMMA LeastElement ==
    ASSUME NEW T, T \subseteq Nat, T # {}
    PROVE  \E n \in T : \A m \in T : n <= m
<1> DEFINE R == {ss \in Nat \X Nat : ss[1] < ss[2]}
<1>1. IsWellFoundedOn(R, Nat)
  BY NatLessThanWellFounded DEF OpToRel
<1> HIDE DEF R
<1>2. PICK n \in T : \A m \in T : <<m, n>> \notin R
  BY <1>1, WFMin
<1>3. ASSUME NEW m \in T PROVE n <= m
  <2>1. m \in Nat /\ n \in Nat
    OBVIOUS
  <2>2. ~(m < n)
    BY <1>2, <2>1 DEF R
  <2> QED
    BY <2>1, <2>2
<1> QED
  BY <1>3

\* Induction from a to N, for a set of numbers.
LEMMA UpTo ==
    ASSUME NEW a \in Nat, NEW N \in Nat, NEW G, a \in G,
           \A n \in a .. (N - 1) : n \in G => n + 1 \in G
    PROVE  a .. N \subseteq G
<1> SUFFICES ASSUME ~(a .. N \subseteq G) PROVE FALSE
  OBVIOUS
<1> DEFINE T == {n \in a .. N : n \notin G}
<1>1. T \subseteq Nat /\ T # {}
  OBVIOUS
<1>2. PICK n \in T : \A m \in T : n <= m
  BY <1>1, LeastElement
<1>3. n \in a .. N /\ n # a /\ n \notin G
  BY <1>2
<1>4. n - 1 \in a .. (N - 1) /\ n - 1 \in a .. N
  BY <1>3
<1>5. n - 1 \in G
  BY <1>2, <1>3, <1>4
<1> QED
  BY <1>3, <1>4, <1>5

\* A list of one element.
LEMMA OneElement == ASSUME NEW S, NEW e \in S PROVE <<e>> \in Seq(S)
OBVIOUS

\* The function that FlattenSeq defines exists, and takes lists as its values.
LEMMA FlattenDef ==
    ASSUME NEW S, NEW ss \in Seq(Seq(S)), ss # <<>>
    PROVE  \E F \in [1 .. Len(ss) -> Seq(S)] :
              /\ F[1] = ss[1]
              /\ \A i \in 2 .. Len(ss) : F[i] = F[i - 1] \o ss[i]
              /\ FlattenSeq(ss) = F[Len(ss)]
<1> DEFINE N == Len(ss)
           Body(f, k) == [i \in 1 .. k |-> IF i = 1 THEN ss[i] ELSE f[i - 1] \o ss[i]]
           G == {k \in 1 .. N : \E f : f = Body(f, k)}
<1>0. N \in Nat /\ N > 0
  OBVIOUS
<1>1. 1 \in G
  <2> DEFINE g == [i \in 1 .. 1 |-> ss[i]]
  <2>1. g = Body(g, 1)
    OBVIOUS
  <2> HIDE DEF g, Body
  <2>2. \E f : f = Body(f, 1)
    BY <2>1
  <2> QED
    BY <1>0, <2>2
<1>2. ASSUME NEW k \in 1 .. (N - 1), k \in G PROVE k + 1 \in G
  <2>1. PICK f : f = Body(f, k)
    BY <1>2
  <2>0. \A i \in 1 .. k : f[i] = IF i = 1 THEN ss[i] ELSE f[i - 1] \o ss[i]
    BY <2>1
  <2> DEFINE g == [i \in 1 .. (k + 1) |-> IF i <= k THEN f[i] ELSE f[k] \o ss[k + 1]]
  <2>2. g = Body(g, k + 1)
    <3> SUFFICES ASSUME NEW i \in 1 .. (k + 1)
                 PROVE  g[i] = IF i = 1 THEN ss[i] ELSE g[i - 1] \o ss[i]
      OBVIOUS
    <3>1. CASE i = 1
      BY <2>0, <3>1
    <3>2. CASE i \in 2 .. k
      <4>1. i # 1 /\ i \in 1 .. k /\ i - 1 \in 1 .. (k + 1) /\ i - 1 <= k
        BY <3>2
      <4>2. f[i] = f[i - 1] \o ss[i]
        BY <2>0, <4>1
      <4>3. g[i] = f[i] /\ g[i - 1] = f[i - 1]
        BY <4>1
      <4> QED
        BY <4>1, <4>2, <4>3
    <3>3. CASE i = k + 1
      BY <3>3
    <3> QED
      BY <3>1, <3>2, <3>3
  <2> HIDE DEF g, Body
  <2>3. \E f_1 : f_1 = Body(f_1, k + 1)
    BY <2>2
  <2>4. k + 1 \in 1 .. N
    BY <1>0
  <2> QED
    BY <2>3, <2>4
<1>3. N \in G
  <2> HIDE DEF G, N
  <2>1. 1 .. N \subseteq G
    BY <1>0, <1>1, <1>2, UpTo
  <2> QED
    BY <1>0, <2>1
<1> DEFINE F == CHOOSE f : f = Body(f, N)
<1>4. F = Body(F, N)
  BY <1>3
<1>5. FlattenSeq(ss) = F[N]
  BY <1>0 DEF FlattenSeq
<1> HIDE DEF F
<1>6. /\ DOMAIN F = 1 .. N
      /\ F[1] = ss[1]
      /\ \A i \in 2 .. N : F[i] = F[i - 1] \o ss[i]
  <2>1. DOMAIN F = 1 .. N
    BY <1>4
  <2>2. \A i \in 1 .. N : F[i] = IF i = 1 THEN ss[i] ELSE F[i - 1] \o ss[i]
    BY <1>4
  <2>3. 1 \in 1 .. N /\ \A i \in 2 .. N : i \in 1 .. N /\ i # 1
    BY <1>0
  <2> QED
    BY <2>1, <2>2, <2>3
<1>7. 1 .. N \subseteq {i \in 1 .. N : F[i] \in Seq(S)}
  <2> DEFINE H == {i \in 1 .. N : F[i] \in Seq(S)}
  <2>1. 1 \in H
    BY <1>0, <1>6
  <2>2. ASSUME NEW i \in 1 .. (N - 1), i \in H PROVE i + 1 \in H
    <3>1. i + 1 \in 2 .. N /\ F[i] \in Seq(S) /\ ss[i + 1] \in Seq(S)
      BY <1>0, <2>2
    <3>2. F[i + 1] = F[(i + 1) - 1] \o ss[i + 1]
      BY <1>6, <3>1
    <3>3. (i + 1) - 1 = i
      OBVIOUS
    <3>4. F[i + 1] \in Seq(S)
      BY <3>1, <3>2, <3>3
    <3> QED
      BY <1>0, <3>1, <3>4
  <2> HIDE DEF H, N
  <2>3. 1 .. N \subseteq H
    BY <1>0, <2>1, <2>2, UpTo
  <2> QED
    BY <2>3 DEF H
<1>8. F \in [1 .. N -> Seq(S)]
  BY <1>4, <1>7
<1> QED
  BY <1>5, <1>6, <1>8

\* Lists put together are a list of the same kind.
LEMMA FlattenType ==
    ASSUME NEW S, NEW ss \in Seq(Seq(S))
    PROVE  FlattenSeq(ss) \in Seq(S)
<1>1. CASE ss = <<>>
  BY <1>1 DEF FlattenSeq
<1>2. CASE ss # <<>>
  <2>1. Len(ss) \in 1 .. Len(ss)
    BY <1>2
  <2>2. PICK F \in [1 .. Len(ss) -> Seq(S)] : FlattenSeq(ss) = F[Len(ss)]
    BY <1>2, FlattenDef
  <2> QED
    BY <2>1, <2>2
<1> QED
  BY <1>1, <1>2

\* One more list at the end adds its elements at the end.
LEMMA FlattenAppend ==
    ASSUME NEW S, NEW ss \in Seq(Seq(S)), NEW x \in Seq(S)
    PROVE  FlattenSeq(Append(ss, x)) = FlattenSeq(ss) \o x
<1> DEFINE tt == Append(ss, x)
           N == Len(ss)
<1>1. /\ tt \in Seq(Seq(S)) /\ tt # <<>> /\ N \in Nat /\ Len(tt) = N + 1 /\ tt[N + 1] = x
      /\ \A i \in 1 .. N : tt[i] = ss[i]
  <2>1. N \in Nat /\ tt \in Seq(Seq(S)) /\ Len(tt) = N + 1
    OBVIOUS
  <2>2. tt[N + 1] = x /\ \A i \in 1 .. N : tt[i] = ss[i]
    OBVIOUS
  <2> HIDE DEF tt, N
  <2>3. tt # <<>>
    BY <2>1
  <2> QED
    BY <2>1, <2>2, <2>3
<1>2. PICK G \in [1 .. Len(tt) -> Seq(S)] :
         /\ G[1] = tt[1]
         /\ \A i \in 2 .. Len(tt) : G[i] = G[i - 1] \o tt[i]
         /\ FlattenSeq(tt) = G[Len(tt)]
  <2> HIDE DEF tt, N
  <2> QED
    BY <1>1, FlattenDef
<1> HIDE DEF tt
<1>3. CASE ss = <<>>
  <2>1. N = 0 /\ FlattenSeq(ss) = <<>>
    BY <1>3 DEF FlattenSeq
  <2>2. FlattenSeq(tt) = x
    BY <1>1, <1>2, <2>1
  <2>3. <<>> \o x = x
    OBVIOUS
  <2> QED
    BY <2>1, <2>2, <2>3 DEF tt
<1>4. CASE ss # <<>>
  <2>0. N > 0
    BY <1>4
  <2>1. PICK F \in [1 .. N -> Seq(S)] :
           /\ F[1] = ss[1]
           /\ \A i \in 2 .. N : F[i] = F[i - 1] \o ss[i]
           /\ FlattenSeq(ss) = F[N]
    BY <1>4, FlattenDef
  <2> HIDE DEF N
  <2> DEFINE H == {i \in 1 .. N : F[i] = G[i]}
  <2>2. 1 \in H
    BY <1>1, <1>2, <2>0, <2>1
  <2>3. ASSUME NEW i \in 1 .. (N - 1), i \in H PROVE i + 1 \in H
    <3>1. i + 1 \in 2 .. N /\ i + 1 \in 2 .. Len(tt) /\ (i + 1) - 1 = i /\ i + 1 \in 1 .. N
      BY <1>1, <2>0
    <3>2. F[i + 1] = F[i] \o ss[i + 1] /\ G[i + 1] = G[i] \o tt[i + 1]
      BY <1>2, <2>1, <3>1
    <3> QED
      BY <1>1, <2>3, <3>1, <3>2
  <2> HIDE DEF H
  <2>4. 1 .. N \subseteq H
    BY <1>1, <2>2, <2>3, UpTo
  <2>5. F[N] = G[N]
    BY <1>1, <2>0, <2>4 DEF H
  <2>6. N + 1 \in 2 .. Len(tt) /\ (N + 1) - 1 = N
    BY <1>1, <2>0
  <2>7. G[N + 1] = G[N] \o x
    BY <1>1, <1>2, <2>6
  <2> QED
    BY <1>1, <1>2, <2>1, <2>5, <2>7 DEF tt
<1> QED
  BY <1>3, <1>4

--------------------------------------------------------------------------------
(***************************************************************************)
(* Lists of whatever kind of elements.                                     *)
(***************************************************************************)
IsList(s) == s \in Seq(Range(s))

\* A list is known by its length and its elements.
LEMMA ListIs ==
    ASSUME NEW S, NEW s \in Seq(S)
    PROVE  /\ IsList(s) /\ Len(s) \in Nat /\ DOMAIN s = 1 .. Len(s)
           /\ \A i \in 1 .. Len(s) : s[i] \in S
<1>1. Len(s) \in Nat /\ DOMAIN s = 1 .. Len(s) /\ s \in [1 .. Len(s) -> S]
  OBVIOUS
<1>2. s \in [1 .. Len(s) -> Range(s)]
  BY <1>1 DEF Range
<1>3. s \in Seq(Range(s))
  BY <1>1, <1>2
<1> QED
  BY <1>1, <1>3 DEF IsList

\* The first n elements and one more.
LEMMA ListAppend ==
    ASSUME NEW s, IsList(s), NEW e
    PROVE  /\ IsList(Append(s, e)) /\ Len(s) \in Nat /\ Len(Append(s, e)) = Len(s) + 1
           /\ DOMAIN s = 1 .. Len(s) /\ DOMAIN Append(s, e) = 1 .. (Len(s) + 1)
           /\ \A i \in 1 .. Len(s) : Append(s, e)[i] = s[i]
           /\ Append(s, e)[Len(s) + 1] = e
<1> DEFINE S == Range(s) \cup {e}
<1>1. s \in Seq(Range(s)) /\ Len(s) \in Nat
  BY DEF IsList
<1>2. s \in Seq(S) /\ e \in S
  BY <1>1
<1> HIDE DEF S
<1>3. Append(s, e) \in Seq(S)
  BY <1>2
<1>4. IsList(Append(s, e))
  BY <1>3, ListIs
<1> QED
  BY <1>1, <1>2, <1>4

\* All but the first element.
LEMMA ListTail ==
    ASSUME NEW s, IsList(s), s # <<>>
    PROVE  /\ IsList(Tail(s)) /\ Len(s) \in Nat \ {0} /\ Len(Tail(s)) = Len(s) - 1
           /\ DOMAIN s = 1 .. Len(s) /\ DOMAIN Tail(s) = 1 .. (Len(s) - 1)
           /\ \A i \in 1 .. (Len(s) - 1) : Tail(s)[i] = s[i + 1]
           /\ Head(s) = s[1]
<1>1. s \in Seq(Range(s)) /\ Len(s) \in Nat \ {0}
  BY DEF IsList
<1>2. Tail(s) \in Seq(Range(s))
  BY <1>1
<1>3. IsList(Tail(s))
  BY <1>2, ListIs
<1> QED
  BY <1>1, <1>2, <1>3

\* One list after another.
LEMMA ListConcat ==
    ASSUME NEW s, IsList(s), NEW t, IsList(t)
    PROVE  /\ IsList(s \o t) /\ Len(s) \in Nat /\ Len(t) \in Nat /\ Len(s \o t) = Len(s) + Len(t)
           /\ DOMAIN s = 1 .. Len(s) /\ DOMAIN t = 1 .. Len(t) /\ DOMAIN (s \o t) = 1 .. (Len(s) + Len(t))
           /\ \A i \in 1 .. Len(s) : (s \o t)[i] = s[i]
           /\ \A i \in 1 .. Len(t) : (s \o t)[Len(s) + i] = t[i]
<1> DEFINE S == Range(s) \cup Range(t)
<1>1. s \in Seq(Range(s)) /\ t \in Seq(Range(t)) /\ Len(s) \in Nat /\ Len(t) \in Nat
  BY DEF IsList
<1>2. s \in Seq(S) /\ t \in Seq(S)
  BY <1>1
<1> HIDE DEF S
<1>3. s \o t \in Seq(S)
  BY <1>2
<1>4. IsList(s \o t)
  BY <1>3, ListIs
<1> QED
  BY <1>1, <1>2, <1>3, <1>4

\* The first e is taken out: all other elements stay, in their order.
LEMMA ListRemoveFirst ==
    ASSUME NEW s, IsList(s), NEW e, \E i \in DOMAIN s : s[i] = e
    PROVE  \E k \in 1 .. Len(s) :
              /\ Len(s) \in Nat \ {0} /\ DOMAIN s = 1 .. Len(s) /\ s[k] = e
              /\ IsList(RemoveFirst(s, e)) /\ DOMAIN RemoveFirst(s, e) = 1 .. (Len(s) - 1)
              /\ \A i \in 1 .. (Len(s) - 1) : RemoveFirst(s, e)[i] = IF i < k THEN s[i] ELSE s[i + 1]
<1> DEFINE I == {i \in 1 .. Len(s) : s[i] = e}
<1>1. s \in Seq(Range(s)) /\ Len(s) \in Nat /\ DOMAIN s = 1 .. Len(s)
  BY DEF IsList
<1>2. I \subseteq Nat /\ I # {}
  BY <1>1
<1>3. \E n \in I : \A m \in I : n <= m
  BY <1>2, LeastElement
<1>4. Min(I) \in I
  BY <1>3 DEF Min
<1>5. PICK k \in 1 .. Len(s) : k = Min(I) /\ s[k] = e
  BY <1>4
<1>6. RemoveFirst(s, e) = SubSeq(s, 1, k - 1) \o SubSeq(s, k + 1, Len(s))
  BY <1>1, <1>2, <1>5 DEF RemoveFirst, RemoveAt, SelectInSeq
<1> HIDE DEF I
<1>7. Len(s) \in Nat \ {0} /\ k \in Nat \ {0} /\ k <= Len(s)
  BY <1>1
<1>8. /\ SubSeq(s, 1, k - 1) \in Seq(Range(s)) /\ Len(SubSeq(s, 1, k - 1)) = k - 1
      /\ \A i \in 1 .. (k - 1) : SubSeq(s, 1, k - 1)[i] = s[i]
  BY <1>1, <1>7
<1>9. /\ SubSeq(s, k + 1, Len(s)) \in Seq(Range(s)) /\ Len(SubSeq(s, k + 1, Len(s))) = Len(s) - k
      /\ \A i \in 1 .. (Len(s) - k) : SubSeq(s, k + 1, Len(s))[i] = s[k + i]
  <2>1. PICK N \in Nat : N = Len(s)
    BY <1>1
  <2>2. \A i \in (k + 1) .. N : s[i] \in Range(s)
    BY <1>1, <1>7, <2>1
  <2>3. SubSeq(s, k + 1, N) \in Seq(Range(s))
    BY <1>7, <2>1, <2>2
  <2>4. Len(SubSeq(s, k + 1, N)) = N - k
    BY <1>7, <2>1
  <2>5. ASSUME NEW i \in 1 .. (N - k) PROVE SubSeq(s, k + 1, N)[i] = s[k + i]
    <3>1. (k + 1) + i - 1 = k + i
      BY <1>7, <2>1
    <3> QED
      BY <1>7, <2>1, <3>1
  <2> QED
    BY <2>1, <2>3, <2>4, <2>5
<1> DEFINE a == SubSeq(s, 1, k - 1)
           b == SubSeq(s, k + 1, Len(s))
<1>10. /\ IsList(a) /\ Len(a) = k - 1 /\ (\A i \in 1 .. (k - 1) : a[i] = s[i])
       /\ IsList(b) /\ Len(b) = Len(s) - k /\ (\A i \in 1 .. (Len(s) - k) : b[i] = s[k + i])
  BY <1>8, <1>9, ListIs
<1> HIDE DEF a, b
<1>11. /\ IsList(a \o b) /\ DOMAIN (a \o b) = 1 .. (Len(a) + Len(b))
       /\ \A i \in 1 .. Len(a) : (a \o b)[i] = a[i]
       /\ \A i \in 1 .. Len(b) : (a \o b)[Len(a) + i] = b[i]
  <2>1. IsList(a) /\ IsList(b)
    BY <1>10
  <2> QED
    BY <2>1, ListConcat
<1>12. Len(a) + Len(b) = Len(s) - 1
  BY <1>7, <1>10
<1>13. ASSUME NEW i \in 1 .. (Len(s) - 1) PROVE (a \o b)[i] = IF i < k THEN s[i] ELSE s[i + 1]
  <2>1. CASE i < k
    <3>1. i \in 1 .. (k - 1)
      BY <1>7, <2>1
    <3> QED
      BY <1>10, <1>11, <2>1, <3>1
  <2>2. CASE ~(i < k)
    <3>1. PICK j \in 1 .. (Len(s) - k) : j = i - (k - 1)
      BY <1>7, <2>2
    <3>2. Len(a) + j = i /\ k + j = i + 1
      BY <1>7, <1>10, <3>1
    <3>3. (a \o b)[Len(a) + j] = b[j] /\ b[j] = s[k + j]
      BY <1>10, <1>11, <3>1
    <3> QED
      BY <2>2, <3>2, <3>3
  <2> QED
    BY <2>1, <2>2
<1>14. RemoveFirst(s, e) = a \o b
  BY <1>6 DEF a, b
<1>15. /\ IsList(RemoveFirst(s, e)) /\ DOMAIN RemoveFirst(s, e) = 1 .. (Len(s) - 1)
       /\ \A i \in 1 .. (Len(s) - 1) : RemoveFirst(s, e)[i] = IF i < k THEN s[i] ELSE s[i + 1]
  <2> DEFINE c == a \o b
  <2>1. /\ IsList(c) /\ DOMAIN c = 1 .. (Len(s) - 1)
        /\ \A i \in 1 .. (Len(s) - 1) : c[i] = IF i < k THEN s[i] ELSE s[i + 1]
    BY <1>11, <1>12, <1>13
  <2> HIDE DEF c
  <2>2. RemoveFirst(s, e) = c
    BY <1>14 DEF c
  <2> QED
    BY <2>1, <2>2
<1> QED
  BY <1>1, <1>5, <1>7, <1>15

\* A function on 1 .. n is a list.
LEMMA ListOf ==
    ASSUME NEW s, NEW n \in Nat, s = [i \in 1 .. n |-> s[i]]
    PROVE  IsList(s) /\ Len(s) = n /\ DOMAIN s = 1 .. n
<1>1. DOMAIN s = 1 .. n
  OBVIOUS
<1>2. s \in [1 .. n -> Range(s)]
  BY <1>1 DEF Range
<1>3. s \in Seq(Range(s))
  BY <1>2
<1>4. Len(s) = n
  BY <1>1, <1>3
<1> QED
  BY <1>1, <1>3, <1>4 DEF IsList

\* The elements of two lists, one after another.
LEMMA ListConcatRange ==
    ASSUME NEW s, IsList(s), NEW t, IsList(t)
    PROVE  IsList(s \o t) /\ Range(s \o t) = Range(s) \cup Range(t)
<1> DEFINE u == s \o t
<1>1. /\ IsList(u) /\ Len(s) \in Nat /\ Len(t) \in Nat
      /\ DOMAIN s = 1 .. Len(s) /\ DOMAIN t = 1 .. Len(t) /\ DOMAIN u = 1 .. (Len(s) + Len(t))
      /\ \A i \in 1 .. Len(s) : u[i] = s[i]
      /\ \A i \in 1 .. Len(t) : u[Len(s) + i] = t[i]
  BY ListConcat
<1> HIDE DEF u
<1>2. PICK m \in Nat, n \in Nat : m = Len(s) /\ n = Len(t)
  BY <1>1
<1>3. \A i \in 1 .. (m + n) : i \in 1 .. m \/ (i - m \in 1 .. n /\ m + (i - m) = i)
  OBVIOUS
<1>4. \A i \in 1 .. m : i \in 1 .. (m + n)
  OBVIOUS
<1>5. \A i \in 1 .. n : m + i \in 1 .. (m + n)
  OBVIOUS
<1>6. ASSUME NEW i \in DOMAIN u PROVE u[i] \in Range(s) \cup Range(t)
  <2>1. CASE i \in 1 .. m
    BY <1>1, <1>2, <2>1 DEF Range
  <2>2. CASE i - m \in 1 .. n /\ m + (i - m) = i
    <3>1. PICK k \in 1 .. n : m + k = i
      BY <2>2
    <3>2. u[i] = t[k]
      BY <1>1, <1>2, <3>1
    <3> QED
      BY <1>1, <1>2, <3>1, <3>2 DEF Range
  <2> QED
    BY <1>1, <1>2, <1>3, <2>1, <2>2
<1>7. Range(u) \subseteq Range(s) \cup Range(t)
  BY <1>6 DEF Range
<1>8. Range(s) \subseteq Range(u)
  BY <1>1, <1>2, <1>4 DEF Range
<1>9. Range(t) \subseteq Range(u)
  <2> SUFFICES ASSUME NEW i \in 1 .. n PROVE t[i] \in Range(u)
    BY <1>1, <1>2 DEF Range
  <2>1. m + i \in DOMAIN u /\ u[m + i] = t[i]
    BY <1>1, <1>2, <1>5
  <2> QED
    BY <2>1 DEF Range
<1> QED
  BY <1>1, <1>7, <1>8, <1>9 DEF u

\* F is b at 0 and goes from one number to the next by g.
Steps(F, N, b, g) == F[0] = b /\ \A n \in 1 .. N : F[n] = g[<<n, F[n - 1]>>]

\* Such a function exists.
LEMMA StepByStep ==
    ASSUME NEW N \in Nat, NEW V, NEW b \in V, NEW g \in [(1 .. N) \X V -> V]
    PROVE  \E F \in [0 .. N -> V] : Steps(F, N, b, g)
<1> DEFINE Upto(F, k) == F[0] = b /\ \A n \in 1 .. k : F[n] = g[<<n, F[n - 1]>>]
           G == {k \in 0 .. N : \E F \in [0 .. k -> V] : Upto(F, k)}
<1>1. 0 \in G
  <2> DEFINE F == [n \in 0 .. 0 |-> b]
  <2>1. F \in [0 .. 0 -> V] /\ Upto(F, 0)
    OBVIOUS
  <2> HIDE DEF F, Upto
  <2>2. \E F_1 \in [0 .. 0 -> V] : Upto(F_1, 0)
    BY <2>1
  <2> QED
    BY <2>2
<1>2. ASSUME NEW k \in 0 .. (N - 1), k \in G PROVE k + 1 \in G
  <2>1. PICK F \in [0 .. k -> V] : Upto(F, k)
    BY <1>2
  <2> DEFINE H == [n \in 0 .. (k + 1) |-> IF n <= k THEN F[n] ELSE g[<<n, F[n - 1]>>]]
  <2>2. k + 1 \in 1 .. N /\ k + 1 \in 0 .. N /\ (k + 1) - 1 = k /\ F[k] \in V
    OBVIOUS
  <2>3. g[<<k + 1, F[k]>>] \in V
    BY <2>2
  <2>4. \A n \in 0 .. (k + 1) : n \in 0 .. k \/ n = k + 1
    OBVIOUS
  <2>5. H \in [0 .. (k + 1) -> V]
    BY <2>2, <2>3, <2>4
  <2>6. Upto(H, k + 1)
    <3>1. H[0] = b
      BY <2>1
    <3>2. ASSUME NEW n \in 1 .. (k + 1) PROVE H[n] = g[<<n, H[n - 1]>>]
      <4>1. CASE n \in 1 .. k
        <5>1. n \in 0 .. (k + 1) /\ n - 1 \in 0 .. (k + 1) /\ n <= k /\ n - 1 <= k
          BY <4>1
        <5>2. H[n] = F[n] /\ H[n - 1] = F[n - 1]
          BY <5>1
        <5> QED
          BY <2>1, <4>1, <5>2
      <4>2. CASE n = k + 1
        <5>1. H[k + 1] = g[<<k + 1, F[k]>>] /\ H[k] = F[k]
          BY <2>2
        <5> QED
          BY <2>2, <4>2, <5>1
      <4> QED
        BY <4>1, <4>2
    <3> QED
      BY <3>1, <3>2
  <2> HIDE DEF H, Upto
  <2> QED
    BY <2>2, <2>5, <2>6
<1> HIDE DEF G
<1>3. 0 .. N \subseteq G
  BY <1>1, <1>2, UpTo
<1>4. N \in G
  BY <1>3
<1>5. PICK F \in [0 .. N -> V] : Upto(F, N)
  BY <1>4 DEF G
<1>6. Steps(F, N, b, g)
  BY <1>5 DEF Steps
<1> QED
  BY <1>6

\* The first n elements of a list, and one more.
LEMMA PrefixIs ==
    ASSUME NEW S, NEW s \in Seq(S)
    PROVE  /\ SubSeq(s, 1, 0) = <<>> /\ SubSeq(s, 1, Len(s)) = s
           /\ \A n \in 0 .. Len(s) : SubSeq(s, 1, n) \in Seq(S) /\ Len(SubSeq(s, 1, n)) = n
           /\ \A n \in 0 .. Len(s) : \A i \in 1 .. n : SubSeq(s, 1, n)[i] = s[i]
           /\ \A n \in 1 .. Len(s) : SubSeq(s, 1, n) = Append(SubSeq(s, 1, n - 1), s[n])
<1>1. PICK N \in Nat : N = Len(s)
  OBVIOUS
<1>2. SubSeq(s, 1, 0) = <<>>
  OBVIOUS
<1>3. \A n \in 0 .. N : SubSeq(s, 1, n) \in Seq(S) /\ Len(SubSeq(s, 1, n)) = n
  BY <1>1
<1>4. \A n \in 0 .. N : \A i \in 1 .. n : SubSeq(s, 1, n)[i] = s[i]
  BY <1>1
<1>5. SubSeq(s, 1, N) = s
  BY <1>1, <1>3, <1>4
<1>6. ASSUME NEW n \in 1 .. N PROVE SubSeq(s, 1, n) = Append(SubSeq(s, 1, n - 1), s[n])
  <2>1. /\ SubSeq(s, 1, n) \in Seq(S) /\ Len(SubSeq(s, 1, n)) = n
        /\ \A i \in 1 .. n : SubSeq(s, 1, n)[i] = s[i]
    BY <1>1, <1>3, <1>4
  <2>2. /\ SubSeq(s, 1, n - 1) \in Seq(S) /\ Len(SubSeq(s, 1, n - 1)) = n - 1
        /\ \A i \in 1 .. n - 1 : SubSeq(s, 1, n - 1)[i] = s[i]
    BY <1>1, <1>3, <1>4
  <2>3. s[n] \in S
    BY <1>1
  <2> DEFINE a == SubSeq(s, 1, n)
             b == SubSeq(s, 1, n - 1)
             e == s[n]
  <2> HIDE DEF a, b, e
  <2>4. /\ a \in Seq(S) /\ Len(a) = n /\ b \in Seq(S) /\ Len(b) = n - 1 /\ e \in S
        /\ a[n] = e /\ \A i \in 1 .. n - 1 : a[i] = b[i]
    BY <2>1, <2>2, <2>3 DEF a, b, e
  <2>5. a = Append(b, e)
    BY <2>4
  <2> QED
    BY <2>5 DEF a, b, e
<1> QED
  BY <1>1, <1>2, <1>3, <1>4, <1>5, <1>6

\* What a concatenation of lists contains.
LEMMA FlattenRange ==
    ASSUME NEW S, NEW ss \in Seq(Seq(S))
    PROVE  Range(FlattenSeq(ss)) = UNION {Range(ss[i]) : i \in DOMAIN ss}
<1> DEFINE N == Len(ss)
           P(n) == SubSeq(ss, 1, n)
           U(n) == UNION {Range(ss[i]) : i \in 1 .. n}
           G == {n \in 0 .. N : Range(FlattenSeq(P(n))) = U(n)}
<1>0. N \in Nat /\ DOMAIN ss = 1 .. N
  OBVIOUS
<1>1. 0 \in G
  <2>1. P(0) = <<>>
    BY PrefixIs
  <2>2. FlattenSeq(<<>>) = <<>>
    BY DEF FlattenSeq
  <2>3. Range(<<>>) = {}
    BY DEF Range
  <2>4. U(0) = {}
    OBVIOUS
  <2>5. Range(FlattenSeq(P(0))) = U(0)
    <3> HIDE DEF U, P
    <3> QED
      BY <2>1, <2>2, <2>3, <2>4
  <2> QED
    BY <1>0, <2>5
<1>2. ASSUME NEW n \in 0 .. (N - 1), n \in G PROVE n + 1 \in G
  <2>1. n + 1 \in 1 .. N /\ n \in 0 .. N /\ n + 1 \in 0 .. N /\ (n + 1) - 1 = n
    BY <1>0
  <2>2. P(n + 1) = Append(P(n), ss[n + 1]) /\ P(n) \in Seq(Seq(S)) /\ ss[n + 1] \in Seq(S)
    <3>1. \A k \in 1 .. Len(ss) : SubSeq(ss, 1, k) = Append(SubSeq(ss, 1, k - 1), ss[k])
      BY PrefixIs
    <3>2. \A k \in 0 .. Len(ss) : SubSeq(ss, 1, k) \in Seq(Seq(S))
      BY PrefixIs
    <3> QED
      BY <1>0, <2>1, <3>1, <3>2
  <2> DEFINE p == P(n)
             e == ss[n + 1]
  <2>3. FlattenSeq(Append(p, e)) = FlattenSeq(p) \o e
    BY <2>2, FlattenAppend
  <2>4. IsList(FlattenSeq(p)) /\ IsList(e)
    BY <2>2, FlattenType, ListIs
  <2>5. Range(FlattenSeq(p) \o e) = Range(FlattenSeq(p)) \cup Range(e)
    BY <2>4, ListConcatRange
  <2>6. U(n + 1) = U(n) \cup Range(e)
    <3>1. 1 .. (n + 1) = (1 .. n) \cup {n + 1}
      BY <2>1
    <3> QED
      BY <3>1
  <2>7. Range(FlattenSeq(p)) = U(n)
    BY <1>2
  <2>8. P(n + 1) = Append(p, e)
    BY <2>2
  <2> HIDE DEF p, e, U, P
  <2> QED
    BY <2>1, <2>3, <2>5, <2>6, <2>7, <2>8
<1> HIDE DEF G
<1>3. 0 .. N \subseteq G
  BY <1>0, <1>1, <1>2, UpTo
<1>4. P(N) = ss
  BY PrefixIs
<1>5. N \in G
  BY <1>0, <1>3
<1> QED
  BY <1>0, <1>4, <1>5 DEF G

\* Two lists as one.
IsJoined(S, s, t, m, n, both) ==
    /\ both \in Seq(S) /\ Len(both) = m + n
    /\ \A i \in 1 .. m : both[i] = s[i]
    /\ \A i \in 1 .. n : both[m + i] = t[i]
\* What a concatenation is, element by element.
LEMMA Joined ==
    ASSUME NEW S, NEW s \in Seq(S), NEW t \in Seq(S), NEW m \in Nat, NEW n \in Nat, Len(s) = m, Len(t) = n
    PROVE  IsJoined(S, s, t, m, n, s \o t)
<1>1. Len(s) \in Nat /\ Len(t) \in Nat /\ s \o t \in Seq(S) /\ Len(s \o t) = Len(s) + Len(t)
  OBVIOUS
<1>2. \A i \in 1 .. Len(s) : (s \o t)[i] = s[i]
  OBVIOUS
<1>3. \A i \in 1 .. Len(t) : (s \o t)[Len(s) + i] = t[i]
  OBVIOUS
<1> QED
  BY <1>1, <1>2, <1>3 DEF IsJoined

\* n elements of a list, from the one after k.
IsCut(S, s, k, n, cut) ==
    cut \in Seq(S) /\ Len(cut) = n /\ \A i \in 1 .. n : cut[i] = s[k + i]
\* What a part of a list is, element by element.
LEMMA CutOut ==
    ASSUME NEW S, NEW s \in Seq(S), NEW k \in Nat, NEW n \in Nat, k + n <= Len(s)
    PROVE  IsCut(S, s, k, n, SubSeq(s, k + 1, k + n))
<1>1. PICK N \in Nat : N = Len(s)
  OBVIOUS
<1>2. k + n <= N
  BY <1>1
<1> DEFINE p == k + 1
           q == k + n
<1>3. p \in 1 .. N + 1 /\ q \in 0 .. N /\ q = p + n - 1 /\ p = k + 1
  BY <1>2
<1> HIDE DEF p, q
<1>4. SubSeq(s, p, q) \in Seq(S)
  BY <1>1, <1>3
<1>5. Len(SubSeq(s, p, q)) = n
  BY <1>1, <1>3
<1>6. \A i \in 1 .. n : SubSeq(s, p, q)[i] = s[p + i - 1]
  BY <1>1, <1>3
<1>7. \A i \in 1 .. n : p + i - 1 = k + i
  BY <1>3
<1>8. IsCut(S, s, k, n, SubSeq(s, p, q))
  BY <1>4, <1>5, <1>6, <1>7 DEF IsCut
<1> QED
  BY <1>8 DEF p, q

\* A list is known by its length and its elements.
LEMMA SameList ==
    ASSUME NEW S, NEW s \in Seq(S), NEW t \in Seq(S), NEW n, Len(s) = n, Len(t) = n, \A i \in 1 .. n : s[i] = t[i]
    PROVE  s = t
OBVIOUS

\* A list with one more element.
IsLonger(S, s, e, n, more) ==
    /\ more \in Seq(S) /\ Len(more) = n + 1 /\ DOMAIN more = 1 .. (n + 1)
    /\ \A i \in 1 .. n : more[i] = s[i]
    /\ more[n + 1] = e
\* What a list is once an element is appended.
LEMMA Longer ==
    ASSUME NEW S, NEW s \in Seq(S), NEW e \in S, NEW n \in Nat, Len(s) = n
    PROVE  IsLonger(S, s, e, n, Append(s, e))
<1>1. /\ Append(s, e) \in Seq(S) /\ Len(Append(s, e)) = Len(s) + 1
      /\ DOMAIN Append(s, e) = 1 .. (Len(s) + 1)
  OBVIOUS
<1>2. \A i \in 1 .. Len(s) : Append(s, e)[i] = s[i]
  OBVIOUS
<1>3. Append(s, e)[Len(s) + 1] = e
  OBVIOUS
<1> QED
  BY <1>1, <1>2, <1>3 DEF IsLonger
===============================================================================
