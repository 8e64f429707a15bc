---------------------------- MODULE ListsProofs ----------------------------
(***************************************************************************)
(* What Only keeps of a sequence, for any sequence and set.                *)
(***************************************************************************)
EXTENDS Lists, Integers, WellFoundedInduction, TLAPS

-----------------------------------------------------------------------------
(* Induction over a set of numbers: what the least one missing shows.      *)
LEMMA Least ==
    ASSUME NEW T, T \subseteq Nat, T # {}
    PROVE  \E x \in T : \A y \in T : x <= y
<1> DEFINE R == {ss \in Nat \X Nat : ss[1] < ss[2]}
<1>1. IsWellFoundedOn(R, Nat)
  BY NatLessThanWellFounded DEF OpToRel
<1> HIDE DEF R
<1>2. PICK x \in T : \A y \in T : ~(<<y, x>> \in R)
  BY <1>1, WFMin
<1>3. ASSUME NEW y \in T PROVE x <= y
  <2>1. x \in Nat /\ y \in Nat /\ ~(<<y, x>> \in R)
    BY <1>2
  <2>2. ~(y < x)
    BY <2>1 DEF R
  <2> QED BY <2>1, <2>2
<1> QED BY <1>3

LEMMA UpTo ==
    ASSUME NEW N \in Nat, NEW T, 0 \in T,
           \A n \in 0..N : n \in T /\ n + 1 \in 0..N => n + 1 \in T
    PROVE  0..N \subseteq T
<1> SUFFICES ASSUME (0..N) \ T # {} PROVE FALSE
  OBVIOUS
<1>1. PICK x \in (0..N) \ T : \A y \in (0..N) \ T : x <= y
  BY Least, (0..N) \ T \subseteq Nat, Zenon
<1>2. x # 0 /\ x - 1 \in 0..N /\ x - 1 \in T
  BY <1>1
<1> QED BY <1>1, <1>2, (x - 1) + 1 = x

(* A recursion over 0..N that stays in D defines a function, ...           *)
Recurs(f, N, b, step) == f[0] = b /\ \A n \in 1..N : f[n] = step[n][f[n - 1]]

LEMMA Recursion ==
    ASSUME NEW N \in Nat, NEW D, NEW b \in D, NEW step \in [1..N -> [D -> D]]
    PROVE  \E f \in [0..N -> D] : Recurs(f, N, b, step)
<1> DEFINE M == {m \in 0..N : \E f \in [0..m -> D] : Recurs(f, m, b, step)}
<1>1. 0 \in M
  <2> DEFINE f == [n \in 0..0 |-> b]
  <2>1. f \in [0..0 -> D] /\ f[0] = b
    OBVIOUS
  <2> HIDE DEF f
  <2> QED BY <2>1 DEF Recurs
<1>2. ASSUME NEW m \in 0..N, m \in M, m + 1 \in 0..N PROVE m + 1 \in M
  <2>1. PICK f \in [0..m -> D] : Recurs(f, m, b, step)
    BY <1>2
  <2> DEFINE g == [n \in 0..(m + 1) |-> IF n <= m THEN f[n] ELSE step[m + 1][f[m]]]
  <2>2. step[m + 1][f[m]] \in D
    BY <1>2
  <2>3. g \in [0..(m + 1) -> D]
    BY <2>2
  <2>4. ASSUME NEW n \in 1..(m + 1)
        PROVE  g[n] = step[n][g[n - 1]]
    <3>1. n - 1 \in 0..m /\ g[n - 1] = f[n - 1]
      OBVIOUS
    <3>2. CASE n <= m
      BY <2>1, <3>1, <3>2 DEF Recurs
    <3>3. CASE ~(n <= m)
      <4>1. n = m + 1 /\ n - 1 = m
        BY <3>3
      <4> QED BY <3>1, <4>1
    <3> QED BY <3>2, <3>3
  <2>5. g[0] = b
    BY <2>1 DEF Recurs
  <2> HIDE DEF g
  <2> QED BY <1>2, <2>3, <2>4, <2>5 DEF Recurs
<1>3. N \in M
  <2> HIDE DEF M
  <2>1. \A n \in 0..N : n \in M /\ n + 1 \in 0..N => n + 1 \in M
    BY <1>2
  <2>2. 0..N \subseteq M
    BY <1>1, <2>1, UpTo
  <2> QED BY <2>2
<1> QED BY <1>3

-----------------------------------------------------------------------------
(* What Only does of one more element.                                     *)
Kept(f, s, T) ==
    /\ f[0] = <<>>
    /\ \A n \in 1..Len(s) : f[n] = IF s[n] \in T THEN Append(f[n - 1], s[n]) ELSE f[n - 1]

LEMMA OnlyKept ==
    ASSUME NEW S, NEW s \in Seq(S), NEW T
    PROVE  \E f \in [0..Len(s) -> Seq(S)] : Kept(f, s, T) /\ Only(s, T) = f[Len(s)]
<1> DEFINE f == CHOOSE g : g = [n \in 0..Len(s) |-> IF n = 0 THEN <<>>
                ELSE IF s[n] \in T THEN Append(g[n - 1], s[n]) ELSE g[n - 1]]
<1>1. Only(s, T) = f[Len(s)]
  BY DEF Only
<1>2. \E g \in [0..Len(s) -> Seq(S)] : g = [n \in 0..Len(s) |-> IF n = 0 THEN <<>>
                ELSE IF s[n] \in T THEN Append(g[n - 1], s[n]) ELSE g[n - 1]]
  <2> DEFINE step == [n \in 1..Len(s) |->
                         [q \in Seq(S) |-> IF s[n] \in T THEN Append(q, s[n]) ELSE q]]
  <2>1. step \in [1..Len(s) -> [Seq(S) -> Seq(S)]]
    OBVIOUS
  <2>2. \A n \in 1..Len(s), q \in Seq(S) :
           step[n][q] = IF s[n] \in T THEN Append(q, s[n]) ELSE q
    OBVIOUS
  <2> HIDE DEF step
  <2>3. PICK g \in [0..Len(s) -> Seq(S)] : Recurs(g, Len(s), <<>>, step)
    <3>1. Len(s) \in Nat /\ <<>> \in Seq(S)
      OBVIOUS
    <3> QED BY <2>1, <3>1, Recursion, Zenon
  <2>4. ASSUME NEW n \in 0..Len(s), n # 0
        PROVE  step[n][g[n - 1]] = IF s[n] \in T THEN Append(g[n - 1], s[n]) ELSE g[n - 1]
    <3>1. n \in 1..Len(s) /\ g[n - 1] \in Seq(S)
      BY <2>4
    <3> QED BY <2>2, <3>1
  <2>5. ASSUME NEW n \in 0..Len(s)
        PROVE  g[n] = IF n = 0 THEN <<>>
                      ELSE IF s[n] \in T THEN Append(g[n - 1], s[n]) ELSE g[n - 1]
    <3>1. CASE n = 0
      BY <2>3, <3>1 DEF Recurs
    <3>2. CASE n # 0
      <4>1. g[n] = step[n][g[n - 1]]
        BY <2>3, <3>2 DEF Recurs
      <4> QED BY <2>4, <3>2, <4>1
    <3> QED BY <3>1, <3>2
  <2>6. g = [n \in 0..Len(s) |-> g[n]]
    OBVIOUS
  <2>7. g = [n \in 0..Len(s) |-> IF n = 0 THEN <<>>
                ELSE IF s[n] \in T THEN Append(g[n - 1], s[n]) ELSE g[n - 1]]
    BY <2>5, <2>6
  <2> QED BY <2>7
<1>3. f = [n \in 0..Len(s) |-> IF n = 0 THEN <<>>
                ELSE IF s[n] \in T THEN Append(f[n - 1], s[n]) ELSE f[n - 1]]
  <2>1. \E g : g = [n \in 0..Len(s) |-> IF n = 0 THEN <<>>
                ELSE IF s[n] \in T THEN Append(g[n - 1], s[n]) ELSE g[n - 1]]
    BY <1>2
  <2> QED BY <2>1
<1> HIDE DEF f
<1>4. Kept(f, s, T)
  <2>1. ASSUME NEW n \in 1..Len(s)
        PROVE  f[n] = IF s[n] \in T THEN Append(f[n - 1], s[n]) ELSE f[n - 1]
    <3>1. n \in 0..Len(s) /\ n # 0
      OBVIOUS
    <3> QED BY <1>3, <3>1
  <2>2. f[0] = <<>>
    BY <1>3
  <2> QED BY <2>1, <2>2 DEF Kept
<1>5. \A n \in 0..Len(s) : f[n] \in Seq(S)
  <2> DEFINE M == {n \in 0..Len(s) : f[n] \in Seq(S)}
  <2>1. 0 \in M
    <3>1. 0 \in 0..Len(s) /\ <<>> \in Seq(S)
      OBVIOUS
    <3> QED BY <1>4, <3>1 DEF Kept
  <2>2. ASSUME NEW n \in 0..Len(s), n \in M, n + 1 \in 0..Len(s) PROVE n + 1 \in M
    <3>1. n + 1 \in 1..Len(s) /\ (n + 1) - 1 = n /\ s[n + 1] \in S /\ f[n] \in Seq(S)
      BY <2>2
    <3>2. f[n + 1] = IF s[n + 1] \in T THEN Append(f[n], s[n + 1]) ELSE f[n]
      BY <1>4, <3>1 DEF Kept
    <3>3. f[n + 1] \in Seq(S)
      BY <3>1, <3>2
    <3> QED BY <2>2, <3>3
  <2> HIDE DEF M
  <2>3. 0..Len(s) \subseteq M
    <3>1. Len(s) \in Nat
      OBVIOUS
    <3> QED BY <2>1, <2>2, <3>1, UpTo
  <2> QED BY <2>3 DEF M
<1>6. f \in [0..Len(s) -> Seq(S)]
  <2>1. f = [n \in 0..Len(s) |-> f[n]]
    BY <1>3
  <2> QED BY <1>5, <2>1
<1> QED BY <1>1, <1>4, <1>6

(* What is kept, by its places in the sequence.                            *)
Chosen(h, s, n, T, q) ==
    /\ h \in [1..Len(q) -> 1..n]
    /\ \A i \in 1..Len(q) : q[i] = s[h[i]] /\ q[i] \in T
    /\ \A i, j \in 1..Len(q) : i < j => h[i] < h[j]
    /\ \A k \in 1..n : s[k] \in T => \E i \in 1..Len(q) : h[i] = k

LEMMA OnlyChosen ==
    ASSUME NEW S, NEW s \in Seq(S), NEW T
    PROVE  /\ Only(s, T) \in Seq(S)
           /\ \E h : Chosen(h, s, Len(s), T, Only(s, T))
<1>1. PICK f \in [0..Len(s) -> Seq(S)] : Kept(f, s, T) /\ Only(s, T) = f[Len(s)]
  BY OnlyKept
<1>2. Len(s) \in 0..Len(s)
  OBVIOUS
<1> DEFINE M == {n \in 0..Len(s) : \E h : Chosen(h, s, n, T, f[n])}
<1>3. 0 \in M
  <2>1. f[0] = <<>> /\ Len(f[0]) = 0 /\ 0 \in 0..Len(s)
    BY <1>1 DEF Kept
  <2>2. Chosen([i \in 1..0 |-> 0], s, 0, T, f[0])
    BY <2>1 DEF Chosen
  <2> QED BY <2>1, <2>2
<1>4. ASSUME NEW n \in 0..Len(s), n \in M, n + 1 \in 0..Len(s) PROVE n + 1 \in M
  <2>1. PICK h : Chosen(h, s, n, T, f[n])
    BY <1>4
  <2>2. /\ n + 1 \in 1..Len(s) /\ (n + 1) - 1 = n /\ s[n + 1] \in S
        /\ f[n] \in Seq(S) /\ Len(f[n]) \in Nat
    BY <1>4
  <2>3. f[n + 1] = IF s[n + 1] \in T THEN Append(f[n], s[n + 1]) ELSE f[n]
    BY <1>1, <2>2 DEF Kept
  <2>4. CASE s[n + 1] \notin T
    <3>1. f[n + 1] = f[n]
      BY <2>3, <2>4
    <3>2. \A k \in 1..(n + 1) : s[k] \in T => k \in 1..n
      BY <2>4
    <3>3. 1..n \subseteq 1..(n + 1)
      OBVIOUS
    <3>4. Chosen(h, s, n + 1, T, f[n])
      BY <2>1, <3>2, <3>3 DEF Chosen
    <3> QED BY <1>4, <3>1, <3>4
  <2>5. CASE s[n + 1] \in T
    <3> DEFINE m == Len(f[n])
               g == [i \in 1..(m + 1) |-> IF i <= m THEN h[i] ELSE n + 1]
    <3>1. /\ f[n + 1] = Append(f[n], s[n + 1]) /\ Len(f[n + 1]) = m + 1
          /\ f[n + 1][m + 1] = s[n + 1] /\ \A i \in 1..m : f[n + 1][i] = f[n][i]
      BY <2>2, <2>3, <2>5
    <3>2. /\ h \in [1..m -> 1..n]
          /\ \A i \in 1..m : f[n][i] = s[h[i]] /\ f[n][i] \in T
          /\ \A i, j \in 1..m : i < j => h[i] < h[j]
          /\ \A k \in 1..n : s[k] \in T => \E i \in 1..m : h[i] = k
      BY <2>1 DEF Chosen
    <3>3. g \in [1..(m + 1) -> 1..(n + 1)] /\ g[m + 1] = n + 1 /\ \A i \in 1..m : g[i] = h[i]
      BY <2>2, <3>2
    <3> HIDE DEF g, m
    <3>4. m \in Nat
      BY <2>2 DEF m
    <3>5. \A i \in 1..(m + 1) : f[n + 1][i] = s[g[i]] /\ f[n + 1][i] \in T
      <4> TAKE i \in 1..(m + 1)
      <4>1. CASE i = m + 1
        BY <2>5, <3>1, <3>3, <4>1
      <4>2. CASE i # m + 1
        <5>1. i \in 1..m
          BY <3>4, <4>2
        <5> QED BY <3>1, <3>2, <3>3, <5>1
      <4> QED BY <4>1, <4>2
    <3>6. \A i, j \in 1..(m + 1) : i < j => g[i] < g[j]
      <4> SUFFICES ASSUME NEW i \in 1..(m + 1), NEW j \in 1..(m + 1), i < j PROVE g[i] < g[j]
        OBVIOUS
      <4>1. i \in 1..m /\ g[i] = h[i] /\ h[i] \in 1..n
        BY <3>2, <3>3, <3>4
      <4>2. CASE j = m + 1
        BY <3>3, <4>1, <4>2
      <4>3. CASE j # m + 1
        <5>1. j \in 1..m
          BY <3>4, <4>3
        <5> QED BY <3>2, <3>3, <4>1, <5>1
      <4> QED BY <4>2, <4>3
    <3>7. \A k \in 1..(n + 1) : s[k] \in T => \E i \in 1..(m + 1) : g[i] = k
      <4> SUFFICES ASSUME NEW k \in 1..(n + 1), s[k] \in T PROVE \E i \in 1..(m + 1) : g[i] = k
        OBVIOUS
      <4>1. CASE k = n + 1
        BY <3>3, <3>4, <4>1
      <4>2. CASE k # n + 1
        <5>1. PICK i \in 1..m : h[i] = k
          BY <3>2, <4>2
        <5>2. i \in 1..(m + 1) /\ g[i] = k
          BY <3>3, <3>4, <5>1
        <5> QED BY <5>2
      <4> QED BY <4>1, <4>2
    <3>8. Chosen(g, s, n + 1, T, f[n + 1])
      BY <3>1, <3>3, <3>5, <3>6, <3>7 DEF Chosen
    <3> QED BY <1>4, <3>8
  <2> QED BY <2>4, <2>5
<1>5. 0..Len(s) \subseteq M
  <2> HIDE DEF M
  <2>1. Len(s) \in Nat
    OBVIOUS
  <2> QED BY <1>3, <1>4, <2>1, UpTo
<1> QED BY <1>1, <1>2, <1>5

(* One element more.                                                       *)
LEMMA OnlyEmpty == ASSUME NEW T PROVE Only(<<>>, T) = <<>>
<1>1. <<>> \in Seq({}) /\ Len(<<>>) = 0
  OBVIOUS
<1>2. PICK f \in [0..Len(<<>>) -> Seq({})] : Kept(f, <<>>, T) /\ Only(<<>>, T) = f[Len(<<>>)]
  BY <1>1, OnlyKept
<1> QED BY <1>1, <1>2 DEF Kept

LEMMA OnlyAppend ==
    ASSUME NEW S, NEW s \in Seq(S), NEW T, NEW x \in S
    PROVE  /\ x \in T => Only(Append(s, x), T) = Append(Only(s, T), x)
           /\ x \notin T => Only(Append(s, x), T) = Only(s, T)
<1>1. PICK f \in [0..Len(s) -> Seq(S)] : Kept(f, s, T) /\ Only(s, T) = f[Len(s)]
  BY OnlyKept
<1> DEFINE r == Append(s, x)
<1>2. /\ r \in Seq(S) /\ Len(r) = Len(s) + 1 /\ r[Len(s) + 1] = x
      /\ Len(s) \in Nat /\ \A n \in 1..Len(s) : r[n] = s[n]
  OBVIOUS
<1>3. PICK g \in [0..Len(r) -> Seq(S)] : Kept(g, r, T) /\ Only(r, T) = g[Len(r)]
  BY <1>2, OnlyKept
<1> HIDE DEF r
<1> DEFINE M == {n \in 0..Len(s) : f[n] = g[n]}
<1>4. 0 \in M
  BY <1>1, <1>2, <1>3 DEF Kept
<1>5. ASSUME NEW n \in 0..Len(s), n \in M, n + 1 \in 0..Len(s) PROVE n + 1 \in M
  <2>1. n + 1 \in 1..Len(s) /\ n + 1 \in 1..Len(r) /\ (n + 1) - 1 = n /\ r[n + 1] = s[n + 1]
    BY <1>2, <1>5
  <2>2. f[n + 1] = IF s[n + 1] \in T THEN Append(f[n], s[n + 1]) ELSE f[n]
    BY <1>1, <2>1 DEF Kept
  <2>3. g[n + 1] = IF s[n + 1] \in T THEN Append(g[n], s[n + 1]) ELSE g[n]
    BY <1>3, <2>1 DEF Kept
  <2> QED BY <1>5, <2>2, <2>3
<1>6. 0..Len(s) \subseteq M
  <2> HIDE DEF M
  <2> QED BY <1>2, <1>4, <1>5, UpTo
<1>7. g[Len(s)] = f[Len(s)]
  BY <1>2, <1>6
<1>8. g[Len(r)] = IF x \in T THEN Append(g[Len(s)], x) ELSE g[Len(s)]
  <2>1. Len(r) \in 1..Len(r) /\ Len(r) - 1 = Len(s) /\ r[Len(r)] = x
    BY <1>2
  <2> QED BY <1>3, <2>1 DEF Kept
<1> QED BY <1>1, <1>3, <1>7, <1>8 DEF r

(* Sets that agree on the elements keep the same of them; a set of them    *)
(* all keeps them all.                                                     *)
LEMMA OnlySame ==
    ASSUME NEW S, NEW s \in Seq(S), NEW T, NEW U,
           \A i \in 1..Len(s) : s[i] \in T <=> s[i] \in U
    PROVE  Only(s, T) = Only(s, U)
<1>1. PICK f \in [0..Len(s) -> Seq(S)] : Kept(f, s, T) /\ Only(s, T) = f[Len(s)]
  BY OnlyKept
<1>2. PICK g \in [0..Len(s) -> Seq(S)] : Kept(g, s, U) /\ Only(s, U) = g[Len(s)]
  BY OnlyKept
<1>3. Len(s) \in Nat
  OBVIOUS
<1> DEFINE M == {n \in 0..Len(s) : f[n] = g[n]}
<1>4. 0 \in M
  BY <1>1, <1>2, <1>3 DEF Kept
<1>5. ASSUME NEW n \in 0..Len(s), n \in M, n + 1 \in 0..Len(s) PROVE n + 1 \in M
  <2>1. n + 1 \in 1..Len(s) /\ (n + 1) - 1 = n
    BY <1>3, <1>5
  <2>2. f[n + 1] = IF s[n + 1] \in T THEN Append(f[n], s[n + 1]) ELSE f[n]
    BY <1>1, <2>1 DEF Kept
  <2>3. g[n + 1] = IF s[n + 1] \in U THEN Append(g[n], s[n + 1]) ELSE g[n]
    BY <1>2, <2>1 DEF Kept
  <2>4. s[n + 1] \in T <=> s[n + 1] \in U
    BY <2>1
  <2> QED BY <1>5, <2>2, <2>3, <2>4
<1>6. 0..Len(s) \subseteq M
  <2> HIDE DEF M
  <2> QED BY <1>3, <1>4, <1>5, UpTo
<1>7. Len(s) \in M
  <2>1. Len(s) \in 0..Len(s)
    BY <1>3
  <2> HIDE DEF M
  <2> QED BY <1>6, <2>1
<1> QED BY <1>1, <1>2, <1>7

(* What is added of the set's members comes behind what was kept.          *)
LEMMA OnlyConcat ==
    ASSUME NEW S, NEW s \in Seq(S), NEW p \in Seq(S), NEW T,
           \A i \in 1..Len(p) : p[i] \in T
    PROVE  Only(s \o p, T) = Only(s, T) \o p
<1> DEFINE r == s \o p
<1>1. /\ r \in Seq(S) /\ Len(r) = Len(s) + Len(p) /\ Len(s) \in Nat /\ Len(p) \in Nat
      /\ \A n \in 1..Len(s) : r[n] = s[n]
      /\ \A n \in 1..Len(p) : r[Len(s) + n] = p[n]
  OBVIOUS
<1>2. PICK f \in [0..Len(s) -> Seq(S)] : Kept(f, s, T) /\ Only(s, T) = f[Len(s)]
  BY OnlyKept
<1> HIDE DEF r
<1>3. PICK g \in [0..Len(r) -> Seq(S)] : Kept(g, r, T) /\ Only(r, T) = g[Len(r)]
  <2>1. r \in Seq(S)
    BY <1>1
  <2> QED BY <2>1, OnlyKept, Zenon
<1>4. g[Len(s)] = f[Len(s)]
  <2> DEFINE M == {n \in 0..Len(s) : f[n] = g[n]}
  <2>1. 0 \in M
    BY <1>1, <1>2, <1>3 DEF Kept
  <2>2. ASSUME NEW n \in 0..Len(s), n \in M, n + 1 \in 0..Len(s) PROVE n + 1 \in M
    <3>1. n + 1 \in 1..Len(s) /\ n + 1 \in 1..Len(r) /\ (n + 1) - 1 = n /\ r[n + 1] = s[n + 1]
      BY <1>1, <2>2
    <3>2. f[n + 1] = IF s[n + 1] \in T THEN Append(f[n], s[n + 1]) ELSE f[n]
      BY <1>2, <3>1 DEF Kept
    <3>3. g[n + 1] = IF s[n + 1] \in T THEN Append(g[n], s[n + 1]) ELSE g[n]
      BY <1>3, <3>1 DEF Kept
    <3> QED BY <2>2, <3>2, <3>3
  <2>3. 0..Len(s) \subseteq M
    <3> HIDE DEF M
    <3> QED BY <1>1, <2>1, <2>2, UpTo
  <2>4. Len(s) \in M
    <3>1. Len(s) \in 0..Len(s)
      BY <1>1
    <3> HIDE DEF M
    <3> QED BY <2>3, <3>1
  <2> QED BY <2>4
<1> DEFINE F == f[Len(s)]
<1>5. F \in Seq(S) /\ Len(F) \in Nat
  <2>1. Len(s) \in 0..Len(s)
    BY <1>1
  <2>2. F \in Seq(S)
    BY <2>1
  <2> QED BY <2>2
<1> HIDE DEF F
<1> DEFINE Added(n) == /\ Len(g[Len(s) + n]) = Len(F) + n
                       /\ \A i \in 1..Len(F) : g[Len(s) + n][i] = F[i]
                       /\ \A i \in 1..n : g[Len(s) + n][Len(F) + i] = p[i]
           N == {n \in 0..Len(p) : Added(n)}
<1>6. 0 \in N
  BY <1>1, <1>4, <1>5 DEF F
<1>7. ASSUME NEW n \in 0..Len(p), n \in N, n + 1 \in 0..Len(p) PROVE n + 1 \in N
  <2>1. /\ n + 1 \in 1..Len(p) /\ Len(s) + (n + 1) \in 1..Len(r)
        /\ (Len(s) + (n + 1)) - 1 = Len(s) + n /\ r[Len(s) + (n + 1)] = p[n + 1]
        /\ Len(s) + n \in 0..Len(r) /\ p[n + 1] \in S /\ p[n + 1] \in T
    BY <1>1, <1>7
  <2>2. g[Len(s) + (n + 1)] = Append(g[Len(s) + n], p[n + 1])
    BY <1>3, <2>1 DEF Kept
  <2>3. g[Len(s) + n] \in Seq(S) /\ Added(n)
    BY <1>7, <2>1
  <2> DEFINE a == g[Len(s) + n]
             b == g[Len(s) + (n + 1)]
  <2>4. /\ Len(a) = Len(F) + n /\ Len(b) = Len(a) + 1 /\ b[Len(a) + 1] = p[n + 1]
        /\ \A i \in 1..Len(a) : b[i] = a[i]
    BY <2>1, <2>2, <2>3
  <2> HIDE DEF a
  <2>5. \A i \in 1..Len(F) : b[i] = F[i]
    <3> TAKE i \in 1..Len(F)
    <3>1. i \in 1..Len(a)
      BY <1>5, <2>4
    <3> QED BY <2>3, <2>4, <3>1 DEF a
  <2>6. \A i \in 1..(n + 1) : b[Len(F) + i] = p[i]
    <3> TAKE i \in 1..(n + 1)
    <3>1. CASE i = n + 1
      BY <1>5, <2>4, <3>1
    <3>2. CASE i # n + 1
      <4>1. i \in 1..n /\ Len(F) + i \in 1..Len(a)
        BY <1>5, <2>4, <3>2
      <4> QED BY <2>3, <2>4, <4>1 DEF a
    <3> QED BY <3>1, <3>2
  <2>7. Len(b) = Len(F) + (n + 1)
    BY <1>5, <2>4
  <2> QED BY <1>7, <2>5, <2>6, <2>7
<1>8. 0..Len(p) \subseteq N
  <2> HIDE DEF N
  <2> QED BY <1>1, <1>6, <1>7, UpTo
<1>9. Added(Len(p)) /\ g[Len(r)] = g[Len(s) + Len(p)] /\ g[Len(r)] \in Seq(S)
  <2>1. Len(p) \in 0..Len(p) /\ Len(r) \in 0..Len(r) /\ Len(r) = Len(s) + Len(p)
    BY <1>1
  <2>2. g[Len(r)] \in Seq(S)
    BY <1>3, <2>1
  <2>3. Len(p) \in N
    <3> HIDE DEF N
    <3> QED BY <1>8, <2>1
  <2>4. Added(Len(p))
    <3> HIDE DEF Added
    <3> QED BY <2>3
  <2> HIDE DEF Added, N
  <2> QED BY <2>1, <2>2, <2>4
<1>10. g[Len(r)] = F \o p
  <2> DEFINE a == g[Len(r)]
             b == F \o p
  <2>1. /\ a \in Seq(S) /\ Len(a) = Len(F) + Len(p)
        /\ \A i \in 1..Len(F) : a[i] = F[i]
        /\ \A i \in 1..Len(p) : a[Len(F) + i] = p[i]
    BY <1>9
  <2>2. /\ b \in Seq(S) /\ Len(b) = Len(F) + Len(p)
        /\ \A i \in 1..Len(F) : b[i] = F[i]
        /\ \A i \in 1..Len(p) : b[Len(F) + i] = p[i]
    BY <1>5
  <2> HIDE DEF a, b
  <2>3. ASSUME NEW i \in 1..Len(a) PROVE a[i] = b[i]
    <3>1. CASE i \in 1..Len(F)
      BY <2>1, <2>2, <3>1
    <3>2. CASE i \notin 1..Len(F)
      <4>1. i - Len(F) \in 1..Len(p) /\ Len(F) + (i - Len(F)) = i
        BY <1>1, <1>5, <2>1, <3>2
      <4> QED BY <2>1, <2>2, <4>1
    <3> QED BY <3>1, <3>2
  <2>4. a = b
    BY <2>1, <2>2, <2>3
  <2> QED BY <2>4 DEF a, b
<1> QED BY <1>2, <1>3, <1>10 DEF F, r

LEMMA OnlyAll ==
    ASSUME NEW S, NEW s \in Seq(S), NEW T, \A i \in 1..Len(s) : s[i] \in T
    PROVE  Only(s, T) = s
<1>1. <<>> \in Seq(S)
  OBVIOUS
<1>2. Only(<<>> \o s, T) = Only(<<>>, T) \o s
  BY <1>1, OnlyConcat
<1>3. <<>> \o s = s
  OBVIOUS
<1> QED BY <1>2, <1>3, OnlyEmpty
=============================================================================
