------------------------------- MODULE ListFacts -------------------------------
(***************************************************************************)
(* Facts about numbers, recursive functions and sequences, for the modules *)
(* that prove something about lists.                                       *)
(***************************************************************************)
EXTENDS Selections, FiniteSets, FiniteSetTheorems, WellFoundedInduction, TLAPS

-------------------------------------------------------------------------------
(* Induction, over sets of numbers                                         *)

(* A set of natural numbers has a least element.                           *)
LEMMA NatMin ==
    ASSUME NEW T \in SUBSET Nat, T # {}
    PROVE  \E n \in T : \A m \in T : n \leq m
<1>1. PICK R : R = OpToRel(<, Nat)
    OBVIOUS
<1>2. \A x, y \in Nat : <<y, x>> \in R <=> y < x
    BY <1>1 DEF OpToRel
<1>3. IsWellFoundedOn(R, Nat)
    BY NatLessThanWellFounded, <1>1
<1>4. PICK n \in T : \A m \in T : <<m, n>> \notin R
    BY WFMin, <1>3
<1>5. ASSUME NEW m \in T PROVE n \leq m
  <2>1. m \in Nat /\ n \in Nat
    OBVIOUS
  <2>2. ~(m < n)
    BY <1>2, <1>4, <2>1, Zenon
  <2>. QED BY <2>1, <2>2
<1>. QED BY <1>5

(* A set that has a number if it has all smaller ones has all numbers.     *)
LEMMA NatSet ==
    ASSUME NEW S, \A n \in Nat : (\A m \in Nat : m < n => m \in S) => n \in S
    PROVE  Nat \subseteq S
<1>. DEFINE T == Nat \ S
<1>. SUFFICES ASSUME T # {} PROVE FALSE
    OBVIOUS
<1>1. PICK n \in T : \A m \in T : n \leq m
    BY NatMin
<1>2. \A m \in Nat : m < n => m \in S
    BY <1>1
<1>. QED BY <1>1, <1>2

(* The number before one.                                                  *)
LEMMA Before == \A n \in Nat : n # 0 => n - 1 \in Nat /\ n - 1 < n
  OBVIOUS

-------------------------------------------------------------------------------
(* Recursion                                                               *)

(* A recursive definition f[x \in D] == ... f ... is                        *)
(* CHOOSE f : f = [x \in D |-> ... f ...]: what it computes is known once   *)
(* there is such a function. There is one, with values in V, if the        *)
(* definition, which has the value Def[<<f, x>>] at x, looks only at       *)
(* arguments of a smaller size.                                            *)
LooksBack(D, V, Size, Def) ==
    /\ Size \in [D -> Nat]
    /\ Def \in [[D -> V] \X D -> V]
    /\ \A x \in D : \A g, h \in [D -> V] :
          (\A y \in D : Size[y] < Size[x] => g[y] = h[y])
          => Def[<<g, x>>] = Def[<<h, x>>]

Solves(f, D, V, Def) == f \in [D -> V] /\ \A x \in D : f[x] = Def[<<f, x>>]

THEOREM Recursive ==
    ASSUME NEW D, NEW V, V # {}, NEW Size, NEW Def, LooksBack(D, V, Size, Def)
    PROVE  \E f : Solves(f, D, V, Def)
<1>0. /\ Size \in [D -> Nat]
      /\ Def \in [[D -> V] \X D -> V]
      /\ \A x \in D : \A g, h \in [D -> V] :
            (\A y \in D : Size[y] < Size[x] => g[y] = h[y])
            => Def[<<g, x>>] = Def[<<h, x>>]
    BY DEF LooksBack
<1>. USE <1>0
<1>. DEFINE UpTo(n, f) == \A x \in D : Size[x] < n => f[x] = Def[<<f, x>>]
<1>1. \A x \in D, g \in [D -> V] : Def[<<g, x>>] \in V
    OBVIOUS
<1>2. \A n \in Nat : \E f \in [D -> V] : UpTo(n, f)
  <2>. DEFINE S == {n \in Nat : \E f \in [D -> V] : UpTo(n, f)}
  <2>1. ASSUME NEW n \in Nat, \A m \in Nat : m < n => m \in S
        PROVE  n \in S
    <3>1. CASE n = 0
      <4>1. PICK v \in V : TRUE
        OBVIOUS
      <4>2. [x \in D |-> v] \in [D -> V]
        BY <4>1
      <4>3. UpTo(0, [x \in D |-> v])
        OBVIOUS
      <4>. QED BY <3>1, <4>2, <4>3
    <3>2. CASE n # 0
      <4>1. n - 1 \in Nat /\ n - 1 < n
        BY <3>2, Before
      <4>2. PICK g \in [D -> V] : UpTo(n - 1, g)
        BY <2>1, <4>1
      <4>. DEFINE f == [x \in D |-> IF Size[x] < n - 1 THEN g[x] ELSE Def[<<g, x>>]]
      <4>3. f \in [D -> V]
        BY <1>1
      <4>4. \A y \in D : Size[y] < n - 1 => f[y] = g[y]
        OBVIOUS
      <4>5. ASSUME NEW x \in D, Size[x] < n
            PROVE  f[x] = Def[<<f, x>>]
        <5>1. \A y \in D : Size[y] < Size[x] => Size[y] < n - 1
          BY <4>5
        <5>2. Def[<<f, x>>] = Def[<<g, x>>]
          <6>. HIDE DEF f
          <6>. QED BY <4>3, <4>4, <5>1
        <5>3. f[x] = Def[<<g, x>>]
          BY <4>2
        <5>. QED BY <5>2, <5>3
      <4>. HIDE DEF f
      <4>. QED BY <4>3, <4>5
    <3>. QED BY <3>1, <3>2
  <2>. HIDE DEF S
  <2>2. Nat \subseteq S
    BY <2>1, NatSet
  <2>. QED BY <2>2 DEF S
<1>3. ASSUME NEW n \in Nat, NEW m \in Nat, NEW g \in [D -> V], NEW h \in [D -> V],
             UpTo(n, g), UpTo(m, h)
      PROVE  \A x \in D : Size[x] < n /\ Size[x] < m => g[x] = h[x]
  <2>. DEFINE S == {k \in Nat : \A x \in D :
                      Size[x] = k /\ Size[x] < n /\ Size[x] < m => g[x] = h[x]}
  <2>1. ASSUME NEW k \in Nat, \A j \in Nat : j < k => j \in S
        PROVE  k \in S
    <3>. SUFFICES ASSUME NEW x \in D, Size[x] = k, Size[x] < n, Size[x] < m
                  PROVE  g[x] = h[x]
      OBVIOUS
    <3>1. \A y \in D : Size[y] < Size[x] => Size[y] < n /\ Size[y] < m
      OBVIOUS
    <3>2. \A y \in D : Size[y] < Size[x] => g[y] = h[y]
      BY <2>1, <3>1
    <3>3. Def[<<g, x>>] = Def[<<h, x>>]
      BY <3>2
    <3>. QED BY <1>3, <3>3
  <2>. HIDE DEF S
  <2>2. Nat \subseteq S
    BY <2>1, NatSet
  <2>. QED BY <2>2 DEF S
<1>. DEFINE Upper(x) == CHOOSE f \in [D -> V] : UpTo(Size[x] + 1, f)
            F == [x \in D |-> Upper(x)[x]]
<1>4. \A x \in D : Upper(x) \in [D -> V] /\ UpTo(Size[x] + 1, Upper(x))
  <2>. SUFFICES ASSUME NEW x \in D
                PROVE  Upper(x) \in [D -> V] /\ UpTo(Size[x] + 1, Upper(x))
    OBVIOUS
  <2>1. Size[x] + 1 \in Nat
    OBVIOUS
  <2>2. \E f \in [D -> V] : UpTo(Size[x] + 1, f)
    BY <1>2, <2>1
  <2>. HIDE DEF UpTo
  <2>. QED BY <2>2
<1>. HIDE DEF Upper, UpTo
<1>5. F \in [D -> V]
    BY <1>4
<1>6. ASSUME NEW x \in D
      PROVE  F[x] = Def[<<F, x>>]
  <2>1. ASSUME NEW y \in D, Size[y] < Size[x]
        PROVE  F[y] = Upper(x)[y]
    <3>1. Size[y] + 1 \in Nat /\ Size[x] + 1 \in Nat
      OBVIOUS
    <3>2. Size[y] < Size[y] + 1 /\ Size[y] < Size[x] + 1
      BY <2>1
    <3>3. Upper(y)[y] = Upper(x)[y]
      BY <1>3, <1>4, <3>1, <3>2
    <3>. QED BY <3>3
  <2>2. Def[<<F, x>>] = Def[<<Upper(x), x>>]
    <3>. HIDE DEF F
    <3>. QED BY <1>4, <1>5, <2>1
  <2>3. Upper(x)[x] = Def[<<Upper(x), x>>]
    <3>1. Size[x] < Size[x] + 1
      OBVIOUS
    <3>. QED BY <1>4, <3>1 DEF UpTo
  <2>. QED BY <2>2, <2>3
<1>. HIDE DEF F
<1>. QED BY <1>5, <1>6 DEF Solves

-------------------------------------------------------------------------------
(* Sequences                                                               *)

Elems(s) == {s[i] : i \in 1..Len(s)}
Distinct(s) == \A i, j \in 1..Len(s) : s[i] = s[j] => i = j

LEMMA InSeq ==
    ASSUME NEW S, NEW s \in Seq(S), NEW i \in 1..Len(s)
    PROVE  s[i] \in S
OBVIOUS

LEMMA OneInSeq ==
    ASSUME NEW S, NEW x \in S
    PROVE  <<x>> \in Seq(S)
OBVIOUS

LEMMA ElemsIn ==
    ASSUME NEW S, NEW s \in Seq(S)
    PROVE  Elems(s) \subseteq S
BY InSeq DEF Elems

(* A sequence is its head and its tail.                                    *)
LEMMA HeadAndTail ==
    ASSUME NEW S, NEW s \in Seq(S), s # <<>>
    PROVE  /\ Head(s) \in S /\ Tail(s) \in Seq(S)
           /\ Len(Tail(s)) = Len(s) - 1
           /\ Elems(s) = {Head(s)} \cup Elems(Tail(s))
           /\ Distinct(s) => Distinct(Tail(s)) /\ Head(s) \notin Elems(Tail(s))
<1>1. Head(s) = s[1] /\ Len(s) \in Nat /\ Len(s) \geq 1
    OBVIOUS
<1>2. /\ Tail(s) \in Seq(S)
      /\ Len(Tail(s)) = Len(s) - 1
      /\ \A i \in 1..Len(s) - 1 : Tail(s)[i] = s[i + 1]
    OBVIOUS
<1>3. Elems(s) \subseteq {Head(s)} \cup Elems(Tail(s))
  <2>. SUFFICES ASSUME NEW i \in 1..Len(s), i # 1
                PROVE  s[i] \in Elems(Tail(s))
    BY <1>1 DEF Elems
  <2>1. i - 1 \in 1..Len(s) - 1 /\ Tail(s)[i - 1] = s[i]
    BY <1>1, <1>2
  <2>. QED BY <1>2, <2>1 DEF Elems
<1>4. Elems(Tail(s)) \subseteq Elems(s)
  <2>. SUFFICES ASSUME NEW i \in 1..Len(s) - 1
                PROVE  Tail(s)[i] \in Elems(s)
    BY <1>2 DEF Elems
  <2>. QED BY <1>1, <1>2 DEF Elems
<1>5. Head(s) \in Elems(s)
    BY <1>1 DEF Elems
<1>6. ASSUME Distinct(s)
      PROVE  Distinct(Tail(s)) /\ Head(s) \notin Elems(Tail(s))
  <2>1. Distinct(Tail(s))
    BY <1>1, <1>2, <1>6 DEF Distinct
  <2>2. \A i \in 1..Len(s) - 1 : Tail(s)[i] # Head(s)
    BY <1>1, <1>2, <1>6 DEF Distinct
  <2>. QED BY <1>2, <2>1, <2>2 DEF Elems
<1>. QED BY <1>1, <1>2, <1>3, <1>4, <1>5, <1>6

(* An element put first.                                                   *)
LEMMA PutFirst ==
    ASSUME NEW S, NEW x \in S, NEW s \in Seq(S)
    PROVE  /\ <<x>> \o s \in Seq(S)
           /\ Len(<<x>> \o s) = Len(s) + 1
           /\ (<<x>> \o s)[1] = x
           /\ \A i \in 1..Len(s) : (<<x>> \o s)[i + 1] = s[i]
           /\ Elems(<<x>> \o s) = {x} \cup Elems(s)
           /\ Distinct(s) /\ x \notin Elems(s) => Distinct(<<x>> \o s)
<1>. DEFINE t == <<x>> \o s
<1>1. /\ t \in Seq(S) /\ Len(t) = Len(s) + 1 /\ t[1] = x
      /\ \A i \in 2..Len(t) : t[i] = s[i - 1]
      /\ Len(s) \in Nat
    OBVIOUS
<1>2. \A i \in 1..Len(s) : t[i + 1] = s[i]
    BY <1>1
<1>. HIDE DEF t
<1>3. Elems(t) = {x} \cup Elems(s)
  <2>1. ASSUME NEW i \in 1..Len(t) PROVE t[i] \in {x} \cup Elems(s)
    <3>1. i = 1 \/ (i \in 2..Len(t) /\ i - 1 \in 1..Len(s))
      BY <1>1
    <3>. QED BY <1>1, <3>1 DEF Elems
  <2>2. ASSUME NEW i \in 1..Len(s) PROVE s[i] \in Elems(t)
    <3>1. i + 1 \in 1..Len(t) /\ t[i + 1] = s[i]
      BY <1>1, <1>2
    <3>. QED BY <3>1 DEF Elems
  <2>3. x \in Elems(t)
    BY <1>1 DEF Elems
  <2>. QED BY <2>1, <2>2, <2>3 DEF Elems
<1>4. ASSUME Distinct(s), x \notin Elems(s)
      PROVE  Distinct(t)
  <2>. SUFFICES ASSUME NEW i \in 1..Len(t), NEW j \in 1..Len(t), t[i] = t[j]
                PROVE  i = j
    BY DEF Distinct
  <2>1. \A k \in 1..Len(s) : s[k] # x
    BY <1>4 DEF Elems
  <2>. QED BY <1>1, <1>4, <2>1 DEF Distinct
<1>. QED BY <1>1, <1>2, <1>3, <1>4 DEF t

(* The two parts of a sequence.                                            *)
LEMMA Parts ==
    ASSUME NEW S, NEW s \in Seq(S), NEW h \in 1..Len(s) - 1
    PROVE  LET a == SubSeq(s, 1, h)
               b == SubSeq(s, h + 1, Len(s))
           IN  /\ a \in Seq(S) /\ b \in Seq(S)
               /\ Len(a) = h /\ Len(b) = Len(s) - h
               /\ Elems(s) = Elems(a) \cup Elems(b)
               /\ Distinct(s) => Distinct(a) /\ Distinct(b) /\ Elems(a) \cap Elems(b) = {}
<1>. DEFINE a == SubSeq(s, 1, h)
            b == SubSeq(s, h + 1, Len(s))
<1>1. /\ a \in Seq(S) /\ Len(a) = h /\ \A i \in 1..h : a[i] = s[i]
      /\ b \in Seq(S) /\ Len(b) = Len(s) - h /\ \A i \in 1..Len(s) - h : b[i] = s[h + i]
      /\ Len(s) \in Nat /\ h \in Nat
    OBVIOUS
<1>. HIDE DEF a, b
<1>2. Elems(s) \subseteq Elems(a) \cup Elems(b)
  <2>. SUFFICES ASSUME NEW i \in 1..Len(s) PROVE s[i] \in Elems(a) \cup Elems(b)
    BY DEF Elems
  <2>1. CASE i \leq h
    BY <1>1, <2>1 DEF Elems
  <2>2. CASE i > h
    <3>1. i - h \in 1..Len(s) - h /\ b[i - h] = s[h + (i - h)] /\ h + (i - h) = i
      BY <1>1, <2>2
    <3>. QED BY <1>1, <3>1 DEF Elems
  <2>. QED BY <1>1, <2>1, <2>2
<1>3. Elems(a) \subseteq Elems(s)
    BY <1>1 DEF Elems
<1>4. Elems(b) \subseteq Elems(s)
  <2>. SUFFICES ASSUME NEW i \in 1..Len(s) - h PROVE b[i] \in Elems(s)
    BY <1>1 DEF Elems
  <2>1. h + i \in 1..Len(s) /\ b[i] = s[h + i]
    BY <1>1
  <2>. QED BY <2>1 DEF Elems
<1>5. ASSUME Distinct(s)
      PROVE  Distinct(a) /\ Distinct(b) /\ Elems(a) \cap Elems(b) = {}
  <2>1. Distinct(a)
    <3>1. \A i \in 1..Len(a) : i \in 1..Len(s) /\ a[i] = s[i]
      BY <1>1
    <3>. QED BY <1>5, <3>1 DEF Distinct
  <2>2. ASSUME NEW i \in 1..Len(b), NEW j \in 1..Len(b), b[i] = b[j]
        PROVE  i = j
    <3>1. /\ h + i \in 1..Len(s) /\ h + j \in 1..Len(s)
          /\ b[i] = s[h + i] /\ b[j] = s[h + j]
      BY <1>1
    <3>2. h + i = h + j
      BY <1>5, <2>2, <3>1 DEF Distinct
    <3>. QED BY <1>1, <3>2
  <2>3. ASSUME NEW i \in 1..h, NEW j \in 1..Len(s) - h
        PROVE  a[i] # b[j]
    <3>1. h + j \in 1..Len(s) /\ i \in 1..Len(s) /\ i # h + j
      BY <1>1
    <3>. QED BY <1>1, <1>5, <3>1 DEF Distinct
  <2>4. Distinct(b)
    BY <2>2 DEF Distinct
  <2>. QED BY <1>1, <2>1, <2>3, <2>4 DEF Elems
<1>. QED BY <1>1, <1>2, <1>3, <1>4, <1>5 DEF a, b

(* What is left of t, and what comes before what in it.                    *)
Suffix(s, t) == /\ Len(s) \leq Len(t)
                /\ \A i \in 1..Len(s) : s[i] = t[Len(t) - Len(s) + i]
Precedes(s, x, y) == \E i, j \in 1..Len(s) : i < j /\ s[i] = x /\ s[j] = y

LEMMA SuffixOfItself ==
    ASSUME NEW S, NEW t \in Seq(S)
    PROVE  Suffix(t, t) /\ Suffix(<<>>, t)
    BY DEF Suffix

(* What is left when the head is taken.                                    *)
LEMMA SuffixTail ==
    ASSUME NEW S, NEW s \in Seq(S), NEW t \in Seq(S), Suffix(s, t), s # <<>>
    PROVE  Suffix(Tail(s), t)
<1>1. /\ Len(s) \in Nat /\ Len(t) \in Nat /\ Len(s) \geq 1
      /\ Len(Tail(s)) = Len(s) - 1
      /\ \A i \in 1..Len(s) - 1 : Tail(s)[i] = s[i + 1]
    OBVIOUS
<1>. SUFFICES ASSUME NEW i \in 1..Len(s) - 1
              PROVE  Tail(s)[i] = t[Len(t) - (Len(s) - 1) + i]
    BY <1>1 DEF Suffix
<1>2. i + 1 \in 1..Len(s) /\ Len(t) - Len(s) + (i + 1) = Len(t) - (Len(s) - 1) + i
    BY <1>1
<1>3. s[i + 1] = t[Len(t) - Len(s) + (i + 1)]
    BY <1>2 DEF Suffix
<1>. QED BY <1>1, <1>2, <1>3

(* What is left is a part of it, each element once, and after all that was *)
(* taken.                                                                  *)
LEMMA SuffixParts ==
    ASSUME NEW S, NEW s \in Seq(S), NEW t \in Seq(S), Suffix(s, t)
    PROVE  /\ Elems(s) \subseteq Elems(t)
           /\ Distinct(t) => Distinct(s)
           /\ s # <<>> => /\ Head(s) \in Elems(t)
                          /\ \A x \in Elems(Tail(s)) : Precedes(t, Head(s), x)
                          /\ \A x \in Elems(t) \ Elems(s) : Precedes(t, x, Head(s))
<1>. DEFINE k == Len(t) - Len(s)
<1>1. /\ Len(s) \in Nat /\ Len(t) \in Nat /\ k \in Nat /\ k + Len(s) = Len(t)
      /\ \A i \in 1..Len(s) : k + i \in 1..Len(t) /\ s[i] = t[k + i]
    BY DEF Suffix
<1>. HIDE DEF k
<1>2. Elems(s) \subseteq Elems(t)
    BY <1>1 DEF Elems
<1>3. Distinct(t) => Distinct(s)
  <2>. SUFFICES ASSUME Distinct(t), NEW i \in 1..Len(s), NEW j \in 1..Len(s), s[i] = s[j]
                PROVE  i = j
    BY DEF Distinct
  <2>1. k + i = k + j
    BY <1>1 DEF Distinct
  <2>. QED BY <1>1, <2>1
<1>4. ASSUME s # <<>>
      PROVE  /\ Head(s) \in Elems(t)
             /\ \A x \in Elems(Tail(s)) : Precedes(t, Head(s), x)
             /\ \A x \in Elems(t) \ Elems(s) : Precedes(t, x, Head(s))
  <2>1. Len(s) \geq 1 /\ Head(s) = s[1] /\ 1 \in 1..Len(s)
    BY <1>4
  <2>2. Head(s) = t[k + 1] /\ k + 1 \in 1..Len(t)
    BY <1>1, <2>1
  <2>3. Head(s) \in Elems(t)
    BY <2>2 DEF Elems
  <2>4. ASSUME NEW x \in Elems(Tail(s)) PROVE Precedes(t, Head(s), x)
    <3>1. PICK i \in 1..Len(Tail(s)) : Tail(s)[i] = x
      BY DEF Elems
    <3>2. i + 1 \in 1..Len(s) /\ s[i + 1] = x /\ i \in Nat /\ i \geq 1
      BY <1>4, <3>1
    <3>3. k + (i + 1) \in 1..Len(t) /\ t[k + (i + 1)] = x /\ k + 1 < k + (i + 1)
      BY <1>1, <3>2
    <3>. QED BY <2>2, <3>3 DEF Precedes
  <2>5. ASSUME NEW x \in Elems(t) \ Elems(s) PROVE Precedes(t, x, Head(s))
    <3>1. PICK i \in 1..Len(t) : t[i] = x
      BY DEF Elems
    <3>2. ~(i > k)
      <4>. SUFFICES ASSUME i > k PROVE FALSE
        OBVIOUS
      <4>1. i - k \in 1..Len(s) /\ k + (i - k) = i
        BY <1>1
      <4>2. s[i - k] = x
        BY <1>1, <3>1, <4>1
      <4>. QED BY <4>1, <4>2 DEF Elems
    <3>3. i < k + 1
      BY <1>1, <3>2
    <3>. QED BY <2>2, <3>1, <3>3 DEF Precedes
  <2>. QED BY <2>3, <2>4, <2>5
<1>. QED BY <1>2, <1>3, <1>4

(* Of two elements of a list that has each once, one comes first.          *)
LEMMA PrecedesOneWay ==
    ASSUME NEW S, NEW s \in Seq(S), Distinct(s), NEW x, NEW y, Precedes(s, x, y)
    PROVE  x \in Elems(s) /\ y \in Elems(s) /\ x # y /\ ~Precedes(s, y, x)
<1>1. Len(s) \in Nat
    OBVIOUS
<1>2. PICK i, j \in 1..Len(s) : i < j /\ s[i] = x /\ s[j] = y
    BY DEF Precedes
<1>3. x \in Elems(s) /\ y \in Elems(s)
    BY <1>2 DEF Elems
<1>4. x # y
    BY <1>1, <1>2 DEF Distinct
<1>5. ASSUME NEW m \in 1..Len(s), NEW n \in 1..Len(s), m < n, s[m] = y, s[n] = x
      PROVE  FALSE
  <2>1. m = j /\ n = i
    BY <1>2, <1>5 DEF Distinct
  <2>. QED BY <1>1, <1>2, <1>5, <2>1
<1>. QED BY <1>3, <1>4, <1>5 DEF Precedes

(* What is put last.                                                       *)
LEMMA PutLast ==
    ASSUME NEW S, NEW x \in S, NEW s \in Seq(S)
    PROVE  /\ Append(s, x) \in Seq(S)
           /\ Len(Append(s, x)) = Len(s) + 1
           /\ Append(s, x)[Len(s) + 1] = x
           /\ \A i \in 1..Len(s) : Append(s, x)[i] = s[i]
           /\ Elems(Append(s, x)) = Elems(s) \cup {x}
           /\ Distinct(s) /\ x \notin Elems(s) => Distinct(Append(s, x))
<1>. DEFINE t == Append(s, x)
<1>1. /\ t \in Seq(S) /\ Len(t) = Len(s) + 1 /\ t[Len(s) + 1] = x
      /\ \A i \in 1..Len(s) : t[i] = s[i]
      /\ Len(s) \in Nat
    OBVIOUS
<1>. HIDE DEF t
<1>2. Elems(t) = Elems(s) \cup {x}
  <2>1. ASSUME NEW i \in 1..Len(t) PROVE t[i] \in Elems(s) \cup {x}
    <3>1. i = Len(s) + 1 \/ i \in 1..Len(s)
      BY <1>1
    <3>. QED BY <1>1, <3>1 DEF Elems
  <2>2. ASSUME NEW i \in 1..Len(s) PROVE s[i] \in Elems(t)
    <3>1. i \in 1..Len(t) /\ t[i] = s[i]
      BY <1>1
    <3>. QED BY <3>1 DEF Elems
  <2>3. x \in Elems(t)
    BY <1>1 DEF Elems
  <2>. QED BY <2>1, <2>2, <2>3 DEF Elems
<1>3. ASSUME Distinct(s), x \notin Elems(s)
      PROVE  Distinct(t)
  <2>. SUFFICES ASSUME NEW i \in 1..Len(t), NEW j \in 1..Len(t), t[i] = t[j]
                PROVE  i = j
    BY DEF Distinct
  <2>1. \A k \in 1..Len(s) : s[k] # x
    BY <1>3 DEF Elems
  <2>2. /\ i = Len(s) + 1 \/ i \in 1..Len(s)
        /\ j = Len(s) + 1 \/ j \in 1..Len(s)
    BY <1>1
  <2>. QED BY <1>1, <1>3, <2>1, <2>2 DEF Distinct
<1>. QED BY <1>1, <1>2, <1>3 DEF t

(* One list after another.                                                 *)
LEMMA Joined ==
    ASSUME NEW S, NEW s \in Seq(S), NEW t \in Seq(S)
    PROVE  s \o t \in Seq(S) /\ Elems(s \o t) = Elems(s) \cup Elems(t)
<1>. DEFINE u == s \o t
<1>1. /\ u \in Seq(S) /\ Len(u) = Len(s) + Len(t)
      /\ \A i \in 1..Len(s) : u[i] = s[i]
      /\ \A i \in 1..Len(t) : u[Len(s) + i] = t[i]
      /\ Len(s) \in Nat /\ Len(t) \in Nat
    OBVIOUS
<1>. HIDE DEF u
<1>2. ASSUME NEW i \in 1..Len(u)
      PROVE  u[i] \in Elems(s) \cup Elems(t)
  <2>1. CASE i \leq Len(s)
    BY <1>1, <2>1 DEF Elems
  <2>2. CASE i > Len(s)
    <3>1. i - Len(s) \in 1..Len(t) /\ Len(s) + (i - Len(s)) = i
      BY <1>1, <2>2
    <3>2. u[i] = t[i - Len(s)]
      BY <1>1, <3>1
    <3>. QED BY <3>1, <3>2 DEF Elems
  <2>. QED BY <1>1, <2>1, <2>2
<1>3. \A i \in 1..Len(s) : i \in 1..Len(u) /\ s[i] = u[i]
    BY <1>1
<1>4. \A i \in 1..Len(t) : Len(s) + i \in 1..Len(u) /\ t[i] = u[Len(s) + i]
    BY <1>1
<1>5. Elems(s) \subseteq Elems(u)
    BY <1>3 DEF Elems
<1>6. Elems(t) \subseteq Elems(u)
    BY <1>4 DEF Elems
<1>7. Elems(u) \subseteq Elems(s) \cup Elems(t)
    BY <1>2 DEF Elems
<1>. QED BY <1>1, <1>5, <1>6, <1>7 DEF u

-------------------------------------------------------------------------------
(* The elements at some positions                                          *)

(* A set of positions has a last one.                                      *)
LEMMA MaxLast ==
    ASSUME NEW n \in Nat, NEW I, I \subseteq 1..n, I # {}
    PROVE  Max(I) \in I /\ \A i \in I : i \leq Max(I)
<1>. DEFINE Bounds == {k \in Nat : \A i \in I : i \leq k}
<1>1. PICK k \in Bounds : \A m \in Bounds : k \leq m
  <2>1. n \in Bounds
    OBVIOUS
  <2>. QED BY <2>1, NatMin
<1>2. k \in I
  <2>. SUFFICES ASSUME k \notin I PROVE FALSE
    OBVIOUS
  <2>1. k # 0
    <3>1. PICK i \in I : i \in 1..n
      OBVIOUS
    <3>. QED BY <1>1, <3>1
  <2>2. k - 1 \in Bounds
    <3>1. k - 1 \in Nat
      BY <2>1
    <3>2. ASSUME NEW i \in I PROVE i \leq k - 1
      BY <1>1
    <3>. QED BY <3>1, <3>2
  <2>. QED BY <1>1, <2>2
<1>3. \A i \in I : k \geq i
    BY <1>1
<1>. QED BY <1>2, <1>3 DEF Max

(* The sequence t is s at the positions I, in their order.                 *)
IsAt(t, s, I) ==
    \E e \in [1..Len(t) -> I] :
       /\ \A i \in I : \E k \in 1..Len(t) : e[k] = i
       /\ \A j, k \in 1..Len(t) : j < k => e[j] < e[k]
       /\ \A k \in 1..Len(t) : t[k] = s[e[k]]

LEMMA IsAtLonger ==
    ASSUME NEW S, NEW s \in Seq(S), NEW I, I \subseteq 1..Len(s), NEW m \in I,
           \A i \in I : i \leq m,
           NEW t \in Seq(S), IsAt(t, s, I \ {m})
    PROVE  Append(t, s[m]) \in Seq(S) /\ IsAt(Append(t, s[m]), s, I)
<1>. DEFINE n == Len(t)
            u == Append(t, s[m])
<1>1. PICK e \in [1..n -> I \ {m}] :
         /\ \A i \in I \ {m} : \E k \in 1..n : e[k] = i
         /\ \A j, k \in 1..n : j < k => e[j] < e[k]
         /\ \A k \in 1..n : t[k] = s[e[k]]
    BY DEF IsAt
<1>2. /\ u \in Seq(S) /\ Len(u) = n + 1 /\ n \in Nat
      /\ u[n + 1] = s[m]
      /\ \A k \in 1..n : u[k] = t[k]
    OBVIOUS
<1>. HIDE DEF n, u
<1>. DEFINE g == [k \in 1..n + 1 |-> IF k = n + 1 THEN m ELSE e[k]]
<1>3. /\ g \in [1..n + 1 -> I]
      /\ g[n + 1] = m
      /\ \A k \in 1..n : g[k] = e[k] /\ e[k] \in I \ {m} /\ k \in 1..n + 1
    BY <1>2
<1>. HIDE DEF g
<1>4. ASSUME NEW i \in I
      PROVE  \E k \in 1..n + 1 : g[k] = i
  <2>1. CASE i = m
    BY <1>2, <1>3, <2>1
  <2>2. CASE i # m
    BY <1>1, <1>3, <2>2
  <2>. QED BY <2>1, <2>2
<1>5. ASSUME NEW j \in 1..n + 1, NEW k \in 1..n + 1, j < k
      PROVE  g[j] < g[k]
  <2>1. CASE k = n + 1
    <3>1. j \in 1..n
      BY <1>2, <1>5, <2>1
    <3>2. g[j] \in I /\ g[j] # m /\ g[k] = m
      BY <1>3, <2>1, <3>1
    <3>3. ASSUME NEW i \in I, i # m PROVE i < m
      <4>1. i \in Int /\ m \in Int /\ i \leq m
        OBVIOUS
      <4>. QED BY <3>3, <4>1
    <3>. QED BY <3>2, <3>3
  <2>2. CASE k # n + 1
    <3>1. j \in 1..n /\ k \in 1..n
      BY <1>2, <1>5, <2>2
    <3>. QED BY <1>1, <1>3, <1>5, <3>1
  <2>. QED BY <2>1, <2>2
<1>6. ASSUME NEW k \in 1..n + 1
      PROVE  u[k] = s[g[k]]
  <2>1. CASE k = n + 1
    BY <1>2, <1>3, <2>1
  <2>2. CASE k # n + 1
    <3>1. k \in 1..n
      BY <1>2, <2>2
    <3>. QED BY <1>1, <1>2, <1>3, <3>1
  <2>. QED BY <2>1, <2>2
<1>7. IsAt(u, s, I)
  <2>1. 1..Len(u) = 1..n + 1
    BY <1>2
  <2>2. g \in [1..Len(u) -> I]
    BY <1>3, <2>1
  <2>3. /\ \A i \in I : \E k \in 1..Len(u) : g[k] = i
        /\ \A j, k \in 1..Len(u) : j < k => g[j] < g[k]
        /\ \A k \in 1..Len(u) : u[k] = s[g[k]]
    BY <1>4, <1>5, <1>6, <2>1
  <2>. QED BY <2>2, <2>3 DEF IsAt
<1>. QED BY <1>2, <1>7 DEF u

(* The height of a set of positions, which the folds take down.            *)
Height(d) == IF d = {} THEN 0 ELSE Max(d)

LEMMA HeightLess ==
    ASSUME NEW n \in Nat, NEW d, d \subseteq 1..n
    PROVE  /\ Height(d) \in Nat
           /\ d # {} => /\ Max(d) \in d /\ \A i \in d : i \leq Max(d)
                       /\ Height(d \ {Max(d)}) \in Nat
                       /\ Height(d \ {Max(d)}) < Height(d)
<1>1. ASSUME NEW c, c \subseteq 1..n, c # {}
      PROVE  Max(c) \in c /\ Max(c) \in Nat /\ Max(c) > 0 /\ \A i \in c : i \leq Max(c)
  <2>1. Max(c) \in c /\ \A i \in c : i \leq Max(c)
    BY <1>1, MaxLast
  <2>2. \A k \in 1..n : k \in Nat /\ k > 0
    OBVIOUS
  <2>. QED BY <1>1, <2>1, <2>2
<1>2. ASSUME d # {}
      PROVE  Height(d \ {Max(d)}) \in Nat /\ Height(d \ {Max(d)}) < Height(d)
  <2>. DEFINE c == d \ {Max(d)}
  <2>1. CASE c = {}
    BY <1>1, <1>2, <2>1 DEF Height
  <2>2. CASE c # {}
    <3>1. Max(c) \in c /\ Max(c) \in Nat
      BY <1>1, <2>2
    <3>2. Max(c) \leq Max(d) /\ Max(c) # Max(d) /\ Max(d) \in Nat
      BY <1>1, <1>2, <3>1
    <3>3. Height(c) = Max(c) /\ Height(d) = Max(d)
      BY <1>2, <2>2 DEF Height
    <3>4. Max(c) < Max(d)
      BY <3>1, <3>2
    <3>. QED BY <3>1, <3>3, <3>4
  <2>. QED BY <2>1, <2>2
<1>. QED BY <1>1, <1>2 DEF Height

(* What a fold over positions computes, from the first to the last: a      *)
(* function that has base for none, and takes a step for the last one.     *)
Folds(f, I, V, base, Step) ==
    /\ f \in [SUBSET I -> V]
    /\ \A d \in SUBSET I :
          f[d] = IF d = {} THEN base ELSE Step[<<f[d \ {Max(d)}], Max(d)>>]

LEMMA FoldDefined ==
    ASSUME NEW n \in Nat, NEW I, I \subseteq 1..n, NEW V, NEW base, base \in V,
           NEW Step, Step \in [V \X (1..n) -> V]
    PROVE  \E f : Folds(f, I, V, base, Step)
<1>. DEFINE D == SUBSET I
            By(f, d) == IF d = {} THEN base ELSE Step[<<f[d \ {Max(d)}], Max(d)>>]
            Size == [d \in D |-> Height(d)]
            Def == [q \in [D -> V] \X D |-> By(q[1], q[2])]
<1>1. ASSUME NEW d \in D
      PROVE  /\ Height(d) \in Nat
             /\ d # {} => /\ Max(d) \in 1..n
                         /\ d \ {Max(d)} \in D
                         /\ Height(d \ {Max(d)}) < Height(d)
  <2>1. d \subseteq 1..n
    OBVIOUS
  <2>. QED BY <2>1, HeightLess
<1>2. Size \in [D -> Nat]
    BY <1>1
<1>3. ASSUME NEW f \in [D -> V], NEW d \in D
      PROVE  By(f, d) \in V
  <2>1. CASE d # {}
    <3>1. f[d \ {Max(d)}] \in V /\ Max(d) \in 1..n
      BY <1>1, <2>1
    <3>. QED BY <2>1, <3>1
  <2>. QED BY <2>1
<1>4. Def \in [[D -> V] \X D -> V]
    BY <1>3
<1>5. \A g \in [D -> V], d \in D : Def[<<g, d>>] = By(g, d)
    OBVIOUS
<1>6. ASSUME NEW d \in D, NEW g \in [D -> V], NEW h \in [D -> V],
             \A c \in D : Size[c] < Size[d] => g[c] = h[c]
      PROVE  Def[<<g, d>>] = Def[<<h, d>>]
  <2>1. CASE d = {}
    BY <1>5, <2>1
  <2>2. CASE d # {}
    <3>1. g[d \ {Max(d)}] = h[d \ {Max(d)}]
      BY <1>1, <1>6, <2>2
    <3>. HIDE DEF Def
    <3>. QED BY <1>5, <3>1
  <2>. QED BY <2>1, <2>2
<1>. HIDE DEF Size, Def
<1>7. LooksBack(D, V, Size, Def)
    BY <1>2, <1>4, <1>6 DEF LooksBack
<1>8. PICK f : Solves(f, D, V, Def)
    BY <1>7, Recursive
<1>9. f \in [D -> V] /\ \A d \in D : f[d] = By(f, d)
    BY <1>5, <1>8 DEF Solves
<1>. QED BY <1>9 DEF Folds

(* So At is.                                                               *)
LEMMA AtCorrect ==
    ASSUME NEW S, NEW s \in Seq(S), NEW I, I \subseteq 1..Len(s)
    PROVE  At(s, I) \in Seq(S) /\ IsAt(At(s, I), s, I)
<1>. DEFINE D == SUBSET I
            n == Len(s)
            Step == [q \in Seq(S) \X (1..n) |-> Append(q[1], s[q[2]])]
            By(f, d) == IF d = {} THEN <<>> ELSE Append(f[d \ {Max(d)}], s[Max(d)])
<1>1. n \in Nat /\ \A i \in 1..n : s[i] \in S
    OBVIOUS
<1>2. ASSUME NEW d \in D
      PROVE  /\ Height(d) \in Nat
             /\ d # {} => /\ Max(d) \in d /\ \A i \in d : i \leq Max(d)
                         /\ Max(d) \in 1..n
                         /\ d \ {Max(d)} \in D
                         /\ Height(d \ {Max(d)}) \in Nat
                         /\ Height(d \ {Max(d)}) < Height(d)
  <2>1. d \subseteq 1..n
    OBVIOUS
  <2>. HIDE DEF n
  <2>. QED BY <1>1, <2>1, HeightLess
<1>3. Step \in [Seq(S) \X (1..n) -> Seq(S)]
  <2>1. ASSUME NEW t \in Seq(S), NEW i \in 1..n PROVE Append(t, s[i]) \in Seq(S)
    OBVIOUS
  <2>. QED BY <2>1
<1>4. <<>> \in Seq(S)
    OBVIOUS
<1>5. \E f : Folds(f, I, Seq(S), <<>>, Step)
  <2>. HIDE DEF Step
  <2>. QED BY <1>1, <1>3, <1>4, FoldDefined
<1>6. PICK f \in [D -> Seq(S)] : \A d \in D : f[d] = By(f, d)
  <2>1. PICK f \in [D -> Seq(S)] : \A d \in D :
           f[d] = IF d = {} THEN <<>> ELSE Step[<<f[d \ {Max(d)}], Max(d)>>]
    BY <1>5 DEF Folds
  <2>2. ASSUME NEW d \in D, d # {}
        PROVE  Step[<<f[d \ {Max(d)}], Max(d)>>] = Append(f[d \ {Max(d)}], s[Max(d)])
    BY <1>2, <2>2
  <2>. QED BY <2>1, <2>2
<1>. DEFINE g == CHOOSE h : h = [d \in D |-> By(h, d)]
<1>7. g = [d \in D |-> By(g, d)]
  <2>1. f = [d \in D |-> By(f, d)]
    BY <1>6
  <2>. QED BY <2>1
<1>8. At(s, I) = g[I]
    BY DEF At, MapThenFoldSet
<1>. HIDE DEF g
<1>. DEFINE P == {k \in Nat : \A d \in D : Height(d) = k => g[d] \in Seq(S) /\ IsAt(g[d], s, d)}
<1>9. ASSUME NEW k \in Nat, \A m \in Nat : m < k => m \in P
      PROVE  k \in P
  <2>. SUFFICES ASSUME NEW d \in D, Height(d) = k
                PROVE  g[d] \in Seq(S) /\ IsAt(g[d], s, d)
    OBVIOUS
  <2>1. CASE d = {}
    <3>1. g[d] = <<>>
      BY <1>7, <2>1
    <3>2. [i \in 1..0 |-> i] \in [1..Len(<<>>) -> {}]
      OBVIOUS
    <3>3. IsAt(<<>>, s, {})
      BY <3>2 DEF IsAt
    <3>. QED BY <1>4, <2>1, <3>1, <3>3
  <2>2. CASE d # {}
    <3>. DEFINE c == d \ {Max(d)}
    <3>1. c \in D /\ Height(c) \in Nat /\ Height(c) < k
      BY <1>2, <2>2
    <3>2. g[c] \in Seq(S) /\ IsAt(g[c], s, c)
      BY <1>9, <3>1
    <3>3. g[d] = Append(g[c], s[Max(d)])
      BY <1>7, <2>2
    <3>4. d \subseteq 1..Len(s)
      OBVIOUS
    <3>. HIDE DEF P
    <3>5. Append(g[c], s[Max(d)]) \in Seq(S) /\ IsAt(Append(g[c], s[Max(d)]), s, d)
      <4>1. Max(d) \in d /\ \A i \in d : i \leq Max(d)
        BY <1>2, <2>2
      <4>. HIDE DEF D
      <4>. QED BY <3>2, <3>4, <4>1, IsAtLonger
    <3>. QED BY <3>3, <3>5
  <2>. QED BY <2>1, <2>2
<1>. HIDE DEF P
<1>10. Nat \subseteq P
    BY <1>9, NatSet
<1>11. I \in D /\ Height(I) \in Nat
    BY <1>2
<1>. QED BY <1>8, <1>10, <1>11 DEF P

(* Its elements, and the last of them.                                     *)
LEMMA AtFacts ==
    ASSUME NEW S, NEW s \in Seq(S), NEW I, I \subseteq 1..Len(s)
    PROVE  /\ At(s, I) \in Seq(S)
           /\ Elems(At(s, I)) = {s[i] : i \in I}
           /\ I = {} => At(s, I) = <<>>
           /\ I # {} => /\ At(s, I) # <<>>
                       /\ \E m \in I : /\ \A i \in I : i \leq m
                                      /\ At(s, I)[Len(At(s, I))] = s[m]
<1>. DEFINE t == At(s, I)
<1>0. t \in Seq(S) /\ IsAt(t, s, I)
    BY AtCorrect
<1>. HIDE DEF t
<1>1. PICK e \in [1..Len(t) -> I] :
         /\ \A i \in I : \E k \in 1..Len(t) : e[k] = i
         /\ \A j, k \in 1..Len(t) : j < k => e[j] < e[k]
         /\ \A k \in 1..Len(t) : t[k] = s[e[k]]
    BY <1>0 DEF IsAt
<1>2. Elems(t) = {s[i] : i \in I}
  <2>1. \A k \in 1..Len(t) : e[k] \in I /\ t[k] = s[e[k]]
    BY <1>1
  <2>2. \A i \in I : \E k \in 1..Len(t) : t[k] = s[i]
    BY <1>1
  <2>3. Elems(t) \subseteq {s[i] : i \in I}
    <3>. SUFFICES ASSUME NEW k \in 1..Len(t) PROVE t[k] \in {s[i] : i \in I}
      BY DEF Elems
    <3>. QED BY <2>1
  <2>4. {s[i] : i \in I} \subseteq Elems(t)
    BY <2>2 DEF Elems
  <2>. QED BY <2>3, <2>4
<1>3. ASSUME I = {}
      PROVE  t = <<>>
  <2>1. \A k \in 1..Len(t) : FALSE
    BY <1>1, <1>3
  <2>2. Len(t) = 0
    BY <1>0, <2>1
  <2>. QED BY <1>0, <2>2
<1>4. ASSUME I # {}
      PROVE  /\ t # <<>>
             /\ \E m \in I : (\A i \in I : i \leq m) /\ t[Len(t)] = s[m]
  <2>1. Len(t) \in 1..Len(t) /\ t # <<>>
    <3>1. PICK k \in 1..Len(t) : TRUE
      BY <1>1, <1>4
    <3>. QED BY <1>0, <3>1
  <2>2. ASSUME NEW i \in I
        PROVE  i \leq e[Len(t)]
    <3>1. PICK k \in 1..Len(t) : e[k] = i
      BY <1>1
    <3>2. CASE k = Len(t)
      BY <3>1, <3>2
    <3>3. CASE k # Len(t)
      <4>1. k < Len(t)
        BY <1>0, <3>1, <3>3
      <4>2. e[k] < e[Len(t)]
        BY <1>1, <2>1, <4>1
      <4>3. e[Len(t)] \in Int /\ i \in Int
        <5>1. e[Len(t)] \in I
          BY <2>1
        <5>2. \A j \in I : j \in Int
          OBVIOUS
        <5>. QED BY <5>1, <5>2
      <4>4. i < e[Len(t)]
        BY <3>1, <4>2
      <4>. QED BY <4>3, <4>4
    <3>. QED BY <3>2, <3>3
  <2>3. e[Len(t)] \in I /\ t[Len(t)] = s[e[Len(t)]]
    BY <1>1, <2>1
  <2>. QED BY <2>1, <2>2, <2>3
<1>. QED BY <1>0, <1>2, <1>3, <1>4 DEF t

(* There is one such sequence.                                             *)
LEMMA AtUnique ==
    ASSUME NEW S, NEW s \in Seq(S), NEW I, I \subseteq 1..Len(s),
           NEW t \in Seq(S), NEW u \in Seq(S), IsAt(t, s, I), IsAt(u, s, I)
    PROVE  t = u
<1>. DEFINE IsOrder(e, n) ==
              /\ e \in [1..n -> I]
              /\ \A i \in I : \E k \in 1..n : e[k] = i
              /\ \A j, k \in 1..n : j < k => e[j] < e[k]
<1>1. PICK e : IsOrder(e, Len(t)) /\ \A k \in 1..Len(t) : t[k] = s[e[k]]
    BY DEF IsAt
<1>2. PICK f : IsOrder(f, Len(u)) /\ \A k \in 1..Len(u) : u[k] = s[f[k]]
    BY DEF IsAt
<1>3. Len(t) \in Nat /\ Len(u) \in Nat
    OBVIOUS
<1>0. \A i \in I : i \in Int
    OBVIOUS
<1>4. ASSUME NEW m \in Nat, NEW n \in Nat, NEW g, NEW h,
             IsOrder(g, m), IsOrder(h, n), NEW k \in 1..m, k \leq n,
             \A j \in 1..k - 1 : g[j] = h[j]
      PROVE  h[k] \leq g[k]
  <2>1. g[k] \in I /\ h[k] \in I
    BY <1>4
  <2>0. g[k] \in Int /\ h[k] \in Int
    BY <1>0, <2>1
  <2>2. PICK j \in 1..n : h[j] = g[k]
    BY <1>4, <2>1
  <2>3. CASE j < k
    <3>1. j \in 1..k - 1 /\ j \in 1..m
      BY <1>4, <2>2, <2>3
    <3>2. g[j] = g[k] /\ g[j] < g[k]
      BY <1>4, <2>2, <2>3, <3>1
    <3>. QED BY <2>0, <3>2
  <2>4. CASE j = k
    BY <2>0, <2>2, <2>4
  <2>5. CASE j > k
    <3>1. k \in 1..n
      BY <1>4
    <3>2. h[k] < h[j]
      BY <1>4, <2>2, <2>5, <3>1
    <3>. QED BY <2>0, <2>2, <3>2
  <2>. QED BY <1>4, <2>3, <2>4, <2>5
<1>. HIDE DEF IsOrder
<1>. DEFINE P == {k \in Nat : k \in 1..Len(t) /\ k \in 1..Len(u) => e[k] = f[k]}
<1>5. ASSUME NEW k \in Nat, \A j \in Nat : j < k => j \in P
      PROVE  k \in P
  <2>. SUFFICES ASSUME k \in 1..Len(t), k \in 1..Len(u) PROVE e[k] = f[k]
    OBVIOUS
  <2>1. \A j \in 1..k - 1 : e[j] = f[j]
    <3>. SUFFICES ASSUME NEW j \in 1..k - 1 PROVE e[j] = f[j]
      OBVIOUS
    <3>1. j \in Nat /\ j < k /\ j \in 1..Len(t) /\ j \in 1..Len(u)
      BY <1>3
    <3>. QED BY <1>5, <3>1
  <2>2. \A j \in 1..k - 1 : f[j] = e[j]
    BY <2>1
  <2>3. k \leq Len(t) /\ k \leq Len(u)
    BY <1>3
  <2>. HIDE DEF P
  <2>4. f[k] \leq e[k]
    BY <1>1, <1>2, <1>3, <1>4, <2>1, <2>3
  <2>5. e[k] \leq f[k]
    BY <1>1, <1>2, <1>3, <1>4, <2>2, <2>3
  <2>6. e[k] \in Int /\ f[k] \in Int
    <3>1. e[k] \in I /\ f[k] \in I
      BY <1>1, <1>2 DEF IsOrder
    <3>. QED BY <1>0, <3>1
  <2>. QED BY <2>4, <2>5, <2>6
<1>6. Nat \subseteq P
  <2>. HIDE DEF P
  <2>. QED BY <1>5, NatSet
<1>7. \A k \in 1..Len(t) : k \in 1..Len(u) => e[k] = f[k]
  <2>. SUFFICES ASSUME NEW k \in 1..Len(t), k \in 1..Len(u) PROVE e[k] = f[k]
    OBVIOUS
  <2>1. k \in Nat
    OBVIOUS
  <2>2. k \in P
    BY <1>6, <2>1
  <2>. QED BY <2>2
<1>. HIDE DEF P
<1>8. ASSUME NEW m \in Nat, NEW n \in Nat, NEW g, NEW h,
             IsOrder(g, m), IsOrder(h, n), m < n,
             \A j \in 1..m : g[j] = h[j]
      PROVE  FALSE
  <2>1. m + 1 \in 1..n /\ h[m + 1] \in I
    BY <1>8 DEF IsOrder
  <2>2. PICK j \in 1..m : g[j] = h[m + 1]
    BY <1>8, <2>1 DEF IsOrder
  <2>3. j < m + 1 /\ j \in 1..n
    BY <1>8
  <2>4. h[j] < h[m + 1]
    BY <1>8, <2>1, <2>3 DEF IsOrder
  <2>5. h[j] = h[m + 1]
    BY <1>8, <2>2
  <2>6. h[m + 1] \in Int
    BY <1>0, <2>1
  <2>. QED BY <2>4, <2>5, <2>6
<1>9. Len(t) = Len(u)
  <2>1. CASE Len(t) < Len(u)
    <3>1. \A j \in 1..Len(t) : e[j] = f[j]
      BY <1>3, <1>7, <2>1
    <3>. QED BY <1>1, <1>2, <1>3, <1>8, <2>1, <3>1
  <2>2. CASE Len(u) < Len(t)
    <3>1. \A j \in 1..Len(u) : f[j] = e[j]
      BY <1>3, <1>7, <2>2
    <3>. QED BY <1>1, <1>2, <1>3, <1>8, <2>2, <3>1
  <2>. QED BY <1>3, <2>1, <2>2
<1>10. \A k \in 1..Len(t) : t[k] = u[k]
    BY <1>1, <1>2, <1>7, <1>9
<1>. QED BY <1>9, <1>10

(* One more position, after the others.                                    *)
LEMMA AtNext ==
    ASSUME NEW S, NEW s \in Seq(S), NEW I, NEW m \in 1..Len(s), I \subseteq 1..m - 1
    PROVE  At(s, I \cup {m}) = Append(At(s, I), s[m])
<1>. DEFINE J == I \cup {m}
<1>1. J \subseteq 1..Len(s) /\ m \in J /\ J \ {m} = I
    OBVIOUS
<1>2. \A i \in J : i \leq m
    OBVIOUS
<1>3. I \subseteq 1..Len(s)
    OBVIOUS
<1>. HIDE DEF J
<1>4. At(s, I) \in Seq(S) /\ IsAt(At(s, I), s, J \ {m})
    BY <1>1, <1>3, AtCorrect
<1>5. Append(At(s, I), s[m]) \in Seq(S) /\ IsAt(Append(At(s, I), s[m]), s, J)
    BY <1>1, <1>2, <1>4, IsAtLonger
<1>6. At(s, J) \in Seq(S) /\ IsAt(At(s, J), s, J)
    BY <1>1, AtCorrect
<1>. QED BY <1>1, <1>5, <1>6, AtUnique DEF J

(* All positions.                                                          *)
LEMMA AtAll ==
    ASSUME NEW S, NEW s \in Seq(S)
    PROVE  At(s, 1..Len(s)) = s
<1>1. [i \in 1..Len(s) |-> i] \in [1..Len(s) -> 1..Len(s)]
    OBVIOUS
<1>2. IsAt(s, s, 1..Len(s))
    BY <1>1 DEF IsAt
<1>. QED BY <1>2, AtCorrect, AtUnique

(* A sequence without the element at k.                                    *)
Removed(s, k) == [i \in 1..Len(s) - 1 |-> IF i < k THEN s[i] ELSE s[i + 1]]

LEMMA RemovedFacts ==
    ASSUME NEW S, NEW s \in Seq(S), NEW k \in 1..Len(s)
    PROVE  /\ Removed(s, k) \in Seq(S)
           /\ Len(Removed(s, k)) = Len(s) - 1
           /\ Elems(s) = Elems(Removed(s, k)) \cup {s[k]}
<1>. DEFINE n == Len(s) - 1
            t == Removed(s, k)
<1>1. Len(s) \in Nat /\ n \in Nat /\ n + 1 = Len(s) /\ k \in Int /\ k \geq 1 /\ k \leq n + 1
    OBVIOUS
<1>. HIDE DEF n
<1>2. \A i \in 1..n : t[i] = IF i < k THEN s[i] ELSE s[i + 1]
    BY DEF Removed, n
<1>3. t \in [1..n -> S]
  <2>1. \A i \in 1..n : i \in 1..Len(s) /\ i + 1 \in 1..Len(s)
    BY <1>1
  <2>2. \A i \in 1..n : (IF i < k THEN s[i] ELSE s[i + 1]) \in S
    BY <2>1
  <2>. QED BY <2>2 DEF Removed, n
<1>4. t \in Seq(S) /\ Len(t) = n
    BY <1>1, <1>3
<1>. HIDE DEF t
<1>5. Elems(t) \subseteq Elems(s) /\ s[k] \in Elems(s)
  <2>1. \A i \in 1..n : \E j \in 1..Len(s) : t[i] = s[j]
    <3>. SUFFICES ASSUME NEW i \in 1..n PROVE \E j \in 1..Len(s) : t[i] = s[j]
      OBVIOUS
    <3>1. i \in 1..Len(s) /\ i + 1 \in 1..Len(s)
      BY <1>1
    <3>. QED BY <1>2, <3>1
  <2>. QED BY <1>4, <2>1 DEF Elems
<1>6. Elems(s) \subseteq Elems(t) \cup {s[k]}
  <2>. SUFFICES ASSUME NEW j \in 1..Len(s), j # k PROVE \E i \in 1..n : t[i] = s[j]
    BY <1>4 DEF Elems
  <2>1. CASE j < k
    <3>1. j \in 1..n
      BY <1>1, <2>1
    <3>. QED BY <1>2, <2>1, <3>1
  <2>2. CASE j > k
    <3>1. j - 1 \in 1..n /\ ~(j - 1 < k) /\ (j - 1) + 1 = j
      BY <1>1, <2>2
    <3>. QED BY <1>2, <3>1
  <2>. QED BY <1>1, <2>1, <2>2
<1>. QED BY <1>1, <1>4, <1>5, <1>6 DEF t

(* One position less.                                                      *)
LEMMA AtLess ==
    ASSUME NEW S, NEW s \in Seq(S), NEW I, I \subseteq 1..Len(s), NEW m \in I
    PROVE  \E k \in 1..Len(At(s, I)) : /\ At(s, I)[k] = s[m]
                                       /\ At(s, I \ {m}) = Removed(At(s, I), k)
<1>. DEFINE t == At(s, I)
            n == Len(t)
<1>1. t \in Seq(S) /\ IsAt(t, s, I)
    BY AtCorrect
<1>. HIDE DEF t
<1>2. PICK e \in [1..n -> I] :
         /\ \A i \in I : \E k \in 1..n : e[k] = i
         /\ \A j, k \in 1..n : j < k => e[j] < e[k]
         /\ \A k \in 1..n : t[k] = s[e[k]]
    BY <1>1 DEF IsAt
<1>3. PICK k \in 1..n : e[k] = m
    BY <1>2
<1>. DEFINE u == Removed(t, k)
            from(i) == IF i < k THEN i ELSE i + 1
            d == [i \in 1..n - 1 |-> e[from(i)]]
<1>4. u \in Seq(S) /\ Len(u) = n - 1
    BY <1>1, RemovedFacts
<1>5. n \in Nat /\ \A i \in I : i \in Int
    BY <1>1
<1>6. \A i \in 1..n - 1 : /\ from(i) \in 1..n /\ from(i) # k
                          /\ d[i] = e[from(i)] /\ u[i] = t[from(i)]
  <2>1. \A i \in 1..n - 1 : from(i) \in 1..n /\ from(i) # k
    BY <1>5
  <2>2. \A i \in 1..n - 1 : d[i] = e[from(i)] /\ u[i] = t[from(i)]
    BY DEF Removed
  <2>. QED BY <2>1, <2>2
<1>7. \A i, j \in 1..n - 1 : i < j => from(i) < from(j)
    BY <1>5
<1>8. \A j \in 1..n : j # k => \E i \in 1..n - 1 : from(i) = j
  <2>. SUFFICES ASSUME NEW j \in 1..n, j # k PROVE \E i \in 1..n - 1 : from(i) = j
    OBVIOUS
  <2>1. CASE j < k
    <3>1. j \in 1..n - 1 /\ from(j) = j
      BY <1>5, <2>1
    <3>. QED BY <3>1
  <2>2. CASE j > k
    <3>1. j - 1 \in 1..n - 1 /\ from(j - 1) = j
      BY <1>5, <2>2
    <3>. QED BY <3>1
  <2>. QED BY <2>1, <2>2
<1>9. \A i, j \in 1..n : e[i] = e[j] => i = j
  <2>. SUFFICES ASSUME NEW i \in 1..n, NEW j \in 1..n, i < j PROVE e[i] # e[j]
    BY <1>5
  <2>1. e[i] < e[j] /\ e[i] \in Int /\ e[j] \in Int
    BY <1>2, <1>5
  <2>. QED BY <2>1
<1>. HIDE DEF u, d, from, n
<1>10. d \in [1..n - 1 -> I \ {m}]
  <2>1. \A i \in 1..n - 1 : e[from(i)] \in I \ {m}
    BY <1>2, <1>3, <1>6, <1>9
  <2>. QED BY <2>1 DEF d
<1>11. \A i \in I \ {m} : \E j \in 1..n - 1 : d[j] = i
  <2>. SUFFICES ASSUME NEW i \in I \ {m} PROVE \E j \in 1..n - 1 : d[j] = i
    OBVIOUS
  <2>1. PICK j \in 1..n : e[j] = i
    BY <1>2
  <2>2. j # k
    BY <1>3, <2>1
  <2>3. PICK h \in 1..n - 1 : from(h) = j
    BY <1>8, <2>2
  <2>. QED BY <1>6, <2>1, <2>3
<1>12. \A i, j \in 1..n - 1 : i < j => d[i] < d[j]
    BY <1>2, <1>6, <1>7
<1>13. \A i \in 1..n - 1 : u[i] = s[d[i]]
    BY <1>2, <1>6
<1>14. IsAt(u, s, I \ {m})
    BY <1>4, <1>10, <1>11, <1>12, <1>13 DEF IsAt
<1>15. u = At(s, I \ {m})
  <2>1. I \ {m} \subseteq 1..Len(s)
    OBVIOUS
  <2>. QED BY <1>4, <1>14, <2>1, AtCorrect, AtUnique
<1>16. t[k] = s[m]
    BY <1>2, <1>3
<1>. QED BY <1>3, <1>15, <1>16 DEF u, t, n
===============================================================================
