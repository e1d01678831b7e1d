----------------------------- MODULE IdentifyProofs -----------------------------
(***************************************************************************)
(* Proofs about Identify, for any database and any thing to identify.      *)
(***************************************************************************)
EXTENDS Identify, ListFacts

-------------------------------------------------------------------------------
(* The sort                                                                *)

(* What Merge and Sort are defined by.                                     *)
MergeBy(f, p) ==
    LET s == p[1]
        t == p[2]
    IN  IF s = <<>> THEN t
        ELSE IF t = <<>> THEN s
        ELSE IF VolumeCompare(Head(s), Head(t)) \leq 0
             THEN <<Head(s)>> \o f[<<Tail(s), t>>]
             ELSE <<Head(t)>> \o f[<<s, Tail(t)>>]

SortBy(f, s) ==
    IF Len(s) \leq 1 THEN s
    ELSE LET half == Len(s) \div 2
         IN  Merge[<<f[SubSeq(s, 1, half)], f[SubSeq(s, half + 1, Len(s))]>>]

Pairs == Seq(Refs) \X Seq(Refs)
SizeOfBoth(p) == Len(p[1]) + Len(p[2])

(* Merge is what it is defined by.                                         *)
LEMMA MergeDefined == \A p \in Pairs : Merge[p] = MergeBy(Merge, p)
<1>1. ASSUME NEW p \in Pairs
      PROVE  SizeOfBoth(p) \in Nat
    BY DEF SizeOfBoth, Pairs
<1>2. ASSUME NEW p \in Pairs, NEW g, NEW h,
             \A q \in Pairs : SizeOfBoth(q) < SizeOfBoth(p) => g[q] = h[q]
      PROVE  MergeBy(g, p) = MergeBy(h, p)
  <2>1. PICK s \in Seq(Refs), t \in Seq(Refs) : p = <<s, t>>
    BY DEF Pairs
  <2>2. CASE s = <<>> \/ t = <<>>
    BY <2>1, <2>2 DEF MergeBy
  <2>3. CASE s # <<>> /\ t # <<>>
    <3>1. /\ Tail(s) \in Seq(Refs) /\ Len(Tail(s)) = Len(s) - 1
          /\ Tail(t) \in Seq(Refs) /\ Len(Tail(t)) = Len(t) - 1
          /\ Len(s) \in Nat /\ Len(t) \in Nat
      BY <2>3, HeadAndTail
    <3>2. /\ <<Tail(s), t>> \in Pairs
          /\ <<s, Tail(t)>> \in Pairs
      BY <3>1 DEF Pairs
    <3>3. /\ SizeOfBoth(<<Tail(s), t>>) = Len(Tail(s)) + Len(t)
          /\ SizeOfBoth(<<s, Tail(t)>>) = Len(s) + Len(Tail(t))
          /\ SizeOfBoth(p) = Len(s) + Len(t)
      BY <2>1 DEF SizeOfBoth
    <3>4. /\ g[<<Tail(s), t>>] = h[<<Tail(s), t>>]
          /\ g[<<s, Tail(t)>>] = h[<<s, Tail(t)>>]
      BY <1>2, <3>1, <3>2, <3>3
    <3>. QED BY <2>1, <3>4 DEF MergeBy
  <2>. QED BY <2>2, <2>3
<1>3. \A p \in Pairs, g \in [Pairs -> Seq(Refs)] : MergeBy(g, p) \in Seq(Refs)
  <2>. SUFFICES ASSUME NEW s \in Seq(Refs), NEW t \in Seq(Refs), NEW g \in [Pairs -> Seq(Refs)]
                PROVE  MergeBy(g, <<s, t>>) \in Seq(Refs)
    BY DEF Pairs
  <2>1. CASE s = <<>> \/ t = <<>>
    BY <2>1 DEF MergeBy
  <2>2. CASE s # <<>> /\ t # <<>>
    <3>1. Tail(s) \in Seq(Refs) /\ Tail(t) \in Seq(Refs) /\ Head(s) \in Refs /\ Head(t) \in Refs
      BY <2>2, HeadAndTail
    <3>2. g[<<Tail(s), t>>] \in Seq(Refs) /\ g[<<s, Tail(t)>>] \in Seq(Refs)
      BY <3>1 DEF Pairs
    <3>. QED BY <3>1, <3>2 DEF MergeBy
  <2>. QED BY <2>1, <2>2
<1>. DEFINE Size == [p \in Pairs |-> SizeOfBoth(p)]
            Def == [q \in [Pairs -> Seq(Refs)] \X Pairs |-> MergeBy(q[1], q[2])]
<1>4. /\ Size \in [Pairs -> Nat]
      /\ Def \in [[Pairs -> Seq(Refs)] \X Pairs -> Seq(Refs)]
      /\ Seq(Refs) # {}
  <2>1. Size \in [Pairs -> Nat]
    BY <1>1
  <2>2. ASSUME NEW q \in [Pairs -> Seq(Refs)] \X Pairs
        PROVE  MergeBy(q[1], q[2]) \in Seq(Refs)
    BY <1>3
  <2>3. Def \in [[Pairs -> Seq(Refs)] \X Pairs -> Seq(Refs)]
    BY <2>2
  <2>4. <<>> \in Seq(Refs)
    OBVIOUS
  <2>. QED BY <2>1, <2>3, <2>4
<1>5. \A p \in Pairs : \A g, h \in [Pairs -> Seq(Refs)] :
         (\A q \in Pairs : Size[q] < Size[p] => g[q] = h[q])
         => Def[<<g, p>>] = Def[<<h, p>>]
  BY <1>2
<1>6. \A p \in Pairs, g \in [Pairs -> Seq(Refs)] : Def[<<g, p>>] = MergeBy(g, p)
  OBVIOUS
<1>. HIDE DEF Size, Def
<1>. LooksBack(Pairs, Seq(Refs), Size, Def)
  BY <1>4, <1>5 DEF LooksBack
<1>7. PICK f : Solves(f, Pairs, Seq(Refs), Def)
  BY <1>4, Recursive
<1>8. f = [p \in Pairs |-> MergeBy(f, p)]
  BY <1>6, <1>7 DEF Solves
<1>9. Merge = CHOOSE g : g = [p \in Pairs |-> MergeBy(g, p)]
    BY DEF Merge, MergeBy, Pairs
<1>10. Merge = [p \in Pairs |-> MergeBy(Merge, p)]
    BY <1>8, <1>9
<1>. QED BY <1>10

(* A list that has each element of S once, if it was made of such lists.   *)
Holds(s, S) == s \in Seq(Refs) /\ Elems(s) = S

(* A merged list has the elements of both, each once if they had.          *)
LEMMA MergeCorrect ==
    ASSUME NEW s \in Seq(Refs), NEW t \in Seq(Refs)
    PROVE  LET m == Merge[<<s, t>>]
           IN  /\ Holds(m, Elems(s) \cup Elems(t))
               /\ Distinct(s) /\ Distinct(t) /\ Elems(s) \cap Elems(t) = {} => Distinct(m)
<1>. DEFINE Right(u, v) ==
              LET m == Merge[<<u, v>>]
              IN  /\ Holds(m, Elems(u) \cup Elems(v))
                  /\ Distinct(u) /\ Distinct(v) /\ Elems(u) \cap Elems(v) = {} => Distinct(m)
            T == {n \in Nat : \A u, v \in Seq(Refs) : Len(u) + Len(v) = n => Right(u, v)}
<1>1. ASSUME NEW n \in Nat, \A m \in Nat : m < n => m \in T
      PROVE  n \in T
  <2>. SUFFICES ASSUME NEW u \in Seq(Refs), NEW v \in Seq(Refs), Len(u) + Len(v) = n
                PROVE  Right(u, v)
    OBVIOUS
  <2>. HIDE DEF T
  <2>0. <<u, v>> \in Pairs /\ Merge[<<u, v>>] = MergeBy(Merge, <<u, v>>)
    BY MergeDefined DEF Pairs
  <2>1. CASE u = <<>>
    <3>1. Merge[<<u, v>>] = v
      BY <2>0, <2>1 DEF MergeBy
    <3>2. Elems(u) = {}
      BY <2>1 DEF Elems
    <3>. QED BY <3>1, <3>2 DEF Holds
  <2>2. CASE u # <<>> /\ v = <<>>
    <3>1. Merge[<<u, v>>] = u
      BY <2>0, <2>2 DEF MergeBy
    <3>2. Elems(v) = {}
      BY <2>2 DEF Elems
    <3>. QED BY <3>1, <3>2 DEF Holds
  <2>3. CASE u # <<>> /\ v # <<>>
    <3>1. /\ Head(u) \in Refs /\ Tail(u) \in Seq(Refs) /\ Len(Tail(u)) = Len(u) - 1
          /\ Elems(u) = {Head(u)} \cup Elems(Tail(u))
          /\ Distinct(u) => Distinct(Tail(u)) /\ Head(u) \notin Elems(Tail(u))
      BY <2>3, HeadAndTail
    <3>2. /\ Head(v) \in Refs /\ Tail(v) \in Seq(Refs) /\ Len(Tail(v)) = Len(v) - 1
          /\ Elems(v) = {Head(v)} \cup Elems(Tail(v))
          /\ Distinct(v) => Distinct(Tail(v)) /\ Head(v) \notin Elems(Tail(v))
      BY <2>3, HeadAndTail
    <3>3. n - 1 \in T /\ Len(Tail(u)) + Len(v) = n - 1 /\ Len(u) + Len(Tail(v)) = n - 1
      <4>1. Len(u) \in Nat /\ Len(v) \in Nat /\ Len(u) > 0
        BY <2>3
      <4>. QED BY <1>1, <3>1, <3>2, <4>1
    <3>4. Right(Tail(u), v)
      BY <3>1, <3>3 DEF T
    <3>5. Right(u, Tail(v))
      BY <3>2, <3>3 DEF T
    <3>. DEFINE mu == Merge[<<Tail(u), v>>]
                mv == Merge[<<u, Tail(v)>>]
    <3>6. Merge[<<u, v>>] \in {<<Head(u)>> \o mu, <<Head(v)>> \o mv}
      BY <2>0, <2>3 DEF MergeBy
    <3>7. CASE Merge[<<u, v>>] = <<Head(u)>> \o mu
      <4>1. /\ mu \in Seq(Refs) /\ Elems(mu) = Elems(Tail(u)) \cup Elems(v)
            /\ Distinct(Tail(u)) /\ Distinct(v) /\ Elems(Tail(u)) \cap Elems(v) = {} => Distinct(mu)
        BY <3>4 DEF Holds
      <4>. HIDE DEF mu
      <4>2. /\ <<Head(u)>> \o mu \in Seq(Refs)
            /\ Elems(<<Head(u)>> \o mu) = {Head(u)} \cup Elems(mu)
            /\ Distinct(mu) /\ Head(u) \notin Elems(mu) => Distinct(<<Head(u)>> \o mu)
        BY <3>1, <4>1, PutFirst
      <4>. QED BY <3>1, <3>7, <4>1, <4>2 DEF Holds
    <3>8. CASE Merge[<<u, v>>] = <<Head(v)>> \o mv
      <4>1. /\ mv \in Seq(Refs) /\ Elems(mv) = Elems(u) \cup Elems(Tail(v))
            /\ Distinct(u) /\ Distinct(Tail(v)) /\ Elems(u) \cap Elems(Tail(v)) = {} => Distinct(mv)
        BY <3>5 DEF Holds
      <4>. HIDE DEF mv
      <4>2. /\ <<Head(v)>> \o mv \in Seq(Refs)
            /\ Elems(<<Head(v)>> \o mv) = {Head(v)} \cup Elems(mv)
            /\ Distinct(mv) /\ Head(v) \notin Elems(mv) => Distinct(<<Head(v)>> \o mv)
        BY <3>2, <4>1, PutFirst
      <4>. QED BY <3>2, <3>8, <4>1, <4>2 DEF Holds
    <3>. QED BY <3>6, <3>7, <3>8
  <2>. QED BY <2>1, <2>2, <2>3
<1>. HIDE DEF T
<1>2. Nat \subseteq T
    BY <1>1, NatSet
<1>3. Len(s) + Len(t) \in Nat
    OBVIOUS
<1>4. Right(s, t)
    BY <1>2, <1>3 DEF T
<1>. QED BY <1>4

(* So is Sort: a list of two or more is longer than its halves.            *)
LEMMA Halves ==
    ASSUME NEW S, NEW s \in Seq(S), Len(s) > 1
    PROVE  Len(s) \div 2 \in 1..Len(s) - 1
    OBVIOUS

LEMMA SortDefined == \A s \in Seq(Refs) : Sort[s] = SortBy(Sort, s)
<1>1. ASSUME NEW s \in Seq(Refs), Len(s) > 1
      PROVE  LET half == Len(s) \div 2
                 a == SubSeq(s, 1, half)
                 b == SubSeq(s, half + 1, Len(s))
             IN  /\ a \in Seq(Refs) /\ Len(a) < Len(s)
                 /\ b \in Seq(Refs) /\ Len(b) < Len(s)
    <2>. DEFINE half == Len(s) \div 2
    <2>1. half \in 1..Len(s) - 1
      BY <1>1, Halves
    <2>. HIDE DEF half
    <2>2. /\ SubSeq(s, 1, half) \in Seq(Refs) /\ Len(SubSeq(s, 1, half)) < Len(s)
          /\ SubSeq(s, half + 1, Len(s)) \in Seq(Refs)
          /\ Len(SubSeq(s, half + 1, Len(s))) < Len(s)
      BY <2>1, Parts
    <2>. QED BY <2>2 DEF half
<1>2. ASSUME NEW s \in Seq(Refs), NEW g, NEW h,
             \A t \in Seq(Refs) : Len(t) < Len(s) => g[t] = h[t]
      PROVE  SortBy(g, s) = SortBy(h, s)
  <2>1. CASE Len(s) > 1
    BY <1>1, <1>2, <2>1 DEF SortBy
  <2>2. CASE Len(s) \leq 1
    BY <2>2 DEF SortBy
  <2>. QED BY <2>1, <2>2
<1>3. \A s \in Seq(Refs), g \in [Seq(Refs) -> Seq(Refs)] : SortBy(g, s) \in Seq(Refs)
  <2>. SUFFICES ASSUME NEW s \in Seq(Refs), NEW g \in [Seq(Refs) -> Seq(Refs)],
                       ~(Len(s) \leq 1)
                PROVE  SortBy(g, s) \in Seq(Refs)
    BY DEF SortBy
  <2>. DEFINE half == Len(s) \div 2
              a == SubSeq(s, 1, half)
              b == SubSeq(s, half + 1, Len(s))
  <2>1. a \in Seq(Refs) /\ b \in Seq(Refs)
    <3>1. Len(s) > 1
      OBVIOUS
    <3>. QED BY <1>1, <3>1
  <2>. HIDE DEF a, b
  <2>2. Merge[<<g[a], g[b]>>] \in Seq(Refs)
    BY <2>1, MergeCorrect DEF Holds
  <2>3. SortBy(g, s) = Merge[<<g[a], g[b]>>]
    BY DEF SortBy, a, b
  <2>. QED BY <2>2, <2>3
<1>. DEFINE Size == [s \in Seq(Refs) |-> Len(s)]
            Def == [q \in [Seq(Refs) -> Seq(Refs)] \X Seq(Refs) |-> SortBy(q[1], q[2])]
<1>4. /\ Size \in [Seq(Refs) -> Nat]
      /\ Def \in [[Seq(Refs) -> Seq(Refs)] \X Seq(Refs) -> Seq(Refs)]
      /\ Seq(Refs) # {}
  <2>1. Size \in [Seq(Refs) -> Nat]
    BY <1>1
  <2>2. ASSUME NEW q \in [Seq(Refs) -> Seq(Refs)] \X Seq(Refs)
        PROVE  SortBy(q[1], q[2]) \in Seq(Refs)
    BY <1>3
  <2>3. Def \in [[Seq(Refs) -> Seq(Refs)] \X Seq(Refs) -> Seq(Refs)]
    BY <2>2
  <2>4. <<>> \in Seq(Refs)
    OBVIOUS
  <2>. QED BY <2>1, <2>3, <2>4
<1>5. \A s \in Seq(Refs) : \A g, h \in [Seq(Refs) -> Seq(Refs)] :
         (\A t \in Seq(Refs) : Size[t] < Size[s] => g[t] = h[t])
         => Def[<<g, s>>] = Def[<<h, s>>]
  BY <1>2
<1>6. \A s \in Seq(Refs), g \in [Seq(Refs) -> Seq(Refs)] : Def[<<g, s>>] = SortBy(g, s)
  OBVIOUS
<1>. HIDE DEF Size, Def
<1>. LooksBack(Seq(Refs), Seq(Refs), Size, Def)
  BY <1>4, <1>5 DEF LooksBack
<1>7. PICK f : Solves(f, Seq(Refs), Seq(Refs), Def)
  BY <1>4, Recursive
<1>8. f = [s \in Seq(Refs) |-> SortBy(f, s)]
  BY <1>6, <1>7 DEF Solves
<1>9. Sort = CHOOSE g : g = [s \in Seq(Refs) |-> SortBy(g, s)]
    BY DEF Sort, SortBy
<1>10. Sort = [s \in Seq(Refs) |-> SortBy(Sort, s)]
    BY <1>8, <1>9
<1>. QED BY <1>10

(* A sorted list has the elements it had, each once if it had.             *)
LEMMA SortCorrect ==
    ASSUME NEW s \in Seq(Refs)
    PROVE  Holds(Sort[s], Elems(s)) /\ (Distinct(s) => Distinct(Sort[s]))
<1>. DEFINE Right(u) == Holds(Sort[u], Elems(u)) /\ (Distinct(u) => Distinct(Sort[u]))
            T == {n \in Nat : \A u \in Seq(Refs) : Len(u) = n => Right(u)}
<1>1. ASSUME NEW n \in Nat, \A m \in Nat : m < n => m \in T
      PROVE  n \in T
  <2>. SUFFICES ASSUME NEW u \in Seq(Refs), Len(u) = n
                PROVE  Right(u)
    OBVIOUS
  <2>. HIDE DEF T
  <2>1. CASE n \leq 1
    BY <2>1, SortDefined DEF SortBy, Holds
  <2>2. CASE n > 1
    <3>. DEFINE half == Len(u) \div 2
                a == SubSeq(u, 1, half)
                b == SubSeq(u, half + 1, Len(u))
    <3>1. half \in 1..Len(u) - 1
      BY <2>2, Halves
    <3>2. Sort[u] = Merge[<<Sort[a], Sort[b]>>]
      BY <2>2, SortDefined DEF SortBy
    <3>. HIDE DEF half
    <3>3. /\ a \in Seq(Refs) /\ Len(a) = half
          /\ b \in Seq(Refs) /\ Len(b) = Len(u) - half
          /\ Elems(u) = Elems(a) \cup Elems(b)
          /\ Distinct(u) => Distinct(a) /\ Distinct(b) /\ Elems(a) \cap Elems(b) = {}
      BY <3>1, Parts
    <3>. HIDE DEF a, b
    <3>4. half \in T /\ Len(u) - half \in T
      BY <1>1, <3>1
    <3>5. Right(a) /\ Right(b)
      BY <3>3, <3>4 DEF T
    <3>6. /\ Holds(Merge[<<Sort[a], Sort[b]>>], Elems(Sort[a]) \cup Elems(Sort[b]))
          /\ Distinct(Sort[a]) /\ Distinct(Sort[b]) /\ Elems(Sort[a]) \cap Elems(Sort[b]) = {}
             => Distinct(Merge[<<Sort[a], Sort[b]>>])
      BY <3>5, MergeCorrect DEF Holds
    <3>. QED BY <3>2, <3>3, <3>5, <3>6 DEF Holds
  <2>. QED BY <2>1, <2>2
<1>. HIDE DEF T
<1>2. Nat \subseteq T
    BY <1>1, NatSet
<1>3. Len(s) \in Nat
    OBVIOUS
<1>4. Right(s)
    BY <1>2, <1>3 DEF T
<1>. QED BY <1>4

(* Two references are sorted by one comparison.                            *)
LEMMA SortOfTwo ==
    ASSUME NEW x \in Refs, NEW y \in Refs
    PROVE  Sort[<<x, y>>] = IF VolumeCompare(x, y) \leq 0 THEN <<x, y>> ELSE <<y, x>>
<1>1. <<x, y>> \in Seq(Refs) /\ Len(<<x, y>>) = 2 /\ <<x>> \in Seq(Refs) /\ <<y>> \in Seq(Refs)
      /\ <<>> \in Seq(Refs)
    OBVIOUS
<1>2. 2 \div 2 = 1
    OBVIOUS
<1>3. SubSeq(<<x, y>>, 1, 1) = <<x>> /\ SubSeq(<<x, y>>, 2, 2) = <<y>>
  <2>1. ASSUME NEW a \in Seq(Refs), NEW z \in Refs, Len(a) = 1, a[1] = z
        PROVE  a = <<z>>
    BY <2>1
  <2>2. /\ SubSeq(<<x, y>>, 1, 1) \in Seq(Refs) /\ Len(SubSeq(<<x, y>>, 1, 1)) = 1
        /\ SubSeq(<<x, y>>, 1, 1)[1] = x
    BY <1>1
  <2>3. /\ SubSeq(<<x, y>>, 2, 2) \in Seq(Refs) /\ Len(SubSeq(<<x, y>>, 2, 2)) = 1
        /\ SubSeq(<<x, y>>, 2, 2)[1] = y
    BY <1>1
  <2>. QED BY <2>1, <2>2, <2>3
<1>4. Sort[<<x>>] = <<x>> /\ Sort[<<y>>] = <<y>>
  <2>1. Len(<<x>>) \leq 1 /\ Len(<<y>>) \leq 1
    OBVIOUS
  <2>2. SortBy(Sort, <<x>>) = <<x>> /\ SortBy(Sort, <<y>>) = <<y>>
    BY <2>1 DEF SortBy
  <2>. QED BY <1>1, <2>2, SortDefined
<1>5. Sort[<<x, y>>] = Merge[<<<<x>>, <<y>>>>]
  <2>. DEFINE half == Len(<<x, y>>) \div 2
  <2>0. half = 1 /\ half + 1 = 2 /\ ~(Len(<<x, y>>) \leq 1)
    BY <1>1, <1>2
  <2>1. SortBy(Sort, <<x, y>>) = Merge[<<<<x>>, <<y>>>>]
    <3>1. SortBy(Sort, <<x, y>>) = Merge[<<Sort[SubSeq(<<x, y>>, 1, half)],
                                         Sort[SubSeq(<<x, y>>, half + 1, Len(<<x, y>>))]>>]
      BY <2>0 DEF SortBy
    <3>. HIDE DEF half
    <3>. QED BY <1>1, <1>3, <1>4, <2>0, <3>1
  <2>. QED BY <1>1, <2>1, SortDefined
<1>6. Merge[<<<<>>, <<y>>>>] = <<y>> /\ Merge[<<<<x>>, <<>>>>] = <<x>>
  <2>1. <<<<>>, <<y>>>> \in Pairs /\ <<<<x>>, <<>>>> \in Pairs
    BY <1>1 DEF Pairs
  <2>2. MergeBy(Merge, <<<<>>, <<y>>>>) = <<y>>
    BY DEF MergeBy
  <2>3. MergeBy(Merge, <<<<x>>, <<>>>>) = <<x>>
    BY DEF MergeBy
  <2>. QED BY <2>1, <2>2, <2>3, MergeDefined
<1>7. MergeBy(Merge, <<<<x>>, <<y>>>>) =
         IF VolumeCompare(x, y) \leq 0 THEN <<x>> \o Merge[<<<<>>, <<y>>>>]
         ELSE <<y>> \o Merge[<<<<x>>, <<>>>>]
  <2>1. Head(<<x>>) = x /\ Tail(<<x>>) = <<>> /\ Head(<<y>>) = y /\ Tail(<<y>>) = <<>>
        /\ <<x>> # <<>> /\ <<y>> # <<>>
    OBVIOUS
  <2>. QED BY <2>1 DEF MergeBy
<1>8. <<x>> \o <<y>> = <<x, y>> /\ <<y>> \o <<x>> = <<y, x>>
  <2>1. ASSUME NEW v \in Refs, NEW w \in Refs
        PROVE  <<v>> \o <<w>> = <<v, w>>
    <3>1. /\ <<v>> \o <<w>> \in Seq(Refs) /\ Len(<<v>> \o <<w>>) = 2
          /\ (<<v>> \o <<w>>)[1] = v /\ (<<v>> \o <<w>>)[2] = w
      OBVIOUS
    <3>2. <<v, w>> \in Seq(Refs) /\ Len(<<v, w>>) = 2 /\ <<v, w>>[1] = v /\ <<v, w>>[2] = w
      OBVIOUS
    <3>3. ASSUME NEW a \in Seq(Refs), NEW b \in Seq(Refs), Len(a) = 2, Len(b) = 2,
                 a[1] = b[1], a[2] = b[2]
          PROVE  a = b
      BY <3>3
    <3>. QED BY <3>1, <3>2, <3>3
  <2>. QED BY <2>1
<1>9. <<<<x>>, <<y>>>> \in Pairs
    BY <1>1 DEF Pairs
<1>. QED BY <1>5, <1>6, <1>7, <1>8, <1>9, MergeDefined

-------------------------------------------------------------------------------
(* The inductive invariant                                                 *)


(* The lists a call walks over have each OS, and each reference, once.     *)
TablesOK ==
    /\ Distinct(db)
    /\ \A os \in Oses : Distinct(order[os]) /\ Elems(order[os]) = RefsOf(os, thing.kind)

Walked == IF pass = 1 THEN db ELSE fallback
Stopped == OnlyFirst /\ matched # <<>>
OsesAhead == Elems(IF inside THEN Tail(oses) ELSE oses)
Ahead(r) == (inside /\ r \in Elems(refs)) \/ Ref[r].os \in OsesAhead

(* Where the two loops are.                                                *)
LoopsOK ==
    /\ Suffix(oses, Walked)
    /\ inside => oses # <<>> /\ Suffix(refs, Examined(Head(oses)))
    /\ inside /\ pass = 2 => ~have
    /\ Stopped => IF inside THEN refs = <<>> /\ ~use ELSE oses = <<>>

(* The fallbacks so far: OSes passed, of which nothing preferred matches,  *)
(* in the reverse of their order.                                          *)
FallbackOK ==
    /\ Elems(fallback) \subseteq Elems(db)
    /\ \A i, j \in 1..Len(fallback) : i < j => Precedes(db, fallback[j], fallback[i])
    /\ pass = 1 => Elems(fallback) \cap Elems(oses) = {}
    /\ \A r \in Candidates : Ref[r].os \in Elems(fallback) => IsFallback(r)

(* What was matched: candidates that were passed.                          *)
MatchedOK ==
    /\ \A r \in Elems(matched) : r \in Candidates /\ ~Ahead(r)
    /\ OnlyFirst => Len(matched) \leq 1
    /\ inside /\ pass = 1 => (use <=> \A r \in Elems(matched) : Ref[r].os # Head(oses))

(* What matches was matched, or is still ahead, or is kept for later.      *)
PreferredAhead ==
    /\ ~Stopped =>
          \A r \in Candidates : ~IsFallback(r) => IsMatched(r) \/ (pass = 1 /\ Ahead(r))
    /\ OnlyFirst /\ pass = 2 => \A r \in Candidates : IsFallback(r)

Kept(os) == os \in Elems(fallback) \/ (inside /\ os = Head(oses) /\ have)

FallbacksAhead ==
    ~Stopped =>
    \A r \in Candidates : IsFallback(r) =>
        \/ IsMatched(r)
        \/ Ahead(r)
        \/ (pass = 1 /\ Kept(Ref[r].os))
        \/ \E s \in Candidates : Ref[s].os = Ref[r].os /\ ~IsFallback(s) /\ IsMatched(s)

(* The order in which references are compared.                             *)
Earlier(r, s) ==
    \/ ~IsFallback(r) /\ IsFallback(s)
    \/ /\ IsFallback(r) <=> IsFallback(s)
       /\ Ref[r].os # Ref[s].os
       /\ IF IsFallback(r) THEN Precedes(db, Ref[s].os, Ref[r].os)
                           ELSE Precedes(db, Ref[r].os, Ref[s].os)
    \/ /\ IsFallback(r) <=> IsFallback(s)
       /\ Ref[r].os = Ref[s].os
       /\ Precedes(Examined(Ref[r].os), r, s)

First(r) == r \in Candidates /\ \A s \in Candidates : s # r => Earlier(r, s)

OrderOK ==
    /\ Stopped => First(matched[1])
    /\ \A r, s \in Candidates : \A j \in 1..Len(matched) :
          /\ Ref[r].os = Ref[s].os
          /\ IsFallback(r) <=> IsFallback(s)
          /\ Precedes(Examined(Ref[r].os), r, s)
          /\ matched[j] = s
          => \E i \in 1..j : matched[i] = r

CallOK == LoopsOK /\ FallbackOK /\ MatchedOK /\ PreferredAhead /\ FallbacksAhead /\ OrderOK

(* What is found, in this call or the last.                                *)
FoundOK ==
    /\ call = "none" => ~inside
    /\ Distinct(fallback) /\ Distinct(matched)
    /\ \A i, j \in 1..Len(matched) :
          i < j /\ IsFallback(matched[i]) => IsFallback(matched[j])
    /\ pass = 1 => \A r \in Elems(matched) :
                      ~IsFallback(r) /\ Ref[r].os \notin Elems(fallback)

(* What was identified.                                                    *)
Same == ~grown /\ (thing.kind = "media" \/ Literal)

FilledOK ==
    /\ last = None => \A f \in Fields : thing.from[f] = None
    /\ last # None /\ Same =>
          /\ First(last)
          /\ thing.arch = Ref[last].arch
          /\ \A f \in Fields : thing.from[f] \in {None, last}
          /\ \A f \in FieldsSet(thing, last) : thing.from[f] = last

IInv == TypeOK /\ TablesOK /\ FoundOK /\ (call # "none" => CallOK) /\ FilledOK

-------------------------------------------------------------------------------
(* Types and tables                                                        *)

(* A list made of a finite set has each of its elements once.              *)
LEMMA ArrangementCorrect ==
    ASSUME NEW S, IsFiniteSet(S), NEW s \in Arrangements(S)
    PROVE  s \in Seq(S) /\ Elems(s) = S /\ Distinct(s)
<1>. DEFINE n == Cardinality(S)
<1>1. n \in Nat
    BY FS_CardinalityType
<1>2. s \in [1..n -> S] /\ \A x \in S : \E i \in 1..n : s[i] = x
    BY DEF Arrangements
<1>3. s \in Seq(S) /\ Len(s) = n
    BY <1>1, <1>2
<1>4. Elems(s) = S
    BY <1>2, <1>3 DEF Elems
<1>5. s \in Surjection(1..n, S)
    BY <1>2 DEF Surjection
<1>6. IsFiniteSet(1..n) /\ Cardinality(1..n) = n
  <2>1. /\ IsFiniteSet(1..n)
        /\ Cardinality(1..n) = IF 1 > n THEN 0 ELSE n - 1 + 1
    BY <1>1, FS_Interval
  <2>. QED BY <1>1, <2>1
<1>7. s \in Injection(1..n, S)
    BY <1>5, <1>6, FS_SurjSameCardinalityImpliesInj
<1>8. Distinct(s)
  <2>1. \A i, j \in 1..n : s[i] = s[j] => i = j
    BY <1>2, <1>7 DEF Injection, IsInjective
  <2>. QED BY <1>3, <2>1 DEF Distinct
<1>. QED BY <1>3, <1>4, <1>8

(* What is compared with are the references of the OS, each once.          *)
LEMMA ExaminedCorrect ==
    ASSUME TypeOK, NEW os \in Oses
    PROVE  /\ Examined(os) \in Seq(Refs)
           /\ TablesOK => /\ Distinct(Examined(os))
                          /\ Elems(Examined(os)) = RefsOf(os, thing.kind)
<1>1. order[os] \in Seq(Refs)
    BY DEF TypeOK
<1>2. CASE thing.kind = "media"
    BY <1>1, <1>2, SortCorrect DEF Examined, Holds, TablesOK
<1>3. CASE thing.kind # "media"
    BY <1>1, <1>3 DEF Examined, TablesOK
<1>. QED BY <1>2, <1>3

LEMMA FilledType ==
    ASSUME NEW t \in Thing, NEW ref \in Refs
    PROVE  /\ Filled(t, ref) \in Thing
           /\ Filled(t, ref).kind = t.kind
           /\ Filled(t, ref).size = t.size
           /\ Filled(t, ref).arch = Ref[ref].arch
           /\ Filled(t, ref).ids = [k \in IdKeys |->
                 IF t.kind = "media" \/ Ref[ref].ids[k] = Null
                 THEN t.ids[k] ELSE Ref[ref].ids[k]]
           /\ Filled(t, ref).from = [f \in Fields |->
                 IF f \in FieldsSet(t, ref) THEN ref ELSE t.from[f]]
<1>1. Ref[ref].arch \in STRING /\ Ref[ref].ids \in [IdKeys -> Pattern]
    BY RefsAssumption DEF RefRecord, MediaRecord, TreeRecord
<1>2. /\ t.ids \in [IdKeys -> Pattern] /\ t.from \in [Fields -> Refs \cup {None}]
      /\ t.kind \in {"media", "tree"} /\ t.size \in Int /\ t.variants \in Seq(Refs)
    BY DEF Thing
<1>. DEFINE ids == [k \in IdKeys |-> IF t.kind = "media" \/ Ref[ref].ids[k] = Null
                                     THEN t.ids[k] ELSE Ref[ref].ids[k]]
            from == [f \in Fields |-> IF f \in FieldsSet(t, ref) THEN ref ELSE t.from[f]]
            variants == Append(t.variants, ref)
<1>3. Filled(t, ref) = [t EXCEPT !.arch = Ref[ref].arch, !.ids = ids, !.from = from,
                                 !.variants = variants]
    BY DEF Filled
<1>4. /\ ids \in [IdKeys -> Pattern]
      /\ from \in [Fields -> Refs \cup {None}]
      /\ variants \in Seq(Refs)
    BY <1>1, <1>2
<1>. HIDE DEF ids, from, variants
<1>5. Filled(t, ref) = [kind |-> t.kind, arch |-> Ref[ref].arch, ids |-> ids,
                        size |-> t.size, from |-> from, variants |-> variants]
    BY <1>3 DEF Thing
<1>6. Filled(t, ref) \in Thing
    BY <1>1, <1>2, <1>4, <1>5 DEF Thing
<1>. QED BY <1>5, <1>6 DEF ids, from

(* Everything has the type it should have.                                 *)
LEMMA TypeInit == Init => TypeOK
<1>. SUFFICES ASSUME Init PROVE TypeOK
    OBVIOUS
<1>1. order \in [Oses -> Seq(Refs)]
  <2>1. ASSUME NEW os \in Oses
        PROVE  order[os] \in Seq(Refs)
    <3>. DEFINE R == RefsOf(os, thing.kind)
    <3>1. R \in SUBSET Refs
      BY DEF RefsOf
    <3>2. IsFiniteSet(R)
      BY <3>1, RefsAssumption, FS_Subset
    <3>3. order[os] \in Arrangements(R)
      BY DEF Init
    <3>. HIDE DEF R
    <3>4. order[os] \in Seq(R)
      BY <3>2, <3>3, ArrangementCorrect
    <3>. QED BY <3>1, <3>4
  <2>2. order = [os \in Oses |-> order[os]]
    BY DEF Init
  <2>. QED BY <2>1, <2>2
<1>2. thing \in Thing
    BY ThingsAssumption DEF Init
<1>3. /\ db = <<>> /\ call = "none" /\ pass = 1 /\ oses = <<>> /\ refs = <<>>
      /\ inside = FALSE /\ have = FALSE /\ use = TRUE /\ grown = FALSE
      /\ matched = <<>> /\ fallback = <<>> /\ last = None
    BY DEF Init
<1>4. \A S : <<>> \in Seq(S)
    OBVIOUS
<1>5. {inside, have, use, grown} \subseteq BOOLEAN
    BY <1>3
<1>. QED BY <1>1, <1>2, <1>3, <1>4, <1>5 DEF TypeOK

LEMMA TypeStep ==
    ASSUME TypeOK, call # "none" => LoopsOK, [Next]_vars
    PROVE  TypeOK'
<1>. USE DEF TypeOK, loopVars
<1>1. ASSUME NEW os \in Oses, AddOs(os) PROVE TypeOK'
  <2>. DEFINE S == {db[i] : i \in 1..Len(db)} \cup {os}
  <2>1. S \in SUBSET Oses
    OBVIOUS
  <2>2. IsFiniteSet(S)
    BY <2>1, OsesAssumption, FS_Subset
  <2>3. db' \in Arrangements(S)
    BY <1>1 DEF AddOs
  <2>. HIDE DEF S
  <2>4. db' \in Seq(Oses)
    BY <2>1, <2>2, <2>3, ArrangementCorrect
  <2>. QED BY <1>1, <2>4 DEF AddOs
<1>2. ASSUME NEW c \in {"identify", "list"}, Begin(c) PROVE TypeOK'
    BY <1>2 DEF Begin
<1>3. ASSUME TakeOs PROVE TypeOK'
  <2>1. Head(oses) \in Oses
    BY <1>3 DEF TakeOs
  <2>2. Examined(Head(oses)) \in Seq(Refs)
    BY <2>1, ExaminedCorrect
  <2>. QED BY <1>3, <2>2 DEF TakeOs
<1>4. ASSUME Defer PROVE TypeOK'
    BY <1>4 DEF Defer, InnerLoop
<1>5. ASSUME Differs PROVE TypeOK'
    BY <1>5 DEF Differs, Compared, InnerLoop
<1>6. ASSUME Hit PROVE TypeOK'
  <2>1. refs # <<>>
    BY <1>6 DEF Hit, Compared, InnerLoop
  <2>2. Tail(refs) \in Seq(Refs) /\ Append(matched, Head(refs)) \in Seq(Refs) /\ <<>> \in Seq(Refs)
    BY <2>1
  <2>3. {inside', have', use', grown'} \subseteq BOOLEAN
    BY <1>6 DEF Hit
  <2>. QED BY <1>6, <2>2, <2>3 DEF Hit
<1>7. ASSUME LeaveOs PROVE TypeOK'
  <2>1. oses # <<>>
    BY <1>7 DEF LeaveOs, LoopsOK, Idle
  <2>2. /\ <<Head(oses)>> \o fallback \in Seq(Oses)
        /\ Tail(oses) \in Seq(Oses) /\ <<>> \in Seq(Oses)
    BY <2>1
  <2>3. {inside', have', use', grown'} \subseteq BOOLEAN
    BY <1>7 DEF LeaveOs
  <2>. QED BY <1>7, <2>2, <2>3 DEF LeaveOs
<1>8. ASSUME SecondPass PROVE TypeOK'
    BY <1>8 DEF SecondPass
<1>9. ASSUME Return PROVE TypeOK'
  <2>1. CASE OnlyFirst /\ matched # <<>>
    <3>1. matched[1] \in Refs
      BY <2>1
    <3>2. thing' \in Thing
      BY <1>9, <2>1, <3>1, FilledType DEF Return
    <3>. QED BY <1>9, <2>1, <3>1, <3>2 DEF Return
  <2>2. CASE ~(OnlyFirst /\ matched # <<>>)
    BY <1>9, <2>2 DEF Return
  <2>. QED BY <2>1, <2>2
<1>10. CASE UNCHANGED vars
    BY <1>10 DEF vars
<1>. QED BY <1>1, <1>2, <1>3, <1>4, <1>5, <1>6, <1>7, <1>8, <1>9, <1>10 DEF Next, Search

(* The tables are right from the beginning, and never change but for an OS *)
(* that is added.                                                          *)
LEMMA TablesInit == Init => TablesOK
<1>. SUFFICES ASSUME Init PROVE TablesOK
    OBVIOUS
<1>1. Distinct(db)
    BY DEF Init, Distinct
<1>2. ASSUME NEW os \in Oses
      PROVE  Distinct(order[os]) /\ Elems(order[os]) = RefsOf(os, thing.kind)
  <2>. DEFINE R == RefsOf(os, thing.kind)
  <2>1. IsFiniteSet(R)
    <3>1. R \in SUBSET Refs
      BY DEF RefsOf
    <3>. QED BY <3>1, RefsAssumption, FS_Subset
  <2>2. order[os] \in Arrangements(R)
    BY DEF Init
  <2>. HIDE DEF R
  <2>3. Elems(order[os]) = R /\ Distinct(order[os])
    BY <2>1, <2>2, ArrangementCorrect
  <2>. QED BY <2>3 DEF R
<1>. QED BY <1>1, <1>2 DEF TablesOK

LEMMA AddOsAdds ==
    ASSUME TypeOK, TablesOK, NEW os \in Oses, AddOs(os)
    PROVE  TablesOK'
<1>. DEFINE S == {db[i] : i \in 1..Len(db)} \cup {os}
<1>1. S \in SUBSET Oses
    BY DEF TypeOK
<1>2. IsFiniteSet(S)
    BY <1>1, OsesAssumption, FS_Subset
<1>3. db' \in Arrangements(S)
    BY DEF AddOs
<1>. HIDE DEF S
<1>4. Distinct(db')
    BY <1>2, <1>3, ArrangementCorrect
<1>5. order' = order /\ thing' = thing
    BY DEF AddOs
<1>6. ASSUME NEW o \in Oses
      PROVE  Distinct(order'[o]) /\ Elems(order'[o]) = RefsOf(o, thing'.kind)
    BY <1>5 DEF TablesOK
<1>. QED BY <1>4, <1>6 DEF TablesOK, RefsOf

(* What a step of a call leaves alone.                                     *)
LEMMA CallStep ==
    ASSUME Search \/ (\E c \in {"identify", "list"} : Begin(c))
    PROVE  /\ db' = db /\ order' = order /\ grown' = grown
           /\ ~Return => thing' = thing /\ last' = last
           /\ Search => ~Idle
           /\ Search /\ ~Return => call' = call
    BY DEF Search, Begin, TakeOs, Defer, Differs, Hit, LeaveOs, SecondPass, Return, OuterLoop,
           InnerLoop, Compared, Ended, Idle

LEMMA KindKept ==
    ASSUME TypeOK, [Next]_vars
    PROVE  thing'.kind = thing.kind /\ order' = order
<1>1. CASE \E os \in Oses : AddOs(os)
    BY <1>1 DEF AddOs
<1>2. CASE Return
  <2>1. CASE OnlyFirst /\ matched # <<>>
    <3>1. thing' = Filled(thing, matched[1])
      BY <1>2, <2>1 DEF Return
    <3>2. thing \in Thing /\ matched[1] \in Refs
      BY <2>1 DEF TypeOK
    <3>. QED BY <1>2, <3>1, <3>2, FilledType DEF Return
  <2>2. CASE ~(OnlyFirst /\ matched # <<>>)
    BY <1>2, <2>2 DEF Return
  <2>. QED BY <2>1, <2>2
<1>3. CASE (Search /\ ~Return) \/ (\E c \in {"identify", "list"} : Begin(c))
  <2>1. ~Return \/ thing' = thing
    BY <1>3 DEF Return, Begin, Idle, Ended, OuterLoop
  <2>. QED BY <1>3, <2>1, CallStep
<1>4. CASE UNCHANGED vars
    BY <1>4 DEF vars
<1>. QED BY <1>1, <1>2, <1>3, <1>4 DEF Next

LEMMA TablesStep ==
    ASSUME TypeOK, TablesOK, [Next]_vars
    PROVE  TablesOK'
<1>1. CASE \E os \in Oses : AddOs(os)
    BY <1>1, AddOsAdds
<1>2. CASE db' = db
  <2>1. thing'.kind = thing.kind /\ order' = order
    BY KindKept
  <2>2. ASSUME NEW o \in Oses
        PROVE  Distinct(order'[o]) /\ Elems(order'[o]) = RefsOf(o, thing'.kind)
    BY <2>1 DEF TablesOK
  <2>3. Distinct(db')
    BY <1>2 DEF TablesOK
  <2>. QED BY <2>2, <2>3 DEF TablesOK, RefsOf
<1>3. db' = db \/ \E os \in Oses : AddOs(os)
    BY CallStep DEF Next, vars
<1>. QED BY <1>1, <1>2, <1>3

-------------------------------------------------------------------------------
(* The loops                                                               *)

Inv == TypeOK /\ TablesOK /\ FoundOK /\ CallOK

(* The lists the loops have left.                                          *)
LEMMA OsesLeft ==
    ASSUME Inv
    PROVE  /\ Walked \in Seq(Oses) /\ Distinct(Walked) /\ Distinct(oses)
           /\ Elems(oses) \subseteq Elems(Walked) /\ Elems(Walked) \subseteq Elems(db)
           /\ Elems(db) \subseteq Oses
           /\ \A os : InDb(os) <=> os \in Elems(db)
           /\ oses # <<>> => /\ Head(oses) \in Oses /\ Tail(oses) \in Seq(Oses)
                             /\ Elems(oses) = {Head(oses)} \cup Elems(Tail(oses))
                             /\ Head(oses) \notin Elems(Tail(oses))
                             /\ \A os \in Elems(Tail(oses)) : Precedes(Walked, Head(oses), os)
                             /\ \A os \in Elems(Walked) \ Elems(oses) :
                                   Precedes(Walked, os, Head(oses))
<1>1. db \in Seq(Oses) /\ fallback \in Seq(Oses) /\ oses \in Seq(Oses)
    BY DEF Inv, TypeOK
<1>2. Walked \in Seq(Oses) /\ Distinct(Walked)
    BY <1>1 DEF Inv, TablesOK, FoundOK, Walked
<1>3. Suffix(oses, Walked)
    BY DEF Inv, CallOK, LoopsOK
<1>. HIDE DEF Walked
<1>4. /\ Elems(oses) \subseteq Elems(Walked)
      /\ Distinct(oses)
      /\ oses # <<>> => /\ \A x \in Elems(Tail(oses)) : Precedes(Walked, Head(oses), x)
                        /\ \A x \in Elems(Walked) \ Elems(oses) : Precedes(Walked, x, Head(oses))
    BY <1>1, <1>2, <1>3, SuffixParts
<1>5. Elems(Walked) \subseteq Elems(db)
    BY DEF Inv, CallOK, FallbackOK, Walked
<1>6. Elems(db) \subseteq Oses
    BY <1>1 DEF Elems
<1>7. \A os : InDb(os) <=> os \in Elems(db)
    BY DEF InDb, Elems
<1>8. oses # <<>> => /\ Head(oses) \in Oses /\ Tail(oses) \in Seq(Oses)
                     /\ Elems(oses) = {Head(oses)} \cup Elems(Tail(oses))
                     /\ Head(oses) \notin Elems(Tail(oses))
    BY <1>1, <1>4, HeadAndTail
<1>. QED BY <1>2, <1>4, <1>5, <1>6, <1>7, <1>8

LEMMA RefsLeft ==
    ASSUME Inv, inside
    PROVE  /\ oses # <<>> /\ Head(oses) \in Oses
           /\ Elems(refs) \subseteq RefsOf(Head(oses), thing.kind)
           /\ Elems(Examined(Head(oses))) = RefsOf(Head(oses), thing.kind)
           /\ Examined(Head(oses)) \in Seq(Refs) /\ Distinct(Examined(Head(oses)))
           /\ refs # <<>> => /\ Head(refs) \in Refs /\ Tail(refs) \in Seq(Refs)
                             /\ Elems(refs) = {Head(refs)} \cup Elems(Tail(refs))
                             /\ Head(refs) \notin Elems(Tail(refs))
                             /\ \A r \in Elems(Tail(refs)) :
                                   Precedes(Examined(Head(oses)), Head(refs), r)
<1>. DEFINE os == Head(oses)
<1>1. oses # <<>> /\ Suffix(refs, Examined(os))
    BY DEF Inv, CallOK, LoopsOK
<1>2. os \in Oses
    BY <1>1, OsesLeft
<1>. HIDE DEF os
<1>3. /\ Examined(os) \in Seq(Refs) /\ Distinct(Examined(os))
      /\ Elems(Examined(os)) = RefsOf(os, thing.kind)
    BY <1>2, ExaminedCorrect DEF Inv
<1>4. refs \in Seq(Refs)
    BY DEF Inv, TypeOK
<1>5. /\ Elems(refs) \subseteq Elems(Examined(os)) /\ Distinct(refs)
      /\ refs # <<>> => \A r \in Elems(Tail(refs)) : Precedes(Examined(os), Head(refs), r)
    BY <1>1, <1>3, <1>4, SuffixParts
<1>6. refs # <<>> => /\ Head(refs) \in Refs /\ Tail(refs) \in Seq(Refs)
                     /\ Elems(refs) = {Head(refs)} \cup Elems(Tail(refs))
                     /\ Head(refs) \notin Elems(Tail(refs))
    BY <1>4, <1>5, HeadAndTail
<1>. QED BY <1>1, <1>2, <1>3, <1>5, <1>6 DEF os

(* What depends on the tables, and the thing, only.                        *)
LEMMA Static ==
    ASSUME thing' = thing, db' = db, order' = order
    PROVE  /\ Candidates' = Candidates
           /\ \A os : Examined(os)' = Examined(os)
           /\ \A r : IsFallback(r)' <=> IsFallback(r)
           /\ \A r : First(r)' <=> First(r)
<1>1. Candidates' = Candidates
    BY DEF Candidates, InDb
<1>2. \A os : Examined(os)' = Examined(os)
    BY DEF Examined
<1>3. \A r : IsFallback(r)' <=> IsFallback(r)
    BY DEF IsFallback
<1>4. \A r, s : Earlier(r, s)' <=> Earlier(r, s)
    BY <1>2, <1>3 DEF Earlier
<1>. QED BY <1>1, <1>2, <1>3, <1>4 DEF First

(* Where the loops are, after each step.                                   *)
LEMMA LoopsStep ==
    ASSUME Inv, Search, ~Return
    PROVE  LoopsOK'
<1>. USE DEF Inv, CallOK, LoopsOK, Stopped, OnlyFirst, Idle, OuterLoop, InnerLoop
<1>0. /\ db \in Seq(Oses) /\ fallback \in Seq(Oses) /\ oses \in Seq(Oses) /\ refs \in Seq(Refs)
      /\ pass \in {1, 2}
    BY DEF TypeOK
<1>1. /\ \A os : Examined(os)' = Examined(os)
      /\ db' = db
    BY CallStep, Static
<1>2. /\ Walked \in Seq(Oses)
      /\ Suffix(oses, Walked)
    BY OsesLeft
<1>3. ASSUME TakeOs PROVE LoopsOK'
  <2>1. Walked' = Walked
    BY <1>3 DEF TakeOs, Walked
  <2>2. Suffix(refs', Examined(Head(oses')))
    <3>1. Head(oses) \in Oses /\ oses' = oses /\ refs' = Examined(Head(oses))
      BY <1>3, OsesLeft DEF TakeOs
    <3>2. Examined(Head(oses)) \in Seq(Refs)
      BY <3>1, ExaminedCorrect
    <3>. QED BY <3>1, <3>2, SuffixOfItself
  <2>. QED BY <1>1, <1>2, <1>3, <2>1, <2>2 DEF TakeOs
<1>4. ASSUME refs # <<>>, inside, refs' \in {<<>>, Tail(refs)}, inside' = inside, oses' = oses,
             pass' = pass, fallback' = fallback, have' = have \/ pass = 1,
             Stopped' => refs' = <<>> /\ ~use'
      PROVE  LoopsOK'
  <2>1. Walked' = Walked
    BY <1>1, <1>4 DEF Walked
  <2>2. Suffix(refs', Examined(Head(oses)))
    <3>1. Examined(Head(oses)) \in Seq(Refs) /\ Suffix(refs, Examined(Head(oses)))
      BY <1>4, RefsLeft
    <3>. QED BY <1>0, <1>4, <3>1, SuffixTail, SuffixOfItself
  <2>. QED BY <1>1, <1>2, <1>4, <2>1, <2>2
<1>5. ASSUME Defer PROVE LoopsOK'
    BY <1>4, <1>5 DEF Defer
<1>6. ASSUME Differs PROVE LoopsOK'
    BY <1>4, <1>6 DEF Differs, Compared
<1>7. ASSUME Hit PROVE LoopsOK'
    BY <1>4, <1>7 DEF Hit, Compared
<1>8. ASSUME LeaveOs PROVE LoopsOK'
  <2>1. Walked' = Walked
    <3>1. pass # 1 => fallback' = fallback
      BY <1>0, <1>8 DEF LeaveOs
    <3>2. pass' = pass
      BY <1>8 DEF LeaveOs
    <3>. QED BY <1>1, <3>1, <3>2 DEF Walked
  <2>2. oses' \in {<<>>, Tail(oses)} /\ oses # <<>>
    BY <1>8 DEF LeaveOs
  <2>3. Suffix(oses', Walked)
    BY <1>0, <1>2, <2>2, SuffixTail, SuffixOfItself
  <2>. QED BY <1>1, <1>8, <2>1, <2>3 DEF LeaveOs
<1>9. ASSUME SecondPass PROVE LoopsOK'
  <2>1. Walked' = fallback /\ oses' = fallback /\ inside' = FALSE
    BY <1>9 DEF SecondPass, Walked, Ended
  <2>2. ~Stopped'
    BY <1>9 DEF SecondPass, Again
  <2>. QED BY <1>0, <2>1, <2>2, SuffixOfItself
<1>. QED BY <1>3, <1>5, <1>6, <1>7, <1>8, <1>9 DEF Search

(* A step of the inner loop takes the head; what was ahead and is not any  *)
(* more is that.                                                           *)
InnerStep == /\ inside /\ refs # <<>>
             /\ refs' \in {Tail(refs), <<>>}
             /\ UNCHANGED <<db, order, thing, call, pass, oses, inside, fallback, last, grown>>

LEMMA InnerSteps ==
    ASSUME Inv, Defer \/ Differs \/ Hit
    PROVE  /\ InnerStep
           /\ Hit => Stopped' \/ refs' = Tail(refs)
           /\ ~Hit => matched' = matched /\ use' = use /\ refs' = Tail(refs)
           /\ ~Defer => have' = have
    BY DEF Defer, Differs, Hit, Compared, InnerLoop, InnerStep, Stopped, OnlyFirst

(* What is ahead after each step.                                          *)
LEMMA AheadInside ==
    ASSUME Inv, InnerStep
    PROVE  /\ \A r : Ahead(r)' => Ahead(r)
           /\ \A r : r = Head(refs) => ~Ahead(r)'
           /\ refs' = Tail(refs) => \A r : Ahead(r) => Ahead(r)' \/ r = Head(refs)
           /\ Head(refs) \in RefsOf(Head(oses), thing.kind)
           /\ Ahead(Head(refs))
<1>1. /\ Elems(refs) = {Head(refs)} \cup Elems(Tail(refs))
      /\ Head(refs) \notin Elems(Tail(refs))
      /\ Elems(refs) \subseteq RefsOf(Head(oses), thing.kind)
      /\ oses # <<>>
    BY RefsLeft DEF InnerStep
<1>2. OsesAhead = Elems(Tail(oses)) /\ OsesAhead' = OsesAhead /\ Head(oses) \notin OsesAhead
    BY <1>1, OsesLeft DEF InnerStep, OsesAhead
<1>3. Elems(refs') \subseteq Elems(Tail(refs))
    BY DEF InnerStep, Elems
<1>4. Ref[Head(refs)].os = Head(oses)
    BY <1>1 DEF RefsOf
<1>. HIDE DEF OsesAhead
<1>5. \A r : Ahead(r) <=> r \in Elems(refs) \/ Ref[r].os \in OsesAhead
    BY DEF Ahead, InnerStep
<1>6. \A r : Ahead(r)' <=> r \in Elems(refs') \/ Ref[r].os \in OsesAhead
    BY <1>2 DEF Ahead, InnerStep
<1>7. \A r : Ahead(r)' => Ahead(r)
    BY <1>1, <1>3, <1>5, <1>6
<1>8. \A r : r = Head(refs) => ~Ahead(r)'
    BY <1>1, <1>2, <1>3, <1>4, <1>6
<1>9. refs' = Tail(refs) => \A r : Ahead(r) => Ahead(r)' \/ r = Head(refs)
    BY <1>1, <1>5, <1>6
<1>. QED BY <1>1, <1>5, <1>7, <1>8, <1>9

LEMMA AheadTaken ==
    ASSUME Inv, TakeOs
    PROVE  /\ \A r : Ahead(r)' => Ahead(r)
           /\ \A r \in Candidates : Ahead(r) => Ahead(r)'
           /\ \A r : Ref[r].os = Head(oses) => Ahead(r)
<1>1. /\ ~inside /\ inside' = TRUE /\ oses # <<>> /\ oses' = oses
      /\ refs' = Examined(Head(oses))
    BY DEF TakeOs, OuterLoop
<1>2. /\ Elems(oses) = {Head(oses)} \cup Elems(Tail(oses)) /\ Head(oses) \in Oses
    BY <1>1, OsesLeft
<1>3. OsesAhead = Elems(oses) /\ OsesAhead' = Elems(Tail(oses))
    BY <1>1 DEF OsesAhead
<1>4. Elems(refs') = RefsOf(Head(oses), thing.kind)
    BY <1>1, <1>2, ExaminedCorrect DEF Inv
<1>. HIDE DEF OsesAhead
<1>5. \A r : Ahead(r) <=> Ref[r].os \in OsesAhead
    BY <1>1 DEF Ahead
<1>6. \A r : Ahead(r)' <=> r \in Elems(refs') \/ Ref[r].os \in OsesAhead'
    BY <1>1 DEF Ahead
<1>. QED BY <1>2, <1>3, <1>4, <1>5, <1>6 DEF RefsOf, Candidates

LEMMA AheadLeft ==
    ASSUME Inv, LeaveOs
    PROVE  /\ \A r : Ahead(r)' => Ahead(r)
           /\ ~Stopped => \A r : Ahead(r) <=> Ahead(r)'
           /\ \A r : Ref[r].os = Head(oses) => ~Ahead(r)
           /\ oses # <<>> /\ Head(oses) \in Oses /\ Head(oses) \notin Elems(oses')
<1>1. inside /\ inside' = FALSE /\ refs = <<>> /\ oses' \in {<<>>, Tail(oses)}
      /\ (~Stopped => oses' = Tail(oses))
    BY DEF LeaveOs, Stopped
<1>2. oses # <<>> /\ Head(oses) \in Oses /\ Head(oses) \notin Elems(Tail(oses))
    BY <1>1, OsesLeft, RefsLeft
<1>3. OsesAhead = Elems(Tail(oses)) /\ OsesAhead' = Elems(oses')
    BY <1>1 DEF OsesAhead
<1>4. Elems(refs) = {} /\ Elems(oses') \subseteq Elems(Tail(oses))
  <2>1. Elems(<<>>) = {}
    BY DEF Elems
  <2>. QED BY <1>1, <2>1
<1>. HIDE DEF OsesAhead
<1>5. \A r : Ahead(r) <=> Ref[r].os \in OsesAhead
    BY <1>1, <1>4 DEF Ahead
<1>6. \A r : Ahead(r)' <=> Ref[r].os \in OsesAhead'
    BY <1>1 DEF Ahead
<1>. QED BY <1>1, <1>2, <1>3, <1>4, <1>5, <1>6

(* When the first pass ends nothing is ahead, and in the second the        *)
(* references of the fallbacks are.                                        *)
LEMMA AheadAgain ==
    ASSUME Inv, SecondPass
    PROVE  /\ \A r : ~Ahead(r) /\ (Ahead(r)' <=> Ref[r].os \in Elems(fallback))
           /\ ~Stopped /\ pass = 1 /\ (OnlyFirst => matched = <<>>)
<1>1. /\ ~inside /\ inside' = inside /\ oses = <<>> /\ oses' = fallback
      /\ pass = 1 /\ (OnlyFirst => matched = <<>>)
    BY DEF SecondPass, Ended, OuterLoop, Again
<1>2. OsesAhead = {} /\ OsesAhead' = Elems(fallback)
    BY <1>1 DEF OsesAhead, Elems
<1>. QED BY <1>1, <1>2 DEF Ahead, Stopped

-------------------------------------------------------------------------------
(* The fallbacks                                                           *)

(* An OS left with a fallback and no match is put first.                   *)
LEMMA LeftAsFallback ==
    ASSUME Inv, LeaveOs, fallback' # fallback
    PROVE  /\ fallback' = <<Head(oses)>> \o fallback
           /\ use /\ have /\ pass = 1 /\ ~Stopped
           /\ Head(oses) \notin Elems(fallback) /\ Head(oses) \in Elems(db)
           /\ \A r \in Elems(matched) : Ref[r].os # Head(oses)
           /\ \A r \in Candidates : Ref[r].os = Head(oses) => IsFallback(r)
<1>1. fallback' = <<Head(oses)>> \o fallback /\ use /\ have /\ inside
    BY DEF LeaveOs
<1>2. pass = 1 /\ ~Stopped
    BY <1>1 DEF Inv, CallOK, LoopsOK, TypeOK
<1>3. Head(oses) \in Elems(oses) /\ Head(oses) \in Elems(db)
    BY <1>1, OsesLeft, RefsLeft
<1>4. Head(oses) \notin Elems(fallback)
    BY <1>2, <1>3 DEF Inv, CallOK, FallbackOK
<1>5. \A r \in Elems(matched) : Ref[r].os # Head(oses)
    BY <1>1, <1>2 DEF Inv, CallOK, MatchedOK
<1>6. ASSUME NEW r \in Candidates, Ref[r].os = Head(oses), ~IsFallback(r)
      PROVE  FALSE
  <2>1. IsMatched(r) \/ Ahead(r)
    BY <1>2, <1>6 DEF Inv, CallOK, PreferredAhead
  <2>2. ~Ahead(r)
    BY <1>6, AheadLeft
  <2>3. r \in Elems(matched)
    BY <2>1, <2>2 DEF IsMatched, Elems
  <2>. QED BY <1>5, <1>6, <2>3
<1>. QED BY <1>1, <1>2, <1>3, <1>4, <1>5, <1>6

(* With it the fallbacks are still in the reverse order.                   *)
LEMMA FallbackPut ==
    ASSUME Inv, LeaveOs, fallback' # fallback
    PROVE  /\ Elems(fallback') = {Head(oses)} \cup Elems(fallback)
           /\ Distinct(fallback')
           /\ \A i, j \in 1..Len(fallback') : i < j => Precedes(db, fallback'[j], fallback'[i])
<1>. DEFINE os == Head(oses)
<1>1. /\ fallback' = <<os>> \o fallback /\ os \notin Elems(fallback) /\ pass = 1 /\ os \in Oses
      /\ fallback \in Seq(Oses) /\ Distinct(fallback)
    BY LeftAsFallback, AheadLeft DEF Inv, TypeOK, FoundOK
<1>. HIDE DEF os
<1>2. /\ Len(fallback') = Len(fallback) + 1
      /\ fallback'[1] = os
      /\ \A i \in 1..Len(fallback) : fallback'[i + 1] = fallback[i]
      /\ Elems(fallback') = {os} \cup Elems(fallback)
      /\ Distinct(fallback')
    BY <1>1, PutFirst
<1>3. ASSUME NEW x \in Elems(fallback) PROVE Precedes(db, x, os)
  <2>1. x \in Elems(db) /\ x \notin Elems(oses)
    BY <1>1 DEF Inv, CallOK, FallbackOK
  <2>. QED BY <1>1, <2>1, OsesLeft, AheadLeft DEF os, Walked
<1>4. ASSUME NEW i \in 1..Len(fallback'), NEW j \in 1..Len(fallback'), i < j
      PROVE  Precedes(db, fallback'[j], fallback'[i])
  <2>1. Len(fallback) \in Nat
    BY <1>1
  <2>2. j - 1 \in 1..Len(fallback) /\ fallback'[j] = fallback[j - 1]
    <3>1. j - 1 \in 1..Len(fallback) /\ (j - 1) + 1 = j
      BY <1>2, <1>4, <2>1
    <3>. QED BY <1>2, <3>1
  <2>3. CASE i = 1
    <3>1. fallback[j - 1] \in Elems(fallback)
      BY <2>2 DEF Elems
    <3>. QED BY <1>2, <1>3, <2>2, <2>3, <3>1
  <2>4. CASE i # 1
    <3>1. i - 1 \in 1..Len(fallback) /\ (i - 1) + 1 = i /\ i - 1 < j - 1
      BY <1>2, <1>4, <2>1, <2>4
    <3>2. fallback'[i] = fallback[i - 1]
      BY <1>2, <3>1
    <3>. QED BY <2>2, <3>1, <3>2 DEF Inv, CallOK, FallbackOK
  <2>. QED BY <2>3, <2>4
<1>. QED BY <1>2, <1>4 DEF os

LEMMA FallbackStep ==
    ASSUME Inv, Search, ~Return
    PROVE  FallbackOK'
<1>1. /\ Candidates' = Candidates /\ \A r : IsFallback(r)' <=> IsFallback(r)
      /\ db' = db
    BY CallStep, Static
<1>. USE DEF Inv, CallOK
<1>2. CASE fallback' = fallback /\ (pass' = 1 => pass = 1 /\ Elems(oses') \subseteq Elems(oses))
    BY <1>1, <1>2 DEF FallbackOK
<1>3. ASSUME TakeOs \/ Defer \/ Differs \/ Hit PROVE FallbackOK'
  <2>1. fallback' = fallback /\ pass' = pass /\ oses' = oses
    BY <1>3 DEF TakeOs, Defer, Differs, Hit
  <2>. QED BY <1>2, <2>1
<1>4. ASSUME LeaveOs PROVE FallbackOK'
  <2>1. pass' = pass /\ oses' \in {<<>>, Tail(oses)}
    BY <1>4 DEF LeaveOs
  <2>2. Elems(oses') \subseteq Elems(oses)
    <3>1. Elems(Tail(oses)) \subseteq Elems(oses)
      BY <1>4, AheadLeft, OsesLeft
    <3>2. Elems(<<>>) = {}
      BY DEF Elems
    <3>. QED BY <2>1, <3>1, <3>2
  <2>3. CASE fallback' # fallback
    <3>1. /\ Elems(fallback') = {Head(oses)} \cup Elems(fallback)
          /\ \A i, j \in 1..Len(fallback') : i < j => Precedes(db, fallback'[j], fallback'[i])
          /\ Head(oses) \in Elems(db)
          /\ \A r \in Candidates : Ref[r].os = Head(oses) => IsFallback(r)
          /\ Head(oses) \notin Elems(oses')
      BY <1>4, <2>3, FallbackPut, LeftAsFallback, AheadLeft
    <3>2. /\ Elems(fallback) \subseteq Elems(db)
          /\ pass = 1 => Elems(fallback) \cap Elems(oses) = {}
          /\ \A r \in Candidates : Ref[r].os \in Elems(fallback) => IsFallback(r)
      BY DEF FallbackOK
    <3>3. Elems(fallback') \subseteq Elems(db')
      BY <1>1, <3>1, <3>2
    <3>4. pass' = 1 => Elems(fallback') \cap Elems(oses') = {}
      BY <2>1, <2>2, <3>1, <3>2
    <3>5. \A r \in Candidates' : Ref[r].os \in Elems(fallback') => IsFallback(r)'
      BY <1>1, <3>1, <3>2
    <3>. QED BY <1>1, <3>1, <3>3, <3>4, <3>5 DEF FallbackOK
  <2>. QED BY <1>2, <2>1, <2>2, <2>3
<1>5. ASSUME SecondPass PROVE FallbackOK'
    BY <1>2, <1>5 DEF SecondPass
<1>. QED BY <1>3, <1>4, <1>5 DEF Search

-------------------------------------------------------------------------------
(* What is matched                                                         *)

LEMMA IsMatchedElem == \A r : IsMatched(r) <=> r \in Elems(matched)
    BY DEF IsMatched, Elems

(* What is hit is a candidate, not matched before; in the first pass a     *)
(* preferred one, in the second a fallback.                                *)
LEMMA HitFacts ==
    ASSUME Inv, Hit
    PROVE  /\ ~Stopped /\ (Stopped' <=> OnlyFirst)
           /\ Head(refs) \in Candidates /\ Head(refs) \notin Elems(matched)
           /\ Ref[Head(refs)].os = Head(oses)
           /\ IsFallback(Head(refs)) <=> pass = 2
           /\ pass = 2 => Head(oses) \in Elems(fallback)
           /\ pass = 1 => Head(oses) \notin Elems(fallback)
           /\ Len(matched') = Len(matched) + 1
           /\ matched'[Len(matched) + 1] = Head(refs)
           /\ \A i \in 1..Len(matched) : matched'[i] = matched[i]
           /\ Elems(matched') = Elems(matched) \cup {Head(refs)}
           /\ Distinct(matched')
<1>. DEFINE h == Head(refs)
<1>. USE DEF Inv, CallOK
<1>1. inside /\ refs # <<>> /\ matched' = Append(matched, h) /\ Matches(thing, h) /\ call' = call
      /\ (pass = 2 \/ ~IsFallback(h))
    BY DEF Hit, Compared, InnerLoop
<1>2. ~Stopped
    BY <1>1 DEF LoopsOK
<1>3. h \in RefsOf(Head(oses), thing.kind) /\ Ahead(h)
    BY InnerSteps, AheadInside
<1>4. Head(oses) \in Elems(oses) /\ Head(oses) \in Elems(db) /\ Head(oses) \in Elems(Walked)
    BY <1>1, OsesLeft, RefsLeft
<1>5. h \in Refs /\ h \in Candidates /\ Ref[h].os = Head(oses)
    BY <1>1, <1>3, <1>4, OsesLeft DEF Candidates, RefsOf
<1>6. h \notin Elems(matched)
    BY <1>3 DEF MatchedOK
<1>7. matched \in Seq(Refs) /\ Distinct(matched) /\ pass \in {1, 2}
    BY DEF TypeOK, FoundOK
<1>8. pass = 2 => Head(oses) \in Elems(fallback) /\ IsFallback(h)
    BY <1>4, <1>5 DEF FallbackOK, Walked
<1>9. pass = 1 => Head(oses) \notin Elems(fallback)
    BY <1>4 DEF FallbackOK
<1>. HIDE DEF h
<1>10. /\ Len(matched') = Len(matched) + 1
       /\ matched'[Len(matched) + 1] = h
       /\ \A i \in 1..Len(matched) : matched'[i] = matched[i]
       /\ Elems(matched') = Elems(matched) \cup {h}
       /\ Distinct(matched')
    BY <1>1, <1>5, <1>6, <1>7, PutLast
<1>11. matched' # <<>>
    BY <1>1, <1>5, <1>7
<1>12. Stopped' <=> OnlyFirst
    BY <1>1, <1>11 DEF Stopped, OnlyFirst
<1>13. IsFallback(h) <=> pass = 2
    BY <1>1, <1>7, <1>8
<1>. QED BY <1>2, <1>5, <1>6, <1>8, <1>9, <1>10, <1>12, <1>13 DEF h

LEMMA MatchedStep ==
    ASSUME Inv, Search, ~Return
    PROVE  MatchedOK'
<1>1. Candidates' = Candidates /\ call' = call
    BY CallStep, Static
<1>. USE DEF Inv, CallOK
<1>2. /\ \A r \in Elems(matched) : r \in Candidates /\ ~Ahead(r)
      /\ OnlyFirst => Len(matched) \leq 1
      /\ inside /\ pass = 1 => (use <=> \A r \in Elems(matched) : Ref[r].os # Head(oses))
    BY DEF MatchedOK
<1>3. ASSUME matched' = matched, \A r : Ahead(r)' => Ahead(r),
             inside' /\ pass' = 1 => (use' <=> \A r \in Elems(matched) : Ref[r].os # Head(oses'))
      PROVE  MatchedOK'
    BY <1>1, <1>2, <1>3 DEF MatchedOK, OnlyFirst
<1>4. ASSUME TakeOs PROVE MatchedOK'
  <2>1. /\ matched' = matched /\ use' = TRUE /\ oses' = oses
        /\ \A r \in Elems(matched) : Ref[r].os # Head(oses)
    BY <1>2, <1>4, AheadTaken DEF TakeOs
  <2>. QED BY <1>3, <1>4, <2>1, AheadTaken
<1>5. ASSUME Defer \/ Differs PROVE MatchedOK'
  <2>1. /\ matched' = matched /\ use' = use /\ oses' = oses /\ inside' = inside /\ pass' = pass
    BY <1>5 DEF Defer, Differs
  <2>. QED BY <1>2, <1>3, <1>5, <2>1, AheadInside, InnerSteps
<1>6. ASSUME Hit PROVE MatchedOK'
  <2>1. /\ Elems(matched') = Elems(matched) \cup {Head(refs)}
        /\ Head(refs) \in Candidates
        /\ Ref[Head(refs)].os = Head(oses)
        /\ Len(matched') = Len(matched) + 1
        /\ ~Stopped
    BY <1>6, HitFacts
  <2>2. \A r : Ahead(r)' => Ahead(r) /\ r # Head(refs)
    BY <1>6, AheadInside, InnerSteps
  <2>3. \A r \in Elems(matched') : r \in Candidates' /\ ~Ahead(r)'
    BY <1>1, <1>2, <2>1, <2>2
  <2>4. OnlyFirst' => Len(matched') \leq 1
    <3>1. OnlyFirst => Len(matched) = 0
      BY <2>1 DEF Stopped, TypeOK
    <3>. QED BY <1>1, <2>1, <3>1 DEF OnlyFirst
  <2>5. use' = FALSE /\ oses' = oses
    BY <1>6 DEF Hit
  <2>6. ~\A r \in Elems(matched') : Ref[r].os # Head(oses')
    BY <2>1, <2>5
  <2>. QED BY <2>3, <2>4, <2>5, <2>6 DEF MatchedOK
<1>7. ASSUME LeaveOs PROVE MatchedOK'
  <2>1. matched' = matched /\ inside' = FALSE
    BY <1>7 DEF LeaveOs
  <2>. QED BY <1>3, <1>7, <2>1, AheadLeft
<1>8. ASSUME SecondPass PROVE MatchedOK'
  <2>1. matched' = matched /\ inside' = FALSE /\ pass = 1
    BY <1>8 DEF SecondPass, Ended, OuterLoop, Again
  <2>2. \A r \in Elems(matched) : ~Ahead(r)'
    BY <1>8, <2>1, AheadAgain DEF FoundOK
  <2>. QED BY <1>1, <1>2, <2>1, <2>2 DEF MatchedOK, OnlyFirst
<1>. QED BY <1>4, <1>5, <1>6, <1>7, <1>8 DEF Search

(* What was found is found once, the preferred before the fallbacks.       *)
LEMMA FoundStep ==
    ASSUME Inv, Search, ~Return
    PROVE  FoundOK'
<1>1. \A r : IsFallback(r)' <=> IsFallback(r)
    BY CallStep, Static
<1>2. call' # "none"
    BY CallStep DEF Idle
<1>3. /\ Distinct(fallback) /\ Distinct(matched)
      /\ \A i, j \in 1..Len(matched) :
            i < j /\ IsFallback(matched[i]) => IsFallback(matched[j])
      /\ pass = 1 => \A r \in Elems(matched) :
                        ~IsFallback(r) /\ Ref[r].os \notin Elems(fallback)
    BY DEF Inv, FoundOK
<1>4. CASE matched' = matched /\ fallback' = fallback /\ (pass' = 1 => pass = 1)
    BY <1>1, <1>2, <1>3, <1>4 DEF FoundOK
<1>5. ASSUME TakeOs \/ Defer \/ Differs \/ SecondPass PROVE FoundOK'
    BY <1>4, <1>5 DEF TakeOs, Defer, Differs, SecondPass
<1>6. ASSUME LeaveOs, fallback' # fallback PROVE FoundOK'
  <2>1. matched' = matched /\ pass' = pass
    BY <1>6 DEF LeaveOs
  <2>2. /\ Elems(fallback') = {Head(oses)} \cup Elems(fallback)
        /\ Distinct(fallback')
        /\ \A r \in Elems(matched) : Ref[r].os # Head(oses)
    BY <1>6, FallbackPut, LeftAsFallback
  <2>3. pass' = 1 => \A r \in Elems(matched') :
                       ~IsFallback(r)' /\ Ref[r].os \notin Elems(fallback')
    BY <1>1, <1>3, <2>1, <2>2
  <2>. QED BY <1>1, <1>2, <1>3, <2>1, <2>2, <2>3 DEF FoundOK
<1>7. ASSUME LeaveOs, fallback' = fallback PROVE FoundOK'
    BY <1>4, <1>7 DEF LeaveOs
<1>8. ASSUME Hit PROVE FoundOK'
  <2>1. /\ Head(refs) \in Candidates
        /\ Ref[Head(refs)].os = Head(oses)
        /\ IsFallback(Head(refs)) <=> pass = 2
        /\ pass = 1 => Head(oses) \notin Elems(fallback)
        /\ Len(matched') = Len(matched) + 1
        /\ matched'[Len(matched) + 1] = Head(refs)
        /\ \A i \in 1..Len(matched) : matched'[i] = matched[i]
        /\ Elems(matched') = Elems(matched) \cup {Head(refs)}
        /\ Distinct(matched')
        /\ fallback' = fallback /\ pass' = pass /\ pass \in {1, 2}
    BY <1>8, HitFacts DEF Hit, Inv, TypeOK
  <2>2. ASSUME NEW i \in 1..Len(matched'), NEW j \in 1..Len(matched'),
               i < j, IsFallback(matched'[i])
        PROVE  IsFallback(matched'[j])
    <3>1. Len(matched) \in Nat
      BY DEF Inv, TypeOK
    <3>2. i \in 1..Len(matched) /\ matched'[i] = matched[i] /\ matched[i] \in Elems(matched)
      BY <2>1, <2>2, <3>1 DEF Elems
    <3>3. pass = 2
      BY <1>3, <2>1, <2>2, <3>2
    <3>4. CASE j = Len(matched) + 1
      BY <2>1, <3>3, <3>4
    <3>5. CASE j # Len(matched) + 1
      <4>1. j \in 1..Len(matched) /\ matched'[j] = matched[j]
        BY <2>1, <3>1, <3>5
      <4>. QED BY <1>3, <2>2, <3>2, <4>1
    <3>. QED BY <3>4, <3>5
  <2>3. pass' = 1 => \A r \in Elems(matched') :
                       ~IsFallback(r) /\ Ref[r].os \notin Elems(fallback')
    BY <1>3, <2>1
  <2>. QED BY <1>1, <1>2, <1>3, <2>1, <2>2, <2>3 DEF FoundOK
<1>. QED BY <1>5, <1>6, <1>7, <1>8 DEF Search

-------------------------------------------------------------------------------
(* Nothing is missed                                                       *)

LEMMA PreferredStep ==
    ASSUME Inv, Search, ~Return
    PROVE  PreferredAhead'
<1>1. /\ Candidates' = Candidates /\ call' = call
      /\ \A r : IsFallback(r)' <=> IsFallback(r)
    BY CallStep, Static
<1>2. /\ ~Stopped => \A r \in Candidates :
                        ~IsFallback(r) => IsMatched(r) \/ (pass = 1 /\ Ahead(r))
      /\ OnlyFirst /\ pass = 2 => \A r \in Candidates : IsFallback(r)
    BY DEF Inv, CallOK, PreferredAhead
<1>3. ASSUME pass' = pass, Stopped => Stopped', \A r : IsMatched(r) => IsMatched(r)',
             ~Stopped' /\ pass = 1 => \A r \in Candidates :
                ~IsFallback(r) /\ Ahead(r) => Ahead(r)' \/ IsMatched(r)'
      PROVE  PreferredAhead'
    BY <1>1, <1>2, <1>3 DEF PreferredAhead, OnlyFirst
<1>4. ASSUME TakeOs PROVE PreferredAhead'
  <2>1. pass' = pass /\ matched' = matched
    BY <1>4 DEF TakeOs
  <2>. QED BY <1>1, <1>3, <1>4, <2>1, AheadTaken DEF Stopped, OnlyFirst, IsMatched
<1>5. ASSUME Defer PROVE PreferredAhead'
  <2>1. pass' = pass /\ matched' = matched /\ IsFallback(Head(refs))
    BY <1>5 DEF Defer
  <2>2. \A r : Ahead(r) => Ahead(r)' \/ r = Head(refs)
    BY <1>5, AheadInside, InnerSteps DEF Hit, Defer, Compared
  <2>. QED BY <1>1, <1>3, <2>1, <2>2 DEF Stopped, OnlyFirst, IsMatched
<1>6. ASSUME Differs PROVE PreferredAhead'
  <2>1. pass' = pass /\ matched' = matched /\ Head(refs) \notin Candidates
    BY <1>6 DEF Differs, Candidates
  <2>2. \A r : Ahead(r) => Ahead(r)' \/ r = Head(refs)
    BY <1>6, AheadInside, InnerSteps DEF Hit, Differs
  <2>. QED BY <1>1, <1>3, <2>1, <2>2 DEF Stopped, OnlyFirst, IsMatched
<1>7. ASSUME Hit PROVE PreferredAhead'
  <2>1. /\ Elems(matched') = Elems(matched) \cup {Head(refs)} /\ pass' = pass /\ ~Stopped
    BY <1>7, HitFacts DEF Hit
  <2>2. \A r : IsMatched(r)' <=> r \in Elems(matched')
    BY DEF IsMatched, Elems
  <2>3. \A r : IsMatched(r) => IsMatched(r)'
    BY <2>1, <2>2, IsMatchedElem
  <2>4. ~Stopped' => \A r : Ahead(r) => Ahead(r)' \/ r = Head(refs)
    BY <1>7, AheadInside, InnerSteps
  <2>. QED BY <1>3, <2>1, <2>2, <2>3, <2>4
<1>8. ASSUME LeaveOs PROVE PreferredAhead'
  <2>1. pass' = pass /\ matched' = matched
    BY <1>8 DEF LeaveOs
  <2>2. Stopped' <=> Stopped
    BY <1>1, <2>1 DEF Stopped, OnlyFirst
  <2>. QED BY <1>3, <1>8, <2>1, <2>2, AheadLeft DEF IsMatched
<1>9. ASSUME SecondPass PROVE PreferredAhead'
  <2>1. matched' = matched /\ pass' = 2
    BY <1>9 DEF SecondPass
  <2>2. /\ ~Stopped /\ (OnlyFirst => matched = <<>>)
        /\ \A r : ~Ahead(r)
    BY <1>9, AheadAgain
  <2>3. \A r \in Candidates : ~IsFallback(r) => IsMatched(r)
    BY <1>2, <2>2
  <2>4. OnlyFirst => \A r \in Candidates : IsFallback(r)
    BY <2>2, <2>3 DEF IsMatched
  <2>. QED BY <1>1, <2>1, <2>3, <2>4 DEF PreferredAhead, OnlyFirst, IsMatched
<1>. QED BY <1>4, <1>5, <1>6, <1>7, <1>8, <1>9 DEF Search

(* An OS of which a preferred reference was matched.                       *)
HasMatch(r) == \E s \in Candidates : Ref[s].os = Ref[r].os /\ ~IsFallback(s) /\ IsMatched(s)

LEMMA FallbacksStep ==
    ASSUME Inv, Search, ~Return
    PROVE  FallbacksAhead'
<1>1. /\ Candidates' = Candidates /\ call' = call
      /\ \A r : IsFallback(r)' <=> IsFallback(r)
    BY CallStep, Static
<1>2. ~Stopped => \A r \in Candidates : IsFallback(r) =>
                     IsMatched(r) \/ Ahead(r) \/ (pass = 1 /\ Kept(Ref[r].os)) \/ HasMatch(r)
    BY DEF Inv, CallOK, FallbacksAhead, HasMatch
<1>3. FallbacksAhead' <=>
         (~Stopped' => \A r \in Candidates : IsFallback(r) =>
             IsMatched(r)' \/ Ahead(r)' \/ (pass' = 1 /\ Kept(Ref[r].os)') \/ HasMatch(r)')
    BY <1>1 DEF FallbacksAhead, HasMatch
<1>4. (\A r : IsMatched(r) => IsMatched(r)') => \A r : HasMatch(r) => HasMatch(r)'
    BY <1>1 DEF HasMatch
<1>5. ASSUME Stopped => Stopped', \A r : IsMatched(r) => IsMatched(r)',
             ~Stopped' => \A r \in Candidates :
                IsFallback(r) /\ (Ahead(r) \/ (pass = 1 /\ Kept(Ref[r].os))) =>
                IsMatched(r)' \/ Ahead(r)' \/ (pass' = 1 /\ Kept(Ref[r].os)') \/ HasMatch(r)'
      PROVE  FallbacksAhead'
    BY <1>2, <1>3, <1>4, <1>5
<1>. HIDE DEF HasMatch
<1>6. ASSUME matched' = matched PROVE /\ Stopped <=> Stopped'
                                      /\ \A r : IsMatched(r) <=> IsMatched(r)'
    BY <1>1, <1>6 DEF Stopped, OnlyFirst, IsMatched
<1>7. ASSUME TakeOs PROVE FallbacksAhead'
  <2>1. pass' = pass /\ matched' = matched /\ fallback' = fallback /\ ~inside
    BY <1>7 DEF TakeOs, OuterLoop
  <2>2. \A os : Kept(os) => Kept(os)'
    BY <2>1 DEF Kept
  <2>. QED BY <1>5, <1>6, <1>7, <2>1, <2>2, AheadTaken
<1>8. ASSUME Defer PROVE FallbacksAhead'
  <2>1. /\ pass' = pass /\ matched' = matched /\ fallback' = fallback
        /\ inside' = inside /\ oses' = oses /\ have' = TRUE /\ pass = 1 /\ inside
    BY <1>8 DEF Defer, InnerLoop
  <2>2. \A os : Kept(os) => Kept(os)'
    BY <2>1 DEF Kept
  <2>3. \A r : Ahead(r) => Ahead(r)' \/ r = Head(refs)
    BY <1>8, AheadInside, InnerSteps DEF Hit, Defer, Compared
  <2>4. Ref[Head(refs)].os = Head(oses)
    BY <1>8, AheadInside, InnerSteps DEF RefsOf
  <2>5. \A r : r = Head(refs) => Kept(Ref[r].os)'
    BY <2>1, <2>4 DEF Kept
  <2>. QED BY <1>5, <1>6, <2>1, <2>2, <2>3, <2>5
<1>9. ASSUME Differs PROVE FallbacksAhead'
  <2>1. /\ pass' = pass /\ matched' = matched /\ Head(refs) \notin Candidates
        /\ fallback' = fallback /\ inside' = inside /\ oses' = oses /\ have' = have
    BY <1>9 DEF Differs, Candidates
  <2>2. \A r : Ahead(r) => Ahead(r)' \/ r = Head(refs)
    BY <1>9, AheadInside, InnerSteps DEF Hit, Differs
  <2>3. \A os : Kept(os) => Kept(os)'
    BY <2>1 DEF Kept
  <2>. QED BY <1>5, <1>6, <2>1, <2>2, <2>3
<1>10. ASSUME Hit PROVE FallbacksAhead'
  <2>1. /\ Elems(matched') = Elems(matched) \cup {Head(refs)} /\ ~Stopped
    BY <1>10, HitFacts
  <2>2. /\ pass' = pass /\ fallback' = fallback /\ inside' = inside /\ oses' = oses
        /\ have' = have
    BY <1>10 DEF Hit
  <2>3. \A r : IsMatched(r)' <=> r \in Elems(matched')
    BY DEF IsMatched, Elems
  <2>4. \A r : IsMatched(r) => IsMatched(r)'
    BY <2>1, <2>3, IsMatchedElem
  <2>5. ~Stopped' => \A r : Ahead(r) => Ahead(r)' \/ r = Head(refs)
    BY <1>10, AheadInside, InnerSteps
  <2>6. \A os : Kept(os) => Kept(os)'
    BY <2>2 DEF Kept
  <2>. QED BY <1>5, <2>1, <2>2, <2>3, <2>4, <2>5, <2>6
<1>11. ASSUME LeaveOs PROVE FallbacksAhead'
  <2>1. pass' = pass /\ matched' = matched /\ inside
        /\ fallback' = IF use /\ have THEN <<Head(oses)>> \o fallback ELSE fallback
    BY <1>11 DEF LeaveOs
  <2>2. Elems(fallback) \subseteq Elems(fallback')
    BY <1>11, FallbackPut
  <2>3. \A os : os \in Elems(fallback') => Kept(os)'
    BY DEF Kept
  <2>4. ASSUME NEW r \in Candidates, pass = 1, Kept(Ref[r].os), Ref[r].os \notin Elems(fallback)
        PROVE  Kept(Ref[r].os)' \/ HasMatch(r)'
    <3>1. Ref[r].os = Head(oses) /\ have
      BY <2>4 DEF Kept
    <3>2. CASE use
      <4>1. fallback' = <<Head(oses)>> \o fallback
        BY <2>1, <3>1, <3>2
      <4>2. Head(oses) \in Oses /\ fallback \in Seq(Oses)
        BY <1>11, AheadLeft DEF Inv, TypeOK
      <4>3. Head(oses) \in Elems(fallback')
        BY <4>1, <4>2, PutFirst
      <4>4. Kept(Ref[r].os)'
        BY <2>3, <3>1, <4>3
      <4>. QED BY <4>4
    <3>3. CASE ~use
      <4>1. PICK s \in Elems(matched) : Ref[s].os = Head(oses)
        BY <2>1, <2>4, <3>3 DEF Inv, CallOK, MatchedOK
      <4>2. s \in Candidates /\ ~IsFallback(s) /\ IsMatched(s)
        BY <2>4, IsMatchedElem DEF Inv, CallOK, MatchedOK, FoundOK
      <4>3. IsMatched(s)' /\ ~IsFallback(s)'
        BY <1>1, <1>6, <2>1, <4>2
      <4>. QED BY <1>1, <3>1, <4>1, <4>2, <4>3 DEF HasMatch
    <3>. QED BY <3>2, <3>3
  <2>5. ASSUME NEW r \in Candidates, Kept(Ref[r].os), pass = 1
        PROVE  Kept(Ref[r].os)' \/ HasMatch(r)'
    <3>1. CASE Ref[r].os \in Elems(fallback)
      <4>1. Ref[r].os \in Elems(fallback')
        BY <2>2, <3>1
      <4>. QED BY <2>3, <4>1
    <3>2. CASE Ref[r].os \notin Elems(fallback)
      BY <2>4, <2>5, <3>2
    <3>. QED BY <3>1, <3>2
  <2>. QED BY <1>5, <1>6, <1>11, <2>1, <2>5, AheadLeft
<1>12. ASSUME SecondPass PROVE FallbacksAhead'
  <2>1. matched' = matched /\ pass' = 2 /\ ~inside
    BY <1>12 DEF SecondPass, Ended, OuterLoop
  <2>2. \A r : ~Ahead(r) /\ (Ahead(r)' <=> Ref[r].os \in Elems(fallback))
    BY <1>12, AheadAgain
  <2>3. \A os : Kept(os) <=> os \in Elems(fallback)
    BY <2>1 DEF Kept
  <2>. QED BY <1>5, <1>6, <2>1, <2>2, <2>3
<1>. QED BY <1>7, <1>8, <1>9, <1>10, <1>11, <1>12 DEF Search

-------------------------------------------------------------------------------
(* The order                                                               *)

(* What is ahead when a reference is hit comes later than that.            *)
LEMMA AheadLater ==
    ASSUME Inv, Hit, NEW s \in Candidates, s # Head(refs), Ahead(s),
           IsFallback(s) <=> IsFallback(Head(refs))
    PROVE  Earlier(Head(refs), s)
<1>. DEFINE h == Head(refs)
<1>1. inside /\ refs # <<>>
    BY InnerSteps DEF InnerStep
<1>2. Ref[h].os = Head(oses) /\ (IsFallback(h) <=> pass = 2)
    BY HitFacts
<1>3. CASE s \in Elems(refs)
  <2>1. Ref[s].os = Head(oses)
    BY <1>1, <1>3, RefsLeft DEF RefsOf
  <2>2. s \in Elems(Tail(refs))
    BY <1>1, <1>3, RefsLeft
  <2>3. Precedes(Examined(Head(oses)), h, s)
    BY <1>1, <2>2, RefsLeft
  <2>. HIDE DEF h
  <2>. QED BY <1>2, <2>1, <2>3 DEF Earlier, h
<1>4. CASE s \notin Elems(refs)
  <2>1. Ref[s].os \in Elems(Tail(oses))
    BY <1>1, <1>4 DEF Ahead, OsesAhead
  <2>2. oses # <<>>
    BY <1>1, RefsLeft
  <2>3. Precedes(Walked, Head(oses), Ref[s].os) /\ Ref[s].os # Head(oses)
    BY <2>1, <2>2, OsesLeft
  <2>4. CASE pass = 2
    <3>1. PICK i, j \in 1..Len(fallback) : i < j /\ fallback[i] = Head(oses) /\ fallback[j] = Ref[s].os
      BY <2>3, <2>4 DEF Walked, Precedes
    <3>2. Precedes(db, Ref[s].os, Head(oses))
      BY <3>1 DEF Inv, CallOK, FallbackOK
    <3>. HIDE DEF h
    <3>. QED BY <1>2, <2>3, <2>4, <3>2 DEF Earlier, h
  <2>5. CASE pass = 1
    <3>1. Precedes(db, Head(oses), Ref[s].os)
      BY <2>3, <2>5 DEF Walked
    <3>2. pass # 2
      BY <2>5
    <3>. HIDE DEF h
    <3>. QED BY <1>2, <2>3, <3>1, <3>2 DEF Earlier, h
  <2>. QED BY <2>4, <2>5 DEF Inv, TypeOK
<1>. QED BY <1>3, <1>4

(* The first that is hit is the first there is.                            *)
LEMMA HitFirst ==
    ASSUME Inv, Hit, OnlyFirst
    PROVE  First(Head(refs))
<1>. DEFINE h == Head(refs)
<1>1. /\ h \in Candidates /\ ~Stopped /\ matched = <<>>
      /\ IsFallback(h) <=> pass = 2
    BY HitFacts DEF Stopped
<1>2. \A s : ~IsMatched(s)
    BY <1>1 DEF IsMatched
<1>3. pass \in {1, 2}
    BY DEF Inv, TypeOK
<1>. SUFFICES ASSUME NEW s \in Candidates, s # h
              PROVE  Earlier(h, s)
    BY <1>1 DEF First
<1>4. CASE pass = 2
  <2>1. IsFallback(s)
    BY <1>4 DEF Inv, CallOK, PreferredAhead
  <2>2. Ahead(s)
    BY <1>1, <1>2, <1>4, <2>1 DEF Inv, CallOK, FallbacksAhead
  <2>. QED BY <1>1, <1>4, <2>1, <2>2, AheadLater
<1>5. CASE pass = 1 /\ ~IsFallback(s)
  <2>1. Ahead(s)
    BY <1>1, <1>2, <1>5 DEF Inv, CallOK, PreferredAhead
  <2>. QED BY <1>1, <1>5, <2>1, AheadLater
<1>6. CASE pass = 1 /\ IsFallback(s)
  <2>1. ~IsFallback(h)
    BY <1>1, <1>6
  <2>. QED BY <1>6, <2>1 DEF Earlier
<1>. QED BY <1>3, <1>4, <1>5, <1>6

(* What is hit comes after what was compared before it of the same OS.     *)
LEMMA HitInOrder ==
    ASSUME Inv, Hit, NEW r \in Candidates,
           Ref[r].os = Ref[Head(refs)].os, IsFallback(r) <=> IsFallback(Head(refs)),
           Precedes(Examined(Ref[r].os), r, Head(refs))
    PROVE  r \in Elems(matched)
<1>. DEFINE h == Head(refs)
<1>1. inside /\ refs # <<>>
    BY InnerSteps DEF InnerStep
<1>2. /\ Ref[h].os = Head(oses) /\ ~Stopped
      /\ IsFallback(h) <=> pass = 2
      /\ pass = 2 => Head(oses) \in Elems(fallback)
    BY HitFacts
<1>3. ~Ahead(r)
  <2>1. r \notin Elems(refs)
    <3>1. /\ Examined(Head(oses)) \in Seq(Refs) /\ Distinct(Examined(Head(oses)))
          /\ Elems(refs) = {h} \cup Elems(Tail(refs))
          /\ \A s \in Elems(Tail(refs)) : Precedes(Examined(Head(oses)), h, s)
      BY <1>1, RefsLeft
    <3>2. Precedes(Examined(Head(oses)), r, h)
      BY <1>2
    <3>. HIDE DEF h
    <3>3. r # h /\ ~Precedes(Examined(Head(oses)), h, r)
      BY <3>1, <3>2, PrecedesOneWay
    <3>. QED BY <3>1, <3>3
  <2>2. Ref[r].os \notin Elems(Tail(oses))
    BY <1>1, <1>2, OsesLeft, RefsLeft
  <2>. QED BY <1>1, <2>1, <2>2 DEF Ahead, OsesAhead
<1>4. IsMatched(r)
  <2>1. CASE ~IsFallback(r)
    BY <1>2, <1>3, <2>1 DEF Inv, CallOK, PreferredAhead
  <2>2. CASE IsFallback(r)
    <3>1. pass = 2 /\ Ref[r].os \in Elems(fallback)
      BY <1>2, <2>2
    <3>2. \A s \in Candidates : Ref[s].os = Ref[r].os => IsFallback(s)
      BY <3>1 DEF Inv, CallOK, FallbackOK
    <3>. QED BY <1>2, <1>3, <2>2, <3>1, <3>2 DEF Inv, CallOK, FallbacksAhead
  <2>. QED BY <2>1, <2>2
<1>. QED BY <1>4, IsMatchedElem

LEMMA OrderStep ==
    ASSUME Inv, Search, ~Return
    PROVE  OrderOK'
<1>1. /\ Candidates' = Candidates /\ call' = call
      /\ \A r : IsFallback(r)' <=> IsFallback(r)
      /\ \A r : First(r)' <=> First(r)
      /\ \A os : Examined(os)' = Examined(os)
    BY CallStep, Static
<1>. DEFINE InOrder(r, s) ==
              /\ Ref[r].os = Ref[s].os
              /\ (IsFallback(r) <=> IsFallback(s))
              /\ Precedes(Examined(Ref[r].os), r, s)
<1>2. \A r, s : InOrder(r, s)' <=> InOrder(r, s)
    BY <1>1
<1>3. /\ Stopped => First(matched[1])
      /\ \A r, s \in Candidates : \A j \in 1..Len(matched) :
            InOrder(r, s) /\ matched[j] = s => \E i \in 1..j : matched[i] = r
    BY DEF Inv, CallOK, OrderOK
<1>4. ASSUME Stopped' => First(matched'[1]),
             \A r, s \in Candidates : \A j \in 1..Len(matched') :
                InOrder(r, s) /\ matched'[j] = s => \E i \in 1..j : matched'[i] = r
      PROVE  OrderOK'
  <2>1. Stopped' => First(matched[1])'
    BY <1>1, <1>4 DEF First
  <2>2. \A r, s \in Candidates' : \A j \in 1..Len(matched') :
           InOrder(r, s)' /\ matched'[j] = s => \E i \in 1..j : matched'[i] = r
    BY <1>1, <1>2, <1>4
  <2>. QED BY <2>1, <2>2 DEF OrderOK
<1>. HIDE DEF InOrder
<1>5. CASE matched' = matched
  <2>1. Stopped' <=> Stopped
    BY <1>1, <1>5 DEF Stopped, OnlyFirst
  <2>. QED BY <1>3, <1>4, <1>5, <2>1
<1>6. CASE Hit
  <2>1. /\ ~Stopped /\ (Stopped' <=> OnlyFirst)
        /\ Len(matched') = Len(matched) + 1
        /\ matched'[Len(matched) + 1] = Head(refs)
        /\ \A i \in 1..Len(matched) : matched'[i] = matched[i]
        /\ Len(matched) \in Nat
    BY <1>6, HitFacts DEF Inv, TypeOK
  <2>2. ASSUME Stopped' PROVE First(matched'[1])
    <3>1. OnlyFirst /\ Len(matched) = 0
      BY <2>1, <2>2 DEF Stopped
    <3>. QED BY <1>6, <2>1, <3>1, HitFirst
  <2>3. ASSUME NEW r \in Candidates, NEW s \in Candidates, NEW j \in 1..Len(matched'),
               InOrder(r, s), matched'[j] = s
        PROVE  \E i \in 1..j : matched'[i] = r
    <3>1. CASE j \in 1..Len(matched)
      <4>1. matched[j] = s
        BY <2>1, <2>3, <3>1
      <4>2. PICK i \in 1..j : matched[i] = r
        BY <1>3, <2>3, <3>1, <4>1
      <4>3. i \in 1..Len(matched)
        BY <2>1, <3>1
      <4>. QED BY <2>1, <4>2, <4>3
    <3>2. CASE j = Len(matched) + 1
      <4>1. s = Head(refs)
        BY <2>1, <2>3, <3>2
      <4>2. r \in Elems(matched)
        BY <1>6, <2>3, <4>1, HitInOrder DEF InOrder
      <4>3. PICK i \in 1..Len(matched) : matched[i] = r
        BY <4>2 DEF Elems
      <4>. QED BY <2>1, <3>2, <4>3
    <3>. QED BY <2>1, <3>1, <3>2
  <2>. QED BY <1>4, <2>2, <2>3
<1>. QED BY <1>5, <1>6 DEF Search, TakeOs, Defer, Differs, LeaveOs, SecondPass

-------------------------------------------------------------------------------
(* Where a call begins, and between the calls                              *)

(* At the beginning all that matches is ahead.                             *)
LEMMA BeginStep ==
    ASSUME TypeOK, TablesOK, FoundOK, NEW c \in {"identify", "list"}, Begin(c)
    PROVE  FoundOK' /\ CallOK'
<1>1. /\ call' = c /\ pass' = 1 /\ oses' = db /\ matched' = <<>> /\ fallback' = <<>>
      /\ inside' = inside /\ ~inside /\ db' = db
    BY DEF Begin, Idle, FoundOK
<1>2. Candidates' = Candidates
    BY Static DEF Begin
<1>3. Elems(<<>>) = {} /\ Len(<<>>) = 0 /\ Distinct(<<>>)
    BY DEF Elems, Distinct
<1>4. FoundOK'
    BY <1>1, <1>3 DEF FoundOK
<1>5. ~Stopped'
    BY <1>1 DEF Stopped
<1>6. \A r \in Candidates' : Ahead(r)'
  <2>1. OsesAhead' = Elems(db)
    BY <1>1 DEF OsesAhead
  <2>2. \A r \in Candidates' : Ref[r].os \in Elems(db)
    BY <1>2 DEF Candidates, InDb, Elems
  <2>. QED BY <2>1, <2>2 DEF Ahead
<1>7. LoopsOK'
  <2>1. Walked' = db
    BY <1>1 DEF Walked
  <2>2. Suffix(oses', Walked')
    BY <1>1, <2>1, SuffixOfItself DEF TypeOK
  <2>. QED BY <1>1, <1>5, <2>2 DEF LoopsOK
<1>8. FallbackOK'
    BY <1>1, <1>3 DEF FallbackOK
<1>9. MatchedOK'
    BY <1>1, <1>3 DEF MatchedOK
<1>10. PreferredAhead'
    BY <1>1, <1>6 DEF PreferredAhead
<1>11. FallbacksAhead'
    BY <1>6 DEF FallbacksAhead
<1>12. OrderOK'
    BY <1>1, <1>3, <1>5 DEF OrderOK
<1>. QED BY <1>4, <1>7, <1>8, <1>9, <1>10, <1>11, <1>12 DEF CallOK

(* What was found stays so when the call has returned, and when an OS is   *)
(* added.                                                                  *)
LEMMA FoundKept ==
    ASSUME TypeOK, [Next]_vars, FoundOK, ~(Search /\ ~Return),
           \A c \in {"identify", "list"} : ~Begin(c)
    PROVE  FoundOK'
<1>1. \A r : IsFallback(r)' <=> IsFallback(r)
    BY KindKept DEF IsFallback
<1>2. Return \/ (\E os \in Oses : AddOs(os)) \/ UNCHANGED vars
    BY DEF Next
<1>3. UNCHANGED <<pass, inside, matched, fallback>> /\ (call' = "none" => call = "none" \/ ~inside)
    BY <1>2 DEF Return, AddOs, vars, loopVars, Ended, OuterLoop
<1>. QED BY <1>1, <1>3 DEF FoundOK

(* What a call has found when it returns.                                  *)
LEMMA Returned ==
    ASSUME CallOK, Returns
    PROVE  /\ \A r : ~Ahead(r)
           /\ Stopped \/ pass # 1
           /\ call # "none"
<1>1. ~inside /\ oses = <<>> /\ call # "none" /\ (Stopped \/ pass # 1)
    BY DEF Returns, Ended, OuterLoop, Again, Idle, Stopped
<1>2. OsesAhead = {}
    BY <1>1 DEF OsesAhead, Elems
<1>. QED BY <1>1, <1>2 DEF Ahead

LEMMA NothingMissedReturns == IInv => NothingMissed
<1>. SUFFICES ASSUME IInv, Returns
              PROVE  /\ \A i \in 1..Len(matched) : matched[i] \in Candidates
                     /\ matched = <<>> => Candidates = {}
                     /\ call = "list" =>
                           \A r \in Candidates :
                              \/ IsMatched(r)
                              \/ IsFallback(r) /\ HasMatch(r)
    BY DEF NothingMissed, HasMatch
<1>1. CallOK
    BY DEF IInv, Returns, Ended, OuterLoop, Idle
<1>2. (\A r : ~Ahead(r)) /\ (Stopped \/ pass # 1)
    BY <1>1, Returned
<1>3. \A i \in 1..Len(matched) : matched[i] \in Candidates
    BY <1>1 DEF CallOK, MatchedOK, Elems
<1>4. ~Stopped => \A r \in Candidates : \/ IsMatched(r)
                                        \/ IsFallback(r) /\ HasMatch(r)
    BY <1>1, <1>2 DEF CallOK, PreferredAhead, FallbacksAhead, HasMatch
<1>5. matched = <<>> => ~Stopped /\ \A r : ~IsMatched(r)
    BY DEF Stopped, IsMatched
<1>6. matched = <<>> => Candidates = {}
    BY <1>4, <1>5 DEF HasMatch
<1>7. call = "list" => ~Stopped
    BY DEF Stopped, OnlyFirst
<1>. QED BY <1>3, <1>4, <1>6, <1>7

LEMMA PreferredReturns == IInv => PreferredFirst
<1>. SUFFICES ASSUME IInv PROVE PreferredFirst
    OBVIOUS
<1>1. ASSUME Returns, NEW r \in Candidates, ~IsFallback(r)
      PROVE  matched # <<>> /\ ~IsFallback(matched[1])
  <2>1. CallOK
    BY <1>1 DEF IInv, Returns, Ended, OuterLoop, Idle
  <2>2. (\A s : ~Ahead(s)) /\ (Stopped \/ pass # 1)
    BY <1>1, <2>1, Returned
  <2>3. CASE Stopped
    <3>1. First(matched[1]) /\ matched # <<>>
      BY <2>1, <2>3 DEF CallOK, OrderOK, Stopped
    <3>2. r = matched[1] \/ Earlier(matched[1], r)
      BY <3>1 DEF First
    <3>. QED BY <1>1, <3>1, <3>2 DEF Earlier
  <2>4. CASE ~Stopped
    <3>1. IsMatched(r)
      BY <1>1, <2>1, <2>2, <2>4 DEF CallOK, PreferredAhead
    <3>2. PICK i \in 1..Len(matched) : matched[i] = r
      BY <3>1 DEF IsMatched
    <3>3. Len(matched) \in Nat /\ 1 \in 1..Len(matched) /\ matched # <<>>
      BY <3>2 DEF IInv, TypeOK
    <3>4. CASE i = 1
      BY <1>1, <3>2, <3>3, <3>4
    <3>5. CASE i # 1
      <4>1. 1 < i
        BY <3>2, <3>3, <3>5
      <4>. QED BY <1>1, <3>2, <3>3, <4>1 DEF IInv, FoundOK
    <3>. QED BY <3>4, <3>5
  <2>. QED BY <2>3, <2>4
<1>. QED BY <1>1 DEF PreferredFirst, IInv, FoundOK

LEMMA FallbackIsApart == IInv => FallbackApart
<1>. SUFFICES ASSUME IInv PROVE FallbackApart
    OBVIOUS
<1>1. ASSUME pass = 1, NEW i \in 1..Len(fallback), NEW j \in 1..Len(matched)
      PROVE  fallback[i] # Ref[matched[j]].os
  <2>1. fallback[i] \in Elems(fallback) /\ matched[j] \in Elems(matched)
    BY DEF Elems
  <2>. QED BY <1>1, <2>1 DEF IInv, FoundOK
<1>2. Distinct(matched)
    BY DEF IInv, FoundOK
<1>. QED BY <1>1, <1>2 DEF FallbackApart, Distinct

-------------------------------------------------------------------------------
(* What is identified                                                      *)

(* Of two candidates at most one is the first.                             *)
LEMMA OneFirst ==
    ASSUME TypeOK, TablesOK, NEW r, NEW s, First(r), First(s)
    PROVE  r = s
<1>. SUFFICES ASSUME r # s PROVE FALSE
    OBVIOUS
<1>1. r \in Candidates /\ s \in Candidates /\ Earlier(r, s) /\ Earlier(s, r)
    BY DEF First
<1>2. Ref[r].os \in Oses
    BY <1>1, RefsAssumption DEF Candidates, RefRecord, MediaRecord, TreeRecord
<1>3. /\ Examined(Ref[r].os) \in Seq(Refs) /\ Distinct(Examined(Ref[r].os))
      /\ db \in Seq(Oses) /\ Distinct(db)
    BY <1>2, ExaminedCorrect DEF TypeOK, TablesOK
<1>4. ~(Precedes(db, Ref[r].os, Ref[s].os) /\ Precedes(db, Ref[s].os, Ref[r].os))
    BY <1>3, PrecedesOneWay
<1>5. ~(Precedes(Examined(Ref[r].os), r, s) /\ Precedes(Examined(Ref[r].os), s, r))
    BY <1>3, PrecedesOneWay
<1>. QED BY <1>1, <1>4, <1>5 DEF Earlier

(* A text that contains another contains what that contains, and itself.   *)
LEMMA ContainsPart ==
    ASSUME NEW S, NEW t \in Seq(S), NEW u \in Seq(S), NEW v \in Seq(S),
           Contains(t, u), Contains(u, v)
    PROVE  Contains(t, v)
<1>1. PICK i \in 0..Len(t) - Len(u) : u = SubSeq(t, i + 1, i + Len(u))
    BY DEF Contains
<1>2. PICK j \in 0..Len(u) - Len(v) : v = SubSeq(u, j + 1, j + Len(v))
    BY DEF Contains
<1>. DEFINE n == Len(v)
            w == SubSeq(t, (i + j) + 1, (i + j) + n)
<1>3. /\ Len(t) \in Nat /\ Len(u) \in Nat /\ n \in Nat /\ i \in Nat /\ j \in Nat
      /\ i + Len(u) \leq Len(t) /\ j + n \leq Len(u)
    OBVIOUS
<1>4. /\ w \in Seq(S) /\ Len(w) = n
      /\ \A k \in 1..n : w[k] = t[(i + j) + k]
    BY <1>3
<1>5. \A k \in 1..Len(u) : u[k] = t[i + k]
    BY <1>1, <1>3
<1>6. \A k \in 1..n : v[k] = u[j + k]
    BY <1>2, <1>3
<1>7. ASSUME NEW k \in 1..n PROVE v[k] = w[k]
  <2>1. j + k \in 1..Len(u) /\ i + (j + k) = (i + j) + k
    BY <1>3
  <2>. QED BY <1>4, <1>5, <1>6, <2>1
<1>8. v = w
  <2>1. v \in Seq(S) /\ Len(v) = n
    OBVIOUS
  <2>. HIDE DEF w
  <2>. QED BY <1>4, <1>7, <2>1
<1>9. i + j \in 0..Len(t) - n
    BY <1>3
<1>. QED BY <1>8, <1>9 DEF Contains

LEMMA ContainsItself ==
    ASSUME NEW S, NEW t \in Seq(S)
    PROVE  Contains(t, t)
<1>1. Len(t) \in Nat /\ t = SubSeq(t, 0 + 1, 0 + Len(t)) /\ 0 \in 0..Len(t) - Len(t)
    OBVIOUS
<1>. QED BY <1>1 DEF Contains

(* What matches a thing that was filled from a match matched it before,    *)
(* unless it is a tree and a pattern is anchored; and the match itself     *)
(* still does.                                                             *)
LEMMA FilledMatches ==
    ASSUME NEW t \in Thing, NEW m \in Refs, NEW r \in Refs,
           Ref[m].kind = t.kind, Ref[r].kind = t.kind, Matches(t, m),
           t.kind = "media" \/ \A k \in TreeinfoKeys : /\ ~Ref[m].ids[k].anchored
                                                       /\ ~Ref[r].ids[k].anchored
    PROVE  /\ Matches(Filled(t, m), m)
           /\ Matches(Filled(t, m), r) => Matches(t, r)
<1>. DEFINE u == Filled(t, m)
<1>1. /\ u.kind = t.kind /\ u.size = t.size /\ u.arch = Ref[m].arch
      /\ u.ids = [k \in IdKeys |-> IF t.kind = "media" \/ Ref[m].ids[k] = Null
                                   THEN t.ids[k] ELSE Ref[m].ids[k]]
    BY FilledType
<1>. HIDE DEF u
<1>2. /\ Ref[m].ids \in [IdKeys -> Pattern] /\ Ref[r].ids \in [IdKeys -> Pattern]
      /\ t.ids \in [IdKeys -> Pattern] /\ t.kind \in {"media", "tree"}
    BY RefsAssumption DEF RefRecord, MediaRecord, TreeRecord, Thing
<1>3. CASE t.kind = "media"
  <2>1. u.ids = t.ids
    BY <1>1, <1>2, <1>3
  <2>2. MediaMatches(t, Ref[m])
    BY <1>3 DEF Matches
  <2>3. MediaMatches(u, Ref[m])
    BY <1>1, <2>1, <2>2 DEF MediaMatches, ArchMatches
  <2>4. MediaMatches(u, Ref[r]) => MediaMatches(t, Ref[r])
    BY <1>1, <2>1, <2>2 DEF MediaMatches, ArchMatches
  <2>. QED BY <1>1, <1>3, <2>3, <2>4 DEF Matches, u
<1>4. CASE t.kind = "tree"
  <2>1. TreeMatches(t, Ref[m])
    BY <1>4 DEF Matches
  <2>2. ASSUME NEW k \in TreeinfoKeys
        PROVE  /\ MatchRegex(Ref[m].ids[k], u.ids[k])
               /\ MatchRegex(Ref[r].ids[k], u.ids[k]) => MatchRegex(Ref[r].ids[k], t.ids[k])
    <3>. DEFINE p == Ref[m].ids[k]
                q == Ref[r].ids[k]
                x == t.ids[k]
    <3>1. k \in IdKeys
      BY DEF IdKeys
    <3>2. p \in Pattern /\ q \in Pattern /\ x \in Pattern
      BY <1>2, <3>1
    <3>3. ~p.anchored /\ ~q.anchored /\ MatchRegex(p, x)
      BY <1>4, <2>1 DEF TreeMatches
    <3>4. u.ids[k] = IF p = Null THEN x ELSE p
      BY <1>1, <1>4, <3>1
    <3>. HIDE DEF p, q, x
    <3>5. p.text \in Seq(Chars) /\ q.text \in Seq(Chars) /\ x.text \in Seq(Chars)
      BY <3>2 DEF Pattern
    <3>6. CASE p = Null
      BY <3>4, <3>6 DEF MatchRegex, p, q, x
    <3>7. CASE p # Null
      <4>1. x # Null /\ Contains(x.text, p.text)
        BY <3>3, <3>7 DEF MatchRegex
      <4>2. MatchRegex(p, p)
        BY <3>3, <3>5, <3>7, ContainsItself DEF MatchRegex
      <4>3. ASSUME MatchRegex(q, p) PROVE MatchRegex(q, x)
        <5>1. CASE q = Null
          BY <5>1 DEF MatchRegex
        <5>2. CASE q # Null
          <6>1. Contains(p.text, q.text)
            BY <3>3, <4>3, <5>2 DEF MatchRegex
          <6>2. Contains(x.text, q.text)
            BY <3>5, <4>1, <6>1, ContainsPart
          <6>. QED BY <3>3, <4>1, <6>2 DEF MatchRegex
        <5>. QED BY <5>1, <5>2
      <4>. QED BY <3>4, <3>7, <4>2, <4>3 DEF p, q, x
    <3>. QED BY <3>6, <3>7
  <2>3. TreeMatches(u, Ref[m])
    BY <1>1, <2>1, <2>2 DEF TreeMatches, ArchMatches
  <2>4. TreeMatches(u, Ref[r]) => TreeMatches(t, Ref[r])
    BY <1>1, <2>1, <2>2 DEF TreeMatches, ArchMatches
  <2>. QED BY <1>1, <1>4, <2>3, <2>4 DEF Matches, u
<1>. QED BY <1>2, <1>3, <1>4

(* So what was first is first also of what the filled thing matches.       *)
LEMMA FirstAgain ==
    ASSUME TypeOK, NEW m, First(m), thing' = Filled(thing, m), db' = db, order' = order,
           thing.kind = "media" \/ Literal
    PROVE  First(m)'
<1>1. m \in Candidates /\ thing \in Thing
    BY DEF First, TypeOK
<1>2. thing'.kind = thing.kind
    BY <1>1, FilledType DEF Candidates
<1>3. ASSUME NEW r \in Refs, Ref[r].kind = thing.kind, InDb(Ref[r].os)
      PROVE  /\ Matches(thing', m)
             /\ Matches(thing', r) => Matches(thing, r)
  <2>1. m \in Refs /\ Ref[m].kind = thing.kind /\ InDb(Ref[m].os) /\ Matches(thing, m)
    BY <1>1 DEF Candidates
  <2>2. Literal => \A k \in TreeinfoKeys : /\ ~Ref[m].ids[k].anchored
                                           /\ ~Ref[r].ids[k].anchored
    BY <1>3, <2>1 DEF Literal
  <2>. QED BY <1>1, <1>3, <2>1, <2>2, FilledMatches
<1>4. Candidates' = {r \in Refs : Ref[r].kind = thing.kind /\ InDb(Ref[r].os)
                                  /\ Matches(thing', r)}
    BY <1>2 DEF Candidates, InDb
<1>5. m \in Candidates'
    BY <1>1, <1>3, <1>4 DEF Candidates
<1>6. Candidates' \subseteq Candidates
    BY <1>3, <1>4 DEF Candidates
<1>7. /\ \A os : Examined(os)' = Examined(os)
      /\ \A r : IsFallback(r)' <=> IsFallback(r)
    BY <1>2 DEF Examined, IsFallback
<1>8. \A r, s : Earlier(r, s) => Earlier(r, s)'
    BY <1>7 DEF Earlier
<1>9. \A s \in Candidates' : s # m => Earlier(m, s)'
    BY <1>6, <1>8 DEF First
<1>. QED BY <1>5, <1>9 DEF First

(* A call that returns with a match fills the thing from it, and leaves    *)
(* nothing of another reference.                                           *)
LEMMA FilledReturn ==
    ASSUME IInv, Return, OnlyFirst, matched # <<>>
    PROVE  FilledOK'
<1>. PICK m : m = matched[1]
    OBVIOUS
<1>1. /\ TypeOK /\ TablesOK /\ FilledOK /\ thing' = Filled(thing, m) /\ last' = m
      /\ db' = db /\ order' = order /\ grown' = grown
    BY DEF IInv, Return
<1>2. First(m)
    BY DEF IInv, Return, Ended, OuterLoop, Idle, CallOK, OrderOK, Stopped
<1>3. m \in Refs /\ Ref[m].kind = thing.kind /\ thing \in Thing
    BY <1>1, <1>2 DEF First, Candidates, TypeOK
<1>4. last' # None
    BY <1>1, <1>3, RefsAssumption
<1>5. Same' <=> Same
    BY <1>1, <1>3, FilledType DEF Same, Literal, InDb
<1>. SUFFICES ASSUME Same
              PROVE  /\ First(m)'
                     /\ thing'.arch = Ref[m].arch
                     /\ \A f \in Fields : thing'.from[f] \in {None, m}
                     /\ \A f \in FieldsSet(thing', m) : thing'.from[f] = m
    BY <1>1, <1>4, <1>5 DEF FilledOK
<1>6. First(m)'
    BY <1>1, <1>2, FirstAgain DEF Same
<1>7. thing'.arch = Ref[m].arch
    BY <1>1, <1>3, FilledType
<1>8. thing'.from = [f \in Fields |-> IF f \in FieldsSet(thing, m) THEN m ELSE thing.from[f]]
    BY <1>1, <1>3, FilledType
<1>9. \A f \in Fields : thing.from[f] \in {None, m}
  <2>1. CASE last = None
    BY <1>1, <2>1 DEF FilledOK
  <2>2. CASE last # None
    <3>1. First(last) /\ \A f \in Fields : thing.from[f] \in {None, last}
      BY <1>1, <2>2 DEF FilledOK
    <3>2. last = m
      BY <1>1, <1>2, <3>1, OneFirst
    <3>. QED BY <3>1, <3>2
  <2>. QED BY <2>1, <2>2
<1>10. \A f \in Fields : thing'.from[f] \in {None, m}
    BY <1>8, <1>9
<1>11. FieldsSet(thing', m) \subseteq FieldsSet(thing, m) /\ FieldsSet(thing, m) \subseteq Fields
  <2>1. Ref[m] \in RefRecord
    BY <1>3, RefsAssumption
  <2>2. thing.kind \in {"media", "tree"} /\ thing'.kind = thing.kind
    BY <1>1, <1>3, FilledType DEF Thing
  <2>3. CASE thing.kind = "media"
    <3>1. thing'.ids["volume"] = thing.ids["volume"]
      <4>1. "volume" \in IdKeys
        BY DEF IdKeys, VolumeKeys
      <4>2. thing'.ids = [k \in IdKeys |-> IF thing.kind = "media" \/ Ref[m].ids[k] = Null
                                          THEN thing.ids[k] ELSE Ref[m].ids[k]]
        BY <1>1, <1>3, FilledType
      <4>. QED BY <2>3, <4>1, <4>2
    <3>2. Ref[m].has \subseteq MediaFields
      BY <1>3, <2>1, <2>3 DEF RefRecord, MediaRecord, TreeRecord
    <3>. QED BY <2>2, <3>1, <3>2 DEF FieldsSet, Fields, MediaFields
  <2>4. CASE thing.kind = "tree"
    <3>1. Ref[m].has \subseteq TreeFields
      BY <1>3, <2>1, <2>4 DEF RefRecord, MediaRecord, TreeRecord
    <3>2. "languages" \notin Ref[m].has
      BY <3>1 DEF TreeFields
    <3>. QED BY <2>2, <2>4, <3>1, <3>2 DEF FieldsSet, Fields, TreeFields
  <2>. QED BY <2>2, <2>3, <2>4
<1>12. \A f \in FieldsSet(thing', m) : thing'.from[f] = m
    BY <1>8, <1>11
<1>. QED BY <1>6, <1>7, <1>10, <1>12

LEMMA FilledStep ==
    ASSUME IInv, [Next]_vars
    PROVE  FilledOK'
<1>1. CASE thing' = thing /\ last' = last /\ grown' = grown /\ db' = db /\ order' = order
  <2>1. (\A r : First(r)' <=> First(r)) /\ (Same' <=> Same)
    BY <1>1, Static DEF Same, Literal, InDb
  <2>. QED BY <1>1, <2>1 DEF IInv, FilledOK
<1>2. CASE \E os \in Oses : AddOs(os)
  <2>1. thing' = thing /\ last' = last /\ grown' = (last # None)
    BY <1>2 DEF AddOs
  <2>2. last' # None => ~Same'
    BY <2>1 DEF Same
  <2>. QED BY <2>1, <2>2 DEF IInv, FilledOK
<1>3. CASE Return
  <2>1. CASE OnlyFirst /\ matched # <<>>
    BY <1>3, <2>1, FilledReturn
  <2>2. CASE ~(OnlyFirst /\ matched # <<>>)
    BY <1>1, <1>3, <2>2 DEF Return
  <2>. QED BY <2>1, <2>2
<1>4. CASE ~Return /\ (Search \/ \E c \in {"identify", "list"} : Begin(c))
  <2>1. \A c \in {"identify", "list"} : Begin(c) => thing' = thing /\ last' = last
    BY DEF Begin
  <2>. QED BY <1>1, <1>4, <2>1, CallStep
<1>5. CASE UNCHANGED vars
    BY <1>1, <1>5 DEF vars
<1>. QED BY <1>2, <1>3, <1>4, <1>5 DEF Next

-------------------------------------------------------------------------------
(* Theorems                                                                *)

(* IInv holds at first.                                                    *)
LEMMA InvInit == Init => IInv
<1>. SUFFICES ASSUME Init PROVE IInv
    OBVIOUS
<1>1. TypeOK /\ TablesOK
    BY TypeInit, TablesInit
<1>2. FoundOK
  <2>1. Distinct(<<>>) /\ Elems(<<>>) = {} /\ Len(<<>>) = 0
    BY DEF Distinct, Elems
  <2>. QED BY <2>1 DEF Init, FoundOK
<1>3. FilledOK
    BY ThingsAssumption DEF Init, FilledOK, Unfilled
<1>4. call = "none"
    BY DEF Init
<1>. QED BY <1>1, <1>2, <1>3, <1>4 DEF IInv

(* And every step preserves it.                                            *)
LEMMA InvStep == IInv /\ [Next]_vars => IInv'
<1>. SUFFICES ASSUME IInv, [Next]_vars PROVE IInv'
    OBVIOUS
<1>1. TypeOK'
    BY TypeStep DEF IInv, CallOK
<1>2. TablesOK'
    BY TablesStep DEF IInv
<1>3. FilledOK'
    BY FilledStep
<1>4. CASE Search /\ ~Return
  <2>1. Inv
    BY <1>4, CallStep DEF IInv, Inv, Idle
  <2>. QED BY <1>1, <1>2, <1>3, <1>4, <2>1, LoopsStep, FallbackStep, MatchedStep, FoundStep,
              PreferredStep, FallbacksStep, OrderStep DEF IInv, CallOK
<1>5. CASE \E c \in {"identify", "list"} : Begin(c)
    BY <1>1, <1>2, <1>3, <1>5, BeginStep DEF IInv
<1>6. CASE ~(Search /\ ~Return) /\ \A c \in {"identify", "list"} : ~Begin(c)
  <2>1. FoundOK'
    BY <1>6, FoundKept DEF IInv
  <2>2. CASE UNCHANGED vars
    <3>1. /\ thing' = thing /\ db' = db /\ order' = order /\ call' = call /\ pass' = pass
          /\ oses' = oses /\ refs' = refs /\ inside' = inside /\ have' = have /\ use' = use
          /\ matched' = matched /\ fallback' = fallback
      BY <2>2 DEF vars, loopVars
    <3>2. LoopsOK' <=> LoopsOK
      BY <3>1, Static DEF LoopsOK, Walked, Stopped, OnlyFirst
    <3>3. FallbackOK' <=> FallbackOK
      BY <3>1, Static DEF FallbackOK
    <3>4. \A r : Ahead(r)' <=> Ahead(r)
      BY <3>1 DEF Ahead, OsesAhead
    <3>5. MatchedOK' <=> MatchedOK
      BY <3>1, <3>4, Static DEF MatchedOK, OnlyFirst
    <3>6. \A r : IsMatched(r)' <=> IsMatched(r)
      BY <3>1 DEF IsMatched
    <3>7. PreferredAhead' <=> PreferredAhead
      BY <3>1, <3>4, <3>6, Static DEF PreferredAhead, Stopped, OnlyFirst
    <3>8. FallbacksAhead' <=> FallbacksAhead
      BY <3>1, <3>4, <3>6, Static DEF FallbacksAhead, Stopped, OnlyFirst, Kept
    <3>9. OrderOK' <=> OrderOK
      BY <3>1, Static DEF OrderOK, Stopped, OnlyFirst
    <3>. QED BY <1>1, <1>2, <1>3, <2>1, <3>1, <3>2, <3>3, <3>5, <3>7, <3>8, <3>9 DEF IInv, CallOK
  <2>3. CASE Return \/ \E os \in Oses : AddOs(os)
    <3>1. call' = "none"
      BY <2>3 DEF Return, AddOs, Idle
    <3>. QED BY <1>1, <1>2, <1>3, <2>1, <3>1 DEF IInv
  <2>. QED BY <1>6, <2>2, <2>3 DEF Next
<1>. QED BY <1>4, <1>5, <1>6

(* Of an OS with two media the sort puts the more specific one first,      *)
(* whichever the list had first.                                           *)
LEMMA TwoElements ==
    ASSUME NEW s \in Seq(Refs), Distinct(s), NEW x, NEW y, x # y, Elems(s) = {x, y}
    PROVE  s = <<x, y>> \/ s = <<y, x>>
<1>1. Len(s) \in Nat /\ x \in Refs /\ y \in Refs
    BY DEF Elems
<1>2. PICK i \in 1..Len(s) : s[i] = x
    BY DEF Elems
<1>3. PICK j \in 1..Len(s) : s[j] = y
    BY DEF Elems
<1>4. \A k \in 1..Len(s) : k = i \/ k = j
  <2>1. \A k \in 1..Len(s) : s[k] = x \/ s[k] = y
    BY DEF Elems
  <2>. QED BY <1>2, <1>3, <2>1 DEF Distinct
<1>5. i # j
    BY <1>2, <1>3
<1>6. Len(s) = 2
  <2>1. ~(Len(s) > 2)
    <3>. SUFFICES ASSUME Len(s) > 2 PROVE FALSE
      OBVIOUS
    <3>1. 1 \in 1..Len(s) /\ 2 \in 1..Len(s) /\ 3 \in 1..Len(s)
      BY <1>1
    <3>. QED BY <1>4, <3>1
  <2>2. ASSUME NEW n \in Nat, ~(n > 2), NEW a \in 1..n, NEW b \in 1..n, a # b
        PROVE  n = 2
    BY <2>2
  <2>. QED BY <1>1, <1>5, <2>1, <2>2
<1>7. (i = 1 /\ j = 2) \/ (i = 2 /\ j = 1)
    BY <1>5, <1>6
<1>8. ASSUME NEW a \in Refs, NEW b \in Refs, s[1] = a, s[2] = b
      PROVE  s = <<a, b>>
  <2>1. /\ <<a, b>> \in Seq(Refs) /\ Len(<<a, b>>) = 2
        /\ <<a, b>>[1] = a /\ <<a, b>>[2] = b
    OBVIOUS
  <2>2. ASSUME NEW t \in Seq(Refs), Len(t) = 2, s[1] = t[1], s[2] = t[2]
        PROVE  s = t
    BY <1>6, <2>2
  <2>. QED BY <1>8, <2>1, <2>2
<1>. QED BY <1>1, <1>2, <1>3, <1>7, <1>8

LEMMA SpecificSorted ==
    ASSUME TypeOK, TablesOK, thing.kind = "media", NEW r \in Refs, NEW s \in Refs,
           Twins(r, s), MoreSpecific(r, s)
    PROVE  Precedes(Examined(Ref[r].os), r, s)
<1>. DEFINE vr == Ref[r].ids["volume"]
            vs == Ref[s].ids["volume"]
            os == Ref[r].os
<1>1. vr \in Pattern /\ vs \in Pattern /\ os \in Oses
  <2>1. "volume" \in IdKeys
    BY DEF IdKeys, VolumeKeys
  <2>. QED BY <2>1, RefsAssumption DEF RefRecord, MediaRecord, TreeRecord
<1>2. vs # Null /\ r # s /\ RefsOf(os, "media") = {r, s}
    BY DEF Twins
<1>3. Strstr(vr, vs)
    BY DEF MoreSpecific
<1>4. vr # Null
  <2>. SUFFICES ASSUME vr = Null PROVE FALSE
    OBVIOUS
  <2>1. ~vs.anchored
    BY <1>2, <1>3 DEF Strstr, Null
  <2>2. Contains(<<>>, vs.text)
    BY <1>3, <2>1 DEF Strstr, Null
  <2>3. vs.text \in Seq(Chars)
    BY <1>1 DEF Pattern
  <2>4. Len(vs.text) = 0
    BY <2>2, <2>3 DEF Contains
  <2>5. vs.text = <<>>
    BY <2>3, <2>4
  <2>6. vs = [text |-> vs.text, anchored |-> vs.anchored] /\ vs.anchored = FALSE
    BY <1>1, <2>1 DEF Pattern
  <2>. QED BY <1>2, <2>5, <2>6 DEF Null
<1>5. VolumeCompare(r, s) = -1
    BY <1>2, <1>3, <1>4 DEF VolumeCompare, MoreSpecific
<1>6. VolumeCompare(s, r) = 1
    BY <1>2, <1>3, <1>4 DEF VolumeCompare, MoreSpecific
<1>7. order[os] = <<r, s>> \/ order[os] = <<s, r>>
  <2>1. order[os] \in Seq(Refs) /\ Distinct(order[os]) /\ Elems(order[os]) = {r, s}
    BY <1>1, <1>2 DEF TypeOK, TablesOK
  <2>. QED BY <1>2, <2>1, TwoElements
<1>8. Examined(os) = <<r, s>>
  <2>0. \A x, y \in Refs :
           Sort[<<x, y>>] = IF VolumeCompare(x, y) \leq 0 THEN <<x, y>> ELSE <<y, x>>
    BY SortOfTwo
  <2>1. Sort[<<r, s>>] = <<r, s>>
    <3>1. VolumeCompare(r, s) \leq 0
      BY <1>5
    <3>. QED BY <2>0, <3>1
  <2>2. Sort[<<s, r>>] = <<r, s>>
    <3>1. ~(VolumeCompare(s, r) \leq 0)
      BY <1>6
    <3>. QED BY <2>0, <3>1
  <2>. QED BY <1>7, <2>1, <2>2 DEF Examined
<1>9. Precedes(<<r, s>>, r, s)
  <2>1. Len(<<r, s>>) = 2 /\ <<r, s>>[1] = r /\ <<r, s>>[2] = s
    OBVIOUS
  <2>. QED BY <2>1 DEF Precedes
<1>. QED BY <1>8, <1>9

LEMMA SpecificReturns == IInv => SpecificFirst
<1>. SUFFICES ASSUME IInv, Returns, thing.kind = "media",
                     NEW r \in Candidates, NEW s \in Candidates,
                     Twins(r, s), MoreSpecific(r, s), IsFallback(r) = IsFallback(s),
                     NEW j \in 1..Len(matched), matched[j] = s
              PROVE  \E i \in 1..j : matched[i] = r
    BY DEF SpecificFirst
<1>1. OrderOK
    BY DEF IInv, CallOK, Returns, Ended, OuterLoop, Idle
<1>2. r \in Refs /\ s \in Refs
    BY DEF Candidates
<1>3. Precedes(Examined(Ref[r].os), r, s)
    BY <1>2, SpecificSorted DEF IInv
<1>4. Ref[r].os = Ref[s].os
    BY DEF Twins
<1>5. IsFallback(r) <=> IsFallback(s)
    OBVIOUS
<1>. QED BY <1>1, <1>3, <1>4, <1>5 DEF OrderOK

LEMMA DescribedReturns == IInv => DescribedByOne
    BY DEF IInv, FilledOK, Same, DescribedByOne

(* A call that fills the thing again fills it from the reference it was    *)
(* filled from: this still matches, and no other was first.                *)
LEMMA IdentifiedStep ==
    ASSUME IInv, Return, OnlyFirst, last # None, Same
    PROVE  matched # <<>> /\ last' = last
<1>1. First(last)
    BY DEF IInv, FilledOK
<1>2. matched # <<>>
    BY <1>1, NothingMissedReturns DEF NothingMissed, Returns, Return, First
<1>3. First(matched[1])
    BY <1>2 DEF IInv, CallOK, OrderOK, Stopped, Return, Ended, OuterLoop, Idle
<1>4. last = matched[1]
    BY <1>1, <1>3, OneFirst DEF IInv
<1>. QED BY <1>2, <1>4 DEF Return

(* The invariant: where the loops are, what was matched and what is still  *)
(* ahead of them, and of what the thing was filled.                        *)
THEOREM Invariant == Spec => []IInv
    BY InvInit, InvStep, PTL DEF Spec

(* Every variable has its type, in every state of every call.              *)
THEOREM TypeCorrect == Spec => []TypeOK
<1>1. IInv => TypeOK
    BY DEF IInv
<1>. QED BY <1>1, Invariant, PTL

(* Whatever order the OSes and references come in, no fallback is matched  *)
(* before a preferred reference, and the first match of compare_media is a *)
(* preferred one if the database has one.                                  *)
THEOREM PreferredAlways == Spec => []PreferredFirst
    BY PreferredReturns, Invariant, PTL

(* No OS with a match is kept for the second pass, and no reference is     *)
(* listed twice.                                                           *)
THEOREM FallbackAlwaysApart == Spec => []FallbackApart
    BY FallbackIsApart, Invariant, PTL

(* The two passes find nothing that does not match, all that is preferred, *)
(* and something if anything matches.                                      *)
THEOREM NothingEverMissed == Spec => []NothingMissed
    BY NothingMissedReturns, Invariant, PTL

(* Of two media of an OS the one with the more specific volume pattern is  *)
(* found first: the sort by media_volume_compare gives that order.         *)
THEOREM SpecificAlwaysFirst == Spec => []SpecificFirst
    BY SpecificReturns, Invariant, PTL

(* fill_media and fill_tree leave nothing of a reference matched before,   *)
(* while the database has not grown.                                       *)
THEOREM AlwaysDescribedByOne == Spec => []DescribedByOne
    BY DescribedReturns, Invariant, PTL

(* To identify again what was identified finds the same reference.         *)
THEOREM IdentifiedTheSame == Spec => IdentifiedAgain
<1>1. IInv => [Return /\ OnlyFirst /\ last # None /\ ~grown
                 /\ (thing.kind = "media" \/ Literal)
                 => matched # <<>> /\ last' = last]_vars
    BY IdentifiedStep DEF Same
<1>. QED BY <1>1, Invariant, PTL DEF Spec, IdentifiedAgain
===============================================================================
