---------------------------- MODULE OsInheritProofs ----------------------------
(***************************************************************************)
(* Proofs about OsInherit, for any files.                                  *)
(***************************************************************************)
EXTENDS OsInherit, ListFacts

-------------------------------------------------------------------------------
(* Lists                                                                   *)

(* An element is added in place of those with its id.                      *)
LEMMA AddFacts ==
    ASSUME NEW S, NEW s \in Seq(S), NEW e \in S
    PROVE  /\ Add(s, e) \in Seq(S)
           /\ Elems(Add(s, e)) = {x \in Elems(s) : x.id # e.id} \cup {e}
<1>. DEFINE I == {i \in 1..Len(s) : s[i].id # e.id}
<1>1. Add(s, e) = Append(At(s, I), e)
    BY DEF Add, Select
<1>2. I \subseteq 1..Len(s)
    OBVIOUS
<1>. HIDE DEF I
<1>3. At(s, I) \in Seq(S) /\ Elems(At(s, I)) = {s[i] : i \in I}
    BY <1>2, AtFacts
<1>4. {s[i] : i \in I} = {x \in Elems(s) : x.id # e.id}
    BY DEF Elems, I
<1>. QED BY <1>1, <1>3, <1>4, PutLast

(* After a prefix of t was added to s: what of s has none of its ids, and  *)
(* the last element of t of each.                                          *)
Kept(s, t, n) == {x \in Elems(s) : \A j \in 1..n : t[j].id # x.id}
Latest(t, n) == {t[i] : i \in {k \in 1..n : \A j \in 1..n : k < j => t[j].id # t[k].id}}

LEMMA AddEachFacts ==
    ASSUME NEW S, NEW s \in Seq(S), NEW t \in Seq(S)
    PROVE  /\ AddEach(s, t) \in Seq(S)
           /\ Elems(AddEach(s, t)) = Kept(s, t, Len(t)) \cup Latest(t, Len(t))
<1>. DEFINE n == Len(t)
            I == 1..n
            By(f, d) == IF d = {} THEN s ELSE Add(f[d \ {Max(d)}], t[Max(d)])
            Step == [q \in Seq(S) \X (1..n) |-> Add(q[1], t[q[2]])]
<1>1. n \in Nat /\ \A i \in 1..n : t[i] \in S
    OBVIOUS
<1>2. Step \in [Seq(S) \X (1..n) -> Seq(S)]
  <2>1. ASSUME NEW u \in Seq(S), NEW i \in 1..n PROVE Add(u, t[i]) \in Seq(S)
    BY <1>1, AddFacts
  <2>. QED BY <2>1
<1>3. \E f : Folds(f, I, Seq(S), s, Step)
  <2>1. I \subseteq 1..n
    OBVIOUS
  <2>. HIDE DEF Step, I
  <2>. QED BY <1>1, <1>2, <2>1, FoldDefined
<1>4. PICK f \in [SUBSET I -> Seq(S)] : \A d \in SUBSET I : f[d] = By(f, d)
  <2>1. PICK f \in [SUBSET I -> Seq(S)] : \A d \in SUBSET I :
           f[d] = IF d = {} THEN s ELSE Step[<<f[d \ {Max(d)}], Max(d)>>]
    BY <1>3 DEF Folds
  <2>2. ASSUME NEW d \in SUBSET I, d # {}
        PROVE  Step[<<f[d \ {Max(d)}], Max(d)>>] = Add(f[d \ {Max(d)}], t[Max(d)])
    <3>1. Max(d) \in 1..n
      BY <1>1, <2>2, MaxLast
    <3>2. f[d \ {Max(d)}] \in Seq(S)
      OBVIOUS
    <3>. QED BY <3>1, <3>2
  <2>. QED BY <2>1, <2>2
<1>. DEFINE g == CHOOSE h : h = [d \in SUBSET I |-> By(h, d)]
<1>5. g = [d \in SUBSET I |-> By(g, d)]
  <2>1. f = [d \in SUBSET I |-> By(f, d)]
    BY <1>4
  <2>. QED BY <2>1
<1>6. AddEach(s, t) = g[I]
  <2>1. DOMAIN t = I
    OBVIOUS
  <2>2. AddEach(s, t) = (CHOOSE h : h = [d \in SUBSET DOMAIN t |-> By(h, d)])[DOMAIN t]
    BY DEF AddEach, FoldLeft, MapThenFoldSet
  <2>. QED BY <2>1, <2>2
<1>. HIDE DEF g
<1>7. g[1..0] = s
  <2>1. 1..0 = {} /\ 1..0 \in SUBSET I
    OBVIOUS
  <2>. QED BY <1>5, <2>1
<1>8. ASSUME NEW k \in 1..n
      PROVE  g[1..k] = Add(g[1..k - 1], t[k])
  <2>1. 1..k \in SUBSET I /\ 1..k # {} /\ (1..k) \ {k} = 1..k - 1
    <3>1. \A i : i \in 1..k <=> i \in 1..k - 1 \/ i = k
      BY <1>1
    <3>2. k \notin 1..k - 1 /\ 1..k \subseteq I
      BY <1>1
    <3>. QED BY <3>1, <3>2
  <2>2. Max(1..k) = k
    <3>1. Max(1..k) \in 1..k /\ \A i \in 1..k : i \leq Max(1..k)
      BY <1>1, <2>1, MaxLast
    <3>2. k \in 1..k
      BY <1>1
    <3>. QED BY <3>1, <3>2
  <2>. QED BY <1>5, <2>1, <2>2
<1>. DEFINE P == {k \in Nat : k \leq n => /\ g[1..k] \in Seq(S)
                                       /\ Elems(g[1..k]) = Kept(s, t, k) \cup Latest(t, k)}
<1>9. ASSUME NEW k \in Nat, \A m \in Nat : m < k => m \in P
      PROVE  k \in P
  <2>. SUFFICES ASSUME k \leq n
                PROVE  /\ g[1..k] \in Seq(S)
                       /\ Elems(g[1..k]) = Kept(s, t, k) \cup Latest(t, k)
    OBVIOUS
  <2>1. CASE k = 0
    <3>1. Kept(s, t, 0) = Elems(s) /\ Latest(t, 0) = {}
      BY DEF Kept, Latest
    <3>. QED BY <1>7, <2>1, <3>1
  <2>2. CASE k # 0
    <3>. DEFINE u == g[1..k - 1]
    <3>1. k \in 1..n /\ k - 1 \in Nat /\ k - 1 < k /\ k - 1 \leq n /\ t[k] \in S
      BY <1>1, <2>2
    <3>2. u \in Seq(S) /\ Elems(u) = Kept(s, t, k - 1) \cup Latest(t, k - 1)
      BY <1>9, <3>1
    <3>3. g[1..k] = Add(u, t[k])
      BY <1>8, <3>1
    <3>. HIDE DEF u, P
    <3>4. /\ g[1..k] \in Seq(S)
          /\ Elems(g[1..k]) = {x \in Elems(u) : x.id # t[k].id} \cup {t[k]}
      <4>1. PICK e \in S : e = t[k]
        BY <3>1
      <4>2. /\ Add(u, e) \in Seq(S)
            /\ Elems(Add(u, e)) = {x \in Elems(u) : x.id # e.id} \cup {e}
        BY <3>2, AddFacts
      <4>. QED BY <3>3, <4>1, <4>2
    <3>5. \A j : j \in 1..k <=> j \in 1..k - 1 \/ j = k
      BY <3>1
    <3>6. {x \in Kept(s, t, k - 1) : x.id # t[k].id} = Kept(s, t, k)
      BY <3>5 DEF Kept
    <3>7. {x \in Latest(t, k - 1) : x.id # t[k].id} \cup {t[k]} = Latest(t, k)
      <4>1. ASSUME NEW i \in 1..k
            PROVE  (\A j \in 1..k : i < j => t[j].id # t[i].id)
                   <=> (i = k \/ (i \in 1..k - 1 /\ t[i].id # t[k].id
                                  /\ \A j \in 1..k - 1 : i < j => t[j].id # t[i].id))
        BY <3>1, <3>5
      <4>2. {x \in Latest(t, k - 1) : x.id # t[k].id} \cup {t[k]} \subseteq Latest(t, k)
        BY <3>5, <4>1 DEF Latest
      <4>3. Latest(t, k) \subseteq {x \in Latest(t, k - 1) : x.id # t[k].id} \cup {t[k]}
        BY <3>5, <4>1 DEF Latest
      <4>. QED BY <4>2, <4>3
    <3>. QED BY <3>2, <3>4, <3>6, <3>7
  <2>. QED BY <2>1, <2>2
<1>. HIDE DEF P
<1>10. Nat \subseteq P
    BY <1>9, NatSet
<1>. QED BY <1>1, <1>6, <1>10 DEF P

(* Each id of t is there, of the last element that has it.                 *)
LEMMA LatestOf ==
    ASSUME NEW S, NEW t \in Seq(S), NEW i \in 1..Len(t)
    PROVE  \E k \in 1..Len(t) :
              /\ t[k].id = t[i].id
              /\ \A j \in 1..Len(t) : k < j => t[j].id # t[i].id
              /\ t[k] \in Latest(t, Len(t))
<1>. DEFINE I == {j \in 1..Len(t) : t[j].id = t[i].id}
<1>1. I \subseteq 1..Len(t) /\ I # {} /\ Len(t) \in Nat
    OBVIOUS
<1>2. PICK k \in I : \A j \in I : j \leq k
    BY <1>1, MaxLast
<1>3. ASSUME NEW j \in 1..Len(t), k < j
      PROVE  t[j].id # t[i].id
    BY <1>2, <1>3
<1>. QED BY <1>2, <1>3 DEF Latest

(* No id is there twice.                                                   *)
UniqueIds(X) == \A x, y \in X : x.id = y.id => x = y

LEMMA LatestUnique ==
    ASSUME NEW S, NEW t \in Seq(S)
    PROVE  UniqueIds(Latest(t, Len(t)))
<1>. SUFFICES ASSUME NEW i \in 1..Len(t), NEW k \in 1..Len(t), t[i].id = t[k].id,
                     \A j \in 1..Len(t) : i < j => t[j].id # t[i].id,
                     \A j \in 1..Len(t) : k < j => t[j].id # t[k].id
              PROVE  i = k
    BY DEF UniqueIds, Latest
<1>1. ~(i < k) /\ ~(k < i)
    OBVIOUS
<1>. QED BY <1>1

LEMMA AddEachUnique ==
    ASSUME NEW S, NEW s \in Seq(S), NEW t \in Seq(S), UniqueIds(Elems(s))
    PROVE  UniqueIds(Elems(AddEach(s, t)))
<1>1. Elems(AddEach(s, t)) = Kept(s, t, Len(t)) \cup Latest(t, Len(t))
    BY AddEachFacts
<1>2. \A x \in Kept(s, t, Len(t)), y \in Latest(t, Len(t)) : x.id # y.id
    BY DEF Kept, Latest
<1>. QED BY <1>1, <1>2, LatestUnique DEF UniqueIds, Kept

(* Where no two elements have an id, all are there.                        *)
LEMMA AddEachAll ==
    ASSUME NEW S, NEW s \in Seq(S), NEW t \in Seq(S), UniqueIds(Elems(s) \cup Elems(t))
    PROVE  AddEach(s, t) \in Seq(S) /\ Elems(AddEach(s, t)) = Elems(s) \cup Elems(t)
<1>1. /\ AddEach(s, t) \in Seq(S)
      /\ Elems(AddEach(s, t)) = Kept(s, t, Len(t)) \cup Latest(t, Len(t))
    BY AddEachFacts
<1>2. Elems(t) \subseteq Latest(t, Len(t))
  <2>. SUFFICES ASSUME NEW i \in 1..Len(t) PROVE t[i] \in Latest(t, Len(t))
    BY DEF Elems
  <2>1. PICK k \in 1..Len(t) : t[k].id = t[i].id /\ t[k] \in Latest(t, Len(t))
    BY LatestOf
  <2>. QED BY <2>1 DEF UniqueIds, Elems
<1>3. Elems(s) \subseteq Kept(s, t, Len(t)) \cup Elems(t)
  <2>. SUFFICES ASSUME NEW x \in Elems(s), NEW j \in 1..Len(t), t[j].id = x.id
                PROVE  x \in Elems(t)
    BY DEF Kept
  <2>. QED BY DEF UniqueIds, Elems
<1>4. Kept(s, t, Len(t)) \subseteq Elems(s) /\ Latest(t, Len(t)) \subseteq Elems(t)
    BY DEF Kept, Latest, Elems
<1>. QED BY <1>1, <1>2, <1>3, <1>4

LEMMA AddEachNew ==
    ASSUME NEW S, NEW t \in Seq(S), UniqueIds(Elems(t))
    PROVE  AddEach(<<>>, t) \in Seq(S) /\ Elems(AddEach(<<>>, t)) = Elems(t)
<1>1. PICK e \in Seq(S) : e = <<>>
  <2>1. <<>> \in Seq(S)
    OBVIOUS
  <2>. QED BY <2>1, Zenon
<1>2. Elems(e) = {}
    BY <1>1 DEF Elems
<1>3. UniqueIds(Elems(e) \cup Elems(t))
    BY <1>2
<1>4. AddEach(e, t) \in Seq(S) /\ Elems(AddEach(e, t)) = Elems(e) \cup Elems(t)
    BY <1>3, AddEachAll
<1>. QED BY <1>1, <1>2, <1>4

(* Of both lists, but of an id only what the first has.                    *)
LEMMA UnionFacts ==
    ASSUME NEW S, NEW s \in Seq(S), NEW t \in Seq(S)
    PROVE  /\ Union(s, t) \in Seq(S)
           /\ Elems(Union(s, t)) =
                 Elems(s) \cup {x \in Elems(t) : \A y \in Elems(s) : y.id # x.id}
<1>. DEFINE I == {j \in 1..Len(t) : \A i \in 1..Len(s) : s[i].id # t[j].id}
<1>1. Union(s, t) = s \o At(t, I)
    BY DEF Union, Select
<1>2. I \subseteq 1..Len(t)
    OBVIOUS
<1>. HIDE DEF I
<1>3. At(t, I) \in Seq(S) /\ Elems(At(t, I)) = {t[j] : j \in I}
    BY <1>2, AtFacts
<1>4. {t[j] : j \in I} = {x \in Elems(t) : \A y \in Elems(s) : y.id # x.id}
    BY DEF Elems, I
<1>5. /\ s \o At(t, I) \in Seq(S)
      /\ Elems(s \o At(t, I)) = Elems(s) \cup Elems(At(t, I))
    BY <1>3, Joined
<1>6. Elems(Union(s, t)) = Elems(s) \cup {t[j] : j \in I}
    BY <1>1, <1>3, <1>5
<1>. QED BY <1>1, <1>4, <1>5, <1>6

-------------------------------------------------------------------------------
(* Relations and ways                                                      *)

RelatedTyped == related \in [Oses -> Seq(Relation)]

LEMMA GetRelatedFacts ==
    ASSUME RelatedTyped, NEW os \in Oses, NEW rel
    PROVE  /\ GetRelated(os, rel) \in Seq([id : Oses])
           /\ Elems(GetRelated(os, rel)) =
                 {[id |-> x.os] : x \in {y \in Elems(related[os]) : y.rel = rel}}
<1>. DEFINE s == related[os]
            I == {i \in 1..Len(s) : s[i].rel = rel}
            of == At(s, I)
            t == [i \in 1..Len(of) |-> [id |-> of[i].os]]
<1>1. s \in Seq(Relation)
    BY DEF RelatedTyped
<1>2. GetRelated(os, rel) = AddEach(<<>>, t)
    BY DEF GetRelated, Select
<1>3. I \subseteq 1..Len(s)
    OBVIOUS
<1>. HIDE DEF I, s
<1>4. of \in Seq(Relation) /\ Elems(of) = {s[i] : i \in I}
    BY <1>1, <1>3, AtFacts
<1>. HIDE DEF of
<1>5. t \in Seq([id : Oses]) /\ Len(t) = Len(of) /\ \A i \in 1..Len(of) : t[i] = [id |-> of[i].os]
  <2>1. \A x \in Relation : x.os \in Oses
    BY DEF Relation
  <2>2. \A i \in 1..Len(of) : of[i].os \in Oses
    BY <1>4, <2>1
  <2>. QED BY <1>4, <2>2
<1>. HIDE DEF t
<1>6. Elems(t) = {[id |-> x.os] : x \in Elems(of)}
    BY <1>5 DEF Elems
<1>7. UniqueIds(Elems(t))
  <2>1. \A i \in 1..Len(t) : t[i] = [id |-> t[i].id]
    <3>. SUFFICES ASSUME NEW i \in 1..Len(t) PROVE t[i] = [id |-> t[i].id]
      OBVIOUS
    <3>1. t[i] = [id |-> of[i].os]
      BY <1>5
    <3>2. t[i].id = of[i].os
      BY <3>1
    <3>. QED BY <3>1, <3>2
  <2>. QED BY <2>1 DEF UniqueIds, Elems
<1>8. t \in Seq([id : Oses])
    BY <1>5
<1>9. AddEach(<<>>, t) \in Seq([id : Oses]) /\ Elems(AddEach(<<>>, t)) = Elems(t)
    BY <1>7, <1>8, AddEachNew
<1>10. {s[i] : i \in I} = {y \in Elems(s) : y.rel = rel}
    BY DEF Elems, I
<1>. QED BY <1>2, <1>4, <1>6, <1>9, <1>10 DEF s

(* The OSes that are visited from one are those it inherits from.          *)
LEMMA RelatedListFacts ==
    ASSUME RelatedTyped, NEW os \in Oses
    PROVE  /\ RelatedList(os) \in Seq(Oses)
           /\ Elems(RelatedList(os)) = Parents(os)
<1>. DEFINE d == GetRelated(os, "derives-from")
            c == GetRelated(os, "clones")
            both == Union(d, c)
<1>1. /\ d \in Seq([id : Oses]) /\ c \in Seq([id : Oses])
      /\ Elems(d) = {[id |-> x.os] : x \in {y \in Elems(related[os]) : y.rel = "derives-from"}}
      /\ Elems(c) = {[id |-> x.os] : x \in {y \in Elems(related[os]) : y.rel = "clones"}}
    BY GetRelatedFacts
<1>. HIDE DEF d, c
<1>2. /\ both \in Seq([id : Oses])
      /\ Elems(both) = Elems(d) \cup {x \in Elems(c) : \A y \in Elems(d) : y.id # x.id}
    BY <1>1, UnionFacts
<1>3. RelatedList(os) = [i \in 1..Len(both) |-> both[i].id]
    BY DEF RelatedList, d, c
<1>. HIDE DEF both
<1>4. \A i \in 1..Len(both) : both[i].id \in Oses
  <2>1. \A i \in 1..Len(both) : both[i] \in [id : Oses]
    BY <1>2, InSeq
  <2>2. \A x \in [id : Oses] : x.id \in Oses
    OBVIOUS
  <2>. QED BY <2>1, <2>2
<1>5. /\ RelatedList(os) \in Seq(Oses)
      /\ Len(RelatedList(os)) = Len(both)
      /\ \A i \in 1..Len(both) : RelatedList(os)[i] = both[i].id
    BY <1>2, <1>3, <1>4
<1>6. Elems(RelatedList(os)) = {x.id : x \in Elems(both)}
    BY <1>5 DEF Elems
<1>7. \A o : (\E x \in Elems(both) : x.id = o) <=> (\E x \in Elems(d) \cup Elems(c) : x.id = o)
  <2>1. ASSUME NEW x \in Elems(d) \cup Elems(c)
        PROVE  \E y \in Elems(both) : y.id = x.id
    <3>1. CASE x \in Elems(both)
      BY <3>1
    <3>2. CASE x \notin Elems(both)
      BY <1>2, <2>1, <3>2
    <3>. QED BY <3>1, <3>2
  <2>2. Elems(both) \subseteq Elems(d) \cup Elems(c)
    BY <1>2
  <2>. QED BY <2>1, <2>2
<1>8. \A o : (\E x \in Elems(d) \cup Elems(c) : x.id = o)
             <=> \E y \in Elems(related[os]) : y.rel \in {"derives-from", "clones"} /\ y.os = o
  <2>1. ASSUME NEW y \in Elems(related[os]), y.rel \in {"derives-from", "clones"}
        PROVE  \E x \in Elems(d) \cup Elems(c) : x.id = y.os
    <3>1. [id |-> y.os] \in Elems(d) \cup Elems(c)
      BY <1>1, <2>1
    <3>. QED BY <3>1
  <2>2. ASSUME NEW x \in Elems(d) \cup Elems(c)
        PROVE  \E y \in Elems(related[os]) : /\ y.rel \in {"derives-from", "clones"}
                                             /\ y.os = x.id
    <3>1. PICK y \in Elems(related[os]) : /\ y.rel \in {"derives-from", "clones"}
                                          /\ x = [id |-> y.os]
      BY <1>1
    <3>2. x.id = y.os
      BY <3>1
    <3>. QED BY <3>1, <3>2
  <2>. QED BY <2>1, <2>2
<1>9. \A y \in Elems(related[os]) : y.rel \in {"derives-from", "clones"} <=> y.rel # "upgrades"
  <2>1. \A y \in Elems(related[os]) : y \in Relation
    BY DEF Elems, RelatedTyped
  <2>. QED BY <2>1 DEF Relation, Relations
<1>10. Parents(os) = {x.os : x \in {y \in Elems(related[os]) : y.rel # "upgrades"}}
    BY DEF Parents, Elems
<1>11. \A o : o \in Elems(RelatedList(os)) <=> o \in Parents(os)
  <2>1. \A o : o \in Elems(RelatedList(os)) <=> \E x \in Elems(both) : x.id = o
    BY <1>6
  <2>2. \A o : o \in Parents(os) <=> \E y \in Elems(related[os]) : y.rel # "upgrades" /\ y.os = o
    BY <1>10
  <2>. QED BY <1>7, <1>8, <1>9, <2>1, <2>2
<1>. QED BY <1>5, <1>11

LEMMA ParentsAreOses ==
    ASSUME RelatedTyped, NEW os \in Oses
    PROVE  Parents(os) \subseteq Oses
<1>1. \A i \in 1..Len(related[os]) : related[os][i] \in Relation
    BY InSeq DEF RelatedTyped
<1>. QED BY <1>1 DEF Parents, Relation

(* The ways from an OS, of any length.                                     *)
AllWays(os) ==
    {w \in Seq(Oses) : /\ w # <<>>
                       /\ w[1] = os
                       /\ \A i \in 1..Len(w) - 1 : w[i + 1] \in Parents(w[i])}

LEMMA WayFacts ==
    ASSUME NEW os, NEW w \in AllWays(os)
    PROVE  /\ w \in Seq(Oses)
           /\ Len(w) \in Nat /\ Len(w) \geq 1
           /\ w[1] = os
           /\ \A i \in 1..Len(w) : w[i] \in Oses
           /\ Last(w) = w[Len(w)] /\ Last(w) \in Oses
<1>1. w \in Seq(Oses) /\ w # <<>> /\ w[1] = os
    BY DEF AllWays
<1>2. Len(w) \in Nat /\ Len(w) \geq 1
    BY <1>1
<1>3. \A i \in 1..Len(w) : w[i] \in Oses
    BY <1>1, InSeq
<1>4. Len(w) \in 1..Len(w)
    BY <1>2
<1>. QED BY <1>1, <1>2, <1>3, <1>4 DEF Last

LEMMA ShortestWay ==
    ASSUME NEW os \in Oses
    PROVE  <<os>> \in AllWays(os) /\ Len(<<os>>) = 1 /\ Last(<<os>>) = os
BY DEF AllWays, Last

(* A way leads on to what its last OS inherits from.                       *)
LEMMA LongerWay ==
    ASSUME RelatedTyped, NEW os, NEW w \in AllWays(os), NEW p \in Parents(Last(w))
    PROVE  /\ Append(w, p) \in AllWays(os)
           /\ Len(Append(w, p)) = Len(w) + 1
           /\ Last(Append(w, p)) = p
           /\ \A i \in 1..Len(w) : Append(w, p)[i] = w[i]
<1>. DEFINE n == Len(w)
            v == Append(w, p)
<1>1. /\ w \in Seq(Oses) /\ n \in Nat /\ n \geq 1 /\ Last(w) = w[n] /\ Last(w) \in Oses
      /\ \A i \in 1..n - 1 : w[i + 1] \in Parents(w[i])
      /\ w[1] = os
    BY WayFacts DEF AllWays
<1>2. p \in Oses
    BY <1>1, ParentsAreOses
<1>3. /\ v \in Seq(Oses) /\ Len(v) = n + 1 /\ v[n + 1] = p
      /\ \A i \in 1..n : v[i] = w[i]
    BY <1>1, <1>2, PutLast
<1>. HIDE DEF v, n
<1>4. v # <<>> /\ v[1] = os /\ Last(v) = p
  <2>1. 1 \in 1..n /\ Len(v) # 0
    BY <1>1, <1>3
  <2>. QED BY <1>1, <1>3, <2>1 DEF Last
<1>5. ASSUME NEW i \in 1..Len(v) - 1
      PROVE  v[i + 1] \in Parents(v[i])
  <2>1. CASE i = n
    <3>1. v[i] = w[n] /\ v[i + 1] = p
      BY <1>1, <1>3, <2>1
    <3>. QED BY <1>1, <3>1
  <2>2. CASE i # n
    <3>1. i \in 1..n - 1 /\ i \in 1..n /\ i + 1 \in 1..n
      BY <1>1, <1>3, <2>2
    <3>. QED BY <1>1, <1>3, <3>1
  <2>. QED BY <2>1, <2>2
<1>. QED BY <1>3, <1>4, <1>5 DEF AllWays, n, v

(* A part of a way is a way.                                               *)
LEMMA ShorterWay ==
    ASSUME NEW os, NEW w \in AllWays(os), NEW k \in 1..Len(w)
    PROVE  /\ SubSeq(w, 1, k) \in AllWays(os)
           /\ Len(SubSeq(w, 1, k)) = k
           /\ Last(SubSeq(w, 1, k)) = w[k]
           /\ \A i \in 1..k : SubSeq(w, 1, k)[i] = w[i]
<1>. DEFINE v == SubSeq(w, 1, k)
<1>1. /\ w \in Seq(Oses) /\ Len(w) \in Nat
      /\ \A i \in 1..Len(w) - 1 : w[i + 1] \in Parents(w[i])
      /\ w[1] = os
    BY WayFacts DEF AllWays
<1>2. v \in Seq(Oses) /\ Len(v) = k /\ \A i \in 1..k : v[i] = w[i]
    BY <1>1
<1>. HIDE DEF v
<1>3. v # <<>> /\ v[1] = os /\ Last(v) = w[k]
  <2>1. 1 \in 1..k /\ k \in 1..k /\ k # 0
    BY <1>1
  <2>. QED BY <1>1, <1>2, <2>1 DEF Last
<1>4. ASSUME NEW i \in 1..Len(v) - 1
      PROVE  v[i + 1] \in Parents(v[i])
  <2>1. i \in 1..Len(w) - 1 /\ i \in 1..k /\ i + 1 \in 1..k
    BY <1>1, <1>2
  <2>. QED BY <1>1, <1>2, <2>1
<1>. QED BY <1>2, <1>3, <1>4 DEF AllWays, v

(* So are a way and one that goes on from its end.                         *)
Joins(w, u, v) ==
    /\ Len(w) = Len(u) + Len(v) - 1
    /\ Last(w) = Last(v)
    /\ \A i \in 1..Len(u) : w[i] = u[i]
    /\ \A i \in 2..Len(v) : w[Len(u) + i - 1] = v[i]

LEMMA JoinedWays ==
    ASSUME NEW os, NEW u \in AllWays(os), NEW v \in AllWays(Last(u))
    PROVE  \E w \in AllWays(os) : Joins(w, u, v)
<1>. DEFINE m == Len(u)
            n == Len(v)
            w == [i \in 1..m + n - 1 |-> IF i \leq m THEN u[i] ELSE v[i - m + 1]]
<1>1. /\ m \in Nat /\ m \geq 1 /\ u[1] = os /\ Last(u) = u[m]
      /\ \A i \in 1..m : u[i] \in Oses
      /\ \A i \in 1..m - 1 : u[i + 1] \in Parents(u[i])
    BY WayFacts DEF AllWays
<1>2. /\ n \in Nat /\ n \geq 1 /\ v[1] = u[m] /\ Last(v) = v[n]
      /\ \A i \in 1..n : v[i] \in Oses
      /\ \A i \in 1..n - 1 : v[i + 1] \in Parents(v[i])
    BY <1>1, WayFacts DEF AllWays
<1>. HIDE DEF m, n
<1>3. \A i \in 1..m + n - 1 : IF i \leq m THEN u[i] \in Oses
                             ELSE i - m + 1 \in 1..n /\ v[i - m + 1] \in Oses
    BY <1>1, <1>2
<1>4. /\ w \in Seq(Oses) /\ Len(w) = m + n - 1
      /\ \A i \in 1..m + n - 1 : w[i] = IF i \leq m THEN u[i] ELSE v[i - m + 1]
    BY <1>1, <1>2, <1>3
<1>. HIDE DEF w
<1>5. \A i \in 1..m : w[i] = u[i]
    BY <1>1, <1>2, <1>4
<1>6. \A i \in 1..n : m + i - 1 \in 1..m + n - 1 /\ w[m + i - 1] = v[i]
  <2>. SUFFICES ASSUME NEW i \in 1..n
                PROVE  m + i - 1 \in 1..m + n - 1 /\ w[m + i - 1] = v[i]
    OBVIOUS
  <2>1. m + i - 1 \in 1..m + n - 1 /\ (m + i - 1 \leq m <=> i = 1) /\ (m + i - 1) - m + 1 = i
    BY <1>1, <1>2
  <2>2. CASE i = 1
    <3>1. m + i - 1 = m
      BY <1>1, <2>2
    <3>. QED BY <1>2, <1>4, <2>1, <2>2, <3>1
  <2>3. CASE i # 1
    BY <1>4, <2>1, <2>3
  <2>. QED BY <2>2, <2>3
<1>7. w # <<>> /\ w[1] = os /\ Last(w) = Last(v)
  <2>1. 1 \in 1..m /\ n \in 1..n /\ Len(w) # 0 /\ Len(w) = m + n - 1
    BY <1>1, <1>2, <1>4
  <2>. QED BY <1>1, <1>2, <1>5, <1>6, <2>1 DEF Last
<1>8. ASSUME NEW i \in 1..Len(w) - 1
      PROVE  w[i + 1] \in Parents(w[i])
  <2>1. CASE i < m
    <3>1. i \in 1..m - 1 /\ i \in 1..m /\ i + 1 \in 1..m
      BY <1>1, <2>1
    <3>. QED BY <1>1, <1>5, <3>1
  <2>2. CASE i \geq m
    <3>. DEFINE j == i - m + 1
    <3>1. /\ j \in 1..n - 1 /\ j \in 1..n /\ j + 1 \in 1..n
          /\ m + j - 1 = i /\ m + (j + 1) - 1 = i + 1
      BY <1>1, <1>2, <1>4, <2>2
    <3>. HIDE DEF j
    <3>2. w[i] = v[j] /\ w[i + 1] = v[j + 1]
      BY <1>6, <3>1
    <3>. QED BY <1>2, <3>1, <3>2
  <2>. QED BY <1>1, <2>1, <2>2
<1>9. w \in AllWays(os)
    BY <1>4, <1>7, <1>8 DEF AllWays
<1>10. \A i \in 2..n : w[m + i - 1] = v[i]
    BY <1>2, <1>6
<1>11. Joins(w, u, v)
    BY <1>4, <1>5, <1>7, <1>10 DEF Joins, m, n
<1>. QED BY <1>9, <1>11

(* If no way comes back to an OS that is on it, all ways are short enough  *)
(* for WaysFrom.                                                           *)
THEOREM WaysComplete ==
    ASSUME RelatedTyped, NEW os \in Oses, Acyclic(os)
    PROVE  /\ WaysFrom(os) = AllWays(os)
           /\ \A w \in AllWays(os) : Len(w) \leq Cardinality(Oses)
<1>. DEFINE c == Cardinality(Oses)
            Grown(g, n) == IF n = 0 THEN {<<os>>}
                           ELSE UNION {{Append(w, p) : p \in Parents(Last(w))} : w \in g[n - 1]}
            OfLength(n) == {w \in AllWays(os) : Len(w) = n}
            W == CHOOSE g : g = [n \in Nat |-> Grown(g, n)]
            f == [n \in Nat |-> OfLength(n + 1)]
<1>1. \A n \in Nat : OfLength(n + 1) = Grown(f, n)
  <2>1. OfLength(1) = {<<os>>}
    <3>1. ASSUME NEW w \in AllWays(os), Len(w) = 1
          PROVE  w = <<os>>
      <4>1. w \in Seq(Oses) /\ w[1] = os
        BY WayFacts
      <4>. QED BY <3>1, <4>1
    <3>. QED BY <3>1, ShortestWay
  <2>2. ASSUME NEW n \in Nat, n # 0
        PROVE  OfLength(n + 1)
               = UNION {{Append(w, p) : p \in Parents(Last(w))} : w \in OfLength(n)}
    <3>1. ASSUME NEW w \in OfLength(n), NEW p \in Parents(Last(w))
          PROVE  Append(w, p) \in OfLength(n + 1)
      BY <3>1, LongerWay
    <3>2. ASSUME NEW v \in OfLength(n + 1)
          PROVE  \E w \in OfLength(n) : \E p \in Parents(Last(w)) : v = Append(w, p)
      <4>. DEFINE w == SubSeq(v, 1, n)
      <4>1. /\ v \in Seq(Oses) /\ Len(v) = n + 1 /\ v[n + 1] \in Parents(v[n])
            /\ n \in 1..Len(v)
        <5>1. v \in AllWays(os) /\ Len(v) = n + 1
          OBVIOUS
        <5>2. n \in 1..Len(v) - 1 /\ n \in 1..Len(v)
          BY <2>2, <5>1
        <5>. QED BY <5>1, <5>2 DEF AllWays
      <4>2. w \in AllWays(os) /\ Len(w) = n /\ Last(w) = v[n]
        BY <4>1, ShorterWay
      <4>3. v = Append(w, v[n + 1])
        <5>1. w \in Seq(Oses) /\ v[n + 1] \in Oses
          BY <4>1
        <5>2. \A i \in 1..n : w[i] = v[i]
          BY <4>1
        <5>. HIDE DEF w
        <5>3. /\ Append(w, v[n + 1]) \in Seq(Oses)
              /\ Len(Append(w, v[n + 1])) = n + 1
              /\ \A i \in 1..n + 1 : Append(w, v[n + 1])[i] = v[i]
          BY <4>2, <5>1, <5>2, PutLast
        <5>. QED BY <4>1, <5>3
      <4>. QED BY <4>1, <4>2, <4>3
    <3>. HIDE DEF OfLength
    <3>3. OfLength(n + 1) \subseteq
             UNION {{Append(w, p) : p \in Parents(Last(w))} : w \in OfLength(n)}
      BY <3>2
    <3>4. UNION {{Append(w, p) : p \in Parents(Last(w))} : w \in OfLength(n)}
             \subseteq OfLength(n + 1)
      <4>. SUFFICES ASSUME NEW w \in OfLength(n),
                           NEW v \in {Append(w, p) : p \in Parents(Last(w))}
                    PROVE  v \in OfLength(n + 1)
        OBVIOUS
      <4>. QED BY <3>1
    <3>. QED BY <3>3, <3>4
  <2>3. \A n \in Nat : n # 0 => n - 1 \in Nat /\ n - 1 + 1 = n
    OBVIOUS
  <2>4. \A n \in Nat : n # 0 => f[n - 1] = OfLength(n)
    BY <2>3
  <2>. HIDE DEF f, OfLength
  <2>5. \A n \in Nat : n = 0 => n + 1 = 1
    OBVIOUS
  <2>. QED BY <2>1, <2>2, <2>4, <2>5
<1>2. f = [n \in Nat |-> Grown(f, n)]
    BY <1>1
<1>3. W = [n \in Nat |-> Grown(W, n)]
    BY <1>2
<1>4. Ways(os) = [n \in 1..c + 1 |-> W[n - 1]]
    BY DEF Ways
<1>. HIDE DEF W
<1>. DEFINE P == {n \in Nat : W[n] = OfLength(n + 1)}
<1>5. ASSUME NEW n \in Nat, \A m \in Nat : m < n => m \in P
      PROVE  n \in P
  <2>1. W[n] = Grown(W, n)
    BY <1>3
  <2>2. n # 0 => W[n - 1] = OfLength(n) /\ f[n - 1] = OfLength(n)
    <3>. SUFFICES ASSUME n # 0 PROVE W[n - 1] = OfLength(n) /\ f[n - 1] = OfLength(n)
      OBVIOUS
    <3>1. n - 1 \in Nat /\ n - 1 < n /\ n - 1 + 1 = n
      OBVIOUS
    <3>. QED BY <1>5, <3>1
  <2>. HIDE DEF f, OfLength
  <2>. QED BY <1>1, <2>1, <2>2
<1>. HIDE DEF P
<1>6. \A n \in Nat : W[n] = OfLength(n + 1)
    BY <1>5, NatSet DEF P
<1>7. c \in Nat
    BY FS_CardinalityType, DepthAssumption
<1>. HIDE DEF c, OfLength
<1>8. \A n \in 1..c + 1 : Ways(os)[n] = OfLength(n)
  <2>. SUFFICES ASSUME NEW n \in 1..c + 1 PROVE Ways(os)[n] = OfLength(n)
    OBVIOUS
  <2>1. n - 1 \in Nat /\ n - 1 + 1 = n
    BY <1>7
  <2>. QED BY <1>4, <1>6, <2>1
<1>9. ASSUME NEW w \in AllWays(os) PROVE Len(w) \in 1..c
  <2>. SUFFICES ASSUME Len(w) \geq c + 1 PROVE FALSE
    BY <1>7, WayFacts
  <2>1. c + 1 \in 1..Len(w) /\ c + 1 \in 1..c + 1
    BY <1>7, WayFacts
  <2>2. SubSeq(w, 1, c + 1) \in OfLength(c + 1)
    BY <2>1, ShorterWay DEF OfLength
  <2>3. OfLength(c + 1) = {}
    BY <1>8, <2>1 DEF Acyclic, c
  <2>. QED BY <2>2, <2>3
<1>10. WaysFrom(os) = UNION {Ways(os)[n] : n \in 1..c}
    BY DEF WaysFrom, c
<1>11. \A n \in 1..c : n \in 1..c + 1
    BY <1>7
<1>12. WaysFrom(os) \subseteq AllWays(os)
    BY <1>8, <1>10, <1>11 DEF OfLength
<1>13. AllWays(os) \subseteq WaysFrom(os)
  <2>. SUFFICES ASSUME NEW w \in AllWays(os) PROVE w \in WaysFrom(os)
    OBVIOUS
  <2>1. w \in OfLength(Len(w)) /\ Len(w) \in 1..c
    BY <1>9 DEF OfLength
  <2>. QED BY <1>8, <1>10, <1>11, <2>1
<1>14. \A w \in AllWays(os) : Len(w) \leq c
    BY <1>7, <1>9
<1>. QED BY <1>12, <1>13, <1>14 DEF c

LEMMA NoWayBack ==
    ASSUME RelatedTyped, NEW os \in Oses, Acyclic(os), NEW w \in AllWays(os), Len(w) > 1
    PROVE  Last(w) # os
<1>. DEFINE T == {n \in 1..Cardinality(Oses) : \E v \in AllWays(os) : Len(v) = n}
<1>1. Cardinality(Oses) \in Nat
    BY FS_CardinalityType, DepthAssumption
<1>2. \A v \in AllWays(os) : Len(v) \in T
    BY <1>1, WaysComplete, WayFacts
<1>3. T \subseteq 1..Cardinality(Oses) /\ T # {}
    BY <1>2, ShortestWay
<1>4. PICK n \in T : \A m \in T : m \leq n
    BY <1>1, <1>3, MaxLast
<1>5. PICK v \in AllWays(os) : Len(v) = n
    BY <1>4
<1>. SUFFICES ASSUME Last(w) = os PROVE FALSE
    OBVIOUS
<1>6. PICK z \in AllWays(os) : Joins(z, w, v)
  <2>1. v \in AllWays(Last(w))
    OBVIOUS
  <2>. QED BY <2>1, JoinedWays
<1>7. Len(z) > n /\ Len(z) \leq n
  <2>1. Len(w) \in Nat /\ n \in Nat
    BY <1>1, <1>4, WayFacts
  <2>2. Len(z) \leq n
    BY <1>2, <1>4
  <2>. QED BY <1>5, <1>6, <2>1, <2>2 DEF Joins
<1>8. n \in Int /\ Len(z) \in Int
    BY <1>1, <1>4, WayFacts
<1>. QED BY <1>7, <1>8

-------------------------------------------------------------------------------
(* The walk                                                                *)

(* The OSes that are still to be visited in calls that run.                *)
Pending(s) == UNION {Elems(s[k]) : k \in 1..Len(s)}

(* A way from os to x on which the others are in C, and os is first only.  *)
LedBy(u, os, x, C) ==
    /\ u \in AllWays(os)
    /\ Last(u) = x
    /\ \A i \in 1..Len(u) - 1 : u[i] \in C
    /\ \A i \in 2..Len(u) - 1 : u[i] # os

(* C were visited from os: what they inherit from was as well or is        *)
(* pending, and a way through C leads to what is.                          *)
Walked(C, os, s) ==
    /\ C \subseteq Oses
    /\ os \in C \cup Pending(s)
    /\ \A c \in C : /\ Parents(c) \subseteq C \cup Pending(s)
                    /\ \E w \in AllWays(os) : Last(w) = c
    /\ \A x \in Pending(s) : \E u : LedBy(u, os, x, C)

LEMMA WalkBegins ==
    ASSUME NEW os \in Oses
    PROVE  Walked({}, os, <<<<os>>>>)
<1>1. Pending(<<<<os>>>>) = {os}
  <2>1. Elems(<<os>>) = {os}
    BY DEF Elems
  <2>. QED BY <2>1 DEF Pending
<1>2. LedBy(<<os>>, os, os, {})
    BY ShortestWay DEF LedBy
<1>. QED BY <1>1, <1>2 DEF Walked

(* What a stack is after a visit, and what is pending then.                *)
Visited(s, x) == Append([s EXCEPT ![Len(s)] = Tail(@)], RelatedList(x))

LEMMA VisitedFacts ==
    ASSUME RelatedTyped, NEW s \in Seq(Seq(Oses)), s # <<>>, Last(s) # <<>>,
           NEW x, x = Head(Last(s))
    PROVE  /\ x \in Oses /\ x \in Pending(s)
           /\ Visited(s, x) \in Seq(Seq(Oses)) /\ Len(Visited(s, x)) = Len(s) + 1
           /\ Parents(x) \subseteq Pending(Visited(s, x))
           /\ Pending(s) \subseteq Pending(Visited(s, x)) \cup {x}
           /\ Pending(Visited(s, x)) \subseteq Pending(s) \cup Parents(x)
<1>. DEFINE n == Len(s)
            top == s[n]
            r == [s EXCEPT ![n] = Tail(@)]
            t == Append(r, RelatedList(x))
<1>1. n \in Nat /\ n \in 1..n /\ Last(s) = top
    BY DEF Last
<1>2. top \in Seq(Oses) /\ top # <<>> /\ x = Head(top)
    BY <1>1, InSeq
<1>3. x \in Oses /\ Tail(top) \in Seq(Oses) /\ Elems(top) = {x} \cup Elems(Tail(top))
    BY <1>2, HeadAndTail
<1>4. RelatedList(x) \in Seq(Oses) /\ Elems(RelatedList(x)) = Parents(x)
    BY <1>3, RelatedListFacts
<1>. HIDE DEF top
<1>5. /\ r \in Seq(Seq(Oses)) /\ Len(r) = n /\ r[n] = Tail(top)
      /\ \A k \in 1..n : k # n => r[k] = s[k]
  <2>1. \A k \in 1..n : s[k] \in Seq(Oses)
    BY InSeq
  <2>. QED BY <1>1, <1>3, <2>1 DEF top
<1>. HIDE DEF r
<1>6. /\ t \in Seq(Seq(Oses)) /\ Len(t) = n + 1 /\ t[n + 1] = RelatedList(x)
      /\ \A k \in 1..n : t[k] = r[k]
    BY <1>4, <1>5, PutLast
<1>7. Visited(s, x) = t
    BY DEF Visited, t, r, n
<1>. HIDE DEF t, n
<1>8. \A k : k \in 1..n + 1 <=> k \in 1..n \/ k = n + 1
    BY <1>1
<1>9. \A o : o \in Pending(t) <=> o \in Elems(Tail(top)) \/ o \in Parents(x)
                                 \/ \E k \in 1..n : k # n /\ o \in Elems(s[k])
  <2>1. \A o : o \in Pending(t) <=> \E k \in 1..n + 1 : o \in Elems(t[k])
    BY <1>6 DEF Pending
  <2>2. \A o : (\E k \in 1..n + 1 : o \in Elems(t[k]))
               <=> o \in Elems(t[n + 1]) \/ o \in Elems(t[n])
                   \/ \E k \in 1..n : k # n /\ o \in Elems(t[k])
    BY <1>1, <1>8
  <2>3. t[n] = Tail(top) /\ t[n + 1] = RelatedList(x) /\ \A k \in 1..n : k # n => t[k] = s[k]
    BY <1>1, <1>5, <1>6
  <2>. QED BY <1>4, <2>1, <2>2, <2>3
<1>10. \A o : o \in Pending(s) <=> o = x \/ o \in Elems(Tail(top))
                                 \/ \E k \in 1..n : k # n /\ o \in Elems(s[k])
  <2>1. \A o : o \in Pending(s) <=> \E k \in 1..n : o \in Elems(s[k])
    BY DEF Pending, n
  <2>2. \A o : o \in Elems(s[n]) <=> o = x \/ o \in Elems(Tail(top))
    BY <1>3 DEF top
  <2>. QED BY <1>1, <2>1, <2>2
<1>11. x \in Pending(s) /\ Parents(x) \subseteq Pending(t)
    BY <1>9, <1>10
<1>12. Pending(s) \subseteq Pending(t) \cup {x} /\ Pending(t) \subseteq Pending(s) \cup Parents(x)
    BY <1>9, <1>10
<1>. QED BY <1>3, <1>6, <1>7, <1>11, <1>12 DEF n

LEMMA WalkGoesOn ==
    ASSUME RelatedTyped, NEW os \in Oses, NEW C, NEW s \in Seq(Seq(Oses)), s # <<>>,
           Last(s) # <<>>, NEW x, x = Head(Last(s)), Walked(C, os, s)
    PROVE  Walked(C \cup {x}, os, Visited(s, x)) /\ \E u : LedBy(u, os, x, C)
<1>. DEFINE t == Visited(s, x)
<1>1. /\ x \in Oses /\ x \in Pending(s)
      /\ Parents(x) \subseteq Pending(t)
      /\ Pending(s) \subseteq Pending(t) \cup {x}
      /\ Pending(t) \subseteq Pending(s) \cup Parents(x)
    BY VisitedFacts
<1>. HIDE DEF t
<1>2. /\ C \subseteq Oses
      /\ os \in C \cup Pending(s)
      /\ \A c \in C : Parents(c) \subseteq C \cup Pending(s) /\ \E w \in AllWays(os) : Last(w) = c
      /\ \A y \in Pending(s) : \E u : LedBy(u, os, y, C)
    BY DEF Walked
<1>3. PICK u : LedBy(u, os, x, C)
    BY <1>1, <1>2
<1>4. \E v \in AllWays(os) : /\ Last(v) = x
                             /\ \A i \in 1..Len(v) : v[i] \in C \cup {x}
                             /\ \A i \in 2..Len(v) : v[i] # os
  <2>1. CASE x = os
    <3>1. <<os>> \in AllWays(os) /\ Last(<<os>>) = x /\ Len(<<os>>) = 1 /\ <<os>>[1] = x
      BY <2>1, ShortestWay
    <3>2. (\A i \in 1..1 : i = 1) /\ (\A i \in 2..1 : FALSE)
      OBVIOUS
    <3>3. \A i \in 1..Len(<<os>>) : <<os>>[i] \in C \cup {x}
      BY <3>1, <3>2
    <3>4. \A i \in 2..Len(<<os>>) : <<os>>[i] # os
      BY <3>1, <3>2
    <3>. QED BY <3>1, <3>3, <3>4
  <2>2. CASE x # os
    <3>1. u \in AllWays(os) /\ Len(u) \in Nat /\ u[Len(u)] = x
      BY <1>3, WayFacts DEF LedBy
    <3>2. \A i \in 1..Len(u) : i \in 1..Len(u) - 1 \/ i = Len(u)
      BY <3>1
    <3>3. \A i \in 2..Len(u) : i \in 2..Len(u) - 1 \/ i = Len(u)
      BY <3>1
    <3>. QED BY <1>3, <2>2, <3>1, <3>2, <3>3 DEF LedBy
  <2>. QED BY <2>1, <2>2
<1>5. PICK v \in AllWays(os) : /\ Last(v) = x
                               /\ \A i \in 1..Len(v) : v[i] \in C \cup {x}
                               /\ \A i \in 2..Len(v) : v[i] # os
    BY <1>4
<1>6. ASSUME NEW p \in Parents(x)
      PROVE  LedBy(Append(v, p), os, p, C \cup {x})
  <2>1. /\ Append(v, p) \in AllWays(os) /\ Last(Append(v, p)) = p
        /\ Len(Append(v, p)) = Len(v) + 1
        /\ \A i \in 1..Len(v) : Append(v, p)[i] = v[i]
    BY <1>5, LongerWay
  <2>2. Len(v) \in Nat
    BY WayFacts
  <2>3. Len(Append(v, p)) - 1 = Len(v) /\ \A i \in 2..Len(v) : i \in 1..Len(v)
    BY <2>1, <2>2
  <2>. HIDE DEF LedBy
  <2>. QED BY <1>5, <2>1, <2>3 DEF LedBy
<1>7. ASSUME NEW y, NEW w, LedBy(w, os, y, C)
      PROVE  LedBy(w, os, y, C \cup {x})
    BY <1>7 DEF LedBy
<1>8. \A y \in Pending(t) : \E w : LedBy(w, os, y, C \cup {x})
    BY <1>1, <1>2, <1>6, <1>7
<1>9. \A c \in C \cup {x} : /\ Parents(c) \subseteq (C \cup {x}) \cup Pending(t)
                           /\ \E w \in AllWays(os) : Last(w) = c
    BY <1>1, <1>2, <1>5
<1>10. C \cup {x} \subseteq Oses /\ os \in (C \cup {x}) \cup Pending(t)
    BY <1>1, <1>2
<1>. QED BY <1>3, <1>8, <1>9, <1>10 DEF Walked, t

(* A call that returns has nothing left.                                   *)
LEMMA WalkReturns ==
    ASSUME NEW s \in Seq(Seq(Oses)), s # <<>>, Last(s) = <<>>
    PROVE  /\ Front(s) \in Seq(Seq(Oses)) /\ Len(Front(s)) = Len(s) - 1
           /\ Pending(Front(s)) = Pending(s)
<1>1. Len(s) \in Nat /\ Len(s) \geq 1 /\ s[Len(s)] = <<>>
    BY DEF Last
<1>2. /\ Front(s) \in Seq(Seq(Oses)) /\ Len(Front(s)) = Len(s) - 1
      /\ \A k \in 1..Len(s) - 1 : Front(s)[k] = s[k]
  <2>1. ASSUME NEW S, NEW t \in Seq(S), NEW n \in Nat, n \leq Len(t)
        PROVE  /\ SubSeq(t, 1, n) \in Seq(S) /\ Len(SubSeq(t, 1, n)) = n
               /\ \A k \in 1..n : SubSeq(t, 1, n)[k] = t[k]
    <3>1. \A k \in 1..n : k \in 1..Len(t) /\ t[k] \in S
      BY <2>1
    <3>2. SubSeq(t, 1, n) = [k \in 1..n |-> t[k]]
      BY <2>1
    <3>. QED BY <3>1, <3>2
  <2>2. Len(s) - 1 \in Nat /\ Len(s) - 1 \leq Len(s)
    BY <1>1
  <2>. QED BY <2>1, <2>2 DEF Front
<1>3. \A k : k \in 1..Len(s) <=> k \in 1..Len(s) - 1 \/ k = Len(s)
    BY <1>1
<1>4. Elems(<<>>) = {}
    BY DEF Elems
<1>5. \A o : o \in Pending(s) <=> \E k \in 1..Len(s) : o \in Elems(s[k])
    BY DEF Pending
<1>6. \A o : o \in Pending(Front(s)) <=> \E k \in 1..Len(s) - 1 : o \in Elems(s[k])
    BY <1>2 DEF Pending
<1>7. \A o : o \in Pending(Front(s)) <=> o \in Pending(s)
    BY <1>1, <1>3, <1>4, <1>5, <1>6
<1>. QED BY <1>2, <1>7

(* When the outermost call has nothing left, all was visited.              *)
LEMMA WalkDone ==
    ASSUME NEW os \in Oses, NEW C, Walked(C, os, <<<<>>>>)
    PROVE  /\ \A w \in AllWays(os) : \A i \in 1..Len(w) : w[i] \in C
           /\ \A c \in C : \E w \in AllWays(os) : Last(w) = c
<1>1. Pending(<<<<>>>>) = {}
  <2>1. Elems(<<>>) = {}
    BY DEF Elems
  <2>. QED BY <2>1 DEF Pending
<1>2. os \in C /\ \A c \in C : Parents(c) \subseteq C
    BY <1>1 DEF Walked
<1>3. ASSUME NEW w \in AllWays(os), NEW i \in 1..Len(w) PROVE w[i] \in C
  <2>. DEFINE P == {n \in Nat : n \in 1..Len(w) => w[n] \in C}
  <2>1. Len(w) \in Nat
    BY WayFacts
  <2>2. ASSUME NEW n \in Nat, \A m \in Nat : m < n => m \in P
        PROVE  n \in P
    <3>. SUFFICES ASSUME n \in 1..Len(w) PROVE w[n] \in C
      OBVIOUS
    <3>1. CASE n = 1
      BY <1>2, <3>1, WayFacts
    <3>2. CASE n # 1
      <4>1. n - 1 \in Nat /\ n - 1 < n /\ n - 1 \in 1..Len(w) - 1 /\ n - 1 \in 1..Len(w)
            /\ (n - 1) + 1 = n
        BY <2>1, <3>2
      <4>2. w[n - 1] \in C
        BY <2>2, <4>1
      <4>3. w[n] \in Parents(w[n - 1])
        BY <4>1 DEF AllWays
      <4>. QED BY <1>2, <4>2, <4>3
    <3>. QED BY <3>1, <3>2
  <2>. HIDE DEF P
  <2>3. Nat \subseteq P
    BY <2>2, NatSet
  <2>. QED BY <2>1, <2>3 DEF P
<1>. QED BY <1>3 DEF Walked

-------------------------------------------------------------------------------
(* Links and devices                                                       *)

LinksTyped == links \in [Oses -> Seq(Link)]

(* What passes a filter.                                                   *)
Passes(x, filter) == filter = None \/ x \in filter

HasLink(os, d, filter) == \E l \in Elems(links[os]) : l.id = d /\ Passes(l, filter)

(* l is the last link of an OS to its device, of those that pass.          *)
LatestLink(os, l, filter) ==
    \E i \in 1..Len(links[os]) :
       /\ links[os][i] = l
       /\ Passes(l, filter)
       /\ \A j \in 1..Len(links[os]) :
             i < j /\ Passes(links[os][j], filter) => links[os][j].id # l.id

(* On a way, l is of the first OS that has a link to its device.           *)
NearestOn(w, l, filter) ==
    /\ LatestLink(Last(w), l, filter)
    /\ \A i \in 1..Len(w) - 1 : ~HasLink(w[i], l.id, filter)

LEMMA LatestLinkFacts ==
    ASSUME LinksTyped, NEW os \in Oses, NEW l, NEW filter, LatestLink(os, l, filter)
    PROVE  l \in Elems(links[os]) /\ l \in Link /\ Passes(l, filter) /\ HasLink(os, l.id, filter)
<1>1. l \in Elems(links[os]) /\ Passes(l, filter)
    BY DEF LatestLink, Elems
<1>2. \A i \in 1..Len(links[os]) : links[os][i] \in Link
    BY InSeq DEF LinksTyped
<1>. QED BY <1>1, <1>2 DEF HasLink, Elems

(* A device that has a link has a last one.                                *)
LEMMA LatestLinkExists ==
    ASSUME LinksTyped, NEW os \in Oses, NEW d, NEW filter, HasLink(os, d, filter)
    PROVE  \E l : l.id = d /\ LatestLink(os, l, filter)
<1>. DEFINE s == links[os]
            I == {i \in 1..Len(s) : s[i].id = d /\ Passes(s[i], filter)}
<1>1. Len(s) \in Nat /\ I \subseteq 1..Len(s) /\ I # {}
    BY DEF HasLink, Elems, LinksTyped
<1>2. PICK m \in I : \A i \in I : i \leq m
    BY <1>1, MaxLast
<1>3. ASSUME NEW j \in 1..Len(s), m < j, Passes(s[j], filter)
      PROVE  s[j].id # d
    BY <1>1, <1>2, <1>3
<1>. QED BY <1>2, <1>3 DEF LatestLink

(* The last ones of what is at some positions.                             *)
LatestIn(s, I) == {s[i] : i \in {k \in I : \A j \in I : k < j => s[j].id # s[k].id}}

LEMMA LatestAt ==
    ASSUME NEW S, NEW s \in Seq(S), NEW I, I \subseteq 1..Len(s)
    PROVE  At(s, I) \in Seq(S) /\ Latest(At(s, I), Len(At(s, I))) = LatestIn(s, I)
<1>. DEFINE t == At(s, I)
            n == Len(t)
<1>1. t \in Seq(S) /\ IsAt(t, s, I)
    BY AtCorrect
<1>. HIDE DEF t
<1>2. PICK e \in [1..n -> I] :
         /\ \A i \in I : \E k \in 1..n : e[k] = i
         /\ \A j, k \in 1..n : j < k => e[j] < e[k]
         /\ \A k \in 1..n : t[k] = s[e[k]]
    BY <1>1 DEF IsAt
<1>3. n \in Nat /\ \A k \in 1..n : k \in Int /\ e[k] \in I
    BY <1>1
<1>4. \A i \in I : i \in Int
    OBVIOUS
<1>5. \A j, k \in 1..n : j < k <=> e[j] < e[k]
  <2>. SUFFICES ASSUME NEW j \in 1..n, NEW k \in 1..n, e[j] < e[k] PROVE j < k
    BY <1>2
  <2>1. e[j] \in Int /\ e[k] \in Int
    BY <1>3, <1>4
  <2>2. ~(e[k] < e[j]) /\ e[k] # e[j]
    BY <2>1
  <2>3. ~(k < j) /\ k # j
    BY <1>2, <2>2
  <2>. QED BY <1>3, <2>3
<1>6. ASSUME NEW k \in 1..n
      PROVE  (\A j \in 1..n : k < j => t[j].id # t[k].id)
             <=> \A j \in I : e[k] < j => s[j].id # s[e[k]].id
  <2>1. ASSUME \A j \in 1..n : k < j => t[j].id # t[k].id, NEW j \in I, e[k] < j
        PROVE  s[j].id # s[e[k]].id
    <3>1. PICK m \in 1..n : e[m] = j
      BY <1>2
    <3>. QED BY <1>2, <1>5, <2>1, <3>1
  <2>2. ASSUME \A j \in I : e[k] < j => s[j].id # s[e[k]].id, NEW j \in 1..n, k < j
        PROVE  t[j].id # t[k].id
    <3>1. e[j] \in I /\ e[k] < e[j]
      BY <1>3, <1>5, <2>2
    <3>2. t[j] = s[e[j]] /\ t[k] = s[e[k]]
      BY <1>2
    <3>. QED BY <2>2, <3>1, <3>2
  <2>. QED BY <2>1, <2>2
<1>7. Latest(t, n) = {t[k] : k \in {h \in 1..n : \A j \in 1..n : h < j => t[j].id # t[h].id}}
    BY DEF Latest
<1>8. ASSUME NEW k \in 1..n, \A j \in 1..n : k < j => t[j].id # t[k].id
      PROVE  t[k] \in LatestIn(s, I)
    BY <1>2, <1>3, <1>6, <1>8 DEF LatestIn
<1>9. ASSUME NEW i \in I, \A j \in I : i < j => s[j].id # s[i].id
      PROVE  s[i] \in Latest(t, n)
  <2>1. PICK k \in 1..n : e[k] = i
    BY <1>2
  <2>2. \A j \in 1..n : k < j => t[j].id # t[k].id
    BY <1>6, <1>9, <2>1
  <2>. HIDE DEF n
  <2>. QED BY <1>2, <1>7, <2>1, <2>2
<1>10. Latest(t, n) \subseteq LatestIn(s, I)
    BY <1>7, <1>8
<1>11. LatestIn(s, I) \subseteq Latest(t, n)
    BY <1>9 DEF LatestIn
<1>. QED BY <1>1, <1>10, <1>11 DEF t, n

(* The links an OS gives to the walk are the last ones.                    *)
LEMMA LinksOfFacts ==
    ASSUME LinksTyped, NEW os \in Oses
    PROVE  /\ LinksOf(os) \in Seq(Link)
           /\ \A l : l \in Elems(LinksOf(os)) <=> LatestLink(os, l, call.filter)
<1>. DEFINE s == links[os]
            I == {i \in 1..Len(s) : Matches(s[i])}
            t == At(s, I)
<1>1. s \in Seq(Link) /\ I \subseteq 1..Len(s)
    BY DEF LinksTyped
<1>2. LinksOf(os) = AddEach(<<>>, t)
    BY DEF LinksOf, Select
<1>. HIDE DEF I
<1>3. t \in Seq(Link) /\ Latest(t, Len(t)) = LatestIn(s, I)
    BY <1>1, LatestAt
<1>. HIDE DEF t
<1>4. <<>> \in Seq(Link) /\ Kept(<<>>, t, Len(t)) = {}
    BY DEF Kept, Elems
<1>5. LinksOf(os) \in Seq(Link) /\ Elems(LinksOf(os)) = Latest(t, Len(t))
    BY <1>2, <1>3, <1>4, AddEachFacts
<1>6. \A i : i \in I <=> i \in 1..Len(s) /\ Passes(s[i], call.filter)
    BY DEF I, Matches, Passes
<1>7. ASSUME NEW l
      PROVE  LatestLink(os, l, call.filter)
             <=> \E i \in I : s[i] = l /\ \A j \in I : i < j => s[j].id # s[i].id
    BY <1>6 DEF LatestLink
<1>. HIDE DEF s
<1>8. ASSUME NEW l
      PROVE  l \in LatestIn(s, I) <=> \E i \in I : s[i] = l /\ \A j \in I : i < j => s[j].id # s[i].id
    BY DEF LatestIn
<1>. QED BY <1>3, <1>5, <1>7, <1>8

(* The devices are those of its links, if they pass.                       *)
LEMMA DevicesOfFacts ==
    ASSUME LinksTyped, NEW os \in Oses
    PROVE  /\ DevicesOf(os) \in Seq([id : STRING])
           /\ \A e : e \in Elems(DevicesOf(os))
                     <=> \E l \in Elems(links[os]) : e = [id |-> l.id] /\ Passes(e, call.filter)
<1>. DEFINE s == links[os]
            I == {i \in 1..Len(s) : Matches(Device(s[i]))}
            of == At(s, I)
            t == [i \in 1..Len(of) |-> Device(of[i])]
<1>1. s \in Seq(Link) /\ I \subseteq 1..Len(s)
    BY DEF LinksTyped
<1>2. DevicesOf(os) = AddEach(<<>>, t)
    BY DEF DevicesOf, Select
<1>3. \A i : i \in I <=> i \in 1..Len(s) /\ Passes([id |-> s[i].id], call.filter)
    BY DEF Matches, Passes, Device
<1>. HIDE DEF I, s
<1>4. of \in Seq(Link) /\ Elems(of) = {s[i] : i \in I}
    BY <1>1, AtFacts
<1>. HIDE DEF of
<1>5. t \in Seq([id : STRING]) /\ Len(t) = Len(of) /\ \A i \in 1..Len(of) : t[i] = [id |-> of[i].id]
  <2>1. \A x \in Link : x.id \in STRING
    BY DEF Link
  <2>2. \A i \in 1..Len(of) : of[i].id \in STRING
    BY <1>4, <2>1, InSeq
  <2>. QED BY <1>4, <2>2 DEF Device
<1>. HIDE DEF t
<1>6. Elems(t) = {[id |-> x.id] : x \in Elems(of)}
    BY <1>5 DEF Elems
<1>7. UniqueIds(Elems(t))
  <2>1. ASSUME NEW x \in Elems(of) PROVE [id |-> x.id].id = x.id
    OBVIOUS
  <2>. QED BY <1>6, <2>1 DEF UniqueIds
<1>8. t \in Seq([id : STRING])
    BY <1>5
<1>9. AddEach(<<>>, t) \in Seq([id : STRING]) /\ Elems(AddEach(<<>>, t)) = Elems(t)
    BY <1>7, <1>8, AddEachNew
<1>10. \A x : x \in Elems(of) <=> x \in Elems(s) /\ Passes([id |-> x.id], call.filter)
    BY <1>3, <1>4 DEF Elems
<1>11. \A e : e \in Elems(t) <=> \E x \in Elems(of) : e = [id |-> x.id]
    BY <1>6
<1>. QED BY <1>2, <1>9, <1>10, <1>11 DEF s

(* Of what was visited, a device that has a link has one in s, and what is *)
(* in s is nearest on a way.                                               *)
LinksHeld(C, os, s, filter) ==
    /\ \A c \in C : \A l \in Elems(links[c]) :
          Passes(l, filter) => \E m \in Elems(s) : m.id = l.id
    /\ \A l \in Elems(s) : \E w \in AllWays(os) : NearestOn(w, l, filter)

LEMMA LinksGoOn ==
    ASSUME LinksTyped, NEW os \in Oses, NEW x \in Oses, NEW C, NEW s \in Seq(Link),
           LinksHeld(C, os, s, call.filter), NEW u, LedBy(u, os, x, C)
    PROVE  /\ Union(s, LinksOf(x)) \in Seq(Link)
           /\ LinksHeld(C \cup {x}, os, Union(s, LinksOf(x)), call.filter)
<1>. DEFINE t == Union(s, LinksOf(x))
            F == call.filter
<1>1. /\ \A c \in C : \A l \in Elems(links[c]) : Passes(l, F) => \E m \in Elems(s) : m.id = l.id
      /\ \A l \in Elems(s) : \E w \in AllWays(os) : NearestOn(w, l, F)
    BY DEF LinksHeld
<1>2. LinksOf(x) \in Seq(Link) /\ \A l : l \in Elems(LinksOf(x)) <=> LatestLink(x, l, F)
    BY LinksOfFacts
<1>3. /\ t \in Seq(Link)
      /\ Elems(t) = Elems(s) \cup {l \in Elems(LinksOf(x)) : \A y \in Elems(s) : y.id # l.id}
    BY <1>2, UnionFacts
<1>. HIDE DEF t, F
<1>4. ASSUME NEW l \in Elems(links[x]), Passes(l, F)
      PROVE  \E m \in Elems(t) : m.id = l.id
  <2>1. HasLink(x, l.id, F)
    BY <1>4 DEF HasLink
  <2>2. PICK m : m.id = l.id /\ LatestLink(x, m, F)
    BY <2>1, LatestLinkExists
  <2>3. CASE \E y \in Elems(s) : y.id = m.id
    BY <1>3, <2>2, <2>3
  <2>4. CASE \A y \in Elems(s) : y.id # m.id
    <3>1. m \in Elems(t)
      BY <1>2, <1>3, <2>2, <2>4
    <3>. QED BY <2>2, <3>1
  <2>. QED BY <2>3, <2>4
<1>5. ASSUME NEW l, LatestLink(x, l, F), \A y \in Elems(s) : y.id # l.id
      PROVE  NearestOn(u, l, F)
  <2>1. ASSUME NEW i \in 1..Len(u) - 1
        PROVE  ~HasLink(u[i], l.id, F)
    <3>1. u[i] \in C
      BY DEF LedBy
    <3>. QED BY <1>1, <1>5, <3>1 DEF HasLink
  <2>. QED BY <1>5, <2>1 DEF LedBy, NearestOn
<1>6. \A l \in Elems(t) : \E w \in AllWays(os) : NearestOn(w, l, F)
    BY <1>1, <1>2, <1>3, <1>5 DEF LedBy
<1>7. \A c \in C \cup {x} : \A l \in Elems(links[c]) : Passes(l, F) => \E m \in Elems(t) : m.id = l.id
    BY <1>1, <1>3, <1>4
<1>8. LinksHeld(C \cup {x}, os, t, F)
    BY <1>6, <1>7 DEF LinksHeld
<1>. QED BY <1>3, <1>8 DEF t, F

(* Of what was visited, the devices that pass are in s, and what is in s   *)
(* has a nearest link on a way.                                            *)
DevicesHeld(C, os, s, filter) ==
    /\ \A c \in C : \A l \in Elems(links[c]) :
          Passes([id |-> l.id], filter) => [id |-> l.id] \in Elems(s)
    /\ \A e \in Elems(s) :
          Passes(e, filter) /\ \E w \in AllWays(os) : \E l : l.id = e.id /\ NearestOn(w, l, None)

LEMMA DevicesGoOn ==
    ASSUME LinksTyped, NEW os \in Oses, NEW x \in Oses, NEW C, NEW s \in Seq([id : STRING]),
           DevicesHeld(C, os, s, call.filter), NEW u, LedBy(u, os, x, C)
    PROVE  /\ Union(s, DevicesOf(x)) \in Seq([id : STRING])
           /\ DevicesHeld(C \cup {x}, os, Union(s, DevicesOf(x)), call.filter)
<1>. DEFINE t == Union(s, DevicesOf(x))
            F == call.filter
<1>1. /\ \A c \in C : \A l \in Elems(links[c]) : Passes([id |-> l.id], F) => [id |-> l.id] \in Elems(s)
      /\ \A e \in Elems(s) :
            Passes(e, F) /\ \E w \in AllWays(os) : \E l : l.id = e.id /\ NearestOn(w, l, None)
    BY DEF DevicesHeld
<1>2. /\ DevicesOf(x) \in Seq([id : STRING])
      /\ \A e : e \in Elems(DevicesOf(x)) <=> \E l \in Elems(links[x]) : e = [id |-> l.id] /\ Passes(e, F)
    BY DevicesOfFacts
<1>3. /\ t \in Seq([id : STRING])
      /\ Elems(t) = Elems(s) \cup {e \in Elems(DevicesOf(x)) : \A y \in Elems(s) : y.id # e.id}
    BY <1>2, UnionFacts
<1>4. \A e \in Elems(s) \cup Elems(DevicesOf(x)) : e = [id |-> e.id]
  <2>1. \A e \in [id : STRING] : e = [id |-> e.id]
    OBVIOUS
  <2>2. Elems(s) \cup Elems(DevicesOf(x)) \subseteq [id : STRING]
    BY <1>2, ElemsIn
  <2>. QED BY <2>1, <2>2
<1>. HIDE DEF t, F
<1>5. ASSUME NEW l \in Elems(links[x]), Passes([id |-> l.id], F)
      PROVE  [id |-> l.id] \in Elems(t)
  <2>1. [id |-> l.id] \in Elems(DevicesOf(x))
    BY <1>2, <1>5
  <2>2. \A y \in Elems(s) : y.id = [id |-> l.id].id => y = [id |-> l.id]
    BY <1>4
  <2>. QED BY <1>3, <2>1, <2>2
<1>6. ASSUME NEW e \in Elems(DevicesOf(x)), e \notin Elems(s)
      PROVE  Passes(e, F) /\ \E w \in AllWays(os) : \E l : l.id = e.id /\ NearestOn(w, l, None)
  <2>1. PICK k \in Elems(links[x]) : e = [id |-> k.id] /\ Passes(e, F)
    BY <1>2, <1>6
  <2>2. e.id = k.id
    BY <2>1
  <2>3. HasLink(x, e.id, None)
    BY <2>2 DEF HasLink, Passes
  <2>4. PICK l : l.id = e.id /\ LatestLink(x, l, None)
    BY <2>3, LatestLinkExists
  <2>5. ASSUME NEW i \in 1..Len(u) - 1
        PROVE  ~HasLink(u[i], l.id, None)
    <3>1. u[i] \in C
      BY DEF LedBy
    <3>2. \A m \in Elems(links[u[i]]) : m.id # l.id
      BY <1>1, <1>6, <2>1, <2>2, <2>4, <3>1
    <3>. QED BY <3>2 DEF HasLink
  <2>6. NearestOn(u, l, None) /\ u \in AllWays(os)
    BY <2>4, <2>5 DEF LedBy, NearestOn
  <2>. QED BY <2>1, <2>4, <2>6
<1>7. \A e \in Elems(t) :
         Passes(e, F) /\ \E w \in AllWays(os) : \E l : l.id = e.id /\ NearestOn(w, l, None)
    BY <1>1, <1>3, <1>6
<1>8. \A c \in C \cup {x} : \A l \in Elems(links[c]) :
         Passes([id |-> l.id], F) => [id |-> l.id] \in Elems(t)
    BY <1>1, <1>3, <1>5
<1>9. DevicesHeld(C \cup {x}, os, t, F)
    BY <1>7, <1>8 DEF DevicesHeld
<1>. QED BY <1>3, <1>9 DEF t, F

-------------------------------------------------------------------------------
(* Firmwares                                                               *)

FirmwaresTyped == firmwares \in [Oses -> Seq(Firmware)]

AllFirmwares == UNION {Elems(firmwares[os]) : os \in Oses}

LEMMA UnionAll ==
    ASSUME NEW S, NEW s \in Seq(S), NEW t \in Seq(S), UniqueIds(Elems(s) \cup Elems(t))
    PROVE  Union(s, t) \in Seq(S) /\ Elems(Union(s, t)) = Elems(s) \cup Elems(t)
<1>1. /\ Union(s, t) \in Seq(S)
      /\ Elems(Union(s, t)) = Elems(s) \cup {x \in Elems(t) : \A y \in Elems(s) : y.id # x.id}
    BY UnionFacts
<1>. QED BY <1>1 DEF UniqueIds

(* What is at the positions whose elements are in T.                       *)
PositionsOf(I, s, T) == \A i : i \in I <=> i \in 1..Len(s) /\ s[i] \in T

LEMMA Chosen ==
    ASSUME NEW S, NEW s \in Seq(S), NEW I, NEW T, PositionsOf(I, s, T)
    PROVE  At(s, I) \in Seq(S) /\ Elems(At(s, I)) = Elems(s) \cap T
<1>. \A i : i \in I <=> i \in 1..Len(s) /\ s[i] \in T
    BY DEF PositionsOf
<1>1. I \subseteq 1..Len(s)
    OBVIOUS
<1>2. At(s, I) \in Seq(S) /\ Elems(At(s, I)) = {s[i] : i \in I}
    BY <1>1, AtFacts
<1>3. {s[i] : i \in I} = Elems(s) \cap T
    BY DEF Elems
<1>. QED BY <1>2, <1>3

LEMMA LacksFacts ==
    ASSUME NEW s, NEW f
    PROVE  Lacks(s, f) <=> \A g \in Elems(s) : ~Alike(g, f)
BY DEF Lacks, Elems

(* On a way f is of the last OS, and none has one like it unsupported.     *)
SupportedOn(w, f, filter) ==
    /\ f \in Elems(firmwares[Last(w)])
    /\ Passes(f, filter)
    /\ \A i \in 1..Len(w) : \A u \in Elems(firmwares[w[i]]) : ~FirmwareSupported(u) => ~Alike(u, f)

(* Of what was visited, the unsupported firmwares are in o; those that     *)
(* pass are in s, or one like them is in o.                                *)
FirmwaresHeld(C, os, s, o, filter) ==
    /\ \A c \in C : \A u \in Elems(firmwares[c]) : ~FirmwareSupported(u) => u \in Elems(o)
    /\ \A u \in Elems(o) : ~FirmwareSupported(u) /\ \E c \in C : u \in Elems(firmwares[c])
    /\ \A f \in Elems(s) : \E w \in AllWays(os) : SupportedOn(w, f, filter)
    /\ \A c \in C : \A f \in Elems(firmwares[c]) :
          Passes(f, filter) => f \in Elems(s) \/ \E u \in Elems(o) : Alike(u, f)

LEMMA FirmwaresGoOn ==
    ASSUME FirmwaresTyped, UniqueIds(AllFirmwares), NEW os \in Oses, NEW x \in Oses,
           NEW C, C \subseteq Oses, NEW s \in Seq(Firmware), NEW o \in Seq(Firmware),
           FirmwaresHeld(C, os, s, o, call.filter), NEW u, LedBy(u, os, x, C),
           NEW p, p = Union(UnsupportedOf(x), o),
           NEW t, t = AddEach(s, FirmwaresOf(x, p))
    PROVE  /\ p \in Seq(Firmware) /\ t \in Seq(Firmware)
           /\ FirmwaresHeld(C \cup {x}, os, t, p, call.filter)
<1>. DEFINE F == call.filter
            fs == firmwares[x]
            I == {i \in 1..Len(fs) : ~FirmwareSupported(fs[i])}
            J == {i \in 1..Len(fs) : Matches(fs[i]) /\ Lacks(p, fs[i])}
            T == {f \in Elems(fs) : ~FirmwareSupported(f)}
            U == {f \in Elems(fs) : Passes(f, F) /\ \A g \in Elems(p) : ~Alike(g, f)}
<1>1. /\ \A c \in C : \A v \in Elems(firmwares[c]) : ~FirmwareSupported(v) => v \in Elems(o)
      /\ \A v \in Elems(o) : ~FirmwareSupported(v) /\ \E c \in C : v \in Elems(firmwares[c])
      /\ \A f \in Elems(s) : \E w \in AllWays(os) : SupportedOn(w, f, F)
      /\ \A c \in C : \A f \in Elems(firmwares[c]) :
            Passes(f, F) => f \in Elems(s) \/ \E v \in Elems(o) : Alike(v, f)
    BY DEF FirmwaresHeld
<1>2. fs \in Seq(Firmware) /\ Elems(fs) \subseteq AllFirmwares
    BY DEF FirmwaresTyped, AllFirmwares
<1>3. Elems(o) \subseteq AllFirmwares
    BY <1>1 DEF AllFirmwares
<1>4. Elems(s) \subseteq AllFirmwares
    BY <1>1, WayFacts DEF AllFirmwares, SupportedOn
<1>5. p = Union(At(fs, I), o) /\ t = AddEach(s, At(fs, J))
    BY DEF Select, UnsupportedOf, FirmwaresOf
<1>6. PositionsOf(I, fs, T)
    BY DEF Elems, PositionsOf
<1>7. PositionsOf(J, fs, U)
    BY LacksFacts DEF Elems, Matches, Passes, PositionsOf
<1>8. T \subseteq Elems(fs) /\ U \subseteq Elems(fs)
    OBVIOUS
<1>. HIDE DEF fs, I, J, T, U, F
<1>. DEFINE a == At(fs, I)
            b == At(fs, J)
<1>9. a \in Seq(Firmware) /\ Elems(a) = T
  <2>1. a \in Seq(Firmware) /\ Elems(a) = Elems(fs) \cap T
    BY <1>2, <1>6, Chosen
  <2>. QED BY <1>8, <2>1
<1>10. b \in Seq(Firmware) /\ Elems(b) = U
  <2>1. b \in Seq(Firmware) /\ Elems(b) = Elems(fs) \cap U
    BY <1>2, <1>7, Chosen
  <2>. QED BY <1>8, <2>1
<1>. HIDE DEF a, b
<1>11. p \in Seq(Firmware) /\ Elems(p) = T \cup Elems(o)
  <2>1. UniqueIds(Elems(a) \cup Elems(o))
    BY <1>2, <1>3, <1>8, <1>9 DEF UniqueIds
  <2>2. p = Union(a, o)
    BY <1>5 DEF a
  <2>. QED BY <1>9, <2>1, <2>2, UnionAll
<1>12. t \in Seq(Firmware) /\ Elems(t) = Elems(s) \cup U
  <2>1. UniqueIds(Elems(s) \cup Elems(b))
    BY <1>2, <1>4, <1>8, <1>10 DEF UniqueIds
  <2>2. t = AddEach(s, b)
    BY <1>5 DEF b
  <2>. QED BY <1>10, <2>1, <2>2, AddEachAll
<1>13. \A c \in C \cup {x} : \A v \in Elems(firmwares[c]) : ~FirmwareSupported(v) => v \in Elems(p)
    BY <1>1, <1>11 DEF T, fs
<1>14. \A v \in Elems(p) : ~FirmwareSupported(v) /\ \E c \in C \cup {x} : v \in Elems(firmwares[c])
    BY <1>1, <1>11 DEF T, fs
<1>15. ASSUME NEW f \in U
      PROVE  SupportedOn(u, f, F) /\ u \in AllWays(os)
  <2>1. f \in Elems(firmwares[x]) /\ Passes(f, F) /\ \A g \in Elems(p) : ~Alike(g, f)
    BY DEF U, fs
  <2>2. u \in AllWays(os) /\ Last(u) = x /\ Last(u) = u[Len(u)] /\ Len(u) \in Nat
        /\ \A i \in 1..Len(u) - 1 : u[i] \in C
    BY WayFacts DEF LedBy
  <2>3. \A i \in 1..Len(u) : u[i] \in C \cup {x}
    <3>1. \A i \in 1..Len(u) : i \in 1..Len(u) - 1 \/ i = Len(u)
      BY <2>2
    <3>. QED BY <2>2, <3>1
  <2>. QED BY <1>13, <2>1, <2>2, <2>3 DEF SupportedOn
<1>16. \A f \in Elems(t) : \E w \in AllWays(os) : SupportedOn(w, f, F)
    BY <1>1, <1>12, <1>15
<1>17. \A c \in C \cup {x} : \A f \in Elems(firmwares[c]) :
          Passes(f, F) => f \in Elems(t) \/ \E v \in Elems(p) : Alike(v, f)
    BY <1>1, <1>11, <1>12 DEF U, fs
<1>18. FirmwaresHeld(C \cup {x}, os, t, p, F)
    BY <1>13, <1>14, <1>16, <1>17 DEF FirmwaresHeld
<1>. QED BY <1>11, <1>12, <1>18 DEF F

(* On a way f is of the last OS, and is the first of its kind.             *)
FirstOn(w, f, filter) ==
    /\ f \in Elems(firmwares[Last(w)])
    /\ Passes(f, filter)
    /\ \A i \in 1..Len(w) - 1 : \A g \in Elems(firmwares[w[i]]) : Passes(g, filter) => ~Alike(f, g)

(* Of what was visited, the firmwares that pass have one like them in s.   *)
CompleteHeld(C, os, s, filter) ==
    /\ \A c \in C : \A f \in Elems(firmwares[c]) :
          Passes(f, filter) => \E g \in Elems(s) : Alike(f, g)
    /\ \A f \in Elems(s) : \E w \in AllWays(os) : FirstOn(w, f, filter)

LEMMA CompleteGoesOn ==
    ASSUME FirmwaresTyped, UniqueIds(AllFirmwares), NEW os \in Oses, NEW x \in Oses,
           NEW C, C \subseteq Oses, NEW s \in Seq(Firmware),
           CompleteHeld(C, os, s, call.filter), NEW u, LedBy(u, os, x, C),
           NEW t, t = AddEach(s, FirmwaresOf(x, s))
    PROVE  t \in Seq(Firmware) /\ CompleteHeld(C \cup {x}, os, t, call.filter)
<1>. DEFINE F == call.filter
            fs == firmwares[x]
            J == {i \in 1..Len(fs) : Matches(fs[i]) /\ Lacks(s, fs[i])}
            U == {f \in Elems(fs) : Passes(f, F) /\ \A g \in Elems(s) : ~Alike(g, f)}
<1>1. /\ \A c \in C : \A f \in Elems(firmwares[c]) : Passes(f, F) => \E g \in Elems(s) : Alike(f, g)
      /\ \A f \in Elems(s) : \E w \in AllWays(os) : FirstOn(w, f, F)
    BY DEF CompleteHeld
<1>2. fs \in Seq(Firmware) /\ Elems(fs) \subseteq AllFirmwares
    BY DEF FirmwaresTyped, AllFirmwares
<1>3. Elems(s) \subseteq AllFirmwares
    BY <1>1, WayFacts DEF AllFirmwares, FirstOn
<1>4. t = AddEach(s, At(fs, J))
    BY DEF Select, FirmwaresOf
<1>5. PositionsOf(J, fs, U)
    BY LacksFacts DEF Elems, Matches, Passes, PositionsOf
<1>6. U \subseteq Elems(fs)
    OBVIOUS
<1>. HIDE DEF fs, J, U, F
<1>. DEFINE b == At(fs, J)
<1>7. b \in Seq(Firmware) /\ Elems(b) = U
  <2>1. b \in Seq(Firmware) /\ Elems(b) = Elems(fs) \cap U
    BY <1>2, <1>5, Chosen
  <2>. QED BY <1>6, <2>1
<1>. HIDE DEF b
<1>8. t \in Seq(Firmware) /\ Elems(t) = Elems(s) \cup U
  <2>1. UniqueIds(Elems(s) \cup Elems(b))
    BY <1>2, <1>3, <1>6, <1>7 DEF UniqueIds
  <2>2. t = AddEach(s, b)
    BY <1>4 DEF b
  <2>. QED BY <1>7, <2>1, <2>2, AddEachAll
<1>9. \A f, g : Alike(f, g) <=> Alike(g, f)
    BY DEF Alike
<1>10. ASSUME NEW f \in U
       PROVE  FirstOn(u, f, F) /\ u \in AllWays(os)
  <2>1. f \in Elems(firmwares[x]) /\ Passes(f, F) /\ \A g \in Elems(s) : ~Alike(g, f)
    BY DEF U, fs
  <2>2. ASSUME NEW i \in 1..Len(u) - 1, NEW g \in Elems(firmwares[u[i]]), Passes(g, F), Alike(f, g)
        PROVE  FALSE
    <3>1. u[i] \in C
      BY DEF LedBy
    <3>2. PICK h \in Elems(s) : Alike(g, h)
      BY <1>1, <2>2, <3>1
    <3>3. Alike(h, f)
      BY <2>2, <3>2 DEF Alike
    <3>. QED BY <2>1, <3>3
  <2>. QED BY <2>1, <2>2 DEF FirstOn, LedBy
<1>11. \A f \in Elems(t) : \E w \in AllWays(os) : FirstOn(w, f, F)
    BY <1>1, <1>8, <1>10
<1>12. ASSUME NEW f \in Elems(firmwares[x]), Passes(f, F)
       PROVE  \E g \in Elems(t) : Alike(f, g)
  <2>1. CASE f \in U
    BY <1>8, <2>1 DEF Alike
  <2>2. CASE f \notin U
    BY <1>8, <1>9, <1>12, <2>2 DEF U, fs
  <2>. QED BY <2>1, <2>2
<1>13. \A c \in C \cup {x} : \A f \in Elems(firmwares[c]) :
          Passes(f, F) => \E g \in Elems(t) : Alike(f, g)
    BY <1>1, <1>8, <1>12
<1>14. CompleteHeld(C \cup {x}, os, t, F)
    BY <1>11, <1>13 DEF CompleteHeld
<1>. QED BY <1>8, <1>14 DEF F

-------------------------------------------------------------------------------
(* Resources                                                               *)

ResourcesTyped == resources \in [Oses -> Seq(Held)]

(* What the files say of the resources R[os], and which of them are of the *)
(* kind and the architecture of one.                                       *)
Ofs(R, os) == [i \in 1..Len(R[os]) |-> R[os][i].of]
Positions(fs, of) == {i \in 1..Len(fs) : fs[i].kind = of.kind /\ fs[i].arch = of.arch}

(* Offer, by what the files say alone.                                     *)
Offered(fs, of, f) ==
    IF Positions(fs, of) = {} THEN -1 ELSE fs[Max(Positions(fs, of))].fields[f]

LEMMA PositionsFacts ==
    ASSUME NEW R \in [Oses -> Seq(Held)], NEW os \in Oses, NEW of,
           NEW P, P = Positions(Ofs(R, os), of)
    PROVE  /\ P = {i \in 1..Len(R[os]) : R[os][i].of.kind = of.kind /\ R[os][i].of.arch = of.arch}
           /\ P # {} => /\ Max(P) \in P /\ \A i \in P : i \leq Max(P)
                       /\ R[os][Max(P)] \in Elems(R[os]) /\ R[os][Max(P)] \in Held
                       /\ \A f : Offered(Ofs(R, os), of, f) = R[os][Max(P)].of.fields[f]
<1>1. R[os] \in Seq(Held) /\ Len(R[os]) \in Nat
    OBVIOUS
<1>2. Len(Ofs(R, os)) = Len(R[os]) /\ \A i \in 1..Len(R[os]) : Ofs(R, os)[i] = R[os][i].of
    BY <1>1 DEF Ofs
<1>3. P = {i \in 1..Len(R[os]) : R[os][i].of.kind = of.kind /\ R[os][i].of.arch = of.arch}
    BY <1>2 DEF Positions
<1>4. ASSUME P # {}
      PROVE  /\ Max(P) \in P /\ \A i \in P : i \leq Max(P)
             /\ R[os][Max(P)] \in Elems(R[os]) /\ R[os][Max(P)] \in Held
             /\ \A f : Offered(Ofs(R, os), of, f) = R[os][Max(P)].of.fields[f]
  <2>1. Max(P) \in P /\ \A i \in P : i \leq Max(P)
    <3>1. P \subseteq 1..Len(R[os])
      BY <1>3
    <3>. QED BY <1>1, <1>4, <3>1, MaxLast
  <2>2. Max(P) \in 1..Len(R[os])
    BY <1>3, <2>1
  <2>3. R[os][Max(P)] \in Held
    BY <1>1, <2>2, InSeq
  <2>. QED BY <1>2, <1>4, <2>1, <2>2, <2>3 DEF Offered, Elems
<1>. QED BY <1>3, <1>4

LEMMA SameArchFacts ==
    ASSUME ResourcesTyped, NEW os \in Oses, NEW r,
           NEW P, P = Positions(Ofs(resources, os), r.of)
    PROVE  /\ P = {} => SameArch(os, r) = <<>>
           /\ P # {} => SameArch(os, r) # <<>> /\ Last(SameArch(os, r)) = resources[os][Max(P)]
           /\ \A f : Offer(os, r, f) = Offered(Ofs(resources, os), r.of, f)
<1>. DEFINE s == resources[os]
            I == {i \in 1..Len(s) : s[i].of.kind = r.of.kind /\ s[i].of.arch = r.of.arch}
            t == At(s, I)
<1>1. s \in Seq(Held) /\ I \subseteq 1..Len(s)
    BY DEF ResourcesTyped
<1>2. SameArch(os, r) = t
    BY DEF SameArch, Select
<1>3. /\ P = I
      /\ P # {} => /\ Max(P) \in P /\ \A i \in P : i \leq Max(P)
                  /\ \A f : Offered(Ofs(resources, os), r.of, f) = s[Max(P)].of.fields[f]
    BY PositionsFacts DEF ResourcesTyped
<1>. HIDE DEF I, s
<1>4. /\ I = {} => t = <<>>
      /\ I # {} => t # <<>> /\ \E m \in I : (\A i \in I : i \leq m) /\ t[Len(t)] = s[m]
    BY <1>1, AtFacts
<1>. HIDE DEF t
<1>5. ASSUME I # {}
      PROVE  t # <<>> /\ Last(t) = s[Max(P)]
  <2>1. PICK m \in I : (\A i \in I : i \leq m) /\ t[Len(t)] = s[m]
    BY <1>4, <1>5
  <2>2. Max(P) \in I /\ Max(P) \leq m /\ m \leq Max(P)
    BY <1>3, <1>5, <2>1
  <2>3. m = Max(P)
    <3>1. \A i \in I : i \in Int
      BY <1>1
    <3>2. m \in Int /\ Max(P) \in Int
      BY <2>2, <3>1
    <3>. QED BY <2>2, <3>2
  <2>. QED BY <1>4, <1>5, <2>1, <2>3 DEF Last
<1>6. ASSUME NEW f
      PROVE  Offer(os, r, f) = Offered(Ofs(resources, os), r.of, f)
  <2>1. CASE I = {}
    BY <1>2, <1>3, <1>4, <2>1 DEF Offer, Offered
  <2>2. CASE I # {}
    BY <1>2, <1>3, <1>5, <2>2 DEF Offer
  <2>. QED BY <2>1, <2>2
<1>. QED BY <1>2, <1>3, <1>4, <1>5, <1>6 DEF s

(* On a way, v is what the nearest OS after the first offers.              *)
OfferedOn(R, w, of, f, v) ==
    /\ Offered(Ofs(R, Last(w)), of, f) = v
    /\ \A i \in 2..Len(w) - 1 : Offered(Ofs(R, w[i]), of, f) = -1

(* A field is what the file says, or what is nearest on a way.             *)
IsSourced(R, os, r) ==
    \A f \in Fields :
       \/ r.now[f] = r.of.fields[f]
       \/ /\ r.of.inherit
          /\ r.of.fields[f] = -1
          /\ \E w \in AllWays(os) : Len(w) > 1 /\ OfferedOn(R, w, r.of, f, r.now[f])

AllSourced(R) == \A os \in Oses : \A r \in Elems(R[os]) : IsSourced(R, os, r)

(* What was visited offers nothing for a field that is not given.          *)
ResourcesHeld(R, C, os, kind) ==
    \A c \in C : c # os =>
       \A r \in Elems(R[os]) : r.of.kind = kind /\ r.of.inherit =>
          \A f \in Fields : r.now[f] = -1 => Offered(Ofs(R, c), r.of, f) = -1

LEMMA OfferedFurther ==
    ASSUME NEW R, NEW os, NEW u \in AllWays(os), NEW w \in AllWays(Last(u)), NEW of, NEW f, NEW v,
           Len(u) > 1, Len(w) > 1, OfferedOn(R, u, of, f, -1), OfferedOn(R, w, of, f, v)
    PROVE  \E z \in AllWays(os) : Len(z) > 1 /\ OfferedOn(R, z, of, f, v)
<1>. DEFINE m == Len(u)
            n == Len(w)
<1>0. PICK z \in AllWays(os) : Joins(z, u, w)
    BY JoinedWays
<1>1. /\ Len(z) = m + n - 1
      /\ Last(z) = Last(w)
      /\ \A i \in 1..m : z[i] = u[i]
      /\ \A i \in 2..n : z[m + i - 1] = w[i]
    BY <1>0 DEF Joins
<1>2. m \in Nat /\ n \in Nat /\ m > 1 /\ n > 1 /\ Last(u) = u[m]
    BY WayFacts
<1>3. /\ \A i \in 2..m : Offered(Ofs(R, u[i]), of, f) = -1
      /\ \A i \in 2..n - 1 : Offered(Ofs(R, w[i]), of, f) = -1
      /\ Offered(Ofs(R, Last(w)), of, f) = v
  <2>1. \A i \in 2..m : i \in 2..m - 1 \/ i = m
    BY <1>2
  <2>. QED BY <1>2, <2>1 DEF OfferedOn
<1>. HIDE DEF m, n
<1>4. ASSUME NEW i \in 2..Len(z) - 1
      PROVE  Offered(Ofs(R, z[i]), of, f) = -1
  <2>1. CASE i \leq m
    <3>1. i \in 1..m /\ i \in 2..m
      BY <1>1, <1>2, <2>1
    <3>. QED BY <1>1, <1>3, <3>1
  <2>2. CASE ~(i \leq m)
    <3>. DEFINE j == i - m + 1
    <3>1. j \in 2..n - 1 /\ j \in 2..n /\ m + j - 1 = i
      BY <1>1, <1>2, <2>2
    <3>. HIDE DEF j
    <3>2. z[i] = w[j]
      <4>1. \A k \in 2..n : z[m + k - 1] = w[k]
        BY <1>1, <1>2
      <4>. QED BY <3>1, <4>1
    <3>. QED BY <1>3, <3>1, <3>2
  <2>. QED BY <2>1, <2>2
<1>5. Len(z) > 1
    BY <1>1, <1>2
<1>. QED BY <1>1, <1>3, <1>4, <1>5 DEF OfferedOn

(* What a resource is after a visit of x.                                  *)
FilledBy(x, r) == IF r.of.kind = call.kind THEN [r EXCEPT !.now = Inherited(r, x)] ELSE r

Fillable(r, f) == r.of.kind = call.kind /\ r.of.inherit /\ r.now[f] = -1

LEMMA FilledFacts ==
    ASSUME ResourcesTyped, NEW x \in Oses, NEW r \in Held,
           NEW P, P = Positions(Ofs(resources, x), r.of)
    PROVE  /\ FilledBy(x, r) \in Held
           /\ FilledBy(x, r).of = r.of
           /\ \A f \in Fields :
                 FilledBy(x, r).now[f] = IF Fillable(r, f) /\ P # {}
                                         THEN resources[x][Max(P)].now[f] ELSE r.now[f]
<1>. DEFINE q == resources[x][Max(P)]
            new == [f \in Fields |-> IF r.now[f] = -1 THEN q.now[f] ELSE r.now[f]]
<1>1. \A h \in Held : h.now \in [Fields -> Int] /\ h = [id |-> h.id, of |-> h.of, now |-> h.now]
    BY DEF Held
<1>2. P # {} => q \in Held
    BY PositionsFacts DEF ResourcesTyped
<1>3. Inherited(r, x) = IF ~r.of.inherit \/ P = {} THEN r.now ELSE new
    BY SameArchFacts DEF Inherited
<1>. HIDE DEF q
<1>4. P # {} => new \in [Fields -> Int]
    BY <1>1, <1>2
<1>. HIDE DEF new
<1>5. Inherited(r, x) \in [Fields -> Int]
    BY <1>1, <1>3, <1>4
<1>6. CASE r.of.kind = call.kind
  <2>1. FilledBy(x, r) = [r EXCEPT !.now = Inherited(r, x)]
    BY <1>6 DEF FilledBy
  <2>2. FilledBy(x, r) \in Held /\ FilledBy(x, r).of = r.of /\ FilledBy(x, r).now = Inherited(r, x)
    BY <1>5, <2>1 DEF Held
  <2>3. ASSUME NEW f \in Fields
        PROVE  Inherited(r, x)[f] = IF Fillable(r, f) /\ P # {} THEN q.now[f] ELSE r.now[f]
    BY <1>3, <1>6 DEF Fillable, new
  <2>. QED BY <2>2, <2>3 DEF q
<1>7. CASE r.of.kind # call.kind
    BY <1>7 DEF FilledBy, Fillable
<1>. QED BY <1>6, <1>7

(* What one fills in is what is nearest.                                   *)
LEMMA FilledSourced ==
    ASSUME RelatedTyped, ResourcesTyped, NEW os \in Oses, NEW x \in Oses, x # os,
           NEW C, NEW u, LedBy(u, os, x, C),
           AllSourced(resources), ResourcesHeld(resources, C, os, call.kind),
           NEW r \in Elems(resources[os]), r \in Held
    PROVE  IsSourced(resources, os, FilledBy(x, r))
<1>. DEFINE P == Positions(Ofs(resources, x), r.of)
            q == resources[x][Max(P)]
            g == FilledBy(x, r)
<1>1. /\ g.of = r.of
      /\ \A f \in Fields : g.now[f] = IF Fillable(r, f) /\ P # {} THEN q.now[f] ELSE r.now[f]
    BY FilledFacts
<1>2. IsSourced(resources, os, r)
    BY DEF AllSourced
<1>3. ASSUME NEW f \in Fields, Fillable(r, f), P # {}
      PROVE  /\ r.of.inherit /\ r.of.fields[f] = -1
             /\ \E w \in AllWays(os) : Len(w) > 1 /\ OfferedOn(resources, w, r.of, f, q.now[f])
  <2>1. r.of.inherit /\ r.of.fields[f] = -1 /\ r.now[f] = -1 /\ r.of.kind = call.kind
    BY <1>2, <1>3 DEF Fillable, IsSourced
  <2>2. /\ q \in Elems(resources[x]) /\ q \in Held
        /\ q.of.kind = r.of.kind /\ q.of.arch = r.of.arch
        /\ Offered(Ofs(resources, x), r.of, f) = q.of.fields[f]
    BY <1>3, PositionsFacts DEF ResourcesTyped
  <2>3. /\ u \in AllWays(os) /\ Last(u) = x /\ Len(u) > 1
        /\ \A i \in 2..Len(u) - 1 : u[i] \in C /\ u[i] # os
    <3>1. u \in AllWays(os) /\ Last(u) = x /\ Len(u) \in Nat /\ Len(u) \geq 1 /\ u[1] = os
          /\ Last(u) = u[Len(u)]
      BY WayFacts DEF LedBy
    <3>2. Len(u) # 1
      BY <3>1
    <3>3. \A i \in 2..Len(u) - 1 : i \in 1..Len(u) - 1
      BY <3>1
    <3>. QED BY <3>1, <3>2, <3>3 DEF LedBy
  <2>4. \A i \in 2..Len(u) - 1 : Offered(Ofs(resources, u[i]), r.of, f) = -1
    BY <2>1, <2>3 DEF ResourcesHeld
  <2>5. OfferedOn(resources, u, r.of, f, q.of.fields[f])
    BY <2>2, <2>3, <2>4 DEF OfferedOn
  <2>6. CASE q.now[f] = q.of.fields[f]
    BY <2>1, <2>3, <2>5, <2>6
  <2>7. CASE q.now[f] # q.of.fields[f]
    <3>1. IsSourced(resources, x, q)
      BY <2>2 DEF AllSourced
    <3>2. q.of.fields[f] = -1
      BY <2>7, <3>1 DEF IsSourced
    <3>3. PICK w \in AllWays(x) : Len(w) > 1 /\ OfferedOn(resources, w, q.of, f, q.now[f])
      BY <2>7, <3>1 DEF IsSourced
    <3>4. \A fs : Offered(fs, q.of, f) = Offered(fs, r.of, f)
      <4>1. \A fs : Positions(fs, q.of) = Positions(fs, r.of)
        BY <2>2 DEF Positions
      <4>. QED BY <4>1 DEF Offered
    <3>5. OfferedOn(resources, w, r.of, f, q.now[f])
      BY <3>3, <3>4 DEF OfferedOn
    <3>6. \E z \in AllWays(os) : Len(z) > 1 /\ OfferedOn(resources, z, r.of, f, q.now[f])
      <4>1. w \in AllWays(Last(u)) /\ OfferedOn(resources, u, r.of, f, -1)
        BY <2>3, <2>5, <3>2
      <4>. QED BY <2>3, <3>3, <3>5, <4>1, OfferedFurther
    <3>. QED BY <2>1, <3>6
  <2>. QED BY <2>6, <2>7
<1>. HIDE DEF P, q, g
<1>4. ASSUME NEW f \in Fields
      PROVE  \/ g.now[f] = g.of.fields[f]
             \/ /\ g.of.inherit
                /\ g.of.fields[f] = -1
                /\ \E w \in AllWays(os) : Len(w) > 1 /\ OfferedOn(resources, w, g.of, f, g.now[f])
  <2>1. CASE Fillable(r, f) /\ P # {}
    BY <1>1, <1>3, <2>1
  <2>2. CASE ~(Fillable(r, f) /\ P # {})
    <3>1. g.now[f] = r.now[f]
      BY <1>1, <2>2
    <3>. QED BY <1>1, <1>2, <3>1 DEF IsSourced
  <2>. QED BY <2>1, <2>2
<1>. QED BY <1>4 DEF IsSourced, g

(* The resources after a visit of x for those of os.                       *)
FilledIn(os, x) ==
    [resources EXCEPT ![os] = [i \in 1..Len(resources[os]) |-> FilledBy(x, resources[os][i])]]

LEMMA FilledInFacts ==
    ASSUME ResourcesTyped, NEW os \in Oses, NEW x \in Oses, NEW Q, Q = FilledIn(os, x)
    PROVE  /\ Q \in [Oses -> Seq(Held)]
           /\ Elems(Q[os]) = {FilledBy(x, r) : r \in Elems(resources[os])}
           /\ \A o \in Oses : o # os => Q[o] = resources[o]
           /\ \A o \in Oses : Ofs(Q, o) = Ofs(resources, o)
<1>. DEFINE R == resources
            s == R[os]
            t == [i \in 1..Len(s) |-> FilledBy(x, s[i])]
<1>1. R \in [Oses -> Seq(Held)] /\ s \in Seq(Held) /\ \A i \in 1..Len(s) : s[i] \in Held
    BY InSeq DEF ResourcesTyped
<1>2. \A i \in 1..Len(s) : FilledBy(x, s[i]) \in Held /\ FilledBy(x, s[i]).of = s[i].of
    BY <1>1, FilledFacts
<1>3. t \in Seq(Held) /\ Len(t) = Len(s) /\ \A i \in 1..Len(s) : t[i] = FilledBy(x, s[i])
    BY <1>1, <1>2
<1>. HIDE DEF t
<1>4. Q \in [Oses -> Seq(Held)] /\ Q[os] = t /\ \A o \in Oses : o # os => Q[o] = R[o]
    BY <1>1, <1>3 DEF t, FilledIn
<1>5. Elems(t) = {FilledBy(x, r) : r \in Elems(s)}
    BY <1>1, <1>3 DEF Elems
<1>6. \A o \in Oses : Ofs(Q, o) = Ofs(R, o)
  <2>1. Ofs(Q, os) = Ofs(R, os)
    BY <1>1, <1>2, <1>3, <1>4 DEF Ofs
  <2>2. \A o \in Oses : o # os => Ofs(Q, o) = Ofs(R, o)
    BY <1>4 DEF Ofs
  <2>. QED BY <2>1, <2>2
<1>. QED BY <1>4, <1>5, <1>6

LEMMA ResourcesGoOn ==
    ASSUME RelatedTyped, ResourcesTyped, NEW os \in Oses, NEW x \in Oses, x # os,
           NEW C, C \subseteq Oses, NEW u, LedBy(u, os, x, C),
           AllSourced(resources), ResourcesHeld(resources, C, os, call.kind),
           NEW Q, Q = FilledIn(os, x)
    PROVE  AllSourced(Q) /\ ResourcesHeld(Q, C \cup {x}, os, call.kind)
<1>. DEFINE R == resources
            s == R[os]
<1>4. /\ R \in [Oses -> Seq(Held)] /\ Q \in [Oses -> Seq(Held)]
      /\ \A o \in Oses : o # os => Q[o] = R[o]
    BY FilledInFacts DEF ResourcesTyped
<1>5. Elems(Q[os]) = {FilledBy(x, r) : r \in Elems(s)} /\ Elems(s) \subseteq Held
  <2>1. s \in Seq(Held)
    BY <1>4
  <2>2. Elems(s) \subseteq Held
    BY <2>1, ElemsIn
  <2>. QED BY <2>2, FilledInFacts
<1>6. \A o \in Oses : Ofs(Q, o) = Ofs(R, o)
    BY FilledInFacts
<1>7. ASSUME NEW o \in Oses, NEW r, IsSourced(R, o, r)
      PROVE  IsSourced(Q, o, r)
  <2>1. ASSUME NEW w \in AllWays(o), NEW of, NEW f, NEW v, OfferedOn(R, w, of, f, v)
        PROVE  OfferedOn(Q, w, of, f, v)
    <3>1. /\ Last(w) \in Oses
          /\ \A i \in 2..Len(w) - 1 : w[i] \in Oses
      <4>1. \A i \in 2..Len(w) - 1 : i \in 1..Len(w)
        BY WayFacts
      <4>. QED BY <4>1, WayFacts
    <3>. QED BY <1>6, <2>1, <3>1 DEF OfferedOn
  <2>. QED BY <1>7, <2>1 DEF IsSourced
<1>8. AllSourced(Q)
  <2>1. ASSUME NEW r \in Elems(s) PROVE IsSourced(Q, os, FilledBy(x, r))
    <3>1. IsSourced(R, os, FilledBy(x, r))
      BY <1>5, FilledSourced
    <3>. QED BY <1>7, <3>1
  <2>2. ASSUME NEW o \in Oses, o # os, NEW r \in Elems(Q[o]) PROVE IsSourced(Q, o, r)
    BY <1>4, <1>7, <2>2 DEF AllSourced
  <2>. QED BY <1>4, <1>5, <2>1, <2>2 DEF AllSourced
<1>9. ASSUME NEW c \in C \cup {x}, c # os, NEW r \in Elems(s),
             FilledBy(x, r).of.kind = call.kind, FilledBy(x, r).of.inherit,
             NEW f \in Fields, FilledBy(x, r).now[f] = -1
      PROVE  Offered(Ofs(Q, c), FilledBy(x, r).of, f) = -1
  <2>. DEFINE P == Positions(Ofs(R, x), r.of)
              q == R[x][Max(P)]
  <2>1. /\ FilledBy(x, r).of = r.of
        /\ FilledBy(x, r).now[f] = IF Fillable(r, f) /\ P # {} THEN q.now[f] ELSE r.now[f]
    <3>1. r \in Held
      BY <1>5
    <3>. QED BY <3>1, FilledFacts
  <2>2. r.of.kind = call.kind /\ r.of.inherit /\ r.now[f] = -1 /\ (P # {} => q.now[f] = -1)
    BY <1>9, <2>1 DEF Fillable
  <2>3. c \in Oses /\ Ofs(Q, c) = Ofs(R, c)
    BY <1>6
  <2>4. CASE c \in C
    BY <1>9, <2>1, <2>2, <2>3, <2>4 DEF ResourcesHeld
  <2>5. CASE c = x /\ P = {}
    BY <2>1, <2>3, <2>5 DEF Offered
  <2>6. CASE c = x /\ P # {}
    <3>1. q \in Elems(R[x]) /\ Offered(Ofs(R, x), r.of, f) = q.of.fields[f]
      BY <2>6, PositionsFacts DEF ResourcesTyped
    <3>2. q.of.fields[f] = -1
      BY <2>2, <2>6, <3>1 DEF AllSourced, IsSourced
    <3>. QED BY <2>1, <2>3, <2>6, <3>1, <3>2
  <2>. QED BY <2>4, <2>5, <2>6
<1>10. \A g \in Elems(Q[os]) : \E r \in Elems(s) : g = FilledBy(x, r)
    BY <1>5
<1>11. ResourcesHeld(Q, C \cup {x}, os, call.kind)
  <2>. SUFFICES ASSUME NEW c \in C \cup {x}, c # os, NEW g \in Elems(Q[os]),
                       g.of.kind = call.kind, g.of.inherit, NEW f \in Fields, g.now[f] = -1
                PROVE  Offered(Ofs(Q, c), g.of, f) = -1
    BY DEF ResourcesHeld
  <2>1. PICK r \in Elems(s) : g = FilledBy(x, r)
    BY <1>10
  <2>. QED BY <1>9, <2>1
<1>. QED BY <1>8, <1>11

-------------------------------------------------------------------------------
(* Types                                                                   *)

LEMMA UnsupportedTyped ==
    ASSUME FirmwaresTyped, NEW x \in Oses, NEW s
    PROVE  UnsupportedOf(x) \in Seq(Firmware) /\ FirmwaresOf(x, s) \in Seq(Firmware)
<1>. DEFINE fs == firmwares[x]
            I == {i \in 1..Len(fs) : ~FirmwareSupported(fs[i])}
            J == {i \in 1..Len(fs) : Matches(fs[i]) /\ Lacks(s, fs[i])}
<1>1. UnsupportedOf(x) = At(fs, I) /\ FirmwaresOf(x, s) = At(fs, J)
    BY DEF Select, UnsupportedOf, FirmwaresOf
<1>2. fs \in Seq(Firmware) /\ I \subseteq 1..Len(fs) /\ J \subseteq 1..Len(fs)
    BY DEF FirmwaresTyped
<1>. HIDE DEF fs, I, J
<1>3. At(fs, I) \in Seq(Firmware)
    BY <1>2, AtFacts
<1>4. At(fs, J) \in Seq(Firmware)
    BY <1>2, AtFacts
<1>. QED BY <1>1, <1>3, <1>4

LEMMA CallbackTyped ==
    ASSUME TypeOK, NEW x \in Oses, call # NoCall, Callback(x)
    PROVE  /\ list' \in Seq(Collected(call.get))
           /\ other' \in Seq(Beside(call.get))
           /\ resources' \in [Oses -> Seq(Held)]
<1>. USE DEF TypeOK
<1>1. /\ LinksTyped /\ FirmwaresTyped /\ ResourcesTyped
      /\ call \in Call /\ call.get \in Getters /\ call.os \in Oses
    BY DEF LinksTyped, FirmwaresTyped, ResourcesTyped, Call
<1>2. CASE GetAllDevices(x)
  <2>1. call.get = "devices" /\ UNCHANGED resources
    BY <1>2 DEF GetAllDevices
  <2>2. list \in Seq([id : STRING]) /\ other \in Seq(Link)
    BY <2>1 DEF Collected, Beside
  <2>3. Union(list, DevicesOf(x)) \in Seq([id : STRING])
    BY <1>1, <2>2, DevicesOfFacts, UnionFacts
  <2>4. Union(other, LinksOf(x)) \in Seq(Link)
    BY <1>1, <2>2, LinksOfFacts, UnionFacts
  <2>. QED BY <1>2, <2>1, <2>2, <2>3, <2>4 DEF GetAllDevices, Collected, Beside
<1>3. CASE GetAllDeviceLinks(x)
  <2>1. call.get = "links" /\ UNCHANGED <<other, resources>> /\ list' = Union(list, LinksOf(x))
    BY <1>3 DEF GetAllDeviceLinks
  <2>2. list \in Seq(Link)
    BY <2>1 DEF Collected
  <2>3. Union(list, LinksOf(x)) \in Seq(Link)
    BY <1>1, <2>2, LinksOfFacts, UnionFacts
  <2>. QED BY <2>1, <2>3 DEF Collected
<1>4. CASE GetAllSupportedFirmwares(x)
  <2>. DEFINE p == Union(UnsupportedOf(x), other)
  <2>1. /\ call.get = "firmwares" /\ UNCHANGED resources
        /\ other' = p /\ list' = AddEach(list, FirmwaresOf(x, p))
    BY <1>4 DEF GetAllSupportedFirmwares
  <2>2. list \in Seq(Firmware) /\ other \in Seq(Firmware)
    BY <2>1 DEF Collected, Beside
  <2>3. p \in Seq(Firmware)
    BY <1>1, <2>2, UnsupportedTyped, UnionFacts
  <2>. HIDE DEF p
  <2>4. AddEach(list, FirmwaresOf(x, p)) \in Seq(Firmware)
    BY <1>1, <2>2, UnsupportedTyped, AddEachFacts
  <2>. QED BY <2>1, <2>3, <2>4 DEF Collected, Beside
<1>5. CASE GetAllFirmwares(x)
  <2>1. /\ call.get = "complete" /\ UNCHANGED <<other, resources>>
        /\ list' = AddEach(list, FirmwaresOf(x, list))
    BY <1>5 DEF GetAllFirmwares
  <2>2. list \in Seq(Firmware)
    BY <2>1 DEF Collected
  <2>3. AddEach(list, FirmwaresOf(x, list)) \in Seq(Firmware)
    BY <1>1, <2>2, UnsupportedTyped, AddEachFacts
  <2>. QED BY <2>1, <2>3 DEF Collected
<1>6. CASE GetCloudImageUsername(x)
  <2>1. /\ call.get = "username" /\ UNCHANGED <<other, resources>>
        /\ list' = IF list = <<>> /\ username[x] # None THEN <<username[x]>> ELSE list
    BY <1>6 DEF GetCloudImageUsername
  <2>2. list \in Seq(STRING) /\ username[x] \in STRING \cup {None}
    BY <2>1 DEF Collected, Attribute
  <2>3. list' \in Seq(STRING)
    <3>1. CASE list = <<>> /\ username[x] # None
      <4>1. username[x] \in STRING
        BY <2>2, <3>1
      <4>2. <<username[x]>> \in Seq(STRING)
        BY <4>1, OneInSeq
      <4>. QED BY <2>1, <3>1, <4>2
    <3>2. CASE ~(list = <<>> /\ username[x] # None)
      BY <2>1, <2>2, <3>2
    <3>. QED BY <3>1, <3>2
  <2>. QED BY <2>1, <2>3 DEF Collected
<1>7. CASE GetAllResources(x)
  <2>1. /\ call.get = "resources" /\ UNCHANGED <<list, other>>
        /\ resources' = resources \/ resources' = FilledIn(call.os, x)
    BY <1>7 DEF GetAllResources, FilledIn, FilledBy
  <2>2. FilledIn(call.os, x) \in [Oses -> Seq(Held)]
    BY <1>1, FilledInFacts
  <2>. QED BY <2>1, <2>2
<1>. QED BY <1>2, <1>3, <1>4, <1>5, <1>6, <1>7 DEF Callback

(* What a visit does to the stack.                                         *)
LEMMA VisitFacts ==
    ASSUME TypeOK, Visit
    PROVE  /\ call # NoCall /\ call \in Call /\ ~crashed
           /\ stack # <<>> /\ Last(stack) # <<>>
           /\ Head(Last(stack)) \in Oses
           /\ Callback(Head(Last(stack)))
           /\ stack' = Visited(stack, Head(Last(stack)))
           /\ stack' \in Seq(Seq(Oses)) /\ Len(stack') \leq MaxDepth + 1 /\ stack' # <<>>
<1>1. /\ call # NoCall /\ ~crashed /\ Last(stack) # <<>> /\ Len(stack) \leq MaxDepth
      /\ Callback(Head(Last(stack)))
      /\ stack' = Visited(stack, Head(Last(stack)))
    BY DEF Visit, ToVisit, Running, Visited
<1>2. call \in Call /\ stack \in Seq(Seq(Oses)) /\ stack # <<>> /\ RelatedTyped
    BY <1>1 DEF TypeOK, RelatedTyped
<1>3. PICK s \in Seq(Seq(Oses)) : s = stack
    BY <1>2
<1>4. PICK x : x = Head(Last(s))
    OBVIOUS
<1>5. x \in Oses /\ Visited(s, x) \in Seq(Seq(Oses)) /\ Len(Visited(s, x)) = Len(s) + 1
    BY <1>1, <1>2, <1>3, <1>4, VisitedFacts
<1>6. Len(stack') \leq MaxDepth + 1 /\ stack' # <<>>
  <2>1. Len(s) \in Nat /\ Len(s) \leq MaxDepth /\ MaxDepth \in Nat
    BY <1>1, <1>3, DepthAssumption
  <2>2. Len(stack') = Len(s) + 1
    BY <1>1, <1>3, <1>4, <1>5
  <2>3. Len(stack') \leq MaxDepth + 1 /\ Len(stack') # 0
    BY <2>1, <2>2
  <2>. QED BY <2>3
<1>. QED BY <1>1, <1>2, <1>3, <1>4, <1>5, <1>6

LEMMA FileFacts ==
    ASSUME NEW file \in Files
    PROVE  /\ File[file] \in FileRecord
           /\ File[file].os \in Oses
           /\ File[file].relations \in Seq(Relation)
           /\ File[file].username \in Attribute
           /\ File[file].links \in Seq(Link)
           /\ File[file].firmwares \in Seq(Firmware)
           /\ File[file].resources \in Seq(Resources)
BY FileAssumption DEF FileRecord

LEMMA ResourcesInFacts ==
    ASSUME NEW file \in Files
    PROVE  /\ ResourcesIn(File[file]) \in Seq(Held)
           /\ \A r \in Elems(ResourcesIn(File[file])) : r.now = r.of.fields
<1>. DEFINE s == File[file].resources
            I == {i \in 1..Len(s) : Made(s[i])}
            made == At(s, I)
            t == [i \in 1..Len(made) |-> NewResources(made[i])]
<1>1. s \in Seq(Resources) /\ I \subseteq 1..Len(s)
    BY FileFacts
<1>2. ResourcesIn(File[file]) = t
    BY DEF ResourcesIn, Select
<1>. HIDE DEF I, s
<1>3. made \in Seq(Resources)
    BY <1>1, AtFacts
<1>. HIDE DEF made
<1>4. \A r \in Resources : NewResources(r) \in Held /\ NewResources(r).now = NewResources(r).of.fields
    BY DEF NewResources, Held, Resources
<1>5. \A i \in 1..Len(made) : made[i] \in Resources
    BY <1>3, InSeq
<1>6. t \in Seq(Held) /\ Len(t) = Len(made) /\ \A i \in 1..Len(made) : t[i] = NewResources(made[i])
    BY <1>3, <1>4, <1>5
<1>. HIDE DEF t
<1>. QED BY <1>2, <1>4, <1>5, <1>6 DEF Elems

(* What the lists of an OS are once a file was read.                       *)
LEMMA LoadOsFacts ==
    ASSUME TypeOK, NEW file \in Files, LoadOs(file)
    PROVE  LET f == File[file]
           IN  /\ related' \in [Oses -> Seq(Relation)]
               /\ username' \in [Oses -> Attribute]
               /\ links' \in [Oses -> Seq(Link)]
               /\ \A os \in Oses : links'[os] = IF os = f.os THEN links[os] \o f.links ELSE links[os]
               /\ firmwares' \in [Oses -> Seq(Firmware)]
               /\ \A os \in Oses : firmwares'[os] = IF os = f.os
                                                   THEN AddEach(firmwares[os], f.firmwares)
                                                   ELSE firmwares[os]
               /\ resources' \in [Oses -> Seq(Held)]
               /\ \A os \in Oses : resources'[os] = IF os = f.os
                                                   THEN AddEach(resources[os], ResourcesIn(f))
                                                   ELSE resources[os]
<1>. DEFINE f == File[file]
            os == f.os
<1>1. /\ os \in Oses /\ f.relations \in Seq(Relation) /\ f.username \in Attribute
      /\ f.links \in Seq(Link) /\ f.firmwares \in Seq(Firmware)
      /\ ResourcesIn(f) \in Seq(Held)
    BY FileFacts, ResourcesInFacts
<1>2. /\ related' = [related EXCEPT ![os] = AddRelated(related[os], f.relations)]
      /\ username' = [username EXCEPT ![os] = IF f.username = None THEN username[os] ELSE f.username]
      /\ links' = [links EXCEPT ![os] = links[os] \o f.links]
      /\ firmwares' = [firmwares EXCEPT ![os] = AddEach(firmwares[os], f.firmwares)]
      /\ resources' = [resources EXCEPT ![os] = AddEach(resources[os], ResourcesIn(f))]
    BY DEF LoadOs
<1>. HIDE DEF f
<1>3. /\ related \in [Oses -> Seq(Relation)] /\ username \in [Oses -> Attribute]
      /\ links \in [Oses -> Seq(Link)] /\ firmwares \in [Oses -> Seq(Firmware)]
      /\ resources \in [Oses -> Seq(Held)]
    BY DEF TypeOK
<1>4. AddRelated(related[os], f.relations) \in Seq(Relation)
  <2>1. Reverse(f.relations) \in Seq(Relation)
    <3>1. ASSUME NEW S, NEW s \in Seq(S) PROVE Reverse(s) \in Seq(S)
      <4>1. \A i \in 1..Len(s) : s[(Len(s) - i) + 1] \in S
        OBVIOUS
      <4>2. Reverse(s) = [i \in 1..Len(s) |-> s[(Len(s) - i) + 1]]
        BY DEF Reverse
      <4>. QED BY <4>1, <4>2
    <3>. QED BY <1>1, <3>1
  <2>. QED BY <1>1, <1>3, <2>1 DEF AddRelated
<1>5. links[os] \o f.links \in Seq(Link)
    BY <1>1, <1>3
<1>6. AddEach(firmwares[os], f.firmwares) \in Seq(Firmware)
  <2>1. firmwares[os] \in Seq(Firmware)
    BY <1>1, <1>3
  <2>. QED BY <1>1, <2>1, AddEachFacts
<1>7. AddEach(resources[os], ResourcesIn(f)) \in Seq(Held)
  <2>1. resources[os] \in Seq(Held)
    BY <1>1, <1>3
  <2>. QED BY <1>1, <2>1, AddEachFacts
<1>. HIDE DEF os
<1>8. related' \in [Oses -> Seq(Relation)]
    BY <1>1, <1>2, <1>3, <1>4
<1>9. username' \in [Oses -> Attribute]
    BY <1>1, <1>2, <1>3
<1>10. /\ links' \in [Oses -> Seq(Link)]
       /\ \A o \in Oses : links'[o] = IF o = os THEN links[o] \o f.links ELSE links[o]
    BY <1>1, <1>2, <1>3, <1>5
<1>11. /\ firmwares' \in [Oses -> Seq(Firmware)]
       /\ \A o \in Oses : firmwares'[o] = IF o = os THEN AddEach(firmwares[o], f.firmwares)
                                         ELSE firmwares[o]
    BY <1>1, <1>2, <1>3, <1>6
<1>12. /\ resources' \in [Oses -> Seq(Held)]
       /\ \A o \in Oses : resources'[o] = IF o = os THEN AddEach(resources[o], ResourcesIn(f))
                                         ELSE resources[o]
    BY <1>1, <1>2, <1>3, <1>7
<1>. QED BY <1>8, <1>9, <1>10, <1>11, <1>12 DEF f, os

LEMMA TypeOKInit == Init => TypeOK
<1>. SUFFICES ASSUME Init PROVE TypeOK
    OBVIOUS
<1>1. /\ related \in [Oses -> Seq(Relation)]
      /\ username \in [Oses -> Attribute]
      /\ links \in [Oses -> Seq(Link)]
      /\ firmwares \in [Oses -> Seq(Firmware)]
      /\ resources \in [Oses -> Seq(Held)]
  <2>1. ASSUME NEW S PROVE <<>> \in Seq(S)
    OBVIOUS
  <2>. HIDE DEF Relation, Link, Firmware, Held
  <2>. QED BY <2>1 DEF Init, Attribute
<1>2. /\ stack = <<>> /\ list = <<>> /\ other = <<>> /\ call = NoCall
      /\ unread = Files /\ asked = "not" /\ ~crashed
    BY DEF Init
<1>3. stack \in Seq(Seq(Oses)) /\ Len(stack) \leq MaxDepth + 1
  <2>1. Len(<<>>) = 0
    OBVIOUS
  <2>2. 0 \leq MaxDepth + 1
    BY DepthAssumption
  <2>. QED BY <1>2, <2>1, <2>2
<1>4. list \in Seq(Collected(call.get)) /\ other \in Seq(Beside(call.get))
  <2>1. ASSUME NEW S PROVE <<>> \in Seq(S)
    OBVIOUS
  <2>. QED BY <1>2, <2>1
<1>. QED BY <1>1, <1>2, <1>3, <1>4 DEF TypeOK

LEMMA TypeOKNext == TypeOK /\ [Next]_vars => TypeOK'
<1>. SUFFICES ASSUME TypeOK, [Next]_vars PROVE TypeOK'
    OBVIOUS
<1>0. ASSUME NEW S PROVE <<>> \in Seq(S)
    OBVIOUS
<1>1. ASSUME NEW file \in Files, LoadOs(file)
      PROVE  TypeOK'
  <2>1. /\ UNCHANGED <<call, stack, list, other, crashed>>
        /\ unread' \subseteq Files
        /\ asked' \in {"not", "asked", "loaded then"}
    BY <1>1 DEF LoadOs, TypeOK
  <2>2. /\ related' \in [Oses -> Seq(Relation)]
        /\ username' \in [Oses -> Attribute]
        /\ links' \in [Oses -> Seq(Link)]
        /\ firmwares' \in [Oses -> Seq(Firmware)]
        /\ resources' \in [Oses -> Seq(Held)]
    BY <1>1, LoadOsFacts
  <2>. QED BY <2>1, <2>2 DEF TypeOK
<1>2. ASSUME NEW get \in Getters, NEW os \in Oses, NEW kind \in Kinds \cup {None},
             NEW filter \in Filters \cup {None}, Get(get, os, kind, filter)
      PROVE  TypeOK'
  <2>1. /\ call' = [get |-> get, os |-> os, kind |-> kind, filter |-> filter, walk |-> 1]
        /\ stack' = <<<<os>>>> /\ list' = <<>> /\ other' = <<>>
        /\ UNCHANGED <<osVars, resources, crashed, asked>>
        /\ ~crashed
    BY <1>2 DEF Get, Idle
  <2>2. call' \in Call /\ call' # NoCall
    <3>1. call' \in Call
      BY <2>1 DEF Call
    <3>2. call'.get = get /\ get # "nothing"
      BY <2>1 DEF Getters
    <3>3. NoCall.get = "nothing"
      BY DEF NoCall
    <3>. QED BY <3>1, <3>2, <3>3
  <2>3. stack' \in Seq(Seq(Oses)) /\ Len(stack') \leq MaxDepth + 1 /\ stack' # <<>>
    <3>1. <<<<os>>>> \in Seq(Seq(Oses)) /\ Len(<<<<os>>>>) = 1
      OBVIOUS
    <3>2. 1 \leq MaxDepth + 1
      BY DepthAssumption
    <3>. QED BY <2>1, <3>1, <3>2
  <2>4. list' \in Seq(Collected(call'.get)) /\ other' \in Seq(Beside(call'.get))
    BY <1>0, <2>1
  <2>5. asked' \in {"not", "asked", "loaded then"} /\ unread' \subseteq Files
    BY <2>1 DEF TypeOK, osVars
  <2>. QED BY <2>1, <2>2, <2>3, <2>4, <2>5 DEF TypeOK, osVars
<1>3. CASE Visit
  <2>1. /\ call # NoCall /\ call \in Call /\ ~crashed
        /\ Head(Last(stack)) \in Oses
        /\ Callback(Head(Last(stack)))
        /\ stack' \in Seq(Seq(Oses)) /\ Len(stack') \leq MaxDepth + 1 /\ stack' # <<>>
    BY <1>3, VisitFacts
  <2>2. UNCHANGED <<osVars, call, crashed, answer, asked>>
    BY <1>3 DEF Visit
  <2>3. /\ list' \in Seq(Collected(call.get))
        /\ other' \in Seq(Beside(call.get))
        /\ resources' \in [Oses -> Seq(Held)]
    BY <2>1, CallbackTyped
  <2>. QED BY <2>1, <2>2, <2>3 DEF TypeOK, osVars
<1>4. CASE Overflow
    BY <1>4 DEF Overflow, ToVisit, Running, TypeOK, osVars
<1>5. CASE Leave
  <2>1. /\ call # NoCall /\ stack' = Front(stack) /\ Len(stack) > 1 /\ Last(stack) = <<>>
        /\ UNCHANGED <<osVars, resources, call, list, other, crashed, answer, asked>>
    BY <1>5 DEF Leave, Running
  <2>2. stack' \in Seq(Seq(Oses)) /\ Len(stack') = Len(stack) - 1
    <3>1. stack \in Seq(Seq(Oses)) /\ stack # <<>>
      BY <2>1 DEF TypeOK
    <3>. QED BY <2>1, <3>1, WalkReturns
  <2>3. Len(stack') \leq MaxDepth + 1 /\ stack' # <<>>
    <3>1. stack \in Seq(Seq(Oses)) /\ Len(stack) \leq MaxDepth + 1 /\ MaxDepth \in Nat
      BY DepthAssumption DEF TypeOK
    <3>2. PICK n \in Nat : n = Len(stack)
      BY <3>1
    <3>3. n > 1 /\ n \leq MaxDepth + 1
      BY <2>1, <3>1, <3>2
    <3>4. n - 1 \leq MaxDepth + 1 /\ n - 1 # 0
      BY <3>1, <3>3
    <3>. QED BY <2>2, <3>2, <3>4
  <2>. QED BY <2>1, <2>2, <2>3 DEF TypeOK, osVars
<1>6. CASE SecondWalk
  <2>1. /\ call # NoCall /\ call' = [call EXCEPT !.walk = 2] /\ stack' = <<<<call.os>>>>
        /\ UNCHANGED <<osVars, resources, list, other, crashed, answer, asked>>
        /\ ~crashed
    BY <1>6 DEF SecondWalk, WalkEnded, Running
  <2>2. call \in Call /\ call.os \in Oses /\ call.get \in Getters
    BY <2>1 DEF TypeOK, Call
  <2>3. call' \in Call /\ call'.get = call.get
    BY <2>1, <2>2 DEF Call
  <2>4. call' # NoCall
    <3>1. NoCall.get = "nothing"
      BY DEF NoCall
    <3>. QED BY <2>2, <2>3, <3>1 DEF Getters
  <2>5. stack' \in Seq(Seq(Oses)) /\ Len(stack') \leq MaxDepth + 1 /\ stack' # <<>>
    <3>1. ASSUME NEW os \in Oses
          PROVE  <<<<os>>>> \in Seq(Seq(Oses)) /\ Len(<<<<os>>>>) = 1
      OBVIOUS
    <3>2. 1 \leq MaxDepth + 1
      BY DepthAssumption
    <3>. QED BY <2>1, <2>2, <3>1, <3>2
  <2>. QED BY <2>1, <2>3, <2>4, <2>5 DEF TypeOK, osVars
<1>7. CASE Return
  <2>1. /\ call' = NoCall /\ stack' = <<>> /\ list' = <<>> /\ other' = <<>>
        /\ UNCHANGED <<osVars, resources, crashed>>
        /\ ~crashed
        /\ asked' = IF call.get = "resources" /\ asked = "not" THEN "asked" ELSE asked
    BY <1>7 DEF Return, WalkEnded, Running
  <2>2. stack' \in Seq(Seq(Oses)) /\ Len(stack') \leq MaxDepth + 1
    <3>1. Len(<<>>) = 0
      OBVIOUS
    <3>2. 0 \leq MaxDepth + 1
      BY DepthAssumption
    <3>. QED BY <2>1, <3>1, <3>2
  <2>3. list' \in Seq(Collected(call'.get)) /\ other' \in Seq(Beside(call'.get))
    BY <1>0, <2>1
  <2>4. asked' \in {"not", "asked", "loaded then"}
    BY <2>1 DEF TypeOK
  <2>. QED BY <2>1, <2>2, <2>3, <2>4 DEF TypeOK, osVars
<1>8. CASE UNCHANGED vars
    BY <1>8 DEF vars, osVars, TypeOK
<1>. QED BY <1>1, <1>2, <1>3, <1>4, <1>5, <1>6, <1>7, <1>8 DEF Next, Walk, Getters

THEOREM TypeCorrect == Spec => []TypeOK
<1>1. Init => TypeOK
    BY TypeOKInit
<1>2. TypeOK /\ [Next]_vars => TypeOK'
    BY TypeOKNext
<1>. QED BY <1>1, <1>2, PTL DEF Spec

-------------------------------------------------------------------------------
(* The inductive invariant                                                 *)

(* What an OS lists is of its files, and no two firmwares have an id.      *)
FromFiles ==
    /\ \A os \in Oses : \A l \in Elems(links[os]) : \E f \in Files : l \in Elems(File[f].links)
    /\ \A os \in Oses : \A x \in Elems(firmwares[os]) :
          \E f \in Files : File[f].os = os /\ x \in Elems(File[f].firmwares)
    /\ \A os \in Oses : UniqueIds(Elems(firmwares[os]))

(* What the resources are.                                                 *)
AsWritten(R) == \A os \in Oses : \A r \in Elems(R[os]) : r.now = r.of.fields

FieldsSourced ==
    /\ asked # "loaded then" => AllSourced(resources)
    /\ asked = "not" /\ call.get # "resources" => AsWritten(resources)

(* s has the user name of the nearest OS on a way that has one.            *)
NamedHeld(C, os, s) ==
    /\ s = <<>> => \A c \in C : username[c] = None
    /\ s # <<>> => \E w \in AllWays(os) : /\ username[Last(w)] = s[1]
                                         /\ \A i \in 1..Len(w) - 1 : username[w[i]] = None

AllDevicesHeld(os, s, filter) ==
    \E D : DevicesHeld(D, os, s, filter) /\ \A w \in AllWays(os) : Last(w) \in D

(* What the getter that runs has collected of C.                           *)
Gathered(C) ==
    LET os == call.os
    IN  /\ call.get = "username" => NamedHeld(C, os, list)
        /\ call.get = "links" => LinksHeld(C, os, list, call.filter)
        /\ call.get = "devices" /\ call.walk = 1 =>
              other = <<>> /\ DevicesHeld(C, os, list, call.filter)
        /\ call.get = "devices" /\ call.walk = 2 =>
              LinksHeld(C, os, other, call.filter) /\ AllDevicesHeld(os, list, call.filter)
        /\ call.get = "firmwares" => FirmwaresHeld(C, os, list, other, call.filter)
        /\ call.get = "complete" => CompleteHeld(C, os, list, call.filter)
        /\ call.get = "resources" /\ asked # "loaded then" =>
              ResourcesHeld(resources, C, os, call.kind)

GetterRuns ==
    call # NoCall => /\ answer = NoAnswer
                     /\ \E C : Walked(C, call.os, stack) /\ Gathered(C)

(* C are the OSes to which a way leads.                                    *)
Reached(C, os) ==
    /\ C \subseteq Oses
    /\ \A w \in AllWays(os) : \A i \in 1..Len(w) : w[i] \in C
    /\ \A c \in C : \E w \in AllWays(os) : Last(w) = c

(* The answer is made of what was collected of them: s, and o beside it.   *)
AnsweredFrom(C, s, o) ==
    LET os == answer.os
        filter == answer.filter
        elems == Elems(answer.list)
    IN  /\ os \in Oses /\ filter \in Filters \cup {None} /\ Reached(C, os)
        /\ DOMAIN answer.list = 1..Len(answer.list)
        /\ answer.get = "username" => NamedHeld(C, os, answer.list)
        /\ answer.get = "links" =>
              LinksHeld(C, os, s, filter) /\ elems = {l \in Elems(s) : LinkSupported(l)}
        /\ answer.get = "devices" =>
              /\ LinksHeld(C, os, o, filter) /\ AllDevicesHeld(os, s, filter)
              /\ elems = {d \in Elems(s) : \A l \in Elems(o) : l.id = d.id => LinkSupported(l)}
        /\ answer.get = "firmwares" => FirmwaresHeld(C, os, answer.list, o, filter)
        /\ answer.get = "complete" => CompleteHeld(C, os, answer.list, filter)
        /\ answer.get = "resources" /\ asked # "loaded then" =>
              \E kind : /\ ResourcesHeld(resources, C, os, kind)
                        /\ elems = {r \in Elems(resources[os]) : r.of.kind = kind}

AnswerHolds == answer # NoAnswer => \E C, s, o : AnsweredFrom(C, s, o)

IInv == TypeOK /\ FromFiles /\ FieldsSourced /\ GetterRuns /\ AnswerHolds

-------------------------------------------------------------------------------
(* It holds                                                                *)

LEMMA FirmwaresUnique == FromFiles => UniqueIds(AllFirmwares)
<1>. SUFFICES ASSUME FromFiles, NEW o \in Oses, NEW x \in Elems(firmwares[o]),
                     NEW p \in Oses, NEW y \in Elems(firmwares[p]), x.id = y.id
              PROVE  x = y
    BY DEF UniqueIds, AllFirmwares
<1>1. PICK f \in Files : File[f].os = o /\ x \in Elems(File[f].firmwares)
    BY DEF FromFiles
<1>2. PICK g \in Files : File[g].os = p /\ y \in Elems(File[g].firmwares)
    BY DEF FromFiles
<1>3. \A h \in Files : ToSet(File[h].firmwares) = Elems(File[h].firmwares)
    BY FileFacts DEF ToSet, Elems
<1>4. o = p
    BY <1>1, <1>2, <1>3, FirmwareAssumption
<1>. QED BY <1>4 DEF FromFiles, UniqueIds

(* What is said of the lists and of the ways stays so until more is loaded.*)
LEMMA SameLists ==
    ASSUME UNCHANGED osVars
    PROVE  /\ \A os : AllWays(os)' = AllWays(os)
           /\ \A u, os, x, C : LedBy(u, os, x, C)' <=> LedBy(u, os, x, C)
           /\ \A C, os, s : Walked(C, os, s)' <=> Walked(C, os, s)
           /\ \A C, os, s : NamedHeld(C, os, s)' <=> NamedHeld(C, os, s)
           /\ \A C, os, s, F : LinksHeld(C, os, s, F)' <=> LinksHeld(C, os, s, F)
           /\ \A C, os, s, F : DevicesHeld(C, os, s, F)' <=> DevicesHeld(C, os, s, F)
           /\ \A os, s, F : AllDevicesHeld(os, s, F)' <=> AllDevicesHeld(os, s, F)
           /\ \A C, os, s, o, F : FirmwaresHeld(C, os, s, o, F)' <=> FirmwaresHeld(C, os, s, o, F)
           /\ \A C, os, s, F : CompleteHeld(C, os, s, F)' <=> CompleteHeld(C, os, s, F)
           /\ \A R : AllSourced(R)' <=> AllSourced(R)
<1>1. /\ related' = related /\ username' = username /\ links' = links
      /\ firmwares' = firmwares
    BY DEF osVars
<1>2. \A os : Parents(os)' = Parents(os)
    BY <1>1 DEF Parents
<1>3. \A os : AllWays(os)' = AllWays(os)
    BY <1>2 DEF AllWays
<1>4. \A u, os, x, C : LedBy(u, os, x, C)' <=> LedBy(u, os, x, C)
    BY <1>3 DEF LedBy
<1>5. \A C, os, s : Walked(C, os, s)' <=> Walked(C, os, s)
    BY <1>2, <1>3, <1>4 DEF Walked
<1>6. \A C, os, s : NamedHeld(C, os, s)' <=> NamedHeld(C, os, s)
    BY <1>1, <1>3 DEF NamedHeld
<1>7. \A w, l, F : NearestOn(w, l, F)' <=> NearestOn(w, l, F)
  <2>1. \A os, l, F : LatestLink(os, l, F)' <=> LatestLink(os, l, F)
    BY <1>1 DEF LatestLink
  <2>2. \A os, d, F : HasLink(os, d, F)' <=> HasLink(os, d, F)
    BY <1>1 DEF HasLink
  <2>. QED BY <2>1, <2>2 DEF NearestOn
<1>8. \A C, os, s, F : LinksHeld(C, os, s, F)' <=> LinksHeld(C, os, s, F)
    BY <1>1, <1>3, <1>7 DEF LinksHeld
<1>9. \A C, os, s, F : DevicesHeld(C, os, s, F)' <=> DevicesHeld(C, os, s, F)
    BY <1>1, <1>3, <1>7 DEF DevicesHeld
<1>10. \A os, s, F : AllDevicesHeld(os, s, F)' <=> AllDevicesHeld(os, s, F)
    BY <1>3, <1>9 DEF AllDevicesHeld
<1>11. \A C, os, s, o, F : FirmwaresHeld(C, os, s, o, F)' <=> FirmwaresHeld(C, os, s, o, F)
  <2>1. \A w, f, F : SupportedOn(w, f, F)' <=> SupportedOn(w, f, F)
    BY <1>1 DEF SupportedOn
  <2>. QED BY <1>1, <1>3, <2>1 DEF FirmwaresHeld
<1>12. \A C, os, s, F : CompleteHeld(C, os, s, F)' <=> CompleteHeld(C, os, s, F)
  <2>1. \A w, f, F : FirstOn(w, f, F)' <=> FirstOn(w, f, F)
    BY <1>1 DEF FirstOn
  <2>. QED BY <1>1, <1>3, <2>1 DEF CompleteHeld
<1>13. \A R : AllSourced(R)' <=> AllSourced(R)
  <2>1. \A R, os, r : IsSourced(R, os, r)' <=> IsSourced(R, os, r)
    BY <1>3 DEF IsSourced
  <2>. QED BY <2>1 DEF AllSourced
<1>. QED BY <1>3, <1>4, <1>5, <1>6, <1>8, <1>9, <1>10, <1>11, <1>12, <1>13

LEMMA NamedGoesOn ==
    ASSUME NEW os \in Oses, NEW x \in Oses, NEW C, NEW s, NamedHeld(C, os, s),
           NEW u, LedBy(u, os, x, C),
           NEW t, t = IF s = <<>> /\ username[x] # None THEN <<username[x]>> ELSE s
    PROVE  NamedHeld(C \cup {x}, os, t)
<1>1. CASE s = <<>> /\ username[x] # None
  <2>1. t # <<>> /\ t[1] = username[x]
    BY <1>1
  <2>2. \A c \in C : username[c] = None
    BY <1>1 DEF NamedHeld
  <2>3. /\ u \in AllWays(os) /\ username[Last(u)] = t[1]
        /\ \A i \in 1..Len(u) - 1 : username[u[i]] = None
    BY <2>1, <2>2 DEF LedBy
  <2>. QED BY <2>1, <2>3 DEF NamedHeld
<1>2. CASE ~(s = <<>> /\ username[x] # None)
    BY <1>2 DEF NamedHeld
<1>. QED BY <1>1, <1>2

(* A visit keeps what is collected true of one more OS.                    *)
LEMMA VisitGathers ==
    ASSUME TypeOK, FromFiles, FieldsSourced, Visit,
           NEW C, Walked(C, call.os, stack), Gathered(C)
    PROVE  /\ FieldsSourced'
           /\ \E D : Walked(D, call.os, stack)' /\ Gathered(D)'
<1>a. PICK os : os = call.os
    OBVIOUS
<1>b. PICK x : x = Head(Last(stack))
    OBVIOUS
<1>. DEFINE D == C \cup {x}
<1>1. /\ call # NoCall /\ call \in Call /\ os \in Oses /\ x \in Oses
      /\ stack \in Seq(Seq(Oses)) /\ stack # <<>> /\ Last(stack) # <<>>
      /\ stack' = Visited(stack, x)
      /\ Callback(x)
      /\ RelatedTyped /\ LinksTyped /\ FirmwaresTyped /\ ResourcesTyped
      /\ list \in Seq(Collected(call.get)) /\ other \in Seq(Beside(call.get))
    BY <1>a, <1>b, VisitFacts DEF TypeOK, RelatedTyped, LinksTyped, FirmwaresTyped, ResourcesTyped, Call
<1>2. UNCHANGED osVars /\ UNCHANGED <<call, asked>>
    BY DEF Visit
<1>3. Walked(D, os, Visited(stack, x)) /\ \E u : LedBy(u, os, x, C)
  <2>1. PICK s \in Seq(Seq(Oses)) : s = stack
    BY <1>1
  <2>2. s # <<>> /\ Last(s) # <<>> /\ x = Head(Last(s)) /\ Walked(C, os, s)
    BY <1>1, <1>a, <1>b, <2>1
  <2>3. Walked(C \cup {x}, os, Visited(s, x)) /\ \E u : LedBy(u, os, x, C)
    BY <1>1, <2>2, WalkGoesOn
  <2>. QED BY <2>1, <2>3
<1>4. PICK u : LedBy(u, os, x, C)
    BY <1>3
<1>5. C \subseteq Oses
    BY DEF Walked
<1>6. Walked(D, call.os, stack)'
    BY <1>1, <1>2, <1>3, <1>a, SameLists
<1>7. UniqueIds(AllFirmwares)
    BY FirmwaresUnique
<1>8. UNCHANGED resources => FieldsSourced'
    BY <1>2, SameLists DEF FieldsSourced, AsWritten
<1>. HIDE DEF D
<1>9. CASE GetAllDevices(x)
  <2>1. /\ call.get = "devices" /\ UNCHANGED resources
        /\ IF call.walk = 1
           THEN list' = Union(list, DevicesOf(x)) /\ UNCHANGED other
           ELSE other' = Union(other, LinksOf(x)) /\ UNCHANGED list
    BY <1>9 DEF GetAllDevices
  <2>2. list \in Seq([id : STRING]) /\ other \in Seq(Link) /\ call.walk \in {1, 2}
    BY <1>1, <2>1 DEF Collected, Beside, Call
  <2>3. CASE call.walk = 1
    <3>1. other = <<>> /\ DevicesHeld(C, os, list, call.filter)
      BY <1>a, <2>1, <2>3 DEF Gathered
    <3>2. DevicesHeld(D, os, Union(list, DevicesOf(x)), call.filter)
      BY <1>1, <1>4, <2>2, <3>1, DevicesGoOn DEF D
    <3>3. other' = <<>> /\ DevicesHeld(D, call.os, list, call.filter)'
      BY <1>a, <1>2, <2>1, <2>3, <3>1, <3>2, SameLists
    <3>4. call'.get = "devices" /\ call'.walk # 2
      BY <1>2, <2>1, <2>3
    <3>5. Gathered(D)'
      BY <3>3, <3>4 DEF Gathered
    <3>. QED BY <1>6, <1>8, <2>1, <3>5
  <2>4. CASE call.walk = 2
    <3>1. LinksHeld(C, os, other, call.filter) /\ AllDevicesHeld(os, list, call.filter)
      BY <1>a, <2>1, <2>4 DEF Gathered
    <3>2. LinksHeld(D, os, Union(other, LinksOf(x)), call.filter)
      BY <1>1, <1>4, <2>2, <3>1, LinksGoOn DEF D
    <3>3. LinksHeld(D, call.os, other, call.filter)' /\ AllDevicesHeld(call.os, list, call.filter)'
      BY <1>a, <1>2, <2>1, <2>4, <3>1, <3>2, SameLists
    <3>4. call'.get = "devices" /\ call'.walk # 1
      BY <1>2, <2>1, <2>4
    <3>5. Gathered(D)'
      BY <3>3, <3>4 DEF Gathered
    <3>. QED BY <1>6, <1>8, <2>1, <3>5
  <2>. QED BY <2>2, <2>3, <2>4
<1>10. CASE GetAllDeviceLinks(x)
  <2>1. call.get = "links" /\ UNCHANGED <<other, resources>> /\ list' = Union(list, LinksOf(x))
    BY <1>10 DEF GetAllDeviceLinks
  <2>2. list \in Seq(Link) /\ LinksHeld(C, os, list, call.filter)
    BY <1>a, <1>1, <2>1 DEF Collected, Gathered
  <2>3. LinksHeld(D, os, Union(list, LinksOf(x)), call.filter)
    BY <1>1, <1>4, <2>2, LinksGoOn DEF D
  <2>4. LinksHeld(D, call.os, list, call.filter)' /\ call'.get = "links"
    BY <1>a, <1>2, <2>1, <2>3, SameLists
  <2>5. Gathered(D)'
    BY <2>4 DEF Gathered
  <2>. QED BY <1>6, <1>8, <2>1, <2>5
<1>11. CASE GetAllSupportedFirmwares(x)
  <2>. DEFINE p == Union(UnsupportedOf(x), other)
              t == AddEach(list, FirmwaresOf(x, p))
  <2>1. call.get = "firmwares" /\ UNCHANGED resources /\ other' = p /\ list' = t
    BY <1>11 DEF GetAllSupportedFirmwares
  <2>2. /\ list \in Seq(Firmware) /\ other \in Seq(Firmware)
        /\ FirmwaresHeld(C, os, list, other, call.filter)
    BY <1>a, <1>1, <2>1 DEF Collected, Beside, Gathered
  <2>3. FirmwaresHeld(D, os, t, p, call.filter)
    BY <1>1, <1>4, <1>5, <1>7, <2>2, FirmwaresGoOn DEF D
  <2>4. FirmwaresHeld(D, call.os, list, other, call.filter)' /\ call'.get = "firmwares"
    BY <1>a, <1>2, <2>1, <2>3, SameLists
  <2>5. Gathered(D)'
    BY <2>4 DEF Gathered
  <2>. QED BY <1>6, <1>8, <2>1, <2>5
<1>12. CASE GetAllFirmwares(x)
  <2>. DEFINE t == AddEach(list, FirmwaresOf(x, list))
  <2>1. call.get = "complete" /\ UNCHANGED <<other, resources>> /\ list' = t
    BY <1>12 DEF GetAllFirmwares
  <2>2. list \in Seq(Firmware) /\ CompleteHeld(C, os, list, call.filter)
    BY <1>a, <1>1, <2>1 DEF Collected, Gathered
  <2>3. CompleteHeld(D, os, t, call.filter)
    BY <1>1, <1>4, <1>5, <1>7, <2>2, CompleteGoesOn DEF D
  <2>4. CompleteHeld(D, call.os, list, call.filter)' /\ call'.get = "complete"
    BY <1>a, <1>2, <2>1, <2>3, SameLists
  <2>5. Gathered(D)'
    BY <2>4 DEF Gathered
  <2>. QED BY <1>6, <1>8, <2>1, <2>5
<1>13. CASE GetCloudImageUsername(x)
  <2>. DEFINE t == IF list = <<>> /\ username[x] # None THEN <<username[x]>> ELSE list
  <2>1. call.get = "username" /\ UNCHANGED <<other, resources>> /\ list' = t
    BY <1>13 DEF GetCloudImageUsername
  <2>2. NamedHeld(C, os, list)
    BY <1>a, <2>1 DEF Gathered
  <2>3. NamedHeld(D, os, t)
    BY <1>1, <1>4, <2>2, NamedGoesOn DEF D
  <2>4. NamedHeld(D, call.os, list)' /\ call'.get = "username"
    BY <1>a, <1>2, <2>1, <2>3, SameLists
  <2>5. Gathered(D)'
    BY <2>4 DEF Gathered
  <2>. QED BY <1>6, <1>8, <2>1, <2>5
<1>14. CASE GetAllResources(x)
  <2>1. call.get = "resources" /\ call'.get = "resources" /\ call'.os = os
        /\ call'.kind = call.kind /\ asked' = asked
    BY <1>a, <1>2, <1>14 DEF GetAllResources
  <2>2. asked # "loaded then" => AllSourced(resources) /\ ResourcesHeld(resources, C, os, call.kind)
    BY <1>a, <2>1 DEF FieldsSourced, Gathered
  <2>3. asked # "loaded then" =>
           AllSourced(resources') /\ ResourcesHeld(resources', D, os, call.kind)
    <3>1. CASE x = os
      <4>1. resources' = resources
        BY <1>a, <1>14, <3>1 DEF GetAllResources
      <4>. QED BY <2>2, <3>1, <4>1 DEF ResourcesHeld, D
    <3>2. CASE x # os
      <4>1. PICK Q : Q = FilledIn(os, x)
        OBVIOUS
      <4>2. resources' = Q
        BY <1>a, <1>14, <3>2, <4>1 DEF GetAllResources, FilledIn, FilledBy
      <4>. QED BY <1>1, <1>4, <1>5, <2>2, <3>2, <4>1, <4>2, ResourcesGoOn DEF D
    <3>. QED BY <3>1, <3>2
  <2>4. FieldsSourced'
    BY <1>2, <2>1, <2>3, SameLists DEF FieldsSourced
  <2>5. Gathered(D)'
    BY <2>1, <2>3 DEF Gathered
  <2>. QED BY <1>6, <2>4, <2>5
<1>. QED BY <1>1, <1>9, <1>10, <1>11, <1>12, <1>13, <1>14 DEF Callback

LEMMA IInvInit == Init => IInv
<1>. SUFFICES ASSUME Init PROVE IInv
    OBVIOUS
<1>1. TypeOK
    BY TypeOKInit
<1>2. Elems(<<>>) = {}
    BY DEF Elems
<1>3. \A os \in Oses : /\ Elems(links[os]) = {}
                      /\ Elems(firmwares[os]) = {}
                      /\ Elems(resources[os]) = {}
    BY <1>2 DEF Init
<1>4. FromFiles
    BY <1>3 DEF FromFiles, UniqueIds
<1>5. FieldsSourced
    BY <1>3 DEF FieldsSourced, AllSourced, AsWritten
<1>6. GetterRuns /\ AnswerHolds
    BY DEF Init, GetterRuns, AnswerHolds
<1>. QED BY <1>1, <1>4, <1>5, <1>6 DEF IInv

LEMMA LoadOsKeeps ==
    ASSUME TypeOK, FromFiles, FieldsSourced, NEW file \in Files, LoadOs(file)
    PROVE  FromFiles' /\ FieldsSourced' /\ GetterRuns'
<1>. DEFINE f == File[file]
<1>1. /\ call = NoCall /\ call' = call
      /\ asked' = IF asked = "not" THEN "not" ELSE "loaded then"
    BY DEF LoadOs, Idle
<1>2. /\ \A os \in Oses : links'[os] = IF os = f.os THEN links[os] \o f.links ELSE links[os]
      /\ \A os \in Oses : firmwares'[os] = IF os = f.os
                                          THEN AddEach(firmwares[os], f.firmwares)
                                          ELSE firmwares[os]
      /\ \A os \in Oses : resources'[os] = IF os = f.os
                                          THEN AddEach(resources[os], ResourcesIn(f))
                                          ELSE resources[os]
    BY LoadOsFacts
<1>3. /\ f.os \in Oses /\ f.links \in Seq(Link) /\ f.firmwares \in Seq(Firmware)
      /\ ResourcesIn(f) \in Seq(Held)
      /\ \A r \in Elems(ResourcesIn(f)) : r.now = r.of.fields
    BY FileFacts, ResourcesInFacts
<1>4. \A os \in Oses : /\ links[os] \in Seq(Link)
                      /\ firmwares[os] \in Seq(Firmware)
                      /\ resources[os] \in Seq(Held)
    BY DEF TypeOK
<1>. HIDE DEF f
<1>5. ASSUME NEW S, NEW s \in Seq(S), NEW t \in Seq(S)
      PROVE  Elems(AddEach(s, t)) \subseteq Elems(s) \cup Elems(t)
  <2>1. Elems(AddEach(s, t)) = Kept(s, t, Len(t)) \cup Latest(t, Len(t))
    BY AddEachFacts
  <2>2. Kept(s, t, Len(t)) \subseteq Elems(s) /\ Latest(t, Len(t)) \subseteq Elems(t)
    BY DEF Kept, Latest, Elems
  <2>. QED BY <2>1, <2>2
<1>6. ASSUME NEW os \in Oses, NEW l \in Elems(links'[os])
      PROVE  \E g \in Files : l \in Elems(File[g].links)
  <2>1. CASE os = f.os
    <3>1. Elems(links[os] \o f.links) = Elems(links[os]) \cup Elems(f.links)
      BY <1>3, <1>4, Joined
    <3>. QED BY <1>2, <1>6, <2>1, <3>1 DEF FromFiles, f
  <2>2. CASE os # f.os
    BY <1>2, <1>6, <2>2 DEF FromFiles
  <2>. QED BY <2>1, <2>2
<1>7. ASSUME NEW os \in Oses
      PROVE  /\ UniqueIds(Elems(firmwares'[os]))
             /\ \A x \in Elems(firmwares'[os]) :
                   \E g \in Files : File[g].os = os /\ x \in Elems(File[g].firmwares)
  <2>1. CASE os = f.os
    <3>1. firmwares'[os] = AddEach(firmwares[os], f.firmwares)
      BY <1>2, <2>1
    <3>2. UniqueIds(Elems(AddEach(firmwares[os], f.firmwares)))
      <4>1. UniqueIds(Elems(firmwares[os]))
        BY DEF FromFiles
      <4>. QED BY <1>3, <1>4, <4>1, AddEachUnique
    <3>3. Elems(AddEach(firmwares[os], f.firmwares)) \subseteq Elems(firmwares[os]) \cup Elems(f.firmwares)
      BY <1>3, <1>4, <1>5
    <3>. QED BY <2>1, <3>1, <3>2, <3>3 DEF FromFiles, f
  <2>2. CASE os # f.os
    BY <1>2, <2>2 DEF FromFiles
  <2>. QED BY <2>1, <2>2
<1>8. FromFiles'
    BY <1>6, <1>7 DEF FromFiles
<1>9. ASSUME asked = "not"
      PROVE  AsWritten(resources')
  <2>1. AsWritten(resources)
    <3>1. call.get # "resources"
      BY <1>1 DEF NoCall
    <3>. QED BY <1>9, <3>1 DEF FieldsSourced
  <2>2. ASSUME NEW os \in Oses, NEW r \in Elems(resources'[os])
        PROVE  r.now = r.of.fields
    <3>1. CASE os = f.os
      <4>1. Elems(AddEach(resources[os], ResourcesIn(f)))
            \subseteq Elems(resources[os]) \cup Elems(ResourcesIn(f))
        BY <1>3, <1>4, <1>5
      <4>2. r \in Elems(resources[os]) \cup Elems(ResourcesIn(f))
        BY <1>2, <2>2, <3>1, <4>1
      <4>. QED BY <1>3, <2>1, <4>2 DEF AsWritten
    <3>2. CASE os # f.os
      BY <1>2, <2>1, <2>2, <3>2 DEF AsWritten
    <3>. QED BY <3>1, <3>2
  <2>. QED BY <2>2 DEF AsWritten
<1>10. ASSUME asked = "not"
       PROVE  AllSourced(resources)'
    BY <1>9, <1>10 DEF AsWritten, AllSourced, IsSourced
<1>11. FieldsSourced'
    BY <1>1, <1>9, <1>10 DEF FieldsSourced, AsWritten
<1>12. GetterRuns'
    BY <1>1 DEF GetterRuns
<1>. QED BY <1>8, <1>11, <1>12

(* Before a visit all that is collected is of no OS.                       *)
LEMMA GetKeeps ==
    ASSUME TypeOK, FromFiles, FieldsSourced,
           NEW get \in Getters, NEW os \in Oses, NEW kind, NEW filter,
           Get(get, os, kind, filter)
    PROVE  FromFiles' /\ FieldsSourced' /\ GetterRuns'
<1>1. /\ call = NoCall
      /\ call' = [get |-> get, os |-> os, kind |-> kind, filter |-> filter, walk |-> 1]
      /\ stack' = <<<<os>>>> /\ list' = <<>> /\ other' = <<>> /\ answer' = NoAnswer
      /\ UNCHANGED osVars /\ UNCHANGED <<resources, asked>>
    BY DEF Get, Idle
<1>2. call'.get = get /\ call'.os = os /\ call'.walk # 2
    BY <1>1
<1>3. FromFiles'
    BY <1>1 DEF FromFiles, osVars
<1>4. FieldsSourced'
    BY <1>1, SameLists DEF FieldsSourced, AsWritten, NoCall
<1>5. Elems(<<>>) = {}
    BY DEF Elems
<1>6. Walked({}, call.os, stack)'
  <2>1. Walked({}, os, <<<<os>>>>)
    BY WalkBegins
  <2>. QED BY <1>1, <1>2, <2>1, SameLists
<1>7. Gathered({})'
  <2>1. NamedHeld({}, os, <<>>)
    BY DEF NamedHeld
  <2>2. ASSUME NEW F
        PROVE  /\ LinksHeld({}, os, <<>>, F)
               /\ DevicesHeld({}, os, <<>>, F)
               /\ FirmwaresHeld({}, os, <<>>, <<>>, F)
               /\ CompleteHeld({}, os, <<>>, F)
    BY <1>5 DEF LinksHeld, DevicesHeld, FirmwaresHeld, CompleteHeld
  <2>3. /\ NamedHeld({}, call.os, list)'
        /\ LinksHeld({}, call.os, list, call.filter)'
        /\ DevicesHeld({}, call.os, list, call.filter)'
        /\ FirmwaresHeld({}, call.os, list, other, call.filter)'
        /\ CompleteHeld({}, call.os, list, call.filter)'
    BY <1>1, <1>2, <2>1, <2>2, SameLists
  <2>4. ResourcesHeld(resources', {}, call'.os, call'.kind)
    BY DEF ResourcesHeld
  <2>. QED BY <1>1, <1>2, <2>3, <2>4 DEF Gathered
<1>8. GetterRuns'
    BY <1>1, <1>6, <1>7 DEF GetterRuns
<1>. QED BY <1>3, <1>4, <1>8

LEMMA LeaveKeeps ==
    ASSUME TypeOK, FromFiles, FieldsSourced, GetterRuns, Leave
    PROVE  FromFiles' /\ FieldsSourced' /\ GetterRuns'
<1>1. /\ call # NoCall /\ Last(stack) = <<>> /\ stack' = Front(stack)
      /\ UNCHANGED osVars
      /\ UNCHANGED <<resources, call, list, other, answer, asked>>
    BY DEF Leave, Running
<1>2. FromFiles'
    BY <1>1 DEF FromFiles, osVars
<1>3. FieldsSourced'
    BY <1>1, SameLists DEF FieldsSourced, AsWritten
<1>4. PICK C : Walked(C, call.os, stack) /\ Gathered(C)
    BY <1>1 DEF GetterRuns
<1>5. PICK os : os = call.os
    OBVIOUS
<1>6. Walked(C, os, Front(stack))
  <2>1. stack \in Seq(Seq(Oses)) /\ stack # <<>>
    BY <1>1 DEF TypeOK
  <2>2. Pending(Front(stack)) = Pending(stack)
    BY <1>1, <2>1, WalkReturns
  <2>. QED BY <1>4, <1>5, <2>2 DEF Walked
<1>7. Walked(C, call.os, stack)'
    BY <1>1, <1>5, <1>6, SameLists
<1>8. Gathered(C)'
    BY <1>1, <1>4, SameLists DEF Gathered
<1>. QED BY <1>1, <1>2, <1>3, <1>7, <1>8 DEF GetterRuns

(* Where a walk ended, all ways lead to what it has visited.               *)
LEMMA EndFacts ==
    ASSUME TypeOK, GetterRuns, WalkEnded
    PROVE  /\ call \in Call /\ answer = NoAnswer
           /\ \E C : Gathered(C) /\ Reached(C, call.os)
<1>1. call # NoCall /\ stack = <<<<>>>>
    BY DEF WalkEnded, Running
<1>2. call \in Call /\ call.os \in Oses /\ answer = NoAnswer
    BY <1>1 DEF TypeOK, GetterRuns, Call
<1>3. PICK C : Walked(C, call.os, <<<<>>>>) /\ Gathered(C)
    BY <1>1 DEF GetterRuns
<1>4. /\ \A w \in AllWays(call.os) : \A i \in 1..Len(w) : w[i] \in C
      /\ \A c \in C : \E w \in AllWays(call.os) : Last(w) = c
    BY <1>2, <1>3, WalkDone
<1>5. C \subseteq Oses
    BY <1>3 DEF Walked
<1>. QED BY <1>2, <1>3, <1>4, <1>5 DEF Reached

LEMMA SecondWalkKeeps ==
    ASSUME TypeOK, FromFiles, FieldsSourced, GetterRuns, SecondWalk
    PROVE  FromFiles' /\ FieldsSourced' /\ GetterRuns'
<1>1. /\ call.get = "devices" /\ call.walk = 1 /\ WalkEnded
      /\ call' = [call EXCEPT !.walk = 2] /\ stack' = <<<<call.os>>>>
      /\ UNCHANGED osVars
      /\ UNCHANGED <<resources, list, other, answer, asked>>
    BY DEF SecondWalk
<1>2. call \in Call /\ answer = NoAnswer
    BY <1>1, EndFacts
<1>3. PICK os, filter : os = call.os /\ filter = call.filter
    OBVIOUS
<1>4. PICK C : /\ Gathered(C) /\ C \subseteq Oses
               /\ \A w \in AllWays(os) : \A i \in 1..Len(w) : w[i] \in C
    BY <1>1, <1>3, EndFacts DEF Reached
<1>5. /\ os \in Oses /\ call'.get = "devices" /\ call'.os = os /\ call'.filter = filter
      /\ call'.walk # 1
    BY <1>1, <1>2, <1>3 DEF Call
<1>6. FromFiles'
    BY <1>1 DEF FromFiles, osVars
<1>7. FieldsSourced'
    BY <1>1, <1>5, SameLists DEF FieldsSourced, AsWritten
<1>8. Walked({}, call.os, stack)'
  <2>1. Walked({}, os, <<<<os>>>>)
    BY <1>5, WalkBegins
  <2>. QED BY <1>1, <1>3, <1>5, <2>1, SameLists
<1>9. other = <<>> /\ DevicesHeld(C, os, list, filter)
    BY <1>1, <1>3, <1>4 DEF Gathered
<1>10. AllDevicesHeld(os, list, filter)
  <2>1. \A w \in AllWays(os) : Last(w) \in C
    <3>1. ASSUME NEW w \in AllWays(os) PROVE Last(w) = w[Len(w)] /\ Len(w) \in 1..Len(w)
      BY WayFacts
    <3>. QED BY <1>4, <3>1
  <2>. QED BY <1>9, <2>1 DEF AllDevicesHeld
<1>11. LinksHeld({}, os, <<>>, filter)
  <2>1. Elems(<<>>) = {}
    BY DEF Elems
  <2>. QED BY <2>1 DEF LinksHeld
<1>12. LinksHeld({}, call.os, other, call.filter)' /\ AllDevicesHeld(call.os, list, call.filter)'
    BY <1>1, <1>5, <1>9, <1>10, <1>11, SameLists
<1>13. Gathered({})'
    BY <1>5, <1>12 DEF Gathered
<1>. QED BY <1>1, <1>2, <1>6, <1>7, <1>8, <1>13 DEF GetterRuns

(* What a getter returns of what it has collected.                         *)
LEMMA ResultFacts ==
    ASSUME TypeOK, call \in Call
    PROVE  /\ DOMAIN Result = 1..Len(Result)
           /\ call.get = "devices" =>
                 Elems(Result) = {d \in Elems(list) :
                                     \A l \in Elems(other) : l.id = d.id => LinkSupported(l)}
           /\ call.get = "links" => Elems(Result) = {l \in Elems(list) : LinkSupported(l)}
           /\ call.get = "resources" =>
                 Elems(Result) = {r \in Elems(resources[call.os]) : r.of.kind = call.kind}
           /\ call.get \notin {"devices", "links", "resources"} => Result = list
<1>1. call.os \in Oses /\ call.get \in Getters
    BY DEF Call
<1>2. CASE call.get = "devices"
  <2>. DEFINE I == {i \in 1..Len(list) : \A j \in 1..Len(other) :
                       other[j].id = list[i].id => LinkSupported(other[j])}
              T == {d \in Elems(list) : \A l \in Elems(other) : l.id = d.id => LinkSupported(l)}
  <2>1. list \in Seq([id : STRING])
    BY <1>2 DEF TypeOK, Collected
  <2>2. Result = At(list, I)
    BY <1>2 DEF Result, Select
  <2>3. PositionsOf(I, list, T)
    BY DEF PositionsOf, Elems
  <2>4. T \subseteq Elems(list)
    OBVIOUS
  <2>. HIDE DEF I, T
  <2>5. At(list, I) \in Seq([id : STRING]) /\ Elems(At(list, I)) = Elems(list) \cap T
    BY <2>1, <2>3, Chosen
  <2>6. Elems(list) \cap T = T
    BY <2>4
  <2>. QED BY <1>2, <2>2, <2>5, <2>6 DEF T
<1>3. CASE call.get = "links"
  <2>. DEFINE I == {i \in 1..Len(list) : LinkSupported(list[i])}
              T == {l \in Elems(list) : LinkSupported(l)}
  <2>1. list \in Seq(Link)
    BY <1>3 DEF TypeOK, Collected
  <2>2. Result = At(list, I)
    BY <1>3 DEF Result, Select
  <2>3. PositionsOf(I, list, T)
    BY DEF PositionsOf, Elems
  <2>4. T \subseteq Elems(list)
    OBVIOUS
  <2>. HIDE DEF I, T
  <2>5. At(list, I) \in Seq(Link) /\ Elems(At(list, I)) = Elems(list) \cap T
    BY <2>1, <2>3, Chosen
  <2>6. Elems(list) \cap T = T
    BY <2>4
  <2>. QED BY <1>3, <2>2, <2>5, <2>6 DEF T
<1>4. CASE call.get = "resources"
  <2>. DEFINE own == resources[call.os]
              I == {i \in 1..Len(own) : own[i].of.kind = call.kind}
              T == {r \in Elems(own) : r.of.kind = call.kind}
  <2>1. own \in Seq(Held)
    BY <1>1 DEF TypeOK
  <2>2. Result = At(own, I)
    BY <1>4 DEF Result, Select
  <2>3. PositionsOf(I, own, T)
    BY DEF PositionsOf, Elems
  <2>4. T \subseteq Elems(own)
    OBVIOUS
  <2>. HIDE DEF I, T
  <2>. HIDE DEF own
  <2>5. At(own, I) \in Seq(Held) /\ Elems(At(own, I)) = Elems(own) \cap T
    BY <2>1, <2>3, Chosen
  <2>6. Elems(own) \cap T = T
    BY <2>4
  <2>. QED BY <1>4, <2>2, <2>5, <2>6 DEF T, own
<1>5. CASE call.get \notin {"devices", "links", "resources"}
  <2>1. Result = list
    BY <1>5 DEF Result
  <2>2. list \in Seq(Collected(call.get))
    BY DEF TypeOK
  <2>3. DOMAIN list = 1..Len(list)
    BY <2>2
  <2>. QED BY <1>5, <2>1, <2>3
<1>. QED BY <1>2, <1>3, <1>4, <1>5

(* What a getter answers holds of all that was visited.                    *)
LEMMA ReturnKeeps ==
    ASSUME TypeOK, FromFiles, FieldsSourced, GetterRuns, Return
    PROVE  FromFiles' /\ FieldsSourced' /\ GetterRuns' /\ AnswerHolds'
<1>1. /\ WalkEnded
      /\ call.get = "devices" => call.walk = 2
      /\ answer' = [get |-> call.get, os |-> call.os, filter |-> call.filter, list |-> Result]
      /\ asked' = IF call.get = "resources" /\ asked = "not" THEN "asked" ELSE asked
      /\ call' = NoCall
      /\ UNCHANGED osVars /\ resources' = resources
    BY DEF Return
<1>2. call \in Call /\ \E C : Gathered(C) /\ Reached(C, call.os)
    BY <1>1, EndFacts
<1>3. PICK C, s, o, r, os, get, filter, kind :
         /\ Gathered(C) /\ Reached(C, os)
         /\ s = list /\ o = other /\ r = Result
         /\ os = call.os /\ get = call.get /\ filter = call.filter /\ kind = call.kind
    BY <1>2
<1>4. FromFiles'
    BY <1>1 DEF FromFiles, osVars
<1>5. FieldsSourced'
  <2>1. asked' # "loaded then" => asked # "loaded then"
    BY <1>1
  <2>2. asked' = "not" => asked = "not" /\ call.get # "resources"
    BY <1>1
  <2>3. asked' # "loaded then" => AllSourced(resources)'
    BY <1>1, <2>1, SameLists DEF FieldsSourced
  <2>4. asked' = "not" => AsWritten(resources')
    BY <1>1, <2>2 DEF FieldsSourced
  <2>. QED BY <2>3, <2>4 DEF FieldsSourced, AsWritten
<1>6. GetterRuns'
    BY <1>1 DEF GetterRuns
<1>7. os \in Oses /\ filter \in Filters \cup {None} /\ DOMAIN r = 1..Len(r)
    BY <1>2, <1>3, ResultFacts DEF Call
<1>8. /\ get = "username" => NamedHeld(C, os, r)
      /\ get = "firmwares" => FirmwaresHeld(C, os, r, o, filter)
      /\ get = "complete" => CompleteHeld(C, os, r, filter)
    BY <1>2, <1>3, ResultFacts DEF Gathered
<1>9. get = "links" => LinksHeld(C, os, s, filter) /\ Elems(r) = {l \in Elems(s) : LinkSupported(l)}
    BY <1>2, <1>3, ResultFacts DEF Gathered
<1>10. get = "devices" =>
          /\ LinksHeld(C, os, o, filter) /\ AllDevicesHeld(os, s, filter)
          /\ Elems(r) = {d \in Elems(s) : \A l \in Elems(o) : l.id = d.id => LinkSupported(l)}
    BY <1>1, <1>2, <1>3, ResultFacts DEF Gathered
<1>11. get = "resources" /\ asked # "loaded then" =>
          /\ ResourcesHeld(resources, C, os, kind)
          /\ Elems(r) = {x \in Elems(resources[os]) : x.of.kind = kind}
    BY <1>2, <1>3, ResultFacts DEF Gathered
<1>12. /\ answer'.get = get /\ answer'.os = os /\ answer'.filter = filter /\ answer'.list = r
       /\ asked' # "loaded then" => asked # "loaded then"
    BY <1>1, <1>3
<1>13. Reached(C, os)'
    BY <1>1, <1>3, SameLists DEF Reached
<1>14. /\ get = "username" => NamedHeld(C, os, r)'
       /\ get = "firmwares" => FirmwaresHeld(C, os, r, o, filter)'
       /\ get = "complete" => CompleteHeld(C, os, r, filter)'
       /\ get = "links" => LinksHeld(C, os, s, filter)'
       /\ get = "devices" => LinksHeld(C, os, o, filter)' /\ AllDevicesHeld(os, s, filter)'
    BY <1>1, <1>8, <1>9, <1>10, SameLists
<1>15. AnsweredFrom(C, s, o)'
  <2>1. get = "resources" /\ asked' # "loaded then" =>
           \E k : /\ ResourcesHeld(resources', C, os, k)
                  /\ Elems(r) = {x \in Elems(resources'[os]) : x.of.kind = k}
    BY <1>1, <1>11, <1>12
  <2>2. /\ Reached(C, answer.os)'
        /\ answer'.get = "username" => NamedHeld(C, answer.os, answer.list)'
        /\ answer'.get = "firmwares" => FirmwaresHeld(C, answer.os, answer.list, o, answer.filter)'
        /\ answer'.get = "complete" => CompleteHeld(C, answer.os, answer.list, answer.filter)'
        /\ answer'.get = "links" => LinksHeld(C, answer.os, s, answer.filter)'
        /\ answer'.get = "devices" => LinksHeld(C, answer.os, o, answer.filter)'
                                     /\ AllDevicesHeld(answer.os, s, answer.filter)'
    BY <1>12, <1>13, <1>14
  <2>. QED BY <1>7, <1>9, <1>10, <1>12, <2>1, <2>2 DEF AnsweredFrom, LinkSupported
<1>. QED BY <1>4, <1>5, <1>6, <1>15 DEF AnswerHolds

LEMMA IInvNext == IInv /\ [Next]_vars => IInv'
<1>. SUFFICES ASSUME IInv, [Next]_vars PROVE IInv'
    OBVIOUS
<1>. USE DEF IInv
<1>1. TypeOK'
    BY TypeOKNext
<1>2. answer' = NoAnswer => AnswerHolds'
    BY DEF AnswerHolds
<1>3. CASE \E file \in Files : LoadOs(file)
  <2>1. PICK file \in Files : LoadOs(file)
    BY <1>3
  <2>2. answer' = NoAnswer
    BY <2>1 DEF LoadOs
  <2>. QED BY <1>1, <1>2, <2>1, <2>2, LoadOsKeeps
<1>4. CASE \E os \in Oses :
              \/ \E get \in {"devices", "links", "firmwares", "complete"},
                    filter \in Filters \cup {None} : Get(get, os, None, filter)
              \/ Get("username", os, None, None)
              \/ \E kind \in Kinds : Get("resources", os, kind, None)
  <2>1. \E get \in Getters, os \in Oses : \E kind, filter : Get(get, os, kind, filter)
    BY <1>4 DEF Getters
  <2>2. PICK get, os, kind, filter : get \in Getters /\ os \in Oses /\ Get(get, os, kind, filter)
    BY <2>1
  <2>3. answer' = NoAnswer
    BY <2>2 DEF Get
  <2>. QED BY <1>1, <1>2, <2>2, <2>3, GetKeeps
<1>5. CASE Visit
  <2>1. call # NoCall /\ UNCHANGED osVars /\ UNCHANGED <<call, answer>>
    BY <1>5 DEF Visit, ToVisit, Running
  <2>2. PICK C : Walked(C, call.os, stack) /\ Gathered(C)
    BY <2>1 DEF GetterRuns
  <2>3. FieldsSourced' /\ \E D : Walked(D, call.os, stack)' /\ Gathered(D)'
    BY <1>5, <2>2, VisitGathers
  <2>4. FromFiles'
    BY <2>1 DEF FromFiles, osVars
  <2>5. answer' = NoAnswer
    BY <2>1 DEF GetterRuns
  <2>6. GetterRuns'
    BY <2>3, <2>5 DEF GetterRuns
  <2>. QED BY <1>1, <1>2, <2>3, <2>4, <2>5, <2>6
<1>6. CASE Leave
  <2>1. answer' = NoAnswer
    BY <1>6 DEF Leave, Running, GetterRuns
  <2>. QED BY <1>1, <1>2, <1>6, <2>1, LeaveKeeps
<1>7. CASE SecondWalk
  <2>1. answer' = NoAnswer
    BY <1>7 DEF SecondWalk, WalkEnded, Running, GetterRuns
  <2>. QED BY <1>1, <1>2, <1>7, <2>1, SecondWalkKeeps
<1>8. CASE Return
    BY <1>1, <1>8, ReturnKeeps
<1>9. CASE Overflow \/ UNCHANGED vars
  <2>1. /\ UNCHANGED osVars
        /\ UNCHANGED <<resources, call, stack, list, other, answer, asked>>
    BY <1>9 DEF Overflow, vars
  <2>2. FromFiles'
    BY <2>1 DEF FromFiles, osVars
  <2>3. FieldsSourced'
    BY <2>1, SameLists DEF FieldsSourced, AsWritten
  <2>4. \A C : Walked(C, call.os, stack)' <=> Walked(C, call.os, stack)
    BY <2>1, SameLists
  <2>5. \A C : Gathered(C)' <=> Gathered(C)
    BY <2>1, SameLists DEF Gathered
  <2>6. GetterRuns'
    BY <2>1, <2>4, <2>5 DEF GetterRuns
  <2>7. \A C, os : Reached(C, os)' <=> Reached(C, os)
    BY <2>1, SameLists DEF Reached
  <2>8. ASSUME NEW C, NEW s, NEW o PROVE AnsweredFrom(C, s, o)' <=> AnsweredFrom(C, s, o)
    <3>1. /\ Reached(C, answer.os)' <=> Reached(C, answer.os)
          /\ NamedHeld(C, answer.os, answer.list)' <=> NamedHeld(C, answer.os, answer.list)
          /\ LinksHeld(C, answer.os, s, answer.filter)' <=> LinksHeld(C, answer.os, s, answer.filter)
          /\ LinksHeld(C, answer.os, o, answer.filter)' <=> LinksHeld(C, answer.os, o, answer.filter)
          /\ AllDevicesHeld(answer.os, s, answer.filter)'
             <=> AllDevicesHeld(answer.os, s, answer.filter)
          /\ FirmwaresHeld(C, answer.os, answer.list, o, answer.filter)'
             <=> FirmwaresHeld(C, answer.os, answer.list, o, answer.filter)
          /\ CompleteHeld(C, answer.os, answer.list, answer.filter)'
             <=> CompleteHeld(C, answer.os, answer.list, answer.filter)
      BY <2>1, <2>7, SameLists
    <3>. QED BY <2>1, <3>1 DEF AnsweredFrom, LinkSupported
  <2>9. AnswerHolds'
    BY <2>1, <2>8 DEF AnswerHolds
  <2>. QED BY <1>1, <2>2, <2>3, <2>6, <2>9
<1>. QED BY <1>3, <1>4, <1>5, <1>6, <1>7, <1>8, <1>9 DEF Next, Walk

(* The inductive invariant holds of every state.                           *)
THEOREM Invariant == Spec => []IInv
<1>1. Init => IInv
    BY IInvInit
<1>2. IInv /\ [Next]_vars => IInv'
    BY IInvNext
<1>. QED BY <1>1, <1>2, PTL DEF Spec

-------------------------------------------------------------------------------
(* What the answers say                                                    *)

(* What is answered of an OS from which no way comes back.                 *)
LEMMA AnswerFacts ==
    ASSUME IInv, AcyclicAnswer
    PROVE  /\ RelatedTyped /\ LinksTyped /\ ResourcesTyped
           /\ \E C, s, o : AnsweredFrom(C, s, o)
           /\ answer.os \in Oses /\ answer.filter \in Filters \cup {None}
           /\ Acyclic(answer.os) /\ WaysFrom(answer.os) = AllWays(answer.os)
           /\ Elements = Elems(answer.list)
<1>1. RelatedTyped /\ LinksTyped /\ ResourcesTyped
    BY DEF IInv, TypeOK, RelatedTyped, LinksTyped, ResourcesTyped
<1>2. Acyclic(answer.os) /\ \E C, s, o : AnsweredFrom(C, s, o)
    BY DEF IInv, AnswerHolds, AcyclicAnswer
<1>3. /\ answer.os \in Oses /\ answer.filter \in Filters \cup {None}
      /\ DOMAIN answer.list = 1..Len(answer.list)
    BY <1>2 DEF AnsweredFrom
<1>4. WaysFrom(answer.os) = AllWays(answer.os)
    BY <1>1, <1>2, <1>3, WaysComplete
<1>5. Elements = Elems(answer.list)
    BY <1>3 DEF Elements, ToSet, Elems
<1>. QED BY <1>1, <1>2, <1>3, <1>4, <1>5

LEMMA ReachedFacts ==
    ASSUME NEW os, NEW C, Reached(C, os)
    PROVE  /\ \A w \in AllWays(os) : Last(w) \in C
           /\ \A c \in C : \E w \in AllWays(os) : Last(w) = c
<1>1. ASSUME NEW w \in AllWays(os) PROVE Last(w) \in C
  <2>1. Last(w) = w[Len(w)] /\ Len(w) \in 1..Len(w)
    BY WayFacts
  <2>. QED BY <2>1 DEF Reached
<1>. QED BY <1>1 DEF Reached

(* Which links the property looks at.                                      *)
Seen == IF answer.get = "devices" THEN None ELSE answer.filter

LEMMA LinksToFacts ==
    ASSUME LinksTyped, NEW os \in Oses, NEW d
    PROVE  /\ LinksTo(os, d) # <<>> <=> HasLink(os, d, Seen)
           /\ \A l : LinksTo(os, d) # <<>> /\ l = Last(LinksTo(os, d))
                     <=> l.id = d /\ LatestLink(os, l, Seen)
<1>. DEFINE s == links[os]
            I == {i \in 1..Len(s) : /\ s[i].id = d
                                    /\ \/ answer.get = "devices"
                                       \/ answer.filter = None
                                       \/ s[i] \in answer.filter}
            t == At(s, I)
<1>1. s \in Seq(Link) /\ Len(s) \in Nat
    BY DEF LinksTyped
<1>2. LinksTo(os, d) = t
    BY DEF LinksTo, Select
<1>3. \A i : i \in I <=> i \in 1..Len(s) /\ s[i].id = d /\ Passes(s[i], Seen)
    BY DEF Passes, Seen
<1>4. HasLink(os, d, Seen) <=> I # {}
    BY <1>3 DEF HasLink, Elems
<1>5. ASSUME NEW l
      PROVE  l.id = d /\ LatestLink(os, l, Seen) <=> \E i \in I : s[i] = l /\ \A j \in I : ~(i < j)
    BY <1>3 DEF LatestLink
<1>. HIDE DEF I, s
<1>6. I \subseteq 1..Len(s)
    BY <1>3
<1>7. /\ I = {} => t = <<>>
      /\ I # {} => t # <<>> /\ \E m \in I : (\A i \in I : i \leq m) /\ t[Len(t)] = s[m]
    BY <1>1, <1>6, AtFacts
<1>. HIDE DEF t
<1>8. CASE I = {}
    BY <1>2, <1>4, <1>5, <1>7, <1>8
<1>9. CASE I # {}
  <2>1. PICK m \in I : (\A i \in I : i \leq m) /\ t[Len(t)] = s[m]
    BY <1>7, <1>9
  <2>2. \A i \in I : i \in Int
    BY <1>1, <1>6
  <2>3. \A i \in I : ~(m < i)
    BY <2>1, <2>2
  <2>4. \A i \in I : (\A j \in I : ~(i < j)) => i = m
    BY <2>1, <2>2
  <2>5. t # <<>> /\ Last(t) = s[m]
    BY <1>7, <1>9, <2>1 DEF Last
  <2>. QED BY <1>2, <1>4, <1>5, <1>9, <2>3, <2>4, <2>5
<1>. QED BY <1>8, <1>9

LEMMA NearestFacts ==
    ASSUME LinksTyped, answer.os \in Oses, WaysFrom(answer.os) = AllWays(answer.os)
    PROVE  \A l, d : Nearest(l, d)
                     <=> l.id = d /\ \E w \in AllWays(answer.os) : NearestOn(w, l, Seen)
<1>. DEFINE On(w, l, d) == /\ LinksTo(Last(w), d) # <<>>
                           /\ l = Last(LinksTo(Last(w), d))
                           /\ \A i \in 1..Len(w) - 1 : LinksTo(w[i], d) = <<>>
<1>1. ASSUME NEW l, NEW d, NEW w \in AllWays(answer.os)
      PROVE  On(w, l, d) <=> l.id = d /\ NearestOn(w, l, Seen)
  <2>1. Last(w) \in Oses /\ \A i \in 1..Len(w) - 1 : w[i] \in Oses
    BY WayFacts
  <2>2. LinksTo(Last(w), d) # <<>> /\ l = Last(LinksTo(Last(w), d))
        <=> l.id = d /\ LatestLink(Last(w), l, Seen)
    BY <2>1, LinksToFacts
  <2>3. \A i \in 1..Len(w) - 1 : LinksTo(w[i], d) = <<>> <=> ~HasLink(w[i], d, Seen)
    BY <2>1, LinksToFacts
  <2>. QED BY <2>2, <2>3 DEF NearestOn
<1>2. \A l, d : Nearest(l, d) <=> \E w \in AllWays(answer.os) : On(w, l, d)
    BY DEF Nearest
<1>. HIDE DEF On
<1>. QED BY <1>1, <1>2

(* A filter that has a device has all links to it, if it has one.          *)
LEMMA FilteredAlike ==
    ASSUME FromFiles, LinksTyped, NEW filter \in Filters, NEW d, [id |-> d] \in filter,
           NEW os \in Oses, NEW w \in AllWays(os), NEW l, l.id = d, NearestOn(w, l, filter)
    PROVE  NearestOn(w, l, None)
<1>1. /\ LatestLink(Last(w), l, filter)
      /\ \A i \in 1..Len(w) - 1 : ~HasLink(w[i], d, filter)
    BY DEF NearestOn
<1>2. Last(w) \in Oses /\ \A i \in 1..Len(w) - 1 : w[i] \in Oses
    BY WayFacts
<1>3. l \in Elems(links[Last(w)]) /\ Passes(l, filter)
    BY <1>1, <1>2, LatestLinkFacts
<1>. DEFINE Links == UNION {ToSet(File[f].links) : f \in Files}
<1>4. \A p \in Oses : \A m \in Elems(links[p]) : m \in Links
  <2>1. \A f \in Files : ToSet(File[f].links) = Elems(File[f].links)
    BY FileFacts DEF ToSet, Elems
  <2>. QED BY <2>1 DEF FromFiles
<1>5. \A f \in Filters : \A x, m \in Links : {x, [id |-> x.id]} \subseteq f /\ m.id = x.id => m \in f
    BY FiltersAssumption
<1>. HIDE DEF Links
<1>6. CASE filter # None
  <2>1. l \in Links /\ l \in filter
    BY <1>2, <1>3, <1>4, <1>6 DEF Passes
  <2>2. ASSUME NEW p \in Oses, NEW m \in Elems(links[p]), m.id = d
        PROVE  m \in filter
    BY <1>4, <1>5, <2>1, <2>2
  <2>3. \A i \in 1..Len(w) - 1 : ~HasLink(w[i], d, None)
    BY <1>1, <1>2, <2>2 DEF HasLink, Passes
  <2>4. LatestLink(Last(w), l, None)
    <3>1. \A j \in 1..Len(links[Last(w)]) : links[Last(w)][j] \in Elems(links[Last(w)])
      BY DEF Elems
    <3>2. \A j \in 1..Len(links[Last(w)]) : links[Last(w)][j].id = d => links[Last(w)][j] \in filter
      BY <1>2, <2>2, <3>1
    <3>. QED BY <1>1, <3>2 DEF LatestLink, Passes
  <2>. QED BY <2>3, <2>4 DEF NearestOn
<1>7. CASE filter = None
    BY <1>7
<1>. QED BY <1>6, <1>7

LEMMA NamesAnswered ==
    ASSUME IInv, AcyclicAnswer, Answered("username")
    PROVE  IF answer.list = <<>>
           THEN \A w \in WaysFrom(answer.os) : username[Last(w)] = None
           ELSE \E w \in WaysFrom(answer.os) :
                   /\ \A i \in 1..Len(w) - 1 : username[w[i]] = None
                   /\ username[Last(w)] = answer.list[1]
<1>1. WaysFrom(answer.os) = AllWays(answer.os) /\ \E C, s, o : AnsweredFrom(C, s, o)
    BY AnswerFacts
<1>2. PICK C : Reached(C, answer.os) /\ NamedHeld(C, answer.os, answer.list)
    BY <1>1 DEF AnsweredFrom, Answered
<1>3. \A w \in AllWays(answer.os) : Last(w) \in C
    BY <1>2, ReachedFacts
<1>. QED BY <1>1, <1>2, <1>3 DEF NamedHeld

(* What the last link of an OS is, is in the lists.                        *)
LEMMA NearestListed ==
    ASSUME LinksTyped, NEW os, NEW w \in AllWays(os), NEW l, NEW filter, NearestOn(w, l, filter)
    PROVE  l \in UNION {ToSet(links[p]) : p \in Oses}
<1>1. Last(w) \in Oses
    BY WayFacts
<1>2. l \in Elems(links[Last(w)])
    BY <1>1, LatestLinkFacts DEF NearestOn
<1>3. Elems(links[Last(w)]) = ToSet(links[Last(w)])
    BY <1>1 DEF LinksTyped, ToSet, Elems
<1>. QED BY <1>1, <1>2, <1>3

LEMMA LinksAnswered ==
    ASSUME IInv, AcyclicAnswer, Answered("links")
    PROVE  /\ \A l \in Elements : LinkSupported(l) /\ Nearest(l, l.id)
           /\ \A d \in Devices :
                 \/ \E l \in Elements : l.id = d
                 \/ \E l \in UNION {ToSet(links[os]) : os \in Oses} :
                       Nearest(l, d) /\ ~LinkSupported(l)
                 \/ \A w \in WaysFrom(answer.os) : LinksTo(Last(w), d) = <<>>
<1>. DEFINE os == answer.os
            F == answer.filter
<1>1. /\ LinksTyped /\ os \in Oses /\ WaysFrom(os) = AllWays(os)
      /\ Elements = Elems(answer.list)
      /\ Seen = F
    BY AnswerFacts DEF Answered, Seen
<1>2. PICK C, s : /\ Reached(C, os) /\ LinksHeld(C, os, s, F)
                  /\ Elements = {l \in Elems(s) : LinkSupported(l)}
  <2>1. PICK C, s, o : AnsweredFrom(C, s, o)
    BY AnswerFacts
  <2>. QED BY <1>1, <2>1 DEF AnsweredFrom, Answered
<1>3. \A l, d : Nearest(l, d) <=> l.id = d /\ \E w \in AllWays(os) : NearestOn(w, l, F)
    BY <1>1, NearestFacts
<1>4. \A l \in Elems(s) : Nearest(l, l.id)
    BY <1>2, <1>3 DEF LinksHeld
<1>5. ASSUME NEW d, NEW w \in WaysFrom(os), LinksTo(Last(w), d) # <<>>
      PROVE  \E m \in Elems(s) : m.id = d
  <2>1. Last(w) \in Oses /\ Last(w) \in C
    BY <1>1, <1>2, <1>5, WayFacts, ReachedFacts
  <2>2. HasLink(Last(w), d, F)
    BY <1>1, <1>5, <2>1, LinksToFacts
  <2>. QED BY <1>2, <2>1, <2>2 DEF LinksHeld, HasLink
<1>6. \A l, d : Nearest(l, d) => l \in UNION {ToSet(links[p]) : p \in Oses}
    BY <1>1, <1>3, NearestListed
<1>. HIDE DEF os, F
<1>. QED BY <1>1, <1>2, <1>4, <1>5, <1>6 DEF os

LEMMA DevicesAnswered ==
    ASSUME IInv, AcyclicAnswer, Answered("devices")
    PROVE  \A d \in Devices :
              LET Is(supported) == \E l \in UNION {ToSet(links[os]) : os \in Oses} :
                                      Nearest(l, d) /\ LinkSupported(l) = supported
              IN  IF [id |-> d] \in Elements
                  THEN IF answer.filter = None THEN Is(TRUE) ELSE Is(TRUE) \/ Is(FALSE)
                  ELSE \/ answer.filter # None /\ [id |-> d] \notin answer.filter
                       \/ Is(FALSE)
                       \/ ~Is(TRUE)
<1>. DEFINE os == answer.os
            F == answer.filter
            All == UNION {ToSet(links[p]) : p \in Oses}
<1>1. /\ LinksTyped /\ FromFiles /\ os \in Oses /\ WaysFrom(os) = AllWays(os)
      /\ F \in Filters \cup {None}
      /\ Elements = Elems(answer.list)
      /\ Seen = None
    BY AnswerFacts DEF Answered, Seen, IInv
<1>2. PICK C, s, o : /\ Reached(C, os) /\ LinksHeld(C, os, o, F) /\ AllDevicesHeld(os, s, F)
                     /\ Elements = {d \in Elems(s) :
                                       \A l \in Elems(o) : l.id = d.id => LinkSupported(l)}
  <2>1. PICK C, s, o : AnsweredFrom(C, s, o)
    BY AnswerFacts
  <2>. QED BY <1>1, <2>1 DEF AnsweredFrom, Answered
<1>3. PICK D : DevicesHeld(D, os, s, F) /\ \A w \in AllWays(os) : Last(w) \in D
    BY <1>2 DEF AllDevicesHeld
<1>4. \A l, d : Nearest(l, d) <=> l.id = d /\ \E w \in AllWays(os) : NearestOn(w, l, None)
    BY <1>1, NearestFacts
<1>5. \A l, d : Nearest(l, d) => l \in All
    BY <1>1, <1>4, NearestListed
<1>6. ASSUME NEW l PROVE LinkSupported(l) = TRUE \/ LinkSupported(l) = FALSE
    BY DEF LinkSupported
<1>. HIDE DEF os, F, All
<1>. SUFFICES ASSUME NEW d \in Devices
              PROVE  LET Is(supported) == \E l \in All : Nearest(l, d) /\ LinkSupported(l) = supported
                     IN  IF [id |-> d] \in Elements
                         THEN IF F = None THEN Is(TRUE) ELSE Is(TRUE) \/ Is(FALSE)
                         ELSE (F # None /\ [id |-> d] \notin F) \/ Is(FALSE) \/ ~Is(TRUE)
    BY DEF All, F
<1>. DEFINE e == [id |-> d]
            Is(supported) == \E l \in All : Nearest(l, d) /\ LinkSupported(l) = supported
<1>7. ASSUME NEW l, Nearest(l, d)
      PROVE  /\ LinkSupported(l) => Is(TRUE)
             /\ ~LinkSupported(l) => Is(FALSE)
    BY <1>5, <1>6, <1>7
<1>8. e.id = d
    OBVIOUS
<1>. HIDE DEF Is, e
<1>9. CASE e \in Elements
  <2>1. e \in Elems(s) /\ \A l \in Elems(o) : l.id = d => LinkSupported(l)
    BY <1>2, <1>8, <1>9
  <2>2. PICK w, l : w \in AllWays(os) /\ l.id = d /\ NearestOn(w, l, None)
    BY <1>3, <1>8, <2>1 DEF DevicesHeld
  <2>. w \in AllWays(os)
    BY <2>2
  <2>3. Is(TRUE) \/ Is(FALSE)
    BY <1>4, <1>7, <2>2
  <2>4. ASSUME F = None PROVE Is(TRUE)
    <3>1. Last(w) \in Oses /\ Last(w) \in C
      BY <1>2, WayFacts, ReachedFacts
    <3>2. HasLink(Last(w), d, None)
      BY <1>1, <2>2, <3>1, LatestLinkFacts DEF NearestOn
    <3>3. PICK m \in Elems(o) : m.id = d
      BY <1>2, <2>4, <3>1, <3>2 DEF LinksHeld, HasLink
    <3>4. Nearest(m, d)
      BY <1>2, <1>4, <2>4, <3>3 DEF LinksHeld
    <3>. QED BY <1>7, <2>1, <3>3, <3>4
  <2>. QED BY <1>9, <2>3, <2>4 DEF Is, e
<1>10. CASE e \notin Elems(s) /\ e \notin Elements
  <2>1. CASE ~Passes(e, F)
    BY <1>10, <2>1 DEF Passes, Is, e
  <2>2. CASE Passes(e, F)
    <3>1. ASSUME NEW w \in AllWays(os), NEW l, l.id = d
          PROVE  ~NearestOn(w, l, None)
      <4>1. Last(w) \in Oses /\ Last(w) \in D
        BY <1>3, WayFacts
      <4>2. \A m \in Elems(links[Last(w)]) : m.id # d
        BY <1>3, <1>10, <2>2, <4>1 DEF DevicesHeld, e
      <4>. QED BY <1>1, <3>1, <4>1, <4>2, LatestLinkFacts DEF NearestOn
    <3>2. ~Is(TRUE)
      BY <1>4, <3>1 DEF Is
    <3>. QED BY <1>10, <3>2 DEF Is, e
  <2>. QED BY <2>1, <2>2
<1>11. CASE e \in Elems(s) /\ e \notin Elements
  <2>1. PICK l \in Elems(o) : l.id = d /\ ~LinkSupported(l)
    BY <1>2, <1>8, <1>11
  <2>2. PICK w \in AllWays(os) : NearestOn(w, l, F)
    BY <1>2 DEF LinksHeld
  <2>3. NearestOn(w, l, None)
    <3>1. CASE F = None
      BY <2>2, <3>1
    <3>2. CASE F # None
      <4>1. F \in Filters /\ [id |-> d] \in F
        BY <1>1, <1>3, <1>11, <3>2 DEF DevicesHeld, Passes, e
      <4>. QED BY <1>1, <2>1, <2>2, <4>1, FilteredAlike
    <3>. QED BY <3>1, <3>2
  <2>4. Is(FALSE)
    BY <1>4, <1>7, <2>1, <2>3
  <2>. QED BY <1>11, <2>4 DEF Is, e
<1>. QED BY <1>9, <1>10, <1>11

(* An OS has the user name, the devices and the links of the nearest OS    *)
(* that has them.                                                          *)
THEOREM NearestCorrect == Spec => []NearestInherited
<1>1. IInv => NearestInherited
    BY NamesAnswered, LinksAnswered, DevicesAnswered DEF NearestInherited
<1>. QED BY <1>1, Invariant, PTL

(* An OS declares one like f unsupported; its firmwares that pass.         *)
Unsupports(os, f) == \E u \in Elems(firmwares[os]) : ~FirmwareSupported(u) /\ Alike(u, f)
Passing(os) == {f \in Elems(firmwares[os]) : Passes(f, answer.filter)}

LEMMA FirmwaresAnswered ==
    ASSUME IInv, AcyclicAnswer, Answered("firmwares") \/ Answered("complete")
    PROVE  /\ Answered("firmwares") =>
                 /\ \A f \in Elements : \E w \in WaysFrom(answer.os) :
                       f \in Passing(Last(w)) /\ \A i \in 1..Len(w) : ~Unsupports(w[i], f)
                 /\ \A w \in WaysFrom(answer.os) : \A f \in Passing(Last(w)) :
                       \/ f \in Elements
                       \/ \E v \in WaysFrom(answer.os) : Unsupports(Last(v), f)
           /\ Answered("complete") =>
                 /\ \A f \in Elements : \E w \in WaysFrom(answer.os) :
                       /\ f \in Passing(Last(w))
                       /\ \A i \in 1..Len(w) - 1 : \A g \in Passing(w[i]) : ~Alike(f, g)
                 /\ \A w \in WaysFrom(answer.os) : \A f \in Passing(Last(w)) :
                       \E g \in Elements : Alike(f, g)
<1>. DEFINE os == answer.os
            F == answer.filter
<1>1. WaysFrom(os) = AllWays(os) /\ Elements = Elems(answer.list)
    BY AnswerFacts
<1>2. PICK C, o : /\ Reached(C, os)
                  /\ Answered("firmwares") => FirmwaresHeld(C, os, answer.list, o, F)
                  /\ Answered("complete") => CompleteHeld(C, os, answer.list, F)
  <2>1. PICK C, s, o : AnsweredFrom(C, s, o)
    BY AnswerFacts
  <2>. QED BY <2>1 DEF AnsweredFrom, Answered
<1>. HIDE DEF os, F
<1>3. /\ \A w \in AllWays(os) : Last(w) \in C
      /\ \A c \in C : \E w \in AllWays(os) : Last(w) = c
  <2>1. Reached(C, os)
    BY <1>2
  <2>. QED BY <2>1, ReachedFacts
<1>. \A p, f : f \in Passing(p) <=> f \in Elems(firmwares[p]) /\ Passes(f, F)
    BY DEF Passing, F
<1>4. ASSUME Answered("firmwares")
      PROVE  /\ \A f \in Elements : \E w \in AllWays(os) :
                   f \in Passing(Last(w)) /\ \A i \in 1..Len(w) : ~Unsupports(w[i], f)
             /\ \A w \in AllWays(os) : \A f \in Passing(Last(w)) :
                   f \in Elements \/ \E v \in AllWays(os) : Unsupports(Last(v), f)
    BY <1>1, <1>2, <1>3, <1>4 DEF FirmwaresHeld, SupportedOn, Unsupports
<1>5. ASSUME Answered("complete")
      PROVE  /\ \A f \in Elements : \E w \in AllWays(os) :
                   /\ f \in Passing(Last(w))
                   /\ \A i \in 1..Len(w) - 1 : \A g \in Passing(w[i]) : ~Alike(f, g)
             /\ \A w \in AllWays(os) : \A f \in Passing(Last(w)) : \E g \in Elements : Alike(f, g)
    BY <1>1, <1>2, <1>3, <1>5 DEF CompleteHeld, FirstOn
<1>. QED BY <1>1, <1>4, <1>5 DEF os

LEMMA Between == \A n \in Nat : \A i \in 2..n - 1 : i \in 1..n
  OBVIOUS

LEMMA ResourcesAnswered ==
    ASSUME IInv, AcyclicAnswer, Answered("resources"), asked # "loaded then",
           NEW r \in Elements, NEW f \in Fields
    PROVE  IF r.of.fields[f] # -1 \/ ~r.of.inherit
           THEN r.now[f] = r.of.fields[f]
           ELSE LET above == {w \in WaysFrom(answer.os) : Len(w) > 1}
                IN  IF r.now[f] = -1
                    THEN \A w \in above : Offer(Last(w), r, f) = -1
                    ELSE \E w \in above :
                            /\ Offer(Last(w), r, f) = r.now[f]
                            /\ \A i \in 2..Len(w) - 1 : Offer(w[i], r, f) = -1
<1>. DEFINE os == answer.os
            R == resources
<1>1. /\ RelatedTyped /\ ResourcesTyped /\ os \in Oses
      /\ Acyclic(os) /\ WaysFrom(os) = AllWays(os)
      /\ Elements = Elems(answer.list)
    BY AnswerFacts
<1>2. PICK C, kind : /\ Reached(C, os) /\ ResourcesHeld(R, C, os, kind)
                     /\ Elements = {x \in Elems(R[os]) : x.of.kind = kind}
  <2>1. PICK C, s, o : AnsweredFrom(C, s, o)
    BY AnswerFacts
  <2>. QED BY <1>1, <2>1 DEF AnsweredFrom, Answered
<1>3. AllSourced(R)
    BY DEF IInv, FieldsSourced
<1>. HIDE DEF os, R
<1>4. r \in Elems(R[os]) /\ r.of.kind = kind
    BY <1>2
<1>5. IsSourced(R, os, r)
    BY <1>1, <1>3, <1>4 DEF AllSourced
<1>6. \A p \in Oses : Offer(p, r, f) = Offered(Ofs(R, p), r.of, f)
    BY <1>1, SameArchFacts DEF R
<1>7. CASE r.of.fields[f] # -1 \/ ~r.of.inherit
    BY <1>5, <1>7 DEF IsSourced
<1>8. CASE r.of.fields[f] = -1 /\ r.of.inherit /\ r.now[f] = -1
  <2>1. ASSUME NEW w \in AllWays(os), Len(w) > 1
        PROVE  Offer(Last(w), r, f) = -1
    <3>1. Last(w) \in Oses /\ Last(w) \in C /\ Last(w) # os
      BY <1>1, <1>2, <2>1, WayFacts, ReachedFacts, NoWayBack
    <3>2. Offered(Ofs(R, Last(w)), r.of, f) = -1
      BY <1>2, <1>4, <1>8, <3>1 DEF ResourcesHeld
    <3>. QED BY <1>6, <3>1, <3>2
  <2>. QED BY <1>1, <1>8, <2>1 DEF os
<1>9. CASE r.of.fields[f] = -1 /\ r.of.inherit /\ r.now[f] # -1
  <2>1. PICK w \in AllWays(os) : Len(w) > 1 /\ OfferedOn(R, w, r.of, f, r.now[f])
    BY <1>5, <1>9 DEF IsSourced
  <2>2. Last(w) \in Oses /\ \A i \in 2..Len(w) - 1 : w[i] \in Oses
    <3>1. Len(w) \in Nat /\ Last(w) \in Oses /\ \A i \in 1..Len(w) : w[i] \in Oses
      BY WayFacts
    <3>2. \A i \in 2..Len(w) - 1 : i \in 1..Len(w)
      BY <3>1, Between
    <3>. QED BY <3>1, <3>2
  <2>3. Offer(Last(w), r, f) = r.now[f] /\ \A i \in 2..Len(w) - 1 : Offer(w[i], r, f) = -1
    BY <1>6, <2>1, <2>2 DEF OfferedOn
  <2>. QED BY <1>1, <1>9, <2>1, <2>3 DEF os
<1>. QED BY <1>7, <1>8, <1>9

(* A firmware is listed if it is not declared unsupported on some way, and *)
(* in the complete list if it is the first of its kind.                    *)
THEOREM FirmwaresCorrect == Spec => []FirmwaresInherited
<1>1. ASSUME IInv PROVE FirmwaresInherited
  <2>. DEFINE Unsupported(os, f) ==
                 \E u \in ToSet(firmwares[os]) : ~FirmwareSupported(u) /\ Alike(u, f)
              Matching(os) == {f \in ToSet(firmwares[os]) :
                                  answer.filter = None \/ f \in answer.filter}
              Has(os, f) == \E g \in Matching(os) : Alike(f, g)
              W == WaysFrom(answer.os)
  <2>1. \A os \in Oses : ToSet(firmwares[os]) = Elems(firmwares[os])
    <3>1. \A os \in Oses : firmwares[os] \in Seq(Firmware)
      BY <1>1 DEF IInv, TypeOK
    <3>2. \A s \in Seq(Firmware) : ToSet(s) = Elems(s)
      BY DEF ToSet, Elems
    <3>. QED BY <3>1, <3>2
  <2>2. \A os \in Oses : /\ \A f : Unsupported(os, f) <=> Unsupports(os, f)
                         /\ Matching(os) = Passing(os)
    BY <2>1 DEF Unsupports, Passing, Passes
  <2>3. \A os \in Oses : \A f : Has(os, f) <=> \E g \in Passing(os) : Alike(f, g)
    BY <2>2
  <2>4. ASSUME AcyclicAnswer, NEW w \in W
        PROVE  Last(w) \in Oses /\ \A i \in 1..Len(w) : w[i] \in Oses
    BY <1>1, <2>4, AnswerFacts, WayFacts
  <2>5. FirmwaresInherited
        <=> (AcyclicAnswer =>
             /\ Answered("firmwares") =>
                   /\ \A f \in Elements : \E w \in W :
                         f \in Matching(Last(w)) /\ \A i \in 1..Len(w) : ~Unsupported(w[i], f)
                   /\ \A w \in W : \A f \in Matching(Last(w)) :
                         f \in Elements \/ \E v \in W : Unsupported(Last(v), f)
             /\ Answered("complete") =>
                   /\ \A f \in Elements : \E w \in W :
                         f \in Matching(Last(w)) /\ \A i \in 1..Len(w) - 1 : ~Has(w[i], f)
                   /\ \A w \in W : \A f \in Matching(Last(w)) :
                         \E g \in Elements : Alike(f, g))
    BY DEF FirmwaresInherited
  <2>. HIDE DEF Unsupported, Matching, Has
  <2>6. ASSUME AcyclicAnswer, Answered("firmwares")
        PROVE  /\ \A f \in Elements : \E w \in W :
                     f \in Matching(Last(w)) /\ \A i \in 1..Len(w) : ~Unsupported(w[i], f)
               /\ \A w \in W : \A f \in Matching(Last(w)) :
                     f \in Elements \/ \E v \in W : Unsupported(Last(v), f)
    BY <1>1, <2>2, <2>4, <2>6, FirmwaresAnswered
  <2>7. ASSUME AcyclicAnswer, Answered("complete")
        PROVE  /\ \A f \in Elements : \E w \in W :
                     f \in Matching(Last(w)) /\ \A i \in 1..Len(w) - 1 : ~Has(w[i], f)
               /\ \A w \in W : \A f \in Matching(Last(w)) : \E g \in Elements : Alike(f, g)
    <3>1. \A w \in W : \A i \in 1..Len(w) - 1 : w[i] \in Oses
      BY <2>4, <2>7
    <3>. QED BY <1>1, <2>2, <2>3, <2>4, <2>7, <3>1, FirmwaresAnswered
  <2>. QED BY <2>5, <2>6, <2>7
<1>. QED BY <1>1, Invariant, PTL

(* What resources lack is what is nearest on some way, whatever was asked  *)
(* before, until more is loaded.                                           *)
THEOREM ResourcesCorrect == Spec => []ResourcesAsFresh
<1>1. IInv => ResourcesAsFresh
    BY ResourcesAnswered, Zenon DEF ResourcesAsFresh
<1>. QED BY <1>1, Invariant, PTL

-------------------------------------------------------------------------------
(* The C stack                                                             *)

(* The calls that run are one below the other on a way from os: what is    *)
(* left to one of them its OS inherits from directly.                      *)
Descent(os, s) ==
    /\ Elems(s[1]) \subseteq {os}
    /\ Len(s) > 1 => \E w \in AllWays(os) :
                        /\ Len(w) = Len(s) - 1
                        /\ \A k \in 2..Len(s) : Elems(s[k]) \subseteq Parents(w[k - 1])

DInv ==
    /\ TypeOK
    /\ call # NoCall => Descent(call.os, stack)
    /\ crashed => \E w \in AllWays(call.os) : Len(w) > MaxDepth

(* The way on which the innermost call is, and its next OS.                *)
LEMMA NextWay ==
    ASSUME RelatedTyped, NEW os \in Oses, NEW s \in Seq(Seq(Oses)), s # <<>>, Last(s) # <<>>,
           Descent(os, s)
    PROVE  \E v \in AllWays(os) :
              /\ Len(v) = Len(s) /\ Last(v) = Head(Last(s)) /\ v[Len(s)] = Head(Last(s))
              /\ \A k \in 2..Len(s) : Elems(s[k]) \subseteq Parents(v[k - 1])
<1>. DEFINE n == Len(s)
            x == Head(Last(s))
<1>1. /\ n \in Nat /\ n \in 1..n /\ Last(s) = s[n]
      /\ s[n] \in Seq(Oses) /\ s[n] # <<>>
      /\ x \in Elems(s[n])
  <2>1. n \in Nat /\ n \in 1..n /\ Last(s) = s[n]
    BY DEF Last
  <2>2. s[n] \in Seq(Oses) /\ s[n] # <<>>
    BY <2>1, InSeq
  <2>. QED BY <2>1, <2>2, HeadAndTail
<1>. HIDE DEF n, x
<1>2. CASE n = 1
  <2>1. x = os
    BY <1>1, <1>2 DEF Descent
  <2>2. <<os>> \in AllWays(os) /\ Len(<<os>>) = n /\ Last(<<os>>) = x /\ <<os>>[n] = x
    BY <1>2, <2>1, ShortestWay
  <2>3. \A k \in 2..n : Elems(s[k]) \subseteq Parents(<<os>>[k - 1])
    BY <1>2
  <2>. QED BY <2>2, <2>3 DEF n, x
<1>3. CASE n # 1
  <2>0. n > 1
    BY <1>1, <1>3
  <2>1. PICK w \in AllWays(os) : /\ Len(w) = n - 1
                                 /\ \A k \in 2..n : Elems(s[k]) \subseteq Parents(w[k - 1])
    BY <2>0 DEF Descent, n
  <2>2. n - 1 \in Nat /\ n \in 2..n /\ (n - 1) + 1 = n
    BY <1>1, <1>3
  <2>3. x \in Parents(Last(w))
    <3>1. Last(w) = w[n - 1]
      BY <2>1, WayFacts
    <3>. QED BY <1>1, <2>1, <2>2, <3>1
  <2>. DEFINE v == Append(w, x)
  <2>4. /\ v \in AllWays(os) /\ Len(v) = n /\ Last(v) = x
        /\ \A i \in 1..n - 1 : v[i] = w[i]
    BY <2>1, <2>2, <2>3, LongerWay
  <2>. HIDE DEF v
  <2>5. v[n] = x
    BY <2>4, WayFacts
  <2>6. ASSUME NEW k \in 2..n PROVE Elems(s[k]) \subseteq Parents(v[k - 1])
    <3>1. k - 1 \in 1..n - 1
      BY <1>1
    <3>. QED BY <2>1, <2>4, <3>1
  <2>. QED BY <2>4, <2>5, <2>6 DEF n, x
<1>. QED BY <1>2, <1>3

LEMMA VisitDescends ==
    ASSUME RelatedTyped, NEW os \in Oses, NEW s \in Seq(Seq(Oses)), s # <<>>, Last(s) # <<>>,
           Descent(os, s), NEW x, x = Head(Last(s))
    PROVE  Descent(os, Visited(s, x))
<1>. DEFINE n == Len(s)
            t == Visited(s, x)
<1>1. /\ n \in Nat /\ n \in 1..n /\ Last(s) = s[n]
      /\ s[n] \in Seq(Oses) /\ s[n] # <<>> /\ x \in Oses
      /\ Tail(s[n]) \in Seq(Oses) /\ Elems(Tail(s[n])) \subseteq Elems(s[n])
  <2>1. n \in Nat /\ n \in 1..n /\ Last(s) = s[n]
    BY DEF Last
  <2>2. s[n] \in Seq(Oses) /\ s[n] # <<>>
    BY <2>1, InSeq
  <2>. QED BY <2>1, <2>2, HeadAndTail, VisitedFacts
<1>2. /\ Len(t) = n + 1 /\ t[n + 1] = RelatedList(x)
      /\ \A k \in 1..n : Elems(t[k]) \subseteq Elems(s[k])
  <2>. DEFINE r == [s EXCEPT ![n] = Tail(@)]
  <2>1. /\ r \in Seq(Seq(Oses)) /\ Len(r) = n /\ r[n] = Tail(s[n])
        /\ \A k \in 1..n : k # n => r[k] = s[k]
    <3>1. \A k \in 1..n : s[k] \in Seq(Oses)
      BY InSeq
    <3>. QED BY <1>1, <3>1
  <2>2. RelatedList(x) \in Seq(Oses)
    BY <1>1, RelatedListFacts
  <2>. HIDE DEF r
  <2>3. LET u == Append(r, RelatedList(x))
        IN  Len(u) = n + 1 /\ u[n + 1] = RelatedList(x) /\ \A k \in 1..n : u[k] = r[k]
    BY <2>1, <2>2, PutLast
  <2>4. t = Append(r, RelatedList(x))
    BY DEF Visited, r, n
  <2>. HIDE DEF t, n
  <2>. QED BY <1>1, <2>1, <2>3, <2>4
<1>3. PICK v \in AllWays(os) :
         /\ Len(v) = n /\ v[n] = x
         /\ \A k \in 2..n : Elems(s[k]) \subseteq Parents(v[k - 1])
    BY NextWay
<1>4. Elems(RelatedList(x)) = Parents(x)
    BY <1>1, RelatedListFacts
<1>5. Elems(s[1]) \subseteq {os}
    BY DEF Descent
<1>. HIDE DEF t, n
<1>6. ASSUME NEW k \in 2..n + 1 PROVE Elems(t[k]) \subseteq Parents(v[k - 1])
  <2>1. CASE k = n + 1
    <3>1. k - 1 = n
      BY <1>1, <2>1
    <3>. QED BY <1>2, <1>3, <1>4, <2>1, <3>1
  <2>2. CASE k # n + 1
    <3>1. k \in 2..n /\ k \in 1..n
      BY <1>1, <2>2
    <3>. QED BY <1>2, <1>3, <3>1
  <2>. QED BY <2>1, <2>2
<1>7. Elems(t[1]) \subseteq {os}
  <2>1. 1 \in 1..n
    BY <1>1
  <2>. QED BY <1>2, <1>5, <2>1
<1>8. Len(v) = Len(t) - 1
    BY <1>1, <1>2, <1>3
<1>. QED BY <1>2, <1>6, <1>7, <1>8 DEF Descent, t

LEMMA LeaveAscends ==
    ASSUME NEW os \in Oses, NEW s \in Seq(Seq(Oses)), Len(s) > 1, Descent(os, s)
    PROVE  Descent(os, Front(s))
<1>. DEFINE n == Len(s)
            t == Front(s)
<1>1. n \in Nat /\ n > 1 /\ n - 1 \in 1..n
    OBVIOUS
<1>2. Len(t) = n - 1 /\ \A k \in 1..n - 1 : t[k] = s[k]
  <2>1. t = [k \in 1..n - 1 |-> s[k]]
    BY <1>1 DEF Front
  <2>. QED BY <1>1, <2>1
<1>3. PICK w \in AllWays(os) : /\ Len(w) = n - 1
                               /\ \A k \in 2..n : Elems(s[k]) \subseteq Parents(w[k - 1])
    BY <1>1 DEF Descent
<1>4. Elems(t[1]) \subseteq {os}
  <2>1. 1 \in 1..n - 1
    BY <1>1
  <2>. QED BY <1>2, <2>1 DEF Descent
<1>. HIDE DEF t, n
<1>5. ASSUME Len(t) > 1
      PROVE  \E v \in AllWays(os) : /\ Len(v) = Len(t) - 1
                                    /\ \A k \in 2..Len(t) : Elems(t[k]) \subseteq Parents(v[k - 1])
  <2>1. n - 2 \in 1..Len(w) /\ n - 1 \in Nat
    BY <1>1, <1>2, <1>3, <1>5
  <2>2. PICK v \in AllWays(os) : Len(v) = n - 2 /\ \A i \in 1..n - 2 : v[i] = w[i]
    <3>1. PICK m \in 1..Len(w) : m = n - 2
      BY <2>1
    <3>2. PICK v : v = SubSeq(w, 1, m)
      OBVIOUS
    <3>3. v \in AllWays(os) /\ Len(v) = m /\ \A i \in 1..m : v[i] = w[i]
      BY <3>2, ShorterWay
    <3>. QED BY <3>1, <3>3
  <2>3. ASSUME NEW k \in 2..n - 1 PROVE Elems(t[k]) \subseteq Parents(v[k - 1])
    <3>1. k \in 2..n /\ k \in 1..n - 1 /\ k - 1 \in 1..n - 2
      BY <1>1
    <3>. QED BY <1>2, <1>3, <2>2, <3>1
  <2>4. Len(v) = Len(t) - 1
    BY <1>1, <1>2, <2>2
  <2>. QED BY <1>2, <2>3, <2>4
<1>. QED BY <1>4, <1>5 DEF Descent, t

LEMMA DInvInit == Init => DInv
BY TypeOKInit DEF Init, DInv

LEMMA DInvNext == DInv /\ [Next]_vars => DInv'
<1>. SUFFICES ASSUME DInv, [Next]_vars PROVE DInv'
    OBVIOUS
<1>1. /\ TypeOK /\ RelatedTyped
      /\ call # NoCall => Descent(call.os, stack)
      /\ crashed => \E w \in AllWays(call.os) : Len(w) > MaxDepth
    BY DEF DInv, TypeOK, RelatedTyped
<1>2. TypeOK'
    BY <1>1, TypeOKNext
<1>3. call # NoCall => call.os \in Oses /\ stack \in Seq(Seq(Oses)) /\ stack # <<>>
    BY <1>1 DEF TypeOK, Call
<1>4. call = NoCall => ~crashed
    BY <1>1 DEF TypeOK
<1>5. PICK os : os = call.os
    OBVIOUS
<1>6. UNCHANGED osVars => /\ \A o, s : Descent(o, s)' <=> Descent(o, s)
                          /\ \A o : AllWays(o)' = AllWays(o)
  <2>. SUFFICES ASSUME UNCHANGED osVars
                PROVE  /\ \A o, s : Descent(o, s)' <=> Descent(o, s)
                       /\ \A o : AllWays(o)' = AllWays(o)
      OBVIOUS
  <2>1. \A o : AllWays(o)' = AllWays(o)
      BY SameLists
  <2>2. \A o : Parents(o)' = Parents(o)
      BY DEF osVars, Parents
  <2>. QED BY <2>1, <2>2 DEF Descent
<1>7. CASE \E file \in Files : LoadOs(file)
  <2>1. PICK file \in Files : LoadOs(file)
    BY <1>7
  <2>2. call' = NoCall /\ ~crashed'
    BY <2>1 DEF LoadOs, Idle
  <2>. QED BY <1>2, <2>2 DEF DInv
<1>8. CASE \E o \in Oses :
              \/ \E get \in {"devices", "links", "firmwares", "complete"},
                    filter \in Filters \cup {None} : Get(get, o, None, filter)
              \/ Get("username", o, None, None)
              \/ \E kind \in Kinds : Get("resources", o, kind, None)
  <2>1. PICK get, o, kind, filter : o \in Oses /\ Get(get, o, kind, filter)
    BY <1>8
  <2>2. /\ ~crashed' /\ UNCHANGED osVars
        /\ call'.os = o /\ stack' = <<<<o>>>>
    BY <2>1 DEF Get, Idle
  <2>3. Descent(o, <<<<o>>>>)
    BY DEF Descent, Elems
  <2>4. Descent(call.os, stack)'
    BY <1>6, <2>2, <2>3
  <2>. QED BY <1>2, <2>2, <2>4 DEF DInv
<1>9. CASE Visit
  <2>1. PICK s, x : s = stack /\ x = Head(Last(s))
    OBVIOUS
  <2>2. /\ call # NoCall /\ ~crashed' /\ UNCHANGED osVars /\ call' = call
        /\ Last(s) # <<>> /\ stack' = Visited(s, x)
    BY <1>9, <2>1 DEF Visit, ToVisit, Running, Visited
  <2>3. Descent(os, Visited(s, x))
    <3>1. os \in Oses /\ s \in Seq(Seq(Oses)) /\ s # <<>> /\ Descent(os, s)
      BY <1>1, <1>3, <1>5, <2>1, <2>2
    <3>. QED BY <1>1, <2>1, <2>2, <3>1, VisitDescends
  <2>4. Descent(call.os, stack)'
    BY <1>5, <1>6, <2>2, <2>3
  <2>. QED BY <1>2, <2>2, <2>4 DEF DInv
<1>10. CASE Overflow
  <2>1. PICK s : s = stack
    OBVIOUS
  <2>2. /\ call # NoCall /\ UNCHANGED <<osVars, call, stack>>
        /\ Last(s) # <<>> /\ Len(s) > MaxDepth
    BY <1>10, <2>1 DEF Overflow, ToVisit, Running
  <2>3. \E w \in AllWays(os) : Len(w) > MaxDepth
    <3>1. os \in Oses /\ s \in Seq(Seq(Oses)) /\ s # <<>> /\ Descent(os, s)
      BY <1>1, <1>3, <1>5, <2>1, <2>2
    <3>2. PICK v \in AllWays(os) : Len(v) = Len(s)
      BY <1>1, <2>2, <3>1, NextWay
    <3>. QED BY <2>2, <3>2
  <2>4. Descent(call.os, stack)'
    BY <1>1, <1>6, <2>2
  <2>5. \E w \in AllWays(call.os)' : Len(w) > MaxDepth
    BY <1>5, <1>6, <2>2, <2>3
  <2>. QED BY <1>2, <2>4, <2>5 DEF DInv
<1>11. CASE Leave
  <2>1. PICK s : s = stack
    OBVIOUS
  <2>2. /\ call # NoCall /\ ~crashed' /\ UNCHANGED osVars /\ call' = call
        /\ Len(s) > 1 /\ stack' = Front(s)
    BY <1>11, <2>1 DEF Leave, Running
  <2>3. Descent(os, Front(s))
    BY <1>1, <1>3, <1>5, <2>1, <2>2, LeaveAscends
  <2>4. Descent(call.os, stack)'
    BY <1>5, <1>6, <2>2, <2>3
  <2>. QED BY <1>2, <2>2, <2>4 DEF DInv
<1>12. CASE SecondWalk
  <2>1. /\ call # NoCall /\ ~crashed' /\ UNCHANGED osVars
        /\ call' = [call EXCEPT !.walk = 2] /\ stack' = <<<<call.os>>>>
    BY <1>12 DEF SecondWalk, WalkEnded, Running
  <2>2. call'.os = os
    BY <1>1, <1>5, <2>1 DEF TypeOK, Call
  <2>3. Descent(os, <<<<os>>>>)
    BY DEF Descent, Elems
  <2>4. Descent(call.os, stack)'
    BY <1>5, <1>6, <2>1, <2>2, <2>3
  <2>. QED BY <1>2, <2>1, <2>4 DEF DInv
<1>13. CASE Return
    BY <1>2, <1>13 DEF Return, WalkEnded, Running, DInv
<1>14. CASE UNCHANGED vars
  <2>1. UNCHANGED <<osVars, call, stack, crashed>>
    BY <1>14 DEF vars
  <2>2. Descent(call.os, stack)' <=> Descent(call.os, stack)
    BY <1>6, <2>1
  <2>3. AllWays(call.os)' = AllWays(call.os)
    BY <1>6, <2>1
  <2>. QED BY <1>1, <1>2, <2>1, <2>2, <2>3 DEF DInv
<1>. QED BY <1>7, <1>8, <1>9, <1>10, <1>11, <1>12, <1>13, <1>14 DEF Next, Walk

(* The C stack overflows only below an OS from which a way comes back.     *)
THEOREM StackCorrect == Spec => []StackSuffices
<1>1. ASSUME DInv PROVE StackSuffices
  <2>. SUFFICES ASSUME crashed, Acyclic(call.os) PROVE FALSE
      BY DEF StackSuffices
  <2>1. call.os \in Oses /\ RelatedTyped
    BY <1>1 DEF DInv, TypeOK, RelatedTyped, Call
  <2>2. PICK w \in AllWays(call.os) : Len(w) > MaxDepth
    BY <1>1 DEF DInv
  <2>3. Len(w) \leq Cardinality(Oses) /\ Len(w) \in Nat
    BY <2>1, WaysComplete, WayFacts
  <2>4. MaxDepth \in Nat /\ MaxDepth >= Cardinality(Oses) /\ Cardinality(Oses) \in Nat
    BY DepthAssumption, FS_CardinalityType
  <2>. QED BY <2>2, <2>3, <2>4
<1>2. Init => DInv
    BY DInvInit
<1>3. DInv /\ [Next]_vars => DInv'
    BY DInvNext
<1>. QED BY <1>1, <1>2, <1>3, PTL DEF Spec
===============================================================================
