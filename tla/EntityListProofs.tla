---------------------------- MODULE EntityListProofs ----------------------------
(***************************************************************************)
(* Proofs about EntityList, for any entities, ids, lists and filters.      *)
(***************************************************************************)
EXTENDS EntityList, ListFacts, SequenceTheorems, FiniteSetTheorems, TLAPS

-------------------------------------------------------------------------------
(* What osinfo_list_add does to one list                                   *)

(* An array s and a table t of the same entities.                          *)
Agree(s, t) ==
    /\ \A i \in 1..Len(s) : t[IdOf[s[i]]] = s[i]
    /\ \A i, j \in 1..Len(s) : IdOf[s[i]] = IdOf[s[j]] => i = j
    /\ \A id \in Ids : t[id] # None =>
          \E i \in 1..Len(s) : s[i] = t[id] /\ IdOf[s[i]] = id

LEMMA WithoutAbsent ==
    ASSUME NEW s, NEW x, \A i \in 1..Len(s) : s[i] # x
    PROVE  Without(s, x) = s
<1>1. {i \in 1..Len(s) : s[i] = x} = {}
    OBVIOUS
<1>2. QED
    BY <1>1 DEF Without

LEMMA WithoutOnce ==
    ASSUME NEW s \in Seq(Entities), NEW k \in 1..Len(s),
           \A i \in 1..Len(s) : s[i] = s[k] => i = k
    PROVE  Without(s, s[k]) =
              [i \in 1..Len(s) - 1 |-> IF i < k THEN s[i] ELSE s[i + 1]]
<1> DEFINE places == {i \in 1..Len(s) : s[i] = s[k]}
           first == CHOOSE i \in places : \A j \in places : i \leq j
<1>1. places = {k}
    OBVIOUS
<1>2. k \in Nat
    BY LenProperties
<1>3. first = k
  <2>1. \E i \in places : \A j \in places : i \leq j
      BY <1>1, <1>2
  <2>2. first \in places
      BY <2>1
  <2>3. QED
      BY <1>1, <2>2
<1>4. places # {}
    BY <1>1
<1> HIDE DEF places
<1>5. Without(s, s[k]) = IF places = {} THEN s
        ELSE [i \in 1..Len(s) - 1 |-> IF i < first THEN s[i] ELSE s[i + 1]]
    BY DEF Without, places
<1> HIDE DEF first
<1>6. QED
    BY <1>3, <1>4, <1>5

(* Adding keeps array and table in agreement, and the array no shorter.    *)
LEMMA InsertAgrees ==
    ASSUME NEW s \in Seq(Entities), NEW t \in [Ids -> Entities \cup {None}],
           NEW e \in Entities, Agree(s, t)
    PROVE  /\ Append(Without(s, t[IdOf[e]]), e) \in Seq(Entities)
           /\ Len(Append(Without(s, t[IdOf[e]]), e)) \geq Len(s)
           /\ Agree(Append(Without(s, t[IdOf[e]]), e), [t EXCEPT ![IdOf[e]] = e])
<1> DEFINE old == t[IdOf[e]]
           w == Without(s, old)
           s2 == Append(w, e)
           t2 == [t EXCEPT ![IdOf[e]] = e]
<1>1. IdOf[e] \in Ids /\ \A i \in 1..Len(s) : s[i] \in Entities /\ IdOf[s[i]] \in Ids
    BY IdsAssumption, ElementOfSeq
<1>2. Len(s) \in Nat
    BY LenProperties
<1>3. t2[IdOf[e]] = e /\ \A id \in Ids : id # IdOf[e] => t2[id] = t[id]
    BY <1>1
<1>4. e # None
    BY NoneAssumption
<1>5. CASE old = None
  <2>1. w = s
      BY <1>1, <1>5, NoneAssumption, WithoutAbsent
  <2>2. /\ s2 \in Seq(Entities)
        /\ Len(s2) = Len(s) + 1
        /\ \A i \in 1..Len(s) : s2[i] = s[i]
        /\ s2[Len(s) + 1] = e
      BY <2>1, AppendProperties
  <2>3. \A i \in 1..Len(s) : IdOf[s[i]] # IdOf[e]
      BY <1>1, <1>5, NoneAssumption DEF Agree
  <2> HIDE DEF s2, t2, w, old
  <2>4. \A i \in 1..Len(s2) : t2[IdOf[s2[i]]] = s2[i]
      BY <1>1, <1>2, <1>3, <2>2, <2>3 DEF Agree
  <2>5. \A i, j \in 1..Len(s2) : IdOf[s2[i]] = IdOf[s2[j]] => i = j
      BY <1>2, <2>2, <2>3 DEF Agree
  <2>6. \A id \in Ids : t2[id] # None =>
          \E i \in 1..Len(s2) : s2[i] = t2[id] /\ IdOf[s2[i]] = id
    <3> SUFFICES ASSUME NEW id \in Ids, t2[id] # None
                 PROVE  \E i \in 1..Len(s2) : s2[i] = t2[id] /\ IdOf[s2[i]] = id
        OBVIOUS
    <3>1. CASE id = IdOf[e]
        BY <1>2, <1>3, <2>2, <3>1
    <3>2. CASE id # IdOf[e]
      <4>1. PICK i \in 1..Len(s) : s[i] = t[id] /\ IdOf[s[i]] = id
          BY <1>3, <3>2 DEF Agree
      <4>2. i \in 1..Len(s2) /\ s2[i] = t2[id] /\ IdOf[s2[i]] = id
          BY <1>2, <1>3, <2>2, <3>2, <4>1
      <4>3. QED
          BY <4>2
    <3>3. QED
        BY <3>1, <3>2
  <2>7. QED
      BY <1>2, <2>2, <2>4, <2>5, <2>6 DEF Agree, s2, t2, w, old
<1>6. CASE old # None
  <2>1. PICK k \in 1..Len(s) : s[k] = old /\ IdOf[s[k]] = IdOf[e]
      BY <1>1, <1>6 DEF Agree
  <2>2. \A i \in 1..Len(s) : IdOf[s[i]] = IdOf[e] => i = k
      BY <2>1 DEF Agree
  <2>3. w = [i \in 1..Len(s) - 1 |-> IF i < k THEN s[i] ELSE s[i + 1]]
      BY <2>1, <2>2, WithoutOnce
  <2> DEFINE from(i) == IF i < k THEN i ELSE i + 1
  <2>4. \A i \in 1..Len(s) - 1 : from(i) \in 1..Len(s) /\ from(i) # k
      BY <1>2
  <2>5. \A i \in 1..Len(s) - 1 : w[i] = s[from(i)]
      BY <2>3
  <2>6. w \in Seq(Entities) /\ Len(w) = Len(s) - 1
    <3>1. Len(s) - 1 \in Nat
        BY <1>2
    <3>2. w \in [1..Len(s) - 1 -> Entities]
        BY <1>1, <2>3, <2>4
    <3>3. QED
        BY <3>1, <3>2, IsASeq, LenProperties
  <2>7. /\ s2 \in Seq(Entities)
        /\ Len(s2) = Len(s)
        /\ \A i \in 1..Len(s) - 1 : s2[i] = s[from(i)]
        /\ s2[Len(s)] = e
    <3>1. Len(w) + 1 = Len(s)
        BY <1>2, <2>6
    <3>2. s2 \in Seq(Entities) /\ Len(s2) = Len(w) + 1 /\ s2[Len(w) + 1] = e
          /\ \A i \in 1..Len(w) : s2[i] = w[i]
        BY <2>6, AppendProperties
    <3>3. QED
        BY <2>5, <2>6, <3>1, <3>2
  <2> HIDE DEF s2, t2, w, old
  <2>8. \A i \in 1..Len(s) - 1 : IdOf[s2[i]] # IdOf[e]
      BY <2>2, <2>4, <2>7
  <2>9. \A i \in 1..Len(s2) : t2[IdOf[s2[i]]] = s2[i]
    <3> SUFFICES ASSUME NEW i \in 1..Len(s2) PROVE t2[IdOf[s2[i]]] = s2[i]
        OBVIOUS
    <3>1. CASE i = Len(s)
        BY <1>3, <2>7, <3>1
    <3>2. CASE i # Len(s)
      <4>1. i \in 1..Len(s) - 1
          BY <1>2, <2>7, <3>2
      <4>2. s2[i] = s[from(i)] /\ from(i) \in 1..Len(s) /\ IdOf[s2[i]] # IdOf[e]
          BY <2>4, <2>7, <2>8, <4>1
      <4>3. QED
          BY <1>1, <1>3, <4>2 DEF Agree
    <3>3. QED
        BY <3>1, <3>2
  <2>10. \A i, j \in 1..Len(s2) : IdOf[s2[i]] = IdOf[s2[j]] => i = j
    <3> SUFFICES ASSUME NEW i \in 1..Len(s2), NEW j \in 1..Len(s2),
                        IdOf[s2[i]] = IdOf[s2[j]]
                 PROVE  i = j
        OBVIOUS
    <3>1. CASE i = Len(s) \/ j = Len(s)
        BY <1>2, <2>7, <2>8, <3>1
    <3>2. CASE i # Len(s) /\ j # Len(s)
      <4>1. i \in 1..Len(s) - 1 /\ j \in 1..Len(s) - 1
          BY <1>2, <2>7, <3>2
      <4>2. from(i) = from(j)
          BY <2>4, <2>7, <4>1 DEF Agree
      <4>3. QED
          BY <4>1, <4>2
    <3>3. QED
        BY <3>1, <3>2
  <2>11. \A id \in Ids : t2[id] # None =>
           \E i \in 1..Len(s2) : s2[i] = t2[id] /\ IdOf[s2[i]] = id
    <3> SUFFICES ASSUME NEW id \in Ids, t2[id] # None
                 PROVE  \E i \in 1..Len(s2) : s2[i] = t2[id] /\ IdOf[s2[i]] = id
        OBVIOUS
    <3>1. CASE id = IdOf[e]
        BY <1>2, <1>3, <2>7, <3>1
    <3>2. CASE id # IdOf[e]
      <4>1. PICK m \in 1..Len(s) : s[m] = t[id] /\ IdOf[s[m]] = id
          BY <1>3, <3>2 DEF Agree
      <4>2. m # k
          BY <2>1, <3>2, <4>1
      <4>3. PICK i \in 1..Len(s) - 1 : from(i) = m
        <5>1. CASE m < k
          <6>1. m \in 1..Len(s) - 1 /\ from(m) = m
              BY <1>2, <5>1
          <6>2. QED
              BY <6>1
        <5>2. CASE m > k
          <6>1. m - 1 \in 1..Len(s) - 1 /\ from(m - 1) = m
              BY <1>2, <5>2
          <6>2. QED
              BY <6>1
        <5>3. QED
            BY <1>2, <4>2, <5>1, <5>2
      <4>4. i \in 1..Len(s2) /\ s2[i] = t2[id] /\ IdOf[s2[i]] = id
          BY <1>2, <1>3, <2>7, <3>2, <4>1, <4>3
      <4>5. QED
          BY <4>4
    <3>3. QED
        BY <3>1, <3>2
  <2>12. QED
      BY <1>2, <2>7, <2>9, <2>10, <2>11 DEF Agree, s2, t2, w, old
<1>7. QED
    BY <1>5, <1>6

-------------------------------------------------------------------------------
(* The lists as they are kept: typed, in agreement, each element held once *)
ListsTyped ==
    /\ array \in [Lists -> Seq(Entities)]
    /\ table \in [Lists -> [Ids -> Entities \cup {None}]]
    /\ held \in [Lists -> [Entities -> Int]]

ListsSound == ListsTyped /\ ArrayMatchesTable /\ HeldWhileListed

LEMMA MatchesIsAgree ==
    ArrayMatchesTable <=> \A l \in Lists : Agree(array[l], table[l])
  BY DEF ArrayMatchesTable, Agree

(* The table knows an entity by its own id only.                           *)
LEMMA TableKeys ==
    ASSUME ListsSound, NEW l \in Lists, NEW id \in Ids, table[l][id] # None
    PROVE  table[l][id] \in Entities /\ IdOf[table[l][id]] = id
<1>1. table[l] \in [Ids -> Entities \cup {None}] /\ Agree(array[l], table[l])
    BY MatchesIsAgree DEF ListsSound, ListsTyped
<1>2. PICK i \in 1..Len(array[l]) : /\ array[l][i] = table[l][id]
                                    /\ IdOf[array[l][i]] = id
    BY <1>1 DEF Agree
<1>3. QED
    BY <1>1, <1>2

LEMMA InsertSound ==
    ASSUME ListsSound, NEW l \in Lists, NEW e \in Entities, Insert(l, e)
    PROVE  /\ ListsSound'
           /\ \A m \in Lists : Len(array'[m]) \geq Len(array[m])
<1> DEFINE old == table[l][IdOf[e]]
<1>1. /\ array[l] \in Seq(Entities)
      /\ table[l] \in [Ids -> Entities \cup {None}]
      /\ Agree(array[l], table[l])
    BY MatchesIsAgree DEF ListsSound, ListsTyped
<1>2. /\ Append(Without(array[l], old), e) \in Seq(Entities)
      /\ Len(Append(Without(array[l], old), e)) \geq Len(array[l])
      /\ Agree(Append(Without(array[l], old), e), [table[l] EXCEPT ![IdOf[e]] = e])
    BY <1>1, InsertAgrees
<1>3. array' = [array EXCEPT ![l] = Append(Without(array[l], old), e)]
    BY DEF Insert, Lookup
<1>4. table' = [table EXCEPT ![l] = [table[l] EXCEPT ![IdOf[e]] = e]]
    BY DEF Insert, ListsSound, ListsTyped
<1>5. IdOf[e] \in Ids
    BY IdsAssumption
<1>6. \A m \in Lists : m # l => array'[m] = array[m] /\ table'[m] = table[m]
    BY <1>3, <1>4 DEF ListsSound, ListsTyped
<1>7. array'[l] = Append(Without(array[l], old), e)
      /\ table'[l] = [table[l] EXCEPT ![IdOf[e]] = e]
    BY <1>3, <1>4 DEF ListsSound, ListsTyped
<1>8. held' = [held EXCEPT ![l] = [x \in Entities |->
                  held[l][x] + (IF x = e THEN 1 ELSE 0) - (IF x = old THEN 1 ELSE 0)]]
    BY DEF Insert, Lookup
<1>9. ListsTyped'
  <2>1. array' \in [Lists -> Seq(Entities)]
      BY <1>2, <1>3 DEF ListsSound, ListsTyped
  <2>2. [table[l] EXCEPT ![IdOf[e]] = e] \in [Ids -> Entities \cup {None}]
      BY <1>1, <1>5
  <2>3. table' \in [Lists -> [Ids -> Entities \cup {None}]]
      BY <1>4, <2>2 DEF ListsSound, ListsTyped
  <2>4. \A x \in Entities : held[l][x] \in Int
      BY DEF ListsSound, ListsTyped
  <2>5. [x \in Entities |-> held[l][x] + (IF x = e THEN 1 ELSE 0)
                                       - (IF x = old THEN 1 ELSE 0)]
            \in [Entities -> Int]
      BY <2>4
  <2>6. held' \in [Lists -> [Entities -> Int]]
      BY <1>8, <2>5 DEF ListsSound, ListsTyped
  <2>7. QED
      BY <2>1, <2>3, <2>6 DEF ListsTyped
<1>10. ArrayMatchesTable'
  <2>1. \A m \in Lists : Agree(array'[m], table'[m])
      BY <1>2, <1>6, <1>7, MatchesIsAgree DEF ListsSound
  <2>2. QED
      BY <2>1 DEF ArrayMatchesTable, Agree
<1>11. HeldWhileListed'
  <2> SUFFICES ASSUME NEW m \in Lists, NEW x \in Entities
               PROVE  held'[m][x] = IF table'[m][IdOf[x]] = x THEN 1 ELSE 0
      BY DEF HeldWhileListed
  <2>1. held[m][x] = IF table[m][IdOf[x]] = x THEN 1 ELSE 0
      BY DEF ListsSound, HeldWhileListed
  <2>2. CASE m # l
      BY <1>6, <1>8, <2>1, <2>2 DEF ListsSound, ListsTyped
  <2>3. CASE m = l
    <3>1. held'[l][x] = held[l][x] + (IF x = e THEN 1 ELSE 0)
                                   - (IF x = old THEN 1 ELSE 0)
        BY <1>8 DEF ListsSound, ListsTyped
    <3>2. old = x => IdOf[x] = IdOf[e]
        BY <1>5, NoneAssumption, TableKeys
    <3>3. table'[l][IdOf[e]] = e
        BY <1>1, <1>5, <1>7
    <3>4. IdOf[x] # IdOf[e] => table'[l][IdOf[x]] = table[l][IdOf[x]]
        BY <1>1, <1>7, IdsAssumption
    <3>5. CASE IdOf[x] = IdOf[e]
        BY <2>1, <2>3, <3>1, <3>3, <3>5
    <3>6. CASE IdOf[x] # IdOf[e]
        BY <2>1, <2>3, <3>1, <3>2, <3>4, <3>6
    <3>7. QED
        BY <3>5, <3>6
  <2>4. QED
      BY <2>2, <2>3
<1>12. \A m \in Lists : Len(array'[m]) \geq Len(array[m])
  <2>1. \A m \in Lists : Len(array[m]) \in Nat
      BY LenProperties DEF ListsSound, ListsTyped
  <2>2. QED
      BY <1>2, <1>6, <1>7, <2>1
<1>13. QED
    BY <1>9, <1>10, <1>11, <1>12 DEF ListsSound

LEMMA RenewSound ==
    ASSUME ListsSound, NEW l \in Lists, Renew(l)
    PROVE  ListsSound'
<1> DEFINE n(x) == Cardinality({id \in Ids : table[l][id] = x})
<1>1. /\ array' = [array EXCEPT ![l] = <<>>]
      /\ table' = [table EXCEPT ![l] = [id \in Ids |-> None]]
      /\ held' = [held EXCEPT ![l] = [x \in Entities |-> held[l][x] - n(x)]]
    BY DEF Renew, Lookup
<1>2. \A x \in Entities : n(x) = IF table[l][IdOf[x]] = x THEN 1 ELSE 0
  <2> SUFFICES ASSUME NEW x \in Entities
               PROVE  n(x) = IF table[l][IdOf[x]] = x THEN 1 ELSE 0
      OBVIOUS
  <2>1. \A id \in Ids : table[l][id] = x => id = IdOf[x]
      BY NoneAssumption, TableKeys
  <2>2. CASE table[l][IdOf[x]] = x
    <3>1. {id \in Ids : table[l][id] = x} = {IdOf[x]}
        BY <2>1, <2>2, IdsAssumption
    <3>2. QED
        BY <2>2, <3>1, FS_Singleton
  <2>3. CASE table[l][IdOf[x]] # x
    <3>1. {id \in Ids : table[l][id] = x} = {}
        BY <2>1, <2>3
    <3>2. QED
        BY <2>3, <3>1, FS_EmptySet
  <2>4. QED
      BY <2>2, <2>3
<1> HIDE DEF n
<1>3. \A x \in Entities : held[l][x] - n(x) = 0
    BY <1>2 DEF ListsSound, HeldWhileListed
<1>4. held' = [held EXCEPT ![l] = [x \in Entities |-> 0]]
    BY <1>1, <1>3
<1>5. ListsTyped'
  <2>1. array' \in [Lists -> Seq(Entities)]
      BY <1>1, EmptySeq DEF ListsSound, ListsTyped
  <2>2. table' \in [Lists -> [Ids -> Entities \cup {None}]]
      BY <1>1 DEF ListsSound, ListsTyped
  <2>3. held' \in [Lists -> [Entities -> Int]]
      BY <1>4 DEF ListsSound, ListsTyped
  <2>4. QED
      BY <2>1, <2>2, <2>3 DEF ListsTyped
<1>6. \A m \in Lists : m # l => /\ array'[m] = array[m] /\ table'[m] = table[m]
                                /\ held'[m] = held[m]
    BY <1>1 DEF ListsSound, ListsTyped
<1>7. array'[l] = <<>> /\ table'[l] = [id \in Ids |-> None]
      /\ held'[l] = [x \in Entities |-> 0]
    BY <1>1, <1>4 DEF ListsSound, ListsTyped
<1>8. ArrayMatchesTable'
  <2>1. Agree(<<>>, [id \in Ids |-> None])
      BY EmptySeq DEF Agree
  <2>2. \A m \in Lists : Agree(array'[m], table'[m])
      BY <1>6, <1>7, <2>1, MatchesIsAgree DEF ListsSound
  <2>3. QED
      BY <2>2 DEF ArrayMatchesTable, Agree
<1>9. HeldWhileListed'
  <2>1. \A x \in Entities : x # None /\ IdOf[x] \in Ids
      BY NoneAssumption, IdsAssumption
  <2>2. QED
      BY <1>6, <1>7, <2>1 DEF ListsSound, HeldWhileListed
<1>10. QED
    BY <1>5, <1>8, <1>9 DEF ListsSound

-------------------------------------------------------------------------------
(* The inductive invariant                                                 *)

OpOK == /\ op \in Loop \cup {NoLoop}
        /\ ~Idle => op.i \geq 1

IInv == /\ ListsSound
        /\ OpOK
        /\ before \in [Lists -> Seq(Entities)]
        /\ LoopInBounds

LEMMA NoConstraintsTyped == NoConstraints \in Constraints
  BY DEF NoConstraints, Constraints

(* A call that runs is a record of Loop.                                   *)
LEMMA LoopTyped ==
    ASSUME OpOK, op.kind \in Kinds
    PROVE  /\ op \in Loop
           /\ ~Idle
           /\ op.i \in Nat \ {0}
           /\ op.len \in Nat
           /\ op.list \in Lists
           /\ op.other \in Lists
           /\ Walked \in Lists
<1>1. op # NoLoop
    BY DEF NoLoop, Kinds
<1>2. op \in Loop
    BY <1>1 DEF OpOK
<1>3. op.i \in Nat /\ op.len \in Nat
    BY <1>2 DEF Loop
<1>4. op.list \in Lists /\ op.source \in Lists /\ op.other \in Lists
    BY <1>2 DEF Loop
<1>5. Walked \in Lists
    BY <1>4 DEF Walked
<1>6. QED
    BY <1>1, <1>2, <1>3, <1>4, <1>5 DEF OpOK, Idle

(* The loop has an entity to look at.                                      *)
LEMMA EntityTyped ==
    ASSUME IInv, op.kind \in Kinds, op.i \leq op.len
    PROVE  entity \in Entities /\ IdOf[entity] \in Ids
<1>1. /\ op.i \in Nat \ {0} /\ op.len \in Nat
      /\ Walked \in Lists
      /\ ~Idle
    BY LoopTyped DEF IInv
<1>2. array[Walked] \in Seq(Entities)
    BY <1>1 DEF IInv, ListsSound, ListsTyped
<1>3. op.len \leq Len(array[Walked])
    BY <1>1 DEF IInv, LoopInBounds
<1>4. op.i \in 1..Len(array[Walked])
    BY <1>1, <1>2, <1>3, LenProperties
<1>5. entity \in Entities
    BY <1>2, <1>4, ElementOfSeq DEF entity
<1>6. QED
    BY <1>5, IdsAssumption

LEMMA InitIInv == Init => IInv
<1> SUFFICES ASSUME Init PROVE IInv
    OBVIOUS
<1>1. ListsTyped
    BY EmptySeq DEF Init, ListsTyped
<1>2. ArrayMatchesTable
    BY EmptySeq DEF Init, ArrayMatchesTable
<1>3. HeldWhileListed
  <2>1. \A x \in Entities : x # None /\ IdOf[x] \in Ids
      BY NoneAssumption, IdsAssumption
  <2>2. QED
      BY <2>1 DEF Init, HeldWhileListed
<1>4. Idle
    BY DEF Init, Idle
<1>5. QED
    BY <1>1, <1>2, <1>3, <1>4
       DEF Init, IInv, ListsSound, OpOK, Idle, LoopInBounds, ListsTyped

-------------------------------------------------------------------------------
(* Every step preserves it                                                 *)

(* A step that leaves the lists alone.                                     *)
LEMMA SkipSound ==
    ASSUME ListsSound, UNCHANGED <<array, table, held>>
    PROVE  /\ ListsSound'
           /\ \A m \in Lists : Len(array'[m]) \geq Len(array[m])
<1>1. \A m \in Lists : Len(array[m]) \in Nat
    BY LenProperties DEF ListsSound, ListsTyped
<1>2. ListsSound'
    BY DEF ListsSound, ListsTyped, ArrayMatchesTable, HeldWhileListed
<1>3. QED
    BY <1>1, <1>2

LEMMA BeginIInv ==
    ASSUME IInv, NEW kind \in Kinds \ {"second"}, NEW l \in Lists, NEW s \in Lists,
           NEW t \in Lists, NEW f \in Constraints, NEW others \in SUBSET Ids,
           Begin(kind, l, s, t, f, others)
    PROVE  IInv'
<1>1. ListsSound'
    BY SkipSound DEF IInv, Begin
<1>2. array \in [Lists -> Seq(Entities)]
    BY DEF IInv, ListsSound, ListsTyped
<1>3. Len(array[s]) \in Nat
    BY <1>2, LenProperties
<1>4. op' = [kind |-> kind, list |-> l, source |-> s, other |-> t,
             filter |-> f, i |-> 1, len |-> Len(array[s]),
             seen |-> {}, others |-> others]
    BY DEF Begin
<1>5. op' \in Loop /\ op'.i = 1
    BY <1>3, <1>4 DEF Loop
<1>6. /\ op'.len = Len(array[s])
      /\ Walked' = s
      /\ array' = array
      /\ before' = array
    BY <1>4 DEF Begin, Walked
<1>7. OpOK'
    BY <1>5 DEF OpOK
<1>8. LoopInBounds'
    BY <1>3, <1>6 DEF LoopInBounds
<1>9. QED
    BY <1>1, <1>2, <1>6, <1>7, <1>8 DEF IInv

(* An iteration: the index moves, and no list became shorter.              *)
LEMMA AdvanceIInv ==
    ASSUME IInv, NEW kind \in Kinds, InLoop(kind), NEW new \in SUBSET Ids,
           Advance(new), ListsSound',
           \A m \in Lists : Len(array'[m]) \geq Len(array[m])
    PROVE  IInv'
<1>1. op.kind \in Kinds /\ op.i \leq op.len
    BY DEF InLoop
<1>2. /\ op \in Loop
      /\ ~Idle
      /\ op.i \in Nat \ {0}
      /\ op.len \in Nat
      /\ Walked \in Lists
    BY <1>1, LoopTyped DEF IInv
<1>3. op' = [op EXCEPT !.i = op.i + 1, !.seen = op.seen \cup new]
    BY DEF Advance
<1>4. op.i + 1 \in Nat /\ op.i + 1 \geq 1
    BY <1>2
<1>5. op.seen \cup new \in SUBSET Ids
    BY <1>2 DEF Loop
<1>6. op' \in Loop
    BY <1>2, <1>3, <1>4, <1>5 DEF Loop
<1>7. op'.i = op.i + 1 /\ op'.len = op.len /\ Walked' = Walked
    BY <1>2, <1>3 DEF Loop, Walked
<1>8. OpOK'
    BY <1>4, <1>6, <1>7 DEF OpOK
<1>9. LoopInBounds'
  <2>1. op.len \leq Len(array[Walked])
      BY <1>2 DEF IInv, LoopInBounds
  <2>2. Len(array[Walked]) \in Nat /\ Len(array'[Walked]) \in Nat
      BY <1>2, LenProperties DEF IInv, ListsSound, ListsTyped
  <2>3. Len(array'[Walked]) \geq Len(array[Walked])
      BY <1>2
  <2>4. op.len \leq Len(array'[Walked])
      BY <1>2, <2>1, <2>2, <2>3
  <2>5. QED
      BY <1>7, <2>4 DEF LoopInBounds
<1>10. QED
    BY <1>8, <1>9 DEF IInv, Advance

(* Insert or Skip, in a loop.                                              *)
LEMMA InsertInLoop ==
    ASSUME IInv, NEW kind \in Kinds, InLoop(kind), Insert(op.list, entity)
    PROVE  /\ ListsSound'
           /\ \A m \in Lists : Len(array'[m]) \geq Len(array[m])
<1>1. op.kind \in Kinds /\ op.i \leq op.len
    BY DEF InLoop
<1>2. op.list \in Lists
    BY <1>1, LoopTyped DEF IInv
<1>3. entity \in Entities
    BY <1>1, EntityTyped
<1>4. QED
    BY <1>2, <1>3, InsertSound DEF IInv

LEMMA IterationIInv ==
    ASSUME IInv, NEW kind \in Kinds, InLoop(kind), NEW new \in SUBSET Ids,
           Advance(new), Insert(op.list, entity) \/ Skip
    PROVE  IInv'
<1>1. /\ ListsSound'
      /\ \A m \in Lists : Len(array'[m]) \geq Len(array[m])
    BY InsertInLoop, SkipSound DEF IInv, Skip
<1>2. QED
    BY <1>1, AdvanceIInv

LEMMA SecondIInv ==
    ASSUME IInv, AddUnionSecond
    PROVE  IInv'
<1>1. op.kind \in Kinds
    BY DEF AddUnionSecond, Kinds
<1>2. op \in Loop /\ op.other \in Lists
    BY <1>1, LoopTyped DEF IInv
<1>3. op' = [op EXCEPT !.kind = "second", !.i = 1, !.len = Len(array[op.other])]
      /\ array' = array
    BY DEF AddUnionSecond
<1>4. Len(array[op.other]) \in Nat
    BY <1>2, LenProperties DEF IInv, ListsSound, ListsTyped
<1>5. op' \in Loop
    BY <1>2, <1>3, <1>4 DEF Loop, Kinds
<1>6. op'.i = 1 /\ Walked' = op.other /\ op'.len = Len(array[op.other])
    BY <1>2, <1>3 DEF Loop, Walked
<1>7. OpOK'
    BY <1>5, <1>6 DEF OpOK
<1>8. LoopInBounds'
    BY <1>3, <1>4, <1>6 DEF LoopInBounds
<1>9. ListsSound'
    BY SkipSound DEF IInv, AddUnionSecond
<1>10. QED
    BY <1>7, <1>8, <1>9 DEF IInv, AddUnionSecond

(* No loop runs after these: Add, Renew, Return.                           *)
LEMMA IdleIInv ==
    ASSUME ListsSound', op' = NoLoop, before' = array'
    PROVE  IInv'
<1>1. array' \in [Lists -> Seq(Entities)]
    BY DEF ListsSound, ListsTyped
<1>2. Idle'
    BY DEF Idle
<1>3. QED
    BY <1>1, <1>2 DEF IInv, OpOK, LoopInBounds

LEMMA CallsIInv ==
    ASSUME IInv, Calls
    PROVE  IInv'
<1>1. PICK l \in Lists :
        \/ Renew(l)
        \/ \E e \in Entities : Add(l, e)
        \/ \E s \in Lists :
              \/ AddAll(l, s)
              \/ \E f \in Filters : AddFiltered(l, s, f)
              \/ \E t \in Lists : AddIntersection(l, s, t) \/ AddUnion(l, s, t)
    BY DEF Calls
<1>2. ASSUME Renew(l) PROVE IInv'
  <2>1. ListsSound'
      BY <1>2, RenewSound DEF IInv
  <2>2. QED
      BY <1>2, <2>1, IdleIInv DEF Renew, Idle
<1>3. ASSUME NEW e \in Entities, Add(l, e) PROVE IInv'
  <2>1. ListsSound'
      BY <1>3, InsertSound DEF IInv, Add
  <2>2. QED
      BY <1>3, <2>1, IdleIInv DEF Add, Idle
<1>4. ASSUME NEW s \in Lists, AddAll(l, s) PROVE IInv'
    BY <1>4, BeginIInv, NoConstraintsTyped DEF AddAll, Kinds
<1>5. ASSUME NEW s \in Lists, NEW f \in Filters, AddFiltered(l, s, f) PROVE IInv'
    BY <1>5, BeginIInv, FiltersAssumption DEF AddFiltered, Kinds
<1>6. ASSUME NEW s \in Lists, NEW t \in Lists, AddIntersection(l, s, t) PROVE IInv'
  <2>1. array[t] \in Seq(Entities)
      BY DEF IInv, ListsSound, ListsTyped
  <2>2. IdsIn(t) \in SUBSET Ids
      BY <2>1, ElementOfSeq, IdsAssumption DEF IdsIn
  <2>3. QED
      BY <1>6, <2>2, BeginIInv, NoConstraintsTyped DEF AddIntersection, Kinds
<1>7. ASSUME NEW s \in Lists, NEW t \in Lists, AddUnion(l, s, t) PROVE IInv'
    BY <1>7, BeginIInv, NoConstraintsTyped DEF AddUnion, Kinds
<1>8. QED
    BY <1>1, <1>2, <1>3, <1>4, <1>5, <1>6, <1>7

LEMMA StepsIInv ==
    ASSUME IInv, Steps
    PROVE  IInv'
<1>1. ASSUME NEW kind \in Kinds, InLoop(kind) PROVE {IdOf[entity]} \in SUBSET Ids
  <2>1. op.kind \in Kinds /\ op.i \leq op.len
      BY <1>1 DEF InLoop
  <2>2. QED
      BY <2>1, EntityTyped
<1>2. CASE AddAllStep
    BY <1>2, IterationIInv DEF AddAllStep, Kinds
<1>3. CASE AddFilteredStep
    BY <1>3, IterationIInv DEF AddFilteredStep, Kinds
<1>4. CASE AddIntersectionStep
  <2>1. InLoop("intersection")
      BY <1>4 DEF AddIntersectionStep
  <2>2. "intersection" \in Kinds
      BY DEF Kinds
  <2>3. {IdOf[entity]} \in SUBSET Ids
      BY <1>1, <2>1, <2>2
  <2>4. \E new \in SUBSET Ids : Advance(new) /\ (Insert(op.list, entity) \/ Skip)
      BY <1>4, <2>3 DEF AddIntersectionStep
  <2>5. QED
      BY <2>1, <2>2, <2>4, IterationIInv
<1>5. CASE AddUnionFirstStep
  <2>1. "first" \in Kinds
      BY DEF Kinds
  <2>2. {IdOf[entity]} \in SUBSET Ids
      BY <1>1, <1>5, <2>1 DEF AddUnionFirstStep
  <2>3. QED
      BY <1>5, <2>1, <2>2, IterationIInv DEF AddUnionFirstStep
<1>6. CASE AddUnionSecond
    BY <1>6, SecondIInv
<1>7. CASE AddUnionSecondStep
  <2>1. InLoop("second")
      BY <1>7 DEF AddUnionSecondStep
  <2>2. "second" \in Kinds
      BY DEF Kinds
  <2>3. {IdOf[entity]} \in SUBSET Ids
      BY <1>1, <2>1, <2>2
  <2>4. \E new \in SUBSET Ids : Advance(new) /\ (Insert(op.list, entity) \/ Skip)
      BY <1>7, <2>3 DEF AddUnionSecondStep
  <2>5. QED
      BY <2>1, <2>2, <2>4, IterationIInv
<1>8. CASE Return
  <2>1. ListsSound'
      BY <1>8, SkipSound DEF IInv, Return
  <2>2. QED
      BY <1>8, <2>1, IdleIInv DEF Return
<1>9. QED
    BY <1>2, <1>3, <1>4, <1>5, <1>6, <1>7, <1>8 DEF Steps

-------------------------------------------------------------------------------
(* Theorems                                                                *)

LEMMA NextIInv == IInv /\ [Next]_vars => IInv'
<1> SUFFICES ASSUME IInv, [Next]_vars PROVE IInv'
    OBVIOUS
<1>1. CASE Calls
    BY <1>1, CallsIInv
<1>2. CASE Steps
    BY <1>2, StepsIInv
<1>3. CASE UNCHANGED vars
  <2>1. ListsSound'
      BY <1>3, SkipSound DEF IInv, vars
  <2>2. QED
      BY <1>3, <2>1 DEF IInv, OpOK, Idle, LoopInBounds, Walked, vars
<1>4. QED
    BY <1>1, <1>2, <1>3 DEF Next

LEMMA IInvAlways == Spec => []IInv
<1>1. QED
    BY InitIInv, NextIInv, PTL DEF Spec

(* The state of the lists and of the running call is well typed: newSet    *)
(* and otherSet have ids, and the call's lists and filter are real ones.   *)
THEOREM TypeCorrect == Spec => []TypeOK
<1>1. IInv => TypeOK
    BY DEF IInv, ListsSound, ListsTyped, OpOK, TypeOK
<1>2. QED
    BY <1>1, IInvAlways, PTL

(* Whatever lists are added to each other or to themselves, the array and  *)
(* the hash table of osinfo_list_add list the same entities, once each.    *)
THEOREM AgreementCorrect == Spec => []ArrayMatchesTable
<1>1. IInv => ArrayMatchesTable
    BY DEF IInv, ListsSound
<1>2. QED
    BY <1>1, IInvAlways, PTL

(* A list has one reference to each entity it lists: none leaks when       *)
(* osinfo_list_add replaces one, and none is released twice.               *)
THEOREM ReferencesCorrect == Spec => []HeldWhileListed
<1>1. IInv => HeldWhileListed
    BY DEF IInv, ListsSound
<1>2. QED
    BY <1>1, IInvAlways, PTL

(* The loops of osinfo_list_add_all and its kin never index beyond the     *)
(* end of the list they walk, also when it is the one they add to.         *)
THEOREM BoundsCorrect == Spec => []LoopInBounds
<1>1. IInv => LoopInBounds
    BY DEF IInv
<1>2. QED
    BY <1>1, IInvAlways, PTL

(* osinfo_productfilter_matches_default does what its documentation says   *)
(* when a filter asks for at most one kind of relation: the only filters   *)
(* for which the order of the hash table makes no difference.              *)
THEOREM OneRelationExact ==
    ASSUME NEW f \in Constraints, NEW e \in Entities,
           \A r1, r2 \in Relations : f.rels[r1] # {} /\ f.rels[r2] # {} => r1 = r2
    PROVE  MatchOutcomes(f, e) = {Satisfies(f, e)}
<1> DEFINE keys == {r \in Relations : f.rels[r] # {}}
<1>1. CASE keys = {}
  <2>1. \A r \in Relations : HasRelation(f, e, r)
      BY <1>1 DEF HasRelation
  <2>2. RelationOutcomes(f, e) = {TRUE}
      BY <1>1 DEF RelationOutcomes
  <2>3. QED
      BY <2>1, <2>2 DEF MatchOutcomes, Satisfies
<1>2. CASE keys # {}
  <2>1. PICK k \in Relations : keys = {k}
      BY <1>2
  <2>2. RelationOutcomes(f, e) = {HasRelation(f, e, k)}
      BY <2>1 DEF RelationOutcomes
  <2>3. \A r \in Relations : r # k => HasRelation(f, e, r)
      BY <2>1 DEF HasRelation
  <2>4. HasRelation(f, e, k) <=> \A r \in Relations : HasRelation(f, e, r)
      BY <2>3
  <2>5. HasRelation(f, e, k) \in BOOLEAN /\ Satisfies(f, e) \in BOOLEAN
      BY DEF HasRelation, Satisfies
  <2>6. CASE HasParams(f, e) /\ Supported(f, e)
    <3>1. HasRelation(f, e, k) <=> Satisfies(f, e)
        BY <2>4, <2>6 DEF Satisfies
    <3>2. HasRelation(f, e, k) = Satisfies(f, e)
        BY <2>5, <3>1
    <3>3. QED
        BY <2>2, <2>6, <3>2 DEF MatchOutcomes
  <2>7. CASE ~(HasParams(f, e) /\ Supported(f, e))
    <3>1. Satisfies(f, e) = FALSE
        BY <2>5, <2>7 DEF Satisfies
    <3>2. QED
        BY <2>7, <3>1 DEF MatchOutcomes
  <2>8. QED
      BY <2>6, <2>7
<1>3. QED
    BY <1>1, <1>2

-------------------------------------------------------------------------------
(* What adding makes of a list, as a sequence                              *)

IdSet(s) == {IdOf[s[i]] : i \in 1..Len(s)}
OneEach(s) == \A i, j \in 1..Len(s) : IdOf[s[i]] = IdOf[s[j]] => i = j

(* The positions of b whose ids are not in u, and b with u put on it.      *)
Kept(b, u) == {i \in 1..Len(b) : IdOf[b[i]] \notin IdSet(u)}
PutOn(b, u) == At(b, Kept(b, u)) \o u

(* The array of osinfo_list_add, for a list with array s and table t.      *)
Inserted(s, t, e) == Append(Without(s, t[IdOf[e]]), e)

LEMMA IdSetElems ==
    ASSUME NEW s
    PROVE  IdSet(s) = {IdOf[x] : x \in Elems(s)}
<1>1. ASSUME NEW i \in 1..Len(s) PROVE IdOf[s[i]] \in {IdOf[x] : x \in Elems(s)}
  <2>1. s[i] \in Elems(s)
      BY DEF Elems
  <2>. QED BY <2>1
<1>2. ASSUME NEW x \in Elems(s) PROVE IdOf[x] \in IdSet(s)
    BY DEF Elems, IdSet
<1>. QED BY <1>1, <1>2 DEF IdSet

LEMMA IdSetNext ==
    ASSUME NEW s \in Seq(Entities), NEW e \in Entities
    PROVE  IdSet(Append(s, e)) = IdSet(s) \cup {IdOf[e]}
<1>1. Elems(Append(s, e)) = Elems(s) \cup {e}
    BY PutLast
<1>. QED BY <1>1, IdSetElems

LEMMA AppendJoined ==
    ASSUME NEW s \in Seq(Entities), NEW t \in Seq(Entities), NEW e \in Entities
    PROVE  Append(s \o t, e) = s \o Append(t, e)
  OBVIOUS

LEMMA RemovedJoined ==
    ASSUME NEW S, NEW s \in Seq(S), NEW t \in Seq(S), NEW k \in 1..Len(s)
    PROVE  Removed(s \o t, k) = Removed(s, k) \o t
<1>. DEFINE u == s \o t
            m == Len(s)
            n == Len(t)
            left == Removed(u, k)
            right == Removed(s, k) \o t
<1>1. /\ u \in Seq(S) /\ Len(u) = m + n /\ m \in Nat /\ n \in Nat
      /\ \A i \in 1..m : u[i] = s[i]
      /\ \A i \in 1..n : u[m + i] = t[i]
    OBVIOUS
<1>2. Removed(s, k) \in Seq(S) /\ Len(Removed(s, k)) = m - 1
    BY RemovedFacts
<1>3. /\ right \in Seq(S) /\ Len(right) = m - 1 + n
      /\ \A i \in 1..m - 1 : right[i] = Removed(s, k)[i]
      /\ \A i \in 1..n : right[m - 1 + i] = t[i]
    BY <1>1, <1>2
<1>. HIDE DEF u, m, n
<1>4. k \in 1..Len(u)
    BY <1>1 DEF m
<1>5. left \in Seq(S) /\ Len(left) = m + n - 1
    BY <1>1, <1>4, RemovedFacts
<1>6. k \in 1..m
    BY DEF m
<1>. HIDE DEF left, right
<1>7. ASSUME NEW i \in 1..m + n - 1 PROVE left[i] = right[i]
  <2>1. left[i] = IF i < k THEN u[i] ELSE u[i + 1]
      BY <1>1 DEF Removed, left
  <2>2. CASE i < k
    <3>1. i \in 1..m - 1 /\ i \in 1..m
        BY <1>1, <1>6, <2>2
    <3>2. Removed(s, k)[i] = s[i]
        BY <2>2, <3>1 DEF Removed, m
    <3>. QED BY <1>1, <1>3, <2>1, <2>2, <3>1, <3>2
  <2>3. CASE i \geq k /\ i \leq m - 1
    <3>1. i \in 1..m - 1 /\ i + 1 \in 1..m /\ ~(i < k)
        BY <1>1, <1>6, <2>3
    <3>2. Removed(s, k)[i] = s[i + 1]
        BY <3>1 DEF Removed, m
    <3>. QED BY <1>1, <1>3, <2>1, <3>1, <3>2
  <2>4. CASE i > m - 1
    <3>1. i + 1 - m \in 1..n /\ ~(i < k)
        BY <1>1, <1>6, <2>4
    <3>2. u[m + (i + 1 - m)] = t[i + 1 - m] /\ right[m - 1 + (i + 1 - m)] = t[i + 1 - m]
        BY <1>1, <1>3, <3>1
    <3>3. m + (i + 1 - m) = i + 1 /\ m - 1 + (i + 1 - m) = i
        BY <1>1
    <3>. QED BY <2>1, <3>1, <3>2, <3>3
  <2>5. k \in Int /\ m \in Int /\ i \in Int
      BY <1>1, <1>6
  <2>. QED BY <2>2, <2>3, <2>4, <2>5
<1>8. Len(left) = Len(right) /\ \A i \in 1..Len(left) : left[i] = right[i]
    BY <1>1, <1>3, <1>5, <1>7
<1>9. left = right
    BY <1>3, <1>5, <1>8
<1>. QED BY <1>9 DEF left, right, u

(* A new id goes last; an id that is listed moves to the end.              *)
LEMMA InsertForm ==
    ASSUME NEW s \in Seq(Entities), NEW t \in [Ids -> Entities \cup {None}],
           NEW e \in Entities, Agree(s, t)
    PROVE  \/ /\ IdOf[e] \notin IdSet(s)
              /\ Inserted(s, t, e) = Append(s, e)
           \/ \E k \in 1..Len(s) : /\ IdOf[s[k]] = IdOf[e]
                                   /\ Inserted(s, t, e) = Append(Removed(s, k), e)
<1>. DEFINE old == t[IdOf[e]]
<1>1. IdOf[e] \in Ids /\ \A i \in 1..Len(s) : s[i] \in Entities
    BY IdsAssumption, ElementOfSeq
<1>2. CASE old = None
  <2>1. \A i \in 1..Len(s) : s[i] # old
      BY <1>1, <1>2, NoneAssumption
  <2>2. Without(s, old) = s
      BY <2>1, WithoutAbsent
  <2>3. \A i \in 1..Len(s) : IdOf[s[i]] # IdOf[e]
      BY <1>1, <1>2, NoneAssumption DEF Agree
  <2>. QED BY <2>2, <2>3 DEF Inserted, IdSet
<1>3. CASE old # None
  <2>1. PICK k \in 1..Len(s) : s[k] = old /\ IdOf[s[k]] = IdOf[e]
      BY <1>1, <1>3 DEF Agree
  <2>2. \A i \in 1..Len(s) : s[i] = s[k] => i = k
      BY DEF Agree
  <2>3. Without(s, s[k]) = Removed(s, k)
      BY <2>2, WithoutOnce DEF Removed
  <2>. QED BY <2>1, <2>3 DEF Inserted
<1>. QED BY <1>2, <1>3

(* What is listed before and after.                                        *)
LEMMA InsertElems ==
    ASSUME NEW s \in Seq(Entities), NEW t \in [Ids -> Entities \cup {None}],
           NEW e \in Entities, Agree(s, t)
    PROVE  /\ Inserted(s, t, e) \in Seq(Entities)
           /\ IdSet(Inserted(s, t, e)) = IdSet(s) \cup {IdOf[e]}
           /\ Elems(Inserted(s, t, e)) \subseteq Elems(s) \cup {e}
           /\ e \in Elems(s) => /\ Len(Inserted(s, t, e)) = Len(s)
                                /\ Elems(Inserted(s, t, e)) = Elems(s)
<1>1. CASE IdOf[e] \notin IdSet(s) /\ Inserted(s, t, e) = Append(s, e)
  <2>1. Append(s, e) \in Seq(Entities) /\ Elems(Append(s, e)) = Elems(s) \cup {e}
      BY PutLast
  <2>2. e \notin Elems(s)
      BY <1>1, IdSetElems
  <2>. QED BY <1>1, <2>1, <2>2, IdSetNext
<1>2. ASSUME NEW k \in 1..Len(s), IdOf[s[k]] = IdOf[e],
             Inserted(s, t, e) = Append(Removed(s, k), e)
      PROVE  /\ Inserted(s, t, e) \in Seq(Entities)
             /\ IdSet(Inserted(s, t, e)) = IdSet(s) \cup {IdOf[e]}
             /\ Elems(Inserted(s, t, e)) \subseteq Elems(s) \cup {e}
             /\ e \in Elems(s) => /\ Len(Inserted(s, t, e)) = Len(s)
                                  /\ Elems(Inserted(s, t, e)) = Elems(s)
  <2>. DEFINE r == Removed(s, k)
  <2>1. r \in Seq(Entities) /\ Len(r) = Len(s) - 1 /\ Elems(s) = Elems(r) \cup {s[k]}
      BY RemovedFacts
  <2>. HIDE DEF r
  <2>2. /\ Append(r, e) \in Seq(Entities) /\ Len(Append(r, e)) = Len(r) + 1
        /\ Elems(Append(r, e)) = Elems(r) \cup {e}
      BY <2>1, PutLast
  <2>3. IdSet(Append(r, e)) = IdSet(s) \cup {IdOf[e]}
      BY <1>2, <2>1, <2>2, IdSetElems
  <2>4. ASSUME e \in Elems(s) PROVE e = s[k]
    <3>1. PICK i \in 1..Len(s) : s[i] = e
        BY <2>4 DEF Elems
    <3>2. i = k
        BY <1>2, <3>1 DEF Agree
    <3>. QED BY <3>1, <3>2
  <2>5. Len(s) \in Nat
      OBVIOUS
  <2>. QED BY <1>2, <2>1, <2>2, <2>3, <2>4, <2>5 DEF r
<1>. QED BY <1>1, <1>2, InsertForm

(* Adding one more entity, of another id, to what was put on b.            *)
LEMMA PutNext ==
    ASSUME NEW b \in Seq(Entities), OneEach(b), NEW u \in Seq(Entities),
           NEW e \in Entities, IdOf[e] \notin IdSet(u),
           NEW t \in [Ids -> Entities \cup {None}], Agree(PutOn(b, u), t)
    PROVE  Inserted(PutOn(b, u), t, e) = PutOn(b, Append(u, e))
<1>. DEFINE I == Kept(b, u)
            J == Kept(b, Append(u, e))
            x == At(b, I)
            s == x \o u
<1>1. I \subseteq 1..Len(b) /\ J = {i \in I : IdOf[b[i]] # IdOf[e]}
    BY IdSetNext DEF Kept
<1>2. x \in Seq(Entities) /\ Elems(x) = {b[i] : i \in I}
    BY <1>1, AtFacts
<1>3. s = PutOn(b, u)
    BY DEF PutOn
<1>. HIDE DEF I, J, x
<1>4. /\ s \in Seq(Entities) /\ Elems(s) = Elems(x) \cup Elems(u)
      /\ Len(s) = Len(x) + Len(u) /\ Len(x) \in Nat /\ Len(u) \in Nat
      /\ \A i \in 1..Len(x) : s[i] = x[i]
      /\ \A i \in 1..Len(u) : s[Len(x) + i] = u[i]
    BY <1>2, Joined
<1>. HIDE DEF s
<1>5. Agree(s, t)
    BY <1>3
<1>6. CASE IdOf[e] \notin IdSet(s) /\ Inserted(s, t, e) = Append(s, e)
  <2>1. J = I
    <3>1. \A i \in I : IdOf[b[i]] \in IdSet(s)
        BY <1>2, <1>4, IdSetElems
    <3>. QED BY <1>1, <1>6, <3>1
  <2>2. Append(x \o u, e) = x \o Append(u, e)
      BY <1>2, AppendJoined
  <2>. QED BY <1>3, <1>6, <2>1, <2>2 DEF PutOn, I, J, x, s
<1>7. ASSUME NEW k \in 1..Len(s), IdOf[s[k]] = IdOf[e],
             Inserted(s, t, e) = Append(Removed(s, k), e)
      PROVE  Inserted(s, t, e) = At(b, J) \o Append(u, e)
  <2>1. k \in 1..Len(x)
    <3>. SUFFICES ASSUME k > Len(x) PROVE FALSE
        BY <1>4
    <3>1. k - Len(x) \in 1..Len(u) /\ Len(x) + (k - Len(x)) = k
        BY <1>4
    <3>2. s[k] = u[k - Len(x)]
        BY <1>4, <3>1
    <3>. QED BY <1>7, <3>1, <3>2 DEF IdSet
  <2>2. x[k] = s[k]
      BY <1>4, <2>1
  <2>3. PICK m \in I : b[m] = x[k]
      BY <1>2, <2>1 DEF Elems
  <2>4. J = I \ {m}
      BY <1>1, <1>7, <2>2, <2>3 DEF OneEach
  <2>5. PICK h \in 1..Len(x) : x[h] = b[m] /\ At(b, J) = Removed(x, h)
    <3>1. I \subseteq 1..Len(b) /\ m \in I
        BY <1>1
    <3>2. \E h \in 1..Len(At(b, I)) : /\ At(b, I)[h] = b[m]
                                      /\ At(b, I \ {m}) = Removed(At(b, I), h)
        BY <3>1, AtLess
    <3>. QED BY <2>4, <3>2 DEF x
  <2>6. h = k
    <3>1. h \in 1..Len(s) /\ s[h] = s[k]
        BY <1>4, <2>2, <2>3, <2>5
    <3>. QED BY <1>5, <3>1 DEF Agree
  <2>7. Removed(s, k) = Removed(x, k) \o u
      BY <1>2, <2>1, RemovedJoined DEF s
  <2>8. Removed(x, k) \in Seq(Entities)
      BY <1>2, <2>1, RemovedFacts
  <2>9. Append(Removed(x, k) \o u, e) = Removed(x, k) \o Append(u, e)
      BY <2>8, AppendJoined
  <2>. QED BY <1>7, <2>5, <2>6, <2>7, <2>9
<1>8. Inserted(s, t, e) = At(b, J) \o Append(u, e)
  <2>1. CASE IdOf[e] \notin IdSet(s) /\ Inserted(s, t, e) = Append(s, e)
    <3>1. Inserted(s, t, e) = PutOn(b, Append(u, e))
        BY <1>3, <1>6, <2>1
    <3>. QED BY <3>1 DEF PutOn, J
  <2>. QED BY <1>4, <1>5, <1>7, <2>1, InsertForm
<1>. QED BY <1>3, <1>8 DEF PutOn, J

-------------------------------------------------------------------------------
(* What a running call has done so far, given the lists when it began      *)

(* The list the loop of a call walks, and what of it the call is to add.   *)
WalkedBy(o) == IF o.kind = "second" THEN o.other ELSE o.source

Chosen(o, b, e) ==
    /\ o.kind = "filtered" => Satisfies(o.filter, e)
    /\ o.kind = "intersection" => IdOf[e] \in IdSet(b[o.other])
    /\ o.kind = "second" => IdOf[e] \notin IdSet(b[o.source])

(* What it was to add of the elements before its index, and of all.        *)
Taken(o, b) ==
    At(b[WalkedBy(o)], {j \in 1..o.i - 1 : Chosen(o, b, b[WalkedBy(o)][j])})

Goes(o, b) ==
    IF o.kind = "second" THEN b[o.source] \o Taken(o, b) ELSE Taken(o, b)

(* The target is no source, or was none so far.                            *)
Apart(o) == o.list # o.source /\ o.list # WalkedBy(o)

Shuffled(s, t) == Len(s) = Len(t) /\ Elems(s) = Elems(t)

(* A union of a list with itself: elements of both, an id of each.         *)
Picked(o, b, s) ==
    /\ Elems(s) \subseteq Elems(b[o.source]) \cup Elems(b[o.other])
    /\ IdSet(b[o.source]) \subseteq IdSet(s)
    /\ o.seen \subseteq IdSet(s)
    /\ o.other # o.list => \A j \in 1..o.i - 1 : IdOf[b[o.other][j]] \in IdSet(s)

(* The array s of the target of call o, which began with the arrays b.     *)
Progress(o, b, s) ==
    /\ Apart(o) => /\ s = PutOn(b[o.list], Goes(o, b))
                   /\ o.kind \in {"intersection", "first", "second"} =>
                         o.seen = IdSet(Goes(o, b))
    /\ o.list = o.source /\ o.kind # "second" =>
          Shuffled(s, b[o.list]) /\ o.seen \subseteq IdSet(b[o.list])
    /\ o.list # o.source /\ o.kind = "second" /\ o.list = o.other =>
          Shuffled(s, PutOn(b[o.list], b[o.source]))
    /\ o.list = o.source /\ o.kind = "second" => Picked(o, b, s)

RInv ==
    /\ \A m \in Lists : OneEach(before[m])
    /\ Idle => before = array
    /\ ~Idle => /\ op.i \leq op.len + 1
                /\ WalkedBy(op) # op.list => op.len = Len(before[WalkedBy(op)])
                /\ \A m \in Lists : m # op.list => array[m] = before[m]
                /\ op.kind = "filtered" => op.filter \in Filters
                /\ op.kind = "intersection" => op.others = IdSet(before[op.other])
                /\ Progress(op, before, array[op.list])

(* One more element of the list a call walks.                              *)
LEMMA GoesNext ==
    ASSUME NEW b \in [Lists -> Seq(Entities)], \A m \in Lists : OneEach(b[m]),
           NEW o \in Loop, o.i \in 1..Len(b[WalkedBy(o)]), NEW new
    PROVE  LET e == b[WalkedBy(o)][o.i]
               o2 == [o EXCEPT !.i = o.i + 1, !.seen = o.seen \cup new]
           IN  /\ e \in Entities
               /\ Goes(o, b) \in Seq(Entities)
               /\ IdOf[e] \notin IdSet(Taken(o, b))
               /\ Chosen(o, b, e) => /\ IdOf[e] \notin IdSet(Goes(o, b))
                                     /\ Goes(o2, b) = Append(Goes(o, b), e)
               /\ ~Chosen(o, b, e) => Goes(o2, b) = Goes(o, b)
<1>. DEFINE w == WalkedBy(o)
            s == b[w]
            i == o.i
            e == s[i]
            o2 == [o EXCEPT !.i = i + 1, !.seen = o.seen \cup new]
            I == {j \in 1..i - 1 : Chosen(o, b, s[j])}
            I2 == {j \in 1..i : Chosen(o, b, s[j])}
<1>1. /\ o.list \in Lists /\ o.source \in Lists /\ o.other \in Lists
      /\ i \in Nat
    BY DEF Loop
<1>2. w \in Lists /\ s \in Seq(Entities) /\ b[o.source] \in Seq(Entities)
    BY <1>1 DEF WalkedBy
<1>3. i \in 1..Len(s) /\ e \in Entities
    BY <1>2, ElementOfSeq
<1>4. /\ o2.kind = o.kind /\ o2.source = o.source /\ o2.other = o.other
      /\ o2.filter = o.filter /\ o2.i = i + 1
    BY DEF Loop
<1>5. WalkedBy(o2) = w
    BY <1>4 DEF WalkedBy
<1>6. \A x : Chosen(o2, b, x) <=> Chosen(o, b, x)
    BY <1>4 DEF Chosen
<1>7. Taken(o, b) = At(s, I)
    BY DEF Taken
<1>8. Taken(o2, b) = At(s, I2)
  <2>1. {j \in 1..(i + 1) - 1 : Chosen(o2, b, s[j])} = I2
      BY <1>1, <1>6
  <2>2. Taken(o2, b) = At(s, {j \in 1..(i + 1) - 1 : Chosen(o2, b, s[j])})
      BY <1>4, <1>5 DEF Taken
  <2>. QED BY <2>1, <2>2
<1>. HIDE DEF w, s, o2
<1>9. I \subseteq 1..i - 1 /\ I \subseteq 1..Len(s)
    BY <1>1, <1>3
<1>10. At(s, I) \in Seq(Entities) /\ Elems(At(s, I)) = {s[j] : j \in I}
  <2>. HIDE DEF I
  <2>. QED BY <1>2, <1>9, AtFacts
<1>11. IdOf[e] \notin IdSet(At(s, I))
  <2>. SUFFICES ASSUME NEW j \in I, IdOf[s[j]] = IdOf[e] PROVE FALSE
      BY <1>10, IdSetElems
  <2>1. OneEach(s)
      BY <1>2 DEF s
  <2>2. j = i
      BY <1>3, <1>9, <2>1 DEF OneEach
  <2>3. j \leq i - 1
      BY <1>1, <1>9
  <2>. QED BY <1>1, <2>2, <2>3
<1>12. Chosen(o, b, e) => At(s, I2) = Append(At(s, I), e)
  <2>1. Chosen(o, b, e) => I2 = I \cup {i}
      BY <1>1, <1>3
  <2>2. At(s, I \cup {i}) = Append(At(s, I), e)
      BY <1>2, <1>3, <1>9, AtNext
  <2>. QED BY <2>1, <2>2
<1>13. ~Chosen(o, b, e) => At(s, I2) = At(s, I)
  <2>1. ~Chosen(o, b, e) => I2 = I
      BY <1>1, <1>3
  <2>. QED BY <2>1
<1>. HIDE DEF I, I2, i, e
<1>14. Goes(o, b) \in Seq(Entities)
    BY <1>2, <1>7, <1>10, Joined DEF Goes
<1>15. Chosen(o, b, e) => IdOf[e] \notin IdSet(Goes(o, b))
  <2>1. CASE o.kind = "second"
    <3>1. Goes(o, b) = b[o.source] \o At(s, I)
        BY <1>7, <2>1 DEF Goes
    <3>2. Elems(Goes(o, b)) = Elems(b[o.source]) \cup Elems(At(s, I))
        BY <1>2, <1>10, <3>1, Joined
    <3>3. IdSet(Goes(o, b)) = IdSet(b[o.source]) \cup IdSet(At(s, I))
        BY <3>2, IdSetElems
    <3>. QED BY <1>11, <2>1, <3>3 DEF Chosen
  <2>2. CASE o.kind # "second"
      BY <1>7, <1>11, <2>2 DEF Goes
  <2>. QED BY <2>1, <2>2
<1>16. Chosen(o, b, e) => Goes(o2, b) = Append(Goes(o, b), e)
  <2>1. CASE o.kind = "second"
    <3>1. Append(b[o.source] \o At(s, I), e) = b[o.source] \o Append(At(s, I), e)
        BY <1>2, <1>3, <1>10, AppendJoined
    <3>. QED BY <1>4, <1>7, <1>8, <1>12, <2>1, <3>1 DEF Goes
  <2>2. CASE o.kind # "second"
      BY <1>4, <1>7, <1>8, <1>12, <2>2 DEF Goes
  <2>. QED BY <2>1, <2>2
<1>17. ~Chosen(o, b, e) => Goes(o2, b) = Goes(o, b)
    BY <1>4, <1>7, <1>8, <1>13 DEF Goes
<1>. QED BY <1>3, <1>7, <1>11, <1>14, <1>15, <1>16, <1>17 DEF o2, e, s, w, i

(* Nothing yet, and all of it.                                             *)
LEMMA PutNone ==
    ASSUME NEW b \in Seq(Entities)
    PROVE  PutOn(b, <<>>) = b
<1>1. Kept(b, <<>>) = 1..Len(b)
    BY DEF Kept, IdSet
<1>2. At(b, 1..Len(b)) = b
    BY AtAll
<1>. QED BY <1>1, <1>2 DEF PutOn

LEMMA TakenNone ==
    ASSUME NEW b \in [Lists -> Seq(Entities)], NEW o, WalkedBy(o) \in Lists, o.i = 1
    PROVE  Taken(o, b) = <<>>
<1>1. b[WalkedBy(o)] \in Seq(Entities) /\ 1..o.i - 1 = {}
    OBVIOUS
<1>2. {j \in 1..o.i - 1 : Chosen(o, b, b[WalkedBy(o)][j])} = {}
    BY <1>1
<1>3. At(b[WalkedBy(o)], {}) = <<>>
    BY <1>1, AtFacts
<1>. QED BY <1>2, <1>3 DEF Taken

-------------------------------------------------------------------------------
(* Every step keeps this                                                   *)

LEMMA Running ==
    ASSUME IInv, RInv, NEW kind \in Kinds, InLoop(kind)
    PROVE  /\ op \in Loop /\ ~Idle /\ op.kind = kind
           /\ op.list \in Lists /\ op.source \in Lists /\ op.other \in Lists
           /\ op.i \in Nat \ {0} /\ op.len \in Nat /\ op.i \leq op.len
           /\ Walked = WalkedBy(op) /\ WalkedBy(op) \in Lists
           /\ entity \in Entities /\ entity \in Elems(array[WalkedBy(op)])
           /\ WalkedBy(op) # op.list => /\ op.i \in 1..Len(before[WalkedBy(op)])
                                        /\ entity = before[WalkedBy(op)][op.i]
           /\ array[op.list] \in Seq(Entities)
           /\ table[op.list] \in [Ids -> Entities \cup {None}]
           /\ Agree(array[op.list], table[op.list])
           /\ before \in [Lists -> Seq(Entities)]
<1>1. op.kind \in Kinds /\ op.kind = kind /\ op.i \leq op.len
    BY DEF InLoop
<1>2. /\ op \in Loop /\ ~Idle /\ op.i \in Nat \ {0} /\ op.len \in Nat
      /\ op.list \in Lists /\ op.other \in Lists /\ Walked \in Lists
    BY <1>1, LoopTyped DEF IInv
<1>3. op.source \in Lists /\ Walked = WalkedBy(op)
    BY <1>2 DEF Loop, Walked, WalkedBy
<1>4. entity \in Entities
    BY <1>1, EntityTyped
<1>5. /\ array \in [Lists -> Seq(Entities)]
      /\ before \in [Lists -> Seq(Entities)]
      /\ table \in [Lists -> [Ids -> Entities \cup {None}]]
      /\ Agree(array[op.list], table[op.list])
    BY <1>2, MatchesIsAgree DEF IInv, ListsSound, ListsTyped
<1>6. entity \in Elems(array[Walked])
  <2>1. op.len \leq Len(array[Walked])
      BY <1>2 DEF IInv, LoopInBounds
  <2>2. Len(array[Walked]) \in Nat
      BY <1>2, <1>5
  <2>3. op.i \in 1..Len(array[Walked])
      BY <1>1, <1>2, <2>1, <2>2
  <2>. QED BY <2>3 DEF entity, Elems
<1>7. ASSUME WalkedBy(op) # op.list
      PROVE  /\ op.i \in 1..Len(before[WalkedBy(op)])
             /\ entity = before[WalkedBy(op)][op.i]
  <2>1. /\ op.len = Len(before[WalkedBy(op)])
        /\ array[WalkedBy(op)] = before[WalkedBy(op)]
      BY <1>2, <1>3, <1>7 DEF RInv
  <2>2. op.i \in 1..op.len
      BY <1>1, <1>2
  <2>. QED BY <1>3, <2>1, <2>2 DEF entity
<1>. QED BY <1>1, <1>2, <1>3, <1>4, <1>5, <1>6, <1>7

(* What an iteration leaves as it was.                                     *)
LEMMA Iterated ==
    ASSUME IInv, RInv, NEW kind \in Kinds, InLoop(kind), NEW new, Advance(new)
    PROVE  /\ op' = [op EXCEPT !.i = op.i + 1, !.seen = op.seen \cup new]
           /\ op'.i = op.i + 1 /\ op'.seen = op.seen \cup new /\ op'.len = op.len
           /\ op'.kind = kind /\ op'.list = op.list /\ op'.source = op.source
           /\ op'.other = op.other /\ op'.filter = op.filter
           /\ op'.others = op.others /\ WalkedBy(op') = WalkedBy(op)
           /\ before' = before /\ op' # NoLoop
<1>1. op \in Loop /\ op.kind = kind
    BY Running
<1>2. op' = [op EXCEPT !.i = op.i + 1, !.seen = op.seen \cup new] /\ before' = before
    BY DEF Advance
<1>3. /\ op'.i = op.i + 1 /\ op'.seen = op.seen \cup new /\ op'.len = op.len
      /\ op'.kind = kind /\ op'.list = op.list /\ op'.source = op.source
      /\ op'.other = op.other /\ op'.filter = op.filter
      /\ op'.others = op.others
    BY <1>1, <1>2 DEF Loop
<1>4. WalkedBy(op') = WalkedBy(op)
    BY <1>1, <1>3 DEF WalkedBy
<1>5. op' # NoLoop
    BY <1>3 DEF NoLoop, Kinds
<1>. QED BY <1>2, <1>3, <1>4, <1>5

LEMMA InsertIsInserted ==
    ASSUME ListsSound, NEW l \in Lists, NEW e, Insert(l, e)
    PROVE  /\ array'[l] = Inserted(array[l], table[l], e)
           /\ \A m \in Lists : m # l => array'[m] = array[m]
  BY DEF Insert, Lookup, Inserted, ListsSound, ListsTyped

(* It is enough that the target has what the loop has come to.             *)
LEMMA AdvanceRInv ==
    ASSUME IInv, RInv, NEW kind \in Kinds, InLoop(kind), NEW new, Advance(new),
           Insert(op.list, entity) \/ Skip,
           Progress(op', before, array'[op.list])
    PROVE  RInv'
<1>1. \A m \in Lists : m # op.list => array'[m] = array[m]
  <2>1. ListsSound /\ op.list \in Lists
      BY Running DEF IInv
  <2>. QED BY <2>1, InsertIsInserted DEF Skip
<1>2. \A m \in Lists : m # op.list => array[m] = before[m]
    BY Running DEF RInv
<1>3. op'.i \leq op'.len + 1
  <2>1. op.i \in Nat /\ op.len \in Nat /\ op.i \leq op.len
      BY Running
  <2>2. op'.i = op.i + 1 /\ op'.len = op.len
      BY Iterated
  <2>. QED BY <2>1, <2>2
<1>4. ~Idle'
    BY Iterated DEF Idle
<1>5. /\ WalkedBy(op) # op.list => op.len = Len(before[WalkedBy(op)])
      /\ op.kind = "filtered" => op.filter \in Filters
      /\ op.kind = "intersection" => op.others = IdSet(before[op.other])
    BY Running DEF RInv
<1>6. /\ WalkedBy(op') # op'.list => op'.len = Len(before'[WalkedBy(op')])
      /\ op'.kind = "filtered" => op'.filter \in Filters
      /\ op'.kind = "intersection" => op'.others = IdSet(before'[op'.other])
    BY <1>5, Running, Iterated
<1>7. Progress(op', before', array'[op'.list])
    BY Iterated
<1>8. \A m \in Lists : m # op'.list => array'[m] = before'[m]
    BY <1>1, <1>2, Iterated
<1>9. \A m \in Lists : OneEach(before'[m])
    BY Iterated DEF RInv
<1>. QED BY <1>3, <1>4, <1>6, <1>7, <1>8, <1>9 DEF RInv

(* The target is not the list the loop walks, nor was it before: what the  *)
(* call is to add goes last.                                               *)
LEMMA ApartStep ==
    ASSUME IInv, RInv, NEW kind \in Kinds, InLoop(kind), NEW new, Advance(new),
           Apart(op),
           \/ /\ Chosen(op, before, entity) /\ Insert(op.list, entity)
              /\ kind \in {"intersection", "first", "second"} => new = {IdOf[entity]}
           \/ ~Chosen(op, before, entity) /\ Skip /\ new = {}
    PROVE  Progress(op', before, array'[op.list])
<1>. DEFINE l == op.list
            b == before
            u == Goes(op, before)
            u2 == Goes(op', before)
<1>1. /\ op \in Loop /\ ~Idle /\ l \in Lists /\ op.kind = kind
      /\ b \in [Lists -> Seq(Entities)] /\ b[l] \in Seq(Entities) /\ OneEach(b[l])
      /\ \A m \in Lists : OneEach(b[m])
    BY Running DEF RInv
<1>2. /\ op.i \in 1..Len(b[WalkedBy(op)])
      /\ entity = b[WalkedBy(op)][op.i]
    BY Running DEF Apart
<1>3. /\ entity \in Entities /\ u \in Seq(Entities)
      /\ Chosen(op, b, entity) => /\ IdOf[entity] \notin IdSet(u)
                                  /\ u2 = Append(u, entity)
      /\ ~Chosen(op, b, entity) => u2 = u
  <2>1. op' = [op EXCEPT !.i = op.i + 1, !.seen = op.seen \cup new]
      BY Iterated
  <2>. QED BY <1>1, <1>2, <2>1, GoesNext
<1>4. /\ array[l] = PutOn(b[l], u)
      /\ op.kind \in {"intersection", "first", "second"} => op.seen = IdSet(u)
    BY <1>1 DEF RInv, Progress
<1>5. /\ table[l] \in [Ids -> Entities \cup {None}]
      /\ Agree(array[l], table[l]) /\ ListsSound
    BY Running DEF IInv
<1>6. op'.list = l /\ op'.source = op.source /\ op'.kind = kind
      /\ op'.seen = op.seen \cup new /\ WalkedBy(op') = WalkedBy(op)
    BY Iterated
<1>. HIDE DEF l, b, u, u2
<1>7. CASE Chosen(op, b, entity)
  <2>1. array'[l] = PutOn(b[l], u2)
    <3>1. array'[l] = Inserted(array[l], table[l], entity)
        BY <1>1, <1>5, <1>7, InsertIsInserted DEF l, b
    <3>2. Inserted(PutOn(b[l], u), table[l], entity) = PutOn(b[l], Append(u, entity))
        BY <1>1, <1>3, <1>4, <1>5, <1>7, PutNext
    <3>. QED BY <1>3, <1>4, <1>7, <3>1, <3>2
  <2>2. kind \in {"intersection", "first", "second"} =>
           op.seen \cup new = IdSet(u2)
    <3>1. IdSet(Append(u, entity)) = IdSet(u) \cup {IdOf[entity]}
        BY <1>3, IdSetNext
    <3>. QED BY <1>1, <1>3, <1>4, <1>7, <3>1 DEF b
  <2>. QED BY <1>1, <1>6, <2>1, <2>2 DEF Progress, Apart, WalkedBy, l, b, u2
<1>8. CASE ~Chosen(op, b, entity)
  <2>1. array'[l] = array[l] /\ new = {} /\ u2 = u
      BY <1>3, <1>8 DEF Skip, b
  <2>. QED BY <1>1, <1>4, <1>6, <2>1 DEF Progress, Apart, WalkedBy, l, b, u, u2
<1>. QED BY <1>7, <1>8

(* The target is a source.                                                 *)
LEMMA SelfStep ==
    ASSUME IInv, RInv, NEW kind \in Kinds, InLoop(kind), NEW new, Advance(new),
           ~Apart(op),
           \/ Insert(op.list, entity) /\ new \subseteq {IdOf[entity]}
           \/ /\ Skip /\ new = {}
              /\ kind = "second" => IdOf[entity] \in op.seen
    PROVE  Progress(op', before, array'[op.list])
<1>. DEFINE l == op.list
            b == before
            s == array[op.list]
            s2 == array'[op.list]
<1>1. /\ op \in Loop /\ ~Idle /\ l \in Lists /\ op.kind = kind
      /\ op.source \in Lists /\ op.other \in Lists
      /\ entity \in Entities /\ entity \in Elems(array[WalkedBy(op)])
      /\ s \in Seq(Entities)
      /\ b \in [Lists -> Seq(Entities)] /\ Progress(op, b, s)
      /\ \A m \in Lists : m # l => array[m] = b[m]
      /\ op.i \in Nat
    BY Running DEF RInv
<1>2. /\ table[l] \in [Ids -> Entities \cup {None}]
      /\ Agree(s, table[l]) /\ ListsSound
    BY Running DEF IInv
<1>3. /\ op'.list = l /\ op'.source = op.source /\ op'.other = op.other
      /\ op'.kind = kind /\ op'.i = op.i + 1
      /\ op'.seen = op.seen \cup new /\ WalkedBy(op') = WalkedBy(op)
    BY Iterated
<1>4. new \subseteq {IdOf[entity]}
    OBVIOUS
<1>5. /\ Insert(op.list, entity) =>
           /\ IdSet(s2) = IdSet(s) \cup {IdOf[entity]}
           /\ Elems(s2) \subseteq Elems(s) \cup {entity}
           /\ entity \in Elems(s) => Shuffled(s2, s)
      /\ Skip => s2 = s
  <2>1. Skip => s2 = s
      BY DEF Skip
  <2>2. ASSUME Insert(op.list, entity)
        PROVE  s2 = Inserted(s, table[l], entity)
      BY <1>1, <1>2, <2>2, InsertIsInserted
  <2>. HIDE DEF s, s2, l
  <2>. QED BY <1>1, <1>2, <2>1, <2>2, InsertElems DEF Shuffled
<1>6. Shuffled(s, s)
    BY DEF Shuffled
<1>. HIDE DEF s, s2, b
<1>7. CASE l = op.source /\ kind # "second"
  <2>1. entity \in Elems(s) /\ Shuffled(s, b[l]) /\ op.seen \subseteq IdSet(b[l])
      BY <1>1, <1>7 DEF WalkedBy, Progress, s
  <2>2. Shuffled(s2, b[l])
      BY <1>5, <2>1 DEF Shuffled
  <2>3. IdOf[entity] \in IdSet(b[l])
      BY <2>1, IdSetElems DEF Shuffled
  <2>4. op.seen \cup new \subseteq IdSet(b[l])
      BY <1>4, <2>1, <2>3
  <2>. QED BY <1>3, <1>7, <2>2, <2>4 DEF Progress, Apart, s2, b
<1>8. CASE l # op.source /\ kind = "second" /\ l = op.other
  <2>1. entity \in Elems(s) /\ Shuffled(s, PutOn(b[l], b[op.source]))
      BY <1>1, <1>8 DEF WalkedBy, Progress, s
  <2>2. Shuffled(s2, PutOn(b[l], b[op.source]))
      BY <1>5, <2>1 DEF Shuffled
  <2>3. l = WalkedBy(op')
      BY <1>3, <1>8 DEF WalkedBy
  <2>. QED BY <1>3, <1>8, <2>2, <2>3 DEF Progress, Apart, s2, b
<1>9. CASE l = op.source /\ kind = "second"
  <2>. DEFINE t == b[op.other]
  <2>1. /\ Elems(s) \subseteq Elems(b[l]) \cup Elems(t)
        /\ IdSet(b[l]) \subseteq IdSet(s)
        /\ op.seen \subseteq IdSet(s)
        /\ op.other # l => \A j \in 1..op.i - 1 : IdOf[t[j]] \in IdSet(s)
      BY <1>1, <1>9 DEF Progress, Picked
  <2>2. entity \in Elems(b[l]) \cup Elems(t)
    <3>1. CASE op.other = l
      <4>1. entity \in Elems(s)
          BY <1>1, <1>9, <3>1 DEF WalkedBy, s
      <4>. QED BY <2>1, <4>1
    <3>2. CASE op.other # l
        BY <1>1, <1>9, <3>2 DEF WalkedBy
    <3>. QED BY <3>1, <3>2
  <2>3. Elems(s2) \subseteq Elems(b[l]) \cup Elems(t)
      BY <1>5, <2>1, <2>2
  <2>4. IdSet(s) \subseteq IdSet(s2) /\ IdOf[entity] \in IdSet(s2)
      BY <1>1, <1>5, <1>9, <2>1
  <2>5. op.seen \cup new \subseteq IdSet(s2)
      BY <1>4, <2>1, <2>4
  <2>6. ASSUME op.other # l, NEW j \in 1..op.i PROVE IdOf[t[j]] \in IdSet(s2)
    <3>1. CASE j = op.i
      <4>1. entity = t[op.i]
          BY <1>1, <1>9, <2>6, Running DEF WalkedBy, b
      <4>. QED BY <2>4, <3>1, <4>1
    <3>2. CASE j # op.i
      <4>1. j \in 1..op.i - 1
          BY <1>1, <3>2
      <4>. QED BY <2>1, <2>4, <2>6, <4>1
    <3>. QED BY <3>1, <3>2
  <2>7. op'.other # l => \A j \in 1..op'.i - 1 : IdOf[b[op'.other][j]] \in IdSet(s2)
    <3>1. op'.i - 1 = op.i
        BY <1>1, <1>3
    <3>. QED BY <1>3, <2>6, <3>1
  <2>8. Picked(op', b, s2)
      BY <1>3, <1>9, <2>1, <2>3, <2>4, <2>5, <2>7 DEF Picked
  <2>. QED BY <1>3, <1>9, <2>8 DEF Progress, Apart, s2, b
<1>10. \/ l = op.source /\ kind # "second"
       \/ l # op.source /\ kind = "second" /\ l = op.other
       \/ l = op.source /\ kind = "second"
    BY <1>1 DEF Apart, WalkedBy
<1>. QED BY <1>7, <1>8, <1>9, <1>10

(* No filter used asks for more than one kind of relation.                 *)
OneRelationEach ==
    \A f \in Filters : \A r1, r2 \in Relations :
        f.rels[r1] # {} /\ f.rels[r2] # {} => r1 = r2

LEMMA IterationsRInv ==
    ASSUME OneRelationEach, IInv, RInv,
           \/ AddAllStep \/ AddFilteredStep \/ AddIntersectionStep
           \/ AddUnionFirstStep \/ AddUnionSecondStep
    PROVE  RInv'
<1>. DEFINE b == before
            chosen == Chosen(op, before, entity)
            id == IdOf[entity]
<1>1. ASSUME NEW kind \in Kinds, InLoop(kind), NEW new, Advance(new),
             \/ Insert(op.list, entity) /\ new \subseteq {id}
             \/ Skip /\ new = {} /\ (kind = "second" => id \in op.seen),
             Apart(op) =>
                \/ /\ chosen /\ Insert(op.list, entity)
                   /\ kind \in {"intersection", "first", "second"} => new = {id}
                \/ ~chosen /\ Skip /\ new = {}
      PROVE  RInv'
  <2>1. CASE Apart(op)
    <3>1. Progress(op', before, array'[op.list])
        BY <1>1, <2>1, ApartStep
    <3>. QED BY <1>1, <3>1, AdvanceRInv
  <2>2. CASE ~Apart(op)
    <3>1. Progress(op', before, array'[op.list])
        BY <1>1, <2>2, SelfStep
    <3>. QED BY <1>1, <3>1, AdvanceRInv
  <2>. QED BY <2>1, <2>2
<1>2. ASSUME NEW kind \in Kinds, InLoop(kind), Apart(op)
      PROVE  /\ op.kind = kind
             /\ kind \in {"intersection", "first", "second"} =>
                   op.seen = IdSet(Goes(op, b))
             /\ id \notin IdSet(Taken(op, b))
             /\ kind # "second" => Goes(op, b) = Taken(op, b)
             /\ kind = "second" =>
                   (id \in IdSet(Goes(op, b)) <=> id \in IdSet(b[op.source]))
  <2>1. /\ op \in Loop /\ ~Idle /\ op.kind = kind /\ op.source \in Lists
        /\ b \in [Lists -> Seq(Entities)]
        /\ op.i \in 1..Len(b[WalkedBy(op)])
        /\ entity = b[WalkedBy(op)][op.i]
        /\ WalkedBy(op) \in Lists
      BY <1>2, Running DEF Apart
  <2>2. \A m \in Lists : OneEach(b[m])
      BY DEF RInv
  <2>3. id \notin IdSet(Taken(op, b))
      BY <2>1, <2>2, GoesNext
  <2>4. kind \in {"intersection", "first", "second"} => op.seen = IdSet(Goes(op, b))
      BY <1>2, <2>1 DEF RInv, Progress
  <2>5. ASSUME kind = "second"
        PROVE  id \in IdSet(Goes(op, b)) <=> id \in IdSet(b[op.source])
    <3>1. Goes(op, b) = b[op.source] \o Taken(op, b)
        BY <2>1, <2>5 DEF Goes
    <3>2. Taken(op, b) \in Seq(Entities)
      <4>1. b[WalkedBy(op)] \in Seq(Entities)
          BY <2>1
      <4>2. \A j \in 1..op.i - 1 : j \in 1..Len(b[WalkedBy(op)])
          BY <2>1
      <4>. QED BY <4>1, <4>2, AtFacts DEF Taken
    <3>3. Elems(Goes(op, b)) = Elems(b[op.source]) \cup Elems(Taken(op, b))
        BY <2>1, <3>1, <3>2, Joined
    <3>4. IdSet(Goes(op, b)) = IdSet(b[op.source]) \cup IdSet(Taken(op, b))
        BY <3>3, IdSetElems
    <3>. QED BY <2>3, <3>4
  <2>. QED BY <2>1, <2>3, <2>4, <2>5 DEF Goes
<1>3. CASE AddAllStep
  <2>1. InLoop("all") /\ "all" \in Kinds /\ Insert(op.list, entity) /\ Advance({})
      BY <1>3 DEF AddAllStep, Kinds
  <2>2. chosen
      BY <2>1 DEF Chosen, InLoop
  <2>. QED BY <1>1, <2>1, <2>2
<1>4. CASE AddFilteredStep
  <2>1. InLoop("filtered") /\ "filtered" \in Kinds /\ Advance({})
      BY <1>4 DEF AddFilteredStep, Kinds
  <2>2. op.filter \in Filters /\ op.kind = "filtered" /\ entity \in Entities
      BY <2>1, Running DEF RInv
  <2>3. MatchOutcomes(op.filter, entity) = {Satisfies(op.filter, entity)}
    <3>1. op.filter \in Constraints
        BY <2>2, FiltersAssumption
    <3>2. \A r1, r2 \in Relations :
             op.filter.rels[r1] # {} /\ op.filter.rels[r2] # {} => r1 = r2
        BY <2>2 DEF OneRelationEach
    <3>. QED BY <2>2, <3>1, <3>2, OneRelationExact
  <2>4. IF Satisfies(op.filter, entity) THEN Insert(op.list, entity) ELSE Skip
      BY <1>4, <2>3 DEF AddFilteredStep
  <2>5. chosen <=> Satisfies(op.filter, entity)
      BY <2>2 DEF Chosen
  <2>. QED BY <1>1, <2>1, <2>4, <2>5
<1>5. CASE AddIntersectionStep
  <2>1. InLoop("intersection") /\ "intersection" \in Kinds /\ op.kind = "intersection"
      BY <1>5 DEF AddIntersectionStep, Kinds, InLoop
  <2>2. IF Wanted(id) THEN Insert(op.list, entity) /\ Advance({id})
                      ELSE Skip /\ Advance({})
      BY <1>5 DEF AddIntersectionStep
  <2>3. Apart(op) => (Wanted(id) <=> chosen)
    <3>1. op.others = IdSet(b[op.other])
        BY <2>1, Running DEF RInv
    <3>2. Apart(op) => id \notin op.seen
        BY <1>2, <2>1
    <3>. QED BY <2>1, <3>1, <3>2 DEF Wanted, Chosen
  <2>4. CASE Wanted(id)
      BY <1>1, <2>1, <2>2, <2>3, <2>4
  <2>5. CASE ~Wanted(id)
      BY <1>1, <2>1, <2>2, <2>3, <2>5
  <2>. QED BY <2>4, <2>5
<1>6. CASE AddUnionFirstStep
  <2>1. /\ InLoop("first") /\ "first" \in Kinds /\ op.kind = "first"
        /\ Insert(op.list, entity) /\ Advance({id})
      BY <1>6 DEF AddUnionFirstStep, Kinds, InLoop
  <2>2. chosen
      BY <2>1 DEF Chosen
  <2>. QED BY <1>1, <2>1, <2>2
<1>7. CASE AddUnionSecondStep
  <2>1. InLoop("second") /\ "second" \in Kinds /\ op.kind = "second"
      BY <1>7 DEF AddUnionSecondStep, Kinds, InLoop
  <2>2. IF id \notin op.seen THEN Insert(op.list, entity) /\ Advance({id})
                             ELSE Skip /\ Advance({})
      BY <1>7 DEF AddUnionSecondStep
  <2>3. Apart(op) => (id \notin op.seen <=> chosen)
      BY <1>2, <2>1 DEF Chosen
  <2>4. CASE id \notin op.seen
      BY <1>1, <2>1, <2>2, <2>3, <2>4
  <2>5. CASE id \in op.seen
      BY <1>1, <2>1, <2>2, <2>3, <2>5
  <2>. QED BY <2>4, <2>5
<1>. QED BY <1>3, <1>4, <1>5, <1>6, <1>7

LEMMA BeginRInv ==
    ASSUME IInv, NEW kind \in Kinds \ {"second"}, NEW l \in Lists, NEW s \in Lists,
           NEW t \in Lists, NEW f, NEW others, Begin(kind, l, s, t, f, others),
           kind = "filtered" => f \in Filters,
           kind = "intersection" => others = IdsIn(t)
    PROVE  RInv'
<1>1. op' = [kind |-> kind, list |-> l, source |-> s, other |-> t,
             filter |-> f, i |-> 1, len |-> Len(array[s]),
             seen |-> {}, others |-> others]
      /\ before' = array /\ array' = array
    BY DEF Begin
<1>. DEFINE o == op'
<1>2. /\ o.kind = kind /\ o.list = l /\ o.source = s /\ o.other = t /\ o.i = 1
      /\ o.filter = f /\ o.others = others /\ o.seen = {} /\ o.len = Len(array[s])
      /\ o # NoLoop
    BY <1>1 DEF NoLoop, Kinds
<1>. HIDE DEF o
<1>3. array \in [Lists -> Seq(Entities)] /\ array[s] \in Seq(Entities)
      /\ array[l] \in Seq(Entities)
    BY DEF IInv, ListsSound, ListsTyped
<1>4. WalkedBy(o) = s
    BY <1>2 DEF WalkedBy
<1>5. Taken(o, array) = <<>> /\ Goes(o, array) = <<>>
    BY <1>2, <1>3, <1>4, TakenNone DEF Goes
<1>6. Progress(o, array, array[l])
  <2>1. array[l] = PutOn(array[l], Goes(o, array))
      BY <1>3, <1>5, PutNone
  <2>2. IdSet(Goes(o, array)) = {}
      BY <1>5 DEF IdSet
  <2>. QED BY <1>2, <2>1, <2>2 DEF Progress, Shuffled
<1>7. \A m \in Lists : OneEach(array[m])
    BY DEF OneEach, IInv, ListsSound, ArrayMatchesTable
<1>8. Len(array[s]) \in Nat
    BY <1>3
<1>9. kind = "intersection" => others = IdSet(array[t])
    BY DEF IdsIn, IdSet
<1>. QED BY <1>1, <1>2, <1>4, <1>6, <1>7, <1>8, <1>9 DEF RInv, Idle, o

(* Of the loop that ended, all was walked.                                 *)
LEMMA TakenAll ==
    ASSUME IInv, RInv, op.kind \in Kinds, op.i > op.len, WalkedBy(op) # op.list
    PROVE  /\ WalkedBy(op) \in Lists /\ before[WalkedBy(op)] \in Seq(Entities)
           /\ op.i - 1 = Len(before[WalkedBy(op)])
           /\ Taken(op, before) =
                 At(before[WalkedBy(op)],
                    {j \in 1..Len(before[WalkedBy(op)]) :
                        Chosen(op, before, before[WalkedBy(op)][j])})
<1>1. /\ op \in Loop /\ ~Idle /\ op.i \in Nat \ {0} /\ op.len \in Nat
      /\ Walked \in Lists
    BY LoopTyped DEF IInv
<1>2. Walked = WalkedBy(op)
    BY DEF Walked, WalkedBy
<1>3. op.i \leq op.len + 1 /\ op.len = Len(before[WalkedBy(op)])
    BY <1>1 DEF RInv
<1>4. op.i - 1 = Len(before[WalkedBy(op)])
    BY <1>1, <1>3
<1>5. before[WalkedBy(op)] \in Seq(Entities)
    BY <1>1, <1>2 DEF IInv
<1>. QED BY <1>1, <1>2, <1>4, <1>5 DEF Taken

LEMMA SecondRInv ==
    ASSUME IInv, RInv, AddUnionSecond
    PROVE  RInv'
<1>. DEFINE o == op'
            b == before
            l == op.list
            s == op.source
            t == op.other
<1>1. op.kind = "first" /\ op.kind \in Kinds /\ op.i > op.len
    BY DEF AddUnionSecond, Kinds
<1>2. op \in Loop /\ ~Idle /\ l \in Lists /\ t \in Lists /\ s \in Lists
    BY <1>1, LoopTyped DEF IInv, Loop
<1>3. op' = [op EXCEPT !.kind = "second", !.i = 1, !.len = Len(array[t])]
      /\ array' = array /\ before' = b
    BY DEF AddUnionSecond
<1>4. /\ o.kind = "second" /\ o.list = l /\ o.source = s /\ o.other = t
      /\ o.i = 1 /\ o.len = Len(array[t]) /\ o.seen = op.seen
      /\ o # NoLoop
    BY <1>2, <1>3 DEF Loop, NoLoop
<1>5. /\ b \in [Lists -> Seq(Entities)] /\ array \in [Lists -> Seq(Entities)]
      /\ b[s] \in Seq(Entities) /\ b[l] \in Seq(Entities)
    BY <1>2 DEF IInv, ListsSound, ListsTyped
<1>6. WalkedBy(op) = s /\ WalkedBy(o) = t
    BY <1>1, <1>4 DEF WalkedBy
<1>7. Goes(o, b) = b[s]
  <2>1. Taken(o, b) = <<>>
      BY <1>2, <1>4, <1>5, <1>6, TakenNone
  <2>. QED BY <1>4, <1>5, <2>1 DEF Goes
<1>8. Progress(op, b, array[l])
    BY <1>2 DEF RInv
<1>9. ASSUME l # s
      PROVE  array[l] = PutOn(b[l], b[s]) /\ op.seen = IdSet(b[s])
  <2>1. Taken(op, b) = b[s]
    <3>1. {j \in 1..Len(b[s]) : Chosen(op, b, b[s][j])} = 1..Len(b[s])
        BY <1>1 DEF Chosen
    <3>2. Taken(op, b) = At(b[s], {j \in 1..Len(b[s]) : Chosen(op, b, b[s][j])})
        BY <1>1, <1>6, <1>9, TakenAll
    <3>. QED BY <1>5, <3>1, <3>2, AtAll
  <2>2. Goes(op, b) = b[s]
      BY <1>1, <2>1 DEF Goes
  <2>. QED BY <1>1, <1>6, <1>8, <1>9, <2>2 DEF Progress, Apart
<1>10. ASSUME l = s
       PROVE  Shuffled(array[l], b[l]) /\ op.seen \subseteq IdSet(b[l])
    BY <1>1, <1>8, <1>10 DEF Progress
<1>. HIDE DEF o, b, l, s, t
<1>11. Progress(o, b, array[l])
  <2>1. Apart(o) => l # s
      BY <1>4 DEF Apart
  <2>2. l # s => Shuffled(array[l], PutOn(b[l], b[s]))
      BY <1>9 DEF Shuffled
  <2>3. l = s => Picked(o, b, array[l])
    <3>1. l = s => IdSet(array[l]) = IdSet(b[s]) /\ Elems(array[l]) = Elems(b[s])
        BY <1>10, IdSetElems DEF Shuffled
    <3>. QED BY <1>4, <1>10, <3>1 DEF Picked
  <2>. QED BY <1>4, <1>7, <1>9, <2>1, <2>2, <2>3 DEF Progress
<1>12. \A m \in Lists : m # l => array[m] = b[m]
    BY <1>2 DEF RInv, l, b
<1>13. t # l => o.len = Len(b[t])
    BY <1>2, <1>4, <1>12
<1>14. Len(array[t]) \in Nat
    BY <1>2, <1>5
<1>15. \A m \in Lists : OneEach(b[m])
    BY DEF RInv, b
<1>16. o.i \leq o.len + 1
    BY <1>4, <1>14
<1>17. /\ WalkedBy(o) # o.list => o.len = Len(b[WalkedBy(o)])
       /\ \A m \in Lists : m # o.list => array[m] = b[m]
       /\ Progress(o, b, array[o.list])
       /\ o.kind # "filtered" /\ o.kind # "intersection"
    BY <1>4, <1>6, <1>11, <1>12, <1>13
<1>18. ~Idle'
    BY <1>4 DEF Idle, o
<1>. QED BY <1>3, <1>15, <1>16, <1>17, <1>18 DEF RInv, o, b

(* Between calls.                                                          *)
LEMMA IdleRInv ==
    ASSUME ListsSound', op' = NoLoop, before' = array'
    PROVE  RInv'
<1>1. \A m \in Lists : OneEach(array'[m])
    BY DEF OneEach, ListsSound, ArrayMatchesTable
<1>. QED BY <1>1 DEF RInv, Idle

LEMMA NextRInv == OneRelationEach /\ IInv /\ RInv /\ [Next]_vars => RInv'
<1>. SUFFICES ASSUME OneRelationEach, IInv, RInv, [Next]_vars PROVE RInv'
    OBVIOUS
<1>0. IInv'
    BY NextIInv
<1>1. CASE Calls
  <2>1. PICK l \in Lists :
          \/ Renew(l)
          \/ \E e \in Entities : Add(l, e)
          \/ \E s \in Lists :
                \/ AddAll(l, s)
                \/ \E f \in Filters : AddFiltered(l, s, f)
                \/ \E t \in Lists : AddIntersection(l, s, t) \/ AddUnion(l, s, t)
      BY <1>1 DEF Calls
  <2>2. ASSUME Renew(l) PROVE RInv'
      BY <1>0, <2>2, IdleRInv DEF IInv, Renew, Idle
  <2>3. ASSUME NEW e \in Entities, Add(l, e) PROVE RInv'
      BY <1>0, <2>3, IdleRInv DEF IInv, Add, Idle
  <2>4. ASSUME NEW s \in Lists, AddAll(l, s) PROVE RInv'
      BY <2>4, BeginRInv DEF AddAll, Kinds
  <2>5. ASSUME NEW s \in Lists, NEW f \in Filters, AddFiltered(l, s, f) PROVE RInv'
      BY <2>5, BeginRInv DEF AddFiltered, Kinds
  <2>6. ASSUME NEW s \in Lists, NEW t \in Lists, AddIntersection(l, s, t) PROVE RInv'
      BY <2>6, BeginRInv DEF AddIntersection, Kinds
  <2>7. ASSUME NEW s \in Lists, NEW t \in Lists, AddUnion(l, s, t) PROVE RInv'
      BY <2>7, BeginRInv DEF AddUnion, Kinds
  <2>. QED BY <2>1, <2>2, <2>3, <2>4, <2>5, <2>6, <2>7
<1>2. CASE Steps
  <2>1. CASE Return
      BY <1>0, <2>1, IdleRInv DEF IInv, Return
  <2>. QED BY <1>2, <2>1, SecondRInv, IterationsRInv DEF Steps
<1>3. CASE UNCHANGED vars
    BY <1>3 DEF RInv, Idle, vars
<1>. QED BY <1>1, <1>2, <1>3 DEF Next

-------------------------------------------------------------------------------
(* The lists between calls are ordered sets                                *)

LEMMA AbstractOperators ==
    /\ \A s : Ordered!IdsOf(s) = IdSet(s)
    /\ \A s, t : Ordered!Put(s, t) = PutOn(s, t)
    /\ \A l, s : Ordered!AddAll(l, s) =
          IF l = s THEN Ordered!Shuffles(before[l]) ELSE {PutOn(before[l], before[s])}
    /\ \A l, s, f : Ordered!AddFiltered(l, s, f) =
          IF l = s THEN Ordered!Shuffles(before[l])
          ELSE {PutOn(before[l], At(before[s], {i \in 1..Len(before[s]) :
                                                   Satisfies(f, before[s][i])}))}
    /\ \A l, s, t : Ordered!AddIntersection(l, s, t) =
          IF l = s THEN Ordered!Shuffles(before[l])
          ELSE {PutOn(before[l], At(before[s], {i \in 1..Len(before[s]) :
                                   IdOf[before[s][i]] \in IdSet(before[t])}))}
    /\ \A l, s, t : Ordered!AddUnion(l, s, t) =
          IF l = s THEN Ordered!Picks(before[s], before[t])
          ELSE IF l = t THEN Ordered!Shuffles(PutOn(before[l], before[s]))
          ELSE {PutOn(before[l],
                      before[s] \o At(before[t], {i \in 1..Len(before[t]) :
                                   IdOf[before[t][i]] \notin IdSet(before[s])}))}
<1>1. \A s, I : Ordered!At(s, I) = At(s, I)
    BY DEF Ordered!At, At, Ordered!MapThenFoldSet, MapThenFoldSet, Ordered!Max, Max
<1>2. \A s : Ordered!IdsOf(s) = IdSet(s)
    BY DEF Ordered!IdsOf, IdSet
<1>3. \A s, t : Ordered!Put(s, t) = PutOn(s, t)
    BY <1>1, <1>2 DEF Ordered!Put, Ordered!Select, PutOn, Kept
<1>4. \A f, e : Ordered!Satisfies(f, e) = Satisfies(f, e)
    BY DEF Ordered!Satisfies, Satisfies, Ordered!HasParams, HasParams,
           Ordered!Supported, Supported, Ordered!HasRelation, HasRelation
<1>5. \A l, s : Ordered!AddAll(l, s) =
         IF l = s THEN Ordered!Shuffles(before[l]) ELSE {PutOn(before[l], before[s])}
    BY <1>3 DEF Ordered!AddAll
<1>6. \A l, s, f : Ordered!AddFiltered(l, s, f) =
         IF l = s THEN Ordered!Shuffles(before[l])
         ELSE {PutOn(before[l], At(before[s], {i \in 1..Len(before[s]) :
                                                  Satisfies(f, before[s][i])}))}
    BY <1>1, <1>3, <1>4 DEF Ordered!AddFiltered, Ordered!Select
<1>7. \A l, s, t : Ordered!AddIntersection(l, s, t) =
         IF l = s THEN Ordered!Shuffles(before[l])
         ELSE {PutOn(before[l], At(before[s], {i \in 1..Len(before[s]) :
                                  IdOf[before[s][i]] \in IdSet(before[t])}))}
    BY <1>1, <1>2, <1>3 DEF Ordered!AddIntersection, Ordered!Select
<1>8. \A l, s, t : Ordered!AddUnion(l, s, t) =
         IF l = s THEN Ordered!Picks(before[s], before[t])
         ELSE IF l = t THEN Ordered!Shuffles(PutOn(before[l], before[s]))
         ELSE {PutOn(before[l],
                     before[s] \o At(before[t], {i \in 1..Len(before[t]) :
                                  IdOf[before[t][i]] \notin IdSet(before[s])}))}
    BY <1>1, <1>2, <1>3 DEF Ordered!AddUnion, Ordered!Select
<1>. QED BY <1>2, <1>3, <1>5, <1>6, <1>7, <1>8

LEMMA AbstractElems ==
    ASSUME NEW s \in Seq(Entities)
    PROVE  Ordered!ToSet(s) = Elems(s) /\ s \in [1..Len(s) -> Elems(s)]
<1>1. DOMAIN s = 1..Len(s)
    OBVIOUS
<1>2. s \in [1..Len(s) -> Elems(s)]
    BY <1>1 DEF Elems
<1>. QED BY <1>1, <1>2 DEF Ordered!ToSet, Elems

LEMMA ShuffledIsShuffle ==
    ASSUME NEW s \in Seq(Entities), NEW t \in Seq(Entities), Shuffled(s, t)
    PROVE  s \in Ordered!Shuffles(t)
<1>1. Ordered!ToSet(s) = Elems(t) /\ Ordered!ToSet(t) = Elems(t)
    BY AbstractElems DEF Shuffled
<1>2. s \in [1..Len(t) -> Elems(t)]
    BY AbstractElems DEF Shuffled
<1>. QED BY <1>1, <1>2 DEF Ordered!Shuffles

(* A list with one entity of each id has as many entities as ids.          *)
LEMMA OneEachLen ==
    ASSUME NEW s \in Seq(Entities), OneEach(s)
    PROVE  Cardinality(IdSet(s)) = Len(s)
<1>. DEFINE f == [i \in 1..Len(s) |-> IdOf[s[i]]]
<1>1. f \in [1..Len(s) -> IdSet(s)]
    BY DEF IdSet
<1>2. \A i, j \in 1..Len(s) : f[i] = f[j] => i = j
    BY DEF OneEach
<1>3. \A id \in IdSet(s) : \E i \in 1..Len(s) : f[i] = id
    BY DEF IdSet
<1>. HIDE DEF f
<1>4. f \in Bijection(1..Len(s), IdSet(s))
    BY <1>1, <1>2, <1>3 DEF Bijection, Injection, Surjection, IsInjective
<1>5. ExistsBijection(1..Len(s), IdSet(s)) /\ Len(s) \in Nat
    BY <1>4 DEF ExistsBijection
<1>. QED BY <1>5, FS_CountingElements

LEMMA PickedIsPick ==
    ASSUME NEW u \in Seq(Entities), NEW s \in Seq(Entities), NEW t \in Seq(Entities),
           OneEach(u), Elems(u) \subseteq Elems(s) \cup Elems(t),
           IdSet(u) = IdSet(s) \cup IdSet(t)
    PROVE  u \in Ordered!Picks(s, t)
<1>1. \A S : Ordered!Cardinality(S) = Cardinality(S)
    BY DEF Ordered!Cardinality, Cardinality
<1>2. Len(u) = Ordered!Cardinality(Ordered!IdsOf(s) \cup Ordered!IdsOf(t))
    BY <1>1, OneEachLen, AbstractOperators
<1>3. u \in [1..Len(u) -> Elems(s) \cup Elems(t)]
    BY AbstractElems
<1>4. Ordered!ToSet(s) = Elems(s) /\ Ordered!ToSet(t) = Elems(t)
    BY AbstractElems
<1>. QED BY <1>2, <1>3, <1>4, AbstractOperators DEF Ordered!Picks

(* What a call has made of its target when it returns.                     *)
LEMMA ReturnResult ==
    ASSUME IInv, RInv, Return
    PROVE  /\ op.list \in Lists
           /\ \A m \in Lists : m # op.list => array[m] = before[m]
           /\ array[op.list] \in Ordered!Results(Asked)
<1>. DEFINE b == before
            l == op.list
            s == op.source
            t == op.other
            a == array[op.list]
<1>1. op.kind \in Kinds /\ op.kind # "first" /\ op.i > op.len
    BY DEF Return
<1>2. /\ op \in Loop /\ ~Idle /\ l \in Lists /\ t \in Lists /\ s \in Lists
      /\ op.i \in Nat \ {0} /\ op.len \in Nat
    BY <1>1, LoopTyped DEF IInv, Loop
<1>3. /\ b \in [Lists -> Seq(Entities)] /\ b[l] \in Seq(Entities)
      /\ b[s] \in Seq(Entities) /\ b[t] \in Seq(Entities) /\ a \in Seq(Entities)
      /\ OneEach(a)
    BY <1>2 DEF IInv, ListsSound, ListsTyped, ArrayMatchesTable, OneEach
<1>4. \A m \in Lists : m # l => array[m] = b[m]
    BY <1>2 DEF RInv
<1>5. Progress(op, b, a)
    BY <1>2 DEF RInv
<1>6. /\ Asked.list = l /\ Asked.source = s /\ Asked.other = t
      /\ Asked.filter = op.filter
      /\ Asked.kind = IF op.kind = "second" THEN "union" ELSE op.kind
    BY <1>1, <1>2 DEF Asked
<1>7. a \in Ordered!Results(Asked)
  <2>1. CASE op.kind # "second" /\ l = s
    <3>1. a \in Ordered!Shuffles(b[l])
        BY <1>3, <1>5, <2>1, ShuffledIsShuffle DEF Progress
    <3>. QED BY <1>1, <1>6, <2>1, <3>1, AbstractOperators DEF Ordered!Results, Kinds
  <2>2. CASE op.kind # "second" /\ l # s
    <3>1. WalkedBy(op) = s /\ Apart(op)
        BY <2>2 DEF WalkedBy, Apart
    <3>2. a = PutOn(b[l], Taken(op, b))
        BY <1>5, <2>2, <3>1 DEF Progress, Goes
    <3>3. Taken(op, b) = At(b[s], {j \in 1..Len(b[s]) : Chosen(op, b, b[s][j])})
        BY <1>1, <2>2, <3>1, TakenAll
    <3>4. CASE op.kind = "all"
      <4>1. {j \in 1..Len(b[s]) : Chosen(op, b, b[s][j])} = 1..Len(b[s])
          BY <3>4 DEF Chosen
      <4>2. a = PutOn(b[l], b[s])
          BY <1>3, <3>2, <3>3, <4>1, AtAll
      <4>. QED BY <1>6, <2>2, <3>4, <4>2, AbstractOperators DEF Ordered!Results
    <3>5. CASE op.kind = "filtered"
      <4>1. {j \in 1..Len(b[s]) : Chosen(op, b, b[s][j])} =
               {j \in 1..Len(b[s]) : Satisfies(op.filter, b[s][j])}
          BY <3>5 DEF Chosen
      <4>. QED BY <1>6, <2>2, <3>2, <3>3, <3>5, <4>1, AbstractOperators
               DEF Ordered!Results
    <3>6. CASE op.kind = "intersection"
      <4>1. {j \in 1..Len(b[s]) : Chosen(op, b, b[s][j])} =
               {j \in 1..Len(b[s]) : IdOf[b[s][j]] \in IdSet(b[t])}
          BY <3>6 DEF Chosen
      <4>. QED BY <1>6, <2>2, <3>2, <3>3, <3>6, <4>1, AbstractOperators
               DEF Ordered!Results
    <3>. QED BY <1>1, <2>2, <3>4, <3>5, <3>6 DEF Kinds
  <2>3. CASE op.kind = "second"
    <3>0. WalkedBy(op) = t /\ Asked.kind = "union"
        BY <1>6, <2>3 DEF WalkedBy
    <3>1. Ordered!Results(Asked) = Ordered!AddUnion(l, s, t)
        BY <1>6, <3>0 DEF Ordered!Results
    <3>2. CASE l = s
      <4>1. Picked(op, b, a)
          BY <1>5, <2>3, <3>2 DEF Progress
      <4>2. Elems(a) \subseteq Elems(b[s]) \cup Elems(b[t]) /\ IdSet(b[s]) \subseteq IdSet(a)
          BY <4>1 DEF Picked
      <4>3. IdSet(a) \subseteq IdSet(b[s]) \cup IdSet(b[t])
          BY <4>2, IdSetElems
      <4>4. IdSet(b[t]) \subseteq IdSet(a)
        <5>1. CASE t = l
            BY <3>2, <4>2, <5>1
        <5>2. CASE t # l
          <6>1. op.i - 1 = Len(b[t])
              BY <1>1, <3>0, <5>2, TakenAll
          <6>2. \A j \in 1..Len(b[t]) : IdOf[b[t][j]] \in IdSet(a)
              BY <4>1, <5>2, <6>1 DEF Picked
          <6>. QED BY <6>2 DEF IdSet
        <5>. QED BY <5>1, <5>2
      <4>5. a \in Ordered!Picks(b[s], b[t])
          BY <1>3, <4>2, <4>3, <4>4, PickedIsPick
      <4>. QED BY <3>1, <3>2, <4>5, AbstractOperators
    <3>3. CASE l # s /\ l = t
      <4>1. Shuffled(a, PutOn(b[l], b[s]))
          BY <1>5, <2>3, <3>3 DEF Progress
      <4>2. PutOn(b[l], b[s]) \in Seq(Entities)
        <5>1. At(b[l], Kept(b[l], b[s])) \in Seq(Entities)
            BY <1>3, AtFacts DEF Kept
        <5>. QED BY <1>3, <5>1, Joined DEF PutOn
      <4>3. a \in Ordered!Shuffles(PutOn(b[l], b[s]))
          BY <1>3, <4>1, <4>2, ShuffledIsShuffle
      <4>. QED BY <3>1, <3>3, <4>3, AbstractOperators
    <3>4. CASE l # s /\ l # t
      <4>1. a = PutOn(b[l], b[s] \o Taken(op, b))
          BY <1>5, <2>3, <3>0, <3>4 DEF Progress, Apart, Goes
      <4>2. Taken(op, b) = At(b[t], {j \in 1..Len(b[t]) : Chosen(op, b, b[t][j])})
          BY <1>1, <3>0, <3>4, TakenAll
      <4>3. {j \in 1..Len(b[t]) : Chosen(op, b, b[t][j])} =
               {j \in 1..Len(b[t]) : IdOf[b[t][j]] \notin IdSet(b[s])}
          BY <2>3 DEF Chosen
      <4>. QED BY <3>1, <3>4, <4>1, <4>2, <4>3, AbstractOperators
    <3>. QED BY <3>2, <3>3, <3>4
  <2>. QED BY <2>1, <2>2, <2>3
<1>. QED BY <1>2, <1>4, <1>7

(* A step of a loop is none of the ordered sets.                           *)
LEMMA LoopStutters ==
    ASSUME op # NoLoop, op' # NoLoop, before' = before,
           op'.list = op.list, op'.source = op.source, op'.other = op.other,
           op'.filter = op.filter,
           \/ op'.kind = op.kind
           \/ op.kind = "first" /\ op'.kind = "second"
    PROVE  UNCHANGED Ordered!vars
  BY DEF Asked, Idle, Ordered!vars

LEMMA BeginOrdered ==
    ASSUME IInv, RInv, NEW kind \in Kinds \ {"second"}, NEW l \in Lists, NEW s \in Lists,
           NEW t \in Lists, NEW f \in Filters \cup {NoConstraints}, NEW others,
           Begin(kind, l, s, t, f, others)
    PROVE  Ordered!Begin
<1>1. /\ Idle /\ before' = array /\ before = array
      /\ op' = [kind |-> kind, list |-> l, source |-> s, other |-> t,
                filter |-> f, i |-> 1, len |-> Len(array[s]),
                seen |-> {}, others |-> others]
    BY DEF Begin, RInv
<1>2. op' # NoLoop
    BY <1>1 DEF NoLoop, Kinds
<1>3. Asked = Ordered!NoCall
    BY <1>1 DEF Asked, NoLoop, Ordered!NoCall
<1>4. Asked' = [kind |-> IF kind = "first" THEN "union" ELSE kind, list |-> l,
                source |-> s, other |-> t, filter |-> f]
    BY <1>1, <1>2 DEF Asked, Idle
<1>5. Ordered!NoConstraints = NoConstraints
    BY DEF Ordered!NoConstraints, NoConstraints
<1>6. (IF kind = "first" THEN "union" ELSE kind)
          \in {"all", "filtered", "intersection", "union"}
    BY DEF Kinds
<1>7. Asked' \in Ordered!Calls
    BY <1>4, <1>5, <1>6 DEF Ordered!Calls
<1>. QED BY <1>1, <1>3, <1>7 DEF Ordered!Begin

(* One entity, put on a list.                                              *)
LEMMA AddOrdered ==
    ASSUME IInv, RInv, NEW l \in Lists, NEW e \in Entities, Add(l, e)
    PROVE  Ordered!Add(l, e) /\ UNCHANGED Asked
<1>. DEFINE a == array[l]
<1>1. /\ a \in Seq(Entities) /\ OneEach(a)
      /\ table[l] \in [Ids -> Entities \cup {None}] /\ Agree(a, table[l])
      /\ ListsSound
    BY MatchesIsAgree DEF IInv, ListsSound, ListsTyped, ArrayMatchesTable, OneEach
<1>2. Insert(l, e) /\ Idle /\ op' = op /\ before' = array' /\ before = array
    BY DEF Add, RInv
<1>3. array' = [array EXCEPT ![l] = Inserted(a, table[l], e)]
    BY <1>2 DEF Insert, Lookup, Inserted
<1>. HIDE DEF a
<1>4. Inserted(a, table[l], e) = PutOn(a, <<e>>)
  <2>1. PutOn(a, <<>>) = a
      BY <1>1, PutNone
  <2>. DEFINE none == <<>>
  <2>2. none \in Seq(Entities) /\ IdSet(none) = {} /\ Append(none, e) = <<e>>
      BY DEF IdSet
  <2>. HIDE DEF none
  <2>3. PutOn(a, none) = a
      BY <2>1 DEF none
  <2>4. Inserted(PutOn(a, none), table[l], e) = PutOn(a, Append(none, e))
      BY <1>1, <2>2, <2>3, PutNext
  <2>. QED BY <2>2, <2>3, <2>4
<1>5. Ordered!Put(before[l], <<e>>) = PutOn(a, <<e>>)
    BY <1>2, AbstractOperators DEF a
<1>6. UNCHANGED Asked
    BY <1>2 DEF Asked, Idle
<1>. QED BY <1>2, <1>3, <1>4, <1>5, <1>6 DEF Ordered!Add

LEMMA NextOrdered ==
    ASSUME IInv, RInv, [Next]_vars
    PROVE  [Ordered!Next]_(Ordered!vars)
<1>1. CASE Calls
  <2>1. PICK l \in Lists :
          \/ Renew(l)
          \/ \E e \in Entities : Add(l, e)
          \/ \E s \in Lists :
                \/ AddAll(l, s)
                \/ \E f \in Filters : AddFiltered(l, s, f)
                \/ \E t \in Lists : AddIntersection(l, s, t) \/ AddUnion(l, s, t)
      BY <1>1 DEF Calls
  <2>2. Idle => Asked = Ordered!NoCall
      BY DEF Asked, NoLoop, Ordered!NoCall
  <2>3. ASSUME Renew(l) PROVE Ordered!Next
    <3>1. /\ Idle /\ op' = op /\ before' = array' /\ before = array
          /\ array' = [array EXCEPT ![l] = <<>>]
        BY <2>3 DEF Renew, RInv
    <3>2. UNCHANGED Asked
        BY <3>1 DEF Asked, Idle
    <3>. QED BY <2>2, <3>1, <3>2 DEF Ordered!Next, Ordered!Clear
  <2>4. ASSUME NEW e \in Entities, Add(l, e) PROVE Ordered!Next
    <3>1. Ordered!Add(l, e) /\ UNCHANGED Asked
        BY <2>4, AddOrdered
    <3>. QED BY <2>2, <2>4, <3>1 DEF Ordered!Next, Add
  <2>5. ASSUME NEW s \in Lists, AddAll(l, s) PROVE Ordered!Begin
      BY <2>5, BeginOrdered DEF AddAll, Kinds
  <2>6. ASSUME NEW s \in Lists, NEW f \in Filters, AddFiltered(l, s, f)
        PROVE  Ordered!Begin
      BY <2>6, BeginOrdered DEF AddFiltered, Kinds
  <2>7. ASSUME NEW s \in Lists, NEW t \in Lists, AddIntersection(l, s, t)
        PROVE  Ordered!Begin
      BY <2>7, BeginOrdered DEF AddIntersection, Kinds
  <2>8. ASSUME NEW s \in Lists, NEW t \in Lists, AddUnion(l, s, t)
        PROVE  Ordered!Begin
      BY <2>8, BeginOrdered DEF AddUnion, Kinds
  <2>. QED BY <2>1, <2>3, <2>4, <2>5, <2>6, <2>7, <2>8 DEF Ordered!Next
<1>2. ASSUME NEW kind \in Kinds, InLoop(kind), NEW new, Advance(new)
      PROVE  UNCHANGED Ordered!vars
  <2>1. op # NoLoop /\ op.kind = kind
      BY <1>2, Running DEF Idle
  <2>2. /\ op' # NoLoop /\ before' = before /\ op'.kind = kind
        /\ op'.list = op.list /\ op'.source = op.source /\ op'.other = op.other
        /\ op'.filter = op.filter
      BY <1>2, Iterated
  <2>. QED BY <2>1, <2>2, LoopStutters
<1>3. CASE Steps
  <2>1. CASE AddAllStep
      BY <1>2, <2>1 DEF AddAllStep, Kinds
  <2>2. CASE AddFilteredStep
      BY <1>2, <2>2 DEF AddFilteredStep, Kinds
  <2>3. CASE AddIntersectionStep
      BY <1>2, <2>3 DEF AddIntersectionStep, Kinds
  <2>4. CASE AddUnionFirstStep
      BY <1>2, <2>4 DEF AddUnionFirstStep, Kinds
  <2>5. CASE AddUnionSecondStep
      BY <1>2, <2>5 DEF AddUnionSecondStep, Kinds
  <2>6. CASE AddUnionSecond
    <3>1. /\ op.kind = "first" /\ before' = before
          /\ op' = [op EXCEPT !.kind = "second", !.i = 1, !.len = Len(array[op.other])]
        BY <2>6 DEF AddUnionSecond
    <3>2. op \in Loop /\ op # NoLoop
        BY <3>1, LoopTyped DEF IInv, Kinds, Idle
    <3>3. /\ op'.kind = "second" /\ op'.list = op.list /\ op'.source = op.source
          /\ op'.other = op.other /\ op'.filter = op.filter
        BY <3>1, <3>2 DEF Loop
    <3>4. op' # NoLoop
        BY <3>3 DEF NoLoop
    <3>. QED BY <3>1, <3>2, <3>3, <3>4, LoopStutters
  <2>7. CASE Return
    <3>1. /\ op.list \in Lists /\ array[op.list] \in Ordered!Results(Asked)
          /\ \A m \in Lists : m # op.list => array[m] = before[m]
        BY <2>7, ReturnResult
    <3>2. op' = NoLoop /\ before' = array /\ op.kind \in Kinds
        BY <2>7 DEF Return
    <3>3. ~Idle /\ Idle'
        BY <3>2 DEF Idle, NoLoop, Kinds
    <3>4. Asked' = Ordered!NoCall /\ Asked # Ordered!NoCall /\ Asked.list = op.list
      <4>1. Asked' = Ordered!NoCall
          BY <3>3 DEF Asked, NoLoop, Ordered!NoCall
      <4>2. Asked.kind # "none" /\ Asked.list = op.list
          BY <3>2, <3>3 DEF Asked, Kinds
      <4>. QED BY <4>1, <4>2 DEF Ordered!NoCall
    <3>5. array = [before EXCEPT ![op.list] = array[op.list]]
        BY <3>1 DEF IInv, ListsSound, ListsTyped
    <3>6. Ordered!Return
        BY <3>1, <3>2, <3>4, <3>5 DEF Ordered!Return
    <3>. QED BY <3>6 DEF Ordered!Next
  <2>. QED BY <1>3, <2>1, <2>2, <2>3, <2>4, <2>5, <2>6, <2>7 DEF Steps
<1>4. CASE UNCHANGED vars
    BY <1>4 DEF vars, Ordered!vars, Asked, Idle
<1>. QED BY <1>1, <1>3, <1>4 DEF Next

LEMMA InitRInv == Init => RInv
<1>1. OneEach(<<>>)
    BY DEF OneEach
<1>. QED BY <1>1 DEF Init, RInv, Idle

(* Each call of osinfo_list.c has the effect it was asked for, as if it    *)
(* had it at once when it returns, also when a list is added to itself or  *)
(* combined with itself; if no filter asks for two kinds of relation.      *)
THEOREM SetsCorrect ==
    ASSUME OneRelationEach
    PROVE  Spec => SetsImplemented
<1>1. Init => Ordered!Init
    BY DEF Init, Ordered!Init, Asked, Idle, NoLoop, Ordered!NoCall
<1>2. IInv /\ RInv /\ [Next]_vars => RInv'
    BY NextRInv
<1>3. IInv /\ RInv /\ [Next]_vars => [Ordered!Next]_(Ordered!vars)
    BY NextOrdered
<1>. QED BY <1>1, <1>2, <1>3, InitRInv, IInvAlways, PTL
         DEF Spec, SetsImplemented, Ordered!Spec
===============================================================================
