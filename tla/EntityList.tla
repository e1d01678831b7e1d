------------------------------- MODULE EntityList -------------------------------
(***************************************************************************)
(* OsinfoList (osinfo/osinfo_list.c): lists of entities, each kept twice,  *)
(* in an array and in a hash table from id to entity. The array has no     *)
(* reference to its elements, the table has one to each.                   *)
(*                                                                         *)
(* A call that adds the elements of other lists is a loop over them, by    *)
(* index, one osinfo_list_add at a time; the target may be one of the      *)
(* sources. A list is used by one thread at a time, so one such call runs  *)
(* at a time.                                                              *)
(***************************************************************************)
EXTENDS ProductFilter, Sequences

CONSTANTS
    Ids,      \* entity ids
    IdOf,     \* the id of each entity; several may have the same
    Lists,
    Filters,  \* the filters used to select elements
    None      \* no entity

ASSUME IdsAssumption == IdOf \in [Entities -> Ids]
ASSUME NoneAssumption == None \notin Entities
ASSUME FiltersAssumption == Filters \subseteq Constraints

VARIABLES
    array,   \* priv->array of each list
    table,   \* priv->entities: the entity of each id
    held,    \* the references to each entity each list holds
    op,      \* the call that runs, and its loop
    before   \* the arrays when it began (history)

vars == <<array, table, held, op, before>>

Kinds == {"all", "filtered", "intersection", "first", "second"}

(* A call that adds the elements of `source` (in a union, then those of    *)
(* `other`) to `list`: the index of its loop, the length read before it,   *)
(* the filter, and the sets of ids it keeps (newSet, otherSet).            *)
Loop == [kind : Kinds, list : Lists, source : Lists, other : Lists,
         filter : Constraints, i : Nat, len : Nat,
         seen : SUBSET Ids, others : SUBSET Ids]

NoLoop == [kind |-> "none"]
Idle == op = NoLoop

Begin(kind, l, s, t, f, others) ==
    /\ Idle
    /\ op' = [kind |-> kind, list |-> l, source |-> s, other |-> t,
              filter |-> f, i |-> 1, len |-> Len(array[s]),
              seen |-> {}, others |-> others]
    /\ before' = array
    /\ UNCHANGED <<array, table, held>>

-------------------------------------------------------------------------------
Init ==
    /\ array = [l \in Lists |-> <<>>]
    /\ table = [l \in Lists |-> [id \in Ids |-> None]]
    /\ held = [l \in Lists |-> [e \in Entities |-> 0]]
    /\ op = NoLoop
    /\ before = array

Lookup(l, id) == table[l][id]

(* g_ptr_array_remove: the first place of x goes.                          *)
Without(s, x) ==
    LET places == {i \in 1..Len(s) : s[i] = x}
        first  == CHOOSE i \in places : \A j \in places : i \leq j
    IN  IF places = {} THEN s
        ELSE [i \in 1..Len(s) - 1 |-> IF i < first THEN s[i] ELSE s[i + 1]]

(* Mutant of Insert: the element of the same id stays in the array.        *)
InsertKeeping(l, e) ==
    LET old == Lookup(l, IdOf[e])
    IN  /\ array' = [array EXCEPT ![l] = Append(@, e)]
        /\ table' = [table EXCEPT ![l][IdOf[e]] = e]
        /\ held' = [held EXCEPT ![l] =
                      [x \in Entities |->
                         @[x] + (IF x = e THEN 1 ELSE 0)
                              - (IF x = old THEN 1 ELSE 0)]]

(* Mutant of Insert: an element already listed is referenced once more.    *)
InsertReferencing(l, e) ==
    LET old == Lookup(l, IdOf[e])
    IN  /\ array' = [array EXCEPT ![l] = Append(Without(@, old), e)]
        /\ table' = [table EXCEPT ![l][IdOf[e]] = e]
        /\ held' = [held EXCEPT ![l][e] = @ + 1]

(* osinfo_list_add: the entity is referenced, takes the place of one with  *)
(* the same id, and the table releases the one it replaces.                *)
Insert(l, e) ==
    LET old == Lookup(l, IdOf[e])
    IN  /\ array' = [array EXCEPT ![l] = Append(Without(@, old), e)]
        /\ table' = [table EXCEPT ![l][IdOf[e]] = e]
        /\ held' = [held EXCEPT ![l] =
                      [x \in Entities |->
                         @[x] + (IF x = e THEN 1 ELSE 0)
                              - (IF x = old THEN 1 ELSE 0)]]

Add(l, e) ==
    /\ Idle
    /\ Insert(l, e)
    /\ before' = array'
    /\ UNCHANGED op

(* osinfo_list_finalize, and a new list in its place.                      *)
Renew(l) ==
    /\ Idle
    /\ array' = [array EXCEPT ![l] = <<>>]
    /\ table' = [table EXCEPT ![l] = [id \in Ids |-> None]]
    /\ held' = [held EXCEPT ![l] =
                  [x \in Entities |->
                     @[x] - Cardinality({id \in Ids : Lookup(l, id) = x})]]
    /\ before' = array'
    /\ UNCHANGED op

-------------------------------------------------------------------------------
(* The calls that add the elements of lists                                *)

AddAll(l, s) == Begin("all", l, s, s, NoConstraints, {})

AddFiltered(l, s, f) == Begin("filtered", l, s, s, f, {})

IdsIn(l) == {IdOf[array[l][i]] : i \in 1..Len(array[l])}

(* otherSet is filled from the second source before the loop.              *)
AddIntersection(l, s, t) == Begin("intersection", l, s, t, NoConstraints, IdsIn(t))

AddUnion(l, s, t) == Begin("first", l, s, t, NoConstraints, {})

InLoop(kind) == op.kind = kind /\ op.i \leq op.len

(* The list the loop walks.                                                *)
Walked == IF op.kind = "second" THEN op.other ELSE op.source

entity == array[Walked][op.i]

Skip == UNCHANGED <<array, table, held>>

(* Mutant of Advance: newSet is given the entity, not its id.              *)
AdvanceByEntity(new) ==
    /\ op' = [op EXCEPT !.i = @ + 1, !.seen = @ \cup {entity}]
    /\ UNCHANGED before

(* The next iteration; ids already added go to newSet.                     *)
Advance(new) ==
    /\ op' = [op EXCEPT !.i = @ + 1, !.seen = @ \cup new]
    /\ UNCHANGED before

AddAllStep ==
    /\ InLoop("all")
    /\ Insert(op.list, entity)
    /\ Advance({})

AddFilteredStep ==
    /\ InLoop("filtered")
    /\ \E matched \in MatchOutcomes(op.filter, entity) :
          IF matched THEN Insert(op.list, entity) ELSE Skip
    /\ Advance({})

(* Mutant of Wanted: newSet is not looked at, nor otherSet.                *)
WantedAnyway(id) == TRUE

(* Only ids of the other list, each once.                                  *)
Wanted(id) == id \in op.others /\ id \notin op.seen

AddIntersectionStep ==
    /\ InLoop("intersection")
    /\ IF Wanted(IdOf[entity])
       THEN Insert(op.list, entity) /\ Advance({IdOf[entity]})
       ELSE Skip /\ Advance({})

AddUnionFirstStep ==
    /\ InLoop("first")
    /\ Insert(op.list, entity)
    /\ Advance({IdOf[entity]})

(* Mutant of AddUnionSecond: the length of the first list is kept.         *)
AddUnionSecondOldLength ==
    /\ op.kind = "first"
    /\ op.i > op.len
    /\ op' = [op EXCEPT !.kind = "second", !.i = 1]
    /\ UNCHANGED <<array, table, held, before>>

(* The second list's turn; its length is read now.                         *)
AddUnionSecond ==
    /\ op.kind = "first"
    /\ op.i > op.len
    /\ op' = [op EXCEPT !.kind = "second", !.i = 1, !.len = Len(array[op.other])]
    /\ UNCHANGED <<array, table, held, before>>

AddUnionSecondStep ==
    /\ InLoop("second")
    /\ IF IdOf[entity] \notin op.seen
       THEN Insert(op.list, entity) /\ Advance({IdOf[entity]})
       ELSE Skip /\ Advance({})

Return ==
    /\ op.kind \in Kinds \ {"first"}
    /\ op.i > op.len
    /\ op' = NoLoop
    /\ before' = array
    /\ UNCHANGED <<array, table, held>>

-------------------------------------------------------------------------------
Calls ==
    \E l \in Lists :
        \/ Renew(l)
        \/ \E e \in Entities : Add(l, e)
        \/ \E s \in Lists :
              \/ AddAll(l, s)
              \/ \E f \in Filters : AddFiltered(l, s, f)
              \/ \E t \in Lists : AddIntersection(l, s, t) \/ AddUnion(l, s, t)

Steps == \/ AddAllStep \/ AddFilteredStep \/ AddIntersectionStep
         \/ AddUnionFirstStep \/ AddUnionSecond \/ AddUnionSecondStep
         \/ Return

Next == Calls \/ Steps

Spec == Init /\ [][Next]_vars

-------------------------------------------------------------------------------
(* Properties                                                              *)

TypeOK ==
    /\ array \in [Lists -> Seq(Entities)]
    /\ table \in [Lists -> [Ids -> Entities \cup {None}]]
    /\ held \in [Lists -> [Entities -> Int]]
    /\ op \in Loop \cup {NoLoop}
    /\ before \in [Lists -> Seq(Entities)]

(* The array and the table of a list hold the same entities: each place of *)
(* the array is that of the entity the table has for its id, and no id has *)
(* two places. So a lookup by id and a lookup by index agree.              *)
ArrayMatchesTable ==
    \A l \in Lists :
        /\ \A i \in 1..Len(array[l]) : table[l][IdOf[array[l][i]]] = array[l][i]
        /\ \A i, j \in 1..Len(array[l]) :
              IdOf[array[l][i]] = IdOf[array[l][j]] => i = j
        /\ \A id \in Ids : table[l][id] # None =>
              \E i \in 1..Len(array[l]) :
                 array[l][i] = table[l][id] /\ IdOf[array[l][i]] = id

(* A list holds one reference to each entity it lists, however often it    *)
(* was added, and none to any other.                                       *)
HeldWhileListed ==
    \A l \in Lists : \A e \in Entities :
        held[l][e] = IF table[l][IdOf[e]] = e THEN 1 ELSE 0

(* The index of a loop stays within the list it walks, also when the loop  *)
(* moves the elements of that list.                                        *)
LoopInBounds == ~Idle => op.len \leq Len(array[Walked])

(* What the running call was asked to do.                                  *)
Asked ==
    IF Idle THEN NoLoop
    ELSE [kind   |-> IF op.kind \in {"first", "second"} THEN "union" ELSE op.kind,
          list   |-> op.list,
          source |-> op.source,
          other  |-> op.other,
          filter |-> op.filter]

(* Seen between calls, lists are sets by id in the order of addition, and  *)
(* each call has the effect it was asked for.                              *)
Ordered == INSTANCE OrderedSets WITH lists <- before, call <- Asked
SetsImplemented == Ordered!Spec

-------------------------------------------------------------------------------
(* What the documentation says and the code does not do                    *)

(* osinfo_productfilter_add_product_constraint: "Multiple constraints can  *)
(* be set for the same @relshp or @product, in which case all must match". *)
(* So a filtered call adds no entity that misses one.                      *)
FilterRespected ==
    [][AddFilteredStep /\ array' # array => Satisfies(op.filter, entity)]_vars
===============================================================================
