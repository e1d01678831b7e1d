------------------------------ MODULE OrderedSets ------------------------------
(***************************************************************************)
(* What the lists of libosinfo promise: a list holds at most one entity of *)
(* each id, in the order in which they were added; adding an entity puts   *)
(* it last, in place of one with its id; a call that adds the elements of  *)
(* other lists has its whole effect at once, when it returns.              *)
(*                                                                         *)
(* When the target of a call is also one of its sources, no order is       *)
(* promised, and in a union any of the entities of an id may be kept.      *)
(***************************************************************************)
EXTENDS ProductFilter, Sequences, SequencesExt, Selections

CONSTANTS Ids, IdOf, Lists, Filters

VARIABLES lists,
          call    \* the call that runs

vars == <<lists, call>>

NoCall == [kind |-> "none"]

Calls == [kind   : {"all", "filtered", "intersection", "union"},
          list   : Lists,
          source : Lists,
          other  : Lists,
          filter : Filters \cup {NoConstraints}]

IdsOf(s) == {IdOf[s[i]] : i \in 1..Len(s)}

(* Adding the elements of t, all of different ids, to s.                   *)
Put(s, t) == Select(s, LAMBDA e : IdOf[e] \notin IdsOf(t)) \o t

(* The elements of s in some order.                                        *)
Shuffles(s) == {t \in [1..Len(s) -> ToSet(s)] : ToSet(t) = ToSet(s)}

(* One element of each id in s or t, in some order.                        *)
Picks(s, t) ==
    LET ids == IdsOf(s) \cup IdsOf(t)
    IN  {u \in [1..Cardinality(ids) -> ToSet(s) \cup ToSet(t)] : IdsOf(u) = ids}

-------------------------------------------------------------------------------
(* What a call may make of its target l, out of s and t                    *)

AddAll(l, s) ==
    IF l = s THEN Shuffles(lists[l]) ELSE {Put(lists[l], lists[s])}

AddFiltered(l, s, f) ==
    IF l = s THEN Shuffles(lists[l])
    ELSE {Put(lists[l], Select(lists[s], LAMBDA e : Satisfies(f, e)))}

AddIntersection(l, s, t) ==
    IF l = s THEN Shuffles(lists[l])
    ELSE {Put(lists[l],
              Select(lists[s], LAMBDA e : IdOf[e] \in IdsOf(lists[t])))}

AddUnion(l, s, t) ==
    IF l = s THEN Picks(lists[s], lists[t])
    ELSE IF l = t THEN Shuffles(Put(lists[l], lists[s]))
    ELSE {Put(lists[l],
              lists[s] \o Select(lists[t],
                              LAMBDA e : IdOf[e] \notin IdsOf(lists[s])))}

Results(c) ==
    CASE c.kind = "all"          -> AddAll(c.list, c.source)
      [] c.kind = "filtered"     -> AddFiltered(c.list, c.source, c.filter)
      [] c.kind = "intersection" -> AddIntersection(c.list, c.source, c.other)
      [] c.kind = "union"        -> AddUnion(c.list, c.source, c.other)

-------------------------------------------------------------------------------
Init ==
    /\ lists = [l \in Lists |-> <<>>]
    /\ call = NoCall

Add(l, e) == lists' = [lists EXCEPT ![l] = Put(@, <<e>>)]

Clear(l) == lists' = [lists EXCEPT ![l] = <<>>]

Begin ==
    /\ call = NoCall
    /\ call' \in Calls
    /\ UNCHANGED lists

Return ==
    /\ call # NoCall
    /\ lists' \in {[lists EXCEPT ![call.list] = r] : r \in Results(call)}
    /\ call' = NoCall

Next ==
    \/ /\ call = NoCall
       /\ \E l \in Lists : Clear(l) \/ \E e \in Entities : Add(l, e)
       /\ UNCHANGED call
    \/ Begin
    \/ Return

Spec == Init /\ [][Next]_vars
===============================================================================
