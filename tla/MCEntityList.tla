----------------------------- MODULE MCEntityList -----------------------------
(* Instances of EntityList for TLC: three lists, three products, two of    *)
(* which have the same id.                                                 *)
EXTENDS EntityList

CONSTANTS a, a2, b, k, v, derives, clones

ById == [e \in Entities |-> IF e = b THEN "b" ELSE "a"]

MCParams == [e \in Entities |-> [p \in Props |-> IF e = a2 THEN {} ELSE {v}]]

(* b derives from a and clones nothing; a clones b.                        *)
MCRelated == [e \in Entities |-> [r \in Relations |->
                IF e = b /\ r = derives THEN {a}
                ELSE IF e = a /\ r = clones THEN {b} ELSE {}]]

(* a was released on day 2, support for b ended on day 3.                  *)
MCRelease == [e \in Entities |-> IF e = a THEN 2 ELSE 0]
MCEol == [e \in Entities |-> IF e = b THEN 3 ELSE 0]

WithValue == AddConstraint(NoConstraints, k, v)
Derived == AddProductConstraint(NoConstraints, derives, a)
SupportedOn(day) == AddSupportDate(NoConstraints, day)

(* One relation at the most.                                               *)
MCFilters == {WithValue,
              ClearConstraint(AddConstraint(Derived, k, v), k),
              ClearProductConstraint(AddProductConstraint(Derived, clones, b), derives),
              ClearProductConstraints(ClearConstraints(AddSupportDate(WithValue, 1))),
              SupportedOn(4)}

(* Two relations.                                                          *)
TwoRelations == {AddProductConstraint(Derived, clones, b)}
===============================================================================
