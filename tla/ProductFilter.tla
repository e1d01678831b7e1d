----------------------------- MODULE ProductFilter -----------------------------
(***************************************************************************)
(* OsinfoFilter and OsinfoProductFilter (osinfo/osinfo_filter.c and        *)
(* osinfo/osinfo_productfilter.c): the constraints an application puts on  *)
(* the products it looks for, and the test of a product against them.      *)
(*                                                                         *)
(* A table of constraints is a function to sets, empty where the hash      *)
(* table has no key. Parameters, relations and dates of the products do    *)
(* not change while they are looked for.                                   *)
(***************************************************************************)
EXTENDS Integers, FiniteSets

CONSTANTS
    Entities,   \* products
    Props,      \* names of parameters
    Values,     \* their values
    Relations,  \* OsinfoProductRelationship
    Params,     \* the values of each parameter of each product
    Related,    \* the products each is related to, by relation
    Release,    \* the day it was released, 0 if not known
    Eol         \* the day its support ended, 0 if not known

ASSUME ParamsAssumption == Params \in [Entities -> [Props -> SUBSET Values]]
ASSUME RelatedAssumption == Related \in [Entities -> [Relations -> SUBSET Entities]]
ASSUME DatesAssumption == Release \in [Entities -> Nat] /\ Eol \in [Entities -> Nat]

(* The constraints of a filter: values required of parameters, products    *)
(* required to be related, and the day support is wanted (0 if not asked). *)
Constraints == [props   : [Props -> SUBSET Values],
                rels    : [Relations -> SUBSET Entities],
                support : Nat]

(* osinfo_productfilter_new.                                               *)
NoConstraints == [props   |-> [p \in Props |-> {}],
                  rels    |-> [r \in Relations |-> {}],
                  support |-> 0]

(* osinfo_filter_add_constraint, _clear_constraint, _clear_constraints.    *)
AddConstraint(f, p, v) == [f EXCEPT !.props[p] = @ \cup {v}]
ClearConstraint(f, p) == [f EXCEPT !.props[p] = {}]
ClearConstraints(f) == [f EXCEPT !.props = NoConstraints.props]

(* osinfo_productfilter_add_product_constraint, _clear_product_constraint, *)
(* _clear_product_constraints.                                             *)
AddProductConstraint(f, r, e) == [f EXCEPT !.rels[r] = @ \cup {e}]
ClearProductConstraint(f, r) == [f EXCEPT !.rels[r] = {}]
ClearProductConstraints(f) == [f EXCEPT !.rels = NoConstraints.rels]

(* osinfo_productfilter_add_support_date_constraint.                       *)
AddSupportDate(f, day) == [f EXCEPT !.support = day]

-------------------------------------------------------------------------------
(* osinfo_filter_matches_default: every value asked for is there.          *)
HasParams(f, e) == \A p \in Props : f.props[p] \subseteq Params[e][p]

HasRelation(f, e, r) == f.rels[r] \subseteq Related[e][r]

(* The loop over the table of relations: each overwrites what the one      *)
(* before said (args->matched), so the last of the table decides.          *)
RelationOutcomes(f, e) ==
    LET keys == {r \in Relations : f.rels[r] # {}}
    IN  IF keys = {} THEN {TRUE} ELSE {HasRelation(f, e, r) : r \in keys}

Supported(f, e) ==
    f.support # 0 => /\ Release[e] # 0 => Release[e] \leq f.support
                     /\ Eol[e] # 0 => Eol[e] \geq f.support

(* osinfo_productfilter_matches_default: what it may return.               *)
MatchOutcomes(f, e) ==
    IF HasParams(f, e) /\ Supported(f, e) THEN RelationOutcomes(f, e)
                                          ELSE {FALSE}

(* What the constraints ask for: "all must match".                         *)
Satisfies(f, e) ==
    /\ HasParams(f, e)
    /\ Supported(f, e)
    /\ \A r \in Relations : HasRelation(f, e, r)
===============================================================================
