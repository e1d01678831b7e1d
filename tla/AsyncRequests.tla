------------------------------ MODULE AsyncRequests ------------------------------
(***************************************************************************)
(* Several requests of one application at the same time, each of which is  *)
(* what AsyncRequest describes of one: answered at most once, and with an  *)
(* error if its caller cancelled it first. What one does leaves the others *)
(* alone.                                                                  *)
(***************************************************************************)

CONSTANT Requests

VARIABLES caller,     \* what the caller of each has
          cancelled   \* the GCancellable of each was cancelled

vars == <<caller, cancelled>>

Init == /\ caller = [r \in Requests |-> "idle"]
        /\ cancelled = [r \in Requests |-> FALSE]

Submit(r) == /\ caller[r] = "idle"
             /\ caller' = [caller EXCEPT ![r] = "waiting"]
             /\ UNCHANGED cancelled

Cancel(r) == /\ ~cancelled[r]
             /\ cancelled' = [cancelled EXCEPT ![r] = TRUE]
             /\ UNCHANGED caller

Answer(r) == /\ caller[r] = "waiting"
             /\ \E a \in IF cancelled[r] THEN {"error"} ELSE {"object", "error"} :
                   caller' = [caller EXCEPT ![r] = a]
             /\ UNCHANGED cancelled

Next == \E r \in Requests : Submit(r) \/ Cancel(r) \/ Answer(r)

Spec == Init /\ [][Next]_vars
===============================================================================
