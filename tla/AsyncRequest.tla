------------------------------ MODULE AsyncRequest ------------------------------
(***************************************************************************)
(* What an operation of the library with a _async function, a callback and *)
(* a _finish function promises its caller, with no trace of the I/O it     *)
(* does: the callback is called at most once; _finish gives the caller     *)
(* either an object, which is then the caller's, or an error and no object *)
(* ("Returns: (transfer full): a new #OsinfoMedia , or NULL on error");    *)
(* and who cancelled before _finish gets no object.                        *)
(***************************************************************************)

VARIABLES caller,     \* what the caller has: nothing, an object or an error
          cancelled   \* the caller's GCancellable was cancelled

vars == <<caller, cancelled>>

Init == caller = "idle" /\ cancelled = FALSE

Submit == caller = "idle" /\ caller' = "waiting" /\ UNCHANGED cancelled

Cancel == ~cancelled /\ cancelled' = TRUE /\ UNCHANGED caller

Answer == /\ caller = "waiting"
          /\ caller' \in IF cancelled THEN {"error"} ELSE {"object", "error"}
          /\ UNCHANGED cancelled

Next == Submit \/ Cancel \/ Answer

Spec == Init /\ [][Next]_vars

(* The caller is answered if the main loop runs.                           *)
FairSpec == Spec /\ WF_vars(Answer)
===============================================================================
