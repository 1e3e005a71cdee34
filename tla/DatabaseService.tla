---------------------------- MODULE DatabaseService ----------------------------
(***************************************************************************)
(* What a database process promises to those who send it requests: every   *)
(* request is applied as a whole or not at all, and is told to have        *)
(* succeeded when it was applied and to have failed when it was not and    *)
(* never will be.  Once the connection breaks, success is no promise.      *)
(***************************************************************************)

CONSTANT Request

VARIABLES
  asked,     \* requests that have been sent
  applied,   \* requests whose effects are in the database
  answer,    \* answer[request]: "none", "success" or "failure"
  broken     \* whether the end of a transaction has failed

serviceVars == <<asked, applied, answer, broken>>

Init ==
  /\ asked = {} /\ applied = {}
  /\ answer = [request \in Request |-> "none"]
  /\ broken = FALSE

Unanswered == { request \in asked : answer[request] = "none" }

Ask ==
  \E request \in Request \ asked :
    /\ asked' = asked \cup {request}
    /\ UNCHANGED <<applied, answer, broken>>

Apply ==
  \E requests \in SUBSET (Unanswered \ applied) :
    /\ applied' = applied \cup requests
    /\ broken' \in {broken, TRUE}
    /\ ~broken
    /\ UNCHANGED <<asked, answer>>

Answer ==
  \E successes \in SUBSET Unanswered :
    \E failures \in SUBSET (Unanswered \ (applied \cup successes)) :
      /\ successes \subseteq applied \/ broken
      /\ answer' = [request \in Request |-> IF request \in successes THEN "success"
                                            ELSE IF request \in failures THEN "failure"
                                            ELSE answer[request]]
      /\ UNCHANGED <<asked, applied, broken>>

Next == Ask \/ Apply \/ Answer

Spec == Init /\ [][Next]_serviceVars
=============================================================================
