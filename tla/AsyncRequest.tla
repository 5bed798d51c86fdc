---------------------------- MODULE AsyncRequest ----------------------------
(***************************************************************************)
(* What an asynchronous request promises its caller, whatever carries it   *)
(* out: a request is issued once, and is then refused at once, or          *)
(* answered once, or abandoned for good.  Nothing is answered that was not *)
(* issued or that was refused, and no answer is followed by another.       *)
(***************************************************************************)
CONSTANT Requests

VARIABLE status     \* "new", "issued", "answered", "refused" or "abandoned"

Init == status = [r \in Requests |-> "new"]

Move(r, from, to) == status[r] = from /\ status' = [status EXCEPT ![r] = to]

Issue(r)   == Move(r, "new", "issued")

Refuse(r)  == Move(r, "issued", "refused")

Answer(r)  == Move(r, "issued", "answered")

(* The caller dies, or the answer cannot reach it: several requests can be *)
(* abandoned together, and one that never began is abandoned with them.    *)
Abandon(S) ==
  /\ \A r \in S : status[r] \in {"new", "issued"}
  /\ status' = [r \in Requests |-> IF r \in S THEN "abandoned" ELSE status[r]]

Next ==
  \/ \E r \in Requests : Issue(r) \/ Refuse(r) \/ Answer(r)
  \/ \E S \in SUBSET Requests : Abandon(S)

Spec == Init /\ [][Next]_status

(* The outcome of a request is final: no second answer, no answer after a  *)
(* refusal and none to a caller that is gone.                              *)
OutcomeIsFinal ==
  [][\A r \in Requests : status[r] \in {"answered", "refused", "abandoned"} =>
                            status'[r] = status[r]]_status
=============================================================================
