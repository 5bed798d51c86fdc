---------------------------- MODULE UserConsent ----------------------------
(***************************************************************************)
(* What RequestRight promises its callers, as a server that asks the user: *)
(* it serves one call at a time, asks the user at most once per call and   *)
(* for that call only, answers no call while it is displaying the question *)
(* and does not deny a call that the user allowed, unless the call is      *)
(* excused.  Others (a detach, a dead host, a removed record) may excuse   *)
(* calls in any step.                                                      *)
(***************************************************************************)
CONSTANTS
  Requests,
  None       \* no call

VARIABLES
  phase,     \* of each call
  shown,     \* the call the user is being asked about, or None
  allowed,   \* calls the user has allowed
  excused    \* calls that may be denied all the same

consentVars == <<phase, shown, allowed, excused>>

Init ==
  /\ phase = [r \in Requests |-> "new"]
  /\ shown = None
  /\ allowed = {}
  /\ excused = {}

Excusing == excused \subseteq excused' /\ excused' \subseteq Requests

Move(r, from, to) ==
  /\ phase[r] \in from
  /\ phase' = [phase EXCEPT ![r] = to]

(* The right is there already.                                             *)
AtOnce(r) ==
  /\ Move(r, {"new"}, "granted")
  /\ Excusing
  /\ UNCHANGED <<shown, allowed>>

Queue(r) ==
  /\ Move(r, {"new"}, "queued")
  /\ Excusing
  /\ UNCHANGED <<shown, allowed>>

InService(r) == phase[r] \in {"served", "asked"}

Serve(r) ==
  /\ \A q \in Requests : ~InService(q)
  /\ Move(r, {"queued"}, "served")
  /\ Excusing
  /\ UNCHANGED <<shown, allowed>>

(* The user is asked, unless the question fails to be displayed.           *)
Ask(r) ==
  /\ Move(r, {"served"}, "asked")
  /\ shown' \in {r, None}
  /\ Excusing
  /\ UNCHANGED allowed

Allow(r) ==
  /\ shown = r
  /\ allowed' = allowed \union {r}
  /\ Excusing
  /\ UNCHANGED <<phase, shown>>

Hide ==
  /\ shown' = None
  /\ Excusing
  /\ UNCHANGED <<phase, allowed>>

Excuse ==
  /\ Excusing
  /\ UNCHANGED <<phase, shown, allowed>>

Finish(r, verdict) ==
  /\ shown = None
  /\ Move(r, {"served", "asked"}, verdict)
  /\ Excusing
  /\ verdict = "denied" /\ r \in allowed => r \in excused'
  /\ UNCHANGED <<shown, allowed>>

Next ==
  \/ \E r \in Requests :
        \/ AtOnce(r) \/ Queue(r) \/ Serve(r) \/ Ask(r) \/ Allow(r)
        \/ Finish(r, "granted") \/ Finish(r, "denied")
  \/ Hide \/ Excuse

Spec == Init /\ [][Next]_consentVars

(* One call is in service, and it is the one the user is asked about.      *)
OneInService ==
  /\ \A q, r \in Requests : InService(q) /\ InService(r) => q = r
  /\ shown # None => shown \in Requests /\ phase[shown] = "asked"

(* A call the user allowed is not denied, unless it is excused.            *)
AllowedNotDenied ==
  \A r \in Requests : phase[r] = "denied" /\ r \in allowed => r \in excused
=============================================================================
