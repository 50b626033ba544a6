------------------------------- MODULE Customer -------------------------------
(***************************************************************************)
(* What the agent counts on from a customer's server (README.md:104): it   *)
(* knows every request it is asked to sign, decides it once, whatever is   *)
(* asked how often, and answers with the status that each request has.  A  *)
(* decision changes only by the customer's operators, who may have a       *)
(* request signed again.                                                   *)
(***************************************************************************)
CONSTANTS Requests

VARIABLES
  status,     \* request -> its status, "none" until the customer knows it
  overruled,  \* requests the operators have taken into their hands
  reply       \* the last answer to the agent: what it asked, what it was told

Decisions == {"SIGNED", "FAILED"}
Known == {"PENDING_SIGN"} \cup Decisions
cvars == <<status, overruled, reply>>

Init ==
  /\ status = [r \in Requests |-> "none"]
  /\ overruled = {}
  /\ reply = [asked |-> {}, told |-> [r \in {} |-> "none"]]

(* A request becomes known, and a known one is decided.                    *)
MayBecome(r, s) ==
  /\ s \in Known
  /\ status[r] = "none" \/ (s \in Decisions /\ (status[r] \notin Decisions \/ r \in overruled))

Progress ==
  /\ status' \in [Requests -> {"none"} \cup Known]
  /\ \A r \in Requests : status'[r] = status[r] \/ MayBecome(r, status'[r])
  /\ UNCHANGED <<overruled, reply>>

Overrule ==
  /\ overruled' \in SUBSET Requests /\ overruled \subseteq overruled'
  /\ UNCHANGED <<status, reply>>

(* All of what was asked is answered, as it is now.                        *)
Reply(S) ==
  /\ \A r \in S : status[r] \in Known
  /\ reply' = [asked |-> S, told |-> [r \in S |-> status[r]]]
  /\ UNCHANGED <<status, overruled>>

Next == Progress \/ Overrule \/ \E S \in SUBSET Requests : Reply(S)

Spec == Init /\ [][Next]_cvars

-----------------------------------------------------------------------------
(* However late an answer is read, it is not false: it says that a request *)
(* is pending, or what is still its decision.                              *)
StillTrue ==
  \A r \in reply.asked : reply.told[r] \in {"PENDING_SIGN", status[r]} \/ r \in overruled
=============================================================================
