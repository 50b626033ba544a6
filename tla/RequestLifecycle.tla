-------------------------- MODULE RequestLifecycle --------------------------
(***************************************************************************)
(* What the agent, MAG and the customer's server promise together about    *)
(* each request Fireblocks sends (README.md:10, 104): MAG holds it until   *)
(* the customer has decided it and an answer has been attempted; what is   *)
(* answered is the decision, and a request released is never held again.   *)
(* That every attempt succeeds is not promised (see NoLostResponse of      *)
(* module Delivery, which implements this specification).                  *)
(***************************************************************************)
CONSTANTS Requests

VARIABLES
  held,       \* requests MAG holds, to deliver or waiting for their ack
  decision,   \* the customer's decision of each request
  attempted,  \* requests whose answer the agent has started to send
  published   \* the answers that reached Fireblocks

Decisions == {"SIGNED", "FAILED"}
lvars == <<held, decision, attempted, published>>

Init ==
  /\ held = Requests
  /\ decision = [r \in Requests |-> "undecided"]
  /\ attempted = {}
  /\ published = {}

Decided(r) == decision[r] \in Decisions
Answer(r) == [req |-> r, status |-> decision[r]]

(* One call of the agent may make the customer decide several requests.    *)
Decide(S) ==
  /\ \A r \in S : ~Decided(r)
  /\ \E d \in [S -> Decisions] :
       decision' = [r \in Requests |-> IF r \in S THEN d[r] ELSE decision[r]]
  /\ UNCHANGED <<held, attempted, published>>

Attempt(r) ==
  /\ Decided(r)
  /\ attempted' = attempted \cup {r}
  /\ UNCHANGED <<held, decision, published>>

(* Answers arrive and acks are taken one at a time, but for a crash of the *)
(* agent, after which any part of what it had sent has arrived.            *)
Settle(acked, arrived) ==
  /\ held' = held \ acked
  /\ published' = published \cup {Answer(r) : r \in arrived}
  /\ UNCHANGED <<decision, attempted>>

Next ==
  \/ \E S \in SUBSET Requests : Decide(S)
  \/ \E r \in Requests : Attempt(r)
  \/ \E acked, arrived \in SUBSET attempted : Settle(acked, arrived)

Spec == Init /\ [][Next]_lvars
=============================================================================
