---------------------------- MODULE WireDelivery ----------------------------
(***************************************************************************)
(* What the feed promises of a published message, whatever the queues, the *)
(* lambdas and S3 do in between: it comes to one outcome, for good.        *)
(***************************************************************************)
CONSTANTS
    Messages,     \* the messages that may be published
    Identified    \* those with an external id

VARIABLE status

Outcomes == {"delivered", "quarantined", "dead"}
TypeOK == status \in [Messages -> Outcomes \union {"unpublished", "pending"}]

Init == status = [m \in Messages |-> "unpublished"]

Publish(m) ==
    /\ status[m] = "unpublished"
    /\ status' = [status EXCEPT ![m] = "pending"]

\* Pending messages come to their outcomes.  Only a message with an external
\* id is delivered to the database, only one without is quarantined.
Settle(S) ==
    /\ S # {}
    /\ \A m \in S : status[m] = "pending"
    /\ \E outcome \in [S -> Outcomes] :
          /\ \A m \in S : outcome[m] = "delivered" => m \in Identified
          /\ \A m \in S : outcome[m] = "quarantined" => m \notin Identified
          /\ status' = [m \in Messages |-> IF m \in S THEN outcome[m] ELSE status[m]]

Next == (\E m \in Messages : Publish(m)) \/ (\E S \in SUBSET Messages : Settle(S))

Spec == Init /\ [][Next]_status

EventuallySettled ==
    \A m \in Messages : status[m] = "pending" ~> status[m] \in Outcomes
=============================================================================
