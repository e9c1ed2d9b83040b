-------------------------------- MODULE Batch --------------------------------
(***************************************************************************)
(* What sending a batch promises: a message gets at most one response and  *)
(* keeps it; the call has one outcome; it resolves with a response for     *)
(* every message, and fails only before anything was sent.  An error of    *)
(* the connection rejects it at any time and leaves a batch that goes on.  *)
(***************************************************************************)
CONSTANTS Msg, Response, NoResponse

VARIABLES response, outcome

Unanswered == [m \in Msg |-> NoResponse]

Init ==
  /\ response = Unanswered
  /\ outcome = "pending"

Answer ==
  /\ response' \in [Msg -> Response \cup {NoResponse}]
  /\ \A m \in Msg : response[m] # NoResponse => response'[m] = response[m]

Resolve ==
  /\ outcome = "pending" /\ outcome' = "resolved"
  /\ \A m \in Msg : response'[m] # NoResponse

RejectWithBatch == outcome = "pending" /\ outcome' = "sessionError"

Fail ==
  /\ outcome = "pending" /\ outcome' = "failed"
  /\ response' = Unanswered

Next == Answer /\ (Resolve \/ RejectWithBatch \/ Fail \/ UNCHANGED outcome)

Spec == Init /\ [][Next]_<<response, outcome>>
=============================================================================
