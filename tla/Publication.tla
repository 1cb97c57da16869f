---------------------------- MODULE Publication ----------------------------
(***************************************************************************)
(* What one publication promises, however often it tries: the store        *)
(* accepts at most one review of it, the acceptance is its last step, and  *)
(* a publication that reports success has been accepted.  A failure leaves *)
(* open whether it was.  OfficialPublish implements this module, and the   *)
(* steps CreateReview and CreateReviewLost of SourcePipeline are Publish   *)
(* and Lose.                                                               *)
(***************************************************************************)
VARIABLES
  accepted,  \* reviews of this publication that the store has accepted
  outcome    \* what the publication reports

vars == <<accepted, outcome>>

Init == accepted = {} /\ outcome = "running"

Publish ==
  /\ outcome = "running" /\ accepted = {}
  /\ \E review \in accepted' : accepted' = {review}
  /\ outcome' = "published"

\* The store accepted the review, but the answer did not arrive.
Lose ==
  /\ outcome = "running" /\ accepted = {}
  /\ \E review \in accepted' : accepted' = {review}
  /\ outcome' = "failed"

\* Nothing was accepted.
Stop ==
  /\ outcome = "running"
  /\ outcome' \in {"skipped", "paused", "failed"}
  /\ UNCHANGED accepted

Next == Publish \/ Lose \/ Stop

Spec == Init /\ [][Next]_vars
=============================================================================
