-------------------------- MODULE SubmissionLedger --------------------------
(***************************************************************************)
(* What the pipeline promises about submissions, whatever its runs, its    *)
(* lock file and its failures look like: a source is submitted once, and   *)
(* again only after its review was rejected and an operator granted one    *)
(* retry.  SourcePipeline implements this module.                          *)
(***************************************************************************)
CONSTANT Source

VARIABLES
  submitted,  \* sources with a review
  rejected,   \* sources whose last review was rejected
  granted     \* sources an operator granted a retry that is not used yet

vars == <<submitted, rejected, granted>>

\* Sources may have been submitted before the pipeline kept history.
Init ==
  /\ submitted \subseteq Source
  /\ rejected \subseteq submitted
  /\ granted = {}

Submit(s) ==
  /\ s \notin submitted \/ (s \in rejected /\ s \in granted)
  /\ submitted' = submitted \cup {s}
  /\ rejected' = rejected \ {s}
  /\ granted' = granted \ {s}

\* Only a review that waits can be rejected; its source is not granted a retry.
Reject(s) ==
  /\ s \in submitted /\ s \notin granted
  /\ rejected' = rejected \cup {s}
  /\ UNCHANGED <<submitted, granted>>

Grant(s) ==
  /\ s \in rejected
  /\ granted' = granted \cup {s}
  /\ UNCHANGED <<submitted, rejected>>

Next == \E s \in Source : Submit(s) \/ Reject(s) \/ Grant(s)

Spec == Init /\ [][Next]_vars
=============================================================================
