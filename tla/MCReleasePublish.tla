-------------------------- MODULE MCReleasePublish --------------------------
(***************************************************************************)
(* An instance of ReleasePublish: four jobs of one version, two packages   *)
(* of one commit, one of them packaged twice, and a package of another     *)
(* commit.  Beside it, one of ReviewLookup and one of Changelog.           *)
(*                                                                         *)
(* The three share no state and are checked in one run: a behaviour is one *)
(* of one module, with the variables of the others at rest.                *)
(***************************************************************************)
EXTENDS ReleasePublish, TLC

CONSTANTS
  j1, j2, j3, j4, p1, p2, c1, c2, l1, l2, l3, l4,
  Size, MaxReviews, MaxRemoved,
  Kinds, MaxNotes, MaxCommit, MaxVersion, MaxEvents

VARIABLES
  part,  \* the module whose behaviour this is
  list, matching, last, wanted, page, progress, result, atStart, removed,
  kind, parents, head, tags, config, configured, app, lock, step, candidate, target,
  notes, omits, first, described, omitted, published, events

lookup == <<list, matching, last, wanted, page, progress, result, atStart, removed>>

L == INSTANCE ReviewLookup WITH pc <- progress

C == INSTANCE Changelog WITH pc <- step

ASSUME PartsAssumption == L!ReviewLookupAssumption /\ C!ChangelogAssumption

changes == <<kind, parents, head, tags, config, configured, app, lock, step, candidate,
             target, notes, omits, first, described, omitted, published, events>>

MCVersion == [j \in Jobs |-> 1]
MCPackage == [j \in Jobs |-> IF j = j2 THEN p2 ELSE p1]
MCCommit  == [j \in Jobs |-> IF j = j4 THEN c2 ELSE c1]
MCData    == (j1 :> l1) @@ (j2 :> l2) @@ (j3 :> l3) @@ (j4 :> l4)

\* Every job has failed, at a tag of the developer's.
NoRelease ==
  /\ tag = [v \in Versions |-> Foreign] /\ release = {}
  /\ asset = [v \in Versions |-> [p \in Packages |-> Absent]]
  /\ pc = [j \in Jobs |-> "failed"] /\ failures = 0

\* An application without reviews was looked up.
NoLookup ==
  /\ list = <<>> /\ matching = {} /\ last = 0 /\ wanted = 0 /\ page = 0
  /\ progress = "none" /\ result = 0 /\ atStart = {} /\ removed = {}

\* Nothing was packaged yet.
NoChanges == kind = "branch" /\ configured = TRUE /\ C!Init

PartsInit ==
  \/ part = "release" /\ Init /\ NoLookup /\ NoChanges
  \/ part = "lookup" /\ L!Init /\ NoRelease /\ NoChanges
  \/ part = "notes" /\ C!Init /\ NoRelease /\ NoLookup

PartsNext ==
  /\ UNCHANGED part
  /\ \/ part = "release" /\ Next /\ UNCHANGED <<lookup, changes>>
     \/ part = "lookup" /\ L!Next /\ UNCHANGED <<vars, changes>>
     \/ part = "notes" /\ C!Next /\ UNCHANGED <<vars, lookup>>

PartsSpec ==
  /\ PartsInit /\ [][PartsNext]_<<part, vars, lookup, changes>>
  /\ \A j \in Jobs : /\ WF_vars(part = "release" /\ Request(j))
                     /\ WF_vars(part = "release" /\ Rerun(j))

\* A lookup finds the newest match there is, and overlooks one only when a
\* newer review was removed while it read the pages (module ReviewLookup).
LookupCorrect == part = "lookup" => L!TypeOK /\ L!FoundIsNewest /\ L!OverlookedByRemoval

\* The notes of packaged versions leave no commit out without a reason, and are
\* made once for a version (module Changelog).
NotesCorrect == part = "notes" => C!TypeOK /\ C!EveryCommitDescribed /\ C!OneTextPerVersion

\* A Git source that went back to a release it came from is not packaged with
\* notes made of its commits (module Changelog).
NeverBackwards == C!NeverBackwards
=============================================================================
