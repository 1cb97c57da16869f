--------------------------- MODULE ReleasePublish ---------------------------
(***************************************************************************)
(* The release job of the workflow, scripts/publish-lpk-release.cjs: a tag *)
(* on the packaged commit, a GitHub Release of the tag and the LPK as its  *)
(* asset, each created unless it is there.                                 *)
(*                                                                         *)
(* Jobs of different configurations, and jobs started again beside later   *)
(* runs, work on one repository at the same time; a developer may create   *)
(* a tag or a release by hand.  Any request may fail, also after GitHub    *)
(* has carried it out, and a failed job is started again.  Nobody deletes  *)
(* or moves what was published.                                            *)
(*                                                                         *)
(* An operator whose comment begins with "Bug:" is the definition after    *)
(* it with a mistake that a property notices.                              *)
(***************************************************************************)
EXTENDS Integers

CONSTANTS
  Jobs,        \* release jobs
  Version,     \* application version of each job, which names its tag
  Package,     \* package of each job, which with the version names its asset
  Commit,      \* its packaged commit
  Data,        \* its LPK
  Foreign,     \* a commit or an asset of the developer's
  Absent,      \* no tag, no asset
  MaxFailures  \* bound on the number of requests that fail

Versions == {Version[j] : j \in Jobs}
Packages == {Package[j] : j \in Jobs}
Commits  == {Commit[j] : j \in Jobs} \cup {Foreign}
LPKs     == {Data[j] : j \in Jobs} \cup {Foreign}

ASSUME ReleaseAssumption ==
  /\ MaxFailures \in Nat /\ Absent \notin Commits \cup LPKs
  /\ Foreign \notin {Commit[j] : j \in Jobs} \cup {Data[j] : j \in Jobs}

VARIABLES
  tag,      \* commit of the tag of each version
  release,  \* versions whose tag has a release
  asset,    \* LPK of each package in the release of each version
  pc,       \* next request of each job
  failures

vars == <<tag, release, asset, pc, failures>>
github == <<tag, release, asset>>

Steps == {"getRef", "createRef", "getRelease", "createRelease", "listAssets", "upload"}

Init ==
  /\ tag \in [Versions -> {Absent, Foreign}]
  /\ release \in SUBSET {v \in Versions : tag[v] # Absent}
  /\ asset = [v \in Versions |-> [p \in Packages |-> Absent]]
  /\ pc = [j \in Jobs |-> "getRef"] /\ failures = 0

Goes(j, step) == pc' = [pc EXCEPT ![j] = step]

\* Bug: a tag that is there is used, whatever it names.
GetRefAny(j) ==
  /\ pc[j] = "getRef"
  /\ Goes(j, IF tag[Version[j]] = Absent THEN "createRef" ELSE "getRelease")
  /\ UNCHANGED <<github, failures>>

\* A tag, annotated or not, that is there must name the packaged commit.
GetRef(j) ==
  /\ pc[j] = "getRef"
  /\ Goes(j, CASE tag[Version[j]] = Absent                -> "createRef"
               [] tag[Version[j]] = Commit[j]             -> "getRelease"
               [] tag[Version[j]] \notin {Absent, Commit[j]} -> "failed")
  /\ UNCHANGED <<github, failures>>

\* GitHub refuses to create a tag that is there by now.
CreateRef(j) ==
  /\ pc[j] = "createRef"
  /\ \/ /\ tag[Version[j]] = Absent /\ tag' = [tag EXCEPT ![Version[j]] = Commit[j]]
        /\ Goes(j, "getRelease")
     \/ tag[Version[j]] # Absent /\ UNCHANGED tag /\ Goes(j, "failed")
  /\ UNCHANGED <<release, asset, failures>>

\* Bug: a release is created without looking for one.
GetReleaseNever(j) ==
  pc[j] = "getRelease" /\ Goes(j, "createRelease") /\ UNCHANGED <<github, failures>>

GetRelease(j) ==
  /\ pc[j] = "getRelease"
  /\ Goes(j, IF Version[j] \in release THEN "listAssets" ELSE "createRelease")
  /\ UNCHANGED <<github, failures>>

CreateRelease(j) ==
  /\ pc[j] = "createRelease"
  /\ \/ /\ Version[j] \notin release /\ release' = release \cup {Version[j]}
        /\ Goes(j, "listAssets")
     \/ Version[j] \in release /\ UNCHANGED release /\ Goes(j, "failed")
  /\ UNCHANGED <<tag, asset, failures>>

\* An asset of that name must be the LPK, by its digest or by its bytes.
ListAssets(j) ==
  LET existing == asset[Version[j]][Package[j]]
  IN /\ pc[j] = "listAssets"
     /\ Goes(j, CASE existing = Absent                -> "upload"
                  [] existing = Data[j]               -> "done"
                  [] existing \notin {Absent, Data[j]} -> "failed")
     /\ UNCHANGED <<github, failures>>

\* Bug: an asset that was uploaded meanwhile is replaced.
UploadAnyway(j) ==
  /\ pc[j] = "upload"
  /\ asset' = [asset EXCEPT ![Version[j]][Package[j]] = Data[j]]
  /\ Goes(j, "done") /\ UNCHANGED <<tag, release, failures>>

Upload(j) ==
  /\ pc[j] = "upload"
  /\ \/ /\ asset[Version[j]][Package[j]] = Absent
        /\ asset' = [asset EXCEPT ![Version[j]][Package[j]] = Data[j]]
        /\ Goes(j, "done")
     \/ asset[Version[j]][Package[j]] # Absent /\ UNCHANGED asset /\ Goes(j, "failed")
  /\ UNCHANGED <<tag, release, failures>>

Request(j) ==
  GetRef(j) \/ CreateRef(j) \/ GetRelease(j) \/ CreateRelease(j) \/ ListAssets(j) \/ Upload(j)

\* The request, or its answer, is lost, or the runner is.
RequestLost(j) ==
  /\ pc[j] \in Steps /\ failures < MaxFailures /\ failures' = failures + 1
  /\ Goes(j, "failed")
  /\ \/ UNCHANGED github
     \/ /\ pc[j] = "createRef" /\ tag[Version[j]] = Absent
        /\ tag' = [tag EXCEPT ![Version[j]] = Commit[j]] /\ UNCHANGED <<release, asset>>
     \/ /\ pc[j] = "createRelease" /\ Version[j] \notin release
        /\ release' = release \cup {Version[j]} /\ UNCHANGED <<tag, asset>>
     \/ /\ pc[j] = "upload" /\ asset[Version[j]][Package[j]] = Absent
        /\ asset' = [asset EXCEPT ![Version[j]][Package[j]] = Data[j]] /\ UNCHANGED <<tag, release>>

Rerun(j) == pc[j] = "failed" /\ Goes(j, "getRef") /\ UNCHANGED <<github, failures>>

\* The developer tags a commit, or publishes a release of a tag.
DeveloperTags(v) ==
  /\ tag[v] = Absent /\ tag' = [tag EXCEPT ![v] = Foreign]
  /\ UNCHANGED <<release, asset, pc, failures>>

DeveloperReleases(v) ==
  /\ tag[v] # Absent /\ v \notin release /\ release' = release \cup {v}
  /\ UNCHANGED <<tag, asset, pc, failures>>

DeveloperUploads(v, p) ==
  /\ v \in release /\ asset[v][p] = Absent /\ asset' = [asset EXCEPT ![v][p] = Foreign]
  /\ UNCHANGED <<tag, release, pc, failures>>

Next ==
  \/ \E j \in Jobs : Request(j) \/ RequestLost(j) \/ Rerun(j)
  \/ \E v \in Versions : DeveloperTags(v) \/ DeveloperReleases(v)
  \/ \E v \in Versions, p \in Packages : DeveloperUploads(v, p)

Spec == Init /\ [][Next]_vars /\ \A j \in Jobs : WF_vars(Request(j)) /\ WF_vars(Rerun(j))

---------------------------------------------------------------------------
TypeOK ==
  /\ tag \in [Versions -> Commits \cup {Absent}] /\ release \subseteq Versions
  /\ asset \in [Versions -> [Packages -> LPKs \cup {Absent}]]
  /\ pc \in [Jobs -> Steps \cup {"failed", "done"}] /\ failures \in 0 .. MaxFailures

\* A job that succeeded has published its own commit and its own LPK, and
\* no other job takes them away (README, "Existing conflicting tags or
\* assets are never overwritten").
DoneIsPublished ==
  \A j \in Jobs : pc[j] = "done" =>
    /\ tag[Version[j]] = Commit[j] /\ Version[j] \in release
    /\ asset[Version[j]][Package[j]] = Data[j]

\* Whatever fails, an LPK is never the asset of a release whose tag names a
\* commit it was not packaged from.
AssetIsOfTaggedCommit ==
  \A v \in Versions, p \in Packages :
    asset[v][p] \notin {Absent, Foreign} =>
      \E j \in Jobs : /\ Version[j] = v /\ Package[j] = p
                      /\ Data[j] = asset[v][p] /\ Commit[j] = tag[v]

\* What a job has passed stays as it found it.
Passed ==
  \A j \in Jobs :
    /\ pc[j] \in Steps \ {"getRef", "createRef"} => tag[Version[j]] = Commit[j]
    /\ pc[j] \in {"listAssets", "upload"} => Version[j] \in release

\* The inductive invariant.
ReleaseInv == TypeOK /\ DoneIsPublished /\ AssetIsOfTaggedCommit /\ Passed

\* Something else is published under the version.
Conflict(j) ==
  \/ tag[Version[j]] \notin {Absent, Commit[j]}
  \/ asset[Version[j]][Package[j]] \notin {Absent, Data[j]}

\* What is not published yet of what a job publishes.
Missing(j) ==
  (IF tag[Version[j]] = Absent THEN 1 ELSE 0)
    + (IF Version[j] \in release THEN 0 ELSE 1)
    + (IF asset[Version[j]][Package[j]] = Absent THEN 1 ELSE 0)

\* The job is about to create what is there by now.
Late(j) ==
  \/ pc[j] = "createRef" /\ tag[Version[j]] # Absent
  \/ pc[j] = "createRelease" /\ Version[j] \in release
  \/ pc[j] = "upload" /\ asset[Version[j]][Package[j]] # Absent

\* How far a job is from its end, while nothing happens in between.
Place(j) ==
  LET rank == [failed |-> 5, getRef |-> 4, createRef |-> 3, getRelease |-> 3,
               createRelease |-> 2, listAssets |-> 2, upload |-> 1, done |-> 0]
  IN IF Late(j) THEN 6 ELSE rank[pc[j]]

\* At most so many requests and reruns of a job are left: six for each thing that
\* is missing and for each request that can still be lost, and some by its place.
StepsLeft(j) == 6 * (Missing(j) + (MaxFailures - failures)) + Place(j)

\* Unless something else is published under its version, each request and each
\* rerun of a job brings it nearer to its end, and nothing that other jobs and
\* the developer do takes it back.
RerunsRunOut ==
  [][\A j \in Jobs : ~ Conflict(j) =>
       IF pc'[j] # pc[j] THEN StepsLeft(j)' \in 0 .. StepsLeft(j) - 1
                         ELSE StepsLeft(j)' \in 0 .. StepsLeft(j)]_vars

\* A job that is started again whenever it fails completes what it finds,
\* unless something else is published under its version.
RerunsComplete == \A j \in Jobs : <>(pc[j] = "done" \/ Conflict(j))
=============================================================================
