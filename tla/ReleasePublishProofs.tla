------------------------ MODULE ReleasePublishProofs ------------------------
(***************************************************************************)
(* Proofs about ReleasePublish for any number of jobs, packages, versions  *)
(* and failures, and about the modules that are checked beside it:         *)
(* ReviewLookup for any number of reviews on any number of pages, and      *)
(* Changelog for any history of the upstream.                              *)
(*                                                                         *)
(* All steps of the release jobs change GitHub in one of four ways, of     *)
(* which none takes back what a job has passed: nothing, a tag that was    *)
(* absent, a release, or an asset that was absent.                         *)
(***************************************************************************)
EXTENDS MCReleasePublish, SequenceTheorems, FiniteSetTheorems, TLAPS

-----------------------------------------------------------------------------
\* The commit of a job is a commit, and no tag that is absent names it; its
\* LPK is an LPK and none of the developer's.
LEMMA JobTypes ==
  ASSUME NEW j \in Jobs
  PROVE  /\ Version[j] \in Versions /\ Package[j] \in Packages
         /\ Commit[j] \in Commits /\ Commit[j] # Absent
         /\ Data[j] \in LPKs /\ Data[j] # Absent /\ Data[j] # Foreign
BY ReleaseAssumption DEF Versions, Packages, Commits, LPKs

LEMMA InvInit == Init => ReleaseInv
<1> SUFFICES ASSUME Init PROVE ReleaseInv
  OBVIOUS
<1>1. TypeOK
  BY ReleaseAssumption DEF Init, TypeOK, Commits, LPKs, Steps
<1>2. DoneIsPublished /\ Passed
  BY DEF Init, DoneIsPublished, Passed
<1>3. AssetIsOfTaggedCommit
  BY DEF Init, AssetIsOfTaggedCommit
<1> QED BY <1>1, <1>2, <1>3 DEF ReleaseInv

-----------------------------------------------------------------------------
\* A step that publishes nothing keeps the invariant when the job it moves
\* has passed what its new place in the program says.
LEMMA GoesKeeps ==
  ASSUME ReleaseInv, UNCHANGED <<github>>, NEW j \in Jobs, NEW goal \in Steps \cup {"failed", "done"},
         Goes(j, goal), failures' \in 0 .. MaxFailures,
         goal \in (Steps \ {"getRef", "createRef"}) \cup {"done"} => tag[Version[j]] = Commit[j],
         goal \in {"listAssets", "upload", "done"} => Version[j] \in release,
         goal = "done" => asset[Version[j]][Package[j]] = Data[j]
  PROVE  ReleaseInv'
<1> USE DEF ReleaseInv, github
<1>1. TypeOK'
  BY DEF TypeOK, Goes
<1>2. pc' = [pc EXCEPT ![j] = goal] /\ pc \in [Jobs -> Steps \cup {"failed", "done"}]
  BY DEF Goes, TypeOK
<1>3. DoneIsPublished'
  BY <1>2 DEF DoneIsPublished
<1>4. Passed'
  BY <1>2 DEF Passed
<1>5. AssetIsOfTaggedCommit'
  BY DEF AssetIsOfTaggedCommit
<1> QED BY <1>1, <1>3, <1>4, <1>5

\* A tag that was absent may be made; no job has passed it, and no asset is
\* under it.
LEMMA TagKeeps ==
  ASSUME ReleaseInv, NEW v \in Versions, tag[v] = Absent, NEW c \in Commits,
         tag' = [tag EXCEPT ![v] = c], UNCHANGED <<release, asset>>,
         failures' \in 0 .. MaxFailures,
         \/ UNCHANGED pc
         \/ \E j \in Jobs, goal \in {"getRelease", "failed"} :
              /\ Goes(j, goal) /\ Version[j] = v
              /\ goal = "getRelease" => Commit[j] = c
  PROVE  ReleaseInv'
<1> USE DEF ReleaseInv
<1>0. /\ tag \in [Versions -> Commits \cup {Absent}]
      /\ pc \in [Jobs -> Steps \cup {"failed", "done"}]
  BY DEF TypeOK
<1>1. TypeOK'
  BY <1>0 DEF TypeOK, Goes, Steps
<1>2. ASSUME NEW k \in Jobs, tag[Version[k]] = Commit[k]
      PROVE  tag'[Version[k]] = Commit[k]
  BY <1>0, <1>2, JobTypes
<1>3. \A k \in Jobs : pc'[k] = pc[k] \/ pc'[k] = "failed"
                        \/ (pc'[k] = "getRelease" /\ tag'[Version[k]] = Commit[k])
  BY <1>0 DEF Goes
<1>4. DoneIsPublished'
  BY <1>2, <1>3 DEF DoneIsPublished
<1>5. Passed'
  BY <1>2, <1>3 DEF Passed, Steps
<1>6. AssetIsOfTaggedCommit'
  <2> SUFFICES ASSUME NEW w \in Versions, NEW p \in Packages, asset[w][p] \notin {Absent, Foreign}
               PROVE  \E j \in Jobs : /\ Version[j] = w /\ Package[j] = p
                                      /\ Data[j] = asset[w][p] /\ Commit[j] = tag'[w]
    BY DEF AssetIsOfTaggedCommit
  <2>1. PICK j \in Jobs : /\ Version[j] = w /\ Package[j] = p
                          /\ Data[j] = asset[w][p] /\ Commit[j] = tag[w]
    BY DEF AssetIsOfTaggedCommit
  <2> QED BY <2>1, <1>2
<1> QED BY <1>1, <1>4, <1>5, <1>6

\* A release more takes nothing back.
LEMMA ReleaseKeeps ==
  ASSUME ReleaseInv, NEW v \in Versions, release' = release \cup {v}, UNCHANGED <<tag, asset>>,
         failures' \in 0 .. MaxFailures,
         \/ UNCHANGED pc
         \/ \E j \in Jobs, goal \in {"listAssets", "failed"} :
              /\ Goes(j, goal) /\ Version[j] = v
              /\ goal = "listAssets" => tag[v] = Commit[j]
  PROVE  ReleaseInv'
<1> USE DEF ReleaseInv
<1>0. pc \in [Jobs -> Steps \cup {"failed", "done"}]
  BY DEF TypeOK
<1>1. TypeOK'
  BY <1>0 DEF TypeOK, Goes, Steps
<1>2. \A k \in Jobs : pc'[k] = pc[k] \/ pc'[k] = "failed"
                        \/ (pc'[k] = "listAssets" /\ Version[k] = v /\ tag[v] = Commit[k])
  BY <1>0 DEF Goes
<1>3. DoneIsPublished' /\ Passed'
  BY <1>2 DEF DoneIsPublished, Passed, Steps
<1>4. AssetIsOfTaggedCommit'
  BY DEF AssetIsOfTaggedCommit
<1> QED BY <1>1, <1>3, <1>4

\* An asset that was absent may be uploaded under the tag of its commit.
LEMMA UploadKeeps ==
  ASSUME ReleaseInv, NEW v \in Versions, NEW p \in Packages, NEW d \in LPKs,
         asset[v][p] = Absent, asset' = [asset EXCEPT ![v][p] = d], UNCHANGED <<tag, release>>,
         failures' \in 0 .. MaxFailures,
         \/ UNCHANGED pc /\ d = Foreign
         \/ \E j \in Jobs, goal \in {"done", "failed"} :
              /\ Goes(j, goal) /\ Version[j] = v /\ Package[j] = p /\ Data[j] = d
              /\ tag[v] = Commit[j] /\ v \in release
  PROVE  ReleaseInv'
<1> USE DEF ReleaseInv
<1>0. /\ pc \in [Jobs -> Steps \cup {"failed", "done"}]
      /\ asset \in [Versions -> [Packages -> LPKs \cup {Absent}]]
  BY DEF TypeOK
<1>1. asset' \in [Versions -> [Packages -> LPKs \cup {Absent}]]
  BY <1>0
<1>2. TypeOK'
  BY <1>0, <1>1 DEF TypeOK, Goes, Steps
<1>3. \A w \in Versions, q \in Packages :
        asset'[w][q] = IF w = v /\ q = p THEN d ELSE asset[w][q]
  BY <1>0
<1>4. \A k \in Jobs : \/ pc'[k] = pc[k] \/ pc'[k] = "failed"
                      \/ /\ pc'[k] = "done" /\ Version[k] = v /\ Package[k] = p /\ Data[k] = d
                         /\ tag[v] = Commit[k] /\ v \in release
  BY <1>0 DEF Goes
<1>5. DoneIsPublished'
  BY <1>3, <1>4, JobTypes DEF DoneIsPublished
<1>6. Passed'
  BY <1>4 DEF Passed, Steps
<1>7. AssetIsOfTaggedCommit'
  BY <1>3 DEF AssetIsOfTaggedCommit
<1> QED BY <1>2, <1>5, <1>6, <1>7

-----------------------------------------------------------------------------
\* Every request of a job keeps the invariant.
LEMMA RequestKeeps ==
  ASSUME ReleaseInv, NEW j \in Jobs, Request(j)
  PROVE  ReleaseInv'
<1> USE JobTypes DEF Steps
<1>0. failures \in 0 .. MaxFailures
  BY DEF ReleaseInv, TypeOK
<1>p. /\ pc[j] \in Steps \ {"getRef", "createRef"} => tag[Version[j]] = Commit[j]
      /\ pc[j] \in {"listAssets", "upload"} => Version[j] \in release
  BY DEF ReleaseInv, Passed
<1>1. CASE GetRef(j)
  BY <1>0, <1>1, GoesKeeps DEF GetRef, github
<1>2. CASE CreateRef(j)
  <2>1. CASE tag[Version[j]] = Absent /\ tag' = [tag EXCEPT ![Version[j]] = Commit[j]]
               /\ Goes(j, "getRelease")
    BY <1>0, <1>2, <2>1, TagKeeps DEF CreateRef
  <2>2. CASE UNCHANGED tag /\ Goes(j, "failed")
    BY <1>0, <1>2, <2>2, GoesKeeps DEF CreateRef, github
  <2> QED BY <1>2, <2>1, <2>2 DEF CreateRef
<1>3. CASE GetRelease(j)
  BY <1>0, <1>p, <1>3, GoesKeeps DEF GetRelease, github
<1>4. CASE CreateRelease(j)
  <2>1. CASE release' = release \cup {Version[j]} /\ Goes(j, "listAssets")
    BY <1>0, <1>p, <1>4, <2>1, ReleaseKeeps DEF CreateRelease
  <2>2. CASE UNCHANGED release /\ Goes(j, "failed")
    BY <1>0, <1>4, <2>2, GoesKeeps DEF CreateRelease, github
  <2> QED BY <1>4, <2>1, <2>2 DEF CreateRelease
<1>5. CASE ListAssets(j)
  BY <1>0, <1>p, <1>5, GoesKeeps DEF ListAssets, github
<1>6. CASE Upload(j)
  <2>1. CASE asset[Version[j]][Package[j]] = Absent
               /\ asset' = [asset EXCEPT ![Version[j]][Package[j]] = Data[j]] /\ Goes(j, "done")
    BY <1>0, <1>p, <1>6, <2>1, UploadKeeps DEF Upload
  <2>2. CASE UNCHANGED asset /\ Goes(j, "failed")
    BY <1>0, <1>6, <2>2, GoesKeeps DEF Upload, github
  <2> QED BY <1>6, <2>1, <2>2 DEF Upload
<1> QED BY <1>1, <1>2, <1>3, <1>4, <1>5, <1>6 DEF Request

\* A request that is lost may have been carried out.
LEMMA LostKeeps ==
  ASSUME ReleaseInv, NEW j \in Jobs, RequestLost(j)
  PROVE  ReleaseInv'
<1> USE JobTypes DEF Steps
<1>0. failures' \in 0 .. MaxFailures /\ Goes(j, "failed")
  BY ReleaseAssumption DEF ReleaseInv, TypeOK, RequestLost
<1>p. pc[j] = "upload" => tag[Version[j]] = Commit[j] /\ Version[j] \in release
  BY DEF ReleaseInv, Passed
<1>1. CASE UNCHANGED github
  BY <1>0, <1>1, GoesKeeps
<1>2. CASE /\ tag[Version[j]] = Absent /\ tag' = [tag EXCEPT ![Version[j]] = Commit[j]]
           /\ UNCHANGED <<release, asset>>
  BY <1>0, <1>2, TagKeeps
<1>3. CASE release' = release \cup {Version[j]} /\ UNCHANGED <<tag, asset>>
  BY <1>0, <1>3, ReleaseKeeps
<1>4. CASE /\ pc[j] = "upload" /\ asset[Version[j]][Package[j]] = Absent
           /\ asset' = [asset EXCEPT ![Version[j]][Package[j]] = Data[j]] /\ UNCHANGED <<tag, release>>
  BY <1>0, <1>p, <1>4, UploadKeeps
<1> QED BY <1>1, <1>2, <1>3, <1>4 DEF RequestLost

\* The developer creates what is not there.
LEMMA DeveloperKeeps ==
  ASSUME ReleaseInv,
         \/ \E v \in Versions : DeveloperTags(v) \/ DeveloperReleases(v)
         \/ \E v \in Versions, p \in Packages : DeveloperUploads(v, p)
  PROVE  ReleaseInv'
<1>0. Foreign \in Commits /\ Foreign \in LPKs /\ failures \in 0 .. MaxFailures
  BY DEF Commits, LPKs, ReleaseInv, TypeOK
<1>1. ASSUME NEW v \in Versions, DeveloperTags(v) PROVE ReleaseInv'
  BY <1>0, <1>1, TagKeeps DEF DeveloperTags
<1>2. ASSUME NEW v \in Versions, DeveloperReleases(v) PROVE ReleaseInv'
  BY <1>0, <1>2, ReleaseKeeps DEF DeveloperReleases
<1>3. ASSUME NEW v \in Versions, NEW p \in Packages, DeveloperUploads(v, p) PROVE ReleaseInv'
  BY <1>0, <1>3, UploadKeeps DEF DeveloperUploads
<1> QED BY <1>1, <1>2, <1>3

LEMMA InvNext == ReleaseInv /\ [Next]_vars => ReleaseInv'
<1> SUFFICES ASSUME ReleaseInv, [Next]_vars PROVE ReleaseInv'
  OBVIOUS
<1>1. ASSUME NEW j \in Jobs, Rerun(j) PROVE ReleaseInv'
  <2>1. failures' \in 0 .. MaxFailures /\ Goes(j, "getRef") /\ UNCHANGED github
    BY <1>1 DEF Rerun, ReleaseInv, TypeOK
  <2> QED BY <2>1, GoesKeeps DEF Steps
<1>2. CASE UNCHANGED vars
  BY <1>2 DEF vars, ReleaseInv, TypeOK, DoneIsPublished, AssetIsOfTaggedCommit, Passed
<1> QED BY <1>1, <1>2, RequestKeeps, LostKeeps, DeveloperKeeps DEF Next

-----------------------------------------------------------------------------
\* What a job has passed stays, whatever other jobs, reruns, lost requests
\* and the developer do.
THEOREM ReleaseInvariant == Spec => []ReleaseInv
<1>1. Init => ReleaseInv
  BY InvInit
<1>2. ReleaseInv /\ [Next]_vars => ReleaseInv'
  BY InvNext
<1> QED BY <1>1, <1>2, PTL DEF Spec

\* A job that succeeded has published its own commit and LPK, for good.
THEOREM PublishedForGood == Spec => []DoneIsPublished
<1>1. ReleaseInv => DoneIsPublished
  BY DEF ReleaseInv
<1> QED BY <1>1, ReleaseInvariant, PTL

\* An LPK is never under the tag of a commit it was not packaged from.
THEOREM AssetsMatchTags == Spec => []AssetIsOfTaggedCommit
<1>1. ReleaseInv => AssetIsOfTaggedCommit
  BY DEF ReleaseInv
<1> QED BY <1>1, ReleaseInvariant, PTL

-----------------------------------------------------------------------------
(* The number of requests and reruns.                                      *)

\* Nothing that is published is taken back, and failures are counted.
LEMMA NothingTaken ==
  ASSUME ReleaseInv, [Next]_vars, NEW k \in Jobs
  PROVE  /\ tag[Version[k]] # Absent => tag'[Version[k]] # Absent
         /\ Version[k] \in release => Version[k] \in release'
         /\ asset[Version[k]][Package[k]] # Absent => asset'[Version[k]][Package[k]] # Absent
         /\ failures <= failures'
<1> DEFINE Kept == /\ tag[Version[k]] # Absent => tag'[Version[k]] # Absent
                   /\ Version[k] \in release => Version[k] \in release'
                   /\ asset[Version[k]][Package[k]] # Absent => asset'[Version[k]][Package[k]] # Absent
<1>1. /\ tag \in [Versions -> Commits \cup {Absent}]
      /\ asset \in [Versions -> [Packages -> LPKs \cup {Absent}]]
      /\ failures \in Nat
  BY ReleaseAssumption DEF ReleaseInv, TypeOK
<1>2. Foreign # Absent
  BY ReleaseAssumption DEF Commits
<1>3. Version[k] \in Versions /\ Package[k] \in Packages
  BY JobTypes
<1>4. ASSUME NEW v \in Versions, NEW c, c # Absent, tag' = [tag EXCEPT ![v] = c],
             UNCHANGED <<release, asset>>
      PROVE  Kept
  BY <1>1, <1>3, <1>4
<1>5. ASSUME NEW v \in Versions, release' = release \cup {v}, UNCHANGED <<tag, asset>>
      PROVE  Kept
  BY <1>5
<1>6. ASSUME NEW v \in Versions, NEW p \in Packages, NEW d, d # Absent,
             asset' = [asset EXCEPT ![v][p] = d], UNCHANGED <<tag, release>>
      PROVE  Kept
  <2>1. \A w \in Versions, q \in Packages :
          asset'[w][q] = IF w = v /\ q = p THEN d ELSE asset[w][q]
    BY <1>1, <1>6
  <2> QED BY <1>3, <1>6, <2>1
<1>7. UNCHANGED <<github>> => Kept
  BY DEF github
<1> HIDE DEF Kept
<1>8. ASSUME NEW j \in Jobs, Request(j)
      PROVE  Kept /\ failures' = failures
  <2>1. /\ Version[j] \in Versions /\ Package[j] \in Packages
        /\ Commit[j] # Absent /\ Data[j] # Absent
    BY JobTypes
  <2>2. CASE UNCHANGED <<github, failures>>
    BY <1>7, <2>2
  <2>3. CASE CreateRef(j)
    BY <1>4, <1>7, <2>1, <2>3 DEF CreateRef, github
  <2>4. CASE CreateRelease(j)
    BY <1>5, <1>7, <2>1, <2>4 DEF CreateRelease, github
  <2>5. CASE Upload(j)
    BY <1>6, <1>7, <2>1, <2>5 DEF Upload, github
  <2> QED
    BY <1>8, <2>2, <2>3, <2>4, <2>5 DEF Request, GetRef, GetRelease, ListAssets
<1>9. ASSUME NEW j \in Jobs, RequestLost(j)
      PROVE  Kept /\ failures' = failures + 1
  BY <1>4, <1>5, <1>6, <1>7, <1>9, JobTypes DEF RequestLost
<1>10. ASSUME NEW j \in Jobs, Rerun(j)
       PROVE  Kept /\ failures' = failures
  BY <1>7, <1>10 DEF Rerun
<1>11. ASSUME NEW v \in Versions, DeveloperTags(v) \/ DeveloperReleases(v)
       PROVE  Kept /\ failures' = failures
  BY <1>2, <1>4, <1>5, <1>11 DEF DeveloperTags, DeveloperReleases
<1>12. ASSUME NEW v \in Versions, NEW p \in Packages, DeveloperUploads(v, p)
       PROVE  Kept /\ failures' = failures
  BY <1>2, <1>6, <1>12 DEF DeveloperUploads
<1>13. UNCHANGED vars => Kept /\ failures' = failures
  BY <1>7 DEF vars, github
<1>14. Kept /\ failures <= failures'
  BY <1>1, <1>8, <1>9, <1>10, <1>11, <1>12, <1>13 DEF Next
<1> QED BY <1>14 DEF Kept

\* A job moves only by its own requests and reruns.
LEMMA MovesItself ==
  ASSUME ReleaseInv, [Next]_vars, NEW k \in Jobs, pc'[k] # pc[k]
  PROVE  Request(k) \/ RequestLost(k) \/ Rerun(k)
<1>1. pc \in [Jobs -> Steps \cup {"failed", "done"}]
  BY DEF ReleaseInv, TypeOK
<1>2. ASSUME NEW j \in Jobs, Request(j) \/ RequestLost(j) \/ Rerun(j) PROVE j = k
  <2>1. \E goal : Goes(j, goal)
    BY <1>2 DEF Request, GetRef, CreateRef, GetRelease, CreateRelease, ListAssets, Upload,
                RequestLost, Rerun
  <2> QED BY <1>1, <2>1 DEF Goes
<1>3. PICK j \in Jobs : Request(j) \/ RequestLost(j) \/ Rerun(j)
  BY DEF Next, vars, DeveloperTags, DeveloperReleases, DeveloperUploads
<1> QED BY <1>2, <1>3

\* A job and its reruns end, unless something else is published under its
\* version: each request brings it nearer to done, whatever the other jobs and
\* the developer publish in between (getRef, getRelease, the asset list).
THEOREM RerunsDoRunOut == Spec => RerunsRunOut
<1>1. ASSUME ReleaseInv, ReleaseInv', [Next]_vars, NEW k \in Jobs, ~ Conflict(k)
      PROVE  IF pc'[k] # pc[k] THEN StepsLeft(k)' \in 0 .. StepsLeft(k) - 1
                               ELSE StepsLeft(k)' \in 0 .. StepsLeft(k)
  <2>1. /\ MaxFailures \in Nat /\ failures \in 0 .. MaxFailures /\ failures' \in 0 .. MaxFailures
        /\ pc[k] \in Steps \cup {"failed", "done"} /\ pc'[k] \in Steps \cup {"failed", "done"}
        /\ pc \in [Jobs -> Steps \cup {"failed", "done"}]
    BY <1>1, ReleaseAssumption DEF ReleaseInv, TypeOK
  <2>2. /\ tag[Version[k]] # Absent => tag'[Version[k]] # Absent
        /\ Version[k] \in release => Version[k] \in release'
        /\ asset[Version[k]][Package[k]] # Absent => asset'[Version[k]][Package[k]] # Absent
        /\ failures <= failures'
    BY <1>1, NothingTaken
  <2>3. Missing(k) \in 0 .. 3 /\ Missing(k)' \in 0 .. Missing(k)
    BY <2>2 DEF Missing
  <2>4. /\ Place(k) \in 0 .. 6 /\ (pc[k] # "done" => Place(k) > 0)
        /\ Place(k)' \in 0 .. 6
    BY <2>1 DEF Place, Late, Steps
  <2>5. ASSUME Place(k)' < Place(k) \/ Missing(k)' < Missing(k) \/ failures' > failures,
               pc[k] # "done"
        PROVE  StepsLeft(k)' \in 0 .. StepsLeft(k) - 1
    <3> DEFINE m == Missing(k) + (MaxFailures - failures)
               n == Missing(k)' + (MaxFailures - failures')
    <3>1. m \in Nat /\ n \in Nat /\ n <= m
      BY <2>1, <2>2, <2>3
    <3>2. StepsLeft(k) = 6 * m + Place(k) /\ StepsLeft(k)' = 6 * n + Place(k)'
      BY DEF StepsLeft
    <3>3. n < m \/ Place(k)' < Place(k)
      BY <2>1, <2>2, <2>3, <2>5
    <3> HIDE DEF m, n
    <3> QED BY <2>4, <2>5, <3>1, <3>2, <3>3
  <2>6. CASE pc'[k] = pc[k]
    <3>1. Late(k)' => Late(k) \/ Missing(k)' < Missing(k)
      BY <2>2, <2>6 DEF Late, Missing
    <3>2. Late(k) => Late(k)'
      BY <2>2, <2>6 DEF Late
    <3>3. CASE Missing(k)' < Missing(k) /\ pc[k] # "done"
      <4>1. StepsLeft(k)' \in 0 .. StepsLeft(k) - 1
        BY <2>5, <3>3
      <4>2. StepsLeft(k) \in Int
        BY <2>1, <2>3, <2>4 DEF StepsLeft
      <4> QED BY <2>6, <4>1, <4>2
    <3>4. CASE (Late(k)' <=> Late(k)) \/ pc[k] = "done"
      <4>1. Place(k)' = Place(k)
        BY <2>6, <3>4 DEF Place, Late
      <4> DEFINE m == Missing(k) + (MaxFailures - failures)
                 n == Missing(k)' + (MaxFailures - failures')
      <4>2. m \in Nat /\ n \in Nat /\ n <= m
        BY <2>1, <2>2, <2>3
      <4>3. StepsLeft(k) = 6 * m + Place(k) /\ StepsLeft(k)' = 6 * n + Place(k)'
        BY DEF StepsLeft
      <4> HIDE DEF m, n
      <4> QED BY <2>4, <2>6, <4>1, <4>2, <4>3
    <3> QED BY <3>1, <3>2, <3>3, <3>4
  <2>7. CASE pc'[k] # pc[k]
    <3>1. Request(k) \/ RequestLost(k) \/ Rerun(k)
      BY <1>1, <2>7, MovesItself
    <3>2. pc[k] # "done"
      BY <3>1 DEF Request, GetRef, CreateRef, GetRelease, CreateRelease, ListAssets, Upload,
                  RequestLost, Rerun, Steps
    <3>3. CASE RequestLost(k)
      <4>1. failures' > failures
        BY <2>1, <3>3 DEF RequestLost
      <4> QED BY <2>5, <2>7, <3>2, <4>1
    <3>4. \A goal : Goes(k, goal) => pc'[k] = goal
      BY <2>1 DEF Goes
    <3>5. CASE Rerun(k)
      <4>1. Place(k)' < Place(k)
        BY <3>4, <3>5 DEF Rerun, Place, Late
      <4> QED BY <2>5, <2>7, <3>2, <4>1
    <3>6. CASE GetRef(k)
      <4>1. Place(k)' < Place(k)
        BY <1>1, <3>4, <3>6 DEF GetRef, github, Place, Late, Conflict
      <4> QED BY <2>5, <2>7, <3>2, <4>1
    <3>7. CASE CreateRef(k)
      <4>1. tag[Version[k]] = Absent => tag'[Version[k]] # Absent
        BY <1>1, <3>7, JobTypes DEF CreateRef, ReleaseInv, TypeOK
      <4>2. CASE tag[Version[k]] = Absent
        BY <2>2, <2>5, <2>7, <3>2, <4>1, <4>2 DEF Missing
      <4>3. CASE tag[Version[k]] # Absent
        <5>1. Place(k)' < Place(k)
          BY <3>4, <3>7, <4>3 DEF CreateRef, Place, Late
        <5> QED BY <2>5, <2>7, <3>2, <5>1
      <4> QED BY <4>2, <4>3
    <3>8. CASE GetRelease(k)
      <4>1. Place(k)' < Place(k)
        BY <3>4, <3>8 DEF GetRelease, github, Place, Late
      <4> QED BY <2>5, <2>7, <3>2, <4>1
    <3>9. CASE CreateRelease(k)
      <4>1. CASE Version[k] \notin release
        <5>1. Version[k] \in release'
          BY <3>9, <4>1 DEF CreateRelease
        <5> QED BY <2>2, <2>5, <2>7, <3>2, <4>1, <5>1 DEF Missing
      <4>2. CASE Version[k] \in release
        <5>1. Place(k)' < Place(k)
          BY <3>4, <3>9, <4>2 DEF CreateRelease, Place, Late
        <5> QED BY <2>5, <2>7, <3>2, <5>1
      <4> QED BY <4>1, <4>2
    <3>10. CASE ListAssets(k)
      <4>1. Place(k)' < Place(k)
        BY <1>1, <3>4, <3>10 DEF ListAssets, github, Place, Late, Conflict
      <4> QED BY <2>5, <2>7, <3>2, <4>1
    <3>11. CASE Upload(k)
      <4>1. CASE asset[Version[k]][Package[k]] = Absent
        <5>1. Place(k)' < Place(k)
          BY <3>4, <3>11, <4>1 DEF Upload, Place, Late
        <5> QED BY <2>5, <2>7, <3>2, <5>1
      <4>2. CASE asset[Version[k]][Package[k]] # Absent
        <5>1. Place(k)' < Place(k)
          BY <3>4, <3>11, <4>2 DEF Upload, Place, Late
        <5> QED BY <2>5, <2>7, <3>2, <5>1
      <4> QED BY <4>1, <4>2
    <3> QED
      BY <3>1, <3>3, <3>5, <3>6, <3>7, <3>8, <3>9, <3>10, <3>11 DEF Request
  <2> QED BY <2>6, <2>7
<1>2. ReleaseInv /\ ReleaseInv' /\ [Next]_vars =>
        [\A j \in Jobs : ~ Conflict(j) =>
           IF pc'[j] # pc[j] THEN StepsLeft(j)' \in 0 .. StepsLeft(j) - 1
                             ELSE StepsLeft(j)' \in 0 .. StepsLeft(j)]_vars
  BY <1>1
<1> QED BY <1>2, ReleaseInvariant, PTL DEF Spec, RerunsRunOut


-----------------------------------------------------------------------------
(* The lookup of a review, whose list is on the places of a sequence.      *)

\* A list without one of its places: later ones move up by one.
LEMMA Removed ==
  ASSUME NEW S, NEW s \in Seq(S), NEW at \in 1 .. Len(s)
  PROVE  LET t == SubSeq(s, 1, at - 1) \o SubSeq(s, at + 1, Len(s))
         IN  /\ t \in Seq(S) /\ Len(t) = Len(s) - 1 /\ DOMAIN t = 1 .. (Len(s) - 1)
             /\ \A k \in 1 .. (Len(s) - 1) : t[k] = IF k < at THEN s[k] ELSE s[k + 1]
<1> DEFINE n == Len(s)
           left == SubSeq(s, 1, at - 1)
           right == SubSeq(s, at + 1, n)
           t == left \o right
<1>1. n \in Nat /\ n = Len(s) /\ \A k \in 1 .. n : s[k] \in S
  BY ElementOfSeq
<1> HIDE DEF n
<1>2. at \in 1 .. n
  BY <1>1
<1>3. /\ left \in Seq(S) /\ Len(left) = at - 1
      /\ \A k \in 1 .. (at - 1) : left[k] = s[k]
  <2>1. \A k \in 1 .. (at - 1) : s[k] \in S
    BY <1>1, <1>2
  <2> QED BY <1>2, <2>1, SubSeqProperties
<1>4. /\ right \in Seq(S) /\ Len(right) = n - at
      /\ \A k \in 1 .. (n - at) : right[k] = s[at + k]
  <2>1. \A k \in (at + 1) .. n : s[k] \in S
    BY <1>1, <1>2
  <2>2. /\ right \in Seq(S)
        /\ Len(right) = IF at + 1 <= n THEN n - (at + 1) + 1 ELSE 0
        /\ \A k \in 1 .. (n - (at + 1) + 1) : right[k] = s[at + 1 + k - 1]
    BY <1>1, <1>2, <2>1, SubSeqProperties
  <2> HIDE DEF right
  <2>3. Len(right) = n - at
    BY <1>1, <1>2, <2>2
  <2>4. ASSUME NEW k \in 1 .. (n - at) PROVE right[k] = s[at + k]
    <3>1. k \in 1 .. (n - (at + 1) + 1) /\ at + 1 + k - 1 = at + k
      BY <1>1, <1>2
    <3> QED BY <2>2, <3>1
  <2> QED BY <2>2, <2>3, <2>4
<1> HIDE DEF left, right
<1>5. /\ t \in Seq(S) /\ Len(t) = Len(left) + Len(right)
      /\ \A k \in 1 .. Len(left) + Len(right) :
           t[k] = IF k <= Len(left) THEN left[k] ELSE right[k - Len(left)]
  BY <1>3, <1>4, ConcatProperties
<1> HIDE DEF t
<1>6. Len(t) = n - 1 /\ DOMAIN t = 1 .. (n - 1)
  BY <1>1, <1>2, <1>3, <1>4, <1>5
<1>7. ASSUME NEW k \in 1 .. (n - 1)
      PROVE  t[k] = IF k < at THEN s[k] ELSE s[k + 1]
  <2>1. k \in 1 .. Len(left) + Len(right)
    BY <1>1, <1>2, <1>3, <1>4
  <2>2. CASE k < at
    <3>1. k <= Len(left) /\ k \in 1 .. (at - 1)
      BY <1>1, <1>2, <1>3, <2>2
    <3> QED BY <1>3, <1>5, <2>1, <2>2, <3>1
  <2>3. CASE ~(k < at)
    <3>1. ~(k <= Len(left)) /\ k - Len(left) = k - at + 1
      BY <1>1, <1>2, <1>3, <2>3
    <3>2. k - at + 1 \in 1 .. (n - at) /\ at + (k - at + 1) = k + 1
      BY <1>1, <1>2, <2>3
    <3> QED BY <1>4, <1>5, <2>1, <2>3, <3>1, <3>2
  <2> QED BY <2>2, <2>3
<1> QED BY <1>1, <1>5, <1>6, <1>7 DEF t, left, right, n

\* A list that something is put before.
LEMMA Prepended ==
  ASSUME NEW S, NEW s \in Seq(S), NEW e \in S
  PROVE  LET t == <<e>> \o s
         IN  /\ t \in Seq(S) /\ Len(t) = Len(s) + 1 /\ DOMAIN t = 1 .. (Len(s) + 1)
             /\ \A k \in 1 .. (Len(s) + 1) : t[k] = IF k = 1 THEN e ELSE s[k - 1]
<1> PICK one : one = <<e>>
  OBVIOUS
<1>1. one \in Seq(S) /\ Len(one) = 1 /\ one[1] = e
  OBVIOUS
<1>2. PICK t : t = one \o s
  OBVIOUS
<1>3. /\ t \in Seq(S) /\ Len(t) = 1 + Len(s)
      /\ \A k \in 1 .. 1 + Len(s) : t[k] = IF k <= 1 THEN one[k] ELSE s[k - 1]
  BY <1>1, <1>2, ConcatProperties
<1>4. Len(s) \in Nat
  OBVIOUS
<1>5. Len(t) = Len(s) + 1 /\ DOMAIN t = 1 .. (Len(s) + 1)
  BY <1>3, <1>4
<1>6. ASSUME NEW k \in 1 .. (Len(s) + 1)
      PROVE  t[k] = IF k = 1 THEN e ELSE s[k - 1]
  BY <1>1, <1>3, <1>4
<1> QED BY <1>2, <1>3, <1>5, <1>6

\* A list of different ids has no more places than there are ids.
LEMMA Places ==
  ASSUME MaxReviews \in Nat, L!TypeOK, L!NewestFirst(list)
  PROVE  /\ Len(list) \in 0 .. MaxReviews /\ DOMAIN list = 1 .. Len(list)
         /\ \A k \in 1 .. Len(list) : list[k] \in 1 .. MaxReviews
<1> DEFINE n == Len(list)
<1>1. list \in Seq(1 .. MaxReviews)
  BY DEF L!TypeOK, L!Ids
<1>2. n \in Nat /\ DOMAIN list = 1 .. n /\ list \in [1 .. n -> 1 .. MaxReviews]
  BY <1>1, LenProperties
<1> HIDE DEF n
<1>3. \A j, k \in 1 .. n : list[j] = list[k] => j = k
  BY <1>2 DEF L!NewestFirst
<1>4. list \in Injection(1 .. n, 1 .. MaxReviews)
  BY <1>2, <1>3 DEF Injection, IsInjective
<1>5. IsFiniteSet(1 .. MaxReviews) /\ Cardinality(1 .. MaxReviews) = MaxReviews
  BY FS_Interval
<1>6. Cardinality(1 .. n) = n
  BY <1>2, FS_Interval
<1>7. n <= MaxReviews
  BY <1>4, <1>5, <1>6, FS_Injection
<1> QED BY <1>2, <1>7 DEF n


LEMMA LookupInit ==
  ASSUME L!ReviewLookupAssumption, L!Init
  PROVE  L!LookupInv
<1>1. PICK n \in 0 .. MaxReviews : list \in [1 .. n -> L!Ids] /\ L!NewestFirst(list)
  BY DEF L!Init
<1>2. /\ MaxReviews \in Nat /\ Size \in Nat \ {0} /\ n \in Nat
      /\ list \in Seq(L!Ids) /\ DOMAIN list = 1 .. n /\ Len(list) = n
      /\ \A k \in 1 .. n : list[k] \in 1 .. MaxReviews
  BY <1>1 DEF L!ReviewLookupAssumption, L!Ids
<1>3. /\ atStart = {list[k] : k \in DOMAIN list} /\ removed = {} /\ matching \subseteq atStart
      /\ wanted \in {0} \cup atStart /\ page = 0 /\ progress = "reading" /\ result = 0
      /\ last = IF list = <<>> THEN 0 ELSE list[1]
  BY DEF L!Init
<1>4. last \in 0 .. MaxReviews
  BY <1>2, <1>3
<1>5. \A k \in 1 .. n : list[k] <= last
  <2> SUFFICES ASSUME NEW k \in 1 .. n PROVE list[k] <= last
    OBVIOUS
  <2>1. last = list[1] /\ 1 \in 1 .. n
    BY <1>2, <1>3
  <2> QED BY <1>1, <1>2, <2>1 DEF L!NewestFirst
<1>6. atStart \subseteq 1 .. MaxReviews /\ \A id \in atStart : id <= last
  BY <1>2, <1>3, <1>5
<1>7. L!TypeOK
  BY <1>2, <1>3, <1>4, <1>6 DEF L!TypeOK, L!Ids
<1>8. \A k \in DOMAIN list : ~(k <= page * Size)
  BY <1>2, <1>3
<1>9. L!FoundIsNewest /\ L!OverlookedByRemoval
  BY <1>3 DEF L!FoundIsNewest, L!OverlookedByRemoval
<1> QED BY <1>1, <1>2, <1>3, <1>5, <1>6, <1>7, <1>8, <1>9 DEF L!LookupInv

\* A request and its answer: the newest match of the page is the newest there
\* is, since no older page had one; on the last page every place has been read.
LEMMA ReadPageKeeps ==
  ASSUME L!ReviewLookupAssumption, L!LookupInv, L!ReadPage
  PROVE  L!LookupInv'
<1> DEFINE here == page * Size
           n == Len(list)
           hits == {k \in L!Items(page) : L!Matches(list[k])}
<1>1. /\ L!TypeOK /\ L!NewestFirst(list) /\ MaxReviews \in Nat /\ Size \in Nat \ {0} /\ page \in Nat
  BY DEF L!LookupInv, L!TypeOK, L!ReviewLookupAssumption
<1>2. /\ n \in 0 .. MaxReviews /\ DOMAIN list = 1 .. n
      /\ \A k \in 1 .. n : list[k] \in 1 .. MaxReviews
  BY <1>1, Places
<1>3. here \in Nat /\ (page + 1) * Size = here + Size
  BY <1>1
<1> HIDE DEF here
<1>4. L!Items(page) = {k \in 1 .. n : here + 1 <= k /\ k <= here + Size}
  BY <1>1, <1>2, <1>3 DEF L!Items, here
<1>5. L!Ends(page) => n <= here + Size
  <2>1. CASE L!Items(page) = {}
    <3>1. here < n => here + 1 \in L!Items(page)
      BY <1>1, <1>2, <1>3, <1>4
    <3> QED BY <1>1, <1>2, <1>3, <2>1, <3>1
  <2>2. CASE (page + 1) * Size >= Len(list)
    BY <1>1, <1>2, <1>3, <2>2
  <2> QED BY <2>1, <2>2 DEF L!Ends
<1>6. ~L!Ends(page) => here + Size < n
  BY <1>1, <1>2, <1>3 DEF L!Ends
<1>7. /\ progress = "reading"
      /\ UNCHANGED <<list, matching, last, wanted, atStart, removed>>
      /\ \/ \E k \in hits : /\ \A h \in hits : k <= h
                            /\ progress' = "found" /\ result' = list[k] /\ UNCHANGED page
         \/ hits = {} /\ L!Ends(page) /\ progress' = "none" /\ UNCHANGED <<page, result>>
         \/ hits = {} /\ ~L!Ends(page) /\ page' = page + 1 /\ UNCHANGED <<progress, result>>
  BY DEF L!ReadPage
<1>8. /\ L!Looked' = L!Looked /\ \A id : L!Matches(id)' <=> L!Matches(id)
  BY <1>7 DEF L!Looked, L!Matches
<1>9. /\ \A id \in atStart \ removed : \E k \in 1 .. n : list[k] = id
      /\ \A k \in 1 .. n : list[k] \in L!Looked \ removed /\ k <= here =>
           \E gone \in removed : gone > list[k]
  BY <1>2, <1>7 DEF L!LookupInv, here
<1>10. hits = {k \in 1 .. n : here + 1 <= k /\ k <= here + Size /\ L!Matches(list[k])}
  BY <1>4
<1> HIDE DEF hits
<1>11. /\ L!NewestFirst(list)' /\ \A k \in DOMAIN list' : list'[k] <= last'
       /\ \A id \in atStart' : id <= last'
       /\ \A id \in atStart' \ removed' : \E k \in DOMAIN list' : list'[k] = id
  BY <1>7 DEF L!LookupInv, L!NewestFirst
<1>12. CASE \E k \in hits : /\ \A h \in hits : k <= h
                            /\ progress' = "found" /\ result' = list[k] /\ UNCHANGED page
  <2>1. PICK k \in hits : /\ \A h \in hits : k <= h
                          /\ progress' = "found" /\ result' = list[k] /\ UNCHANGED page
    BY <1>12
  <2>2. k \in 1 .. n /\ L!Matches(list[k])
    BY <1>10
  <2>3. ASSUME removed = {}, NEW id \in L!Looked PROVE id <= list[k]
    <3>1. id \in atStart \ removed /\ L!Matches(id)
      BY <2>3 DEF L!Looked
    <3>2. PICK m \in 1 .. n : list[m] = id
      BY <1>9, <3>1
    <3>3. ~(m <= here)
      BY <1>9, <2>3, <3>1, <3>2
    <3>4. m <= here + Size => m \in hits
      BY <1>1, <1>2, <1>3, <1>10, <3>1, <3>2, <3>3
    <3>5. k <= m
      BY <1>1, <1>2, <1>3, <1>10, <2>1, <3>3, <3>4
    <3>6. k < m => list[k] > list[m]
      BY <1>1, <1>2, <2>2 DEF L!NewestFirst
    <3>7. list[k] \in Nat /\ list[m] \in Nat
      BY <1>2, <2>2
    <3> QED BY <1>2, <2>2, <3>2, <3>5, <3>6, <3>7
  <2>4. L!TypeOK'
    BY <1>1, <1>2, <1>7, <2>1, <2>2 DEF L!TypeOK
  <2>5. L!FoundIsNewest'
    BY <1>7, <1>8, <2>1, <2>2, <2>3 DEF L!FoundIsNewest
  <2>6. L!OverlookedByRemoval'
    BY <2>1 DEF L!OverlookedByRemoval
  <2> QED BY <1>11, <2>1, <2>4, <2>5, <2>6 DEF L!LookupInv
<1>13. CASE hits = {} /\ L!Ends(page) /\ progress' = "none" /\ UNCHANGED <<page, result>>
  <2>1. L!TypeOK'
    BY <1>1, <1>7, <1>13 DEF L!TypeOK
  <2>2. L!FoundIsNewest'
    BY <1>13 DEF L!FoundIsNewest
  <2>3. ASSUME NEW id \in L!Looked \ removed PROVE \E gone \in removed : gone > id
    <3>1. id \in atStart \ removed /\ L!Matches(id)
      BY DEF L!Looked
    <3>2. PICK m \in 1 .. n : list[m] = id
      BY <1>9, <3>1
    <3>3. m <= here
      BY <1>1, <1>2, <1>3, <1>5, <1>10, <1>13, <3>1, <3>2
    <3> QED BY <1>9, <3>2, <3>3
  <2>4. L!OverlookedByRemoval'
    BY <1>7, <1>8, <2>3 DEF L!OverlookedByRemoval
  <2> QED BY <1>11, <1>13, <2>1, <2>2, <2>4 DEF L!LookupInv
<1>14. CASE hits = {} /\ ~L!Ends(page) /\ page' = page + 1 /\ UNCHANGED <<progress, result>>
  <2>1. page' * Size = here + Size /\ here + Size < MaxReviews
    BY <1>1, <1>2, <1>3, <1>6, <1>14
  <2>2. L!TypeOK'
    BY <1>1, <1>7, <1>14, <2>1 DEF L!TypeOK
  <2>3. L!FoundIsNewest' /\ L!OverlookedByRemoval'
    BY <1>7, <1>14 DEF L!FoundIsNewest, L!OverlookedByRemoval
  <2>4. ASSUME NEW k \in 1 .. n, list[k] \in L!Looked \ removed, k <= here + Size
        PROVE  \E gone \in removed : gone > list[k]
    <3>1. L!Matches(list[k])
      BY <2>4 DEF L!Looked
    <3>2. k <= here
      BY <1>1, <1>2, <1>3, <1>10, <1>14, <2>4, <3>1
    <3> QED BY <1>9, <2>4, <3>2
  <2>5. \A k \in DOMAIN list' : list'[k] \in (L!Looked \ removed)' /\ k <= page' * Size =>
          \E gone \in removed' : gone > list'[k]
    BY <1>2, <1>7, <1>8, <2>1, <2>4
  <2> QED BY <1>11, <2>2, <2>3, <2>5 DEF L!LookupInv
<1> QED BY <1>7, <1>12, <1>13, <1>14


\* A new review moves all others down by one place and is none that the
\* lookup is about.
LEMMA SubmitKeeps ==
  ASSUME L!ReviewLookupAssumption, L!LookupInv, NEW matches \in BOOLEAN, L!Submit(matches)
  PROVE  L!LookupInv'
<1> DEFINE n == Len(list)
<1>1. /\ L!TypeOK /\ L!NewestFirst(list) /\ MaxReviews \in Nat /\ Size \in Nat \ {0} /\ page \in Nat
      /\ last \in Nat /\ last < MaxReviews /\ list \in Seq(1 .. MaxReviews)
  BY DEF L!LookupInv, L!TypeOK, L!ReviewLookupAssumption, L!Submit, L!Ids
<1>2. /\ n \in 0 .. MaxReviews /\ DOMAIN list = 1 .. n
      /\ \A k \in 1 .. n : list[k] \in 1 .. MaxReviews /\ list[k] <= last
  BY <1>1, Places DEF L!LookupInv
<1>3. /\ last' = last + 1 /\ list' = <<last + 1>> \o list
      /\ matching' = IF matches THEN matching \cup {last + 1} ELSE matching
      /\ UNCHANGED <<wanted, page, progress, result, atStart, removed>>
  BY DEF L!Submit
<1>4. last + 1 \in 1 .. MaxReviews
  BY <1>1
<1>5. /\ list' \in Seq(1 .. MaxReviews) /\ DOMAIN list' = 1 .. (n + 1)
      /\ \A k \in 1 .. (n + 1) : list'[k] = IF k = 1 THEN last + 1 ELSE list[k - 1]
  BY <1>1, <1>3, <1>4, Prepended
<1> HIDE DEF n
<1>6. L!TypeOK'
  BY <1>1, <1>3, <1>4, <1>5 DEF L!TypeOK, L!Ids
<1>7. L!NewestFirst(list)'
  <2> SUFFICES ASSUME NEW j \in 1 .. (n + 1), NEW k \in 1 .. (n + 1), j < k
               PROVE  list'[j] > list'[k]
    BY <1>5 DEF L!NewestFirst
  <2>1. k - 1 \in 1 .. n /\ list'[k] = list[k - 1] /\ list[k - 1] <= last /\ list[k - 1] \in Nat
    BY <1>2, <1>5
  <2>2. CASE j = 1
    BY <1>1, <1>5, <2>1, <2>2
  <2>3. CASE j # 1
    <3>1. j - 1 \in 1 .. n /\ list'[j] = list[j - 1] /\ j - 1 < k - 1
      BY <1>2, <1>5, <2>3
    <3>2. list[j - 1] > list[k - 1]
      BY <1>1, <1>2, <2>1, <3>1 DEF L!NewestFirst
    <3> QED BY <2>1, <3>1, <3>2
  <2> QED BY <2>2, <2>3
<1>8. \A k \in DOMAIN list' : list'[k] <= last'
  BY <1>1, <1>2, <1>3, <1>5
<1>9. atStart \subseteq 1 .. MaxReviews /\ \A id \in atStart : id <= last
  BY DEF L!LookupInv, L!TypeOK, L!Ids
<1>10. \A id \in atStart : L!Matches(id)' <=> L!Matches(id)
  BY <1>1, <1>3, <1>9 DEF L!Matches
<1>11. L!Looked' = L!Looked
  BY <1>3, <1>10 DEF L!Looked
<1>12. \A id \in atStart' \ removed' : \E k \in DOMAIN list' : list'[k] = id
  <2> SUFFICES ASSUME NEW id \in atStart \ removed PROVE \E k \in 1 .. (n + 1) : list'[k] = id
    BY <1>3, <1>5
  <2>1. PICK k \in 1 .. n : list[k] = id
    BY <1>2 DEF L!LookupInv
  <2>2. k + 1 \in 1 .. (n + 1) /\ list'[k + 1] = list[k]
    BY <1>2, <1>5
  <2> QED BY <2>1, <2>2
<1>13. progress' = "reading" =>
         \A k \in DOMAIN list' : list'[k] \in (L!Looked \ removed)' /\ k <= page' * Size =>
           \E gone \in removed' : gone > list'[k]
  <2> DEFINE here == page * Size
  <2>1. here \in Nat
    BY <1>1
  <2> HIDE DEF here
  <2> SUFFICES ASSUME progress = "reading", NEW k \in 1 .. (n + 1),
                      list'[k] \in L!Looked \ removed, k <= here
               PROVE  \E gone \in removed : gone > list'[k]
    BY <1>3, <1>5, <1>11 DEF here
  <2>2. k # 1
    BY <1>1, <1>5, <1>9 DEF L!Looked
  <2>3. k - 1 \in 1 .. n /\ list'[k] = list[k - 1] /\ k - 1 <= here
    BY <1>2, <1>5, <2>1, <2>2
  <2> QED BY <1>2, <2>3 DEF L!LookupInv, here
<1>14. L!FoundIsNewest'
  <2> SUFFICES ASSUME progress = "found"
               PROVE  L!Matches(result)' /\ (removed = {} => \A id \in L!Looked : id <= result)
    BY <1>3, <1>11 DEF L!FoundIsNewest
  <2>1. L!Matches(result) /\ (removed = {} => \A id \in L!Looked : id <= result)
    BY DEF L!LookupInv, L!FoundIsNewest
  <2>2. L!Matches(result)'
    BY <1>3, <2>1 DEF L!Matches
  <2> QED BY <2>1, <2>2
<1>15. L!OverlookedByRemoval'
  BY <1>3, <1>11 DEF L!OverlookedByRemoval, L!LookupInv
<1>16. \A id \in atStart' : id <= last'
  <2> SUFFICES ASSUME NEW id \in atStart PROVE id <= last + 1
    BY <1>3
  <2> QED BY <1>1, <1>9
<1> QED BY <1>6, <1>7, <1>8, <1>12, <1>13, <1>14, <1>15, <1>16 DEF L!LookupInv

\* A review that leaves the list moves up the places behind it, whose ids are
\* smaller than its own.
LEMMA WithdrawKeeps ==
  ASSUME L!ReviewLookupAssumption, L!LookupInv, NEW at \in DOMAIN list, L!Withdraw(at)
  PROVE  L!LookupInv'
<1> DEFINE n == Len(list)
<1>1. /\ L!TypeOK /\ L!NewestFirst(list) /\ MaxReviews \in Nat /\ Size \in Nat \ {0} /\ page \in Nat
      /\ list \in Seq(1 .. MaxReviews) /\ removed \subseteq 1 .. MaxReviews
  BY DEF L!LookupInv, L!TypeOK, L!ReviewLookupAssumption, L!Ids
<1>2. /\ n \in 0 .. MaxReviews /\ DOMAIN list = 1 .. n
      /\ \A k \in 1 .. n : list[k] \in 1 .. MaxReviews /\ list[k] <= last
  BY <1>1, Places DEF L!LookupInv
<1>3. /\ list' = SubSeq(list, 1, at - 1) \o SubSeq(list, at + 1, Len(list))
      /\ removed' = removed \cup {list[at]}
      /\ UNCHANGED <<matching, last, wanted, page, progress, result, atStart>>
  BY DEF L!Withdraw, L!RemoveAt
<1>4. at \in 1 .. n
  BY <1>2
<1>5. /\ list' \in Seq(1 .. MaxReviews) /\ DOMAIN list' = 1 .. (n - 1)
      /\ \A k \in 1 .. (n - 1) : list'[k] = IF k < at THEN list[k] ELSE list[k + 1]
  BY <1>1, <1>3, <1>4, Removed
<1> HIDE DEF n
<1>6. L!TypeOK'
  BY <1>1, <1>2, <1>3, <1>4, <1>5 DEF L!TypeOK, L!Ids
<1>7. L!NewestFirst(list)'
  <2> SUFFICES ASSUME NEW j \in 1 .. (n - 1), NEW k \in 1 .. (n - 1), j < k
               PROVE  list'[j] > list'[k]
    BY <1>5 DEF L!NewestFirst
  <2>1. \A a, b \in 1 .. n : a < b => list[a] > list[b]
    BY <1>1, <1>2 DEF L!NewestFirst
  <2>2. /\ j \in 1 .. n /\ j + 1 \in 1 .. n /\ k \in 1 .. n /\ k + 1 \in 1 .. n
        /\ {j, k, n, at} \subseteq Nat
    BY <1>2, <1>4
  <2>3. /\ list'[j] = IF j < at THEN list[j] ELSE list[j + 1]
        /\ list'[k] = IF k < at THEN list[k] ELSE list[k + 1]
    BY <1>5
  <2>4. CASE k < at
    <3>1. list'[j] = list[j] /\ list'[k] = list[k]
      BY <2>2, <2>3, <2>4
    <3> QED BY <2>1, <2>2, <3>1
  <2>5. CASE j < at /\ ~(k < at)
    <3>1. list'[j] = list[j] /\ list'[k] = list[k + 1] /\ j < k + 1
      BY <2>2, <2>3, <2>5
    <3> QED BY <2>1, <2>2, <3>1
  <2>6. CASE ~(j < at) /\ ~(k < at)
    <3>1. list'[j] = list[j + 1] /\ list'[k] = list[k + 1] /\ j + 1 < k + 1
      BY <2>2, <2>3, <2>6
    <3> QED BY <2>1, <2>2, <3>1
  <2> QED BY <2>2, <2>4, <2>5, <2>6
<1>8. \A k \in DOMAIN list' : list'[k] <= last'
  <2> SUFFICES ASSUME NEW k \in 1 .. (n - 1) PROVE list'[k] <= last
    BY <1>3, <1>5
  <2>1. k \in 1 .. n /\ k + 1 \in 1 .. n
    BY <1>2
  <2> QED BY <1>2, <1>5, <2>1
<1>9. \A id \in atStart' : id <= last'
  BY <1>3 DEF L!LookupInv
<1>10. L!Looked' = L!Looked /\ (L!Matches(result)' <=> L!Matches(result))
  BY <1>3 DEF L!Looked, L!Matches
<1>11. \A id \in atStart' \ removed' : \E k \in DOMAIN list' : list'[k] = id
  <2> SUFFICES ASSUME NEW id \in atStart \ removed, id # list[at]
               PROVE  \E k \in 1 .. (n - 1) : list'[k] = id
    BY <1>3, <1>5
  <2>1. PICK k \in 1 .. n : list[k] = id
    BY <1>2 DEF L!LookupInv
  <2>2. CASE k < at
    BY <1>2, <1>4, <1>5, <2>1, <2>2
  <2>3. CASE k > at
    <3>1. k - 1 \in 1 .. (n - 1) /\ list'[k - 1] = list[k]
      BY <1>2, <1>4, <1>5, <2>3
    <3> QED BY <2>1, <3>1
  <2> QED BY <1>2, <1>4, <2>1, <2>2, <2>3
<1>12. progress' = "reading" =>
         \A k \in DOMAIN list' : list'[k] \in (L!Looked \ removed)' /\ k <= page' * Size =>
           \E gone \in removed' : gone > list'[k]
  <2> DEFINE here == page * Size
  <2>1. here \in Nat
    BY <1>1
  <2> HIDE DEF here
  <2> SUFFICES ASSUME progress = "reading", NEW k \in 1 .. (n - 1),
                      list'[k] \in L!Looked \ removed, k <= here
               PROVE  \E gone \in removed' : gone > list'[k]
    BY <1>3, <1>5, <1>10 DEF here
  <2>2. CASE k < at
    <3>1. k \in 1 .. n /\ list'[k] = list[k]
      BY <1>2, <1>5, <2>2
    <3> QED BY <1>2, <1>3, <3>1 DEF L!LookupInv, here
  <2>3. CASE ~(k < at)
    <3>1. k + 1 \in 1 .. n /\ list'[k] = list[k + 1] /\ at < k + 1
      BY <1>2, <1>4, <1>5, <2>3
    <3>2. list[at] > list[k + 1]
      BY <1>1, <1>2, <1>4, <3>1 DEF L!NewestFirst
    <3> QED BY <1>3, <3>1, <3>2
  <2> QED BY <2>2, <2>3
<1>13. L!FoundIsNewest'
  BY <1>3, <1>10 DEF L!FoundIsNewest, L!LookupInv
<1>14. L!OverlookedByRemoval'
  BY <1>3, <1>10 DEF L!OverlookedByRemoval, L!LookupInv
<1> QED BY <1>6, <1>7, <1>8, <1>9, <1>11, <1>12, <1>13, <1>14 DEF L!LookupInv

LEMMA LookupNext ==
  ASSUME L!ReviewLookupAssumption, L!LookupInv, L!Next \/ UNCHANGED lookup
  PROVE  L!LookupInv'
<1>1. CASE L!RequestFails
  BY <1>1 DEF L!RequestFails, L!LookupInv, L!TypeOK, L!NewestFirst, L!FoundIsNewest,
              L!OverlookedByRemoval, L!Looked, L!Matches
<1>2. CASE UNCHANGED lookup
  BY <1>2 DEF lookup, L!LookupInv, L!TypeOK, L!NewestFirst, L!FoundIsNewest,
              L!OverlookedByRemoval, L!Looked, L!Matches
<1> QED BY <1>1, <1>2, ReadPageKeeps, SubmitKeeps, WithdrawKeeps DEF L!Next

-----------------------------------------------------------------------------
\* A behaviour of the lookup keeps its invariant.
THEOREM LookupInvariant == PartsSpec => [](part = "lookup" => L!LookupInv)
<1>1. L!ReviewLookupAssumption
  BY PartsAssumption
<1>2. PartsInit => (part = "lookup" => L!LookupInv)
  BY <1>1, LookupInit DEF PartsInit
<1>3. /\ part = "lookup" => L!LookupInv
      /\ [PartsNext]_<<part, vars, lookup, changes>>
      => (part = "lookup" => L!LookupInv)'
  <2> SUFFICES ASSUME part = "lookup" => L!LookupInv, part' = "lookup",
                      [PartsNext]_<<part, vars, lookup, changes>>
               PROVE  L!LookupInv'
    OBVIOUS
  <2>1. part = "lookup" /\ (L!Next \/ UNCHANGED lookup)
    BY DEF PartsNext
  <2> QED BY <1>1, <2>1, LookupNext
<1> QED BY <1>2, <1>3, PTL DEF PartsSpec

\* A lookup that says it found the newest review of a version has found it, and
\* one that says there is none has overlooked at most what the removal of a
\* newer review moved to a page it had read.
THEOREM LookupsAreSound == PartsSpec => []LookupCorrect
<1>1. (part = "lookup" => L!LookupInv) => LookupCorrect
  BY DEF LookupCorrect, L!LookupInv
<1> QED BY <1>1, LookupInvariant, PTL

-----------------------------------------------------------------------------
(* The notes of packages.                                                  *)

LEMMA SameCardinality == \A S : C!Cardinality(S) = Cardinality(S)
BY DEF C!Cardinality, Cardinality

LEMMA IntervalSize ==
  ASSUME NEW m \in Nat
  PROVE  Cardinality(1 .. m) = m
<1>1. 1 \in Int /\ m \in Int /\ (1 > m => m = 0) /\ m - 1 + 1 = m
  OBVIOUS
<1>2. Cardinality(1 .. m) = IF 1 > m THEN 0 ELSE m - 1 + 1
  BY <1>1, FS_Interval, Zenon
<1> QED BY <1>1, <1>2

LEMMA Numbers ==
  /\ MaxNotes \in Nat \ {0} /\ C!Commits \subseteq Nat \ {0} /\ C!Versions \subseteq Nat \ {0}
  /\ \A S \in (SUBSET C!Commits) \cup (SUBSET C!Versions) :
       S \in SUBSET Nat /\ IsFiniteSet(S) /\ Cardinality(S) \in Nat
<1>1. /\ MaxNotes \in Nat \ {0} /\ MaxCommit \in Nat /\ MaxVersion \in Nat
      /\ C!Commits = 1 .. MaxCommit /\ C!Versions = 1 .. MaxVersion
  BY PartsAssumption DEF C!ChangelogAssumption, C!Commits, C!Versions
<1>2. IsFiniteSet(C!Commits) /\ IsFiniteSet(C!Versions)
  BY <1>1, FS_Interval
<1>3. C!Commits \subseteq Nat \ {0} /\ C!Versions \subseteq Nat \ {0}
  BY <1>1
<1>4. ASSUME NEW S \in (SUBSET C!Commits) \cup (SUBSET C!Versions)
      PROVE  S \in SUBSET Nat /\ IsFiniteSet(S) /\ Cardinality(S) \in Nat
  <2>1. IsFiniteSet(S)
    BY <1>2, FS_Subset
  <2> QED BY <1>3, <2>1, FS_CardinalityType
<1> QED BY <1>1, <1>3, <1>4

\* How many are not below a number counts the numbers from the last one.
LEMMA Ranks ==
  ASSUME NEW S \in SUBSET Nat, IsFiniteSet(S)
  PROVE  /\ \A n \in S : Cardinality({d \in S : d >= n}) \in 1 .. Cardinality(S)
         /\ \A n, m \in S :
              Cardinality({d \in S : d >= n}) = Cardinality({d \in S : d >= m}) => n = m
<1> DEFINE From(n) == {d \in S : d >= n}
<1>1. Cardinality(S) \in Nat
  BY FS_CardinalityType
<1>2. ASSUME NEW n \in S
      PROVE  /\ IsFiniteSet(From(n)) /\ n \in From(n)
             /\ Cardinality(From(n)) \in 1 .. Cardinality(S)
  <2>1. From(n) \in SUBSET S /\ n \in From(n)
    OBVIOUS
  <2>2. IsFiniteSet(From(n)) /\ Cardinality(From(n)) <= Cardinality(S)
    BY <2>1, FS_Subset
  <2>3. Cardinality(From(n)) \in Nat /\ Cardinality(From(n)) # 0
    BY <2>1, <2>2, FS_CardinalityType, FS_EmptySet
  <2> HIDE DEF From
  <2> QED BY <1>1, <2>1, <2>2, <2>3
<1>3. ASSUME NEW n \in S, NEW m \in S, n < m
      PROVE  Cardinality(From(m)) < Cardinality(From(n))
  <2>1. From(m) \in SUBSET (From(n) \ {n})
    <3>1. S \in SUBSET Nat /\ n \in Nat /\ m \in Nat
      OBVIOUS
    <3>2. \A d \in From(m) : d \in From(n) /\ d # n
      BY <1>3, <3>1
    <3> HIDE DEF From
    <3> QED BY <3>2
  <2>2. IsFiniteSet(From(n) \ {n}) /\ Cardinality(From(n) \ {n}) = Cardinality(From(n)) - 1
    BY <1>2, FS_RemoveElement
  <2>3. Cardinality(From(m)) <= Cardinality(From(n)) - 1
    BY <2>1, <2>2, FS_Subset
  <2>4. Cardinality(From(m)) \in 1 .. Cardinality(S) /\ Cardinality(From(n)) \in 1 .. Cardinality(S)
    BY <1>2
  <2> HIDE DEF From
  <2> QED BY <1>1, <2>3, <2>4
<1>4. ASSUME NEW n \in S, NEW m \in S, Cardinality(From(n)) = Cardinality(From(m))
      PROVE  n = m
  <2>1. Cardinality(From(n)) \in 1 .. Cardinality(S) /\ Cardinality(From(m)) \in 1 .. Cardinality(S)
    BY <1>2
  <2> HIDE DEF From
  <2>2. ~(n < m) /\ ~(m < n)
    BY <1>1, <1>3, <1>4, <2>1
  <2> QED BY <2>2
<1> QED BY <1>2, <1>4

LEMMA Greatest ==
  ASSUME NEW S \in SUBSET Nat, IsFiniteSet(S), S # {}
  PROVE  C!Newest(S) \in S /\ \A n \in S : n <= C!Newest(S)
<1> DEFINE rank == [n \in S |-> Cardinality({d \in S : d >= n})]
<1>1. Cardinality(S) \in Nat /\ Cardinality(S) # 0
  BY FS_CardinalityType, FS_EmptySet
<1>2. rank \in Injection(S, 1 .. Cardinality(S))
  <2>1. \A n \in S : rank[n] \in 1 .. Cardinality(S)
    BY Ranks
  <2>2. \A n, m \in S : rank[n] = rank[m] => n = m
    BY Ranks
  <2>3. rank \in [S -> 1 .. Cardinality(S)]
    BY <2>1
  <2> HIDE DEF rank
  <2> QED BY <2>2, <2>3 DEF Injection, IsInjective
<1>3. IsFiniteSet(1 .. Cardinality(S)) /\ Cardinality(1 .. Cardinality(S)) = Cardinality(S)
  BY <1>1, FS_Interval
<1>4. rank \in Surjection(S, 1 .. Cardinality(S))
  BY <1>2, <1>3, FS_Injection
<1>5. 1 \in 1 .. Cardinality(S)
  BY <1>1
<1>6. PICK n \in S : Cardinality({d \in S : d >= n}) = 1
  BY <1>4, <1>5 DEF Surjection
<1>7. ASSUME NEW m \in S PROVE m <= n
  <2>1. {d \in S : d >= n} \in SUBSET S
    OBVIOUS
  <2>2. IsFiniteSet({d \in S : d >= n})
    BY <2>1, FS_Subset
  <2>3. PICK x : {d \in S : d >= n} = {x}
    BY <1>6, <2>2, FS_Singleton
  <2>4. n = x
    BY <2>3
  <2> QED BY <2>3, <2>4
<1> QED BY <1>7 DEF C!Newest

\* Notes list no more than they may.
LEMMA ListedFits ==
  ASSUME NEW range \in SUBSET C!Commits
  PROVE  C!Listed(range) \subseteq range /\ Cardinality(C!Listed(range)) <= MaxNotes
<1> DEFINE rank == [c \in C!Listed(range) |-> Cardinality({d \in range : d >= c})]
<1>1. /\ range \in SUBSET Nat /\ IsFiniteSet(range) /\ Cardinality(range) \in Nat
      /\ MaxNotes \in Nat \ {0}
  BY Numbers
<1>2. C!Listed(range) = {c \in range : Cardinality({d \in range : d >= c}) <= MaxNotes}
  BY SameCardinality DEF C!Listed
<1>3. ASSUME NEW c \in C!Listed(range) PROVE rank[c] \in 1 .. MaxNotes
  <2>1. c \in range /\ rank[c] = Cardinality({d \in range : d >= c}) /\ rank[c] <= MaxNotes
    BY <1>2
  <2>2. rank[c] \in 1 .. Cardinality(range)
    BY <1>1, <2>1, Ranks
  <2> HIDE DEF rank
  <2> QED BY <1>1, <2>1, <2>2
<1>4. rank \in Injection(C!Listed(range), 1 .. MaxNotes)
  <2>1. rank \in [C!Listed(range) -> 1 .. MaxNotes]
    BY <1>3
  <2>2. \A c, d \in C!Listed(range) : rank[c] = rank[d] => c = d
    <3>1. \A c \in C!Listed(range) : c \in range
      BY <1>2
    <3>2. \A c, d \in range :
            Cardinality({x \in range : x >= c}) = Cardinality({x \in range : x >= d}) => c = d
      BY <1>1, Ranks
    <3> QED BY <3>1, <3>2
  <2> QED BY <2>1, <2>2 DEF Injection, IsInjective
<1>5. IsFiniteSet(1 .. MaxNotes) /\ Cardinality(1 .. MaxNotes) = MaxNotes
  BY <1>1, FS_Interval
<1> QED BY <1>2, <1>4, <1>5, FS_Injection

\* A commit has itself and all that its ancestors have.
LEMMA AncestorsAre ==
  ASSUME NEW c \in DOMAIN parents
  PROVE  /\ c \in C!Ancestors(c) /\ C!Ancestors(c) \subseteq DOMAIN parents
         /\ \A a \in C!Ancestors(c) : C!Ancestors(a) \subseteq C!Ancestors(c)
BY DEF C!Ancestors

LEMMA SameHistory ==
  ASSUME UNCHANGED parents
  PROVE  /\ \A c : C!Ancestors(c)' = C!Ancestors(c)
         /\ C!Merges' = C!Merges /\ (C!CommitsNumbered' <=> C!CommitsNumbered)
<1>1. C!Closed' = C!Closed
  BY DEF C!Closed
<1>2. C!Merges' = C!Merges /\ (C!CommitsNumbered' <=> C!CommitsNumbered)
  BY SameCardinality DEF C!Merges, C!CommitsNumbered
<1> QED BY <1>1, <1>2 DEF C!Ancestors

\* A new commit changes nothing of the others.
LEMMA HistoryGrows ==
  ASSUME C!CommitsNumbered, NEW c, c \notin DOMAIN parents, DOMAIN parents' = DOMAIN parents \cup {c},
         \A d \in DOMAIN parents : parents'[d] = parents[d]
  PROVE  /\ \A d \in DOMAIN parents : C!Ancestors(d)' = C!Ancestors(d)
         /\ C!Merges' \cap DOMAIN parents = C!Merges
<1>1. \A d \in DOMAIN parents : parents[d] \subseteq DOMAIN parents
  BY DEF C!CommitsNumbered
<1>2. C!Closed \subseteq C!Closed'
  BY DEF C!Closed
<1>3. \A S \in C!Closed' : S \cap DOMAIN parents \in C!Closed
  BY <1>1 DEF C!Closed
<1>4. DOMAIN parents \in C!Closed
  BY <1>1 DEF C!Closed
<1>5. ASSUME NEW d \in DOMAIN parents PROVE C!Ancestors(d)' = C!Ancestors(d)
  <2>1. ASSUME NEW a \in C!Ancestors(d)' PROVE a \in C!Ancestors(d)
    BY <1>2, <1>4, <2>1 DEF C!Ancestors
  <2>2. ASSUME NEW a \in C!Ancestors(d) PROVE a \in C!Ancestors(d)'
    <3>1. a \in DOMAIN parents' /\ \A S \in C!Closed : d \in S => a \in S
      BY <2>2 DEF C!Ancestors
    <3>2. \A S \in C!Closed' : d \in S => a \in S
      BY <1>3, <3>1
    <3> QED BY <3>1, <3>2 DEF C!Ancestors
  <2> QED BY <2>1, <2>2
<1>6. C!Merges' \cap DOMAIN parents = C!Merges
  BY SameCardinality DEF C!Merges
<1> QED BY <1>5, <1>6

\* The range of the notes has all commits that were not there before, and one
\* at least only if the source does not go back.
LEMMA RangeIs ==
  ASSUME DOMAIN parents \subseteq C!Commits, NEW base \in DOMAIN parents \cup {0},
         NEW to \in DOMAIN parents
  PROVE  /\ C!Range(base, to) \subseteq DOMAIN parents
         /\ base # 0 =>
              /\ (C!Ancestors(to) \ C!Merges) \ C!Ancestors(base) \subseteq C!Range(base, to)
              /\ C!Range(base, to) # {} => to \notin C!Ancestors(base) \ {base}
<1> DEFINE all == C!Ancestors(to) \ C!Merges
<1>1. C!Ancestors(to) \subseteq DOMAIN parents
  BY AncestorsAre
<1>2. CASE base # 0 /\ base # to
  <2>1. C!Range(base, to) = (C!Ancestors(to) \ C!Ancestors(base)) \ C!Merges
    BY <1>2 DEF C!Range
  <2>2. to \in C!Ancestors(base) => C!Ancestors(to) \subseteq C!Ancestors(base)
    BY <1>2, AncestorsAre
  <2> QED BY <1>1, <2>1, <2>2
<1>3. CASE base = 0 \/ base = to
  <2>1. C!Range(base, to) = IF all = {} THEN {} ELSE {C!Newest(all)}
    BY <1>3 DEF C!Range
  <2>2. all # {} => C!Newest(all) \in all
    <3>1. all \in SUBSET Nat /\ IsFiniteSet(all)
      BY <1>1, Numbers
    <3> HIDE DEF all
    <3> QED BY <3>1, Greatest
  <2>3. C!Range(base, to) \subseteq DOMAIN parents
    BY <1>1, <2>1, <2>2
  <2> QED BY <1>3, <2>3
<1> QED BY <1>2, <1>3

-----------------------------------------------------------------------------
\* The text that lists no commit is as short as notes may be.
LEMMA OtherFits == Cardinality(C!OtherText) <= MaxNotes /\ C!OtherText \cap C!Commits = {}
<1>1. Cardinality({0}) = 1
  BY FS_Singleton
<1> QED BY <1>1, Numbers DEF C!OtherText

\* Any other text lists commits.
LEMMA TextLists ==
  ASSUME NEW text \in (SUBSET C!Commits) \cup {C!OtherText}
  PROVE  text \ C!OtherText \subseteq C!Commits
<1>1. CASE text = C!OtherText
  BY <1>1
<1>2. CASE text \in SUBSET C!Commits
  BY <1>2
<1> QED BY <1>1, <1>2

LEMMA NotesInit ==
  ASSUME C!Init
  PROVE  C!ChangelogInv
<1>1. /\ kind \in Kinds /\ parents = [c \in {1} |-> {}] /\ head = 1 /\ tags = [v \in {1} |-> 1]
      /\ config = 1 /\ configured \in BOOLEAN /\ app = 1 /\ lock = C!NoLock /\ step = "idle"
      /\ candidate = C!NoSource /\ notes = {} /\ omits = {} /\ first = 0 /\ described = {}
      /\ omitted = {} /\ published = {}
  BY DEF C!Init
<1>2. DOMAIN parents = {1} /\ DOMAIN tags = {1} /\ tags[1] = 1 /\ parents[1] = {}
  BY <1>1
<1>3. 1 \in C!Commits /\ 1 \in C!Versions /\ MaxNotes \in Nat
  BY PartsAssumption DEF C!ChangelogAssumption, C!Commits, C!Versions
<1>4. C!Cardinality({}) = 0 /\ C!Cardinality({1}) = 1
  BY SameCardinality, FS_EmptySet, FS_Singleton
<1>5. lock.status = "none" /\ candidate.revision = 0
  BY <1>1 DEF C!NoLock, C!NoSource
<1>6. C!TypeOK
  BY <1>1, <1>2, <1>3, <1>4, <1>5 DEF C!TypeOK
<1>7. C!CommitsNumbered
  <2>1. 1 .. 1 = {1}
    OBVIOUS
  <2> QED BY <1>2, <1>4, <2>1 DEF C!CommitsNumbered
<1>8. C!LockPackaged
  BY <1>1, <1>5 DEF C!LockPackaged
<1>9. C!RunContinues /\ C!NotesDescribe /\ C!TextsKept /\ C!EveryCommitDescribed /\ C!OneTextPerVersion
  BY <1>1, <1>5 DEF C!RunContinues, C!NotesDescribe, C!TextsKept, C!EveryCommitDescribed, C!OneTextPerVersion
<1> QED BY <1>6, <1>7, <1>8, <1>9 DEF C!ChangelogInv

\* The steps of upstream and the developer, of which a run notices nothing
\* until it looks: what there was keeps its ancestors.
LEMMA OthersKeep ==
  ASSUME C!ChangelogInv, C!CommitsNumbered',
         DOMAIN parents \subseteq DOMAIN parents', DOMAIN parents' \subseteq C!Commits,
         \A c \in DOMAIN parents : C!Ancestors(c)' = C!Ancestors(c),
         C!Merges' \cap DOMAIN parents = C!Merges,
         head' \in DOMAIN parents', DOMAIN tags' \subseteq C!Versions,
         \A v \in DOMAIN tags' : tags'[v] \in DOMAIN parents',
         config' \in Nat, configured' \in BOOLEAN,
         UNCHANGED <<config, configured>> \/ step = "idle",
         UNCHANGED <<kind, app, lock, step, candidate, target, notes, omits,
                     first, described, omitted, published>>
  PROVE  C!ChangelogInv'
<1>1. /\ C!TypeOK /\ C!CommitsNumbered /\ C!LockPackaged /\ C!RunContinues /\ C!NotesDescribe
      /\ C!TextsKept /\ C!EveryCommitDescribed /\ C!OneTextPerVersion
  BY DEF C!ChangelogInv
<1>2. C!TypeOK'
  BY <1>1, SameCardinality DEF C!TypeOK
<1>3. C!LockPackaged' /\ C!TextsKept' /\ C!OneTextPerVersion'
  BY <1>1, SameCardinality
     DEF C!LockPackaged, C!TextsKept, C!OneTextPerVersion, C!NoLock, C!NoSource, C!OtherText
<1>4. C!RunContinues'
  <2>1. step # "idle" => C!ApplicationVersion(candidate)' = C!ApplicationVersion(candidate)
    BY DEF C!ApplicationVersion, C!SameInputs
  <2> QED BY <1>1, <2>1 DEF C!RunContinues
<1>5. ASSUME lock.status # "none"
      PROVE  /\ lock.source.revision \in DOMAIN parents /\ first \in DOMAIN parents
             /\ C!Ancestors(lock.source.revision)' = C!Ancestors(lock.source.revision)
             /\ C!Ancestors(first)' = C!Ancestors(first)
  <2>1. lock.source.revision \in DOMAIN parents /\ first \in DOMAIN parents
    BY <1>1, <1>5 DEF C!LockPackaged
  <2>2. /\ C!Ancestors(lock.source.revision)' = C!Ancestors(lock.source.revision)
        /\ C!Ancestors(first)' = C!Ancestors(first)
    BY <2>1
  <2> QED BY <2>1, <2>2
<1>6. \A c \in DOMAIN parents : C!Ancestors(c)' \ C!Merges' = C!Ancestors(c) \ C!Merges
  BY AncestorsAre
<1>7. C!EveryCommitDescribed'
  BY <1>1, <1>5, <1>6 DEF C!EveryCommitDescribed
<1>8. C!NotesDescribe'
  <2> SUFFICES ASSUME step = "package" PROVE C!NotesDescribe'
    BY DEF C!NotesDescribe
  <2>1. candidate.revision \in DOMAIN parents
    BY <1>1 DEF C!RunContinues
  <2>2. C!Ancestors(candidate.revision)' \ C!Merges' = C!Ancestors(candidate.revision) \ C!Merges
    BY <1>6, <2>1
  <2>3. C!SavedNotes' = C!SavedNotes
    BY DEF C!SameInputs, C!SavedNotes
  <2>4. C!Ahead' = C!Ahead
    BY <1>5, <2>2 DEF C!Ahead
  <2>5. configured' = configured
    OBVIOUS
  <2> QED BY <1>1, <1>5, <2>3, <2>4, <2>5 DEF C!NotesDescribe, C!OtherText
<1> QED BY <1>2, <1>3, <1>4, <1>7, <1>8 DEF C!ChangelogInv

LEMMA MakeCommitKeeps ==
  ASSUME C!ChangelogInv, NEW others \in {{}} \cup {{c} : c \in DOMAIN parents}, C!MakeCommit(others)
  PROVE  C!ChangelogInv'
<1> DEFINE n == Cardinality(DOMAIN parents)
           c == n + 1
<1>1. /\ C!TypeOK /\ C!CommitsNumbered /\ DOMAIN parents \subseteq C!Commits
      /\ head \in DOMAIN parents /\ config \in Nat
  BY DEF C!ChangelogInv, C!TypeOK
<1>2. DOMAIN parents = 1 .. n /\ n \in Nat
  BY <1>1, Numbers, SameCardinality DEF C!CommitsNumbered
<1>3. /\ c \in C!Commits /\ head' = c
      /\ parents' = [d \in DOMAIN parents \cup {c} |-> IF d = c THEN {head} \cup others ELSE parents[d]]
      /\ UNCHANGED <<kind, tags, config, configured, app, lock, step, candidate, target, notes,
                     omits, first, described, omitted, published>>
  BY SameCardinality DEF C!MakeCommit, C!run, C!hist
<1> HIDE DEF n
<1>4. c \notin DOMAIN parents
  BY <1>2
<1>5. /\ DOMAIN parents' = DOMAIN parents \cup {c} /\ parents'[c] = {head} \cup others
      /\ \A d \in DOMAIN parents : parents'[d] = parents[d]
  BY <1>3, <1>4
<1>6. DOMAIN parents' = 1 .. n + 1 /\ Cardinality(DOMAIN parents') = n + 1
  <2>1. (1 .. n) \cup {n + 1} = 1 .. n + 1
    BY <1>2
  <2>2. DOMAIN parents' = 1 .. n + 1
    BY <1>2, <1>5, <2>1
  <2>3. Cardinality(1 .. n + 1) = n + 1
    <3>1. n + 1 \in Nat
      BY <1>2
    <3> QED BY <3>1, IntervalSize
  <2> QED BY <2>2, <2>3
<1>7. C!CommitsNumbered'
  <2>1. {head} \cup others \subseteq DOMAIN parents
    BY <1>1
  <2>2. \A d \in DOMAIN parents' : parents'[d] \subseteq DOMAIN parents'
    BY <1>1, <1>5, <2>1 DEF C!CommitsNumbered
  <2> QED BY <1>6, <2>2, SameCardinality DEF C!CommitsNumbered
<1>8. /\ \A d \in DOMAIN parents : C!Ancestors(d)' = C!Ancestors(d)
      /\ C!Merges' \cap DOMAIN parents = C!Merges
  BY <1>1, <1>4, <1>5, HistoryGrows
<1>9. /\ DOMAIN parents \subseteq DOMAIN parents' /\ DOMAIN parents' \subseteq C!Commits
      /\ head' \in DOMAIN parents' /\ DOMAIN tags' \subseteq C!Versions
      /\ \A v \in DOMAIN tags' : tags'[v] \in DOMAIN parents'
      /\ configured' \in BOOLEAN
  BY <1>1, <1>3, <1>5 DEF C!TypeOK
<1> QED BY <1>1, <1>3, <1>7, <1>8, <1>9, OthersKeep

LEMMA UpstreamKeeps ==
  ASSUME C!ChangelogInv, (\E v \in C!Versions : C!Tag(v)) \/ C!Event
  PROVE  C!ChangelogInv'
<1>1. /\ C!TypeOK /\ C!CommitsNumbered /\ DOMAIN parents \subseteq C!Commits
      /\ head \in DOMAIN parents /\ config \in Nat /\ configured \in BOOLEAN
      /\ DOMAIN tags \subseteq C!Versions
      /\ \A v \in DOMAIN tags : tags[v] \in DOMAIN parents
  BY DEF C!ChangelogInv, C!TypeOK
<1>2. UNCHANGED <<kind, parents, app, lock, step, candidate, target, notes, omits,
                  first, described, omitted, published>>
  BY DEF C!Tag, C!Event, C!run, C!hist
<1>3. /\ \A c : C!Ancestors(c)' = C!Ancestors(c)
      /\ C!Merges' = C!Merges /\ C!CommitsNumbered' /\ C!Merges \subseteq DOMAIN parents
  BY <1>1, <1>2, SameHistory DEF C!Merges
<1>4. /\ head' \in DOMAIN parents /\ DOMAIN tags' \subseteq C!Versions
      /\ \A v \in DOMAIN tags' : tags'[v] \in DOMAIN parents
      /\ config' \in Nat /\ configured' \in BOOLEAN
      /\ UNCHANGED <<config, configured>> \/ step = "idle"
  <2>1. CASE \E v \in C!Versions : C!Tag(v)
    BY <1>1, <2>1 DEF C!Tag
  <2>2. CASE C!Event
    BY <1>1, <2>2 DEF C!Event
  <2> QED BY <2>1, <2>2
<1> QED BY <1>1, <1>2, <1>3, <1>4, OthersKeep

-----------------------------------------------------------------------------
(* The steps of a run.                                                     *)

LEMMA FoundTypes ==
  ASSUME C!ChangelogInv, DOMAIN tags # {}
  PROVE  C!Found \in [tag: Nat, revision: DOMAIN parents]
<1>1. /\ head \in DOMAIN parents /\ DOMAIN tags \subseteq C!Versions
      /\ \A v \in DOMAIN tags : tags[v] \in DOMAIN parents
  BY DEF C!ChangelogInv, C!TypeOK
<1>2. C!Newest(DOMAIN tags) \in DOMAIN tags /\ C!Newest(DOMAIN tags) \in Nat
  <2>1. DOMAIN tags \in SUBSET Nat /\ IsFiniteSet(DOMAIN tags)
    BY <1>1, Numbers
  <2> QED BY <2>1, Greatest
<1> QED BY <1>1, <1>2 DEF C!Found

\* A step of a run that leaves the tree alone.
LEMMA RunKeeps ==
  ASSUME C!ChangelogInv,
         UNCHANGED <<kind, parents, head, tags, config, configured, app,
                     first, described, omitted, published>>,
         \/ lock' = lock
         \/ lock.status # "none" /\ \E text \in {lock.notes, C!OtherText} :
              lock' = [lock EXCEPT !.status = "submitted", !.notes = text],
         step' \in {"idle", "notes", "package"}, candidate'.revision \in {0} \cup C!Commits,
         notes' \in (SUBSET C!Commits) \cup {C!OtherText}, Cardinality(notes') <= MaxNotes,
         omits' \subseteq C!Commits, C!RunContinues', C!NotesDescribe'
  PROVE  C!ChangelogInv'
<1>1. /\ C!TypeOK /\ C!CommitsNumbered /\ C!LockPackaged /\ C!TextsKept
      /\ C!EveryCommitDescribed /\ C!OneTextPerVersion
  BY DEF C!ChangelogInv
<1>2. C!OtherText = {0} /\ C!OtherText' = {0}
  BY DEF C!OtherText
<1>3. /\ lock'.status = "none" <=> lock.status = "none"
      /\ lock'.status \in {"none", "packaged", "submitted"}
      /\ lock'.source = lock.source /\ lock'.notes \in {lock.notes, C!OtherText}
      /\ lock.status # "none" =>
           lock' \in [source: [tag: Nat, revision: DOMAIN parents], config: Nat,
                      status: {"packaged", "submitted"},
                      notes: (SUBSET C!Commits) \cup {C!OtherText}]
  <2>1. CASE lock' = lock
    BY <1>1, <2>1 DEF C!LockPackaged, C!TypeOK
  <2>2. ASSUME lock.status # "none", NEW text \in {lock.notes, C!OtherText},
               lock' = [lock EXCEPT !.status = "submitted", !.notes = text]
        PROVE  /\ lock' \in [source: [tag: Nat, revision: DOMAIN parents], config: Nat,
                             status: {"packaged", "submitted"},
                             notes: (SUBSET C!Commits) \cup {C!OtherText}]
               /\ lock'.source = lock.source /\ lock'.notes = text
    <3>1. lock \in [source: [tag: Nat, revision: DOMAIN parents], config: Nat,
                    status: {"packaged", "submitted"},
                    notes: (SUBSET C!Commits) \cup {C!OtherText}]
      BY <1>1, <2>2 DEF C!LockPackaged
    <3>2. lock.notes \in (SUBSET C!Commits) \cup {C!OtherText}
      BY <3>1
    <3>3. text \in (SUBSET C!Commits) \cup {C!OtherText}
      BY <2>2, <3>2, Zenon
    <3> QED BY <2>2, <3>1, <3>3
  <2> QED BY <2>1, <2>2
<1>4. /\ \A c : C!Ancestors(c)' = C!Ancestors(c)
      /\ C!Merges' = C!Merges /\ C!CommitsNumbered'
  BY <1>1, SameHistory
<1>5. C!TypeOK'
  BY <1>1, <1>2, <1>3, SameCardinality DEF C!TypeOK
<1>6. C!LockPackaged'
  <2>1. lock.status = "none" => lock' = lock /\ C!NoLock' = C!NoLock
    BY DEF C!NoLock, C!NoSource
  <2>2. lock.status # "none" => Cardinality(lock'.notes) <= MaxNotes
    BY <1>1, <1>2, <1>3, OtherFits, SameCardinality DEF C!LockPackaged
  <2> QED BY <1>1, <1>2, <1>3, <2>1, <2>2, SameCardinality DEF C!LockPackaged
<1>7. C!TextsKept'
  BY <1>1, <1>2, <1>3 DEF C!TextsKept
<1>8. C!OneTextPerVersion'
  BY <1>1, <1>2 DEF C!OneTextPerVersion
<1>9. C!EveryCommitDescribed'
  BY <1>1, <1>3, <1>4 DEF C!EveryCommitDescribed
<1> QED BY <1>4, <1>5, <1>6, <1>7, <1>8, <1>9 DEF C!ChangelogInv

LEMMA DiscoverKeeps ==
  ASSUME C!ChangelogInv, C!Discover
  PROVE  C!ChangelogInv'
<1>1. /\ UNCHANGED <<kind, parents, head, tags, config, configured, app, lock,
                     first, described, omitted, published>>
      /\ candidate' = C!Found /\ target' = C!ApplicationVersion(C!Found)
      /\ notes' = {} /\ omits' = {}
      /\ step' = "notes" /\ DOMAIN tags # {} /\ C!ApplicationVersion(C!Found) \in C!Versions
  BY DEF C!Discover, C!upstream, C!hist
<1>2. C!TypeOK /\ candidate' \in [tag: Nat, revision: DOMAIN parents]
  BY <1>1, FoundTypes DEF C!ChangelogInv
<1>3. DOMAIN parents \subseteq C!Commits
  BY <1>2 DEF C!TypeOK
<1>4. C!ApplicationVersion(candidate)' = C!ApplicationVersion(C!Found)
  BY <1>1 DEF C!ApplicationVersion, C!SameInputs
<1>5. C!RunContinues' /\ C!NotesDescribe'
  BY <1>1, <1>2, <1>4 DEF C!RunContinues, C!NotesDescribe
<1>6. Cardinality(notes') <= MaxNotes
  BY <1>1, Numbers, FS_EmptySet
<1> QED BY <1>1, <1>2, <1>3, <1>5, <1>6, RunKeeps

LEMMA SubmitNotesKeeps ==
  ASSUME C!ChangelogInv, C!Submit
  PROVE  C!ChangelogInv'
<1>1. /\ UNCHANGED <<kind, parents, head, tags, config, configured, app, step, candidate, notes,
                     omits, first, described, omitted, published>>
      /\ step = "idle" /\ lock.status # "none"
      /\ \E text \in {lock.notes, C!OtherText} :
           lock' = [lock EXCEPT !.status = "submitted", !.notes = text]
  BY DEF C!Submit, C!upstream, C!run, C!hist
<1>2. C!TypeOK
  BY DEF C!ChangelogInv
<1>3. C!RunContinues' /\ C!NotesDescribe'
  BY <1>1 DEF C!RunContinues, C!NotesDescribe
<1>4. /\ candidate.revision \in {0} \cup C!Commits /\ step \in {"idle", "notes", "package"}
      /\ notes \in (SUBSET C!Commits) \cup {C!OtherText}
      /\ Cardinality(notes) <= MaxNotes /\ omits \subseteq C!Commits
  BY <1>2, SameCardinality DEF C!TypeOK
<1> QED BY <1>1, <1>3, <1>4, RunKeeps

LEMMA StopsKeeps ==
  ASSUME C!ChangelogInv, C!Stops
  PROVE  C!ChangelogInv'
<1>1. /\ UNCHANGED <<kind, parents, head, tags, config, configured, app, lock,
                     first, described, omitted, published>>
      /\ step' = "idle" /\ candidate' = C!NoSource /\ notes' = {} /\ omits' = {}
  BY DEF C!Stops, C!Ends, C!upstream, C!hist
<1>2. C!RunContinues' /\ C!NotesDescribe'
  BY <1>1 DEF C!RunContinues, C!NotesDescribe
<1>3. candidate'.revision = 0 /\ Cardinality(notes') <= MaxNotes
  BY <1>1, Numbers, FS_EmptySet DEF C!NoSource
<1> QED BY <1>1, <1>2, <1>3, RunKeeps

\* The commits the notes may begin after, or end with.
LEMMA BoundsOfNotes ==
  ASSUME C!ChangelogInv, step = "notes"
  PROVE  /\ \A to \in C!Targets : to \in DOMAIN parents
         /\ \A base \in C!Bases : base \in DOMAIN parents \cup {0}
         /\ C!InStep /\ lock.status # "none" =>
              C!Targets \subseteq {candidate.revision} /\ C!Bases = {lock.source.revision}
<1>1. /\ \A v \in DOMAIN tags : tags[v] \in DOMAIN parents
      /\ candidate.revision \in DOMAIN parents /\ C!LockPackaged
      /\ DOMAIN parents \subseteq C!Commits
  BY DEF C!ChangelogInv, C!TypeOK, C!RunContinues
<1>2. IF lock.status = "none" THEN lock.source = C!NoSource
                              ELSE lock.source.revision \in DOMAIN parents /\ lock.source # C!NoSource
  <2>1. 0 \notin DOMAIN parents
    BY <1>1, Numbers
  <2> QED BY <1>1, <2>1 DEF C!LockPackaged, C!NoLock, C!NoSource
<1>3. /\ \A to \in C!Targets : to \in DOMAIN parents
      /\ \A base \in C!Bases : base \in DOMAIN parents \cup {0}
  BY <1>1, <1>2 DEF C!Targets, C!Bases
<1>4. ASSUME C!InStep, lock.status # "none"
      PROVE  C!Targets \subseteq {candidate.revision} /\ C!Bases = {lock.source.revision}
  BY <1>2, <1>4 DEF C!Targets, C!Bases, C!InStep
<1> QED BY <1>3, <1>4

LEMMA WriteNotesKeeps ==
  ASSUME C!ChangelogInv, C!WriteNotes
  PROVE  C!ChangelogInv'
<1>1. /\ step = "notes" /\ C!TypeOK /\ C!LockPackaged /\ C!RunContinues
      /\ candidate \in [tag: Nat, revision: DOMAIN parents]
      /\ DOMAIN parents \subseteq C!Commits
  BY DEF C!WriteNotes, C!ChangelogInv, C!TypeOK, C!RunContinues
<1>2. 0 \notin DOMAIN parents
  BY <1>1, Numbers
<1>3. C!SameInputs(candidate) => lock.status # "none"
  BY <1>1, <1>2 DEF C!SameInputs, C!LockPackaged, C!NoLock, C!NoSource
<1>4. C!OtherText = {0} /\ C!OtherText' = {0}
  BY DEF C!OtherText
<1>5. C!Ahead \subseteq C!Commits
  BY <1>1, AncestorsAre DEF C!Ahead
<1>6. /\ C!SavedNotes \in (SUBSET C!Commits) \cup {C!OtherText}
      /\ Cardinality(C!SavedNotes) <= MaxNotes
      /\ C!SavedNotes \ C!OtherText \subseteq C!Commits
  <2>1. CASE C!SameInputs(candidate)
    <3>1. /\ C!SavedNotes = lock.notes /\ lock.notes \in (SUBSET C!Commits) \cup {C!OtherText}
          /\ C!Cardinality(lock.notes) <= MaxNotes
      BY <1>1, <1>3, <2>1 DEF C!SavedNotes, C!LockPackaged
    <3>2. lock.notes \ C!OtherText \subseteq C!Commits
      BY <3>1, TextLists
    <3> QED BY <3>1, <3>2, SameCardinality
  <2>2. CASE ~C!SameInputs(candidate)
    BY <2>2, Numbers, FS_EmptySet DEF C!SavedNotes
  <2> QED BY <2>1, <2>2
<1>7. CASE C!Stops
  BY <1>7, StopsKeeps
<1>8. ASSUME step' = "package", UNCHANGED <<C!upstream, app, lock, candidate, target, C!hist>>,
             notes' \in (SUBSET C!Commits) \cup {C!OtherText}, Cardinality(notes') <= MaxNotes,
             omits' \subseteq C!Commits,
             C!SavedNotes # {} => notes' \in {C!SavedNotes, C!OtherText},
             C!Ahead \cup (C!SavedNotes \ C!OtherText) \subseteq notes' \cup omits',
             kind # "oci" /\ lock.status # "none" /\ configured /\ notes' # C!OtherText =>
               candidate.revision \notin C!Ancestors(lock.source.revision) \ {lock.source.revision}
      PROVE  C!ChangelogInv'
  <2>1. UNCHANGED <<kind, parents, head, tags, config, configured, first, described, omitted, published>>
    BY <1>8 DEF C!upstream, C!hist
  <2>2. (\A c : C!Ancestors(c)' = C!Ancestors(c)) /\ C!Merges' = C!Merges
    BY <2>1, SameHistory
  <2>3. C!RunContinues'
    <3>1. C!ApplicationVersion(candidate)' = C!ApplicationVersion(candidate)
      BY <1>8, <2>1 DEF C!ApplicationVersion, C!SameInputs
    <3> QED BY <1>1, <1>8, <2>1, <3>1 DEF C!RunContinues
  <2>4. C!NotesDescribe'
    <3>1. /\ C!Ancestors(candidate.revision)' = C!Ancestors(candidate.revision)
          /\ C!Ancestors(lock.source.revision)' = C!Ancestors(lock.source.revision)
      BY <1>8, <2>2
    <3>2. C!SavedNotes' = C!SavedNotes /\ C!Ahead' = C!Ahead
      BY <1>8, <2>1, <2>2, <3>1 DEF C!SavedNotes, C!SameInputs, C!Ahead
    <3> QED BY <1>4, <1>8, <2>1, <3>1, <3>2 DEF C!NotesDescribe
  <2>5. candidate'.revision \in {0} \cup C!Commits
    BY <1>1, <1>8
  <2> QED BY <1>8, <2>1, <2>3, <2>4, <2>5, RunKeeps
<1>9. CASE C!DictateNotes /\ step' = "package" /\ UNCHANGED <<C!upstream, app, lock, candidate, target, C!hist>>
  <2>1. notes' = C!OtherText /\ omits' = C!Ahead \cup (C!SavedNotes \ C!OtherText)
    BY <1>9 DEF C!DictateNotes
  <2>2. omits' \subseteq C!Commits
    BY <1>5, <1>6, <2>1
  <2>3. C!Ahead \cup (C!SavedNotes \ C!OtherText) \subseteq notes' \cup omits'
    BY <2>1
  <2>4. Cardinality(notes') <= MaxNotes
    BY <2>1, OtherFits
  <2>5. notes' \in (SUBSET C!Commits) \cup {C!OtherText}
    BY <2>1
  <2>6. notes' \in {C!SavedNotes, C!OtherText} /\ ~(notes' # C!OtherText)
    BY <2>1
  <2> QED BY <1>8, <1>9, <2>2, <2>3, <2>4, <2>5, <2>6
<1>10. CASE C!KeepNotes /\ step' = "package" /\ UNCHANGED <<C!upstream, app, lock, candidate, target, C!hist>>
  <2>1. C!SavedNotes # {} /\ notes' = C!SavedNotes /\ omits' = {}
    BY <1>10 DEF C!KeepNotes
  <2>2. C!SameInputs(candidate) /\ lock.source = candidate
    BY <2>1 DEF C!SavedNotes, C!SameInputs
  <2>3. C!Ahead = {}
    BY <2>2 DEF C!Ahead
  <2> QED BY <1>6, <1>8, <1>10, <2>1, <2>2, <2>3
<1>11. CASE C!NoNotes /\ step' = "package" /\ UNCHANGED <<C!upstream, app, lock, candidate, target, C!hist>>
  <2>1. C!SavedNotes = {} /\ ~configured /\ notes' = {} /\ omits' = C!Ahead
    BY <1>11 DEF C!NoNotes
  <2> QED BY <1>5, <1>6, <1>8, <1>11, <2>1
<1>12. ASSUME C!SavedNotes = {}, configured, NEW to \in C!Targets, NEW base \in C!Bases,
              C!SomeNotes(C!Listed(C!Range(base, to))), notes' = C!Listed(C!Range(base, to)),
              omits' = (C!Range(base, to) \cup IF C!InStep THEN {} ELSE C!Ahead)
                         \ C!Listed(C!Range(base, to)),
              step' = "package",
              UNCHANGED <<C!upstream, app, lock, candidate, target, C!hist>>
      PROVE  C!ChangelogInv'
  <2>1. to \in DOMAIN parents /\ base \in DOMAIN parents \cup {0}
    BY <1>1, BoundsOfNotes
  <2>2. C!Range(base, to) \subseteq C!Commits
    BY <1>1, <2>1, RangeIs
  <2>3. /\ notes' \subseteq C!Range(base, to) /\ Cardinality(notes') <= MaxNotes
        /\ notes' # {} /\ C!Range(base, to) \subseteq notes' \cup omits'
    BY <1>12, <2>2, ListedFits DEF C!SomeNotes
  <2>4. omits' \subseteq C!Commits
    BY <1>5, <1>12, <2>2
  <2>5. ASSUME C!InStep, lock.status # "none"
        PROVE  /\ (C!Ancestors(candidate.revision) \ C!Merges) \ C!Ancestors(lock.source.revision)
                    \subseteq notes' \cup omits'
               /\ candidate.revision \notin C!Ancestors(lock.source.revision) \ {lock.source.revision}
    <3>1. to = candidate.revision /\ base = lock.source.revision /\ base # 0
      BY <1>1, <1>2, <2>5, BoundsOfNotes DEF C!LockPackaged
    <3> QED BY <1>1, <2>1, <2>3, <3>1, RangeIs
  <2>6. C!Ahead \subseteq notes' \cup omits'
    BY <1>12, <2>5 DEF C!Ahead
  <2>7. kind # "oci" /\ lock.status # "none" =>
          candidate.revision \notin C!Ancestors(lock.source.revision) \ {lock.source.revision}
    BY <2>5 DEF C!InStep
  <2> QED BY <1>8, <1>12, <2>2, <2>3, <2>4, <2>6, <2>7
<1> QED BY <1>7, <1>9, <1>10, <1>11, <1>12 DEF C!WriteNotes, C!GenerateNotes

\* A version is packaged again only for the source that has it, with its text
\* or the operator's.
LEMMA NextText ==
  ASSUME C!ChangelogInv, step = "package"
  PROVE  /\ target \in Nat /\ app \in Nat /\ target >= app
         /\ target = app => C!SavedNotes = lock.notes
         /\ C!SavedNotes # {} => notes \in {C!SavedNotes, C!OtherText}
<1>1. /\ candidate \in [tag: Nat, revision: DOMAIN parents] /\ app \in Nat /\ target \in C!Versions
      /\ target = C!ApplicationVersion(candidate)
      /\ C!SavedNotes # {} => notes \in {C!SavedNotes, C!OtherText}
  BY Numbers DEF C!ChangelogInv, C!TypeOK, C!RunContinues, C!NotesDescribe
<1>2. CASE C!SameInputs(candidate)
  BY <1>1, <1>2 DEF C!ApplicationVersion, C!SavedNotes
<1>3. CASE ~C!SameInputs(candidate)
  BY <1>1, <1>3 DEF C!ApplicationVersion
<1> QED BY <1>1, <1>2, <1>3

LEMMA PackageNotesKeeps ==
  ASSUME C!ChangelogInv, C!PackageNotes
  PROVE  C!ChangelogInv'
<1>1. /\ step = "package" /\ C!TypeOK /\ C!CommitsNumbered /\ C!LockPackaged /\ C!RunContinues
      /\ C!NotesDescribe /\ C!TextsKept /\ C!EveryCommitDescribed /\ C!OneTextPerVersion
  BY DEF C!PackageNotes, C!ChangelogInv
<1>2. CASE C!Stops
  BY <1>2, StopsKeeps
<1>3. C!OtherText = {0} /\ C!OtherText' = {0}
  BY DEF C!OtherText
<1>4. CASE /\ C!Ends /\ app' = target
           /\ lock' = [source |-> candidate, config |-> config, status |-> "packaged", notes |-> notes]
           /\ described' = (described \ C!SavedNotes) \cup (notes \ C!OtherText)
           /\ omitted' = omitted \cup omits
           /\ published' = published \cup {[version |-> target, notes |-> notes]}
           /\ first' = IF first = 0 THEN candidate.revision ELSE first
           /\ UNCHANGED C!upstream
  <2>1. /\ UNCHANGED <<kind, parents, head, tags, config, configured>>
        /\ step' = "idle" /\ candidate' = C!NoSource /\ notes' = {} /\ omits' = {}
    BY <1>4 DEF C!upstream, C!Ends
  <2>2. /\ candidate \in [tag: Nat, revision: DOMAIN parents] /\ target \in C!Versions
        /\ notes \in (SUBSET C!Commits) \cup {C!OtherText} /\ Cardinality(notes) <= MaxNotes
        /\ notes \ C!OtherText \subseteq C!Commits /\ config \in Nat
        /\ DOMAIN parents \subseteq C!Commits
    <3>1. /\ candidate \in [tag: Nat, revision: DOMAIN parents] /\ target \in C!Versions
          /\ notes \in (SUBSET C!Commits) \cup {C!OtherText} /\ C!Cardinality(notes) <= MaxNotes
          /\ config \in Nat /\ DOMAIN parents \subseteq C!Commits
      BY <1>1 DEF C!RunContinues, C!TypeOK
    <3>2. notes \ C!OtherText \subseteq C!Commits
      BY <3>1, TextLists
    <3> QED BY <3>1, <3>2, SameCardinality
  <2>3. /\ first' \in DOMAIN parents
        /\ lock.status = "none" => first' = candidate.revision
        /\ lock.status # "none" => first' = first
    <3>1. 0 \notin DOMAIN parents
      BY <2>2, Numbers
    <3>2. CASE lock.status = "none"
      BY <1>1, <1>4, <2>2, <3>2 DEF C!LockPackaged
    <3>3. CASE lock.status # "none"
      BY <1>1, <1>4, <3>1, <3>3 DEF C!LockPackaged
    <3> QED BY <3>2, <3>3
  <2>4. (\A c : C!Ancestors(c)' = C!Ancestors(c)) /\ C!Merges' = C!Merges /\ C!CommitsNumbered'
    BY <1>1, <2>1, SameHistory
  <2>5. C!TypeOK'
    <3>1. C!Cardinality({}) <= MaxNotes
      BY Numbers, FS_EmptySet, SameCardinality
    <3>2. {candidate'.revision, first'} \subseteq {0} \cup C!Commits
      BY <2>1, <2>2, <2>3 DEF C!NoSource
    <3>3. omits' \cup described' \cup omitted' \subseteq C!Commits
      BY <1>1, <1>4, <2>1, <2>2 DEF C!TypeOK
    <3> QED BY <1>1, <1>4, <2>1, <2>2, <3>1, <3>2, <3>3 DEF C!TypeOK
  <2>6. C!LockPackaged'
    BY <1>3, <1>4, <2>1, <2>2, <2>3, SameCardinality DEF C!LockPackaged
  <2>7. C!RunContinues' /\ C!NotesDescribe'
    BY <2>1 DEF C!RunContinues, C!NotesDescribe
  <2>8. /\ target \in Nat /\ app \in Nat /\ target >= app
        /\ target = app /\ lock.notes # {} => notes \in {lock.notes, C!OtherText}
    BY <1>1, NextText
  <2>9. \A p \in published :
          /\ p.version \in Nat /\ p.version <= target
          /\ p.version = target /\ p.notes # {} => notes \in {p.notes, C!OtherText}
    <3> SUFFICES ASSUME NEW p \in published
                 PROVE  /\ p.version \in Nat /\ p.version <= target
                        /\ p.version = target /\ p.notes # {} => notes \in {p.notes, C!OtherText}
      OBVIOUS
    <3>1. /\ p.version \in Nat /\ p.version <= app
          /\ p.version = app /\ p.notes # {} => lock.notes \in {p.notes, C!OtherText}
      BY <1>1 DEF C!TextsKept
    <3>2. C!OtherText # {}
      BY <1>3
    <3> QED BY <2>8, <3>1, <3>2
  <2>10. C!TextsKept'
    BY <1>3, <1>4, <2>8, <2>9 DEF C!TextsKept
  <2>11. C!OneTextPerVersion'
    <3> DEFINE new == [version |-> target, notes |-> notes]
               Agree(p, q) == p.version = q.version =>
                 p.notes = q.notes \/ {p.notes, q.notes} \cap {{}, {0}} # {}
    <3>1. \A p, q \in published : Agree(p, q)
      BY <1>1, <1>3 DEF C!OneTextPerVersion
    <3>2. \A p \in published : Agree(p, new) /\ Agree(new, p)
      <4> SUFFICES ASSUME NEW p \in published, p.version = target, p.notes # {}
                   PROVE  p.notes = notes \/ {p.notes, notes} \cap {{}, {0}} # {}
        OBVIOUS
      <4>1. notes \in {p.notes, {0}}
        BY <1>3, <2>9
      <4> QED BY <4>1
    <3>3. \A p, q \in published' : Agree(p, q)
      BY <1>4, <3>1, <3>2
    <3> QED BY <1>3, <3>3 DEF C!OneTextPerVersion
  <2>12. (C!Ancestors(candidate.revision) \ C!Merges) \ C!Ancestors(first') \subseteq described' \cup omitted'
    <3>1. CASE lock.status = "none"
      BY <2>3, <3>1
    <3>2. CASE lock.status # "none"
      <4>1. C!Ahead \cup (C!SavedNotes \ C!OtherText) \subseteq notes \cup omits
        BY <1>1 DEF C!NotesDescribe
      <4>2. (C!Ancestors(candidate.revision) \ C!Merges) \ C!Ancestors(lock.source.revision)
              \subseteq notes \cup omits
        BY <3>2, <4>1 DEF C!Ahead
      <4>3. (C!Ancestors(lock.source.revision) \ C!Merges) \ C!Ancestors(first) \subseteq described \cup omitted
        BY <1>1, <3>2 DEF C!EveryCommitDescribed
      <4>4. /\ C!Ancestors(candidate.revision) \cup C!Ancestors(lock.source.revision) \subseteq DOMAIN parents
            /\ 0 \notin DOMAIN parents
        BY <2>2, Numbers DEF C!Ancestors
      <4> QED BY <1>3, <1>4, <2>3, <3>2, <4>1, <4>2, <4>3, <4>4
    <3> QED BY <3>1, <3>2
  <2>13. C!EveryCommitDescribed'
    <3>1. lock'.source.revision = candidate.revision
      BY <1>4
    <3>2. C!Ancestors(lock.source.revision)' = C!Ancestors(candidate.revision)
          /\ C!Ancestors(first)' = C!Ancestors(first')
      BY <2>4, <3>1
    <3> QED BY <2>4, <2>12, <3>2 DEF C!EveryCommitDescribed
  <2> QED BY <2>4, <2>5, <2>6, <2>7, <2>10, <2>11, <2>13 DEF C!ChangelogInv
<1> QED BY <1>2, <1>4 DEF C!PackageNotes

\* Only packaging changes the source of the lock.
LEMMA NotesNext ==
  ASSUME C!ChangelogInv, C!Next \/ UNCHANGED changes
  PROVE  /\ C!ChangelogInv'
         /\ lock'.source # lock.source /\ lock.source # C!NoSource /\ kind # "oci" =>
              \/ ~configured \/ lock'.notes = C!OtherText
              \/ lock'.source.revision \notin
                   C!Ancestors(lock.source.revision) \ {lock.source.revision}
<1>1. C!ChangelogInv'
  <2>1. CASE UNCHANGED changes
    <3>1. /\ UNCHANGED <<kind, parents, head, tags, config, configured, app, lock, step, candidate,
                         target, notes, omits, first, described, omitted, published>>
      BY <2>1 DEF changes
    <3>2. /\ C!CommitsNumbered /\ C!CommitsNumbered' /\ C!TypeOK /\ C!Merges' = C!Merges
          /\ \A c : C!Ancestors(c)' = C!Ancestors(c)
      BY <3>1, SameHistory DEF C!ChangelogInv
    <3>3. C!Merges \subseteq DOMAIN parents
      BY DEF C!Merges
    <3>4. /\ DOMAIN parents \subseteq C!Commits /\ head \in DOMAIN parents /\ config \in Nat
          /\ DOMAIN tags \subseteq C!Versions /\ \A v \in DOMAIN tags : tags[v] \in DOMAIN parents
          /\ configured \in BOOLEAN
      BY <3>2 DEF C!TypeOK
    <3> QED BY <3>1, <3>2, <3>3, <3>4, OthersKeep
  <2> QED BY <2>1, DiscoverKeeps, WriteNotesKeeps, PackageNotesKeeps, SubmitNotesKeeps, MakeCommitKeeps,
             UpstreamKeeps
          DEF C!Next
<1>2. lock'.source = lock.source
      \/ /\ C!PackageNotes /\ step = "package" /\ lock'.source = candidate /\ lock'.notes = notes
  <2>1. CASE C!Submit
    <3>1. /\ lock.status = "packaged" /\ C!LockPackaged
          /\ \E text \in {lock.notes, C!OtherText} :
               lock' = [lock EXCEPT !.status = "submitted", !.notes = text]
      BY <2>1 DEF C!Submit, C!ChangelogInv
    <3>2. lock \in [source: [tag: Nat, revision: DOMAIN parents], config: Nat,
                    status: {"packaged", "submitted"}, notes: (SUBSET C!Commits) \cup {C!OtherText}]
      BY <3>1 DEF C!LockPackaged
    <3> QED BY <3>1, <3>2
  <2>2. CASE C!PackageNotes
    BY <2>2 DEF C!PackageNotes, C!Stops
  <2>3. CASE ~C!Submit /\ ~C!PackageNotes
    BY <2>3 DEF C!Next, C!Discover, C!WriteNotes, C!Stops, C!Event, C!MakeCommit, C!Tag, changes
  <2> QED BY <2>1, <2>2, <2>3
<1>3. ASSUME lock'.source # lock.source, lock.source # C!NoSource, kind # "oci",
             configured, lock'.notes # C!OtherText
      PROVE  lock'.source.revision \notin C!Ancestors(lock.source.revision) \ {lock.source.revision}
  <2>1. step = "package" /\ lock'.source = candidate /\ lock'.notes = notes
    BY <1>2, <1>3
  <2>2. lock.status # "none"
    BY <1>3 DEF C!ChangelogInv, C!LockPackaged, C!NoLock
  <2> QED BY <1>3, <2>1, <2>2 DEF C!ChangelogInv, C!NotesDescribe
<1> QED BY <1>1, <1>3

\* A behaviour of the notes keeps its invariant: what is made for a release
\* describes it up to the release before.
THEOREM ChangelogInvariant == PartsSpec => [](part = "notes" => C!ChangelogInv)
<1>1. PartsInit => (part = "notes" => C!ChangelogInv)
  BY NotesInit DEF PartsInit
<1>2. /\ part = "notes" => C!ChangelogInv
      /\ [PartsNext]_<<part, vars, lookup, changes>>
      => (part = "notes" => C!ChangelogInv)'
  <2> SUFFICES ASSUME part = "notes" => C!ChangelogInv, part' = "notes",
                      [PartsNext]_<<part, vars, lookup, changes>>
               PROVE  C!ChangelogInv'
    OBVIOUS
  <2>1. part = "notes" /\ (C!Next \/ UNCHANGED changes)
    BY DEF PartsNext
  <2> QED BY <2>1, NotesNext
<1> QED BY <1>1, <1>2, PTL DEF PartsSpec

\* Each commit that a packaged release has and the first one had not is in the
\* notes of a version or was left out for one of the reasons EveryCommitDescribed
\* names, and the notes of a version are made once: for any history of merges,
\* rewinds and deleted tags, any texts of operators and any failed runs.
THEOREM NotesAreCorrect == PartsSpec => []NotesCorrect
<1>1. (part = "notes" => C!ChangelogInv) => NotesCorrect
  BY DEF NotesCorrect, C!ChangelogInv
<1> QED BY <1>1, ChangelogInvariant, PTL

\* A Git source that went back to a release it came from is not packaged with
\* notes made of its commits.
THEOREM NeverGoesBack == PartsSpec => NeverBackwards
<1>1. /\ part = "notes" => C!ChangelogInv
      /\ [PartsNext]_<<part, vars, lookup, changes>>
      => [lock'.source # lock.source /\ lock.source # C!NoSource /\ kind # "oci" =>
            \/ ~configured \/ lock'.notes = C!OtherText
            \/ lock'.source.revision \notin
                 C!Ancestors(lock.source.revision) \ {lock.source.revision}]_C!vars
  <2> SUFFICES ASSUME part = "notes" => C!ChangelogInv,
                      [PartsNext]_<<part, vars, lookup, changes>>,
                      lock'.source # lock.source, lock.source # C!NoSource, kind # "oci"
               PROVE  \/ ~configured \/ lock'.notes = C!OtherText
                      \/ lock'.source.revision \notin
                           C!Ancestors(lock.source.revision) \ {lock.source.revision}
    OBVIOUS
  <2>1. part = "notes" /\ C!Next
    BY DEF PartsNext, changes
  <2> QED BY <2>1, NotesNext
<1> QED BY <1>1, ChangelogInvariant, PTL DEF PartsSpec, NeverBackwards, C!NeverBackwards

=============================================================================
