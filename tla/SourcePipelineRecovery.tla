----------------------- MODULE SourcePipelineRecovery -----------------------
(***************************************************************************)
(* The branch never loses track of an accepted review, and no source is    *)
(* submitted again unless a retry was granted, for all values of the       *)
(* constants: CoverInv and LedgerInv of SourcePipeline are inductive        *)
(* relative to HistoryInv, provided the review list can be read and no     *)
(* submission job is started again.                                        *)
(***************************************************************************)
EXTENDS SourcePipelineHistory, WellFoundedInduction

-----------------------------------------------------------------------------
(* A nonempty set of naturals with a bound has a largest element, and so   *)
(* FindReview finds a review when there is one that matches.               *)

\* A nonempty set of indices has a largest one.
LEMMA LargestExists ==
  ASSUME NEW n \in Nat, NEW S \in SUBSET (1..n), S # {}
  PROVE  \E i \in S : \A j \in S : j <= i
<1> DEFINE T == {n - i : i \in S}
<1>1. T \subseteq Nat
  <2>1. \A i \in 1..n : n - i \in Nat
    OBVIOUS
  <2> QED BY <2>1
<1>2. T # {}
  OBVIOUS
<1>3. \A x, y \in Nat : x < y => <<x, y>> \in OpToRel(<, Nat)
  BY DEF OpToRel
<1>4. \E m \in T : \A y \in T : ~ (<<y, m>> \in OpToRel(<, Nat))
  <2> HIDE DEF T
  <2> QED BY <1>1, <1>2, NatLessThanWellFounded, WFMin, Zenon
<1>5. PICK R : /\ \A x, y \in Nat : x < y => <<x, y>> \in R
               /\ \E m \in T : \A y \in T : ~ (<<y, m>> \in R)
  BY <1>3, <1>4
<1>6. PICK m \in T : \A y \in T : ~ (<<y, m>> \in R)
  BY <1>5
<1>7. \A y \in T : ~ (y < m)
  BY <1>1, <1>5, <1>6
<1>8. PICK i \in S : m = n - i
  BY <1>6
<1>9. \A j \in S : j <= i
  BY <1>7, <1>8
<1> QED BY <1>9

\* With readable reviews, FindReview finds a review when one of the pipeline has
\* the version and the hash.
LEMMA FindReviewFinds ==
  ASSUME Lookup, store \in Seq(StoreReview), NEW i \in DOMAIN store,
         store[i].channel = "automation"
  PROVE  FindReview(0, store[i].version, store[i].sha) # {}
<1> DEFINE S == {k \in DOMAIN store : /\ store[k].channel = "automation"
                                      /\ store[k].version = store[i].version
                                      /\ store[k].sha = store[i].sha}
<1>1. Len(store) \in Nat /\ DOMAIN store = 1..Len(store)
  OBVIOUS
<1>2. S \in SUBSET (1..Len(store)) /\ S # {}
  BY <1>1
<1> HIDE DEF S
<1>3. PICK k \in S : \A j \in S : j <= k
  BY <1>1, <1>2, LargestExists
<1>4. k \in FindReview(0, store[i].version, store[i].sha)
  BY <1>3 DEF S, FindReview
<1> QED BY <1>4

-----------------------------------------------------------------------------
(* What is covered.                                                        *)

\* Without new reviews of the pipeline, what was covered stays covered.
LEMMA StoreKeepsCovered ==
  ASSUME NEW lock, NEW reviews, NEW reviews2, StoreKeeps(reviews, reviews2),
         \A i \in DOMAIN reviews2 :
           i \in DOMAIN reviews \/ reviews2[i].channel = "manual"
                                \/ Covers(lock, reviews2[i])
  PROVE  AllCovered(lock, reviews) => AllCovered(lock, reviews2)
BY DEF AllCovered, StoreKeeps, Covers, Recorded, SamePackage

\* Without new reviews of the pipeline, what was recorded stays recorded.
LEMMA StoreKeepsRecorded ==
  ASSUME NEW lock, NEW reviews, NEW reviews2, StoreKeeps(reviews, reviews2),
         \A i \in DOMAIN reviews2 : i \in DOMAIN reviews \/ reviews2[i].channel = "manual"
  PROVE  AllRecorded(lock, reviews) => AllRecorded(lock, reviews2)
BY DEF AllRecorded, StoreKeeps, Recorded, SamePackage

\* What is recorded is covered.
LEMMA RecordedIsCovered ==
  ASSUME NEW lock, NEW reviews, AllRecorded(lock, reviews)
  PROVE  AllCovered(lock, reviews)
BY DEF AllRecorded, AllCovered, Covers

\* A checkout that is as good as another covers as much.
LEMMA ReconcilesCovers ==
  ASSUME NEW result, NEW tree, NEW reviews, Reconciles(result, tree, reviews)
  PROVE  /\ AllCovered(tree.lock, reviews) => AllCovered(result.lock, reviews)
         /\ AllRecorded(tree.lock, reviews) => AllRecorded(result.lock, reviews)
BY DEF Reconciles, AllCovered, AllRecorded

\* Whatever the lock covers is recorded, once a submitted lock has its record
\* and no review of a packaged one exists.
LEMMA CoveredIsRecorded ==
  ASSUME NEW tree \in Tree, NEW reviews, AllCovered(tree.lock, reviews),
         tree.lock.status = "submitted" => RecordsItself(tree.lock),
         tree.lock.status = "packaged" =>
           \A i \in DOMAIN reviews :
             reviews[i].channel = "automation" => ~ SamePackage(tree.lock, reviews[i])
  PROVE  AllRecorded(tree.lock, reviews)
<1>1. tree.lock.status \in {"none", "packaged", "submitted"}
  BY DEF Tree, Lock
<1>2. ASSUME NEW i \in DOMAIN reviews, reviews[i].channel = "automation"
      PROVE  Recorded(tree.lock, reviews[i])
  <2>1. Covers(tree.lock, reviews[i])
    BY <1>2 DEF AllCovered
  <2>2. CASE tree.lock.status = "none"
    BY <2>1, <2>2 DEF Covers
  <2>3. CASE tree.lock.status = "packaged"
    BY <1>2, <2>1, <2>3 DEF Covers
  <2>4. CASE tree.lock.status = "submitted"
    BY <2>1, <2>4 DEF Covers, RecordsItself, Recorded, SamePackage
  <2> QED BY <1>1, <2>2, <2>3, <2>4
<1> QED BY <1>2 DEF AllRecorded

-----------------------------------------------------------------------------
(* CoverInv is kept.  JobInv, its first part, is kept by JobStep; Covering  *)
(* is the rest of it.                                                      *)

Covering ==
  /\ pc \in {"decide", "push"} \cup SubmitPC => AllRecorded(work.lock, store)
  /\ run.job = "submit" => repo.lock.status # "none" /\ SamePackage(work.lock, repo.lock)
  /\ AllCovered(repo.lock, store) /\ AllCovered(work.lock, store)

LEMMA CoverParts == CoverInv <=> JobInv /\ Covering
BY DEF CoverInv, RunInv, Covering

\* An empty lock covers no review, and one from before the history the only one
\* there can be.
LEMMA CoverInit == Init => CoverInv
<1> SUFFICES ASSUME Init PROVE CoverInv
  OBVIOUS
<1>1. PICK r \in Recipe :
        \/ /\ repo = [lock |-> EmptyLock(r), version |-> InitialVersion, recipe |-> r]
           /\ store = <<>>
        \/ \E s \in Source, status \in {"packaged", "submitted"} :
             /\ repo = [lock |-> LegacyLock(s, r, status),
                        version |-> InitialVersion, recipe |-> r]
             /\ \/ store = <<>>
                \/ \E rs \in ReviewStatus : store = <<LegacyReview(s, rs)>>
  BY DEF Init
<1>2. AllCovered(repo.lock, store)
  BY <1>1 DEF AllCovered, Covers, SamePackage, LegacyLock, LegacyReview
<1>3. work = repo /\ pc = "idle" /\ run.job = "check"
  BY DEF Init, NoRun
<1> QED BY <1>2, <1>3, NumericInit, CoverParts DEF Covering, SubmitPC

\* The end of a run, whichever tree the branch has then.
LEMMA RunEnds ==
  ASSUME work' = repo', pc' = "idle", run' = NoRun, AllCovered(repo'.lock, store')
  PROVE  Covering'
BY DEF Covering, NoRun, SubmitPC

\* A run that pauses, is refused or fails leaves the branch as it was.
LEMMA RunAborts ==
  ASSUME Covering, Finish(repo), UNCHANGED <<repo, store>>
  PROVE  Covering'
BY RunEnds DEF Covering, Finish

\* A run goes on with a checkout that covers as much.
LEMMA RunGoesOn ==
  ASSUME Covering, UNCHANGED <<repo, store>>, run'.job = run.job,
         Reconciles(work', work, store),
         \/ pc' \notin {"decide", "push"} \cup SubmitPC
         \/ pc \in {"decide", "push"} \cup SubmitPC
         \/ AllRecorded(work'.lock, store)
  PROVE  Covering'
<1>1. /\ AllCovered(work.lock, store) => AllCovered(work'.lock, store)
      /\ AllRecorded(work.lock, store) => AllRecorded(work'.lock, store)
  BY ReconcilesCovers
<1>2. run.job = "submit" => repo.lock.status # "none" /\ SamePackage(work'.lock, repo.lock)
  BY DEF Covering, Reconciles, SamePackage
<1> QED BY <1>1, <1>2 DEF Covering

\* The gate migrates the lock of the checkout and starts the reconciliation.
LEMMA PassGateCovers ==
  ASSUME TypeInv, HistoryInv, Covering, PassGate
  PROVE  Covering'
<1>1. work \in Tree /\ SourceKnown(work) /\ TreeInv(work, store) /\ BeginReconcile(work)
  BY DEF TypeInv, TypeOK, HistoryInv, PassGate
<1>2. Reconciles(work', work, store)
  BY <1>1, BeginReconcileHistory
<1>3. run'.job = run.job /\ UNCHANGED <<repo, store>>
  BY MemoryKept DEF PassGate
<1>4. CASE work.lock.source = NoSource
  <2>1. work.lock.status = "none"
    BY <1>1, <1>4 DEF SourceKnown
  <2>2. AllRecorded(work.lock, store)
    BY <1>1, <2>1, CoveredIsRecorded DEF Covering
  <2>3. AllRecorded(work'.lock, store)
    BY <1>2, <2>2, ReconcilesCovers
  <2> QED BY <1>2, <1>3, <2>3, RunGoesOn
<1>5. CASE work.lock.source # NoSource
  <2>1. pc' = "reconcile"
    BY <1>1, <1>5 DEF BeginReconcile
  <2> QED BY <1>2, <1>3, <2>1, RunGoesOn DEF SubmitPC
<1> QED BY <1>4, <1>5

\* A packaged lock whose review is found gets its record; one whose review is
\* not found has none, so that every review is recorded when the check decides.
LEMMA RecoverSubmissionCovers ==
  ASSUME Lookup, TypeInv, HistoryInv, Covering, RecoverSubmission
  PROVE  Covering'
<1> DEFINE lock == work.lock
           Found == FindReview(0, lock.version, lock.sha)
<1>1. /\ pc = "reconcile" /\ UNCHANGED <<repo, store, run>>
      /\ work \in Tree /\ store \in Seq(StoreReview)
      /\ AllCovered(lock, store)
  BY DEF RecoverSubmission, TypeInv, TypeOK, Covering
<1>2. Reconciles(work', work, store)
  BY RecoverSubmissionReconciles
<1>3. AllRecorded(work'.lock, store)
  <2>1. CASE \A review : Covers(lock, review) => Recorded(work'.lock, review)
    BY <1>1, <2>1 DEF AllCovered, AllRecorded
  <2>2. CASE UNCHANGED work /\ (lock.status = "packaged" => Found = {})
    <3>1. lock.status = "submitted" => RecordsItself(lock)
      BY <1>1 DEF HistoryInv
    <3>2. ASSUME lock.status = "packaged", NEW i \in DOMAIN store,
                 store[i].channel = "automation"
          PROVE  ~ SamePackage(lock, store[i])
      BY <1>1, <2>2, <3>2, FindReviewFinds DEF SamePackage
    <3>3. AllRecorded(lock, store)
      BY <1>1, <3>1, <3>2, CoveredIsRecorded
    <3> QED BY <2>2, <3>3
  <2> QED BY <2>1, <2>2, RecoverSubmissionReconciles
<1> QED BY <1>1, <1>2, <1>3, RunGoesOn

\* A new package may replace the lock, because every review has a record by then.
LEMMA PackageSourceCovers ==
  ASSUME TypeInv, JobInv, Covering, PackageSource
  PROVE  Covering'
<1>1. /\ pc = "decide" /\ UNCHANGED <<repo, store>> /\ run'.job = run.job
      /\ work'.lock.reviews = work.lock.reviews
  BY MemoryKept DEF PackageSource, Selected, TypeInv, TypeOK, Tree
<1>2. run.job # "submit"
  BY <1>1 DEF JobInv, SubmitPC
<1>3. AllRecorded(work'.lock, store)
  BY <1>1 DEF Covering, AllRecorded, Recorded
<1> QED BY <1>1, <1>2, <1>3, RecordedIsCovered DEF Covering

\* The packaged lock reaches the branch before its review can exist.
LEMMA PushPackagedCovers ==
  ASSUME TypeInv, HistoryInv, JobInv, Covering, PushPackaged
  PROVE  Covering'
<1>1. pc = "push" /\ repo' = work /\ UNCHANGED store /\ AllCovered(work.lock, store)
  BY DEF PushPackaged, Covering
<1>2. CASE ~ run.built
  BY <1>1, <1>2, RunEnds DEF PushPackaged, Finish
<1>3. CASE run.built
  <2>1. work \in Tree /\ SourceKnown(work) /\ TreeInv(work, store) /\ BeginReconcile(work)
    BY <1>3 DEF TypeInv, TypeOK, HistoryInv, PushPackaged
  <2>2. work.lock.status = "packaged"
    BY <1>1, <1>3 DEF JobInv, SubmitPC, TypeInv, TypeOK, Memory
  <2>3. work' = work
    BY <2>1, <2>2, BeginReconcileHistory
  <2>4. pc' = "reconcile"
    BY <2>1, <2>2 DEF BeginReconcile, SourceKnown
  <2> QED BY <1>1, <2>2, <2>3, <2>4 DEF Covering, SubmitPC, SamePackage
<1> QED BY <1>2, <1>3

\* What is submitted is the package on the branch, and the checkout records it.
LEMMA CreateReviewCovers ==
  ASSUME TypeInv, HistoryInv, JobInv, Covering, CreateReview
  PROVE  Covering'
<1>1. /\ pc = "create" /\ store' = Accept(Submission) /\ UNCHANGED <<repo, run>>
      /\ work.lock.status = "packaged"
  BY DEF CreateReview, TypeInv
<1>2. /\ StoreKeeps(store, store')
      /\ \A i \in DOMAIN store' : i \in DOMAIN store \/ SamePackage(work.lock, store'[i])
  BY <1>1, SubmissionAccepted DEF SamePackage
<1>3. repo.lock.status # "none" /\ SamePackage(work.lock, repo.lock)
  BY <1>1 DEF JobInv, SubmitPC, Covering
<1>4. \A i \in DOMAIN store' :
        i \in DOMAIN store \/ (Covers(repo.lock, store'[i]) /\ Covers(work.lock, store'[i]))
  BY <1>1, <1>2, <1>3 DEF Covers, SamePackage
<1>5. AllCovered(repo.lock, store') /\ AllCovered(work.lock, store')
  BY <1>2, <1>4, StoreKeepsCovered DEF Covering
<1>6. /\ Reconciles(work', work, store')
      /\ \A review : Covers(work.lock, review) => Recorded(work'.lock, review)
  BY CreateReviewReconciles
<1>7. AllRecorded(work'.lock, store')
  BY <1>5, <1>6 DEF AllCovered, AllRecorded
<1>8. SamePackage(work'.lock, repo.lock)
  BY <1>3, <1>6 DEF Reconciles, SamePackage
<1> QED BY <1>1, <1>3, <1>5, <1>7, <1>8, RecordedIsCovered DEF Covering

\* The accepted review whose answer is lost is covered by the packaged lock.
LEMMA CreateReviewLostCovers ==
  ASSUME TypeInv, JobInv, Covering, CreateReviewLost
  PROVE  Covering'
<1>1. pc = "create" /\ store' = Accept(Submission) /\ repo' = repo /\ Finish(repo)
  BY DEF CreateReviewLost
<1>2. /\ StoreKeeps(store, store')
      /\ \A i \in DOMAIN store' : i \in DOMAIN store \/ SamePackage(work.lock, store'[i])
  BY <1>1, SubmissionAccepted DEF SamePackage
<1>3. repo.lock.status # "none" /\ SamePackage(work.lock, repo.lock)
  BY <1>1 DEF JobInv, SubmitPC, Covering
<1>4. \A i \in DOMAIN store' : i \in DOMAIN store \/ Covers(repo.lock, store'[i])
  BY <1>2, <1>3 DEF Covers, SamePackage
<1>5. AllCovered(repo.lock, store')
  BY <1>2, <1>4, StoreKeepsCovered DEF Covering
<1> QED BY <1>1, <1>5, RunEnds DEF Finish

\* Steps of the store and of the developer leave locks and runs alone.
LEMMA OutsideCovers ==
  ASSUME Covering, StoreKeeps(store, store'), repo'.lock = repo.lock,
         work'.lock = work.lock, UNCHANGED <<pc, run>>,
         \A i \in DOMAIN store' : i \in DOMAIN store \/ store'[i].channel = "manual"
  PROVE  Covering'
<1>1. AllCovered(repo.lock, store') /\ AllCovered(work.lock, store')
  BY StoreKeepsCovered DEF Covering
<1>2. AllRecorded(work.lock, store) => AllRecorded(work.lock, store')
  BY StoreKeepsRecorded
<1> QED BY <1>1, <1>2 DEF Covering

\* No step breaks the invariant, as long as no submission job is started again.
LEMMA CoverStep ==
  ASSUME Lookup, Budget["rerun"] = 0, TypeInv, HistoryInv, CoverInv, [Next]_vars
  PROVE  CoverInv'
<1> SUFFICES Covering'
  BY JobStep, CoverParts DEF CoverInv, RunInv, Covering
<1>1. JobInv /\ Covering
  BY CoverParts
<1>2. /\ StoreKeeps(store, store)
      /\ \A i \in DOMAIN store : i \in DOMAIN store
  BY DEF StoreKeeps, SamePackage
<1>3. ASSUME NEW retry \in BOOLEAN, StartRun(retry) PROVE Covering'
  BY <1>1, <1>3 DEF StartRun, NoRun, Covering, SubmitPC
<1>4. CASE \/ PauseForReview \/ RefuseSource \/ PauseAtGuard \/ PushRefused \/ RunFails
  BY <1>1, <1>4, RunAborts
  DEF PauseForReview, RefuseSource, PauseAtGuard, PushRefused, RunFails
<1>5. CASE PassGate
  BY <1>1, <1>5, PassGateCovers
<1>6. CASE LookupRecord
  <2>1. /\ pc' = "reconcile" /\ run'.job = run.job /\ UNCHANGED <<repo, store>>
    BY <1>6, MemoryKept DEF LookupRecord
  <2> QED BY <1>1, <1>6, <2>1, LookupRecordReconciles, RunGoesOn DEF SubmitPC
<1>7. CASE RecoverSubmission
  BY <1>1, <1>7, RecoverSubmissionCovers
<1>8. CASE KeepSource
  <2>1. CASE work.lock # repo.lock
    <3>1. Reconciles(work', work, store)
      BY <1>8, <2>1, UnchangedReconciles DEF KeepSource, HistoryInv
    <3> QED BY <1>1, <1>8, <2>1, <3>1, RunGoesOn DEF KeepSource, Selected
  <2>2. CASE work.lock = repo.lock
    BY <1>1, <1>8, <2>2, RunAborts DEF KeepSource
  <2> QED BY <2>1, <2>2
<1>9. CASE PackageSource
  BY <1>1, <1>9, PackageSourceCovers
<1>10. CASE PushPackaged
  BY <1>1, <1>10, PushPackagedCovers
<1>11. CASE AlreadyRecorded \/ NotExisting \/ PassGuard
  <2>1. /\ pc \in SubmitPC /\ run'.job = run.job /\ UNCHANGED <<repo, work, store>>
    BY <1>11, MemoryKept DEF AlreadyRecorded, NotExisting, PassGuard, SubmitPC
  <2>2. Reconciles(work', work, store)
    BY <2>1, UnchangedReconciles DEF HistoryInv
  <2> QED BY <1>1, <2>1, <2>2, RunGoesOn
<1>12. CASE SkipExisting
  <2>1. /\ pc \in SubmitPC /\ run'.job = run.job /\ UNCHANGED <<repo, store>>
    BY <1>12 DEF SkipExisting, SubmitPC
  <2> QED BY <1>1, <1>12, <2>1, SkipExistingReconciles, RunGoesOn
<1>13. CASE CreateReview
  BY <1>1, <1>13, CreateReviewCovers
<1>14. CASE CreateReviewLost
  BY <1>1, <1>14, CreateReviewLostCovers
<1>15. CASE PushRecord
  BY <1>1, <1>15, RunEnds DEF PushRecord, Finish, Covering
<1>16. ASSUME NEW r \in Recipe, DeveloperPush(r) PROVE Covering'
  <2>1. /\ repo'.lock = repo.lock /\ work'.lock = work.lock /\ UNCHANGED <<store, pc, run>>
    BY <1>16 DEF DeveloperPush, TypeInv, TypeOK, Tree, HistoryInv
  <2> QED BY <1>1, <1>2, <2>1, OutsideCovers
<1>17. ASSUME NEW s \in Source, UpstreamMoves(s) PROVE Covering'
  BY <1>1, <1>2, <1>17, OutsideCovers DEF UpstreamMoves
<1>18. CASE Settle
  BY <1>1, <1>18, SettleKeeps, OutsideCovers DEF Settle, SettleReview
<1>19. ASSUME NEW v \in ManualVersion, SubmitManually(v) PROVE Covering'
  BY <1>1, <1>19, SubmitManuallyKeeps, OutsideCovers DEF SubmitManually
<1>20. ASSUME NEW h \in handoffs PROVE ~ RerunSubmission(h)
  BY DEF RerunSubmission, Spend, TypeInv, TypeOK, Disturbance
<1>21. CASE UNCHANGED vars
  BY <1>1, <1>2, <1>21, OutsideCovers DEF vars
<1> QED
  BY <1>3, <1>4, <1>5, <1>6, <1>7, <1>8, <1>9, <1>10, <1>11, <1>12, <1>13, <1>14, <1>15,
     <1>16, <1>17, <1>18, <1>19, <1>20, <1>21
  DEF Next, RunStep

\* With readable reviews, and without reruns of a submission job, the
\* strengthened invariant holds of every behaviour.
THEOREM RecoveryInvariant ==
  ASSUME Lookup, Budget["rerun"] = 0 PROVE Spec => [](TypeInv /\ RecoveryInv)
<1>1. Init => TypeInv /\ RecoveryInv
  BY TypeInit, HistoryInit, CoverInit DEF RecoveryInv
<1>2. TypeInv /\ RecoveryInv /\ [Next]_vars => (TypeInv /\ RecoveryInv)'
  BY TypeStep, HistoryStep, CoverStep DEF RecoveryInv
<1> QED BY <1>1, <1>2, PTL DEF Spec

\* Whatever fails between the acceptance of a review and the push of its
\* record, the branch covers every review the pipeline created, if its reviews
\* can be read and no submission job is started again.
THEOREM Recoverable ==
  ASSUME Lookup, Budget["rerun"] = 0 PROVE Spec => []SubmissionRecoverable
<1>1. RecoveryInv => SubmissionRecoverable
  BY DEF RecoveryInv, CoverInv, AllCovered, SubmissionRecoverable, Automated
<1> QED BY <1>1, RecoveryInvariant, PTL

-----------------------------------------------------------------------------
(* The last review of a source.                                            *)

\* A source with reviews has a last one, and only one.
LEMMA LastExists ==
  ASSUME store \in Seq(StoreReview), NEW s
  PROVE  /\ LastOf(store, s) = {} <=> ReviewsOf(store, s) = {}
         /\ \A i, j \in LastOf(store, s) : i = j
<1>1. Len(store) \in Nat /\ DOMAIN store = 1..Len(store)
  OBVIOUS
<1>2. ReviewsOf(store, s) \in SUBSET (1..Len(store))
  BY <1>1 DEF ReviewsOf
<1>3. ReviewsOf(store, s) # {} => LastOf(store, s) # {}
  BY <1>1, <1>2, LargestExists DEF LastOf
<1>4. \A i, j \in LastOf(store, s) : i = j
  BY <1>1, <1>2 DEF LastOf
<1> QED BY <1>3, <1>4 DEF LastOf

\* Without a new review of the source, its last review stays the last one, and
\* rejected if it was.
LEMMA StoreKeepsLast ==
  ASSUME NEW reviews, NEW reviews2, StoreKeeps(reviews, reviews2), NEW s,
         \A i \in DOMAIN reviews2 :
           i \in DOMAIN reviews \/ reviews2[i].channel = "manual" \/ reviews2[i].source # s
  PROVE  /\ ReviewsOf(reviews2, s) = ReviewsOf(reviews, s)
         /\ LastOf(reviews2, s) = LastOf(reviews, s)
         /\ \A i \in LastOf(reviews, s) :
              reviews[i].status = "rejected" => reviews2[i].status = "rejected"
<1>1. ReviewsOf(reviews2, s) = ReviewsOf(reviews, s)
  BY DEF ReviewsOf, StoreKeeps, SamePackage
<1> QED BY <1>1 DEF LastOf, ReviewsOf, StoreKeeps

\* So does the right to submit the package of a lock.
LEMMA EntitledKept ==
  ASSUME NEW lock, NEW lock2, Entitled(lock, store, granted), StoreKeeps(store, store'),
         \A i \in DOMAIN store' : \/ i \in DOMAIN store \/ store'[i].channel = "manual"
                                  \/ store'[i].source # lock.source,
         lock.source \in granted => lock.source \in granted',
         lock2.status = "packaged" => lock.status = "packaged" /\ SamePackage(lock2, lock)
  PROVE  Entitled(lock2, store', granted')
<1> SUFFICES ASSUME lock2.status = "packaged",
                    \A i \in ReviewsOf(store', lock2.source) : ~ SamePackage(lock2, store'[i])
             PROVE  \A i \in LastOf(store', lock2.source) :
                      lock2.source \in granted' /\ store'[i].status = "rejected"
  BY DEF Entitled
<1>1. lock.status = "packaged" /\ lock2.source = lock.source /\ SamePackage(lock2, lock)
  BY DEF SamePackage
<1>2. /\ ReviewsOf(store', lock.source) = ReviewsOf(store, lock.source)
      /\ LastOf(store', lock.source) = LastOf(store, lock.source)
      /\ \A i \in LastOf(store, lock.source) :
           store[i].status = "rejected" => store'[i].status = "rejected"
  BY StoreKeepsLast
<1>3. \A i \in ReviewsOf(store, lock.source) : ~ SamePackage(lock, store[i])
  BY <1>1, <1>2 DEF ReviewsOf, StoreKeeps, SamePackage
<1> QED BY <1>1, <1>2, <1>3 DEF Entitled

\* A package whose lock records every review has none itself.
LEMMA UnsubmittedPackage ==
  ASSUME NEW tree, NEW reviews, TreeInv(tree, reviews), AllRecorded(tree.lock, reviews),
         tree.lock.status = "packaged"
  PROVE  \A i \in ReviewsOf(reviews, tree.lock.source) : ~ SamePackage(tree.lock, reviews[i])
BY DEF TreeInv, PackagedIsUnrecorded, AllRecorded, Recorded, ReviewsOf, SamePackage

\* A source without record has no review when every review is recorded.
LEMMA UnrecordedSource ==
  ASSUME NEW lock, NEW reviews, NEW s, AllRecorded(lock, reviews), ~ HasRecord(lock, s)
  PROVE  ReviewsOf(reviews, s) = {}
BY DEF AllRecorded, Recorded, HasRecord, ReviewsOf, SamePackage

\* When every review is recorded, the last record of a source that is rejected
\* is the record of its last review: records and reviews are both in the order
\* of their versions.
LEMMA RejectedIsLast ==
  ASSUME NEW tree \in Tree, store \in Seq(StoreReview), NEW s, TreeInv(tree, store),
         AllRecorded(tree.lock, store), Ordered(store), Rejected(tree.lock, s)
  PROVE  \E k \in LastOf(store, s) : store[k].status = "rejected"
<1> DEFINE records == tree.lock.reviews
<1>1. PICK last \in DOMAIN records :
        /\ records[last].source = s /\ records[last].status = "rejected"
        /\ \A j \in DOMAIN records : records[j].source = s => j <= last
  BY DEF Rejected
<1> DEFINE k == records[last].id
<1>2. RecordTrue(records[last], store)
  BY DEF TreeInv, RecordsTrue
<1>3. /\ k \in DOMAIN store /\ store[k].channel = "automation"
      /\ SamePackage(store[k], records[last]) /\ store[k].status = "rejected"
  BY <1>1, <1>2 DEF RecordTrue, OpenStatus
<1>4. k \in ReviewsOf(store, s)
  BY <1>1, <1>3 DEF ReviewsOf, SamePackage
<1>5. ASSUME NEW j \in ReviewsOf(store, s)
      PROVE  j <= k
  <2>1. PICK i \in DOMAIN records : SamePackage(records[i], store[j])
    BY DEF AllRecorded, Recorded, ReviewsOf
  <2>2. i <= last
    BY <1>1, <2>1 DEF ReviewsOf, SamePackage
  <2>3. /\ i \in Nat /\ last \in Nat
        /\ records[i].version \in Nat /\ records[last].version \in Nat
    <3>1. records \in Seq(Record)
      BY DEF Tree, Lock
    <3>2. i \in Nat /\ last \in Nat /\ records[i] \in Record /\ records[last] \in Record
      BY <3>1
    <3> QED BY <3>2 DEF Record
  <2>4. records[i].version <= records[last].version
    BY <2>2, <2>3 DEF TreeInv, RecordsIncrease
  <2>5. store[j].version <= store[k].version
    BY <1>3, <2>1, <2>4 DEF SamePackage
  <2>6. /\ j \in DOMAIN store /\ j \in Nat /\ k \in Nat
        /\ store[j].version \in Nat /\ store[k].version \in Nat
    BY <1>3, StoreElement DEF ReviewsOf, StoreReview
  <2>7. ~ (k < j)
    BY <1>3, <2>5, <2>6 DEF Ordered, ReviewsOf
  <2> QED BY <2>6, <2>7
<1> QED BY <1>3, <1>4, <1>5 DEF LastOf

-----------------------------------------------------------------------------
(* LedgerInv is kept.                                                      *)

\* What the checkout or the branch has after a step that neither packages nor
\* submits is a lock there was, or one that describes the same package.
LEMMA LocksFrom ==
  ASSUME TypeInv, HistoryInv, [Next]_vars,
         ~ PackageSource, ~ CreateReview, ~ CreateReviewLost,
         \A h \in handoffs : ~ RerunSubmission(h)
  PROVE  /\ repo'.lock \in {repo.lock, work.lock}
         /\ \/ work'.lock \in {repo.lock, work.lock}
            \/ work'.lock.status = "packaged" =>
                 work.lock.status = "packaged" /\ SamePackage(work'.lock, work.lock)
         /\ granted' = granted
<1>1. CASE \/ PauseForReview \/ RefuseSource \/ PauseAtGuard \/ PushRefused \/ RunFails
           \/ PushRecord
  BY <1>1 DEF PauseForReview, RefuseSource, PauseAtGuard, PushRefused, RunFails,
              PushRecord, Finish
<1>2. CASE PassGate
  <2>1. work \in Tree /\ SourceKnown(work) /\ TreeInv(work, store) /\ BeginReconcile(work)
    BY <1>2 DEF TypeInv, TypeOK, HistoryInv, PassGate
  <2>2. work'.lock.status = work.lock.status /\ Reconciles(work', work, store)
    BY <2>1, BeginReconcileHistory
  <2> QED BY <1>2, <2>2 DEF PassGate, Reconciles
<1>3. CASE LookupRecord
  <2>1. work'.lock.status = work.lock.status /\ Reconciles(work', work, store)
    BY <1>3, LookupRecordReconciles
  <2> QED BY <1>3, <2>1 DEF LookupRecord, Reconciles
<1>4. CASE RecoverSubmission
  BY <1>4, RecoverSubmissionReconciles DEF RecoverSubmission
<1>5. CASE KeepSource
  BY <1>5 DEF KeepSource, Finish
<1>6. CASE PushPackaged
  <2>1. CASE run.built
    <3>1. /\ work \in Tree /\ SourceKnown(work) /\ TreeInv(work, store)
          /\ BeginReconcile(work)
      BY <1>6, <2>1 DEF TypeInv, TypeOK, HistoryInv, PushPackaged
    <3>2. work'.lock.status = work.lock.status /\ Reconciles(work', work, store)
      BY <3>1, BeginReconcileHistory
    <3> QED BY <1>6, <3>2 DEF PushPackaged, Reconciles
  <2>2. CASE ~ run.built
    BY <1>6, <2>2 DEF PushPackaged, Finish
  <2> QED BY <2>1, <2>2
<1>7. CASE AlreadyRecorded \/ NotExisting \/ PassGuard
  BY <1>7 DEF AlreadyRecorded, NotExisting, PassGuard
<1>8. CASE SkipExisting
  BY <1>8, SkipExistingReconciles DEF SkipExisting
<1>9. ASSUME NEW r \in Recipe, DeveloperPush(r)
      PROVE  repo'.lock = repo.lock /\ work'.lock \in {repo.lock, work.lock} /\ granted' = granted
  BY <1>9 DEF DeveloperPush, TypeInv, TypeOK, Tree
<1>10. ASSUME \/ \E retry \in BOOLEAN : StartRun(retry)
              \/ \E s \in Source : UpstreamMoves(s)
              \/ \E v \in ManualVersion : SubmitManually(v)
              \/ Settle \/ UNCHANGED vars
       PROVE  UNCHANGED <<repo, work, granted>>
  BY <1>10 DEF StartRun, UpstreamMoves, SubmitManually, Settle, SettleReview, vars
<1> QED BY <1>1, <1>2, <1>3, <1>4, <1>5, <1>6, <1>7, <1>8, <1>9, <1>10 DEF Next, RunStep

\* Steps that neither package nor submit leave every source with its rights.
LEMMA LedgerKept ==
  ASSUME TypeInv, HistoryInv, LedgerInv, [Next]_vars,
         ~ PackageSource, ~ CreateReview, ~ CreateReviewLost,
         \A h \in handoffs : ~ RerunSubmission(h)
  PROVE  LedgerInv'
<1>1. /\ StoreKeeps(store, store')
      /\ \A i \in DOMAIN store' : i \in DOMAIN store \/ store'[i].channel = "manual"
  BY StoreStep
<1>2. /\ repo'.lock \in {repo.lock, work.lock}
      /\ \/ work'.lock \in {repo.lock, work.lock}
         \/ work'.lock.status = "packaged" =>
              work.lock.status = "packaged" /\ SamePackage(work'.lock, work.lock)
      /\ granted' = granted
  BY LocksFrom
<1>3. Ordered(store')
  BY <1>1 DEF LedgerInv, Ordered, StoreKeeps, SamePackage
<1>4. \A s \in granted' : \E i \in LastOf(store', s) : store'[i].status = "rejected"
  BY <1>1, <1>2, StoreKeepsLast DEF LedgerInv
<1>5. \A lock : SamePackage(lock, lock)
  BY DEF SamePackage
<1>6. Entitled(repo'.lock, store', granted') /\ Entitled(work'.lock, store', granted')
  BY <1>1, <1>2, <1>5, EntitledKept DEF LedgerInv
<1> QED BY <1>3, <1>4, <1>6 DEF LedgerInv

\* A package is built for a source that has no review, or that was rejected and
\* is retried now, or for one whose package was not submitted yet.
LEMMA PackageSourceLedger ==
  ASSUME TypeInv, HistoryInv, CoverInv, LedgerInv, PackageSource
  PROVE  /\ LedgerInv'
         /\ run.retry => \E k \in LastOf(store, upstream) : store[k].status = "rejected"
<1>1. /\ pc = "decide" /\ UNCHANGED <<repo, store>>
      /\ granted' = IF run.retry THEN granted \cup {upstream} ELSE granted
      /\ run.retry => Rejected(work.lock, upstream)
      /\ Changed(work, upstream, run.retry)
      /\ work'.lock.source = upstream
  BY DEF PackageSource, Selected, TypeInv, TypeOK, Tree
<1>2. /\ work \in Tree /\ store \in Seq(StoreReview) /\ TreeInv(work, store)
      /\ AllRecorded(work.lock, store) /\ Ordered(store)
  BY <1>1 DEF TypeInv, TypeOK, HistoryInv, CoverInv, RunInv, LedgerInv
<1>3. run.retry => \E k \in LastOf(store, upstream) : store[k].status = "rejected"
  BY <1>1, <1>2, RejectedIsLast
<1>4. \A s \in granted' : \E i \in LastOf(store, s) : store[i].status = "rejected"
  BY <1>1, <1>3 DEF LedgerInv
<1>5. Entitled(repo.lock, store, granted')
  BY <1>1 DEF LedgerInv, Entitled
<1>6. \A i \in LastOf(store, upstream) :
        upstream \in granted' /\ store[i].status = "rejected"
  <2>1. CASE run.retry
    BY <1>1, <1>2, <1>3, <2>1, LastExists
  <2>2. CASE ~ run.retry /\ ~ HasRecord(work.lock, upstream)
    BY <1>2, <2>2, UnrecordedSource DEF LastOf
  <2>3. CASE ~ run.retry /\ HasRecord(work.lock, upstream)
    <3>1. Resumable(work.lock, upstream)
      BY <1>1, <2>3 DEF Changed, Processed
    <3>2. work.lock.status = "packaged" /\ work.lock.source = upstream
      BY <3>1 DEF Resumable
    <3>3. \A i \in ReviewsOf(store, upstream) : ~ SamePackage(work.lock, store[i])
      BY <1>2, <3>2, UnsubmittedPackage
    <3> QED BY <1>1, <2>3, <3>2, <3>3 DEF LedgerInv, Entitled
  <2> QED BY <2>1, <2>2, <2>3
<1>7. Entitled(work'.lock, store, granted')
  BY <1>1, <1>6 DEF Entitled
<1> QED BY <1>1, <1>2, <1>3, <1>4, <1>5, <1>7 DEF LedgerInv

\* What is submitted is of a source that has no review, or whose last one was
\* rejected and may be retried; the submission uses up that right, and its
\* version is higher than all versions submitted before.
LEMMA SubmissionLedgerKept ==
  ASSUME TypeInv, HistoryInv, CoverInv, LedgerInv, CreateReview \/ CreateReviewLost
  PROVE  /\ LedgerInv'
         /\ \A k \in LastOf(store, work.lock.source) :
              work.lock.source \in granted /\ store[k].status = "rejected"
<1> DEFINE s == work.lock.source
           n == Len(store')
<1>1. /\ pc = "create" /\ store' = Accept(Submission) /\ granted' = granted \ {s}
      /\ repo' = repo /\ work.lock.status = "packaged"
      /\ work' = repo' \/ work'.lock.status = "submitted"
  <2>1. CASE CreateReview
    BY <2>1, CreateReviewReconciles DEF CreateReview, TypeInv
  <2>2. CASE CreateReviewLost
    BY <2>2 DEF CreateReviewLost, Finish, TypeInv
  <2> QED BY <2>1, <2>2
<1>2. /\ AllRecorded(work.lock, store) /\ SamePackage(work.lock, repo.lock)
      /\ work \in Tree /\ TreeInv(work, store)
  BY <1>1 DEF CoverInv, RunInv, JobInv, SubmitPC, TypeInv, TypeOK, HistoryInv
<1>3. /\ StoreKeeps(store, store') /\ n \in DOMAIN store'
      /\ \A i \in DOMAIN store' : i \in DOMAIN store \/ i = n
      /\ store'[n] = Submission
      /\ Submission.version = work.lock.version /\ Submission.source = s
      /\ Submission.channel = "automation" /\ SamePackage(Submission, work.lock)
  BY <1>1, SubmissionAccepted DEF Submission
<1>4. Ordered(store')
  <2>1. ASSUME NEW i \in DOMAIN store, store[i].channel = "automation"
        PROVE  store[i].version < work.lock.version
    BY <1>1, <1>2, <2>1, PackagedIsNewer DEF AllRecorded, Recorded, SamePackage
  <2>2. \A i \in DOMAIN store' : i \in Nat /\ i <= n
    BY <1>1, SubmissionType, AcceptType DEF TypeInv, TypeOK
  <2>3. PICK reviews : reviews = store'
    OBVIOUS
  <2> HIDE DEF n
  <2>4. ASSUME NEW i \in DOMAIN reviews, NEW j \in DOMAIN reviews, i < j,
               reviews[i].channel = "automation", reviews[j].channel = "automation"
        PROVE  reviews[i].version < reviews[j].version
    <3>1. CASE j \in DOMAIN store
      <4>1. i \in DOMAIN store
        BY <2>4, <3>1 DEF TypeInv, TypeOK
      <4> QED BY <1>3, <2>3, <2>4, <3>1, <4>1 DEF StoreKeeps, SamePackage, LedgerInv, Ordered
    <3>2. CASE j \notin DOMAIN store
      BY <1>3, <2>1, <2>2, <2>3, <2>4, <3>2 DEF StoreKeeps, SamePackage
    <3> QED BY <3>1, <3>2
  <2> QED BY <2>3, <2>4 DEF Ordered
<1>5. \A t \in granted' : \E i \in LastOf(store', t) : store'[i].status = "rejected"
  <2>1. ASSUME NEW t \in granted' PROVE \E i \in LastOf(store', t) : store'[i].status = "rejected"
    <3>1. \A i \in DOMAIN store' : i \in DOMAIN store \/ store'[i].source # t
      BY <1>1, <1>3
    <3> QED BY <1>1, <1>3, <3>1, StoreKeepsLast DEF LedgerInv
  <2> QED BY <2>1
<1>6. Entitled(repo.lock, store', granted')
  <2>1. n \in ReviewsOf(store', repo.lock.source) /\ SamePackage(repo.lock, store'[n])
    BY <1>2, <1>3 DEF ReviewsOf, SamePackage
  <2> QED BY <2>1 DEF Entitled
<1>7. Entitled(work'.lock, store', granted')
  BY <1>1, <1>6 DEF Entitled
<1>8. \A i \in ReviewsOf(store, s) : ~ SamePackage(work.lock, store[i])
  BY <1>1, <1>2, UnsubmittedPackage
<1> QED BY <1>1, <1>4, <1>5, <1>6, <1>7, <1>8 DEF LedgerInv, Entitled

\* At first there is at most one review, and no retry was granted.
LEMMA LedgerInit == Init => LedgerInv
<1> SUFFICES ASSUME Init PROVE LedgerInv
  OBVIOUS
<1>1. /\ granted = {} /\ work = repo
      /\ \/ repo.lock.status # "packaged" /\ store = <<>>
         \/ \E r \in Recipe, s \in Source, status \in {"packaged", "submitted"} :
              /\ repo.lock = LegacyLock(s, r, status)
              /\ \/ store = <<>>
                 \/ \E rs \in ReviewStatus : store = <<LegacyReview(s, rs)>>
  BY DEF Init, EmptyLock
<1>2. CASE store = <<>>
  BY <1>1, <1>2 DEF LedgerInv, Ordered, Entitled, LastOf, ReviewsOf
<1>3. CASE \E r \in Recipe, s \in Source, status \in {"packaged", "submitted"} :
             /\ repo.lock = LegacyLock(s, r, status)
             /\ \E rs \in ReviewStatus : store = <<LegacyReview(s, rs)>>
  <2>1. PICK r \in Recipe, s \in Source, status \in {"packaged", "submitted"},
             rs \in ReviewStatus :
          repo.lock = LegacyLock(s, r, status) /\ store = <<LegacyReview(s, rs)>>
    BY <1>3
  <2>2. DOMAIN store = {1} /\ store[1] = LegacyReview(s, rs)
    BY <2>1
  <2>3. 1 \in ReviewsOf(store, repo.lock.source) /\ SamePackage(repo.lock, store[1])
    BY <2>1, <2>2 DEF ReviewsOf, SamePackage, LegacyLock, LegacyReview
  <2> QED BY <1>1, <2>2, <2>3 DEF LedgerInv, Ordered, Entitled
<1> QED BY <1>1, <1>2, <1>3

\* No step breaks the invariant, as long as no submission job is started again.
LEMMA LedgerStep ==
  ASSUME Budget["rerun"] = 0, TypeInv, HistoryInv, CoverInv, LedgerInv, [Next]_vars
  PROVE  LedgerInv'
<1>1. ASSUME NEW h \in handoffs PROVE ~ RerunSubmission(h)
  BY DEF RerunSubmission, Spend, TypeInv, TypeOK, Disturbance
<1> QED BY <1>1, LedgerKept, PackageSourceLedger, SubmissionLedgerKept

LEMMA LedgerInvariant ==
  ASSUME Lookup, Budget["rerun"] = 0
  PROVE  Spec => [](TypeInv /\ RecoveryInv /\ LedgerInv)
<1>1. Init => TypeInv /\ RecoveryInv /\ LedgerInv
  BY TypeInit, HistoryInit, CoverInit, LedgerInit DEF RecoveryInv
<1>2. TypeInv /\ RecoveryInv /\ LedgerInv /\ [Next]_vars => (TypeInv /\ RecoveryInv /\ LedgerInv)'
  BY TypeStep, HistoryStep, CoverStep, LedgerStep DEF RecoveryInv
<1> QED BY <1>1, <1>2, PTL DEF Spec

-----------------------------------------------------------------------------
(* What the ledger makes true.                                             *)

\* Each review of the pipeline has a higher version than all those before it,
\* and none is ahead of package.yml on the branch, if the reviews can be read
\* and no submission job is started again.
THEOREM VersionsDoIncrease ==
  ASSUME Lookup, Budget["rerun"] = 0 PROVE Spec => []VersionsIncrease
<1>1. ASSUME TypeInv, RecoveryInv, LedgerInv PROVE VersionsIncrease
  <2>1. /\ VersionIsNewest(repo) /\ repo \in Tree
        /\ AllCovered(repo.lock, store)
    BY <1>1 DEF TypeInv, TypeOK, RecoveryInv, HistoryInv, TreeInv, CoverInv
  <2>2. repo.version \in Nat /\ repo.lock.version \in Nat
    BY <2>1 DEF Tree, Lock
  <2>3. ASSUME NEW i \in Automated PROVE store[i].version <= repo.version
    BY <2>1, <2>2, <2>3 DEF Automated, AllCovered, Covers, Recorded, SamePackage, VersionIsNewest
  <2>4. \A i, j \in Automated : i < j => store[i].version < store[j].version
    BY <1>1 DEF LedgerInv, Ordered, Automated
  <2> QED BY <2>3, <2>4 DEF VersionsIncrease
<1> QED BY <1>1, LedgerInvariant, PTL

\* A source is submitted a second time only when its last review was rejected
\* and an operator asked for the retry.
THEOREM ResubmissionsAreGranted ==
  ASSUME Lookup, Budget["rerun"] = 0 PROVE Spec => ResubmissionIsGranted
<1>1. ASSUME TypeInv, RecoveryInv, LedgerInv, [Next]_vars, Submits
      PROVE  \A i \in LastReview(store'[Len(store')].source) :
               store'[Len(store')].source \in granted /\ store[i].status = "rejected"
  <2>1. /\ CreateReview \/ CreateReviewLost
        /\ store'[Len(store')].source = work.lock.source
    BY <1>1, SubmitsPackage
  <2>2. \A k \in LastOf(store, work.lock.source) :
          work.lock.source \in granted /\ store[k].status = "rejected"
    BY <1>1, <2>1, SubmissionLedgerKept DEF RecoveryInv
  <2> QED BY <2>1, <2>2 DEF LastReview
<1>2. TypeInv /\ RecoveryInv /\ LedgerInv /\ [Next]_vars =>
        [Submits => LET s == store'[Len(store')].source
                    IN  \A i \in LastReview(s) :
                          s \in granted /\ store[i].status = "rejected"]_vars
  BY <1>1
<1> QED BY <1>2, LedgerInvariant, PTL DEF Spec, ResubmissionIsGranted

-----------------------------------------------------------------------------
(* The pipeline implements the ledger.                                     *)

\* The last automated review of the source is rejected.
LastRejected(reviews, s) == \E i \in LastOf(reviews, s) : reviews[i].status = "rejected"

\* The ledger's view of a step, source by source: the sources that have a review,
\* and those whose last review is rejected.
LEMMA LedgerView ==
  ASSUME TypeInv
  PROVE  /\ \A s : s \in {store[i].source : i \in Automated} <=> ReviewsOf(store, s) # {}
         /\ \A s : s \in {store'[i].source : i \in Automated'} <=> ReviewsOf(store', s) # {}
         /\ \A s : LastRejected(store, s) <=>
                     \E i \in LastReview(s) : store[i].status = "rejected"
         /\ \A s : LastRejected(store', s) <=>
                     \E i \in LastReview(s)' : store'[i].status = "rejected"
BY DEF Automated, ReviewsOf, LastRejected, LastReview

\* A step of the ledger, or a stutter, in terms of the reviews of each source.
LEMMA LedgerStutters ==
  ASSUME TypeInv, granted' = granted,
         \A s : ReviewsOf(store, s) # {} <=> ReviewsOf(store', s) # {},
         \A s \in Source : LastRejected(store, s) <=> LastRejected(store', s)
  PROVE  UNCHANGED Ledger!vars
BY LedgerView DEF Ledger!vars

LEMMA LedgerRejects ==
  ASSUME TypeInv, granted' = granted, NEW s \in Source, s \notin granted,
         ReviewsOf(store, s) # {},
         \A t : ReviewsOf(store, t) # {} <=> ReviewsOf(store', t) # {},
         \A t \in Source : LastRejected(store', t) <=> LastRejected(store, t) \/ t = s
  PROVE  Ledger!Reject(s)
BY LedgerView DEF Ledger!Reject

LEMMA LedgerGrants ==
  ASSUME TypeInv, NEW s \in Source, granted' = granted \cup {s}, LastRejected(store, s),
         store' = store
  PROVE  Ledger!Grant(s)
BY LedgerView DEF Ledger!Grant, Automated, LastReview

LEMMA LedgerSubmits ==
  ASSUME TypeInv, NEW s \in Source, granted' = granted \ {s},
         ReviewsOf(store, s) = {} \/ (LastRejected(store, s) /\ s \in granted),
         \A t : ReviewsOf(store', t) # {} <=> ReviewsOf(store, t) # {} \/ t = s,
         \A t \in Source : LastRejected(store', t) <=> LastRejected(store, t) /\ t # s
  PROVE  Ledger!Submit(s)
BY LedgerView DEF Ledger!Submit

\* A reviewer's decision is the ledger's rejection when it rejects the last review
\* of a source, and no step of the ledger otherwise.
LEMMA SettleIsReject ==
  ASSUME TypeInv, LedgerInv, Settle
  PROVE  UNCHANGED Ledger!vars \/ \E s \in Source : Ledger!Reject(s)
<1>1. PICK i \in DOMAIN store, verdict \in {"approved", "rejected", "canceled"} :
        SettleReview(i, verdict)
  BY DEF Settle
<1>2. /\ store' = [store EXCEPT ![i] = [store[i] EXCEPT !.status = verdict]]
      /\ store[i].status = "waiting" /\ granted' = granted
  BY <1>1 DEF SettleReview, Waiting
<1>3. StoreKeeps(store, store') /\ DOMAIN store' = DOMAIN store
  BY SettleKeeps
<1>4. \A t : ReviewsOf(store', t) = ReviewsOf(store, t) /\ LastOf(store', t) = LastOf(store, t)
  BY <1>3, StoreKeepsLast
<1>5. \A t : \A j, k \in LastOf(store, t) : j = k
  BY LastExists DEF TypeInv, TypeOK
<1>6. /\ \A j \in DOMAIN store : j # i => store'[j] = store[j]
      /\ store'[i].status = verdict
  <2>1. store[i] \in StoreReview
    BY StoreElement DEF TypeInv, TypeOK
  <2> QED BY <1>2, <2>1 DEF StoreReview
<1>7. ASSUME NEW t, i \notin LastOf(store, t)
      PROVE  LastRejected(store', t) <=> LastRejected(store, t)
  <2>1. \A j \in LastOf(store, t) : store'[j] = store[j]
    BY <1>6, <1>7 DEF LastOf, ReviewsOf
  <2> QED BY <1>4, <2>1 DEF LastRejected
<1>8. \A t : i \in LastOf(store, t) => /\ t = store[i].source /\ ~ LastRejected(store, t)
                                       /\ LastRejected(store', t) <=> verdict = "rejected"
  BY <1>2, <1>4, <1>5, <1>6 DEF LastRejected, LastOf, ReviewsOf
<1>9. CASE \E s \in Source : i \in LastOf(store, s) /\ verdict = "rejected"
  <2>1. PICK s \in Source : i \in LastOf(store, s) /\ verdict = "rejected"
    BY <1>9
  <2>2. s \notin granted
    BY <1>8, <2>1 DEF LedgerInv, LastRejected
  <2>3. ReviewsOf(store, s) # {}
    BY <2>1 DEF LastOf
  <2>4. \A t \in Source : LastRejected(store', t) <=> LastRejected(store, t) \/ t = s
    BY <1>7, <1>8, <2>1
  <2>5. Ledger!Reject(s)
    BY <1>2, <1>4, <2>2, <2>3, <2>4, LedgerRejects
  <2> QED BY <2>5
<1>10. CASE ~ \E s \in Source : i \in LastOf(store, s) /\ verdict = "rejected"
  <2>1. \A t \in Source : LastRejected(store, t) <=> LastRejected(store', t)
    BY <1>7, <1>8, <1>10
  <2> QED BY <1>2, <1>4, <2>1, LedgerStutters
<1> QED BY <1>9, <1>10

\* A submission by the pipeline is one of the ledger.
LEMMA CreateIsSubmit ==
  ASSUME TypeInv, HistoryInv, CoverInv, LedgerInv, CreateReview \/ CreateReviewLost
  PROVE  \E s \in Source : Ledger!Submit(s)
<1>0. PICK src : src = work.lock.source
  OBVIOUS
<1>1. /\ pc = "create" /\ store' = Accept(Submission) /\ granted' = granted \ {src}
      /\ work.lock.status = "packaged"
  BY <1>0 DEF CreateReview, CreateReviewLost, TypeInv
<1>2. src \in Source
  BY <1>0, <1>1 DEF TypeInv, TypeOK, SourceKnown, Tree, Lock
<1>3. \A k \in LastOf(store, src) : src \in granted /\ store[k].status = "rejected"
  BY <1>0, SubmissionLedgerKept
<1>4. ReviewsOf(store, src) = {} \/ (LastRejected(store, src) /\ src \in granted)
  BY <1>3, LastExists DEF LastRejected, TypeInv, TypeOK
<1>5. PICK n \in DOMAIN store', reviews \in {store'} :
        /\ reviews = store' /\ StoreKeeps(store, reviews)
        /\ \A i \in DOMAIN reviews : i \in DOMAIN store \/ i = n
        /\ \A i \in DOMAIN reviews : i <= n
        /\ reviews[n].source = src /\ reviews[n].channel = "automation"
        /\ reviews[n].status = "waiting"
        /\ \A i \in DOMAIN store : reviews[i].status = "rejected" <=> store[i].status = "rejected"
  <2>1. \A i \in DOMAIN store' : i <= Len(store')
    BY <1>1, SubmissionType, AcceptType DEF TypeInv, TypeOK
  <2> QED BY <1>0, <1>1, <2>1, SubmissionAccepted DEF Submission
<1>6. ASSUME NEW t, t # src
      PROVE  /\ ReviewsOf(reviews, t) = ReviewsOf(store, t)
             /\ LastRejected(reviews, t) <=> LastRejected(store, t)
  <2>1. ReviewsOf(reviews, t) = ReviewsOf(store, t) /\ LastOf(reviews, t) = LastOf(store, t)
    BY <1>5, <1>6, StoreKeepsLast
  <2> QED BY <1>5, <2>1 DEF LastRejected, LastOf, ReviewsOf
<1>7. ReviewsOf(reviews, src) # {} /\ ~ LastRejected(reviews, src)
  <2>1. n \in ReviewsOf(reviews, src)
    BY <1>5 DEF ReviewsOf
  <2>2. \A i \in LastOf(reviews, src) : i = n
    <3>1. reviews \in Seq(StoreReview)
      BY <1>1, <1>5, SubmissionType, AcceptType DEF TypeInv, TypeOK
    <3>2. \A i \in DOMAIN reviews : i \in Nat
      BY <3>1
    <3> QED BY <1>5, <2>1, <3>2 DEF LastOf, ReviewsOf
  <2> QED BY <1>5, <2>1, <2>2 DEF LastRejected
<1>8. /\ \A t : ReviewsOf(store', t) # {} <=> ReviewsOf(store, t) # {} \/ t = src
      /\ \A t \in Source : LastRejected(store', t) <=> LastRejected(store, t) /\ t # src
  BY <1>5, <1>6, <1>7
<1>9. Ledger!Submit(src)
  BY <1>1, <1>2, <1>4, <1>8, LedgerSubmits
<1> QED BY <1>2, <1>9

\* Every step is one of the ledger, or none.
LEMMA LedgerSimulates ==
  ASSUME Budget["rerun"] = 0, TypeInv, HistoryInv, CoverInv, LedgerInv, [Next]_vars
  PROVE  [Ledger!Next]_(Ledger!vars)
<1>1. ASSUME NEW h \in handoffs PROVE ~ RerunSubmission(h)
  BY DEF RerunSubmission, Spend, TypeInv, TypeOK, Disturbance
<1>2. CASE CreateReview \/ CreateReviewLost
  BY <1>2, CreateIsSubmit DEF Ledger!Next
<1>3. CASE PackageSource
  <2>1. /\ UNCHANGED store /\ upstream \in Source
        /\ granted' = IF run.retry THEN granted \cup {upstream} ELSE granted
    BY <1>3 DEF PackageSource, TypeInv, TypeOK
  <2>2. CASE run.retry
    BY <1>3, <2>1, <2>2, PackageSourceLedger, LedgerGrants DEF Ledger!Next, LastRejected
  <2>3. CASE ~ run.retry
    BY <2>1, <2>3, LedgerStutters
  <2> QED BY <2>2, <2>3
<1>4. CASE Settle
  BY <1>4, SettleIsReject DEF Ledger!Next
<1>5. ASSUME NEW v \in ManualVersion, SubmitManually(v)
      PROVE  UNCHANGED Ledger!vars
  <2>1. /\ StoreKeeps(store, store') /\ granted' = granted
        /\ \A i \in DOMAIN store' : i \in DOMAIN store \/ store'[i].channel = "manual"
        /\ \A i \in DOMAIN store : store'[i].status = "rejected" <=> store[i].status = "rejected"
    BY <1>5, SubmitManuallyKeeps DEF SubmitManually
  <2>2. PICK reviews : reviews = store'
    OBVIOUS
  <2>3. \A t : /\ ReviewsOf(reviews, t) = ReviewsOf(store, t)
               /\ LastOf(reviews, t) = LastOf(store, t)
    BY <2>1, <2>2, StoreKeepsLast
  <2>4. \A t : LastRejected(reviews, t) <=> LastRejected(store, t)
    BY <2>1, <2>2, <2>3 DEF LastRejected, LastOf, ReviewsOf
  <2> QED BY <2>1, <2>2, <2>3, <2>4, LedgerStutters
<1>6. CASE /\ ~ CreateReview /\ ~ CreateReviewLost /\ ~ PackageSource /\ ~ Settle
           /\ \A v \in ManualVersion : ~ SubmitManually(v)
  <2>1. UNCHANGED <<store, granted>>
    BY <1>1, <1>6
    DEF Next, RunStep, vars, StartRun, PauseForReview, PassGate, LookupRecord,
        RecoverSubmission, RefuseSource, KeepSource, PushPackaged, AlreadyRecorded,
        SkipExisting, NotExisting, PauseAtGuard, PassGuard, PushRecord, PushRefused,
        RunFails, DeveloperPush, UpstreamMoves
  <2> QED BY <2>1, LedgerStutters
<1> QED BY <1>2, <1>3, <1>4, <1>5, <1>6

\* The pipeline implements the ledger: what reaches the store is a once-only
\* submission per source, or one resubmission per granted retry, if the reviews
\* can be read and no submission job is started again.
THEOREM LedgerIsImplemented ==
  ASSUME Lookup, Budget["rerun"] = 0 PROVE Spec => ImplementsLedger
<1>1. Init => Ledger!Init
  <2> SUFFICES ASSUME Init PROVE Ledger!Init
    OBVIOUS
  <2>1. granted = {} /\ \A i \in Automated : store[i].source \in Source
    BY DEF Init, Automated, LegacyReview
  <2>2. TypeInv
    BY TypeInit
  <2>3. {s \in Source : LastRejected(store, s)} \subseteq {store[i].source : i \in Automated}
    BY <2>2, LedgerView DEF LastRejected, LastOf
  <2> QED BY <2>1, <2>2, <2>3, LedgerView DEF Ledger!Init
<1>2. TypeInv /\ RecoveryInv /\ LedgerInv /\ [Next]_vars => [Ledger!Next]_(Ledger!vars)
  BY LedgerSimulates DEF RecoveryInv
<1> QED BY <1>1, <1>2, LedgerInvariant, PTL DEF Spec, ImplementsLedger, Ledger!Spec

=============================================================================
