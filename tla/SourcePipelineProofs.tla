------------------------ MODULE SourcePipelineProofs ------------------------
(***************************************************************************)
(* Proofs about SourcePipeline for all values of its constants.            *)
(***************************************************************************)
EXTENDS SourcePipeline, TLAPS

-----------------------------------------------------------------------------
(* Helpers keep their types.                                               *)

\* Recording a review of the lock gives a list of records again.
LEMMA RecordReviewType ==
  ASSUME NEW reviews \in Seq(Record), NEW new \in Record
  PROVE  RecordReview(reviews, new) \in Seq(Record)
<1>1. CASE \E i \in DOMAIN reviews : SameReview(reviews[i], new)
  <2> DEFINE f == [i \in DOMAIN reviews |->
                     IF /\ SameReview(reviews[i], new)
                        /\ \A j \in 1..(i - 1) : ~ SameReview(reviews[j], new)
                     THEN new ELSE reviews[i]]
  <2>1. DOMAIN reviews = 1..Len(reviews) /\ Len(reviews) \in Nat
    OBVIOUS
  <2>2. \A i \in 1..Len(reviews) : f[i] \in Record
    BY <2>1
  <2>3. f \in [1..Len(reviews) -> Record]
    BY <2>1, <2>2
  <2>4. f \in Seq(Record)
    BY <2>1, <2>3
  <2>5. RecordReview(reviews, new) = f
    BY <1>1 DEF RecordReview
  <2> QED BY <2>4, <2>5
<1>2. CASE ~ \E i \in DOMAIN reviews : SameReview(reviews[i], new)
  BY <1>2 DEF RecordReview
<1> QED BY <1>1, <1>2

\* What the lock describes makes a record, whatever status it is given.
LEMMA RecordOfType ==
  ASSUME NEW lock \in Lock, lock.source # NoSource,
         NEW status \in RecordStatus, NEW dated \in BOOLEAN
  PROVE  RecordOf(lock, status, dated) \in Record
BY DEF RecordOf, Record, Lock

\* A record that takes over the store's answer is still a record.
LEMMA AppliedType ==
  ASSUME NEW record \in Record, NEW id \in Nat, NEW review \in StoreReview
  PROVE  Applied(record, id, review) \in Record
BY DEF Applied, Record, StoreReview, RecordStatus

\* A submission that the store accepts leaves a list of reviews.
LEMMA AcceptType ==
  ASSUME store \in Seq(StoreReview), NEW review \in StoreReview
  PROVE  Accept(review) \in Seq(StoreReview)
<1> DEFINE f == [i \in DOMAIN store |->
                   IF store[i].status = "waiting"
                   THEN [store[i] EXCEPT !.status = "canceled"] ELSE store[i]]
<1>1. DOMAIN store = 1..Len(store) /\ Len(store) \in Nat
  OBVIOUS
<1>2. ASSUME NEW i \in 1..Len(store)
      PROVE  f[i] \in StoreReview
  <2>1. store[i] \in StoreReview
    BY <1>1
  <2>2. [store[i] EXCEPT !.status = "canceled"] \in StoreReview
    BY <2>1 DEF StoreReview, ReviewStatus
  <2> QED BY <1>1, <2>1, <2>2
<1>3. f \in [1..Len(store) -> StoreReview]
  BY <1>1, <1>2
<1>4. f \in Seq(StoreReview)
  BY <1>1, <1>3
<1> QED BY <1>4 DEF Accept

\* A lock from before the history is a lock after its migration.
LEMMA MigratedType ==
  ASSUME NEW lock \in Lock, lock.status = "none" <=> lock.source = NoSource
  PROVE  Migrated(lock) \in Lock
<1>1. CASE lock.status = "submitted"
  <2>1. RecordOf(lock, "submitted", FALSE) \in Record
    BY <1>1, RecordOfType DEF RecordStatus
  <2>2. RecordReview(lock.reviews, RecordOf(lock, "submitted", FALSE)) \in Seq(Record)
    BY <2>1, RecordReviewType DEF Lock
  <2> QED BY <2>2 DEF Migrated, Lock
<1>2. CASE lock.status # "submitted"
  BY <1>2 DEF Migrated
<1> QED BY <1>1, <1>2

\* The version chosen for a package is a natural number.
LEMMA NewVersionType ==
  ASSUME NEW tree \in Tree, NEW s \in Source, NEW retry \in BOOLEAN
  PROVE  NewVersion(tree, s, retry) \in Nat
BY SourceAssumption DEF NewVersion, SourceApplicationVersion, Tree, Lock

-----------------------------------------------------------------------------
(* Type correctness.  A lock has a source exactly when it has a status, and *)
(* a review is created only from a packaged lock: without the two, a record *)
(* of no source could be written.                                           *)

SourceKnown(tree) == tree.lock.status = "none" <=> tree.lock.source = NoSource

HandoffsKnown == \A h \in handoffs : h \in Handoff /\ SourceKnown(h.tree)

TypeInv ==
  /\ TypeOK
  /\ SourceKnown(repo) /\ SourceKnown(work) /\ HandoffsKnown
  /\ pc \in {"guard", "create"} => work.lock.status = "packaged"
  /\ pc = "reconcile" => run.cursor # 0

\* A branch with an empty lock, or with one from before the history, is type correct.
LEMMA TypeInit == Init => TypeInv
<1> SUFFICES ASSUME Init PROVE TypeInv
  OBVIOUS
<1>1. repo \in Tree /\ SourceKnown(repo) /\ store \in Seq(StoreReview) /\ builds \in Nat
  <2>1. PICK r \in Recipe :
          \/ /\ repo = [lock |-> EmptyLock(r), version |-> InitialVersion, recipe |-> r]
             /\ store = <<>> /\ builds = 0
          \/ /\ LegacyLocks
             /\ \E s \in Source, status \in {"packaged", "submitted"} :
                  /\ repo = [lock |-> LegacyLock(s, r, status),
                             version |-> InitialVersion, recipe |-> r]
                  /\ \/ store = <<>>
                     \/ \E rs \in ReviewStatus : store = <<LegacyReview(s, rs)>>
             /\ builds = 1
    BY DEF Init
  <2>2. CASE /\ repo = [lock |-> EmptyLock(r), version |-> InitialVersion, recipe |-> r]
             /\ store = <<>> /\ builds = 0
    BY <2>2, SettingsAssumption DEF EmptyLock, Tree, Lock, SourceKnown
  <2>3. ASSUME NEW s \in Source, NEW status \in {"packaged", "submitted"},
               repo = [lock |-> LegacyLock(s, r, status),
                       version |-> InitialVersion, recipe |-> r],
               \/ store = <<>>
               \/ \E rs \in ReviewStatus : store = <<LegacyReview(s, rs)>>,
               builds = 1
        PROVE  /\ repo \in Tree /\ SourceKnown(repo)
               /\ store \in Seq(StoreReview) /\ builds \in Nat
    <3>1. repo \in Tree /\ SourceKnown(repo)
      BY <2>3, SettingsAssumption, SourceAssumption DEF LegacyLock, Tree, Lock, SourceKnown
    <3>2. \A rs \in ReviewStatus : LegacyReview(s, rs) \in StoreReview
      BY SettingsAssumption DEF LegacyReview, StoreReview
    <3>3. \A x \in StoreReview : <<x>> \in Seq(StoreReview)
      OBVIOUS
    <3>4. store \in Seq(StoreReview)
      <4>1. CASE store = <<>>
        BY <4>1
      <4>2. CASE \E rs \in ReviewStatus : store = <<LegacyReview(s, rs)>>
        BY <3>2, <3>3, <4>2
      <4> QED BY <2>3, <4>1, <4>2
    <3> QED BY <2>3, <3>1, <3>4
  <2> QED BY <2>1, <2>2, <2>3
<1>2. run \in Memory
  BY DEF Init, NoRun, Memory
<1> QED BY <1>1, <1>2 DEF Init, TypeInv, TypeOK, Disturbance, HandoffsKnown

\* The end of a run, whichever tree the branch has then.
LEMMA FinishType ==
  ASSUME NEW tree \in Tree, SourceKnown(tree), repo' = tree, Finish(tree),
         store' \in Seq(StoreReview), upstream' \in Source, builds' \in Nat,
         spent' \in [Disturbance -> Nat], granted' \subseteq Source,
         handoffs' \subseteq Handoff, HandoffsKnown'
  PROVE  TypeInv'
BY DEF Finish, NoRun, Memory, TypeInv, TypeOK, SourceKnown

\* The disturbances so far are counted in naturals.
LEMMA SpendType ==
  ASSUME spent \in [Disturbance -> Nat], NEW d \in Disturbance, Spend(d)
  PROVE  spent' \in [Disturbance -> Nat]
BY DEF Spend

\* A run that enters reconcileReviews has a type correct checkout.
LEMMA BeginReconcileType ==
  ASSUME NEW tree \in Tree, SourceKnown(tree), BeginReconcile(tree)
  PROVE  /\ work' \in Tree /\ SourceKnown(work')
         /\ pc' \in {"reconcile", "decide"}
<1>1. Migrated(tree.lock) \in Lock
  BY MigratedType DEF Tree, SourceKnown
<1>2. /\ Migrated(tree.lock).status = tree.lock.status
      /\ Migrated(tree.lock).source = tree.lock.source
  BY DEF Migrated, Tree, Lock
<1> QED BY <1>1, <1>2 DEF BeginReconcile, Tree, SourceKnown

\* A packaged lock that is marked as submitted, with its record, is a lock.
LEMMA SubmittedType ==
  ASSUME NEW tree \in Tree, SourceKnown(tree), tree.lock.status # "none",
         NEW new \in Record
  PROVE  LET result == [tree EXCEPT !.lock.status = "submitted",
                          !.lock.reviews = RecordReview(@, new)]
         IN  result \in Tree /\ SourceKnown(result)
<1>1. RecordReview(tree.lock.reviews, new) \in Seq(Record)
  BY RecordReviewType DEF Tree, Lock
<1> QED BY <1>1 DEF Tree, Lock, SourceKnown

\* What a run submits is a review of the store, and its record is a record.
LEMMA SubmissionType ==
  ASSUME TypeInv, pc \in {"guard", "create"}
  PROVE  /\ RecordOf(work.lock, "submitted", TRUE) \in Record
         /\ Submission \in StoreReview
BY RecordOfType
DEF TypeInv, TypeOK, Tree, Lock, SourceKnown, RecordStatus, ReviewStatus, Submission, StoreReview

\* Every review of the store has the fields of a review.
LEMMA StoreElement ==
  ASSUME store \in Seq(StoreReview), NEW i \in DOMAIN store
  PROVE  /\ i \in 1..Len(store)
         /\ store[i] \in StoreReview
<1>1. DOMAIN store = 1..Len(store)
  OBVIOUS
<1> QED BY <1>1

\* The packaged commits that can be submitted again have a source, whether the
\* branch moves on, a package is added or one is submitted.
LEMMA HandoffStep == TypeInv /\ [Next]_vars => HandoffsKnown'
<1> SUFFICES ASSUME TypeInv, [Next]_vars PROVE HandoffsKnown'
  OBVIOUS
<1>1. \A h \in LeftBehind : h \in Handoff /\ SourceKnown(h.tree)
  BY DEF TypeInv, HandoffsKnown, LeftBehind, Handoff
<1>2. CASE handoffs' \subseteq handoffs
  BY <1>2 DEF TypeInv, HandoffsKnown, SourceKnown
<1>3. CASE handoffs' = LeftBehind
  BY <1>1, <1>3 DEF HandoffsKnown, SourceKnown
<1>4. CASE PushPackaged
  <2>1. CASE handoffs' = HandedOver(work)
    <3>1. [tree |-> work, behind |-> FALSE] \in Handoff
      BY DEF TypeInv, TypeOK, Handoff
    <3>2. SourceKnown([tree |-> work, behind |-> FALSE].tree)
      BY DEF TypeInv
    <3>3. HandedOver(work) \subseteq LeftBehind \cup {[tree |-> work, behind |-> FALSE]}
      BY DEF HandedOver
    <3>4. \A h \in HandedOver(work) : h \in Handoff /\ SourceKnown(h.tree)
      BY <1>1, <3>1, <3>2, <3>3
    <3> QED BY <2>1, <3>4 DEF HandoffsKnown, SourceKnown
  <2> QED BY <1>3, <1>4, <2>1 DEF PushPackaged
<1>5. handoffs' \subseteq handoffs \/ handoffs' = LeftBehind \/ PushPackaged
  BY DEF Next, RunStep, vars, StartRun, PauseForReview, PassGate, LookupRecord,
         RecoverSubmission, RefuseSource, KeepSource, PackageSource, AlreadyRecorded,
         SkipExisting, NotExisting, PauseAtGuard, PassGuard, CreateReview,
         CreateReviewLost, PushRecord, PushRefused, RunFails, RerunSubmission,
         DeveloperPush, UpstreamMoves, Settle, SettleReview, SubmitManually
<1> QED BY <1>2, <1>3, <1>4, <1>5

\* No step of a run, of the store or of the parties outside breaks the types.
LEMMA TypeStep == TypeInv /\ [Next]_vars => TypeInv'
<1> SUFFICES ASSUME TypeInv, [Next]_vars, handoffs' \subseteq Handoff, HandoffsKnown'
             PROVE  TypeInv'
  BY HandoffStep DEF HandoffsKnown
<1> USE DEF TypeInv, TypeOK
<1>1. ASSUME NEW retry \in BOOLEAN, StartRun(retry) PROVE TypeInv'
  BY <1>1, SpendType DEF StartRun, NoRun, Memory, SourceKnown, Disturbance
<1>2. CASE PauseForReview
  BY <1>2, FinishType DEF PauseForReview
<1>3. CASE PassGate
  <2>1. work' \in Tree /\ SourceKnown(work') /\ pc' \in {"reconcile", "decide"}
    BY <1>3, BeginReconcileType DEF PassGate
  <2>2. ASSUME NEW i \in Waiting(store)
        PROVE  store[i].version \in Nat
    BY StoreElement DEF Waiting, StoreReview
  <2>3. run' \in Memory /\ run'.cursor = 1
    <3>1. CASE run' = [run EXCEPT !.cursor = 1]
      BY <3>1 DEF Memory
    <3>2. ASSUME NEW i \in Waiting(store),
                 run' = [run EXCEPT !.cursor = 1, !.waiting = store[i].version]
          PROVE  run' \in Memory /\ run'.cursor = 1
      BY <2>2, <3>2 DEF Memory
    <3> QED BY <1>3, <3>1, <3>2 DEF PassGate
  <2>4. UNCHANGED <<repo, behind, store, upstream, builds, spent, granted>>
    BY <1>3 DEF PassGate
  <2> QED BY <2>1, <2>3, <2>4 DEF SourceKnown
<1>4. CASE LookupRecord
  <2> DEFINE reviews == work.lock.reviews
             record == reviews[run.cursor]
  <2>1. /\ work.lock \in Lock /\ reviews \in Seq(Record)
            /\ run.cursor \in 1..Len(reviews) /\ record \in Record
    <3>1. work.lock \in Lock /\ reviews \in Seq(Record)
      BY DEF Tree, Lock
    <3>2. run.cursor \in 1..Len(reviews)
      <4>1. run.cursor \in Nat
        BY DEF Memory
      <4>2. run.cursor <= Len(reviews) /\ run.cursor # 0
        BY <1>4 DEF LookupRecord
      <4> QED BY <3>1, <4>1, <4>2
    <3> QED BY <3>1, <3>2
  <2>2. ASSUME NEW r \in Record, work' = [work EXCEPT !.lock.reviews[run.cursor] = r]
        PROVE  work' \in Tree /\ SourceKnown(work')
    <3>1. [reviews EXCEPT ![run.cursor] = r] \in Seq(Record)
      BY <2>1
    <3> QED BY <2>1, <2>2, <3>1 DEF Tree, Lock, SourceKnown
  <2>3. work' \in Tree /\ SourceKnown(work')
    <3>1. CASE UNCHANGED work
      BY <3>1 DEF SourceKnown
    <3>2. ASSUME NEW i \in FindReview(record.id, record.version, record.sha),
                 work' = [work EXCEPT !.lock.reviews[run.cursor] =
                            Applied(record, i, store[i])]
          PROVE  work' \in Tree /\ SourceKnown(work')
      <4>1. i \in 1..Len(store) /\ store[i] \in StoreReview
        BY StoreElement DEF FindReview
      <4> HIDE DEF record
      <4>2. Applied(record, i, store[i]) \in Record
        BY <2>1, <4>1, AppliedType
      <4> QED BY <2>2, <3>2, <4>2
    <3>3. CASE work' = [work EXCEPT !.lock.reviews[run.cursor] =
                          [record EXCEPT !.status = "untracked"]]
      <4>1. [record EXCEPT !.status = "untracked"] \in Record
        BY <2>1 DEF Record, RecordStatus
      <4> QED BY <2>2, <3>3, <4>1
    <3> QED BY <1>4, <3>1, <3>2, <3>3 DEF LookupRecord
  <2>4. /\ run' = [run EXCEPT !.cursor = @ + 1] /\ pc = "reconcile"
        /\ UNCHANGED <<repo, behind, store, upstream, pc, builds, spent, granted>>
    BY <1>4 DEF LookupRecord
  <2>5. run' \in Memory /\ run'.cursor # 0
    BY <2>4 DEF Memory
  <2> QED BY <2>3, <2>4, <2>5 DEF SourceKnown
<1>5. CASE RecoverSubmission
  <2>1. work' \in Tree /\ SourceKnown(work')
    <3>1. CASE UNCHANGED work
      BY <3>1 DEF SourceKnown
    <3>2. ASSUME work.lock.status = "packaged",
                 NEW i \in FindReview(0, work.lock.version, work.lock.sha),
                 work' = [work EXCEPT !.lock.status = "submitted",
                           !.lock.reviews = RecordReview(@,
                              Applied(RecordOf(work.lock, "submitted", FALSE), i, store[i]))]
          PROVE  work' \in Tree /\ SourceKnown(work')
      <4>1. i \in 1..Len(store) /\ store[i] \in StoreReview
        BY StoreElement DEF FindReview
      <4> DEFINE new == RecordOf(work.lock, "submitted", FALSE)
      <4>2. new \in Record
        BY <3>2, RecordOfType DEF RecordStatus, SourceKnown, Tree
      <4> HIDE DEF new
      <4>3. Applied(new, i, store[i]) \in Record
        BY <4>1, <4>2, AppliedType
      <4> USE DEF new
      <4> QED BY <3>2, <4>3, SubmittedType
    <3> QED BY <1>5, <3>1, <3>2 DEF RecoverSubmission
  <2> QED BY <1>5, <2>1 DEF RecoverSubmission, SourceKnown
<1>6. CASE RefuseSource
  BY <1>6, FinishType DEF RefuseSource
<1>7. CASE KeepSource
  <2>1. CASE work.lock # repo.lock
    BY <1>7, <2>1 DEF KeepSource, SourceKnown
  <2>2. CASE work.lock = repo.lock
    BY <1>7, <2>2, FinishType DEF KeepSource
  <2> QED BY <2>1, <2>2
<1>8. CASE PackageSource
  <2>1. NewVersion(work, upstream, run.retry) \in Nat
    <3>1. run.retry \in BOOLEAN
      BY DEF Memory
    <3> QED BY <3>1, NewVersionType
  <2> DEFINE version == NewVersion(work, upstream, run.retry)
             lock == [source |-> upstream, recipe |-> work.recipe, status |-> "packaged",
                      version |-> version, sha |-> builds + 1, dated |-> TRUE,
                      reviews |-> work.lock.reviews]
  <2>2. version \in Nat /\ work' = [work EXCEPT !.version = version, !.lock = lock]
    BY <1>8, <2>1 DEF PackageSource, Memory
  <2> HIDE DEF version
  <2>3. lock \in Lock /\ lock.status # "none" /\ lock.source # NoSource
    <3>1. work.recipe \in Recipe /\ work.lock.reviews \in Seq(Record)
      BY DEF Tree, Lock
    <3> QED BY <2>2, <3>1, SourceAssumption DEF Lock
  <2> HIDE DEF lock
  <2>4. work' \in Tree /\ SourceKnown(work')
    BY <2>2, <2>3 DEF Tree, SourceKnown
  <2>5. /\ run' = [run EXCEPT !.built = TRUE] /\ builds' = builds + 1 /\ pc' = "push"
        /\ granted' = IF run.retry THEN granted \cup {upstream} ELSE granted
        /\ UNCHANGED <<repo, behind, store, upstream, spent>>
    BY <1>8 DEF PackageSource
  <2>6. run' \in Memory
    BY <2>5 DEF Memory
  <2> QED BY <2>4, <2>5, <2>6 DEF SourceKnown
<1>9. CASE PushPackaged
  <2>1. CASE run.built
    <3>1. work' \in Tree /\ SourceKnown(work') /\ pc' \in {"reconcile", "decide"}
      BY <1>9, <2>1, BeginReconcileType DEF PushPackaged
    <3>2. /\ run' = [run EXCEPT !.job = "submit", !.cursor = 1] /\ repo' = work
          /\ UNCHANGED <<behind, store, upstream, builds, spent, granted>>
      BY <1>9, <2>1 DEF PushPackaged
    <3>3. run' \in Memory /\ run'.cursor = 1
      BY <3>2 DEF Memory
    <3> QED BY <3>1, <3>2, <3>3 DEF SourceKnown
  <2>2. CASE ~ run.built
    BY <1>9, <2>2, FinishType DEF PushPackaged
  <2> QED BY <2>1, <2>2
<1>10. CASE AlreadyRecorded
  BY <1>10 DEF AlreadyRecorded, SourceKnown
<1>11. CASE SkipExisting
  <2>1. RecordOf(work.lock, "approved", TRUE) \in Record
    BY <1>11, RecordOfType DEF SkipExisting, RecordStatus, ReviewStatus, SourceKnown, Tree
  <2>2. work' \in Tree /\ SourceKnown(work')
    BY <1>11, <2>1, SubmittedType DEF SkipExisting
  <2> QED BY <1>11, <2>2 DEF SkipExisting, SourceKnown
<1>12. CASE NotExisting
  BY <1>12 DEF NotExisting, SourceKnown
<1>13. CASE PauseAtGuard
  BY <1>13, FinishType DEF PauseAtGuard
<1>14. CASE PassGuard
  <2>1. run' \in Memory
    BY <1>14 DEF PassGuard, Memory
  <2> QED BY <1>14, <2>1 DEF PassGuard, SourceKnown
<1>15. CASE CreateReview
  <2>1. RecordOf(work.lock, "submitted", TRUE) \in Record /\ Submission \in StoreReview
    BY <1>15, SubmissionType DEF CreateReview
  <2>2. store' \in Seq(StoreReview) /\ Len(store') \in Nat
    BY <1>15, <2>1, AcceptType DEF CreateReview
  <2>3. Applied(RecordOf(work.lock, "submitted", TRUE), Len(store'), Submission) \in Record
    BY <2>1, <2>2, AppliedType
  <2>4. work' \in Tree /\ SourceKnown(work')
    <3>1. ASSUME NEW answer \in Record,
                 work' = [work EXCEPT !.lock.status = "submitted",
                            !.lock.reviews = RecordReview(@, answer)]
          PROVE  work' \in Tree /\ SourceKnown(work')
      BY <1>15, <3>1, SubmittedType DEF CreateReview
    <3> QED BY <1>15, <2>1, <2>3, <3>1 DEF CreateReview
  <2> QED BY <1>15, <2>2, <2>4 DEF CreateReview, SourceKnown
<1>16. CASE CreateReviewLost
  <2>1. store' \in Seq(StoreReview)
    BY <1>16, SubmissionType, AcceptType DEF CreateReviewLost
  <2> QED BY <1>16, <2>1, FinishType, SpendType DEF CreateReviewLost, Disturbance
<1>17. CASE PushRecord
  BY <1>17, FinishType DEF PushRecord
<1>18. CASE PushRefused
  BY <1>18, FinishType DEF PushRefused
<1>19. CASE RunFails
  BY <1>19, FinishType, SpendType DEF RunFails, Disturbance
<1>20. ASSUME NEW r \in Recipe, DeveloperPush(r) PROVE TypeInv'
  <2>1. repo' \in Tree /\ SourceKnown(repo')
    BY <1>20 DEF DeveloperPush, Tree, SourceKnown
  <2>2. work' \in Tree /\ SourceKnown(work') /\ behind' \in BOOLEAN
    BY <1>20, <2>1 DEF DeveloperPush, SourceKnown
  <2> QED BY <1>20, <2>1, <2>2, SpendType DEF DeveloperPush, Disturbance
<1>21. ASSUME NEW s \in Source, UpstreamMoves(s) PROVE TypeInv'
  BY <1>21 DEF UpstreamMoves, SourceKnown
<1>22. CASE Settle
  <2>1. PICK i \in DOMAIN store, verdict \in {"approved", "rejected", "canceled"} :
          SettleReview(i, verdict)
    BY <1>22 DEF Settle
  <2>2. [store[i] EXCEPT !.status = verdict] \in StoreReview
    BY StoreElement DEF StoreReview, ReviewStatus
  <2>3. store' \in Seq(StoreReview)
    BY <2>1, <2>2 DEF SettleReview
  <2> QED BY <2>1, <2>3 DEF SettleReview, SourceKnown
<1>23. ASSUME NEW v \in ManualVersion, SubmitManually(v) PROVE TypeInv'
  <2>1. [version |-> v, sha |-> 0, source |-> NoSource,
         channel |-> "manual", status |-> "waiting"] \in StoreReview
    BY SettingsAssumption DEF StoreReview, ReviewStatus
  <2>2. store' \in Seq(StoreReview)
    BY <1>23, <2>1, AcceptType DEF SubmitManually
  <2> QED BY <1>23, <2>2, SpendType DEF SubmitManually, SourceKnown, Disturbance
<1>24. ASSUME NEW h \in handoffs, RerunSubmission(h) PROVE TypeInv'
  <2>1. h.tree \in Tree /\ h.behind \in BOOLEAN /\ SourceKnown(h.tree)
    BY DEF Handoff, HandoffsKnown
  <2>2. work' \in Tree /\ SourceKnown(work') /\ pc' \in {"reconcile", "decide"}
    BY <1>24, <2>1, BeginReconcileType DEF RerunSubmission
  <2>3. run' \in Memory /\ run'.cursor = 1
    BY <1>24 DEF RerunSubmission, NoRun, Memory
  <2>4. spent' \in [Disturbance -> Nat]
    BY <1>24, SpendType DEF RerunSubmission, Disturbance
  <2> QED BY <1>24, <2>1, <2>2, <2>3, <2>4 DEF RerunSubmission, SourceKnown
<1>25. CASE UNCHANGED vars
  BY <1>25 DEF vars, SourceKnown
<1> QED
  BY <1>1, <1>2, <1>3, <1>4, <1>5, <1>6, <1>7, <1>8, <1>9, <1>10, <1>11, <1>12, <1>13,
     <1>14, <1>15, <1>16, <1>17, <1>18, <1>19, <1>20, <1>21, <1>22, <1>23, <1>24, <1>25
  DEF Next, RunStep

\* Branch, checkout, store and run keep their types in every behaviour: in
\* particular no record is ever written for a lock without source, and records
\* hold only statuses that reconcileReviews understands.
THEOREM TypeCorrect == Spec => []TypeOK
<1>1. TypeInv => TypeOK
  BY DEF TypeInv
<1> QED BY <1>1, TypeInit, TypeStep, PTL DEF Spec

=============================================================================
