------------------------ MODULE SourcePipelineHistory ------------------------
(***************************************************************************)
(* What the pipeline keeps is true and is never lost, for all values of    *)
(* the constants: HistoryInv of SourcePipeline is inductive relative to    *)
(* the type invariant, whatever the credentials allow and whatever is      *)
(* started again.                                                          *)
(***************************************************************************)
EXTENDS SourcePipelineProofs

-----------------------------------------------------------------------------
(* The store.                                                              *)

\* A store that only adds reviews and settles waiting ones keeps what was known.
StoreKeeps(reviews, reviews2) ==
  /\ DOMAIN reviews \subseteq DOMAIN reviews2
  /\ \A i \in DOMAIN reviews :
       /\ SamePackage(reviews[i], reviews2[i])
       /\ reviews2[i].channel = reviews[i].channel
       /\ reviews[i].status # "waiting" => reviews2[i].status = reviews[i].status
       /\ reviews2[i].status = "waiting" => reviews[i].status = "waiting"

\* Reviews that keep their package leave a tree's invariant as it is.
LEMMA StoreKeepsTree ==
  ASSUME NEW tree, NEW reviews, NEW reviews2, StoreKeeps(reviews, reviews2),
         TreeInv(tree, reviews)
  PROVE  TreeInv(tree, reviews2)
BY DEF TreeInv, RecordsTrue, RecordTrue, StoreKeeps, SamePackage, OpenStatus

\* A submission that the store accepts cancels reviews, but changes no package and
\* no rejection.
LEMMA AcceptKeeps ==
  ASSUME store \in Seq(StoreReview), NEW review \in StoreReview, store' = Accept(review)
  PROVE  /\ StoreKeeps(store, store')
         /\ DOMAIN store' = 1..(Len(store) + 1)
         /\ Len(store') = Len(store) + 1
         /\ store'[Len(store) + 1] = review
         /\ \A i \in DOMAIN store :
              store'[i].status = "rejected" <=> store[i].status = "rejected"
<1> DEFINE f == [i \in DOMAIN store |->
                   IF store[i].status = "waiting"
                   THEN [store[i] EXCEPT !.status = "canceled"] ELSE store[i]]
<1>1. DOMAIN store = 1..Len(store) /\ Len(store) \in Nat
  OBVIOUS
<1>2. ASSUME NEW i \in 1..Len(store)
      PROVE  /\ f[i] \in StoreReview
             /\ SamePackage(store[i], f[i]) /\ f[i].channel = store[i].channel
             /\ store[i].status # "waiting" => f[i].status = store[i].status
             /\ f[i].status = "waiting" => store[i].status = "waiting"
             /\ f[i].status = "rejected" <=> store[i].status = "rejected"
  <2>1. store[i] \in StoreReview
    BY <1>1
  <2>2. [store[i] EXCEPT !.status = "canceled"] \in StoreReview
    BY <2>1 DEF StoreReview, ReviewStatus
  <2> QED BY <1>1, <2>1, <2>2 DEF SamePackage, StoreReview
<1>3. f \in [1..Len(store) -> StoreReview]
  BY <1>1, <1>2
<1>4. f \in Seq(StoreReview) /\ Len(f) = Len(store)
  BY <1>1, <1>3
<1>5. store' = Append(f, review)
  BY DEF Accept
<1> HIDE DEF f
<1>6. /\ Len(store') = Len(store) + 1 /\ DOMAIN store' = 1..(Len(store) + 1)
      /\ store'[Len(store) + 1] = review
      /\ \A i \in 1..Len(store) : store'[i] = f[i]
  BY <1>1, <1>4, <1>5
<1> QED BY <1>1, <1>2, <1>6 DEF StoreKeeps

\* The accepted review is the only one the store did not have before.
LEMMA SubmissionAccepted ==
  ASSUME TypeInv, pc = "create", store' = Accept(Submission)
  PROVE  /\ StoreKeeps(store, store')
         /\ Len(store') = Len(store) + 1 /\ Len(store') \in DOMAIN store'
         /\ Len(store') \in Nat /\ Len(store') # 0
         /\ \A i \in DOMAIN store' : i \in DOMAIN store \/ i = Len(store')
         /\ store'[Len(store')] = Submission
         /\ SamePackage(Submission, work.lock)
         /\ \A i \in DOMAIN store :
              store'[i].status = "rejected" <=> store[i].status = "rejected"
<1>1. store \in Seq(StoreReview) /\ Submission \in StoreReview
  BY SubmissionType DEF TypeInv, TypeOK
<1>2. SamePackage(Submission, work.lock)
  BY DEF SamePackage, Submission
<1>3. DOMAIN store = 1..Len(store) /\ Len(store) \in Nat
  BY <1>1
<1>4. /\ StoreKeeps(store, store') /\ DOMAIN store' = 1..(Len(store) + 1)
      /\ Len(store') = Len(store) + 1 /\ store'[Len(store) + 1] = Submission
      /\ \A i \in DOMAIN store :
           store'[i].status = "rejected" <=> store[i].status = "rejected"
  BY <1>1, AcceptKeeps
<1> QED BY <1>2, <1>3, <1>4

\* A reviewer's decision changes no package.
LEMMA SettleKeeps ==
  ASSUME TypeInv, Settle
  PROVE  StoreKeeps(store, store') /\ DOMAIN store' = DOMAIN store
<1>1. PICK i \in DOMAIN store, verdict \in {"approved", "rejected", "canceled"} :
        SettleReview(i, verdict)
  BY DEF Settle
<1>2. /\ store' = [store EXCEPT ![i] = [store[i] EXCEPT !.status = verdict]]
      /\ store[i].status = "waiting"
  BY <1>1 DEF SettleReview, Waiting
<1>3. \A j \in DOMAIN store : store[j] \in StoreReview
  BY StoreElement DEF TypeInv, TypeOK
<1>4. DOMAIN store' = DOMAIN store
  BY <1>2
<1>5. ASSUME NEW j \in DOMAIN store
      PROVE  /\ SamePackage(store[j], store'[j]) /\ store'[j].channel = store[j].channel
             /\ store[j].status # "waiting" => store'[j].status = store[j].status
             /\ store'[j].status = "waiting" => store[j].status = "waiting"
  <2>1. CASE j = i
    <3>1. store'[j] = [store[j] EXCEPT !.status = verdict]
      BY <1>2, <2>1
    <3> QED BY <1>2, <1>3, <2>1, <3>1 DEF SamePackage, StoreReview
  <2>2. CASE j # i
    BY <1>2, <2>2 DEF SamePackage
  <2> QED BY <2>1, <2>2
<1> QED BY <1>4, <1>5 DEF StoreKeeps

\* A review submitted by hand is not one of the pipeline's.
LEMMA SubmitManuallyKeeps ==
  ASSUME TypeInv, NEW v \in ManualVersion, SubmitManually(v)
  PROVE  /\ StoreKeeps(store, store') /\ Len(store') = Len(store) + 1
         /\ \A i \in DOMAIN store' :
              i \in DOMAIN store \/ (i = Len(store') /\ store'[i].channel = "manual")
         /\ \A i \in DOMAIN store :
              store'[i].status = "rejected" <=> store[i].status = "rejected"
<1> DEFINE review == [version |-> v, sha |-> 0, source |-> NoSource,
                      channel |-> "manual", status |-> "waiting"]
<1>1. store' = Accept(review)
  BY DEF SubmitManually
<1>2. review \in StoreReview /\ review.channel = "manual"
  BY SettingsAssumption DEF StoreReview, ReviewStatus
<1> HIDE DEF review
<1>3. store \in Seq(StoreReview)
  BY DEF TypeInv, TypeOK
<1>4. DOMAIN store = 1..Len(store) /\ Len(store) \in Nat
  BY <1>3
<1> QED BY <1>1, <1>2, <1>3, <1>4, AcceptKeeps

-----------------------------------------------------------------------------
(* Trees.  Everything a run does to the lock before it packages, or to      *)
(* record a submission, continues the history and adds no package.         *)

\* Every package a lock knows of was known before.
KeepsPackages(new, old) ==
  \A p \in PackagesOf(new) : \E q \in PackagesOf(old) : SamePackage(p, q)

\* The tree result is as good as the one it was made from, and covers as much.
Reconciles(result, tree, reviews) ==
  /\ TreeInv(result, reviews)
  /\ SamePackage(result.lock, tree.lock)
  /\ Continues(result.lock.reviews, tree.lock.reviews)
  /\ KeepsPackages(result.lock, tree.lock)
  /\ \A review : /\ Recorded(tree.lock, review) => Recorded(result.lock, review)
                 /\ Covers(tree.lock, review) => Covers(result.lock, review)

\* A tree that is left alone is as good as it was.
LEMMA UnchangedReconciles ==
  ASSUME NEW tree, NEW reviews, TreeInv(tree, reviews)
  PROVE  Reconciles(tree, tree, reviews)
BY DEF Reconciles, SamePackage, Continues, KeepsPackages

\* The packages of a lock with records of packages that were known.
LEMMA PackagesFrom ==
  ASSUME NEW new, NEW old, SamePackage(new, old), old.status # "none",
         \A i \in DOMAIN new.reviews :
           \/ SamePackage(new.reviews[i], old)
           \/ \E j \in DOMAIN old.reviews : SamePackage(new.reviews[i], old.reviews[j])
  PROVE  KeepsPackages(new, old)
BY DEF KeepsPackages, PackagesOf

\* The tree with its lock marked as submitted, with its record.
MarksSubmitted(result, tree, new) ==
  result = [tree EXCEPT !.lock.status = "submitted",
              !.lock.reviews = RecordReview(@, new)]

\* A package that is newer than every record gets the record it had not: it is
\* appended, and what the lock covered is recorded from then on.
LEMMA RecordAppended ==
  ASSUME NEW tree \in Tree, NEW reviews, NEW new \in Record, NEW result,
         TreeInv(tree, reviews), tree.lock.status # "none",
         SamePackage(new, tree.lock), new.recipe = tree.lock.recipe,
         RecordTrue(new, reviews),
         \A i \in DOMAIN tree.lock.reviews : tree.lock.reviews[i].version < new.version,
         MarksSubmitted(result, tree, new)
  PROVE  /\ Reconciles(result, tree, reviews)
         /\ RecordsItself(result.lock) /\ result.lock.status = "submitted"
         /\ \A review : Covers(tree.lock, review) => Recorded(result.lock, review)
<1> DEFINE old == tree.lock.reviews
           records == Append(old, new)
<1>1. tree.lock \in Lock /\ old \in Seq(Record)
  BY DEF Tree, Lock
<1>2. /\ DOMAIN old = 1..Len(old) /\ Len(old) \in Nat
      /\ \A i \in 1..Len(old) : old[i] \in Record
  BY <1>1
<1>3. ASSUME NEW i \in DOMAIN old
      PROVE  ~ SameReview(old[i], new)
  <2>1. old[i].version # new.version
    <3>1. old[i] \in Record /\ old[i].version < new.version
      BY <1>2, <1>3
    <3>2. old[i].version \in Nat /\ new.version \in Nat
      BY <3>1 DEF Record
    <3> QED BY <3>1, <3>2
  <2> QED
    BY <1>3, <2>1 DEF SameReview, TreeInv, RecordsTrue, RecordTrue, SamePackage
<1>4. RecordReview(old, new) = records
  BY <1>3 DEF RecordReview
<1>5. /\ DOMAIN records = 1..(Len(old) + 1)
      /\ \A i \in 1..Len(old) : records[i] = old[i]
      /\ records[Len(old) + 1] = new
  BY <1>1, <1>2
<1>6. /\ result.lock = [tree.lock EXCEPT !.status = "submitted", !.reviews = records]
      /\ result.version = tree.version
  BY <1>4 DEF MarksSubmitted, Tree, Lock
<1> HIDE DEF records
<1>7. /\ result.lock.reviews = records /\ result.lock.status = "submitted"
      /\ SamePackage(result.lock, tree.lock) /\ result.lock.recipe = tree.lock.recipe
  <2> DEFINE lock == [tree.lock EXCEPT !.status = "submitted", !.reviews = records]
  <2>1. lock.reviews = records /\ lock.status = "submitted"
    BY <1>1 DEF Lock
  <2>2. SamePackage(lock, tree.lock) /\ lock.recipe = tree.lock.recipe
    BY <1>1 DEF Lock, SamePackage
  <2> QED BY <1>6, <2>1, <2>2
<1>8. RecordsItself(result.lock)
  BY <1>2, <1>5, <1>7 DEF RecordsItself, SamePackage
<1>9. TreeInv(result, reviews)
  <2>1. tree.lock.version = tree.version /\ tree.version \in Nat
    BY DEF TreeInv, VersionIsNewest, Tree
  <2>2. VersionIsNewest(result)
    <3>1. \A i \in DOMAIN records : records[i].version <= tree.version
      BY <1>2, <1>5, <2>1 DEF TreeInv, VersionIsNewest, SamePackage
    <3> QED BY <1>6, <1>7, <2>1, <3>1 DEF VersionIsNewest, SamePackage
  <2>3. RecordsIncrease(result.lock)
    <3>1. ASSUME NEW i \in 1..(Len(old) + 1), NEW j \in 1..(Len(old) + 1), i < j
          PROVE  records[i].version < records[j].version
      <4>1. i \in DOMAIN old /\ records[i] = old[i]
        BY <1>2, <1>5, <3>1
      <4>2. CASE j = Len(old) + 1
        BY <1>5, <4>1, <4>2
      <4>3. CASE j # Len(old) + 1
        <5>1. j \in DOMAIN old /\ records[j] = old[j]
          BY <1>2, <1>5, <4>3
        <5> QED BY <3>1, <4>1, <5>1 DEF TreeInv, RecordsIncrease
      <4> QED BY <4>2, <4>3
    <3> QED BY <1>5, <1>7, <3>1 DEF RecordsIncrease
  <2>4. PackagedIsUnrecorded(result.lock) /\ SubmittedIsRecorded(result.lock)
    BY <1>7, <1>8 DEF PackagedIsUnrecorded, SubmittedIsRecorded
  <2>5. RecordsTrue(result.lock, reviews)
    BY <1>2, <1>5, <1>7 DEF TreeInv, RecordsTrue
  <2> QED BY <2>2, <2>3, <2>4, <2>5 DEF TreeInv
<1>10. Continues(result.lock.reviews, old)
  BY <1>2, <1>5, <1>7 DEF Continues, SamePackage
<1>11. KeepsPackages(result.lock, tree.lock)
  <2>1. ASSUME NEW i \in DOMAIN result.lock.reviews
        PROVE  \/ SamePackage(result.lock.reviews[i], tree.lock)
               \/ \E j \in DOMAIN old : SamePackage(result.lock.reviews[i], old[j])
    <3>1. CASE i = Len(old) + 1
      BY <1>5, <1>7, <3>1
    <3>2. CASE i # Len(old) + 1
      <4>1. i \in DOMAIN old /\ records[i] = old[i]
        BY <1>2, <1>5, <1>7, <2>1, <3>2
      <4> QED BY <1>7, <4>1 DEF SamePackage
    <3> QED BY <3>1, <3>2
  <2> QED BY <1>7, <2>1, PackagesFrom
<1>12. ASSUME NEW review
       PROVE  /\ Recorded(tree.lock, review) => Recorded(result.lock, review)
              /\ Covers(tree.lock, review) => Recorded(result.lock, review)
  <2>1. Recorded(tree.lock, review) => Recorded(result.lock, review)
    BY <1>2, <1>5, <1>7 DEF Recorded
  <2>2. SamePackage(tree.lock, review) => Recorded(result.lock, review)
    BY <1>2, <1>5, <1>7 DEF Recorded, SamePackage
  <2> QED BY <2>1, <2>2 DEF Covers
<1>13. \A review : Covers(tree.lock, review) => Covers(result.lock, review)
  BY <1>12 DEF Covers
<1> QED BY <1>7, <1>8, <1>9, <1>10, <1>11, <1>12, <1>13 DEF Reconciles

\* A packaged lock is newer than every record.
LEMMA PackagedIsNewer ==
  ASSUME NEW tree \in Tree, NEW reviews, TreeInv(tree, reviews),
         tree.lock.status = "packaged"
  PROVE  \A i \in DOMAIN tree.lock.reviews :
           tree.lock.reviews[i].version < tree.lock.version
<1>1. tree.lock.reviews \in Seq(Record) /\ tree.version \in Nat
  BY DEF Tree, Lock
<1>2. ASSUME NEW i \in DOMAIN tree.lock.reviews
      PROVE  tree.lock.reviews[i].version < tree.lock.version
  <2>1. tree.lock.reviews[i] \in Record
    BY <1>1
  <2>2. tree.lock.reviews[i].version \in Nat
    BY <2>1 DEF Record
  <2> QED BY <1>1, <2>2 DEF TreeInv, VersionIsNewest, PackagedIsUnrecorded
<1> QED BY <1>2

\* A package that is submitted, or found at the store, gets its record.
LEMMA RecordSubmission ==
  ASSUME NEW tree \in Tree, NEW reviews, NEW new \in Record, NEW result,
         TreeInv(tree, reviews), tree.lock.status = "packaged",
         SamePackage(new, tree.lock), new.recipe = tree.lock.recipe,
         RecordTrue(new, reviews), MarksSubmitted(result, tree, new)
  PROVE  /\ Reconciles(result, tree, reviews)
         /\ RecordsItself(result.lock) /\ result.lock.status = "submitted"
         /\ \A review : Covers(tree.lock, review) => Recorded(result.lock, review)
<1>1. \A i \in DOMAIN tree.lock.reviews : tree.lock.reviews[i].version < new.version
  BY PackagedIsNewer DEF SamePackage
<1> QED BY <1>1, RecordAppended

\* The tree left by the migration of its lock.
MigratesTo(tree, result) == result = [tree EXCEPT !.lock = Migrated(@)]

\* After the migration a submitted lock has a record of its package.
LEMMA MigrationRecords ==
  ASSUME NEW tree \in Tree, NEW reviews, NEW result,
         SourceKnown(tree), TreeInv(tree, reviews),
         MigratesTo(tree, result)
  PROVE  /\ Reconciles(result, tree, reviews)
         /\ result.lock.status = "submitted" => RecordsItself(result.lock)
         /\ result.lock.status = tree.lock.status
         /\ tree.lock.status # "submitted" => result = tree
<1> DEFINE new == RecordOf(tree.lock, "submitted", FALSE)
<1>1. tree.lock \in Lock
  BY DEF Tree
<1>2. CASE ~ (tree.lock.status = "submitted" /\ tree.lock.reviews = <<>>)
  <2>1. tree.lock.status = "submitted" => RecordsItself(tree.lock)
    BY <1>2 DEF TreeInv, SubmittedIsRecorded
  <2>2. Migrated(tree.lock) = tree.lock
    BY <2>1 DEF Migrated, RecordsItself, SameFingerprint, SamePackage
  <2>3. result = tree
    BY <2>2 DEF MigratesTo, Tree
  <2> QED BY <2>1, <2>3, UnchangedReconciles
<1>3. CASE tree.lock.status = "submitted" /\ tree.lock.reviews = <<>>
  <2>1. new \in Record
    BY <1>1, <1>3, RecordOfType DEF SourceKnown, RecordStatus
  <2>2. /\ SamePackage(new, tree.lock) /\ new.recipe = tree.lock.recipe
        /\ RecordTrue(new, reviews)
    BY DEF RecordOf, SamePackage, RecordTrue
  <2>3. Migrated(tree.lock) = [tree.lock EXCEPT !.reviews = RecordReview(@, new)]
    BY <1>3 DEF Migrated
  <2> HIDE DEF new
  <2>4. MarksSubmitted(result, tree, new)
    <3> DEFINE records == RecordReview(tree.lock.reviews, new)
    <3>1. result = [tree EXCEPT !.lock = [tree.lock EXCEPT !.reviews = records]]
      BY <2>3 DEF MigratesTo
    <3> HIDE DEF records
    <3>2. [tree.lock EXCEPT !.reviews = records]
            = [tree.lock EXCEPT !.status = "submitted", !.reviews = records]
      BY <1>1, <1>3 DEF Lock
    <3>3. result = [tree EXCEPT !.lock.status = "submitted", !.lock.reviews = records]
      BY <1>1, <3>1, <3>2 DEF Tree, Lock
    <3> QED BY <3>3 DEF MarksSubmitted, records
  <2>5. \A i \in DOMAIN tree.lock.reviews : tree.lock.reviews[i].version < new.version
    BY <1>3
  <2> QED BY <1>3, <2>1, <2>2, <2>4, <2>5, RecordAppended
<1> QED BY <1>2, <1>3

\* The version of a new package is ahead of the tree, or is that of a package
\* without record.
LEMMA NewVersionFresh ==
  ASSUME NEW tree \in Tree, NEW s \in Source, NEW retry \in BOOLEAN, NEW reviews,
         TreeInv(tree, reviews), Changed(tree, s, retry)
  PROVE  LET version == NewVersion(tree, s, retry)
         IN  /\ version >= tree.version
             /\ \A i \in DOMAIN tree.lock.reviews : tree.lock.reviews[i].version # version
<1> DEFINE version == NewVersion(tree, s, retry)
           Same == SameFingerprint(tree.lock, FingerprintOf(tree, s))
<1>0. tree.version \in Nat
      /\ \A i \in DOMAIN tree.lock.reviews : /\ tree.lock.reviews[i].version \in Nat
                                             /\ tree.lock.reviews[i].version <= tree.version
  <2>1. tree.lock.reviews \in Seq(Record)
    BY DEF Tree, Lock
  <2>2. \A i \in DOMAIN tree.lock.reviews : tree.lock.reviews[i].version \in Nat
    <3>1. \A i \in DOMAIN tree.lock.reviews : tree.lock.reviews[i] \in Record
      BY <2>1
    <3> QED BY <3>1 DEF Record
  <2> QED BY <2>2 DEF TreeInv, VersionIsNewest, Tree
<1>1. CASE version > tree.version
  BY <1>0, <1>1, NewVersionType
<1>2. CASE ~ (version > tree.version)
  <2>1. /\ Same /\ tree.lock.status \in {"packaged", "submitted"}
        /\ version = tree.lock.version
        /\ retry => Resumable(tree.lock, s)
    BY <1>0, <1>2, SourceAssumption DEF NewVersion, SourceApplicationVersion
  <2>2. version = tree.version
    BY <2>1 DEF TreeInv, VersionIsNewest
  <2>3. \A i \in DOMAIN tree.lock.reviews : tree.lock.reviews[i].version # tree.lock.version
    <3>1. CASE retry
      BY <2>1, <3>1 DEF Resumable
    <3>2. CASE ~ retry
      <4>1. tree.lock.status = "packaged"
        BY <2>1, <3>2 DEF Changed
      <4> QED BY <4>1 DEF TreeInv, PackagedIsUnrecorded
    <3> QED BY <3>1, <3>2
  <2> QED BY <1>0, <2>1, <2>2, <2>3
<1> QED BY <1>1, <1>2

-----------------------------------------------------------------------------
(* Packages.                                                               *)

\* Every package the lock knows of is one that is known already.
Known(lock) == \A p \in PackagesOf(lock) : \E q \in Packages : SamePackage(p, q)

\* The store keeps its reviews, and those it gains are of known packages, or
\* are not the pipeline's.
StoreKnown ==
  /\ StoreKeeps(store, store')
  /\ \A i \in DOMAIN store' :
       \/ i \in DOMAIN store \/ store'[i].channel = "manual"
       \/ \E q \in Packages : SamePackage(store'[i], q)

\* The locks of the branch, of the checkout and of packaged commits are known.
LEMMA TreesKnown ==
  /\ Known(repo.lock) /\ Known(work.lock)
  /\ \A h \in handoffs : Known(h.tree.lock)
BY DEF Known, Packages, SamePackage

\* What keeps the packages of a known lock is known.
LEMMA KeepsKnown ==
  ASSUME NEW new, NEW old, KeepsPackages(new, old), Known(old)
  PROVE  Known(new)
BY DEF KeepsPackages, Known, SamePackage

\* A step that builds nothing and mentions only known packages leaves every
\* hash the name of one package.
LEMMA HashesKept ==
  ASSUME HashesNamePackages, UNCHANGED builds, StoreKnown,
         Known(repo'.lock), Known(work'.lock), \A h \in handoffs' : Known(h.tree.lock)
  PROVE  HashesNamePackages'
<1>1. ASSUME NEW i \in Automated'
      PROVE  \E q \in Packages : SamePackage(store'[i], q)
  <2>1. CASE i \in DOMAIN store
    <3>1. i \in Automated /\ SamePackage(store'[i], store[i])
      BY <1>1, <2>1 DEF StoreKnown, StoreKeeps, Automated, SamePackage
    <3>2. store[i] \in Packages
      BY <3>1 DEF Packages
    <3> QED BY <3>1, <3>2
  <2>2. CASE i \notin DOMAIN store
    BY <1>1, <2>2 DEF StoreKnown, Automated
  <2> QED BY <2>1, <2>2
<1>2. \A p \in Packages' : \E q \in Packages : SamePackage(p, q)
  <2>1. ASSUME NEW p \in Packages'
        PROVE  \/ p \in PackagesOf(repo'.lock) \/ p \in PackagesOf(work'.lock)
               \/ \E h \in handoffs' : p \in PackagesOf(h.tree.lock)
               \/ \E i \in Automated' : p = store'[i]
    BY Zenon DEF Packages
  <2> QED BY <1>1, <2>1 DEF Known
<1>3. ASSUME NEW p \in Packages', NEW q \in Packages', p.sha = q.sha
      PROVE  SamePackage(p, q)
  <2>1. PICK p2 \in Packages, q2 \in Packages : SamePackage(p, p2) /\ SamePackage(q, q2)
    BY <1>2
  <2>2. SamePackage(p2, q2)
    BY <1>3, <2>1 DEF HashesNamePackages, SamePackage
  <2> QED BY <2>1, <2>2 DEF SamePackage
<1>4. \A p \in Packages' : p.sha \in 1..builds'
  BY <1>2 DEF HashesNamePackages, SamePackage
<1> QED BY <1>3, <1>4 DEF HashesNamePackages

\* The packaged commits after a step: those there were, or the tree itself.
HandoffsFrom(tree) ==
  \A h \in handoffs' :
    \/ h.tree = tree
    \/ h.behind /\ \E g \in handoffs : h.tree = g.tree

\* Marking commits as behind keeps their trees.
LEMMA LeftBehindFrom ==
  ASSUME TypeInv, NEW h \in LeftBehind
  PROVE  h.behind /\ \E g \in handoffs : h.tree = g.tree
BY DEF TypeInv, HandoffsKnown, Handoff, LeftBehind

-----------------------------------------------------------------------------
(* The invariant holds initially and is kept by each kind of step.         *)

\* An empty lock has no history, and one from before the history names the
\* package of the only review there can be.
LEMMA HistoryInit == Init => HistoryInv
<1> SUFFICES ASSUME Init PROVE HistoryInv
  OBVIOUS
<1>1. PICK r \in Recipe :
        \/ /\ repo = [lock |-> EmptyLock(r), version |-> InitialVersion, recipe |-> r]
           /\ store = <<>>
        \/ /\ builds = 1
           /\ \E s \in Source, status \in {"packaged", "submitted"} :
                /\ repo = [lock |-> LegacyLock(s, r, status),
                           version |-> InitialVersion, recipe |-> r]
                /\ \/ store = <<>>
                   \/ \E rs \in ReviewStatus : store = <<LegacyReview(s, rs)>>
  BY DEF Init
<1>2. repo.lock.reviews = <<>> /\ work = repo /\ handoffs = {} /\ pc = "idle"
  BY <1>1 DEF Init, EmptyLock, LegacyLock
<1>3. TreeInv(repo, store)
  BY <1>1, <1>2 DEF TreeInv, VersionIsNewest, RecordsIncrease, PackagedIsUnrecorded,
                    SubmittedIsRecorded, RecordsTrue, EmptyLock, LegacyLock
<1>4. HashesNamePackages
  <2>1. CASE repo.lock = EmptyLock(r) /\ store = <<>>
    <3>1. Packages = {}
      BY <1>2, <2>1 DEF Packages, PackagesOf, Automated, EmptyLock
    <3> QED BY <3>1 DEF HashesNamePackages
  <2>2. ASSUME NEW s \in Source, NEW status \in {"packaged", "submitted"}, builds = 1,
               repo.lock = LegacyLock(s, r, status),
               \/ store = <<>>
               \/ \E rs \in ReviewStatus : store = <<LegacyReview(s, rs)>>
        PROVE  HashesNamePackages
    <3>1. PackagesOf(repo.lock) = {repo.lock}
      BY <1>2, <2>2 DEF PackagesOf, LegacyLock
    <3>2. \A p \in Packages : p = repo.lock \/ \E i \in DOMAIN store : p = store[i]
      BY <1>2, <3>1, Zenon DEF Packages, Automated
    <3>3. \A i \in DOMAIN store : \E rs \in ReviewStatus : store[i] = LegacyReview(s, rs)
      BY <2>2
    <3>4. \A p \in Packages : p.sha = 1 /\ p.source = s /\ p.version = InitialVersion
      BY <2>2, <3>2, <3>3 DEF LegacyLock, LegacyReview
    <3> QED BY <2>2, <3>4 DEF HashesNamePackages, SamePackage
  <2> QED BY <1>1, <2>1, <2>2
<1> QED BY <1>2, <1>3, <1>4 DEF HistoryInv, Continues, SamePackage

\* A run that stops leaves the branch as it was; a submission may have been
\* accepted all the same.
LEMMA RunStops ==
  ASSUME HistoryInv, StoreKnown, Finish(repo), UNCHANGED <<repo, builds, handoffs>>
  PROVE  HistoryInv'
<1>1. TreeInv(repo, store') /\ \A h \in handoffs : TreeInv(h.tree, store')
  BY StoreKeepsTree DEF HistoryInv, StoreKnown
<1>2. HashesNamePackages'
  BY TreesKnown, HashesKept DEF HistoryInv, Finish
<1> QED BY <1>1, <1>2 DEF HistoryInv, Finish, Continues, SamePackage

\* The store or a reviewer does something, or a run starts.
LEMMA StoreMoves ==
  ASSUME HistoryInv, StoreKnown, UNCHANGED <<repo, work, behind, builds, handoffs>>,
         pc' = pc \/ (pc = "idle" /\ pc' = "gate")
  PROVE  HistoryInv'
<1>1. /\ TreeInv(repo, store') /\ TreeInv(work, store')
      /\ \A h \in handoffs : TreeInv(h.tree, store')
  BY StoreKeepsTree DEF HistoryInv, StoreKnown
<1>2. HashesNamePackages'
  BY TreesKnown, HashesKept DEF HistoryInv
<1> QED BY <1>1, <1>2 DEF HistoryInv

\* A run goes on with a checkout that is as good as it was.
LEMMA RunContinues ==
  ASSUME HistoryInv, StoreKnown, UNCHANGED <<repo, behind, builds, handoffs>>,
         Reconciles(work', work, store'), pc' \notin {"idle", "gate"},
         work'.lock.status = "submitted" => RecordsItself(work'.lock)
  PROVE  HistoryInv'
<1>1. TreeInv(repo, store') /\ \A h \in handoffs : TreeInv(h.tree, store')
  BY StoreKeepsTree DEF HistoryInv, StoreKnown
<1>2. HashesNamePackages'
  <2>1. Known(work'.lock)
    BY TreesKnown, KeepsKnown DEF Reconciles
  <2> QED BY <2>1, TreesKnown, HashesKept DEF HistoryInv
<1>3. ~ behind => Continues(work'.lock.reviews, repo.lock.reviews)
  BY DEF HistoryInv, Reconciles, Continues, SamePackage
<1> QED BY <1>1, <1>2, <1>3 DEF HistoryInv, Reconciles

\* A checkout that is pushed becomes the branch, and the next checkout is as good.
LEMMA RunCommits ==
  ASSUME HistoryInv, ~ behind, repo' = work, UNCHANGED <<store, builds>>,
         HandoffsFrom(work), Reconciles(work', work, store),
         \/ pc' = "idle" /\ work' = work
         \/ /\ pc' \notin {"idle", "gate"}
            /\ work'.lock.status = "submitted" => RecordsItself(work'.lock)
  PROVE  HistoryInv'
<1>1. StoreKnown
  BY DEF StoreKnown, StoreKeeps, SamePackage
<1>2. /\ Known(repo'.lock) /\ Known(work'.lock)
      /\ \A h \in handoffs' : Known(h.tree.lock)
  BY TreesKnown, KeepsKnown DEF Reconciles, HandoffsFrom
<1>3. HashesNamePackages'
  BY <1>1, <1>2, HashesKept DEF HistoryInv
<1>4. \A h \in handoffs' : /\ TreeInv(h.tree, store)
                           /\ ~ h.behind => h.tree.lock = repo'.lock
  BY DEF HistoryInv, HandoffsFrom
<1> QED BY <1>3, <1>4 DEF HistoryInv, Reconciles

-----------------------------------------------------------------------------
(* The steps of a run.                                                     *)

\* The gate, and the submission job, migrate the lock they start from.
LEMMA BeginReconcileHistory ==
  ASSUME NEW tree \in Tree, NEW reviews, SourceKnown(tree), TreeInv(tree, reviews),
         BeginReconcile(tree)
  PROVE  /\ Reconciles(work', tree, reviews)
         /\ pc' \in {"decide", "reconcile"}
         /\ work'.lock.status = "submitted" => RecordsItself(work'.lock)
         /\ work'.lock.status = tree.lock.status
         /\ tree.lock.status # "submitted" => work' = tree
<1>1. MigratesTo(tree, work') /\ pc' \in {"decide", "reconcile"}
  BY DEF BeginReconcile, MigratesTo
<1>2. /\ Reconciles(work', tree, reviews)
      /\ work'.lock.status = "submitted" => RecordsItself(work'.lock)
      /\ work'.lock.status = tree.lock.status
      /\ tree.lock.status # "submitted" => work' = tree
  BY <1>1, MigrationRecords
<1> QED BY <1>1, <1>2

\* What FindReview finds for a known package is a review of that package.
LEMMA FoundPackage ==
  ASSUME HashesNamePackages, NEW p \in Packages, NEW id,
         NEW i \in FindReview(id, p.version, p.sha),
         id # 0 => store[id].channel = "automation" /\ SamePackage(store[id], p)
  PROVE  /\ i \in DOMAIN store /\ store[i].channel = "automation"
         /\ SamePackage(store[i], p)
<1>1. CASE id # 0
  BY <1>1 DEF FindReview
<1>2. CASE id = 0
  <2>1. /\ i \in DOMAIN store /\ store[i].channel = "automation"
        /\ store[i].version = p.version /\ store[i].sha = p.sha
    BY <1>2 DEF FindReview
  <2>2. store[i] \in Packages
    BY <2>1 DEF Packages, Automated
  <2> QED BY <2>1, <2>2 DEF HashesNamePackages, SamePackage
<1> QED BY <1>1, <1>2

\* A record that is still open may be replaced by one of the same package.
LEMMA RecordReplaced ==
  ASSUME NEW tree \in Tree, NEW reviews, TreeInv(tree, reviews),
         NEW cursor \in DOMAIN tree.lock.reviews, NEW r \in Record, NEW result,
         SamePackage(r, tree.lock.reviews[cursor]),
         r.recipe = tree.lock.reviews[cursor].recipe,
         tree.lock.reviews[cursor].status \in OpenStatus,
         RecordTrue(r, reviews),
         result = [tree EXCEPT !.lock.reviews[cursor] = r]
  PROVE  /\ Reconciles(result, tree, reviews)
         /\ result.lock.status = tree.lock.status
         /\ RecordsItself(tree.lock) => RecordsItself(result.lock)
<1> DEFINE old == tree.lock.reviews
           records == [old EXCEPT ![cursor] = r]
<1>1. tree.lock \in Lock /\ old \in Seq(Record)
  BY DEF Tree, Lock
<1>2. /\ result.lock.reviews = records /\ result.version = tree.version
      /\ result.lock.status = tree.lock.status /\ result.lock.recipe = tree.lock.recipe
      /\ SamePackage(result.lock, tree.lock)
  BY <1>1 DEF Tree, Lock, SamePackage
<1>3. /\ DOMAIN records = DOMAIN old
      /\ \A i \in DOMAIN old : /\ SamePackage(records[i], old[i])
                               /\ records[i].recipe = old[i].recipe
                               /\ i = cursor => records[i] = r
                               /\ i # cursor => records[i] = old[i]
  BY <1>1 DEF SamePackage
<1> HIDE DEF records
<1>4. RecordsItself(tree.lock) => RecordsItself(result.lock)
  BY <1>2, <1>3 DEF RecordsItself, SamePackage
<1>5. TreeInv(result, reviews)
  <2>1. VersionIsNewest(result) /\ PackagedIsUnrecorded(result.lock)
    BY <1>2, <1>3 DEF TreeInv, VersionIsNewest, PackagedIsUnrecorded, SamePackage
  <2>2. RecordsIncrease(result.lock)
    BY <1>2, <1>3 DEF TreeInv, RecordsIncrease, SamePackage
  <2>3. SubmittedIsRecorded(result.lock)
    BY <1>2, <1>4 DEF TreeInv, SubmittedIsRecorded
  <2>4. RecordsTrue(result.lock, reviews)
    BY <1>2, <1>3 DEF TreeInv, RecordsTrue
  <2> QED BY <2>1, <2>2, <2>3, <2>4 DEF TreeInv
<1>6. Continues(result.lock.reviews, old)
  BY <1>2, <1>3 DEF Continues, SamePackage
<1>7. KeepsPackages(result.lock, tree.lock)
  BY <1>2, <1>3 DEF KeepsPackages, PackagesOf
<1>8. \A review : /\ Recorded(tree.lock, review) => Recorded(result.lock, review)
                  /\ Covers(tree.lock, review) => Covers(result.lock, review)
  BY <1>2, <1>3 DEF Recorded, Covers, SamePackage
<1> QED BY <1>2, <1>4, <1>5, <1>6, <1>7, <1>8 DEF Reconciles

\* A record with an open status takes over what the store says, or is given up.
LEMMA LookupRecordReconciles ==
  ASSUME TypeInv, HistoryInv, LookupRecord
  PROVE  /\ Reconciles(work', work, store)
         /\ work'.lock.status = work.lock.status
         /\ RecordsItself(work.lock) => RecordsItself(work'.lock)
<1> DEFINE lock == work.lock
           cursor == run.cursor
           record == lock.reviews[cursor]
           new == work'.lock.reviews[cursor]
<1>1. /\ work \in Tree /\ TreeInv(work, store) /\ store \in Seq(StoreReview)
      /\ cursor \in DOMAIN lock.reviews /\ record \in Record
  <2>1. work \in Tree /\ lock.reviews \in Seq(Record)
    BY DEF TypeInv, TypeOK, Tree, Lock
  <2>2. cursor \in 1..Len(lock.reviews)
    <3>1. cursor \in Nat /\ cursor # 0 /\ cursor <= Len(lock.reviews)
      BY DEF TypeInv, TypeOK, Memory, LookupRecord
    <3> QED BY <2>1, <3>1
  <2> QED BY <2>1, <2>2 DEF HistoryInv, TypeInv, TypeOK
<1>2. CASE UNCHANGED work
  BY <1>1, <1>2, UnchangedReconciles
<1>3. RecordTrue(record, store)
  BY <1>1 DEF TreeInv, RecordsTrue
<1>4. ASSUME record.status \in OpenStatus,
             NEW i \in FindReview(record.id, record.version, record.sha),
             work' = [work EXCEPT !.lock.reviews[cursor] = Applied(record, i, store[i])]
      PROVE  /\ Reconciles(work', work, store)
             /\ work'.lock.status = work.lock.status
             /\ RecordsItself(work.lock) => RecordsItself(work'.lock)
  <2> DEFINE r == Applied(record, i, store[i])
  <2>1. /\ i \in DOMAIN store /\ store[i].channel = "automation"
        /\ SamePackage(store[i], record)
    <3>1. record \in Packages
      BY <1>1 DEF Packages, PackagesOf
    <3>2. record.id # 0 => SamePackage(store[record.id], record)
                           /\ store[record.id].channel = "automation"
      BY <1>3 DEF RecordTrue
    <3> HIDE DEF record
    <3> QED BY <1>4, <3>1, <3>2, FoundPackage DEF HistoryInv
  <2>2. i \in Nat /\ i # 0 /\ store[i] \in StoreReview
    BY <1>1, <2>1, StoreElement
  <2>3. /\ r \in Record /\ SamePackage(r, record) /\ r.recipe = record.recipe
        /\ r.id = i /\ r.status = store[i].status
    <3> HIDE DEF record
    <3>1. r \in Record
      BY <1>1, <2>2, AppliedType
    <3> QED BY <1>1, <3>1 DEF Applied, SamePackage, Record
  <2>4. RecordTrue(r, store)
    BY <2>1, <2>2, <2>3 DEF RecordTrue, SamePackage
  <2> HIDE DEF r
  <2>5. work' = [work EXCEPT !.lock.reviews[cursor] = r]
    BY <1>4 DEF r
  <2> QED BY <1>1, <1>4, <2>3, <2>4, <2>5, RecordReplaced
<1>5. ASSUME record.status \in OpenStatus, record.id = 0,
             work' = [work EXCEPT !.lock.reviews[cursor] = [record EXCEPT !.status = "untracked"]]
      PROVE  /\ Reconciles(work', work, store)
             /\ work'.lock.status = work.lock.status
             /\ RecordsItself(work.lock) => RecordsItself(work'.lock)
  <2> DEFINE r == [record EXCEPT !.status = "untracked"]
  <2>1. /\ r \in Record /\ SamePackage(r, record) /\ r.recipe = record.recipe /\ r.id = 0
    <3> HIDE DEF record
    <3> QED BY <1>1, <1>5 DEF Record, RecordStatus, SamePackage
  <2> HIDE DEF r
  <2>2. RecordTrue(r, store) /\ work' = [work EXCEPT !.lock.reviews[cursor] = r]
    BY <1>5, <2>1 DEF RecordTrue, r
  <2> QED BY <1>1, <1>5, <2>1, <2>2, RecordReplaced
<1> QED BY <1>2, <1>4, <1>5 DEF LookupRecord, Untraceable

\* The record of a packaged lock is of the package the lock describes.
LEMMA PackagedRecord ==
  ASSUME TypeInv, work.lock.status = "packaged",
         NEW status \in RecordStatus, NEW dated \in BOOLEAN
  PROVE  LET record == RecordOf(work.lock, status, dated)
         IN  /\ record \in Record /\ record.id = 0 /\ record.status = status
             /\ SamePackage(record, work.lock) /\ record.recipe = work.lock.recipe
BY RecordOfType DEF TypeInv, TypeOK, SourceKnown, Tree, RecordOf, SamePackage

\* The record of a packaged lock takes over what the store says of its review.
LEMMA AnsweredRecord ==
  ASSUME TypeInv, work.lock.status = "packaged", NEW dated \in BOOLEAN, NEW reviews,
         NEW i \in DOMAIN reviews, i \in Nat, i # 0, NEW review \in StoreReview,
         SamePackage(reviews[i], work.lock), reviews[i].channel = "automation",
         reviews[i].status = review.status
  PROVE  LET record == Applied(RecordOf(work.lock, "submitted", dated), i, review)
         IN  /\ record \in Record /\ RecordTrue(record, reviews)
             /\ SamePackage(record, work.lock) /\ record.recipe = work.lock.recipe
             /\ record.id = i
<1> DEFINE plain == RecordOf(work.lock, "submitted", dated)
           record == Applied(plain, i, review)
<1>1. /\ plain \in Record /\ SamePackage(plain, work.lock)
      /\ plain.recipe = work.lock.recipe
  BY PackagedRecord DEF RecordStatus
<1> HIDE DEF plain
<1>2. record \in Record
  BY <1>1, AppliedType
<1>3. /\ record.id = i /\ record.status = review.status
      /\ SamePackage(record, work.lock) /\ record.recipe = work.lock.recipe
  BY <1>1 DEF Applied, SamePackage, Record
<1>4. RecordTrue(record, reviews)
  BY <1>3 DEF RecordTrue, SamePackage
<1> QED BY <1>2, <1>3, <1>4 DEF plain

\* A packaged lock whose review the store has gets the record of that review.
LEMMA RecoverSubmissionReconciles ==
  ASSUME TypeInv, HistoryInv, RecoverSubmission
  PROVE  /\ Reconciles(work', work, store)
         /\ \/ /\ UNCHANGED work
               /\ work.lock.status = "packaged" =>
                    FindReview(0, work.lock.version, work.lock.sha) = {}
            \/ /\ RecordsItself(work'.lock) /\ work'.lock.status = "submitted"
               /\ \A review : Covers(work.lock, review) => Recorded(work'.lock, review)
<1> DEFINE lock == work.lock
<1>1. work \in Tree /\ TreeInv(work, store) /\ store \in Seq(StoreReview)
  BY DEF TypeInv, TypeOK, HistoryInv
<1>2. UNCHANGED work => Reconciles(work', work, store)
  BY <1>1, UnchangedReconciles
<1>3. ASSUME lock.status = "packaged", NEW i \in FindReview(0, lock.version, lock.sha),
             MarksSubmitted(work', work,
               Applied(RecordOf(lock, "submitted", FALSE), i, store[i]))
      PROVE  /\ Reconciles(work', work, store)
             /\ RecordsItself(work'.lock) /\ work'.lock.status = "submitted"
             /\ \A review : Covers(work.lock, review) => Recorded(work'.lock, review)
  <2> DEFINE new == Applied(RecordOf(lock, "submitted", FALSE), i, store[i])
  <2>1. lock \in Packages
    BY <1>3 DEF Packages, PackagesOf
  <2>2. /\ i \in DOMAIN store /\ store[i].channel = "automation"
        /\ SamePackage(store[i], lock)
    BY <1>3, <2>1, FoundPackage DEF HistoryInv
  <2>3. i \in Nat /\ i # 0 /\ store[i] \in StoreReview
    BY <1>1, <2>2, StoreElement
  <2>4. /\ new \in Record /\ RecordTrue(new, store)
        /\ SamePackage(new, lock) /\ new.recipe = lock.recipe
    BY <1>3, <2>2, <2>3, AnsweredRecord
  <2>5. MarksSubmitted(work', work, new)
    BY <1>3
  <2> HIDE DEF new
  <2> QED BY <1>1, <1>3, <2>4, <2>5, RecordSubmission
<1> QED BY <1>2, <1>3 DEF RecoverSubmission, MarksSubmitted

\* A version that is online is recorded without a submission.
LEMMA SkipExistingReconciles ==
  ASSUME TypeInv, HistoryInv, SkipExisting
  PROVE  /\ Reconciles(work', work, store)
         /\ RecordsItself(work'.lock) /\ work'.lock.status = "submitted"
         /\ \A review : Covers(work.lock, review) => Recorded(work'.lock, review)
<1> DEFINE new == RecordOf(work.lock, "approved", TRUE)
<1>1. work \in Tree /\ TreeInv(work, store) /\ work.lock.status = "packaged"
  BY DEF TypeInv, TypeOK, HistoryInv, SkipExisting
<1>2. /\ new \in Record /\ new.id = 0 /\ new.status # "rejected"
      /\ SamePackage(new, work.lock) /\ new.recipe = work.lock.recipe
  BY <1>1, PackagedRecord DEF RecordStatus, ReviewStatus
<1>3. MarksSubmitted(work', work, new)
  BY DEF SkipExisting, MarksSubmitted
<1> HIDE DEF new
<1>4. RecordTrue(new, store)
  BY <1>2 DEF RecordTrue
<1> QED BY <1>1, <1>2, <1>3, <1>4, RecordSubmission

\* A review that is accepted is recorded, with its id or without.
LEMMA CreateReviewReconciles ==
  ASSUME TypeInv, HistoryInv, CreateReview
  PROVE  /\ Reconciles(work', work, store')
         /\ RecordsItself(work'.lock) /\ work'.lock.status = "submitted"
         /\ \A review : Covers(work.lock, review) => Recorded(work'.lock, review)
<1> DEFINE record == RecordOf(work.lock, "submitted", TRUE)
           answered == Applied(record, Len(store'), Submission)
<1>1. /\ pc = "create" /\ store' = Accept(Submission) /\ work.lock.status = "packaged"
      /\ \E answer \in {record, answered} : MarksSubmitted(work', work, answer)
  BY DEF CreateReview, TypeInv, MarksSubmitted
<1>2. /\ StoreKeeps(store, store') /\ store'[Len(store')] = Submission
      /\ Len(store') \in DOMAIN store' /\ Len(store') \in Nat /\ Len(store') # 0
      /\ SamePackage(Submission, work.lock)
  BY <1>1, SubmissionAccepted
<1>3. work \in Tree /\ TreeInv(work, store') /\ Submission \in StoreReview
  BY <1>1, <1>2, StoreKeepsTree, SubmissionType DEF TypeInv, TypeOK, HistoryInv
<1>4. /\ record \in Record /\ record.id = 0 /\ record.status # "rejected"
      /\ SamePackage(record, work.lock) /\ record.recipe = work.lock.recipe
  BY <1>1, PackagedRecord DEF RecordStatus
<1>5. /\ answered \in Record /\ RecordTrue(answered, store')
      /\ SamePackage(answered, work.lock) /\ answered.recipe = work.lock.recipe
  <2>1. Submission.channel = "automation"
    BY DEF Submission
  <2>2. /\ SamePackage(store'[Len(store')], work.lock)
        /\ store'[Len(store')].channel = "automation"
        /\ store'[Len(store')].status = Submission.status
    BY <1>2, <2>1
  <2>3. TRUE \in BOOLEAN /\ Len(store') \in DOMAIN store'
        /\ Len(store') \in Nat /\ Len(store') # 0
    BY <1>2
  <2>4. PICK reviews : reviews = store'
    OBVIOUS
  <2>5. PICK i : i = Len(store')
    OBVIOUS
  <2>6. /\ i \in DOMAIN reviews /\ i \in Nat /\ i # 0
        /\ SamePackage(reviews[i], work.lock) /\ reviews[i].channel = "automation"
        /\ reviews[i].status = Submission.status
    BY <2>2, <2>3, <2>4, <2>5
  <2>7. LET taken == Applied(record, i, Submission)
        IN  /\ taken \in Record /\ RecordTrue(taken, reviews)
            /\ SamePackage(taken, work.lock) /\ taken.recipe = work.lock.recipe
    BY <1>1, <1>3, <2>3, <2>6, AnsweredRecord
  <2> QED BY <2>4, <2>5, <2>7
<1> HIDE DEF record, answered
<1>6. CASE MarksSubmitted(work', work, record)
  <2>1. RecordTrue(record, store')
    BY <1>4 DEF RecordTrue
  <2> QED BY <1>1, <1>3, <1>4, <1>6, <2>1, RecordSubmission
<1>7. CASE MarksSubmitted(work', work, answered)
  BY <1>1, <1>3, <1>5, <1>7, RecordSubmission
<1> QED BY <1>1, <1>6, <1>7

\* A new package gets a version without record and a hash of its own, and keeps
\* the history.
LEMMA PackageSourceHistory ==
  ASSUME TypeInv, HistoryInv, PackageSource
  PROVE  HistoryInv'
<1> DEFINE version == NewVersion(work, upstream, run.retry)
           lock == [source |-> upstream, recipe |-> work.recipe, status |-> "packaged",
                    version |-> version, sha |-> builds + 1, dated |-> TRUE,
                    reviews |-> work.lock.reviews]
<1>1. /\ work \in Tree /\ upstream \in Source /\ run.retry \in BOOLEAN /\ builds \in Nat
      /\ TreeInv(work, store) /\ Changed(work, upstream, run.retry)
  BY DEF TypeInv, TypeOK, Memory, HistoryInv, PackageSource
<1>2. /\ version >= work.version /\ version \in Nat /\ work.version \in Nat
      /\ \A i \in DOMAIN work.lock.reviews : work.lock.reviews[i].version # version
  BY <1>1, NewVersionFresh, NewVersionType DEF Tree
<1>3. /\ work' = [work EXCEPT !.version = version, !.lock = lock]
      /\ builds' = builds + 1 /\ pc' = "push"
      /\ UNCHANGED <<repo, behind, store, handoffs>>
  BY DEF PackageSource
<1> HIDE DEF version
<1>4. /\ work'.lock = lock /\ work'.version = version
      /\ lock.version = version /\ lock.sha = builds + 1
      /\ lock.status = "packaged" /\ lock.reviews = work.lock.reviews
  BY <1>1, <1>3 DEF Tree
<1> HIDE DEF lock
<1>5. TreeInv(work', store')
  <2>1. \A i \in DOMAIN work.lock.reviews : work.lock.reviews[i].version <= version
    <3>1. ASSUME NEW i \in DOMAIN work.lock.reviews
          PROVE  work.lock.reviews[i].version <= version
      <4>1. work.lock.reviews[i] \in Record
        BY <1>1 DEF Tree, Lock
      <4>2. work.lock.reviews[i].version \in Nat
        BY <4>1 DEF Record
      <4>3. work.lock.reviews[i].version <= work.version
        BY <1>1 DEF TreeInv, VersionIsNewest
      <4> QED BY <1>2, <4>2, <4>3
    <3> QED BY <3>1
  <2>2. VersionIsNewest(work')
    BY <1>2, <1>4, <2>1 DEF VersionIsNewest
  <2>3. RecordsIncrease(work'.lock) /\ RecordsTrue(work'.lock, store')
    BY <1>1, <1>3, <1>4 DEF TreeInv, RecordsIncrease, RecordsTrue
  <2>4. PackagedIsUnrecorded(work'.lock) /\ SubmittedIsRecorded(work'.lock)
    BY <1>2, <1>4 DEF PackagedIsUnrecorded, SubmittedIsRecorded
  <2> QED BY <2>2, <2>3, <2>4 DEF TreeInv
<1>6. HashesNamePackages'
  <2>1. ASSUME NEW p \in Packages'
        PROVE  p = lock \/ p \in Packages
    <3>1. PackagesOf(lock) \subseteq PackagesOf(work.lock) \cup {lock}
      BY <1>4 DEF PackagesOf
    <3>2. \/ p \in PackagesOf(repo.lock) \/ p \in PackagesOf(lock)
          \/ \E h \in handoffs : p \in PackagesOf(h.tree.lock)
          \/ \E i \in Automated : p = store[i]
      <4>1. \/ p \in PackagesOf(repo'.lock) \/ p \in PackagesOf(work'.lock)
            \/ \E h \in handoffs' : p \in PackagesOf(h.tree.lock)
            \/ \E i \in Automated' : p = store'[i]
        BY Zenon DEF Packages
      <4>2. Automated' = Automated
        BY <1>3 DEF Automated
      <4> QED BY <1>3, <1>4, <4>1, <4>2
    <3> QED BY <3>1, <3>2 DEF Packages
  <2>2. \A p \in Packages : p.sha \in 1..builds
    BY DEF HistoryInv, HashesNamePackages
  <2>3. ASSUME NEW p \in Packages', NEW q \in Packages', p.sha = q.sha
        PROVE  SamePackage(p, q)
    <3>1. \A o \in Packages : o.sha # lock.sha
      BY <1>1, <1>4, <2>2
    <3> QED BY <2>1, <2>3, <3>1 DEF HistoryInv, HashesNamePackages, SamePackage
  <2>4. \A p \in Packages' : p.sha \in 1..builds'
    BY <1>1, <1>3, <1>4, <2>1, <2>2
  <2> QED BY <2>3, <2>4 DEF HashesNamePackages
<1>7. ~ behind => Continues(work'.lock.reviews, repo.lock.reviews)
  BY <1>4 DEF HistoryInv
<1> QED BY <1>3, <1>4, <1>5, <1>6, <1>7 DEF HistoryInv

\* The packaged commit becomes the head of the branch, and is handed over to
\* the submission job.
LEMMA PushPackagedHistory ==
  ASSUME TypeInv, HistoryInv, PushPackaged
  PROVE  HistoryInv'
<1>1. /\ ~ behind /\ repo' = work /\ UNCHANGED <<store, builds>>
      /\ work \in Tree /\ SourceKnown(work) /\ TreeInv(work, store)
  BY DEF TypeInv, TypeOK, HistoryInv, PushPackaged
<1>2. HandoffsFrom(work)
  <2>1. \A h \in handoffs' : h \in LeftBehind \/ h.tree = work
    BY DEF PushPackaged, HandedOver
  <2> QED BY <2>1, LeftBehindFrom DEF HandoffsFrom
<1>3. CASE run.built
  <2>1. /\ Reconciles(work', work, store) /\ pc' \in {"decide", "reconcile"}
        /\ work'.lock.status = "submitted" => RecordsItself(work'.lock)
    BY <1>1, <1>3, BeginReconcileHistory DEF PushPackaged
  <2> QED BY <1>1, <1>2, <2>1, RunCommits
<1>4. CASE ~ run.built
  <2>1. pc' = "idle" /\ work' = work
    BY <1>4 DEF PushPackaged, Finish
  <2>2. Reconciles(work', work, store)
    BY <1>1, <2>1, UnchangedReconciles
  <2> QED BY <1>1, <1>2, <2>1, <2>2, RunCommits
<1> QED BY <1>3, <1>4

\* So does the commit with the record of the submission.
LEMMA PushRecordHistory ==
  ASSUME TypeInv, HistoryInv, PushRecord
  PROVE  HistoryInv'
<1>1. /\ ~ behind /\ repo' = work /\ UNCHANGED <<store, builds>>
      /\ pc' = "idle" /\ work' = work /\ TreeInv(work, store)
  BY DEF HistoryInv, PushRecord, Finish
<1>2. HandoffsFrom(work)
  BY LeftBehindFrom DEF HandoffsFrom, PushRecord
<1>3. Reconciles(work', work, store)
  BY <1>1, UnchangedReconciles
<1> QED BY <1>1, <1>2, <1>3, RunCommits

\* The submission job of an earlier run starts from a packaged commit, which is
\* as good as the branch and continues it unless the branch has moved on.
LEMMA RerunSubmissionHistory ==
  ASSUME TypeInv, HistoryInv, NEW h \in handoffs, RerunSubmission(h)
  PROVE  HistoryInv'
<1>1. /\ h.tree \in Tree /\ SourceKnown(h.tree) /\ TreeInv(h.tree, store)
      /\ BeginReconcile(h.tree) /\ behind' = h.behind
      /\ handoffs' \subseteq handoffs /\ UNCHANGED <<repo, store, builds>>
  BY DEF TypeInv, HandoffsKnown, Handoff, HistoryInv, RerunSubmission
<1>2. /\ Reconciles(work', h.tree, store) /\ pc' \in {"decide", "reconcile"}
      /\ work'.lock.status = "submitted" => RecordsItself(work'.lock)
  BY <1>1, BeginReconcileHistory
<1>3. HashesNamePackages'
  <2>1. StoreKnown
    BY <1>1 DEF StoreKnown, StoreKeeps, SamePackage
  <2>2. Known(repo.lock) /\ Known(work'.lock) /\ \A g \in handoffs' : Known(g.tree.lock)
    BY <1>1, <1>2, TreesKnown, KeepsKnown DEF Reconciles
  <2> QED BY <1>1, <2>1, <2>2, HashesKept DEF HistoryInv
<1>4. ~ behind' => Continues(work'.lock.reviews, repo.lock.reviews)
  BY <1>1, <1>2 DEF HistoryInv, Reconciles
<1> QED BY <1>1, <1>2, <1>3, <1>4 DEF HistoryInv, Reconciles

\* A commit of the developer changes the recipe only.
LEMMA DeveloperPushHistory ==
  ASSUME TypeInv, HistoryInv, NEW r \in Recipe, DeveloperPush(r)
  PROVE  HistoryInv'
<1>1. /\ repo'.lock = repo.lock /\ repo'.version = repo.version
      /\ UNCHANGED <<store, builds, pc>> /\ handoffs' = LeftBehind
      /\ IF pc = "idle" THEN work' = repo' /\ UNCHANGED behind
                        ELSE behind' = TRUE /\ UNCHANGED work
  BY DEF TypeInv, TypeOK, Tree, DeveloperPush
<1>2. TreeInv(repo', store') /\ TreeInv(work', store')
  BY <1>1 DEF HistoryInv, TreeInv, VersionIsNewest
<1>3. \A h \in handoffs' : h.behind /\ \E g \in handoffs : h.tree = g.tree
  BY <1>1, LeftBehindFrom
<1>4. HashesNamePackages'
  <2>1. StoreKnown
    BY <1>1 DEF StoreKnown, StoreKeeps, SamePackage
  <2>2. /\ Known(repo'.lock) /\ Known(work'.lock)
        /\ \A h \in handoffs' : Known(h.tree.lock)
    BY <1>1, <1>3, TreesKnown
  <2> QED BY <1>1, <2>1, <2>2, HashesKept DEF HistoryInv
<1>5. \A h \in handoffs' : TreeInv(h.tree, store')
  BY <1>1, <1>3 DEF HistoryInv
<1> QED BY <1>1, <1>2, <1>3, <1>4, <1>5 DEF HistoryInv, Continues, SamePackage

\* The store knows of no new package while it is left alone, and of the one
\* submitted when it accepts a submission.
LEMMA StoreStays ==
  ASSUME UNCHANGED store
  PROVE  StoreKnown
BY DEF StoreKnown, StoreKeeps, SamePackage

LEMMA StoreAccepts ==
  ASSUME TypeInv, pc = "create", store' = Accept(Submission)
  PROVE  StoreKnown
<1>1. work.lock \in Packages
  BY DEF TypeInv, Packages, PackagesOf
<1> QED BY <1>1, SubmissionAccepted DEF StoreKnown

\* Every step keeps the invariant.
LEMMA HistoryStep == TypeInv /\ HistoryInv /\ [Next]_vars => HistoryInv'
<1> SUFFICES ASSUME TypeInv, HistoryInv, [Next]_vars
             PROVE  HistoryInv'
  OBVIOUS
<1>1. ASSUME NEW retry \in BOOLEAN, StartRun(retry) PROVE HistoryInv'
  BY <1>1, StoreStays, StoreMoves DEF StartRun
<1>2. CASE PauseForReview
  BY <1>2, StoreStays, RunStops DEF PauseForReview
<1>3. CASE PassGate
  <2>1. work \in Tree /\ SourceKnown(work) /\ TreeInv(work, store) /\ BeginReconcile(work)
    BY <1>3 DEF TypeInv, TypeOK, HistoryInv, PassGate
  <2>2. /\ Reconciles(work', work, store) /\ pc' \in {"decide", "reconcile"}
        /\ work'.lock.status = "submitted" => RecordsItself(work'.lock)
    BY <2>1, BeginReconcileHistory
  <2>3. UNCHANGED <<repo, behind, store, builds, handoffs>>
    BY <1>3 DEF PassGate
  <2> QED BY <2>2, <2>3, StoreStays, RunContinues
<1>4. CASE LookupRecord
  <2>1. /\ Reconciles(work', work, store) /\ work'.lock.status = work.lock.status
        /\ RecordsItself(work.lock) => RecordsItself(work'.lock)
    BY <1>4, LookupRecordReconciles
  <2>2. /\ pc = "reconcile" /\ UNCHANGED <<repo, behind, store, pc, builds, handoffs>>
    BY <1>4 DEF LookupRecord
  <2>3. work'.lock.status = "submitted" => RecordsItself(work'.lock)
    BY <2>1, <2>2 DEF HistoryInv
  <2> QED BY <2>1, <2>2, <2>3, StoreStays, RunContinues
<1>5. CASE RecoverSubmission
  <2>1. /\ Reconciles(work', work, store)
        /\ UNCHANGED work \/ RecordsItself(work'.lock)
    BY <1>5, RecoverSubmissionReconciles
  <2>2. /\ pc = "reconcile" /\ pc' \in {"decide", "publish"}
        /\ UNCHANGED <<repo, behind, store, builds, handoffs>>
    BY <1>5 DEF RecoverSubmission
  <2>3. work'.lock.status = "submitted" => RecordsItself(work'.lock)
    BY <2>1, <2>2 DEF HistoryInv
  <2> QED BY <2>1, <2>2, <2>3, StoreStays, RunContinues
<1>6. CASE RefuseSource
  BY <1>6, StoreStays, RunStops DEF RefuseSource
<1>7. CASE KeepSource
  <2>1. CASE work.lock # repo.lock
    <3>1. /\ pc = "decide" /\ pc' = "push"
          /\ UNCHANGED <<repo, work, behind, store, builds, handoffs>>
      BY <1>7, <2>1 DEF KeepSource, Selected
    <3>2. /\ Reconciles(work', work, store)
          /\ work'.lock.status = "submitted" => RecordsItself(work'.lock)
      BY <3>1, UnchangedReconciles DEF HistoryInv
    <3> QED BY <3>1, <3>2, StoreStays, RunContinues
  <2>2. CASE work.lock = repo.lock
    BY <1>7, <2>2, StoreStays, RunStops DEF KeepSource
  <2> QED BY <2>1, <2>2
<1>8. CASE PackageSource
  BY <1>8, PackageSourceHistory
<1>9. CASE PushPackaged
  BY <1>9, PushPackagedHistory
<1>10. CASE AlreadyRecorded \/ NotExisting \/ PassGuard
  <2>1. /\ pc \in {"publish", "guard"} /\ pc' \notin {"idle", "gate"}
        /\ UNCHANGED <<repo, work, behind, store, builds, handoffs>>
    BY <1>10 DEF AlreadyRecorded, NotExisting, PassGuard
  <2>2. /\ Reconciles(work', work, store)
        /\ work'.lock.status = "submitted" => RecordsItself(work'.lock)
    BY <2>1, UnchangedReconciles DEF HistoryInv
  <2> QED BY <2>1, <2>2, StoreStays, RunContinues
<1>11. CASE SkipExisting
  <2>1. Reconciles(work', work, store) /\ RecordsItself(work'.lock)
    BY <1>11, SkipExistingReconciles
  <2>2. pc' = "pushRecord" /\ UNCHANGED <<repo, behind, store, builds, handoffs>>
    BY <1>11 DEF SkipExisting
  <2> QED BY <2>1, <2>2, StoreStays, RunContinues
<1>12. CASE PauseAtGuard
  BY <1>12, StoreStays, RunStops DEF PauseAtGuard
<1>13. CASE CreateReview
  <2>1. Reconciles(work', work, store') /\ RecordsItself(work'.lock)
    BY <1>13, CreateReviewReconciles
  <2>2. /\ pc = "create" /\ store' = Accept(Submission) /\ pc' = "pushRecord"
        /\ UNCHANGED <<repo, behind, builds, handoffs>>
    BY <1>13 DEF CreateReview
  <2> QED BY <2>1, <2>2, StoreAccepts, RunContinues
<1>14. CASE CreateReviewLost
  BY <1>14, StoreAccepts, RunStops DEF CreateReviewLost
<1>15. CASE PushRecord
  BY <1>15, PushRecordHistory
<1>16. CASE PushRefused \/ RunFails
  BY <1>16, StoreStays, RunStops DEF PushRefused, RunFails
<1>17. ASSUME NEW h \in handoffs, RerunSubmission(h) PROVE HistoryInv'
  BY <1>17, RerunSubmissionHistory
<1>18. ASSUME NEW r \in Recipe, DeveloperPush(r) PROVE HistoryInv'
  BY <1>18, DeveloperPushHistory
<1>19. ASSUME NEW s \in Source, UpstreamMoves(s) PROVE HistoryInv'
  BY <1>19, StoreStays, StoreMoves DEF UpstreamMoves
<1>20. CASE Settle
  <2>1. StoreKnown
    BY <1>20, SettleKeeps DEF StoreKnown
  <2> QED BY <1>20, <2>1, StoreMoves DEF Settle, SettleReview
<1>21. ASSUME NEW v \in ManualVersion, SubmitManually(v) PROVE HistoryInv'
  <2>1. StoreKnown
    BY <1>21, SubmitManuallyKeeps DEF StoreKnown
  <2> QED BY <1>21, <2>1, StoreMoves DEF SubmitManually
<1>22. CASE UNCHANGED vars
  BY <1>22, StoreStays, StoreMoves DEF vars
<1> QED
  BY <1>1, <1>2, <1>3, <1>4, <1>5, <1>6, <1>7, <1>8, <1>9, <1>10, <1>11, <1>12, <1>13,
     <1>14, <1>15, <1>16, <1>17, <1>18, <1>19, <1>20, <1>21, <1>22
  DEF Next, RunStep

-----------------------------------------------------------------------------
(* What follows from it.                                                   *)

\* Whatever a run, a failure, a developer, an operator or the store does, every
\* tree keeps its records in the order of their versions and in agreement with
\* the store, hashes name packages, and a checkout continues the history of
\* the branch it will replace.
THEOREM HistoryInvariant == Spec => [](TypeInv /\ HistoryInv)
<1>1. Init => TypeInv /\ HistoryInv
  BY TypeInit, HistoryInit
<1>2. TypeInv /\ HistoryInv /\ [Next]_vars => (TypeInv /\ HistoryInv)'
  BY TypeStep, HistoryStep
<1> QED BY <1>1, <1>2, PTL DEF Spec

\* A record that names a review names the right one, no two records name the
\* same one, and a settled record agrees with the store.
THEOREM RecordsAreTruthful == Spec => []RecordsTruthful
<1>1. TypeInv /\ HistoryInv => RecordsTruthful
  <2> SUFFICES ASSUME TypeInv, HistoryInv, NEW i \in DOMAIN repo.lock.reviews,
                      repo.lock.reviews[i].id # 0
               PROVE  LET record == repo.lock.reviews[i]
                      IN  /\ record.id \in Automated
                          /\ SamePackage(store[record.id], record)
                          /\ record.status \notin OpenStatus =>
                               store[record.id].status = record.status
                          /\ \A j \in DOMAIN repo.lock.reviews :
                               repo.lock.reviews[j].id = record.id => j = i
    BY DEF RecordsTruthful
  <2> DEFINE reviews == repo.lock.reviews
  <2>1. \A j \in DOMAIN reviews : RecordTrue(reviews[j], store)
    BY DEF HistoryInv, TreeInv, RecordsTrue
  <2>2. ASSUME NEW j \in DOMAIN reviews, reviews[j].id = reviews[i].id
        PROVE  j = i
    <3>1. reviews[j].version = reviews[i].version
      BY <2>1, <2>2 DEF RecordTrue, SamePackage
    <3>2. i \in Nat /\ j \in Nat /\ reviews[i] \in Record
      <4>1. reviews \in Seq(Record)
        BY DEF TypeInv, TypeOK, Tree, Lock
      <4> QED BY <4>1
    <3>3. reviews[i].version \in Nat
      BY <3>2 DEF Record
    <3>4. ~ (i < j) /\ ~ (j < i)
      BY <3>1, <3>3 DEF HistoryInv, TreeInv, RecordsIncrease
    <3> QED BY <3>2, <3>4
  <2> QED BY <2>1, <2>2 DEF RecordTrue, Automated
<1> QED BY <1>1, HistoryInvariant, PTL

\* What a check has nothing to do for is recorded, and is no package that waits
\* to be submitted: a submitted lock has its record by the time of the decision,
\* and a packaged one, whose version has none, can be resumed.
THEOREM KeptSourcesAreSubmitted == Spec => KeptSourceIsSubmitted
<1>1. ASSUME TypeInv, HistoryInv, KeepSource, ~ CoveredByWaiting
      PROVE  /\ HasRecord(work.lock, upstream)
             /\ ~ (work.lock.status = "packaged" /\ work.lock.source = upstream)
  <2>1. pc = "decide" /\ ~ Changed(work, upstream, run.retry)
    BY <1>1 DEF KeepSource, Selected
  <2>2. \/ Processed(work.lock, upstream) /\ ~ Resumable(work.lock, upstream)
        \/ work.lock.source = upstream /\ work.lock.status = "submitted"
    BY <2>1 DEF Changed, SameFingerprint, FingerprintOf
  <2>3. work.lock.status = "submitted" => HasRecord(work.lock, work.lock.source)
    BY <1>1, <2>1 DEF HistoryInv, RecordsItself, SamePackage, HasRecord
  <2>4. HasRecord(work.lock, upstream)
    BY <2>2, <2>3 DEF Processed
  <2>5. work.lock.status = "packaged" /\ work.lock.source = upstream =>
          Resumable(work.lock, upstream)
    BY <1>1 DEF HistoryInv, TreeInv, PackagedIsUnrecorded, Resumable
  <2> QED BY <2>2, <2>4, <2>5
<1>2. TypeInv /\ HistoryInv /\ [Next]_vars =>
        [KeepSource /\ ~ CoveredByWaiting =>
           /\ HasRecord(work.lock, upstream)
           /\ ~ (work.lock.status = "packaged" /\ work.lock.source = upstream)]_vars
  BY <1>1
<1> QED BY <1>2, HistoryInvariant, PTL DEF Spec, KeptSourceIsSubmitted

\* Only the two pushes change the history of the branch, and neither is
\* possible once the branch moved on: a record keeps its place, source, version
\* and hash, and a settled status is final.
THEOREM HistoryIsPreserved == Spec => HistoryPreserved
<1>1. HistoryInv /\ [Next]_vars => Continues(repo'.lock.reviews, repo.lock.reviews)
  <2> SUFFICES ASSUME HistoryInv, [Next]_vars
               PROVE  Continues(repo'.lock.reviews, repo.lock.reviews)
    OBVIOUS
  <2>1. CASE PushPackaged \/ PushRecord
    BY <2>1 DEF PushPackaged, PushRecord, HistoryInv
  <2>2. ASSUME NEW r \in Recipe, DeveloperPush(r)
        PROVE  repo'.lock = repo.lock
    BY <2>2 DEF DeveloperPush
  <2>3. repo'.lock = repo.lock => Continues(repo'.lock.reviews, repo.lock.reviews)
    BY DEF Continues, SamePackage
  <2>4. \/ PushPackaged \/ PushRecord \/ UNCHANGED repo
        \/ \E r \in Recipe : DeveloperPush(r)
    BY DEF Next, RunStep, vars, StartRun, PauseForReview, PassGate, LookupRecord,
           RecoverSubmission, RefuseSource, KeepSource, PackageSource, AlreadyRecorded,
           SkipExisting, NotExisting, PauseAtGuard, PassGuard, CreateReview,
           CreateReviewLost, PushRefused, RunFails, RerunSubmission, UpstreamMoves,
           Settle, SettleReview, SubmitManually
  <2> QED BY <2>1, <2>2, <2>3, <2>4
<1>2. HistoryInv /\ [Next]_vars =>
        [LET old == repo.lock.reviews
             new == repo'.lock.reviews
         IN  \A i \in DOMAIN old :
               /\ i \in DOMAIN new
               /\ SamePackage(new[i], old[i])
               /\ old[i].status \notin OpenStatus => new[i].status = old[i].status]_vars
  BY <1>1 DEF Continues
<1> QED BY <1>2, HistoryInvariant, PTL DEF Spec, HistoryPreserved

-----------------------------------------------------------------------------
(* Submissions.                                                            *)

\* The store keeps its reviews, and gains one at a time: a package of its
\* developer's, or the one that the run submits.
LEMMA StoreStep ==
  ASSUME TypeInv, [Next]_vars
  PROVE  /\ StoreKeeps(store, store')
         /\ \A i \in DOMAIN store' :
              \/ i \in DOMAIN store \/ store'[i].channel = "manual"
              \/ /\ CreateReview \/ CreateReviewLost
                 /\ i = Len(store') /\ store'[i] = Submission
<1>1. CASE CreateReview \/ CreateReviewLost
  <2>1. pc = "create" /\ store' = Accept(Submission)
    BY <1>1 DEF CreateReview, CreateReviewLost
  <2> QED BY <1>1, <2>1, SubmissionAccepted
<1>2. CASE Settle
  BY <1>2, SettleKeeps
<1>3. ASSUME NEW v \in ManualVersion, SubmitManually(v)
      PROVE  /\ StoreKeeps(store, store')
             /\ \A i \in DOMAIN store' : i \in DOMAIN store \/ store'[i].channel = "manual"
  BY <1>3, SubmitManuallyKeeps
<1>4. CASE UNCHANGED store
  BY <1>4 DEF StoreKeeps, SamePackage
<1>5. \/ CreateReview \/ CreateReviewLost \/ Settle \/ UNCHANGED store
      \/ \E v \in ManualVersion : SubmitManually(v)
  BY DEF Next, RunStep, vars, StartRun, PauseForReview, PassGate, LookupRecord,
         RecoverSubmission, RefuseSource, KeepSource, PackageSource, PushPackaged,
         AlreadyRecorded, SkipExisting, NotExisting, PauseAtGuard, PassGuard, PushRecord,
         PushRefused, RunFails, RerunSubmission, DeveloperPush, UpstreamMoves
<1> QED BY <1>1, <1>2, <1>3, <1>4, <1>5

\* A step that adds a review of the pipeline submits the package of the checkout.
LEMMA SubmitsPackage ==
  ASSUME TypeInv, [Next]_vars, Submits
  PROVE  /\ CreateReview \/ CreateReviewLost
         /\ pc = "create" /\ work.lock.status = "packaged"
         /\ store'[Len(store')] = Submission
         /\ Submission.version = work.lock.version
         /\ Submission.source = work.lock.source
<1>1. store \in Seq(StoreReview) /\ store' \in Seq(StoreReview)
  BY TypeStep DEF TypeInv, TypeOK
<1>2. Len(store') \in DOMAIN store' /\ Len(store') \notin DOMAIN store
  BY <1>1 DEF Submits
<1>3. (CreateReview \/ CreateReviewLost) /\ store'[Len(store')] = Submission
  BY <1>2, StoreStep DEF Submits
<1> QED BY <1>3 DEF CreateReview, CreateReviewLost, Submission, TypeInv

\* What the steps of a run that change its memory leave of it.
LEMMA MemoryKept ==
  ASSUME TypeInv
  PROVE  /\ PassGate \/ LookupRecord =>
              run'.seen = run.seen /\ run'.job = run.job /\ run'.built = run.built
         /\ PackageSource => run'.seen = run.seen /\ run'.job = run.job /\ run'.built
         /\ PushPackaged /\ run.built =>
              run'.seen = run.seen /\ run'.job = "submit" /\ run'.built = run.built
         /\ PassGuard =>
              run'.seen = Len(store) /\ run'.job = run.job /\ run'.built = run.built
<1>1. run \in Memory
  BY DEF TypeInv, TypeOK
<1>2. ASSUME PassGate
      PROVE  run'.seen = run.seen /\ run'.job = run.job /\ run'.built = run.built
  <2>1. ASSUME NEW version, run' = [run EXCEPT !.cursor = 1, !.waiting = version]
        PROVE  run'.seen = run.seen /\ run'.job = run.job /\ run'.built = run.built
    BY <1>1, <2>1 DEF Memory
  <2>2. CASE run' = [run EXCEPT !.cursor = 1]
    BY <1>1, <2>2 DEF Memory
  <2> QED BY <1>2, <2>1, <2>2 DEF PassGate
<1>3. ASSUME LookupRecord
      PROVE  run'.seen = run.seen /\ run'.job = run.job /\ run'.built = run.built
  <2>1. run' = [run EXCEPT !.cursor = @ + 1]
    BY <1>3 DEF LookupRecord
  <2> QED BY <1>1, <2>1 DEF Memory
<1>4. ASSUME PackageSource
      PROVE  run'.seen = run.seen /\ run'.job = run.job /\ run'.built
  <2>1. run' = [run EXCEPT !.built = TRUE]
    BY <1>4 DEF PackageSource
  <2> QED BY <1>1, <2>1 DEF Memory
<1>5. ASSUME PushPackaged, run.built
      PROVE  run'.seen = run.seen /\ run'.job = "submit" /\ run'.built = run.built
  <2>1. run' = [run EXCEPT !.job = "submit", !.cursor = 1]
    BY <1>5 DEF PushPackaged
  <2> QED BY <1>1, <2>1 DEF Memory
<1>6. ASSUME PassGuard
      PROVE  run'.seen = Len(store) /\ run'.job = run.job /\ run'.built = run.built
  <2>1. run' = [run EXCEPT !.seen = Len(store)]
    BY <1>6 DEF PassGuard
  <2> QED BY <1>1, <2>1 DEF Memory
<1> QED BY <1>2, <1>3, <1>4, <1>5, <1>6

\* What the guard has seen of the store is forgotten with the run.
LEMMA SeenStep ==
  ASSUME TypeInv, [Next]_vars
  PROVE  \/ PassGuard
         \/ /\ run'.seen \in {0, run.seen}
            /\ pc' = "create" => pc = "create" /\ UNCHANGED <<run, work>>
<1>1. ASSUME NEW retry \in BOOLEAN, StartRun(retry)
      PROVE  run'.seen = 0 /\ pc' # "create"
  BY <1>1 DEF StartRun, NoRun
<1>2. CASE PassGate
  BY <1>2, MemoryKept DEF PassGate, BeginReconcile
<1>3. CASE LookupRecord \/ PackageSource
  BY <1>3, MemoryKept DEF LookupRecord, PackageSource
<1>4. CASE \/ PauseForReview \/ RefuseSource \/ PauseAtGuard \/ CreateReviewLost
           \/ PushRecord \/ PushRefused \/ RunFails
  BY <1>4 DEF PauseForReview, RefuseSource, PauseAtGuard, CreateReviewLost, PushRecord,
              PushRefused, RunFails, Finish, NoRun
<1>5. CASE KeepSource
  BY <1>5 DEF KeepSource, Finish, NoRun
<1>6. CASE PushPackaged
  <2>1. CASE run.built
    BY <1>6, <2>1, MemoryKept DEF PushPackaged, BeginReconcile
  <2>2. CASE ~ run.built
    BY <1>6, <2>2 DEF PushPackaged, Finish, NoRun
  <2> QED BY <2>1, <2>2
<1>7. CASE \/ RecoverSubmission \/ AlreadyRecorded \/ SkipExisting \/ NotExisting
           \/ CreateReview
  BY <1>7 DEF RecoverSubmission, AlreadyRecorded, SkipExisting, NotExisting, CreateReview
<1>8. ASSUME NEW h \in handoffs, RerunSubmission(h)
      PROVE  run'.seen = 0 /\ pc' # "create"
  BY <1>8 DEF RerunSubmission, BeginReconcile, NoRun
<1>9. ASSUME NEW r \in Recipe, DeveloperPush(r)
      PROVE  /\ UNCHANGED <<run, pc>>
             /\ pc = "create" => UNCHANGED work
  BY <1>9 DEF DeveloperPush
<1>10. ASSUME NEW s \in Source, UpstreamMoves(s) PROVE UNCHANGED <<run, pc, work>>
  BY <1>10 DEF UpstreamMoves
<1>11. ASSUME NEW v \in ManualVersion, SubmitManually(v) PROVE UNCHANGED <<run, pc, work>>
  BY <1>11 DEF SubmitManually
<1>12. CASE Settle \/ UNCHANGED vars
  BY <1>12 DEF Settle, SettleReview, vars
<1> QED
  BY <1>1, <1>2, <1>3, <1>4, <1>5, <1>6, <1>7, <1>8, <1>9, <1>10, <1>11, <1>12
  DEF Next, RunStep

\* Waiting reviews are settled or replaced, never waiting again, so that the
\* guard's verdict on those it saw stands until the submission.
LEMMA GuardStep == TypeInv /\ GuardInv /\ [Next]_vars => GuardInv'
<1> SUFFICES ASSUME TypeInv, GuardInv, [Next]_vars PROVE GuardInv'
  OBVIOUS
<1>1. /\ store \in Seq(StoreReview) /\ store' \in Seq(StoreReview)
      /\ run \in Memory /\ run.seen \in Nat
  BY TypeStep DEF TypeInv, TypeOK, Memory
<1>2. /\ DOMAIN store = 1..Len(store) /\ DOMAIN store' = 1..Len(store')
      /\ Len(store) \in Nat /\ Len(store') \in Nat
  BY <1>1
<1>3. /\ StoreKeeps(store, store')
      /\ \A i \in Waiting(store') :
           i \in DOMAIN store => i \in Waiting(store) /\ store'[i].version = store[i].version
  <2>1. StoreKeeps(store, store')
    BY StoreStep
  <2> QED BY <2>1 DEF StoreKeeps, Waiting, SamePackage
<1>4. Len(store) <= Len(store')
  <2>1. DOMAIN store \subseteq DOMAIN store'
    BY <1>3 DEF StoreKeeps
  <2> QED BY <1>2, <2>1
<1>5. CASE PassGuard
  <2>1. /\ run'.seen = Len(store) /\ UNCHANGED <<store, work>> /\ Blocking = {}
    BY <1>1, <1>5, MemoryKept DEF PassGuard
  <2> QED BY <1>2, <2>1 DEF GuardInv, Blocking, Waiting
<1>6. CASE /\ run'.seen \in {0, run.seen}
           /\ pc' = "create" => pc = "create" /\ UNCHANGED <<run, work>>
  <2>1. run'.seen <= Len(store')
    BY <1>1, <1>2, <1>4, <1>6 DEF GuardInv
  <2>2. ASSUME pc' = "create", NEW i \in Waiting(store'), i <= run'.seen
        PROVE  ContinueIfNewer /\ store'[i].version < work'.lock.version
    <3>1. i \in DOMAIN store /\ i <= run.seen
      BY <1>1, <1>2, <1>6, <2>2 DEF GuardInv, Waiting
    <3> QED BY <1>3, <1>6, <2>2, <3>1 DEF GuardInv
  <2> QED BY <2>1, <2>2 DEF GuardInv
<1> QED BY <1>5, <1>6, SeenStep

\* A review that was waiting when the guard looked is replaced only when the
\* settings allow it, and only by a newer version.
THEOREM SeenReviewIsReplacedByNewer == Spec => SeenReviewReplacedByNewer
<1>1. Init => GuardInv
  <2>1. Init => run.seen = 0 /\ pc = "idle" /\ store \in Seq(StoreReview)
    BY TypeInit DEF Init, NoRun, TypeInv, TypeOK
  <2> QED BY <2>1 DEF GuardInv
<1>2. TypeInv /\ GuardInv /\ [Next]_vars =>
        [Submits => \A i \in Waiting(store) :
           i <= run.seen =>
             ContinueIfNewer /\ store[i].version < store'[Len(store')].version]_vars
  BY SubmitsPackage DEF GuardInv
<1> QED BY <1>1, <1>2, TypeInit, TypeStep, GuardStep, PTL DEF Spec, SeenReviewReplacedByNewer

-----------------------------------------------------------------------------
(* Jobs.                                                                   *)

\* A packaged commit is handed over by the push of a package only.
LEMMA HandoffTrees ==
  ASSUME TypeInv, [Next]_vars
  PROVE  \A h \in handoffs' :
           \/ \E g \in handoffs : h.tree = g.tree
           \/ PushPackaged /\ run.built /\ h.tree = work
<1>1. CASE handoffs' \subseteq handoffs
  BY <1>1
<1>2. CASE handoffs' = LeftBehind
  BY <1>2, LeftBehindFrom
<1>3. CASE PushPackaged /\ run.built
  <2>1. \A h \in handoffs' : h \in LeftBehind \/ h.tree = work
    BY <1>3 DEF PushPackaged, HandedOver
  <2> QED BY <1>3, <2>1, LeftBehindFrom
<1>4. \/ handoffs' \subseteq handoffs \/ handoffs' = LeftBehind
      \/ PushPackaged /\ run.built
  BY DEF Next, RunStep, vars, StartRun, PauseForReview, PassGate, LookupRecord,
         RecoverSubmission, RefuseSource, KeepSource, PackageSource, PushPackaged,
         AlreadyRecorded, SkipExisting, NotExisting, PauseAtGuard, PassGuard,
         CreateReview, CreateReviewLost, PushRecord, PushRefused, RunFails,
         RerunSubmission, DeveloperPush, UpstreamMoves, Settle, SettleReview,
         SubmitManually
<1> QED BY <1>1, <1>2, <1>3, <1>4

\* What JobInv says of the run at work.
Jobs ==
  /\ pc \in SubmitPC => run.job = "submit"
  /\ run.job = "submit" => pc \in SubmitPC \cup {"reconcile"}
  /\ run.built /\ run.job = "check" => pc = "push" /\ work.lock.status = "packaged"

\* A submission job starts from a packaged commit, and a package waits for its push.
LEMMA JobsStep ==
  ASSUME TypeInv, JobInv, [Next]_vars
  PROVE  Jobs'
<1> USE DEF Jobs
<1>1. run.job \in {"check", "submit"} /\ Jobs
  BY DEF TypeInv, TypeOK, Memory, JobInv
<1>2. \A tree : tree.lock.status = "packaged" /\ SourceKnown(tree) /\ BeginReconcile(tree)
        => pc' = "reconcile"
  BY DEF SourceKnown, BeginReconcile
<1>3. ASSUME NEW retry \in BOOLEAN, StartRun(retry) PROVE Jobs'
  BY <1>3 DEF StartRun, NoRun, SubmitPC
<1>4. CASE \/ PauseForReview \/ RefuseSource \/ PauseAtGuard \/ CreateReviewLost
           \/ PushRecord \/ PushRefused \/ RunFails
  <2>1. pc' = "idle" /\ run' = NoRun
    BY <1>4 DEF PauseForReview, RefuseSource, PauseAtGuard, CreateReviewLost, PushRecord,
                PushRefused, RunFails, Finish
  <2> QED BY <2>1 DEF NoRun, SubmitPC
<1>5. CASE PassGate
  <2>1. /\ pc = "gate" /\ pc' \in {"decide", "reconcile"}
        /\ run'.job = run.job /\ run'.built = run.built
    BY <1>5, MemoryKept DEF PassGate, BeginReconcile
  <2> QED BY <1>1, <2>1 DEF SubmitPC
<1>6. CASE LookupRecord
  <2>1. /\ pc = "reconcile" /\ pc' = pc
        /\ run'.job = run.job /\ run'.built = run.built
    BY <1>6, MemoryKept DEF LookupRecord
  <2> QED BY <1>1, <2>1 DEF SubmitPC
<1>7. CASE RecoverSubmission
  <2>1. /\ pc = "reconcile" /\ pc' = IF run.job = "check" THEN "decide" ELSE "publish"
        /\ run' = run
    BY <1>7 DEF RecoverSubmission
  <2> QED BY <1>1, <2>1 DEF SubmitPC
<1>8. CASE KeepSource
  <2>1. CASE work.lock # repo.lock
    BY <1>1, <1>8, <2>1 DEF KeepSource, Selected, SubmitPC
  <2>2. CASE work.lock = repo.lock
    BY <1>8, <2>2 DEF KeepSource, Finish, NoRun, SubmitPC
  <2> QED BY <2>1, <2>2
<1>9. CASE PackageSource
  <2>1. /\ pc = "decide" /\ pc' = "push" /\ run'.job = run.job
    BY <1>9, MemoryKept DEF PackageSource, Selected
  <2>2. work'.lock.status = "packaged"
    BY <1>9 DEF PackageSource, TypeInv, TypeOK, Tree
  <2> QED BY <1>1, <2>1, <2>2 DEF SubmitPC
<1>10. CASE PushPackaged
  <2>1. CASE run.built
    <3>1. pc = "push" /\ run'.job = "submit"
      BY <1>10, <2>1, MemoryKept DEF PushPackaged
    <3>2. work.lock.status = "packaged"
      BY <1>1, <2>1, <3>1 DEF SubmitPC
    <3>3. pc' = "reconcile"
      BY <1>2, <1>10, <2>1, <3>2 DEF PushPackaged, TypeInv
    <3> QED BY <3>1, <3>3 DEF SubmitPC
  <2>2. CASE ~ run.built
    BY <1>10, <2>2 DEF PushPackaged, Finish, NoRun, SubmitPC
  <2> QED BY <2>1, <2>2
<1>11. CASE AlreadyRecorded \/ SkipExisting \/ NotExisting \/ PassGuard \/ CreateReview
  <2>1. pc \in SubmitPC /\ pc' \in SubmitPC /\ run'.job = run.job
    BY <1>11, MemoryKept
    DEF AlreadyRecorded, SkipExisting, NotExisting, PassGuard, CreateReview, SubmitPC
  <2> QED BY <1>1, <2>1
<1>12. ASSUME NEW h \in handoffs, RerunSubmission(h) PROVE Jobs'
  <2>1. /\ h.tree.lock.status = "packaged" /\ SourceKnown(h.tree)
        /\ BeginReconcile(h.tree) /\ run'.job = "submit"
    BY <1>12 DEF TypeInv, HandoffsKnown, JobInv, RerunSubmission, NoRun
  <2>2. pc' = "reconcile"
    BY <1>2, <2>1
  <2> QED BY <2>1, <2>2 DEF SubmitPC
<1>13. ASSUME NEW r \in Recipe, DeveloperPush(r) PROVE Jobs'
  BY <1>1, <1>13 DEF DeveloperPush, SubmitPC
<1>14. ASSUME NEW s \in Source, UpstreamMoves(s) PROVE Jobs'
  BY <1>1, <1>14 DEF UpstreamMoves
<1>15. ASSUME NEW v \in ManualVersion, SubmitManually(v) PROVE Jobs'
  BY <1>1, <1>15 DEF SubmitManually
<1>16. CASE Settle \/ UNCHANGED vars
  BY <1>1, <1>16 DEF Settle, SettleReview, vars
<1> QED
  BY <1>3, <1>4, <1>5, <1>6, <1>7, <1>8, <1>9, <1>10, <1>11, <1>12, <1>13, <1>14, <1>15,
     <1>16
  DEF Next, RunStep

\* Every packaged commit that is handed over is packaged.
LEMMA JobStep == TypeInv /\ JobInv /\ [Next]_vars => JobInv'
<1> SUFFICES ASSUME TypeInv, JobInv, [Next]_vars PROVE JobInv'
  OBVIOUS
<1>1. Jobs'
  BY JobsStep
<1>2. \A h \in handoffs' : h.tree.lock.status = "packaged"
  <2>1. ASSUME PushPackaged, run.built PROVE work.lock.status = "packaged"
    BY <2>1 DEF PushPackaged, JobInv, SubmitPC, TypeInv, TypeOK, Memory
  <2> QED BY <2>1, HandoffTrees DEF JobInv
<1> QED BY <1>1, <1>2 DEF JobInv, Jobs

-----------------------------------------------------------------------------
(* Numeric releases.                                                       *)

\* Being ahead is transitive, and reflexive for a lock with a source.
LEMMA AheadOrder ==
  /\ \A lock : lock.source \in Source => Ahead(lock, lock.source)
  /\ \A lock, middle, s : Ahead(lock, middle.source) /\ Ahead(middle, s) => Ahead(lock, s)
  /\ \A lock, other, s : lock.source = other.source /\ Ahead(lock, s) => Ahead(other, s)
BY SourceAssumption DEF Ahead

\* What is added to the store is of a source the branch is ahead of.
LEMMA StoreIsBehind ==
  ASSUME TypeInv, JobInv, NumericInv, [Next]_vars
  PROVE  \A i \in Automated' : Ahead(repo.lock, store'[i].source)
<1> SUFFICES ASSUME NEW i \in Automated' PROVE Ahead(repo.lock, store'[i].source)
  OBVIOUS
<1>1. CASE i \in DOMAIN store
  <2>1. i \in Automated /\ store'[i].source = store[i].source
    BY <1>1, StoreStep DEF StoreKeeps, Automated, SamePackage
  <2> QED BY <2>1 DEF NumericInv
<1>2. CASE i \notin DOMAIN store
  <2>1. (CreateReview \/ CreateReviewLost) /\ store'[i] = Submission
    BY <1>2, StoreStep DEF Automated
  <2>2. run.job = "submit"
    BY <2>1 DEF CreateReview, CreateReviewLost, JobInv, SubmitPC
  <2> QED BY <2>1, <2>2 DEF NumericInv, Submission
<1> QED BY <1>1, <1>2

\* A step that leaves the source of the branch as it is, and hands nothing over,
\* ends the run or goes on with the same source.
LEMMA NumericKept ==
  ASSUME TypeInv, NumericInv, repo'.lock.source = repo.lock.source,
         \A i \in Automated' : Ahead(repo.lock, store'[i].source),
         \A h \in handoffs' : \E g \in handoffs : h.tree = g.tree,
         \/ run'.job = "check" /\ work'.lock.source = repo.lock.source
         \/ /\ run'.job = run.job /\ work'.lock.source = work.lock.source
            /\ ~ behind' => ~ behind
  PROVE  NumericInv'
<1>1. /\ \A i \in Automated' : Ahead(repo'.lock, store'[i].source)
      /\ \A h \in handoffs' : Ahead(repo'.lock, h.tree.lock.source)
  BY AheadOrder DEF NumericInv
<1>2. CASE run'.job = "check" /\ work'.lock.source = repo.lock.source
  <2>1. repo'.lock.source = NoSource \/ Ahead(work'.lock, repo'.lock.source)
    BY <1>2, AheadOrder DEF TypeInv, TypeOK, Tree, Lock
  <2> QED BY <1>1, <1>2, <2>1 DEF NumericInv
<1>3. CASE /\ run'.job = run.job /\ work'.lock.source = work.lock.source
           /\ ~ behind' => ~ behind
  <2>1. run'.job = "submit" => /\ Ahead(repo'.lock, work'.lock.source)
                               /\ ~ behind' => work'.lock.source = repo'.lock.source
    BY <1>3, AheadOrder DEF NumericInv
  <2>2. run'.job = "check" /\ ~ behind' =>
          repo'.lock.source = NoSource \/ Ahead(work'.lock, repo'.lock.source)
    BY <1>3, AheadOrder DEF NumericInv
  <2> QED BY <1>1, <2>1, <2>2 DEF NumericInv
<1> QED BY <1>2, <1>3

\* What a run does between the checkout and a push, and after it.
LEMMA WorkSource ==
  ASSUME TypeInv, HistoryInv,
         \/ PassGate \/ LookupRecord \/ RecoverSubmission \/ AlreadyRecorded
         \/ SkipExisting \/ NotExisting \/ PassGuard \/ CreateReview
  PROVE  /\ work'.lock.source = work.lock.source /\ run'.job = run.job
         /\ UNCHANGED <<repo, behind, handoffs>>
<1>1. CASE PassGate
  <2>1. work \in Tree /\ SourceKnown(work) /\ TreeInv(work, store) /\ BeginReconcile(work)
    BY <1>1 DEF TypeInv, TypeOK, HistoryInv, PassGate
  <2>2. Reconciles(work', work, store)
    BY <2>1, BeginReconcileHistory
  <2> QED BY <1>1, <2>2, MemoryKept DEF PassGate, Reconciles, SamePackage
<1>2. CASE LookupRecord
  <2>1. Reconciles(work', work, store)
    BY <1>2, LookupRecordReconciles
  <2> QED BY <1>2, <2>1, MemoryKept DEF LookupRecord, Reconciles, SamePackage
<1>3. CASE RecoverSubmission
  <2>1. Reconciles(work', work, store)
    BY <1>3, RecoverSubmissionReconciles
  <2> QED BY <1>3, <2>1 DEF RecoverSubmission, Reconciles, SamePackage
<1>4. CASE SkipExisting
  <2>1. Reconciles(work', work, store)
    BY <1>4, SkipExistingReconciles
  <2> QED BY <1>4, <2>1 DEF SkipExisting, Reconciles, SamePackage
<1>5. CASE CreateReview
  <2>1. Reconciles(work', work, store')
    BY <1>5, CreateReviewReconciles
  <2> QED BY <1>5, <2>1 DEF CreateReview, Reconciles, SamePackage
<1>6. CASE AlreadyRecorded \/ NotExisting \/ PassGuard
  BY <1>6, MemoryKept DEF AlreadyRecorded, NotExisting, PassGuard
<1> QED BY <1>1, <1>2, <1>3, <1>4, <1>5, <1>6

\* With numeric releases the branch stays ahead of all that was submitted and of
\* all that is packaged, because a source that is not newer is refused.
LEMMA NumericStep ==
  ASSUME Numeric, TypeInv, HistoryInv, JobInv, NumericInv, [Next]_vars
  PROVE  NumericInv'
<1>1. \A i \in Automated' : Ahead(repo.lock, store'[i].source)
  BY StoreIsBehind
<1>2. ~ (PushPackaged /\ run.built) =>
        \A h \in handoffs' : \E g \in handoffs : h.tree = g.tree
  BY HandoffTrees
<1>3. ASSUME NEW retry \in BOOLEAN, StartRun(retry) PROVE NumericInv'
  <2>1. /\ run'.job = "check" /\ work'.lock.source = repo.lock.source
        /\ UNCHANGED <<repo, handoffs>>
    BY <1>3 DEF StartRun, NoRun, HistoryInv
  <2> QED BY <1>1, <2>1, NumericKept
<1>4. CASE \/ PauseForReview \/ RefuseSource \/ PauseAtGuard \/ CreateReviewLost
           \/ PushRefused \/ RunFails
  <2>1. /\ run'.job = "check" /\ work'.lock.source = repo.lock.source
        /\ UNCHANGED <<repo, handoffs>>
    BY <1>4 DEF PauseForReview, RefuseSource, PauseAtGuard, CreateReviewLost, PushRefused,
                RunFails, Finish, NoRun
  <2> QED BY <1>1, <2>1, NumericKept
<1>5. CASE \/ PassGate \/ LookupRecord \/ RecoverSubmission \/ AlreadyRecorded
           \/ SkipExisting \/ NotExisting \/ PassGuard \/ CreateReview
  <2>1. /\ work'.lock.source = work.lock.source /\ run'.job = run.job
        /\ UNCHANGED <<repo, behind, handoffs>>
    BY <1>5, WorkSource
  <2> QED BY <1>1, <2>1, NumericKept
<1>6. CASE KeepSource
  <2>1. CASE work.lock # repo.lock
    BY <1>1, <1>6, <2>1, NumericKept DEF KeepSource
  <2>2. CASE work.lock = repo.lock
    <3>1. /\ run'.job = "check" /\ work'.lock.source = repo.lock.source
          /\ UNCHANGED <<repo, handoffs>>
      BY <1>6, <2>2 DEF KeepSource, Finish, NoRun
    <3> QED BY <1>1, <3>1, NumericKept
  <2> QED BY <2>1, <2>2
<1>7. CASE PackageSource
  <2>1. /\ pc = "decide" /\ ~ Refused(work.lock, upstream) /\ run'.job = run.job
        /\ UNCHANGED <<repo, behind, store, handoffs>>
    BY <1>7, MemoryKept DEF PackageSource, Selected
  <2>2. work'.lock.source = upstream /\ upstream \in Source
    BY <1>7 DEF PackageSource, TypeInv, TypeOK, Tree
  <2>3. run.job = "check"
    BY <2>1 DEF JobInv, SubmitPC, TypeInv, TypeOK, Memory
  <2>4. work.lock.source \in Source => Ahead(work'.lock, work.lock.source)
    BY <2>1, <2>2, SourceAssumption DEF Refused, Ahead
  <2>5. ~ behind => repo.lock.source = NoSource \/ Ahead(work'.lock, repo.lock.source)
    <3>1. ASSUME ~ behind, Ahead(work.lock, repo.lock.source)
          PROVE  Ahead(work'.lock, repo.lock.source)
      <4>1. work.lock.source \in Source
        BY <3>1 DEF Ahead
      <4> QED BY <2>4, <3>1, <4>1, AheadOrder
    <3> QED BY <2>3, <3>1 DEF NumericInv
  <2> QED BY <1>1, <2>1, <2>3, <2>5 DEF NumericInv
<1>8. CASE PushPackaged
  <2>1. /\ pc = "push" /\ ~ behind /\ repo' = work
        /\ work \in Tree /\ SourceKnown(work) /\ TreeInv(work, store)
    BY <1>8 DEF PushPackaged, TypeInv, TypeOK, HistoryInv
  <2>2. run.job = "check"
    BY <2>1 DEF JobInv, SubmitPC, TypeInv, TypeOK, Memory
  <2>3. \A s : Ahead(repo.lock, s) => Ahead(repo'.lock, s)
    <3>1. repo.lock.source = NoSource \/ Ahead(work.lock, repo.lock.source)
      BY <2>1, <2>2 DEF NumericInv
    <3> QED BY <2>1, <3>1, AheadOrder, SourceAssumption DEF Ahead
  <2>4. \A i \in Automated' : Ahead(repo'.lock, store'[i].source)
    BY <1>1, <2>3
  <2>5. CASE run.built
    <3>1. work.lock.status = "packaged" /\ work.lock.source \in Source
      BY <2>1, <2>2, <2>5 DEF JobInv, SourceKnown, Tree, Lock
    <3>2. Ahead(repo'.lock, work.lock.source)
      BY <2>1, <3>1, AheadOrder
    <3>3. BeginReconcile(work) /\ run'.job = "submit" /\ behind' = behind
      BY <1>8, <2>5, MemoryKept DEF PushPackaged
    <3>4. work' = work
      BY <2>1, <3>1, <3>3, BeginReconcileHistory
    <3>5. \A h \in handoffs' : Ahead(repo'.lock, h.tree.lock.source)
      <4>1. \A h \in handoffs' : h.tree = work \/ \E g \in handoffs : h.tree = g.tree
        BY HandoffTrees
      <4> QED BY <2>3, <3>2, <4>1 DEF NumericInv
    <3> QED BY <2>1, <2>4, <3>2, <3>3, <3>4, <3>5 DEF NumericInv
  <2>6. CASE ~ run.built
    <3>1. run'.job = "check" /\ work' = work
      BY <1>8, <2>6 DEF PushPackaged, Finish, NoRun
    <3>2. \A h \in handoffs' : Ahead(repo'.lock, h.tree.lock.source)
      BY <1>2, <2>3, <2>6 DEF NumericInv
    <3>3. repo'.lock.source = NoSource \/ Ahead(work'.lock, repo'.lock.source)
      BY <2>1, <3>1, AheadOrder DEF Tree, Lock
    <3> QED BY <2>4, <3>1, <3>2, <3>3 DEF NumericInv
  <2> QED BY <2>5, <2>6
<1>9. CASE PushRecord
  <2>1. /\ pc = "pushRecord" /\ ~ behind /\ repo' = work /\ work' = work
        /\ run'.job = "check"
    BY <1>9 DEF PushRecord, Finish, NoRun
  <2>2. work.lock.source = repo.lock.source
    BY <2>1 DEF JobInv, SubmitPC, NumericInv
  <2> QED BY <1>1, <1>2, <1>9, <2>1, <2>2, NumericKept DEF PushRecord, PushPackaged
<1>10. ASSUME NEW h \in handoffs, RerunSubmission(h) PROVE NumericInv'
  <2>1. /\ h.tree \in Tree /\ SourceKnown(h.tree) /\ TreeInv(h.tree, store)
        /\ h.tree.lock.status # "submitted" /\ BeginReconcile(h.tree)
        /\ behind' = h.behind /\ run'.job = "submit" /\ handoffs' \subseteq handoffs
        /\ UNCHANGED <<repo, store>>
    BY <1>10 DEF TypeInv, HandoffsKnown, Handoff, HistoryInv, JobInv, RerunSubmission, NoRun
  <2>2. work' = h.tree
    BY <2>1, BeginReconcileHistory
  <2>3. Ahead(repo.lock, work'.lock.source)
    BY <2>2 DEF NumericInv
  <2>4. ~ behind' => work'.lock.source = repo.lock.source
    BY <2>1, <2>2 DEF HistoryInv
  <2> QED BY <1>1, <2>1, <2>3, <2>4 DEF NumericInv
<1>11. ASSUME NEW r \in Recipe, DeveloperPush(r) PROVE NumericInv'
  <2>1. repo'.lock = repo.lock /\ run' = run
    BY <1>11 DEF DeveloperPush, TypeInv, TypeOK, Tree
  <2>2. /\ work'.lock.source = work.lock.source
        /\ ~ behind' => ~ behind
    BY <1>11, <2>1 DEF DeveloperPush, HistoryInv
  <2>3. \A h \in handoffs' : \E g \in handoffs : h.tree = g.tree
    BY <1>11, LeftBehindFrom DEF DeveloperPush
  <2> QED BY <1>1, <2>1, <2>2, <2>3, NumericKept
<1>12. ASSUME NEW s \in Source, UpstreamMoves(s) PROVE NumericInv'
  BY <1>1, <1>12, NumericKept DEF UpstreamMoves
<1>13. ASSUME NEW v \in ManualVersion, SubmitManually(v) PROVE NumericInv'
  BY <1>1, <1>13, NumericKept DEF SubmitManually
<1>14. CASE Settle
  BY <1>1, <1>14, NumericKept DEF Settle, SettleReview
<1>15. CASE UNCHANGED vars
  BY <1>1, <1>15, NumericKept DEF vars
<1> QED
  BY <1>3, <1>4, <1>5, <1>6, <1>7, <1>8, <1>9, <1>10, <1>11, <1>12, <1>13, <1>14, <1>15
  DEF Next, RunStep

\* Initially no run is active, and the only review there can be is of the lock.
LEMMA NumericInit == Init => JobInv /\ NumericInv
<1> SUFFICES ASSUME Init PROVE JobInv /\ NumericInv
  OBVIOUS
<1>1. /\ run.job = "check" /\ ~ run.built /\ pc = "idle" /\ handoffs = {} /\ work = repo
  BY DEF Init, NoRun
<1>2. PICK r \in Recipe :
        \/ /\ repo = [lock |-> EmptyLock(r), version |-> InitialVersion, recipe |-> r]
           /\ store = <<>>
        \/ \E s \in Source, status \in {"packaged", "submitted"} :
             /\ repo = [lock |-> LegacyLock(s, r, status),
                        version |-> InitialVersion, recipe |-> r]
             /\ \/ store = <<>>
                \/ \E rs \in ReviewStatus : store = <<LegacyReview(s, rs)>>
  BY DEF Init
<1>3. /\ repo.lock.source = NoSource \/ repo.lock.source \in Source
      /\ \A i \in DOMAIN store :
           repo.lock.source \in Source /\ store[i].source = repo.lock.source
  BY <1>2 DEF EmptyLock, LegacyLock, LegacyReview
<1>4. \A i \in Automated : Ahead(repo.lock, store[i].source)
  BY <1>3, AheadOrder DEF Automated
<1>5. repo.lock.source = NoSource \/ Ahead(work.lock, repo.lock.source)
  BY <1>1, <1>3, AheadOrder
<1> QED BY <1>1, <1>4, <1>5 DEF JobInv, NumericInv, SubmitPC

\* With numeric releases, what is submitted from the head of the branch is newer
\* than everything that was submitted before, whatever was refused, rejected,
\* retried or started again in between.
THEOREM NumericReleasesDoIncrease ==
  ASSUME Numeric PROVE Spec => NumericReleasesIncrease
<1> DEFINE Inv == TypeInv /\ HistoryInv /\ JobInv /\ NumericInv
<1>1. Init => Inv
  BY TypeInit, HistoryInit, NumericInit
<1>2. Inv /\ [Next]_vars => Inv'
  BY TypeStep, HistoryStep, JobStep, NumericStep
<1>3. Inv /\ [Next]_vars =>
        [Submits /\ ~ behind =>
           LET s == store'[Len(store')].source
           IN  \A i \in Automated :
                 store[i].source # s => Release[store[i].source] < Release[s]]_vars
  <2> SUFFICES ASSUME Inv, [Next]_vars, Submits, ~ behind, NEW i \in Automated,
                      store[i].source # store'[Len(store')].source
               PROVE  Release[store[i].source] < Release[store'[Len(store')].source]
    OBVIOUS
  <2>1. pc = "create" /\ store'[Len(store')].source = work.lock.source
    BY SubmitsPackage
  <2>2. work.lock.source = repo.lock.source
    BY <2>1 DEF JobInv, SubmitPC, NumericInv
  <2> QED BY <2>1, <2>2 DEF NumericInv, Ahead
<1> QED BY <1>1, <1>2, <1>3, PTL DEF Spec, NumericReleasesIncrease

=============================================================================
