--------------------------- MODULE SourcePipeline ---------------------------
(***************************************************************************)
(* The version 2 source pipeline with update strategy "publish": one       *)
(* workflow run checks the upstream source, packages it, pushes the        *)
(* packaged state to the adapter's branch, submits the package to the      *)
(* official store for review and pushes the record of that review.         *)
(*                                                                         *)
(* Three parties keep state that outlives a run and meet only through it:  *)
(* the branch (package.yml, lock file, build recipe), the store (the list  *)
(* of reviews of the application) and upstream (the selected source).  A   *)
(* run works on a private checkout; it may fail at every step, a developer *)
(* may push to the branch while it works, and reviewers decide at any time.*)
(* The workflow's concurrency group lets at most one run be in progress.   *)
(*                                                                         *)
(* Abstractions.  A source stands for source.Candidate with its kind, ref  *)
(* and revision (what SameSource compares).  A fingerprint is the pair of  *)
(* source and recipe.  Application versions are naturals and BumpPatch is  *)
(* the successor.  An LPK hash is the number of the build that produced    *)
(* it: its build date is that of the checked out commit, so two builds can *)
(* share a hash only when the first one was never pushed, and then nothing *)
(* outside that run refers to it.                                          *)
(*                                                                         *)
(* An operator whose comment begins with "Bug:" is not part of the model.  *)
(* It is the definition that follows it with a mistake one could make in   *)
(* the code, and it shows that a property notices that mistake.            *)
(***************************************************************************)
EXTENDS Naturals, Sequences

CONSTANTS
  Source,          \* upstream sources that discovery may select
  NoSource,        \* the source of an empty lock, of a manual submission
  BaseVersion,     \* application version a source suggests; 0 when it has none
  Tag,             \* Git tag a source was selected by, or NoTag
  NoTag,
  Numeric,         \* source.select.sort = numeric
  Release,         \* upstream version compared when Numeric
  Recipe,          \* contents of the preparation inputs a fingerprint covers
  InitialVersion,  \* version in package.yml before the first run
  LegacyLocks,     \* the branch may start with a lock that has no review history
  Lookup,          \* credentials allow the review list to be read (developer PAT)
  ContinueIfNewer, \* stores.official.continue_if_newer_version
  SkipIfExists,    \* stores.official.skip_if_version_exists
  AllowDowngrade,  \* update.allow_downgrade
  ManualVersion,   \* versions the developer may submit by hand
  Budget           \* bound on each kind of disturbance

Disturbance == {"push", "failure", "retry", "manual", "rerun"}

ASSUME SourceAssumption ==
  /\ NoSource \notin Source
  /\ BaseVersion \in [Source -> Nat]
  /\ Release \in [Source -> Nat]
  /\ DOMAIN Tag = Source

ASSUME SettingsAssumption ==
  /\ {Numeric, LegacyLocks, Lookup, ContinueIfNewer, SkipIfExists, AllowDowngrade}
       \subseteq BOOLEAN
  /\ InitialVersion \in Nat
  /\ ManualVersion \subseteq Nat
  /\ Budget \in [Disturbance -> Nat]

VARIABLES
  repo,      \* tree at the head of the adapter's branch
  work,      \* the run's checkout of it (equal to repo while no run is active)
  behind,    \* a developer pushed since the run's checkout
  store,     \* the store's reviews of the application; a review's id is its index
  upstream,  \* the source discovery would select now
  pc,        \* where the run is
  run,       \* what the run remembers
  builds,    \* number of LPKs built so far
  spent,     \* disturbances so far
  granted,   \* history: sources whose rejected review an operator asked to
             \* retry and that were not submitted since
  handoffs   \* packaged commits whose submission job can be started again

vars == <<repo, work, behind, store, upstream, pc, run, builds, spent, granted, handoffs>>

-----------------------------------------------------------------------------
(* The lock file and the review records it keeps (pipelinestate).          *)

ReviewStatus == {"waiting", "approved", "rejected", "canceled"}
OpenStatus == {"waiting", "submitted"}
RecordStatus == ReviewStatus \cup {"submitted", "untracked"}

\* id is 0 until the store's review is known; dated says that a time of
\* submission is known.
Record == [source: Source, recipe: Recipe, version: Nat, sha: Nat,
           id: Nat, status: RecordStatus, dated: BOOLEAN]

Lock == [source: Source \cup {NoSource}, recipe: Recipe,
         status: {"none", "packaged", "submitted"},
         version: Nat, sha: Nat, dated: BOOLEAN, reviews: Seq(Record)]

Tree == [lock: Lock, version: Nat, recipe: Recipe]

\* A packaged commit, and whether the branch moved on since.
Handoff == [tree: Tree, behind: BOOLEAN]

StoreReview == [version: Nat, sha: Nat, source: Source \cup {NoSource},
                channel: {"automation", "manual"}, status: ReviewStatus]

\* The record of what the lock describes, before the store's answer is known.
RecordOf(lock, status, dated) ==
  [source |-> lock.source, recipe |-> lock.recipe, version |-> lock.version,
   sha |-> lock.sha, id |-> 0, status |-> status, dated |-> dated]

SameFingerprint(left, right) ==
  left.source = right.source /\ left.recipe = right.recipe

\* What RecordReview takes for the same review.
SameReview(old, new) ==
  \/ new.id # 0 /\ old.id = new.id
  \/ old.version = new.version /\ SameFingerprint(old, new)

\* The first record of the same review is replaced, or the record is appended.
RecordReview(reviews, new) ==
  IF \E i \in DOMAIN reviews : SameReview(reviews[i], new)
  THEN [i \in DOMAIN reviews |->
          IF /\ SameReview(reviews[i], new)
             /\ \A j \in 1..(i - 1) : ~ SameReview(reviews[j], new)
          THEN new ELSE reviews[i]]
  ELSE Append(reviews, new)

\* A record takes over what the store says of review number id.
Applied(record, id, review) ==
  [record EXCEPT !.id = id, !.status = review.status, !.dated = TRUE]

-----------------------------------------------------------------------------
(* The store.                                                              *)

Waiting(reviews) == {i \in DOMAIN reviews : reviews[i].status = "waiting"}

\* The version the store has online: that of its last approved review.
Online(version) ==
  \E i \in DOMAIN store :
    /\ store[i].status = "approved" /\ store[i].version = version
    /\ \A j \in DOMAIN store : store[j].status = "approved" => j <= i

\* Bug: the newest review of the channel is taken, whatever its version and hash.
FindNewestReview(id, version, sha) ==
  LET Matches(i) == store[i].channel = "automation"
  IN  {i \in DOMAIN store :
         /\ Lookup
         /\ IF id # 0 THEN i = id
            ELSE Matches(i) /\ \A j \in DOMAIN store : Matches(j) => j <= i}

\* FindReview: by id when it is known, otherwise the newest review of the
\* automation channel with the version and hash.  At most one element; none
\* when the credentials do not allow a lookup.  Reviews here have a channel and
\* a hash; the program also takes one that lacks them for a match, and asks only
\* for those around the time of the submission when it knows that.
FindReview(id, version, sha) ==
  LET Matches(i) == /\ store[i].channel = "automation"
                    /\ store[i].version = version /\ store[i].sha = sha
  IN  {i \in DOMAIN store :
         /\ Lookup
         /\ IF id # 0 THEN i = id
            ELSE Matches(i) /\ \A j \in DOMAIN store : Matches(j) => j <= i}

\* Accepting a review cancels the one that was waiting, in one step.
Accept(review) ==
  Append([i \in DOMAIN store |->
            IF store[i].status = "waiting"
            THEN [store[i] EXCEPT !.status = "canceled"] ELSE store[i]],
         review)

-----------------------------------------------------------------------------
(* What the check decides about a discovered source.                       *)

HasRecord(lock, s) == \E i \in DOMAIN lock.reviews : lock.reviews[i].source = s

Processed(lock, s) ==
  HasRecord(lock, s) \/ (lock.status = "submitted" /\ lock.source = s)

\* The status of the last record of the source counts.
Rejected(lock, s) ==
  \E i \in DOMAIN lock.reviews :
    /\ lock.reviews[i].source = s /\ lock.reviews[i].status = "rejected"
    /\ \A j \in DOMAIN lock.reviews : lock.reviews[j].source = s => j <= i

\* Packaged for this source, and no review was recorded for that package.
Resumable(lock, s) ==
  /\ lock.status = "packaged" /\ lock.source = s
  /\ \A i \in DOMAIN lock.reviews : lock.reviews[i].version # lock.version

\* Bug: the same release with another digest passes.
RefusedOlder(lock, s) ==
  /\ lock.source \in Source /\ lock.source # s
  /\ \/ Numeric /\ Release[s] < Release[lock.source]
     \/ Tag[s] # NoTag /\ Tag[s] = Tag[lock.source]

\* A numeric release older than the recorded one, or equal to it with another
\* digest, and a Git tag that points to another revision than the recorded one.
Refused(lock, s) ==
  /\ lock.source \in Source /\ lock.source # s
  /\ \/ Numeric /\ Release[s] <= Release[lock.source]
     \/ Tag[s] # NoTag /\ Tag[s] = Tag[lock.source]

FingerprintOf(tree, s) == [source |-> s, recipe |-> tree.recipe]

\* Bug: only the lock is compared, not the history of reviews.
ChangedFromLock(tree, s, retry) ==
  \/ retry
  \/ ~ SameFingerprint(tree.lock, FingerprintOf(tree, s))
  \/ tree.lock.status # "submitted"

\* Bug: a packaged source counts as done, as under the pull strategy.
ChangedUnpackaged(tree, s, retry) ==
  \/ retry
  \/ /\ Processed(tree.lock, s) => Resumable(tree.lock, s)
     /\ \/ ~ SameFingerprint(tree.lock, FingerprintOf(tree, s))
        \/ tree.lock.status = "none"

\* Bug: a source with a review is done, also when its retry was only packaged.
ChangedUnprocessed(tree, s, retry) ==
  \/ retry
  \/ /\ ~ Processed(tree.lock, s)
     /\ \/ ~ SameFingerprint(tree.lock, FingerprintOf(tree, s))
        \/ tree.lock.status # "submitted"

Changed(tree, s, retry) ==
  \/ retry
  \/ /\ Processed(tree.lock, s) => Resumable(tree.lock, s)
     /\ \/ ~ SameFingerprint(tree.lock, FingerprintOf(tree, s))
        \/ tree.lock.status # "submitted"

\* Bug: a suggested version equal to the current one is used again.
ReusedApplicationVersion(tree, s) ==
  IF /\ SameFingerprint(tree.lock, FingerprintOf(tree, s))
     /\ tree.lock.status \in {"packaged", "submitted"}
  THEN tree.lock.version
  ELSE IF BaseVersion[s] >= tree.version THEN BaseVersion[s] ELSE tree.version + 1

SourceApplicationVersion(tree, s) ==
  IF /\ SameFingerprint(tree.lock, FingerprintOf(tree, s))
     /\ tree.lock.status \in {"packaged", "submitted"}
  THEN tree.lock.version
  ELSE IF BaseVersion[s] > tree.version THEN BaseVersion[s] ELSE tree.version + 1

\* The version of a package.  A source that is not packaged because it was
\* processed has that of its record in the program, which only decides whether a
\* waiting review is given as the reason, and is left out.
NewVersion(tree, s, retry) ==
  IF /\ retry
     /\ ~ (Resumable(tree.lock, s) /\ SameFingerprint(tree.lock, FingerprintOf(tree, s)))
  THEN tree.version + 1
  ELSE SourceApplicationVersion(tree, s)

-----------------------------------------------------------------------------
(* Initial states.                                                         *)

\* What a run remembers: the version of the waiting review seen at the gate,
\* the next record to look up, whether it built an LPK, and how many reviews
\* the store had at the final look.
Memory == [job: {"check", "submit"}, retry: BOOLEAN, waiting: Nat,
           cursor: Nat, built: BOOLEAN, seen: Nat]

NoRun == [job |-> "check", retry |-> FALSE, waiting |-> 0, cursor |-> 0,
          built |-> FALSE, seen |-> 0]

EmptyLock(r) ==
  [source |-> NoSource, recipe |-> r, status |-> "none", version |-> 0, sha |-> 0,
   dated |-> FALSE, reviews |-> <<>>]

\* A lock written before locks had packaged_at and reviews.
LegacyLock(s, r, status) ==
  [source |-> s, recipe |-> r, status |-> status, version |-> InitialVersion,
   sha |-> 1, dated |-> FALSE, reviews |-> <<>>]

LegacyReview(s, status) ==
  [version |-> InitialVersion, sha |-> 1, source |-> s, channel |-> "automation",
   status |-> status]

Init ==
  /\ \E r \in Recipe :
       \/ /\ repo = [lock |-> EmptyLock(r), version |-> InitialVersion, recipe |-> r]
          /\ store = <<>> /\ builds = 0
       \/ /\ LegacyLocks
          /\ \E s \in Source, status \in {"packaged", "submitted"} :
               /\ repo = [lock |-> LegacyLock(s, r, status),
                          version |-> InitialVersion, recipe |-> r]
               /\ \/ store = <<>>
                  \/ \E rs \in ReviewStatus : store = <<LegacyReview(s, rs)>>
          /\ builds = 1
  /\ work = repo /\ behind = FALSE
  /\ upstream \in Source
  /\ pc = "idle" /\ run = NoRun
  /\ spent = [d \in Disturbance |-> 0]
  /\ granted = {} /\ handoffs = {}

-----------------------------------------------------------------------------
(* The check job.                                                          *)

Spend(d) ==
  /\ spent[d] < Budget[d]
  /\ spent' = [spent EXCEPT ![d] = @ + 1]

\* The run is over: its checkout and everything it remembered are gone.
Finish(head) ==
  /\ pc' = "idle" /\ run' = NoRun
  /\ work' = head /\ behind' = FALSE

\* A scheduled run, or one that an operator dispatched with retry-rejected.
StartRun(retry) ==
  /\ pc = "idle"
  /\ pc' = "gate" /\ run' = [NoRun EXCEPT !.retry = retry]
  /\ IF retry THEN Spend("retry") ELSE UNCHANGED spent
  /\ UNCHANGED <<repo, work, behind, store, upstream, builds, granted, handoffs>>

\* Bug: locks from before the history are taken as they are.
NotMigrated(lock) == lock

\* A submitted lock whose history lacks its review gets an undated record.
Migrated(lock) ==
  IF /\ lock.status = "submitted"
     /\ \A i \in DOMAIN lock.reviews :
          ~ (SameFingerprint(lock.reviews[i], lock) /\ lock.reviews[i].version = lock.version)
  THEN [lock EXCEPT !.reviews = RecordReview(@, RecordOf(lock, "submitted", FALSE))]
  ELSE lock

\* Enter reconcileReviews, which does nothing for a lock without fingerprint.
BeginReconcile(tree) ==
  /\ pc' = IF tree.lock.source = NoSource THEN "decide" ELSE "reconcile"
  /\ work' = [tree EXCEPT !.lock = Migrated(@)]

\* A pending review ends the run unless a newer version may replace it.
PauseForReview ==
  /\ pc = "gate" /\ Waiting(store) # {} /\ ~ ContinueIfNewer
  /\ Finish(repo)
  /\ UNCHANGED <<repo, store, upstream, builds, spent, granted, handoffs>>

PassGate ==
  /\ pc = "gate"
  /\ \/ Waiting(store) = {} /\ run' = [run EXCEPT !.cursor = 1]
     \/ /\ ContinueIfNewer
        /\ \E i \in Waiting(store) :
             run' = [run EXCEPT !.cursor = 1, !.waiting = store[i].version]
  /\ BeginReconcile(work)
  /\ UNCHANGED <<repo, behind, store, upstream, builds, spent, granted, handoffs>>

\* No review was found, and nothing dates this record: give it up.
Untraceable(record, lock) ==
  /\ record.id = 0 /\ ~ record.dated
  /\ ~ (record.version = lock.version /\ lock.dated)

\* One record with an open status is looked up; settled ones are passed over.
LookupRecord ==
  /\ pc = "reconcile" /\ run.cursor <= Len(work.lock.reviews)
  /\ LET record == work.lock.reviews[run.cursor]
         found == FindReview(record.id, record.version, record.sha)
         Set(r) == work' = [work EXCEPT !.lock.reviews[run.cursor] = r]
     IN  \/ record.status \notin OpenStatus /\ UNCHANGED work
         \/ /\ record.status \in OpenStatus
            /\ \/ \E i \in found : Set(Applied(record, i, store[i]))
               \/ /\ found = {} /\ Untraceable(record, work.lock)
                  /\ Set([record EXCEPT !.status = "untracked"])
               \/ found = {} /\ ~ Untraceable(record, work.lock) /\ UNCHANGED work
  /\ run' = [run EXCEPT !.cursor = @ + 1]
  /\ UNCHANGED <<repo, behind, store, upstream, pc, builds, spent, granted, handoffs>>

\* Bug: the lock is marked as submitted, and the review is not recorded.
RecoverStatusOnly ==
  /\ pc = "reconcile" /\ run.cursor > Len(work.lock.reviews)
  /\ LET lock == work.lock
         found == IF lock.status = "packaged"
                  THEN FindReview(0, lock.version, lock.sha) ELSE {}
     IN  work' = IF found = {} THEN work ELSE [work EXCEPT !.lock.status = "submitted"]
  /\ pc' = IF run.job = "check" THEN "decide" ELSE "publish"
  /\ UNCHANGED <<repo, behind, store, upstream, run, builds, spent, granted, handoffs>>

\* A packaged lock whose review the store has: its submission was lost.
RecoverSubmission ==
  /\ pc = "reconcile" /\ run.cursor > Len(work.lock.reviews)
  /\ LET lock == work.lock
         found == IF lock.status = "packaged"
                  THEN FindReview(0, lock.version, lock.sha) ELSE {}
     IN  \/ found = {} /\ UNCHANGED work
         \/ \E i \in found :
              work' = [work EXCEPT !.lock.status = "submitted",
                         !.lock.reviews = RecordReview(@,
                            Applied(RecordOf(lock, "submitted", FALSE), i, store[i]))]
  /\ pc' = IF run.job = "check" THEN "decide" ELSE "publish"
  /\ UNCHANGED <<repo, behind, store, upstream, run, builds, spent, granted, handoffs>>

RefuseSource ==
  /\ pc = "decide"
  /\ Refused(work.lock, upstream) \/ (run.retry /\ ~ Rejected(work.lock, upstream))
  /\ Finish(repo)
  /\ UNCHANGED <<repo, store, upstream, builds, spent, granted, handoffs>>

Selected ==
  /\ pc = "decide"
  /\ ~ Refused(work.lock, upstream)
  /\ run.retry => Rejected(work.lock, upstream)

\* The pending review found at the gate has the version the source would get,
\* or a newer one.
CoveredByWaiting ==
  run.waiting # 0 /\ run.waiting >= NewVersion(work, upstream, run.retry)

\* Nothing to package.  A reconciled lock is still committed.
KeepSource ==
  /\ Selected
  /\ CoveredByWaiting \/ ~ Changed(work, upstream, run.retry)
  /\ IF work.lock # repo.lock
     THEN pc' = "push" /\ UNCHANGED <<work, behind, run>>
     ELSE Finish(repo)
  /\ UNCHANGED <<repo, store, upstream, builds, spent, granted, handoffs>>

\* Bug: the new lock starts without the history of the old one.
PackageWithoutHistory ==
  /\ Selected
  /\ ~ CoveredByWaiting /\ Changed(work, upstream, run.retry)
  /\ LET version == NewVersion(work, upstream, run.retry)
     IN  work' = [work EXCEPT !.version = version,
                    !.lock = [source |-> upstream, recipe |-> work.recipe,
                              status |-> "packaged", version |-> version,
                              sha |-> builds + 1, dated |-> TRUE, reviews |-> <<>>]]
  /\ builds' = builds + 1
  /\ pc' = "push" /\ run' = [run EXCEPT !.built = TRUE]
  /\ granted' = IF run.retry THEN granted \cup {upstream} ELSE granted
  /\ UNCHANGED <<repo, behind, store, upstream, spent, handoffs>>

\* Prepare, set the version, build the LPK and write the packaged lock.
PackageSource ==
  /\ Selected
  /\ ~ CoveredByWaiting /\ Changed(work, upstream, run.retry)
  /\ LET version == NewVersion(work, upstream, run.retry)
     IN  work' = [work EXCEPT !.version = version,
                    !.lock = [source |-> upstream, recipe |-> work.recipe,
                              status |-> "packaged", version |-> version,
                              sha |-> builds + 1, dated |-> TRUE,
                              reviews |-> work.lock.reviews]]
  /\ builds' = builds + 1
  /\ pc' = "push" /\ run' = [run EXCEPT !.built = TRUE]
  /\ granted' = IF run.retry THEN granted \cup {upstream} ELSE granted
  /\ UNCHANGED <<repo, behind, store, upstream, spent, handoffs>>

\* Once the branch has another head, the packaged commits are behind it.
LeftBehind == {[h EXCEPT !.behind = TRUE] : h \in handoffs}

\* A packaged commit and its LPK are kept for the submission job (as long as
\* the bound on reruns allows one).
HandedOver(tree) ==
  IF spent["rerun"] < Budget["rerun"]
  THEN LeftBehind \cup {[tree |-> tree, behind |-> FALSE]} ELSE {}

\* Bug: the package is submitted before its lock is on the branch.
SubmitUnpushed ==
  /\ pc = "push" /\ ~ behind
  /\ IF run.built
     THEN /\ run' = [run EXCEPT !.job = "submit", !.cursor = 1]
          /\ BeginReconcile(work)
          /\ UNCHANGED <<repo, behind>>
     ELSE repo' = work /\ Finish(work)
  /\ UNCHANGED <<store, upstream, builds, spent, granted, handoffs>>

\* Commit and push.  The submission job checks out the pushed commit and
\* reconciles again; without an LPK there is none.
PushPackaged ==
  /\ pc = "push" /\ ~ behind
  /\ repo' = work
  /\ IF run.built
     THEN /\ run' = [run EXCEPT !.job = "submit", !.cursor = 1]
          /\ BeginReconcile(work)
          /\ UNCHANGED behind
     ELSE Finish(work)
  /\ handoffs' = IF run.built THEN HandedOver(work) ELSE LeftBehind
  /\ UNCHANGED <<store, upstream, builds, spent, granted>>

-----------------------------------------------------------------------------
(* The submission job.                                                     *)

\* The review is already recorded; only the recovered lock is committed.
AlreadyRecorded ==
  /\ pc = "publish" /\ work.lock.status = "submitted"
  /\ pc' = "pushRecord"
  /\ UNCHANGED <<repo, work, behind, store, upstream, run, builds, spent, granted, handoffs>>

\* checkExisting: the version, or a newer one, is online.
Exists(version) ==
  /\ SkipIfExists
  /\ \E v \in {store[i].version : i \in DOMAIN store} :
       Online(v) /\ (v = version \/ (~ AllowDowngrade /\ v > version))

\* Nothing is submitted, and the package is recorded as approved.
SkipExisting ==
  /\ pc = "publish" /\ work.lock.status = "packaged" /\ Exists(work.lock.version)
  /\ work' = [work EXCEPT !.lock.status = "submitted",
                !.lock.reviews = RecordReview(@, RecordOf(work.lock, "approved", TRUE))]
  /\ pc' = "pushRecord"
  /\ UNCHANGED <<repo, behind, store, upstream, run, builds, spent, granted, handoffs>>

NotExisting ==
  /\ pc = "publish" /\ work.lock.status = "packaged" /\ ~ Exists(work.lock.version)
  /\ pc' = "guard"
  /\ UNCHANGED <<repo, work, behind, store, upstream, run, builds, spent, granted, handoffs>>

\* Bug: a waiting review of the same version does not block.
BlockingNewer ==
  {i \in Waiting(store) : ~ (ContinueIfNewer /\ store[i].version <= work.lock.version)}

\* The final look at the waiting review, before the upload.
Blocking ==
  {i \in Waiting(store) : ~ (ContinueIfNewer /\ store[i].version < work.lock.version)}

PauseAtGuard ==
  /\ pc = "guard" /\ Blocking # {}
  /\ Finish(repo)
  /\ UNCHANGED <<repo, store, upstream, builds, spent, granted, handoffs>>

PassGuard ==
  /\ pc = "guard" /\ Blocking = {}
  /\ pc' = "create" /\ run' = [run EXCEPT !.seen = Len(store)]
  /\ UNCHANGED <<repo, work, behind, store, upstream, builds, spent, granted, handoffs>>

Submission ==
  [version |-> work.lock.version, sha |-> work.lock.sha, source |-> work.lock.source,
   channel |-> "automation", status |-> "waiting"]

\* The store accepts the review.  Its answer may carry the review or not.
CreateReview ==
  /\ pc = "create"
  /\ store' = Accept(Submission)
  /\ LET record == RecordOf(work.lock, "submitted", TRUE)
     IN  \E answer \in {record, Applied(record, Len(store'), Submission)} :
           work' = [work EXCEPT !.lock.status = "submitted",
                      !.lock.reviews = RecordReview(@, answer)]
  /\ pc' = "pushRecord"
  /\ granted' = granted \ {work.lock.source}
  /\ UNCHANGED <<repo, behind, upstream, run, builds, spent, handoffs>>

\* The store accepts the review and the run ends before it writes the lock:
\* the answer is lost, the process is stopped, or the write fails.
CreateReviewLost ==
  /\ pc = "create" /\ Spend("failure")
  /\ store' = Accept(Submission)
  /\ granted' = granted \ {work.lock.source}
  /\ UNCHANGED repo /\ Finish(repo)
  /\ UNCHANGED <<upstream, builds, handoffs>>

PushRecord ==
  /\ pc = "pushRecord" /\ ~ behind
  /\ repo' = work /\ Finish(work) /\ handoffs' = LeftBehind
  /\ UNCHANGED <<store, upstream, builds, spent, granted>>

-----------------------------------------------------------------------------
(* Failures and the parties outside the run.                               *)

\* git push is refused when the branch moved: the job fails.
PushRefused ==
  /\ pc \in {"push", "pushRecord"} /\ behind
  /\ UNCHANGED repo /\ Finish(repo)
  /\ UNCHANGED <<store, upstream, builds, spent, granted, handoffs>>

\* Any other step may fail or the runner may be lost.
RunFails ==
  /\ pc # "idle" /\ Spend("failure")
  /\ UNCHANGED repo /\ Finish(repo)
  /\ UNCHANGED <<store, upstream, builds, granted, handoffs>>

\* An operator starts the submission job of an earlier run again.  It checks
\* out the packaged commit of that run, wherever the branch is by now.
RerunSubmission(handoff) ==
  /\ pc = "idle" /\ handoff \in handoffs /\ Spend("rerun")
  /\ run' = [NoRun EXCEPT !.job = "submit", !.cursor = 1, !.built = TRUE]
  /\ BeginReconcile(handoff.tree) /\ behind' = handoff.behind
  /\ handoffs' = {h \in handoffs : spent'["rerun"] < Budget["rerun"]}
  /\ UNCHANGED <<repo, store, upstream, builds, granted>>

\* The developer pushes a commit; it may change the recipe.
DeveloperPush(r) ==
  /\ Spend("push")
  /\ repo' = [repo EXCEPT !.recipe = r]
  /\ IF pc = "idle" THEN work' = repo' /\ UNCHANGED behind
                    ELSE behind' = TRUE /\ UNCHANGED work
  /\ handoffs' = LeftBehind
  /\ UNCHANGED <<store, upstream, pc, run, builds, granted>>

UpstreamMoves(s) ==
  /\ s # upstream
  /\ upstream' = s
  /\ UNCHANGED <<repo, work, behind, store, pc, run, builds, spent, granted, handoffs>>

\* A reviewer, or the developer who withdraws the review, settles it.
SettleReview(i, verdict) ==
  /\ i \in Waiting(store)
  /\ store' = [store EXCEPT ![i].status = verdict]
  /\ UNCHANGED <<repo, work, behind, upstream, pc, run, builds, spent, granted, handoffs>>

\* The developer submits a package of their own through the store's web page.
SubmitManually(version) ==
  /\ Spend("manual")
  /\ store' = Accept([version |-> version, sha |-> 0, source |-> NoSource,
                      channel |-> "manual", status |-> "waiting"])
  /\ UNCHANGED <<repo, work, behind, upstream, pc, run, builds, granted, handoffs>>

-----------------------------------------------------------------------------

\* The steps a run takes by itself once it is started.
RunStep ==
  \/ PauseForReview \/ PassGate \/ LookupRecord \/ RecoverSubmission
  \/ RefuseSource \/ KeepSource \/ PackageSource \/ PushPackaged
  \/ AlreadyRecorded \/ SkipExisting \/ NotExisting
  \/ PauseAtGuard \/ PassGuard \/ CreateReview \/ PushRecord \/ PushRefused

Settle ==
  \E i \in DOMAIN store, verdict \in {"approved", "rejected", "canceled"} :
    SettleReview(i, verdict)

Next ==
  \/ \E retry \in BOOLEAN : StartRun(retry)
  \/ RunStep
  \/ CreateReviewLost
  \/ RunFails
  \/ \E handoff \in handoffs : RerunSubmission(handoff)
  \/ \E r \in Recipe : DeveloperPush(r)
  \/ \E s \in Source : UpstreamMoves(s)
  \/ Settle
  \/ \E v \in ManualVersion : SubmitManually(v)

Spec == Init /\ [][Next]_vars

\* The schedule starts a run again and again, a started run goes on, and
\* reviewers settle what waits.  Nothing is assumed of operators, developers
\* and upstream.
FairSpec ==
  Spec /\ WF_vars(StartRun(FALSE)) /\ WF_vars(RunStep) /\ WF_vars(Settle)

-----------------------------------------------------------------------------
(* Properties.                                                             *)

TypeOK ==
  /\ repo \in Tree /\ work \in Tree
  /\ behind \in BOOLEAN
  /\ store \in Seq(StoreReview)
  /\ upstream \in Source
  /\ pc \in {"idle", "gate", "reconcile", "decide", "push",
             "publish", "guard", "create", "pushRecord"}
  /\ run \in Memory
  /\ builds \in Nat
  /\ spent \in [Disturbance -> Nat]
  /\ granted \subseteq Source
  /\ handoffs \subseteq Handoff

\* The reviews this pipeline created.
Automated == {i \in DOMAIN store : store[i].channel = "automation"}

\* The same package: what a review, a record and a lock can be compared by.
SamePackage(left, right) ==
  left.source = right.source /\ left.version = right.version /\ left.sha = right.sha

Recorded(lock, review) == \E i \in DOMAIN lock.reviews : SamePackage(lock.reviews[i], review)

\* The lock keeps a record of the review, or is still the lock of its package,
\* from which the next run finds the review by version and hash.
Covers(lock, review) ==
  Recorded(lock, review) \/ (lock.status # "none" /\ SamePackage(lock, review))

\* Whatever fails between the acceptance of a review and the push of its
\* record (a lost answer, a stopped runner, a refused push), the branch never
\* loses track of a review the store has accepted.
SubmissionRecoverable == \A i \in Automated : Covers(repo.lock, store[i])

\* A step that adds a review of this pipeline to the store.
Submits ==
  Len(store') > Len(store) /\ store'[Len(store')].channel = "automation"

\* The automated reviews of a source, and the one that was created last.
ReviewsOf(reviews, s) ==
  {i \in DOMAIN reviews : reviews[i].channel = "automation" /\ reviews[i].source = s}

LastOf(reviews, s) == {i \in ReviewsOf(reviews, s) : \A j \in ReviewsOf(reviews, s) : j <= i}

LastReview(s) == LastOf(store, s)

\* A source is submitted a second time only when its last review was rejected
\* and an operator asked for the retry; one retry buys one submission.
ResubmissionIsGranted ==
  [][Submits =>
       LET s == store'[Len(store')].source
       IN  \A i \in LastReview(s) :
             s \in granted /\ store[i].status = "rejected"]_vars

Ledger == INSTANCE SubmissionLedger WITH
  submitted <- {store[i].source : i \in Automated},
  rejected <- {s \in Source : \E i \in LastReview(s) : store[i].status = "rejected"},
  granted <- granted

\* The pipeline implements the ledger: what reaches the store is a once-only
\* submission per source, or one resubmission per granted retry.
ImplementsLedger == Ledger!Spec

\* Review history on the branch only grows: a record keeps its place, source,
\* version and hash, and a settled status is final.
HistoryPreserved ==
  [][LET old == repo.lock.reviews
         new == repo'.lock.reviews
     IN  \A i \in DOMAIN old :
           /\ i \in DOMAIN new
           /\ SamePackage(new[i], old[i])
           /\ old[i].status \notin OpenStatus => new[i].status = old[i].status]_vars

\* A record that names a review names the right one, no two records name the
\* same one, and a settled record agrees with the store.
RecordsTruthful ==
  \A i \in DOMAIN repo.lock.reviews :
    LET record == repo.lock.reviews[i]
    IN  record.id # 0 =>
          /\ record.id \in Automated
          /\ SamePackage(store[record.id], record)
          /\ record.status \notin OpenStatus => store[record.id].status = record.status
          /\ \A j \in DOMAIN repo.lock.reviews :
               repo.lock.reviews[j].id = record.id => j = i

\* Each review of the pipeline has a higher version than all those before it,
\* and none is ahead of package.yml on the branch.
VersionsIncrease ==
  \A i \in Automated :
    /\ store[i].version <= repo.version
    /\ \A j \in Automated : i < j => store[i].version < store[j].version

\* A review that was waiting when the guard looked is replaced only when the
\* settings allow it and only by a newer version.
SeenReviewReplacedByNewer ==
  [][Submits =>
       \A i \in Waiting(store) :
         i <= run.seen =>
           ContinueIfNewer /\ store[i].version < store'[Len(store')].version]_vars

\* As above for every waiting review, also one submitted after the guard looked.
EveryReviewReplacedByNewer ==
  [][Submits =>
       \A i \in Waiting(store) :
         ContinueIfNewer /\ store[i].version < store'[Len(store')].version]_vars

\* A source is never submitted when the history has another revision of its tag.
MovedTagStops ==
  [][Submits =>
       LET s == store'[Len(store')].source
       IN  \A i \in DOMAIN repo.lock.reviews :
             /\ Tag[s] # NoTag
             /\ Tag[repo.lock.reviews[i].source] = Tag[s]
             => repo.lock.reviews[i].source = s]_vars

\* With numeric releases, what is submitted from the head of the branch never
\* goes back to an older release, nor to another digest of a release already
\* submitted.  A submission job of an earlier run that is started again has the
\* package of that run.
NumericReleasesIncrease ==
  [][Submits /\ ~ behind =>
       LET s == store'[Len(store')].source
       IN  \A i \in Automated :
             store[i].source # s => Release[store[i].source] < Release[s]]_vars

\* A check finds nothing to do for the selected source only when its review is in
\* the history, or a waiting review is as new as its package would be.  A package
\* of it that was not submitted, as of a retry that was interrupted, is never
\* left where it is.
KeptSourceIsSubmitted ==
  [][KeepSource /\ ~ CoveredByWaiting =>
       /\ HasRecord(work.lock, upstream)
       /\ ~ (work.lock.status = "packaged" /\ work.lock.source = upstream)]_vars

\* When upstream stops moving, its source ends up in the history on the
\* branch, or every run refuses it.
Handled(s) == HasRecord(repo.lock, s) \/ Refused(repo.lock, s)

NewestSourceHandled ==
  \A s \in Source : <>[](upstream = s) => <>[]Handled(s)

-----------------------------------------------------------------------------
(* The inductive invariants.  HistoryInv is about what the pipeline keeps   *)
(* and holds in every configuration; RecoveryInv adds what a readable list  *)
(* of reviews makes true, and is behind SubmissionRecoverable.             *)

\* A record of the package that the lock describes.
RecordsItself(lock) ==
  \E i \in DOMAIN lock.reviews :
    SamePackage(lock.reviews[i], lock) /\ lock.reviews[i].recipe = lock.recipe

\* Versions only grow: package.yml is ahead of the lock and of every record.
VersionIsNewest(tree) ==
  /\ tree.lock.status # "none" => tree.lock.version = tree.version
  /\ \A i \in DOMAIN tree.lock.reviews : tree.lock.reviews[i].version <= tree.version

\* Records are kept in the order of their versions.
RecordsIncrease(lock) ==
  \A i, j \in DOMAIN lock.reviews :
    i < j => lock.reviews[i].version < lock.reviews[j].version

\* A packaged version has no record yet, so that recording it replaces none.
PackagedIsUnrecorded(lock) ==
  lock.status = "packaged" =>
    \A i \in DOMAIN lock.reviews : lock.reviews[i].version # lock.version

\* Only a lock from before the history lacks the record of what it submitted.
SubmittedIsRecorded(lock) ==
  lock.status = "submitted" => lock.reviews = <<>> \/ RecordsItself(lock)

\* A record with an id is of that review, and agrees with it once it is settled.
\* Only the store's answer, which has an id, makes a record rejected.
RecordTrue(record, reviews) ==
  /\ record.status = "rejected" => record.id # 0
  /\ record.id # 0 =>
       /\ record.id \in DOMAIN reviews
       /\ reviews[record.id].channel = "automation"
       /\ SamePackage(reviews[record.id], record)
       /\ record.status \notin OpenStatus => reviews[record.id].status = record.status

RecordsTrue(lock, reviews) == \A i \in DOMAIN lock.reviews : RecordTrue(lock.reviews[i], reviews)

\* What holds of every tree, committed or not, given the store's reviews.
TreeInv(tree, reviews) ==
  /\ VersionIsNewest(tree)
  /\ RecordsIncrease(tree.lock)
  /\ PackagedIsUnrecorded(tree.lock)
  /\ SubmittedIsRecorded(tree.lock)
  /\ RecordsTrue(tree.lock, reviews)

\* The packages a lock knows of.
PackagesOf(lock) ==
  {lock.reviews[i] : i \in DOMAIN lock.reviews}
    \cup (IF lock.status = "none" THEN {} ELSE {lock})

\* Every mention of a package: in a tree, in a packaged commit, in the store.
Packages ==
  PackagesOf(repo.lock) \cup PackagesOf(work.lock)
    \cup (UNION {PackagesOf(h.tree.lock) : h \in handoffs})
    \cup {store[i] : i \in Automated}

\* A hash names one package, and a new build gets a new one.
HashesNamePackages ==
  \A p \in Packages :
    /\ p.sha \in 1..builds
    /\ \A q \in Packages : p.sha = q.sha => SamePackage(p, q)

\* A history continues another: records keep their places and packages, and
\* settled ones their status.
Continues(new, old) ==
  \A i \in DOMAIN old :
    /\ i \in DOMAIN new
    /\ SamePackage(new[i], old[i])
    /\ old[i].status \notin OpenStatus => new[i].status = old[i].status

HistoryInv ==
  /\ TreeInv(repo, store) /\ TreeInv(work, store)
  /\ \A h \in handoffs : /\ TreeInv(h.tree, store)
                         /\ ~ h.behind => h.tree.lock = repo.lock
  /\ HashesNamePackages
  /\ pc \in {"idle", "gate"} => work.lock = repo.lock
  /\ pc \notin {"idle", "gate"} /\ work.lock.status = "submitted" => RecordsItself(work.lock)
  /\ ~ behind => Continues(work.lock.reviews, repo.lock.reviews)

AllCovered(lock, reviews) ==
  \A i \in DOMAIN reviews : reviews[i].channel = "automation" => Covers(lock, reviews[i])

AllRecorded(lock, reviews) ==
  \A i \in DOMAIN reviews : reviews[i].channel = "automation" => Recorded(lock, reviews[i])

SubmitPC == {"publish", "guard", "create", "pushRecord"}

\* Which job is at work: the check job builds and pushes a package, the submission
\* job starts from a packaged commit.
JobInv ==
  /\ pc \in SubmitPC => run.job = "submit"
  /\ run.job = "submit" => pc \in SubmitPC \cup {"reconcile"}
  /\ run.built /\ run.job = "check" => pc = "push" /\ work.lock.status = "packaged"
  /\ \A h \in handoffs : h.tree.lock.status = "packaged"

\* How far the run has come, and what it knows by then.
RunInv ==
  /\ JobInv
  /\ pc \in {"decide", "push"} \cup SubmitPC => AllRecorded(work.lock, store)
  /\ run.job = "submit" => repo.lock.status # "none" /\ SamePackage(work.lock, repo.lock)

\* Every review the store accepted is covered by the branch and, so that the
\* next push keeps it so, by the checkout of the run.
CoverInv == RunInv /\ AllCovered(repo.lock, store) /\ AllCovered(work.lock, store)

RecoveryInv == HistoryInv /\ CoverInv

\* What the guard saw stays so until the review is created.
GuardInv ==
  /\ run.seen <= Len(store)
  /\ pc = "create" =>
       \A i \in Waiting(store) :
         i <= run.seen => ContinueIfNewer /\ store[i].version < work.lock.version

\* The lock is of this source, or of a numerically newer release.
Ahead(lock, s) ==
  /\ lock.source \in Source /\ s \in Source
  /\ s = lock.source \/ Release[s] < Release[lock.source]

\* The branch is ahead of everything that was or can be submitted, and a checkout
\* of its head is ahead of the branch.
NumericInv ==
  /\ \A i \in Automated : Ahead(repo.lock, store[i].source)
  /\ \A h \in handoffs : Ahead(repo.lock, h.tree.lock.source)
  /\ run.job = "submit" => /\ Ahead(repo.lock, work.lock.source)
                           /\ ~ behind => work.lock.source = repo.lock.source
  /\ run.job = "check" /\ ~ behind =>
       repo.lock.source = NoSource \/ Ahead(work.lock, repo.lock.source)

\* Reviews of the pipeline are in the order of their versions.
Ordered(reviews) ==
  \A i, j \in DOMAIN reviews :
    /\ reviews[i].channel = "automation" /\ reviews[j].channel = "automation"
    /\ i < j
    => reviews[i].version < reviews[j].version

\* A package that was not submitted is of a source that has no review, or whose
\* last one was rejected and may be retried.
Entitled(lock, reviews, grants) ==
  /\ lock.status = "packaged"
  /\ \A i \in ReviewsOf(reviews, lock.source) : ~ SamePackage(lock, reviews[i])
  => \A i \in LastOf(reviews, lock.source) :
       lock.source \in grants /\ reviews[i].status = "rejected"

LedgerInv ==
  /\ Ordered(store)
  /\ \A s \in granted : \E i \in LastOf(store, s) : store[i].status = "rejected"
  /\ Entitled(repo.lock, store, granted) /\ Entitled(work.lock, store, granted)

=============================================================================
