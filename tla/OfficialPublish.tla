-------------------------- MODULE OfficialPublish --------------------------
(***************************************************************************)
(* One publication of a package to the official store: publishflow looks   *)
(* the version up that is online, then official.Publisher.Publish tries up *)
(* to MaxAttempts times to read the application, create it, look at the    *)
(* waiting review, upload the LPK and submit the review.                   *)
(*                                                                         *)
(* Every request is one step, with its effect at the store and the answer  *)
(* the publisher gets; between two requests the store may change.          *)
(* Credentials, hashes and texts are left out: the LPK was verified before *)
(* and a wrong one is an answer the publisher cannot use.  So are delays;  *)
(* a wait ends with the next attempt or with the end of the context.       *)
(*                                                                         *)
(* An operator whose comment begins with "Bug:" is the definition after it *)
(* with a mistake that a property notices.                                 *)
(***************************************************************************)
EXTENDS Integers, Sequences, FiniteSets

CONSTANTS
  Version,         \* version of the package
  MaxAttempts,     \* stores.official.retry.max_attempts, or 1 when disabled
  MaxLookups,      \* attempts of the version lookup
  Credentials,     \* kinds of credentials: TRUE for a developer PAT, FALSE for a session
  StateAware,      \* stores.official.application has submission information
  CreateIfMissing, \* stores.official.create_if_missing
  SkipIfExists,    \* stores.official.skip_if_version_exists
  AllowDowngrade,  \* update.allow_downgrade
  Guard,           \* LAZYCAT_GUARD_OFFICIAL_REVIEW
  ContinueIfNewer, \* stores.official.continue_if_newer_version
  OtherVersion,    \* versions the developer may submit by hand meanwhile
  OtherBound       \* bound on the number of those submissions

ASSUME PublishAssumption ==
  /\ Version \in Nat \ {0} /\ OtherVersion \subseteq Nat \ {0}
  /\ MaxAttempts \in Nat \ {0} /\ MaxLookups \in Nat \ {0} /\ OtherBound \in Nat
  /\ Credentials \subseteq BOOLEAN
  /\ {StateAware, CreateIfMissing, SkipIfExists, AllowDowngrade, Guard,
      ContinueIfNewer} \subseteq BOOLEAN

VARIABLES
  sdk,      \* the credentials are a developer PAT
  app,      \* the application at the store
  reviews,  \* its reviews, oldest first
  online,   \* the version the store has online, or 0
  pc,       \* the next request
  attempt,  \* number of the attempt, of the lookup or of the publication
  infos,    \* application information was prepared for the review
  found,    \* what this attempt read of the application
  fresh,    \* this attempt created the application
  created,  \* an earlier attempt did
  outcome,  \* what the publication reports
  seen,     \* history: number of reviews when this attempt began
  causes    \* history: what went wrong so far

vars == <<sdk, app, reviews, online, pc, attempt, infos, found, fresh, created,
          outcome, seen, causes>>

State == [exists: BOOLEAN, ready: BOOLEAN]

StoreReview == [version: Nat, mine: BOOLEAN, infos: BOOLEAN,
                status: {"waiting", "settled"}]

Outcome == {"running", "published", "skipped", "paused", "failed"}

-----------------------------------------------------------------------------
(* Requests and their answers.                                             *)

\* throttled is HTTP 429; unavailable is HTTP 5xx, no response or one that
\* breaks off; rejected is any other status; invalid is a success that the
\* publisher cannot use; canceled is the end of the context.
Answer == {"ok", "throttled", "unavailable", "rejected", "invalid", "canceled"}

\* Whether a request with that answer had its effect at the store.
Effects(answer) ==
  CASE answer \in {"ok", "invalid"}           -> {TRUE}
    [] answer \in {"throttled", "rejected"}   -> {FALSE}
    [] answer \in {"unavailable", "canceled"} -> BOOLEAN

\* Bug: a submission is repeated after every answer that may be transient.
RetryableAny(request, answer) == answer \in {"throttled", "unavailable"}

\* retryablePublishError: a submission is repeated only when the store said
\* that it did not take it.
Retryable(request, answer) ==
  IF request = "review" THEN answer = "throttled"
                        ELSE answer \in {"throttled", "unavailable"}

\* Bug: the last attempt is never made.
FailsEarly(request, answer) ==
  /\ IF Retryable(request, answer) /\ attempt + 1 < MaxAttempts
     THEN pc' = "wait" /\ UNCHANGED outcome
     ELSE pc' = "done" /\ outcome' = "failed"
  /\ created' = (created \/ fresh)
  /\ causes' = IF Retryable(request, answer)
               THEN [causes EXCEPT !.transient = @ + 1] ELSE [causes EXCEPT !.final = TRUE]

\* Bug: what a failed attempt created is forgotten.
FailsForgetful(request, answer) ==
  /\ IF Retryable(request, answer) /\ attempt < MaxAttempts
     THEN pc' = "wait" /\ UNCHANGED outcome
     ELSE pc' = "done" /\ outcome' = "failed"
  /\ UNCHANGED created
  /\ causes' = IF Retryable(request, answer)
               THEN [causes EXCEPT !.transient = @ + 1] ELSE [causes EXCEPT !.final = TRUE]

\* Bug: a request that the store throttles is repeated without being counted.
FailsUncounted(request, answer) ==
  IF answer = "throttled"
  THEN pc' = "application" /\ UNCHANGED <<outcome, created, causes>>
  ELSE /\ IF Retryable(request, answer) /\ attempt < MaxAttempts
          THEN pc' = "wait" /\ UNCHANGED outcome
          ELSE pc' = "done" /\ outcome' = "failed"
       /\ created' = (created \/ fresh)
       /\ causes' = IF Retryable(request, answer)
                    THEN [causes EXCEPT !.transient = @ + 1] ELSE [causes EXCEPT !.final = TRUE]

\* The attempt ends with an error.
Fails(request, answer) ==
  /\ IF Retryable(request, answer) /\ attempt < MaxAttempts
     THEN pc' = "wait" /\ UNCHANGED outcome
     ELSE pc' = "done" /\ outcome' = "failed"
  /\ created' = (created \/ fresh)
  /\ causes' = IF Retryable(request, answer)
               THEN [causes EXCEPT !.transient = @ + 1] ELSE [causes EXCEPT !.final = TRUE]

\* The publication ends, whatever attempts are left.
Ends(how) ==
  /\ pc' = "done" /\ outcome' = how
  /\ created' = (created \/ fresh)
  /\ causes' = [causes EXCEPT !.final = TRUE]

-----------------------------------------------------------------------------

Init ==
  /\ sdk \in Credentials
  /\ app \in State /\ (app.ready => app.exists)
  /\ online \in {0, Version} \cup OtherVersion /\ (online # 0 => app.exists)
  /\ \/ reviews = <<>>
     \/ /\ app.exists
        /\ \E v \in OtherVersion, i \in BOOLEAN :
             reviews = <<[version |-> v, mine |-> FALSE, infos |-> i, status |-> "waiting"]>>
  /\ pc = IF SkipIfExists THEN "lookup" ELSE "prepare"
  /\ attempt = 1 /\ infos = FALSE /\ found = [exists |-> FALSE, ready |-> TRUE]
  /\ fresh = FALSE /\ created = FALSE
  /\ outcome = "running" /\ seen = 0
  /\ causes = [transient |-> 0, final |-> FALSE, creation |-> FALSE]

\* checkExisting.  An application that is not found or has nothing online is
\* no reason to skip.
Exists == online = Version \/ (~ AllowDowngrade /\ online > Version)

\* storelookup.Default, which tries again by itself.
LookupVersion ==
  /\ pc = "lookup"
  /\ \/ /\ Exists
        /\ Ends("skipped") /\ UNCHANGED attempt
     \/ /\ ~ Exists
        /\ pc' = "prepare" /\ attempt' = 1 /\ UNCHANGED <<outcome, created, causes>>
     \/ /\ attempt < MaxLookups
        /\ attempt' = attempt + 1 /\ UNCHANGED <<pc, outcome, created, causes>>
     \/ Ends("failed") /\ UNCHANGED attempt
  /\ UNCHANGED <<sdk, app, reviews, online, infos, found, fresh, seen>>

Waiting == {i \in DOMAIN reviews : reviews[i].status = "waiting"}

\* Bug: information is prepared only for an application that is missing.
NeedsInfosMissing == StateAware /\ (sdk \/ ~ app.exists)

\* A developer PAT always sends the information; a session sends what the
\* store does not have yet.
NeedsInfos == StateAware /\ (sdk \/ ~ app.ready)

\* What Publish does before its loop.  Any of its requests may fail, and none
\* is repeated.
Prepare ==
  /\ pc = "prepare"
  /\ \/ Ends("failed") /\ UNCHANGED <<attempt, infos>>
     \/ /\ StateAware /\ ~ sdk =>
             Waiting = {} /\ (app.exists \/ CreateIfMissing)
        /\ NeedsInfos => CreateIfMissing
        /\ infos' = NeedsInfos
        /\ pc' = "application" /\ attempt' = 1
        /\ UNCHANGED <<outcome, created, causes>>
  /\ UNCHANGED <<sdk, app, reviews, online, found, fresh, seen>>

-----------------------------------------------------------------------------
(* One attempt (publishAttempt).                                           *)

\* ApplicationState for a session with information, CheckApplication otherwise.
ReadApplication ==
  /\ pc = "application"
  /\ \/ /\ StateAware /\ ~ sdk /\ Waiting # {}
        /\ Ends("failed") /\ UNCHANGED <<found, seen>>
     \/ /\ ~ (StateAware /\ ~ sdk /\ Waiting # {})
        /\ seen' = Len(reviews)
        /\ found' = IF StateAware /\ ~ sdk THEN app ELSE [exists |-> app.exists, ready |-> TRUE]
        /\ \/ /\ app.exists \/ CreateIfMissing
              /\ pc' = IF app.exists THEN "guard" ELSE "create"
              /\ UNCHANGED <<outcome, created, causes>>
           \/ ~ app.exists /\ ~ CreateIfMissing /\ Ends("failed")
     \/ /\ \E answer \in Answer \ {"ok"} : Fails("application", answer)
        /\ UNCHANGED <<found, seen>>
  /\ UNCHANGED <<sdk, app, reviews, online, attempt, infos, fresh>>

\* The store refuses an application that exists by now.
CreateApplication ==
  /\ pc = "create"
  /\ \E answer \in Answer :
       /\ app.exists => answer # "ok"
       /\ \E done \in Effects(answer) :
            app' = IF done THEN [app EXCEPT !.exists = TRUE] ELSE app
       /\ IF answer = "ok"
          THEN /\ fresh' = TRUE /\ pc' = "guard" /\ UNCHANGED <<outcome, created>>
               /\ causes' = [causes EXCEPT !.creation = TRUE]
          ELSE Fails("create", answer) /\ UNCHANGED fresh
  /\ UNCHANGED <<sdk, reviews, online, attempt, infos, found, seen>>

\* Bug: the waiting review is looked at in the first attempt only.
BlockingOnce ==
  {i \in Waiting : attempt = 1 /\ ~ (ContinueIfNewer /\ reviews[i].version < Version)}

\* Waiting reviews that the package must not replace.
Blocking ==
  {i \in Waiting : ~ (ContinueIfNewer /\ reviews[i].version < Version)}

CheckPendingReview ==
  /\ pc = "guard"
  /\ \/ /\ Guard => Blocking = {}
        /\ pc' = "upload" /\ UNCHANGED <<outcome, created, causes>>
     \/ Guard /\ Blocking # {} /\ Ends("paused")
     \/ Guard /\ \E answer \in Answer \ {"ok"} : Fails("guard", answer)
  /\ UNCHANGED <<sdk, app, reviews, online, attempt, infos, found, fresh, seen>>

\* An uploaded LPK matters only for the review that names it.
UploadLPK ==
  /\ pc = "upload"
  /\ \/ pc' = "review" /\ UNCHANGED <<outcome, created, causes>>
     \/ \E answer \in Answer \ {"ok"} : Fails("upload", answer)
  /\ UNCHANGED <<sdk, app, reviews, online, attempt, infos, found, fresh, seen>>

\* The store takes a review and cancels the one that waits.
Accept(review) ==
  reviews' = Append([i \in DOMAIN reviews |-> [reviews[i] EXCEPT !.status = "settled"]], review)

Submission ==
  [version |-> Version, mine |-> TRUE, status |-> "waiting",
   infos |-> StateAware /\ (sdk \/ ~ found.ready) /\ infos]

SubmitReview ==
  /\ pc = "review"
  /\ \E answer \in Answer :
       /\ \E done \in Effects(answer) : IF done THEN Accept(Submission) ELSE UNCHANGED reviews
       /\ IF answer = "ok"
          THEN /\ pc' = "done" /\ outcome' = "published" /\ created' = (created \/ fresh)
               /\ UNCHANGED causes
          ELSE Fails("review", answer)
  /\ UNCHANGED <<sdk, app, online, attempt, infos, found, fresh, seen>>

\* The wait is over, or the context is.
Retry ==
  /\ pc = "wait"
  /\ \/ /\ pc' = "application" /\ attempt' = attempt + 1 /\ fresh' = FALSE
        /\ UNCHANGED <<outcome, created, causes>>
     \/ Ends("failed") /\ UNCHANGED <<attempt, fresh>>
  /\ UNCHANGED <<sdk, app, reviews, online, infos, found, seen>>

-----------------------------------------------------------------------------
(* The store and the developer, meanwhile.                                 *)

Publisher == <<sdk, pc, attempt, infos, found, fresh, created, outcome, seen, causes>>

\* An approved review goes online, and the store has its information.
SettleReview(i, approved) ==
  /\ i \in Waiting
  /\ reviews' = [reviews EXCEPT ![i].status = "settled"]
  /\ IF approved
     THEN /\ online' = reviews[i].version
          /\ app' = [app EXCEPT !.ready = @ \/ reviews[i].infos]
     ELSE UNCHANGED <<online, app>>
  /\ UNCHANGED Publisher

\* The developer submits by hand; of interest only while the publication runs.
OtherSubmits(version, withInfos) ==
  /\ app.exists /\ outcome = "running"
  /\ Cardinality({i \in DOMAIN reviews : ~ reviews[i].mine}) < OtherBound
  /\ Accept([version |-> version, mine |-> FALSE, infos |-> withInfos, status |-> "waiting"])
  /\ UNCHANGED <<app, online, Publisher>>

OtherCreates ==
  /\ ~ app.exists
  /\ app' = [app EXCEPT !.exists = TRUE]
  /\ UNCHANGED <<reviews, online, Publisher>>

PublisherStep ==
  \/ LookupVersion \/ Prepare \/ ReadApplication \/ CreateApplication
  \/ CheckPendingReview \/ UploadLPK \/ SubmitReview \/ Retry

Next ==
  \/ PublisherStep
  \/ \E i \in DOMAIN reviews, approved \in BOOLEAN : SettleReview(i, approved)
  \/ \E v \in OtherVersion, withInfos \in BOOLEAN : OtherSubmits(v, withInfos)
  \/ OtherCreates

Spec == Init /\ [][Next]_vars

\* Every request ends: the HTTP client has a timeout, and so does every wait.
FairSpec == Spec /\ WF_vars(PublisherStep)

-----------------------------------------------------------------------------
(* Properties.                                                             *)

TypeOK ==
  /\ sdk \in BOOLEAN /\ app \in State /\ found \in State
  /\ reviews \in Seq(StoreReview)
  /\ online \in Nat
  /\ pc \in {"lookup", "prepare", "application", "create", "guard", "upload",
             "review", "wait", "done"}
  /\ attempt \in Nat /\ seen \in Nat
  /\ infos \in BOOLEAN /\ fresh \in BOOLEAN /\ created \in BOOLEAN
  /\ outcome \in Outcome
  /\ causes \in [transient: Nat, final: BOOLEAN, creation: BOOLEAN]

Mine == {i \in DOMAIN reviews : reviews[i].mine}

\* However many attempts are made, the store accepts one review of the
\* publication at most, and a publication that ended submits nothing more.
Outside == INSTANCE Publication WITH accepted <- Mine, outcome <- outcome

ImplementsPublication == Outside!Spec

\* A step in which the store accepts a review of this publication.
Submits == Len(reviews') > Len(reviews) /\ reviews'[Len(reviews')].mine

\* What was waiting before the attempt that succeeds is replaced only when the
\* settings allow it and only by a newer version.
WaitingReplacedByNewer ==
  [][Guard /\ Submits =>
       \A i \in Waiting :
         i <= seen => ContinueIfNewer /\ reviews[i].version < Version]_vars

\* The store gets the application's information with the first review that is
\* submitted while it lacks it, whichever attempt creates the application.
InformationSubmitted ==
  [][StateAware /\ ~ app.ready /\ Submits => reviews'[Len(reviews')].infos]_vars

\* A success reports that the application was created exactly when some
\* attempt knows that it created it.
CreatedReported == outcome = "published" => (created <=> causes.creation)

\* A publication gives up only on an answer that is final, or after all its
\* attempts ended in answers that are not.
FailureHasCause == outcome = "failed" => causes.final \/ causes.transient = MaxAttempts

\* At most so many steps are left: a lookup is one, and so is the preparation;
\* an attempt has five and the wait for the next.
StepsLeft ==
  LET rank == [application |-> 6, create |-> 5, guard |-> 4, upload |-> 3, review |-> 2, wait |-> 1]
  IN CASE pc = "lookup"         -> (MaxLookups - attempt) + 2 + 6 * MaxAttempts
       [] pc = "prepare"        -> 1 + 6 * MaxAttempts
       [] pc \in DOMAIN rank    -> 6 * (MaxAttempts - attempt) + rank[pc]
       [] pc = "done"           -> 0

\* Whatever is answered, and whatever the store and the developer do between
\* two requests, each request brings the publication nearer to its end.
RequestsRunOut == [][PublisherStep => StepsLeft' \in 0 .. StepsLeft - 1]_vars

\* Every publication ends, whatever its requests are answered.
PublicationEnds == <>(outcome # "running")

-----------------------------------------------------------------------------
(* The inductive invariant behind the safety properties.                   *)

\* The store has a review of the publication only once it is over.
AcceptanceIsLast ==
  /\ outcome = "running" <=> pc # "done"
  /\ outcome = "running" => Mine = {}

\* What an attempt creates is counted as created when the attempt ends.
CreationKnown ==
  /\ causes.creation <=> created \/ fresh
  /\ pc \in {"wait", "done"} /\ fresh => created

Attempting == {"application", "create", "guard", "upload", "review"}

\* Every attempt before this one ended in an answer that is not final.
AttemptsCounted ==
  /\ pc \in {"lookup", "prepare"} => causes.transient = 0
  /\ pc = "lookup" => attempt <= MaxLookups
  /\ pc \in Attempting => causes.transient + 1 = attempt /\ attempt <= MaxAttempts
  /\ pc = "wait" => causes.transient = attempt /\ attempt < MaxAttempts
  /\ FailureHasCause

\* What the store lacks when the review is submitted, it lacked before.
InfosReady ==
  /\ pc \in Attempting \cup {"wait"} /\ NeedsInfos => infos
  /\ pc \in Attempting \ {"application"} /\ StateAware /\ ~ sdk /\ ~ app.ready => ~ found.ready

\* Past the guard, what waited when the attempt began may be replaced.
GuardPassed ==
  /\ seen <= Len(reviews)
  /\ Guard /\ pc \in {"upload", "review"} => \A i \in Blocking : i > seen

PublishInv ==
  /\ AcceptanceIsLast /\ CreationKnown /\ AttemptsCounted /\ InfosReady /\ GuardPassed

=============================================================================
