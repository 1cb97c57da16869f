------------------------ MODULE OfficialPublishProofs ------------------------
(***************************************************************************)
(* A publication implements Publication, for every number of attempts and  *)
(* all settings, and keeps the safety properties of OfficialPublish.       *)
(***************************************************************************)
EXTENDS OfficialPublish, SequenceTheorems, TLAPS

-----------------------------------------------------------------------------
(* Types.                                                                  *)

\* A failed request leaves outcome and causes of the right type.
LEMMA FailsType ==
  ASSUME TypeOK, NEW request, NEW answer, Fails(request, answer)
  PROVE  /\ pc' \in {"wait", "done"} /\ outcome' \in Outcome
         /\ created' \in BOOLEAN
         /\ causes' \in [transient: Nat, final: BOOLEAN, creation: BOOLEAN]
<1>1. pc' \in {"wait", "done"} /\ outcome' \in Outcome
  BY DEF TypeOK, Fails, Outcome
<1>2. created' \in BOOLEAN
  BY DEF TypeOK, Fails
<1>3. \/ causes' = [causes EXCEPT !.transient = @ + 1]
      \/ causes' = [causes EXCEPT !.final = TRUE]
  BY DEF Fails
<1>4. causes' \in [transient: Nat, final: BOOLEAN, creation: BOOLEAN]
  <2>1. causes \in [transient: Nat, final: BOOLEAN, creation: BOOLEAN]
    BY DEF TypeOK
  <2>2. CASE causes' = [causes EXCEPT !.transient = @ + 1]
    BY <2>1, <2>2
  <2>3. CASE causes' = [causes EXCEPT !.final = TRUE]
    BY <2>1, <2>3
  <2> QED BY <1>3, <2>2, <2>3
<1> QED BY <1>1, <1>2, <1>4

\* So does the end of a publication.
LEMMA EndsType ==
  ASSUME TypeOK, NEW how \in Outcome, Ends(how)
  PROVE  /\ pc' = "done" /\ outcome' \in Outcome
         /\ created' \in BOOLEAN
         /\ causes' \in [transient: Nat, final: BOOLEAN, creation: BOOLEAN]
BY DEF TypeOK, Ends

\* A review that the store accepts ends its list, and none before it waits.
LEMMA AcceptType ==
  ASSUME reviews \in Seq(StoreReview), NEW review \in StoreReview, Accept(review)
  PROVE  /\ reviews' \in Seq(StoreReview) /\ Len(reviews') = Len(reviews) + 1
         /\ reviews'[Len(reviews) + 1] = review
         /\ \A i \in DOMAIN reviews :
              reviews'[i] = [reviews[i] EXCEPT !.status = "settled"]
<1> DEFINE settled == [i \in DOMAIN reviews |-> [reviews[i] EXCEPT !.status = "settled"]]
<1>1. settled \in [1..Len(reviews) -> StoreReview] /\ Len(reviews) \in Nat
  <2>1. DOMAIN reviews = 1..Len(reviews) /\ Len(reviews) \in Nat
    OBVIOUS
  <2>2. ASSUME NEW i \in DOMAIN reviews
        PROVE  [reviews[i] EXCEPT !.status = "settled"] \in StoreReview
    <3>1. reviews[i] \in StoreReview
      OBVIOUS
    <3> QED BY <3>1 DEF StoreReview
  <2> QED BY <2>1, <2>2
<1>2. settled \in Seq(StoreReview) /\ Len(settled) = Len(reviews)
  BY <1>1
<1>3. \A i \in DOMAIN reviews : settled[i] = [reviews[i] EXCEPT !.status = "settled"]
  OBVIOUS
<1>4. reviews' = Append(settled, review)
  BY DEF Accept
<1> HIDE DEF settled
<1> QED BY <1>2, <1>3, <1>4

\* What is submitted is a review.
LEMMA SubmissionType == TypeOK => Submission \in StoreReview
BY PublishAssumption DEF TypeOK, Submission, StoreReview

\* A publication starts type correct.
LEMMA TypeInit == Init => TypeOK
<1> SUFFICES ASSUME Init PROVE TypeOK
  OBVIOUS
<1>1. reviews \in Seq(StoreReview)
  <2>1. \A v \in OtherVersion, i \in BOOLEAN :
          <<[version |-> v, mine |-> FALSE, infos |-> i, status |-> "waiting"]>>
            \in Seq(StoreReview)
    BY PublishAssumption DEF StoreReview
  <2>2. \/ reviews = <<>>
        \/ \E v \in OtherVersion, i \in BOOLEAN :
             reviews = <<[version |-> v, mine |-> FALSE, infos |-> i, status |-> "waiting"]>>
    BY DEF Init
  <2>3. <<>> \in Seq(StoreReview)
    OBVIOUS
  <2> HIDE DEF StoreReview
  <2> QED BY <2>1, <2>2, <2>3
<1>2. online \in Nat
  BY PublishAssumption DEF Init
<1> QED BY <1>1, <1>2, PublishAssumption DEF Init, TypeOK, State, Outcome

\* No step of the publisher, the store or the developer breaks the types.
LEMMA TypeStep == TypeOK /\ [Next]_vars => TypeOK'
<1> SUFFICES ASSUME TypeOK, [Next]_vars PROVE TypeOK'
  OBVIOUS
<1> USE FailsType, EndsType
<1>1. CASE LookupVersion
  BY <1>1 DEF LookupVersion, TypeOK, Outcome
<1>2. CASE Prepare
  <2>1. NeedsInfos \in BOOLEAN
    BY DEF NeedsInfos
  <2> QED BY <1>2, <2>1 DEF Prepare, TypeOK, Outcome
<1>3. CASE ReadApplication
  <2>1. Len(reviews) \in Nat
    BY DEF TypeOK
  <2>2. found' \in State /\ seen' \in Nat
    <3>1. app \in State /\ found \in State /\ seen \in Nat
      BY DEF TypeOK
    <3>2. [exists |-> app.exists, ready |-> TRUE] \in State
      BY <3>1 DEF State
    <3>3. \/ seen' = Len(reviews) /\ found' \in {app, [exists |-> app.exists, ready |-> TRUE]}
          \/ UNCHANGED <<found, seen>>
      BY <1>3 DEF ReadApplication
    <3> QED BY <2>1, <3>1, <3>2, <3>3
  <2>3. /\ pc' \in {"guard", "create", "wait", "done"} /\ outcome' \in Outcome
        /\ created' \in BOOLEAN
        /\ causes' \in [transient: Nat, final: BOOLEAN, creation: BOOLEAN]
    <3>1. CASE Ends("failed")
      BY <3>1 DEF Outcome
    <3>2. CASE \E answer \in Answer \ {"ok"} : Fails("application", answer)
      BY <3>2
    <3>3. CASE pc' \in {"guard", "create"} /\ UNCHANGED <<outcome, created, causes>>
      BY <3>3 DEF TypeOK
    <3> QED BY <1>3, <3>1, <3>2, <3>3 DEF ReadApplication
  <2> QED BY <1>3, <2>2, <2>3 DEF ReadApplication, TypeOK
<1>4. CASE CreateApplication
  BY <1>4 DEF CreateApplication, TypeOK, State
<1>5. CASE CheckPendingReview
  BY <1>5 DEF CheckPendingReview, TypeOK, Outcome
<1>6. CASE UploadLPK
  BY <1>6 DEF UploadLPK, TypeOK
<1>7. CASE SubmitReview
  <2>1. reviews' \in Seq(StoreReview)
    BY <1>7, SubmissionType, AcceptType DEF SubmitReview, TypeOK
  <2> QED BY <1>7, <2>1 DEF SubmitReview, TypeOK, Outcome
<1>8. CASE Retry
  <2>1. CASE Ends("failed")
    BY <1>8, <2>1 DEF Retry, TypeOK, Outcome
  <2>2. CASE /\ pc' = "application" /\ attempt' = attempt + 1 /\ fresh' = FALSE
             /\ UNCHANGED <<outcome, created, causes>>
    <3>1. UNCHANGED <<sdk, app, reviews, online, infos, found, seen>>
      BY <1>8 DEF Retry
    <3>2. attempt' \in Nat
      BY <2>2 DEF TypeOK
    <3>5. fresh' \in BOOLEAN
      BY <2>2
    <3>3. /\ sdk' = sdk /\ app' = app /\ reviews' = reviews /\ online' = online
          /\ infos' = infos /\ found' = found /\ seen' = seen
      BY <3>1
    <3>4. /\ pc' = "application" /\ outcome' = outcome /\ created' = created
          /\ causes' = causes
      BY <2>2
    <3> QED BY <3>2, <3>3, <3>4, <3>5 DEF TypeOK
  <2> QED BY <1>8, <2>1, <2>2 DEF Retry
<1>9. ASSUME NEW i \in DOMAIN reviews, NEW approved \in BOOLEAN, SettleReview(i, approved)
      PROVE  TypeOK'
  <2>1. reviews[i] \in StoreReview
    BY DEF TypeOK
  <2>2. [reviews[i] EXCEPT !.status = "settled"] \in StoreReview
    BY <2>1 DEF StoreReview
  <2>3. reviews' \in Seq(StoreReview)
    BY <1>9, <2>2 DEF SettleReview, TypeOK
  <2>4. online' \in Nat /\ app' \in State
    BY <1>9, <2>1 DEF SettleReview, TypeOK, StoreReview, State
  <2> QED BY <1>9, <2>3, <2>4 DEF SettleReview, Publisher, TypeOK
<1>10. ASSUME NEW v \in OtherVersion, NEW withInfos \in BOOLEAN, OtherSubmits(v, withInfos)
       PROVE  TypeOK'
  <2>1. [version |-> v, mine |-> FALSE, infos |-> withInfos, status |-> "waiting"]
          \in StoreReview
    BY PublishAssumption DEF StoreReview
  <2>2. reviews' \in Seq(StoreReview)
    BY <1>10, <2>1, AcceptType DEF OtherSubmits, TypeOK
  <2> QED BY <1>10, <2>2 DEF OtherSubmits, Publisher, TypeOK
<1>11. CASE OtherCreates
  BY <1>11 DEF OtherCreates, Publisher, TypeOK, State
<1>12. CASE UNCHANGED vars
  BY <1>12 DEF vars, TypeOK
<1> QED
  BY <1>1, <1>2, <1>3, <1>4, <1>5, <1>6, <1>7, <1>8, <1>9, <1>10, <1>11, <1>12
  DEF Next, PublisherStep

-----------------------------------------------------------------------------
(* What the parts of a step do.                                            *)

\* An attempt that fails is followed by a wait or by the end.
LEMMA FailsEffect ==
  ASSUME TypeOK, NEW request, NEW answer, Fails(request, answer)
  PROVE  /\ \/ pc' = "wait" /\ outcome' = outcome /\ Retryable(request, answer) /\ attempt < MaxAttempts
            \/ pc' = "done" /\ outcome' = "failed" /\ ~ (Retryable(request, answer) /\ attempt < MaxAttempts)
         /\ created' <=> (created \/ fresh)
         /\ causes'.creation = causes.creation
         /\ Retryable(request, answer) => causes'.transient = causes.transient + 1
         /\ ~ Retryable(request, answer) => causes'.final
<1>1. \/ pc' = "wait" /\ outcome' = outcome /\ Retryable(request, answer) /\ attempt < MaxAttempts
      \/ pc' = "done" /\ outcome' = "failed" /\ ~ (Retryable(request, answer) /\ attempt < MaxAttempts)
  BY DEF Fails
<1>2. created' <=> (created \/ fresh)
  BY DEF Fails
<1>3. causes \in [transient: Nat, final: BOOLEAN, creation: BOOLEAN]
  BY DEF TypeOK
<1>4. CASE Retryable(request, answer)
  <2>1. causes' = [causes EXCEPT !.transient = @ + 1]
    BY <1>4 DEF Fails
  <2>2. causes'.creation = causes.creation /\ causes'.transient = causes.transient + 1
    BY <1>3, <2>1
  <2> QED BY <1>1, <1>2, <1>4, <2>2
<1>5. CASE ~ Retryable(request, answer)
  <2>1. causes' = [causes EXCEPT !.final = TRUE]
    BY <1>5 DEF Fails
  <2>2. causes'.creation = causes.creation /\ causes'.final
    BY <1>3, <2>1
  <2> QED BY <1>1, <1>2, <1>5, <2>2
<1> QED BY <1>4, <1>5

\* A publication that ends has a cause and keeps what it created.
LEMMA EndsEffect ==
  ASSUME TypeOK, NEW how, Ends(how)
  PROVE  /\ pc' = "done" /\ outcome' = how
         /\ created' <=> (created \/ fresh)
         /\ causes'.creation = causes.creation
         /\ causes'.final
<1>1. causes \in [transient: Nat, final: BOOLEAN, creation: BOOLEAN]
  BY DEF TypeOK
<1>2. causes' = [causes EXCEPT !.final = TRUE]
  BY DEF Ends
<1>3. causes'.creation = causes.creation /\ causes'.final
  BY <1>1, <1>2
<1>4. pc' = "done" /\ outcome' = how /\ (created' <=> (created \/ fresh))
  BY DEF Ends
<1> QED BY <1>3, <1>4

\* The store keeps its reviews when it settles one.
LEMMA SettleEffect ==
  ASSUME TypeOK, NEW i \in DOMAIN reviews, NEW approved \in BOOLEAN, SettleReview(i, approved)
  PROVE  /\ Len(reviews') = Len(reviews) /\ Mine' = Mine /\ Blocking' \subseteq Blocking
         /\ app'.exists = app.exists /\ (app.ready => app'.ready)
         /\ UNCHANGED Publisher
<1>1. reviews' = [reviews EXCEPT ![i].status = "settled"] /\ UNCHANGED Publisher
  BY DEF SettleReview
<1>2. reviews[i] \in StoreReview /\ DOMAIN reviews = 1..Len(reviews) /\ Len(reviews) \in Nat
  BY DEF TypeOK
<1>3. Len(reviews') = Len(reviews) /\ DOMAIN reviews' = DOMAIN reviews
  <2>1. reviews \in Seq(StoreReview)
    BY DEF TypeOK
  <2>2. [reviews[i] EXCEPT !.status = "settled"] \in StoreReview
    BY <1>2 DEF StoreReview
  <2> QED BY <1>1, <2>1, <2>2
<1>4. \A j \in DOMAIN reviews :
        /\ reviews'[j].mine = reviews[j].mine /\ reviews'[j].version = reviews[j].version
        /\ reviews'[j].status = "waiting" => reviews[j].status = "waiting"
  <2> SUFFICES ASSUME NEW j \in DOMAIN reviews
               PROVE  /\ reviews'[j].mine = reviews[j].mine
                      /\ reviews'[j].version = reviews[j].version
                      /\ reviews'[j].status = "waiting" => reviews[j].status = "waiting"
    OBVIOUS
  <2>1. CASE j = i
    <3>1. reviews'[j] = [reviews[i] EXCEPT !.status = "settled"]
      BY <1>1, <2>1
    <3> QED BY <1>2, <2>1, <3>1 DEF StoreReview
  <2>2. CASE j # i
    BY <1>1, <2>2
  <2> QED BY <2>1, <2>2
<1>5. Mine' = Mine
  BY <1>3, <1>4 DEF Mine
<1>6. Blocking' \subseteq Blocking
  BY <1>3, <1>4 DEF Blocking, Waiting
<1>7. app'.exists = app.exists /\ (app.ready => app'.ready)
  BY DEF SettleReview, TypeOK, State
<1> QED BY <1>1, <1>3, <1>5, <1>6, <1>7

\* A review that the store accepts is the only one that waits.
LEMMA AcceptEffect ==
  ASSUME TypeOK, NEW review \in StoreReview, Accept(review)
  PROVE  /\ Len(reviews') = Len(reviews) + 1
         /\ reviews'[Len(reviews')] = review
         /\ Mine' = IF review.mine THEN Mine \cup {Len(reviews')} ELSE Mine
         /\ Blocking' \subseteq {Len(reviews')}
<1>1. /\ reviews' \in Seq(StoreReview) /\ Len(reviews') = Len(reviews) + 1
      /\ reviews'[Len(reviews) + 1] = review
      /\ \A i \in DOMAIN reviews : reviews'[i] = [reviews[i] EXCEPT !.status = "settled"]
  BY AcceptType DEF TypeOK
<1>2. /\ DOMAIN reviews = 1..Len(reviews) /\ Len(reviews) \in Nat
      /\ DOMAIN reviews' = 1..Len(reviews')
  BY <1>1 DEF TypeOK
<1>3. DOMAIN reviews' = DOMAIN reviews \cup {Len(reviews')} /\ Len(reviews') \notin DOMAIN reviews
  BY <1>1, <1>2
<1>4. \A i \in DOMAIN reviews : reviews'[i].mine = reviews[i].mine /\ reviews'[i].status # "waiting"
  <2> SUFFICES ASSUME NEW i \in DOMAIN reviews
               PROVE  reviews'[i].mine = reviews[i].mine /\ reviews'[i].status # "waiting"
    OBVIOUS
  <2>1. reviews[i] \in StoreReview
    BY DEF TypeOK
  <2>2. reviews'[i] = [reviews[i] EXCEPT !.status = "settled"]
    BY <1>1
  <2> QED BY <2>1, <2>2 DEF StoreReview
<1>5. Mine' = IF review.mine THEN Mine \cup {Len(reviews')} ELSE Mine
  BY <1>1, <1>3, <1>4 DEF Mine
<1>6. Blocking' \subseteq {Len(reviews')}
  BY <1>3, <1>4 DEF Blocking, Waiting
<1> QED BY <1>1, <1>5, <1>6

-----------------------------------------------------------------------------
(* The inductive invariant.                                                *)

\* A publication that begins has submitted nothing and has no cause to fail.
LEMMA PublishInit == Init => PublishInv
<1> SUFFICES ASSUME Init PROVE PublishInv
  OBVIOUS
<1>1. Mine = {}
  BY DEF Init, Mine
<1>2. pc \in {"lookup", "prepare"} /\ outcome = "running"
  BY DEF Init
<1>3. AcceptanceIsLast
  BY <1>1, <1>2 DEF AcceptanceIsLast
<1>4. CreationKnown
  BY <1>2 DEF Init, CreationKnown
<1>5. AttemptsCounted
  BY <1>2, PublishAssumption DEF Init, AttemptsCounted, Attempting, FailureHasCause
<1>6. InfosReady
  BY <1>2 DEF InfosReady, Attempting
<1>7. GuardPassed
  <2>1. TypeOK
    BY TypeInit
  <2>2. seen <= Len(reviews)
    BY <2>1 DEF Init, TypeOK
  <2> QED BY <1>2, <2>2 DEF GuardPassed
<1> QED BY <1>3, <1>4, <1>5, <1>6, <1>7 DEF PublishInv

\* Every step but a submission and those of the store and the developer
\* leaves the reviews alone.
LEMMA ReviewsKept ==
  ASSUME PublisherStep, ~ SubmitReview
  PROVE  reviews' = reviews /\ Mine' = Mine /\ Blocking' = Blocking
<1>1. reviews' = reviews
  BY DEF PublisherStep, LookupVersion, Prepare, ReadApplication, CreateApplication,
         CheckPendingReview, UploadLPK, Retry
<1> QED BY <1>1 DEF Mine, Blocking, Waiting

\* A publication that stops has an outcome, and one that goes on has none.
LEMMA StopsWithOutcome ==
  ASSUME TypeOK, PublisherStep, outcome = "running" <=> pc # "done"
  PROVE  outcome = "running" /\ (outcome' = "running" <=> pc' # "done")
<1> USE FailsEffect, EndsEffect
<1>1. CASE LookupVersion
  BY <1>1 DEF LookupVersion
<1>2. CASE Prepare
  BY <1>2 DEF Prepare
<1>3. CASE ReadApplication
  BY <1>3 DEF ReadApplication
<1>4. CASE CreateApplication
  BY <1>4 DEF CreateApplication
<1>5. CASE CheckPendingReview
  BY <1>5 DEF CheckPendingReview
<1>6. CASE UploadLPK
  BY <1>6 DEF UploadLPK
<1>7. CASE SubmitReview
  BY <1>7 DEF SubmitReview
<1>8. CASE Retry
  BY <1>8 DEF Retry
<1> QED
  BY <1>1, <1>2, <1>3, <1>4, <1>5, <1>6, <1>7, <1>8 DEF PublisherStep

\* A request to submit adds a review of this publication or none; it adds none
\* when the publication tries again.
LEMMA SubmitEffect ==
  ASSUME TypeOK, PublishInv, SubmitReview
  PROVE  /\ \/ UNCHANGED reviews
            \/ /\ Accept(Submission) /\ Mine' = {Len(reviews')} /\ pc' = "done"
               /\ outcome' \in {"published", "failed"}
         /\ outcome' = "published" => Mine' = {Len(reviews')}
         /\ outcome' \in {"running", "published", "failed"}
<1>1. Mine = {} /\ outcome = "running"
  BY DEF SubmitReview, PublishInv, AcceptanceIsLast
<1>2. Submission \in StoreReview /\ Submission.mine
  BY SubmissionType DEF Submission
<1>3. Accept(Submission) => Mine' = {Len(reviews')}
  BY <1>1, <1>2, AcceptEffect
<1>4. PICK answer \in Answer :
        /\ \E done \in Effects(answer) : IF done THEN Accept(Submission) ELSE UNCHANGED reviews
        /\ IF answer = "ok"
           THEN pc' = "done" /\ outcome' = "published"
           ELSE Fails("review", answer)
  BY DEF SubmitReview
<1>5. CASE answer = "ok"
  <2>1. Effects(answer) = {TRUE}
    BY <1>5 DEF Effects
  <2> QED BY <1>3, <1>4, <1>5, <2>1
<1>6. CASE answer = "throttled"
  <2>1. Effects(answer) = {FALSE}
    BY <1>6 DEF Effects
  <2> QED BY <1>1, <1>4, <1>6, <2>1, FailsEffect
<1>7. CASE answer \notin {"ok", "throttled"}
  <2>1. ~ Retryable("review", answer)
    BY <1>7 DEF Retryable
  <2>2. pc' = "done" /\ outcome' = "failed"
    BY <1>4, <1>7, <2>1, FailsEffect
  <2> QED BY <1>3, <1>4, <2>2
<1> QED BY <1>5, <1>6, <1>7

\* Whatever the developer and the store do, no review of the publication is
\* added, and what is added may wait after the attempt began.
LEMMA OthersEffect ==
  ASSUME TypeOK, [Next]_vars, ~ PublisherStep
  PROVE  /\ UNCHANGED Publisher /\ Mine' = Mine
         /\ Len(reviews') \in {Len(reviews), Len(reviews) + 1}
         /\ \A i \in Blocking' : i \in Blocking \/ i = Len(reviews) + 1
         /\ app.exists => app'.exists
         /\ app.ready => app'.ready
<1>1. Len(reviews) \in Nat /\ app \in State
  BY DEF TypeOK
<1>2. ASSUME NEW i \in DOMAIN reviews, NEW approved \in BOOLEAN, SettleReview(i, approved)
      PROVE  /\ UNCHANGED Publisher /\ Mine' = Mine
             /\ Len(reviews') \in {Len(reviews), Len(reviews) + 1}
             /\ Blocking' \subseteq Blocking
             /\ app.exists => app'.exists
             /\ app.ready => app'.ready
  BY <1>2, SettleEffect
<1>3. ASSUME NEW v \in OtherVersion, NEW withInfos \in BOOLEAN, OtherSubmits(v, withInfos)
      PROVE  /\ UNCHANGED Publisher /\ Mine' = Mine
             /\ Len(reviews') = Len(reviews) + 1
             /\ Blocking' \subseteq {Len(reviews) + 1}
             /\ UNCHANGED app
  <2> DEFINE other == [version |-> v, mine |-> FALSE, infos |-> withInfos, status |-> "waiting"]
  <2>1. other \in StoreReview /\ ~ other.mine
    BY PublishAssumption DEF StoreReview
  <2>2. Accept(other) /\ UNCHANGED <<app, Publisher>>
    BY <1>3 DEF OtherSubmits
  <2> HIDE DEF other
  <2> QED BY <2>1, <2>2, AcceptEffect
<1>4. CASE OtherCreates
  BY <1>1, <1>4 DEF OtherCreates, Mine, Blocking, Waiting, State
<1>5. CASE UNCHANGED vars
  BY <1>5 DEF vars, Publisher, Mine, Blocking, Waiting
<1> QED
  BY <1>2, <1>3, <1>4, <1>5 DEF Next

\* The invariant's first part is preserved.
LEMMA AcceptanceStep ==
  ASSUME TypeOK, PublishInv, [Next]_vars
  PROVE  AcceptanceIsLast'
<1>1. AcceptanceIsLast
  BY DEF PublishInv
<1>2. CASE ~ PublisherStep
  <2>1. Mine' = Mine /\ pc' = pc /\ outcome' = outcome
    BY <1>2, OthersEffect DEF Publisher
  <2> QED BY <1>1, <2>1 DEF AcceptanceIsLast
<1>3. CASE PublisherStep
  <2>1. outcome = "running" /\ (outcome' = "running" <=> pc' # "done")
    BY <1>1, <1>3, StopsWithOutcome DEF AcceptanceIsLast
  <2>2. CASE SubmitReview
    <3>1. UNCHANGED reviews => Mine' = Mine
      BY DEF Mine
    <3> QED BY <1>1, <2>1, <2>2, <3>1, SubmitEffect DEF AcceptanceIsLast
  <2>3. CASE ~ SubmitReview
    BY <1>1, <1>3, <2>1, <2>3, ReviewsKept DEF AcceptanceIsLast
  <2> QED BY <2>2, <2>3
<1> QED BY <1>2, <1>3

\* So is the second, what is known of the creation.
LEMMA CreationStep ==
  ASSUME TypeOK, PublishInv, [Next]_vars
  PROVE  CreationKnown'
<1>1. (causes.creation <=> created \/ fresh) /\ (pc \in {"wait", "done"} /\ fresh => created)
  BY DEF PublishInv, CreationKnown
<1>2. CASE ~ PublisherStep
  BY <1>1, <1>2, OthersEffect DEF Publisher, CreationKnown
<1>3. CASE PublisherStep
  <2> USE FailsEffect, EndsEffect
  <2>1. CASE LookupVersion
    BY <1>1, <2>1 DEF LookupVersion, CreationKnown
  <2>2. CASE Prepare
    BY <1>1, <2>2 DEF Prepare, CreationKnown
  <2>3. CASE ReadApplication
    BY <1>1, <2>3 DEF ReadApplication, CreationKnown
  <2>4. CASE CreateApplication
    <3>1. PICK answer \in Answer :
            IF answer = "ok"
            THEN /\ fresh' = TRUE /\ pc' = "guard" /\ UNCHANGED <<outcome, created>>
                 /\ causes' = [causes EXCEPT !.creation = TRUE]
            ELSE Fails("create", answer) /\ UNCHANGED fresh
      BY <2>4 DEF CreateApplication
    <3>2. CASE answer = "ok"
      <4>1. causes'.creation
        BY <3>1, <3>2 DEF TypeOK
      <4> QED BY <3>1, <3>2, <4>1 DEF CreationKnown
    <3>3. CASE answer # "ok"
      BY <1>1, <3>1, <3>3 DEF CreationKnown
    <3> QED BY <3>2, <3>3
  <2>5. CASE CheckPendingReview
    BY <1>1, <2>5 DEF CheckPendingReview, CreationKnown
  <2>6. CASE UploadLPK
    BY <1>1, <2>6 DEF UploadLPK, CreationKnown
  <2>7. CASE SubmitReview
    BY <1>1, <2>7 DEF SubmitReview, CreationKnown
  <2>8. CASE Retry
    BY <1>1, <2>8 DEF Retry, CreationKnown
  <2> QED
    BY <1>3, <2>1, <2>2, <2>3, <2>4, <2>5, <2>6, <2>7, <2>8 DEF PublisherStep
<1> QED BY <1>2, <1>3

\* What a failed attempt does to the count of the attempts.
LEMMA FailsCounted ==
  ASSUME TypeOK, NEW request, NEW answer, Fails(request, answer), outcome = "running",
         causes.transient + 1 = attempt, attempt <= MaxAttempts, attempt' = attempt
  PROVE  AttemptsCounted'
<1>1. attempt \in Nat /\ MaxAttempts \in Nat /\ causes.transient \in Nat
  BY PublishAssumption DEF TypeOK
<1>2. CASE Retryable(request, answer) /\ attempt < MaxAttempts
  <2>1. pc' = "wait" /\ causes'.transient = attempt /\ outcome' = outcome
    BY <1>2, FailsEffect
  <2> QED BY <1>2, <2>1 DEF AttemptsCounted, Attempting, FailureHasCause
<1>3. CASE ~ (Retryable(request, answer) /\ attempt < MaxAttempts)
  <2>1. pc' = "done" /\ (causes'.final \/ causes'.transient = MaxAttempts)
    BY <1>1, <1>3, FailsEffect
  <2> QED BY <2>1 DEF AttemptsCounted, Attempting, FailureHasCause
<1> QED BY <1>2, <1>3

\* A publication that ends has a cause to.
LEMMA EndsCounted ==
  ASSUME TypeOK, NEW how, Ends(how)
  PROVE  AttemptsCounted'
BY EndsEffect DEF AttemptsCounted, Attempting, FailureHasCause

\* The third part: every attempt but the running one ended in an answer that
\* is not final.
LEMMA AttemptsStep ==
  ASSUME TypeOK, PublishInv, [Next]_vars
  PROVE  AttemptsCounted'
<1>1. AttemptsCounted /\ AcceptanceIsLast
  BY DEF PublishInv
<1>2. attempt \in Nat /\ MaxAttempts \in Nat /\ MaxAttempts >= 1 /\ causes.transient \in Nat
  BY PublishAssumption DEF TypeOK
<1>3. CASE ~ PublisherStep
  BY <1>1, <1>3, OthersEffect DEF Publisher, AttemptsCounted, FailureHasCause
<1>4. CASE PublisherStep
  <2>1. outcome = "running"
    BY <1>1, <1>4, StopsWithOutcome DEF AcceptanceIsLast
  <2>2. pc \in Attempting => causes.transient + 1 = attempt /\ attempt <= MaxAttempts
    BY <1>1 DEF AttemptsCounted
  <2>3. ASSUME pc \in Attempting, pc' \in Attempting,
               attempt' = attempt, causes'.transient = causes.transient,
               outcome' = outcome
        PROVE  AttemptsCounted'
    BY <2>1, <2>2, <2>3 DEF AttemptsCounted, Attempting, FailureHasCause
  <2>4. ASSUME pc \in Attempting, attempt' = attempt,
               NEW request, NEW answer, Fails(request, answer)
        PROVE  AttemptsCounted'
    BY <2>1, <2>2, <2>4, FailsCounted
  <2>5. CASE LookupVersion
    <3>1. CASE \E how : Ends(how)
      BY <3>1, EndsCounted
    <3>2. CASE /\ pc' \in {"lookup", "prepare"}
               /\ UNCHANGED <<outcome, causes>>
      BY <1>1, <1>2, PublishAssumption, <2>1, <2>5, <3>2
      DEF LookupVersion, AttemptsCounted, Attempting, FailureHasCause
    <3> QED BY <2>5, <3>1, <3>2 DEF LookupVersion
  <2>6. CASE Prepare
    <3>1. CASE Ends("failed")
      BY <3>1, EndsCounted
    <3>2. CASE pc' = "application" /\ attempt' = 1 /\ UNCHANGED <<outcome, causes>>
      BY <1>1, <1>2, <2>1, <2>6, <3>2
      DEF Prepare, AttemptsCounted, Attempting, FailureHasCause
    <3> QED BY <2>6, <3>1, <3>2 DEF Prepare
  <2>7. CASE ReadApplication
    <3>1. pc \in Attempting /\ attempt' = attempt
      BY <2>7 DEF ReadApplication, Attempting
    <3>2. \/ Ends("failed")
          \/ \E answer \in Answer : Fails("application", answer)
          \/ pc' \in Attempting /\ UNCHANGED <<outcome, causes>>
      BY <2>7 DEF ReadApplication, Attempting
    <3> QED BY <2>3, <2>4, <3>1, <3>2, EndsCounted
  <2>8. CASE CreateApplication
    <3>1. pc \in Attempting /\ attempt' = attempt
      BY <2>8 DEF CreateApplication, Attempting
    <3>2. PICK answer \in Answer :
            IF answer = "ok"
            THEN pc' = "guard" /\ UNCHANGED outcome /\ causes' = [causes EXCEPT !.creation = TRUE]
            ELSE Fails("create", answer)
      BY <2>8 DEF CreateApplication
    <3>3. CASE answer = "ok"
      <4>1. causes'.transient = causes.transient /\ pc' \in Attempting
        BY <3>2, <3>3 DEF TypeOK, Attempting
      <4> QED BY <2>3, <3>1, <3>2, <3>3, <4>1
    <3>4. CASE answer # "ok"
      BY <2>4, <3>1, <3>2, <3>4
    <3> QED BY <3>3, <3>4
  <2>9. CASE CheckPendingReview
    <3>1. pc \in Attempting /\ attempt' = attempt
      BY <2>9 DEF CheckPendingReview, Attempting
    <3>2. \/ Ends("paused")
          \/ \E answer \in Answer : Fails("guard", answer)
          \/ pc' \in Attempting /\ UNCHANGED <<outcome, causes>>
      BY <2>9 DEF CheckPendingReview, Attempting
    <3> QED BY <2>3, <2>4, <3>1, <3>2, EndsCounted
  <2>10. CASE UploadLPK
    <3>1. pc \in Attempting /\ attempt' = attempt
      BY <2>10 DEF UploadLPK, Attempting
    <3>2. \/ \E answer \in Answer : Fails("upload", answer)
          \/ pc' \in Attempting /\ UNCHANGED <<outcome, causes>>
      BY <2>10 DEF UploadLPK, Attempting
    <3> QED BY <2>3, <2>4, <3>1, <3>2
  <2>11. CASE SubmitReview
    <3>1. pc \in Attempting /\ attempt' = attempt
      BY <2>11 DEF SubmitReview, Attempting
    <3>2. \/ \E answer \in Answer : Fails("review", answer)
          \/ pc' = "done" /\ outcome' = "published"
      BY <2>11 DEF SubmitReview
    <3>3. CASE pc' = "done" /\ outcome' = "published"
      BY <3>3 DEF AttemptsCounted, Attempting, FailureHasCause
    <3> QED BY <2>4, <3>1, <3>2, <3>3
  <2>12. CASE Retry
    <3>1. CASE Ends("failed")
      BY <3>1, EndsCounted
    <3>2. CASE pc' = "application" /\ attempt' = attempt + 1 /\ UNCHANGED <<outcome, causes>>
      BY <1>1, <1>2, <2>1, <2>12, <3>2
      DEF Retry, AttemptsCounted, Attempting, FailureHasCause
    <3> QED BY <2>12, <3>1, <3>2 DEF Retry
  <2> QED
    BY <1>4, <2>5, <2>6, <2>7, <2>8, <2>9, <2>10, <2>11, <2>12 DEF PublisherStep
<1> QED BY <1>3, <1>4

\* The fourth part: what the store lacks was prepared and was read.
LEMMA InfosStep ==
  ASSUME TypeOK, PublishInv, [Next]_vars
  PROVE  InfosReady'
<1>1. InfosReady
  BY DEF PublishInv
<1>2. CASE ~ PublisherStep
  BY <1>1, <1>2, OthersEffect DEF Publisher, InfosReady, NeedsInfos
<1>3. CASE PublisherStep
  <2> USE FailsEffect, EndsEffect
  <2>1. CASE LookupVersion
    BY <2>1 DEF LookupVersion, InfosReady, Attempting
  <2>2. CASE Prepare
    BY <2>2 DEF Prepare, InfosReady, Attempting, NeedsInfos
  <2>3. CASE ReadApplication
    BY <1>1, <2>3 DEF ReadApplication, InfosReady, Attempting, NeedsInfos
  <2>4. CASE CreateApplication
    <3>1. app'.ready = app.ready
      BY <2>4 DEF CreateApplication, TypeOK, State
    <3> QED BY <1>1, <2>4, <3>1 DEF CreateApplication, InfosReady, Attempting, NeedsInfos
  <2>5. CASE CheckPendingReview
    BY <1>1, <2>5 DEF CheckPendingReview, InfosReady, Attempting, NeedsInfos
  <2>6. CASE UploadLPK
    BY <1>1, <2>6 DEF UploadLPK, InfosReady, Attempting, NeedsInfos
  <2>7. CASE SubmitReview
    BY <1>1, <2>7 DEF SubmitReview, InfosReady, Attempting, NeedsInfos
  <2>8. CASE Retry
    BY <1>1, <2>8 DEF Retry, InfosReady, Attempting, NeedsInfos
  <2> QED
    BY <1>3, <2>1, <2>2, <2>3, <2>4, <2>5, <2>6, <2>7, <2>8 DEF PublisherStep
<1> QED BY <1>2, <1>3

\* The fifth part: only what came after the attempt began is still blocking.
LEMMA GuardStep ==
  ASSUME TypeOK, PublishInv, [Next]_vars
  PROVE  GuardPassed'
<1>1. GuardPassed
  BY DEF PublishInv
<1>2. Len(reviews) \in Nat /\ seen \in Nat
  BY DEF TypeOK
<1>3. CASE ~ PublisherStep
  BY <1>1, <1>2, <1>3, OthersEffect DEF Publisher, GuardPassed
<1>4. CASE PublisherStep
  <2> USE FailsEffect, EndsEffect
  <2>1. CASE SubmitReview
    <3>1. seen' = seen /\ pc' \in {"wait", "done"}
      BY <2>1 DEF SubmitReview
    <3>2. Len(reviews') >= Len(reviews)
      <4>1. CASE UNCHANGED reviews
        BY <1>2, <4>1
      <4>2. CASE Accept(Submission)
        BY <1>2, <4>2, AcceptEffect, SubmissionType
      <4> QED BY <2>1, <4>1, <4>2, SubmitEffect
    <3>3. Len(reviews') \in Nat
      BY TypeStep DEF TypeOK
    <3> QED BY <1>1, <1>2, <3>1, <3>2, <3>3 DEF GuardPassed
  <2>2. CASE ~ SubmitReview
    <3>1. reviews' = reviews /\ Blocking' = Blocking
      BY <1>4, <2>2, ReviewsKept
    <3>2. CASE LookupVersion
      BY <1>1, <3>1, <3>2 DEF LookupVersion, GuardPassed
    <3>3. CASE Prepare
      BY <1>1, <3>1, <3>3 DEF Prepare, GuardPassed
    <3>4. CASE ReadApplication
      BY <1>1, <1>2, <3>1, <3>4 DEF ReadApplication, GuardPassed
    <3>5. CASE CreateApplication
      BY <1>1, <3>1, <3>5 DEF CreateApplication, GuardPassed
    <3>6. CASE CheckPendingReview
      BY <1>1, <3>1, <3>6 DEF CheckPendingReview, GuardPassed
    <3>7. CASE UploadLPK
      BY <1>1, <3>1, <3>7 DEF UploadLPK, GuardPassed
    <3>8. CASE Retry
      BY <1>1, <3>1, <3>8 DEF Retry, GuardPassed
    <3> QED
      BY <1>4, <2>2, <3>2, <3>3, <3>4, <3>5, <3>6, <3>7, <3>8 DEF PublisherStep
  <2> QED BY <2>1, <2>2
<1> QED BY <1>3, <1>4

\* All parts together.
LEMMA PublishStep == TypeOK /\ PublishInv /\ [Next]_vars => PublishInv'
BY AcceptanceStep, CreationStep, AttemptsStep, InfosStep, GuardStep DEF PublishInv

-----------------------------------------------------------------------------
(* Theorems.                                                               *)

\* Every value of the publication's state (publish.go) has its type.
THEOREM PublishTypes == Spec => []TypeOK
BY TypeInit, TypeStep, PTL DEF Spec

\* The inductive invariant of the retry loop (Publish in publish.go).
THEOREM PublishInvariant == Spec => []PublishInv
BY PublishInit, PublishStep, PublishTypes, PTL DEF Spec

\* A publication that fails got an answer that is final or used all its
\* attempts (the end of the loop in Publish).
THEOREM FailsWithCause == Spec => []FailureHasCause
<1>1. PublishInv => FailureHasCause
  BY DEF PublishInv, AttemptsCounted
<1> QED BY <1>1, PublishInvariant, PTL

\* A success reports the creation of the application, whichever attempt made
\* it (result.Created in Publish).
THEOREM ReportsCreation == Spec => []CreatedReported
<1>1. TypeOK /\ PublishInv => CreatedReported
  BY DEF TypeOK, PublishInv, CreationKnown, AcceptanceIsLast, CreatedReported
<1> QED BY <1>1, PublishTypes, PublishInvariant, PTL

\* Only a submission adds a review of this publication.
LEMMA SubmitsOnlySubmission ==
  ASSUME TypeOK, TypeOK', PublishInv, [Next]_vars, Submits
  PROVE  SubmitReview /\ Accept(Submission)
<1>1. Len(reviews) \in Nat /\ reviews' \in Seq(StoreReview) /\ Len(reviews') \in Nat
  BY DEF TypeOK
<1>2. reviews' # reviews
  BY <1>1 DEF Submits
<1>3. PublisherStep
  <2> SUFFICES ASSUME ~ PublisherStep PROVE FALSE
    OBVIOUS
  <2>1. Mine' = Mine
    BY OthersEffect
  <2>2. Len(reviews') \in Mine'
    BY <1>1 DEF Submits, Mine
  <2>3. Len(reviews') \in DOMAIN reviews
    BY <2>1, <2>2 DEF Mine
  <2> QED BY <1>1, <2>3 DEF Submits, TypeOK
<1>4. SubmitReview
  BY <1>2, <1>3, ReviewsKept
<1> QED BY <1>2, <1>4, SubmitEffect

\* What a session or a developer PAT submits while the store lacks the
\* application's information has it (prepareApplicationInfos and
\* publishAttempt).
THEOREM SubmitsInformation == Spec => InformationSubmitted
<1>1. ASSUME TypeOK, TypeOK', PublishInv, [Next]_vars, StateAware /\ ~ app.ready /\ Submits
      PROVE  reviews'[Len(reviews')].infos
  <2>1. SubmitReview /\ Accept(Submission)
    BY <1>1, SubmitsOnlySubmission
  <2>2. reviews'[Len(reviews')] = Submission
    BY <1>1, <2>1, AcceptEffect, SubmissionType
  <2>3. InfosReady /\ pc = "review"
    BY <1>1, <2>1 DEF PublishInv, SubmitReview
  <2>4. infos /\ (~ sdk => ~ found.ready)
    BY <1>1, <2>3 DEF InfosReady, Attempting, NeedsInfos
  <2>5. Submission.infos
    BY <1>1, <2>4 DEF Submission
  <2> QED BY <2>2, <2>5
<1>2. TypeOK /\ TypeOK' /\ PublishInv /\ [Next]_vars =>
        [StateAware /\ ~ app.ready /\ Submits => reviews'[Len(reviews')].infos]_vars
  BY <1>1
<1> QED BY <1>2, PublishTypes, PublishInvariant, PTL DEF Spec, InformationSubmitted

\* Under the guard, a submission replaces no review that waited when its
\* attempt began, unless that is older and may be replaced
\* (ensureNoPendingReview).
THEOREM ReplacesOnlyNewer == Spec => WaitingReplacedByNewer
<1>1. ASSUME TypeOK, TypeOK', PublishInv, [Next]_vars, Guard /\ Submits,
             NEW i \in Waiting, i <= seen
      PROVE  ContinueIfNewer /\ reviews[i].version < Version
  <2>1. SubmitReview
    BY <1>1, SubmitsOnlySubmission
  <2>2. \A j \in Blocking : j > seen
    BY <1>1, <2>1 DEF PublishInv, GuardPassed, SubmitReview
  <2>3. i \in Nat /\ seen \in Nat
    BY <1>1 DEF Waiting, TypeOK
  <2>4. i \notin Blocking
    BY <1>1, <2>2, <2>3
  <2> QED BY <1>1, <2>4 DEF Blocking
<1>2. TypeOK /\ TypeOK' /\ PublishInv /\ [Next]_vars =>
        [Guard /\ Submits =>
           \A i \in Waiting :
             i <= seen => ContinueIfNewer /\ reviews[i].version < Version]_vars
  BY <1>1
<1> QED BY <1>2, PublishTypes, PublishInvariant, PTL DEF Spec, WaitingReplacedByNewer

\* The publication implements Publication: however often it tries, the store
\* accepts at most one review of it, and that is its last step.
THEOREM AcceptedOnce == Spec => ImplementsPublication
<1>1. Init => Outside!Init
  BY DEF Init, Outside!Init, Mine
<1>2. ASSUME TypeOK, PublishInv, [Next]_vars
      PROVE  [Outside!Next]_Outside!vars
  <2>1. outcome = "running" => Mine = {}
    BY <1>2 DEF PublishInv, AcceptanceIsLast
  <2>2. CASE ~ PublisherStep
    BY <1>2, <2>2, OthersEffect DEF Publisher, Outside!vars
  <2>3. CASE PublisherStep
    <3>1. outcome = "running" /\ (outcome' = "running" <=> pc' # "done")
      BY <1>2, <2>3, StopsWithOutcome DEF PublishInv, AcceptanceIsLast
    <3>2. CASE SubmitReview
      <4>1. CASE UNCHANGED reviews
        <5>1. Mine' = Mine /\ Mine = {}
          BY <2>1, <3>1, <4>1 DEF Mine
        <5>2. outcome' \in {"running", "failed"}
          BY <1>2, <3>2, <5>1, SubmitEffect
        <5> QED BY <3>1, <5>1, <5>2 DEF Outside!Next, Outside!Stop, Outside!vars
      <4>2. CASE Mine' = {Len(reviews')} /\ outcome' \in {"published", "failed"}
        BY <2>1, <3>1, <4>2 DEF Outside!Next, Outside!Publish, Outside!Lose
      <4> QED BY <1>2, <3>2, <4>1, <4>2, SubmitEffect
    <3>3. CASE ~ SubmitReview
      <4>1. Mine' = Mine
        BY <2>3, <3>3, ReviewsKept
      <4>2. outcome' \in {"running", "skipped", "paused", "failed"}
        <5> USE <1>2, <3>1, FailsEffect, EndsEffect
        <5>1. CASE LookupVersion BY <5>1 DEF LookupVersion
        <5>2. CASE Prepare BY <5>2 DEF Prepare
        <5>3. CASE ReadApplication BY <5>3 DEF ReadApplication
        <5>4. CASE CreateApplication BY <5>4 DEF CreateApplication
        <5>5. CASE CheckPendingReview BY <5>5 DEF CheckPendingReview
        <5>6. CASE UploadLPK BY <5>6 DEF UploadLPK
        <5>7. CASE Retry BY <5>7 DEF Retry
        <5> QED
          BY <2>3, <3>3, <5>1, <5>2, <5>3, <5>4, <5>5, <5>6, <5>7 DEF PublisherStep
      <4> QED BY <3>1, <4>1, <4>2 DEF Outside!Next, Outside!Stop, Outside!vars
    <3> QED BY <3>2, <3>3
  <2> QED BY <2>2, <2>3
<1> QED
  BY <1>1, <1>2, PublishTypes, PublishInvariant, PTL
  DEF Spec, Outside!Spec, ImplementsPublication

-----------------------------------------------------------------------------
(* The number of requests.                                                 *)

\* The steps that are left, by the next request.
LEMMA StepsLeftIs ==
  /\ pc = "lookup" => StepsLeft = (MaxLookups - attempt) + 2 + 6 * MaxAttempts
  /\ pc = "prepare" => StepsLeft = 1 + 6 * MaxAttempts
  /\ pc = "application" => StepsLeft = 6 * (MaxAttempts - attempt) + 6
  /\ pc = "create" => StepsLeft = 6 * (MaxAttempts - attempt) + 5
  /\ pc = "guard" => StepsLeft = 6 * (MaxAttempts - attempt) + 4
  /\ pc = "upload" => StepsLeft = 6 * (MaxAttempts - attempt) + 3
  /\ pc = "review" => StepsLeft = 6 * (MaxAttempts - attempt) + 2
  /\ pc = "wait" => StepsLeft = 6 * (MaxAttempts - attempt) + 1
  /\ pc = "done" => StepsLeft = 0
BY DEF StepsLeft

\* The same, after the step.
LEMMA StepsLeftNext ==
  /\ pc' = "lookup" => StepsLeft' = (MaxLookups - attempt') + 2 + 6 * MaxAttempts
  /\ pc' = "prepare" => StepsLeft' = 1 + 6 * MaxAttempts
  /\ pc' = "application" => StepsLeft' = 6 * (MaxAttempts - attempt') + 6
  /\ pc' = "create" => StepsLeft' = 6 * (MaxAttempts - attempt') + 5
  /\ pc' = "guard" => StepsLeft' = 6 * (MaxAttempts - attempt') + 4
  /\ pc' = "upload" => StepsLeft' = 6 * (MaxAttempts - attempt') + 3
  /\ pc' = "review" => StepsLeft' = 6 * (MaxAttempts - attempt') + 2
  /\ pc' = "wait" => StepsLeft' = 6 * (MaxAttempts - attempt') + 1
  /\ pc' = "done" => StepsLeft' = 0
BY DEF StepsLeft

\* A publication cannot make requests for ever: each of its steps leaves fewer
\* of them, whatever is answered and whatever happens in between (the loop of
\* Publish, the retries of storelookup).
THEOREM RequestsDoRunOut == Spec => RequestsRunOut
<1>1. ASSUME TypeOK, PublishInv, PublisherStep
      PROVE  StepsLeft' \in 0 .. StepsLeft - 1
  <2>1. /\ MaxAttempts \in Nat \ {0} /\ MaxLookups \in Nat \ {0} /\ attempt \in Nat
        /\ pc \in Attempting => attempt <= MaxAttempts
        /\ pc = "wait" => attempt < MaxAttempts
        /\ pc = "lookup" => attempt <= MaxLookups
    BY <1>1, PublishAssumption DEF TypeOK, PublishInv, AttemptsCounted
  <2>2. pc # "done" => StepsLeft \in Nat \ {0}
    BY <1>1, <2>1, StepsLeftIs DEF TypeOK, Attempting
  <2>3. ASSUME pc # "done", pc' = "done" PROVE StepsLeft' \in 0 .. StepsLeft - 1
    BY <2>2, <2>3, StepsLeftNext
  <2>4. ASSUME pc \in Attempting, attempt' = attempt, NEW request, NEW answer,
               Fails(request, answer)
        PROVE  StepsLeft' \in 0 .. StepsLeft - 1
    <3>1. pc' = "done" \/ pc' = "wait"
      BY <2>4 DEF Fails
    <3>2. pc # "done"
      BY <2>4 DEF Attempting
    <3>3. CASE pc' = "wait"
      BY <2>1, <2>4, <3>3, StepsLeftIs, StepsLeftNext DEF Attempting
    <3> QED BY <2>3, <3>1, <3>2, <3>3
  <2>5. CASE LookupVersion
    BY <2>1, <2>3, <2>5, StepsLeftIs, StepsLeftNext DEF LookupVersion, Ends
  <2>6. CASE Prepare
    BY <2>1, <2>3, <2>6, StepsLeftIs, StepsLeftNext DEF Prepare, Ends
  <2>7. CASE ReadApplication
    <3>1. pc = "application" /\ attempt' = attempt
      BY <2>7 DEF ReadApplication
    <3>2. \/ pc' \in {"guard", "create", "done"}
          \/ \E answer \in Answer : Fails("application", answer)
      BY <2>7 DEF ReadApplication, Ends
    <3> QED BY <2>1, <2>3, <2>4, <3>1, <3>2, StepsLeftIs, StepsLeftNext DEF Attempting
  <2>8. CASE CreateApplication
    <3>1. pc = "create" /\ attempt' = attempt
      BY <2>8 DEF CreateApplication
    <3>2. pc' = "guard" \/ \E answer \in Answer : Fails("create", answer)
      BY <2>8 DEF CreateApplication
    <3> QED BY <2>1, <2>4, <3>1, <3>2, StepsLeftIs, StepsLeftNext DEF Attempting
  <2>9. CASE CheckPendingReview
    <3>1. pc = "guard" /\ attempt' = attempt
      BY <2>9 DEF CheckPendingReview
    <3>2. pc' \in {"upload", "done"} \/ \E answer \in Answer : Fails("guard", answer)
      BY <2>9 DEF CheckPendingReview, Ends
    <3> QED BY <2>1, <2>3, <2>4, <3>1, <3>2, StepsLeftIs, StepsLeftNext DEF Attempting
  <2>10. CASE UploadLPK
    <3>1. pc = "upload" /\ attempt' = attempt
      BY <2>10 DEF UploadLPK
    <3>2. pc' = "review" \/ \E answer \in Answer : Fails("upload", answer)
      BY <2>10 DEF UploadLPK
    <3> QED BY <2>1, <2>4, <3>1, <3>2, StepsLeftIs, StepsLeftNext DEF Attempting
  <2>11. CASE SubmitReview
    <3>1. pc = "review" /\ attempt' = attempt
      BY <2>11 DEF SubmitReview
    <3>2. pc' = "done" \/ \E answer \in Answer : Fails("review", answer)
      BY <2>11 DEF SubmitReview
    <3> QED BY <2>3, <2>4, <3>1, <3>2 DEF Attempting
  <2>12. CASE Retry
    BY <2>1, <2>3, <2>12, StepsLeftIs, StepsLeftNext DEF Retry, Ends
  <2> QED
    BY <1>1, <2>5, <2>6, <2>7, <2>8, <2>9, <2>10, <2>11, <2>12 DEF PublisherStep
<1>2. TypeOK /\ PublishInv /\ [Next]_vars =>
        [PublisherStep => StepsLeft' \in 0 .. StepsLeft - 1]_vars
  BY <1>1
<1> QED BY <1>2, PublishTypes, PublishInvariant, PTL DEF Spec, RequestsRunOut

=============================================================================
