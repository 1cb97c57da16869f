# Verification of lazycat-action

lazycat-action keeps a LazyCat application in step with its upstream project: it
discovers a new upstream source, packages it, submits the package (an LPK) to
the official store for review and keeps a lock file in the adapter's repository
that says what was packaged, submitted and decided. This directory holds TLA+
models of that system, TLC runs that check them on small instances, and proofs
that TLAPS checks for all instances.

The most important promise of the program is in its README (line 45):
*previously submitted sources are not submitted again automatically*, even when
"submission succeeds but pushing its state fails" (line 47). No single component
keeps it. It depends on the order in which a run writes the branch and the store,
on what survives a failure between the two, and on how the next run puts the two
together again. `SourcePipeline` is about that promise. The other models look into
its steps: what is selected upstream (`Discovery`, `NumericVersions`,
`AppVersion`), what packaging does to the tree (`Checkout`, `ImageCheck`,
`ImageDelivery`, `Changelog`), how a submission is made and found again
(`OfficialPublish`, `ReviewLookup`), how the package is released
(`ReleasePublish`), and what the configuration asks of all of them (`Settings`).

## 1. The system

### Components

| component | code | state it keeps | operations |
|---|---|---|---|
| source pipeline | `internal/action/action.go`, `review.go` | none of its own: reads and writes the checkout | `Run`: review gate, `reconcileReviews`, `runSourceCheck` (decide, version, images, build, lock), `runPublish` |
| pipeline state | `internal/pipelinestate/state.go` | the lock file: source, fingerprint, status, package, review records | `Read`, `Write`, `RecordReview`, `Fingerprint` |
| reusable workflow | `.github/workflows/lazycat.yml` | the branch; artifacts handed from job to job | check job, commit and push of the packaged state, submission job, commit and push of the record, release job |
| official publisher | `internal/store/official/publish.go`, `review.go` | none; the store keeps applications and reviews | `Publish` with its retry loop, `checkPendingReview`, `submitReview`, `FindReview` |
| publish flow | `internal/publishflow/flow.go` | none | `checkExisting`, credentials, call of the publisher |
| store lookup | `internal/storelookup/lookup.go` | none | the version online, with retries |
| versioning | `internal/versioning` | none | selection of tags, mapping rules, `BumpPatch`, numeric order |
| source discovery | `internal/source` | none | selects one upstream candidate, collects its changelog |
| image flow | `internal/imageflow/flow.go` | the manifest in the checkout | selects, delivers and records images of version 1 projects |
| image delivery | `internal/delivery`, `internal/imagemirror`, `internal/staging` | images in a registry | copies an image and answers the runtime reference |
| manifest and version edits | `internal/manifestedit`, `internal/yamledit`, `internal/manifesttemplate` | manifest and package.yml in the checkout | edits that answer what they changed, so that it can be undone |
| release publication | `scripts/publish-lpk-release.cjs` | tag, release and asset on GitHub | create what is missing, overwrite nothing |
| preparation and build | `internal/prepare`, `internal/build` | files of the checkout | run the adapter's commands and the LPK build |
| registry client | `internal/registry` | none | lists tags, resolves digests |
| configuration, authentication, command line, package checks, support | `internal/config`, `internal/platformauth`, `cmd`, `internal/githubio`, `internal/lpkcheck`, ... | none | validation, parsing, output |

### How they interact

Four stores of state meet in one pipeline and no transaction spans them:

* **upstream**, which moves by itself and is read once per run;
* the **checkout** of a run, private and thrown away at its end;
* the **branch**, written by two pushes per run (the packaged state, then the
  record of the review) and by developers, with git's rule that a push from an
  old head is refused;
* the **store**, where reviewers decide at any time and where accepting a new
  review cancels the one that waits.

A run reads the waiting review (gate), reconciles the lock with the store's
reviews, decides about the upstream source, builds, writes the lock with status
`packaged`, pushes, hands the LPK over to the submission job, which checks out
the pushed commit, reconciles again, looks at the waiting review a last time,
uploads, submits, writes the lock with status `submitted`, and pushes again. The
workflow's concurrency group keeps a second run waiting until the first is over.

### What is hard

* A failure at any of these steps, above all between the acceptance of a review
  and the push of its record, and an answer of the store that is lost.
* A branch that moves under the run: both pushes can be refused.
* Checks that are older than the step they protect: the version of the waiting
  review (gate and final look against the submission), the digest of a mutable
  tag, the version online.
* A lock whose meaning depends on its history: retries of rejected reviews, locks
  from before the history, recipes that change while a review waits.
* A retry loop around three writes (create application, upload, submit) that are
  not idempotent alike.
* Edits to several files and registries that must be undone together.

### What makes each component correct

| component | properties |
|---|---|
| source pipeline | no accepted review is ever forgotten; one submission per source and per granted retry; a check that finds nothing to do leaves no package behind; versions only increase; older releases do not come back; a moved tag stops; a source upstream settles on is handled in the end |
| pipeline state | records keep their place and package, and settled ones are final; a record names the right review |
| reusable workflow | what is submitted is on the branch before; a refused push loses nothing |
| official publisher | at most one acceptance per publication, whatever is retried; what waited when an attempt began is replaced only by a newer version; information the store lacks comes with the first review; a success reports the creation of the application; a failure has a cause; requests run out, and every publication ends; a review on any page is found |
| image flow | a run that pauses copies nothing; what a run makes is newer than the review that waits; a version never has two digests; a complete check is followed by one that finds nothing |
| delivery, edits, preparation and build | a failed run leaves manifest and package.yml as they were; a set of images changes at once; the lock names what was delivered; the parts of a packaged tree agree |
| source discovery, registry client | the selected release is the highest that was there all the time; a repeated lookup agrees; one during which nothing moves fails only for a name that cannot be ranked; notes leave a commit out only for a stated reason, and a source that went back gets none made of its commits |
| versioning | dotted numbers are ordered by value; `BumpPatch` is larger, refuses at the end and never wraps; packaged versions grow |
| release publication | success means published for good; an LPK is an asset of its own commit only; reruns run out, complete a release and overwrite nothing |
| configuration | an accepted configuration is not refused later; images take the way their settings name |

`PROJECT.json` lists the hazards at their source lines, with the properties that
cover them.

## 2. Modules

| module | what it is |
|---|---|
| `SubmissionLedger` | abstract specification: what the outside may see of submissions |
| `SourcePipeline` | the pipeline with branch, checkout, store and upstream; implements `SubmissionLedger` |
| `MCSourcePipeline` | small instances of it for TLC |
| `SourcePipelineProofs` | type correctness |
| `SourcePipelineHistory` | what the pipeline keeps in every configuration: records, hashes, packages left to submit, the final look, numeric releases |
| `SourcePipelineRecovery` | what a readable list of reviews makes true: no review is forgotten, versions increase, the ledger is implemented |
| `Publication` | abstract specification: what one publication promises |
| `OfficialPublish` | one publication, request by request; implements `Publication`; checked as it is, its constants are numbers and settings |
| `OfficialPublishProofs` | its types, its inductive invariant, the refinement and the other safety properties |
| `ImageDelivery` | operators: references, registries, `Resolver.Deliver` and the edit of the manifest; used by `Checkout` and `ImageCheck` |
| `Checkout`, `MCCheckout` | the packaging of a selected source in a working tree, with failures, rollbacks and kills |
| `CheckoutProofs` | its inductive invariant and its five safety properties |
| `ImageCheck`, `MCImageCheck` | the check of version 1 configurations, in three kinds of projects |
| `ImageCheckProofs` | its inductive invariants and its four safety properties, for every project |
| `ReviewLookup` | the paged lookup of a review |
| `ReleasePublish` | release jobs on GitHub |
| `Changelog` | the notes of a package, over the upstream's history |
| `MCReleasePublish` | an instance of `ReleasePublish`, beside it one of `ReviewLookup` and one of `Changelog` |
| `ReleasePublishProofs` | the invariants and safety properties of release jobs, of the paged lookup and of the notes |
| `Discovery` | lookups of Git and registry sources while upstream moves |
| `NumericVersions`, `AppVersion` | the order and normalisation of dotted numbers; the version of the next package |
| `Settings` | loading, defaults and validation of a configuration, and what a check does with it |
| `MCSettings`, `MCSelection` | families of configurations; an instance of `Settings`, beside it those of `Discovery`, `NumericVersions` and `AppVersion` |
| `SelectionProofs` | the invariants and safety properties of `Settings`, `Discovery`, `AppVersion` and `NumericVersions` |

`MCReleasePublish` and `MCSelection` check modules that share no state in one run:
a variable `part` says which module a behaviour is of, and the variables of the
others rest in a legitimate state. A property of a part is about its behaviours
alone.

An operator whose comment begins with "Bug:" is not part of the model: it is the
definition after it with a plausible mistake, and `PROJECT.json` names the property
that TLC finds violated when it takes the definition's place.

### SourcePipeline

State:

| variable | in the code |
|---|---|
| `repo` | the tree at the head of the branch: lock file, version in package.yml, recipe |
| `work` | the checkout of the run, with what it edited so far |
| `behind` | the branch moved since the checkout, so that a push will be refused |
| `store` | the application's reviews at the store, by id |
| `upstream` | the candidate discovery would select now |
| `pc`, `run` | the step of the run, and what it remembers: job, retry-rejected, version of the waiting review, position in the review records, whether it built, and the number of reviews at the final look |
| `builds` | number of LPKs built; an LPK's hash is the number of its build |
| `handoffs` | packaged commits (with their LPK) whose submission job can be started again, and whether the branch moved on since |
| `spent`, `granted` | history: disturbances used up, retries granted and not used |

Actions, in the order of a run:

| action | code |
|---|---|
| `StartRun` | the schedule, or a dispatch with `retry-rejected` |
| `PauseForReview`, `PassGate` | the gate in `Run`; a lock without history is migrated on the way into `reconcileReviews` |
| `LookupRecord` | one iteration of the loop over the records |
| `RecoverSubmission` | the lookup by version, hash and channel for a packaged lock, at the end of `reconcileReviews` |
| `RefuseSource`, `KeepSource`, `PackageSource` | `runSourceCheck`: older or moved source; nothing to do; new version, build and lock |
| `PushPackaged` | commit and push in the check job, and the checkout and reconciliation of the submission job |
| `AlreadyRecorded`, `SkipExisting`, `NotExisting` | the start of `runPublish` and `checkExisting` |
| `PauseAtGuard`, `PassGuard` | `checkPendingReview` in `publishAttempt` |
| `CreateReview`, `CreateReviewLost` | `submitReview` and the lock it leads to; the store may answer with the review or with nothing, and the answer may be lost |
| `PushRecord`, `PushRefused` | the second push; a push from an old head |
| `RerunSubmission` | "re-run failed jobs" on the submission job of an earlier run: it checks out the packaged commit of that run |
| `RunFails`, `DeveloperPush`, `UpstreamMoves`, `SettleReview`, `SubmitManually` | everything outside a run |

What is abstracted: a source is what `SameSource` compares; a fingerprint is the
pair of source and recipe (a hash of both in the code, taken as free of
collisions); versions are naturals and `BumpPatch` is the successor; texts,
credentials and times are left out, but whether a record has a time
(`dated`) is kept, because `reconcileReviews` gives up records without one.

### The abstract specification

`SubmissionLedger` has three sets, of sources that were submitted, whose last
review was rejected, and that were granted a retry, and three actions. The
refinement maps them from the store's reviews alone (`Ledger` in
`SourcePipeline`), so that nothing the lock says can make it true.

### OfficialPublish

`SourcePipeline` takes the submission as one step, `CreateReview` or
`CreateReviewLost`. `OfficialPublish` is what the publisher does there. State:

| variable | in the code |
|---|---|
| `app`, `reviews`, `online` | the store: whether the application exists and has its information; its reviews; the version online |
| `pc`, `attempt` | the next request, and the number of the attempt (of the lookup first, then of the publication) |
| `infos` | `applicationInfos` was prepared before the loop |
| `found` | `exists` and `informationReady` of this attempt |
| `fresh`, `created` | `created` of `publishAttempt` and of `Publish` |
| `outcome` | the result: published, skipped, paused (`PendingReviewError`) or failed |
| `seen`, `causes` | history: the number of reviews when the attempt began; what went wrong, and whether a creation succeeded |

Actions:

| action | code |
|---|---|
| `LookupVersion` | `checkExisting` and the retries of `storelookup.Default` |
| `Prepare` | `Publish` before its loop: validation, token, state of the application, upload of images |
| `ReadApplication`, `CreateApplication` | the start of `publishAttempt` |
| `CheckPendingReview`, `UploadLPK`, `SubmitReview` | `checkPendingReview`, `uploadLPK`, `submitReview` |
| `Retry` | the wait between two attempts |
| `SettleReview`, `OtherSubmits`, `OtherCreates` | reviewers and developers, between any two requests |

Every request has an `Answer`, and `Effects` says whether the store may have done
what it was asked: surely not when it throttles or rejects, perhaps when it fails
or when no answer arrives. `Retryable` is `retryablePublishError`: a submission is
repeated only when it was throttled. `Fails` is the end of an attempt in the loop
of `Publish`. An upload matters only for the review that names it and leaves no
state; delays, including `Retry-After`, are not timed.

`Publication` has the set of reviews of this publication that the store accepted
and the outcome. Its steps are an acceptance that is reported, an acceptance
whose answer is lost, and an end without acceptance. The refinement maps
`accepted` to the reviews at the store that are marked as this publication's.

### ImageDelivery and Checkout

`ImageDelivery` keeps of an image what the code compares: a place (upstream
registry, proxy, mirror, staging repository, store), a tag and a digest the
reference may be pinned to. `Deliver` answers the set of results of
`Resolver.Deliver`, empty for an error, for the modes direct, mirror and lazycat;
`Apply` is `manifestedit.Apply`, which edits all entries or none.

`Checkout` is `runSourceCheck` from `PrepareSource` on:

| variable | in the code |
|---|---|
| `manifest`, `version`, `lpk`, `lock` | the files of the tree: image entries with their upstream comments, package.yml, the LPK at the output path, the lock |
| `served` | what the registries serve under each tag of each place |
| `pc`, `source`, `target`, `before`, `image` | the run: its step, source and version, what the tree was, and the image it is at |
| `digest`, `from`, `plan` | per image: the digest that was looked up, the reference it is delivered from, the entry to be written |
| `cause`, `undone` | history: the step that failed, and whether the rollbacks worked |

| action | code |
|---|---|
| `StartRun` | the decision and `sourceApplicationVersion` |
| `Prepare` | `PrepareSource` |
| `Inspect`, `InspectCopySource`, `Stage`, `InspectStaged`, `DeliverImage` | an iteration of `deliverSourceImageSet`: look up, compare `copy_source`, copy with crane, look up again, `Deliver` |
| `ApplyImages` | the one edit of the manifest, which may fail after the file was replaced |
| `SetVersion`, `Build`, `WriteLock` | the steps with rollbacks, whose own errors are ignored |
| `WriteResult`, `Kill`, `MoveTag` | the result file; the runner is lost; a registry changes a tag |

The tree outlives the run, as it does for the command line; in GitHub Actions the
tree of a failed run is thrown away, which is the easier case.

### ImageCheck

`Flow.Check` with the part of `runCheck` around it, for a project whose version
follows one image (`Driver`). State: `served` and `newest` (the registries and what
the rules select), `head` (committed) and `manifest`, `version` (tree), the review
that waits, the queue of images, the updates that were collected. `StartCheck`,
`Select` (with the review gate and `plannedDigestChanged`), `DeliverImage`,
`ApplyUpdates`, `SetVersion`, `Build` and `WriteResult` follow the code step by
step; `MoveTag` and `MoveNewest` are the registries. The variable `project` picks
one of the configurations of the constant `Projects` for the whole behaviour.

### ReviewLookup and ReleasePublish

`ReviewLookup` is `FindReview`: one action per page, while `Submit` puts a review
in front and `Withdraw` removes one. A review is its id.

`ReleasePublish` is `scripts/publish-lpk-release.cjs`, one action per request
(`GetRef`, `CreateRef`, `GetRelease`, `CreateRelease`, `ListAssets`, `Upload`), for
any number of jobs at once. `RequestLost` loses a request or its answer after
GitHub carried it out, `Rerun` starts a failed job again, and a developer tags,
releases and uploads by hand.

### Changelog

`GitRunner.Changelog` and the part of `runSourceCheck` that asks for notes. The
upstream's history is a graph of commits with merges, tags, a branch that may be
rewound and tags that may be deleted. `Discover` takes a source, `WriteNotes`
gives its version a text, `PackageNotes` writes the lock, `Submit` records the
submission, whose text may be another one (lazycat.yml:465). A kind of source
(branch, tag, image) is chosen at the start, and whether the configuration names the
repository of the notes (`configured`) may change like the rest of it, without
being a part of the fingerprint. Subject lines are left out: notes are sets of
commits, and a text without any is `OtherText`.

`WriteNotes` has the branches of action.go:853-866 in their order: `DictateNotes` is
the text an operator dispatched the run with, which may be any run; `KeepNotes` the
text the lock has for the same inputs; `NoNotes` a configuration without notes; and
`GenerateNotes` the range of commits, from a clone made after the lookup, refused when
it is empty. Only the last one looks at the upstream's history.

### Discovery, NumericVersions and AppVersion

`Discovery` is `Discoverer.Discover` with the registry client: Git tags in one
answer, a branch in two requests, registry tags in a list, then pages of update
times or one inspection after the other. Upstream pushes, deletes and changes the
default branch between any two requests, and any request may fail. A name is a
number; what it maps to as a semantic or numeric version, whether it passes the
expressions, and the build it names are constants or state. A rule has names it
misreads: it makes of them a version with a component that is too large
(`overflow`), or a version but no dotted number to sort by (`undotted`). One such name
fails the lookup (`RuleFails`) on every channel that maps, as one that does not map
does on the custom channel.

`NumericVersions` is `CompareNumericVersions` and `normalizeSemVerCore` on sequences
of digits, beside the values they denote; what the code compares as strings never
becomes a number in it. `AppVersion` is `sourceApplicationVersion` and `BumpPatch` in
components up to `Largest`, with the increment a retry of a rejected source asks for
(action.go:807).

### Settings

A configuration is a record of the settings that are modelled; a reference, a
template or an expression is "", "good" or "bad". `Load` applies the defaults of
`config.Load` and its validations; `Discover`, `Notes`, `Prepare`, `Select`,
`Deliver` and `Edit` are the steps of a check that read the settings again and may
refuse them. `effects` collects what was done by then.

## 3. Runs

Passing runs, with distinct states and minutes on two workers:

| run | states | shows |
|---|---|---|
| `pipeline_failures` | 1.2 M, 1 | one push by a developer, one failure at any step, one retry: the branch keeps track of every review, versions increase, decided records stay, a package that was interrupted is taken up again, and the pipeline implements the ledger |
| `pipeline_live` | 0.6 M, 1.5 | the same disturbances, with locks that may be from before the history, in every state their review can be in: they are migrated without a second submission, the source upstream settles on is recorded in the end or refused, and the inductive invariant of the proof holds |
| `pipeline_manual` | 2.2 M, 1 | numeric ordering, a submission by hand and a rerun of a submission job: manual reviews are not taken for the pipeline's, a waiting review the final look has seen is replaced only by a newer version, and no run on the current branch submits an older release or another digest of one |
| `publish` | 1.2 M, 1 | one publication: it is accepted at most once, sends the information the store lacks, replaces what waited only by a newer version, reports a creation made by any attempt, fails only with a cause, and ends |
| `checkout` | 1.2 M, 1 | three runs over three images (copied, staged, mirrored): rollbacks, atomic edits, and a lock that names what was delivered |
| `imagecheck` | 3.4 M, 2 | the version 1 check in three projects: published from fresh checkouts, in a tree that is kept, and with pull requests |
| `release` | 1.8 M, 3 | release jobs and their reruns; the lookup of a review; release notes |
| `selection` | 1.9 M, 2 | 200 000 configurations; lookups upstream; the comparison of versions and the version of the package |

What they check (in parentheses the theorem, where it is also proved):

| run | properties |
|---|---|
| `pipeline_failures` | `SubmissionRecoverable` (`Recoverable`), `VersionsIncrease` (`VersionsDoIncrease`), `HistoryPreserved` (`HistoryIsPreserved`), `KeptSourceIsSubmitted` (`KeptSourcesAreSubmitted`), `ImplementsLedger` (`LedgerIsImplemented`) |
| `pipeline_live` | `RecoveryInv` (`RecoveryInvariant`), `ResubmissionIsGranted` (`ResubmissionsAreGranted`), `NewestSourceHandled` |
| `pipeline_manual` | `RecordsTruthful` (`RecordsAreTruthful`), `SeenReviewReplacedByNewer` (`SeenReviewIsReplacedByNewer`), `NumericReleasesIncrease` (`NumericReleasesDoIncrease`) |
| `publish` | `ImplementsPublication` (`AcceptedOnce`), `WaitingReplacedByNewer` (`ReplacesOnlyNewer`), `InformationSubmitted` (`SubmitsInformation`), `CreatedReported` (`ReportsCreation`), `FailureHasCause` (`FailsWithCause`), `PublicationEnds` |
| `checkout` | `FailureRestores` (`FailuresRestore`), `ImageSetChangesAtOnce` (`ImageSetsAreWhole`), `LockIsDelivered` (`LocksAreDelivered`), `PackagedTreeAgrees` (`PackagedTreesAgree`), `PackagedVersionsIncrease` (`PackagedVersionsGrow`) |
| `imagecheck` | `ReviewGate` (a pause copies nothing, and the review was older; `ReviewsAreGated`), `SameVersionSameDigest` (`VersionsKeepTheirDigest`), `BaselineIsDelivered` (`BaselinesAreDelivered`), `RepeatedCheckFindsNothing` (`RepeatedChecksFindNothing`) |
| `release` | `DoneIsPublished` (`PublishedForGood`), `AssetIsOfTaggedCommit` (`AssetsMatchTags`), `RerunsComplete`; `LookupCorrect` (the newest match is found, and one is overlooked only by a removal; `LookupsAreSound`); `NotesCorrect` (a commit is left out only for a stated reason, a version keeps its text; `NotesAreCorrect`), `NeverBackwards` (no notes are made of the commits of a source that went back; `NeverGoesBack`) |
| `selection` | `AcceptedRuns` (`AcceptedConfigurationsRun`), `RefusedBeforeCopies` (`RefusedEarly`), `CoordinatedAsConfigured` (`CoordinatedSetsAsConfigured`); `SelectedIsHighest` (`HighestIsSelected`), `LookupsAgree` (a repeated lookup agrees, a quiet one fails only for a name the rule cannot rank; `LookupsDoAgree`); `VersionsCorrect` (comparison, normalisation, refusal; `VersionsAreCorrect`), `PackagedVersionGrows` (`PackagedVersionsDoGrow`) |

Runs in which the code contradicts what the repository says of it:

| run | shows |
|---|---|
| `pipeline_session` | README.md:45 promises that a submitted source is not submitted again. With session credentials the review list is not read (`LookupReview` answers nothing, action.go:264), so that a submission whose record did not reach the branch is made again |
| `pipeline_rerun` | README.md:47 says that a submission whose record could not be pushed is recovered by the next run. A submission job that is started again after another run has packaged submits its old package, cannot push the record, and the lock on the branch does not lead to it |
| `pipeline_race` | README.md:36 says that equal or older candidates pause. The look at the waiting review comes before the upload and the submission: what starts to wait in between is replaced whatever its version |
| `pipeline_moved_tag` | README.md:37 says that the pipeline stops when a recorded tag moves. The comparison is with the source in the lock, not with the sources in the review history: once another tag was packaged, the moved one is submitted |

### Limits the properties state

Modelling met these too. They are conditions of a property rather than runs:

* Notes of an image source begin at the tag of the application's own version and
  end at the image's (changelog.go:66, 83). Once `BumpPatch` has moved the one past the
  upstream's, or a tag moved, the range can be empty or begin too late, and commits
  are in no notes. `EveryCommitDescribed` excepts a release for which the tags are
  out of step (`InStep`) with what was packaged, `NeverBackwards` all images.
* A text of the operator's comes before any other (action.go:853). A version that was
  packaged and not submitted, dispatched again with such a text, loses the notes it
  had, and its commits are in no others. The text also keeps an empty range from being
  looked at, so that a Git source that went back to an earlier commit is packaged. With
  no notes configured (action.go:857) it is packaged too. `EveryCommitDescribed`,
  `OneTextPerVersion` and `NeverBackwards` name these cases and no other.
* One name the rule cannot rank fails the whole lookup, whatever releases there are
  (select.go:203 and 221). `QuietLookupSucceeds` says that nothing else does while
  nothing moves, and that such a name is never passed over to select another.
* A `staging_image` of a prepared image is accepted by `config.Load` and not used:
  only `deliverSourceImageSet` stages images. `CoordinatedAsConfigured` is about
  coordinated sets.
* Command preparation with image bindings and without `output_image` is accepted,
  and refused after the command ran (action.go:990), although the configuration
  reference calls it valid; it is one of the cases of `Unvalidated`, with which
  `AcceptedRuns` names everything `Load` does not look at. Of an OCI source these are
  an order by creation time or one that does not exist, the channel nightly or one
  that does not exist, and the channel custom without a filter.
* A failed build of the version 1 check rolls package.yml back and not the
  manifest. In a tree that is kept, the next run finds the new digest in place and
  makes no version of it. `SameVersionSameDigest` and `BaselineIsDelivered` are
  about trees that are not kept, as in the workflow.
* A mirror is named by its tag, which was compared when the image was delivered and
  may move at once, as `MoveTag` lets it; `LockIsDelivered` speaks of the other modes.
* A review can be overlooked when a newer one was removed while the list was read
  (`OverlookedByRemoval`), and then the next run looks again.
* Two Git tags of one version, as v1.2.0 and 1.2.0, are in the order of a map's
  iteration; `RepeatedLookupAgrees` asks the same version of them, not the same tag.

### Bounds

Pipeline: two sources are enough for one to replace the other and come back;
`pipeline_manual` and `pipeline_moved_tag` have three, since they are about two
revisions of one release with another in between. Two recipes (in
`pipeline_failures`) let fingerprints differ for one source. Base versions are
chosen so that one source suggests a newer version, one none and one an old one.
`Budget` bounds the number of pushes by developers, failures, retries, manual
submissions and reruns in a behaviour; upstream and reviewers are not bounded. The
history cannot grow further than sources and retries allow, so that these bounds
make the state space finite. What they leave out is two failures or two retries in
one behaviour; the theorems of section 4 have no bounds.

`publish` has three attempts, so that there is one between the first and the last,
and three lookups, the default of the code. The package has version 2; what the
developer submits by hand is older, equal or newer, at most three times while the
publication runs, so that a review can start to wait in every attempt. Both kinds
of credentials are initial states, since they take different paths.

`checkout` has three images, one for each way to a delivery, two tags, two digests,
one move of a tag in any place (upstream, proxy, staging repository or mirror) and
three runs: one that packages, one that fails, and one that
starts from what it left. A prepared image (`Coordinated` false) is covered by the
proofs. `imagecheck` has two images, so that one is looked up before the one that
makes the version, two or three runs and one or two moves.

`release` has four jobs of one version (two of one commit and package, one that
packaged it differently, one of another commit) and three lost requests;
`ReviewLookup` pages of two, six reviews and one removal, so that a match can be on
the first, a middle and the last page; `Changelog` four commits, three versions, notes of
at most two commits, and one rewind, deletion or new configuration, which may begin or
stop to ask for notes; any run may be dispatched with a text.

`selection` has every combination of the settings that are validated together, in
four families; `Discovery` four names (two forms of one version, a prerelease that
is newer, and one that maps to none), three builds, two lookups and one move
upstream; rules of each kind and channel, and some that misread a name, one that is
passed over otherwise or two that rank highest; pages of two and at most three tags put the limit within reach.
`NumericVersions` has up to three components (`MaxParts`) of up to two (`MaxDigits`)
ternary (`Base`) digits, and
`AppVersion` components up to 1 (`Largest`) with two prereleases: the end of
64 bits is the end of one bit.

Deadlock is checked in the runs of the pipeline: a run can always start, go on or
fail. In the others everything comes to an end (a publication, a lookup, the
bounded number of runs), and they say `CHECK_DEADLOCK FALSE`.

### Fairness

In `pipeline_live`, `FairSpec` is weak fairness of the schedule, which starts a run
without `retry-rejected` again and again (the adapter's cron trigger); of a run's
own steps, which have timeouts and end in success or failure; and of reviewers, who
decide about what waits. Operators, developers, upstream and failures are under no
fairness, and failures are bounded by the budget: with a failure in every run
nothing is ever recorded. The run has `continue_if_newer_version` off. With it on,
the gate lets the run pass and the candidate covered by a waiting review is kept,
which the other two runs cover for safety.

In `publish`, it is weak fairness of the publisher alone: the HTTP client has a
timeout of 30 seconds, the waits are bounded, and an answer that is never given is
`unavailable`. In `release`, it is weak fairness of each job's next request, for the
same reason, and of starting it again when it failed, which is what `RerunsComplete`
is about; requests are lost a bounded number of times. Nothing is assumed of the
answers.

## 4. Proofs

The proofs are for all values of the constants: any number of sources, images,
jobs, attempts, failures and moves. Their assumptions are the `ASSUME`s of the
modules, which TLC evaluates in the runs.

### The pipeline

`TypeCorrect`: every behaviour keeps `TypeOK`. It is not inductive alone: a
submission needs a lock with a source, or it would write a record of no source.
`TypeInv` adds that a tree has a source exactly when its lock has a status, that a
run at the submission has a packaged lock, and that packaged commits waiting to be
submitted again have a source.

On it rest two inductive invariants, each with a module.

**What holds in every configuration** (`HistoryInvariant`), whatever the store
lets the run read, with reruns, developers and manual submissions. `HistoryInv`
says of every tree, whether it is on the branch, in the checkout or in a packaged
commit that can be submitted again (`TreeInv`):

1. Versions only grow: package.yml is ahead of the lock and of every record, and
   records are in the order of their versions (`VersionIsNewest`,
   `RecordsIncrease`). A package that was not submitted is of the version of no
   record (`PackagedIsUnrecorded`).
2. `RecordReview` overwrites a record with the same id or the same version and
   fingerprint. By 1, the record of a new package overwrites none and is appended:
   what was recorded stays recorded (lemma `RecordSubmission`).
3. A record with an id is of a review of the pipeline with its version and hash,
   and agrees with it once it is settled (`RecordTrue`). `FindReview` looks for
   version and hash, and a hash names one package among all trees, packaged commits
   and reviews (`HashesNamePackages`), because a build makes a new one.
4. A checkout that can still be pushed continues the history of the branch
   (`Continues`): a push from an old head is refused.

`RecordsAreTruthful` follows from 3 and 1, `HistoryIsPreserved` from 4.
`KeptSourcesAreSubmitted` is the safety half of `NewestSourceHandled`, and what keeps
a granted retry from being lost: a submitted lock has its record when the check
decides, and a packaged one has none of its version, so that it can be resumed.
`SeenReviewIsReplacedByNewer` needs that nothing the guard saw is decided
differently afterwards (`GuardInv`): reviews are only appended, and one that is
settled never waits again. `NumericReleasesDoIncrease` is for adapters with a
numeric order (its hypothesis `Numeric`). Its invariant orders sources: the branch
is ahead of everything that was submitted or packaged, and a checkout of its head
is ahead of the branch (`NumericInv`), since `RefuseSource` compares with the lock.

**What a readable list of reviews makes true** (`RecoveryInvariant`). With a
developer PAT (`Lookup`) and without reruns of a single submission job,
`SubmissionRecoverable` holds in every behaviour, for all sources, recipes,
settings and numbers of failures. Both hypotheses are needed: `pipeline_session`
and `pipeline_rerun` are what happens without them. `RecoveryInv` adds to
`HistoryInv`:

1. A review that has no record is of the package that the lock describes
   (`AllCovered`): the lock with that package was pushed before the review could
   exist (`RunInv`), and what the submission job checks out is that lock.
2. Such a review is found by version and hash in the next run's reconciliation, at
   the latest; a lock that is not found in the list has no review. When the check
   decides, every review has a record (`AllRecorded`), and only then may a new
   package replace the lock.
3. A lock from before the history has its record after the migration
   (`SubmittedIsRecorded`, lemma `MigrationRecords`).

`Recoverable` follows at once. The other theorems of the module need `LedgerInv`:
reviews are submitted in the order of their versions, because the version of a
new package is above every record and every review has one by then (`Ordered`);
and a package that was not submitted is of a source that has no review, or whose
last review was rejected and may be retried (`Entitled`), because the check
decided that from a complete history whose records agree with the store. Hence `VersionsDoIncrease` and
`ResubmissionsAreGranted`.

`LedgerIsImplemented` is the refinement: the initial states of `SourcePipeline`
are initial states of `SubmissionLedger`, a submission is its `Submit`, a rejection
its `Reject`, a granted retry its `Grant`, and every other step leaves the three
sets as they are.

The proofs have a lemma per action; those for the store and for the reconciliation
are shared. TLC checks `RecoveryInv` as an invariant in `pipeline_live`.

### The publication

`AcceptedOnce` is the refinement: every behaviour of `OfficialPublish` is one of
`Publication`, for all settings, versions and numbers of attempts. The other
theorems are the safety properties of the run. They rest on `PublishInv`:

1. While the publication runs, the store has no review of it (`AcceptanceIsLast`).
   A submission that may have had its effect ends the publication, because only a
   throttled one is repeated and a throttled one had none (lemma `SubmitEffect`).
   This is the whole argument for `AcceptedOnce`.
2. `causes.transient` is the number of attempts that ended in a transient answer,
   and equals the attempts before the current one (`AttemptsCounted`); hence
   `FailsWithCause`.
3. What the attempt created becomes `created` when it ends (`CreationKnown`);
   hence `ReportsCreation`.
4. The store never loses an application's information. If it lacks it at the
   submission, it lacked it when the attempt read it and when the loop was
   prepared, so that it was prepared and is sent (`InfosReady`); hence
   `SubmitsInformation`.
5. Past the guard, a review that may not be replaced is younger than the attempt
   (`GuardPassed`); hence `ReplacesOnlyNewer`. A review submitted after the look
   can be replaced: that is the finding of `pipeline_race`.

`RequestsDoRunOut` is the safety half of `PublicationEnds`: `StepsLeft` is a natural
number that every step of the publisher lowers, since attempts are counted and at
most `MaxAttempts` (2), and a lookup has at most `MaxLookups`. It bounds the requests
of a publication without any fairness; that the next one is made is what `FairSpec`
adds. No run lists `RequestsRunOut`, nor `RerunsRunOut` below: the runs check the
liveness, the theorems the measure.

Steps of the store and the developer are treated once (`OthersEffect`,
`AcceptEffect`, `SettleEffect`), and so are the ends of an attempt and of a
publication (`FailsEffect`, `EndsEffect`).

### The checkout

All properties of `checkout` are proved, from `CheckoutInv`, for any set of images
in any mode, coordinated or prepared, and any number of runs:

1. What the tree is at each step (`TreeInv`): before the edit it is what the run
   found, from the edit on the manifest is the plan, from `SetVersion` on the
   version is the target, and from the build on the LPK is made of both. With the
   step that failed, this gives `FailuresRestore` and `PackagedTreesAgree`.
2. What was looked up is what is delivered (`WorkInv`): the reference an image is
   delivered from is pinned to the digest that was found, and `Deliver` keeps the
   pin in every mode but mirror (lemma `DeliveredPinned`), however tags move
   meanwhile. At `WriteLock` this is `LockIsDelivered`.
3. Every image of a coordinated set had an entry before, so that a rollback
   restores the whole set and the manifest is the old set or the new one
   (`ImageSetsAreWhole`), also when a rollback fails, or the run is killed.
4. The version never falls below the lock's, and the target is above it unless the
   source is the lock's (`VersionInv`), hence `PackagedVersionsGrow`. A failed run
   may leave its version behind; the next one starts from there.

### The version 1 image check

The four properties of `imagecheck` are proved for any number of images in any
modes, any tags and digests, any family of projects and any number of runs and
moves. `CheckInv` is inductive:

1. Each image is in the queue once and has no update before its turn (`RunInv`);
   with a review waiting, the driver is in front (lemma `StartQueue`), so that a
   pause comes before any copy. What the gate let pass is a plan for the digest
   that was looked up; the delivery follows that plan or is refused, so that the
   version is the planned one, above the review (`GateInv`). Hence
   `ReviewsAreGated`.
2. An entry is fixed (`FixedTo`) when it says what the tag and digest upstream
   serves make of the image. A delivery finds nothing to write exactly when the
   entry was fixed for what was looked up, and what it writes is fixed (lemmas
   `MutableDelivery`, `PlainDelivery`, the cases of `Resolver.Deliver`). A full
   check therefore leaves a tree that is fixed, and one that starts from such a
   tree while nothing moves finds nothing (`SettleInv`,
   `RepeatedChecksFindNothing`).

The other two are about the digest of the driver in projects with
`version_source.bump: patch` whose trees are not kept (`DriverInv`): the committed
runtime reference has the digest of the upstream comment (`Agrees`), an update
writes both with one digest, and a digest that differs comes with a new version.
Hence `BaselinesAreDelivered` and, since every package that was released has at
most the committed version, `VersionsKeepTheirDigest`. They have a hypothesis,
`EntriesAgree`: the Manifests that are committed at first already agree with their
comments, or have no comment with a digest. The code makes such entries and
never compares the two digests, so that it believes a comment that was edited by
hand to another digest than the image's. TLC evaluates `EntriesAgree` for the projects of the
run.

### The release jobs

`ReleaseInv` adds to the properties what a job has passed (`Passed`): after
`getRef` its tag names its commit, and after the release steps its version has a
release. Nobody takes these away, because a tag, a release or an asset is only
created where there is none. `PublishedForGood` and `AssetsMatchTags` follow.

`RerunsDoRunOut` is the safety half of `RerunsComplete`. A failed job begins again, so
that its place in the program is no measure of what is left; what is not published
yet (`Missing`) is. A job fails without a lost request and without a conflict only when
another published what it was about to create (`Late`), and then less is missing.
Six steps for each missing thing and each request that can be lost, and the place of
the job, add up to `StepsLeft`, which its own steps lower and no other step raises
(lemma `NothingTaken`).

### The paged lookup

`LookupsAreSound` is for any number of reviews, removals and pages of any size.
`LookupInv` says that the list stays newest first, and of the reviews looked for
that are on a page already read that a newer one was removed. A new review moves
the others to later pages and is none that the lookup is about (`SubmitKeeps`). A
removal moves up only what is behind the removed review, and that is older
(`WithdrawKeeps`). When a page has a match, no earlier place has one, so that the
first of the page is the newest; when the last page has none, every place has been
read (`ReadPageKeeps`).

### The notes

`NotesAreCorrect` and `NeverGoesBack` are for any history of commits, merges, tags,
rewinds and deletions, and notes of any length. `Ancestors` of a commit is the least
set with it that is closed under parents; it does not change when commits are added
(lemma `HistoryGrows`), so that what notes describe is not undone by what upstream
does between the making of the notes and the build.

The invariant `ChangelogInv` adds to `EveryCommitDescribed` and `OneTextPerVersion`
what a run has reached: its version is still the next one (`RunContinues`), and its
notes with what they omit cover the commits the candidate has and the packaged
revision lacks (`NotesDescribe`); `omitted` collects, beside `described`, what texts
leave out beyond their limit, for the operator, for want of a configuration, or for an
image out of step. Otherwise generated notes begin after the packaged revision, so
that ranges follow each other without a gap (`RangeIs`, `PackageNotesKeeps`), and
they do so after a text of the operator's too. A candidate the packaged revision came
from has an empty range, which `GenerateNotes` refuses, and has not the inputs of the
lock: that is `NeverGoesBack`. A version that is packaged again is that of the lock,
for the same inputs, and keeps the text the lock has unless the operator gives
another (`TextsKept`); any other version is above those there were.

### The configurations

The three properties of `Settings` hold for every configuration, not only those of
the families TLC runs through. The invariant is that past `Load` the configuration
is accepted and has its defaults, and what has been delivered so far follows the
images in their order; each property is then a comparison of two validations, the
one of `Load` and the one where the setting is used, once for every step.

### The lookup of a release

Both properties of `Discovery` are proved for any names, builds, rules, page sizes
and limits, and any number of lookups and moves upstream.

`HighestIsSelected` rests on `LookupInv`: the names that were there all the time
(`Steady`) are still to be inspected, or were inspected (`SteadyKept`), and an
update time that was read is true of a name that did not move (`TimesTrue`). What a
lookup chooses is first in the order of candidates, all of which it compared
(lemma `ChoosesKeeps`).

`LookupsDoAgree` rests on `QuietInv`, which is about lookups during which nothing
moves (`touched` is empty). What was read is what there is (`ReadTrue`): names that
wait exist, map to a version and have their own update time. The names of a page
are those of its places, places are the numbers 0 to n - 1 with one name each since
no two pushes have the same time (`TimesDiffer`, lemma `PlacesAre`), so that the
last page ends with the last name (`LastPage`) and no wanted name is missing when
the pages end. A lookup is refused only when no name is allowed by the rule, or the
rule cannot rank one of the names it considers: all of them, or for an order by
creation time those that were inspected and have an image for the platform
(`Considered`). That is decided on the names there are, before one is chosen. What it
chooses is one of `Answers`, which depends on upstream and the rule alone, and the
order of candidates leaves one answer (`OneAnswer`), or one version for Git tags
that are not mapped.

### The version of the application

`PackagedVersionsDoGrow` and `RefusedAtTheEnd` hold for components of any size and
any number of prereleases. package.yml is never behind the lock (`VersionInv`): a
failed build leaves a version behind that is ahead, and a source whose fingerprint
is in the lock has the version of the lock, unless its rejected review is retried:
then it is above package.yml (lemma `RetriedVersion`). The order of versions by their
components is that of `Rank` (lemma `RankOrder`), and `BumpPatch` answers the next
in that order or refuses.

### The comparison of numbers

`VersionsAreCorrect` is for digits of any base, components of any number of digits and
versions of any number of components. `CompareNumericVersions` looks at strings;
`Value` is a recursive function of their first n digits.

1. What is greater after n digits stays greater, whatever digits follow, and what is
   equal stays equal while the digits are the same (`StaysGreater`, `StaysEqual`).
   Leading zeros do not count (`Trimmed`).
2. Of two components without leading zeros the one with more digits is greater
   (`LongerIsGreater`), and of two of the same length the one whose first different
   digit is (`ComparesDigits`). That is `CompareComponents` (`ComparesComponents`).
3. Two versions are in the order of the first components with different values, where
   a missing component is 0 (`ComparesVersions`), and so are they the other way round
   (`ReferenceOpposite`). Normalising trims zeros, which changes no value
   (`Normalizes`).

Each fact about all numbers of digits in 1 is proved by the least number for which it
would be false: it is not 0, and what holds of the number before it makes it true. Such
a least number exists since the naturals are well founded (`LeastNumber`).

### What is only model-checked

`NewestSourceHandled`, `PublicationEnds` and `RerunsComplete`: liveness under fairness,
for which the prover would have to know when an action is enabled. What can be said of
them without fairness is proved
(`KeptSourcesAreSubmitted`, `RequestsDoRunOut`, `RerunsDoRunOut`). The runs with
`expect` violation are counterexamples, and show that `Lookup` and the absence of
reruns cannot be left out of the theorems of `SourcePipelineRecovery`.

The type invariants and the inductive invariants of `SourcePipeline`,
`OfficialPublish`, `Checkout`, `ImageCheck`, `ReviewLookup`, `ReleasePublish`,
`Changelog`, `Discovery` and `AppVersion` are proved; of these only `RecoveryInv` is
also an invariant of a run. Those of the other modules are part of the properties of
the runs.

## 5. Not modelled, and what is left

* Configuration: paths, toolchains, locales, application metadata, and the bounds
  of retries and tag numbers are compared with constants where they are loaded.
* The text of manifests, package files, notes and diagnostics (layout); regular
  expressions and templates (a mapping of names to versions, or good and bad).
* In `Changelog`, the retry of a rejected review, which packages the same inputs under
  another version with the text the lock has; notes a command or a GitHub release
  gives. In `AppVersion`, sources and trees whose version cannot be parsed: the run
  fails before anything is changed.
* In `SourcePipeline`, reviews the store lists without channel, package or hash, which
  `FindReview` takes for a match (review.go:120-122), and the time window around the
  submission or the packaging that it asks for (review.go:82-93). The version a processed source has in its record
  (action.go:799-806), which is compared with the waiting review's and packaged by no
  run, is merged with that of a new one.
* GitHub can list an asset of an upload that broke off as half uploaded; the
  release model has complete assets only.
* A store that accepts a submission after the client has given up, and later than
  the next run's lookup: in the models an accepted review exists when the request
  ends, however the client learns of it.
* A force-pushed Git revision that no branch reaches any more: the clone lacks it
  and the run fails, again and again; no property promises a recovery.
* Builds of a tag event and dry runs of version 2, which leave nothing behind;
  publication in the same process as the check, which has the steps of
  `SourcePipeline` without its pushes.
* Authentication (a token per kind of credentials), the command line and its
  outputs, package checks (stateless inspection of files) and support packages.
* Runs that wait in the concurrency group and start from the commit they were
  triggered at: such a run cannot push, and so cannot submit, which is why
  `SourcePipeline` starts runs from the head.

Every safety property of the passing runs has a theorem.
