----------------------------- MODULE ImageCheck -----------------------------
(***************************************************************************)
(* The image check of version 1 configurations: runCheck with              *)
(* imageflow.Flow.Check, for a project whose application version follows   *)
(* one of its images.                                                      *)
(*                                                                         *)
(* A run looks the images up one after the other, delivers each of them,   *)
(* edits the Manifest once, sets the version and builds the LPK.  Upstream *)
(* publishes new tags and moves old ones between any two steps, every step *)
(* may fail, and with an official review waiting the run pauses unless it  *)
(* makes a newer version.  In GitHub Actions a run starts from the         *)
(* committed tree and commits what it made; the command line keeps the     *)
(* tree, also the one a failed run leaves.                                 *)
(*                                                                         *)
(* An operator whose comment begins with "Bug:" is the definition after    *)
(* it with a mistake that a property notices.                              *)
(***************************************************************************)
EXTENDS Naturals, Sequences, ImageDelivery

CONSTANTS
  Last,      \* number of images; they are 1 .. Last, in configured order
  Driver,    \* version_source.image
  TagVersion,\* application version of a tag
  Projects   \* configurations by their names, with the Manifests there may be at first

Images == 1 .. Last

Modes == {"direct", "mirror", "lazycat"}

\* patch: version_source.bump is patch, the image is mutable.  match:
\* require_digest_match.  sorted: images selected by a time.  unnamed: mirrored
\* images whose source is not configured.  publishes: update.strategy is
\* publish.  keeps: the tree is kept between runs.  reviews: versions that may
\* be waiting for review, 0 for none.  runs and moves bound the number of runs
\* and of what upstream does.
Project ==
  [patch: BOOLEAN, mode: [Images -> Modes], match: [Images -> BOOLEAN],
   sorted: SUBSET Images, unnamed: SUBSET Images, downgrade: BOOLEAN,
   publishes: BOOLEAN, keeps: BOOLEAN, entries: SUBSET Entry,
   reviews: SUBSET Nat, runs: Nat, moves: Nat]

ASSUME ImageCheckAssumption ==
  /\ Last \in Nat \ {0} /\ Driver \in Images /\ TagVersion \in [Tags -> Nat]
  /\ NoDigest \notin Digests /\ NoRef \notin Reference
  /\ \A name \in DOMAIN Projects :
       LET p == Projects[name]
       IN /\ p \in Project
          /\ \A i \in p.unnamed : p.mode[i] = "mirror"
          /\ p.patch /\ p.mode[Driver] = "mirror" => p.match[Driver]

VARIABLES
  project,   \* the configuration's name
  served,    \* what the registries serve, for each image
  newest,    \* the tag the rule of each image selects
  head,      \* the committed Manifest and version
  manifest, version,   \* the working tree
  pc, dryRun, review,  \* next step of the run, its mode, the waiting version
  before,    \* the version it found
  queue,     \* images still to be looked up
  found,     \* tag and digest of the image that was looked up
  planned,   \* plannedDigestChanged, for the image that was looked up
  updates,   \* entries to be written
  copied,    \* images the run has copied to the registry of the store
  changed,   \* the run has something to package
  target,    \* the version it makes
  full,      \* it looks at every image
  released,  \* versions that were committed, each with the driver's digest
  settled,   \* a full check has left the tree, and nothing has moved since
  repeated,  \* the run started from a settled tree
  moved,     \* something has moved since the run started
  runs, moves

tree == <<manifest, version>>
job  == <<dryRun, review, before, full, repeated>>
work == <<queue, found, planned, updates, copied, changed, target>>
env  == <<served, newest, moves>>
hist == <<head, released, settled>>
vars == <<project, env, hist, tree, pc, job, work, moved, runs>>

Mode      == Projects[project].mode
Match     == Projects[project].match
Patch     == Projects[project].patch
Publishes == Projects[project].publishes
Keeps     == Projects[project].keeps

Running == {"select", "deliver", "apply", "version", "build", "result"}
NoUpdates == [i \in {} |-> 0]

Init ==
  /\ project \in DOMAIN Projects
  /\ \E old \in Digests : served = [i \in Images |-> [p \in Places |-> [t \in Tags |-> old]]]
  /\ newest \in [Images -> Tags]
  /\ manifest \in [Images -> Projects[project].entries] /\ version = 1
  /\ head = [manifest |-> manifest, version |-> version]
  /\ pc = "idle" /\ dryRun = FALSE /\ review = 0 /\ before = version /\ full = FALSE
  /\ queue = <<>> /\ found = [tag |-> newest[Driver], digest |-> NoDigest] /\ planned = FALSE
  /\ updates = NoUpdates /\ copied = {} /\ changed = FALSE /\ target = version
  /\ released = {} /\ settled = FALSE /\ repeated = FALSE /\ moved = FALSE
  /\ runs = 0 /\ moves = 0

---------------------------------------------------------------------------
\* Bug: the images are looked up in the configured order.
PrioritizedNone(images, waiting) == images

\* With a review waiting, the image that makes the version comes first.
Prioritized(images, waiting) ==
  LET at == CHOOSE k \in DOMAIN images : images[k] = Driver
  IN IF waiting # 0
     THEN <<Driver>> \o SubSeq(images, 1, at - 1) \o SubSeq(images, at + 1, Len(images))
     ELSE images

\* Only a scheduled or manual check that publishes asks for a waiting review
\* (waiting = 0: there is none), and it must look at the driver.
StartCheck(images, dry, waiting) ==
  /\ pc \notin Running /\ runs < Projects[project].runs
  /\ dry \/ ~Publishes => waiting = 0
  /\ Publishes => Driver \in {images[k] : k \in DOMAIN images}
  /\ \A k \in DOMAIN images :
       images[k] \in Projects[project].unnamed =>
         manifest[images[k]].upstream # NoRef
           \/ (manifest[images[k]].runtime # NoRef /\ manifest[images[k]].runtime.at = "mirror")
  /\ runs' = runs + 1 /\ pc' = "select" /\ dryRun' = dry /\ review' = waiting
  /\ before' = version
  /\ full' = (Len(images) = Last) /\ repeated' = (settled /\ ~dry) /\ moved' = FALSE
  /\ queue' = Prioritized(images, waiting) /\ planned' = FALSE
  /\ updates' = NoUpdates /\ copied' = {} /\ changed' = FALSE /\ target' = version
  /\ UNCHANGED <<project, env, hist, tree, found>>

\* A step fails.  The runner's tree is thrown away, the developer's stays.
Stops(outcome, left) ==
  /\ pc' = outcome
  /\ manifest' = IF Keeps THEN left.manifest ELSE head.manifest
  /\ version' = IF Keeps THEN left.version ELSE head.version
  /\ settled' = FALSE
  /\ UNCHANGED <<env, head, released, work, moved>>

Fails == Stops("failed", [manifest |-> manifest, version |-> version])

---------------------------------------------------------------------------
Mutable(i) == Patch /\ i = Driver

\* What the review gate expects of the driver; there is no expectation when
\* the digest of a mutable image is not known.
Plans(digest, tag) ==
  LET baseline == DigestOf(manifest[Driver].upstream)
  IN CASE ~Patch -> {[change |-> FALSE, version |-> TagVersion[tag]]}
       [] Patch /\ baseline # NoDigest ->
            {[change |-> baseline # digest,
              version |-> IF baseline # digest THEN version + 1 ELSE version]}
       [] Patch /\ baseline = NoDigest ->
            {[change |-> FALSE, version |-> version] : x \in
               {m \in {Mode[Driver]} : m = "lazycat" /\ ~InStore(manifest[Driver].runtime)}}

\* The version of an image that is not mutable may not go back.
Downgrades(i, tag) ==
  i = Driver /\ ~Patch /\ ~Projects[project].downgrade /\ TagVersion[tag] < version

Select ==
  LET i      == Head(queue)
      tag    == newest[i]
      digest == served[i]["source"][tag]
      gated  == review # 0 /\ i = Driver
  IN /\ pc = "select"
     /\ \/ Fails
        \/ /\ gated /\ \E plan \in Plans(digest, tag) : plan.version <= review
           /\ Stops("paused", [manifest |-> manifest, version |-> version])
        \/ /\ gated => \E plan \in Plans(digest, tag) :
                         plan.version > review /\ planned' = plan.change
           /\ ~gated => planned' = FALSE
           /\ ~Downgrades(i, tag)
           /\ found' = [tag |-> tag, digest |-> digest] /\ pc' = "deliver"
           /\ UNCHANGED <<env, hist, tree, queue, updates, copied, changed, target, moved>>
     /\ UNCHANGED <<project, job, runs>>

---------------------------------------------------------------------------
SourceRef == [at |-> "source", tag |-> found.tag, pin |-> NoDigest]

Request(i) ==
  [mode |-> Mode[i], match |-> Match[i], ref |-> SourceRef, digest |-> found.digest,
   current |-> manifest[i].runtime,
   baseline |-> IF Mutable(i) THEN DigestOf(manifest[i].upstream) ELSE NoDigest,
   mutable |-> Mutable(i), dryRun |-> dryRun]

\* An image the store serves already is delivered again only when its source
\* changed, or when it may have changed under the same tag.
MustDeliver(i) ==
  \/ Mutable(i) \/ Mode[i] # "lazycat" \/ i \in Projects[project].sorted
  \/ manifest[i].upstream # SourceRef \/ ~InStore(manifest[i].runtime)

NeedsUpdate(i, result) ==
  CASE Mutable(i) -> result.changed \/ result.moved
    [] ~Mutable(i) /\ Mode[i] = "lazycat" /\ dryRun -> MustDeliver(i)
    [] ~Mutable(i) /\ (Mode[i] # "lazycat" \/ ~dryRun) ->
         manifest[i].upstream # SourceRef \/ manifest[i].runtime # result.runtime

\* Bug: the digest is kept for every image.
UpstreamPinned(i) == Pinned(SourceRef, found.digest)

Upstream(i) == IF Mutable(i) THEN Pinned(SourceRef, found.digest) ELSE SourceRef

\* Bug: a new digest of a mutable image does not make a version.
DriverVersionKept(result) == IF Patch THEN version ELSE TagVersion[found.tag]

DriverVersion(result) ==
  CASE ~Patch                      -> TagVersion[found.tag]
    [] Patch /\ result.changed     -> version + 1
    [] Patch /\ ~result.changed    -> version

\* The review gate let the run pass for the digest it had seen.
PlanFollowed(i, result) == Mutable(i) /\ review # 0 => result.changed = planned

DeliverImage ==
  LET i       == Head(queue)
      results == IF MustDeliver(i)
                 THEN Deliver(Request(i), served[i])
                 ELSE {Result(manifest[i].runtime, NoDigest, FALSE, FALSE)}
  IN /\ pc = "deliver"
     /\ \/ Fails
        \/ \E result \in results :
             LET runtime == IF result.runtime = NoRef THEN manifest[i].runtime ELSE result.runtime
                 needed  == NeedsUpdate(i, [result EXCEPT !.runtime = runtime])
             IN /\ PlanFollowed(i, result)
                /\ needed /\ ~dryRun => runtime # NoRef
                /\ copied' = IF Mode[i] = "lazycat" /\ ~dryRun /\ MustDeliver(i)
                                  /\ (Mutable(i) => result.moved)
                             THEN copied \cup {i} ELSE copied
                /\ changed' = (changed \/ needed)
                /\ updates' = IF needed /\ ~dryRun
                              THEN [j \in DOMAIN updates \cup {i} |->
                                      IF j = i THEN [runtime |-> runtime, upstream |-> Upstream(i)]
                                               ELSE updates[j]]
                              ELSE updates
                /\ target' = IF i = Driver THEN DriverVersion(result) ELSE target
                /\ queue' = Tail(queue) /\ planned' = FALSE
                /\ pc' = IF Len(queue) = 1 THEN "apply" ELSE "select"
                /\ UNCHANGED <<env, hist, tree, found, moved>>
     /\ UNCHANGED <<project, job, runs>>

\* There is something to package.
Packages == ~dryRun /\ (changed \/ target # before)

\* Nothing is written when nothing changed, and in a dry run.
ApplyUpdates ==
  LET edited == Apply(manifest, updates)
  IN /\ pc = "apply"
     /\ \/ Fails
        \/ edited # manifest /\ Stops("failed", [manifest |-> edited, version |-> version])
        \/ /\ manifest' = edited
           /\ pc' = IF Packages THEN "version" ELSE "result"
           /\ UNCHANGED <<env, hist, version, work, moved>>
     /\ UNCHANGED <<project, job, runs>>

\* A version that could not be set leaves the edited Manifest behind.
SetVersion ==
  /\ pc = "version"
  /\ \/ Fails
     \/ version' = target /\ pc' = "build" /\ UNCHANGED <<env, hist, manifest, work, moved>>
  /\ UNCHANGED <<project, job, runs>>

\* A failed build takes the version back, and not the Manifest.  An error of
\* that rollback is ignored.
Build ==
  /\ pc = "build"
  /\ \/ \E back \in {before, version} :
          Stops("failed", [manifest |-> manifest, version |-> back])
     \/ pc' = "result" /\ UNCHANGED <<env, hist, tree, work, moved>>
  /\ UNCHANGED <<project, job, runs>>

\* The result is written, and the workflow commits the tree.  A pull request
\* may also be closed, or still be open when the next run starts.
WriteResult ==
  LET made == [manifest |-> manifest, version |-> version]
  IN /\ pc = "result"
     /\ \/ Fails
        \/ /\ pc' = "done" /\ head' = made
           /\ released' = IF Packages THEN released \cup
                            {[version |-> version, digest |-> DigestOf(manifest[Driver].runtime)]}
                          ELSE released
           /\ settled' = (~moved /\ (settled \/ (full /\ ~dryRun)))
           /\ UNCHANGED <<env, tree, work, moved>>
        \/ ~Publishes /\ ~Keeps /\ made # head /\ Stops("closed", head)
     /\ UNCHANGED <<project, job, runs>>

Moves ==
  /\ moves < Projects[project].moves /\ moves' = moves + 1 /\ moved' = TRUE /\ settled' = FALSE
  /\ UNCHANGED <<project, head, released, tree, pc, job, work, runs>>

\* A tag of a registry moves.
MoveTag(i, place, tag, digest) ==
  /\ Moves
  /\ served' = [served EXCEPT ![i][place][tag] = digest] /\ UNCHANGED newest

\* Upstream publishes a tag, or withdraws one.
MoveNewest(i, tag) ==
  /\ Moves
  /\ newest' = [newest EXCEPT ![i] = tag] /\ UNCHANGED served

Selections == {[k \in Images |-> k]} \cup {<<i>> : i \in Images}

Next ==
  \/ \E images \in Selections, dry \in BOOLEAN, waiting \in Projects[project].reviews : StartCheck(images, dry, waiting)
  \/ Select \/ DeliverImage \/ ApplyUpdates \/ SetVersion \/ Build \/ WriteResult
  \/ \E i \in Images, place \in {"source", "mirror"}, tag \in Tags, d \in Digests : MoveTag(i, place, tag, d)
  \/ \E i \in Images, tag \in Tags : MoveNewest(i, tag)

Spec == Init /\ [][Next]_vars

---------------------------------------------------------------------------
TypeOK ==
  /\ project \in DOMAIN Projects
  /\ served \in [Images -> Served] /\ newest \in [Images -> Tags]
  /\ head \in [manifest: [Images -> Entry], version: Nat]
  /\ manifest \in [Images -> Entry] /\ version \in Nat
  /\ pc \in Running \cup {"idle", "failed", "paused", "closed", "done"}
  /\ {dryRun, full, planned, changed, settled, repeated, moved} \subseteq BOOLEAN
  /\ review \in Nat /\ before \in Nat /\ target \in Nat
  /\ queue \in Seq(Images) /\ Len(queue) <= Last
  /\ found \in [tag: Tags, digest: Digests \cup {NoDigest}]
  /\ DOMAIN updates \subseteq Images /\ copied \subseteq Images
  /\ \A i \in DOMAIN updates : updates[i] \in [runtime: Reference, upstream: Reference]
  /\ released \subseteq [version: Nat, digest: Digests \cup {NoDigest}]

\* A run that pauses for the waiting review has copied no image to the
\* store: the image that decides is looked up before any other is delivered.
PausedCopiesNothing == pc = "paused" => copied = {}

\* What a run makes while a review waits is newer than that review, although
\* the gate decides on the digest of the upstream comment and the delivery on
\* the digest of the runtime reference.
ReviewedIsOlder == pc = "done" /\ review # 0 => version > review

\* Both together, of a run whose state is what it should be.
ReviewGate == TypeOK /\ PausedCopiesNothing /\ ReviewedIsOlder

\* One version is never packaged with two digests of the mutable image, when
\* a failed run leaves no edited Manifest behind.
SameVersionSameDigest ==
  Patch /\ ~Keeps => \A a, b \in released :
    a.version = b.version /\ NoDigest \notin {a.digest, b.digest} => a.digest = b.digest

\* The digest that tells the next update is the digest the application runs,
\* although the tag may move between the lookup and the copy.  A tree that is
\* kept may have been edited.
BaselineIsDelivered ==
  Patch /\ ~Keeps /\ DigestOf(head.manifest[Driver].upstream) # NoDigest =>
    DigestOf(head.manifest[Driver].runtime) = DigestOf(head.manifest[Driver].upstream)

\* A full check repeated while nothing moves finds nothing to package.
RepeatedCheckFindsNothing == pc = "done" /\ repeated /\ ~moved => ~Packages

---------------------------------------------------------------------------
(* The inductive invariant, in parts.                                      *)

\* Images that are still to be looked up.
Pending == {queue[k] : k \in DOMAIN queue}

\* How far the run is, and what it knows by then.  Only a version may be left
\* behind when the build has failed and the tree is kept.
RunInv ==
  /\ pc \in {"select", "deliver"} => queue # <<>>
  /\ pc \in {"apply", "version", "build", "result"} => queue = <<>>
  /\ pc = "deliver" => found.digest \in Digests
  /\ \A j, k \in DOMAIN queue : queue[j] = queue[k] => j = k
  /\ Pending \cap DOMAIN updates = {} /\ (Driver \in Pending => target = before)
  /\ pc \in {"select", "deliver", "apply", "version"} => version = before
  /\ pc \in {"version", "build"} => Packages
  /\ pc = "build" => version = target
  /\ pc \in {"result", "done"} => version = IF Packages THEN target ELSE before
  /\ dryRun => DOMAIN updates = {}

\* A fresh checkout is the committed tree until the run edits it.
FreshInv ==
  ~Keeps =>
    /\ pc \in Running => before = head.version
    /\ pc \in {"select", "deliver", "apply"} => manifest = head.manifest
    /\ pc \in {"version", "build", "result"} => manifest = Apply(head.manifest, updates)
    /\ pc \notin Running => manifest = head.manifest /\ version = head.version

\* While a review waits, the driver is the first image to be looked up, and what
\* the gate has let pass is newer than the review.
GateInv ==
  /\ review # 0 => ~dryRun
  /\ review # 0 /\ pc \in {"select", "deliver"} =>
       \/ Head(queue) = Driver /\ copied = {}
       \/ Driver \notin Pending /\ target > review
  /\ review # 0 /\ pc = "deliver" /\ Head(queue) = Driver =>
       \E plan \in Plans(found.digest, found.tag) :
         plan.version > review /\ plan.change = planned
  /\ review # 0 /\ pc \in {"apply", "version", "build"} => target > review
  /\ review # 0 /\ pc \in {"result", "done"} => version > review
  /\ PausedCopiesNothing

\* The digest of the upstream comment is the one the application runs.  Without
\* such a digest, an image that is delivered to the store has none or is there.
AgreeIn(mode, entry) ==
  /\ DigestOf(entry.upstream) # NoDigest => DigestOf(entry.runtime) = DigestOf(entry.upstream)
  /\ mode = "lazycat" /\ DigestOf(entry.upstream) = NoDigest =>
       InStore(entry.runtime) \/ DigestOf(entry.runtime) = NoDigest

Agrees(entry) == AgreeIn(Mode[Driver], entry)

\* The Manifests that are committed at first agree in this way.
EntriesAgree ==
  \A name \in DOMAIN Projects :
    LET p == Projects[name]
    IN p.patch /\ ~p.keeps => \A entry \in p.entries : AgreeIn(p.mode[Driver], entry)

\* A digest of the driver is replaced only together with the version, so that
\* the committed digest is the one the committed version was released with.
DriverInv ==
  LET digest == DigestOf(head.manifest[Driver].runtime)
  IN Patch /\ ~Keeps =>
       /\ Agrees(head.manifest[Driver])
       /\ pc \in Running => target >= before
       /\ pc \in Running /\ Driver \in DOMAIN updates =>
            /\ Agrees(updates[Driver])
            /\ target = before /\ digest # NoDigest =>
                 DigestOf(updates[Driver].runtime) = digest
       /\ \A r \in released :
            /\ r.version <= head.version
            /\ r.version = head.version /\ r.digest # NoDigest => r.digest = digest

\* What a tag with this digest makes of an image is what its entry says.
FixedTo(i, entry, tag, digest) ==
  LET ref == [at |-> "source", tag |-> tag, pin |-> NoDigest]
  IN CASE Mutable(i) /\ Mode[i] # "lazycat" -> DigestOf(entry.runtime) = digest
       [] Mutable(i) /\ Mode[i] = "lazycat" ->
            DigestOf(entry.upstream) = digest /\ InStore(entry.runtime)
       [] ~Mutable(i) /\ Mode[i] = "direct" -> entry.upstream = ref /\ entry.runtime = ref
       [] ~Mutable(i) /\ Mode[i] = "mirror" ->
            entry.upstream = ref /\ entry.runtime = [ref EXCEPT !.at = "mirror"]
       [] ~Mutable(i) /\ Mode[i] = "lazycat" ->
            /\ entry.upstream = ref /\ InStore(entry.runtime)
            /\ i \in Projects[project].sorted => entry.runtime = Copied(ref, digest)

\* The same of what the registries serve now.
Fixed(i, entry) == FixedTo(i, entry, newest[i], served[i]["source"][newest[i]])

FixedVersion(v) == Patch \/ v = TagVersion[newest[Driver]]

\* The entry of an image as the run would leave it.
Made(i) == IF i \in DOMAIN updates THEN updates[i] ELSE manifest[i]

\* A settled tree is fixed, a full check fixes image after image, and one that
\* started from a settled tree finds nothing, unless something moves.
SettleInv ==
  /\ settled => (\A i \in Images : Fixed(i, manifest[i])) /\ FixedVersion(version)
  /\ pc \in Running /\ settled => ~moved /\ (repeated \/ dryRun)
  /\ repeated => ~dryRun
  /\ repeated /\ ~moved /\ pc \in Running \cup {"done"} =>
       settled /\ DOMAIN updates = {} /\ ~changed /\ target = before
  /\ pc = "deliver" /\ ~moved =>
       LET i == Head(queue)
       IN found.tag = newest[i] /\ found.digest = served[i]["source"][newest[i]]
  /\ full /\ ~dryRun /\ ~moved =>
       /\ pc \in {"select", "deliver", "apply"} =>
            /\ \A i \in Images \ Pending : Fixed(i, Made(i))
            /\ Driver \notin Pending => FixedVersion(target)
       /\ pc \in {"version", "build", "result"} =>
            (\A i \in Images : Fixed(i, manifest[i])) /\ FixedVersion(target)

\* What holds of every project, and what holds when EntriesAgree.
CheckInv == TypeOK /\ RunInv /\ FreshInv /\ GateInv /\ SettleInv

ReleaseInv == CheckInv /\ DriverInv /\ SameVersionSameDigest
=============================================================================
