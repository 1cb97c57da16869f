------------------------------ MODULE Checkout ------------------------------
(***************************************************************************)
(* What the packaging of a selected source does to the adapter's working   *)
(* tree: runSourceCheck from PrepareSource on, with deliverSourceImageSet, *)
(* the edits of the Manifest and of package.yml, the build of the LPK, the *)
(* lock, and the rollbacks when one of these steps fails.                  *)
(*                                                                         *)
(* A run is a sequence of steps.  Tags may move between them, any of them  *)
(* may fail, and the run may be killed between any two of them; the tree   *)
(* is what the next run starts from, as it is for the command line.  (In   *)
(* GitHub Actions the tree of a failed run is thrown away.)                *)
(*                                                                         *)
(* A source stands for a candidate with the inputs of the build, which is  *)
(* what a fingerprint identifies.  Whether a source is packaged at all is  *)
(* the subject of module SourcePipeline; here it is one that the lock does *)
(* not have or one that is packaged but not submitted.                     *)
(*                                                                         *)
(* An operator whose comment begins with "Bug:" is the definition after    *)
(* it with a mistake that a property notices.                              *)
(***************************************************************************)
EXTENDS Naturals, ImageDelivery

CONSTANTS
  Last,          \* number of runtime image bindings; they are 1 .. Last
  Sources,       \* sources that may be selected
  NoSource,      \* source of a lock that does not exist
  SourceVersion, \* application version of a source, 0 when it has none
  SourceTag,     \* tag of a source
  Coordinated,   \* build.prepare.mode is images
  Via,           \* copy, staging or plain, for each binding
  Mode,          \* delivery mode of each binding
  Match,         \* require_digest_match of each binding
  OldEntries,    \* entries the Manifest may have before the first run
  Submits,       \* update.strategy is publish
  MaxRuns,       \* bound on the number of runs
  MaxMoves       \* bound on the number of times a registry changes a tag

Images == 1 .. Last

ASSUME CheckoutAssumption ==
  /\ Last \in Nat /\ MaxRuns \in Nat /\ MaxMoves \in Nat
  /\ NoSource \notin Sources /\ NoDigest \notin Digests /\ NoRef \notin Reference
  /\ SourceVersion \in [Sources -> Nat] /\ SourceTag \in [Sources -> Tags]
  /\ Coordinated \in BOOLEAN /\ Submits \in BOOLEAN
  /\ Via \in [Images -> {"copy", "staging", "plain"}]
  /\ Mode \in [Images -> {"direct", "mirror", "lazycat"}] /\ Match \in [Images -> BOOLEAN]
  /\ \A i \in Images : Via[i] # "plain" => Mode[i] = "lazycat"
  /\ OldEntries \subseteq Entry
  /\ Coordinated \/ Last <= 1

VARIABLES
  served,    \* what the registries serve, for each image
  manifest,  \* the images of the Manifest and their upstream comments
  version,   \* the version in package.yml
  lpk,       \* the LPK at the output path: what it was built from
  lock,      \* the lock file
  pc,        \* next step of the run
  source,    \* its source
  target,    \* the application version it makes
  before,    \* Manifest and version as the run found them
  image,     \* the binding it is delivering
  digest,    \* the digest found under each source image
  from,      \* the reference each image is delivered from
  plan,      \* the Manifest entries of the images handled so far
  cause,     \* the step that made the run fail
  undone,    \* no rollback of the run failed
  runs, moves

tree == <<manifest, version, lpk, lock>>
work == <<digest, from, plan>>
job  == <<source, target, before, image>>
vars == <<served, tree, pc, job, work, cause, undone, runs, moves>>

NoEntry == [runtime |-> NoRef, upstream |-> NoRef]
LPK     == [version: Nat, images: [Images -> Entry]]
NoLPK   == [version |-> 0, images |-> [i \in Images |-> NoEntry]]
Lock    == [source: Sources \cup {NoSource}, version: Nat, lpk: LPK,
            images: [Images -> [digest: Digests \cup {NoDigest}, runtime: Reference \cup {NoRef}]]]
NoLock  == [source |-> NoSource, version |-> 0, lpk |-> NoLPK,
            images |-> [i \in Images |-> [digest |-> NoDigest, runtime |-> NoRef]]]

Running == {"prepare", "inspect", "copy", "stage", "staged", "deliver", "apply",
            "version", "build", "lock", "result"}
Causes  == {"none", "killed", "prepare", "image", "apply", "version", "build", "lock", "result"}

Init ==
  /\ \E old \in Digests : served = [i \in Images |-> [p \in Places |-> [t \in Tags |-> old]]]
  /\ manifest \in [Images -> OldEntries]
  /\ version = 1 /\ lpk = NoLPK /\ lock = NoLock
  /\ pc = "idle" /\ source = NoSource /\ target = 0 /\ image = 0
  /\ before = [manifest |-> manifest, version |-> version]
  /\ digest = [i \in Images |-> NoDigest] /\ from = [i \in Images |-> NoRef]
  /\ plan = [i \in Images |-> NoEntry]
  /\ cause = "none" /\ undone = TRUE /\ runs = 0 /\ moves = 0

\* Bug: the version the tree already has is taken for a new source.
SourceApplicationVersionEqual(s) ==
  IF lock.source = s THEN lock.version
  ELSE IF SourceVersion[s] >= version THEN SourceVersion[s] ELSE version + 1

\* A source that is packaged keeps its version, another one gets its own
\* when it is newer than the tree's and the next patch otherwise.
SourceApplicationVersion(s) ==
  CASE lock.source = s                                 -> lock.version
    [] lock.source # s /\ SourceVersion[s] > version   -> SourceVersion[s]
    [] lock.source # s /\ SourceVersion[s] <= version  -> version + 1

StartRun(s) ==
  /\ pc \notin Running /\ runs < MaxRuns
  /\ lock.source # s \/ Submits
  /\ runs' = runs + 1 /\ pc' = "prepare" /\ cause' = "none" /\ undone' = TRUE
  /\ source' = s /\ target' = SourceApplicationVersion(s) /\ image' = 1
  /\ before' = [manifest |-> manifest, version |-> version]
  /\ digest' = [i \in Images |-> NoDigest] /\ from' = [i \in Images |-> NoRef]
  /\ plan' = [i \in Images |-> NoEntry]
  /\ UNCHANGED <<served, tree, moves>>

\* A step fails before it has changed anything, and needs no rollback.
Fails(step) ==
  /\ pc' = "failed" /\ cause' = step
  /\ UNCHANGED <<served, tree, work, undone>>

Goes(step) == pc' = step /\ UNCHANGED <<cause, undone>>

Unpinned(place) == [at |-> place, tag |-> SourceTag[source], pin |-> NoDigest]

\* The prepared image is the one PrepareSource built or the one the source
\* selected by its digest; coordinated images are named by their templates.
Prepare ==
  /\ pc = "prepare"
  /\ \/ Fails("prepare")
     \/ /\ Images = {} /\ Goes("version") /\ UNCHANGED <<served, tree, work>>
     \/ /\ Images # {} /\ Goes("inspect")
        /\ \E pin \in {NoDigest} \cup (IF Coordinated THEN {} ELSE Digests) :
             from' = [i \in Images |-> [Unpinned("source") EXCEPT !.pin = pin]]
        /\ UNCHANGED <<served, tree, digest, plan>>
  /\ UNCHANGED <<job, runs, moves>>

\* The source image is looked up and pinned to what it serves now.
Inspect ==
  /\ pc = "inspect"
  /\ \/ Fails("image")
     \/ LET found == Content(served[image], from[image])
            ref   == Pinned(from[image], found)
        IN /\ Coordinated => manifest[image].runtime # NoRef
           /\ digest' = [digest EXCEPT ![image] = found]
           /\ from' = [from EXCEPT ![image] = ref]
           /\ plan' = [plan EXCEPT ![image].upstream = ref]
           /\ Goes(CASE Coordinated /\ Via[image] = "copy"     -> "copy"
                     [] Coordinated /\ Via[image] = "staging"  -> "stage"
                     [] ~Coordinated \/ Via[image] = "plain"   -> "deliver")
           /\ UNCHANGED <<served, tree>>
  /\ UNCHANGED <<job, runs, moves>>

\* Bug: the other place may serve another digest.
DeliverFromAny(place) ==
  /\ from' = [from EXCEPT ![image] = Pinned(Unpinned(place), Content(served[image], Unpinned(place)))]
  /\ Goes("deliver")
  /\ UNCHANGED <<served, tree, digest, plan>>

\* The image is delivered from another place, where it was just looked up.
DeliverFrom(place) ==
  LET found == Content(served[image], Unpinned(place))
  IN /\ found = digest[image]
     /\ from' = [from EXCEPT ![image] = Pinned(Unpinned(place), found)]
     /\ Goes("deliver")
     /\ UNCHANGED <<served, tree, digest, plan>>

\* copy_source must serve the very digest of the source image.
InspectCopySource ==
  /\ pc = "copy"
  /\ Fails("image") \/ DeliverFrom("proxy")
  /\ UNCHANGED <<job, runs, moves>>

\* crane copies the pinned image to the staging repository; it may fail
\* after it has written the tag.
Stage ==
  LET staged == [served EXCEPT ![image]["staging"][SourceTag[source]] = digest[image]]
  IN /\ pc = "stage"
     /\ \/ Fails("image")
        \/ served' = staged /\ Goes("staged") /\ UNCHANGED <<tree, work>>
        \/ /\ served' = staged /\ pc' = "failed" /\ cause' = "image"
           /\ UNCHANGED <<tree, work, undone>>
     /\ UNCHANGED <<job, runs, moves>>

InspectStaged ==
  /\ pc = "staged"
  /\ Fails("image") \/ DeliverFrom("staging")
  /\ UNCHANGED <<job, runs, moves>>

Request == [mode |-> Mode[image], match |-> Match[image], ref |-> from[image], digest |-> digest[image],
            current |-> before.manifest[image].runtime, baseline |-> NoDigest,
            mutable |-> FALSE, dryRun |-> FALSE]

\* The image is delivered, and the next one is looked up.
DeliverImage ==
  /\ pc = "deliver"
  /\ \/ Fails("image") /\ UNCHANGED image
     \/ \E result \in Deliver(Request, served[image]) :
          /\ plan' = [plan EXCEPT ![image].runtime = result.runtime]
          /\ Goes(IF image < Last THEN "inspect" ELSE "apply")
          /\ image' = IF image < Last THEN image + 1 ELSE image
          /\ UNCHANGED <<served, tree, digest, from>>
  /\ UNCHANGED <<source, target, before, runs, moves>>

\* Bug: the Manifest is written for one image after the other.
ApplyOneByOne ==
  /\ pc = "apply"
  /\ \/ Fails("apply")
     \/ \E i \in Images :
          /\ manifest[i] # plan[i]
          /\ manifest' = Apply(manifest, [j \in {i} |-> plan[i]])
          /\ Goes(IF manifest' = plan THEN "version" ELSE "apply")
          /\ UNCHANGED <<served, version, lpk, lock, work>>
  /\ UNCHANGED <<job, runs, moves>>

\* The Manifest is written once for all images.  The directory may fail to
\* be synchronised after the file was replaced.
ApplyImages ==
  /\ pc = "apply"
  /\ \/ Fails("apply")
     \/ /\ manifest' = Apply(manifest, plan)
        /\ Goes("version") \/ (pc' = "failed" /\ cause' = "apply" /\ UNCHANGED undone)
        /\ UNCHANGED <<served, version, lpk, lock, work>>
  /\ UNCHANGED <<job, runs, moves>>

\* The entries a rollback writes; the upstream comment of an image that had
\* none becomes its runtime reference.
Restored ==
  [i \in Images |->
    LET old == before.manifest[i]
    IN [runtime |-> old.runtime,
        upstream |-> IF old.upstream = NoRef THEN old.runtime ELSE old.upstream]]

\* Bug: only the version is rolled back.
RollsVersionBack(step, set) ==
  /\ version' = IF set THEN before.version ELSE version
  /\ pc' = "failed" /\ cause' = step
  /\ UNCHANGED <<served, manifest, undone, lock, work>>

\* A failed step rolls the version, when the run had set it, and the images
\* back.  The errors of the rollback are ignored.
RollsBack(step, set) ==
  /\ \E versionBack, imagesBack \in BOOLEAN :
       /\ version' = IF set /\ versionBack THEN before.version ELSE version
       /\ manifest' = IF imagesBack THEN Apply(manifest, Restored) ELSE manifest
       /\ undone' = (imagesBack /\ (set => versionBack))
  /\ pc' = "failed" /\ cause' = step
  /\ UNCHANGED <<served, lock, work>>

\* Bug: the lock is written before the package is built.
WriteLockEarly ==
  /\ pc = "version"
  /\ lock' = [source |-> source, version |-> target, lpk |-> lpk,
              images |-> [i \in Images |-> [digest |-> digest[i], runtime |-> plan[i].runtime]]]
  /\ version' = target /\ Goes("result")
  /\ UNCHANGED <<served, manifest, lpk, work, job, runs, moves>>

SetVersion ==
  /\ pc = "version"
  /\ \/ RollsBack("version", FALSE) /\ UNCHANGED lpk
     \/ /\ version' = target /\ Goes("build")
        /\ UNCHANGED <<served, manifest, lpk, lock, work>>
  /\ UNCHANGED <<job, runs, moves>>

\* The project is inspected again and the LPK built beside the output path,
\* verified and renamed; the directory may fail to be synchronised then.
Build ==
  LET built == [version |-> version, images |-> manifest]
  IN /\ pc = "build"
     /\ \/ RollsBack("build", TRUE) /\ lpk' \in {lpk, built}
        \/ /\ version = target /\ lpk' = built /\ Goes("lock")
           /\ UNCHANGED <<served, manifest, version, lock, work>>
     /\ UNCHANGED <<job, runs, moves>>

\* The lock is replaced as a whole, with no step after the replacement that
\* could fail.
WriteLock ==
  /\ pc = "lock"
  /\ \/ RollsBack("lock", TRUE) /\ UNCHANGED lpk
     \/ /\ lock' = [source |-> source, version |-> lpk.version, lpk |-> lpk,
                    images |-> [i \in Images |-> [digest |-> digest[i], runtime |-> plan[i].runtime]]]
        /\ Goes("result")
        /\ UNCHANGED <<served, manifest, version, lpk, work>>
  /\ UNCHANGED <<job, runs, moves>>

\* The result file is all that is missing: nothing is rolled back.
WriteResult ==
  /\ pc = "result"
  /\ \/ Fails("result")
     \/ Goes("packaged") /\ UNCHANGED <<served, tree, work>>
  /\ UNCHANGED <<job, runs, moves>>

\* The run is killed, or its runner lost.
Kill ==
  /\ pc \in Running
  /\ Fails("killed")
  /\ UNCHANGED <<job, runs, moves>>

\* A tag moves: upstream publishes, a proxy or a mirror catches up, somebody
\* writes to the staging repository.
MoveTag(i, place, tag, d) ==
  /\ moves < MaxMoves
  /\ served' = [served EXCEPT ![i][place][tag] = d]
  /\ moves' = moves + 1
  /\ UNCHANGED <<tree, pc, job, work, cause, undone, runs>>

Next ==
  \/ \E s \in Sources : StartRun(s)
  \/ Prepare \/ Inspect \/ InspectCopySource \/ Stage \/ InspectStaged
  \/ DeliverImage \/ ApplyImages \/ SetVersion \/ Build \/ WriteLock \/ WriteResult
  \/ Kill
  \/ \E i \in Images, p \in {"source", "proxy", "staging", "mirror"}, t \in Tags, d \in Digests :
       MoveTag(i, p, t, d)

Spec == Init /\ [][Next]_vars

---------------------------------------------------------------------------
TypeOK ==
  /\ served \in [Images -> Served] /\ manifest \in [Images -> Entry]
  /\ version \in Nat /\ lpk \in LPK /\ lock \in Lock
  /\ pc \in Running \cup {"idle", "failed", "packaged"}
  /\ source \in Sources \cup {NoSource} /\ target \in Nat /\ image \in {0, 1} \cup Images
  /\ before \in [manifest: [Images -> Entry], version: Nat]
  /\ digest \in [Images -> Digests \cup {NoDigest}]
  /\ from \in [Images -> Reference \cup {NoRef}] /\ plan \in [Images -> Entry]
  /\ cause \in Causes /\ undone \in BOOLEAN /\ runs \in Nat /\ moves \in Nat

\* A build or state failure restores the previous image set and version,
\* unless the rollback fails too (README, "images" mode; action.go rolls back
\* after SetVersion, Inspect, Build and WriteState).  An image the Manifest
\* did not have before, which only a prepared image may be, stays.
FailureRestores ==
  pc = "failed" /\ cause \in {"version", "build", "lock"} /\ undone
    => /\ version = before.version
       /\ \A i \in Images : before.manifest[i].runtime # NoRef
                              => manifest[i].runtime = before.manifest[i].runtime

\* At no moment, whatever fails and whenever the run is killed, does the
\* Manifest name some images of the old set and some of the new one.
ImageSetChangesAtOnce ==
  \/ \A i \in Images : manifest[i].runtime = before.manifest[i].runtime
  \/ \A i \in Images : manifest[i] = plan[i]

\* What the lock says was delivered was: the runtime reference of an image
\* serves the digest the lock records, and the packaged Manifest names both,
\* although tags moved between the steps of the run.  A mirror is named by its
\* tag, which was compared when it was delivered and may move at once.
LockIsDelivered ==
  lock.source # NoSource =>
    \A i \in Images :
      /\ lock.images[i].runtime # NoRef
      /\ Mode[i] # "mirror" => lock.images[i].runtime.pin = lock.images[i].digest
      /\ lock.lpk.images[i].runtime = lock.images[i].runtime
      /\ lock.lpk.images[i].upstream.pin = lock.images[i].digest

\* A run that succeeds leaves a tree whose parts agree: the lock, the LPK at
\* the output path, the Manifest and the version of package.yml.
PackagedTreeAgrees ==
  pc = "packaged" =>
    /\ lpk = [version |-> version, images |-> manifest]
    /\ lock.lpk = lpk /\ lock.version = version /\ lock.source = source

\* In one tree packaged versions never repeat and never go back for another
\* source, although failed builds give their version back and killed runs
\* keep it.
PackagedVersionsIncrease ==
  [][\/ lock'.version > lock.version
     \/ lock'.version = lock.version /\ lock'.source = lock.source]_lock

---------------------------------------------------------------------------
(* The inductive invariant.                                                *)

Unedited == {"prepare", "inspect", "copy", "stage", "staged", "deliver", "apply"}
Edited   == {"version", "build", "lock", "result", "packaged"}

\* The tree at each step of the run.
TreeInv ==
  /\ pc \in Unedited \cup {"idle", "version"} => version = before.version
  /\ pc \in Unedited \cup {"idle"} => manifest = before.manifest
  /\ pc \in Edited => manifest = plan
  /\ pc \in Edited \ {"version"} => version = target
  /\ pc \in {"lock", "result", "packaged"} => lpk = [version |-> version, images |-> manifest]
  /\ pc \in {"result", "packaged"} =>
       lock.lpk = lpk /\ lock.version = version /\ lock.source = source

\* Images handled so far.
Handled ==
  CASE pc \in Edited \cup {"apply"}                                -> Images
    [] pc \in {"inspect", "copy", "stage", "staged", "deliver"}    -> 1 .. (image - 1)
    [] pc \in {"idle", "prepare", "failed"}                        -> {}

\* The run is at an image that has an entry to restore, and everything it
\* has delivered is pinned to the digest it has looked up.
WorkInv ==
  /\ pc \in Running => source \in Sources
  /\ pc = "prepare" => image = 1
  /\ pc \in Unedited \ {"prepare"} => image \in Images
  /\ pc \in {"copy", "stage", "staged", "deliver"} =>
       /\ digest[image] \in Digests
       /\ plan[image].upstream # NoRef /\ plan[image].upstream.pin = digest[image]
       /\ from[image].pin = digest[image]
       /\ Coordinated => before.manifest[image].runtime # NoRef
  /\ pc \in Unedited \ {"prepare"} => \A i \in Images : from[i] # NoRef
  /\ \A i \in Handled :
       /\ plan[i].runtime # NoRef /\ (Mode[i] # "mirror" => plan[i].runtime.pin = digest[i])
       /\ plan[i].upstream # NoRef /\ plan[i].upstream.pin = digest[i]
       /\ Coordinated => before.manifest[i].runtime # NoRef

\* Versions never fall below the one of the lock, and the run makes a higher
\* one or packages the source of the lock again.
VersionInv ==
  /\ version >= lock.version
  /\ pc \in Running \ {"result"} =>
       /\ before.version >= lock.version
       /\ target > lock.version \/ (target = lock.version /\ source = lock.source)

CheckoutInv ==
  TypeOK /\ TreeInv /\ WorkInv /\ VersionInv
  /\ FailureRestores /\ ImageSetChangesAtOnce /\ LockIsDelivered
=============================================================================
