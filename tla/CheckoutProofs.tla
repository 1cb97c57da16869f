--------------------------- MODULE CheckoutProofs ---------------------------
(***************************************************************************)
(* Proofs about Checkout for any number of images, sources, digests, tags  *)
(* and runs: CheckoutInv is inductive.                                     *)
(***************************************************************************)
EXTENDS Checkout, TLAPS

-----------------------------------------------------------------------------
(* Operators of ImageDelivery and of the rollback                          *)

\* A missing entry is an entry, an unpinned reference a reference.
LEMMA Entries ==
  /\ NoEntry \in Entry
  /\ \A r \in Reference, u \in Reference : [runtime |-> r, upstream |-> u] \in Entry
BY DEF NoEntry, Entry

\* What a registry answers for a reference is a digest, the reference's own
\* when it is pinned.
LEMMA ContentType ==
  ASSUME NEW place \in Served, NEW ref \in Reference
  PROVE  /\ Content(place, ref) \in Digests
         /\ ref.pin # NoDigest => Content(place, ref) = ref.pin
BY DEF Served, Reference, Content

\* A pinned reference names the digest it was pinned to.
LEMMA PinnedType ==
  ASSUME NEW ref \in Reference, NEW found \in Digests
  PROVE  /\ Pinned(ref, found) \in Reference
         /\ ref.pin = NoDigest => Pinned(ref, found).pin = found
         /\ ref.pin # NoDigest => Pinned(ref, found).pin = ref.pin
BY DEF Reference, Pinned

\* An image delivered from a pinned reference is pinned to the same digest,
\* unless it is one of a mirror.
LEMMA DeliveredPinned ==
  ASSUME TypeOK, image \in Images, from[image] \in Reference, from[image].pin \in Digests,
         NEW result \in Deliver(Request, served[image])
  PROVE  /\ result.runtime \in Reference
         /\ Mode[image] # "mirror" => result.runtime.pin = from[image].pin
<1>0. /\ Request.mutable = FALSE /\ Request.dryRun = FALSE
      /\ Request.ref = from[image] /\ Request.mode = Mode[image]
  BY DEF Request
<1>1. served[image] \in Served /\ from[image].pin # NoDigest
  BY CheckoutAssumption DEF TypeOK
<1>2. Content(served[image], from[image]) = from[image].pin
  BY <1>1, ContentType
<1>3. CASE Mode[image] = "direct"
  <2>1. result \in DeliverDirect(Request)
    BY <1>0, <1>3 DEF Deliver
  <2> QED BY <1>0, <2>1 DEF DeliverDirect, Result
<1>4. CASE Mode[image] = "lazycat"
  <2>1. result \in DeliverLazyCat(Request, served[image])
    BY <1>0, <1>4 DEF Deliver
  <2>2. result.runtime = Copied(from[image], from[image].pin)
    BY <1>0, <1>2, <2>1 DEF DeliverLazyCat, Result
  <2> QED BY <2>2 DEF Copied, Reference, Places
<1>5. CASE Mode[image] = "mirror"
  <2>1. result \in DeliverMirror(Request, served[image])
    BY <1>0, <1>5 DEF Deliver
  <2>2. result.runtime = [at |-> "mirror", tag |-> from[image].tag, pin |-> NoDigest]
    BY <1>0, <2>1 DEF DeliverMirror, Result
  <2> QED BY <1>5, <2>2 DEF Reference, Places
<1> QED BY <1>3, <1>4, <1>5, CheckoutAssumption

\* Updates of all images, when they are complete, make the Manifest.
LEMMA ApplyType ==
  ASSUME NEW old \in [Images -> Entry], NEW new \in [Images -> Entry]
  PROVE  /\ Apply(old, new) \in [Images -> Entry]
         /\ Complete(new) => Apply(old, new) = new
         /\ ~Complete(new) => Apply(old, new) = old
BY DEF Apply

\* Every image is restored, or nothing is and one of them had no reference.
LEMMA RestoredType ==
  ASSUME TypeOK
  PROVE  /\ Restored \in [Images -> Entry]
         /\ Complete(Restored) <=> \A i \in Images : before.manifest[i].runtime # NoRef
<1>1. before.manifest \in [Images -> Entry]
  BY DEF TypeOK
<1> QED BY <1>1 DEF Restored, Complete, Entry

-----------------------------------------------------------------------------
LEMMA InvInit == Init => CheckoutInv
<1> SUFFICES ASSUME Init PROVE CheckoutInv
  OBVIOUS
<1> USE CheckoutAssumption DEF Init
<1>1. manifest \in [Images -> Entry]
  <2>1. OldEntries \subseteq Entry
    OBVIOUS
  <2> QED BY <2>1
<1>2. /\ NoLPK \in LPK /\ NoLock \in Lock
  BY Entries DEF NoLPK, LPK, NoLock, Lock
<1>3. served \in [Images -> Served]
  BY DEF Served
<1>4. TypeOK
  BY <1>1, <1>2, <1>3, Entries DEF TypeOK, Running, Causes
<1>5. TreeInv
  BY DEF TreeInv, Unedited, Edited
<1>6. WorkInv
  BY DEF WorkInv, Handled, Unedited, Edited, Running
<1>7. VersionInv
  BY DEF VersionInv, NoLock, Running
<1>8. FailureRestores /\ ImageSetChangesAtOnce /\ LockIsDelivered
  BY DEF FailureRestores, ImageSetChangesAtOnce, LockIsDelivered, NoLock
<1> QED BY <1>4, <1>5, <1>6, <1>7, <1>8 DEF CheckoutInv

-----------------------------------------------------------------------------
\* A step that fails without having changed anything keeps the invariant.
LEMMA FailsKeeps ==
  ASSUME CheckoutInv, NEW step \in Causes \ {"version", "build", "lock"}, Fails(step),
         UNCHANGED <<job, runs, moves>>
  PROVE  CheckoutInv'
<1> USE DEF CheckoutInv, Fails, tree, work, job
<1>1. TypeOK'
  BY DEF TypeOK
<1>2. TreeInv' /\ WorkInv'
  BY DEF TreeInv, WorkInv, Handled, Unedited, Edited, Running
<1>3. VersionInv'
  BY DEF VersionInv, Running
<1>4. FailureRestores' /\ ImageSetChangesAtOnce' /\ LockIsDelivered'
  BY DEF FailureRestores, ImageSetChangesAtOnce, LockIsDelivered
<1> QED BY <1>1, <1>2, <1>3, <1>4

\* A rollback keeps the invariant, whatever of it fails.
LEMMA RollsBackKeeps ==
  ASSUME CheckoutInv, NEW step \in {"version", "build", "lock"}, NEW set \in BOOLEAN,
         pc \in {"version", "build", "lock"}, set \/ pc = "version",
         RollsBack(step, set), lpk' \in LPK, UNCHANGED <<job, runs, moves>>
  PROVE  CheckoutInv'
<1> USE DEF CheckoutInv, work, job
<1>1. PICK versionBack \in BOOLEAN, imagesBack \in BOOLEAN :
        /\ version' = IF set /\ versionBack THEN before.version ELSE version
        /\ manifest' = IF imagesBack THEN Apply(manifest, Restored) ELSE manifest
        /\ undone' = (imagesBack /\ (set => versionBack))
  BY DEF RollsBack
<1>2. pc' = "failed" /\ cause' = step /\ UNCHANGED <<served, lock, digest, from, plan>>
  BY DEF RollsBack
<1>3. manifest \in [Images -> Entry] /\ before.manifest \in [Images -> Entry]
        /\ before.version \in Nat /\ version \in Nat
  BY DEF TypeOK
<1>4. /\ Restored \in [Images -> Entry]
      /\ manifest' \in [Images -> Entry]
      /\ manifest' = Restored \/ manifest' = manifest
      /\ imagesBack /\ Complete(Restored) => manifest' = Restored
  BY <1>1, <1>3, RestoredType, ApplyType
<1>5. TypeOK'
  BY <1>1, <1>2, <1>3, <1>4 DEF TypeOK, Causes
<1>6. TreeInv' /\ WorkInv'
  BY <1>2 DEF TreeInv, WorkInv, Handled, Unedited, Edited, Running
<1>7. VersionInv'
  BY <1>1, <1>2 DEF VersionInv, Running
<1>8. FailureRestores'
  <2> SUFFICES ASSUME undone'
               PROVE  /\ version' = before.version
                      /\ \A i \in Images : before.manifest[i].runtime # NoRef
                           => manifest'[i].runtime = before.manifest[i].runtime
    BY DEF FailureRestores
  <2>1. version' = before.version
    BY <1>1 DEF TreeInv
  <2>2. CASE Complete(Restored)
    BY <1>1, <1>4, <2>1, <2>2 DEF Restored
  <2>3. CASE ~Complete(Restored)
    <3>1. PICK k \in Images : before.manifest[k].runtime = NoRef
      BY <2>3, RestoredType
    <3>2. ~Coordinated
      BY <3>1 DEF WorkInv, Handled, Edited, Unedited
    <3>3. Images = {k}
      BY <3>1, <3>2, CheckoutAssumption DEF Images
    <3> QED BY <2>1, <3>1, <3>3
  <2> QED BY <2>2, <2>3
<1>9. ImageSetChangesAtOnce'
  <2>1. CASE manifest' = Restored
    BY <1>2, <2>1 DEF ImageSetChangesAtOnce, Restored
  <2>2. CASE manifest' = manifest
    BY <1>2, <2>2 DEF ImageSetChangesAtOnce
  <2> QED BY <1>4, <2>1, <2>2
<1>10. LockIsDelivered'
  BY <1>2 DEF LockIsDelivered
<1> QED BY <1>5, <1>6, <1>7, <1>8, <1>9, <1>10

-----------------------------------------------------------------------------
(* One lemma for each action                                               *)

\* A run starts from the tree as it is, with a version above the lock's or
\* with the source of the lock.
LEMMA StartRunKeeps ==
  ASSUME CheckoutInv, NEW s \in Sources, StartRun(s)
  PROVE  CheckoutInv'
<1> USE CheckoutAssumption DEF CheckoutInv, StartRun, tree
<1>1. version \in Nat /\ lock.version \in Nat /\ SourceVersion[s] \in Nat /\ version >= lock.version
  BY DEF TypeOK, Lock, VersionInv
<1>2. /\ SourceApplicationVersion(s) \in Nat
      /\ \/ SourceApplicationVersion(s) > lock.version
         \/ SourceApplicationVersion(s) = lock.version /\ s = lock.source
  <2>1. CASE lock.source = s
    BY <1>1, <2>1 DEF SourceApplicationVersion
  <2>2. CASE lock.source # s /\ SourceVersion[s] > version
    <3>1. SourceApplicationVersion(s) = SourceVersion[s]
      BY ONLY <2>2, <1>1 DEF SourceApplicationVersion
    <3> QED BY ONLY <1>1, <2>2, <3>1
  <2>3. CASE lock.source # s /\ SourceVersion[s] <= version
    <3>1. SourceApplicationVersion(s) = version + 1
      BY ONLY <2>3, <1>1 DEF SourceApplicationVersion
    <3> QED BY ONLY <1>1, <2>3, <3>1
  <2> QED BY <1>1, <2>1, <2>2, <2>3
<1>3. TypeOK'
  BY <1>2, Entries DEF TypeOK, Running, Causes
<1>4. TreeInv' /\ WorkInv'
  BY DEF TreeInv, WorkInv, Handled, Unedited, Edited, Running
<1>5. VersionInv'
  BY <1>1, <1>2 DEF VersionInv
<1>6. FailureRestores' /\ ImageSetChangesAtOnce' /\ LockIsDelivered'
  BY DEF FailureRestores, ImageSetChangesAtOnce, LockIsDelivered
<1> QED BY <1>3, <1>4, <1>5, <1>6

LEMMA PrepareKeeps ==
  ASSUME CheckoutInv, Prepare
  PROVE  CheckoutInv'
<1> USE DEF CheckoutInv
<1>0. pc = "prepare" /\ source \in Sources /\ image = 1 /\ UNCHANGED <<job, runs, moves>>
  BY DEF Prepare, WorkInv, Running
<1>1. CASE Fails("prepare")
  BY <1>0, <1>1, FailsKeeps DEF Causes
<1>2. CASE Images = {} /\ Goes("version") /\ UNCHANGED <<served, tree, work>>
  <2> USE <1>0, <1>2 DEF Goes, tree, work, job
  <2>1. TypeOK'
    BY DEF TypeOK, Running
  <2>2. manifest = plan
    BY DEF TypeOK
  <2>3. TreeInv' /\ WorkInv'
    BY <2>2 DEF TreeInv, WorkInv, Handled, Unedited, Edited, Running
  <2>4. VersionInv'
    BY DEF VersionInv, Running
  <2>5. FailureRestores' /\ ImageSetChangesAtOnce' /\ LockIsDelivered'
    BY DEF FailureRestores, ImageSetChangesAtOnce, LockIsDelivered
  <2> QED BY <2>1, <2>3, <2>4, <2>5
<1>3. ASSUME Images # {}, Goes("inspect"), NEW pin \in Digests \cup {NoDigest},
             from' = [i \in Images |-> [Unpinned("source") EXCEPT !.pin = pin]],
             UNCHANGED <<served, tree, digest, plan>>
      PROVE  CheckoutInv'
  <2> USE <1>0, <1>3 DEF Goes, tree, work, job
  <2>1. [Unpinned("source") EXCEPT !.pin = pin] \in Reference
    BY CheckoutAssumption DEF Unpinned, Reference, Places
  <2>2. TypeOK'
    BY <2>1 DEF TypeOK, Running
  <2>3. image \in Images
    BY CheckoutAssumption DEF Images
  <2>4. \A i \in Images : from'[i] # NoRef
    BY <2>1, CheckoutAssumption
  <2>5. TreeInv'
    BY DEF TreeInv, Unedited, Edited
  <2>6. Handled' = {}
    BY CheckoutAssumption DEF Handled, Edited
  <2>7. WorkInv'
    BY <2>3, <2>4, <2>6 DEF WorkInv, Unedited, Running
  <2>8. VersionInv'
    BY DEF VersionInv, Running
  <2>9. FailureRestores' /\ ImageSetChangesAtOnce' /\ LockIsDelivered'
    BY DEF FailureRestores, ImageSetChangesAtOnce, LockIsDelivered, TreeInv, Unedited
  <2> QED BY <2>2, <2>5, <2>7, <2>8, <2>9
<1> QED BY <1>0, <1>1, <1>2, <1>3 DEF Prepare

\* While an image is delivered the plan of the others is not touched, and
\* the tree is not touched at all.
LEMMA InspectKeeps ==
  ASSUME CheckoutInv, Inspect
  PROVE  CheckoutInv'
<1> USE DEF CheckoutInv
<1>0. pc = "inspect" /\ image \in Images /\ UNCHANGED <<job, runs, moves>>
  BY DEF Inspect, WorkInv, Unedited
<1>1. CASE Fails("image")
  BY <1>0, <1>1, FailsKeeps DEF Causes
<1>2. CASE ~Fails("image")
  <2> DEFINE found == Content(served[image], from[image])
             ref   == Pinned(from[image], found)
             step  == CASE Coordinated /\ Via[image] = "copy"     -> "copy"
                        [] Coordinated /\ Via[image] = "staging"  -> "stage"
                        [] ~Coordinated \/ Via[image] = "plain"   -> "deliver"
  <2>1. /\ Coordinated => manifest[image].runtime # NoRef
        /\ digest' = [digest EXCEPT ![image] = found]
        /\ from' = [from EXCEPT ![image] = ref]
        /\ plan' = [plan EXCEPT ![image].upstream = ref]
        /\ Goes(step)
        /\ UNCHANGED <<served, tree>>
    BY <1>2 DEF Inspect
  <2>2. from[image] \in Reference /\ served[image] \in Served
    BY <1>0 DEF TypeOK, WorkInv, Unedited
  <2>3. found \in Digests /\ ref \in Reference /\ ref.pin = found /\ ref # NoRef
    BY <2>2, ContentType, PinnedType, CheckoutAssumption
  <2>4. step \in {"copy", "stage", "deliver"}
    BY <1>0, CheckoutAssumption
  <2> HIDE DEF found, ref, step
  <2> USE <1>0, <2>1 DEF Goes, tree, job
  <2>5. /\ digest' \in [Images -> Digests \cup {NoDigest}]
        /\ from' \in [Images -> Reference \cup {NoRef}] /\ plan' \in [Images -> Entry]
    BY <2>3 DEF TypeOK, Entry
  <2>6. TypeOK'
    BY <2>4, <2>5 DEF TypeOK, Running
  <2>7. TreeInv'
    BY <2>4 DEF TreeInv, Unedited, Edited
  <2>8. /\ digest'[image] \in Digests
        /\ plan'[image].upstream # NoRef /\ plan'[image].upstream.pin = digest'[image]
        /\ from'[image].pin = digest'[image]
        /\ Coordinated => before'.manifest[image].runtime # NoRef
        /\ \A i \in Images : from'[i] # NoRef
    BY <2>3 DEF TypeOK, Entry, TreeInv, WorkInv, Unedited
  <2>9. Handled = 1 .. (image - 1) /\ Handled' = 1 .. (image - 1)
    BY <2>4 DEF Handled, Edited
  <2>10. \A i \in Handled : i \in Images /\ i # image
    BY <2>9, CheckoutAssumption DEF Images
  <2>11. \A i \in Handled' :
           /\ plan'[i] = plan[i] /\ digest'[i] = digest[i]
    BY <2>9, <2>10 DEF TypeOK
  <2>12. WorkInv'
    BY <2>4, <2>8, <2>9, <2>11 DEF WorkInv, Unedited, Running
  <2>13. VersionInv'
    BY <2>4 DEF VersionInv, Running
  <2>14. FailureRestores' /\ ImageSetChangesAtOnce' /\ LockIsDelivered'
    BY <2>4 DEF FailureRestores, ImageSetChangesAtOnce, LockIsDelivered, TreeInv, Unedited
  <2> QED BY <2>6, <2>7, <2>12, <2>13, <2>14
<1> QED BY <1>1, <1>2

\* Another place serves the digest of the source image, or the run fails.
LEMMA DeliverFromKeeps ==
  ASSUME CheckoutInv, pc \in {"copy", "staged"}, NEW place \in Places,
         DeliverFrom(place), UNCHANGED <<job, runs, moves>>
  PROVE  CheckoutInv'
<1> USE DEF CheckoutInv
<1> DEFINE found == Content(served[image], Unpinned(place))
           ref   == Pinned(Unpinned(place), found)
<1>1. /\ found = digest[image]
      /\ from' = [from EXCEPT ![image] = ref]
      /\ Goes("deliver")
      /\ UNCHANGED <<served, tree, digest, plan>>
  BY DEF DeliverFrom
<1>2. image \in Images /\ source \in Sources /\ digest[image] \in Digests
  BY DEF WorkInv, Unedited, Running
<1>3. Unpinned(place) \in Reference /\ Unpinned(place).pin = NoDigest
  BY <1>2, CheckoutAssumption DEF Unpinned, Reference
<1>4. ref \in Reference /\ ref.pin = digest[image] /\ ref # NoRef
  BY <1>1, <1>2, <1>3, PinnedType, CheckoutAssumption
<1> HIDE DEF found, ref
<1> USE <1>1 DEF Goes, tree, job
<1>5. TypeOK'
  BY <1>2, <1>4 DEF TypeOK, Running
<1>6. TreeInv'
  BY DEF TreeInv, Unedited, Edited
<1>7. Handled' = Handled
  BY DEF Handled, Edited
<1>8. from'[image].pin = digest[image] /\ \A i \in Images : from'[i] # NoRef
  BY <1>2, <1>4 DEF TypeOK, WorkInv, Unedited
<1>9. WorkInv'
  BY <1>7, <1>8 DEF WorkInv, Unedited, Running
<1>10. VersionInv'
  BY DEF VersionInv, Running
<1>11. FailureRestores' /\ ImageSetChangesAtOnce' /\ LockIsDelivered'
  BY DEF FailureRestores, ImageSetChangesAtOnce, LockIsDelivered, TreeInv, Unedited
<1> QED BY <1>5, <1>6, <1>9, <1>10, <1>11

LEMMA InspectOtherKeeps ==
  ASSUME CheckoutInv, InspectCopySource \/ InspectStaged
  PROVE  CheckoutInv'
<1>1. UNCHANGED <<job, runs, moves>> /\ pc \in {"copy", "staged"}
  BY DEF InspectCopySource, InspectStaged
<1>2. Fails("image") \/ DeliverFrom("proxy") \/ DeliverFrom("staging")
  BY DEF InspectCopySource, InspectStaged
<1> QED BY <1>1, <1>2, FailsKeeps, DeliverFromKeeps DEF Causes, Places

\* Staging writes a tag of the staging repository and nothing else.
LEMMA StageKeeps ==
  ASSUME CheckoutInv, Stage
  PROVE  CheckoutInv'
<1> USE DEF CheckoutInv
<1>0. /\ pc = "stage" /\ image \in Images /\ source \in Sources /\ digest[image] \in Digests
      /\ UNCHANGED <<job, runs, moves>>
  BY DEF Stage, WorkInv, Unedited, Running
<1>1. CASE Fails("image")
  BY <1>0, <1>1, FailsKeeps DEF Causes
<1>2. CASE ~Fails("image")
  <2>1. served' = [served EXCEPT ![image]["staging"][SourceTag[source]] = digest[image]]
    BY <1>2 DEF Stage
  <2>2. /\ UNCHANGED <<tree, work, undone>>
        /\ \/ pc' = "staged" /\ cause' = cause
           \/ pc' = "failed" /\ cause' = "image"
    BY <1>2 DEF Stage, Goes
  <2> USE <1>0, <2>2 DEF tree, work, job
  <2>3. served' \in [Images -> Served]
    <3>1. /\ served \in [Images -> Served] /\ served[image] \in Served
          /\ served[image]["staging"] \in [Tags -> Digests]
      BY DEF TypeOK, Served, Places
    <3>2. [served[image]["staging"] EXCEPT ![SourceTag[source]] = digest[image]] \in [Tags -> Digests]
      BY <3>1
    <3>3. [served[image] EXCEPT !["staging"][SourceTag[source]] = digest[image]] \in Served
      BY <3>1, <3>2 DEF Served, Places
    <3> QED BY <2>1, <3>1, <3>3
  <2>4. TypeOK'
    BY <2>3 DEF TypeOK, Running, Causes
  <2>5. TreeInv' /\ WorkInv'
    BY DEF TreeInv, WorkInv, Handled, Unedited, Edited, Running
  <2>6. VersionInv'
    BY DEF VersionInv, Running
  <2>7. FailureRestores' /\ ImageSetChangesAtOnce' /\ LockIsDelivered'
    BY DEF FailureRestores, ImageSetChangesAtOnce, LockIsDelivered
  <2> QED BY <2>4, <2>5, <2>6, <2>7
<1> QED BY <1>1, <1>2

\* An image that is delivered is pinned to its digest.
LEMMA DeliverImageKeeps ==
  ASSUME CheckoutInv, DeliverImage
  PROVE  CheckoutInv'
<1> USE DEF CheckoutInv
<1>0. /\ pc = "deliver" /\ image \in Images /\ digest[image] \in Digests
      /\ from[image] # NoRef /\ from[image].pin = digest[image]
      /\ plan[image].upstream # NoRef /\ plan[image].upstream.pin = digest[image]
      /\ Coordinated => before.manifest[image].runtime # NoRef
      /\ UNCHANGED <<source, target, before, runs, moves>>
  BY DEF DeliverImage, WorkInv, Unedited
<1>1. CASE Fails("image") /\ UNCHANGED image
  BY <1>0, <1>1, FailsKeeps DEF Causes, job
<1>2. ASSUME NEW result \in Deliver(Request, served[image]),
             plan' = [plan EXCEPT ![image].runtime = result.runtime],
             Goes(IF image < Last THEN "inspect" ELSE "apply"),
             image' = IF image < Last THEN image + 1 ELSE image,
             UNCHANGED <<served, tree, digest, from>>
      PROVE  CheckoutInv'
  <2> USE <1>0, <1>2 DEF Goes, tree
  <2>1. from[image] \in Reference
    BY DEF TypeOK
  <2>2. /\ result.runtime \in Reference
        /\ Mode[image] # "mirror" => result.runtime.pin = digest[image]
    BY <2>1, DeliveredPinned
  <2>3. image' \in Images /\ image \in Nat /\ Last \in Nat /\ image <= Last
    BY CheckoutAssumption DEF Images
  <2>4. plan' \in [Images -> Entry] /\ plan'[image].upstream = plan[image].upstream
          /\ plan'[image].runtime = result.runtime
    BY <2>2 DEF TypeOK, Entry
  <2>5. \A i \in Images : i # image => plan'[i] = plan[i]
    BY DEF TypeOK
  <2>6. TypeOK'
    BY <2>3, <2>4 DEF TypeOK, Running
  <2>7. TreeInv'
    BY DEF TreeInv, Unedited, Edited
  <2>8. Handled = 1 .. (image - 1)
    BY DEF Handled, Edited
  <2>9. Handled' = 1 .. image
    <3>1. CASE image < Last
      BY <2>3, <3>1 DEF Handled, Edited
    <3>2. CASE ~(image < Last)
      BY <2>3, <3>2 DEF Handled, Edited, Images
    <3> QED BY <3>1, <3>2
  <2>10. ASSUME NEW i \in Handled'
         PROVE  /\ plan'[i].runtime # NoRef /\ (Mode[i] # "mirror" => plan'[i].runtime.pin = digest[i])
                /\ plan'[i].upstream # NoRef /\ plan'[i].upstream.pin = digest[i]
                /\ Coordinated => before.manifest[i].runtime # NoRef
    <3>1. CASE i = image
      BY <2>2, <2>4, <3>1, CheckoutAssumption
    <3>2. CASE i # image
      <4>1. i \in Handled /\ i \in Images
        BY <2>3, <2>8, <2>9, <3>2 DEF Images
      <4>2. plan'[i] = plan[i]
        BY <2>5, <3>2, <4>1
      <4> QED BY <4>1, <4>2 DEF WorkInv
    <3> QED BY <3>1, <3>2
  <2>11. \A i \in Images : from[i] # NoRef
    BY DEF WorkInv, Unedited
  <2>12. WorkInv'
    BY <2>3, <2>10, <2>11 DEF WorkInv, Unedited, Running
  <2>13. VersionInv'
    BY DEF VersionInv, Running
  <2>14. FailureRestores' /\ ImageSetChangesAtOnce' /\ LockIsDelivered'
    BY DEF FailureRestores, ImageSetChangesAtOnce, LockIsDelivered, TreeInv, Unedited
  <2> QED BY <2>6, <2>7, <2>12, <2>13, <2>14
<1> QED BY <1>0, <1>1, <1>2 DEF DeliverImage

\* The plan is complete when it is applied, so the Manifest becomes the plan
\* even when the step fails after the file was replaced.
LEMMA ApplyImagesKeeps ==
  ASSUME CheckoutInv, ApplyImages
  PROVE  CheckoutInv'
<1> USE DEF CheckoutInv
<1>0. pc = "apply" /\ UNCHANGED <<job, runs, moves>>
  BY DEF ApplyImages
<1>1. CASE Fails("apply")
  BY <1>0, <1>1, FailsKeeps DEF Causes
<1>2. CASE ~Fails("apply")
  <2>1. /\ manifest' = Apply(manifest, plan)
        /\ \/ pc' = "version" /\ UNCHANGED <<cause, undone>>
           \/ pc' = "failed" /\ cause' = "apply" /\ UNCHANGED undone
        /\ UNCHANGED <<served, version, lpk, lock, work>>
    BY <1>2 DEF ApplyImages, Goes
  <2> USE <1>0, <2>1 DEF work, job
  <2>2. manifest \in [Images -> Entry] /\ plan \in [Images -> Entry]
    BY DEF TypeOK
  <2>3. \A i \in Images : plan[i].runtime # NoRef /\ plan[i].upstream # NoRef
    BY DEF WorkInv, Handled
  <2>4. Complete(plan)
    BY <2>2, <2>3 DEF Complete
  <2>5. manifest' = plan
    BY <2>2, <2>4, ApplyType
  <2>6. TypeOK'
    BY <2>2, <2>5 DEF TypeOK, Running, Causes
  <2>7. TreeInv' /\ WorkInv'
    BY <2>5 DEF TreeInv, WorkInv, Handled, Unedited, Edited, Running
  <2>8. VersionInv'
    BY DEF VersionInv, Running
  <2>9. FailureRestores' /\ ImageSetChangesAtOnce' /\ LockIsDelivered'
    BY <2>5 DEF FailureRestores, ImageSetChangesAtOnce, LockIsDelivered
  <2> QED BY <2>6, <2>7, <2>8, <2>9
<1> QED BY <1>1, <1>2

LEMMA SetVersionKeeps ==
  ASSUME CheckoutInv, SetVersion
  PROVE  CheckoutInv'
<1> USE DEF CheckoutInv
<1>0. pc = "version" /\ UNCHANGED <<job, runs, moves>>
  BY DEF SetVersion
<1>1. CASE RollsBack("version", FALSE) /\ UNCHANGED lpk
  <2>1. lpk' \in LPK
    BY <1>1 DEF TypeOK
  <2> QED BY <1>0, <1>1, <2>1, RollsBackKeeps
<1>2. CASE version' = target /\ Goes("build") /\ UNCHANGED <<served, manifest, lpk, lock, work>>
  <2> USE <1>0, <1>2 DEF Goes, work, job
  <2>1. TypeOK'
    BY DEF TypeOK, Running
  <2>2. TreeInv' /\ WorkInv'
    BY DEF TreeInv, WorkInv, Handled, Unedited, Edited, Running
  <2>3. VersionInv'
    BY DEF VersionInv, Running, TypeOK, Lock
  <2>4. FailureRestores' /\ ImageSetChangesAtOnce' /\ LockIsDelivered'
    BY DEF FailureRestores, ImageSetChangesAtOnce, LockIsDelivered
  <2> QED BY <2>1, <2>2, <2>3, <2>4
<1> QED BY <1>1, <1>2 DEF SetVersion

LEMMA BuildKeeps ==
  ASSUME CheckoutInv, Build
  PROVE  CheckoutInv'
<1> USE DEF CheckoutInv
<1> DEFINE built == [version |-> version, images |-> manifest]
<1>0. pc = "build" /\ UNCHANGED <<job, runs, moves>>
  BY DEF Build
<1>1. built \in LPK /\ lpk \in LPK
  BY DEF TypeOK, LPK
<1>2. CASE RollsBack("build", TRUE) /\ lpk' \in {lpk, built}
  <2>1. lpk' \in LPK
    BY <1>1, <1>2
  <2> QED BY <1>0, <1>2, <2>1, RollsBackKeeps
<1>3. CASE version = target /\ lpk' = built /\ Goes("lock")
             /\ UNCHANGED <<served, manifest, version, lock, work>>
  <2> USE <1>0, <1>3 DEF Goes, work, job
  <2>1. TypeOK'
    BY <1>1 DEF TypeOK, Running
  <2>2. TreeInv' /\ WorkInv'
    BY DEF TreeInv, WorkInv, Handled, Unedited, Edited, Running
  <2>3. VersionInv'
    BY DEF VersionInv, Running
  <2>4. FailureRestores' /\ ImageSetChangesAtOnce' /\ LockIsDelivered'
    BY DEF FailureRestores, ImageSetChangesAtOnce, LockIsDelivered
  <2> QED BY <2>1, <2>2, <2>3, <2>4
<1> QED BY <1>2, <1>3 DEF Build

\* The lock records the LPK of this run, whose Manifest is the plan.
LEMMA WriteLockKeeps ==
  ASSUME CheckoutInv, WriteLock
  PROVE  CheckoutInv'
<1> USE DEF CheckoutInv
<1>0. pc = "lock" /\ source \in Sources /\ UNCHANGED <<job, runs, moves>>
  BY DEF WriteLock, WorkInv, Running
<1>1. CASE RollsBack("lock", TRUE) /\ UNCHANGED lpk
  <2>1. lpk' \in LPK
    BY <1>1 DEF TypeOK
  <2> QED BY <1>0, <1>1, <2>1, RollsBackKeeps
<1>2. CASE /\ lock' = [source |-> source, version |-> lpk.version, lpk |-> lpk,
                       images |-> [i \in Images |-> [digest |-> digest[i],
                                                     runtime |-> plan[i].runtime]]]
           /\ Goes("result") /\ UNCHANGED <<served, manifest, version, lpk, work>>
  <2> USE <1>0, <1>2 DEF Goes, work, job
  <2>1. /\ manifest = plan /\ version = target
        /\ lpk = [version |-> version, images |-> manifest]
    BY DEF TreeInv, Edited
  <2>2. lock' \in Lock
    BY <2>1 DEF TypeOK, Lock, LPK, Entry
  <2>3. TypeOK'
    BY <2>2 DEF TypeOK, Running
  <2>4. TreeInv' /\ WorkInv'
    BY <2>1 DEF TreeInv, WorkInv, Handled, Unedited, Edited, Running
  <2>5. VersionInv'
    BY <2>1, <2>3 DEF VersionInv, TypeOK, Running
  <2>6. LockIsDelivered'
    BY <2>1 DEF LockIsDelivered, WorkInv, Handled, Edited
  <2>7. FailureRestores' /\ ImageSetChangesAtOnce'
    BY DEF FailureRestores, ImageSetChangesAtOnce
  <2> QED BY <2>3, <2>4, <2>5, <2>6, <2>7
<1> QED BY <1>1, <1>2 DEF WriteLock

LEMMA WriteResultKeeps ==
  ASSUME CheckoutInv, WriteResult
  PROVE  CheckoutInv'
<1> USE DEF CheckoutInv
<1>0. pc = "result" /\ UNCHANGED <<job, runs, moves>>
  BY DEF WriteResult
<1>1. CASE Fails("result")
  BY <1>0, <1>1, FailsKeeps DEF Causes
<1>2. CASE Goes("packaged") /\ UNCHANGED <<served, tree, work>>
  <2> USE <1>0, <1>2 DEF Goes, tree, work, job
  <2>1. TypeOK'
    BY DEF TypeOK
  <2>2. TreeInv' /\ WorkInv'
    BY DEF TreeInv, WorkInv, Handled, Unedited, Edited, Running
  <2>3. VersionInv' /\ FailureRestores' /\ ImageSetChangesAtOnce' /\ LockIsDelivered'
    BY DEF VersionInv, Running, FailureRestores, ImageSetChangesAtOnce, LockIsDelivered
  <2> QED BY <2>1, <2>2, <2>3
<1> QED BY <1>1, <1>2 DEF WriteResult

\* What registries serve is in no invariant: the tree names digests.
LEMMA MoveTagKeeps ==
  ASSUME CheckoutInv, NEW i \in Images, NEW place \in {"source", "proxy", "staging", "mirror"},
         NEW tag \in Tags, NEW d \in Digests, MoveTag(i, place, tag, d)
  PROVE  CheckoutInv'
<1> USE DEF CheckoutInv, MoveTag, tree, work, job
<1>1. served' \in [Images -> Served]
  <2>1. served[i] \in Served /\ place \in Places /\ served[i][place] \in [Tags -> Digests]
    BY DEF TypeOK, Served, Places
  <2>2. [served[i][place] EXCEPT ![tag] = d] \in [Tags -> Digests]
    BY <2>1
  <2>3. [served[i] EXCEPT ![place][tag] = d] \in Served
    BY <2>1, <2>2 DEF Served
  <2> QED BY <2>3 DEF TypeOK
<1>2. TypeOK'
  BY <1>1 DEF TypeOK
<1>3. TreeInv' /\ WorkInv' /\ VersionInv'
  BY DEF TreeInv, WorkInv, VersionInv, Handled
<1>4. FailureRestores' /\ ImageSetChangesAtOnce' /\ LockIsDelivered'
  BY DEF FailureRestores, ImageSetChangesAtOnce, LockIsDelivered
<1> QED BY <1>2, <1>3, <1>4

-----------------------------------------------------------------------------
LEMMA InvNext == CheckoutInv /\ [Next]_vars => CheckoutInv'
<1> SUFFICES ASSUME CheckoutInv, [Next]_vars PROVE CheckoutInv'
  OBVIOUS
<1>1. ASSUME NEW s \in Sources, StartRun(s) PROVE CheckoutInv'
  BY <1>1, StartRunKeeps
<1>2. CASE Prepare
  BY <1>2, PrepareKeeps
<1>3. CASE Inspect
  BY <1>3, InspectKeeps
<1>4. CASE InspectCopySource \/ InspectStaged
  BY <1>4, InspectOtherKeeps
<1>5. CASE Stage
  BY <1>5, StageKeeps
<1>6. CASE DeliverImage
  BY <1>6, DeliverImageKeeps
<1>7. CASE ApplyImages
  BY <1>7, ApplyImagesKeeps
<1>8. CASE SetVersion \/ Build \/ WriteLock \/ WriteResult
  BY <1>8, SetVersionKeeps, BuildKeeps, WriteLockKeeps, WriteResultKeeps
<1>9. CASE Kill
  BY <1>9, FailsKeeps DEF Kill, Causes
<1>10. ASSUME NEW i \in Images, NEW p \in {"source", "proxy", "staging", "mirror"},
              NEW t \in Tags, NEW d \in Digests, MoveTag(i, p, t, d)
       PROVE  CheckoutInv'
  BY <1>10, MoveTagKeeps
<1>11. CASE UNCHANGED vars
  <2> USE <1>11 DEF vars, tree, work, job, CheckoutInv
  <2>1. TypeOK' /\ TreeInv' /\ VersionInv'
    BY DEF TypeOK, TreeInv, VersionInv
  <2>2. Handled' = Handled
    BY DEF Handled
  <2>3. WorkInv'
    BY <2>2 DEF WorkInv
  <2>4. FailureRestores' /\ ImageSetChangesAtOnce' /\ LockIsDelivered'
    BY DEF FailureRestores, ImageSetChangesAtOnce, LockIsDelivered
  <2> QED BY <2>1, <2>3, <2>4
<1> QED BY <1>1, <1>2, <1>3, <1>4, <1>5, <1>6, <1>7, <1>8, <1>9, <1>10, <1>11 DEF Next

\* In every reachable state the tree, the run's work and the versions are as
\* CheckoutInv says.
THEOREM CheckoutInvariant == Spec => []CheckoutInv
  BY InvInit, InvNext, PTL DEF Spec

\* However many images there are and whichever step of a run fails, a failed
\* build or lock leaves the Manifest and the version the run found, unless
\* the rollback itself fails.
THEOREM FailuresRestore == Spec => []FailureRestores
<1>1. CheckoutInv => FailureRestores
  BY DEF CheckoutInv
<1> QED BY <1>1, CheckoutInvariant, PTL

\* No failure and no kill leaves a Manifest of some old and some new images.
THEOREM ImageSetsAreWhole == Spec => []ImageSetChangesAtOnce
<1>1. CheckoutInv => ImageSetChangesAtOnce
  BY DEF CheckoutInv
<1> QED BY <1>1, CheckoutInvariant, PTL

\* The packaged Manifest pins every image to the digest the lock records,
\* whatever tags did between the lookups, the copies and the edits.
THEOREM LocksAreDelivered == Spec => []LockIsDelivered
<1>1. CheckoutInv => LockIsDelivered
  BY DEF CheckoutInv
<1> QED BY <1>1, CheckoutInvariant, PTL

\* A run that succeeds leaves lock, LPK, Manifest and version in agreement.
THEOREM PackagedTreesAgree == Spec => []PackagedTreeAgrees
<1>1. CheckoutInv => PackagedTreeAgrees
  BY DEF CheckoutInv, TreeInv, PackagedTreeAgrees
<1> QED BY <1>1, CheckoutInvariant, PTL

\* Only WriteLock changes the lock, with a version above the one it had or
\* for the source it had.
LEMMA LockStep ==
  ASSUME CheckoutInv, Next, lock' # lock
  PROVE  \/ lock'.version > lock.version
         \/ lock'.version = lock.version /\ lock'.source = lock.source
<1>1. WriteLock
  BY DEF Next, StartRun, Prepare, Inspect, InspectCopySource, Stage, InspectStaged, DeliverImage,
         ApplyImages, SetVersion, Build, WriteLock, WriteResult, Kill, MoveTag, Fails,
         RollsBack, DeliverFrom, tree
<1>2. pc = "lock" /\ lock'.source = source /\ lock'.version = lpk.version
  <2>1. ~RollsBack("lock", TRUE)
    BY DEF RollsBack
  <2> DEFINE images == [i \in Images |-> [digest |-> digest[i], runtime |-> plan[i].runtime]]
  <2>2. /\ pc = "lock"
        /\ lock' = [source |-> source, version |-> lpk.version, lpk |-> lpk, images |-> images]
    BY <1>1, <2>1, Zenon DEF WriteLock
  <2> HIDE DEF images
  <2> QED BY <2>2
<1>3. lpk.version = target
  BY <1>2 DEF CheckoutInv, TreeInv, Edited
<1> QED BY <1>2, <1>3 DEF CheckoutInv, VersionInv, Running

\* In one tree packaged versions never repeat for another source and never
\* go back.
THEOREM PackagedVersionsGrow == Spec => PackagedVersionsIncrease
<1>1. CheckoutInv /\ [Next]_vars
        => [\/ lock'.version > lock.version
            \/ lock'.version = lock.version /\ lock'.source = lock.source]_lock
  BY LockStep DEF vars, tree
<1> QED BY <1>1, CheckoutInvariant, PTL DEF Spec, PackagedVersionsIncrease
=============================================================================
