-------------------------- MODULE ImageCheckProofs --------------------------
(***************************************************************************)
(* Proofs about ImageCheck for any number of images, tags, digests,        *)
(* configurations and runs.  CheckInv is inductive, and so is ReleaseInv   *)
(* when the Manifests there are at first agree with their comments.        *)
(***************************************************************************)
EXTENDS ImageCheck, SequenceTheorems, TLAPS

-----------------------------------------------------------------------------
(* References, updates and the configuration.                              *)

\* The configuration in use has the fields of one, and digests are no markers.
LEMMA ProjectType ==
  ASSUME project \in DOMAIN Projects
  PROVE  /\ Projects[project] \in Project
         /\ Driver \in Images /\ Last \in Nat \ {0} /\ TagVersion \in [Tags -> Nat]
         /\ NoDigest \notin Digests /\ NoRef \notin Reference
         /\ \A i \in Images : Mode[i] \in Modes
         /\ Patch \in BOOLEAN /\ Publishes \in BOOLEAN /\ Keeps \in BOOLEAN
BY ImageCheckAssumption DEF Project, Mode, Patch, Publishes, Keeps

\* Pinning gives a reference a digest, and a copy is a pinned reference.
LEMMA PinnedType ==
  ASSUME NEW ref \in Reference, NEW digest \in Digests
  PROVE  /\ Pinned(ref, digest) \in Reference
         /\ ref.pin = NoDigest => Pinned(ref, digest).pin = digest
         /\ Copied(ref, digest) \in Reference
         /\ Copied(ref, digest).at = "store" /\ Copied(ref, digest).pin = digest
BY DEF Pinned, Copied, Reference, Places

\* The reference of the selected tag names no digest.
LEMMA SourceRefType ==
  ASSUME TypeOK
  PROVE  /\ SourceRef \in Reference /\ SourceRef.pin = NoDigest
         /\ SourceRef = [at |-> "source", tag |-> found.tag, pin |-> NoDigest]
BY DEF TypeOK, SourceRef, Reference, Places

\* A reference has a digest, or it has none.
LEMMA DigestType ==
  ASSUME NEW ref \in Reference \cup {NoRef}, NoRef \notin Reference
  PROVE  /\ DigestOf(ref) \in Digests \cup {NoDigest}
         /\ ref \in Reference => DigestOf(ref) = ref.pin
         /\ InStore(ref) \in BOOLEAN
BY DEF DigestOf, Reference, InStore

Edit == [runtime: Reference, upstream: Reference]

\* Updates that are complete are all written.
LEMMA ApplyUpdatesType ==
  ASSUME TypeOK, NEW old \in [Images -> Entry]
  PROVE  /\ Apply(old, updates) \in [Images -> Entry]
         /\ \A i \in Images :
              Apply(old, updates)[i] = IF i \in DOMAIN updates THEN updates[i] ELSE old[i]
<1>1. NoRef \notin Reference
  BY ProjectType DEF TypeOK
<1>2. \A i \in DOMAIN updates : updates[i] \in Entry
  BY DEF TypeOK, Entry
<1>3. Complete(updates)
  BY <1>1 DEF TypeOK, Complete
<1> QED BY <1>2, <1>3 DEF Apply, TypeOK

-----------------------------------------------------------------------------
(* What a run looks up.                                                    *)

\* The queue of a run: each image once, the driver first while a review waits.
LEMMA StartQueue ==
  ASSUME NEW images \in Selections, NEW waiting \in Nat, Last \in Nat \ {0}, Driver \in Images,
         waiting # 0 => Driver \in {images[k] : k \in DOMAIN images}
  PROVE  LET q == Prioritized(images, waiting)
         IN  /\ q \in Seq(Images) /\ Len(q) <= Last /\ q # <<>> /\ Len(images) \in Nat
             /\ \A j, k \in DOMAIN q : q[j] = q[k] => j = k
             /\ waiting # 0 => Head(q) = Driver
             /\ Len(images) = Last => Images \subseteq {q[k] : k \in DOMAIN q}
<1>1. /\ images \in Seq(Images) /\ Len(images) \in 1..Last /\ images # <<>>
      /\ \A j, k \in DOMAIN images : images[j] = images[k] => j = k
      /\ Len(images) = Last => Images \subseteq {images[k] : k \in DOMAIN images}
  <2>1. CASE images = [k \in Images |-> k]
    <3>1. images \in [1..Last -> Images]
      BY <2>1 DEF Images
    <3>2. images \in Seq(Images) /\ Len(images) = Last /\ DOMAIN images = 1..Last
      BY <3>1
    <3> QED BY <2>1, <3>2 DEF Images
  <2>2. CASE \E i \in Images : images = <<i>>
    BY <2>2 DEF Images
  <2> QED BY <2>1, <2>2 DEF Selections
<1>2. CASE waiting = 0
  BY <1>1, <1>2 DEF Prioritized
<1>3. CASE waiting # 0
  <2>1. PICK at \in DOMAIN images :
          /\ images[at] = Driver
          /\ Prioritized(images, waiting) =
               <<Driver>> \o SubSeq(images, 1, at - 1) \o SubSeq(images, at + 1, Len(images))
    BY <1>3 DEF Prioritized
  <2> DEFINE n == Len(images)
             left == SubSeq(images, 1, at - 1)
             right == SubSeq(images, at + 1, n)
             q == <<Driver>> \o left \o right
  <2>2. at \in 1..n /\ n \in Nat /\ DOMAIN images = 1..n
    BY <1>1
  <2> HIDE DEF n
  <2>11. n = Len(images)
    BY DEF n
  <2>12. \A k \in 1..n : images[k] \in Images
    BY <1>1, <2>11, ElementOfSeq
  <2>3. /\ left \in Seq(Images) /\ Len(left) = at - 1
        /\ \A k \in 1..(at - 1) : left[k] = images[k]
    <3>1. \A k \in 1..(at - 1) : images[k] \in Images
      BY <2>2, <2>12
    <3> QED BY <2>2, <3>1, SubSeqProperties
  <2>4. /\ right \in Seq(Images) /\ Len(right) = n - at
        /\ \A k \in 1..(n - at) : right[k] = images[at + k]
    <3>1. \A k \in (at + 1)..n : images[k] \in Images
      BY <2>2, <2>12
    <3>2. /\ right \in Seq(Images)
          /\ Len(right) = IF at + 1 <= n THEN n - (at + 1) + 1 ELSE 0
          /\ \A k \in 1..(n - (at + 1) + 1) : right[k] = images[at + 1 + k - 1]
      BY <2>2, <3>1, SubSeqProperties
    <3> HIDE DEF right
    <3>3. Len(right) = n - at
      BY <2>2, <3>2
    <3>4. ASSUME NEW k \in 1..(n - at) PROVE right[k] = images[at + k]
      <4>1. k \in 1..(n - (at + 1) + 1) /\ at + 1 + k - 1 = at + k
        BY <2>2
      <4> QED BY <3>2, <4>1
    <3> QED BY <3>2, <3>3, <3>4
  <2>5. /\ q \in Seq(Images) /\ Len(q) = n /\ DOMAIN q = 1..n
        /\ \A k \in 1..n : q[k] = IF k = 1 THEN Driver
                                  ELSE IF k <= at THEN images[k - 1] ELSE images[k]
    <3> HIDE DEF left, right
    <3>1. <<Driver>> \in Seq(Images) /\ Len(<<Driver>>) = 1 /\ <<Driver>>[1] = Driver
      OBVIOUS
    <3>2. PICK one : one = <<Driver>>
      OBVIOUS
    <3>3. PICK front : front = one \o left
      OBVIOUS
    <3>4. /\ front \in Seq(Images) /\ Len(front) = at
          /\ \A k \in 1..at : front[k] = IF k = 1 THEN Driver ELSE images[k - 1]
      BY <2>2, <2>3, <3>1, <3>2, <3>3
    <3>5. q = front \o right
      BY <3>2, <3>3
    <3> HIDE DEF q
    <3>6. /\ q \in Seq(Images) /\ Len(q) = Len(front) + Len(right)
          /\ \A k \in 1..(Len(front) + Len(right)) :
               q[k] = IF k <= Len(front) THEN front[k] ELSE right[k - Len(front)]
      BY <2>4, <3>4, <3>5, ConcatProperties
    <3>7. Len(front) = at /\ Len(right) = n - at /\ Len(q) = n /\ DOMAIN q = 1..n
      BY <2>2, <2>4, <3>4, <3>6
    <3>8. ASSUME NEW k \in 1..n
          PROVE  q[k] = IF k = 1 THEN Driver
                        ELSE IF k <= at THEN images[k - 1] ELSE images[k]
      <4>1. CASE k <= at
        BY <2>2, <3>4, <3>6, <3>7, <4>1
      <4>2. CASE k > at
        <5>1. k - at \in 1..(n - at) /\ at + (k - at) = k
          BY <2>2, <4>2
        <5>2. q[k] = right[k - at]
          BY <2>2, <3>6, <3>7, <4>2
        <5> QED BY <2>2, <2>4, <4>2, <5>1, <5>2
      <4> QED BY <2>2, <4>1, <4>2
    <3> QED BY <3>6, <3>7, <3>8
  <2> HIDE DEF left, right, q
  <2>6. ASSUME NEW j \in 1..n, NEW k \in 1..n, q[j] = q[k]
        PROVE  j = k
    <3> DEFINE Place(x) == IF x = 1 THEN at ELSE IF x <= at THEN x - 1 ELSE x
    <3>1. \A x \in 1..n : Place(x) \in 1..n /\ q[x] = images[Place(x)]
      BY <2>1, <2>2, <2>5
    <3>2. Place(j) = Place(k)
      <4> HIDE DEF Place
      <4> QED BY <1>1, <2>2, <2>6, <3>1
    <3> QED BY <2>2, <3>2
  <2>7. Images \subseteq {images[k] : k \in DOMAIN images} =>
          Images \subseteq {q[k] : k \in DOMAIN q}
    <3> SUFFICES ASSUME NEW i \in DOMAIN images
                 PROVE  \E k \in DOMAIN q : q[k] = images[i]
      OBVIOUS
    <3>1. CASE i = at
      <4>1. 1 \in 1..n /\ q[1] = images[i]
        BY <2>1, <2>2, <2>5, <3>1
      <4> QED BY <2>5, <4>1
    <3>2. CASE i < at
      <4>1. i + 1 \in 1..n /\ q[i + 1] = images[i]
        BY <2>2, <2>5, <3>2
      <4> QED BY <2>5, <4>1
    <3>3. CASE i > at
      BY <2>2, <2>5, <3>3
    <3> QED BY <2>2, <3>1, <3>2, <3>3
  <2>8. q # <<>> /\ Head(q) = Driver
    <3>1. 1 \in 1..n /\ q[1] = Driver
      BY <2>2, <2>5
    <3> QED BY <2>2, <2>5, <3>1
  <2>9. Prioritized(images, waiting) = q
    BY <2>1 DEF q, left, right, n
  <2>10. PICK p : p = q
    OBVIOUS
  <2>13. p \in Seq(Images) /\ Len(p) <= Last /\ p # <<>> /\ Head(p) = Driver
    <3>1. q \in Seq(Images) /\ Len(q) = n /\ n \in 1..Last
      BY <1>1, <2>5, <2>11
    <3>2. Len(p) = n /\ n <= Last
      BY <2>10, <3>1
    <3> QED BY <2>8, <2>10, <3>1, <3>2, Zenon
  <2>14. \A j, k \in DOMAIN p : p[j] = p[k] => j = k
    BY <2>5, <2>6, <2>10
  <2>15. Len(images) = Last => Images \subseteq {p[k] : k \in DOMAIN p}
    BY <1>1, <2>7, <2>10, Zenon
  <2> QED BY <1>1, <2>9, <2>10, <2>13, <2>14, <2>15
<1> QED BY <1>2, <1>3

\* What is left of the queue when its first image is done.
LEMMA RestOfQueue ==
  ASSUME TypeOK, RunInv, queue # <<>>
  PROVE  /\ Head(queue) \in Images /\ Head(queue) \in Pending
         /\ Tail(queue) \in Seq(Images) /\ Len(Tail(queue)) = Len(queue) - 1
         /\ Len(queue) \in Nat \ {0} /\ Len(Tail(queue)) <= Last
         /\ Len(queue) = 1 <=> Tail(queue) = <<>>
         /\ \A j, k \in DOMAIN Tail(queue) : Tail(queue)[j] = Tail(queue)[k] => j = k
         /\ {Tail(queue)[k] : k \in DOMAIN Tail(queue)} = Pending \ {Head(queue)}
<1>1. /\ queue \in Seq(Images) /\ Len(queue) \in Nat \ {0} /\ Len(queue) <= Last
      /\ Last \in Nat
  BY ProjectType DEF TypeOK
<1>2. /\ DOMAIN queue = 1..Len(queue) /\ Head(queue) = queue[1]
      /\ Tail(queue) \in Seq(Images) /\ Len(Tail(queue)) = Len(queue) - 1
      /\ DOMAIN Tail(queue) = 1..(Len(queue) - 1)
      /\ \A k \in 1..(Len(queue) - 1) : Tail(queue)[k] = queue[k + 1]
  BY <1>1
<1>3. \A j, k \in DOMAIN queue : queue[j] = queue[k] => j = k
  BY DEF RunInv
<1>4. ASSUME NEW j \in DOMAIN Tail(queue), NEW k \in DOMAIN Tail(queue),
             Tail(queue)[j] = Tail(queue)[k]
      PROVE  j = k
  <2>1. j + 1 \in DOMAIN queue /\ k + 1 \in DOMAIN queue /\ queue[j + 1] = queue[k + 1]
    BY <1>1, <1>2, <1>4
  <2>2. j + 1 = k + 1
    BY <1>3, <2>1
  <2> QED BY <1>1, <1>2, <2>2
<1>5. PICK rest : rest = Tail(queue)
  OBVIOUS
<1>6. {rest[k] : k \in DOMAIN rest} = Pending \ {Head(queue)}
  <2>1. ASSUME NEW k \in DOMAIN rest PROVE rest[k] \in Pending \ {Head(queue)}
    BY <1>1, <1>2, <1>3, <1>5 DEF Pending
  <2>2. ASSUME NEW k \in DOMAIN queue, queue[k] # Head(queue)
        PROVE  \E j \in DOMAIN rest : rest[j] = queue[k]
    <3>1. k - 1 \in DOMAIN rest /\ rest[k - 1] = queue[k]
      BY <1>1, <1>2, <1>5, <2>2
    <3> QED BY <3>1
  <2> QED BY <2>1, <2>2 DEF Pending
<1>7. Head(queue) \in Images /\ Head(queue) \in Pending
  BY <1>1, <1>2 DEF Pending
<1>8. Len(queue) = 1 <=> Tail(queue) = <<>>
  BY <1>1, <1>2, EmptySeq
<1> QED BY <1>1, <1>2, <1>4, <1>5, <1>6, <1>7, <1>8

-----------------------------------------------------------------------------
(* What a delivery makes of an image: DeliverImage with its local           *)
(* definitions by name.                                                    *)

ResultType == [runtime: Reference \cup {NoRef}, current: Digests \cup {NoDigest},
               changed: BOOLEAN, moved: BOOLEAN]

ResultsOf(i) ==
  IF MustDeliver(i) THEN Deliver(Request(i), served[i])
                    ELSE {Result(manifest[i].runtime, NoDigest, FALSE, FALSE)}

RuntimeOf(i, result) ==
  IF result.runtime = NoRef THEN manifest[i].runtime ELSE result.runtime

Needed(i, result) == NeedsUpdate(i, [result EXCEPT !.runtime = RuntimeOf(i, result)])

EditOf(i, result) == [runtime |-> RuntimeOf(i, result), upstream |-> Upstream(i)]

\* The request names the selected tag, what was found under it, and the entry.
LEMMA RequestFields ==
  ASSUME NEW i
  PROVE  /\ Request(i).mode = Mode[i] /\ Request(i).match = Match[i]
         /\ Request(i).ref = SourceRef /\ Request(i).digest = found.digest
         /\ Request(i).current = manifest[i].runtime
         /\ Request(i).baseline = IF Mutable(i) THEN DigestOf(manifest[i].upstream) ELSE NoDigest
         /\ Request(i).mutable = Mutable(i) /\ Request(i).dryRun = dryRun
BY DEF Request

\* Whether the entry of a mutable image is written, and what is written: the
\* digest that was found, or nothing when it is the one already there.  The
\* version stays when the digest the application runs stays.
LEMMA MutableDelivery ==
  ASSUME TypeOK, NEW i \in Images, Mutable(i), found.digest \in Digests,
         NEW result \in ResultsOf(i)
  PROVE  /\ result \in ResultType
         /\ Needed(i, result) <=> result.changed \/ result.moved
         /\ Needed(i, result) /\ ~dryRun =>
              /\ EditOf(i, result) \in Edit
              /\ EditOf(i, result).runtime.pin = found.digest
              /\ EditOf(i, result).upstream.pin = found.digest
              /\ Mode[i] = "lazycat" => InStore(EditOf(i, result).runtime)
              /\ ~result.changed /\ AgreeIn(Mode[i], manifest[i])
                   /\ DigestOf(manifest[i].runtime) # NoDigest =>
                     DigestOf(manifest[i].runtime) = found.digest
         /\ ~Needed(i, result) <=> FixedTo(i, manifest[i], found.tag, found.digest)
<1> DEFINE old == manifest[i]
           ref == SourceRef
           digest == found.digest
<1>1. /\ NoDigest \notin Digests /\ NoRef \notin Reference /\ Mode[i] \in Modes
      /\ old.runtime \in Reference \cup {NoRef} /\ old.upstream \in Reference \cup {NoRef}
      /\ dryRun \in BOOLEAN /\ digest \in Digests
  BY ProjectType DEF TypeOK, Entry
<1>2. /\ ref \in Reference /\ ref.pin = NoDigest
      /\ Pinned(ref, digest) \in Reference /\ Pinned(ref, digest).pin = digest
      /\ Copied(ref, digest) \in Reference /\ Copied(ref, digest).pin = digest
      /\ Copied(ref, digest) # NoRef /\ Copied(ref, digest).at = "store"
  BY <1>1, SourceRefType, PinnedType
<1>3. /\ Upstream(i) = Pinned(ref, digest)
      /\ result \in Deliver(Request(i), served[i])
  BY DEF Upstream, ResultsOf, MustDeliver
<1>4. /\ DigestOf(old.runtime) \in Digests \cup {NoDigest}
      /\ DigestOf(old.upstream) \in Digests \cup {NoDigest}
      /\ InStore(old.runtime) \in BOOLEAN
  BY <1>1, DigestType
<1>5. ASSUME NEW r \in Reference
      PROVE  DigestOf(r) = r.pin /\ r # NoRef /\ (InStore(r) <=> r.at = "store")
  BY <1>1, <1>5 DEF DigestOf, InStore
<1>6. ASSUME result \in ResultType
      PROVE  Needed(i, result) <=> result.changed \/ result.moved
  BY <1>6 DEF Needed, NeedsUpdate, ResultType
<1> HIDE DEF ref, digest
<1>7. CASE Mode[i] = "direct"
  <2>1. result \in DeliverDirect(Request(i))
    BY <1>3, <1>7, RequestFields DEF Deliver
  <2>10. PICK q : q = Request(i)
    OBVIOUS
  <2>11. /\ q.ref = ref /\ q.digest = digest /\ q.current = old.runtime
         /\ q.mutable /\ result \in DeliverDirect(q)
    BY <2>1, <2>10, RequestFields DEF ref, digest
  <2>12. PICK d \in {DigestOf(q.current)} \ {NoDigest} :
           result = Result([q.ref EXCEPT !.pin = q.digest], d, d # q.digest, FALSE)
    BY <2>11 DEF DeliverDirect
  <2>2. /\ d \in {DigestOf(old.runtime)} \ {NoDigest}
        /\ result = Result([ref EXCEPT !.pin = digest], d, d # digest, FALSE)
    BY <2>11, <2>12
  <2>3. [ref EXCEPT !.pin = digest] \in Reference /\ [ref EXCEPT !.pin = digest].pin = digest
    BY <1>1, <1>2 DEF Reference
  <2> DEFINE runtime == [ref EXCEPT !.pin = digest]
  <2> HIDE DEF runtime
  <2>4. /\ result.runtime = runtime /\ result.changed = (d # digest) /\ ~result.moved
        /\ result \in ResultType
    BY <1>4, <2>2, <2>3 DEF Result, ResultType, runtime
  <2>5. RuntimeOf(i, result) = runtime
    BY <1>1, <2>3, <2>4 DEF RuntimeOf, runtime
  <2>6. FixedTo(i, old, found.tag, digest) <=> d = digest
    BY <1>7, <2>2 DEF FixedTo
  <2> QED BY <1>2, <1>3, <1>6, <1>7, <2>2, <2>3, <2>4, <2>5, <2>6
       DEF EditOf, Edit, runtime, digest
<1>8. CASE Mode[i] = "mirror"
  <2> DEFINE mirrored == [at |-> "mirror", tag |-> ref.tag, pin |-> NoDigest]
             before0 == DigestOf(old.runtime)
  <2>1. result \in DeliverMirror(Request(i), served[i])
    BY <1>3, <1>8, RequestFields DEF Deliver
  <2>2. /\ before0 # NoDigest
        /\ result = Result(IF before0 # digest THEN Pinned(mirrored, digest) ELSE old.runtime,
                           before0, before0 # digest, FALSE)
    BY <2>1, RequestFields DEF DeliverMirror, ref, digest
  <2>3. mirrored \in Reference /\ mirrored.pin = NoDigest
    BY <1>2 DEF Reference, Places
  <2> HIDE DEF mirrored
  <2>4. Pinned(mirrored, digest) \in Reference /\ Pinned(mirrored, digest).pin = digest
    BY <1>1, <2>3, PinnedType
  <2>5. /\ result \in ResultType /\ result.changed = (before0 # digest) /\ ~result.moved
        /\ before0 # digest => result.runtime = Pinned(mirrored, digest)
    BY <1>1, <1>4, <2>2, <2>4 DEF Result, ResultType
  <2>6. before0 # digest => RuntimeOf(i, result) = Pinned(mirrored, digest)
    BY <1>1, <2>4, <2>5 DEF RuntimeOf
  <2>7. FixedTo(i, old, found.tag, digest) <=> before0 = digest
    BY <1>8 DEF FixedTo
  <2> QED BY <1>2, <1>3, <1>6, <1>8, <2>4, <2>5, <2>6, <2>7 DEF EditOf, Edit, digest
<1>9. CASE Mode[i] = "lazycat"
  <2> DEFINE baseline == DigestOf(old.upstream)
             copy == Copied(ref, digest)
  <2> HIDE DEF copy
  <2>1. result \in DeliverLazyCat(Request(i), served[i])
    BY <1>3, <1>9, RequestFields DEF Deliver
  <2>2. copy \in Reference /\ copy.pin = digest /\ copy # NoRef /\ InStore(copy)
    BY <1>2, <1>5 DEF copy
  <2>3. CASE baseline # NoDigest
    <3> DEFINE moved0 == baseline # digest \/ ~InStore(old.runtime)
    <3>1. result = Result(IF ~moved0 \/ dryRun THEN old.runtime ELSE copy,
                          baseline, baseline # digest, moved0)
      <4>1. PICK q : q = Request(i)
        OBVIOUS
      <4>2. /\ q.ref = ref /\ q.digest = digest /\ q.current = old.runtime
            /\ q.mutable /\ q.baseline = baseline /\ q.dryRun = dryRun
            /\ result \in DeliverLazyCat(q, served[i])
        BY <2>1, <4>1, RequestFields DEF ref, digest
      <4>3. PICK kept : kept = Result(old.runtime, baseline, baseline # digest, moved0)
        OBVIOUS
      <4>4. result = IF ~moved0 \/ dryRun THEN kept ELSE [kept EXCEPT !.runtime = copy]
        BY <2>3, <4>2, <4>3 DEF DeliverLazyCat, Result, copy
      <4>5. [kept EXCEPT !.runtime = copy] = Result(copy, baseline, baseline # digest, moved0)
        BY <4>3 DEF Result
      <4> QED BY <4>3, <4>4, <4>5
    <3>2. /\ result \in ResultType /\ result.changed = (baseline # digest)
          /\ result.moved = moved0
          /\ moved0 /\ ~dryRun => result.runtime = copy
      BY <1>1, <1>4, <2>2, <3>1 DEF Result, ResultType
    <3>3. moved0 /\ ~dryRun => RuntimeOf(i, result) = copy
      BY <2>2, <3>2 DEF RuntimeOf
    <3>4. FixedTo(i, old, found.tag, digest) <=> ~moved0
      BY <1>9 DEF FixedTo
    <3> QED BY <1>2, <1>3, <1>6, <2>2, <2>3, <3>2, <3>3, <3>4 DEF EditOf, Edit, AgreeIn, digest
  <2>4. CASE baseline = NoDigest /\ dryRun
    <3>1. ~InStore(old.runtime) /\ result = Result(old.runtime, NoDigest, FALSE, TRUE)
      BY <2>1, <2>4, RequestFields DEF DeliverLazyCat
    <3>2. result \in ResultType /\ result.moved
      BY <1>1, <3>1 DEF Result, ResultType
    <3>3. ~FixedTo(i, old, found.tag, digest)
      BY <1>9, <3>1 DEF FixedTo
    <3> QED BY <1>6, <2>4, <3>2, <3>3 DEF digest
  <2>5. CASE baseline = NoDigest /\ ~dryRun
    <3> DEFINE changed0 == InStore(old.runtime) /\ copy # old.runtime
    <3>1. result = Result(copy, NoDigest, changed0, TRUE)
      BY <2>1, <2>5, RequestFields DEF DeliverLazyCat, copy, ref, digest
    <3>2. /\ result \in ResultType /\ result.changed = changed0 /\ result.moved
          /\ result.runtime = copy
      BY <1>1, <1>4, <2>2, <3>1 DEF Result, ResultType
    <3>3. RuntimeOf(i, result) = copy
      BY <2>2, <3>2 DEF RuntimeOf
    <3>4. ~FixedTo(i, old, found.tag, digest)
      BY <1>1, <1>9, <2>5 DEF FixedTo, digest
    <3>5. /\ ~changed0 /\ AgreeIn(Mode[i], old) /\ DigestOf(old.runtime) # NoDigest =>
               DigestOf(old.runtime) = digest
      BY <1>5, <1>9, <2>2, <2>5 DEF AgreeIn
    <3> QED BY <1>2, <1>3, <1>6, <2>2, <2>5, <3>2, <3>3, <3>4, <3>5 DEF EditOf, Edit, digest
  <2> QED BY <1>1, <2>3, <2>4, <2>5
<1> QED BY <1>1, <1>7, <1>8, <1>9 DEF Modes

\* The entry of any other image is written unless it says what the selected tag
\* makes of the image; what the store has of an image that was selected by a time
\* is compared again.
LEMMA PlainDelivery ==
  ASSUME TypeOK, NEW i \in Images, ~Mutable(i), found.digest \in Digests,
         NEW result \in ResultsOf(i)
  PROVE  /\ result \in ResultType /\ ~result.changed
         /\ RuntimeOf(i, result) \in Reference \cup {NoRef} /\ Upstream(i) \in Reference
         /\ ~dryRun /\ served[i]["source"][found.tag] = found.digest =>
              /\ FixedTo(i, EditOf(i, result), found.tag, found.digest)
              /\ ~Needed(i, result) <=> FixedTo(i, manifest[i], found.tag, found.digest)
<1> DEFINE old == manifest[i]
           ref == SourceRef
           digest == found.digest
           Kept == served[i]["source"][found.tag] = found.digest
<1>1. /\ NoDigest \notin Digests /\ NoRef \notin Reference /\ Mode[i] \in Modes
      /\ old.runtime \in Reference \cup {NoRef} /\ old.upstream \in Reference \cup {NoRef}
      /\ dryRun \in BOOLEAN /\ digest \in Digests /\ served[i] \in Served /\ found.tag \in Tags
  BY ProjectType DEF TypeOK, Entry
<1>2. /\ ref \in Reference /\ ref.pin = NoDigest
      /\ ref = [at |-> "source", tag |-> found.tag, pin |-> NoDigest] /\ ref # NoRef
  BY <1>1, SourceRefType
<1>3. Upstream(i) = ref
  BY DEF Upstream
<1>4. ASSUME NEW r \in Reference
      PROVE  r # NoRef /\ (InStore(r) <=> r.at = "store")
  BY <1>1, <1>4 DEF InStore
<1>5. ASSUME result \in ResultType, ~dryRun
      PROVE  ~Needed(i, result) <=> old.upstream = ref /\ old.runtime = RuntimeOf(i, result)
  BY <1>5, <1>1 DEF Needed, NeedsUpdate, ResultType, Modes
<1> HIDE DEF ref, digest
<1>6. CASE Mode[i] = "direct"
  <2>1. result = Result(ref, NoDigest, FALSE, FALSE)
    BY <1>6, RequestFields DEF ResultsOf, MustDeliver, Deliver, DeliverDirect, ref
  <2>2. result \in ResultType /\ ~result.changed /\ RuntimeOf(i, result) = ref
    BY <1>1, <1>2, <2>1 DEF Result, ResultType, RuntimeOf
  <2> QED BY <1>2, <1>3, <1>5, <1>6, <2>2 DEF EditOf, FixedTo
<1>7. CASE Mode[i] = "mirror"
  <2> DEFINE mirrored == [ref EXCEPT !.at = "mirror"]
  <2>1. mirrored = [at |-> "mirror", tag |-> ref.tag, pin |-> NoDigest]
    BY <1>2
  <2>2. mirrored \in Reference
    BY <1>2, <2>1 DEF Reference, Places
  <2> HIDE DEF mirrored
  <2>3. result = Result(mirrored, NoDigest, FALSE, FALSE)
    BY <1>7, <2>1, RequestFields DEF ResultsOf, MustDeliver, Deliver, DeliverMirror, ref
  <2>4. result \in ResultType /\ ~result.changed /\ RuntimeOf(i, result) = mirrored
    BY <1>1, <2>2, <2>3 DEF Result, ResultType, RuntimeOf
  <2> QED BY <1>2, <1>3, <1>5, <1>7, <2>2, <2>4 DEF EditOf, FixedTo, mirrored
<1>8. CASE Mode[i] = "lazycat"
  <2> DEFINE copy == Copied(ref, Content(served[i], ref))
  <2>1. /\ Content(served[i], ref) = served[i]["source"][found.tag]
        /\ Content(served[i], ref) \in Digests
    BY <1>1, <1>2 DEF Content, Served, Places
  <2>2. copy \in Reference /\ InStore(copy) /\ copy # NoRef
    BY <1>2, <1>4, <2>1, PinnedType
  <2>3. Kept => copy = Copied(ref, digest)
    BY <2>1 DEF digest
  <2> HIDE DEF copy
  <2>4. FixedTo(i, old, found.tag, digest) <=>
          /\ old.upstream = ref /\ InStore(old.runtime)
          /\ i \in Projects[project].sorted => old.runtime = Copied(ref, digest)
    BY <1>2, <1>8 DEF FixedTo
  <2>5. FixedTo(i, EditOf(i, result), found.tag, digest) <=>
          /\ InStore(RuntimeOf(i, result))
          /\ i \in Projects[project].sorted => RuntimeOf(i, result) = Copied(ref, digest)
    BY <1>2, <1>3, <1>8 DEF FixedTo, EditOf
  <2>6. MustDeliver(i) <=>
          \/ i \in Projects[project].sorted \/ old.upstream # ref \/ ~InStore(old.runtime)
    BY <1>8 DEF MustDeliver, ref
  <2>7. CASE MustDeliver(i)
    <3>1. result \in DeliverLazyCat(Request(i), served[i])
      BY <1>8, <2>7, RequestFields DEF ResultsOf, Deliver
    <3>2. result = Result(IF dryRun THEN NoRef ELSE copy, NoDigest, FALSE, FALSE)
      <4>1. PICK q : q = Request(i)
        OBVIOUS
      <4>2. q.ref = ref /\ ~q.mutable /\ q.dryRun = dryRun /\ result \in DeliverLazyCat(q, served[i])
        BY <3>1, <4>1, RequestFields DEF ref
      <4> QED BY <4>2 DEF DeliverLazyCat, copy
    <3>3. result \in ResultType /\ ~result.changed
      BY <1>1, <2>2, <3>2 DEF Result, ResultType
    <3>4. /\ RuntimeOf(i, result) \in Reference \cup {NoRef}
          /\ ~dryRun => RuntimeOf(i, result) = copy
      BY <1>1, <2>2, <3>2 DEF Result, RuntimeOf
    <3> QED BY <1>2, <1>3, <1>5, <2>2, <2>3, <2>4, <2>5, <2>6, <2>7, <3>3, <3>4 DEF digest
  <2>8. CASE ~MustDeliver(i)
    <3>1. /\ result = Result(old.runtime, NoDigest, FALSE, FALSE)
          /\ InStore(old.runtime) /\ old.upstream = ref /\ i \notin Projects[project].sorted
      BY <2>6, <2>8 DEF ResultsOf
    <3>2. result \in ResultType /\ ~result.changed /\ RuntimeOf(i, result) = old.runtime
      BY <1>1, <3>1 DEF Result, ResultType, RuntimeOf
    <3> QED BY <1>1, <1>2, <1>3, <1>5, <2>4, <2>5, <3>1, <3>2 DEF digest
  <2> QED BY <2>7, <2>8
<1> QED BY <1>1, <1>6, <1>7, <1>8 DEF Modes

-----------------------------------------------------------------------------
(* CheckInv is kept.                                                       *)

\* The configuration does not change, and neither does what depends on it alone.
LEMMA SameProject ==
  ASSUME UNCHANGED project
  PROVE  /\ Mode' = Mode /\ Patch' = Patch /\ Keeps' = Keeps /\ Publishes' = Publishes
         /\ \A i : Mutable(i)' <=> Mutable(i)
         /\ \A i, entry, tag, digest :
              FixedTo(i, entry, tag, digest)' <=> FixedTo(i, entry, tag, digest)
BY DEF Mode, Patch, Keeps, Publishes, Mutable, FixedTo

\* Nothing is fixed or waits at first.
LEMMA CheckInit == Init => CheckInv
<1> SUFFICES ASSUME Init PROVE CheckInv
  OBVIOUS
<1> USE DEF Init
<1>1. /\ Projects[project] \in Project /\ NoDigest \notin Digests
      /\ Driver \in Images /\ Last \in Nat \ {0}
  BY ProjectType
<1>2. manifest \in [Images -> Entry]
  BY <1>1 DEF Project
<1>3. served \in [Images -> Served]
  BY DEF Served
<1>4. queue \in Seq(Images) /\ Len(queue) = 0 /\ DOMAIN queue = {}
  OBVIOUS
<1>5. DOMAIN updates = {}
  BY DEF NoUpdates
<1>6. head \in [manifest: [Images -> Entry], version: Nat]
  BY <1>2
<1>7. newest[Driver] \in Tags
  BY <1>1
<1>8. TypeOK
  <2>1. /\ found \in [tag: Tags, digest: Digests \cup {NoDigest}]
        /\ queue \in Seq(Images) /\ Len(queue) <= Last /\ newest \in [Images -> Tags]
    BY <1>1, <1>4, <1>7
  <2>2. DOMAIN updates \subseteq Images /\ \A i \in DOMAIN updates : updates[i] \in Edit
    BY <1>5
  <2>3. /\ review \in Nat /\ before \in Nat /\ target \in Nat /\ version \in Nat
        /\ {dryRun, full, planned, changed, settled, repeated, moved} \subseteq BOOLEAN
        /\ copied \subseteq Images
        /\ released \subseteq [version: Nat, digest: Digests \cup {NoDigest}]
    OBVIOUS
  <2> QED BY <1>2, <1>3, <1>6, <2>1, <2>2, <2>3 DEF TypeOK, Edit
<1>9. RunInv /\ FreshInv /\ GateInv /\ SettleInv
  BY <1>4, <1>5 DEF RunInv, FreshInv, GateInv, SettleInv, Pending, Running, PausedCopiesNothing
<1> QED BY <1>8, <1>9 DEF CheckInv

\* A step that stops leaves a tree that is not settled.
LEMMA StopsKeeps ==
  ASSUME CheckInv, NEW outcome \in {"failed", "paused", "closed"}, NEW left,
         Stops(outcome, left), left.manifest \in [Images -> Entry], left.version \in Nat,
         UNCHANGED <<project, job, runs>>, outcome = "paused" => copied = {}
  PROVE  CheckInv'
<1> USE DEF CheckInv, Stops, env, work, job
<1>1. Keeps' = Keeps /\ Keeps \in BOOLEAN
  BY SameProject, ProjectType DEF TypeOK
<1>2. TypeOK'
  BY <1>1 DEF TypeOK
<1>3. RunInv'
  BY DEF RunInv, Pending
<1>4. FreshInv'
  BY <1>1 DEF FreshInv, Running
<1>5. GateInv'
  BY DEF GateInv, PausedCopiesNothing
<1>6. SettleInv'
  BY DEF SettleInv, Running
<1> QED BY <1>2, <1>3, <1>4, <1>5, <1>6

\* So does one that fails before it has done anything.
LEMMA FailsKeeps ==
  ASSUME CheckInv, Fails, UNCHANGED <<project, job, runs>>
  PROVE  CheckInv'
BY StopsKeeps DEF Fails, CheckInv, TypeOK

\* A run starts with nothing done; it repeats a check when its tree is settled.
LEMMA StartCheckKeeps ==
  ASSUME CheckInv, NEW images \in Selections, NEW dry \in BOOLEAN,
         NEW waiting \in Projects[project].reviews, StartCheck(images, dry, waiting)
  PROVE  CheckInv'
<1> USE DEF CheckInv
<1> DEFINE q == Prioritized(images, waiting)
<1>1. /\ Projects[project] \in Project /\ Driver \in Images /\ Last \in Nat \ {0}
      /\ waiting \in Nat /\ settled \in BOOLEAN
  BY ProjectType DEF TypeOK, Project
<1>2. waiting # 0 => Driver \in {images[k] : k \in DOMAIN images} /\ ~dry
  BY DEF StartCheck
<1>3. /\ q \in Seq(Images) /\ Len(q) <= Last /\ q # <<>> /\ Len(images) \in Nat
      /\ \A j, k \in DOMAIN q : q[j] = q[k] => j = k
      /\ waiting # 0 => Head(q) = Driver
      /\ Len(images) = Last => Images \subseteq {q[k] : k \in DOMAIN q}
  BY <1>1, <1>2, StartQueue
<1>4. /\ pc' = "select" /\ dryRun' = dry /\ review' = waiting /\ before' = version
      /\ full' = (Len(images) = Last) /\ repeated' = (settled /\ ~dry) /\ moved' = FALSE
      /\ queue' = q /\ planned' = FALSE
      /\ DOMAIN updates' = {} /\ copied' = {} /\ changed' = FALSE /\ target' = version
      /\ UNCHANGED <<project, served, newest, moves, head, released, settled, manifest, version>>
      /\ UNCHANGED found /\ pc \notin Running
  BY DEF StartCheck, env, hist, tree, NoUpdates
<1> HIDE DEF q
<1>5. TypeOK'
  BY <1>1, <1>3, <1>4 DEF TypeOK, Running
<1>6. Pending' = {q[k] : k \in DOMAIN q}
  BY <1>4 DEF Pending
<1>7. RunInv'
  BY <1>3, <1>4 DEF RunInv
<1>8. FreshInv'
  BY <1>4, SameProject DEF FreshInv
<1>9. GateInv'
  BY <1>2, <1>3, <1>4 DEF GateInv, PausedCopiesNothing
<1>10. SettleInv'
  <2>1. settled' => (\A i \in Images : Fixed(i, manifest[i])') /\ FixedVersion(version)'
    BY <1>4, SameProject DEF SettleInv, Fixed, FixedVersion
  <2>2. full' => Images \subseteq Pending'
    BY <1>3, <1>4, <1>6
  <2> QED BY <1>1, <1>4, <2>1, <2>2 DEF SettleInv
<1> QED BY <1>5, <1>7, <1>8, <1>9, <1>10

\* What the gate expects: the version of the tag, or the next one for a mutable
\* image that has another digest than the comment says.
LEMMA PlansMade ==
  ASSUME TypeOK, NEW digest, NEW tag, NEW plan \in Plans(digest, tag)
  PROVE  /\ plan.change \in BOOLEAN
         /\ ~Patch => plan.version = TagVersion[tag]
         /\ Patch => plan.version = IF plan.change THEN version + 1 ELSE version
<1>1. Patch \in BOOLEAN
  BY ProjectType DEF TypeOK
<1>2. CASE ~Patch
  <2>1. plan = [change |-> FALSE, version |-> TagVersion[tag]]
    BY <1>2 DEF Plans
  <2> QED BY <1>2, <2>1
<1>3. CASE Patch /\ DigestOf(manifest[Driver].upstream) # NoDigest
  <2> DEFINE changes == DigestOf(manifest[Driver].upstream) # digest
  <2>1. plan = [change |-> changes, version |-> IF changes THEN version + 1 ELSE version]
    BY <1>3 DEF Plans
  <2> QED BY <1>3, <2>1
<1>4. CASE Patch /\ DigestOf(manifest[Driver].upstream) = NoDigest
  <2>1. plan = [change |-> FALSE, version |-> version]
    BY <1>4 DEF Plans
  <2> QED BY <1>4, <2>1
<1> QED BY <1>1, <1>2, <1>3, <1>4

\* What the gate lets pass is newer than the review, by the version planned for
\* the digest that was looked up.
LEMMA SelectKeeps ==
  ASSUME CheckInv, Select
  PROVE  CheckInv'
<1> USE DEF CheckInv
<1> DEFINE i == Head(queue)
           tag == newest[i]
           digest == served[i]["source"][tag]
           gated == review # 0 /\ i = Driver
<1>1. pc = "select" /\ UNCHANGED <<project, job, runs>> /\ queue # <<>>
  BY DEF Select, RunInv
<1>2. CASE Fails
  BY <1>1, <1>2, FailsKeeps
<1>3. CASE gated /\ Stops("paused", [manifest |-> manifest, version |-> version])
  <2>1. copied = {}
    BY <1>1, <1>3, RestOfQueue DEF GateInv
  <2> QED BY <1>1, <1>3, <2>1, StopsKeeps DEF TypeOK
<1>4. CASE /\ gated => \E plan \in Plans(digest, tag) :
                         plan.version > review /\ planned' = plan.change
           /\ ~gated => planned' = FALSE
           /\ found' = [tag |-> tag, digest |-> digest] /\ pc' = "deliver"
           /\ UNCHANGED <<env, hist, tree, queue, updates, copied, changed, target, moved>>
  <2>1. i \in Images /\ tag \in Tags /\ digest \in Digests
    BY <1>1, RestOfQueue DEF TypeOK, Served, Places
  <2> HIDE DEF i, tag, digest
  <2>2. \A plan \in Plans(digest, tag) : plan.change \in BOOLEAN
    BY PlansMade
  <2>3. /\ UNCHANGED <<served, newest, moves, head, released, settled, manifest, version, queue>>
        /\ UNCHANGED <<dryRun, review, before, full, repeated>>
        /\ UNCHANGED <<updates, copied, changed, target, moved, project, runs>>
        /\ pc' = "deliver" /\ found' = [tag |-> tag, digest |-> digest]
        /\ planned' \in BOOLEAN
    BY <1>1, <1>4, <2>2 DEF env, hist, tree, job
  <2>4. TypeOK'
    BY <2>1, <2>3 DEF TypeOK, Running
  <2>5. Pending' = Pending /\ (Packages' <=> Packages)
    BY <2>3 DEF Pending, Packages
  <2>6. RunInv'
    BY <1>1, <2>1, <2>3, <2>5 DEF RunInv
  <2>7. FreshInv'
    BY <1>1, <2>3, SameProject DEF FreshInv, Running
  <2>8. GateInv'
    <3>1. Plans(found.digest, found.tag)' = Plans(digest, tag)
      BY <2>3, SameProject DEF Plans
    <3>2. review # 0 /\ i = Driver =>
            \E plan \in Plans(found.digest, found.tag)' :
              plan.version > review /\ plan.change = planned'
      BY <1>4, <3>1
    <3> QED BY <1>1, <2>3, <2>5, <3>2 DEF GateInv, PausedCopiesNothing, i
  <2>9. SettleInv'
    <3>1. \A j \in Images : \A entry : Fixed(j, entry)' <=> Fixed(j, entry)
      BY <2>3, SameProject DEF Fixed
    <3>2. \A j \in Images : Made(j)' = Made(j)
      BY <2>3 DEF Made
    <3>3. \A v : FixedVersion(v)' <=> FixedVersion(v)
      BY <2>3, SameProject DEF FixedVersion
    <3>4. pc' = "deliver" /\ ~moved' =>
            /\ found'.tag = newest'[Head(queue')]
            /\ found'.digest = served'[Head(queue')]["source"][newest'[Head(queue')]]
      BY <2>3 DEF i, tag, digest
    <3> QED BY <1>1, <2>3, <2>5, <3>1, <3>2, <3>3, <3>4 DEF SettleInv, Running
  <2> QED BY <2>4, <2>6, <2>7, <2>8, <2>9
<1> QED BY <1>2, <1>3, <1>4 DEF Select

-----------------------------------------------------------------------------
(* The image that was looked up is delivered.                              *)

\* DeliverImage, when it delivers image i with this result.
Delivers(i, result) ==
  /\ PlanFollowed(i, result)
  /\ Needed(i, result) /\ ~dryRun => RuntimeOf(i, result) # NoRef
  /\ copied' \in {copied, copied \cup {i}}
  /\ changed' = (changed \/ Needed(i, result))
  /\ updates' = IF Needed(i, result) /\ ~dryRun
                THEN [j \in DOMAIN updates \cup {i} |->
                        IF j = i THEN EditOf(i, result) ELSE updates[j]]
                ELSE updates
  /\ target' = IF i = Driver THEN DriverVersion(result) ELSE target
  /\ queue' = Tail(queue) /\ planned' = FALSE
  /\ pc' = IF Len(queue) = 1 THEN "apply" ELSE "select"
  /\ UNCHANGED <<env, hist, tree, found, moved>>

\* A delivery fails, or it has one of these results.
LEMMA DeliverCases ==
  ASSUME DeliverImage
  PROVE  /\ pc = "deliver" /\ UNCHANGED <<project, job, runs>>
         /\ Fails \/ \E result \in ResultsOf(Head(queue)) : Delivers(Head(queue), result)
BY DEF DeliverImage, Delivers, ResultsOf, RuntimeOf, Needed, EditOf

\* The entry that is written is complete, and the version is a number.  When what
\* was looked up is still served, the image is fixed then, and its entry is not
\* written when it was fixed before.
LEMMA DeliveredEdit ==
  ASSUME TypeOK, RunInv, pc = "deliver", NEW i \in Images, i \in Pending,
         NEW result \in ResultsOf(i), Delivers(i, result)
  PROVE  /\ result.changed \in BOOLEAN
         /\ Needed(i, result) /\ ~dryRun => EditOf(i, result) \in Edit
         /\ DOMAIN updates' \subseteq DOMAIN updates \cup {i}
         /\ \A j \in DOMAIN updates' : updates'[j] \in Edit
         /\ \A j \in Images : j # i => Made(j)' = Made(j)
         /\ Made(i)' = IF Needed(i, result) /\ ~dryRun THEN EditOf(i, result) ELSE manifest[i]
         /\ target' \in Nat
         /\ ~dryRun /\ found.tag = newest[i] /\ found.digest = served[i]["source"][newest[i]] =>
              /\ Fixed(i, Made(i)')
              /\ Fixed(i, manifest[i]) => ~Needed(i, result)
         /\ Mutable(i) /\ ~Needed(i, result) => ~result.changed
<1>1. /\ found.digest \in Digests /\ NoRef \notin Reference /\ Driver \in Images
      /\ TagVersion \in [Tags -> Nat] /\ found.tag \in Tags /\ version \in Nat /\ target \in Nat
      /\ Patch \in BOOLEAN /\ Mode[i] \in Modes /\ Mutable(i) \in BOOLEAN
  BY ProjectType DEF RunInv, TypeOK, Mutable
<1> DEFINE written == Needed(i, result) /\ ~dryRun
           edit == EditOf(i, result)
<1>2. result \in ResultType
  BY <1>1, MutableDelivery, PlainDelivery
<1>3. result.changed \in BOOLEAN
  BY <1>2 DEF ResultType
<1>4. written => edit \in Edit
  <2>1. CASE Mutable(i)
    BY <1>1, <2>1, MutableDelivery
  <2>2. CASE ~Mutable(i)
    <3>1. RuntimeOf(i, result) \in Reference \cup {NoRef} /\ Upstream(i) \in Reference
      BY <1>1, <2>2, PlainDelivery
    <3>2. written => RuntimeOf(i, result) # NoRef
      BY DEF Delivers
    <3> QED BY <3>1, <3>2 DEF EditOf, Edit
  <2> QED BY <1>1, <2>1, <2>2
<1>5. /\ written => updates' = [j \in DOMAIN updates \cup {i} |->
                                  IF j = i THEN edit ELSE updates[j]]
      /\ ~written => updates' = updates
      /\ UNCHANGED <<manifest, version>>
  BY DEF Delivers, tree
<1>6. i \notin DOMAIN updates /\ \A j \in DOMAIN updates : updates[j] \in Edit
  BY DEF RunInv, TypeOK, Edit
<1> HIDE DEF written, edit
<1>7. /\ DOMAIN updates' \subseteq DOMAIN updates \cup {i}
      /\ \A j \in DOMAIN updates' : updates'[j] \in Edit
  BY <1>4, <1>5, <1>6
<1>8. \A j \in Images : j # i => Made(j)' = Made(j)
  BY <1>5 DEF Made
<1>9. Made(i)' = IF written THEN edit ELSE manifest[i]
  BY <1>5, <1>6 DEF Made
<1>10. target' \in Nat
  <2>1. DriverVersion(result) \in Nat
    BY <1>1, <1>3 DEF DriverVersion
  <2> QED BY <1>1, <2>1 DEF Delivers
<1>11. ASSUME ~dryRun, found.tag = newest[i], found.digest = served[i]["source"][newest[i]]
       PROVE  /\ Fixed(i, Made(i)')
              /\ Fixed(i, manifest[i]) => ~Needed(i, result)
  <2>1. \A entry : Fixed(i, entry) <=> FixedTo(i, entry, found.tag, found.digest)
    BY <1>11 DEF Fixed
  <2>2. CASE Mutable(i)
    <3>1. ~Needed(i, result) <=> FixedTo(i, manifest[i], found.tag, found.digest)
      BY <1>1, <2>2, MutableDelivery
    <3>2. ASSUME written
          PROVE  FixedTo(i, edit, found.tag, found.digest)
      <4>1. /\ edit \in Edit /\ edit.runtime.pin = found.digest
            /\ edit.upstream.pin = found.digest
            /\ Mode[i] = "lazycat" => InStore(edit.runtime)
        BY <1>1, <1>4, <2>2, <3>2, MutableDelivery DEF written, edit
      <4>2. DigestOf(edit.runtime) = found.digest /\ DigestOf(edit.upstream) = found.digest
        BY <1>1, <4>1 DEF DigestOf, Edit
      <4> QED BY <2>2, <4>1, <4>2 DEF FixedTo
    <3> QED BY <1>9, <1>11, <2>1, <3>1, <3>2 DEF written
  <2>3. CASE ~Mutable(i)
    <3>1. /\ FixedTo(i, edit, found.tag, found.digest)
          /\ ~Needed(i, result) <=> FixedTo(i, manifest[i], found.tag, found.digest)
      BY <1>1, <1>11, <2>3, PlainDelivery DEF edit
    <3> QED BY <1>9, <1>11, <2>1, <3>1 DEF written
  <2> QED BY <1>1, <2>2, <2>3
<1>12. Mutable(i) /\ ~Needed(i, result) => ~result.changed
  BY <1>1, MutableDelivery
<1> QED BY <1>3, <1>4, <1>7, <1>8, <1>9, <1>10, <1>11, <1>12 DEF written, edit

\* The version follows the plan the gate has let pass, and the tree is fixed image
\* after image.
LEMMA DeliverImageKeeps ==
  ASSUME CheckInv, DeliverImage
  PROVE  CheckInv'
<1> USE DEF CheckInv
<1>1. pc = "deliver" /\ UNCHANGED <<project, job, runs>> /\ queue # <<>>
  BY DeliverCases DEF RunInv
<1>2. CASE Fails
  BY <1>1, <1>2, FailsKeeps
<1>3. ASSUME NEW result \in ResultsOf(Head(queue)), Delivers(Head(queue), result)
      PROVE  CheckInv'
  <2> DEFINE i == Head(queue)
  <2>1. /\ i \in Images /\ i \in Pending /\ Tail(queue) \in Seq(Images)
        /\ Len(Tail(queue)) <= Last /\ (Len(queue) = 1 <=> Tail(queue) = <<>>)
        /\ \A j, k \in DOMAIN Tail(queue) : Tail(queue)[j] = Tail(queue)[k] => j = k
        /\ {Tail(queue)[k] : k \in DOMAIN Tail(queue)} = Pending \ {i}
    BY <1>1, RestOfQueue
  <2>2. PICK n \in Images : n = i
    BY <2>1
  <2> HIDE DEF i
  <2>3. result \in ResultsOf(n) /\ Delivers(n, result) /\ n \in Pending /\ n = Head(queue)
    BY <1>3, <2>1, <2>2 DEF i
  <2>4. /\ result.changed \in BOOLEAN
        /\ Needed(n, result) /\ ~dryRun => EditOf(n, result) \in Edit
        /\ DOMAIN updates' \subseteq DOMAIN updates \cup {n}
        /\ \A j \in DOMAIN updates' : updates'[j] \in Edit
        /\ \A j \in Images : j # n => Made(j)' = Made(j)
        /\ target' \in Nat
        /\ ~dryRun /\ found.tag = newest[n] /\ found.digest = served[n]["source"][newest[n]] =>
             /\ Fixed(n, Made(n)')
             /\ Fixed(n, manifest[n]) => ~Needed(n, result)
        /\ Mutable(n) /\ ~Needed(n, result) => ~result.changed
    BY <1>1, <2>3, DeliveredEdit
  <2>5. /\ Pending' = Pending \ {n} /\ queue' = Tail(queue)
        /\ pc' \in {"select", "apply"} /\ (pc' = "apply" <=> queue' = <<>>)
    BY <2>1, <2>2, <2>3 DEF Delivers, Pending
  <2>6. /\ UNCHANGED <<served, newest, moves, head, released, settled, manifest, version>>
        /\ UNCHANGED <<dryRun, review, before, full, repeated, found, moved, project, runs>>
        /\ planned' = FALSE /\ copied' \in {copied, copied \cup {n}}
        /\ changed' = (changed \/ Needed(n, result))
        /\ target' = IF n = Driver THEN DriverVersion(result) ELSE target
        /\ ~(Needed(n, result) /\ ~dryRun) => updates' = updates
    BY <1>1, <2>3 DEF Delivers, env, hist, tree, job
  <2>7. /\ Driver \in Images /\ TagVersion \in [Tags -> Nat] /\ Patch \in BOOLEAN
        /\ found.digest \in Digests /\ found.tag \in Tags
        /\ version \in Nat /\ before \in Nat /\ target \in Nat /\ review \in Nat
        /\ version = before /\ (Mutable(n) <=> Patch /\ n = Driver)
    BY <1>1, ProjectType DEF TypeOK, RunInv, Mutable
  <2>8. \A j : \A entry : Fixed(j, entry)' <=> Fixed(j, entry)
    BY <2>6, SameProject DEF Fixed
  <2>9. \A v : FixedVersion(v)' <=> FixedVersion(v)
    BY <2>6, SameProject DEF FixedVersion
  <2>10. Needed(n, result) \in BOOLEAN
    BY <2>6, <2>3, <2>7, MutableDelivery, PlainDelivery DEF Needed, NeedsUpdate, ResultType, Mutable, MustDeliver
  <2>11. TypeOK'
    <3>1. queue' \in Seq(Images) /\ Len(queue') <= Last
      BY <2>1, <2>5
    <3>2. DOMAIN updates' \subseteq Images /\ changed' \in BOOLEAN /\ copied' \subseteq Images
      BY <2>4, <2>6, <2>10 DEF TypeOK
    <3> QED BY <2>4, <2>5, <2>6, <3>1, <3>2 DEF TypeOK, Running, Edit
  <2>12. RunInv'
    <3>1. \A j, k \in DOMAIN queue' : queue'[j] = queue'[k] => j = k
      BY <2>1, <2>5
    <3>2. (Pending' \cap DOMAIN updates') = {}
      BY <2>4, <2>5 DEF RunInv
    <3>3. Driver \in Pending' => target' = before'
      BY <2>5, <2>6 DEF RunInv
    <3>4. dryRun' => DOMAIN updates' = {}
      BY <2>6 DEF RunInv
    <3> QED BY <2>5, <2>6, <2>7, <3>1, <3>2, <3>3, <3>4 DEF RunInv
  <2>13. FreshInv'
    BY <1>1, <2>5, <2>6, SameProject DEF FreshInv, Running
  <2>14. GateInv'
    <3>1. review # 0 => Driver \notin Pending' /\ target' > review
      <4>1. CASE n = Driver /\ review # 0
        <5>1. PICK plan \in Plans(found.digest, found.tag) :
                plan.version > review /\ plan.change = planned
          BY <1>1, <2>3, <4>1 DEF GateInv
        <5>2. /\ ~Patch => plan.version = TagVersion[found.tag]
              /\ Patch => plan.version = IF planned THEN version + 1 ELSE version
          BY <5>1, PlansMade
        <5>3. Patch => result.changed = planned
          BY <2>3, <2>7, <4>1 DEF Delivers, PlanFollowed
        <5>4. DriverVersion(result) = plan.version
          BY <2>4, <2>7, <5>2, <5>3 DEF DriverVersion
        <5> QED BY <2>5, <2>6, <4>1, <5>1, <5>4
      <4>2. CASE n # Driver
        BY <1>1, <2>3, <2>5, <2>6, <4>2 DEF GateInv
      <4> QED BY <4>1, <4>2
    <3> QED BY <2>5, <2>6, <3>1 DEF GateInv, PausedCopiesNothing
  <2>15. SettleInv'
    <3>1. ~moved => found.tag = newest[n] /\ found.digest = served[n]["source"][newest[n]]
      BY <1>1, <2>3 DEF SettleInv
    <3>2. settled' => (\A j \in Images : Fixed(j, manifest[j])') /\ FixedVersion(version)'
      BY <2>6, <2>8, <2>9 DEF SettleInv
    <3>3. repeated /\ ~moved => settled /\ DOMAIN updates' = {} /\ ~changed' /\ target' = before
      <4> SUFFICES ASSUME repeated, ~moved
                   PROVE  settled /\ DOMAIN updates' = {} /\ ~changed' /\ target' = before
        OBVIOUS
      <4>1. /\ settled /\ DOMAIN updates = {} /\ ~changed /\ target = before /\ ~dryRun
            /\ Fixed(n, manifest[n]) /\ FixedVersion(version)
        BY <1>1, <2>2 DEF SettleInv, Running
      <4>2. ~Needed(n, result)
        BY <2>4, <3>1, <4>1
      <4>3. n = Driver => DriverVersion(result) = version
        BY <2>4, <2>7, <3>1, <4>1, <4>2 DEF DriverVersion, FixedVersion
      <4> QED BY <2>6, <2>7, <4>1, <4>2, <4>3
    <3>4. ASSUME full, ~dryRun, ~moved
          PROVE  /\ \A j \in Images \ Pending' : Fixed(j, Made(j)')
                 /\ Driver \notin Pending' => FixedVersion(target')
      <4>1. /\ \A j \in Images \ Pending : Fixed(j, Made(j))
            /\ Driver \notin Pending => FixedVersion(target)
        BY <1>1, <3>4 DEF SettleInv
      <4>2. Fixed(n, Made(n)')
        BY <2>4, <3>1, <3>4
      <4>3. n = Driver => FixedVersion(target')
        BY <2>6, <2>7, <3>1, <3>4 DEF FixedVersion, DriverVersion
      <4> QED BY <2>4, <2>5, <2>6, <4>1, <4>2, <4>3
    <3>5. full' /\ ~dryRun' /\ ~moved' =>
            /\ \A j \in Images \ Pending' : Fixed(j, Made(j))'
            /\ Driver \notin Pending' => FixedVersion(target)'
      BY <2>6, <2>8, <2>9, <3>4
    <3> QED BY <1>1, <2>5, <2>6, <3>2, <3>3, <3>5 DEF SettleInv, Running
  <2> QED BY <2>11, <2>12, <2>13, <2>14, <2>15
<1> QED BY <1>2, <1>3, DeliverCases

-----------------------------------------------------------------------------
(* The tree is edited, built and committed.                                *)

\* Whether there is something to package, for a run that is not a dry run.
LEMMA PackagesMeaning ==
  ASSUME TypeOK
  PROVE  /\ Packages \in BOOLEAN
         /\ ~dryRun /\ ~Packages => target = before
         /\ Packages => ~dryRun
BY DEF Packages, TypeOK

\* The entries that were made are those of the Manifest from now on.
LEMMA ApplyUpdatesKeeps ==
  ASSUME CheckInv, ApplyUpdates
  PROVE  CheckInv'
<1> USE DEF CheckInv
<1> DEFINE edited == Apply(manifest, updates)
<1>1. pc = "apply" /\ UNCHANGED <<project, job, runs>> /\ queue = <<>> /\ version = before
  BY DEF ApplyUpdates, RunInv
<1>2. /\ edited \in [Images -> Entry] /\ \A i \in Images : edited[i] = Made(i)
  BY ApplyUpdatesType DEF TypeOK, Made
<1>3. CASE Fails
  BY <1>1, <1>3, FailsKeeps
<1>4. CASE Stops("failed", [manifest |-> edited, version |-> version])
  BY <1>1, <1>2, <1>4, StopsKeeps DEF TypeOK
<1>5. CASE /\ manifest' = edited
           /\ pc' = IF Packages THEN "version" ELSE "result"
           /\ UNCHANGED <<env, hist, version, work, moved>>
  <2>1. /\ UNCHANGED <<served, newest, moves, head, released, settled, version>>
        /\ UNCHANGED <<dryRun, review, before, full, repeated, project, runs>>
        /\ UNCHANGED <<queue, found, planned, updates, copied, changed, target, moved>>
        /\ manifest' = edited
        /\ pc' \in {"version", "result"} /\ (pc' = "version" <=> Packages)
    BY <1>1, <1>5, PackagesMeaning DEF env, hist, job, work
  <2> HIDE DEF edited
  <2>2. Packages \in BOOLEAN /\ (~dryRun /\ ~Packages => target = before) /\ (Packages' <=> Packages)
    BY <2>1, PackagesMeaning DEF Packages
  <2>3. TypeOK'
    BY <1>2, <2>1 DEF TypeOK, Running
  <2>4. RunInv'
    BY <1>1, <2>1, <2>2 DEF RunInv, Pending
  <2>5. FreshInv'
    BY <1>1, <2>1, SameProject DEF FreshInv, Running, edited
  <2>6. GateInv'
    BY <1>1, <2>1, <2>2 DEF GateInv, PausedCopiesNothing
  <2>7. SettleInv'
    <3>1. \A i : \A entry : Fixed(i, entry)' <=> Fixed(i, entry)
      BY <2>1, SameProject DEF Fixed
    <3>2. \A v : FixedVersion(v)' <=> FixedVersion(v)
      BY <2>1, SameProject DEF FixedVersion
    <3>3. settled => \A i \in Images : manifest'[i] = manifest[i]
      <4>1. settled => DOMAIN updates = {}
        BY <1>1 DEF SettleInv, RunInv, Running
      <4> QED BY <1>2, <2>1, <4>1 DEF Made
    <3>4. Pending = {}
      BY <1>1 DEF Pending
    <3>5. Driver \in Images
      BY ProjectType DEF TypeOK
    <3>6. settled' => (\A i \in Images : Fixed(i, manifest'[i])) /\ FixedVersion(version')
      BY <2>1, <3>3 DEF SettleInv
    <3>7. full /\ ~dryRun /\ ~moved =>
            (\A i \in Images : Fixed(i, manifest'[i])) /\ FixedVersion(target')
      BY <1>1, <1>2, <2>1, <3>4, <3>5 DEF SettleInv
    <3>8. settled' => (\A i \in Images : Fixed(i, manifest[i])') /\ FixedVersion(version)'
      BY <3>1, <3>2, <3>6
    <3>9. full /\ ~dryRun /\ ~moved =>
            (\A i \in Images : Fixed(i, manifest[i])') /\ FixedVersion(target)'
      BY <3>1, <3>2, <3>7
    <3> QED BY <1>1, <2>1, <3>8, <3>9 DEF SettleInv, Running
  <2> QED BY <2>3, <2>4, <2>5, <2>6, <2>7
<1> QED BY <1>3, <1>4, <1>5 DEF ApplyUpdates

\* A run that started from a settled tree sets no version.
LEMMA SetVersionKeeps ==
  ASSUME CheckInv, SetVersion
  PROVE  CheckInv'
<1> USE DEF CheckInv
<1>1. pc = "version" /\ UNCHANGED <<project, job, runs>> /\ queue = <<>> /\ Packages
  BY DEF SetVersion, RunInv
<1>2. CASE Fails
  BY <1>1, <1>2, FailsKeeps
<1>3. CASE version' = target /\ pc' = "build" /\ UNCHANGED <<env, hist, manifest, work, moved>>
  <2>1. /\ UNCHANGED <<served, newest, moves, head, released, settled, manifest>>
        /\ UNCHANGED <<dryRun, review, before, full, repeated, project, runs>>
        /\ UNCHANGED <<queue, found, planned, updates, copied, changed, target, moved>>
        /\ version' = target /\ pc' = "build"
    BY <1>1, <1>3 DEF env, hist, job, work
  <2>2. Packages' <=> Packages
    BY <2>1 DEF Packages
  <2>3. TypeOK'
    BY <2>1 DEF TypeOK, Running
  <2>4. RunInv'
    BY <1>1, <2>1, <2>2 DEF RunInv, Pending
  <2>5. FreshInv'
    BY <1>1, <2>1, SameProject DEF FreshInv, Running
  <2>6. GateInv'
    BY <1>1, <2>1 DEF GateInv, PausedCopiesNothing
  <2>7. SettleInv'
    <3>1. \A i : \A entry : Fixed(i, entry)' <=> Fixed(i, entry)
      BY <2>1, SameProject DEF Fixed
    <3>2. \A v : FixedVersion(v)' <=> FixedVersion(v)
      BY <2>1, SameProject DEF FixedVersion
    <3>3. ~settled /\ ~(repeated /\ ~moved)
      BY <1>1 DEF SettleInv, Running, Packages
    <3> QED BY <1>1, <2>1, <3>1, <3>2, <3>3 DEF SettleInv, Running
  <2> QED BY <2>3, <2>4, <2>5, <2>6, <2>7
<1> QED BY <1>2, <1>3 DEF SetVersion

\* A build that succeeds changes nothing; one that fails leaves a tree.
LEMMA BuildKeeps ==
  ASSUME CheckInv, Build
  PROVE  CheckInv'
<1> USE DEF CheckInv
<1>1. pc = "build" /\ UNCHANGED <<project, job, runs>> /\ queue = <<>> /\ Packages
  BY DEF Build, RunInv
<1>2. CASE \E back \in {before, version} : Stops("failed", [manifest |-> manifest, version |-> back])
  BY <1>1, <1>2, StopsKeeps DEF TypeOK
<1>3. CASE pc' = "result" /\ UNCHANGED <<env, hist, tree, work, moved>>
  <2>1. /\ UNCHANGED <<served, newest, moves, head, released, settled, manifest, version>>
        /\ UNCHANGED <<dryRun, review, before, full, repeated, project, runs>>
        /\ UNCHANGED <<queue, found, planned, updates, copied, changed, target, moved>>
        /\ pc' = "result"
    BY <1>1, <1>3 DEF env, hist, tree, job, work
  <2>2. Packages' <=> Packages
    BY <2>1 DEF Packages
  <2>3. TypeOK'
    BY <2>1 DEF TypeOK, Running
  <2>4. RunInv'
    BY <1>1, <2>1, <2>2 DEF RunInv, Pending
  <2>5. FreshInv'
    BY <1>1, <2>1, SameProject DEF FreshInv, Running
  <2>6. GateInv'
    BY <1>1, <2>1 DEF GateInv, RunInv, PausedCopiesNothing
  <2>7. SettleInv'
    <3>1. \A i : \A entry : Fixed(i, entry)' <=> Fixed(i, entry)
      BY <2>1, SameProject DEF Fixed
    <3>2. \A v : FixedVersion(v)' <=> FixedVersion(v)
      BY <2>1, SameProject DEF FixedVersion
    <3> QED BY <1>1, <2>1, <3>1, <3>2 DEF SettleInv, Running
  <2> QED BY <2>3, <2>4, <2>5, <2>6, <2>7
<1> QED BY <1>2, <1>3 DEF Build

\* A full check leaves a settled tree, unless something has moved.
LEMMA WriteResultKeeps ==
  ASSUME CheckInv, WriteResult
  PROVE  CheckInv'
<1> USE DEF CheckInv
<1>1. pc = "result" /\ UNCHANGED <<project, job, runs>> /\ queue = <<>>
  BY DEF WriteResult, RunInv
<1> DEFINE made == [manifest |-> manifest, version |-> version]
           release == [version |-> version, digest |-> DigestOf(manifest[Driver].runtime)]
<1>2. CASE Fails
  BY <1>1, <1>2, FailsKeeps
<1>3. CASE Stops("closed", head)
  BY <1>1, <1>3, StopsKeeps DEF TypeOK
<1>4. CASE /\ pc' = "done" /\ head' = made
           /\ released' = IF Packages THEN released \cup {release} ELSE released
           /\ settled' = (~moved /\ (settled \/ (full /\ ~dryRun)))
           /\ UNCHANGED <<env, tree, work, moved>>
  <2>1. /\ UNCHANGED <<served, newest, moves, manifest, version>>
        /\ UNCHANGED <<dryRun, review, before, full, repeated, project, runs>>
        /\ UNCHANGED <<queue, found, planned, updates, copied, changed, target, moved>>
        /\ pc' = "done" /\ head' = made
        /\ settled' = (~moved /\ (settled \/ (full /\ ~dryRun)))
    BY <1>1, <1>4 DEF env, tree, job, work
  <2>2. /\ Packages \in BOOLEAN /\ (~dryRun /\ ~Packages => target = before)
        /\ (Packages' <=> Packages)
    BY <2>1, PackagesMeaning DEF Packages
  <2>3. TypeOK'
    <3>1. release \in [version: Nat, digest: Digests \cup {NoDigest}]
      BY DigestType, ProjectType DEF TypeOK, Entry
    <3>2. released' \subseteq [version: Nat, digest: Digests \cup {NoDigest}]
      BY <1>4, <3>1 DEF TypeOK
    <3> QED BY <2>1, <3>2 DEF TypeOK, Running
  <2>4. RunInv'
    BY <1>1, <2>1, <2>2 DEF RunInv, Pending
  <2>5. FreshInv'
    BY <1>1, <2>1, SameProject DEF FreshInv, Running
  <2>6. GateInv'
    BY <1>1, <2>1 DEF GateInv, PausedCopiesNothing
  <2>7. SettleInv'
    <3>1. \A i : \A entry : Fixed(i, entry)' <=> Fixed(i, entry)
      BY <2>1, SameProject DEF Fixed
    <3>2. \A v : FixedVersion(v)' <=> FixedVersion(v)
      BY <2>1, SameProject DEF FixedVersion
    <3>3. full /\ ~dryRun /\ ~moved =>
            (\A i \in Images : Fixed(i, manifest[i])) /\ FixedVersion(version)
      BY <1>1, <2>2 DEF SettleInv, RunInv
    <3> QED BY <1>1, <2>1, <3>1, <3>2, <3>3 DEF SettleInv, Running, TypeOK
  <2> QED BY <2>3, <2>4, <2>5, <2>6, <2>7
<1> QED BY <1>2, <1>3, <1>4 DEF WriteResult

\* Upstream moves something: nothing is settled any more.
LEMMA MovesKeeps ==
  ASSUME CheckInv, Moves, served' \in [Images -> Served], newest' \in [Images -> Tags]
  PROVE  CheckInv'
<1> USE DEF CheckInv
<1>1. /\ UNCHANGED <<project, head, released, manifest, version, pc, runs>>
      /\ UNCHANGED <<dryRun, review, before, full, repeated>>
      /\ UNCHANGED <<queue, found, planned, updates, copied, changed, target>>
      /\ moved' = TRUE /\ settled' = FALSE
  BY DEF Moves, tree, job, work
<1>2. TypeOK'
  BY <1>1 DEF TypeOK
<1>3. RunInv'
  BY <1>1 DEF RunInv, Pending, Packages
<1>4. FreshInv'
  BY <1>1, SameProject DEF FreshInv
<1>5. GateInv'
  <2>1. Plans(found.digest, found.tag)' = Plans(found.digest, found.tag)
    BY <1>1, SameProject DEF Plans
  <2> QED BY <1>1, <2>1 DEF GateInv, Pending, PausedCopiesNothing
<1>6. SettleInv'
  BY <1>1 DEF SettleInv
<1> QED BY <1>2, <1>3, <1>4, <1>5, <1>6

\* Every step keeps the invariant.
LEMMA CheckStep == CheckInv /\ [Next]_vars => CheckInv'
<1> SUFFICES ASSUME CheckInv, [Next]_vars PROVE CheckInv'
  OBVIOUS
<1>1. ASSUME NEW images \in Selections, NEW dry \in BOOLEAN,
             NEW waiting \in Projects[project].reviews, StartCheck(images, dry, waiting)
      PROVE  CheckInv'
  BY <1>1, StartCheckKeeps
<1>2. CASE Select
  BY <1>2, SelectKeeps
<1>3. CASE DeliverImage
  BY <1>3, DeliverImageKeeps
<1>4. CASE ApplyUpdates
  BY <1>4, ApplyUpdatesKeeps
<1>5. CASE SetVersion
  BY <1>5, SetVersionKeeps
<1>6. CASE Build
  BY <1>6, BuildKeeps
<1>7. CASE WriteResult
  BY <1>7, WriteResultKeeps
<1>8. ASSUME NEW i \in Images, NEW place \in {"source", "mirror"}, NEW tag \in Tags,
             NEW d \in Digests, MoveTag(i, place, tag, d)
      PROVE  CheckInv'
  <2>1. Moves /\ UNCHANGED newest /\ served' = [served EXCEPT ![i][place][tag] = d]
    BY <1>8 DEF MoveTag
  <2>2. served \in [Images -> Served] /\ newest' \in [Images -> Tags]
    BY <2>1 DEF CheckInv, TypeOK
  <2>3. served' \in [Images -> Served]
    BY <2>1, <2>2 DEF Served, Places
  <2> QED BY <2>1, <2>2, <2>3, MovesKeeps
<1>9. ASSUME NEW i \in Images, NEW tag \in Tags, MoveNewest(i, tag)
      PROVE  CheckInv'
  <2>1. Moves /\ UNCHANGED served /\ newest' = [newest EXCEPT ![i] = tag]
    BY <1>9 DEF MoveNewest
  <2>2. served' \in [Images -> Served] /\ newest' \in [Images -> Tags]
    BY <2>1 DEF CheckInv, TypeOK
  <2> QED BY <2>1, <2>2, MovesKeeps
<1>10. CASE UNCHANGED vars
  <2>1. /\ UNCHANGED <<project, served, newest, head, released, settled, manifest, version, pc>>
        /\ UNCHANGED <<dryRun, review, before, full, repeated, moved>>
        /\ UNCHANGED <<queue, found, planned, updates, copied, changed, target>>
    BY <1>10 DEF vars, env, hist, tree, job, work
  <2> USE <2>1 DEF CheckInv
  <2>2. TypeOK'
    BY DEF TypeOK
  <2>3. RunInv'
    BY DEF RunInv, Pending, Packages
  <2>4. FreshInv'
    BY SameProject DEF FreshInv
  <2>5. GateInv'
    <3>1. Plans(found.digest, found.tag)' = Plans(found.digest, found.tag)
      BY SameProject DEF Plans
    <3> QED BY <3>1 DEF GateInv, Pending, PausedCopiesNothing
  <2>6. SettleInv'
    <3>1. \A i : \A entry : Fixed(i, entry)' <=> Fixed(i, entry)
      BY SameProject DEF Fixed
    <3>2. \A v : FixedVersion(v)' <=> FixedVersion(v)
      BY SameProject DEF FixedVersion
    <3> QED BY <3>1, <3>2 DEF SettleInv, Pending, Made
  <2> QED BY <2>2, <2>3, <2>4, <2>5, <2>6
<1> QED BY <1>1, <1>2, <1>3, <1>4, <1>5, <1>6, <1>7, <1>8, <1>9, <1>10 DEF Next

\* The state of a check is what it should be for every number of images: how far
\* the run is, what the gate has let pass, and what is settled.
THEOREM ImageCheckInvariant == Spec => []CheckInv
<1>1. Init => CheckInv
  BY CheckInit
<1>2. CheckInv /\ [Next]_vars => CheckInv'
  BY CheckStep
<1> QED BY <1>1, <1>2, PTL DEF Spec

\* A run that pauses for a waiting review has copied nothing to the store, and one
\* that is done has made a version newer than the review.
THEOREM ReviewsAreGated == Spec => []ReviewGate
<1>1. CheckInv => ReviewGate
  BY DEF CheckInv, GateInv, ReviewGate, ReviewedIsOlder
<1> QED BY <1>1, ImageCheckInvariant, PTL

\* A full check that is repeated while nothing moves finds nothing to package.
THEOREM RepeatedChecksFindNothing == Spec => []RepeatedCheckFindsNothing
<1>1. CheckInv => RepeatedCheckFindsNothing
  BY DEF CheckInv, SettleInv, RepeatedCheckFindsNothing, Packages
<1> QED BY <1>1, ImageCheckInvariant, PTL

-----------------------------------------------------------------------------
(* The digest of the driver.                                               *)

\* The Manifests that are committed at first agree with their comments.
LEMMA DriverInit ==
  ASSUME EntriesAgree
  PROVE  Init => DriverInv /\ SameVersionSameDigest
<1> SUFFICES ASSUME Init PROVE DriverInv /\ SameVersionSameDigest
  OBVIOUS
<1>1. /\ project \in DOMAIN Projects /\ Driver \in Images /\ pc \notin Running
      /\ manifest \in [Images -> Projects[project].entries] /\ released = {}
      /\ head.manifest = manifest
  BY ProjectType DEF Init, Running
<1>2. Patch /\ ~Keeps => Agrees(head.manifest[Driver])
  <2>1. manifest[Driver] \in Projects[project].entries
    BY <1>1
  <2> QED BY <1>1, <2>1 DEF EntriesAgree, Agrees, Patch, Keeps, Mode
<1> QED BY <1>1, <1>2 DEF DriverInv, SameVersionSameDigest

\* A step that neither commits nor writes an entry keeps the invariant.
LEMMA QuietKeeps ==
  ASSUME DriverInv, SameVersionSameDigest, UNCHANGED <<project, head, released>>,
         pc' \in Running => /\ pc \in Running
                            /\ UNCHANGED <<target, before, updates>>
  PROVE  DriverInv' /\ SameVersionSameDigest'
<1>1. /\ Patch' = Patch /\ Keeps' = Keeps
      /\ \A entry : Agrees(entry)' <=> Agrees(entry)
  BY SameProject DEF Agrees
<1>2. Running' = Running
  BY DEF Running
<1> QED BY <1>1, <1>2 DEF DriverInv, SameVersionSameDigest

\* The entry of a mutable driver is written with one digest, and with the one it
\* had when the version stays.
LEMMA DeliverDriver ==
  ASSUME CheckInv, DriverInv, SameVersionSameDigest,
         NEW result \in ResultsOf(Head(queue)), Delivers(Head(queue), result),
         pc = "deliver", UNCHANGED <<project, job, runs>>
  PROVE  DriverInv' /\ SameVersionSameDigest'
<1> USE DEF CheckInv
<1> DEFINE digest == DigestOf(head.manifest[Driver].runtime)
<1>1. queue # <<>> /\ Head(queue) \in Images /\ Head(queue) \in Pending
  BY RestOfQueue DEF RunInv
<1>2. PICK n \in Images : n = Head(queue)
  BY <1>1
<1>3. result \in ResultsOf(n) /\ Delivers(n, result) /\ n \in Pending
  BY <1>1, <1>2
<1>4. /\ UNCHANGED <<head, released, before, project>>
      /\ target' = IF n = Driver THEN DriverVersion(result) ELSE target
      /\ updates' = IF Needed(n, result) /\ ~dryRun
                    THEN [j \in DOMAIN updates \cup {n} |->
                            IF j = n THEN EditOf(n, result) ELSE updates[j]]
                    ELSE updates
  BY <1>3 DEF Delivers, hist, job
<1>5. /\ Driver \in Images /\ NoDigest \notin Digests /\ NoRef \notin Reference
      /\ found.digest \in Digests /\ version = before /\ before \in Nat /\ target \in Nat
      /\ pc \in Running /\ n \notin DOMAIN updates
  BY <1>3, ProjectType DEF TypeOK, RunInv, Running
<1>6. /\ Patch' = Patch /\ Keeps' = Keeps
      /\ \A entry : Agrees(entry)' <=> Agrees(entry)
  BY <1>4, SameProject DEF Agrees
<1>7. SameVersionSameDigest'
  BY <1>4, <1>6 DEF SameVersionSameDigest
<1>8. CASE Patch /\ ~Keeps
  <2>1. head.manifest = manifest
    BY <1>8 DEF FreshInv
  <2>2. /\ Agrees(head.manifest[Driver]) /\ target >= before
        /\ \A r \in released :
             /\ r.version <= head.version
             /\ r.version = head.version /\ r.digest # NoDigest => r.digest = digest
    BY <1>5, <1>8 DEF DriverInv
  <2>3. target' >= before
    BY <1>4, <1>5, <1>8, <2>2 DEF DriverVersion
  <2>4. ASSUME Driver \in DOMAIN updates'
        PROVE  /\ Agrees(updates'[Driver])
               /\ target' = before /\ digest # NoDigest =>
                    DigestOf(updates'[Driver].runtime) = digest
    <3>1. CASE n = Driver
      <4>1. Mutable(n) /\ Needed(n, result) /\ ~dryRun /\ updates'[Driver] = EditOf(n, result)
        BY <1>4, <1>5, <1>8, <2>4, <3>1 DEF Mutable
      <4>2. /\ EditOf(n, result) \in Edit
            /\ EditOf(n, result).runtime.pin = found.digest
            /\ EditOf(n, result).upstream.pin = found.digest
            /\ ~result.changed /\ AgreeIn(Mode[n], manifest[n])
                 /\ DigestOf(manifest[n].runtime) # NoDigest =>
                   DigestOf(manifest[n].runtime) = found.digest
            /\ result \in ResultType
        BY <1>3, <1>5, <4>1, MutableDelivery
      <4>3. PICK edit : edit = EditOf(n, result)
        OBVIOUS
      <4>4. DigestOf(edit.runtime) = found.digest /\ DigestOf(edit.upstream) = found.digest
        BY <1>5, <4>2, <4>3 DEF DigestOf, Edit
      <4>5. Agrees(edit)
        BY <1>5, <4>4 DEF Agrees, AgreeIn
      <4>6. target' = before => ~result.changed
        BY <1>4, <1>5, <1>8, <3>1, <4>2 DEF DriverVersion, ResultType
      <4>7. target' = before /\ digest # NoDigest => found.digest = digest
        BY <2>1, <2>2, <3>1, <4>2, <4>6 DEF Agrees
      <4> QED BY <4>1, <4>3, <4>4, <4>5, <4>7
    <3>2. CASE n # Driver
      <4>1. Driver \in DOMAIN updates /\ updates'[Driver] = updates[Driver] /\ target' = target
        BY <1>4, <2>4, <3>2
      <4> QED BY <1>5, <1>8, <4>1 DEF DriverInv
    <3> QED BY <3>1, <3>2
  <2>5. DriverInv'
    <3>1. (\A r \in released : r.version <= head.version)' /\ Agrees(head.manifest[Driver])'
      BY <1>4, <1>6, <2>2
    <3>2. Driver \in DOMAIN updates' => Agrees(updates[Driver])'
      BY <1>6, <2>4
    <3> QED BY <1>4, <2>2, <2>3, <2>4, <3>1, <3>2 DEF DriverInv
  <2> QED BY <1>7, <2>5
<1>9. CASE ~(Patch /\ ~Keeps)
  BY <1>6, <1>7, <1>9 DEF DriverInv
<1> QED BY <1>8, <1>9

\* What is committed has the digest of the committed version, and a new one only
\* with a newer version.
LEMMA CommitDriver ==
  ASSUME CheckInv, DriverInv, SameVersionSameDigest, pc = "result", pc' = "done",
         head' = [manifest |-> manifest, version |-> version],
         released' = IF Packages
                     THEN released \cup {[version |-> version,
                                          digest |-> DigestOf(manifest[Driver].runtime)]}
                     ELSE released,
         UNCHANGED <<project, manifest, version>>
  PROVE  DriverInv' /\ SameVersionSameDigest'
<1> USE DEF CheckInv
<1> DEFINE digest == DigestOf(head.manifest[Driver].runtime)
           made == DigestOf(manifest[Driver].runtime)
           release == [version |-> version, digest |-> made]
<1>1. /\ Driver \in Images /\ version \in Nat /\ head.version \in Nat /\ before \in Nat
      /\ target \in Nat /\ head.manifest \in [Images -> Entry]
      /\ \A r \in released : r.version \in Nat
      /\ head'.manifest = manifest /\ head'.version = version /\ pc \in Running
      /\ pc' \notin Running
  BY ProjectType DEF TypeOK, Running
<1>2. /\ Patch' = Patch /\ Keeps' = Keeps
      /\ \A entry : Agrees(entry)' <=> Agrees(entry)
  BY SameProject DEF Agrees
<1>3. CASE Patch /\ ~Keeps
  <2>1. /\ before = head.version /\ manifest = Apply(head.manifest, updates)
        /\ version = IF Packages THEN target ELSE before
    BY <1>1, <1>3 DEF FreshInv, RunInv
  <2>2. manifest[Driver] = IF Driver \in DOMAIN updates THEN updates[Driver]
                                                       ELSE head.manifest[Driver]
    BY <1>1, <2>1, ApplyUpdatesType
  <2>3. /\ Agrees(head.manifest[Driver]) /\ target >= before
        /\ Driver \in DOMAIN updates =>
             /\ Agrees(updates[Driver])
             /\ target = before /\ digest # NoDigest =>
                  DigestOf(updates[Driver].runtime) = digest
        /\ \A r \in released :
             /\ r.version <= head.version
             /\ r.version = head.version /\ r.digest # NoDigest => r.digest = digest
    BY <1>1, <1>3 DEF DriverInv
  <2>4. Agrees(manifest[Driver])
    BY <2>2, <2>3
  <2>5. version = head.version /\ digest # NoDigest => made = digest
    <3>1. CASE Driver \notin DOMAIN updates
      BY <2>2, <3>1
    <3>2. CASE Driver \in DOMAIN updates
      <4>1. ~dryRun
        BY <3>2 DEF RunInv
      <4>2. version = head.version => target = before
        BY <2>1, <4>1, PackagesMeaning
      <4> QED BY <2>2, <2>3, <3>2, <4>2
    <3> QED BY <3>1, <3>2
  <2>6. version >= head.version
    BY <1>1, <2>1, <2>3
  <2> HIDE DEF digest, made
  <2>7. ASSUME NEW r \in released
        PROVE  /\ r.version <= version
               /\ r.version = version /\ r.digest # NoDigest => r.digest = made
    <3>1. r.version <= head.version /\ r.version \in Nat
      BY <1>1, <2>3
    <3>2. r.version <= version
      BY <1>1, <2>6, <3>1
    <3>3. r.version = version => version = head.version /\ r.version = head.version
      BY <1>1, <2>6, <3>1
    <3>4. r.version = head.version /\ r.digest # NoDigest => r.digest = digest
      BY <2>3
    <3> QED BY <2>5, <3>2, <3>3, <3>4
  <2>8. \A r \in released' : r \in released \/ (r.version = version /\ r.digest = made)
    BY DEF made
  <2>9. \A r \in released' :
          /\ r.version <= version
          /\ r.version = version /\ r.digest # NoDigest => r.digest = made
    BY <1>1, <2>7, <2>8
  <2>10. DriverInv'
    <3>1. Agrees(head'.manifest[Driver])
      BY <1>1, <2>4
    <3>2. Agrees(head.manifest[Driver])'
      BY <1>2, <3>1
    <3> QED BY <1>1, <2>9, <3>2 DEF DriverInv, Running, made
  <2>11. SameVersionSameDigest'
    <3>1. ASSUME NEW a \in released', NEW b \in released', a.version = b.version,
                 a.digest # NoDigest, b.digest # NoDigest
          PROVE  a.digest = b.digest
      BY <1>3, <2>7, <2>8, <3>1 DEF SameVersionSameDigest
    <3> QED BY <3>1 DEF SameVersionSameDigest
  <2> QED BY <2>10, <2>11
<1>4. CASE ~(Patch /\ ~Keeps)
  BY <1>2, <1>4 DEF DriverInv, SameVersionSameDigest
<1> QED BY <1>3, <1>4

\* Every step keeps the digest of the driver and of its versions.
LEMMA DriverStep ==
  ASSUME CheckInv, DriverInv, SameVersionSameDigest, [Next]_vars
  PROVE  DriverInv' /\ SameVersionSameDigest'
<1>1. ASSUME NEW images \in Selections, NEW dry \in BOOLEAN,
             NEW waiting \in Projects[project].reviews, StartCheck(images, dry, waiting)
      PROVE  DriverInv' /\ SameVersionSameDigest'
  <2>1. /\ UNCHANGED <<project, head, released>> /\ DOMAIN updates' = {}
        /\ target' = version /\ before' = version /\ version \in Nat
    BY <1>1 DEF StartCheck, hist, NoUpdates, CheckInv, TypeOK
  <2>2. /\ Patch' = Patch /\ Keeps' = Keeps
        /\ \A entry : Agrees(entry)' <=> Agrees(entry)
    BY <2>1, SameProject DEF Agrees
  <2> QED BY <2>1, <2>2 DEF DriverInv, SameVersionSameDigest
<1>2. ASSUME NEW outcome \in {"failed", "paused", "closed"}, NEW left, Stops(outcome, left),
             UNCHANGED project
      PROVE  DriverInv' /\ SameVersionSameDigest'
  BY <1>2, QuietKeeps DEF Stops, Running
<1>3. Fails /\ UNCHANGED project => DriverInv' /\ SameVersionSameDigest'
  BY <1>2 DEF Fails
<1>4. CASE Select
  <2>1. CASE UNCHANGED <<env, hist, tree, queue, updates, copied, changed, target, moved>>
    BY <1>4, <2>1, QuietKeeps DEF Select, hist, job, Running
  <2> QED BY <1>2, <1>3, <1>4, <2>1 DEF Select
<1>5. CASE DeliverImage
  BY <1>3, <1>5, DeliverCases, DeliverDriver
<1>6. CASE ApplyUpdates
  <2>1. CASE pc = "apply" /\ UNCHANGED <<env, hist, version, work, moved>> /\ UNCHANGED <<project, job, runs>>
    BY <2>1, QuietKeeps DEF hist, job, work, Running
  <2> QED BY <1>2, <1>3, <1>6, <2>1 DEF ApplyUpdates
<1>7. CASE SetVersion
  <2>1. CASE pc = "version" /\ UNCHANGED <<env, hist, manifest, work, moved>> /\ UNCHANGED <<project, job, runs>>
    BY <2>1, QuietKeeps DEF hist, job, work, Running
  <2> QED BY <1>3, <1>7, <2>1 DEF SetVersion
<1>8. CASE Build
  <2>1. CASE pc = "build" /\ UNCHANGED <<env, hist, tree, work, moved>> /\ UNCHANGED <<project, job, runs>>
    BY <2>1, QuietKeeps DEF hist, job, work, Running
  <2> QED BY <1>2, <1>8, <2>1 DEF Build
<1>9. CASE WriteResult
  <2>1. CASE Fails
    BY <1>3, <1>9, <2>1 DEF WriteResult
  <2>2. CASE Stops("closed", head)
    BY <1>2, <1>9, <2>2 DEF WriteResult
  <2>3. CASE /\ pc' = "done" /\ head' = [manifest |-> manifest, version |-> version]
             /\ released' = IF Packages
                  THEN released \cup {[version |-> version,
                                       digest |-> DigestOf(manifest[Driver].runtime)]}
                  ELSE released
             /\ UNCHANGED <<env, tree, work, moved>>
    BY <1>9, <2>3, CommitDriver DEF WriteResult, tree
  <2> QED BY <1>9, <2>1, <2>2, <2>3 DEF WriteResult
<1>10. CASE Moves
  BY <1>10, QuietKeeps DEF Moves, job, work
<1>11. CASE UNCHANGED vars
  BY <1>11, QuietKeeps DEF vars, hist, job, work
<1> QED
  BY <1>1, <1>4, <1>5, <1>6, <1>7, <1>8, <1>9, <1>10, <1>11 DEF Next, MoveTag, MoveNewest

\* The digest of the driver is committed and released with one version, when the
\* Manifests there are at first agree with their comments.
THEOREM DriverInvariant ==
  ASSUME EntriesAgree
  PROVE  Spec => []ReleaseInv
<1>1. Init => ReleaseInv
  BY CheckInit, DriverInit DEF ReleaseInv
<1>2. ReleaseInv /\ [Next]_vars => ReleaseInv'
  BY CheckStep, DriverStep DEF ReleaseInv
<1> QED BY <1>1, <1>2, PTL DEF Spec

\* The digest of the upstream comment is the one the application runs, whatever
\* moves between the lookup and the copy.
THEOREM BaselinesAreDelivered ==
  ASSUME EntriesAgree
  PROVE  Spec => []BaselineIsDelivered
<1>1. ReleaseInv => BaselineIsDelivered
  BY DEF ReleaseInv, DriverInv, Agrees, AgreeIn, BaselineIsDelivered
<1> QED BY <1>1, DriverInvariant, PTL

\* No version is packaged with two digests of the mutable image.
THEOREM VersionsKeepTheirDigest ==
  ASSUME EntriesAgree
  PROVE  Spec => []SameVersionSameDigest
<1>1. ReleaseInv => SameVersionSameDigest
  BY DEF ReleaseInv
<1> QED BY <1>1, DriverInvariant, PTL

=============================================================================
