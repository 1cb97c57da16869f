--------------------------- MODULE ImageDelivery ---------------------------
(***************************************************************************)
(* References to images, what registries serve under them, the delivery of *)
(* a selected image to where the application may pull it from, and the     *)
(* edit of the Manifest that makes the application use it.                 *)
(*                                                                         *)
(* An image has a reference in its upstream registry ("source") and in the *)
(* other places this program uses: an anonymous proxy, a staging           *)
(* repository, a mirror, and the registry of the official store.  What a   *)
(* tag of a place serves is a digest; a reference is either a tag or       *)
(* pinned to a digest.  Contents, platforms and names are left out: the    *)
(* digest is the one of the target platform.                               *)
(***************************************************************************)
CONSTANTS
  Digests,   \* digests an image may have
  Tags,      \* tags of the repositories
  NoDigest,  \* a reference that is not pinned
  NoRef      \* a Manifest entry that is missing or empty

Places == {"source", "proxy", "staging", "mirror", "store"}

Reference == [at: Places, tag: Tags, pin: Digests \cup {NoDigest}]

\* What the registries serve for one image, place by place and tag by tag.
Served == [Places -> [Tags -> Digests]]

\* What a registry answers when it is asked for a reference.
Content(served, ref) ==
  IF ref.pin = NoDigest THEN served[ref.at][ref.tag] ELSE ref.pin

\* A reference gets the digest that was found under it, unless it has one.
Pinned(ref, digest) ==
  IF ref.pin = NoDigest THEN [ref EXCEPT !.pin = digest] ELSE ref

DigestOf(ref) == IF ref = NoRef THEN NoDigest ELSE ref.pin

InStore(ref) == ref # NoRef /\ ref.at = "store"

---------------------------------------------------------------------------
(* delivery.Resolver.Deliver answers a request                             *)
(*   mode        direct, mirror or lazycat                                 *)
(*   match       require_digest_match of the mirror                        *)
(*   ref, digest the selected source and its digest                        *)
(*   current     the runtime reference in the Manifest                     *)
(*   baseline    the digest of the upstream comment in the Manifest        *)
(*   mutable     the digest, not the version, tells an update              *)
(*   dryRun                                                                *)
(* with the set of its results: empty when it returns an error.            *)

Result(runtime, before, changed, moved) ==
  [runtime |-> runtime, current |-> before, changed |-> changed, moved |-> moved]

DeliverDirect(q) ==
  IF ~q.mutable
  THEN {Result(q.ref, NoDigest, FALSE, FALSE)}
  ELSE {Result([q.ref EXCEPT !.pin = q.digest], d, d # q.digest, FALSE) :
          d \in {DigestOf(q.current)} \ {NoDigest}}

DeliverMirror(q, served) ==
  LET mirrored == [at |-> "mirror", tag |-> q.ref.tag, pin |-> NoDigest]
      before   == DigestOf(q.current)
      changed  == before # q.digest
  IN IF q.mutable
     THEN IF ~q.match \/ before = NoDigest
          THEN {}
          ELSE {Result(IF changed THEN Pinned(mirrored, q.digest) ELSE q.current,
                       before, changed, FALSE)}
     ELSE IF ~q.dryRun /\ q.match /\ Content(served, mirrored) # q.digest
          THEN {}
          ELSE {Result(mirrored, NoDigest, FALSE, FALSE)}

\* The store keeps the copy under a name of its own, which never changes
\* what it serves.
Copied(ref, digest) == [at |-> "store", tag |-> ref.tag, pin |-> digest]

\* Bug: the tag is copied, and not the digest that was compared.
DeliverLazyCatTag(q, served) ==
  IF q.mutable /\ q.dryRun /\ q.baseline = NoDigest /\ InStore(q.current) THEN {}
  ELSE {Result(IF q.dryRun THEN q.current ELSE Copied(q.ref, Content(served, q.ref)),
               q.baseline, q.baseline # q.digest, TRUE)}

DeliverLazyCat(q, served) ==
  LET changed == q.baseline # q.digest
      copy    == Copied(q.ref, IF q.mutable THEN q.digest ELSE Content(served, q.ref))
      kept    == Result(q.current, q.baseline, changed, changed \/ ~InStore(q.current))
  IN CASE q.mutable /\ q.baseline # NoDigest ->
            IF ~kept.moved \/ q.dryRun THEN {kept} ELSE {[kept EXCEPT !.runtime = copy]}
       [] q.mutable /\ q.baseline = NoDigest /\ q.dryRun ->
            IF InStore(q.current) THEN {} ELSE {Result(q.current, NoDigest, FALSE, TRUE)}
       [] q.mutable /\ q.baseline = NoDigest /\ ~q.dryRun ->
            {Result(copy, NoDigest, InStore(q.current) /\ copy # q.current, TRUE)}
       [] ~q.mutable ->
            {Result(IF q.dryRun THEN NoRef ELSE copy, NoDigest, FALSE, FALSE)}

Deliver(q, served) ==
  CASE q.mode = "direct"  -> DeliverDirect(q)
    [] q.mode = "mirror"  -> DeliverMirror(q, served)
    [] q.mode = "lazycat" -> DeliverLazyCat(q, served)

---------------------------------------------------------------------------
(* manifestedit                                                            *)

Entry == [runtime: Reference \cup {NoRef}, upstream: Reference \cup {NoRef}]

\* Apply writes every update or, when one of them is incomplete, none.
Complete(updates) ==
  \A i \in DOMAIN updates : updates[i].runtime # NoRef /\ updates[i].upstream # NoRef

Apply(manifest, updates) ==
  IF Complete(updates)
  THEN [i \in DOMAIN manifest |-> IF i \in DOMAIN updates THEN updates[i] ELSE manifest[i]]
  ELSE manifest
=============================================================================
