---------------------------- MODULE MCImageCheck ----------------------------
(* Three projects of two images: one publishes from a fresh checkout, one    *)
(* keeps its tree, which a developer has edited, and one opens pull requests.*)
EXTENDS ImageCheck, TLC

CONSTANTS t1, t2, d0, d1

MCTag == (t1 :> 1) @@ (t2 :> 2)

At(place, pin) == [at |-> place, tag |-> t1, pin |-> pin]
Entered(place, runtime, upstream) ==
  [runtime |-> At(place, runtime), upstream |-> At("source", upstream)]

\* A mutable image, both images copied to the store.
Publishing ==
  [patch |-> TRUE, mode |-> [i \in Images |-> "lazycat"], match |-> [i \in Images |-> TRUE],
   sorted |-> {1}, unnamed |-> {}, downgrade |-> FALSE, publishes |-> TRUE, keeps |-> FALSE,
   entries |-> {Entered("store", d0, d0), Entered("source", NoDigest, NoDigest)},
   reviews |-> {0, 1}, runs |-> 3, moves |-> 2]

\* A mutable image that is not copied, and entries that disagree.
Kept ==
  [Publishing EXCEPT
     !.mode = [i \in Images |-> IF i = Driver THEN "direct" ELSE "mirror"],
     !.sorted = {}, !.keeps = TRUE, !.reviews = {0, 1, 2}, !.runs = 2, !.moves = 1,
     !.entries = {Entered("source", r, u) : r, u \in {d0, d1}} \cup {Entered("mirror", d0, d1)}]

\* Images with versions, one of them found by what the Manifest names.
Pulling ==
  [Publishing EXCEPT
     !.patch = FALSE, !.mode = [i \in Images |-> IF i = Driver THEN "lazycat" ELSE "mirror"],
     !.sorted = {2}, !.unnamed = {1}, !.publishes = FALSE, !.reviews = {0}, !.moves = 1,
     !.entries = {[runtime |-> At("mirror", d0), upstream |-> NoRef],
                  Entered("mirror", NoDigest, NoDigest)}]

MCProjects == [publishing |-> Publishing, kept |-> Kept, pulling |-> Pulling]

\* What the theorems on the digest of the driver assume of the projects.
ASSUME MCEntriesAgree == EntriesAgree
=============================================================================
