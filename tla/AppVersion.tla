----------------------------- MODULE AppVersion -----------------------------
(***************************************************************************)
(* The application version a source is packaged with, in the integers the  *)
(* program has: sourceApplicationVersion, versioning.BumpPatch and the     *)
(* part of runSourceCheck that calls them, run after run, with builds that *)
(* fail, rejected reviews and a developer who edits the recipe.            *)
(*                                                                         *)
(* A version is major, minor, patch and the prerelease, 0 for a release;   *)
(* build metadata is left out.  A source whose version cannot be parsed is *)
(* refused, and is none of the candidates.  An operator whose comment      *)
(* begins with "Bug:" is the definition after it with a mistake that a     *)
(* property notices.                                                       *)
(***************************************************************************)
EXTENDS Naturals

CONSTANTS
  Largest,      \* the largest component; 2^64 - 1 in the program
  Prereleases,  \* number of prereleases of a version
  Fingerprints, \* sources with their recipes
  None,         \* no version: a source without one, a lock without a package
  Overflow      \* BumpPatch returns an error

Component == 0 .. Largest
Versions  == [major: Component, minor: Component, patch: Component, pre: 0 .. Prereleases]

\* What the constants must be.
AppVersionAssumption ==
  /\ Largest \in Nat /\ Prereleases \in Nat
  /\ None \notin Versions \cup Fingerprints /\ Overflow \notin Versions /\ None # Overflow

VARIABLES
  current, \* the version in package.yml
  lock     \* fingerprint and version of the package in the lock

vars == <<current, lock>>

Init ==
  /\ current \in Versions
  /\ lock = [fingerprint |-> None, version |-> None]

\* semver.Compare: a prerelease comes before its release.
GreaterThan(a, b) ==
  \/ a.major > b.major
  \/ a.major = b.major /\ a.minor > b.minor
  \/ a.major = b.major /\ a.minor = b.minor /\ a.patch > b.patch
  \/ /\ <<a.major, a.minor, a.patch>> = <<b.major, b.minor, b.patch>>
     /\ b.pre # 0 /\ (a.pre = 0 \/ a.pre > b.pre)

\* Only a release can be bumped, and not past the last patch.
BumpPatch(version) ==
  IF version.pre # 0 \/ version.patch = Largest
  THEN Overflow
  ELSE [version EXCEPT !.patch = @ + 1]

\* Bug: a version that is not newer is used.
SourceApplicationVersionOwn(fingerprint, candidate) ==
  IF candidate = None THEN BumpPatch(current) ELSE candidate

SourceApplicationVersion(fingerprint, candidate) ==
  CASE lock.fingerprint = fingerprint -> lock.version
    [] lock.fingerprint # fingerprint /\ candidate # None /\ GreaterThan(candidate, current) -> candidate
    [] lock.fingerprint # fingerprint /\ (candidate = None \/ ~GreaterThan(candidate, current)) ->
         BumpPatch(current)

\* A granted retry of a rejected source needs another version, unless its
\* package still waits to be submitted; that one is packaged without "retry".
PackageVersion(fingerprint, candidate, retry) ==
  LET version == SourceApplicationVersion(fingerprint, candidate)
  IN IF retry /\ version # Overflow THEN BumpPatch(current) ELSE version

\* A source is packaged under a version, or refused.
Package(fingerprint, candidate, retry) ==
  LET version == PackageVersion(fingerprint, candidate, retry)
  IN /\ version # Overflow
     /\ current' = version
     /\ lock' = [fingerprint |-> fingerprint, version |-> version]

\* The build failed after the version was set, and so did its rollback.
KeepVersion(fingerprint, candidate, retry) ==
  LET version == PackageVersion(fingerprint, candidate, retry)
  IN version # Overflow /\ current' = version /\ UNCHANGED lock

Next ==
  \E fingerprint \in Fingerprints, candidate \in Versions \cup {None}, retry \in BOOLEAN :
    Package(fingerprint, candidate, retry) \/ KeepVersion(fingerprint, candidate, retry)

Spec == Init /\ [][Next]_vars

---------------------------------------------------------------------------
\* What a version is worth, in the order of SemVer.
Rank(version) ==
  (((version.major * (Largest + 1) + version.minor) * (Largest + 1) + version.patch)
     * (Prereleases + 1)) + (IF version.pre = 0 THEN Prereleases ELSE version.pre - 1)

\* Versions of packages only grow, whatever the sources' own versions are and
\* although some are retried: the patch component never wraps around and never
\* falls back.
PackagedVersionGrows ==
  [][lock' # lock =>
       Rank(lock'.version) > Rank(current)
         /\ (lock.version # None => Rank(lock'.version) > Rank(lock.version))]_lock

\* A source that is new, or retried, is refused only when the application
\* version is a prerelease or its patch cannot grow, and the version of a new
\* one is not newer.
RefusedOnlyAtTheEnd ==
  \A fingerprint \in Fingerprints, candidate \in Versions \cup {None}, retry \in BOOLEAN :
    PackageVersion(fingerprint, candidate, retry) = Overflow <=>
      /\ current.pre # 0 \/ current.patch = Largest
      /\ \/ retry
         \/ /\ fingerprint # lock.fingerprint
            /\ candidate # None => Rank(candidate) <= Rank(current)

\* The inductive invariant: no package is ahead of package.yml, although a
\* source that is packaged again puts its own version back into it.
VersionInv ==
  /\ current \in Versions
  /\ lock \in [fingerprint: Fingerprints \cup {None}, version: Versions \cup {None}]
  /\ lock.fingerprint # None => lock.version # None
  /\ lock.version # None => Rank(lock.version) <= Rank(current)
=============================================================================
