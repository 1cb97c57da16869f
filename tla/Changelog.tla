------------------------------ MODULE Changelog ------------------------------
(***************************************************************************)
(* The notes a source pipeline writes for a new version, from the upstream *)
(* commits since the release it packaged before: GitRunner.Changelog in    *)
(* the mode git-commits, with the part of runSourceCheck that asks for it. *)
(*                                                                         *)
(* The notes are read from a clone that is made after the source was       *)
(* looked up, and upstream commits, tags and rewinds at any time.  A run   *)
(* may fail after the notes were made, and a new configuration makes the   *)
(* same source be packaged again.  An operator may dispatch any run with a *)
(* text of their own, and the configuration may ask for no notes.          *)
(*                                                                         *)
(* Commits are numbers, in the order of their dates.  Versions and the     *)
(* tags named after them are numbers too: 4 is a patch release after 3.    *)
(*                                                                         *)
(* An operator whose comment begins with "Bug:" is the definition after    *)
(* it with a mistake that a property notices.                              *)
(***************************************************************************)
EXTENDS Naturals, FiniteSets

CONSTANTS
  Kinds,      \* kinds of sources: branch, tag and oci
  MaxNotes,   \* changelog.max_commits
  MaxCommit,  \* bound on the number of commits
  MaxVersion, \* bound on versions
  MaxEvents   \* bound on rewinds, deleted tags and new configurations

Commits  == 1 .. MaxCommit
Versions == 1 .. MaxVersion

\* What the constants must be.
ChangelogAssumption ==
  /\ Kinds \subseteq {"branch", "tag", "oci"} /\ MaxNotes \in 1 .. 50
  /\ MaxCommit \in Nat \ {0} /\ MaxVersion \in Nat \ {0} /\ MaxEvents \in Nat

VARIABLES
  kind,
  parents,     \* of the commits there are
  head,        \* head of the branch
  tags,        \* commit of each tag
  config,      \* the configuration, as far as it is a part of the fingerprint
  configured,  \* it names the repository of the notes, which is no part of it
  app,         \* the application version of the committed tree
  lock,        \* the state file: source, configuration, status and text
  pc,
  candidate,   \* the source that was looked up
  target,      \* the version of the run
  notes,       \* its text: the commits it lists, {} for none, or OtherText
  omits,       \* commits that its text leaves out for a reason
  first,       \* revision of the first release that was packaged
  described,   \* commits listed in the texts the versions were packaged with last
  omitted,     \* commits that these texts leave out for a reason
  published,   \* versions that were packaged, each with its text
  events

upstream == <<kind, parents, head, tags, config, configured, events>>
run      == <<pc, candidate, target, notes, omits>>
hist     == <<first, described, omitted, published>>
vars     == <<upstream, app, lock, run, hist>>

\* A text that lists no commit: an operator's, or the one every submission has.
OtherText == {0}

NoSource == [tag |-> 0, revision |-> 0]
NoLock   == [source |-> NoSource, config |-> 0, status |-> "none", notes |-> {}]

\* Sets of commits with all that their members are made from.
Closed == {S \in SUBSET DOMAIN parents : \A c \in S : parents[c] \subseteq S}

\* A commit and all it is made from.
Ancestors(c) == {a \in DOMAIN parents : \A S \in Closed : c \in S => a \in S}

Merges == {c \in DOMAIN parents : Cardinality(parents[c]) > 1}

Init ==
  /\ kind \in Kinds /\ parents = [c \in {1} |-> {}] /\ head = 1
  /\ tags = [v \in {1} |-> 1] /\ config = 1 /\ configured \in BOOLEAN /\ app = 1
  /\ lock = NoLock /\ pc = "idle" /\ candidate = NoSource /\ target = 0
  /\ notes = {} /\ omits = {} /\ first = 0 /\ described = {} /\ omitted = {}
  /\ published = {} /\ events = 0

---------------------------------------------------------------------------
Newest(numbers) == CHOOSE n \in numbers : \A m \in numbers : m <= n

\* What discovery finds: the head of the branch, or the highest tag.
Found ==
  IF kind = "branch" THEN [tag |-> 0, revision |-> head]
  ELSE LET v == Newest(DOMAIN tags) IN [tag |-> v, revision |-> tags[v]]

SameInputs(source) == lock.source = source /\ lock.config = config

ApplicationVersion(source) ==
  IF SameInputs(source) THEN app ELSE IF source.tag > app THEN source.tag ELSE app + 1

\* A run that has something to do: another source or configuration, or the
\* version that was packaged and not submitted.  A Git tag may not move.
Discover ==
  /\ pc = "idle" /\ DOMAIN tags # {}
  /\ ~SameInputs(Found) \/ lock.status = "packaged"
  /\ ~(kind = "tag" /\ lock.source.tag = Found.tag /\ lock.source.revision # Found.revision)
  /\ ApplicationVersion(Found) \in Versions
  /\ candidate' = Found /\ target' = ApplicationVersion(Found) /\ notes' = {} /\ omits' = {}
  /\ pc' = "notes" /\ UNCHANGED <<upstream, app, lock, hist>>

\* The run ends.
Ends == pc' = "idle" /\ candidate' = NoSource /\ target' = 0 /\ notes' = {} /\ omits' = {}

Stops == Ends /\ UNCHANGED <<upstream, app, lock, hist>>

\* The text the state file keeps for the version that was packaged.
SavedNotes == IF SameInputs(candidate) THEN lock.notes ELSE {}

\* The commit the notes end with, by its revision or by the tag of the clone.
Targets ==
  IF kind # "oci" THEN {candidate.revision}
  ELSE {tags[v] : v \in {candidate.tag} \cap DOMAIN tags}

\* Bug: the revision the state file records is not used.
BasesByTag == {IF app \in DOMAIN tags THEN tags[app] ELSE 0}

\* The commit they begin after, 0 when there is none: the revision packaged
\* before, which a clone may lack when no branch or tag leads to it, or for
\* an image the tag of the application's version.
Bases ==
  IF kind # "oci" /\ lock.source # NoSource
  THEN {lock.source.revision}
  ELSE {IF app \in DOMAIN tags THEN tags[app] ELSE 0}

\* git log: the commits of the range, merges left out, or the last one.
Range(base, to) ==
  IF base # 0 /\ base # to THEN (Ancestors(to) \ Ancestors(base)) \ Merges
  ELSE LET all == Ancestors(to) \ Merges IN IF all = {} THEN {} ELSE {Newest(all)}

Listed(range) == {c \in range : Cardinality({d \in range : d >= c}) <= MaxNotes}

\* Bug: a range without commits gives empty notes.
SomeNotesAlways(listed) == TRUE

SomeNotes(listed) == listed # {}

\* Commits of the release that the one packaged before had not.
Ahead ==
  IF lock.status = "none" THEN {}
  ELSE (Ancestors(candidate.revision) \ Merges) \ Ancestors(lock.source.revision)

\* Notes of an image begin after the release that was packaged before when the
\* tag of the application's version still names it, and end with the image's.
InStep ==
  \/ kind # "oci" \/ lock.status = "none"
  \/ /\ app \in DOMAIN tags /\ tags[app] = lock.source.revision
     /\ tags[candidate.tag] = candidate.revision

\* The operator's text comes before any other.
DictateNotes == notes' = OtherText /\ omits' = Ahead \cup (SavedNotes \ OtherText)

KeepNotes == SavedNotes # {} /\ notes' = SavedNotes /\ omits' = {}

NoNotes == SavedNotes = {} /\ ~configured /\ notes' = {} /\ omits' = Ahead

GenerateNotes ==
  /\ SavedNotes = {} /\ configured
  /\ \E to \in Targets, base \in Bases :
       LET range == Range(base, to)
       IN /\ SomeNotes(Listed(range)) /\ notes' = Listed(range)
          /\ omits' = (range \cup IF InStep THEN {} ELSE Ahead) \ Listed(range)

WriteNotes ==
  /\ pc = "notes"
  /\ \/ Stops
     \/ /\ DictateNotes \/ KeepNotes \/ NoNotes \/ GenerateNotes
        /\ pc' = "package" /\ UNCHANGED <<upstream, app, lock, candidate, target, hist>>

\* The version is packaged, and the tree and the state file are committed.
PackageNotes ==
  /\ pc = "package"
  /\ \/ Stops
     \/ /\ Ends /\ app' = target
        /\ lock' = [source |-> candidate, config |-> config, status |-> "packaged", notes |-> notes]
        /\ described' = (described \ SavedNotes) \cup (notes \ OtherText)
        /\ omitted' = omitted \cup omits
        /\ published' = published \cup {[version |-> target, notes |-> notes]}
        /\ first' = IF first = 0 THEN candidate.revision ELSE first
        /\ UNCHANGED upstream

\* The store has the packaged version; the submission may have a text of its own.
Submit ==
  /\ pc = "idle" /\ lock.status = "packaged"
  /\ \E text \in {lock.notes, OtherText} :
       lock' = [lock EXCEPT !.status = "submitted", !.notes = text]
  /\ UNCHANGED <<upstream, app, run, hist>>

---------------------------------------------------------------------------
(* Upstream and the adapter's developer                                    *)

MakeCommit(others) ==
  LET c == Cardinality(DOMAIN parents) + 1
  IN /\ c \in Commits /\ head' = c
     /\ parents' = [d \in DOMAIN parents \cup {c} |-> IF d = c THEN {head} \cup others ELSE parents[d]]
     /\ UNCHANGED <<kind, tags, config, configured, events, app, lock, run, hist>>

Tag(v) ==
  /\ kind # "branch" /\ \A w \in DOMAIN tags : w < v
  /\ tags' = [w \in DOMAIN tags \cup {v} |-> IF w = v THEN head ELSE tags[w]]
  /\ UNCHANGED <<kind, parents, head, config, configured, events, app, lock, run, hist>>

\* The branch is rewound, the highest tag is deleted, or the adapter changes.
Event ==
  /\ events < MaxEvents /\ events' = events + 1
  /\ \/ \E c \in DOMAIN parents \ {head} : head' = c /\ UNCHANGED <<tags, config, configured>>
     \/ /\ Cardinality(DOMAIN tags) > 1 /\ UNCHANGED <<head, config, configured>>
        /\ tags' = [w \in DOMAIN tags \ {Newest(DOMAIN tags)} |-> tags[w]]
     \/ /\ pc = "idle" /\ config' \in {config, config + 1} /\ configured' \in BOOLEAN
        /\ UNCHANGED <<head, tags>>
  /\ UNCHANGED <<kind, parents, app, lock, run, hist>>

Next ==
  \/ Discover \/ WriteNotes \/ PackageNotes \/ Submit \/ Event
  \/ \E others \in {{}} \cup {{c} : c \in DOMAIN parents} : MakeCommit(others)
  \/ \E v \in Versions : Tag(v)

Spec == Init /\ [][Next]_vars

---------------------------------------------------------------------------
TypeOK ==
  /\ kind \in Kinds /\ DOMAIN parents \subseteq Commits /\ head \in DOMAIN parents
  /\ DOMAIN tags \subseteq Versions /\ \A v \in DOMAIN tags : tags[v] \in DOMAIN parents
  /\ config \in Nat /\ configured \in BOOLEAN /\ app \in Versions
  /\ pc \in {"idle", "notes", "package"} /\ lock.status \in {"none", "packaged", "submitted"}
  /\ {candidate.revision, first} \subseteq {0} \cup Commits
  /\ notes \in (SUBSET Commits) \cup {OtherText} /\ Cardinality(notes) <= MaxNotes
  /\ omits \cup described \cup omitted \subseteq Commits

\* Whatever upstream does between runs, and whichever runs fail, each commit
\* the packaged release has and the first one had not is in the notes of a
\* version, unless there was a reason to leave it out: there were more than the
\* notes may list, an operator gave the text, no notes were configured, or the
\* tag of the application's version did not name the release of an image that
\* was packaged before.
EveryCommitDescribed ==
  lock.status # "none" =>
    (Ancestors(lock.source.revision) \ Merges) \ Ancestors(first) \subseteq described \cup omitted

\* The notes made for a version are not made anew when it is packaged again
\* before it was submitted, whatever upstream and the configuration do: another
\* text is an operator's, or there was none before.
OneTextPerVersion ==
  \A p, q \in published :
    p.version = q.version => p.notes = q.notes \/ {p.notes, q.notes} \cap {{}, OtherText} # {}

\* A Git source that went back to a release it came from is not packaged with
\* notes that are made of its commits: there is none to describe.  A text of
\* the operator's, or a configuration without notes, lets it pass.
NeverBackwards ==
  [][lock'.source # lock.source /\ lock.source # NoSource /\ kind # "oci" =>
       \/ ~configured \/ lock'.notes = OtherText
       \/ lock'.source.revision \notin Ancestors(lock.source.revision) \ {lock.source.revision}]_vars

---------------------------------------------------------------------------
(* The inductive invariant.                                                *)

\* Commits are numbered as they are made.
CommitsNumbered ==
  /\ DOMAIN parents = 1 .. Cardinality(DOMAIN parents)
  /\ \A c \in DOMAIN parents : parents[c] \subseteq DOMAIN parents

\* The lock is of the release that was packaged last, the first of them too.
LockPackaged ==
  IF lock.status = "none" THEN lock = NoLock /\ first = 0 /\ published = {}
  ELSE /\ lock \in [source: [tag: Nat, revision: DOMAIN parents], config: Nat,
                    status: {"packaged", "submitted"}, notes: (SUBSET Commits) \cup {OtherText}]
       /\ first \in DOMAIN parents /\ Cardinality(lock.notes) <= MaxNotes

\* The run is about a source there was, and its version is still the next.
RunContinues ==
  pc # "idle" => /\ candidate \in [tag: Nat, revision: DOMAIN parents]
                 /\ target = ApplicationVersion(candidate) /\ target \in Versions

\* A text describes what the release has and the one before lacks, but for what
\* it omits, and takes the place of the one there was only if the operator
\* gave it.
NotesDescribe ==
  pc = "package" =>
    /\ SavedNotes # {} => notes \in {SavedNotes, OtherText}
    /\ Ahead \cup (SavedNotes \ OtherText) \subseteq notes \cup omits
    /\ kind # "oci" /\ lock.status # "none" /\ configured /\ notes # OtherText =>
         candidate.revision \notin Ancestors(lock.source.revision) \ {lock.source.revision}

\* No version is newer than that of the tree, and the lock keeps its notes until
\* the operator gives others.
TextsKept ==
  \A p \in published :
    /\ p.version \in Nat /\ p.version <= app
    /\ p.version = app /\ p.notes # {} => lock.notes \in {p.notes, OtherText}

ChangelogInv ==
  /\ TypeOK /\ CommitsNumbered /\ LockPackaged /\ RunContinues /\ NotesDescribe /\ TextsKept
  /\ EveryCommitDescribed /\ OneTextPerVersion
=============================================================================
