------------------------------ MODULE Discovery ------------------------------
(***************************************************************************)
(* The lookup of the newest upstream release: registry.CandidatesForTarget *)
(* with versioning.Select for the tags of an image repository, GitRunner   *)
(* for the tags or the branch of a Git repository.  A lookup takes several *)
(* requests, and upstream pushes, moves and deletes tags between them.     *)
(*                                                                         *)
(* Tags and branches are numbers, in the order of their names.  What one   *)
(* names is a build: the digest of an image, or the commit of a Git tag or *)
(* branch (of the peeled line, when the tag is an object of its own).      *)
(*                                                                         *)
(* An operator whose comment begins with "Bug:" is the definition after    *)
(* it with a mistake that a property notices.                              *)
(***************************************************************************)
EXTENDS Naturals, FiniteSets, Functions

CONSTANTS
  MaxName,     \* number of names of tags and branches; they are 1 .. MaxName
  Builds,      \* what they may name
  NoBuild,     \* the name does not exist
  Created,     \* creation time of a build
  Fits,        \* builds that have an image for the target platform
  Eligible,    \* names that pass tag_regex and exclude_regex
  Version,     \* version a name maps to, 0 if there is none that can be parsed
  Prerelease,  \* names whose version is a prerelease
  Numeric,     \* all components of the vendor's numeric version
  Rules,       \* configured rules: kind, sort, channel and the names they misread
  PageSize,    \* tags on a page of Docker Hub
  Limit,       \* max_matching_tags
  MaxLookups,  \* bound on the number of lookups
  MaxMoves     \* bound on what upstream does

Tags == 1 .. MaxName

Kinds    == {"oci", "tag", "mapped", "branch"}
Sorts    == {"semver", "numeric", "updated", "created"}
\* "mutable" is the custom channel without a version mapping.
Channels == {"stable", "beta", "custom", "mutable", "nightly"}

\* Of a name in "overflow" the rule makes the text of a version, but with a
\* component that is too large; of one in "undotted" it makes a version, but
\* no dotted number to sort by.
RuleRecords ==
  [kind: Kinds, sort: Sorts, channel: Channels, overflow: SUBSET Tags, undotted: SUBSET Tags]

\* What the constants must be.
DiscoveryAssumption ==
  /\ MaxName \in Nat \ {0} /\ NoBuild \notin Builds
  /\ Created \in [Builds -> Nat] /\ Fits \subseteq Builds /\ Eligible \subseteq Tags
  /\ Version \in [Tags -> Nat] /\ Prerelease \subseteq Tags /\ Numeric \in [Tags -> Nat]
  /\ Rules \subseteq RuleRecords
  /\ \A r \in Rules :
       /\ r.channel \in {"nightly", "mutable"} => r.sort = "created"
       /\ r.sort = "created" => r.channel \in {"nightly", "mutable", "custom"}
       /\ r.sort = "numeric" => r.channel \in {"stable", "custom"}
       /\ r.kind # "oci" => r.sort = "semver" /\ r.channel = "stable"
       /\ \A t \in r.overflow : Version[t] = 0
  /\ PageSize \in Nat \ {0} /\ Limit \in Nat /\ MaxLookups \in Nat /\ MaxMoves \in Nat

VARIABLES
  served,    \* the build of each name
  pushed,    \* time of its last push
  clock,     \* time of the last push of all
  default,   \* the default branch
  rule,      \* the rule of the source
  pc,        \* next step of the lookup
  left,      \* names still to be inspected
  page,      \* page of Docker Hub to read next
  updates,   \* update times that were read
  inspected, \* candidates: tag, build and update time
  chosen,    \* the candidate that was selected
  previous,  \* the candidate of the lookup before, while nothing moved
  touched,   \* names that upstream changed during the lookup
  broken,    \* a request of the lookup has failed
  lookups, moves

remote == <<served, pushed, clock, default, moves>>
work   == <<left, page, updates, inspected>>
vars   == <<remote, rule, pc, work, chosen, previous, touched, broken, lookups>>

Active   == {"list", "page", "inspect", "collect", "read branch"}
NoTimes  == [t \in {} |-> 0]
NoChoice == [tag |-> 0, build |-> NoBuild, updated |-> 0]
Present  == {t \in Tags : served[t] # NoBuild}

Init ==
  /\ served \in [Tags -> Builds \cup {NoBuild}]
  /\ pushed \in {time \in [Tags -> Tags] : IsInjective(time)} /\ clock = MaxName
  /\ default \in Tags /\ rule \in Rules
  \* What a rule does not look at is not varied.
  /\ rule.sort = "updated" \/ pushed = [t \in Tags |-> t]
  /\ rule.kind = "branch" \/ default = 1
  /\ pc = "idle" /\ left = {} /\ page = 0 /\ updates = NoTimes /\ inspected = {}
  /\ chosen = NoChoice /\ previous = NoChoice /\ touched = {} /\ broken = FALSE
  /\ lookups = 0 /\ moves = 0

---------------------------------------------------------------------------
(* versioning                                                              *)

Maps == rule.channel \notin {"nightly", "mutable"}

OfChannel(t) ==
  CASE rule.channel = "stable" -> t \notin Prerelease
    [] rule.channel = "beta"   -> t \in Prerelease
    [] OTHER                   -> TRUE

\* A name that does not map is skipped, unless the rule is a custom one.  A
\* version that is too large, and one of the channel without a dotted number,
\* fail every rule that maps, whatever other names there are.  Git tags that are
\* not mapped are parsed apart, and any that cannot be is skipped.
RuleFails(tags) ==
  /\ Maps /\ rule.kind # "tag"
  /\ \E t \in tags :
       \/ rule.channel = "custom" /\ Version[t] = 0
       \/ t \in rule.overflow
       \/ rule.sort = "numeric" /\ t \in rule.undotted /\ Version[t] # 0 /\ OfChannel(t)

Ranked(tags) == {t \in tags : Maps => Version[t] # 0 /\ OfChannel(t)}

\* Greater as pairs <<first key, second key>>.
Above(a, b) == a[1] > b[1] \/ (a[1] = b[1] /\ a[2] > b[2])

\* Bug: candidates of the same rank stay in the order they came in.
BeforeUnordered(a, b) ==
  CASE rule.sort = "semver"  -> Version[a.tag] > Version[b.tag]
    [] rule.sort = "numeric" -> Numeric[a.tag] > Numeric[b.tag]
    [] rule.sort = "created" -> Created[a.build] > Created[b.build]
    [] rule.sort = "updated" -> a.updated > b.updated

\* The order of candidates.  Only the Git tags that are not mapped leave two
\* names of one version in the order of a map's iteration.
Before(a, b) ==
  LET byVersion == Above(<<Version[a.tag], a.tag>>, <<Version[b.tag], b.tag>>)
  IN CASE rule.kind = "tag"      -> Version[a.tag] > Version[b.tag]
       [] rule.kind # "tag" /\ rule.sort = "semver" -> byVersion
       [] rule.sort = "numeric" ->
            \/ Numeric[a.tag] > Numeric[b.tag]
            \/ Numeric[a.tag] = Numeric[b.tag] /\ byVersion
       [] rule.sort = "created" ->
            Above(<<Created[a.build], a.tag>>, <<Created[b.build], b.tag>>)
       [] rule.sort = "updated" -> a.updated > b.updated \/ (a.updated = b.updated /\ byVersion)

\* Bug: the names are compared as strings.
FirstByName(candidates) == {c \in candidates : \A d \in candidates : d.tag <= c.tag}

First(candidates) == {c \in candidates : \A d \in candidates : ~Before(d, c)}

---------------------------------------------------------------------------
(* The lookup                                                              *)

Start ==
  /\ pc \notin Active /\ lookups < MaxLookups
  /\ lookups' = lookups + 1 /\ pc' = "list"
  /\ previous' = IF touched = {} THEN chosen ELSE NoChoice
  /\ touched' = {} /\ broken' = FALSE /\ chosen' = NoChoice
  /\ left' = {} /\ page' = 0 /\ updates' = NoTimes /\ inspected' = {}
  /\ UNCHANGED <<remote, rule>>

Fails == pc' = "failed" /\ UNCHANGED <<work, chosen>>

\* A request fails, or its answer cannot be used.
RequestFails ==
  /\ pc \in Active /\ broken' = TRUE /\ Fails
  /\ UNCHANGED <<remote, rule, previous, touched, lookups>>

Chooses(candidate) == pc' = "done" /\ chosen' = candidate

Candidate(t) == [tag |-> t, build |-> served[t], updated |-> 0]

\* git ls-remote answers at once with every tag and its commit.
ListGitTags ==
  LET tags    == Present \cap Eligible
      ranked  == Ranked(tags)
      refused == ranked = {} \/ RuleFails(tags)
  IN /\ pc = "list" /\ rule.kind \in {"tag", "mapped"}
     /\ \/ refused /\ Fails
        \/ /\ ~refused
           /\ \E c \in First({Candidate(t) : t \in ranked}) : Chooses(c) /\ UNCHANGED work
     /\ UNCHANGED <<remote, rule, previous, touched, broken, lookups>>

\* The branch of HEAD is asked for first, its commit with a second request.
ReadHead ==
  /\ pc = "list" /\ rule.kind = "branch"
  /\ pc' = "read branch" /\ left' = {default}
  /\ UNCHANGED <<remote, rule, page, updates, inspected, chosen, previous, touched, broken, lookups>>

ReadBranch ==
  /\ pc = "read branch"
  /\ \E branch \in left :
       \/ served[branch] = NoBuild /\ Fails
       \/ served[branch] # NoBuild /\ Chooses(Candidate(branch)) /\ UNCHANGED work
  /\ UNCHANGED <<remote, rule, previous, touched, broken, lookups>>

\* The names that are inspected: semantic and numeric rules rank them first.
Inspected(tags) == IF rule.sort \in {"semver", "numeric"} THEN Ranked(tags) ELSE tags

\* The registry lists its tags.  A rule that cannot be followed fails before
\* any of them is inspected.
ListTags ==
  LET tags    == Present \cap Eligible
      refused == \/ Cardinality(tags) > Limit \/ tags = {}
                 \/ rule.sort \in {"semver", "numeric"} /\ (RuleFails(tags) \/ Ranked(tags) = {})
  IN /\ pc = "list" /\ rule.kind = "oci"
     /\ \/ refused /\ Fails
        \/ /\ ~refused /\ left' = Inspected(tags)
           /\ pc' = CASE rule.sort \in {"semver", "numeric"} -> "inspect"
                      [] rule.sort = "updated"                -> "page"
                      [] rule.sort = "created"                -> "collect"
           /\ UNCHANGED <<page, updates, inspected, chosen>>
     /\ UNCHANGED <<remote, rule, previous, touched, broken, lookups>>

\* Docker Hub lists all tags of the repository, the last pushed one first.
Place(t) == Cardinality({u \in Present : pushed[u] > pushed[t]})

PageOf(p) == {t \in Present : Place(t) \in p * PageSize .. (p + 1) * PageSize - 1}

\* The last page, or the last one that is read.
Ends(p) ==
  \/ Cardinality(PageOf(p)) < PageSize \/ (p + 1) * PageSize >= Cardinality(Present)
  \/ (p + 1) * PageSize >= Limit

\* One page of update times, until there is one for each eligible tag.  The
\* limit of matching tags is compared with the number of all tags.
ReadPage ==
  LET known == [t \in DOMAIN updates \cup (PageOf(page) \cap left) |->
                  IF t \in PageOf(page) THEN pushed[t] ELSE updates[t]]
      complete == DOMAIN known = left
      refused  == IF complete THEN RuleFails(left) \/ Ranked(left) = {} ELSE Ends(page)
  IN /\ pc = "page"
     /\ \/ (Cardinality(Present) > Limit \/ refused) /\ Fails
        \/ /\ Cardinality(Present) <= Limit /\ ~refused /\ updates' = known
           /\ page' = IF complete THEN page ELSE page + 1
           /\ pc' = IF complete THEN "inspect" ELSE pc
           /\ left' = IF complete THEN Ranked(left) ELSE left
           /\ UNCHANGED <<inspected, chosen>>
     /\ UNCHANGED <<remote, rule, previous, touched, broken, lookups>>

\* Ranked names are inspected in their order, until one of them has an image
\* for the platform.  A name that is gone fails the lookup.
Inspect ==
  LET waiting == {[tag |-> t, build |-> served[t],
                   updated |-> IF t \in DOMAIN updates THEN updates[t] ELSE 0] : t \in left}
  IN /\ pc = "inspect"
     /\ \E c \in First(waiting) :
          \/ c.build = NoBuild /\ Fails
          \/ c.build \in Fits /\ Chooses(c) /\ UNCHANGED work
          \/ c.build \in Builds \ Fits /\ left = {c.tag} /\ Fails
          \/ /\ c.build \in Builds \ Fits /\ left # {c.tag} /\ left' = left \ {c.tag}
             /\ UNCHANGED <<pc, page, updates, inspected, chosen>>
     /\ UNCHANGED <<remote, rule, previous, touched, broken, lookups>>

\* To compare creation times every name is inspected, in the order of names.
Collect ==
  /\ pc = "collect"
  /\ \E t \in left :
       /\ \A u \in left : t <= u
       /\ \/ served[t] = NoBuild /\ Fails
          \/ /\ served[t] # NoBuild /\ left' = left \ {t}
             /\ inspected' = IF served[t] \in Fits THEN inspected \cup {Candidate(t)} ELSE inspected
             /\ UNCHANGED <<pc, page, updates, chosen>>
  /\ UNCHANGED <<remote, rule, previous, touched, broken, lookups>>

\* versioning.Select, or SelectMutable, among those that were inspected.
SelectCreated ==
  LET names  == {c.tag : c \in inspected}
      usable == {c \in inspected : c.tag \in Ranked(names)}
  IN /\ pc = "collect" /\ left = {}
     /\ \/ (RuleFails(names) \/ usable = {}) /\ Fails
        \/ /\ ~RuleFails(names)
           /\ \E c \in First(usable) : Chooses(c) /\ UNCHANGED work
     /\ UNCHANGED <<remote, rule, previous, touched, broken, lookups>>

---------------------------------------------------------------------------
(* Upstream                                                                *)

Moves(name) ==
  /\ moves < MaxMoves /\ moves' = moves + 1 /\ touched' = touched \cup {name}
  /\ UNCHANGED <<rule, pc, work, chosen, previous, broken, lookups>>

\* A tag or branch is made, or moved.
Push(t, build) ==
  /\ Moves(t) /\ clock' = clock + 1
  /\ served' = [served EXCEPT ![t] = build] /\ pushed' = [pushed EXCEPT ![t] = clock + 1]
  /\ UNCHANGED default

Delete(t) ==
  /\ Moves(t) /\ t \in Present /\ served' = [served EXCEPT ![t] = NoBuild]
  /\ UNCHANGED <<pushed, clock, default>>

SetDefault(t) ==
  /\ rule.kind = "branch" /\ Moves(t) /\ default' = t
  /\ UNCHANGED <<served, pushed, clock>>

Next ==
  \/ Start \/ RequestFails \/ ListGitTags \/ ReadHead \/ ReadBranch \/ ListTags
  \/ ReadPage \/ Inspect \/ Collect \/ SelectCreated
  \/ \E t \in Tags, build \in Builds : Push(t, build)
  \/ \E t \in Tags : Delete(t) \/ SetDefault(t)

Spec == Init /\ [][Next]_vars

---------------------------------------------------------------------------
TypeOK ==
  /\ served \in [Tags -> Builds \cup {NoBuild}] /\ pushed \in [Tags -> Nat] /\ clock \in Nat
  /\ default \in Tags /\ rule \in Rules /\ pc \in Active \cup {"idle", "failed", "done"}
  /\ left \subseteq Tags /\ page \in Nat /\ (page > 0 => page * PageSize < Limit)
  /\ DOMAIN updates \subseteq Tags /\ touched \subseteq Tags /\ broken \in BOOLEAN
  /\ \A c \in inspected \cup ({chosen, previous} \ {NoChoice}) :
       c.tag \in Tags /\ c.build \in Builds /\ c.updated \in Nat

\* What the rule of the source allows, of the names nothing happened to.
Steady ==
  {t \in (Present \cap Eligible) \ touched :
     /\ rule.kind = "oci" => served[t] \in Fits
     /\ rule.channel \notin {"nightly", "mutable"} =>
          /\ Version[t] # 0
          /\ (rule.channel = "stable" => t \notin Prerelease)
          /\ (rule.channel = "beta" => t \in Prerelease)}

\* A lookup selects the highest release: none of those that were there all
\* the time it took ranks above the selected one, whatever moved meanwhile.
SelectedIsHighest ==
  pc = "done" /\ rule.kind # "branch" =>
    \A t \in Steady :
      CASE rule.sort = "semver"  -> Version[t] <= Version[chosen.tag]
        [] rule.sort = "numeric" -> Numeric[t] <= Numeric[chosen.tag]
        [] rule.sort = "created" -> Created[served[t]] <= Created[chosen.build]
        [] rule.sort = "updated" -> pushed[t] <= chosen.updated

\* A lookup repeated while nothing moves selects the same build, or fails.
\* Names of one version that differ only in form, as v1.2.0 and 1.2.0, are the
\* exception for Git tags that are not mapped.
RepeatedLookupAgrees ==
  pc = "done" /\ previous # NoChoice /\ touched = {} =>
    IF rule.kind = "tag" THEN Version[chosen.tag] = Version[previous.tag]
                         ELSE chosen = previous

\* The names a rule ranks: those with an image for the platform, when it has to
\* inspect all of them first.
Considered == {t \in Present \cap Eligible : rule.sort = "created" => served[t] \in Fits}

\* A lookup during which nothing moves and no request fails finds a release
\* when there is one, but for names the rule cannot rank: the pages of update
\* times leave no tag out.  It never passes over such a name to select another
\* one: what it skips does not map, or is of another channel.
QuietLookupSucceeds ==
  touched = {} /\ rule.kind # "branch" =>
    /\ pc = "failed" /\ ~broken /\ Cardinality(Present) <= Limit =>
         Steady = {} \/ RuleFails(Considered)
    /\ pc = "done" => ~RuleFails(Considered)

---------------------------------------------------------------------------
(* The inductive invariant of SelectedIsHighest.                           *)

\* Update times that were read are those of now, but for names that changed.
TimesTrue ==
  \A t \in DOMAIN updates : updates[t] \in Nat /\ (t \notin touched => updates[t] = pushed[t])

\* No name that was there all the time has been dropped from the lookup.
SteadyKept ==
  /\ pc \in {"page", "inspect", "collect"} => rule.kind = "oci"
  /\ pc = "read branch" => rule.kind = "branch"
  /\ pc = "page"    => rule.sort = "updated" /\ Steady \subseteq left
  /\ pc = "inspect" => /\ rule.sort # "created" /\ Steady \subseteq left
                       /\ rule.sort = "updated" => left \subseteq DOMAIN updates
  /\ pc = "collect" => /\ rule.sort = "created"
                       /\ \A t \in Steady : t \in left \/ Candidate(t) \in inspected

LookupInv == TypeOK /\ TimesTrue /\ SteadyKept /\ SelectedIsHighest

---------------------------------------------------------------------------
(* The one of RepeatedLookupAgrees and QuietLookupSucceeds.                *)

\* A name as the rule compares it.
Key(t) ==
  [tag |-> t, build |-> served[t], updated |-> IF rule.sort = "updated" THEN pushed[t] ELSE 0]

\* What a lookup answers while nothing moves.
Answers ==
  IF rule.kind = "branch" THEN {Candidate(default)} ELSE First({Key(t) : t \in Steady})

\* Each push has a time of its own.
TimesDiffer ==
  /\ \A t, u \in Tags : pushed[t] = pushed[u] => t = u
  /\ \A t \in Tags : pushed[t] <= clock

\* What a lookup has read is what there is, as long as nothing moves.
ReadTrue ==
  /\ pc = "read branch" => left = {default}
  /\ pc \in {"page", "inspect", "collect"} => left \subseteq Present \cap Eligible
  /\ pc = "page" => /\ left = Present \cap Eligible /\ DOMAIN updates \subseteq left
                    /\ \A t \in left : Place(t) < page * PageSize => t \in DOMAIN updates
  /\ pc = "inspect" => left \subseteq Ranked(left) /\ ~RuleFails(Present \cap Eligible)
  /\ pc = "collect" =>
       /\ \A c \in inspected : \E t \in Considered : c = Candidate(t)
       /\ \A t \in Considered : t \in left \/ Candidate(t) \in inspected
  /\ pc = "done" => chosen \in Answers
  /\ previous # NoChoice => previous \in Answers

QuietKept ==
  /\ TimesDiffer
  /\ chosen # NoChoice => pc = "done"
  /\ rule.sort # "updated" => DOMAIN updates = {}
  /\ pc = "list" => page = 0 /\ DOMAIN updates = {} /\ inspected = {}
  /\ touched = {} => ReadTrue
  /\ QuietLookupSucceeds

QuietInv == LookupInv /\ QuietKept
=============================================================================
