----------------------------- MODULE MCSelection -----------------------------
(***************************************************************************)
(* What a check goes through before it builds: the configuration that is   *)
(* loaded, the upstream release that is looked up, the comparison of its   *)
(* version and the version of the application.                             *)
(*                                                                         *)
(* Modules Settings, Discovery, NumericVersions and AppVersion share no    *)
(* state and are checked in one run: a behaviour is one of one module,     *)
(* with the variables of the others at rest.                               *)
(***************************************************************************)
EXTENDS MCSettings

CONSTANTS
  b1, b2, b3,
  MaxName, Builds, NoBuild, Created, Fits, Eligible, Version, Prerelease, Numeric, Rules,
  PageSize, Limit, MaxLookups, MaxMoves,
  Twin,  \* a build that differs from another in its creation time only
  Base, MaxDigits, MaxParts,
  Largest, Prereleases, Fingerprints, None, Overflow

VARIABLES
  part,  \* the module whose behaviour this is
  served, pushed, clock, default, rule, pc, left, page, updates, inspected,
  chosen, previous, touched, broken, lookups, moves,
  leftVersion, rightVersion, compared,
  current, lock

\* Two forms of one version, a newer one, and a name that maps to none; two
\* builds for the platform, and one for another.
MCCreated == [b \in {b1, b2, b3} |-> IF b = b3 THEN 2 ELSE 1]
MCVersion == <<1, 1, 2, 0>>
MCNumeric == <<1, 2, 3, 0>>

Stable(kind, sort) ==
  [kind |-> kind, sort |-> sort, channel |-> "stable", overflow |-> {}, undotted |-> {}]
MCRules ==
  {Stable("oci", sort) : sort \in {"semver", "numeric", "updated"}} \cup
  {Stable(kind, "semver") : kind \in {"tag", "mapped", "branch"}} \cup
  {[Stable("oci", "semver") EXCEPT !.channel = c] : c \in {"beta", "custom"}} \cup
  {[Stable("oci", "created") EXCEPT !.channel = c] : c \in {"nightly", "mutable", "custom"}} \cup
  {[Stable(kind, "semver") EXCEPT !.overflow = {4}] : kind \in {"oci", "tag", "mapped"}} \cup
  {[Stable("oci", "numeric") EXCEPT !.undotted = {2, 3}]}

D == INSTANCE Discovery

N == INSTANCE NumericVersions WITH left <- leftVersion, right <- rightVersion

A == INSTANCE AppVersion

ASSUME PartsAssumption == D!DiscoveryAssumption /\ N!NumericAssumption /\ A!AppVersionAssumption

lookup == <<served, pushed, clock, default, rule, pc, left, page, updates, inspected,
            chosen, previous, touched, broken, lookups, moves>>
pair   == <<leftVersion, rightVersion, compared>>
app    == <<current, lock>>

NoCheck ==
  /\ config = [version |-> 2, source |-> GitSource, notes |-> NoNotes, prepare |-> Unprepared,
               images |-> <<Service>>, driver |-> 0, bump |-> FALSE, downgrade |-> FALSE,
               official |-> TRUE]
  /\ step = "load" /\ image = 1 /\ effects = {} /\ delivered = <<>>

NoLookup ==
  /\ served = [t \in D!Tags |-> NoBuild] /\ pushed = [t \in D!Tags |-> t] /\ clock = MaxName
  /\ default = 1 /\ rule = Stable("oci", "semver") /\ pc = "idle" /\ left = {} /\ page = 0
  /\ updates = D!NoTimes /\ inspected = {} /\ chosen = D!NoChoice /\ previous = D!NoChoice
  /\ touched = {} /\ broken = FALSE /\ lookups = 0 /\ moves = 0

NoPair == leftVersion = <<<<>>>> /\ rightVersion = <<<<>>>> /\ compared = TRUE

NoApp ==
  /\ current = [major |-> 0, minor |-> 0, patch |-> 0, pre |-> 0]
  /\ lock = [fingerprint |-> None, version |-> None]

\* Creation times matter to rules that sort by them.
PartsInit ==
  \/ part = "settings" /\ Init /\ NoLookup /\ NoPair /\ NoApp
  \/ /\ part = "discovery" /\ NoCheck /\ D!Init /\ NoPair /\ NoApp
     /\ rule.sort = "created" \/ \A t \in D!Tags : served[t] # Twin
  \/ part = "numeric" /\ NoCheck /\ NoLookup /\ N!Init /\ NoApp
  \/ part = "version" /\ NoCheck /\ NoLookup /\ NoPair /\ A!Init

PartsNext ==
  /\ UNCHANGED part
  /\ \/ part = "settings" /\ Next /\ UNCHANGED <<lookup, pair, app>>
     \/ part = "discovery" /\ D!Next /\ UNCHANGED <<vars, pair, app>>
     \/ part = "numeric" /\ N!Next /\ UNCHANGED <<vars, lookup, app>>
     \/ part = "version" /\ A!Next /\ UNCHANGED <<vars, lookup, pair>>

PartsSpec == PartsInit /\ [][PartsNext]_<<part, vars, lookup, pair, app>>

\* A lookup selects the highest release that was there all the time (module
\* Discovery).
SelectedIsHighest == part = "discovery" => D!SelectedIsHighest

\* A lookup that is repeated while nothing moves agrees with the one before,
\* and finds a release when there is one, unless it cannot rank another name
\* (module Discovery).
LookupsAgree ==
  part = "discovery" => D!TypeOK /\ D!RepeatedLookupAgrees /\ D!QuietLookupSucceeds

\* Versions are compared by their values, normalised without losing them, and
\* refused only when they cannot grow (modules NumericVersions, AppVersion).
VersionsCorrect ==
  /\ part = "numeric" => N!ComparesValues /\ N!NormalizesToValid
  /\ part = "version" => A!RefusedOnlyAtTheEnd

\* Each new package has a greater version (module AppVersion).
PackagedVersionGrows == A!PackagedVersionGrows
==============================================================================
