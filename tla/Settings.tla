------------------------------ MODULE Settings ------------------------------
(***************************************************************************)
(* What a configuration makes a check do: config.Load with its defaults    *)
(* and its validation, and the steps of runCheck that later read the       *)
(* settings and may refuse them: the selection of a source or of an image, *)
(* the release notes, the preparation and the delivery of images.          *)
(*                                                                         *)
(* The settings are validated when they are loaded and again, by other     *)
(* code, where they are used; the two have to agree, and nothing a         *)
(* configuration asks for may be left out silently.  What a setting is     *)
(* compared with is left out: a reference, a template or an expression is  *)
(* "" when it is not given, "good" when it can be expanded or compiled,    *)
(* and "bad" otherwise.  Each step may also fail for another reason.       *)
(*                                                                         *)
(* An operator whose comment begins with "Bug:" is the definition after    *)
(* it with a mistake that a property notices.                              *)
(***************************************************************************)
EXTENDS Integers, Sequences

CONSTANTS
  Files,   \* families of configuration files: a sequence of sets
  Words    \* what is written for a setting that is not a number or a flag

\* The settings that are modelled.  A Git source names a url and an OCI source
\* an image ("at"); "driver" is the image the version is taken from, 0 if none.
Source  == [kind: Words, at: Words, auth: BOOLEAN, strategy: Words, sort: Words,
            channel: Words, filter: Words, regex: Words, template: Words]
Notice  == [mode: Words, command: BOOLEAN, url: BOOLEAN, max: Int]
Recipe  == [mode: Words, command: BOOLEAN, dockerfile: BOOLEAN, output: Words, context: Words]
Image   == [target: Words, source: Words, channel: Words, sort: Words, filter: Words,
            regex: Words, mode: Words, template: BOOLEAN, match: BOOLEAN,
            copy: Words, staging: Words]
Config  == [version: Nat, source: Source, notes: Notice, prepare: Recipe, images: Seq(Image),
            driver: Nat, bump: BOOLEAN, downgrade: BOOLEAN, official: BOOLEAN]

ASSUME SettingsAssumption ==
  /\ {"passthrough", "stable", "nightly", "semver", "created", "lazycat"} \subseteq Words
  /\ \A k \in DOMAIN Files : Files[k] \subseteq Config

VARIABLES
  config,    \* the configuration, as it was written or with its defaults
  step,      \* next step of the check, or how it ended
  image,     \* the image it is at
  effects,   \* what it has done: command, pushed, staged, copied, edited
  delivered  \* the way each image handled so far was delivered

vars == <<config, step, image, effects, delivered>>

Running == {"load", "select", "discover", "notes", "prepare", "deliver", "edit"}

Init ==
  /\ \E k \in DOMAIN Files : config \in Files[k]
  /\ step = "load" /\ image = 1 /\ effects = {} /\ delivered = <<>>

Default(value, default) == IF value = "" THEN default ELSE value

Images == {config.images[i] : i \in DOMAIN config.images}

---------------------------------------------------------------------------
(* config.Load                                                             *)

DefaultChannel(i) == IF i.channel = "night" THEN "nightly" ELSE Default(i.channel, "stable")

DefaultSort(i) ==
  CASE i.sort # "" \/ DefaultChannel(i) \notin {"stable", "beta", "date", "nightly"} -> i.sort
    [] i.sort = "" /\ DefaultChannel(i) \in {"stable", "beta", "date"} -> "semver"
    [] i.sort = "" /\ DefaultChannel(i) = "nightly"                    -> "created"

WithDefaults(file) ==
  [file EXCEPT
    !.prepare.mode = IF file.version = 2 THEN Default(@, "passthrough") ELSE @,
    !.images = [k \in DOMAIN @ |->
                 [@[k] EXCEPT !.channel = DefaultChannel(file.images[k]),
                              !.sort    = DefaultSort(file.images[k]),
                              !.mode    = Default(file.images[k].mode, "lazycat")]]]

TagStrategies == {"tag", "release", "semver-tag"}
Branches      == {"", "branch", "branch-head", "default-branch"}

\* Bug: numeric releases may be ordered without a version of their own.
SourceAcceptedUnmapped(s) ==
  /\ s.kind = "oci" /\ s.at = "image" /\ ~s.auth /\ s.strategy \in {"", "tag", "semver-tag"}
  /\ "bad" \notin {s.filter, s.regex}

SourceAccepted(s) ==
  /\ \/ /\ s.kind = "git" /\ s.at = "url" /\ s.sort # "numeric"
        /\ s.strategy \in TagStrategies \cup Branches
        /\ s.regex # "" \/ s.template # "" =>
             s.strategy \in TagStrategies /\ s.sort \in {"", "semver"} /\ s.channel \in {"", "stable"}
     \/ s.kind = "oci" /\ s.at = "image" /\ ~s.auth /\ s.strategy \in {"", "tag", "semver-tag"}
  /\ "bad" \notin {s.filter, s.regex}
  /\ s.sort = "numeric" =>
       s.regex # "" /\ s.template # "" /\ s.channel \in {"", "stable", "custom"}

NoNotes == [mode |-> "", command |-> FALSE, url |-> FALSE, max |-> 0]

NotesAccepted(n) ==
  CASE n.mode = "command"                       -> n.command /\ ~n.url /\ n.max = 0
    [] n.mode # "command" /\ n.command          -> FALSE
    [] n.mode # "command" /\ ~n.command /\ n.url ->
         /\ n.mode \in {"", "git-commits", "github-release"} /\ n.max \in 0 .. 50
         /\ n.mode = "github-release" => n.max = 0
    [] n.mode # "command" /\ ~n.command /\ ~n.url -> n.mode = "" /\ n.max = 0

PrepareAccepted(p, kind) ==
  /\ p.mode \in {"passthrough", "images"} =>
       ~p.command /\ ~p.dockerfile /\ p.context = "" /\ p.output = ""
  /\ p.mode = "passthrough" => kind = "oci"
  /\ p.mode = "command" => p.command /\ ~p.dockerfile /\ p.context # "bad"
  /\ p.mode = "dockerfile" =>
       /\ p.dockerfile /\ p.output # "" /\ ~p.command /\ p.context # "bad"
       /\ p.context = "source" => kind = "git"
  /\ p.mode \in {"passthrough", "images", "command", "dockerfile"} /\ p.output # "bad"

\* Bug: an image of the custom channel may be any of its tags.
ImageAcceptedUnfiltered(i, version) ==
  /\ i.source # "" \/ i.mode = "mirror" \/ version = 2
  /\ i.channel \in {"stable", "beta", "date", "custom"} /\ i.sort \in {"semver", "updated"}
  /\ i.mode \in {"lazycat", "direct", "mirror"}

ImageAccepted(i, version) ==
  /\ i.source # "" \/ i.mode = "mirror" \/ version = 2
  /\ CASE i.channel \in {"stable", "beta", "date"} -> i.sort \in {"semver", "updated"}
       [] i.channel = "nightly" -> i.sort = "created" /\ i.filter # ""
       [] i.channel = "custom"  -> i.sort \in {"semver", "created", "updated"} /\ i.filter # ""
       [] OTHER                 -> FALSE
  /\ "bad" \notin {i.filter, i.regex}
  /\ i.mode \in {"lazycat", "direct", "mirror"}
  /\ i.mode # "mirror" => ~i.template /\ ~i.match

ImagesAccepted(c) ==
  /\ \A k \in DOMAIN c.images :
       /\ ImageAccepted(c.images[k], c.version)
       /\ c.official => c.images[k].mode = "lazycat"
  /\ \A k, l \in DOMAIN c.images : c.images[k].target = c.images[l].target => k = l

\* Bug: the images of a set may name a proxy and a staging repository.
BindingsAcceptedBoth(c) ==
  IF c.prepare.mode = "images"
  THEN /\ Len(c.images) > 0
       /\ \A k \in DOMAIN c.images : c.images[k].source # "" /\ c.images[k].mode = "lazycat"
  ELSE Len(c.images) <= 1

\* The images of a version 2 pipeline.
BindingsAccepted(c) ==
  IF c.prepare.mode = "images"
  THEN /\ Len(c.images) > 0
       /\ \A k \in DOMAIN c.images :
            LET i == c.images[k]
            IN /\ i.source # "" /\ (i.copy = "" \/ i.staging = "")
               /\ i.copy # "" \/ i.staging # "" => i.mode = "lazycat"
  ELSE Len(c.images) <= 1

\* The image a version 1 application takes its version from.
DriverAccepted(c) ==
  /\ \A k \in DOMAIN c.images : c.images[k].copy = "" /\ c.images[k].staging = ""
  /\ CASE c.driver = 0 -> ~c.bump
       [] c.driver # 0 -> c.driver \in DOMAIN c.images
  /\ c.bump =>
       LET i == c.images[c.driver]
       IN /\ ~c.downgrade
          /\ i.channel = "custom" /\ i.sort = "created" /\ i.filter # "" /\ i.regex = ""
          /\ i.mode = "mirror" => i.match

Accepted(c) ==
  /\ ImagesAccepted(c)
  /\ \/ /\ c.version = 2
        /\ SourceAccepted(c.source) /\ NotesAccepted(c.notes)
        /\ PrepareAccepted(c.prepare, c.source.kind) /\ BindingsAccepted(c)
        /\ c.driver = 0 /\ ~c.bump
     \/ /\ c.version = 1
        /\ c.source.kind = "" /\ c.notes = NoNotes /\ DriverAccepted(c)

---------------------------------------------------------------------------
Ends(outcome) == step' = outcome /\ UNCHANGED <<config, image, effects, delivered>>

\* The settings are refused, here for what they say.
Refuses == Ends("refused")

Goes(next) == step' = next /\ UNCHANGED <<config, image, delivered>>

Load ==
  LET loaded == WithDefaults(config)
  IN /\ step = "load"
     /\ config' = loaded
     /\ step' = CASE ~Accepted(loaded)                        -> "invalid"
                  [] Accepted(loaded) /\ loaded.version = 2   -> "discover"
                  [] Accepted(loaded) /\ loaded.version = 1   -> "select"
     /\ UNCHANGED <<image, effects, delivered>>

\* validateRule of package versioning
RuleValid(channel, sort, filter, regex, template) ==
  /\ CASE channel \in {"stable", "beta", "date"} -> sort \in {"semver", "updated", "numeric"}
       [] channel = "nightly" -> sort = "created" /\ filter # ""
       [] channel = "custom"  -> filter # "" /\ sort \in {"semver", "created", "updated", "numeric"}
       [] OTHER               -> FALSE
  /\ sort = "numeric" => regex # "" /\ template # "" /\ channel \in {"stable", "custom"}

RuleUsable(s) ==
  RuleValid(Default(s.channel, "stable"), Default(s.sort, "semver"), s.filter, s.regex,
            Default(s.template, "good"))

Discover ==
  /\ step = "discover"
  /\ \/ config.source.kind = "oci" /\ ~RuleUsable(config.source) /\ Refuses
     \/ /\ config.source.kind = "oci" => RuleUsable(config.source)
        /\ Goes("notes") /\ UNCHANGED effects

Tagged == config.source.kind = "oci" \/ config.source.strategy \in TagStrategies

\* The notes of a release of a branch cannot be asked for.
Notes ==
  /\ step = "notes"
  /\ \/ config.notes.mode = "github-release" /\ ~Tagged /\ Refuses
     \/ /\ config.notes.mode = "github-release" => Tagged
        /\ effects' = effects \cup (IF config.notes.mode = "command" THEN {"command"} ELSE {})
        /\ Goes("prepare")

\* PrepareSource has run; it names an image in two modes, and in command
\* mode when there is an output_image.
Prepared == config.prepare.mode \in {"passthrough", "dockerfile"} \/ config.prepare.output # ""

Prepare ==
  LET made == effects \cup (CASE config.prepare.mode = "command"    -> {"command"}
                              [] config.prepare.mode = "dockerfile" -> {"pushed"}
                              [] OTHER                              -> {})
      usable == IF Prepared THEN Len(config.images) = 1
                ELSE config.prepare.mode = "images" \/ Len(config.images) = 0
  IN /\ step = "prepare"
     /\ effects' = made
     /\ Goes(CASE ~usable                              -> "refused"
               [] usable /\ Len(config.images) # 0     -> "deliver"
               [] usable /\ Len(config.images) = 0     -> "edit")

\* The next image of a version 1 check; a mutable one has a rule of its own.
Select ==
  LET i == config.images[image]
      mutable == config.bump /\ config.driver = image
      usable == /\ RuleValid(i.channel, i.sort, i.filter, i.regex, "good")
                /\ mutable => i.channel = "custom" /\ i.sort = "created" /\ i.regex = ""
  IN /\ step = "select"
     /\ \/ (config.driver = 0 \/ ~usable) /\ Refuses
        \/ config.driver # 0 /\ usable /\ Goes("deliver") /\ UNCHANGED effects

Way(i) ==
  CASE ~Prepared /\ i.copy # ""                   -> "copy"
    [] ~Prepared /\ i.copy = "" /\ i.staging # "" -> "staging"
    [] Prepared \/ (i.copy = "" /\ i.staging = "") -> "plain"

\* A reference of this image cannot be expanded; none is, for a prepared one.
Unexpandable(i) ==
  config.version = 2 /\ ~Prepared
    /\ ("bad" \in {i.source, i.copy} \/ (i.copy = "" /\ i.staging = "bad"))

\* A version 1 check does not copy an image the store's registry has.
Deliver ==
  LET i == config.images[image]
      mutable == config.bump /\ config.driver = image
      refused == Unexpandable(i) \/ (mutable /\ i.mode = "mirror" /\ ~i.match)
      staged == IF Way(i) = "staging" THEN {"staged"} ELSE {}
  IN /\ step = "deliver"
     /\ \/ refused /\ Refuses
        \/ /\ ~refused
           /\ \E copied \in SUBSET {"copied"} :
                /\ copied # {} => i.mode = "lazycat"
                /\ copied = {} => i.mode # "lazycat" \/ config.version = 1
                /\ effects' = effects \cup staged \cup copied
           /\ delivered' = Append(delivered, Way(i))
           /\ image' = image + 1
           /\ step' = CASE image = Len(config.images) -> "edit"
                        [] image < Len(config.images) /\ config.version = 1 -> "select"
                        [] image < Len(config.images) /\ config.version = 2 -> "deliver"
           /\ UNCHANGED config

\* The Manifest is edited, and the package built.
Edit ==
  /\ step = "edit"
  /\ effects' = effects \cup {"edited"}
  /\ Goes("packaged")

\* A request, a command or the build fails.
Fail ==
  /\ step \in Running \ {"load"}
  /\ Ends("failed")

Next == Load \/ Discover \/ Notes \/ Prepare \/ Select \/ Deliver \/ Edit \/ Fail

Spec == Init /\ [][Next]_vars

---------------------------------------------------------------------------
\* What is used is validated when it is loaded, up to the settings Load does
\* not look at: of an OCI source an order by creation time, one or a channel that
\* does not exist, "nightly", whose order is not the default one, and "custom"
\* without a filter; notes of a release for a branch; the number of image
\* bindings of a prepared image; and the placeholders of image templates.  An
\* accepted configuration without these is never refused by the check.
Unvalidated ==
  \/ /\ config.source.kind = "oci"
     /\ \/ config.source.sort \notin {"", "semver", "numeric", "updated"}
        \/ config.source.channel \notin {"", "stable", "beta", "date", "custom"}
        \/ config.source.channel = "custom" /\ config.source.filter = ""
  \/ config.notes.mode = "github-release" /\ config.source.strategy \in Branches
  \/ config.prepare.mode \in {"passthrough", "dockerfile"} /\ config.images = <<>>
  \/ config.prepare.mode = "command" /\ (config.prepare.output = "" <=> config.images # <<>>)
  \/ \E i \in Images : "bad" \in {i.source, i.copy, i.staging}
  \/ config.version = 1 /\ config.driver = 0

AcceptedRuns == step = "refused" => Unvalidated

\* A configuration that is refused for what it says is refused before any
\* image is copied to the store or staged, unless a template of a coordinated
\* set is at fault.
RefusedBeforeCopies ==
  step = "refused" /\ effects \cap {"staged", "copied"} # {}
    => config.version = 2 /\ config.prepare.mode = "images"

\* Every image of a coordinated set takes the way its settings name, and none
\* of them is passed over.
CoordinatedAsConfigured ==
  step = "packaged" /\ config.version = 2 /\ config.prepare.mode = "images" =>
    /\ Len(delivered) = Len(config.images) /\ delivered # <<>>
    /\ \A k \in DOMAIN delivered :
         /\ config.images[k].copy # ""    <=> delivered[k] = "copy"
         /\ config.images[k].staging # "" <=> delivered[k] = "staging"
=============================================================================
