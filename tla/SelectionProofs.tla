--------------------------- MODULE SelectionProofs ---------------------------
(***************************************************************************)
(* Proofs about the parts of MCSelection: Settings for every               *)
(* configuration, AppVersion for components of any size, Discovery for any *)
(* tags, builds, rules and pages, NumericVersions for versions of any      *)
(* length.                                                                 *)
(*                                                                         *)
(* Settings.  A check that has left Load runs an accepted configuration,   *)
(* and has delivered the images before the one it is at, each as its       *)
(* settings say.  What is accepted is then enough for every later          *)
(* validation, up to Unvalidated.                                          *)
(*                                                                         *)
(* AppVersion.  package.yml is never behind the lock.                      *)
(*                                                                         *)
(* Discovery.  Names that were there all the time are still to be          *)
(* inspected or have been (LookupInv); while nothing moves, what was read  *)
(* is what there is, and the order of candidates leaves one answer         *)
(* (QuietInv).                                                             *)
(*                                                                         *)
(* NumericVersions.  What the recursive definition of a string's value     *)
(* says of all its digits is proved by the least number of digits for      *)
(* which it would be false (lemma LeastNumber).                            *)
(***************************************************************************)
EXTENDS MCSelection, SequenceTheorems, FiniteSetTheorems, WellFoundedInduction, TLAPS

Outcomes == {"invalid", "refused", "failed", "packaged"}

TypeOK ==
  /\ config \in Config
  /\ step \in Running \cup Outcomes
  /\ image \in Nat \ {0}
  /\ delivered \in Seq({"copy", "staging", "plain"})
  /\ Len(delivered) = image - 1

\* Only accepted configurations are run.
Loaded == step \notin {"load", "invalid"} => Accepted(config)

\* The images before the one it is at were delivered as their settings say.
AsConfigured ==
  /\ image <= Len(config.images) + 1
  /\ \A k \in 1 .. image - 1 :
       delivered[k] = Way(config.images[k])

\* Where the check is among its images.
Progress ==
  /\ step \in {"load", "invalid", "discover", "notes", "prepare"} =>
       image = 1 /\ effects \cap {"staged", "copied"} = {}
  /\ step \in {"discover", "notes", "prepare"} => config.version = 2
  /\ step = "select" => config.version = 1 /\ (image <= Len(config.images) \/ config.driver = 0)
  /\ step = "deliver" =>
       /\ image <= Len(config.images)
       /\ config.version = 1 => config.driver # 0
  /\ config.version = 1 /\ config.driver = 0 => image = 1
  /\ image = 1 => effects \cap {"staged", "copied"} = {}
  /\ step \in {"edit", "packaged"} => image = Len(config.images) + 1

SettingsInv ==
  TypeOK /\ Loaded /\ AsConfigured /\ Progress /\ AcceptedRuns /\ RefusedBeforeCopies

-----------------------------------------------------------------------------
\* Defaults make a configuration of a configuration, with the same images.
LEMMA DefaultsTyped ==
  ASSUME NEW file \in Config
  PROVE  /\ WithDefaults(file) \in Config
         /\ Len(WithDefaults(file).images) = Len(file.images)
<1> DEFINE new(k) == [file.images[k] EXCEPT !.channel = DefaultChannel(file.images[k]),
                                            !.sort    = DefaultSort(file.images[k]),
                                            !.mode    = Default(file.images[k].mode, "lazycat")]
           images == [k \in DOMAIN file.images |-> new(k)]
<1>1. file.images \in Seq(Image) /\ DOMAIN file.images = 1 .. Len(file.images)
  BY DEF Config
<1>2. ASSUME NEW k \in DOMAIN file.images PROVE new(k) \in Image
  <2>1. file.images[k] \in Image
    BY <1>1
  <2>2. DefaultChannel(file.images[k]) \in Words
    BY <2>1, SettingsAssumption DEF DefaultChannel, Default, Image
  <2>3. DefaultSort(file.images[k]) \in Words
    BY <2>1, SettingsAssumption DEF DefaultSort, Image
  <2>4. Default(file.images[k].mode, "lazycat") \in Words
    BY <2>1, SettingsAssumption DEF Default, Image
  <2> QED BY <2>1, <2>2, <2>3, <2>4 DEF Image
<1>3. images \in Seq(Image) /\ Len(images) = Len(file.images)
  <2> HIDE DEF new
  <2>1. images \in [1 .. Len(file.images) -> Image] /\ Len(file.images) \in Nat
    BY <1>1, <1>2
  <2> HIDE DEF images
  <2> QED BY <2>1
<1>4. file.prepare \in Recipe
  BY DEF Config
<1>5. [file.prepare EXCEPT !.mode = IF file.version = 2 THEN Default(@, "passthrough") ELSE @] \in Recipe
  BY <1>4, SettingsAssumption DEF Recipe, Default
<1>6. WithDefaults(file) = [file EXCEPT !.prepare = [file.prepare EXCEPT !.mode =
                             IF file.version = 2 THEN Default(@, "passthrough") ELSE @],
                           !.images = images]
  BY DEF WithDefaults, Config
<1> HIDE DEF images
<1>7. WithDefaults(file) \in Config /\ WithDefaults(file).images = images
  BY <1>3, <1>5, <1>6 DEF Config
<1> QED BY <1>3, <1>7

\* A rule of an image that was accepted can be used to select one.
LEMMA AcceptedRuleValid ==
  ASSUME NEW i, NEW version, ImageAccepted(i, version)
  PROVE  RuleValid(i.channel, i.sort, i.filter, i.regex, "good")
BY DEF ImageAccepted, RuleValid

LEMMA InvInit == Init => SettingsInv
<1> SUFFICES ASSUME Init PROVE SettingsInv
  OBVIOUS
<1>1. TypeOK
  BY SettingsAssumption DEF Init, TypeOK, Running, Outcomes
<1>2. Len(config.images) \in Nat
  BY <1>1 DEF TypeOK, Config
<1> QED BY <1>1, <1>2
  DEF Init, SettingsInv, Loaded, AsConfigured, Progress, AcceptedRuns, RefusedBeforeCopies

-----------------------------------------------------------------------------
LEMMA LoadKeeps == ASSUME SettingsInv, Load PROVE SettingsInv'
<1>1. config' \in Config /\ Len(config'.images) = Len(config.images) /\ Len(config.images) \in Nat
  BY DefaultsTyped DEF SettingsInv, TypeOK, Load, Config
<1>2. Accepted(config') => config'.version \in {1, 2}
  BY DEF Accepted
<1>3. step' \in {"invalid", "discover", "select"} /\ (step' # "invalid" => Accepted(config'))
  BY <1>2 DEF Load
<1>4. (step' = "discover" => config'.version = 2) /\ (step' = "select" => config'.version = 1)
  BY <1>2 DEF Load
<1>5. image = 1 /\ effects \cap {"staged", "copied"} = {} /\ Len(delivered) = 0
  BY DEF SettingsInv, Progress, TypeOK, Load
<1>6. image' = image /\ effects' = effects /\ delivered' = delivered
  BY DEF Load
<1>7. TypeOK'
  BY <1>1, <1>3, <1>6 DEF SettingsInv, TypeOK, Running, Outcomes
<1>8. Loaded'
  BY <1>3 DEF Loaded
<1>9. AsConfigured'
  BY <1>1, <1>5, <1>6 DEF AsConfigured
<1>10. Progress'
  <2>1. Accepted(config') /\ config'.version = 1 => config'.driver = 0 \/ 1 <= Len(config'.images)
    <3> SUFFICES ASSUME Accepted(config'), config'.version = 1, config'.driver # 0
                 PROVE  1 <= Len(config'.images)
      OBVIOUS
    <3>1. config'.driver \in DOMAIN config'.images
      BY DEF Accepted, DriverAccepted
    <3>2. config'.images \in Seq(Image)
      BY <1>1 DEF Config
    <3> QED BY <3>1, <3>2, <1>1
  <2> QED BY <1>1, <1>3, <1>4, <1>5, <1>6, <2>1 DEF Progress
<1>11. AcceptedRuns' /\ RefusedBeforeCopies'
  BY <1>3 DEF AcceptedRuns, RefusedBeforeCopies
<1> QED BY <1>7, <1>8, <1>9, <1>10, <1>11 DEF SettingsInv

\* A step that delivers no image keeps the invariant when the place it goes
\* to is one an accepted configuration may be in.
LEMMA GoesKeeps ==
  ASSUME SettingsInv, step \in Running \ {"load"}, NEW next \in Running \cup Outcomes, Goes(next),
         effects' \cap {"staged", "copied"} = effects \cap {"staged", "copied"},
         next \in {"notes", "prepare", "failed", "refused", "deliver", "edit", "packaged"},
         next \in {"notes", "prepare"} => step \in {"discover", "notes"},
         next = "refused" => Unvalidated /\ (image = 1 \/ (config.prepare.mode = "images" /\ config.version = 2)),
         next = "deliver" => image <= Len(config.images) /\ (config.version = 1 => config.driver # 0),
         next \in {"edit", "packaged"} => image = Len(config.images) + 1
  PROVE  SettingsInv'
<1> USE DEF SettingsInv, Goes
<1>1. TypeOK' /\ Loaded'
  BY DEF TypeOK, Loaded, Accepted, Running
<1>2. AsConfigured'
  BY DEF AsConfigured, Way, Prepared
<1>3. Progress'
  BY DEF Progress
<1>4. AcceptedRuns'
  BY DEF AcceptedRuns, Unvalidated, Images
<1>5. RefusedBeforeCopies'
  BY DEF RefusedBeforeCopies, Progress
<1> QED BY <1>1, <1>2, <1>3, <1>4, <1>5

LEMMA FailKeeps == ASSUME SettingsInv, Fail PROVE SettingsInv'
<1>1. Goes("failed") /\ effects' = effects /\ step \in Running \ {"load"}
  BY DEF Fail, Ends, Goes
<1> QED BY <1>1, GoesKeeps DEF Outcomes

\* Only an OCI source of a channel or an order Load does not look at is
\* refused.
LEMMA DiscoverKeeps == ASSUME SettingsInv, Discover PROVE SettingsInv'
<1>1. config.version = 2 /\ image = 1 /\ step = "discover"
  BY DEF Discover, SettingsInv, Progress
<1>2. SourceAccepted(config.source)
  BY <1>1 DEF SettingsInv, Loaded, Accepted
<1>3. CASE Refuses /\ config.source.kind = "oci" /\ ~RuleUsable(config.source)
  <2>1. Unvalidated
    BY <1>2, <1>3 DEF SourceAccepted, RuleUsable, RuleValid, Default, Unvalidated
  <2>2. Goes("refused") /\ effects' = effects
    BY <1>3 DEF Refuses, Ends, Goes
  <2> QED BY <1>1, <2>1, <2>2, GoesKeeps DEF Outcomes, Running
<1>4. CASE Goes("notes") /\ UNCHANGED effects
  BY <1>1, <1>4, GoesKeeps DEF Running
<1> QED BY <1>3, <1>4 DEF Discover

LEMMA NotesKeeps == ASSUME SettingsInv, Notes PROVE SettingsInv'
<1>1. config.version = 2 /\ image = 1 /\ step = "notes"
  BY DEF Notes, SettingsInv, Progress
<1>2. SourceAccepted(config.source)
  BY <1>1 DEF SettingsInv, Loaded, Accepted
<1>3. CASE Refuses /\ config.notes.mode = "github-release" /\ ~Tagged
  <2>1. Unvalidated
    BY <1>2, <1>3 DEF SourceAccepted, Tagged, Unvalidated
  <2>2. Goes("refused") /\ effects' = effects
    BY <1>3 DEF Refuses, Ends, Goes
  <2> QED BY <1>1, <2>1, <2>2, GoesKeeps DEF Outcomes, Running
<1>4. CASE /\ Goes("prepare")
           /\ effects' = effects \cup (IF config.notes.mode = "command" THEN {"command"} ELSE {})
  BY <1>1, <1>4, GoesKeeps DEF Running
<1> QED BY <1>3, <1>4 DEF Notes

\* What is validated of the preparation leaves the number of bindings.
LEMMA PrepareKeeps == ASSUME SettingsInv, Prepare PROVE SettingsInv'
<1> DEFINE made == effects \cup (CASE config.prepare.mode = "command"    -> {"command"}
                                   [] config.prepare.mode = "dockerfile" -> {"pushed"}
                                   [] OTHER                              -> {})
           usable == IF Prepared THEN Len(config.images) = 1
                     ELSE config.prepare.mode = "images" \/ Len(config.images) = 0
           next == CASE ~usable                          -> "refused"
                     [] usable /\ Len(config.images) # 0 -> "deliver"
                     [] usable /\ Len(config.images) = 0 -> "edit"
<1>1. config.version = 2 /\ image = 1 /\ step = "prepare"
  BY DEF Prepare, SettingsInv, Progress
<1>2. PrepareAccepted(config.prepare, config.source.kind) /\ BindingsAccepted(config)
  BY <1>1 DEF SettingsInv, Loaded, Accepted
<1>3. config.images \in Seq(Image) /\ Len(config.images) \in Nat
  BY DEF SettingsInv, TypeOK, Config
<1>4. effects' = made /\ Goes(next)
  BY DEF Prepare
<1>5. effects' \cap {"staged", "copied"} = effects \cap {"staged", "copied"}
  BY <1>4
<1>6. next \in {"refused", "deliver", "edit"}
  BY <1>3
<1>7. next = "refused" => Unvalidated
  <2> SUFFICES ASSUME ~usable PROVE Unvalidated
    BY <1>3
  <2>1. config.prepare.mode \in {"passthrough", "images", "command", "dockerfile"}
    BY <1>2 DEF PrepareAccepted
  <2>2. Len(config.images) = 0 <=> config.images = <<>>
    BY <1>3, EmptySeq
  <2>3. config.prepare.mode # "images" => Len(config.images) <= 1
    BY <1>2 DEF BindingsAccepted
  <2>4. Len(config.images) <= 1 /\ Len(config.images) # 1 => Len(config.images) = 0
    <3>1. \A n \in Nat : n <= 1 /\ n # 1 => n = 0
      OBVIOUS
    <3> QED BY <1>3, <3>1, Zenon
  <2>5. CASE config.prepare.mode = "images"
    BY <1>2, <2>5 DEF PrepareAccepted, Prepared
  <2>6. CASE config.prepare.mode \in {"passthrough", "dockerfile"}
    <3>1. Len(config.images) # 1
      BY <2>6 DEF Prepared
    <3>2. config.images = <<>>
      <4>1. config.prepare.mode # "images"
        BY <2>6
      <4>2. Len(config.images) = 0
        BY <2>4, <2>3, <3>1, <4>1
      <4> QED BY <2>2, <4>2
    <3> QED BY <2>6, <3>2 DEF Unvalidated
  <2>7. CASE config.prepare.mode = "command"
    <3>1. CASE config.prepare.output # ""
      <4>1. Len(config.images) # 1
        BY <3>1 DEF Prepared
      <4>2. config.images = <<>>
        <5>1. Len(config.images) = 0
          BY <2>7, <2>4, <2>3, <4>1
        <5> QED BY <2>2, <5>1
      <4> QED BY <2>7, <3>1, <4>2 DEF Unvalidated
    <3>2. CASE config.prepare.output = ""
      <4>1. config.images # <<>>
        BY <2>2, <2>7, <3>2 DEF Prepared
      <4> QED BY <2>7, <3>2, <4>1 DEF Unvalidated
    <3> QED BY <3>1, <3>2
  <2> QED BY <2>1, <2>5, <2>6, <2>7
<1>8. (next = "deliver" => Len(config.images) >= 1) /\ (next = "edit" => Len(config.images) = 0)
  BY <1>3
<1> HIDE DEF next, usable, made
<1> QED BY <1>1, <1>3, <1>4, <1>5, <1>6, <1>7, <1>8, GoesKeeps DEF Running, Outcomes

\* An image the check of version 1 is at, of an accepted configuration.
LEMMA ImageAt ==
  ASSUME SettingsInv, step \in {"select", "deliver"}, image <= Len(config.images)
  PROVE  /\ config.images[image] \in Image /\ image \in DOMAIN config.images
         /\ ImageAccepted(config.images[image], config.version)
         /\ config.version = 1 => DriverAccepted(config)
<1>1. config.images \in Seq(Image) /\ image \in 1 .. Len(config.images)
  BY DEF SettingsInv, TypeOK, Config
<1>2. Accepted(config)
  BY DEF SettingsInv, Loaded
<1>3. config.images[image] \in Image /\ image \in DOMAIN config.images
  BY <1>1
<1>4. ImageAccepted(config.images[image], config.version)
  BY <1>2, <1>3 DEF Accepted, ImagesAccepted
<1>5. config.version = 1 => DriverAccepted(config)
  <2> SUFFICES ASSUME config.version = 1 PROVE DriverAccepted(config)
    OBVIOUS
  <2>1. config.version # 2
    OBVIOUS
  <2> QED BY <1>2, <2>1, Zenon DEF Accepted
<1> QED BY <1>3, <1>4, <1>5

\* Every image of an accepted configuration can be selected.
LEMMA SelectKeeps == ASSUME SettingsInv, Select PROVE SettingsInv'
<1> DEFINE i == config.images[image]
           mutable == config.bump /\ config.driver = image
           usable == /\ RuleValid(i.channel, i.sort, i.filter, i.regex, "good")
                     /\ mutable => i.channel = "custom" /\ i.sort = "created" /\ i.regex = ""
<1>1. step = "select" /\ config.version = 1 /\ (image <= Len(config.images) \/ config.driver = 0)
  BY DEF Select, SettingsInv, Progress
<1>2. CASE config.driver = 0 /\ Refuses
  <2>1. image = 1
    BY <1>1, <1>2 DEF SettingsInv, Progress
  <2>2. Unvalidated
    BY <1>1, <1>2 DEF Unvalidated
  <2>3. Goes("refused") /\ effects' = effects
    BY <1>2 DEF Refuses, Ends, Goes
  <2>4. step \in Running \ {"load"}
    BY <1>1 DEF Running
  <2> HIDE DEF i, mutable, usable
  <2> QED BY <2>1, <2>3, <2>4, <2>2, GoesKeeps DEF Outcomes
<1>3. ASSUME config.driver # 0 PROVE usable
  <2>1. ImageAccepted(i, config.version) /\ DriverAccepted(config)
    BY <1>1, <1>3, ImageAt
  <2>2. RuleValid(i.channel, i.sort, i.filter, i.regex, "good")
    BY <2>1, AcceptedRuleValid
  <2>3. mutable => i.channel = "custom" /\ i.sort = "created" /\ i.regex = ""
    BY <2>1 DEF DriverAccepted
  <2> QED BY <2>2, <2>3
<1>4. CASE config.driver # 0 /\ Goes("deliver") /\ UNCHANGED effects
  BY <1>1, <1>4, GoesKeeps DEF Running
<1> QED BY <1>2, <1>3, <1>4 DEF Select

\* An image is refused for a template only, which a coordinated set alone has.
LEMMA DeliverRefusedKeeps ==
  ASSUME SettingsInv, step = "deliver", Refuses,
         \/ Unexpandable(config.images[image])
         \/ /\ config.bump /\ config.driver = image
            /\ config.images[image].mode = "mirror" /\ ~config.images[image].match
  PROVE  SettingsInv'
<1> DEFINE i == config.images[image]
<1>1. image <= Len(config.images) /\ Accepted(config)
  BY DEF SettingsInv, Progress, Loaded
<1>2. i \in Images /\ (config.version = 1 => DriverAccepted(config))
  BY <1>1, ImageAt DEF Images
<1>3. ~(config.bump /\ config.driver = image /\ i.mode = "mirror" /\ ~i.match)
  <2>1. config.version = 2 => ~config.bump
    BY <1>1 DEF Accepted
  <2>2. config.version \in {1, 2}
    BY <1>1 DEF Accepted
  <2> QED BY <1>2, <2>1, <2>2 DEF DriverAccepted
<1>4. Unexpandable(i)
  BY <1>3
<1>5. Unvalidated
  BY <1>2, <1>4 DEF Unexpandable, Unvalidated
<1>6. config.version = 2 /\ ~Prepared
  BY <1>4 DEF Unexpandable
<1>7. image = 1 \/ config.prepare.mode = "images"
  <2>1. BindingsAccepted(config)
    BY <1>1, <1>6 DEF Accepted
  <2>2. Len(config.images) \in Nat /\ image \in Nat \ {0}
    BY DEF SettingsInv, TypeOK, Config
  <2> SUFFICES ASSUME config.prepare.mode # "images" PROVE image = 1
    OBVIOUS
  <2>3. Len(config.images) <= 1
    BY <2>1 DEF BindingsAccepted
  <2> QED BY <1>1, <2>2, <2>3
<1>8. Goes("refused") /\ effects' = effects
  BY DEF Refuses, Ends, Goes
<1> QED BY <1>5, <1>6, <1>7, <1>8, GoesKeeps DEF Running, Outcomes

LEMMA DeliverKeeps == ASSUME SettingsInv, Deliver PROVE SettingsInv'
<1> DEFINE i == config.images[image]
           new == Way(i)
<1>1. step = "deliver" /\ image <= Len(config.images)
  BY DEF Deliver, SettingsInv, Progress
<1>2. CASE Refuses /\ (Unexpandable(i) \/ ((config.bump /\ config.driver = image)
                                            /\ i.mode = "mirror" /\ ~i.match))
  BY <1>1, <1>2, DeliverRefusedKeeps
<1>3. CASE /\ delivered' = Append(delivered, new) /\ image' = image + 1 /\ UNCHANGED config
           /\ step' = CASE image = Len(config.images) -> "edit"
                        [] image < Len(config.images) /\ config.version = 1 -> "select"
                        [] image < Len(config.images) /\ config.version = 2 -> "deliver"
  <2>1. Accepted(config) /\ config.version \in {1, 2} /\ (config.version = 1 => config.driver # 0)
    BY <1>1 DEF SettingsInv, Loaded, Accepted, Progress
  <2>2. Len(config.images) \in Nat /\ image \in Nat \ {0} /\ i \in Image
    BY <1>1, ImageAt DEF SettingsInv, TypeOK, Config
  <2>3. step' \in {"edit", "select", "deliver"}
        /\ (step' = "edit" => image = Len(config.images))
        /\ (step' = "select" => config.version = 1 /\ image < Len(config.images))
        /\ (step' = "deliver" => config.version = 2 /\ image < Len(config.images))
    BY <1>1, <1>3, <2>1, <2>2
  <2>4. new \in {"copy", "staging", "plain"}
    BY <2>2 DEF Image, Way
  <2>5. /\ delivered \in Seq({"copy", "staging", "plain"})
        /\ Len(delivered) = image - 1
    BY DEF SettingsInv, TypeOK
  <2>6. /\ delivered' \in Seq({"copy", "staging", "plain"})
        /\ Len(delivered') = image
        /\ \A k \in 1 .. image - 1 : delivered'[k] = delivered[k]
        /\ delivered'[image] = new
    BY <1>3, <2>2, <2>4, <2>5, AppendProperties
  <2>7. TypeOK'
    <3>1. step' \in Running \cup Outcomes
      BY <2>3 DEF Running
    <3>2. config' \in Config /\ image' \in Nat \ {0} /\ Len(delivered') = image' - 1
      BY <1>3, <2>2, <2>6 DEF SettingsInv, TypeOK
    <3> QED BY <2>6, <3>1, <3>2 DEF TypeOK
  <2>8. Loaded'
    BY <1>3, <2>1 DEF Loaded, Accepted
  <2>9. AsConfigured'
    <3>1. \A k \in 1 .. image : k = image \/ k \in 1 .. image - 1
      BY <2>2
    <3>2. ASSUME NEW k \in 1 .. image
          PROVE  delivered'[k] = Way(config.images[k])
      <4>1. CASE k = image
        BY <2>6, <4>1
      <4>2. CASE k \in 1 .. image - 1
        BY <2>6, <4>2 DEF SettingsInv, AsConfigured
      <4> QED BY <3>1, <4>1, <4>2
    <3>3. \A k \in 1 .. image : Way(config.images[k])' = Way(config.images[k])
      BY <1>3 DEF Way, Prepared
    <3>4. image' <= Len(config'.images) + 1 /\ image' - 1 = image /\ config' = config
      BY <1>1, <1>3, <2>2
    <3> QED BY <3>2, <3>3, <3>4 DEF AsConfigured
  <2>10. Progress'
    BY <1>1, <1>3, <2>1, <2>2, <2>3 DEF Progress
  <2>11. AcceptedRuns' /\ RefusedBeforeCopies'
    BY <2>3 DEF AcceptedRuns, RefusedBeforeCopies
  <2> QED BY <2>7, <2>8, <2>9, <2>10, <2>11 DEF SettingsInv
<1> QED BY <1>2, <1>3 DEF Deliver

LEMMA EditKeeps == ASSUME SettingsInv, Edit PROVE SettingsInv'
<1>1. step = "edit" /\ image = Len(config.images) + 1
  BY DEF Edit, SettingsInv, Progress
<1>2. Goes("packaged") /\ effects' = effects \cup {"edited"}
  BY DEF Edit
<1> QED BY <1>1, <1>2, GoesKeeps DEF Running, Outcomes

LEMMA StepKeeps == SettingsInv /\ [Next]_vars => SettingsInv'
<1> SUFFICES ASSUME SettingsInv, [Next]_vars PROVE SettingsInv'
  OBVIOUS
<1>1. CASE UNCHANGED vars
  <2>1. /\ config' = config /\ step' = step /\ image' = image /\ effects' = effects
        /\ delivered' = delivered
    BY <1>1 DEF vars
  <2>2. TypeOK' /\ Loaded' /\ Progress'
    BY <2>1 DEF SettingsInv, TypeOK, Loaded, Progress
  <2>3. AsConfigured'
    BY <2>1 DEF SettingsInv, AsConfigured, Way, Prepared
  <2>4. AcceptedRuns' /\ RefusedBeforeCopies'
    BY <2>1 DEF SettingsInv, AcceptedRuns, RefusedBeforeCopies, Unvalidated, Images
  <2> QED BY <2>2, <2>3, <2>4 DEF SettingsInv
<1> QED BY <1>1, LoadKeeps, DiscoverKeeps, NotesKeeps, PrepareKeeps, SelectKeeps, DeliverKeeps,
           EditKeeps, FailKeeps DEF Next

\* Every check of every configuration satisfies the invariant: what it runs
\* was accepted by Load, and each image so far was delivered as configured.
THEOREM SettingsInvariant == Spec => []SettingsInv
BY InvInit, StepKeeps, PTL DEF Spec

-----------------------------------------------------------------------------
\* A configuration that Load accepts is refused later only for what Load does
\* not look at, whatever it says.
THEOREM AcceptedConfigurationsRun == Spec => []AcceptedRuns
<1>1. SettingsInv => AcceptedRuns
  BY DEF SettingsInv
<1> QED BY <1>1, SettingsInvariant, PTL

\* Nothing was copied or staged for a configuration that is refused, unless a
\* template of a coordinated set is at fault.
THEOREM RefusedEarly == Spec => []RefusedBeforeCopies
<1>1. SettingsInv => RefusedBeforeCopies
  BY DEF SettingsInv
<1> QED BY <1>1, SettingsInvariant, PTL

\* No image of a coordinated set is left out or goes another way than its
\* settings name.
THEOREM CoordinatedSetsAsConfigured == Spec => []CoordinatedAsConfigured
<1>1. ASSUME SettingsInv PROVE CoordinatedAsConfigured
  <2> SUFFICES ASSUME step = "packaged", config.version = 2, config.prepare.mode = "images"
               PROVE  /\ Len(delivered) = Len(config.images) /\ delivered # <<>>
                      /\ \A k \in DOMAIN delivered :
                           /\ config.images[k].copy # ""    <=> delivered[k] = "copy"
                           /\ config.images[k].staging # "" <=> delivered[k] = "staging"
    BY DEF CoordinatedAsConfigured
  <2>1. image = Len(config.images) + 1 /\ Accepted(config) /\ TypeOK /\ AsConfigured
    BY <1>1 DEF SettingsInv, Progress, Loaded
  <2>2. /\ Len(delivered) = Len(config.images) /\ DOMAIN delivered = 1 .. image - 1
        /\ DOMAIN config.images = 1 .. image - 1
    BY <2>1 DEF TypeOK, Config
  <2>3. BindingsAccepted(config) /\ PrepareAccepted(config.prepare, config.source.kind)
    BY <2>1 DEF Accepted
  <2>4. Len(delivered) > 0
    BY <2>2, <2>3 DEF BindingsAccepted
  <2>5. delivered # <<>>
    BY <2>4
  <2>6. ~Prepared
    BY <2>3 DEF PrepareAccepted, Prepared
  <2>7. ASSUME NEW k \in DOMAIN delivered
        PROVE  /\ config.images[k].copy # ""    <=> delivered[k] = "copy"
               /\ config.images[k].staging # "" <=> delivered[k] = "staging"
    <3>1. config.images[k].copy = "" \/ config.images[k].staging = ""
      BY <2>2, <2>3 DEF BindingsAccepted
    <3>2. delivered[k] = Way(config.images[k])
      BY <2>1, <2>2 DEF AsConfigured
    <3> QED BY <2>6, <3>1, <3>2 DEF Way
  <2> QED BY <2>2, <2>5, <2>7
<1> QED BY <1>1, SettingsInvariant, PTL


-----------------------------------------------------------------------------
(* The version of the application.                                         *)

\* A number with one digit more.
LEMMA Digits ==
  ASSUME NEW B \in Nat \ {0}, NEW a \in Nat, NEW b \in Nat, NEW x \in 0 .. B - 1, NEW y \in 0 .. B - 1
  PROVE  /\ a * B + x \in Nat
         /\ a * B + x > b * B + y <=> a > b \/ (a = b /\ x > y)
<1>1. ASSUME NEW c \in Nat, NEW d \in Nat, c > d PROVE d * B + B <= c * B
  <2>1. PICK e \in Nat : c = d + 1 + e
    <3>1. c - d - 1 \in Nat /\ c = d + 1 + (c - d - 1)
      BY <1>1
    <3> QED BY <3>1
  <2>2. c * B = d * B + B + e * B
    BY <2>1
  <2>3. e * B \in Nat /\ d * B \in Nat /\ c * B \in Nat
    BY <2>1
  <2> QED BY <2>2, <2>3
<1>2. a * B \in Nat /\ b * B \in Nat
  OBVIOUS
<1>3. CASE a > b
  <2>1. b * B + B <= a * B
    BY <1>1, <1>3
  <2> QED BY <1>2, <1>3, <2>1
<1>4. CASE b > a
  <2>1. a * B + B <= b * B
    BY <1>1, <1>4
  <2> QED BY <1>2, <1>4, <2>1
<1>5. CASE a = b
  BY <1>2, <1>5
<1> QED BY <1>3, <1>4, <1>5

\* The rank of a version is in the order of SemVer.
LEMMA RankOrder ==
  ASSUME NEW a \in A!Versions, NEW b \in A!Versions
  PROVE  /\ A!Rank(a) \in Nat
         /\ A!GreaterThan(a, b) <=> A!Rank(a) > A!Rank(b)
<1> DEFINE B == Largest + 1
           P == Prereleases + 1
           Pre(v) == IF v.pre = 0 THEN Prereleases ELSE v.pre - 1
<1>1. B \in Nat \ {0} /\ P \in Nat \ {0} /\ Prereleases \in Nat /\ Prereleases = P - 1
  BY PartsAssumption DEF A!AppVersionAssumption
<1>2. ASSUME NEW v \in A!Versions
      PROVE  /\ v.major \in 0 .. B - 1 /\ v.minor \in 0 .. B - 1 /\ v.patch \in 0 .. B - 1
             /\ v.major \in Nat /\ v.minor \in Nat /\ v.patch \in Nat
             /\ v.pre \in 0 .. Prereleases /\ Pre(v) \in 0 .. P - 1
             /\ A!Rank(v) = ((v.major * B + v.minor) * B + v.patch) * P + Pre(v)
  <2>1. /\ v.major \in 0 .. Largest /\ v.minor \in 0 .. Largest /\ v.patch \in 0 .. Largest
        /\ v.pre \in 0 .. Prereleases
    BY DEF A!Versions, A!Component
  <2> QED BY <1>1, <2>1, PartsAssumption DEF A!Rank, A!AppVersionAssumption
<1> HIDE DEF B, P
<1>3. A!GreaterThan(a, b) <=>
        \/ a.major > b.major
        \/ a.major = b.major /\ a.minor > b.minor
        \/ a.major = b.major /\ a.minor = b.minor /\ a.patch > b.patch
        \/ a.major = b.major /\ a.minor = b.minor /\ a.patch = b.patch /\ Pre(a) > Pre(b)
  <2>1. b.pre # 0 /\ (a.pre = 0 \/ a.pre > b.pre) <=> Pre(a) > Pre(b)
    BY <1>1, <1>2
  <2> QED BY <2>1 DEF A!GreaterThan
<1>4. /\ a.major * B + a.minor \in Nat /\ b.major * B + b.minor \in Nat
      /\ a.major * B + a.minor > b.major * B + b.minor <=>
           a.major > b.major \/ (a.major = b.major /\ a.minor > b.minor)
      /\ b.major * B + b.minor > a.major * B + a.minor <=>
           b.major > a.major \/ (a.major = b.major /\ b.minor > a.minor)
  BY <1>1, <1>2, Digits
<1> DEFINE ma == a.major * B + a.minor
           mb == b.major * B + b.minor
<1>5. /\ ma \in Nat /\ mb \in Nat
      /\ ma > mb <=> a.major > b.major \/ (a.major = b.major /\ a.minor > b.minor)
      /\ ma = mb <=> a.major = b.major /\ a.minor = b.minor
  BY <1>2, <1>4
<1>6. A!Rank(a) = (ma * B + a.patch) * P + Pre(a) /\ A!Rank(b) = (mb * B + b.patch) * P + Pre(b)
  BY <1>2
<1> HIDE DEF ma, mb
<1>7. /\ ma * B + a.patch \in Nat /\ mb * B + b.patch \in Nat
      /\ ma * B + a.patch > mb * B + b.patch <=> ma > mb \/ (ma = mb /\ a.patch > b.patch)
      /\ mb * B + b.patch > ma * B + a.patch <=> mb > ma \/ (ma = mb /\ b.patch > a.patch)
  BY <1>1, <1>2, <1>5, Digits
<1> DEFINE na == ma * B + a.patch
           nb == mb * B + b.patch
<1>8. /\ na \in Nat /\ nb \in Nat
      /\ na > nb <=> ma > mb \/ (ma = mb /\ a.patch > b.patch)
      /\ na = nb <=> ma = mb /\ a.patch = b.patch
  BY <1>2, <1>5, <1>7
<1>9. A!Rank(a) = na * P + Pre(a) /\ A!Rank(b) = nb * P + Pre(b)
  BY <1>6
<1> HIDE DEF na, nb
<1>10. /\ na * P + Pre(a) \in Nat
       /\ na * P + Pre(a) > nb * P + Pre(b) <=> na > nb \/ (na = nb /\ Pre(a) > Pre(b))
  <2> HIDE DEF Pre
  <2> QED BY <1>1, <1>2, <1>8, Digits
<1> HIDE DEF Pre
<1> QED BY <1>3, <1>5, <1>8, <1>9, <1>10


\* A version that can be bumped has room for it, and grows.
LEMMA Bumped ==
  ASSUME NEW v \in A!Versions, A!BumpPatch(v) # Overflow
  PROVE  A!BumpPatch(v) \in A!Versions /\ A!Rank(A!BumpPatch(v)) > A!Rank(v)
<1> DEFINE w == [v EXCEPT !.patch = @ + 1]
<1>1. v.pre = 0 /\ v.patch # Largest /\ A!BumpPatch(v) = w
  BY DEF A!BumpPatch
<1>2. Largest \in Nat
  BY PartsAssumption DEF A!AppVersionAssumption
<1>3. w \in A!Versions /\ A!GreaterThan(w, v)
  BY <1>1, <1>2 DEF A!Versions, A!Component, A!GreaterThan
<1> QED BY <1>1, <1>3, RankOrder

\* What a source is packaged under: the version it has, or one that is greater.
LEMMA NextVersion ==
  ASSUME A!VersionInv, NEW fingerprint \in Fingerprints, NEW candidate \in A!Versions \cup {None},
         NEW version, version = A!SourceApplicationVersion(fingerprint, candidate), version # Overflow
  PROVE  /\ version \in A!Versions
         /\ lock.fingerprint = fingerprint => version = lock.version
         /\ lock.fingerprint # fingerprint => A!Rank(version) > A!Rank(current)
<1>1. /\ None \notin A!Versions /\ None \notin Fingerprints /\ Overflow \notin A!Versions
      /\ current \in A!Versions
  BY PartsAssumption DEF A!AppVersionAssumption, A!VersionInv
<1>2. CASE lock.fingerprint = fingerprint
  <2>1. version = lock.version
    BY <1>2 DEF A!SourceApplicationVersion
  <2> QED BY <1>1, <1>2, <2>1 DEF A!VersionInv
<1>3. CASE lock.fingerprint # fingerprint /\ candidate # None /\ A!GreaterThan(candidate, current)
  <2>1. version = candidate
    BY <1>3 DEF A!SourceApplicationVersion
  <2> QED BY <1>1, <1>3, <2>1, RankOrder
<1>4. CASE lock.fingerprint # fingerprint /\ (candidate = None \/ ~A!GreaterThan(candidate, current))
  <2>1. version = A!BumpPatch(current)
    BY <1>4 DEF A!SourceApplicationVersion
  <2> QED BY <1>1, <1>4, <2>1, Bumped
<1> QED BY <1>2, <1>3, <1>4

\* What it is packaged under when it is retried too: only the version it has is
\* not greater.
LEMMA RetriedVersion ==
  ASSUME A!VersionInv, NEW fingerprint \in Fingerprints, NEW candidate \in A!Versions \cup {None},
         NEW retry \in BOOLEAN, NEW version, version = A!PackageVersion(fingerprint, candidate, retry),
         version # Overflow
  PROVE  /\ version \in A!Versions
         /\ \/ lock.fingerprint = fingerprint /\ version = lock.version
            \/ A!Rank(version) > A!Rank(current)
<1>1. CASE retry /\ A!SourceApplicationVersion(fingerprint, candidate) # Overflow
  <2>1. version = A!BumpPatch(current) /\ current \in A!Versions
    BY <1>1 DEF A!PackageVersion, A!VersionInv
  <2> QED BY <2>1, Bumped
<1>2. CASE ~(retry /\ A!SourceApplicationVersion(fingerprint, candidate) # Overflow)
  <2>1. version = A!SourceApplicationVersion(fingerprint, candidate)
    BY <1>2 DEF A!PackageVersion
  <2> QED BY <2>1, NextVersion
<1> QED BY <1>1, <1>2

LEMMA VersionNext ==
  ASSUME A!VersionInv, A!Next \/ UNCHANGED app
  PROVE  /\ A!VersionInv'
         /\ lock' # lock =>
              /\ A!Rank(lock'.version) > A!Rank(current)
              /\ lock.version # None => A!Rank(lock'.version) > A!Rank(lock.version)
<1>1. CASE UNCHANGED app
  BY <1>1 DEF app, A!VersionInv
<1>2. ASSUME NEW fingerprint \in Fingerprints, NEW candidate \in A!Versions \cup {None},
             NEW retry \in BOOLEAN,
             \/ A!Package(fingerprint, candidate, retry)
             \/ A!KeepVersion(fingerprint, candidate, retry)
      PROVE  /\ A!VersionInv'
             /\ lock' # lock =>
                  /\ A!Rank(lock'.version) > A!Rank(current)
                  /\ lock.version # None => A!Rank(lock'.version) > A!Rank(lock.version)
  <2> DEFINE version == A!PackageVersion(fingerprint, candidate, retry)
  <2>1. /\ version # Overflow /\ current' = version
        /\ lock' = [fingerprint |-> fingerprint, version |-> version] \/ UNCHANGED lock
    BY <1>2 DEF A!Package, A!KeepVersion
  <2>2. /\ version \in A!Versions
        /\ \/ lock.fingerprint = fingerprint /\ version = lock.version
           \/ A!Rank(version) > A!Rank(current)
    BY <2>1, RetriedVersion
  <2> HIDE DEF version
  <2>3. /\ A!Rank(version) \in Nat /\ A!Rank(current) \in Nat /\ None \notin A!Versions
        /\ None \notin Fingerprints
        /\ lock.version # None => A!Rank(lock.version) \in Nat /\ A!Rank(lock.version) <= A!Rank(current)
    BY <2>2, RankOrder, PartsAssumption DEF A!VersionInv, A!AppVersionAssumption
  <2>4. CASE lock' = [fingerprint |-> fingerprint, version |-> version]
    <3>1. A!Rank(lock'.version) = A!Rank(version) /\ A!Rank(current)' = A!Rank(version)
      BY <2>1, <2>4 DEF A!Rank
    <3>2. A!VersionInv'
      BY <2>1, <2>2, <2>3, <2>4, <3>1 DEF A!VersionInv
    <3>3. CASE A!Rank(version) > A!Rank(current)
      BY <2>3, <3>1, <3>2, <3>3
    <3>4. CASE lock.fingerprint = fingerprint /\ version = lock.version
      <4>1. lock = [fingerprint |-> lock.fingerprint, version |-> lock.version]
        BY DEF A!VersionInv
      <4> QED BY <2>4, <3>2, <3>4, <4>1
    <3> QED BY <2>2, <3>3, <3>4
  <2>5. CASE UNCHANGED lock
    BY <2>1, <2>2, <2>3, <2>5 DEF A!VersionInv
  <2> QED BY <2>1, <2>4, <2>5
<1> QED BY <1>1, <1>2 DEF A!Next

LEMMA VersionInit ==
  ASSUME A!Init
  PROVE  A!VersionInv
BY DEF A!Init, A!VersionInv

\* A behaviour of the version of the application keeps its invariant.
THEOREM VersionInvariant == PartsSpec => [](part = "version" => A!VersionInv)
<1>1. PartsInit => (part = "version" => A!VersionInv)
  BY VersionInit DEF PartsInit
<1>2. /\ part = "version" => A!VersionInv
      /\ [PartsNext]_<<part, vars, lookup, pair, app>>
      => (part = "version" => A!VersionInv)'
  <2> SUFFICES ASSUME part = "version" => A!VersionInv, part' = "version",
                      [PartsNext]_<<part, vars, lookup, pair, app>>
               PROVE  A!VersionInv'
    OBVIOUS
  <2>1. part = "version" /\ (A!Next \/ UNCHANGED app)
    BY DEF PartsNext
  <2> QED BY <2>1, VersionNext
<1> QED BY <1>1, <1>2, PTL DEF PartsSpec

\* A new package has a greater version than the package and the package.yml
\* before it, in components of any size, although failed builds leave versions
\* behind, a source that returns takes its own version again, and a rejected one
\* is retried.
THEOREM PackagedVersionsDoGrow == PartsSpec => PackagedVersionGrows
<1>1. /\ part = "version" => A!VersionInv
      /\ [PartsNext]_<<part, vars, lookup, pair, app>>
      => [lock' # lock =>
            A!Rank(lock'.version) > A!Rank(current)
              /\ (lock.version # None => A!Rank(lock'.version) > A!Rank(lock.version))]_lock
  <2> SUFFICES ASSUME part = "version" => A!VersionInv, lock' # lock,
                      [PartsNext]_<<part, vars, lookup, pair, app>>
               PROVE  /\ A!Rank(lock'.version) > A!Rank(current)
                      /\ lock.version # None => A!Rank(lock'.version) > A!Rank(lock.version)
    OBVIOUS
  <2>1. part = "version" /\ A!Next
    BY DEF PartsNext, app
  <2> QED BY <2>1, VersionNext
<1> QED BY <1>1, VersionInvariant, PTL DEF PartsSpec, PackagedVersionGrows, A!PackagedVersionGrows

\* A new or retried source is refused only when the version is a prerelease or
\* its patch component is at its end, and the version of a new one is not greater.
THEOREM RefusedAtTheEnd == PartsSpec => [](part = "version" => A!RefusedOnlyAtTheEnd)
<1>1. ASSUME A!VersionInv PROVE A!RefusedOnlyAtTheEnd
  <2> SUFFICES ASSUME NEW fingerprint \in Fingerprints, NEW candidate \in A!Versions \cup {None},
                      NEW retry \in BOOLEAN
               PROVE  A!PackageVersion(fingerprint, candidate, retry) = Overflow <=>
                        /\ current.pre # 0 \/ current.patch = Largest
                        /\ \/ retry
                           \/ /\ fingerprint # lock.fingerprint
                              /\ candidate # None => A!Rank(candidate) <= A!Rank(current)
    BY DEF A!RefusedOnlyAtTheEnd
  <2> DEFINE Own == A!SourceApplicationVersion(fingerprint, candidate) = Overflow
             AtEnd == current.pre # 0 \/ current.patch = Largest
             NotNewer == /\ fingerprint # lock.fingerprint
                         /\ candidate # None => A!Rank(candidate) <= A!Rank(current)
  <2>1. /\ None \notin A!Versions /\ None \notin Fingerprints /\ Overflow \notin A!Versions
        /\ current \in A!Versions
    BY <1>1, PartsAssumption DEF A!AppVersionAssumption, A!VersionInv
  <2>2. A!BumpPatch(current) = Overflow <=> current.pre # 0 \/ current.patch = Largest
    <3>1. [current EXCEPT !.patch = @ + 1] # Overflow \/ current.pre # 0 \/ current.patch = Largest
      <4>1. Largest \in Nat
        BY PartsAssumption DEF A!AppVersionAssumption
      <4>2. current.patch # Largest => [current EXCEPT !.patch = @ + 1] \in A!Versions
        BY <2>1, <4>1 DEF A!Versions, A!Component
      <4> QED BY <2>1, <4>2
    <3> QED BY <3>1 DEF A!BumpPatch
  <2>3. candidate # None => (A!Rank(candidate) <= A!Rank(current) <=> ~A!GreaterThan(candidate, current))
    BY <2>1, RankOrder
  <2>4. ASSUME lock.fingerprint = fingerprint PROVE Own <=> AtEnd /\ NotNewer
    <3>1. A!SourceApplicationVersion(fingerprint, candidate) = lock.version
      BY <2>4 DEF A!SourceApplicationVersion
    <3>2. lock.version \in A!Versions
      BY <1>1, <2>1, <2>4 DEF A!VersionInv
    <3>3. ~Own /\ ~NotNewer
      BY <2>1, <2>4, <3>1, <3>2
    <3> QED BY <3>3
  <2>5. ASSUME lock.fingerprint # fingerprint, candidate # None, A!GreaterThan(candidate, current)
        PROVE  Own <=> AtEnd /\ NotNewer
    <3>1. A!SourceApplicationVersion(fingerprint, candidate) = candidate
      BY <2>5 DEF A!SourceApplicationVersion
    <3>2. ~Own /\ ~NotNewer
      BY <2>1, <2>3, <2>5, <3>1
    <3> QED BY <3>2
  <2>6. ASSUME lock.fingerprint # fingerprint, candidate = None \/ ~A!GreaterThan(candidate, current)
        PROVE  Own <=> AtEnd /\ NotNewer
    <3>1. A!SourceApplicationVersion(fingerprint, candidate) = A!BumpPatch(current)
      BY <2>6 DEF A!SourceApplicationVersion
    <3>2. (Own <=> AtEnd) /\ NotNewer
      BY <2>2, <2>3, <2>6, <3>1
    <3> QED BY <3>2
  <2>7. Own <=> AtEnd /\ NotNewer
    BY <2>4, <2>5, <2>6
  <2> QED BY <2>2, <2>7 DEF A!PackageVersion
<1> QED BY <1>1, VersionInvariant, PTL


-----------------------------------------------------------------------------
(* The lookup of the newest release.                                       *)

LEMMA DiscoveryInit ==
  ASSUME D!Init
  PROVE  D!LookupInv
<1>1. MaxName \in Nat
  BY PartsAssumption DEF D!DiscoveryAssumption
<1>2. pushed \in [D!Tags -> Nat]
  <2>1. pushed \in [D!Tags -> D!Tags]
    BY DEF D!Init
  <2>2. D!Tags \subseteq Nat
    BY <1>1 DEF D!Tags
  <2> QED BY <2>1, <2>2
<1>3. D!TypeOK
  <2>1. /\ served \in [D!Tags -> Builds \cup {NoBuild}] /\ clock = MaxName
        /\ default \in D!Tags /\ rule \in Rules /\ pc = "idle" /\ left = {} /\ page = 0
        /\ updates = D!NoTimes /\ inspected = {}
        /\ chosen = D!NoChoice /\ previous = D!NoChoice /\ touched = {} /\ broken = FALSE
    BY DEF D!Init
  <2>2. DOMAIN updates = {}
    BY <2>1 DEF D!NoTimes
  <2>3. inspected \cup ({chosen, previous} \ {D!NoChoice}) = {}
    BY <2>1
  <2>4. \A c \in inspected \cup ({chosen, previous} \ {D!NoChoice}) :
          c.tag \in D!Tags /\ c.build \in Builds /\ c.updated \in Nat
    BY <2>3
  <2>5. left \subseteq D!Tags /\ page \in Nat /\ ~(page > 0)
    BY <2>1
  <2>6. DOMAIN updates \subseteq D!Tags /\ touched \subseteq D!Tags /\ broken \in BOOLEAN
    BY <2>1, <2>2, Zenon
  <2>7. clock \in Nat /\ pc \in D!Active \cup {"idle", "failed", "done"}
    BY <1>1, <2>1
  <2> QED BY <1>2, <2>1, <2>4, <2>5, <2>6, <2>7 DEF D!TypeOK
<1>4. D!TimesTrue /\ D!SteadyKept /\ D!SelectedIsHighest
  BY DEF D!Init, D!TimesTrue, D!SteadyKept, D!SelectedIsHighest, D!NoTimes
<1> QED BY <1>3, <1>4 DEF D!LookupInv

\* Types of the steps that change nothing of upstream.
LEMMA Observes ==
  ASSUME D!LookupInv, UNCHANGED <<D!remote, rule, touched>>,
         previous' \in {previous, chosen, D!NoChoice}, broken' \in BOOLEAN,
         pc' \in D!Active \cup {"idle", "failed", "done"},
         left' \subseteq D!Tags, page' \in Nat, page' > 0 => page' * PageSize < Limit,
         DOMAIN updates' \subseteq D!Tags,
         \A t \in DOMAIN updates' : updates'[t] \in {pushed[t]} \cup {updates[u] : u \in DOMAIN updates \cap {t}},
         \A c \in inspected' \cup ({chosen'} \ {D!NoChoice}) :
           c.tag \in D!Tags /\ c.build \in Builds /\ c.updated \in Nat
  PROVE  D!TypeOK' /\ D!TimesTrue'
<1>1. D!TypeOK /\ D!TimesTrue
  BY DEF D!LookupInv
<1>2. UNCHANGED <<served, pushed, clock, default, moves, rule, touched>>
  BY DEF D!remote
<1>3. D!TypeOK'
  BY <1>1, <1>2 DEF D!TypeOK, D!NoChoice, D!Active
<1>4. ASSUME NEW t \in DOMAIN updates'
      PROVE  updates'[t] \in Nat /\ (t \notin touched => updates'[t] = pushed[t])
  <2>1. CASE updates'[t] = pushed[t]
    BY <1>1, <2>1 DEF D!TypeOK
  <2>2. CASE t \in DOMAIN updates /\ updates'[t] = updates[t]
    BY <1>1, <2>2 DEF D!TimesTrue
  <2> QED BY <2>1, <2>2
<1> QED BY <1>2, <1>3, <1>4 DEF D!TimesTrue

\* A step that fails.
LEMMA FailsKeeps ==
  ASSUME D!LookupInv, D!Fails, UNCHANGED <<D!remote, rule, previous, touched>>, broken' \in BOOLEAN
  PROVE  D!LookupInv'
<1>1. pc' = "failed" /\ UNCHANGED <<left, page, updates, inspected, chosen>>
  BY DEF D!Fails, D!work
<1>2. D!TypeOK' /\ D!TimesTrue'
  BY <1>1, Observes DEF D!LookupInv, D!TypeOK
<1>3. D!SteadyKept' /\ D!SelectedIsHighest'
  BY <1>1 DEF D!SteadyKept, D!SelectedIsHighest
<1> QED BY <1>2, <1>3 DEF D!LookupInv

\* What a candidate is compared by is a number.
LEMMA KeyTypes ==
  ASSUME D!TypeOK, NEW c, c.tag \in D!Tags, c.build \in Builds \cup {NoBuild}, c.updated \in Nat
  PROVE  /\ Version[c.tag] \in Nat /\ Numeric[c.tag] \in Nat /\ c.tag \in Nat
         /\ c.build \in Builds => Created[c.build] \in Nat
BY PartsAssumption DEF D!Tags, D!DiscoveryAssumption

\* A step that chooses one of the candidates that are first, among which every
\* steady name is.
LEMMA ChoosesKeeps ==
  ASSUME D!LookupInv, NEW candidates, NEW c, D!Chooses(c),
         UNCHANGED <<D!remote, D!work, rule, previous, touched, broken>>,
         c.tag \in D!Tags, c.build \in Builds, c.updated \in Nat,
         rule.kind # "branch" =>
           /\ c \in D!First(candidates)
           /\ \A t \in D!Steady : \E d \in candidates :
                /\ d.tag = t /\ d.updated \in Nat
                /\ rule.sort = "created" => d.build = served[t]
                /\ rule.sort = "updated" => d.updated = pushed[t]
  PROVE  D!LookupInv'
<1>1. /\ pc' = "done" /\ chosen' = c
      /\ UNCHANGED <<left, page, updates, inspected, served, pushed, rule, touched>>
  BY DEF D!Chooses, D!work, D!remote
<1>2. D!TypeOK' /\ D!TimesTrue'
  BY <1>1, Observes DEF D!LookupInv, D!TypeOK, D!Active
<1>3. D!SteadyKept'
  BY <1>1 DEF D!SteadyKept
<1>4. D!Steady' = D!Steady
  BY <1>1 DEF D!Steady, D!Present
<1>5. rule.sort \in {"semver", "numeric", "created", "updated"}
      /\ (rule.kind = "tag" => rule.sort = "semver")
  BY PartsAssumption DEF D!DiscoveryAssumption, D!RuleRecords, D!LookupInv, D!TypeOK, D!Sorts, D!Kinds
<1>6. ASSUME NEW t \in D!Steady, rule.kind # "branch"
      PROVE  CASE rule.sort = "semver"  -> Version[t] <= Version[c.tag]
               [] rule.sort = "numeric" -> Numeric[t] <= Numeric[c.tag]
               [] rule.sort = "created" -> Created[served[t]] <= Created[c.build]
               [] rule.sort = "updated" -> pushed[t] <= c.updated
  <2>1. PICK d \in candidates :
          /\ d.tag = t /\ d.updated \in Nat
          /\ rule.sort = "created" => d.build = served[t]
          /\ rule.sort = "updated" => d.updated = pushed[t]
    BY <1>6
  <2>2. ~D!Before(d, c)
    BY <1>6 DEF D!First
  <2>3. /\ t \in D!Tags /\ served[t] \in Builds
    BY DEF D!Steady, D!Present, D!LookupInv, D!TypeOK
  <2>4. /\ Version[t] \in Nat /\ Version[c.tag] \in Nat /\ Numeric[t] \in Nat /\ Numeric[c.tag] \in Nat
        /\ Created[served[t]] \in Nat /\ Created[c.build] \in Nat
    BY <2>3, PartsAssumption DEF D!DiscoveryAssumption
  <2>5. CASE rule.sort = "semver"
    <3>1. CASE rule.kind = "tag"
      BY <2>1, <2>2, <2>4, <2>5, <3>1 DEF D!Before
    <3>2. CASE rule.kind # "tag"
      BY <2>1, <2>2, <2>4, <2>5, <3>2 DEF D!Before, D!Above
    <3> QED BY <3>1, <3>2
  <2>6. CASE rule.sort = "numeric"
    BY <1>5, <2>1, <2>2, <2>4, <2>6 DEF D!Before, D!Above
  <2>7. CASE rule.sort = "created"
    BY <1>5, <2>1, <2>2, <2>4, <2>7 DEF D!Before, D!Above
  <2>8. CASE rule.sort = "updated"
    BY <1>5, <2>1, <2>2, <2>4, <2>8 DEF D!Before, D!Above
  <2> QED BY <1>5, <2>5, <2>6, <2>7, <2>8
<1>7. D!SelectedIsHighest'
  BY <1>1, <1>4, <1>6 DEF D!SelectedIsHighest
<1> QED BY <1>2, <1>3, <1>7 DEF D!LookupInv


\* Every name that was there all the time is ranked with the others.
LEMMA SteadyRanked ==
  ASSUME NEW tags, NEW t \in D!Steady, t \in tags
  PROVE  t \in D!Ranked(tags)
BY DEF D!Steady, D!Ranked, D!Maps, D!OfChannel

LEMMA StartKeeps ==
  ASSUME D!LookupInv, D!Start
  PROVE  D!LookupInv'
<1>1. /\ pc' = "list" /\ previous' = IF touched = {} THEN chosen ELSE D!NoChoice
      /\ touched' = {} /\ broken' = FALSE /\ chosen' = D!NoChoice
      /\ left' = {} /\ page' = 0 /\ updates' = D!NoTimes /\ inspected' = {}
      /\ UNCHANGED <<served, pushed, clock, default, rule>>
  BY DEF D!Start, D!remote
<1>2. D!TypeOK
  BY DEF D!LookupInv
<1>3. DOMAIN updates' = {}
  BY <1>1 DEF D!NoTimes
<1>4. \A c \in inspected' \cup ({chosen', previous'} \ {D!NoChoice}) :
        c.tag \in D!Tags /\ c.build \in Builds /\ c.updated \in Nat
  BY <1>1, <1>2 DEF D!TypeOK
<1>5. left' \subseteq D!Tags /\ page' \in Nat /\ ~(page' > 0)
  BY <1>1
<1>6. DOMAIN updates' \subseteq D!Tags /\ touched' \subseteq D!Tags /\ broken' \in BOOLEAN
  BY <1>1, <1>3, Zenon
<1>7. /\ served' \in [D!Tags -> Builds \cup {NoBuild}] /\ pushed' \in [D!Tags -> Nat]
      /\ clock' \in Nat /\ default' \in D!Tags /\ rule' \in Rules
  BY <1>1, <1>2 DEF D!TypeOK
<1>8. D!NoChoice' = D!NoChoice /\ pc' \in D!Active \cup {"idle", "failed", "done"}
  BY <1>1 DEF D!NoChoice, D!Active
<1>9. D!TypeOK'
  BY <1>4, <1>5, <1>6, <1>7, <1>8 DEF D!TypeOK
<1>10. D!TimesTrue'
  BY <1>3 DEF D!TimesTrue
<1>11. D!SteadyKept' /\ D!SelectedIsHighest'
  BY <1>1 DEF D!SteadyKept, D!SelectedIsHighest
<1> QED BY <1>9, <1>10, <1>11 DEF D!LookupInv

LEMMA RequestFailsKeeps ==
  ASSUME D!LookupInv, D!RequestFails
  PROVE  D!LookupInv'
<1>1. broken' \in BOOLEAN
  BY Zenon DEF D!RequestFails
<1>2. D!Fails /\ UNCHANGED <<D!remote, rule, previous, touched>>
  BY DEF D!RequestFails
<1> QED BY <1>1, <1>2, FailsKeeps

\* What a lookup makes of a name.
LEMMA CandidateTypes ==
  ASSUME D!TypeOK, NEW t \in D!Tags
  PROVE  /\ D!Candidate(t).tag = t /\ D!Candidate(t).build = served[t] /\ D!Candidate(t).updated = 0
         /\ served[t] \in Builds \cup {NoBuild}
BY DEF D!Candidate, D!TypeOK

\* Only rules of images sort by times.
LEMMA RuleTypes ==
  ASSUME D!TypeOK
  PROVE  /\ rule.kind \in D!Kinds /\ rule.sort \in D!Sorts
         /\ rule.kind # "oci" => rule.sort = "semver"
BY PartsAssumption DEF D!TypeOK, D!DiscoveryAssumption, D!RuleRecords

LEMMA ListGitTagsKeeps ==
  ASSUME D!LookupInv, D!ListGitTags
  PROVE  D!LookupInv'
<1> DEFINE ranked == D!Ranked(D!Present \cap Eligible)
           candidates == {D!Candidate(t) : t \in ranked}
<1>1. D!TypeOK /\ broken \in BOOLEAN /\ rule.kind \in {"tag", "mapped"} /\ rule.sort = "semver"
  BY RuleTypes DEF D!LookupInv, D!TypeOK, D!ListGitTags
<1>2. UNCHANGED <<D!remote, rule, previous, touched, broken>>
  BY DEF D!ListGitTags
<1>3. CASE D!Fails
  BY <1>1, <1>2, <1>3, FailsKeeps
<1>4. ASSUME NEW c \in D!First(candidates), D!Chooses(c), UNCHANGED D!work
      PROVE  D!LookupInv'
  <2>1. PICK t \in ranked : c = D!Candidate(t)
    BY DEF D!First
  <2>2. t \in D!Tags /\ served[t] # NoBuild
    BY DEF D!Ranked, D!Present
  <2>3. c.tag \in D!Tags /\ c.build \in Builds /\ c.updated \in Nat
    BY <1>1, <2>1, <2>2, CandidateTypes
  <2>4. ASSUME NEW u \in D!Steady
        PROVE  \E d \in candidates :
                 /\ d.tag = u /\ d.updated \in Nat
                 /\ rule.sort = "created" => d.build = served[u]
                 /\ rule.sort = "updated" => d.updated = pushed[u]
    <3>1. u \in ranked /\ u \in D!Tags
      <4>1. u \in D!Present \cap Eligible /\ u \in D!Tags
        BY DEF D!Steady, D!Present
      <4> QED BY <4>1, SteadyRanked
    <3>2. D!Candidate(u) \in candidates
      BY <3>1
    <3> QED BY <1>1, <3>1, <3>2, CandidateTypes
  <2> HIDE DEF candidates
  <2> QED BY <1>2, <1>4, <2>3, <2>4, ChoosesKeeps
<1> QED BY <1>3, <1>4 DEF D!ListGitTags

LEMMA ReadHeadKeeps ==
  ASSUME D!LookupInv, D!ReadHead
  PROVE  D!LookupInv'
<1>1. /\ rule.kind = "branch" /\ pc' = "read branch" /\ left' = {default}
      /\ UNCHANGED <<D!remote, rule, touched, page, updates, inspected, chosen, previous, broken>>
  BY DEF D!ReadHead
<1>2. D!TypeOK /\ D!TimesTrue
  BY DEF D!LookupInv
<1>3. D!TypeOK' /\ D!TimesTrue'
  BY <1>1, <1>2, Observes DEF D!TypeOK, D!Active
<1>4. D!SteadyKept' /\ D!SelectedIsHighest'
  BY <1>1 DEF D!SteadyKept, D!SelectedIsHighest
<1> QED BY <1>3, <1>4 DEF D!LookupInv


LEMMA ReadBranchKeeps ==
  ASSUME D!LookupInv, D!ReadBranch
  PROVE  D!LookupInv'
<1>1. D!TypeOK /\ broken \in BOOLEAN /\ rule.kind = "branch"
  BY DEF D!LookupInv, D!TypeOK, D!ReadBranch, D!SteadyKept
<1>2. UNCHANGED <<D!remote, rule, previous, touched, broken>>
  BY DEF D!ReadBranch
<1>3. CASE D!Fails
  BY <1>1, <1>2, <1>3, FailsKeeps
<1>4. ASSUME NEW t \in left, served[t] # NoBuild, D!Chooses(D!Candidate(t)), UNCHANGED D!work
      PROVE  D!LookupInv'
  <2>1. t \in D!Tags
    BY <1>1 DEF D!TypeOK
  <2>2. D!Candidate(t).tag \in D!Tags /\ D!Candidate(t).build \in Builds /\ D!Candidate(t).updated \in Nat
    BY <1>1, <1>4, <2>1, CandidateTypes
  <2> QED BY <1>1, <1>2, <1>4, <2>2, ChoosesKeeps
<1> QED BY <1>3, <1>4 DEF D!ReadBranch

LEMMA ListTagsKeeps ==
  ASSUME D!LookupInv, D!ListTags
  PROVE  D!LookupInv'
<1> DEFINE tags == D!Present \cap Eligible
<1>1. D!TypeOK /\ D!TimesTrue /\ broken \in BOOLEAN /\ rule.kind = "oci" /\ rule.sort \in D!Sorts
  BY RuleTypes DEF D!LookupInv, D!TypeOK, D!ListTags
<1>2. UNCHANGED <<D!remote, rule, previous, touched, broken>>
  BY DEF D!ListTags
<1>3. CASE D!Fails
  BY <1>1, <1>2, <1>3, FailsKeeps
<1>4. CASE /\ left' = D!Inspected(tags)
           /\ pc' = CASE rule.sort \in {"semver", "numeric"} -> "inspect"
                      [] rule.sort = "updated"                -> "page"
                      [] rule.sort = "created"                -> "collect"
           /\ UNCHANGED <<page, updates, inspected, chosen>>
  <2>1. tags \subseteq D!Tags /\ D!Steady \subseteq tags
    BY DEF D!Present, D!Steady
  <2>2. D!Inspected(tags) \subseteq tags /\ D!Steady \subseteq D!Inspected(tags)
    BY <2>1, SteadyRanked DEF D!Inspected, D!Ranked
  <2>3. \/ rule.sort \in {"semver", "numeric"} /\ pc' = "inspect"
        \/ rule.sort = "updated" /\ pc' = "page"
        \/ rule.sort = "created" /\ pc' = "collect"
    BY <1>1, <1>4 DEF D!Sorts
  <2>4. D!TypeOK' /\ D!TimesTrue'
    <3>1. pc' \in D!Active /\ left' \subseteq D!Tags
      BY <1>4, <2>1, <2>2, <2>3 DEF D!Active
    <3> QED BY <1>1, <1>2, <1>4, <3>1, Observes DEF D!TypeOK
  <2>5. D!Steady' = D!Steady
    BY <1>2 DEF D!Steady, D!Present, D!remote
  <2>6. D!SteadyKept'
    <3>1. rule' = rule /\ D!Steady' \subseteq left'
      BY <1>2, <1>4, <2>2, <2>5
    <3> QED BY <1>1, <2>3, <3>1 DEF D!SteadyKept
  <2>7. D!SelectedIsHighest'
    BY <2>3 DEF D!SelectedIsHighest
  <2> QED BY <2>4, <2>6, <2>7 DEF D!LookupInv
<1> QED BY <1>3, <1>4 DEF D!ListTags

\* A page adds times of names to be inspected, as they are now.
LEMMA ReadPageKeeps ==
  ASSUME D!LookupInv, D!ReadPage
  PROVE  D!LookupInv'
<1> DEFINE read == D!PageOf(page)
           known == [t \in DOMAIN updates \cup (read \cap left) |->
                       IF t \in read THEN pushed[t] ELSE updates[t]]
           complete == DOMAIN known = left
<1>1. /\ D!TypeOK /\ broken \in BOOLEAN /\ rule.kind = "oci" /\ rule.sort = "updated"
      /\ D!Steady \subseteq left /\ pc = "page" /\ page \in Nat /\ left \subseteq D!Tags
      /\ DOMAIN updates \subseteq D!Tags
  BY DEF D!LookupInv, D!TypeOK, D!ReadPage, D!SteadyKept
<1>2. UNCHANGED <<D!remote, rule, previous, touched, broken>>
  BY DEF D!ReadPage
<1>3. CASE D!Fails
  BY <1>1, <1>2, <1>3, FailsKeeps
<1>4. CASE /\ complete \/ ~D!Ends(page)
           /\ updates' = known
           /\ page' = IF complete THEN page ELSE page + 1
           /\ pc' = IF complete THEN "inspect" ELSE pc
           /\ left' = IF complete THEN D!Ranked(left) ELSE left
           /\ UNCHANGED <<inspected, chosen>>
  <2>1. DOMAIN known = DOMAIN updates \cup (read \cap left)
    OBVIOUS
  <2>2. \A t \in DOMAIN known :
          known[t] \in {pushed[t]} \cup {updates[u] : u \in DOMAIN updates \cap {t}}
    OBVIOUS
  <2>3. DOMAIN known \subseteq D!Tags
    BY <1>1, <2>1
  <2>4. page' \in Nat /\ (page' > 0 => page' * PageSize < Limit)
    <3>1. CASE complete
      BY <1>1, <1>4, <3>1 DEF D!TypeOK
    <3>2. CASE ~complete
      <4>1. ~((page + 1) * PageSize >= Limit) /\ page' = page + 1
        BY <1>4, <3>2 DEF D!Ends
      <4>2. (page + 1) * PageSize \in Nat /\ Limit \in Nat
        BY <1>1, PartsAssumption DEF D!DiscoveryAssumption
      <4> QED BY <1>1, <4>1, <4>2
    <3> QED BY <3>1, <3>2
  <2>5. D!Ranked(left) \subseteq left
    BY DEF D!Ranked
  <2>6. /\ pc' \in D!Active /\ left' \subseteq D!Tags
        /\ \A c \in inspected' \cup ({chosen'} \ {D!NoChoice}) :
             c.tag \in D!Tags /\ c.build \in Builds /\ c.updated \in Nat
    BY <1>1, <1>4, <2>5 DEF D!Active, D!TypeOK
  <2> HIDE DEF known
  <2>7. D!TypeOK' /\ D!TimesTrue'
    BY <1>1, <1>2, <1>4, <2>2, <2>3, <2>4, <2>6, Observes
  <2>8. D!Steady' = D!Steady /\ rule' = rule
    BY <1>2 DEF D!Steady, D!Present, D!remote
  <2>9. D!Steady \subseteq left'
    BY <1>1, <1>4, SteadyRanked
  <2>10. complete => left' \subseteq DOMAIN updates'
    BY <1>4, <2>5
  <2>11. D!SteadyKept' /\ D!SelectedIsHighest'
    <3>1. CASE complete
      BY <1>1, <1>4, <2>8, <2>9, <2>10, <3>1 DEF D!SteadyKept, D!SelectedIsHighest
    <3>2. CASE ~complete
      BY <1>1, <1>4, <2>8, <2>9, <3>2 DEF D!SteadyKept, D!SelectedIsHighest
    <3> QED BY <3>1, <3>2
  <2> QED BY <2>7, <2>11 DEF D!LookupInv
<1> QED BY <1>3, <1>4 DEF D!ReadPage


LEMMA InspectKeeps ==
  ASSUME D!LookupInv, D!Inspect
  PROVE  D!LookupInv'
<1> DEFINE Waits(t) == [tag |-> t, build |-> served[t],
                        updated |-> IF t \in DOMAIN updates THEN updates[t] ELSE 0]
           waiting == {Waits(t) : t \in left}
<1>1. /\ D!TypeOK /\ D!TimesTrue /\ broken \in BOOLEAN /\ rule.kind = "oci" /\ rule.sort # "created"
      /\ pc = "inspect" /\ D!Steady \subseteq left /\ left \subseteq D!Tags
      /\ rule.sort = "updated" => left \subseteq DOMAIN updates
  BY DEF D!LookupInv, D!TypeOK, D!Inspect, D!SteadyKept
<1>2. UNCHANGED <<D!remote, rule, previous, touched, broken>>
  BY DEF D!Inspect
<1>3. CASE D!Fails
  BY <1>1, <1>2, <1>3, FailsKeeps
<1>4. ASSUME NEW t \in left PROVE Waits(t).updated \in Nat
  BY <1>1 DEF D!TimesTrue
<1>5. ASSUME NEW c \in D!First(waiting), c.build \in Fits, D!Chooses(c), UNCHANGED D!work
      PROVE  D!LookupInv'
  <2>1. PICK t \in left : c = Waits(t)
    BY DEF D!First
  <2>2. c.tag \in D!Tags /\ c.build \in Builds /\ c.updated \in Nat
    BY <1>1, <1>4, <1>5, <2>1, PartsAssumption DEF D!DiscoveryAssumption
  <2>3. ASSUME NEW u \in D!Steady
        PROVE  \E d \in waiting :
                 /\ d.tag = u /\ d.updated \in Nat
                 /\ rule.sort = "created" => d.build = served[u]
                 /\ rule.sort = "updated" => d.updated = pushed[u]
    <3>1. u \in left /\ u \notin touched
      BY <1>1 DEF D!Steady
    <3>2. rule.sort = "updated" => Waits(u).updated = pushed[u]
      BY <1>1, <3>1 DEF D!TimesTrue
    <3>3. Waits(u) \in waiting /\ Waits(u).tag = u
      BY <3>1
    <3> HIDE DEF waiting, Waits
    <3> QED BY <1>1, <1>4, <3>1, <3>2, <3>3
  <2> HIDE DEF waiting
  <2> QED BY <1>2, <1>5, <2>2, <2>3, ChoosesKeeps
<1>6. ASSUME NEW c \in D!First(waiting), c.build \in Builds \ Fits, left' = left \ {c.tag},
             UNCHANGED <<pc, page, updates, inspected, chosen>>
      PROVE  D!LookupInv'
  <2>1. PICK t \in left : c = Waits(t)
    BY DEF D!First
  <2>2. t = c.tag /\ served[t] \notin Fits
    BY <1>6, <2>1
  <2>3. D!Steady \subseteq left'
    BY <1>1, <1>6, <2>2 DEF D!Steady
  <2>4. D!TypeOK' /\ D!TimesTrue'
    BY <1>1, <1>2, <1>6, Observes DEF D!TypeOK
  <2>5. D!Steady' = D!Steady /\ rule' = rule
    BY <1>2 DEF D!Steady, D!Present, D!remote
  <2>6. D!SteadyKept' /\ D!SelectedIsHighest'
    BY <1>1, <1>6, <2>3, <2>5 DEF D!SteadyKept, D!SelectedIsHighest
  <2> QED BY <2>4, <2>6 DEF D!LookupInv
<1> HIDE DEF waiting
<1>7. \E c \in D!First(waiting) :
        \/ D!Fails
        \/ c.build \in Fits /\ D!Chooses(c) /\ UNCHANGED D!work
        \/ /\ c.build \in Builds \ Fits /\ left' = left \ {c.tag}
           /\ UNCHANGED <<pc, page, updates, inspected, chosen>>
  BY DEF D!Inspect, waiting
<1> QED BY <1>3, <1>5, <1>6, <1>7


LEMMA CollectKeeps ==
  ASSUME D!LookupInv, D!Collect
  PROVE  D!LookupInv'
<1>1. /\ D!TypeOK /\ D!TimesTrue /\ broken \in BOOLEAN /\ rule.kind = "oci" /\ rule.sort = "created"
      /\ pc = "collect" /\ left \subseteq D!Tags
      /\ \A u \in D!Steady : u \in left \/ D!Candidate(u) \in inspected
  BY DEF D!LookupInv, D!TypeOK, D!Collect, D!SteadyKept
<1>2. UNCHANGED <<D!remote, rule, previous, touched, broken>>
  BY DEF D!Collect
<1>3. CASE D!Fails
  BY <1>1, <1>2, <1>3, FailsKeeps
<1>4. ASSUME NEW t \in left, served[t] # NoBuild, left' = left \ {t},
             inspected' = IF served[t] \in Fits THEN inspected \cup {D!Candidate(t)} ELSE inspected,
             UNCHANGED <<pc, page, updates, chosen>>
      PROVE  D!LookupInv'
  <2>1. UNCHANGED <<served, pushed, rule, touched>> /\ left' \subseteq left
    BY <1>2, <1>4 DEF D!remote
  <2>2. /\ D!Candidate(t).tag \in D!Tags /\ D!Candidate(t).build \in Builds
        /\ D!Candidate(t).updated \in Nat
    BY <1>1, <1>4, CandidateTypes
  <2>3. \A c \in inspected' \cup ({chosen'} \ {D!NoChoice}) :
          c.tag \in D!Tags /\ c.build \in Builds /\ c.updated \in Nat
    BY <1>1, <1>4, <2>2 DEF D!TypeOK
  <2>4. D!TypeOK' /\ D!TimesTrue'
    BY <1>1, <1>2, <1>4, <2>1, <2>3, Observes DEF D!TypeOK
  <2>5. D!Steady' = D!Steady /\ \A u : D!Candidate(u)' = D!Candidate(u)
    BY <2>1 DEF D!Steady, D!Present, D!Candidate
  <2>6. ASSUME NEW u \in D!Steady PROVE u \in left' \/ D!Candidate(u) \in inspected'
    <3>1. CASE D!Candidate(u) \in inspected
      BY <1>4, <3>1
    <3>2. CASE u \in left /\ u # t
      BY <1>4, <3>2
    <3>3. CASE u = t
      <4>1. served[t] \in Fits
        BY <1>1, <3>3 DEF D!Steady
      <4> QED BY <1>4, <3>3, <4>1
    <3> QED BY <1>1, <3>1, <3>2, <3>3
  <2>7. D!SteadyKept' /\ D!SelectedIsHighest'
    BY <1>1, <1>4, <2>1, <2>5, <2>6 DEF D!SteadyKept, D!SelectedIsHighest
  <2> QED BY <2>4, <2>7 DEF D!LookupInv
<1> QED BY <1>3, <1>4 DEF D!Collect

LEMMA SelectCreatedKeeps ==
  ASSUME D!LookupInv, D!SelectCreated
  PROVE  D!LookupInv'
<1> DEFINE names == {c.tag : c \in inspected}
           usable == {c \in inspected : c.tag \in D!Ranked(names)}
<1>1. /\ D!TypeOK /\ broken \in BOOLEAN /\ rule.sort = "created" /\ left = {}
      /\ \A u \in D!Steady : D!Candidate(u) \in inspected
  BY DEF D!LookupInv, D!TypeOK, D!SelectCreated, D!SteadyKept
<1>2. UNCHANGED <<D!remote, rule, previous, touched, broken>>
  BY DEF D!SelectCreated
<1>3. CASE D!Fails
  BY <1>1, <1>2, <1>3, FailsKeeps
<1>4. ASSUME NEW c \in D!First(usable), D!Chooses(c), UNCHANGED D!work
      PROVE  D!LookupInv'
  <2>1. c.tag \in D!Tags /\ c.build \in Builds /\ c.updated \in Nat
    BY <1>1 DEF D!First, D!TypeOK
  <2>2. ASSUME NEW u \in D!Steady
        PROVE  \E d \in usable :
                 /\ d.tag = u /\ d.updated \in Nat
                 /\ rule.sort = "created" => d.build = served[u]
                 /\ rule.sort = "updated" => d.updated = pushed[u]
    <3>1. u \in D!Tags
      BY DEF D!Steady, D!Present
    <3>2. /\ D!Candidate(u) \in inspected /\ D!Candidate(u).tag = u
          /\ D!Candidate(u).build = served[u] /\ D!Candidate(u).updated = 0
      BY <1>1, <3>1, CandidateTypes
    <3>3. u \in D!Ranked(names)
      <4>1. u \in names
        BY <3>2
      <4> QED BY <4>1, SteadyRanked
    <3>4. D!Candidate(u) \in usable
      BY <3>2, <3>3
    <3> HIDE DEF usable
    <3> QED BY <1>1, <3>2, <3>4
  <2> HIDE DEF usable
  <2> QED BY <1>2, <1>4, <2>1, <2>2, ChoosesKeeps
<1> QED BY <1>3, <1>4 DEF D!SelectCreated

-----------------------------------------------------------------------------
\* Upstream changes the name it touches and no other.
LEMMA MovesKeeps ==
  ASSUME D!LookupInv, NEW name \in D!Tags, D!Moves(name),
         served' \in [D!Tags -> Builds \cup {NoBuild}], pushed' \in [D!Tags -> Nat],
         clock' \in Nat, default' \in D!Tags,
         \A t \in D!Tags \ {name} : served'[t] = served[t] /\ pushed'[t] = pushed[t]
  PROVE  D!LookupInv'
<1>1. /\ touched' = touched \cup {name}
      /\ UNCHANGED <<rule, pc, left, page, updates, inspected, chosen, previous, broken>>
  BY DEF D!Moves, D!work
<1>2. D!TypeOK /\ D!TimesTrue /\ D!SteadyKept /\ D!SelectedIsHighest
  BY DEF D!LookupInv
<1>3. D!TypeOK'
  BY <1>1, <1>2 DEF D!TypeOK, D!NoChoice
<1>4. D!TimesTrue'
  BY <1>1, <1>2 DEF D!TimesTrue, D!TypeOK
<1>5. ASSUME NEW t \in D!Steady'
      PROVE  t \in D!Steady /\ served'[t] = served[t] /\ pushed'[t] = pushed[t]
                /\ D!Candidate(t)' = D!Candidate(t)
  <2>1. t \in D!Tags \ {name} /\ t \notin touched
    BY <1>1 DEF D!Steady, D!Present
  <2>2. served'[t] = served[t] /\ pushed'[t] = pushed[t]
    BY <2>1
  <2>3. t \in D!Steady
    BY <1>1, <2>1, <2>2 DEF D!Steady, D!Present
  <2> QED BY <2>2, <2>3 DEF D!Candidate
<1>6. D!SteadyKept'
  BY <1>1, <1>2, <1>5 DEF D!SteadyKept
<1>7. D!SelectedIsHighest'
  <2> SUFFICES ASSUME pc = "done", rule.kind # "branch", NEW t \in D!Steady'
               PROVE  CASE rule.sort = "semver"  -> Version[t] <= Version[chosen.tag]
                        [] rule.sort = "numeric" -> Numeric[t] <= Numeric[chosen.tag]
                        [] rule.sort = "created" -> Created[served'[t]] <= Created[chosen.build]
                        [] rule.sort = "updated" -> pushed'[t] <= chosen.updated
    BY <1>1 DEF D!SelectedIsHighest
  <2> QED BY <1>2, <1>5 DEF D!SelectedIsHighest
<1> QED BY <1>3, <1>4, <1>6, <1>7 DEF D!LookupInv

LEMMA UpstreamKeeps ==
  ASSUME D!LookupInv, NEW t \in D!Tags,
         (\E build \in Builds : D!Push(t, build)) \/ D!Delete(t) \/ D!SetDefault(t)
  PROVE  D!LookupInv'
<1>1. /\ served \in [D!Tags -> Builds \cup {NoBuild}] /\ pushed \in [D!Tags -> Nat] /\ clock \in Nat
      /\ default \in D!Tags
  BY DEF D!LookupInv, D!TypeOK
<1>2. ASSUME NEW build \in Builds, D!Push(t, build) PROVE D!LookupInv'
  BY <1>1, <1>2, MovesKeeps DEF D!Push
<1>3. CASE D!Delete(t)
  BY <1>1, <1>3, MovesKeeps DEF D!Delete
<1>4. CASE D!SetDefault(t)
  BY <1>1, <1>4, MovesKeeps DEF D!SetDefault
<1> QED BY <1>2, <1>3, <1>4

LEMMA DiscoveryNext ==
  ASSUME D!LookupInv, D!Next \/ UNCHANGED lookup
  PROVE  D!LookupInv'
<1>1. CASE UNCHANGED lookup
  BY <1>1 DEF lookup, D!LookupInv, D!TypeOK, D!TimesTrue, D!SteadyKept, D!SelectedIsHighest,
              D!Steady, D!Present, D!Candidate, D!NoChoice
<1> QED BY <1>1, StartKeeps, RequestFailsKeeps, ListGitTagsKeeps, ReadHeadKeeps, ReadBranchKeeps,
           ListTagsKeeps, ReadPageKeeps, InspectKeeps, CollectKeeps, SelectCreatedKeeps, UpstreamKeeps
        DEF D!Next

-----------------------------------------------------------------------------
\* A behaviour of the lookup of a release keeps its invariant.
THEOREM DiscoveryInvariant == PartsSpec => [](part = "discovery" => D!LookupInv)
<1>1. PartsInit => (part = "discovery" => D!LookupInv)
  BY DiscoveryInit DEF PartsInit
<1>2. /\ part = "discovery" => D!LookupInv
      /\ [PartsNext]_<<part, vars, lookup, pair, app>>
      => (part = "discovery" => D!LookupInv)'
  <2> SUFFICES ASSUME part = "discovery" => D!LookupInv, part' = "discovery",
                      [PartsNext]_<<part, vars, lookup, pair, app>>
               PROVE  D!LookupInv'
    OBVIOUS
  <2>1. part = "discovery" /\ (D!Next \/ UNCHANGED lookup)
    BY DEF PartsNext
  <2> QED BY <2>1, DiscoveryNext
<1> QED BY <1>1, <1>2, PTL DEF PartsSpec

\* Whatever upstream does between the requests of a lookup, none of the
\* releases that were there all the time ranks above the one it selects.
THEOREM HighestIsSelected == PartsSpec => []SelectedIsHighest
<1>1. (part = "discovery" => D!LookupInv) => SelectedIsHighest
  BY DEF SelectedIsHighest, D!LookupInv
<1> QED BY <1>1, DiscoveryInvariant, PTL


-----------------------------------------------------------------------------
(* Lookups while nothing moves.                                            *)

\* What there is depends on upstream and the rule.
LEMMA Still ==
  ASSUME UNCHANGED <<D!remote, rule, touched>>
  PROVE  /\ UNCHANGED <<D!Present, D!Steady, D!Answers, served, pushed>>
         /\ \A t : D!Place(t)' = D!Place(t) /\ D!Candidate(t)' = D!Candidate(t) /\ D!Key(t)' = D!Key(t)
         /\ \A tags : D!Ranked(tags)' = D!Ranked(tags)
         /\ \A tags : D!RuleFails(tags)' <=> D!RuleFails(tags)
         /\ D!Considered' = D!Considered
         /\ D!TimesDiffer' <=> D!TimesDiffer
<1>1. UNCHANGED <<served, pushed, clock, default, rule, touched>>
  BY DEF D!remote
<1>2. D!Present' = D!Present /\ D!Steady' = D!Steady
  BY <1>1 DEF D!Present, D!Steady
<1>3. \A t : D!Place(t)' = D!Place(t) /\ D!Candidate(t)' = D!Candidate(t) /\ D!Key(t)' = D!Key(t)
  BY <1>1, <1>2 DEF D!Place, D!Candidate, D!Key
<1>4. \A tags : D!Ranked(tags)' = D!Ranked(tags)
  BY <1>1 DEF D!Ranked, D!Maps, D!OfChannel
<1>5. \A a, b : D!Before(a, b)' <=> D!Before(a, b)
  BY <1>1 DEF D!Before, D!Above
<1>6. \A candidates : D!First(candidates)' = D!First(candidates)
  BY <1>5 DEF D!First
<1>7. D!Answers' = D!Answers
  <2>1. {D!Key(t) : t \in D!Steady}' = {D!Key(t) : t \in D!Steady}
    BY <1>2, <1>3
  <2> QED BY <1>1, <1>3, <1>6, <2>1 DEF D!Answers
<1>8. D!TimesDiffer' <=> D!TimesDiffer
  BY <1>1 DEF D!TimesDiffer
<1>9. \A tags : D!RuleFails(tags)' <=> D!RuleFails(tags)
  BY <1>1 DEF D!RuleFails, D!Maps, D!OfChannel
<1>10. D!Considered' = D!Considered
  BY <1>1, <1>2 DEF D!Considered
<1> QED BY <1>1, <1>2, <1>3, <1>4, <1>7, <1>8, <1>9, <1>10

\* A name that fails a rule fails it among others too.
LEMMA FailsWithOthers ==
  ASSUME NEW tags, NEW others, tags \subseteq others, D!RuleFails(tags)
  PROVE  D!RuleFails(others)
BY DEF D!RuleFails

\* All eligible names are considered, unless the rule inspects them first.
LEMMA AllConsidered ==
  /\ D!Considered \subseteq D!Present \cap Eligible
  /\ rule.sort # "created" => D!Considered = D!Present \cap Eligible
BY DEF D!Considered

LEMMA SameCardinality == \A S : D!Cardinality(S) = Cardinality(S)
BY DEF D!Cardinality, Cardinality

LEMMA QuietFails ==
  ASSUME D!QuietInv, D!Fails, pc \in D!Active, UNCHANGED <<D!remote, rule, previous, touched>>,
         \/ broken' = TRUE
         \/ touched = {} /\ rule.kind # "branch" /\ Cardinality(D!Present) <= Limit
              => D!Steady = {} \/ D!RuleFails(D!Considered)
  PROVE  D!QuietKept'
<1>1. pc' = "failed" /\ UNCHANGED <<chosen, updates, rule, touched, previous>>
  BY DEF D!Fails, D!work
<1>2. D!QuietKept
  BY DEF D!QuietInv
<1>3. chosen = D!NoChoice
  BY <1>2 DEF D!QuietKept, D!Active
<1>4. D!NoChoice' = D!NoChoice
  BY DEF D!NoChoice
<1>5. touched' = {} => D!ReadTrue'
  <2>1. touched = {} /\ previous # D!NoChoice => previous \in D!Answers
    BY <1>2 DEF D!QuietKept, D!ReadTrue
  <2>2. D!Answers' = D!Answers
    BY Still
  <2> QED BY <1>1, <1>4, <2>1, <2>2 DEF D!ReadTrue
<1>6. D!QuietLookupSucceeds'
  <2>1. /\ D!Present' = D!Present /\ D!Steady' = D!Steady
        /\ D!RuleFails(D!Considered)' <=> D!RuleFails(D!Considered)
    <3>1. D!Considered' = D!Considered
      BY Still
    <3> QED BY <1>1, <3>1, Still DEF D!RuleFails, D!Maps, D!OfChannel
  <2>2. CASE broken' = TRUE
    BY <1>1, <2>2 DEF D!QuietLookupSucceeds
  <2>3. CASE touched = {} /\ rule.kind # "branch" /\ Cardinality(D!Present) <= Limit
               => D!Steady = {} \/ D!RuleFails(D!Considered)
    BY <1>1, <2>1, <2>3, SameCardinality DEF D!QuietLookupSucceeds
  <2> QED BY <2>2, <2>3
<1> QED BY <1>1, <1>2, <1>3, <1>4, <1>5, <1>6, Still DEF D!QuietKept

LEMMA QuietChooses ==
  ASSUME D!QuietInv, NEW c, D!Chooses(c), UNCHANGED <<D!remote, D!work, rule, previous, touched, broken>>,
         touched = {} => c \in D!Answers /\ (rule.kind # "branch" => ~D!RuleFails(D!Considered))
  PROVE  D!QuietKept'
<1>1. pc' = "done" /\ chosen' = c /\ UNCHANGED <<updates, rule, touched, previous>>
  BY DEF D!Chooses, D!work
<1>2. D!QuietKept
  BY DEF D!QuietInv
<1>3. D!NoChoice' = D!NoChoice
  BY DEF D!NoChoice
<1>4. touched' = {} => D!ReadTrue'
  <2>1. touched = {} /\ previous # D!NoChoice => previous \in D!Answers
    BY <1>2 DEF D!QuietKept, D!ReadTrue
  <2>2. D!Answers' = D!Answers
    BY Still
  <2> QED BY <1>1, <1>3, <2>1, <2>2 DEF D!ReadTrue
<1>5. D!QuietLookupSucceeds'
  <2>1. D!Considered' = D!Considered
    BY Still
  <2>2. D!RuleFails(D!Considered)' <=> D!RuleFails(D!Considered)
    BY <1>1, <2>1 DEF D!RuleFails, D!Maps, D!OfChannel
  <2> QED BY <1>1, <2>2 DEF D!QuietLookupSucceeds
<1> QED BY <1>1, <1>2, <1>4, <1>5, Still DEF D!QuietKept

LEMMA QuietInit ==
  ASSUME D!Init
  PROVE  D!QuietKept
<1>1. pushed \in [D!Tags -> D!Tags] /\ D!IsInjective(pushed) /\ clock = MaxName
  BY DEF D!Init
<1>2. D!TimesDiffer
  <2>1. \A t, u \in D!Tags : pushed[t] = pushed[u] => t = u
    BY <1>1 DEF D!IsInjective
  <2>2. MaxName \in Nat
    BY PartsAssumption DEF D!DiscoveryAssumption
  <2>3. \A t \in D!Tags : pushed[t] <= clock
    BY <1>1, <2>2 DEF D!Tags
  <2> QED BY <2>1, <2>3 DEF D!TimesDiffer
<1>3. /\ pc = "idle" /\ chosen = D!NoChoice /\ previous = D!NoChoice /\ updates = D!NoTimes
  BY DEF D!Init
<1>4. DOMAIN updates = {}
  BY <1>3 DEF D!NoTimes
<1> QED BY <1>2, <1>3, <1>4 DEF D!QuietKept, D!ReadTrue, D!QuietLookupSucceeds

LEMMA QuietStart ==
  ASSUME D!QuietInv, D!Start
  PROVE  D!QuietKept'
<1>1. /\ pc' = "list" /\ previous' = IF touched = {} THEN chosen ELSE D!NoChoice
      /\ touched' = {} /\ chosen' = D!NoChoice /\ updates' = D!NoTimes
      /\ page' = 0 /\ inspected' = {}
      /\ UNCHANGED <<served, pushed, clock, default, rule>> /\ pc \notin D!Active
  BY DEF D!Start, D!remote
<1>2. D!QuietKept
  BY DEF D!QuietInv
<1>3. D!NoChoice' = D!NoChoice /\ DOMAIN updates' = {}
  BY <1>1 DEF D!NoChoice, D!NoTimes
<1>4. ASSUME touched = {}, chosen # D!NoChoice PROVE chosen \in D!Answers'
  <2>1. chosen \in D!Answers
    BY <1>2, <1>4 DEF D!QuietKept, D!ReadTrue
  <2>2. D!Answers' = D!Answers
    BY <1>1, <1>4, Still DEF D!Start
  <2> QED BY <2>1, <2>2
<1>5. D!ReadTrue'
  BY <1>1, <1>3, <1>4 DEF D!ReadTrue
<1>6. D!TimesDiffer'
  BY <1>1, <1>2 DEF D!QuietKept, D!TimesDiffer
<1> QED BY <1>1, <1>3, <1>5, <1>6 DEF D!QuietKept, D!QuietLookupSucceeds


LEMMA QuietRequestFails ==
  ASSUME D!QuietInv, D!RequestFails
  PROVE  D!QuietKept'
<1>1. broken' = TRUE /\ D!Fails /\ pc \in D!Active /\ UNCHANGED <<D!remote, rule, previous, touched>>
  BY DEF D!RequestFails
<1> QED BY <1>1, QuietFails

\* While nothing moves the steady names are those the rule allows.
LEMMA SteadyWhenStill ==
  ASSUME touched = {}
  PROVE  D!Steady = {t \in D!Ranked(D!Present \cap Eligible) : rule.kind = "oci" => served[t] \in Fits}
<1>1. ASSUME NEW t \in D!Present \cap Eligible
      PROVE  t \in D!Steady <=> /\ t \in D!Ranked(D!Present \cap Eligible)
                                /\ rule.kind = "oci" => served[t] \in Fits
  <2>1. t \in D!Ranked(D!Present \cap Eligible) <=>
          (rule.channel \notin {"nightly", "mutable"} =>
             /\ Version[t] # 0
             /\ rule.channel = "stable" => t \notin Prerelease
             /\ rule.channel = "beta" => t \in Prerelease)
    BY DEF D!Ranked, D!Maps, D!OfChannel
  <2> QED BY <2>1 DEF D!Steady
<1> QED BY <1>1 DEF D!Steady, D!Ranked

LEMMA QuietListGitTags ==
  ASSUME D!QuietInv, D!ListGitTags
  PROVE  D!QuietKept'
<1> DEFINE ranked == D!Ranked(D!Present \cap Eligible)
           candidates == {D!Candidate(t) : t \in ranked}
<1>1. /\ pc = "list" /\ pc \in D!Active /\ rule.kind \in {"tag", "mapped"} /\ rule.sort = "semver"
      /\ UNCHANGED <<D!remote, rule, previous, touched, broken>>
  BY RuleTypes DEF D!ListGitTags, D!Active, D!QuietInv, D!LookupInv
<1>2. touched = {} => D!Steady = ranked
  BY <1>1, SteadyWhenStill
<1>3. CASE (ranked = {} \/ D!RuleFails(D!Present \cap Eligible)) /\ D!Fails
  <2>1. D!Steady = {} \/ D!RuleFails(D!Considered)
    BY <1>1, <1>3, SteadyRanked, AllConsidered DEF D!Steady
  <2> QED BY <1>1, <1>3, <2>1, QuietFails
<1>4. ASSUME NEW c \in D!First(candidates), D!Chooses(c), UNCHANGED D!work,
             ~D!RuleFails(D!Present \cap Eligible)
      PROVE  D!QuietKept'
  <2>1. \A t : D!Key(t) = D!Candidate(t)
    BY <1>1 DEF D!Key, D!Candidate
  <2>2. touched = {} => candidates = {D!Key(t) : t \in D!Steady}
    BY <1>2, <2>1
  <2>3. touched = {} => c \in D!Answers
    BY <1>1, <1>4, <2>2 DEF D!Answers
  <2>4. ~D!RuleFails(D!Considered)
    BY <1>1, <1>4, AllConsidered
  <2> QED BY <1>1, <1>4, <2>3, <2>4, QuietChooses
<1> QED BY <1>1, <1>3, <1>4 DEF D!ListGitTags

LEMMA QuietReadHead ==
  ASSUME D!QuietInv, D!ReadHead
  PROVE  D!QuietKept'
<1>1. /\ pc = "list" /\ pc' = "read branch" /\ left' = {default}
      /\ UNCHANGED <<D!remote, rule, touched, updates, chosen, previous>>
  BY DEF D!ReadHead
<1>2. UNCHANGED <<default, D!Answers>> /\ D!NoChoice' = D!NoChoice /\ (D!TimesDiffer' <=> D!TimesDiffer)
  BY <1>1, Still DEF D!remote, D!NoChoice
<1>3. D!QuietKept
  BY DEF D!QuietInv
<1>4. touched' = {} => D!ReadTrue'
  BY <1>1, <1>2, <1>3 DEF D!QuietKept, D!ReadTrue
<1>5. chosen' # D!NoChoice' => pc' = "done"
  BY <1>1, <1>2, <1>3 DEF D!QuietKept
<1> QED BY <1>1, <1>2, <1>3, <1>4, <1>5 DEF D!QuietKept, D!QuietLookupSucceeds

LEMMA QuietReadBranch ==
  ASSUME D!QuietInv, D!ReadBranch
  PROVE  D!QuietKept'
<1>1. /\ pc = "read branch" /\ pc \in D!Active /\ rule.kind = "branch"
      /\ UNCHANGED <<D!remote, rule, previous, touched, broken>>
      /\ touched = {} => left = {default}
  BY DEF D!ReadBranch, D!Active, D!QuietInv, D!LookupInv, D!SteadyKept, D!QuietKept, D!ReadTrue
<1>2. CASE D!Fails
  BY <1>1, <1>2, QuietFails
<1>3. ASSUME NEW t \in left, D!Chooses(D!Candidate(t)), UNCHANGED D!work
      PROVE  D!QuietKept'
  <2>1. touched = {} => D!Candidate(t) \in D!Answers
    BY <1>1, <1>3 DEF D!Answers
  <2> QED BY <1>1, <1>3, <2>1, QuietChooses
<1> QED BY <1>2, <1>3 DEF D!ReadBranch

-----------------------------------------------------------------------------
(* The pages of update times.                                              *)

LEMMA Finite ==
  /\ IsFiniteSet(D!Present) /\ Cardinality(D!Present) \in Nat
  /\ \A S \in SUBSET D!Present : IsFiniteSet(S) /\ Cardinality(S) \in Nat /\ Cardinality(S) <= Cardinality(D!Present)
<1>1. MaxName \in Nat
  BY PartsAssumption DEF D!DiscoveryAssumption
<1>2. IsFiniteSet(D!Tags)
  BY <1>1, FS_Interval DEF D!Tags
<1>3. D!Present \in SUBSET D!Tags
  BY DEF D!Present
<1>4. IsFiniteSet(D!Present)
  BY <1>2, <1>3, FS_Subset
<1>5. ASSUME NEW S \in SUBSET D!Present
      PROVE  IsFiniteSet(S) /\ Cardinality(S) \in Nat /\ Cardinality(S) <= Cardinality(D!Present)
  BY <1>4, FS_Subset, FS_CardinalityType
<1> QED BY <1>4, <1>5, FS_CardinalityType

\* The places of the names are the first numbers, each of one name.
LEMMA PlacesAre ==
  ASSUME D!TypeOK, D!TimesDiffer
  PROVE  LET n == Cardinality(D!Present)
         IN  /\ \A t \in D!Present : D!Place(t) \in 0 .. n - 1
             /\ \A i \in 0 .. n - 1 : \E t \in D!Present : D!Place(t) = i
<1> DEFINE n == Cardinality(D!Present)
           Later(t) == {u \in D!Present : pushed[u] > pushed[t]}
<1>1. n \in Nat /\ IsFiniteSet(D!Present)
  BY Finite
<1>2. \A t \in D!Present : t \in D!Tags /\ pushed[t] \in Nat
  BY DEF D!Present, D!TypeOK
<1>3. ASSUME NEW t \in D!Present
      PROVE  D!Place(t) = Cardinality(Later(t)) /\ D!Place(t) \in 0 .. n - 1
  <2>1. D!Place(t) = Cardinality(Later(t))
    BY SameCardinality DEF D!Place
  <2>2. Later(t) \in SUBSET (D!Present \ {t})
    BY <1>2
  <2>3. IsFiniteSet(D!Present \ {t}) /\ Cardinality(D!Present \ {t}) = n - 1
    BY <1>1, FS_RemoveElement
  <2>4. Cardinality(Later(t)) <= n - 1
    BY <2>2, <2>3, FS_Subset
  <2>5. Cardinality(Later(t)) \in Nat
    BY Finite
  <2> HIDE DEF Later, n
  <2> QED BY <1>1, <2>1, <2>4, <2>5
<1>4. ASSUME NEW t \in D!Present, NEW u \in D!Present, pushed[t] < pushed[u]
      PROVE  D!Place(u) < D!Place(t)
  <2>1. Later(u) \in SUBSET (Later(t) \ {u}) /\ u \in Later(t)
    BY <1>2, <1>4
  <2>2. IsFiniteSet(Later(t)) /\ Cardinality(Later(t)) \in Nat /\ Cardinality(Later(u)) \in Nat
    BY Finite
  <2>3. IsFiniteSet(Later(t) \ {u}) /\ Cardinality(Later(t) \ {u}) = Cardinality(Later(t)) - 1
    BY <2>1, <2>2, FS_RemoveElement
  <2>4. Cardinality(Later(u)) <= Cardinality(Later(t)) - 1
    BY <2>1, <2>3, FS_Subset
  <2> HIDE DEF Later
  <2> QED BY <1>3, <2>2, <2>4
<1>5. ASSUME NEW t \in D!Present, NEW u \in D!Present, D!Place(t) = D!Place(u)
      PROVE  t = u
  <2>1. D!Place(t) \in Nat /\ pushed[t] \in Nat /\ pushed[u] \in Nat
    <3>1. D!Place(t) \in 0 .. n - 1
      BY <1>3
    <3> HIDE DEF n
    <3> QED BY <1>1, <1>2, <3>1
  <2>2. ~(pushed[t] < pushed[u])
    BY <1>4, <1>5, <2>1
  <2>3. ~(pushed[u] < pushed[t])
    BY <1>4, <1>5, <2>1
  <2>4. pushed[t] = pushed[u]
    BY <2>1, <2>2, <2>3
  <2> QED BY <1>2, <2>4 DEF D!TimesDiffer
<1> HIDE DEF n, Later
<1> DEFINE place == [t \in D!Present |-> D!Place(t)]
<1>6. place \in Injection(D!Present, 0 .. n - 1)
  BY <1>3, <1>5 DEF Injection, IsInjective
<1>7. IsFiniteSet(0 .. n - 1) /\ Cardinality(0 .. n - 1) = n
  BY <1>1, FS_Interval
<1>8. place \in Surjection(D!Present, 0 .. n - 1)
  BY <1>6, <1>7, FS_Injection DEF n
<1>9. \A i \in 0 .. n - 1 : \E t \in D!Present : D!Place(t) = i
  BY <1>8 DEF Surjection
<1> QED BY <1>3, <1>9 DEF n

\* The last page ends with the last name.
LEMMA LastPage ==
  ASSUME D!TypeOK, D!TimesDiffer, NEW p \in Nat, D!Ends(p), Cardinality(D!Present) <= Limit,
         NEW t \in D!Present
  PROVE  D!Place(t) < (p + 1) * PageSize
<1> DEFINE n == Cardinality(D!Present)
           first == p * PageSize
           I == first .. first + PageSize - 1
<1>1. PageSize \in Nat \ {0} /\ Limit \in Nat
  BY PartsAssumption DEF D!DiscoveryAssumption
<1>2. first \in Nat /\ (p + 1) * PageSize = first + PageSize
  BY <1>1
<1>3. /\ n \in Nat /\ \A u \in D!Present : D!Place(u) \in 0 .. n - 1
      /\ \A i \in 0 .. n - 1 : \E u \in D!Present : D!Place(u) = i
  BY Finite, PlacesAre
<1>4. /\ D!PageOf(p) = {u \in D!Present : D!Place(u) \in I}
      /\ Cardinality(D!PageOf(p)) < PageSize \/ first + PageSize >= n \/ first + PageSize >= Limit
  <2>1. I = p * PageSize .. (p + 1) * PageSize - 1
    <3>1. first = p * PageSize /\ I = first .. first + PageSize - 1
      OBVIOUS
    <3> HIDE DEF first
    <3>2. (p + 1) * PageSize - 1 = first + PageSize - 1
      BY <1>1, <1>2
    <3> QED BY <3>1, <3>2
  <2>2. D!PageOf(p) = {u \in D!Present : D!Place(u) \in I}
    BY <2>1 DEF D!PageOf
  <2>3. /\ D!Cardinality(D!PageOf(p)) = Cardinality(D!PageOf(p))
        /\ D!Cardinality(D!Present) = Cardinality(D!Present)
    BY SameCardinality
  <2>4. \/ Cardinality(D!PageOf(p)) < PageSize \/ (p + 1) * PageSize >= n
        \/ (p + 1) * PageSize >= Limit
    BY <2>3 DEF D!Ends
  <2> QED BY <1>2, <2>2, <2>4
<1> HIDE DEF n, first
<1>5. CASE first + PageSize >= n \/ first + PageSize >= Limit
  <2>1. n <= Limit
    BY DEF n
  <2>2. first + PageSize >= n
    BY <1>1, <1>2, <1>3, <1>5, <2>1
  <2> QED BY <1>1, <1>2, <1>3, <2>2
<1>6. ASSUME Cardinality(D!PageOf(p)) < PageSize, D!Place(t) >= first + PageSize PROVE FALSE
  <2> DEFINE place == [u \in D!PageOf(p) |-> D!Place(u)]
  <2>1. I \subseteq 0 .. n - 1
    BY <1>1, <1>2, <1>3, <1>6
  <2>2. place \in Surjection(D!PageOf(p), I)
    <3>1. place \in [D!PageOf(p) -> I]
      BY <1>4
    <3>2. ASSUME NEW i \in I PROVE \E u \in D!PageOf(p) : place[u] = i
      <4>1. PICK u \in D!Present : D!Place(u) = i
        BY <1>3, <2>1
      <4> QED BY <1>4, <4>1
    <3> QED BY <3>1, <3>2 DEF Surjection
  <2>3. IsFiniteSet(D!PageOf(p)) /\ Cardinality(D!PageOf(p)) \in Nat
    <3>1. D!PageOf(p) \in SUBSET D!Present
      BY <1>4
    <3> QED BY <3>1, Finite
  <2>4. Cardinality(I) = PageSize
    BY <1>1, <1>2, FS_Interval
  <2>5. Cardinality(I) <= Cardinality(D!PageOf(p))
    BY <2>2, <2>3, FS_Surjection
  <2> HIDE DEF I
  <2> QED BY <1>1, <1>6, <2>3, <2>4, <2>5
<1>7. D!Place(t) \in Nat
  BY <1>3
<1> QED BY <1>1, <1>2, <1>4, <1>5, <1>6, <1>7

-----------------------------------------------------------------------------
(* The lookup of an image while nothing moves.                             *)

\* A step that leaves the lookup going.
LEMMA QuietGoesOn ==
  ASSUME D!QuietInv, pc \in D!Active, pc' \in {"page", "inspect", "collect"},
         UNCHANGED <<D!remote, rule, previous, touched, chosen>>,
         rule.sort # "updated" => DOMAIN updates' = {},
         touched = {} =>
           /\ left' \subseteq D!Present \cap Eligible
           /\ pc' = "page" => /\ left' = D!Present \cap Eligible /\ DOMAIN updates' \subseteq left'
                              /\ \A t \in left' : D!Place(t) < page' * PageSize => t \in DOMAIN updates'
           /\ pc' = "inspect" => /\ \A t \in left' : D!Maps => Version[t] # 0 /\ D!OfChannel(t)
                                 /\ ~D!RuleFails(D!Present \cap Eligible)
           /\ pc' = "collect" => /\ \A c \in inspected' : \E t \in D!Considered : c = D!Candidate(t)
                                 /\ \A t \in D!Considered : t \in left' \/ D!Candidate(t) \in inspected'
  PROVE  D!QuietKept'
<1>1. D!QuietKept /\ chosen = D!NoChoice /\ pc' # "done" /\ pc' # "list" /\ pc' # "failed"
      /\ pc' # "read branch"
  BY DEF D!QuietInv, D!QuietKept, D!Active
<1>2. D!NoChoice' = D!NoChoice
  BY DEF D!NoChoice
<1>3. touched' = {} => D!ReadTrue'
  <2> SUFFICES ASSUME touched = {} PROVE D!ReadTrue'
    OBVIOUS
  <2>1. /\ UNCHANGED <<D!Present, D!Answers, D!Considered, served>>
        /\ \A t : D!Place(t)' = D!Place(t) /\ D!Candidate(t)' = D!Candidate(t)
    BY Still
  <2>2. left' \subseteq (D!Present \cap Eligible)'
    BY <2>1
  <2>3. pc' = "page" => /\ left' = (D!Present \cap Eligible)' /\ DOMAIN updates' \subseteq left'
                        /\ \A t \in left' : D!Place(t)' < page' * PageSize => t \in DOMAIN updates'
    BY <2>1
  <2>4. pc' = "inspect" => left' \subseteq D!Ranked(left)' /\ ~D!RuleFails(D!Present \cap Eligible)'
    <3>1. UNCHANGED rule
      OBVIOUS
    <3> QED BY <2>1, <3>1 DEF D!Ranked, D!RuleFails, D!Maps, D!OfChannel
  <2>5. pc' = "collect" =>
          /\ \A c \in inspected' : \E t \in D!Considered' : c = D!Candidate(t)'
          /\ \A t \in D!Considered' : t \in left' \/ D!Candidate(t)' \in inspected'
    BY <2>1
  <2>6. previous' # D!NoChoice' => previous' \in D!Answers'
    BY <1>1, <1>2, <2>1 DEF D!QuietKept, D!ReadTrue
  <2> QED BY <1>1, <2>2, <2>3, <2>4, <2>5, <2>6 DEF D!ReadTrue
<1> QED BY <1>1, <1>2, <1>3, Still DEF D!QuietKept, D!QuietLookupSucceeds

\* Why a rule may be refused while nothing moves.
LEMMA Refused ==
  ASSUME NEW tags, D!Steady \subseteq tags, tags \subseteq D!Considered,
         D!RuleFails(tags) \/ D!Ranked(tags) = {}
  PROVE  D!Steady = {} \/ D!RuleFails(D!Considered)
BY SteadyRanked, FailsWithOthers

LEMMA QuietListTags ==
  ASSUME D!QuietInv, D!ListTags
  PROVE  D!QuietKept'
<1> DEFINE tags == D!Present \cap Eligible
<1>1. /\ pc = "list" /\ pc \in D!Active /\ rule.kind = "oci" /\ rule.sort \in D!Sorts
      /\ UNCHANGED <<D!remote, rule, previous, touched, broken>>
      /\ page = 0 /\ DOMAIN updates = {} /\ inspected = {}
  BY RuleTypes DEF D!ListTags, D!Active, D!QuietInv, D!LookupInv, D!QuietKept
<1>2. D!Steady \subseteq tags
  BY DEF D!Steady
<1>3. CASE /\ \/ D!Cardinality(tags) > Limit \/ tags = {}
              \/ rule.sort # "created" /\ (D!RuleFails(tags) \/ D!Ranked(tags) = {})
           /\ D!Fails
  <2>1. ~(D!Cardinality(tags) > Limit) \/ ~(Cardinality(D!Present) <= Limit)
    <3>1. /\ Cardinality(tags) \in Nat /\ Cardinality(tags) <= Cardinality(D!Present)
          /\ Cardinality(D!Present) \in Nat
      BY Finite
    <3>2. Limit \in Nat
      BY PartsAssumption DEF D!DiscoveryAssumption
    <3> QED BY <3>1, <3>2, SameCardinality
  <2>2. tags = {} => D!Steady = {}
    BY <1>2
  <2>3. rule.sort # "created" /\ (D!RuleFails(tags) \/ D!Ranked(tags) = {})
          => D!Steady = {} \/ D!RuleFails(D!Considered)
    BY <1>2, AllConsidered, Refused
  <2>4. Cardinality(D!Present) <= Limit => D!Steady = {} \/ D!RuleFails(D!Considered)
    BY <1>3, <2>1, <2>2, <2>3
  <2> QED BY <1>1, <1>3, <2>4, QuietFails
<1>4. CASE /\ left' = D!Inspected(tags)
           /\ rule.sort \in {"semver", "numeric"} => ~D!RuleFails(tags)
           /\ pc' = CASE rule.sort \in {"semver", "numeric"} -> "inspect"
                      [] rule.sort = "updated"                -> "page"
                      [] rule.sort = "created"                -> "collect"
           /\ UNCHANGED <<page, updates, inspected, chosen>>
  <2>1. left' \subseteq tags /\ (pc' # "inspect" => left' = tags)
    BY <1>1, <1>4 DEF D!Inspected, D!Ranked, D!Sorts
  <2>2. pc' \in {"page", "inspect", "collect"} /\ (pc' = "inspect" => rule.sort \in {"semver", "numeric"})
    BY <1>1, <1>4 DEF D!Sorts
  <2>3. pc' = "inspect" => /\ \A t \in left' : D!Maps => Version[t] # 0 /\ D!OfChannel(t)
                           /\ ~D!RuleFails(tags)
    BY <1>4, <2>2 DEF D!Inspected, D!Ranked
  <2>4. DOMAIN updates' = {} /\ inspected' = {} /\ page' = 0
    BY <1>1, <1>4
  <2>5. \A t \in left' : ~(D!Place(t) < page' * PageSize)
    <3>1. PageSize \in Nat
      BY PartsAssumption DEF D!DiscoveryAssumption
    <3>2. ASSUME NEW t PROVE D!Place(t) \in Nat
      <4>1. {u \in D!Present : pushed[u] > pushed[t]} \in SUBSET D!Present
        OBVIOUS
      <4> QED BY <4>1, Finite, SameCardinality DEF D!Place
    <3> QED BY <2>4, <3>1, <3>2
  <2>6. pc' = "collect" => /\ \A c \in inspected' : \E t \in D!Considered : c = D!Candidate(t)
                           /\ \A t \in D!Considered : t \in left' \/ D!Candidate(t) \in inspected'
    BY <2>1, <2>4, AllConsidered
  <2>7. UNCHANGED chosen
    BY <1>4
  <2> HIDE DEF tags
  <2>8. /\ rule.sort # "updated" => DOMAIN updates' = {}
        /\ pc' = "page" => left' = D!Present \cap Eligible /\ DOMAIN updates' \subseteq left'
    BY <2>1, <2>4 DEF tags
  <2> QED BY <1>1, <2>1, <2>2, <2>3, <2>5, <2>6, <2>7, <2>8, QuietGoesOn DEF tags
<1> QED BY <1>3, <1>4 DEF D!ListTags


\* The pages that were read hold all names of the places they show.
LEMMA QuietReadPage ==
  ASSUME D!QuietInv, D!ReadPage
  PROVE  D!QuietKept'
<1> DEFINE read == D!PageOf(page)
           known == [t \in DOMAIN updates \cup (read \cap left) |->
                       IF t \in read THEN pushed[t] ELSE updates[t]]
           complete == DOMAIN known = left
<1>1. /\ pc = "page" /\ pc \in D!Active /\ rule.kind = "oci" /\ rule.sort = "updated"
      /\ UNCHANGED <<D!remote, rule, previous, touched, broken>>
      /\ D!Steady \subseteq left /\ page \in Nat /\ D!TypeOK /\ D!TimesDiffer
  BY DEF D!ReadPage, D!Active, D!QuietInv, D!LookupInv, D!TypeOK, D!SteadyKept, D!QuietKept
<1>2. touched = {} => /\ left = D!Present \cap Eligible /\ DOMAIN updates \subseteq left
                      /\ \A t \in left : D!Place(t) < page * PageSize => t \in DOMAIN updates
  BY <1>1 DEF D!QuietInv, D!QuietKept, D!ReadTrue
<1>3. DOMAIN known = DOMAIN updates \cup (read \cap left)
  OBVIOUS
<1>4. ASSUME touched = {}, NEW t \in left, D!Place(t) < (page + 1) * PageSize
      PROVE  t \in DOMAIN known
  <2>1. t \in D!Present /\ D!Place(t) \in Nat
    <3>1. t \in D!Present
      BY <1>2, <1>4
    <3>2. Cardinality(D!Present) \in Nat
      BY Finite
    <3>3. D!Place(t) \in 0 .. Cardinality(D!Present) - 1
      BY <1>1, <3>1, PlacesAre
    <3> QED BY <3>1, <3>2, <3>3
  <2>2. page * PageSize \in Nat /\ (page + 1) * PageSize \in Nat
    BY <1>1, PartsAssumption DEF D!DiscoveryAssumption
  <2>3. CASE D!Place(t) < page * PageSize
    BY <1>2, <1>3, <1>4, <2>3
  <2>4. CASE ~(D!Place(t) < page * PageSize)
    <3>1. D!Place(t) \in page * PageSize .. (page + 1) * PageSize - 1
      BY <1>4, <2>1, <2>2, <2>4
    <3>2. t \in read
      BY <2>1, <3>1 DEF D!PageOf
    <3> QED BY <1>3, <1>4, <3>2
  <2> QED BY <2>3, <2>4
<1>5. ASSUME touched = {}, D!Ends(page), Cardinality(D!Present) <= Limit
      PROVE  complete
  <2>1. ASSUME NEW t \in left PROVE t \in DOMAIN known
    <3>1. t \in D!Present
      BY <1>2, <1>5
    <3>2. D!Place(t) < (page + 1) * PageSize
      BY <1>1, <1>5, <3>1, LastPage
    <3> QED BY <1>4, <1>5, <3>2
  <2>2. DOMAIN known \subseteq left
    BY <1>2, <1>3, <1>5
  <2> QED BY <2>1, <2>2
<1> HIDE DEF known
<1>6. CASE /\ \/ D!Cardinality(D!Present) > Limit
              \/ IF complete THEN D!RuleFails(left) \/ D!Ranked(left) = {} ELSE D!Ends(page)
           /\ D!Fails
  <2>1. ~(D!Cardinality(D!Present) > Limit) \/ ~(Cardinality(D!Present) <= Limit)
    <3>1. Limit \in Nat /\ Cardinality(D!Present) \in Nat
      BY PartsAssumption, Finite DEF D!DiscoveryAssumption
    <3> QED BY <3>1, SameCardinality
  <2>2. touched = {} => left \subseteq D!Considered
    BY <1>1, <1>2, AllConsidered
  <2>3. touched = {} /\ rule.kind # "branch" /\ Cardinality(D!Present) <= Limit
          => D!Steady = {} \/ D!RuleFails(D!Considered)
    BY <1>1, <1>5, <1>6, <2>1, <2>2, Refused
  <2> QED BY <1>1, <1>6, <2>3, QuietFails
<1>7. CASE /\ updates' = known
           /\ complete => ~D!RuleFails(left)
           /\ page' = IF complete THEN page ELSE page + 1
           /\ pc' = IF complete THEN "inspect" ELSE pc
           /\ left' = IF complete THEN D!Ranked(left) ELSE left
           /\ UNCHANGED <<inspected, chosen>>
  <2>1. CASE complete
    <3>1. pc' = "inspect" /\ left' = D!Ranked(left)
      BY <1>7, <2>1
    <3>2. left' \subseteq left /\ \A t \in left' : D!Maps => Version[t] # 0 /\ D!OfChannel(t)
      BY <3>1 DEF D!Ranked
    <3>3. touched = {} => left' \subseteq D!Present \cap Eligible /\ ~D!RuleFails(D!Present \cap Eligible)
      BY <1>2, <1>7, <2>1, <3>2
    <3> QED BY <1>1, <1>7, <3>1, <3>2, <3>3, QuietGoesOn
  <2>2. CASE ~complete
    <3>1. pc' = "page" /\ left' = left /\ page' = page + 1
      BY <1>1, <1>7, <2>2
    <3>2. touched = {} => /\ left' = D!Present \cap Eligible /\ DOMAIN updates' \subseteq left'
                          /\ \A t \in left' : D!Place(t) < page' * PageSize => t \in DOMAIN updates'
      BY <1>2, <1>3, <1>4, <1>7, <3>1
    <3> QED BY <1>1, <1>2, <1>7, <3>1, <3>2, QuietGoesOn
  <2> QED BY <2>1, <2>2
<1> QED BY <1>6, <1>7 DEF D!ReadPage, known


\* A name that waits is compared by its key, and so are all that can be chosen.
LEMMA QuietInspect ==
  ASSUME D!QuietInv, D!Inspect
  PROVE  D!QuietKept'
<1> DEFINE Waits(t) == [tag |-> t, build |-> served[t],
                        updated |-> IF t \in DOMAIN updates THEN updates[t] ELSE 0]
           waiting == {Waits(t) : t \in left}
<1>1. /\ pc = "inspect" /\ pc \in D!Active /\ rule.kind = "oci" /\ rule.sort # "created"
      /\ UNCHANGED <<D!remote, rule, previous, touched, broken>>
      /\ D!Steady \subseteq left
      /\ rule.sort = "updated" => left \subseteq DOMAIN updates
      /\ rule.sort # "updated" => DOMAIN updates = {}
      /\ D!TimesTrue
  BY DEF D!Inspect, D!Active, D!QuietInv, D!LookupInv, D!TypeOK, D!SteadyKept, D!QuietKept
<1>2. touched = {} => /\ left \subseteq D!Present \cap Eligible /\ left \subseteq D!Ranked(left)
                      /\ ~D!RuleFails(D!Present \cap Eligible)
  BY <1>1 DEF D!QuietInv, D!QuietKept, D!ReadTrue
<1>3. ASSUME touched = {}, NEW t \in left PROVE Waits(t) = D!Key(t)
  <2>1. CASE rule.sort = "updated"
    <3>1. t \in DOMAIN updates /\ updates[t] = pushed[t]
      BY <1>1, <1>3, <2>1 DEF D!TimesTrue
    <3> QED BY <2>1, <3>1 DEF D!Key
  <2>2. CASE rule.sort # "updated"
    BY <1>1, <2>2 DEF D!Key
  <2> QED BY <2>1, <2>2
<1>4. ASSUME touched = {}, NEW t \in left PROVE served[t] \in Fits <=> t \in D!Steady
  <2>1. t \in D!Ranked(D!Present \cap Eligible)
    BY <1>2, <1>4 DEF D!Ranked, D!Maps, D!OfChannel
  <2> QED BY <1>1, <1>4, <2>1, SteadyWhenStill
<1>5. ASSUME NEW c \in waiting, D!Fails, c.build = NoBuild \/ (c.build \in Builds \ Fits /\ left = {c.tag})
      PROVE  D!QuietKept'
  <2>1. PICK t \in left : c = Waits(t)
    BY <1>5
  <2>2. c.tag = t /\ c.build = served[t]
    BY <2>1
  <2>3. touched = {} => served[t] # NoBuild
    BY <1>2 DEF D!Present
  <2>4. touched = {} => D!Steady = {}
    BY <1>1, <1>4, <1>5, <2>2, <2>3
  <2> QED BY <1>1, <1>5, <2>4, QuietFails
<1>6. ASSUME NEW c \in D!First(waiting), c.build \in Fits, D!Chooses(c), UNCHANGED D!work
      PROVE  D!QuietKept'
  <2>1. PICK t \in left : c = Waits(t)
    BY DEF D!First
  <2>2. ASSUME touched = {} PROVE c \in D!Answers
    <3>1. c = D!Key(t) /\ t \in D!Steady
      BY <1>3, <1>4, <1>6, <2>1, <2>2
    <3>2. {D!Key(u) : u \in D!Steady} \subseteq waiting
      <4>1. \A u \in D!Steady : u \in left /\ D!Key(u) = Waits(u)
        BY <1>1, <1>3, <2>2
      <4> QED BY <4>1
    <3>3. \A d \in waiting : ~D!Before(d, c)
      BY <1>6 DEF D!First
    <3> HIDE DEF waiting
    <3>4. c \in D!First({D!Key(u) : u \in D!Steady})
      BY <3>1, <3>2, <3>3 DEF D!First
    <3> QED BY <1>1, <3>4 DEF D!Answers
  <2>3. touched = {} => ~D!RuleFails(D!Considered)
    BY <1>1, <1>2, AllConsidered
  <2> QED BY <1>1, <1>6, <2>2, <2>3, QuietChooses
<1>7. ASSUME NEW c \in waiting, left' = left \ {c.tag},
             UNCHANGED <<pc, page, updates, inspected, chosen>>
      PROVE  D!QuietKept'
  <2>1. touched = {} => \A t \in left' : D!Maps => Version[t] # 0 /\ D!OfChannel(t)
    BY <1>2, <1>7 DEF D!Ranked
  <2> QED BY <1>1, <1>2, <1>7, <2>1, QuietGoesOn
<1> HIDE DEF waiting
<1>8. \E c \in D!First(waiting) :
        \/ c.build = NoBuild /\ D!Fails
        \/ c.build \in Fits /\ D!Chooses(c) /\ UNCHANGED D!work
        \/ c.build \in Builds \ Fits /\ left = {c.tag} /\ D!Fails
        \/ left' = left \ {c.tag} /\ UNCHANGED <<pc, page, updates, inspected, chosen>>
  BY DEF D!Inspect, waiting
<1>9. D!First(waiting) \subseteq waiting
  BY DEF D!First
<1> QED BY <1>5, <1>6, <1>7, <1>8, <1>9

LEMMA QuietCollect ==
  ASSUME D!QuietInv, D!Collect
  PROVE  D!QuietKept'
<1>1. /\ pc = "collect" /\ pc \in D!Active /\ rule.kind = "oci" /\ rule.sort = "created"
      /\ UNCHANGED <<D!remote, rule, previous, touched, broken>>
      /\ DOMAIN updates = {}
  BY DEF D!Collect, D!Active, D!QuietInv, D!LookupInv, D!SteadyKept, D!QuietKept
<1>2. touched = {} =>
        /\ left \subseteq D!Present \cap Eligible
        /\ \A c \in inspected : \E t \in D!Considered : c = D!Candidate(t)
        /\ \A t \in D!Considered : t \in left \/ D!Candidate(t) \in inspected
  BY <1>1 DEF D!QuietInv, D!QuietKept, D!ReadTrue
<1>3. ASSUME NEW t \in left, served[t] = NoBuild, D!Fails PROVE D!QuietKept'
  <2>1. touched # {}
    BY <1>2, <1>3 DEF D!Present
  <2> QED BY <1>1, <1>3, <2>1, QuietFails
<1>4. ASSUME NEW t \in left, left' = left \ {t},
             inspected' = IF served[t] \in Fits THEN inspected \cup {D!Candidate(t)} ELSE inspected,
             UNCHANGED <<pc, page, updates, chosen>>
      PROVE  D!QuietKept'
  <2>1. touched = {} /\ served[t] \in Fits => t \in D!Considered
    BY <1>2 DEF D!Considered
  <2>2. t \in D!Considered => served[t] \in Fits
    BY <1>1 DEF D!Considered
  <2>3. touched = {} =>
          /\ \A c \in inspected' : \E u \in D!Considered : c = D!Candidate(u)
          /\ \A u \in D!Considered : u \in left' \/ D!Candidate(u) \in inspected'
    BY <1>2, <1>4, <2>1, <2>2
  <2> QED BY <1>1, <1>2, <1>4, <2>3, QuietGoesOn
<1> QED BY <1>3, <1>4 DEF D!Collect

LEMMA QuietSelectCreated ==
  ASSUME D!QuietInv, D!SelectCreated
  PROVE  D!QuietKept'
<1> DEFINE names == {c.tag : c \in inspected}
           usable == {c \in inspected : c.tag \in D!Ranked(names)}
<1>1. /\ pc = "collect" /\ pc \in D!Active /\ rule.kind = "oci" /\ rule.sort = "created" /\ left = {}
      /\ UNCHANGED <<D!remote, rule, previous, touched, broken>>
      /\ \A u \in D!Steady : D!Candidate(u) \in inspected
  BY DEF D!SelectCreated, D!Active, D!QuietInv, D!LookupInv, D!SteadyKept
<1>2. touched = {} =>
        /\ \A c \in inspected : \E t \in D!Considered : c = D!Candidate(t)
        /\ \A t \in D!Considered : D!Candidate(t) \in inspected
  BY <1>1 DEF D!QuietInv, D!QuietKept, D!ReadTrue
<1>3. \A t : D!Candidate(t).tag = t /\ D!Key(t) = D!Candidate(t)
  BY <1>1 DEF D!Candidate, D!Key
<1>4. \A u \in D!Steady : D!Candidate(u) \in usable
  <2>1. \A u \in D!Steady : u \in names
    BY <1>1, <1>3
  <2> QED BY <1>1, <1>3, <2>1, SteadyRanked
<1>5. ASSUME touched = {} PROVE usable = {D!Key(t) : t \in D!Steady}
  <2>1. ASSUME NEW c \in usable PROVE c \in {D!Key(t) : t \in D!Steady}
    <3>1. PICK t \in D!Present \cap Eligible : c = D!Candidate(t) /\ served[t] \in Fits
      BY <1>1, <1>2, <1>5 DEF D!Considered
    <3>2. t \in D!Ranked(names)
      BY <1>3, <3>1
    <3>3. t \in D!Ranked(D!Present \cap Eligible)
      BY <3>1, <3>2 DEF D!Ranked, D!Maps, D!OfChannel
    <3>4. t \in D!Steady
      BY <1>5, <3>1, <3>3, SteadyWhenStill
    <3> HIDE DEF usable
    <3> QED BY <1>3, <3>1, <3>4
  <2> HIDE DEF usable
  <2> QED BY <1>3, <1>4, <2>1
<1>6. touched = {} => names = D!Considered
  <2> SUFFICES ASSUME touched = {} PROVE names = D!Considered
    OBVIOUS
  <2>1. names \subseteq D!Considered
    BY <1>2, <1>3
  <2>2. ASSUME NEW t \in D!Considered PROVE t \in names
    BY <1>2, <1>3, <2>2
  <2> HIDE DEF names
  <2> QED BY <2>1, <2>2
<1>7. CASE (D!RuleFails(names) \/ usable = {}) /\ D!Fails
  <2>1. touched = {} => D!Steady = {} \/ D!RuleFails(D!Considered)
    <3> HIDE DEF names, usable
    <3> QED BY <1>4, <1>6, <1>7
  <2> QED BY <1>1, <1>7, <2>1, QuietFails
<1>8. ASSUME NEW c \in D!First(usable), D!Chooses(c), UNCHANGED D!work, ~D!RuleFails(names)
      PROVE  D!QuietKept'
  <2>1. touched = {} => c \in D!Answers
    BY <1>1, <1>5, <1>8 DEF D!Answers
  <2> HIDE DEF names, usable
  <2>2. touched = {} => ~D!RuleFails(D!Considered)
    BY <1>6, <1>8
  <2> QED BY <1>1, <1>8, <2>1, <2>2, QuietChooses
<1> HIDE DEF usable, names
<1> QED BY <1>7, <1>8 DEF D!SelectCreated, usable, names

-----------------------------------------------------------------------------
\* A move of upstream ends what is said of quiet lookups.
LEMMA QuietMoves ==
  ASSUME D!QuietInv, NEW name \in D!Tags, D!Moves(name), D!TimesDiffer'
  PROVE  D!QuietKept'
<1>1. /\ touched' # {}
      /\ UNCHANGED <<rule, pc, left, page, updates, inspected, chosen, previous, broken>>
  BY DEF D!Moves, D!work
<1>2. D!QuietKept /\ D!NoChoice' = D!NoChoice
  BY DEF D!QuietInv, D!NoChoice
<1> QED BY <1>1, <1>2 DEF D!QuietKept, D!QuietLookupSucceeds

LEMMA QuietUpstream ==
  ASSUME D!QuietInv, NEW t \in D!Tags,
         (\E build \in Builds : D!Push(t, build)) \/ D!Delete(t) \/ D!SetDefault(t)
  PROVE  D!QuietKept'
<1>1. D!TimesDiffer /\ pushed \in [D!Tags -> Nat] /\ clock \in Nat
  BY DEF D!QuietInv, D!QuietKept, D!LookupInv, D!TypeOK
<1>2. ASSUME NEW build \in Builds, D!Push(t, build) PROVE D!QuietKept'
  <2>1. D!Moves(t) /\ clock' = clock + 1 /\ pushed' = [pushed EXCEPT ![t] = clock + 1]
    BY <1>2 DEF D!Push
  <2>2. D!TimesDiffer'
    BY <1>1, <2>1 DEF D!TimesDiffer
  <2> QED BY <2>1, <2>2, QuietMoves
<1>3. CASE D!Delete(t) \/ D!SetDefault(t)
  <2>1. D!Moves(t) /\ UNCHANGED <<pushed, clock>>
    BY <1>3 DEF D!Delete, D!SetDefault
  <2>2. D!TimesDiffer'
    BY <1>1, <2>1 DEF D!TimesDiffer
  <2> QED BY <2>1, <2>2, QuietMoves
<1> QED BY <1>2, <1>3

LEMMA QuietRests ==
  ASSUME D!QuietInv, UNCHANGED lookup
  PROVE  D!QuietKept'
<1>1. /\ UNCHANGED <<D!remote, served, rule, touched>>
      /\ UNCHANGED <<default, pc, left, page, updates, inspected, chosen, previous, broken>>
  BY DEF lookup, D!remote
<1>2. D!QuietKept /\ D!NoChoice' = D!NoChoice
  BY DEF D!QuietInv, D!NoChoice
<1>3. /\ D!Present' = D!Present /\ D!Steady' = D!Steady /\ D!Answers' = D!Answers
      /\ \A t : D!Place(t)' = D!Place(t) /\ D!Candidate(t)' = D!Candidate(t)
      /\ D!TimesDiffer' <=> D!TimesDiffer
  BY <1>1, Still
<1>4. /\ D!Ranked(left)' = D!Ranked(left) /\ D!Considered' = D!Considered
      /\ D!RuleFails(D!Present \cap Eligible)' <=> D!RuleFails(D!Present \cap Eligible)
      /\ D!RuleFails(D!Considered)' <=> D!RuleFails(D!Considered)
  <2>1. D!Considered' = D!Considered
    BY <1>1, Still
  <2> QED BY <1>1, <1>3, <2>1 DEF D!Ranked, D!RuleFails, D!Maps, D!OfChannel
<1>5. touched = {} => D!ReadTrue'
  BY <1>1, <1>2, <1>3, <1>4 DEF D!QuietKept, D!ReadTrue
<1>6. D!QuietLookupSucceeds'
  BY <1>1, <1>2, <1>3, <1>4, SameCardinality DEF D!QuietKept, D!QuietLookupSucceeds
<1> QED BY <1>1, <1>2, <1>3, <1>5, <1>6 DEF D!QuietKept

LEMMA QuietNext ==
  ASSUME D!QuietInv, D!Next \/ UNCHANGED lookup
  PROVE  D!QuietInv'
<1>1. D!LookupInv'
  BY DiscoveryNext DEF D!QuietInv
<1>2. D!QuietKept'
  BY QuietStart, QuietRequestFails, QuietListGitTags, QuietReadHead, QuietReadBranch, QuietListTags,
     QuietReadPage, QuietInspect, QuietCollect, QuietSelectCreated, QuietUpstream, QuietRests
  DEF D!Next
<1> QED BY <1>1, <1>2 DEF D!QuietInv

\* The order of candidates leaves one answer, but for forms of one version of
\* a Git tag that is not mapped.
LEMMA OneAnswer ==
  ASSUME D!TypeOK, NEW a \in D!Answers, NEW b \in D!Answers
  PROVE  IF rule.kind = "tag" THEN Version[a.tag] = Version[b.tag] ELSE a = b
<1>1. CASE rule.kind = "branch"
  BY <1>1 DEF D!Answers
<1>2. CASE rule.kind # "branch"
  <2> DEFINE keys == {D!Key(t) : t \in D!Steady}
  <2>1. a \in D!First(keys) /\ b \in D!First(keys)
    BY <1>2 DEF D!Answers
  <2>2. a \in keys /\ b \in keys /\ ~D!Before(a, b) /\ ~D!Before(b, a)
    BY <2>1 DEF D!First
  <2>3. PICK t \in D!Steady, u \in D!Steady : a = D!Key(t) /\ b = D!Key(u)
    BY <2>2
  <2>4. /\ t \in D!Tags /\ u \in D!Tags /\ served[t] \in Builds /\ served[u] \in Builds
        /\ pushed[t] \in Nat /\ pushed[u] \in Nat
    BY DEF D!Steady, D!Present, D!TypeOK
  <2>5. /\ a.tag = t /\ a.build = served[t] /\ a.updated \in Nat
        /\ b.tag = u /\ b.build = served[u] /\ b.updated \in Nat
    BY <2>3, <2>4 DEF D!Key
  <2>6. /\ Version[t] \in Nat /\ Version[u] \in Nat /\ Numeric[t] \in Nat /\ Numeric[u] \in Nat
        /\ Created[served[t]] \in Nat /\ Created[served[u]] \in Nat /\ t \in Nat /\ u \in Nat
    BY <2>4, <2>5, PartsAssumption DEF D!DiscoveryAssumption, D!Tags
  <2>7. rule.sort \in {"semver", "numeric", "updated", "created"}
    BY RuleTypes DEF D!Sorts
  <2>8. CASE rule.kind = "tag"
    <3>1. rule.sort = "semver"
      BY <2>8, RuleTypes
    <3>2. ~(Version[t] > Version[u]) /\ ~(Version[u] > Version[t])
      BY <2>2, <2>5, <2>8, <3>1 DEF D!Before
    <3> QED BY <2>5, <2>6, <2>8, <3>2
  <2>9. CASE rule.kind # "tag"
    <3>1. t = u
      <4>1. CASE rule.sort = "semver"
        BY <2>2, <2>5, <2>6, <2>9, <4>1 DEF D!Before, D!Above
      <4>2. CASE rule.sort = "numeric"
        BY <2>2, <2>5, <2>6, <2>9, <4>2 DEF D!Before, D!Above
      <4>3. CASE rule.sort = "created"
        BY <2>2, <2>5, <2>6, <2>9, <4>3 DEF D!Before, D!Above
      <4>4. CASE rule.sort = "updated"
        BY <2>2, <2>5, <2>6, <2>9, <4>4 DEF D!Before, D!Above
      <4> QED BY <2>7, <4>1, <4>2, <4>3, <4>4
    <3> QED BY <2>3, <2>9, <3>1
  <2> QED BY <2>8, <2>9
<1> QED BY <1>1, <1>2

\* While nothing moves a lookup answers one thing, and has read all there is.
THEOREM QuietInvariant == PartsSpec => [](part = "discovery" => D!QuietInv)
<1>1. PartsInit => (part = "discovery" => D!QuietInv)
  BY DiscoveryInit, QuietInit DEF PartsInit, D!QuietInv
<1>2. /\ part = "discovery" => D!QuietInv
      /\ [PartsNext]_<<part, vars, lookup, pair, app>>
      => (part = "discovery" => D!QuietInv)'
  <2> SUFFICES ASSUME part = "discovery" => D!QuietInv, part' = "discovery",
                      [PartsNext]_<<part, vars, lookup, pair, app>>
               PROVE  D!QuietInv'
    OBVIOUS
  <2>1. part = "discovery" /\ (D!Next \/ UNCHANGED lookup)
    BY DEF PartsNext
  <2> QED BY <2>1, QuietNext
<1> QED BY <1>1, <1>2, PTL DEF PartsSpec

\* Two lookups between which nothing moved select the same release.  One
\* during which nothing moved and no request failed finds the release there
\* is, unless the rule cannot rank one of the names it considers, and never
\* passes over such a name: whatever the tags, the pages and the rule.
THEOREM LookupsDoAgree == PartsSpec => []LookupsAgree
<1>1. ASSUME D!QuietInv PROVE D!TypeOK /\ D!RepeatedLookupAgrees /\ D!QuietLookupSucceeds
  <2>1. D!TypeOK /\ D!QuietLookupSucceeds
    BY <1>1 DEF D!QuietInv, D!LookupInv, D!QuietKept
  <2>2. ASSUME pc = "done", previous # D!NoChoice, touched = {}
        PROVE  chosen \in D!Answers /\ previous \in D!Answers
    BY <1>1, <2>2 DEF D!QuietInv, D!QuietKept, D!ReadTrue
  <2> QED BY <2>1, <2>2, OneAnswer DEF D!RepeatedLookupAgrees
<1>2. (part = "discovery" => D!QuietInv) => LookupsAgree
  BY <1>1 DEF LookupsAgree
<1> QED BY <1>2, QuietInvariant, PTL

-----------------------------------------------------------------------------
(* The comparison of numbers.                                              *)

\* Proofs about recursive definitions and first differences go by the least
\* number that has a property.
LEMMA LeastNumber ==
  ASSUME NEW S \in SUBSET Nat, S # {}
  PROVE  \E m \in S : \A n \in S : m <= n
<1> DEFINE R == OpToRel(<, Nat)
<1>1. IsWellFoundedOn(R, Nat)
  BY NatLessThanWellFounded
<1>2. \A x, y \in Nat : x < y => <<x, y>> \in R
  BY DEF OpToRel
<1> HIDE DEF R
<1>3. PICK m \in S : \A n \in S : ~(<<n, m>> \in R)
  BY <1>1, WFMin
<1>4. ASSUME NEW n \in S PROVE m <= n
  <2>1. n \in Nat /\ m \in Nat /\ ~(n < m)
    BY <1>2, <1>3
  <2> QED BY <2>1
<1> QED BY <1>4

\* Least and greatest places.
LEMMA Extremes ==
  ASSUME NEW top \in Nat, NEW S \in SUBSET (0 .. top), S # {}
  PROVE  /\ N!Min(S) \in S /\ \A n \in S : N!Min(S) <= n
         /\ N!Max(S) \in S /\ \A n \in S : n <= N!Max(S)
<1>1. \E m \in S : \A n \in S : m <= n
  BY LeastNumber
<1>2. \E m \in S : \A n \in S : n <= m
  <2> DEFINE from == {top - n : n \in S}
  <2>1. from \in SUBSET Nat /\ from # {}
    <3>1. \A n \in S : n \in 0 .. top /\ top - n \in Nat
      OBVIOUS
    <3> QED BY <3>1
  <2>2. PICK d \in from : \A e \in from : d <= e
    BY <2>1, LeastNumber
  <2>3. PICK m \in S : d = top - m
    OBVIOUS
  <2>4. \A n \in S : top - m <= top - n
    BY <2>2, <2>3
  <2> QED BY <2>4
<1> QED BY <1>1, <1>2 DEF N!Min, N!Max

Strings == Seq(N!Digit)

LEMMA BaseIs == Base \in Nat \ {0} /\ MaxDigits \in Nat /\ MaxParts \in Nat \ {0}
BY PartsAssumption DEF N!NumericAssumption

LEMMA DigitsOf ==
  ASSUME NEW x \in Strings
  PROVE  Len(x) \in Nat /\ \A n \in 1 .. Len(x) : x[n] \in 0 .. Base - 1
<1>1. Len(x) \in Nat /\ \A n \in 1 .. Len(x) : x[n] \in N!Digit
  BY DEF Strings
<1> QED BY <1>1 DEF N!Digit

\* A string is read digit by digit, as the definition of its values says.
LEMMA ValuesAre ==
  ASSUME NEW x \in Strings
  PROVE  /\ N!Values(x) \in [0 .. Len(x) -> Nat] /\ N!Values(x)[0] = 0
         /\ \A n \in 1 .. Len(x) : N!Values(x)[n] = N!Values(x)[n - 1] * Base + x[n]
<1> DEFINE Reads(g, n) == /\ g \in [0 .. n -> Nat] /\ g[0] = 0
                          /\ \A k \in 1 .. n : g[k] = g[k - 1] * Base + x[k]
           Unread == {n \in 0 .. Len(x) : ~\E g : Reads(g, n)}
<1>1. Len(x) \in Nat /\ \A n \in 1 .. Len(x) : x[n] \in 0 .. Base - 1 /\ x[n] \in Nat
  BY DigitsOf
<1>2. Unread = {}
  <2> SUFFICES ASSUME Unread # {} PROVE FALSE
    OBVIOUS
  <2>1. Unread \in SUBSET Nat
    BY <1>1
  <2>2. PICK m \in Unread : \A n \in Unread : m <= n
    BY <2>1, LeastNumber
  <2>3. m # 0
    <3>1. Reads([k \in 0 .. 0 |-> 0], 0)
      BY <1>1
    <3> QED BY <3>1
  <2>4. m \in 1 .. Len(x) /\ m - 1 \in 0 .. Len(x) /\ m - 1 \notin Unread
    <3>1. m \in 0 .. Len(x)
      BY <2>2
    <3>2. m \in 1 .. Len(x) /\ m - 1 \in 0 .. Len(x) /\ ~(m <= m - 1)
      BY <1>1, <2>3, <3>1
    <3> HIDE DEF Unread
    <3> QED BY <2>2, <3>2
  <2>5. PICK g : Reads(g, m - 1)
    BY <2>4
  <2> DEFINE h == [k \in 0 .. m |-> IF k = m THEN g[m - 1] * Base + x[m] ELSE g[k]]
  <2>6. h \in [0 .. m -> Nat]
    <3>1. g[m - 1] \in Nat /\ x[m] \in Nat
      BY <1>1, <2>4, <2>5
    <3>2. g[m - 1] * Base + x[m] \in Nat
      <4> DEFINE v == g[m - 1]
                 d == x[m]
      <4> HIDE DEF v, d
      <4>1. v \in Nat /\ d \in 0 .. Base - 1
        BY <1>1, <2>4, <3>1 DEF v, d
      <4>2. v * Base + d \in Nat
        BY <4>1, BaseIs, Digits
      <4> QED BY <4>2 DEF v, d
    <3>3. \A k \in 0 .. m : k # m => g[k] \in Nat
      BY <2>4, <2>5
    <3> QED BY <3>2, <3>3
  <2>7. \A k \in 1 .. m : h[k] = h[k - 1] * Base + x[k]
    <3> SUFFICES ASSUME NEW k \in 1 .. m PROVE h[k] = h[k - 1] * Base + x[k]
      OBVIOUS
    <3>1. k - 1 \in 0 .. m /\ k - 1 # m /\ k \in 0 .. m
      BY <2>4
    <3>2. h[k - 1] = g[k - 1]
      BY <3>1
    <3>3. CASE k = m
      BY <3>1, <3>2, <3>3
    <3>4. CASE k # m
      <4>1. k \in 1 .. (m - 1)
        BY <2>4, <3>4
      <4> QED BY <2>5, <3>1, <3>2, <3>4, <4>1
    <3> QED BY <3>3, <3>4
  <2>8. Reads(h, m)
    BY <2>4, <2>5, <2>6, <2>7
  <2> HIDE DEF Reads
  <2> QED BY <2>2, <2>8
<1>3. PICK g : Reads(g, Len(x))
  BY <1>1, <1>2
<1> DEFINE Is(h) == h = [n \in 0 .. Len(x) |-> IF n = 0 THEN 0 ELSE h[n - 1] * Base + x[n]]
<1>4. Is(g)
  <2>1. \A n \in 0 .. Len(x) : g[n] = IF n = 0 THEN 0 ELSE g[n - 1] * Base + x[n]
    BY <1>1, <1>3
  <2> QED BY <1>3, <2>1
<1>5. N!Values(x) = CHOOSE h : Is(h)
  BY DEF N!Values
<1> HIDE DEF Is
<1>6. Is(N!Values(x))
  BY <1>4, <1>5
<1>7. /\ N!Values(x)[0] = 0
      /\ \A n \in 1 .. Len(x) : N!Values(x)[n] = N!Values(x)[n - 1] * Base + x[n]
  <2> DEFINE f == N!Values(x)
  <2>1. f = [n \in 0 .. Len(x) |-> IF n = 0 THEN 0 ELSE f[n - 1] * Base + x[n]]
    BY <1>6 DEF Is
  <2> HIDE DEF f
  <2>2. \A n \in 0 .. Len(x) : f[n] = IF n = 0 THEN 0 ELSE f[n - 1] * Base + x[n]
    BY <2>1
  <2>3. f[0] = 0 /\ \A n \in 1 .. Len(x) : f[n] = f[n - 1] * Base + x[n]
    BY <1>1, <2>2
  <2> QED BY <2>3 DEF f
<1>8. \A n \in 0 .. Len(x) : N!Values(x)[n] = g[n]
  <2> DEFINE Differ == {n \in 0 .. Len(x) : N!Values(x)[n] # g[n]}
  <2> SUFFICES ASSUME Differ # {} PROVE FALSE
    OBVIOUS
  <2>1. Differ \in SUBSET Nat
    BY <1>1
  <2>2. PICK m \in Differ : \A n \in Differ : m <= n
    BY <2>1, LeastNumber
  <2>3. m # 0
    BY <1>3, <1>7, <2>2
  <2>4. m \in 1 .. Len(x) /\ m - 1 \in 0 .. Len(x) /\ m - 1 \notin Differ
    BY <1>1, <2>1, <2>2, <2>3
  <2> QED BY <1>3, <1>7, <2>2, <2>4
<1>9. N!Values(x) \in [0 .. Len(x) -> Nat]
  <2>1. DOMAIN N!Values(x) = 0 .. Len(x) /\ N!Values(x) = [n \in 0 .. Len(x) |-> N!Values(x)[n]]
    <3> DEFINE f == N!Values(x)
    <3>1. f = [n \in 0 .. Len(x) |-> IF n = 0 THEN 0 ELSE f[n - 1] * Base + x[n]]
      BY <1>6 DEF Is
    <3> HIDE DEF f
    <3>2. DOMAIN f = 0 .. Len(x) /\ f = [n \in 0 .. Len(x) |-> f[n]]
      BY <3>1
    <3> QED BY <3>2 DEF f
  <2> QED BY <1>3, <1>8, <2>1
<1> QED BY <1>7, <1>9

\* A place of a string holds a digit.
LEMMA DigitAt ==
  ASSUME NEW x \in Strings
  PROVE  /\ Len(x) \in Nat /\ \A n \in 1 .. Len(x) : x[n] \in 0 .. Base - 1
         /\ N!Value(x) = N!Values(x)[Len(x)] /\ N!Value(x) \in Nat
         /\ \A n \in 0 .. Len(x) : N!Values(x)[n] \in Nat
<1>1. Len(x) \in Nat /\ \A n \in 1 .. Len(x) : x[n] \in 0 .. Base - 1
  BY DigitsOf
<1>2. \A n \in 0 .. Len(x) : N!Values(x)[n] \in Nat
  BY ValuesAre
<1>3. Len(x) \in 0 .. Len(x)
  BY <1>1
<1> QED BY <1>1, <1>2, <1>3 DEF N!Value

\* One digit more.
LEMMA NextDigit ==
  ASSUME NEW x \in Strings, NEW y \in Strings, NEW a \in 1 .. Len(x), NEW b \in 1 .. Len(y)
  PROVE  N!Values(x)[a] > N!Values(y)[b] <=>
           \/ N!Values(x)[a - 1] > N!Values(y)[b - 1]
           \/ N!Values(x)[a - 1] = N!Values(y)[b - 1] /\ x[a] > y[b]
<1> DEFINE v == N!Values(x)[a - 1]
           w == N!Values(y)[b - 1]
           d == x[a]
           e == y[b]
<1>1. a - 1 \in 0 .. Len(x) /\ b - 1 \in 0 .. Len(y)
  BY DigitAt
<1>2. v \in Nat /\ w \in Nat /\ d \in 0 .. Base - 1 /\ e \in 0 .. Base - 1
  BY <1>1, DigitAt
<1>3. N!Values(x)[a] = v * Base + d /\ N!Values(y)[b] = w * Base + e
  BY ValuesAre
<1> HIDE DEF v, w, d, e
<1>4. v * Base + d > w * Base + e <=> v > w \/ (v = w /\ d > e)
  BY <1>2, BaseIs, Digits
<1> QED BY <1>3, <1>4 DEF v, w, d, e

\* What is greater stays greater, whatever digits follow.
LEMMA StaysGreater ==
  ASSUME NEW x \in Strings, NEW y \in Strings, NEW a \in 0 .. Len(x), NEW b \in 0 .. Len(y),
         N!Values(x)[a] > N!Values(y)[b], Len(x) - a = Len(y) - b
  PROVE  N!Value(x) > N!Value(y)
<1> DEFINE m == Len(x) - a
           Not == {n \in 0 .. m : ~(N!Values(x)[a + n] > N!Values(y)[b + n])}
<1>1. /\ Len(x) \in Nat /\ Len(y) \in Nat /\ m \in Nat
      /\ a \in Nat /\ b \in Nat /\ a + m = Len(x) /\ b + m = Len(y)
  BY DigitAt
<1>2. Not = {}
  <2> SUFFICES ASSUME Not # {} PROVE FALSE
    OBVIOUS
  <2>1. Not \in SUBSET Nat
    BY <1>1
  <2>2. PICK n \in Not : \A k \in Not : n <= k
    BY <2>1, LeastNumber
  <2>3. n # 0
    BY <1>1, <2>2
  <2>4. n - 1 \in 0 .. m /\ ~(n <= n - 1) /\ n \in 1 .. m
    BY <1>1, <2>2, <2>3
  <2>5. N!Values(x)[a + (n - 1)] > N!Values(y)[b + (n - 1)]
    BY <2>2, <2>4
  <2>6. /\ a + n \in 1 .. Len(x) /\ b + n \in 1 .. Len(y)
        /\ a + n - 1 = a + (n - 1) /\ b + n - 1 = b + (n - 1)
    BY <1>1, <2>4
  <2>7. N!Values(x)[a + n] > N!Values(y)[b + n]
    BY <2>5, <2>6, NextDigit
  <2> QED BY <2>2, <2>7
<1>3. m \in 0 .. m
  BY <1>1
<1>4. N!Values(x)[a + m] > N!Values(y)[b + m]
  BY <1>2, <1>3
<1> QED BY <1>1, <1>4, DigitAt

\* What is equal stays equal while the digits are the same.
LEMMA StaysEqual ==
  ASSUME NEW x \in Strings, NEW y \in Strings, NEW a \in 0 .. Len(x), NEW b \in 0 .. Len(y),
         NEW m \in Nat, a + m <= Len(x), b + m <= Len(y),
         N!Values(x)[a] = N!Values(y)[b], \A k \in 1 .. m : x[a + k] = y[b + k]
  PROVE  N!Values(x)[a + m] = N!Values(y)[b + m]
<1> DEFINE Not == {n \in 0 .. m : N!Values(x)[a + n] # N!Values(y)[b + n]}
<1>1. /\ Len(x) \in Nat /\ Len(y) \in Nat /\ a \in Nat /\ b \in Nat
  BY DigitAt
<1>2. Not = {}
  <2> SUFFICES ASSUME Not # {} PROVE FALSE
    OBVIOUS
  <2>1. Not \in SUBSET Nat
    OBVIOUS
  <2>2. PICK n \in Not : \A k \in Not : n <= k
    BY <2>1, LeastNumber
  <2>3. n # 0
    BY <1>1, <2>2
  <2>4. n - 1 \in 0 .. m /\ ~(n <= n - 1) /\ n \in 1 .. m
    BY <2>2, <2>3
  <2>5. N!Values(x)[a + (n - 1)] = N!Values(y)[b + (n - 1)]
    BY <2>2, <2>4
  <2>6. /\ a + n \in 1 .. Len(x) /\ b + n \in 1 .. Len(y)
        /\ a + n - 1 = a + (n - 1) /\ b + n - 1 = b + (n - 1)
    BY <1>1, <2>4
  <2>7. /\ N!Values(x)[a + n] = N!Values(x)[a + n - 1] * Base + x[a + n]
        /\ N!Values(y)[b + n] = N!Values(y)[b + n - 1] * Base + y[b + n]
    BY <2>6, ValuesAre
  <2>8. N!Values(x)[a + n] = N!Values(y)[b + n]
    BY <2>4, <2>5, <2>6, <2>7
  <2> QED BY <2>2, <2>8
<1>3. m \in 0 .. m
  OBVIOUS
<1> QED BY <1>2, <1>3

\* Leading zeros do not count, and are gone.
LEMMA Trimmed ==
  ASSUME NEW x \in Strings
  PROVE  /\ N!TrimLeft(x) \in Strings /\ N!Value(N!TrimLeft(x)) = N!Value(x)
         /\ N!TrimLeft(x) # <<>> => N!TrimLeft(x)[1] # 0
         /\ x # <<>> /\ x[1] # 0 => N!TrimLeft(x) = x
         /\ Len(N!TrimLeft(x)) <= Len(x)
<1> DEFINE zeros == {k \in 0 .. Len(x) : \A i \in 1 .. k : x[i] = 0}
           z == N!Max(zeros)
           t == N!TrimLeft(x)
<1>1. Len(x) \in Nat /\ 0 \in zeros
  BY DigitAt
<1>2. z \in zeros /\ \A k \in zeros : k <= z
  <2> HIDE DEF z
  <2>1. zeros \in SUBSET (0 .. Len(x)) /\ zeros # {}
    BY <1>1
  <2> QED BY <1>1, <2>1, Extremes DEF z
<1> HIDE DEF z
<1>3. t = SubSeq(x, z + 1, Len(x))
  BY DEF N!TrimLeft, z
<1>4. z \in 0 .. Len(x) /\ z \in Nat /\ \A i \in 1 .. z : x[i] = 0
  BY <1>1, <1>2
<1>5. t \in Strings /\ Len(t) = Len(x) - z /\ \A k \in 1 .. Len(t) : t[k] = x[z + k]
  <2>1. x \in Seq(N!Digit) /\ z + 1 \in 1 .. Len(x) + 1 /\ Len(x) \in 0 .. Len(x)
    BY <1>1, <1>4 DEF Strings
  <2> QED BY <1>1, <1>3, <1>4, <2>1 DEF Strings
<1> HIDE DEF t
<1>6. t # <<>> => t[1] # 0
  <2> SUFFICES ASSUME t # <<>>, t[1] = 0 PROVE FALSE
    OBVIOUS
  <2>1. Len(t) # 0
    BY <1>5 DEF Strings
  <2>2. 1 \in 1 .. Len(t) /\ z + 1 \in 0 .. Len(x)
    BY <1>1, <1>4, <1>5, <2>1
  <2>3. x[z + 1] = 0
    BY <1>5, <2>2
  <2>4. z + 1 \in zeros
    BY <1>4, <2>2, <2>3
  <2> QED BY <1>2, <1>4, <2>4
<1>7. N!Values(x)[z] = 0
  <2> DEFINE Not == {k \in 0 .. z : N!Values(x)[k] # 0}
  <2> SUFFICES ASSUME Not # {} PROVE FALSE
    BY <1>4
  <2>1. Not \in SUBSET Nat
    BY <1>4
  <2>2. PICK n \in Not : \A k \in Not : n <= k
    BY <2>1, LeastNumber
  <2>3. n # 0
    BY <2>2, ValuesAre
  <2>4. n - 1 \in 0 .. z /\ ~(n <= n - 1) /\ n \in 1 .. z /\ n \in 1 .. Len(x)
    BY <1>1, <1>4, <2>2, <2>3
  <2>5. N!Values(x)[n - 1] = 0
    BY <2>2, <2>4
  <2>6. N!Values(x)[n] = 0 * Base + 0
    BY <1>4, <2>4, <2>5, ValuesAre
  <2> QED BY <2>2, <2>6, BaseIs
<1>8. N!Value(t) = N!Value(x)
  <2>1. /\ 0 \in 0 .. Len(t) /\ Len(t) \in Nat /\ z + Len(t) = Len(x) /\ 0 + Len(t) = Len(t)
        /\ \A k \in 1 .. Len(t) : 0 + k = k
    BY <1>1, <1>4, <1>5
  <2>2. N!Values(t)[0] = 0
    BY <1>5, ValuesAre
  <2>3. N!Values(x)[z + Len(t)] = N!Values(t)[0 + Len(t)]
    <3>1. /\ z + Len(t) <= Len(x) /\ 0 + Len(t) <= Len(t) /\ N!Values(x)[z] = N!Values(t)[0]
          /\ \A k \in 1 .. Len(t) : x[z + k] = t[0 + k]
      BY <1>1, <1>5, <1>7, <2>1, <2>2
    <3> QED BY <1>4, <1>5, <2>1, <3>1, StaysEqual
  <2> QED BY <1>5, <2>1, <2>3, DigitAt
<1>9. x # <<>> /\ x[1] # 0 => t = x
  <2> SUFFICES ASSUME x # <<>>, x[1] # 0 PROVE t = x
    OBVIOUS
  <2>1. z = 0
    <3>1. z # 0 => 1 \in 1 .. z
      BY <1>4
    <3> QED BY <1>4, <3>1
  <2> QED BY <1>1, <1>5, <2>1 DEF Strings
<1> QED BY <1>1, <1>4, <1>5, <1>6, <1>8, <1>9 DEF t

\* A number with more digits, of which the first is not 0, is greater.
LEMMA LongerIsGreater ==
  ASSUME NEW x \in Strings, NEW y \in Strings, x[1] # 0, Len(x) > Len(y)
  PROVE  N!Value(x) > N!Value(y)
<1> DEFINE a == Len(x) - Len(y)
           Not == {n \in 1 .. Len(x) : ~(N!Values(x)[n] > 0)}
<1>1. Len(x) \in Nat /\ Len(y) \in Nat /\ a \in 1 .. Len(x) /\ Len(x) - a = Len(y) - 0
  BY DigitAt
<1>2. N!Values(x)[0] = 0 /\ N!Values(y)[0] = 0
  BY ValuesAre
<1>3. Not = {}
  <2> SUFFICES ASSUME Not # {} PROVE FALSE
    OBVIOUS
  <2>1. Not \in SUBSET Nat
    BY <1>1
  <2>2. PICK n \in Not : \A k \in Not : n <= k
    BY <2>1, LeastNumber
  <2>3. n \in 1 .. Len(x) /\ x[n] \in 0 .. Base - 1 /\ 0 \in 0 .. Base - 1
    BY <2>2, BaseIs, DigitAt
  <2> DEFINE v == N!Values(x)[n - 1]
             d == x[n]
  <2>4. v \in Nat /\ N!Values(x)[n] = v * Base + d
    BY <1>1, <2>3, DigitAt, ValuesAre
  <2>5. v > 0 \/ (v = 0 /\ d > 0)
    <3>1. CASE n = 1
      BY <1>1, <1>2, <2>3, <3>1, BaseIs
    <3>2. CASE n # 1
      <4>1. n - 1 \in 1 .. Len(x) /\ ~(n <= n - 1)
        BY <1>1, <2>3, <3>2
      <4> QED BY <2>2, <4>1
    <3> QED BY <3>1, <3>2
  <2> HIDE DEF v
  <2>6. v * Base + d > 0 * Base + 0
    <3> HIDE DEF d
    <3> QED BY <2>3, <2>4, <2>5, BaseIs, Digits DEF d
  <2>7. 0 * Base + 0 = 0
    BY BaseIs
  <2> QED BY <2>2, <2>4, <2>6, <2>7
<1>4. N!Values(x)[a] > N!Values(y)[0]
  BY <1>1, <1>2, <1>3
<1>5. a \in 0 .. Len(x) /\ 0 \in 0 .. Len(y)
  BY <1>1
<1> HIDE DEF a
<1> QED BY <1>1, <1>4, <1>5, StaysGreater

\* Strings of the same length are in the order of the first digit that differs.
LEMMA ComparesDigits ==
  ASSUME NEW x \in Strings, NEW y \in Strings, Len(x) = Len(y)
  PROVE  N!Compare(x, y) = N!Sign(N!Value(x) - N!Value(y))
<1> DEFINE n == Len(x)
           differ == {i \in 1 .. N!Max({Len(x), Len(y)}) : i > Len(x) \/ i > Len(y) \/ x[i] # y[i]}
           i == N!FirstDifference(x, y)
<1>1. n \in Nat /\ N!Value(x) \in Nat /\ N!Value(y) \in Nat
  BY DigitAt
<1>2. N!Max({Len(x), Len(y)}) = n
  <2>1. {Len(x), Len(y)} \in SUBSET (0 .. n) /\ {Len(x), Len(y)} # {}
    BY <1>1
  <2> QED BY <1>1, <2>1, Extremes
<1>3. differ = {k \in 1 .. n : x[k] # y[k]}
  BY <1>1, <1>2
<1>4. i = IF differ = {} THEN 0 ELSE N!Min(differ)
  BY DEF N!FirstDifference
<1> HIDE DEF i, differ
<1>5. N!Values(x)[0] = N!Values(y)[0] /\ 0 \in 0 .. Len(x) /\ 0 \in 0 .. Len(y)
  BY <1>1, ValuesAre
<1>6. ASSUME NEW m \in 0 .. n, \A k \in 1 .. m : x[k] = y[k]
      PROVE  N!Values(x)[m] = N!Values(y)[m]
  <2>1. /\ m \in Nat /\ 0 + m = m /\ 0 + m <= Len(x) /\ 0 + m <= Len(y)
        /\ \A k \in 1 .. m : 0 + k = k
    BY <1>1
  <2>2. \A k \in 1 .. m : x[0 + k] = y[0 + k]
    BY <1>6, <2>1
  <2> HIDE DEF n
  <2>3. N!Values(x)[0 + m] = N!Values(y)[0 + m]
    BY <1>5, <2>1, <2>2, StaysEqual
  <2> QED BY <2>1, <2>3
<1>7. CASE differ = {}
  <2>1. n \in 0 .. n /\ \A k \in 1 .. n : x[k] = y[k]
    BY <1>1, <1>3, <1>7
  <2>2. N!Values(x)[n] = N!Values(y)[n]
    BY <1>6, <2>1
  <2>3. N!Value(x) = N!Value(y) /\ i = 0
    BY <1>4, <1>7, <2>2, DigitAt
  <2> QED BY <1>1, <2>3 DEF N!Compare, N!Sign, i
<1>8. CASE differ # {}
  <2>1. i \in differ /\ \A k \in differ : i <= k
    <3>1. differ \in SUBSET (0 .. n)
      BY <1>1, <1>3
    <3> QED BY <1>1, <1>4, <1>8, <3>1, Extremes
  <2>2. i \in 1 .. n /\ i # 0 /\ ~(i > Len(x)) /\ ~(i > Len(y)) /\ x[i] # y[i] /\ i - 1 \in 0 .. n
    BY <1>1, <1>3, <2>1
  <2>3. \A k \in 1 .. (i - 1) : x[k] = y[k]
    <3>1. \A k \in 1 .. (i - 1) : k \in 1 .. n /\ ~(i <= k)
      BY <1>1, <2>2
    <3> QED BY <1>3, <2>1, <3>1
  <2>4. N!Values(x)[i - 1] = N!Values(y)[i - 1]
    BY <1>6, <2>2, <2>3
  <2>5. x[i] \in Nat /\ y[i] \in Nat /\ (x[i] > y[i] \/ y[i] > x[i])
    <3>1. x[i] \in 0 .. Base - 1 /\ y[i] \in 0 .. Base - 1
      BY <2>2, DigitAt
    <3> QED BY <2>2, <3>1, BaseIs
  <2>6. N!Compare(x, y) = N!Sign(x[i] - y[i])
    BY <1>1, <2>2 DEF N!Compare, i
  <2>7. i \in 0 .. Len(x) /\ i \in 0 .. Len(y) /\ i \in 1 .. Len(y) /\ Len(x) - i = Len(y) - i
    BY <1>1, <2>2
  <2>8. CASE x[i] > y[i]
    <3>1. N!Values(x)[i] > N!Values(y)[i]
      BY <2>2, <2>4, <2>7, <2>8, NextDigit
    <3>2. N!Value(x) > N!Value(y)
      BY <2>7, <3>1, StaysGreater
    <3> QED BY <1>1, <2>5, <2>6, <2>8, <3>2 DEF N!Sign
  <2>9. CASE y[i] > x[i]
    <3>1. N!Values(y)[i] > N!Values(x)[i]
      BY <2>2, <2>4, <2>7, <2>9, NextDigit
    <3>2. N!Value(y) > N!Value(x)
      BY <2>7, <3>1, StaysGreater
    <3> QED BY <1>1, <2>5, <2>6, <2>9, <3>2 DEF N!Sign
  <2> QED BY <2>5, <2>8, <2>9
<1> QED BY <1>7, <1>8

\* Trimmed components are compared by length, then digit by digit, which is
\* the order of their values.
LEMMA ComparesComponents ==
  ASSUME NEW x \in Strings, NEW y \in Strings, x # <<>> => x[1] # 0, y # <<>> => y[1] # 0
  PROVE  N!CompareComponents(x, y) = N!Sign(N!Value(x) - N!Value(y))
<1>1. Len(x) \in Nat /\ Len(y) \in Nat /\ N!Value(x) \in Nat /\ N!Value(y) \in Nat
  BY DigitAt
<1>2. CASE Len(x) = Len(y)
  BY <1>2, ComparesDigits DEF N!CompareComponents
<1>3. CASE Len(x) > Len(y)
  <2>1. x # <<>>
    BY <1>1, <1>3
  <2>2. N!Value(x) > N!Value(y)
    BY <1>3, <2>1, LongerIsGreater
  <2> QED BY <1>1, <1>3, <2>2 DEF N!CompareComponents, N!Sign
<1>4. CASE Len(y) > Len(x)
  <2>1. y # <<>>
    BY <1>1, <1>4
  <2>2. N!Value(y) > N!Value(x)
    BY <1>4, <2>1, LongerIsGreater
  <2> QED BY <1>1, <1>4, <2>2 DEF N!CompareComponents, N!Sign
<1> QED BY <1>1, <1>2, <1>3, <1>4

\* Versions are sequences of strings.
LEMMA Components ==
  ASSUME NEW v \in N!Versions
  PROVE  /\ v \in Seq(Strings) /\ Len(v) \in 1 .. MaxParts
         /\ \A k \in Nat \ {0} :
              /\ N!Component(v, k) \in Strings
              /\ N!Component(v, k) # <<>> => N!Component(v, k)[1] # 0
              /\ N!Value(N!Component(v, k)) = N!ValueAt(v, k) /\ N!ValueAt(v, k) \in Nat
              /\ k > Len(v) => N!ValueAt(v, k) = 0
<1>1. PICK n \in 1 .. MaxParts : v \in [1 .. n -> N!Part]
  BY DEF N!Versions
<1>2. N!Part \subseteq Strings
  BY DEF N!Part, Strings
<1>3. v \in Seq(Strings) /\ Len(v) = n /\ n \in Nat /\ \A k \in 1 .. n : v[k] \in Strings
  BY <1>1, <1>2, BaseIs
<1>4. <<>> \in Strings /\ N!Value(<<>>) = 0
  <2>1. <<>> \in Strings /\ Len(<<>>) = 0
    BY DEF Strings
  <2> QED BY <2>1, DigitAt, ValuesAre
<1>5. ASSUME NEW k \in Nat \ {0}
      PROVE  /\ N!Component(v, k) \in Strings
             /\ N!Component(v, k) # <<>> => N!Component(v, k)[1] # 0
             /\ N!Value(N!Component(v, k)) = N!ValueAt(v, k) /\ N!ValueAt(v, k) \in Nat
             /\ k > Len(v) => N!ValueAt(v, k) = 0
  <2>1. CASE k <= Len(v)
    <3>1. v[k] \in Strings /\ ~(k > Len(v))
      BY <1>3, <2>1
    <3>2. N!Component(v, k) = N!TrimLeft(v[k]) /\ N!ValueAt(v, k) = N!Value(v[k])
      BY <2>1 DEF N!Component, N!ValueAt
    <3> QED BY <3>1, <3>2, Trimmed, DigitAt
  <2>2. CASE ~(k <= Len(v))
    <3>1. N!Component(v, k) = <<>> /\ N!ValueAt(v, k) = 0
      BY <2>2 DEF N!Component, N!ValueAt
    <3> QED BY <1>4, <3>1
  <2> QED BY <2>1, <2>2
<1> QED BY <1>1, <1>3, <1>5

\* The program's comparison is that of the values.
LEMMA ComparesVersions ==
  ASSUME NEW a \in N!Versions, NEW b \in N!Versions
  PROVE  N!CompareNumericVersions(a, b) = N!Reference(a, b)
<1> DEFINE top == N!Max({Len(a), Len(b)})
           results == [k \in 1 .. top |-> N!CompareComponents(N!Component(a, k), N!Component(b, k))]
           differ == {k \in 1 .. MaxParts : N!ValueAt(a, k) # N!ValueAt(b, k)}
<1>1. top \in 1 .. MaxParts /\ Len(a) <= top /\ Len(b) <= top /\ Len(a) \in Nat /\ Len(b) \in Nat
  <2>1. {Len(a), Len(b)} \in SUBSET (0 .. MaxParts) /\ {Len(a), Len(b)} # {}
    BY BaseIs, Components
  <2>2. top \in {Len(a), Len(b)} /\ \A n \in {Len(a), Len(b)} : n <= top
    BY <2>1, BaseIs, Extremes
  <2> QED BY <2>2, Components
<1> HIDE DEF top
<1>2. ASSUME NEW k \in 1 .. top
      PROVE  /\ results[k] = N!Sign(N!ValueAt(a, k) - N!ValueAt(b, k))
             /\ results[k] # 0 <=> N!ValueAt(a, k) # N!ValueAt(b, k)
  <2>1. k \in Nat \ {0}
    BY <1>1
  <2>2. results[k] = N!Sign(N!ValueAt(a, k) - N!ValueAt(b, k))
    BY <2>1, Components, ComparesComponents
  <2>3. N!ValueAt(a, k) \in Nat /\ N!ValueAt(b, k) \in Nat
    BY <2>1, Components
  <2> HIDE DEF results
  <2> QED BY <2>2, <2>3 DEF N!Sign
<1>3. {k \in DOMAIN results : results[k] # 0} = differ
  <2>1. ASSUME NEW k \in 1 .. MaxParts, k \notin 1 .. top
        PROVE  N!ValueAt(a, k) = N!ValueAt(b, k)
    <3>1. k \in Nat \ {0} /\ k > Len(a) /\ k > Len(b)
      BY <1>1, <2>1, BaseIs
    <3> QED BY <3>1, Components
  <2>2. 1 .. top \subseteq 1 .. MaxParts /\ DOMAIN results = 1 .. top
    BY <1>1, BaseIs
  <2> HIDE DEF results
  <2> QED BY <1>2, <2>1, <2>2
<1>4. N!CompareNumericVersions(a, b) = IF differ = {} THEN 0 ELSE results[N!Min(differ)]
  <2> DEFINE found == {k \in DOMAIN results : results[k] # 0}
  <2>1. N!CompareNumericVersions(a, b) = IF found = {} THEN 0 ELSE results[N!Min(found)]
    BY DEF N!CompareNumericVersions, top
  <2> HIDE DEF results, differ, found
  <2>2. found = differ
    BY <1>3 DEF found
  <2> QED BY <2>1, <2>2
<1>5. CASE differ = {}
  BY <1>4, <1>5 DEF N!Reference
<1>6. CASE differ # {}
  <2>1. N!Min(differ) \in differ
    <3>1. differ \in SUBSET (0 .. MaxParts) /\ MaxParts \in Nat
      BY BaseIs
    <3> HIDE DEF differ
    <3> QED BY <1>6, <3>1, Extremes
  <2>2. N!Min(differ) \in 1 .. top
    BY <1>3, <2>1
  <2>3. results[N!Min(differ)] = N!Sign(N!ValueAt(a, N!Min(differ)) - N!ValueAt(b, N!Min(differ)))
    BY <1>2, <2>2
  <2> QED BY <1>4, <1>6, <2>3 DEF N!Reference
<1> QED BY <1>5, <1>6

\* The other way round it answers the opposite.
LEMMA ReferenceOpposite ==
  ASSUME NEW a \in N!Versions, NEW b \in N!Versions
  PROVE  N!Reference(b, a) = -N!Reference(a, b)
<1> DEFINE differ == {k \in 1 .. MaxParts : N!ValueAt(a, k) # N!ValueAt(b, k)}
<1>1. N!Reference(a, b) =
        IF differ = {} THEN 0
        ELSE N!Sign(N!ValueAt(a, N!Min(differ)) - N!ValueAt(b, N!Min(differ)))
  BY DEF N!Reference
<1>2. N!Reference(b, a) =
        IF differ = {} THEN 0
        ELSE N!Sign(N!ValueAt(b, N!Min(differ)) - N!ValueAt(a, N!Min(differ)))
  <2> DEFINE other == {k \in 1 .. MaxParts : N!ValueAt(b, k) # N!ValueAt(a, k)}
  <2>1. other = differ
    OBVIOUS
  <2>2. N!Reference(b, a) =
          IF other = {} THEN 0
          ELSE N!Sign(N!ValueAt(b, N!Min(other)) - N!ValueAt(a, N!Min(other)))
    BY DEF N!Reference
  <2> HIDE DEF other, differ
  <2> QED BY <2>1, <2>2
<1>3. CASE differ = {}
  <2>1. N!Reference(a, b) = 0 /\ N!Reference(b, a) = 0
    BY <1>1, <1>2, <1>3
  <2>2. ASSUME NEW n \in Int, NEW m \in Int, n + m = 0 PROVE n = -m
    BY <2>2
  <2>3. /\ N!Reference(a, b) \in Int /\ N!Reference(b, a) \in Int
        /\ N!Reference(b, a) + N!Reference(a, b) = 0
    BY <2>1
  <2> QED BY <2>2, <2>3
<1>4. CASE differ # {}
  <2> DEFINE k == N!Min(differ)
  <2>1. k \in 1 .. MaxParts
    <3>1. differ \in SUBSET (0 .. MaxParts) /\ MaxParts \in Nat
      BY BaseIs
    <3>2. N!Min(differ) \in differ
      <4> HIDE DEF differ
      <4> QED BY <1>4, <3>1, Extremes
    <3> QED BY <3>2
  <2>2. k \in Nat \ {0}
    BY <2>1, BaseIs
  <2>3. N!ValueAt(a, k) \in Nat /\ N!ValueAt(b, k) \in Nat
    BY <2>2, Components
  <2>4. /\ N!Reference(a, b) = N!Sign(N!ValueAt(a, k) - N!ValueAt(b, k))
        /\ N!Reference(b, a) = N!Sign(N!ValueAt(b, k) - N!ValueAt(a, k))
    BY <1>1, <1>2, <1>4
  <2> HIDE DEF k
  <2> QED BY <2>3, <2>4 DEF N!Sign
<1> QED BY <1>3, <1>4

\* A version of three components becomes valid and keeps its value, and a
\* valid one is left alone.
LEMMA Normalizes ==
  ASSUME NEW v \in N!Versions
  PROVE  /\ Len(v) = 3 /\ N!WellFormed(v) =>
              /\ N!IsValid(N!NormalizeSemVerCore(v)) /\ N!Reference(N!NormalizeSemVerCore(v), v) = 0
         /\ N!IsValid(v) => N!NormalizeSemVerCore(v) = v
<1> DEFINE norm == N!NormalizeSemVerCore(v)
           core(k) == IF N!TrimLeft(v[k]) = <<>> THEN <<0>> ELSE N!TrimLeft(v[k])
<1> SUFFICES ASSUME Len(v) = 3, N!WellFormed(v)
             PROVE  N!IsValid(norm) /\ N!Reference(norm, v) = 0 /\ (N!IsValid(v) => norm = v)
  BY DEF N!IsValid
<1>1. v \in Seq(Strings) /\ DOMAIN v = 1 .. 3 /\ \A k \in 1 .. 3 : v[k] \in Strings /\ v[k] # <<>>
  <2>1. v \in Seq(Strings)
    BY Components
  <2>2. DOMAIN v = 1 .. 3 /\ \A k \in 1 .. 3 : v[k] \in Strings
    BY <2>1
  <2> QED BY <2>1, <2>2 DEF N!WellFormed
<1>2. norm = [k \in 1 .. 3 |-> core(k)]
  BY <1>1 DEF N!NormalizeSemVerCore
<1>3. <<0>> \in Strings /\ N!Value(<<0>>) = 0 /\ Len(<<0>>) = 1
  <2>1. 0 \in N!Digit
    BY BaseIs DEF N!Digit
  <2>2. <<0>> \in Strings /\ Len(<<0>>) = 1 /\ <<0>>[1] = 0
    BY <2>1 DEF Strings
  <2>3. ASSUME NEW s \in Strings, Len(s) = 1, s[1] = 0 PROVE N!Value(s) = 0
    <3>1. N!Values(s)[0] = 0 /\ 1 \in 1 .. Len(s) /\ N!Value(s) = N!Values(s)[1] /\ 1 - 1 = 0
      BY <2>3, ValuesAre, DigitAt
    <3>2. N!Values(s)[1] = N!Values(s)[1 - 1] * Base + s[1]
      BY <3>1, ValuesAre
    <3>3. N!Values(s)[1] = 0 * Base + 0
      BY <2>3, <3>1, <3>2
    <3> QED BY <3>1, <3>3, BaseIs
  <2> QED BY <2>2, <2>3
<1>4. <<>> \in Strings /\ N!Value(<<>>) = 0
  <2>1. <<>> \in Strings /\ Len(<<>>) = 0
    BY DEF Strings
  <2> QED BY <2>1, DigitAt, ValuesAre
<1>5. ASSUME NEW k \in 1 .. 3
      PROVE  /\ core(k) \in Strings /\ core(k) # <<>> /\ (Len(core(k)) > 1 => core(k)[1] # 0)
             /\ N!Value(core(k)) = N!Value(v[k])
             /\ (Len(v[k]) > 1 => v[k][1] # 0) => core(k) = v[k]
  <2> DEFINE x == v[k]
             t == N!TrimLeft(x)
  <2>1. /\ x \in Strings /\ x # <<>> /\ t \in Strings /\ N!Value(t) = N!Value(x)
        /\ (t # <<>> => t[1] # 0) /\ (x[1] # 0 => t = x) /\ Len(t) <= Len(x)
        /\ Len(x) \in Nat /\ Len(t) \in Nat
    BY <1>1, Trimmed, DigitAt
  <2>2. Len(x) # 0
    BY <2>1 DEF Strings
  <2> HIDE DEF x, t
  <2>3. core(k) = IF t = <<>> THEN <<0>> ELSE t
    BY DEF x, t
  <2>4. core(k) \in Strings /\ core(k) # <<>> /\ N!Value(core(k)) = N!Value(x)
    BY <1>3, <1>4, <2>1, <2>3
  <2>5. Len(core(k)) > 1 => core(k)[1] # 0
    <3>1. CASE t = <<>>
      <4>1. core(k) = <<0>> /\ Len(<<0>>) = 1
        BY <1>3, <2>3, <3>1
      <4>2. Len(core(k)) = 1
        BY <4>1
      <4> HIDE DEF core
      <4> QED BY <4>2
    <3>2. CASE t # <<>>
      BY <2>1, <2>3, <3>2
    <3> QED BY <3>1, <3>2
  <2>6. ASSUME Len(x) > 1 => x[1] # 0 PROVE core(k) = x
    <3>1. CASE x[1] # 0
      BY <2>1, <2>3, <3>1
    <3>2. CASE x[1] = 0
      <4>1. Len(x) = 1 /\ x = <<0>>
        <5>1. Len(x) = 1
          BY <2>1, <2>2, <2>6, <3>2
        <5>2. x \in Seq(N!Digit)
          BY <2>1 DEF Strings
        <5> QED BY <3>2, <5>1, <5>2
      <4>2. t = <<>>
        <5> SUFFICES ASSUME t # <<>> PROVE FALSE
          OBVIOUS
        <5>1. Len(t) = 1 /\ t[1] # 0 /\ t[1] \in 0 .. Base - 1
          BY <2>1, <4>1, DigitAt DEF Strings
        <5>2. N!Value(t) = 0
          BY <1>3, <2>1, <4>1
        <5>3. N!Values(t)[1] = N!Values(t)[1 - 1] * Base + t[1] /\ N!Values(t)[0] = 0 /\ N!Value(t) = N!Values(t)[1]
          BY <2>1, <5>1, ValuesAre, DigitAt
        <5>4. N!Value(t) = 0 * Base + t[1]
          BY <5>3
        <5>5. 0 * Base = 0
          BY BaseIs
        <5> QED BY <5>1, <5>2, <5>4, <5>5, BaseIs
      <4> QED BY <2>3, <4>1, <4>2
    <3> QED BY <3>1, <3>2
  <2> QED BY <2>1, <2>4, <2>5, <2>6 DEF x
<1> HIDE DEF core, norm
<1>6. Len(norm) = 3 /\ DOMAIN norm = 1 .. 3 /\ norm \in Seq(Strings) /\ \A k \in 1 .. 3 : norm[k] = core(k)
  <2>1. DOMAIN norm = 1 .. 3 /\ \A k \in 1 .. 3 : norm[k] = core(k)
    BY <1>2
  <2>2. norm \in [1 .. 3 -> Strings]
    BY <1>2, <1>5
  <2>3. ASSUME NEW n \in Nat, norm \in [1 .. n -> Strings]
        PROVE  Len(norm) = n /\ norm \in Seq(Strings)
    BY <2>3
  <2>4. Len(norm) = 3 /\ norm \in Seq(Strings)
    BY <2>2, <2>3
  <2> QED BY <2>1, <2>4
<1>7. N!IsValid(norm)
  BY <1>5, <1>6 DEF N!IsValid, N!WellFormed
<1>8. N!Reference(norm, v) = 0
  <2>1. \A k \in 1 .. MaxParts : N!ValueAt(norm, k) = N!ValueAt(v, k)
    <3> TAKE k \in 1 .. MaxParts
    <3>1. k <= 3 => k \in 1 .. 3
      BY BaseIs
    <3> QED BY <1>5, <1>6, <3>1 DEF N!ValueAt
  <2> QED BY <2>1 DEF N!Reference
<1>9. N!IsValid(v) => norm = v
  <2> SUFFICES ASSUME N!IsValid(v) PROVE norm = v
    OBVIOUS
  <2>1. \A k \in 1 .. 3 : Len(v[k]) > 1 => v[k][1] # 0
    BY <1>1 DEF N!IsValid
  <2>2. \A k \in 1 .. 3 : norm[k] = v[k]
    BY <1>5, <1>6, <2>1
  <2> QED BY <1>1, <1>2, <1>6, <2>2
<1> QED BY <1>7, <1>8, <1>9

\* What is compared are versions.
LEMMA VersionsCompared == PartsSpec => [](part = "numeric" => leftVersion \in N!Versions /\ rightVersion \in N!Versions)
<1> DEFINE Inv == part = "numeric" => leftVersion \in N!Versions /\ rightVersion \in N!Versions
<1>1. PartsInit => Inv
  <2>1. <<<<>>>> \in N!Versions
    <3>1. <<>> \in N!Part
      <4>1. <<>> \in [1 .. 0 -> N!Digit] /\ 0 \in 0 .. MaxDigits
        BY BaseIs
      <4> QED BY <4>1 DEF N!Part
    <3>2. <<<<>>>> \in [1 .. 1 -> N!Part] /\ 1 \in 1 .. MaxParts
      BY <3>1, BaseIs
    <3> QED BY <3>2 DEF N!Versions
  <2> QED BY <2>1 DEF PartsInit, N!Init
<1>2. Inv /\ [PartsNext]_<<part, vars, lookup, pair, app>> => Inv'
  BY DEF PartsNext, N!Next, pair
<1> QED BY <1>1, <1>2, PTL DEF PartsSpec

\* For digits of any base and versions of any length: components count with
\* their full values, whatever their leading zeros and their number; what is
\* normalised is valid and keeps its value; and a source is refused only when
\* the application version cannot grow.
THEOREM VersionsAreCorrect == PartsSpec => []VersionsCorrect
<1> DEFINE Inv == part = "numeric" => leftVersion \in N!Versions /\ rightVersion \in N!Versions
           Rejects == part = "version" => A!RefusedOnlyAtTheEnd
<1>1. Inv /\ Rejects => VersionsCorrect
  <2> SUFFICES ASSUME Inv, part = "numeric" PROVE N!ComparesValues /\ N!NormalizesToValid
    BY DEF VersionsCorrect
  <2>1. N!ComparesValues
    BY ComparesVersions, ReferenceOpposite DEF N!ComparesValues
  <2>2. N!NormalizesToValid
    BY Normalizes DEF N!NormalizesToValid
  <2> QED BY <2>1, <2>2
<1>2. PartsSpec => []Rejects
  BY RefusedAtTheEnd
<1> QED BY <1>1, <1>2, VersionsCompared, PTL

=============================================================================
