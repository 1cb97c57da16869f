----------------------------- MODULE MCSettings -----------------------------
(* Families of configurations for Settings.                                 *)
EXTENDS Settings

GitSource  == [kind |-> "git", at |-> "url", auth |-> FALSE, strategy |-> "semver-tag", sort |-> "",
               channel |-> "", filter |-> "", regex |-> "", template |-> ""]
OciSource  == [GitSource EXCEPT !.kind = "oci", !.at = "image"]
Branch     == [GitSource EXCEPT !.strategy = "branch-head"]
Service    == [target |-> "web", source |-> "good", channel |-> "", sort |-> "", filter |-> "",
               regex |-> "", mode |-> "", template |-> FALSE, match |-> FALSE,
               copy |-> "", staging |-> ""]
Unprepared == [mode |-> "images", command |-> FALSE, dockerfile |-> FALSE, output |-> "",
               context |-> ""]

Pipelines(sources, notes, preparations, images, official) ==
  [version: {2}, source: sources, notes: notes, prepare: preparations, images: images,
   driver: {0}, bump: {FALSE}, downgrade: {FALSE}, official: official]

\* Every selection of a source.
SelectedSources ==
  [kind: {"git", "oci", "svn"}, at: {"url", "image"}, auth: BOOLEAN,
   strategy: {"", "semver-tag", "branch-head", "latest"},
   sort: {"", "semver", "numeric", "created", "updated"},
   channel: {"", "stable", "beta", "date", "nightly", "custom", "other"},
   filter: {"", "good"}, regex: {"", "good"}, template: {"", "good"}]
MCSources == Pipelines(SelectedSources, {NoNotes}, {Unprepared}, {<<Service>>}, {TRUE})

\* Every kind of notes, for a tag and for a branch.
MCNotes ==
  Pipelines({GitSource, Branch, OciSource},
            [mode: {"", "git-commits", "github-release", "command", "other"},
             command: BOOLEAN, url: BOOLEAN, max: {0, 50, 51}],
            {Unprepared}, {<<Service>>}, {TRUE})

\* Every preparation, with up to two images.
First  == [target: {"web"}, source: {"", "good", "bad"}, channel: {""}, sort: {""}, filter: {""},
           regex: {""}, mode: {"", "direct", "mirror"}, template: {FALSE}, match: {FALSE},
           copy: {"", "good"}, staging: {"", "good", "bad"}]
Second == [target: {"web", "db"}, source: {"good", "bad"}, channel: {""}, sort: {""}, filter: {""},
           regex: {""}, mode: {"lazycat"}, template: {FALSE}, match: {FALSE},
           copy: {""}, staging: {"", "good"}]
Sets   == {<<>>} \cup {<<i>> : i \in First} \cup {<<i, j>> : i \in First, j \in Second}
MCPrepared ==
  Pipelines({GitSource, OciSource}, {NoNotes},
            [mode: {"", "images", "passthrough", "command", "dockerfile"}, command: BOOLEAN,
             dockerfile: BOOLEAN, output: {"", "good"}, context: {"", "source"}],
            Sets, BOOLEAN)

\* Version 1, with up to two images.
Selected == [target: {"web"}, source: {"", "good"}, channel: {"", "night", "custom"},
             sort: {"", "semver", "created"}, filter: {"", "good"}, regex: {"", "good"},
             mode: {"", "mirror"}, template: {FALSE}, match: BOOLEAN, copy: {""}, staging: {""}]
Others   == {[Service EXCEPT !.target = "db"],
             [Service EXCEPT !.target = "db", !.channel = "custom", !.sort = "semver"],
             [Service EXCEPT !.target = "db", !.channel = "custom", !.sort = "created",
                             !.filter = "good"]}
MCImages ==
  [version: {1}, source: {[GitSource EXCEPT !.kind = ""]}, notes: {NoNotes},
   prepare: {[Unprepared EXCEPT !.mode = ""]},
   images: {<<i>> : i \in Selected} \cup {<<j, i>> : i \in Selected, j \in Others},
   driver: 0 .. 3, bump: BOOLEAN, downgrade: BOOLEAN, official: BOOLEAN]

MCFiles == <<MCSources, MCNotes, MCPrepared, MCImages>>
MCWords ==
  {"", "good", "bad", "git", "oci", "svn", "url", "image", "tag", "semver-tag", "branch-head",
   "latest", "semver", "numeric", "created", "updated", "stable", "beta", "date", "nightly", "night",
   "custom", "git-commits", "github-release", "command", "other", "images", "passthrough",
   "dockerfile", "source", "web", "db", "direct", "mirror", "lazycat"}
=============================================================================
