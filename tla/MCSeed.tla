-------------------------------- MODULE MCSeed --------------------------------
(***************************************************************************)
(* An instance of SeedRuntime: a loader and an editor of the system, an    *)
(* editor and an element of the user, a node map that carries what it      *)
(* needs, and a package whose manifest is not allowed.  A small loader and *)
(* the editor it asks for lie in a directory that is none of Seed's.       *)
(***************************************************************************)
EXTENDS SeedRuntime, TLC

Package(layer, artifact) ==
    [layer |-> layer, artifact |-> artifact, version |-> 1, id |-> artifact,
     abi |-> Abi[layer], executable |-> layer \in {"a3", "a4"},
     dependencies |-> {}, launch |-> {}, embedded |-> {}, provides |-> {},
     defaultEditor |-> {}, assets |-> <<>>,
     sections |-> <<<<1, 2>>, <<2, 3>>, <<3, 3>>, <<3, 4>>>>, length |-> 4]

Ref(origin, p, artifact) == [origin |-> origin, id |-> artifact, version |-> 1, sha |-> p]
Page == <<[path |-> "index.html", size |-> 1]>>
Embed(layer, artifact, p) ==
    [name |-> [layer |-> layer, artifact |-> artifact, version |-> 1], sha |-> p]

PackageFacts ==
    [loader |-> [Package("a1", "loader") EXCEPT !.assets = Page, !.defaultEditor = {"editor"}],
     editor |-> Package("a2", "editor"),
     mine |-> [Package("a2", "mine") EXCEPT !.assets = Page],
     element |-> [Package("a3", "element") EXCEPT !.provides = {"text/1"}],
     type |-> [Package("a4", "type") EXCEPT !.dependencies = {Ref("user", "element", "element")}],
     map |-> [Package("a5", "map") EXCEPT
                !.dependencies = {Ref("user", "type", "type")},
                !.embedded = {Embed("a4", "type", "type"), Embed("a3", "element", "element"),
                              Embed("a1", "loader", "loader"), Embed("a2", "mine", "mine")},
                !.launch = {[loader |-> Ref("system", "loader", "loader"),
                             editor |-> Ref("user", "mine", "mine")]}],
     bad |-> [Package("a2", "bad") EXCEPT !.abi = "none"],
     guest |-> [Package("a1", "guest") EXCEPT !.assets = Page, !.defaultEditor = {"tool"},
                    !.sections = <<<<1, 2>>, <<2, 3>>, <<3, 3>>, <<3, 3>>>>, !.length = 3],
     tool |-> Package("a2", "tool")]

Directory(packages) ==
    [n \in {FileName(PackageFacts[p]) : p \in packages} |->
        Whole(CHOOSE p \in packages : FileName(PackageFacts[p]) = n)]
Places == [pip |-> Directory({"loader", "editor"}), downloads |-> Directory({"guest", "tool"})]

Profile(id, capabilities) ==
    [id |-> id, loader |-> Ref("system", "loader", "loader"), editor |-> Ref("user", "mine", "mine"),
     seed |-> {}, capabilities |-> capabilities]

Unlimiteds == [f \in Fields |-> Unlimited]
Tight == [Unlimiteds EXCEPT !["maxPipBytes"] = 3]
Unsound == [Unlimiteds EXCEPT !["maxPipBytes"] = MaxWord + 1]

PageRequestSet ==
    {[kind |-> "trust", hashes |-> {"mine"}],
     [kind |-> "trust", hashes |-> {"element"}],
     [kind |-> "trustBatch", hashes |-> {"mine", "element"}],
     [kind |-> "install", name |-> FileName(PackageFacts.mine), file |-> Whole("mine")],
     [kind |-> "install", name |-> FileName(PackageFacts.bad), file |-> Whole("bad")],
     [kind |-> "activate", origin |-> "user", name |-> FileName(PackageFacts.mine)],
     [kind |-> "activate", origin |-> "system", name |-> FileName(PackageFacts.editor)],
     [kind |-> "profiles", profile |-> Profile("p", << >>)],
     [kind |-> "savePolicy", policy |-> Tight],
     [kind |-> "savePolicy", policy |-> Unsound],
     [kind |-> "catalog"], [kind |-> "readPolicy"],
     [kind |-> "package", origin |-> "user", name |-> FileName(PackageFacts.mine)],
     [kind |-> "asset", path |-> "index.html"]}

Earlier == FileName(PackageFacts.mine) :> Whole("mine")

Args(launch, profile, loader) ==
    [kind |-> "boot", options |-> << >>, allow |-> TRUE, loader |-> loader,
     editor |-> "none", profile |-> profile, force |-> FALSE, launch |-> launch]

CommandLines ==
    {Args("none", "none", {}),
     Args("map", "none", {}),
     Args("none", "p", {}),
     Args("none", "none", {[place |-> "downloads", name |-> FileName(PackageFacts.guest)]})}

ContentLength(c) ==
    CASE c.kind = "empty" -> 0
      [] c.kind = "torn" -> c.bytes
      [] c.kind = "trust" -> 1 + Cardinality(c.hashes)
      [] c.kind = "profile" -> 2 + Cardinality(DOMAIN c.profile.capabilities)
      [] c.kind = "policy" -> 2

ThreadProcess == [c1 |-> "cli", c2 |-> "cli", d1 |-> "desktop"]
MainThread == [cli |-> "c1", desktop |-> "d1"]
=============================================================================
