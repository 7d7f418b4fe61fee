----------------------------- MODULE SeedPackages -----------------------------
(***************************************************************************)
(* What Seed reads out of PIP files before it runs anything: the layout    *)
(* and the manifest of a package, its file name, the limits of the I/O     *)
(* policy, the catalog of a directory, references, runtime profiles and    *)
(* the closure of a launch package.  No state: SeedRuntime is the program  *)
(* these operators are evaluated by.                                       *)
(*                                                                         *)
(* A package is named by its SHA-256, so one value is one content.  Facts  *)
(* gives what its bytes say; a file holds the first `length' bytes of one, *)
(* which is less than all of them while it is being written.               *)
(***************************************************************************)
EXTENDS Naturals, Sequences, FiniteSets

CONSTANTS
    Packages,          \* digests
    Facts,             \* digest -> what the bytes of the package say
    Folders,           \* the directories Seed only reads: place -> name -> file
    Shipped,           \* the place of the directory beside the executable
    MaxWord,           \* the largest u64
    Ask, Unlimited     \* the limits of a policy that are no number

Layers == {"a0", "a1", "a2", "a3", "a4", "a5"}
Origins == {"system", "user", "workspace"}
Header == 1             \* bytes before the first section
Fields == {"maxPipBytes", "maxSingleResourceBytes", "maxExpandedBytes",
           "maxResourceCount", "maxCompressionRatio"}

(* The ABI key a manifest must carry for its layer, and for no other. *)
Abi == [a0 |-> "none", a1 |-> "none", a2 |-> "editor",
        a3 |-> "element", a4 |-> "type", a5 |-> "map"]

-----------------------------------------------------------------------------
(* The I/O policy: one limit for each field.                               *)

AskAll == [f \in Fields |-> Ask]

ValidPolicy(policy) ==
    \A f \in Fields : policy[f] \in {Ask, Unlimited} \/ policy[f] \in 0 .. MaxWord

RequiresConfirmation(policy) == \E f \in Fields : policy[f] = Ask

AllowAsked(policy) ==
    [f \in Fields |-> IF policy[f] = Ask THEN Unlimited ELSE policy[f]]

(* Options of the command line over the saved policy, over "ask".          *)
ResolvePolicy(options, allow, saved) ==
    LET given == [f \in Fields |-> IF f \in DOMAIN options THEN options[f] ELSE saved[f]]
    IN  IF allow THEN AllowAsked(given) ELSE given

Authorized(policy, field, actual) ==
    \/ policy[field] = Unlimited
    \/ policy[field] # Ask /\ actual <= policy[field]

-----------------------------------------------------------------------------
(* Reading a file.                                                         *)

Manifest(file) == Facts[file.sha]
Whole(p) == [sha |-> p, length |-> Facts[p].length]

(* Sections lie behind the header, inside the file and, in the order of    *)
(* their offsets, apart from each other.                                   *)
SectionsSound(file) ==
    LET s == Manifest(file).sections
        Before(i, j) == s[i][1] < s[j][1] \/ (s[i][1] = s[j][1] /\ i < j)
    IN  /\ file.length >= Header
        /\ \A i \in DOMAIN s : s[i][1] >= Header /\ s[i][2] <= file.length
        /\ \A i, j \in DOMAIN s : Before(i, j) => s[i][2] <= s[j][1]

ExpandedSize(file) ==
    LET s == Manifest(file).sections
        total[n \in 0 .. Len(s)] == IF n = 0 THEN 0 ELSE total[n - 1] + s[n][2] - s[n][1]
    IN  total[Len(s)]

ReferenceSound(ref) == ref.origin \in {"system", "user"}

ManifestSound(m) ==
    /\ m.layer \in Layers
    /\ m.abi = Abi[m.layer]
    /\ m.layer \in {"a3", "a4"} => m.executable
    /\ m.layer \in {"a4", "a5"} => /\ m.dependencies # {}
                                   /\ \A ref \in m.dependencies : ReferenceSound(ref)
    /\ m.launch # {} => /\ m.layer = "a5"
                        /\ \A l \in m.launch : ReferenceSound(l.loader) /\ ReferenceSound(l.editor)

(* Embedded resources: their number, the size of each, one path each.      *)
AssetsSound(file, policy) ==
    LET a == Manifest(file).assets
    IN  a # <<>> =>
        /\ Authorized(policy, "maxResourceCount", Len(a))
        /\ \A i \in DOMAIN a : Authorized(policy, "maxSingleResourceBytes", a[i].size)
        /\ \A i, j \in DOMAIN a : a[i].path = a[j].path => i = j

Parses(file, policy) ==
    /\ ValidPolicy(policy)
    /\ Authorized(policy, "maxPipBytes", file.length)
    /\ SectionsSound(file)
    /\ Authorized(policy, "maxExpandedBytes", ExpandedSize(file))
    /\ Authorized(policy, "maxCompressionRatio", 1)
    /\ ManifestSound(Manifest(file))
    /\ AssetsSound(file, policy)

HasAsset(p, path) == \E i \in DOMAIN Facts[p].assets : Facts[p].assets[i].path = path

(* A file name carries layer, artifact name, version and release date.     *)
NameSound(name) == name.layer \in Layers
FileName(m) == [layer |-> m.layer, artifact |-> m.artifact, version |-> m.version]
NameMatches(name, file) == NameSound(name) /\ name = FileName(Manifest(file))

-----------------------------------------------------------------------------
(* The catalog.  A directory maps the names of its files to the files; the *)
(* sources map the origins to directories.  Which one is the system's a    *)
(* process decides when it starts.                                         *)

Sources(place, registry) == [system |-> Folders[place], user |-> registry]

ContentAt(f) == Folders[f.place][f.name].sha
Held(place) == {Folders[place][n].sha : n \in DOMAIN Folders[place]}

Loads(sources, origin, name, policy) ==
    /\ origin \in DOMAIN sources
    /\ name \in DOMAIN sources[origin]
    /\ NameSound(name)
    /\ Parses(sources[origin][name], policy)
    /\ NameMatches(name, sources[origin][name])

Loaded(sources, origin, name) == sources[origin][name].sha

CatalogEntries(sources, trusted, policy) ==
    UNION {{[origin |-> o, file |-> n,
             valid |-> Loads(sources, o, n, policy),
             trustedForExecution |-> o = "system" \/ (Loads(sources, o, n, policy)
                                                      /\ Loaded(sources, o, n) \in trusted)] :
                n \in DOMAIN sources[o]} : o \in DOMAIN sources}

(* The packages of an origin that are exactly what the reference names.    *)
Matches(sources, ref, policy) ==
    {n \in DOMAIN sources[ref.origin] :
        /\ Loads(sources, ref.origin, n, policy)
        /\ LET m == Manifest(sources[ref.origin][n])
           IN  <<m.id, m.version>> = <<ref.id, ref.version>>
        /\ Loaded(sources, ref.origin, n) = ref.sha}

Resolves(sources, ref, layer, policy) ==
    /\ ref.origin \in DOMAIN sources
    /\ Cardinality(Matches(sources, ref, policy)) = 1
    /\ Facts[ref.sha].layer = layer

ValidProfile(profile, sources, policy) ==
    /\ Resolves(sources, profile.loader, "a1", policy)
    /\ Resolves(sources, profile.editor, "a2", policy)
    /\ \A ref \in profile.seed : Resolves(sources, ref, "a0", policy)
    /\ \A c \in DOMAIN profile.capabilities :
        LET ref == profile.capabilities[c]
        IN  Resolves(sources, ref, "a3", policy) /\ c \in Facts[ref.sha].provides

References(profile) ==
    {profile.loader, profile.editor} \cup profile.seed
        \cup {profile.capabilities[c] : c \in DOMAIN profile.capabilities}

ProfileTrusted(profile, trusted) ==
    \A ref \in References(profile) : ref.origin = "user" => ref.sha \in trusted

(* The one system editor the loader's configuration asks for, if there is  *)
(* exactly one.                                                            *)
DefaultEditor(loader, sources, policy) ==
    LET PackageOf(e) == Manifest(sources[e.origin][e.file])
        found == {e \in CatalogEntries(sources, {}, policy) :
                    /\ e.valid /\ e.origin = "system"
                    /\ PackageOf(e).layer = "a2"
                    /\ PackageOf(e).id \in Facts[loader].defaultEditor}
    IN  IF Cardinality(found) = 1 THEN {Loaded(sources, e.origin, e.file) : e \in found} ELSE {}

ValidLoader(name, file, policy) ==
    /\ NameSound(name) /\ name.layer = "a1"
    /\ Parses(file, policy)
    /\ NameMatches(name, file)

(* A loader that is asked for by its path may lie anywhere.                *)
NamedLoaders(paths, policy) ==
    {ContentAt(f) : f \in {g \in paths : /\ g.name \in DOMAIN Folders[g.place]
                                       /\ ValidLoader(g.name, Folders[g.place][g.name], policy)}}

(* The loaders a runtime directory offers: one is taken, several or none   *)
(* are left to the user.                                                   *)
DiscoveredLoaders(directory, policy) ==
    {directory[n].sha : n \in {m \in DOMAIN directory : ValidLoader(m, directory[m], policy)}}

-----------------------------------------------------------------------------
(* A launch package: an A5 that carries the packages it needs.             *)

IsReference(p, ref) ==
    /\ <<Facts[p].id, Facts[p].version>> = <<ref.id, ref.version>>
    /\ p = ref.sha

LaunchHashes(p) == {p} \cup {e.sha : e \in Facts[p].embedded}

ValidLaunch(p, policy) ==
    LET m == Facts[p]
        Carries(ref, layer) ==
            \E e \in m.embedded : IsReference(e.sha, ref) /\ Facts[e.sha].layer = layer
    IN  /\ Parses(Whole(p), policy)
        /\ m.layer = "a5" /\ m.launch # {}
        /\ \A e \in m.embedded : Parses(Whole(e.sha), policy) /\ NameMatches(e.name, Whole(e.sha))
        /\ \A ref \in m.dependencies :
            /\ Carries(ref, "a4")
            /\ \A element \in Facts[ref.sha].dependencies : Carries(element, "a3")
        /\ \A l \in m.launch : Carries(l.loader, "a1") /\ Carries(l.editor, "a2")
=============================================================================
