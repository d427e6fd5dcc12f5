--------------------------- MODULE ConnectionRender ---------------------------
(***************************************************************************)
(* From the operator's typed inputs to what the rendered services offer    *)
(* each other: public-routes, connection-targets and minecraft-plugins     *)
(* (operator_inputs.py) through the lock (resolver.py) to Caddyfile,       *)
(* Scratch runtime configs, Bridge environment and internal DNS aliases    *)
(* (render.py); the one-name home set (compose@14); and the one-order      *)
(* deployments (deployment_interface.py).  Files are edited, resolved and  *)
(* rendered in any order.                                                  *)
(*                                                                         *)
(* A name, an id, a file name and a digest are numbers, compared as their  *)
(* strings are; an ill-formed value is one outside its set.  A URL of a    *)
(* one-order deployment is the host and the port as they are written.      *)
(***************************************************************************)
EXTENDS Integers, Sequences, SequencesExt

CONSTANTS Name,           \* well-formed DNS hostnames
          File,           \* safe plugin file names without "mcremote"
          Fold,           \* Fold[f]: the plugin file name f in lower case
          Host,           \* Host[n]: the host name n as a browser writes it
          McRemoteFile,   \* the plugin file of the preset
          Stored,         \* digests that are in the artifact store
          Revision,       \* renderer revisions a public project can select
          RouteFiles,     \* contents the operator gives public-routes
          ConnectionFiles,
          PluginFiles,
          RoleLists,      \* [[operator_inputs]] as the order file lists them
          VolumeLists,    \* [[runtime.volumes]] as the order file lists them
          LanFiles,
          InterfaceOrders,
          Start,          \* what the files say at first
          None,
          MaxEdits        \* bound: edits of files

MaxAliases == 8
MaxWebPairs == 4
MaxTargets == 32
MaxNotices == 16
MaxPlugins == 64

RequiredRoles == {"public-routes", "minecraft-server", "connection-targets",
                  "minecraft-plugins", "homepage-static", "minecraft-backup"}

VolumeRoles == {"minecraft-data", "caddy-data", "caddy-config"}

WebPairRevisions == {17, 18, 19, 20}
PerOriginRevisions == {19, 20}
HeapRevisions == {20}

Https == 443
Port == 1..65535
Unwritten == 0        \* the port of a URL that names none
Primary == 0          \* runtime/scratch.json; web-pairs/<name>.json is <name>

(* What an input file can say, before any of the checks below.             *)
Notice == {"text", "link", "half"}
WebPair == [scratch : Nat, wirescope : Nat]
Routes == [homepage : Nat, aliases : Seq(Nat), scratch : Nat, bridge : Nat,
           minecraft : Nat, wirescope : Nat, pairs : {None} \cup Seq(WebPair)]
Selection == [scratch : Nat, ids : Seq(Nat), default : Nat]
Connections == [targets : Seq([id : Nat, sandbox : Nat]),
                selections : {None} \cup Seq(Selection), notices : Seq(Notice)]
Plugins == Seq([file : Nat, digest : Nat])
Lan == [hostname : Nat, scratchPort : Int, bridgePort : Int]
Order == [scratch : Nat \X Nat, bridge : Nat \X Nat, wirescope : {None} \cup (Nat \X Nat),
          targets : Seq([id : Nat, sandbox : Nat, default : BOOLEAN]), notices : Seq(Notice)]

PublicFiles == [family : {"public"}, revision : Revision, roles : Seq(RequiredRoles),
                volumes : Seq(VolumeRoles), heap : BOOLEAN,
                routes : Routes, connections : Connections, plugins : Plugins]
HomeFiles == [family : {"home"}, lan : Lan]
InterfaceFiles == [family : {"interface"}, order : Order]
Files == PublicFiles \cup HomeFiles \cup InterfaceFiles

ASSUME RenderAssumption ==
  /\ Revision \subseteq {13, 15, 16, 17, 18, 19, 20}
  /\ MaxEdits \in Nat
  /\ Primary \notin Name
  /\ \A f \in File : Fold[f] \in Nat
  /\ RouteFiles \subseteq Routes /\ ConnectionFiles \subseteq Connections
  /\ PluginFiles \subseteq Plugins /\ LanFiles \subseteq Lan
  /\ RoleLists \subseteq Seq(RequiredRoles) /\ VolumeLists \subseteq Seq(VolumeRoles)
  /\ InterfaceOrders \subseteq Order /\ Start \subseteq Files
  /\ None \notin Seq(WebPair) \cup Seq(Selection)

VARIABLES files,      \* what the operator's files say now
          lock,       \* the inputs as the lock holds them, or None
          output,     \* what was rendered, with its lock, or None
          answer,     \* what the last command answered
          edits

vars == <<files, lock, output, answer, edits>>

Distinct(s) == IsInjective(s)

(* sorted() by a key, which is a function on the elements.                 *)
Sorted(S, key) ==
  CHOOSE s \in SetToSeqs(S) : \A i, j \in DOMAIN s : i < j => key[s[i]] <= key[s[j]]
By(s, key(_)) == Sorted(ToSet(s), [x \in ToSet(s) |-> key(x)])
-----------------------------------------------------------------------------
(* Parsing: what an adapter accepts, and its canonical form.               *)

ExtraPairs(r) == IF r.pairs = None THEN <<>> ELSE r.pairs
PairNames(pairs) == [i \in DOMAIN pairs |-> pairs[i].scratch]
                    \o [i \in DOMAIN pairs |-> pairs[i].wirescope]
RouteNames(r) == <<r.homepage>> \o r.aliases
                 \o <<r.bridge, r.minecraft, r.scratch, r.wirescope>> \o PairNames(ExtraPairs(r))

(* Mutant: the names of the extra pairs are compared among themselves only.*)
RoutesAcceptedApart(r, revision) ==
  /\ (r.pairs # None) <=> revision \in WebPairRevisions
  /\ Len(r.aliases) <= MaxAliases
  /\ Len(ExtraPairs(r)) <= MaxWebPairs
  /\ ToSet(RouteNames(r)) \subseteq Name
  /\ Distinct(RouteNames([r EXCEPT !.pairs = None]))
  /\ Distinct(PairNames(ExtraPairs(r)))

(* public-routes@2 has no web_pairs, public-routes@3 must have them.       *)
RoutesAccepted(r, revision) ==
  /\ (r.pairs # None) <=> revision \in WebPairRevisions
  /\ Len(r.aliases) <= MaxAliases
  /\ Len(ExtraPairs(r)) <= MaxWebPairs
  /\ ToSet(RouteNames(r)) \subseteq Name
  /\ Distinct(RouteNames(r))

RoutesSemantic(r) ==
  [r EXCEPT !.aliases = By(r.aliases, LAMBDA a : a),
            !.pairs = IF r.pairs = None THEN None
                      ELSE By(r.pairs, LAMBDA p : p.scratch)]

Ids(targets) == [i \in DOMAIN targets |-> targets[i].id]
Sandboxes(targets) == [i \in DOMAIN targets |-> targets[i].sandbox]

(* A notice has a heading and a body, and a link in full or none.          *)
NoticesAccepted(notices) == Len(notices) \in 1..MaxNotices /\ "half" \notin ToSet(notices)

TargetsAccepted(targets) ==
  /\ Len(targets) \in 1..MaxTargets
  /\ ToSet(Sandboxes(targets)) \subseteq Name
  /\ Distinct(Ids(targets)) /\ Distinct(Sandboxes(targets))

SelectionAccepted(s, known) ==
  /\ s.ids # <<>> /\ Distinct(s.ids)
  /\ ToSet(s.ids) \subseteq known
  /\ s.default \in ToSet(s.ids)
  /\ s.scratch \in Name

(* connection-targets@3 has no selections, connection-targets@4 must.      *)
ConnectionsAccepted(c, revision) ==
  /\ (c.selections # None) <=> revision \in PerOriginRevisions
  /\ TargetsAccepted(c.targets)
  /\ NoticesAccepted(c.notices)
  /\ c.selections # None =>
       /\ Len(c.selections) \in 1..(MaxWebPairs + 1)
       /\ \A i \in DOMAIN c.selections :
            SelectionAccepted(c.selections[i], ToSet(Ids(c.targets)))
       /\ Distinct([i \in DOMAIN c.selections |-> c.selections[i].scratch])

(* Mutant: the selections stay in the order the operator wrote them in.    *)
ConnectionsUnsorted(c) == c

ConnectionsSemantic(c) ==
  IF c.selections = None THEN c
  ELSE [c EXCEPT !.selections = By(@, LAMBDA s : s.scratch)]

PluginsAccepted(plugins) ==
  /\ Len(plugins) \in 1..MaxPlugins
  /\ \A i \in DOMAIN plugins : plugins[i].file \in File
  /\ Distinct([i \in DOMAIN plugins |-> Fold[plugins[i].file]])
  /\ Distinct([i \in DOMAIN plugins |-> plugins[i].digest])

PluginsSemantic(plugins) == By(plugins, LAMBDA p : Fold[p.file])

LanAccepted(l) == /\ l.hostname \in Name
                  /\ l.scratchPort \in Port /\ l.bridgePort \in Port
                  /\ l.scratchPort # l.bridgePort

(* load_interface_order; its exactly-one default is a field of each target.*)
InterfaceAccepted(o) ==
  /\ o.targets # <<>>
  /\ Distinct(Ids(o.targets)) /\ Distinct(Sandboxes(o.targets))
  /\ \E i \in DOMAIN o.targets :
       \A j \in DOMAIN o.targets : o.targets[j].default <=> i = j
  /\ Len(o.notices) <= 1 /\ "half" \notin ToSet(o.notices)

(* load_order, resolve_operator_inputs and _build_candidate: every file    *)
(* and volume the profile requires is listed, once, and every file is      *)
(* accepted; compose@20 also needs minecraft.heap.                         *)
Accepted(f) ==
  \/ /\ f.family = "public"
     /\ ToSet(f.roles) = RequiredRoles /\ Distinct(f.roles)
     /\ ToSet(f.volumes) = VolumeRoles /\ Distinct(f.volumes)
     /\ RoutesAccepted(f.routes, f.revision)
     /\ ConnectionsAccepted(f.connections, f.revision)
     /\ PluginsAccepted(f.plugins)
     /\ f.revision \in HeapRevisions => f.heap
  \/ f.family = "home" /\ LanAccepted(f.lan)
  \/ f.family = "interface" /\ InterfaceAccepted(f.order)

(* What the lock holds: the input files in canonical form, and of the      *)
(* order file the hash of what it says, its lists as they are written.     *)
Semantic(f) ==
  IF f.family = "public"
  THEN [f EXCEPT !.routes = RoutesSemantic(@),
                 !.connections = ConnectionsSemantic(@),
                 !.plugins = PluginsSemantic(@)]
  ELSE f
-----------------------------------------------------------------------------
(* Rendering a public lock (_compose_public).                              *)

WebPairs(r) == <<[scratch |-> r.scratch, wirescope |-> r.wirescope]>> \o ExtraPairs(r)
Origins(r) == {p.scratch : p \in ToSet(WebPairs(r))}

SelectionOf(c, scratch) ==
  CHOOSE s \in ToSet(c.selections) : s.scratch = scratch
TargetOf(c, id) == CHOOSE t \in ToSet(c.targets) : t.id = id

(* _selected_connection_targets: what one Scratch page offers, in order,   *)
(* and what it starts with.                                                *)
Selected(l, scratch) ==
  LET c == l.connections
      s == SelectionOf(c, scratch)
  IN  IF l.revision \in PerOriginRevisions
      THEN [targets |-> [i \in DOMAIN s.ids |-> TargetOf(c, s.ids[i])],
            default |-> TargetOf(c, s.default).sandbox]
      ELSE [targets |-> c.targets, default |-> l.routes.minecraft]

RuntimeConfig(l, pair) ==
  LET s == Selected(l, pair.scratch)
  IN  [bridge |-> <<l.routes.bridge, Https>>, default |-> s.default,
       targets |-> s.targets, wirescope |-> <<pair.wirescope, Https>>,
       notices |-> l.connections.notices]

PairConfigs(l) == {RuntimeConfig(l, p) : p \in ToSet(WebPairs(l.routes))}
(* Mutant: the Bridge gets the sandboxes of the primary page only.         *)
AllowlistPrimary(l) == ToSet(Sandboxes(RuntimeConfig(l, WebPairs(l.routes)[1]).targets))

Allowlist(l) == UNION {ToSet(Sandboxes(c.targets)) : c \in PairConfigs(l)}

(* The plugin mounts after those of the preset, in the order of the lock.  *)
MountFiles(l) == <<McRemoteFile>> \o [i \in DOMAIN l.plugins |-> l.plugins[i].file]

PublicRenderable(l) ==
  /\ IF l.revision \in PerOriginRevisions
     THEN {s.scratch : s \in ToSet(l.connections.selections)} = Origins(l.routes)
     ELSE l.routes.minecraft \in ToSet(Sandboxes(l.connections.targets))
  /\ \A i \in DOMAIN l.plugins : l.plugins[i].digest \in Stored
  /\ Distinct(MountFiles(l))

Site(name, serves, file) == [at |-> <<name, Https>>, serves |-> serves, file |-> file]
(* Mutant: Caddy serves the primary page's file at every Scratch origin.   *)
CaddySitesOneFile(r) ==
  LET homes == <<r.homepage>> \o r.aliases
      pairs == WebPairs(r)
  IN  [i \in DOMAIN homes |-> Site(homes[i], "homepage", None)]
      \o [i \in DOMAIN pairs |-> Site(pairs[i].scratch, "scratch", Primary)]
      \o <<Site(r.bridge, "bridge", None)>>
      \o [i \in DOMAIN pairs |-> Site(pairs[i].wirescope, "wirescope", None)]

CaddySites(r) ==
  LET homes == <<r.homepage>> \o r.aliases
      pairs == WebPairs(r)
  IN  [i \in DOMAIN homes |-> Site(homes[i], "homepage", None)]
      \o [i \in DOMAIN pairs |-> Site(pairs[i].scratch, "scratch",
                                      IF i = 1 THEN Primary ELSE pairs[i].scratch)]
      \o <<Site(r.bridge, "bridge", None)>>
      \o [i \in DOMAIN pairs |-> Site(pairs[i].wirescope, "wirescope", None)]

ConfigFiles(l) ==
  [file \in {Primary} \cup {p.scratch : p \in ToSet(ExtraPairs(l.routes))} |->
     RuntimeConfig(l, IF file = Primary THEN WebPairs(l.routes)[1]
                      ELSE CHOOSE p \in ToSet(ExtraPairs(l.routes)) : p.scratch = file)]

BridgeEnvironment(l) ==
  [origins |-> {<<n, Unwritten>> : n \in Origins(l.routes)},
   sandboxes |-> Allowlist(l),
   default |-> RuntimeConfig(l, WebPairs(l.routes)[1]).default]

MinecraftAliases(l) ==
  IF l.revision \in WebPairRevisions THEN Allowlist(l) ELSE {l.routes.minecraft}

PublicOutput(l) ==
  [lock |-> l, sites |-> CaddySites(l.routes), configs |-> ConfigFiles(l),
   bridge |-> BridgeEnvironment(l), aliases |-> MinecraftAliases(l)]
-----------------------------------------------------------------------------
(* Where a URL leads, and what the page at an address sends as its Origin: *)
(* the default port is never spelled out.                                  *)
Address(url) == <<Host[url[1]], IF url[2] = Unwritten THEN Https ELSE url[2]>>
Origin(at) == <<at[1], IF at[2] = Https THEN Unwritten ELSE at[2]>>

(* The home set (_compose_v14): one host name, two ports, one target.      *)
HomeConfig(l) ==
  [bridge |-> <<l.lan.hostname, l.lan.bridgePort>>, default |-> l.lan.hostname,
   targets |-> <<[id |-> 0, sandbox |-> l.lan.hostname]>>,
   wirescope |-> None, notices |-> <<"link">>]

HomeOutput(l) ==
  [lock |-> l,
   sites |-> <<[at |-> <<l.lan.hostname, l.lan.scratchPort>>,
                serves |-> "scratch", file |-> Primary],
               [at |-> <<l.lan.hostname, l.lan.bridgePort>>,
                serves |-> "bridge", file |-> None]>>,
   configs |-> [file \in {Primary} |-> HomeConfig(l)],
   bridge |-> [origins |-> {<<l.lan.hostname, l.lan.scratchPort>>},
               sandboxes |-> {l.lan.hostname}, default |-> l.lan.hostname],
   aliases |-> {l.lan.hostname}]

(* A one-order deployment (_render); the ingress of the host, which the    *)
(* stack does not write, leads scratch_url and bridge_url to its ports.    *)
(* The Bridge gets the netloc of scratch_url, spelled as in the order.     *)
DefaultOf(targets) == CHOOSE t \in ToSet(targets) : t.default

InterfaceConfig(o) ==
  [bridge |-> o.bridge, default |-> DefaultOf(o.targets).sandbox,
   targets |-> [i \in DOMAIN o.targets |->
                  [id |-> o.targets[i].id, sandbox |-> o.targets[i].sandbox]],
   wirescope |-> o.wirescope, notices |-> o.notices]

InterfaceOutput(l) ==
  [lock |-> l,
   sites |-> <<[at |-> Address(l.order.scratch), serves |-> "scratch", file |-> Primary],
               [at |-> Address(l.order.bridge), serves |-> "bridge", file |-> None]>>,
   configs |-> [file \in {Primary} |-> InterfaceConfig(l.order)],
   bridge |-> [origins |-> {l.order.scratch},
               sandboxes |-> ToSet(Sandboxes(l.order.targets)),
               default |-> DefaultOf(l.order.targets).sandbox],
   aliases |-> ToSet(Sandboxes(l.order.targets))]

Renderable(l) == l.family = "public" => PublicRenderable(l)
Output(l) == IF l.family = "public" THEN PublicOutput(l)
             ELSE IF l.family = "home" THEN HomeOutput(l)
             ELSE InterfaceOutput(l)
-----------------------------------------------------------------------------
Init ==
  /\ files \in Start
  /\ lock = None /\ output = None
  /\ answer = "none" /\ edits = 0

Edited(f) == /\ f # files
             /\ edits < MaxEdits
             /\ files' = f /\ edits' = edits + 1
             /\ UNCHANGED <<lock, output, answer>>

EditPublic ==
  /\ files.family = "public"
  /\ \/ \E r \in RouteFiles : Edited([files EXCEPT !.routes = r])
     \/ \E c \in ConnectionFiles : Edited([files EXCEPT !.connections = c])
     \/ \E p \in PluginFiles : Edited([files EXCEPT !.plugins = p])
     \/ \E v \in Revision : Edited([files EXCEPT !.revision = v])
     \/ \E l \in RoleLists : Edited([files EXCEPT !.roles = l])
     \/ \E l \in VolumeLists : Edited([files EXCEPT !.volumes = l])
     \/ Edited([files EXCEPT !.heap = ~@])

EditHome ==
  /\ files.family = "home"
  /\ \E l \in LanFiles : Edited([files EXCEPT !.lan = l])

EditInterface ==
  /\ files.family = "interface"
  /\ \E o \in InterfaceOrders : Edited([files EXCEPT !.order = o])

(* mcrctl resolve: the lock is replaced unless it has the same inputs.     *)
Resolve ==
  /\ files.family # "interface"
  /\ IF ~Accepted(files)
     THEN answer' = "refused" /\ UNCHANGED lock
     ELSE IF lock = Semantic(files)
     THEN answer' = "unchanged" /\ UNCHANGED lock
     ELSE answer' = "resolved" /\ lock' = Semantic(files)
  /\ UNCHANGED <<files, output, edits>>

(* mcrctl render, of a lock that is what the files would resolve to.       *)
Render ==
  /\ files.family # "interface"
  /\ IF lock # None /\ Accepted(files) /\ lock = Semantic(files) /\ Renderable(lock)
     THEN answer' = "rendered" /\ output' = Output(lock)
     ELSE answer' = "refused" /\ UNCHANGED output
  /\ UNCHANGED <<files, lock, edits>>

(* mcrctl deployment apply resolves and renders the order in one go.       *)
Prepare ==
  /\ files.family = "interface"
  /\ IF Accepted(files)
     THEN answer' = "rendered" /\ lock' = files /\ output' = Output(files)
     ELSE answer' = "refused" /\ UNCHANGED <<lock, output>>
  /\ UNCHANGED <<files, edits>>

Next == EditPublic \/ EditHome \/ EditInterface \/ Resolve \/ Render \/ Prepare

Spec == Init /\ [][Next]_vars
-----------------------------------------------------------------------------
(* What a browser gets from /mc-remote-runtime-config.json of an origin.   *)
Scratches(out) == {s \in ToSet(out.sites) : s.serves = "scratch"}
Fetched(out, site) == out.configs[site.file]
Offered(c) == ToSet(Sandboxes(c.targets))

(* validate_scratch_runtime_config: what is served against what the        *)
(* renderer wrote.                                                         *)
ConfigAccepted(observed, expected) ==
  /\ observed.targets # <<>>
  /\ Distinct(Ids(observed.targets)) /\ Distinct(Sandboxes(observed.targets))
  /\ observed.default \in Offered(observed)
  /\ "half" \notin ToSet(observed.notices)
  /\ observed = expected

(* doctor: every Scratch and WireScope pair gets the checks of the primary *)
(* one, against the file at the path that web_pair_runtime_path gives it.  *)
PublicPairsPass(out) ==
  LET pairs == WebPairs(out.lock.routes)
      path(i) == IF i = 1 THEN Primary ELSE pairs[i].scratch
  IN  \A i \in DOMAIN pairs :
        \E s \in Scratches(out) :
          /\ s.at = <<pairs[i].scratch, Https>>
          /\ ConfigAccepted(Fetched(out, s), out.configs[path(i)])
          /\ out.configs[path(i)].wirescope = <<pairs[i].wirescope, Https>>

(* _validate_runtime: the Bridge's allowlist is exactly the target set.    *)
InterfaceRuntimePasses(out) ==
  LET c == out.configs[Primary]
  IN  /\ Offered(c) = out.bridge.sandboxes
      /\ c.default \in Offered(c)
      /\ Distinct(Sandboxes(c.targets))

DoctorPasses(out) ==
  /\ out.lock.family = "public" => PublicPairsPass(out)
  /\ out.lock.family = "interface" => InterfaceRuntimePasses(out)
-----------------------------------------------------------------------------
(* The origin a Bridge is given is spelled as a browser spells it.  It is  *)
(* not for a home set whose Scratch port is 443, and for a scratch_url with *)
(* upper-case letters or an explicit :443; all three are accepted.         *)
PlainOrigin(l) ==
  /\ l.family = "home" => l.lan.scratchPort # Https
  /\ l.family = "interface" => Origin(Address(l.order.scratch)) = l.order.scratch

(* The Bridge lets in exactly what the Scratch pages offer, from exactly   *)
(* the origins their browsers send, whenever these are spelled plainly: no *)
(* page is turned away, no sandbox that only the catalog names is let in   *)
(* (scratch-connection-selections-guide:82).  The game server answers to   *)
(* what a page starts with, and from compose@17 on to all it offers        *)
(* (deployment-interface-implementation:21).                               *)
EveryOfferWorks ==
  output # None =>
    LET pages == {Fetched(output, s) : s \in Scratches(output)}
    IN  /\ PlainOrigin(output.lock) =>
             output.bridge.origins = {Origin(s.at) : s \in Scratches(output)}
        /\ output.bridge.sandboxes = UNION {Offered(c) : c \in pages}
        /\ output.bridge.default \in output.bridge.sandboxes
        /\ \A c \in pages :
             /\ c.default \in Offered(c) \cap output.aliases
             /\ output.lock.family # "public" \/ output.lock.revision \in WebPairRevisions
                => Offered(c) \subseteq output.aliases

(* Caddy serves every address once, and each link a page carries leads to  *)
(* the service it is for, the WireScope link to that page's own pair       *)
(* ("one name never hands off to another pair's", render.py:866).          *)
EveryLinkIsServed ==
  output # None /\ output.lock.family # "interface" =>
    /\ Distinct([i \in DOMAIN output.sites |-> output.sites[i].at])
    /\ \A s \in Scratches(output) :
         LET c == Fetched(output, s)
         IN  /\ \E t \in ToSet(output.sites) : t.serves = "bridge" /\ t.at = c.bridge
             /\ output.lock.family = "public" =>
                  /\ \E t \in ToSet(output.sites) : t.serves = "wirescope" /\ t.at = c.wirescope
                  /\ [scratch |-> s.at[1], wirescope |-> c.wirescope[1]]
                       \in ToSet(WebPairs(output.lock.routes))

(* The renderer and doctor, which re-derives what it expects from lock and *)
(* output, agree on every output that is rendered.                         *)
RenderedPassesDoctor == output # None => DoctorPasses(output)

(* What the operator wrote, the order aside of the four lists that a       *)
(* resolve sorts.  The order of the notices and of what a page offers is   *)
(* meant; that of the catalog (from compose@19 on, where each page names   *)
(* its own) and of the lists of the order file has no meaning, and counts. *)
Written(f) ==
  IF f.family # "public" THEN f
  ELSE [f EXCEPT !.routes.aliases = ToSet(@),
                 !.routes.pairs = IF @ = None THEN None ELSE ToSet(@),
                 !.connections.selections = IF @ = None THEN None ELSE ToSet(@),
                 !.plugins = ToSet(@)]

(* A lock is replaced exactly when the files have come to say something    *)
(* else: reordering aliases, web pairs, selections or plugins never gives  *)
(* a deployment a new identity, and no other edit goes unnoticed.          *)
SameInputsSameLock ==
  [][/\ lock' # lock => /\ Written(lock') = Written(files)
                        /\ lock # None => Written(lock') # Written(lock)
     /\ answer' = "unchanged" /\ answer # answer' => Written(lock) = Written(files)]_vars
=============================================================================
