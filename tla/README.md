# A verification project for mc-remote-stack

`mcrctl` (package `src/src/mc_remote_stack`) operates one Minecraft deployment
per project directory: it resolves a typed order into a lock, renders Docker
Compose files from the lock, starts them, updates them in place, restores worlds
and sends backups off the host. It has no server process. Every invocation is a
short-lived command that reads files, calls `docker` and writes files, and it
may be killed between any two of these. What must hold is therefore a matter of
*what an earlier command left on disk, in the volumes and on the host*, and of
*what two commands do to each other*.

The modules here model the commands that change something: the in-place update,
the world restore, the offsite backup, the first start of a project and its
homepage, the one-order deployments and the artifact store; and, as a function,
the way from the operator's inputs to what the rendered services are told of each
other. TLC checks them on small instances. TLAPS proves the safety properties of all of
them for every value of the constants, and that the update and the artifact store
implement their abstract specifications; for restore, backup and two properties of the
update under the hypotheses that section 5 names.

Paths below are relative to the project's `src/` directory, so that
`src/mc_remote_stack/restore.py` is the file `src/src/mc_remote_stack/restore.py`
of `PROJECT.json`.

## 1. Inventory

| Component | Code | State it keeps | Operations | Modelled |
|---|---|---|---|---|
| Deployment update | `deployment_update.py` | `.mcrctl/updates/<plan>/` (source and target project, `state.json`), `active.json`, `transaction.lock` | `update plan`, `update apply` | `DeploymentUpdate` |
| Project order | `toml_project.py` | `mc-remote.toml`, files under `operator/` | init, add, set, `load_order` | the refusal of files the order does not name |
| Resolver and lock | `resolver.py` | `mc-remote.lock.toml` | resolve, `inspect_lock` | current, stale or foreign lock in `DeploymentUpdate`; the canonical form of the inputs in `ConnectionRender` |
| Renderer | `render.py` | the managed output directory | verify, render with two renames | publication in `DeploymentUpdate`; what services are told of each other in `ConnectionRender` |
| Doctor | `doctor.py` | none | verify project, render, containers, endpoints | its verdict; its runtime config checks in `ConnectionRender` |
| World restore | `restore.py` | `.mcrctl-restore-staging/rollback/failed-*` in the volume | `world restore plan`, `apply`, four helper scripts | `WorldRestore` |
| Archive inspection | `archive.py` | none | ZIP checks | one outcome, in `WorldRestore` |
| Offsite backup | `backup.py`, `cli.py` | `<zip>.age`, `<zip>.age.transfer.json`, objects on the FTPS server | drain, transfer, list, download, decrypt | `BackupTransfer` |
| Bootstrap apply | `apply.py` | volumes and containers of a first deployment | `apply --bootstrap` | `BootstrapApply` |
| Interface apply | `deployment_interface.py` | `current.json`, `renders/<lock>/`, volume, containers | `deployment apply`, `doctor` of a one-order deployment | `InterfaceApply` (apply), `ConnectionRender` |
| Artifact store | `artifacts.py`, `runtime_artifacts.py`, `runtime_audit.py` | `sha256/<digest>` | fetch, import-reviewed; builders of release files | `ArtifactStore` (`artifacts.py`) |
| Homepage sync | `homepage_sync.py` | `homepage/` beside the store, Caddy's container | sync | `HomepageSync` |
| Presets, profiles, manifests | `preset_registry.py`, `release_manifest.py`, `runtime_content.py`, `scratch_contract.py` | none | load, validate | no: pure functions of bundled files |
| Inputs and environment | `operator_inputs.py`, `operator_environment.py` | none | parse, check | routes, targets, plugins and lan-routes, in `ConnectionRender` |
| Helpers | `secrets.py`, `yamlio.py`, `repo_check.py` | none | | no |
| Command line | `cli.py` | none | the drain loop, argument parsing | the drain loop |
| Host scripts, image | `tools/`, `containers/` | host set-up | run by hand | no |

### How the parts interact

- **Update** calls the resolver and the renderer on a copy of the project, the
  doctor on the live one, `docker compose down / up --wait`, and then replaces
  order, lock, operator inputs and output of the live project one after the
  other. What it leaves is what the resolver, renderer and doctor of *later*
  commands read.
- **Restore** reads lock and labels of the running container, runs each of its
  shell scripts as `docker run` on the world volume, stops and starts the
  Minecraft container and ends with the doctor.
- **Backup** shares the outbox with the backup plugin, the directory with other
  backup commands, and the server with its other clients.
- **Bootstrap** and **homepage sync** act on the same Compose project without
  knowing of each other: bootstrap counts and inspects containers, the sync
  recreates one of them, and both read the managed output that a third command may
  replace. The sync's public directory is a bind mount of Caddy's container.
- **Interface apply** derives what it may do from containers, volume and
  `current.json`, which its earlier runs wrote at different times.
- **Artifact store** calls share one directory and no lock. Render and containers
  mount its entries by digest.
- **Inputs → resolve → render → doctor** is one function in four parts: Caddyfile,
  Scratch runtime configs, Bridge environment and internal DNS aliases have to
  agree with each other, and doctor derives its expectations once more.
- There are no callbacks and no threads. Concurrency is between invocations and
  between a command and the containers it left running; only the update takes a
  lock (`flock`, not blocking), which the kernel drops when the process dies.

### What makes the components correct, and what is hard

- *Update.* One transaction at a time; its outcome, as recorded, is the truth;
  no order, lock or output but those of the plan's own source is overwritten; never other volumes or
  worlds; an interrupted update can be carried on to a result. Hard: a death
  between any two writes, five files that are replaced separately, a rollback
  that can itself fail or be cut, a phase record that may not get written, an
  upgrade of `mcrctl` in the middle.
- *Restore.* The prior world is never lost; the server never runs on a mixture;
  `restored` and `rolled back` mean what they say; the server is not left down
  silently. Hard: a script that fails at any line, directories that survive an
  attempt and are met by the next, a helper that outlives the wait for it, a
  second restore that nothing excludes.
- *Backup.* What is reported verified can be restored from the server alone;
  a retry sends the same bytes under the same name; nothing on the server is
  replaced; every archive gets there at last. Hard: files and objects that are
  written in several steps with a death in between, and runs that overlap.

- *Bootstrap.* `created`, `resumed` and `unchanged` are true of the project that
  was asked for; no container on a volume that is not ours; a run that was cut can
  be repeated. Hard: every look at the host may be outdated when it is used.
- *Homepage sync.* Visitors see a site that exists, and the one that was synced.
  Hard: two renames without a way back, and a container that holds on to the
  directory it was started with.
- *Interface apply.* A world stays with its preset family; `current.json` can be
  trusted; the world does not go back to an older revision; a deployment that was
  applied recovers. Hard: volume, containers and
  record come into being one after the other, and any prefix may be all there is.
- *Artifact store.* An entry is whole when it is visible, never replaced, and still
  there after a power failure once it was reported. Hard: overlap, kills, page cache.
- *Rendering.* Every offer of a page works, and nothing else is let in. Hard: the
  same names arrive by four ways.

`PROJECT.json` lists every hazard at its line, with the properties that would
catch it, or the reason why none does yet.

## 2. Modules

| Module | What it is |
|---|---|
| `DeploymentUpdate` | plan and apply, step by step, with crashes, faults, edits and tool upgrades |
| `ReleaseTransaction` | what an update promises: one deployed release, moved atomically or left to the operator |
| `DeploymentUpdate_proofs` | the TLAPS proofs about `DeploymentUpdate` |
| `WorldRestore` | the restore command, its four scripts line by line, its helpers |
| `WorldRestore_proofs` | the TLAPS proofs about `WorldRestore` |
| `BackupTransfer` | drain and transfer, local files and server |
| `BackupTransfer_proofs` | the TLAPS proofs about `BackupTransfer` |
| `BootstrapApply` | the first start of a project, its repetition, and others on the host |
| `BootstrapApply_proofs` | the TLAPS proofs about `BootstrapApply` |
| `HomepageSync` | extends `BootstrapApply` by the sync, Caddy's mount and host restarts |
| `HomepageSync_proofs` | the TLAPS proofs about the sync beside bootstraps, on top of those about bootstraps |
| `InterfaceApply` | apply of a one-order deployment |
| `InterfaceApply_proofs` | the TLAPS proofs about `InterfaceApply` |
| `ContentStore` | what a content-addressed directory promises |
| `ArtifactStore` | fetch and import, line by line; it implements `ContentStore` |
| `ArtifactStore_proofs` | the TLAPS proofs about `ArtifactStore` |
| `ConnectionRender` | from operator inputs to the rendered services, with resolve, render and doctor |
| `ConnectionRender_proofs` | the TLAPS proofs about `ConnectionRender` |
| `MC...` | values of constants and symmetry sets for TLC |

Operators whose comment begins with "Mutant" are plausible bugs of the operator
that follows them. No specification uses them: each is put in the place of the
right one to see that a property notices.

### DeploymentUpdate

The order, its lock, the operator inputs, the render and the running containers
are each represented by *the lock identity they were made from*. A state in
which the five differ is a half-published project. A lock is a record of the
stateful `identity` (deployment, environment, world, network, volumes, families;
all that `_validate_in_place_transition` wants unchanged), the `profile` and
`preset` revision and the operator `inputs`. A plan is a pair of locks that this
function admits, as the plan id is a hash of both.

| Variable | Code |
|---|---|
| `phase` | `phase` in each plan's `state.json`; `"none"` when the directory does not exist |
| `active` | `active.json`; `Torn` when a first write was cut short |
| `order`, `lock`, `inputs`, `output`, `aside` | the live project, and the tree `_publish_staging` moved out of the way |
| `stray` | a temporary file `_atomic_replace` left under `operator/` |
| `health`, `running` | the containers, and the lock in their labels |
| `stale` | locks that `inspect_lock` of the installed `mcrctl` calls stale |
| `flock`, `pc`, `cur`, `back` | the lock holder; step, plan and except branch of each command |
| `orphans`, `interrupted` | history, for the properties only |

Actions, in the order of the code. `BeginPlan` is the check of `active.json`
under the lock; `PreparePlan` verifies, resolves, renders and doctors and moves
the plan directory into place; `ActivatePlan` writes `active.json`. `BeginApply`
dispatches on the recorded phase; `CheckSource`, `PullTarget`, `StopSource`,
`RecordStopped`; `PublishOrder`, `PublishLock`, `PublishInputs`, `RenderOutput`,
`SwapOutput` (the two renames of `_publish_staging`); `RecordPublished`,
`StartProject`, `VerifyProject`, `RecordResult`. The same publishing, starting
and verifying actions serve the rollback, as the functions do in the code: `Goal`
says what is being published. `Fail` is the except branch. `RecordFails` is a
failing `advance()`: the code sets the phase in memory before it writes it, so
the branch taken depends on a phase that is not on disk. `Crash` kills a command
at any step named by `CrashAt`.

The operator edits in the steps the code knows: `EditOrder` and `EditInputs` change a
file, `Resolve` the lock, `Render` the output, between any two steps of a command
(`OperatorEdit`).

Inputs that a plan replaces are part of a release. The *set* of operator files
cannot change in an update, since `_validate_in_place_transition` fixes roles and
paths; a file that should not be there can therefore only be a temporary one
(`stray`).

### ReleaseTransaction

Two variables, `deployed` and `status`, and three actions: propose, commit, leave
to the operator. `DeploymentUpdate` instantiates it with a refinement mapping:
between the record that the source was stopped and the record of the result the
deployment counts as its source, whatever is live; `rolled-back` counts as open,
since the same plan can be applied again.

### WorldRestore

A root is a sequence: what its directory holds, then what a `mv` into an existing
directory nested in it. `data`, `staging[a]`, `rollback[a]` and `failed[a]` map
roots to such sequences; the last three are per archive, because the code derives
their names from the archive's hash and not from the attempt. `helpers` is the
set of containers at work, each at a line of its script (`stage`) and a round of
its loop (`root`). `Ready` holds the conditions under which a line can succeed: a
directory that `mkdir` makes is not there, one that a root is moved into is, and a
`mv` of a root into a directory that already holds it there (`mv` nests) finds
no root of the same name in that one (`Room`). A line that
cannot succeed, or is named in `FaultAt`, ends the script as `sh -e` does. The
command's actions follow `apply_world_restore`: `Prepare`, `StopMinecraft`,
`Cutover`, `StartMinecraft`, `Doctor`, and the error paths `StopFails`,
`AfterStopFailed`, `VerifyStop`, `Rollback`, `StartPrior`. A command that times
out on a helper, or dies, leaves the helper running; `HostRestarts` ends them all.

### BackupTransfer

`age` is randomised, so each encryption yields a new ciphertext, which stands for
its own hash, its remote name and the identity of its transfer record. `cipher`
and `record` are the local files, `remote` and `sidecar` what the server holds
under the name of a ciphertext: possibly another ciphertext, or another record.
A run goes through `Open`, `Encrypt`, `Hash`, `WriteRecord`, `Connect`, `Upload`,
`Rename`, `Verify`, `Mark`, `Sidecar`, `Publish`, `Quit` for each archive, oldest first;
the first error ends the drain. Ciphertexts of one archive have equal size (same
plaintext, same recipient), so the size checks of the code cannot tell them
apart; nor do they see the `Damage` the server may do to what it stores.
Downloads and decryption change nothing that is shared; they are the
predicate `Recoverable`.

### BootstrapApply

A container is the lock in its labels and whether it runs; a volume is absent,
ours, or somebody else's. A run goes through `ReadContainers`, `ReadVolumes`,
`Judge`, and then either inspects what it listed (`Inspect` for one container after
another, `Answer`) or goes on with `CheckPorts`, `Pull`, `CreateVolume` for each
volume it did not see, `BeginUp`, `StartService` for each service, `UpDone`,
`PostCheck` (the second list), `Inspect` and `Answer` again, and from any
failure after `BeginUp` to `RollBack`. Each list and each inspection of a container is
a step of its own; what it saw is kept in `seen` and used later, as in the code. (The
look at the volumes is one step: volumes only ever appear.) `stale[r]` holds the
containers that somebody has changed since `r` listed them, or since it inspected
them: every step of anybody updates it (`Observe`). One that was replaced after the
list fails its inspection or, found again, passes it (`InspectionFails`): the list has
ids, and Compose keeps the id of a container it only restarts. `BeginUp` reads the
managed output as it is *then* (`using`), while the labels are compared with the
lock the run verified at its beginning (`mine`). `Resolve`, `Render`, `TakeDown`,
`StopContainer` and `ForeignVolume` are what others do meanwhile. A refused run
leaves the project as it is. No message of `apply.py` says what to do then;
`TakeDown` is the one thing that helps, a `docker compose down` by hand.

### HomepageSync

The actions of a sync in the order of the code: `Stage` (clone and copy), `Look`,
`MoveAside`, `Install`, `RenderProject`, `RemoveCaddy`, `CreateCaddy`, `Clean`. A
directory is identified by what it holds, not by its path: `public` is the one at
the public path, `served` the one that Caddy's container has mounted, `leftover`
those at hidden names. `CaddyFollows` conjoins to every step of a bootstrap what it
does to the mount: a start takes what is public, or makes an empty directory.
Every failing command leaves everything as it is, as the code has no `except`. `answer`
also tells a sync that repeats a failed one (`again`) and that such a repetition failed
(`stopped`), after which the guide (`docs/homepage-sync-guide_ja.md:29`) has the operator
report instead of trying on.

### InterfaceApply

`container[s]` is the order whose render the container was created from, `render[o]`
what is in `renders/<lock of o>`, `current` what `current.json` names. `Preflight`
is `_load_current_lock`, `detect_apply_mode` and `_validate_stateful_transition`;
`PublishFiles` and `PublishLock` are `_publish_render`, which writes the lock last;
`CreateVolume`, `RemoveOld`, `CreateNew` and `UpDone` are `compose up`; `Record`
replaces `current.json`. Two histories serve the properties: `opened`, the orders whose
game server has had the volume open, and `recorded`, those `current.json` has named.

### ContentStore and ArtifactStore

`ArtifactStore` follows `fetch_locked_artifacts` and `import_reviewed_artifact`:
`CheckPresent` or not, `Open`, `Copy`, `Flush`, `CheckDigest`, `Recheck` (imports),
`Link`, `Exists`, `SyncDir`, `Unlink`. A file is `part`, `cached` (right bytes, not
on the disk), `whole` or `bad`; `durable` holds the artifacts whose directory entry
has reached the disk. `PowerLoss` takes entries that are not durable and spoils
files that are only cached. Verification reads through the page cache, so that it
cannot tell `cached` from `whole`. `ContentStore` has the four steps that a reader of the
directory may see - put, keep, lose what was not kept, remove what is damaged - and
`ArtifactStore` implements it with the identity mapping (`StoreIsImmutable`).

### ConnectionRender

Files, lock and output are records. `Accepted` is what the adapters and the
one-order parser let through, `Semantic` their canonical form, `Output` what the
renderer writes for Caddy (`sites`), Scratch (`configs`, by file), Bridge
(`bridge`) and the internal network (`aliases`); `DoctorPasses` re-derives what it expects from lock and
output, as the code does. The canonical form sorts what
the adapters sort (aliases, web pairs, selections, plugins) and keeps every other list as it
is written: the catalog, the notices, and of the order file `[[operator_inputs]]` (`roles`,
whose order is in `semantic_sha256`) and `[[runtime.volumes]]` (`volumes`, copied into the
lock). `Resolve` replaces the lock unless it has the same
inputs; `Render` refuses a lock that is not what the files would resolve to, and
one that `PublicRenderable` rejects. The revisions of the renderer differ in extra
name pairs (17 on), selections per origin (19 on) and a heap (20).

What a file can say before it is checked is a set of its own (`Routes`, `Connections`,
`Plugins`, `Lan`, `Order`); the constants choose from these sets what the operator does
write. Names, ids and digests are numbers there, well-formed or not; `Host` maps the
spelling of a host name to that of a browser. An address as a file has it is such a name
and a port, which may be `Unwritten`; `Address` is what a browser connects to, `Origin`
the `Origin` header it sends from there. `Sorted` is
`sorted()` with a key, stated by what it returns: the elements, each once, in the order
of their keys. It is used only on lists whose keys acceptance has found distinct.

## 3. Runs

### Runs that pass

| Run | Question | Instance |
|---|---|---|
| `update_safety` | Whatever dies, fails, is edited or upgraded, and whoever else runs: do transactions exclude each other, are results true, is a project that was edited, resolved or rendered anew left alone and no other world touched? | two commands; three locks: one release with either operator inputs, hence plans in both directions, and one of another identity; one death and a failure at every step |
| `update_atomic` | Is an update one atomic change (`AtomicUpdate`), is no outage off the record, and does a retried transaction settle? | three releases, three plans, two deaths, failures at every step but the two named below, an upgrade |
| `restore_serial` | Attempt after attempt, is every prior root kept, and do reports and the server tell the truth? | three commands, two archives, three roots of which one is absent at first, any line and host operation failing, one death or restart |
| `restore_overlap` | Two restores at once, and helpers nobody waits for: is anything deleted, does every command that took the server down end with it up, or say that it is not? | two commands, one archive, two roots, timeouts, failing stops, starts and doctors |
| `backup_drain` | Is what is reported verified restorable, does a retry send the same bytes, does every archive get there? | one run at a time, two archives, two encryptions each, three faults |
| `backup_overlap` | Two runs overwrite each other's local files: is what a record calls verified really stored, and nothing replaced? | two runs at once, one archive, two encryptions, two deaths at any step or damaged objects |
| `bootstrap` | Is what a bootstrap answers true of every container nobody changed after its inspection, does it keep off volumes that are not ours, does a repetition recover? | two runs that may overlap, two locks, two services, two volumes, three faults, edits or foreign acts |
| `project_host` | Beside homepage syncs, host restarts and edits, are the answers of a bootstrap still true; is a deleted directory ever served, is what was synced what visitors get, and is one repetition of a failed sync enough? | one bootstrap, the same project, three faults or edits, two syncs and for each one repetition, four directories |
| `interface_apply` | Do worlds stay with their family, does no older revision than a recorded one open them, and does an applied deployment recover, whatever dies between volume, containers and record? | revision 1 of a family with two choices of targets, revision 2 with Caddy as a fourth service, one order of another family; three faults or edits |
| `artifact_store` | Are entries whole, durable and never replaced while calls overlap and power fails? | two calls, two HTTPS artifacts of which one is damaged, one reviewed artifact, two faults |
| `connection_render` | Do Caddy, Scratch, Bridge, DNS and doctor agree after any sequence of edits, resolves and renders, and is a lock replaced exactly when it should be? | revisions 16, 18 and 20, routes with up to two extra pairs, catalogs of two targets in either order, the lists of the order file in two orders, URLs in each spelling, refused inputs of each kind, two edits from every start |

Why the bounds are enough. *Update*: a transaction concerns one plan and one lock
holder; a second command shows exclusion, a second plan shows that one excludes
another, a third lock allows plans that skip or reverse one. Every hazard needs
at most one death inside the transaction and one in its resumption, which is two.
*Restore*: three roots are first, middle and last round of each loop, and "some
moved, some not" on both sides; the first attempt meets no leftovers, the second
those of one archive, the third those of two. *Backup*: with two archives one
can block or overtake the other; the second encryption is the one that makes two
ciphertexts of one archive, and each archive can take only one more than that. *Bootstrap*: two services and two
volumes are what "some, not all" needs, two runs what an overlap needs; the third
fault is the one that follows a cut run and the edit after it. *Project*: four
directories are public, served, staged and moved aside. *Interface*: an update,
a change back and a change of family, with one failure in each. *Store*: a third
call could only repeat what one of the two does, since calls meet at one link. *Rendering*:
the functions treat list members alike, so that two of a kind (first and other, selected
and not) show every case; one revision stands for each behaviour.

These exclusions are bounds of substance:

- `update_atomic` lets nothing die inside a rollback and nothing die or fail in
  the step `activate`. There the property does *not* hold: the first is
  the run `update_rollback_crash`, the second leaves a plan directory that does
  not exclude other plans. `update_safety` includes both; its properties say what
  still holds then. It has no operator edits either: an operator who edits and
  renders without starting has an output that differs from the containers with no
  transaction open.
- `backup_drain` lets nothing die or fail at `hash`, `record`, `sidecar` and
  `publish`, and the server damages nothing: a damaged object of the right size
  is refused by every read-back and never sent again, and a damaged record is
  not read back at all. A death between the replacement of the ciphertext and its record
  makes a state that every later transfer refuses; a failed `publish` loses the
  record for good (below). `backup_overlap` includes deaths at all of them.
- `backup_overlap` has two runs: the drain that a timer repeats and one transfer
  by hand. `Damage` strikes the first copy under a name only, since two
  runs that both saw it absent rename one after the other. With *three* at once
  `NothingReplaced` and `VerifiedIsStored` fail in the model: two runs that both saw the
  name absent rename one after the other, and the second replaces what a third has meanwhile verified. With two
  overlapping runs `SentIsRecoverable` fails: the sidecar that one publishes is
  the record file the other has just rewritten. It is checked for runs that do
  not overlap. Nothing in the code limits how many run.
- `bootstrap` and `project_host` count a bootstrap that begins while another is under
  way as a fault: two runs that began again and again in the middle of each other would
  take each other down for ever, and nothing in the code prevents it.
- `project_host` and `interface_apply` have one sync, one apply at a time, as the
  guides have one operator run them. Two overlapping syncs move each other's tree
  aside, and one may delete the directory that a Caddy started in between has
  mounted; two overlapping applies leave a `current.json` that names one and the
  containers of the other. Neither takes a lock.
- `NoForeignVolume` is checked and proved of bootstraps. Beside a sync it does not
  hold: the sync recreates Caddy without a look at Caddy's volumes, so one that
  somebody else made under that name is used. `BootstrapRecovers`, too, is checked
  of bootstraps alone.
- `BootstrapRecovers` assumes that no foreign volume is in the way, and
  `Reconverges` that the deployment was applied once: a first apply that fails
  after Compose made the volume is refused as `deployment_state_incomplete` until
  someone removes that volume, which no command of `mcrctl` does.
- The answer of a bootstrap is true of each container as it was when it was inspected:
  one that a sync recreates, or somebody stops, between its inspection and the answer is
  left out of `AnswersAreTrue` (`stale`). Nothing in the code looks again.
- `EveryOfferWorks` compares the Bridge's origins with those of browsers only where they are
  spelled as a browser spells them (`PlainOrigin`). The code takes them from the files as
  they are: a `scratch_url` with upper-case letters or an explicit `:443`
  (`deployment_interface.py:582`) and a home set whose Scratch port is 443
  (`render.py:1435`) are accepted and give an origin that no browser sends, so that the
  Bridge refuses the page. All three are in the run.
- `NoForeignOverwrite` speaks of order, lock and output, which is what the check of an
  apply compares (`deployment_update.py:1533`). An operator file that was edited and not
  resolved again passes that check and is replaced by the publication (1417): the run has
  such edits, and they are lost.
- `NoSilentOutage` counts a plan whose recorded phase is `prepared` as a record of the
  outage, so it says nothing of a stop that fails there with part of the source down.
- `NeverRunsMixed` does not count a root that is missing, and `VerifiedRollback` is about
  complete cutovers: what the rollback of a half-way cutover leaves is below.

### A run that finds the code at odds with its documents

| Run | What happens |
|---|---|
| `update_rollback_crash` | The target does not pass its doctor; the rollback publishes the source and the command is killed. `state.json` still says `target-published`, so the next apply starts and doctors what is live, the source, and records `complete`. |

The quotation and the line are in `PROJECT.json`, `findings`.

### What the models also do, and no run states

These follow from the same modules; they are behaviour of the code, and a reader of
the models should know of them:

- An upgrade of `mcrctl` between plan and apply: the source is checked with
  historical locks allowed (`deployment_update.py:1538`), the publication is not
  (1440). It fails once the source is down, the rollback fails likewise, and the
  plan ends in `rollback-failed`, which apply refuses for good.
- A deployment whose lock an older `mcrctl` resolved is accepted by planning in one
  place (1234) and refused by the doctor it calls (1123), so it cannot be updated.
- A cutover that fails in its first loop: the rollback moves the roots that had not
  been moved out, too, to the failed directory and brings back only the others
  (`restore.py:93`); "prior world was restarted" is reported of a world with roots
  missing. They are kept, in the failed directory (`PriorWorldKept`).
- The doctor fails again with an archive that was tried before: the rollback stops
  at the failed directory of the first attempt (`restore.py:88`), the restored
  world stays in place and the server is down, which is reported (`NoSilentStop`).
- The publication of a transfer record fails once (`backup.py:982`): the local record
  already says `download-verified`, so every later drain skips the archive, and the
  server never gets the record without which it cannot be restored from there.
- An update of a one-order deployment to revision 2 starts the game server on the world and
  dies, or fails, before `current.json` is replaced. The order is set back to revision 1;
  the transition is compared with the record only (`deployment_interface.py:943`), and
  revision 1 opens the world that revision 2 has had. The guide
  (`docs/deployment-interface-implementation_ja.md:13`) says that a step back is stopped
  whenever an existing world volume is reused; `NeverOlderThanRecorded` is what holds.
- Resolve accepts selections that name no served origin; only render refuses them
  (`render.py:769`), after the lock was replaced.

All runs but `connection_render` have `CHECK_DEADLOCK FALSE`: commands end, plans and
archives are finite and an operator need not begin another command.

## 4. Fairness

- *Update.* A command that runs takes its next step: `WF` of the steps of each
  process (all calls have timeouts and the code has no loop that waits). The
  operator applies an unfinished plan again: `SF` of `BeginApply` for each plan,
  as a retry can be refused while another command holds the lock. This is what
  the runbook tells the operator to do; without it no update can settle.
- *Restore.* A helper container at work and a command at work go on (`WF`);
  nobody has to begin a restore, and no retry is assumed.
- *Backup.* A run goes on (`WF`), and the timer starts a drain again and again
  (`SF` of `BeginDrain`): the guide describes drain as the command to register
  with a timer.

- *Bootstrap.* A run goes on (`WF`); bootstrap is run again (`SF` of `Begin`, which an
  unrendered lock or an overlap may disable), the operator renders what was resolved
  and takes down by hand what bootstrap refused (`SF` of `TakeDown`). The last is an
  assumption about the operator that no message or guide backs: without it a project that
  was cut in the middle of `compose up` is refused for ever.
- *Sync.* A sync goes on and one that failed is run again, once (both `WF`); a
  repetition that fails is not, as the guide says. Of the
  bootstraps beside it nothing is assumed.
- *Interface apply.* A run goes on (`WF`), apply is run again (`SF`), and containers that it
  refused as unmanaged are removed (`SF`).
- *Artifact store.* A call goes on (`WF`), fetch and each import are made again
  (`SF`), and the operator removes an entry that was refused as tampered (`WF`).
- *Rendering.* None: safety only.

Failures and deaths are never fair, and bounded.

## 5. Proofs

`DeploymentUpdate_proofs` proves, for every set of locks and processes, every
`CrashAt`, `FaultAt`, `MaxCrashes` and `Disturbances`, from the assumption
`DeploymentUpdateAssumption` alone (types of the constants; the markers are not
locks, plans or processes):

| Theorem | Statement |
|---|---|
| `TypeCorrect` | `Spec => []TypeOK` |
| `IdentityKept` | `Spec => StatefulIdentityKept`: no update leads to other volumes, worlds or families |
| `OneOpenTransactionHolds` | `Spec => []OneOpenTransaction` |
| `ResultsTrue` | `Spec => ResultsAreTrue` |
| `NoOverwrite` | `Spec => NoForeignOverwrite` |
| `OutageIsRecorded` | `Spec => []NoSilentOutage`, if `"edit" \notin Disturbances` |
| `UpdateIsAtomic` | `Spec => AtomicUpdate`, if `Uncut` |
| `Invariance` | `Spec => []IInv` |

The invariant `IInv` has six layers, each inductive relative to the earlier ones:

1. `TypeInv`: the types, and that a command past its choice has a plan (without
   it, `phase[cur[c]]` means nothing).
2. `Mutex`: who is not idle holds `transaction.lock`. All others use it to know
   that no other command moves.
3. `PhaseInv`: the recorded phase agrees with the step of the command that works
   on the plan, and only a plan past `prepared` rolls back. It is what makes a
   resumption from the recorded phase correct; a rollback may run with `prepared`
   on disk, when the record of the stop could not be written.
4. `ActiveInv`: an open plan is the active one, an orphan, or about to be
   activated, and while a plan is being made the active one is complete. From it
   `OneOpenTransaction` follows, and that no two plans are carried out at once.
5. `IdentityInv`: while a plan is carried out, the live lock has the identity of
   its source. This holds with orphans too, since every admitted step keeps the
   identity; so `IdentityKept` needs only layers 1, 2 and 5.
6. `ProjectInv`: while a plan is carried out and no orphan exists, the live lock
   is its source or its target; at `target-published` it is the target, unless a
   rollback is at work or was cut; before a result is recorded the deployment
   serves its own lock.

`OneOpenTransaction` is not inductive by itself: the step that would break it,
`BeginPlan` and `PreparePlan` of a second command, is excluded only through
`active.json`, whose relation to the phases is `ActiveInv`.

`OutageIsRecorded` needs `IInv` and no more: whatever stops or changes the containers
is a step of an apply, whose plan has an unfinished phase before and after it
(`ApplyUnresolved`), and the only step that finishes one, `RecordResult`, is taken
when the deployment serves its lock. An operator's edit replaces the output without a
transaction, hence the hypothesis.

`UpdateIsAtomic` is the refinement of `ReleaseTransaction`, step by step:
`PreparePlan` is `Propose`, `RecordResult` of an apply that does not roll back is
`Commit`, an exception during the rollback is `LeaveToOperator`, and every other step
leaves `Deployed` and `Status` as they are. Its hypothesis `Uncut` names what breaks
atomicity: an edit in the middle; a death or failed write between plan directory and
`active.json`; a death inside a rollback, or a result that is not recorded. Every other
death and failure is allowed, as in the run `update_atomic`. Under `Uncut`
one more invariant holds, `Clean`: the histories `orphans` and
`interrupted` are empty, and while the recorded phase is `prepared` an apply that is
past its check still has the source before it, or is about to put it back. With
`IInv` this gives `AtWork`: the plan being applied is the only one open, and
its source is what counts as deployed, whichever of the three phases is on disk.

`ArtifactStore_proofs`, from `StoreAssumption` alone (types of the constants), for any
number of calls, artifacts and faults:

| Theorem | Statement |
|---|---|
| `StoreTypeCorrect` | `Spec => []TypeOK` |
| `AnswersTrue` | `Spec => []AnswersAreTrue`: stored means whole and durable, present means whole |
| `ImplementsContentStore` | `Spec => StoreIsImmutable`: every step is one of `ContentStore`, or none that a reader sees |
| `StoreInvariance` | `Spec => []IInv` |

`IInv` adds two parts to the types and the answers. `TempInv`: the temporary file of a
call is as far as its step (flushed before it is hashed, hashed before it is linked),
so that only a whole file gets a name. `EntryInv`: no entry is partial or only cached,
and one that a call found absent is not bad when the call links it. The refinement needs
them in two steps: `Link` is a `Put` since the file is whole, and a `PowerLoss`
spoils nothing that is visible, since nothing visible is only cached.

`BootstrapApply_proofs`, from `BootstrapAssumption`, for any number of overlapping runs,
services, volumes and faults:

| Theorem | Statement |
|---|---|
| `VolumesAreOurs` | `BootstrapSpec => []NoForeignVolume` |
| `BootstrapAnswersTrue` | `BootstrapSpec => AnswersAreTrue`: of every container nobody changed after its inspection |
| `BootstrapTypeCorrect` | `BootstrapSpec => []TypeOK` |
| `BootstrapInvariance` | `BootstrapSpec => []IInv` |

`NoForeignVolume` is not inductive, since a container is started long after the volumes
were looked at. `IInv` bridges the gap: what a run remembers as its volumes is labelled
as `mcrctl`'s for as long as it remembers it (`SeenManaged`), and from `compose up` on it
remembers all of them (`SeenAll`). For the answers it says that a container which a run has
inspected is still as it was, or has changed since and is in `stale` (`Inspections`);
every step of every run and of everybody else has to keep that.

`HomepageSync_proofs`, from `HomepageAssumption` and `BootstrapAssumption`, for any number of syncs in
a row, bootstraps beside them, edits, failures, deaths and host restarts:

| Theorem | Statement |
|---|---|
| `CaddyServesWhatExists` | `Spec => []ServedIsOnDisk` |
| `SyncAnswersTrue` | `Spec => SyncedIsServed` |
| `BootstrapAnswersTrueBesideSync` | `Spec => AnswersAreTrue` |
| `HomepageTypeCorrect` | `Spec => []HomepageTypeOK` |
| `HomepageInvariance` | `Spec => []HInv` |

`ServedIsOnDisk` is not inductive: the last step of a sync deletes the directory it had
moved aside, and nothing in the state at that point says that Caddy does not have it.
`SyncInv` says it: the sync's own directory is public from `Install` on, differs from the
one moved aside, and is the one that any Caddy started since `RemoveCaddy` has mounted,
be it by the sync or by a bootstrap that came in between. What bootstraps remember
is taken over from `BootstrapApply_proofs` (`Remembered`, with `Inspections`), whose lemma
`AnswersStep` needs nothing else; `NoForeignVolume` is not, as it does not hold here.

`WorldRestore_proofs`, from `WorldRestoreAssumption`, for any number of commands,
archives, roots, failures and deaths. `OneAtATime` is `Serial /\ "timeout" \notin FaultAt`:

| Theorem | Statement |
|---|---|
| `RestoreTypeCorrect` | `Spec => []TypeOK` |
| `RestoreDeletesNothing` | `Spec => []NothingDeleted` |
| `RestoreKeepsPriorWorlds` | `Spec => []PriorWorldKept`, if `OneAtATime` |
| `RestoreNeverRunsMixed` | `Spec => []NeverRunsMixed`, if `OneAtATime` |
| `RestoreReportsComplete` | `Spec => RestoredIsComplete`, if `OneAtATime` |
| `RestoreReportsRollback` | `Spec => VerifiedRollback`, if `OneAtATime` |
| `RestoreSerialInvariance` | `Spec => []SerialInv`, if `OneAtATime` |

`RestoreDeletesNothing` holds without any hypothesis and is nearly inductive: a `mv`
carries a root along with all that is nested in it, and `rmdir` and the
clean-up take only what is empty or was never live. The other four are about a
volume that nobody else changes. A command that overlaps another one, or leaves a
helper behind when its wait times out, takes a volume in motion for the prior world;
then they do not hold. `SerialInv` says line by line how far a script has come
(`CutoverAt`, `RollbackAt`: roots below the loop's counter are done, the others
untouched) and what the command knows when the helper has returned or failed
(`Knows`). A rollback starts from any such point, so that `PartOfPrior` - each root
in the rollback directory is the prior one or none - is all it may rely on; after a
complete cutover it is all of the prior world (`FullRollbackAt`), which is why
`VerifiedRollback` is about that case only.

`BackupTransfer_proofs`, from `BackupTransferAssumption`, for any number of archives, runs,
encryptions and faults. `TwoAtOnce` is `Serial`, or no more than two runs in all;
`Undamaged` is `"damage" \notin FaultAt`:

| Theorem | Statement |
|---|---|
| `TransferTypeCorrect` | `Spec => []TypeOK` |
| `TransferInvariance` | `Spec => []WorkInv` |
| `TransferVerifiedIsStored` | `Spec => []VerifiedIsStored`, if `TwoAtOnce` |
| `TransferReplacesNothing` | `Spec => NothingReplaced`, if `TwoAtOnce` |
| `TransferPairInvariance` | `Spec => [](WorkInv /\ PairInv)`, if `TwoAtOnce` |
| `TransferKeepsCiphertext` | `Spec => CiphertextKept`, if `Serial` |
| `TransferSentIsRecoverable` | `Spec => []SentIsRecoverable`, if `Serial` and `Undamaged` |
| `TransferSerialInvariance` | `Spec => [](WorkInv /\ PairInv /\ SerialInv)`, if `Serial` |

The hypotheses are where the properties end: three overlapping runs break the two of
`TwoAtOnce`, two the last two, and a record damaged on arrival is not noticed, since only the
ciphertext is read back. Deaths are unrestricted in all of them. `WorkInv` ties what a
run has in hand to the local files: what another run rewrites it finds there still,
maybe newer. `PairInv` is the argument why two runs do not replace
each other's objects although the look for a name and the rename to it are two steps
(`Places`): two runs that hold the same ciphertext hold the newest one (`Shared`), and
a run whose record the other has overwritten sends the wrong record, but to a name
that nobody else has (`Overwritten`, `Alone`). `SerialInv` says
that a run encrypts only what has no record and that its record and ciphertext are
those on disk (`Retry`). That the archive in hand is the oldest one takes the only
well-founded argument of the project (`Least`).

`InterfaceApply_proofs`, from `InterfaceAssumption` (every order has Scratch, Bridge and
the game server), for all orders and any
number of failures, deaths, edits and removals:

| Theorem | Statement |
|---|---|
| `WorldKeepsFamily` | `Spec => []OneFamilyPerWorld` |
| `RecordLoads` | `Spec => []CurrentIsLoadable`: `current.json` names a whole render of a world that exists |
| `NeverOlder` | `Spec => NeverOlderThanRecorded`: no game server starts that is older than any order ever recorded |
| `InterfaceTypeCorrect` | `Spec => []TypeOK` |
| `InterfaceInvariance` | `Spec => []IInv` |

`IInv` says what the record stands for (`CurrentInv`), that it is the newest so far
(`RecordedInv`), that a world that was opened
exists (`WorldInv`), that a run past its checks may still do what they allowed
(`AdmittedInv`: nothing else moves while it works), and what it has published and
started by each later step (`ProgressInv`). Of these, `AdmittedInv` carries
the family from one record to the next: without a record a run is alone with the world.
`AdmittedInv` is where one run at a time matters.

`ConnectionRender_proofs`, from `RenderAssumption` (what the operator writes is what a
file can say; lower-cased file names are numbers like the others; `runtime/scratch.json`
is not the file of a host name), for any contents of the files, any number of pairs, targets,
selections, notices and plugins that acceptance allows, and any order of edits,
resolve, render and apply:

| Theorem | Statement |
|---|---|
| `OffersWorkAlways` | `Spec => []EveryOfferWorks` |
| `LinksServedAlways` | `Spec => []EveryLinkIsServed` |
| `RenderedPassesAlways` | `Spec => []RenderedPassesDoctor` |
| `SameLockForSameInputs` | `Spec => SameInputsSameLock` |
| `RenderInvariant` | `Spec => []RenderInv` |

The three invariants say nothing of the files, which may have changed since the output
was written; `RenderInv` says where lock and output come from: each is made from some
files that were accepted. What is left is about functions of data (`Rendered`): for
all accepted files, what `Output` makes of their canonical form keeps the promises.
For a public project it goes along the pipeline:

1. `AcceptedApart`: the check of all names in one row (`RouteNames`), four
   concatenated sequences, means that no two uses of a name that Caddy serves
   coincide (`Apart`).
2. `SortingExists`: a finite set with a key that tells its elements apart can be
   sorted, each element at the place given by the number of smaller ones. Therefore
   `Sorted` keeps the elements (`Resorted`), and the canonical form keeps `Apart`
   (`CanonicalRoutes`) and the selections (`CanonicalConnections`).
3. `Pages`: each page has targets, each once, and starts with one that it offers, by
   selection or, where pages do not select, because `PublicRenderable` has it.
4. `Sites`, `FileOfPair`, `Served`: Caddy serves each address once, and at the origin
   of each pair the file rendered for that pair. Here `Apart` matters most: the file is
   found by the name of the pair.
5. `PublicOffers`, `PublicLinks`, `PublicDoctor` compare what four renderers and
   doctor make of this; `HomePromises` and `InterfacePromises` do so for the other
   families.

`SameInputsSameLock` takes both directions. `Written` is what the operator wrote without
the order of the four sorted lists; the canonical form says the same (`WrittenKept`) and is
a function of it (`WrittenDecides`). Notices are meant in their order. The catalog and the
lists of the order file are not, at least where each page names its own targets, but the
code keeps their order in the lock, so reordering them replaces it, and the theorem says so.

Only model-checked:

- Liveness (`UpdateSettles`, `NoSilentStop`, `EveryArchiveBackedUp`,
  `BootstrapRecovers`, `HomepageComesBack`, `Reconverges`, `EverythingStored`), which is
  out of the prover's reach.
- The properties of restore and backup outside the hypotheses above, where they do not
  hold.

## 6. What is not modelled

- The content of volumes in an update: whether an older release can read what a
  newer one wrote is outside this code.
- A `docker compose` child that survives a killed `mcrctl`; the restore's helper
  containers, which do survive, are modelled.
- An operator who starts a container by hand in the middle of a restore.
- A plugin that rewrites an archive after the settle time, damaged archives in the
  outbox (one makes the scan raise, and nothing is sent until it is removed, as
  `tests/test_backup.py` requires), and a server that loses or damages what was
  already verified.
- Power failures anywhere but in the artifact store: elsewhere a death is that
  of a process or a restart of the host, not the loss of completed writes.
- What the renderer writes into `server.properties`, plugin configs, images, ports and
  heap, and the motd, server, homepage and backup inputs it comes from: fields that
  meet no other field. The validation of profiles, presets, environments and
  release manifests: pure checks of bundled files.
- `init`, `add` and `set` of a project: each is one parse and one atomic replacement. Two
  at once lose one edit; an `init` that fails half-way leaves a directory which the
  next one refuses.
- A `os.rename` of the sync that fails by itself: it has the effect of a death there.
- Hidden `.homepage.next.*` and `.homepage.previous.*` directories of failed syncs are
  never removed by anything; the model only lets their names be used again.
- Command line, helpers, host scripts, logs and reports.

## 7. Plan

Done: the update with its abstract transaction and proofs, restore, backup,
bootstrap and interface apply, homepage sync, the artifact store with its
abstract store, and the way from inputs to rendered services; with proofs of
their safety properties and of both refinements. Left, in this order:

1. A composition of update, bootstrap and restore on one volume and its
   `created-by-lock` label: bootstrap accepts a label of an older lock, restore
   refuses it.
2. Two interface applies at once, to state what still holds without a lock.
