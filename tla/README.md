# TLA+ models of kubedock's volume and network endpoints

kubedock serves the Docker and Podman (libpod) REST APIs and backs them with
Kubernetes. The modules here model its volume and network handlers and its
event stream. Each handler is a gin handler that runs in its own goroutine.
It calls an in-memory entity store (`cr.DB`) and the Kubernetes API, and it
holds no lock across those calls.

## 1. Inventory of the system

| Part | Source | State it changes | Operations |
|---|---|---|---|
| Volume endpoints, libpod dialect | `src/internal/server/routes/libpod/volumes.go` | store volumes; PVCs through the backend | VolumeCreate, VolumeDelete, VolumePrune; VolumeList, VolumeInfo, VolumeExists (one read each) |
| Volume endpoints, docker dialect | `src/internal/server/routes/docker/volumes.go` | same | VolumeCreate, VolumeDelete, VolumesPrune; same calls in the same order as libpod |
| Backend volume translator | `src/unnamed/part_001` (volume.go of the backend) | PersistentVolumeClaims | CreateVolume (labels, annotations, AlreadyExists absorbed), DeleteVolume (NotFound absorbed), DeleteVolumes, getVolumePVCName (63-character truncation), addNamedVolumes (pod spec) |
| Volume type and match | `src/unnamed/part_001` | none | Volume.Match, nameMatch |
| Network endpoints, libpod | `src/internal/server/routes/libpod/networks.go` | store networks; container memberships and aliases | NetworkCreate, NetworkDelete, NetworkConnect, NetworkDisconnect, NetworkPrune; NetworkList, NetworkInfo, NetworkExists (one read each) |
| Event stream | `src/unnamed/part_000` (Events) | bus subscriptions | subscribe, select loop over events and request cancellation, unsubscribe |
| System endpoints | `src/unnamed/part_000` | none | Version, Ping, Info |
| Entity store, event bus, filters | not under `src/` | containers, networks, volumes; subscribers | modelled from `spec.md` where a handler calls them |

How the parts interact:

- A volume handler looks a volume up in the store, calls the backend to create
  or delete the PVC `kubedock-vol-<name>` (cut to 63 characters), and then
  saves the volume to, or deletes it from, the store.
- A network handler works only on the store. NetworkConnect and
  NetworkDisconnect change the container entity that the store hands out by
  reference, and then save it.
- Every store call and every Kubernetes call is atomic by itself. Nothing
  makes a whole handler atomic.

Behaviours that make this code hard to test:

- Check-then-act across goroutines. Create checks that a name is free and
  saves later. Delete checks for members and deletes later.
- Kubernetes calls can fail, and a call that reports failure may still have
  taken effect (a timeout after the API server committed it).
- Errors are absorbed. AlreadyExists on create and NotFound on delete count
  as success.
- Prune loops work from a list taken when they start.
- The PVC name is cut to 63 characters.
- Events cancellation races incoming messages in a `select`.

## 2. Modules

### `VolumeService` (abstract)

This module says what the volume endpoints promise when each request is one
atomic step:

- `Create(n)` makes a volume with a fresh id, and the volume has its claim.
- `FailedCreate(n)` may leave an orphan claim behind. A later create of that
  name adopts it.
- `Delete(v)` removes the volume. It may also remove the volume's claim, but
  never a claim another volume still needs.

`VolumesBacked` is the promise these steps keep.

### `Volumes` (libpod `VolumeCreate`/`VolumeDelete`/`VolumePrune` and backend `CreateVolume`/`DeleteVolume`)

State:

- `volumes`: the store, as a set of `[id, name]`.
- `nextID`: the store's id counter.
- `pvcs`: the namespace's claims, as records of name, `kubedock.volumeid`
  label and volume-name annotation.
- `req`: one in-flight request per client goroutine, with its op, its step,
  the volume it holds, its prune work list and its response.

Each store or Kubernetes call is one action:

| Action | What it does |
|---|---|
| `VolumeCreateLookup` | `GetVolumeByName` |
| `VolumeCreateBackend` | `CreateVolume` |
| `VolumeCreateSave` | `SaveVolume` |
| `VolumeDeleteLookup` | `GetVolumeByNameOrID` |
| `VolumeDeleteBackend` | `DeleteVolume` |
| `VolumeDeleteStore` | `DeleteVolume` in the store |
| `VolumePruneList` | `GetVolumes` |
| `VolumePruneBackend` | `DeleteVolume`, one per volume of the list |
| `VolumePruneStore` | the store delete, one per volume of the list |
| `VolumeList` | `GetVolumes` of VolumeList |
| `VolumeLookup` | `GetVolumeByNameOrID` of VolumeInfo and VolumeExists (found or 404) |

Constants:

- `PlatformFaults` turns on the error paths. A failing create may still
  create the claim.
- `PVCPrefix` and `PVCNameLimit` scale the prefix `kubedock-vol-` and the
  limit of 63 down. Names are sequences of letters, so truncation is modelled
  by what it does (`SubSeq`).

`VolumeServiceRefinement` instantiates `VolumeService` with this mapping:

- A create that has passed the PVC call and not yet saved already counts as
  created.
- A delete or prune that has passed the PVC call already counts as deleted.

The docker handlers make the same calls in the same order, so the same
actions model them.

`getVolumePVCName` is `PVCName` in the small module `PVCNaming`. `Volumes`
and `PodVolumes` both extend it, so the claim a pod mounts and the claim
the backend creates come from one definition.

### `NetworkService` (abstract)

This module says what the network endpoints promise when each request is
one atomic step (spec §3 and §4.5):

- `Create(nm)` adds a network with a fresh id, for a name not yet used.
- `Delete(n)` removes a user-defined network that has no members.
- `Prune` removes exactly the user-defined networks without members.
- `Connect(n, k, as)` adds the membership. The new alias list starts with
  the old one and adds the request's aliases, lower-cased, each once.
  `AliasesMerged` states this with sets and prefixes. It does not use the
  code's fold.
- `Disconnect(n, k)` removes the membership of a user-defined network that
  the container has.

### `Networks` (libpod network handlers)

State:

- `networks`: the store's networks, as a set of `[id, name]`. The predefined
  ones exist at start.
- `nextNetID`: the store's id counter.
- `containers`: each container's network ids and aliases.
- `req`: one in-flight request per client, including the alias slice a
  connect read.

Actions, one per store call:

| Request | Actions |
|---|---|
| NetworkCreate | `NetworkCreateLookup`, `NetworkCreateSave` |
| NetworkDelete | `NetworkDeleteLookup`, `NetworkDeleteScan` (`getContainersInNetwork`), `NetworkDeleteStore` |
| NetworkConnect | `NetworkConnectLookup`, `NetworkConnectGetContainer`, `NetworkConnectSave` |
| NetworkDisconnect | `NetworkDisconnectLookup`, `NetworkDisconnectGetContainer`, `NetworkDisconnectContainer` |
| NetworkPrune | `NetworkPruneList`, `NetworkPruneScan`, `NetworkPruneStore` |
| NetworkList | `NetworkList` |
| NetworkInfo, NetworkExists | `NetworkLookup` (found or 404) |

The store lends the container entity itself (spec §3), and the handlers
change it in place with no lock held:

- `NetworkConnectGetContainer` is `GetContainerByNameOrID`, then
  `ConnectNetwork` on the live map, then the read of `NetworkAliases` that
  `done` and the appends start from.
- `NetworkConnectSave` stores the appended slice (line 169), and then
  `SaveContainer` stores the same entity again. A connect that appends
  nothing stores nothing.
- `NetworkDisconnectContainer` runs the predefined check, then
  `DisconnectNetwork` on the live map (404 if the container is not a
  member), then `SaveContainer`.

A concurrent connect's append that lands between the read and the store is
overwritten. This is one outcome of the Go data race on the slice.
Concurrent map writes may also make the Go runtime abort the process; that
outcome is not modelled.

The alias merge is `MergeAliases`, a `FoldLeft` over the request's aliases.
It lower-cases each alias through `ToLower` and skips any alias already
present.

`IsPredefined`, the lookups and the predefined networks created at start come
from the spec, because that code is not under `src/`.

`reported` is a history variable: the bag of networks that responses have
reported as removed. It grows in two places:

- a `NetworkDelete` answering 200;
- a `NetworkPrune` answering with its list. A prune that aborts with 404
  reports nothing.

`NetworkServiceRefinement` instantiates `NetworkService` with this mapping:

- A prune takes effect when it lists the networks. From then on, the
  user-defined networks of its list that have no members count as removed.
- Every other request takes effect at its last store call.

With two clients the refinement does not hold: two creates of one name
save two networks. That is the check-then-act of `NetworkCreate` at
networks.go:96.

### `VolumeFilter` (`Volume.Match`, `nameMatch`)

`VolumeFilter` is a pure algorithm, modelled as operators.

- `VolumeMatch` follows `Volume.Match`, and `NameMatch` follows `nameMatch`.
- `regexp.MatchString` is modelled by what it does on a fragment of RE2:
  - literals, `.` and `*`;
  - `(`, which stands for a key that does not compile. The model refuses
    `(`, a leading `*` and `**`, as RE2 does.
- `MatchString` is a recursive backtracking matcher, unanchored at both ends.
- The checked state is one input: a volume and a query. Every bounded
  input is an initial state.
- `MatchMeetsContract` compares the code with the contract of spec §4.2 and
  §8. The reference states the regular-expression semantics in closed form:
  some substring of the name splits into one block per atom. It does not
  use the matcher.
- Names range over letters and metacharacters, because `VolumeCreate`
  accepts any name.

### `PodVolumes` (`addNamedVolumes`)

- The loop over the Go map of mount paths runs one iteration per step, in
  any order.
- Each iteration appends a pod volume `nv-<name>`, backed by `PVCName(name)`,
  and a mount that references it.
- `PodVolumePrefix` scales `nv-` down, as `PVCPrefix` scales
  `kubedock-vol-`.

The run checks only the type. Each iteration builds its pod volume and its
mount from one name through one `PVCName`, so no walk order can mismatch
them. The two bugs this code does have are in single requests (section 4).

### `Events` (libpod `Events` and the event bus)

State:

- the bus: `subs`, `chan` (one FIFO per subscriber, of capacity
  `BufferSize`) and `published`, the log of published events;
- each stream's `pc`, `filter`, `from` (the log position when it
  subscribed), `dropped`, `cancelled` and `written`.

Actions:

| Action | What it does |
|---|---|
| `StreamSubscribe` | lines 101-113: header, filters and `Subscribe` |
| `StreamDone` | the `ctx.Done()` case: `Unsubscribe` and return |
| `StreamReceive` | the message case: encode and flush when the filter matches |
| `Publish` | the bus, from spec §4.3: appends to every registered channel, and drops the event for a full one instead of blocking |
| `Cancel` | the client disconnects |

No fairness is assumed and no liveness property is stated. That a
cancelled stream unsubscribes rests only on Go's `select` choosing among
ready cases at random. A model can only assume that as fairness, and the
property would then restate the assumption.

## 3. Runs

| Run | Expect | Checks | Shows |
|---|---|---|---|
| volumes_sequential (`MCVolumesSeq.cfg`) | pass | `TypeOK`, `QuiescentVolumesBacked`, `VolumeServiceRefinement` | One client with faults on: the handlers implement `VolumeService`, and orphan claims from failed creates are adopted. |
| volumes_concurrent_create_duplicates (`MCVolumesDupName.cfg`) | violation | `VolumeNameUnique` | Two concurrent creates of one name save two volumes. |
| volumes_concurrent_claim_loss (`MCVolumesRace.cfg`) | violation | `QuiescentVolumesBacked` | A create racing a delete saves a volume whose PVC is gone. |
| volumes_truncated_claim_shared (`MCVolumesTruncation.cfg`) | violation | `QuiescentVolumesBacked` | Even with one client, names equal up to the limit share a PVC, and deleting one volume unbacks the other. |
| networks_sequential (`MCNetworksSeq.cfg`) | pass | `TypeOK`, `NoDanglingMembership`, `NetworkServiceRefinement` | One client: no container is left on a deleted network, and the handlers implement `NetworkService`, including the case-folded alias merge and a prune that removes exactly the unused user networks. |
| networks_concurrent (`MCNetworksConc.cfg`) | pass | `PredefinedNetworksKept`, `RemovalReportedOnce` | Two clients on one container: the predefined network is never removed, and of two deletes or prunes of one network only one reports the removal, after it happened. |
| networks_delete_connect_race (`MCNetworksDangling.cfg`) | violation | `NoDanglingMembership` | The delete/connect race leaves a container attached to a deleted network. |
| networks_prune_aborts (`MCNetworksPrune.cfg`) | violation | `NetworkPruneNeverFails` | A network deleted during a prune makes the whole prune return 404. |
| networks_lost_update (`MCNetworksLostUpdate.cfg`) | violation | `AliasesNeverLost` | Two connects on one container with different aliases both read the alias slice, and the later store drops the other's alias. |
| volume_match (`MCVolumeFilter.cfg`) | pass | `MatchMeetsContract` | `Volume.Match` meets the spec's contract on all 29,160 bounded inputs. |
| pod_volumes (`MCPodVolumes.cfg`) | pass | `TypeOK` | In any map order, over names some of which truncate, `addNamedVolumes` builds pod volumes and mounts of the shape the pod spec needs. |
| events (`MCEvents.cfg`) | pass | `TypeOK`, `StreamFaithful` | Streams write exactly their accepted events in publication order while they keep up. |

`PROJECT.json` records each violation as a finding, with the source line and
what the spec says instead.

Bounds:

- Two client goroutines are enough for every race found: each needs one
  interleaving of two requests.
- Three volume names at PVC limit 3 keep the claims distinct, so the
  one-client run prunes up to three volumes in every order.
  `MCLongNames` uses two names of length 3 with a shared prefix, so that
  they collide after truncation.
- `MaxNetworkIDs` is 3, and `MaxVolumeIDs` 3 in the two-client runs and 4
  in the one-client run. That allows a create, a delete and a re-create of
  the same name, which the stale-prune and adopted-orphan cases need.
- Networks use one user network name besides `bridge`. The concurrent runs
  use one container, the sequential run two.
- The two alias spellings `Web` and `web` fold to one alias. The one-client
  run sends up to two aliases per request, so a single request can carry
  both spellings. The concurrent run sends one. The lost-update run uses
  two different aliases, `web` and `db`, one per connect.
- Client permutations give symmetry in the two-client network runs. Clients
  are interchangeable goroutines, so this symmetry is sound. The events run
  uses none.
- Filter inputs:
  - names of up to 2 characters and keys of up to 3, over `a`, `b`, `.`,
    `*` and `(`;
  - one label key, with an empty and a non-empty value.

  This covers every branch of `Match` and every compile error.
- Pods have three mount paths over names of length 1 to 3, two of which
  truncate.
- Events:
  - two streams, with any filters;
  - three events of two kinds;
  - channel capacity 1, so that both overflow and no overflow happen.

Deadlock is checked in the volume and network runs. Each request can always
finish, and deletes and lookups stay enabled, so those systems never stop.
Three runs say `CHECK_DEADLOCK FALSE`, because the modelled code really
stops:

- `VolumeFilter` has no steps;
- `addNamedVolumes` returns;
- an event stream returns, or blocks in its `select` with nothing to
  receive once the bounded publisher is done.

## 4. Not modelled

- **docker/volumes.go**. The docker volume handlers make the same store and
  backend calls in the same order as the libpod ones. They differ only in
  the JSON they render, so the `Volumes` actions stand for both. Separate
  docker definitions would only duplicate them.
- **What the read handlers render.** VolumeList, VolumeInfo, VolumeExists,
  NetworkList, NetworkInfo and NetworkExists are actions: one atomic store
  read each, answered 200/204 or 404. The JSON they write is left out. The
  per-volume filter VolumeList applies is `VolumeFilter`. No property is
  stated about them: an atomic read answers from the state it reads, and
  the refinements see them as stuttering steps.
- **Filter engine** (`filter.New`, OR within a type and AND across types) is
  not under `src/`. The event stream uses it reduced to the set of kinds it
  accepts.
- **DeleteVolumes**. Its only caller is the shutdown cleanup outside
  `src/`, so no request interleaves with it.
- **VolumePrune removes volumes in use.** Both prune handlers delete every
  volume, mounted or not. The spec (§4.4, §7) describes prune as removing
  the listed items best-effort and never restricts it to unused volumes, and
  starting pods is outside its core. Composing `Volumes` with `PodVolumes`
  would therefore check a rule nothing in the repository states.
- **Events written after cancellation.** When both `select` cases are
  ready, Go may keep writing events after the client has gone. The model
  allows this; it is harmless, so no property is stated about it.
- **Single-request bugs met while modelling.** A unit test reaches each of
  these, so the project spends no run on them:
  - `CreateVolume` labels the claim with `vol.ShortID()` before `SaveVolume`
    assigns the id (`part_001:77`), so the `kubedock.volumeid` label is
    empty.
  - `addNamedVolumes` names pod volumes `nv-` + name without truncation
    (`part_001:181`). A volume name longer than 60 characters therefore
    makes an invalid pod.
  - One volume mounted at two paths gives two pod volumes of the same name
    (`part_001:180`).
- **Duplicate network names.** `NetworkCreate` checks the name and saves
  later, the same check-then-act as `VolumeCreate`. The Networks model
  contains that interleaving, but only the volumes run states the
  uniqueness property.
- **Events header before subscription.** The handler flushes the 200
  header before it subscribes to the bus. A client that acts on the header
  can miss events published in between. The spec promises delivery only
  from registration, so no property states this. It is listed as a hazard.
- **Version, Ping, Info, route registration and the headers middleware** are
  not modelled: they hold no state.
