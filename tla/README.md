# caddy-etcd in TLA+

caddy-etcd is a storage module for Caddy: it implements CertMagic's `Storage`
interface on top of etcd, so that several Caddy instances share certificates and
lock each other out while they obtain them. This directory holds TLA+ models of its
lock, its storage operations, the lock and the storage together, its directories, its
pipeline of operations and the life cycle of the module with its configuration, the TLC
configurations that check them, and TLAPS proofs of what matters most. Paths such as
`src/etcd.go` are relative to the repository.

`PROJECT.json` is the machine-readable index: which definition models which lines,
which run checks which property, the hazards and the findings.

## 1. The system

| Component | State | Operations | Hard behaviour | Correct when |
|---|---|---|---|---|
| Distributed lock (`etcd.go` 36-51, 126-317; `cluster.go` 116-124) | one record per key in etcd (token, time obtained, lease ID); leases; the process's random token | `Lock`, `Unlock`, each retried by `execute` | Get and Put are separate requests; clocks differ; a Put may arrive after its client gave up; crashes; retries | at most one process holds a lock; a lock left behind is taken over; calls return |
| File storage (`etcd.go` 53-71, 386-657) | two etcd keys per value: the value and its metadata | `Store`, `Load`, `Delete`, `Metadata` (`Stat`, `Exists`) | writers use one transaction, readers two requests; failed calls may have had their effect | calls look atomic; value and metadata agree; no false alarm about data at rest |
| Directories (`etcd.go` 319-384, 572-657, 663-734; `cluster.go` 147-166; `operations.go` 330-417) | none of its own: the flat key space that values, metadata and locks share | `List`, recursive or not; the loops of `Metadata` and `getMD` | keys are told apart by prefixes and substrings; clients may use names of metadata and of locks, and other storages share the key space; metadata stamped by several clocks, some undecodable | values keep their metadata; exactly the keys asked for are listed; `Stat` agrees; size and time are those of the files |
| Locked storage (`cluster.go` 116-180) | none of its own: what a caller that has the lock has read and written | `Lock`, `Load`, `Exists`, `Stat`, `Store`, `Delete`, `Unlock` of one name | nothing ties the storage to the lock: a write may outlive the lock it was made under | what the holder of a valid lock has read stays so |
| Pipeline (`operations.go` 21-50, 177-466) | the list of commits and rollbacks, the backoff policy | `pipeline` over `set`, `del`, `setMD`, `get`, `exists`, `getMD`, `noop` | requests that fail after their effect or before it, and late; rollbacks that fail | what can be undone is undone, in order; reads see the writes before them |
| Life cycle (`cluster.go` 22-114, `etcd.go` 82-115, `operations.go` 52-175) | the shared `cluster`, its configuration and its service with an etcd client | `New`, `Provision`, `Validate`, `getClient` | one shared object for all loads; reloads replace the service under the storages in use; loads fail half-way | no reload and no failed load changes what a service in use works with |
| Configuration (`config.go`, `caddyfile.go`) | `ClusterConfig` | options, `Validate`, environment, Caddyfile | services share the object with parsers; a parse fails half-way; one source is never validated | what runs has been validated and does not change |
| Rate limiter (`ratelimit.go`) | a token bucket of the library | `wait` | | |

CertMagic calls `Cluster`, whose methods forward to one `etcdsrv`. The goroutines of
a process share the `etcdsrv`, its client and the token; processes share nothing but
etcd. There are no callbacks and no state cached between calls: between processes, all
interaction goes through the keys in etcd, so what the models have to get right is which requests a
call makes, in which order, what it keeps between them, and what it does when one
fails.

All processes are assumed to be configured alike: the model has one `LockTimeout` and one `RequestTimeout`. The code does not
see to it. Line 192 of `etcd.go` compares the age of a record with the *reader's* `LockTimeout`, so that a process with a shorter
one takes locks whose holders count on a longer one.

## 2. Modules

| Module | Models | Composition |
|---|---|---|
| `TimedLock` | what the lock promises (abstract) | instantiated by `EtcdLock` |
| `EtcdLock` | the lock on one key | `MCEtcdLock` gives it values, `EtcdLock_proofs` has its proofs |
| `AtomicStorage` | what the storage promises (abstract) | instantiated by `EtcdStorage` |
| `EtcdStorage` | Store, Load, Delete, Metadata, request by request | `MCEtcdStorage`, `EtcdStorage_proofs` |
| `LockedStorage` | what a worker that has locked a name may conclude | extends `EtcdLock`, instantiates `AtomicStorage`; `MCLockedStorage`, `LockedStorage_proofs` |
| `Directories` | the key space, List and its filters, the metadata of directories | `MCDirectories`, `Directories_proofs` |
| `Pipeline` | pipeline, retries and rollbacks | run directly; `Pipeline_proofs` |
| `ClusterModule` | the Caddy module, its configuration, its services | `MCClusterModule`, `ClusterModule_proofs` |
| `FiniteSums` | nothing: lemmas about sums over finite sets | used by `EtcdStorage_proofs` and `Directories_proofs` |

In each module the definitions commented *Variant* are mistakes one could make in
the code. No specification uses them; a property is expected to fail when its
definition is replaced by the variant (`mutants` in `PROJECT.json`).

### EtcdLock and TimedLock

A worker is a goroutine. `call[w]` is its program counter and the local variables of
`lock` or `Unlock`; `lockKey` and `leases` are etcd's state; `late` has the Puts whose
client no longer waits for them; `hold[w]` is what the caller of `Lock` believes and
exists for the properties only. Each round trip is one action (`Grant`, `GetLock` or
`LockExists`, `PutLock`; `UnlockGet`, `Revoke`), each has a failing twin, and taking the
timestamp is an action of its own (`Stamp`) because time may pass between it and the
Put. A failed attempt goes to `RetryOrStop`, which is `backoff.Retry`: wait for some
interval and try again, or give up if the wait would pass `MaxElapsedTime`. A lock
attempt makes a new context; all attempts of one `Unlock` share one, as in the code.

Goroutines of one process share the token, so that `Lock` succeeds in all of them and each writes its
own record over the other's. `HoldIsBacked` says that this does no harm to other processes: while
somebody has a fresh lock that is not lost, a record of its process that is as fresh is in etcd, although a
sibling's `Unlock` may revoke the lease that the record names. The record would go with the lease if the
Put were attached to it, as the comment at `src/etcd.go:288` has it: the variant `RevokeDeletes` shows what
a sibling's `Unlock` would do then.

Time: a record is kept with its age instead of its timestamp, and `Tick` makes
everything older. `Skew[t]` is how far a process's clock is ahead, so the age a reader
computes is `age + Skew[reader] - Skew[owner]`. A lock counts as `Fresh` while that is below the timeout for every reader
(`YoungAges`). Skew is therefore not shown to be harmless: what the properties say is that a clock that is ahead of the holder's shortens the
protection by as much as it is ahead, and does nothing worse. Ages are counted up to `AgeCap`, which
must be large enough that a record of that age is expired for every clock
(`CapAssumption`); beyond it nothing changes any more. `Crash` ends every worker of a
process; a restarted process has a new token and is another member of `Token`.

`Obtained` is stamped before the Put that writes it, and the Put may take until the deadline of the attempt. `YoungOnReturn` says
that this is all: when `Lock` returns nil, less than `RequestTimeout` of the lock's lifetime is gone. `Validate` does not compare the two timeouts, and with
`RequestTimeout > LockTimeout`, as in the run `locked`, a lock may be past its timeout when its caller gets it; with
`RequestTimeout <= LockTimeout` it never is (`FreshOnReturn`, a theorem).

Two properties say what liveness rests on. `CallsRunDown`: every step of `Lock` or `Unlock`, successful or not, lowers
`StepsLeft`, and neither time nor another worker raises it; what counts is that `execute` charges a wait to `MaxElapsedTime` before it waits. `OrphansRunOut`:
once a process is gone and nothing of it is under way (`Gone`), the time others have to wait for its record (`TimeToWait`) shrinks
with every tick and never grows.

No record is attached to a lease (the Put has no option), so expiry of a lease
changes nothing but a later Revoke, and may happen at any time.

`TimedLock` is what callers may count on: `locking`, the workers inside `Lock`, and `valid`, the age of the lock each of them may rely on, if
it has one. `Lock` returns nil either when no other process has a valid lock (`Granted`), or by
voiding the locks of all others (`Seized`), which is the unguarded Put. Nothing but a returning `Lock` makes a lock valid. What ends it is its
age, and no sooner than some clock sees it timed out (`TimePasses`), the death of its process (`Dies`), its
own worker's `Unlock`, the next `Lock` of that worker, or a Put that overwrites a record it has not seen (`Seized`, and `Overwritten` if the `Lock` that sent
it has failed); every other step leaves it as it is, the `Unlock` of a sibling included. `astray` says whether such a Put can be under way.
The refinement mapping takes for valid the holds that are fresh, not lost, *and whose process has the record in etcd*, because nothing else keeps the
others out; `KeepsPromise` is the abstract specification under this mapping. That a sibling's `Unlock` ends nobody's lock is therefore part
of it: with the variant `RevokeDeletes` it fails.

### EtcdStorage and AtomicStorage

`file` and `md` are the two keys of each path. `op[c]` is the call client `c` is in. Stores
and deletes are one transaction (`Apply`); `Load` and `Metadata` make two requests.
`Store` also looks the metadata up first, but builds the same transaction whatever it
finds; the action is there because it can fail. `Fails` stands for every error path: a
failed request, the limiter, a deadline, a value that cannot be decoded. `ReplyLost` and
`LateTxn` are the transactions that take effect although the caller is told they did not.

`AtomicStorage` is a map with calls that take effect at one moment between invocation
and return, or fail; a failed write may take effect later, once. The refinement mapping
takes `file` for the map. `Known(c)` says when the answer of a call is fixed: `Load` answers
"does not exist" with its first request and anything else with its second. `Metadata`
of a path below which nothing can be is known not to exist at the first request; a
directory is decided by the second. This works only if no path is both file and
directory (`FilesAreLeaves`, which CertMagic's naming satisfies): otherwise `Metadata` could
miss a file stored between its two requests and report the directory, or not exist.

### LockedStorage

`EtcdLock` is extended by a storage of one name, and the storage is `AtomicStorage`: that `EtcdStorage`
implements it is checked by the run `storage` and proved, so that the composition does not repeat its
requests. The lock is there message by message. A worker calls `Lock`, then the storage as often as it likes,
then `Unlock`; no step of the storage looks at the lock, as in the code.

`view[w]` is the set of contents the name can have for all that worker `w` knows. A read narrows it down, a
write fixes it, a failed call widens it to everything, and so does the return of `Lock`. An `Exists` that
fails answers false (`src/cluster.go:144`); it counts as a failed call, because nobody may conclude anything
from it. A write that takes effect leaves the views of other processes' workers alone if the
writer's lock is valid (fresh and not lost), and voids them all otherwise; a late write voids all. `ViewHolds` then says
that the view of a worker with a valid lock contains what is stored. This needs the two halves to fit: if two
processes could have valid locks at once, a write of one would leave the other's view behind. A crash of a
process ends its calls of the lock; its requests to the storage stay under way.

### Directories

A path is the sequence of its segments below the key prefix; metadata is at `md/k`, locks
at `lock/k`, and `kv` is all of it, as in etcd: a client that stores a value under the name `md/k` writes over the
metadata of `k`, and one under `lock/k` over its lock. `KeySpacesApart` says that nothing but this goes wrong: every
path whose own name is `Clear` keeps its value and its metadata together.

`HasPrefix` is etcd's prefix query on strings: its last segment may match the
beginning of a longer one (`Longer`), which is how a listing of `one` contains keys of
`onesie`. `others` are the keys of another storage whose key prefix begins with this one's, as `/caddy2` does: the
search for the whole storage is for the prefix without a slash after it, so that a recursive listing of everything
returns them, with `2/` before their names, locks included, although the prefix is called a "namespace" at
`src/config.go:500`. That is the run `directories_neighbour`; `ListSound` is about the keys of this storage only, and the theorem `OnlyWholeListingsLeak` says that no
other listing shows the neighbour's. `HasMD` is the test for the substring `/md/`.
`RootPrefix` is the key prefix `/`, for which the code cuts the leading slash off the key, so that neither the test nor the
non-recursive filter works: `SkipsMetadata` is checked and proved for other prefixes, and the theorem `RootListsMetadata` shows that it
is wrong for this one.

"List returns all keys that match prefix", says `src/cluster.go:147`; the filters leave out keys
with an empty value, which they take for directories, and no listing has keys below a directory called `md`.
`ListComplete` states what is left: every other key is found.

`Metadata` and `getMD` look at the path itself and else at what is below it (`Children`); `Aggregate` is the loop of both over what
the second request finds, in the order of the keys, and `Add` its body. They differ in the time they start from: `getMD` starts from the current time and so
reports the time of the question, although its comment says that it "finds the latest timestamp from
children" (`src/operations.go:322`). Nothing but tests calls it.

### Pipeline

`done` has the operations whose effect is in place, `saw` what the commits that read have read. A request that fails
has had its effect, will never have it, or is in `late`, to be carried out at any time (`LateRequest`), because its
context has no deadline and nobody knows what became of it. `StepsLeft` counts the attempts that commits and rollbacks have left;
`StepsRunDown` says that each step of `pipeline` lowers it and no late request raises it. That `pipeline` returns does not follow: its requests have no deadline, and it
waits as long as etcd does not answer. `stuck` has the rollbacks that failed after all
attempts, `revived` the items that a late request has put back when the commits were over; both
exist for the properties, which exclude them: the code has no means against either.
The comment of `tx` speaks of "atomic execution" (`src/operations.go:180`); what the code gives is
`LeftBehind`: the commit that failed may have had its effect and is not rolled back. After success no late request can do
harm, because each repeats what is in place.

### ClusterModule

`clusterCfg` and `clusterSrv` are the two fields of the one `Cluster` of the process. Configurations are
objects with identities (`obj`), because services keep pointers to them; so are services
(`svc`). `New` makes the first configuration from the environment, or ends the process. A parse of a
Caddyfile (`parsing`) is many steps: it gives the Cluster a new default configuration, and each directive
writes into whatever configuration the Cluster has at that moment; it may fail at any of them and
leaves what it has written. A load is `LoadStarts`, `Provision` or `ProvisionFails`, `ClusterValidate`,
`CertMagicStorage`; Caddy does one load at a time, but parses Caddyfiles whenever it is asked to
adapt one, during a load too. `storages` are the copies of the Cluster that CertMagic still uses.

Settings are abstracted to what the checks tell apart: not set, acceptable, or accepted by the
option and refused by `ClusterConfig.Validate` (a lock timeout below one second, a server without
a host). Each option has the outcomes its code allows (`Checked`, `Refusing`, `Ignoring`, `Emptying`): a certificate may be
gone when `Validate` looks for it, a dial timeout that is accepted is never refused later, a bootstrap
Caddyfile that cannot be read leaves the setting as it was. The members of `Option` are the arguments that occur, in the environment or in a Caddyfile. `from`
and `raced` exist for the properties only: where a configuration comes from, and whether a service
was built while a Caddyfile was being parsed.

## 3. Runs

Each run finishes within about a minute with two workers.

| Run | Checks | Bounds |
|---|---|---|
| `lock_safety` | `TypeOK`, `MutexUnlessLost`, `HoldIsBacked`, `KeepsPromise` | two goroutines of one process and one of another whose clock is a tick ahead, a lock timeout of 2 ticks and a request timeout of 1, two leases, one late Put |
| `lock_liveness` | `CallsReturn`, `CallsRunDown`, `OrphansRunOut`, `StaleLockTaken` | two processes, one tick of elapsed time for retries with waits of 1 or 2, timeouts of 1, two leases, no late Puts |
| `locked` | `SystemTypeOK`, `ViewHolds`, `YoungOnReturn` | two processes, one value or none, two leases, a lock timeout of 1 tick and a request timeout of 2, one late write, no late Put |
| `storage` | `TypeOK`, `Agreement`, `AlarmOnlyWhenStale`, `Linearizable` | two clients, two files in a directory, two values, one late transaction |
| `directories` | `TypeOK`, `KeySpacesApart`, `ListComplete`, `ListSound`, `StatMatchesList`, `SizesAddUp`, `ModifiedIsLatest`, `SkipsMetadata` | three paths that nest, begin alike and contain `md`, and the names of the metadata of one and the lock of another; one key of another storage, written and deleted at any time; sizes 0 and 1, times 1 and 2; every content of them |
| `pipeline` | `TypeOK`, `LeftBehind`, `EffectsInOrder`, `ReadsSeeWrites`, `StepsRunDown` | five commits, the third of which reads, three rollbacks, two attempts, two late requests |
| `cluster` | `TypeOK`, `EnvConfigValid`, `ConfigStable` | two parsers, three configurations, two services, every environment over seven options, one at least of each kind |

Why the bounds are enough: the races in the lock and the storage need two actors, one
of whom acts between two requests of the other, and a third message that is late; all
of these are in, and in `lock_safety` a sibling of one of them. `lock_safety` makes no retries: an attempt that `execute` repeats makes the same requests as one that a caller
starts, and `lock_liveness` has the retries. The proofs cover any skew and any timeouts. In `locked` a write is late, a lock
expires and a process dies, each of which can void a view; the request timeout is the longer one, so that time passes between the stamp of a lock and its
Put. The pipeline needs a read between writes, a commit that has no
rollback, and a request that is late when its rollback has run. The cluster
needs one configuration from the environment and one for each of two parsers, and a service that
is replaced by another. The values and paths are told apart only by equality. Beyond
that the proofs cover every size.

Five runs show that a comment in the code does not describe it; each is a finding in
`PROJECT.json` with the line it contradicts.

| Run | Refuted | Counterexample | Proved to hold |
|---|---|---|---|
| `lock_race` | `MutualExclusion` | both processes Get the free key, both Put, both return nil | while calls of `Lock` do not overlap and no Put comes late |
| `lock_release` | `UnlockReleases` | Lock, Unlock: the lease is revoked, the record stays | never |
| `storage_checksum` | `ChecksumMeansCorruption` | Store between the two Gets of Load | while no write comes between the two Gets, or late |
| `directories_neighbour` | `ListStaysInNamespace` | the storage at `/caddy2` stores a value, a recursive listing of everything at `/caddy` names it | for every other listing |
| `cluster_validate` | `ValidatedBeforeUse` | a Caddyfile is refused at its endpoints and leaves a server without a host behind; the next load uses it | while no Caddyfile is parsed |

The gap that `cluster_validate` shows is open for Caddyfiles that parse to their end, too: one with a lock timeout below one second, which `WithTimeout` accepts, is loaded and
nothing refuses it. TLC reports the refused one because it takes fewer steps.

`MutexUnlessLost` is what remains of mutual exclusion in spite of `lock_race`: the
unguarded Put is the *only* thing that breaks it. If the Put were conditional on what
the Get saw, no `hold` would ever be `lost` and the property would be mutual exclusion.

### Fairness

* `Progress` (for `CallsReturn`): time passes, and a call under way takes its next step, be
  it a success or a failure. The code justifies it: every request is made with a context
  that has a deadline, waits are timers, the rest is local.
* `Reachable` (the premise of `StaleLockTaken`, no part of the specification): a request that can succeed again and again
  does so again and again, and leases expire. This is an assumption about etcd and the
  network: if every Grant fails, nobody gets a lock.
* `Pipeline` has none. The code sets no deadline for the requests of its operations, so that it may wait for ever.

No specification assumes that a worker calls `Lock` or `Unlock`.

## 4. Proofs

All theorems are proved for every value of the constants that satisfies the assumptions
named in the modules. The assumptions are the types of the constants, `CapAssumption`, and
that the "none" values are not values. Every safety property that a passing run checks is also a theorem.

Some of what is proved is recursive: sums over sets and a loop over keys. Such facts are proved by a *least counterexample*. If
the statement failed for some set (or after some number of rounds), it would fail for a smallest one, by `LeastSet` (or `LeastNumber`), and hold for everything
smaller, which the one step of the recursion refutes. The least element exists because the order is well-founded, which the library
has as a fact, so that no induction rule is instantiated.

* `EtcdLock_proofs`
  * `TypeCorrect`: `Spec => []TypeOK`. The type invariant is strengthened by `Good`, which says
    that a call between Grant and Put has a lease.
  * `MutualExclusionUnlessLost`: `Spec => []MutexUnlessLost`, and `HoldStaysBacked`: `Spec => []HoldIsBacked`. The inductive
    invariant `MInv` says that a fresh hold that is not lost is backed (`HoldIsBacked`): the lock key has a record of the
    same process that is at least as fresh; and that whoever is about to overwrite such a
    record (a call between Get and Put, or a late Put) belongs to the same process or
    is marked stale. Mutual exclusion itself is not inductive, because it says nothing about
    Puts that are under way.
  * `LockKeepsPromise`: `Spec => KeepsPromise`, the refinement of `TimedLock`, action by action. The step that needs thought is `PutLock`:
    if its attempt is not stale, `MInv` after the step says that the record just written backs every valid lock, so that all their
    holders are of the writer's process; if it is stale, all other holds are lost. Every other step leaves a valid lock valid, because `HoldIsBacked` keeps a record
    of its process in etcd, unless the step is one of those `TimedLock` names. `PromiseExcludes`: the abstract specification excludes.
  * `MutualExclusionOneAtATime`: `Spec /\ []OneAtATime => []MutualExclusion`. If calls of `Lock` do not overlap and no Put
    outlives its client, no attempt is ever stale and nothing is ever lost (`NothingLost`), and `MutexUnlessLost` is mutual exclusion.
  * `YoungWhenReturned`: `Spec => YoungOnReturn`, and `FreshWhenReturned`: if `RequestTimeout <= LockTimeout`, `FreshOnReturn`. The stamp of a call
    is never older than its context. The code does not check the relation between the two settings
    (the defaults, 30 s and 5 min, satisfy it).
  * `CallsGetNearer`: `Spec => CallsRunDown`, and `CallsAreShort`: a call never has more than `6 * MaxElapsed + 5` steps left. Both need `InTime`: a wait
    that has begun ends within `MaxElapsed`, which time keeps because it takes from the wait what it adds to the elapsed time.
  * `OrphansAlwaysRunOut`: `Spec => OrphansRunOut`, for any clocks. Only a Put writes the record, with the token of a worker that is alive; the
    age of a record that stays at `AgeCap` is past the timeout on every clock (`CapAssumption`).
* `LockedStorage_proofs`
  * `ViewsHold`: `SystemSpec => []ViewHolds`, and `SystemTypeCorrect`. Every step of the composition is a step of `EtcdLock` or
    leaves it alone, so that the invariants of the lock hold in it; by mutual exclusion a write
    under a valid lock meets no other process with a valid lock, and the views it leaves alone are those of workers without one.
  * `SystemIsLockAndStorage`: `SystemSpec => Spec /\ A!Spec`, and from it `SystemKeepsPromise`: what is proved of the lock and
    of the storage by themselves holds when workers use both.
* `EtcdStorage_proofs`
  * `ValuesMatchMetadata`: `Spec => []Agreement`, and `NoAlarmAtRest`: `Spec => AlarmOnlyWhenStale`.
    The invariant `IInv` is the types, by where a call is, together with `Agreement` and the finiteness of what is stored.
  * `StorageTypeCorrect`: `Spec => []TypeOK`. The size of a directory is a number because finitely many names have
    metadata at any time, however many names there are; `SumType` does the rest.
  * `ChecksumMeansCorruptionUndisturbed`: `Spec /\ []Undisturbed => ChecksumMeansCorruption`. Without a write between its two
    requests what `Load` has read stays current, and `NoAlarmAtRest` applies.
  * `StorageLinearizable`: `FilesAreLeaves => (Spec => Linearizable)`. Initial states map to
    initial states, and each action to a step of `AtomicStorage` or to a stutter. The step
    that needs thought is `LoadValue`: if the hash matches, the value read is the current one,
    so that the call takes effect there; if not, it fails, which the abstract call may at any time.
* `Directories_proofs`
  * `DirectoriesTypeCorrect` and `KeySpacesStayApart`: whatever names clients use. The invariant adds that metadata is found under
    names `md/k` only. What matters is that the names of a clear path, of its metadata and of locks never coincide with the name another
    step writes to, which the lemmas derive from the first segment and from cancellation.
  * `ListingsSound` and `ListingsComplete`: unless the key prefix is `/`, `List` returns what `ListSound` and `ListComplete`
    say, for any paths, queries and neighbours. `MetadataIsSkipped`: nor does it return metadata, unless a neighbour's key looks like it.
    `RootListsMetadata`: for the prefix `/` it does. `OnlyWholeListingsLeak`: a neighbour's keys show only in a recursive listing of everything.
  * `StatAlwaysMatchesList`, for any paths. If nobody uses `md/...` for values, what has metadata is what is stored.
  * `SizesAlwaysAddUp` and `ModifiedIsAlwaysLatest`, for any number of keys. The loop invariant is `Tallied`: after some answers,
    the size is the sum over those whose metadata can be read (`Seen`), and the time is the latest of theirs or the one
    the loop started from. That the loop has a value after any number of answers (`LoopExists`) and that it has this one
    (`LoopTallies`) are shown by the first number of answers after which they would fail; `SumRemove` takes the last answer out of
    the sum, wherever it is in it.
* `Pipeline_proofs`
  * `PipelineTypeCorrect`, `LeavesNothingUndoable`, `EffectsStayInOrder` and `ReadsAreInOrder`, from one invariant that relates `done`
    and the requests in flight to `idx` and `undo`: while commits run, nobody takes anything away; while rollbacks run,
    late deletions concern only what has been rolled back or is about to be.
  * `PipelineGetsNearer`: `Spec => StepsRunDown`, and `PipelineIsShort`: never more than `2 * (N * MaxTries) + 1` steps are left. `Counted` says that
    attempts are counted for an operation that can still be tried, and for no other.
* `ClusterModule_proofs`
  * `ClusterTypeCorrect`, `EnvConfigStaysValid` and `ConfigStaysStable`, from one invariant. `Linked` says that
    pointers lead to objects that exist. `Apart` is what the last two need:
    while anything is being parsed, the configuration that is written to is from a Caddyfile and no
    service built in peace points to it. It holds because every parse begins with a new object.
  * `ValidatedWithoutCaddyfile`: `Spec /\ [](parsing = {}) => []ValidatedBeforeUse`. Then all configurations are from the environment.

Only model-checked: `CallsReturn` and `StaleLockTaken`, because liveness under fairness is
beyond the prover. The arguments they rest on are proved: a measure that every step lowers (`CallsGetNearer`), so that fairness of the
steps alone brings the end about, and a wait that only shrinks (`OrphansAlwaysRunOut`), so that `GetLock` becomes possible.

## 5. Not modelled

* How the options of the configuration parse their arguments (durations, URLs, paths), and how a client connects:
  an argument is of one of the kinds the code tells apart, a connection succeeds or fails.
* Data races between a parser and a service built during the parse, beyond the order of their steps. Such a service may
  have fixed its metadata and lock prefixes before the directive `prefix` changed the prefix of values.
* Rate limiting: a call waits or fails. The number of tokens is the library's business.
* `list`, `filter`, `FilterPrefix`, `validateTimeout` and `Duration.UnmarshalJSON`: called by nothing in the program.
* Modelled, but called by nothing except tests: `pipeline`, `tx` and the operations of `operations.go` (`set`, `del`, `setMD`, `get`,
  `getMD`, `exists`, `noop`). All that `Pipeline` says, and what `Directories` says of `getMD`, is about code that no storage method runs today.
* The loss of a connection, and clients that are never closed: every reload leaks one (`src/cluster.go:96`), because nothing closes any.
* Timeouts that differ between processes.
* What CertMagic does with an answer: with the false of an `Exists` that failed, for instance.
* Values that happen to be decodable as metadata or as a lock, when they are stored under such names.
* Encodings: base64 and JSON are invertible here. The length of a base64 text matters in
  `Directories` (empty or not) and is kept there.
* `magefile.go`, test helpers, Docker files.

## 6. Plan

Done: the lock, the storage and its abstraction, the two together, the key space and its directories, the
pipeline with late requests, the module's life cycle and its configuration, and the proofs above. Next, in this order:

1. A service whose prefixes disagree because it was built during a parse: `ClusterModule` with the prefix as a setting of its own, and
   what the storage then finds under two prefixes.
2. Several names in `LockedStorage`: a job of CertMagic stores a certificate, its key and its metadata under one lock.
3. Proofs about both of these; the liveness properties stay with TLC.
