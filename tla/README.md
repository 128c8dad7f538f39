# TLA+ models of ContainerFS

These modules model the parts of this repository that have state and an
ordering to get wrong:

- the sentry's overlay filesystem;
- the sandbox lifecycle in runsc;
- the image generator (imgGen) and its Bloom filter.

Every definition is translated from the Go source. `PROJECT.json` maps each
definition to the lines it models. Code that these files call but that is not
in the repository is modelled from `spec.md` and marked `spec_modelled`:
copy-up (`fs/copy_up.go`) and the Dirent cache (`fs/dirent.go`).

## Parts and modules

| Part | Source | Module(s) |
|---|---|---|
| Overlay engine: lookup, create, mkdir/link/fifo, bind, remove, rename, setattr, open-for-write, copy-up, Dirent cache | `src/unnamed/part_001` | `Overlay`, abstract `PosixTree`, `MCOverlay` |
| Overlay extended attributes: whiteouts, getxattr, listxattr | `src/unnamed/part_001` | `OverlayXattr`, `MCOverlayXattr` |
| Sandbox: `Wait`, `destroy` via `DestroyContainer`, `waitForStopped` | `src/unnamed/part_000` | `Sandbox`, `MCSandbox` |
| Image manager: walk, Include* calls, filter, header | `src/imgGen/src/manager/manager.go` | `ImageGen` (`version = "manager"`) |
| zar writer and reader: `fileWriter`, `zarManager`, `readImage` | `src/unnamed/part_004` | `ImageGen` (`version = "zar"`), `MCImageGen` |
| Bloom filter | `src/imgGen/src/filter/bloom.go` | `BloomFilter`, `MCBloomFilter` |
| Filter interface: what any filter promises | `src/imgGen/src/filter/filter.go` | abstract `FilterIface` |
| Image statistics: `ImgStats` counters | `src/imgGen/src/stats/stats.go` | `ImageGen` (`statistics`) |

### How the parts interact

- The image generator walks a directory tree and writes a zar image. The
  manager version also builds a Bloom filter of every file path and writes it
  after the metadata header.
- The sandbox runs the sentry, whose VFS mounts an overlay of a writable upper
  layer over a read-only lower layer.
- These pieces share no state at run time, so each has its own module.

## Overlay (`Overlay.tla`)

**State.**

- `upper` is the upper layer: a function from path to node. A node has a type,
  an attribute, and a set `wh` of names that carry a whiteout xattr.
- `cache` holds the cached overlay Dirents. Each is an `overlayEntry`: its
  type, whether it holds an upper Inode, its lower path and `lowerExists`.
- The lower layer is the constant `Lower`.

**Structure of the actions.**

- Each VFS operation is one action: `Lookup`, `CreateFile`, `MakeNode`
  (mkdir and symlink), `CreateFifo`, `Bind`, `OverlayRemove`, `Rename`,
  `SetAttr`, `OpenWrite`.
- `Evict` models `MountSource.Keep`: it drops an unreferenced leaf Dirent.
- Every action runs the whole handler: copy-up of the ancestors root first,
  then the upper-layer call, then the whiteout, then the Dirent-layer update.
- Each failure point is a disjunct that keeps what was done before it. The
  `Faults` constant selects which calls may fail: copy-up, the upper call, or
  the whiteout `Setxattr`.
- Structural operations hold `renameMu` and copy-ups hold `copyMu`, so each
  operation is modelled as one atomic step.
- A failed whiteout `Setxattr` is modelled after both `overlayRemove`'s upper
  Remove and `overlayRename`'s upper Rename. After the rename, the node is at
  the new name, the old name shows its lower copy again, and the Dirents are
  not moved, because the Dirent layer sees an error.
- An upper node is identified by its path. When a rename's whiteout fails, a
  Dirent cached at the destination refers in the code to the replaced,
  unlinked inode, and in the model to the moved one. Remove and rename work
  by name, so the two agree for them. A setattr through that Dirent differs.
- `UpperEmptyDir` is the backing filesystem's ENOTEMPTY for
  `RemoveDirectory` and for a replacing `Rename`. It is outside this
  repository and is taken from `spec.md`.

**The view.**

- `LookupResult` is `overlayLookup`.
- `ViewOf(upper)` is the tree that a fresh walk from the root sees.

**The abstraction.**

- `PosixTree` is what the overlay promises: an ordinary directory tree with
  create, unlink/rmdir, rename and setattr.
- `Refinement` is `PosixTree!Spec` under the mapping `tree <- View`.

## Extended attributes (`OverlayXattr.tla`)

This module models the xattrs of one directory:

- copy-up of the lower xattrs;
- `overlayCreateWhiteout`;
- `overlayGetxattr` and `overlayListxattr`.

An attribute name is a sequence of tokens, so `strings.HasPrefix` becomes a
sequence-prefix test.

## Sandbox (`Sandbox.tla`)

**Goroutines.** Two goroutines share one `Sandbox` value:

- `"wait"` runs `Wait(rootCid)`: connect, the `ContainerWait` RPC, then the
  `waitForStopped` fallback.
- `"destroy"` runs `destroy()`: test `s.Pid`, `Kill(s.Pid, SIGKILL)`, then
  `waitForStopped`.

**waitForStopped.**

- Each `WaitForStoppedOp` is one attempt of its `op`, taken under `statusMu`.
- `Retry` models the constant backoff, bounded by `MaxRetries` (the 5-second
  timeout).

**Operating system actions.**

- The root container exits.
- The sandbox exits, after its container or on SIGKILL.
- init reaps a sandbox that is not our child.
- A freed PID is given to another process.

`destroy` reads `s.Pid` outside `statusMu`. `DestroyKill` therefore uses
either the value it tested or the current one. Both are outcomes the compiled
code can produce.

## Image generator (`ImageGen.tla`)

**Walk and writer.**

- The walk becomes a sequence of Include calls, computed from the tree:
  - `WalkDirZar` is part_004's zar walk;
  - `WalkDir` is manager.go's walk: files and symlinks first, then
    subdirectories.
- Each Include call is an action.
- `WriteData` is `fileWriter.Write`, including the page padding.
- The image is a sequence of records (data, pad, gob, varint), each with its
  offset.
- `count` is the writer's own count of bytes, which can drift from the real
  image.

**Header and reader.**

- `WriteHeader` writes the gob and varint records. In the manager version it
  also writes the FilterMetadata gob and `filterLoc`.
- `Int64Count` models `WriteInt64`, which counts its 10 bytes twice.
- `ReadImage` is `readImage`: it takes the last varint and decodes the gob at
  that offset. It then slices `mmap[Begin:End]` for each file.

**Write errors.** With `WriteFaults`, `DiskFull` makes the image file's
writes fail from some point on. The records written before it stay in the
file (`OnDisk`), and the rest are lost.

- `bufio.Writer` returns the error only from a `Write` that has to flush, and
  from every `Write` after it (`sticky`). So an `IncludeFile` after the failure
  either gets the error and calls `log.Fatalf` (`fatal`), or buffers its bytes
  and goes on.
- `WriteHeader` drops the errors of `Encode` and `WriteInt64`, and `Close`
  drops the error of `Flush`. Only the error of `f.Close` is fatal.
- `ReadImage` reads the file, not what the writer was given.

**Version.** The variable `version` is the generator that runs. `Init`
picks it from the constant `Versions`, so one run can cover both.

**Padding.** `fileWriter.Write` computes the pad as
`(align - n % align) % pageBoundary` (part_004 line 74). `align` is not
declared anywhere in the repository, so the code as given does not compile.
The model takes `align` to be `pageBoundary`, the only constant of that kind
in the file.

**Filter.** `GenerateFilter` calls `z.Filter.Initialize()` and then folds
`FilterStep` (`constructFilter`) over the metadata. Here the filter is
abstracted to the set of elements added, so `Initialize` is taken to succeed.
The repository's `BloomFilter` is modelled in its own module. There,
`Initialize` with `NumElem` left at 0, which is what `GenerateFilter` does,
panics.

**Statistics.** In the manager version, `IncludeFolderBegin`,
`IncludeSymlink` and `IncludeFile` also call `AddDir`, `AddSymLink` and
`AddFile` on `statistics` (`Tally`). The zar version keeps no statistics.
`stats.go` says `NumFiles` counts files "(Include symbolic links)".
`TestFilterConstruction` (in `src/imgGen/trace_gen.sh`) expects `NumFiles: 2`
for one regular file and one symlink. `StatsMatchTree` states that contract,
and `stats_numfiles` shows that the code does not keep it: `IncludeSymlink`
calls only `AddSymLink`.

## Bloom filter (`BloomFilter.tla`)

**Arithmetic.**

- int64 is modelled as an `IntWidth`-bit two's-complement integer (`Wrap`).
- `GoDiv` and `GoMod` are Go's truncated `/` and `%`.
- The float formulas for m and k are computed in fixed point, in thousandths.

**Actions.** `Initialize`, `AddElement` and `TestElement`. An index outside the
bit array, or a division by zero, sets `status` to `"panic"`.

**The interface it implements.** `FilterIface` is the `Filter` interface of
`filter.go` as an abstract specification: after `Initialize`, `AddElement(e)`
adds e, and `TestElement(e)` may answer TRUE for anything but must answer
TRUE for an added element. `ImplementsFilter` is `FilterIface!Spec` under
`ready <- status # "new"`, `elems <- added`, `result <- tested`. A panic
changes no abstract state. `RemoveElement()` takes no element, and
`BloomFilter`'s is a no-op, so it is not part of the promise.

`HashElement` is `hashElement`, and `RemoveElement` is a no-op step, as in the
code.

**Code that does not compile.** `bloom.go` does not compile as written:
`setBits` ORs into a slice, and `TestElement` has no parameter. The model takes
the evident intent.

## Runs

| Run | Expect | What it shows |
|---|---|---|
| `nested_faults` | pass | `EntryCoherence` and `Refinement` hold without rename and rmdir. The lower layer is nested, and copy-up and upper-layer failures can occur. |
| `faults_structural` | pass | `TypeOK` holds with unlink, rmdir, rename and setattr and all three faults, including the whiteout after a rename: the Dirent cache stays a tree. Setattr is included because a caller can always issue it, so the run never runs out of operations. |
| `rename_lower_dir` | violation | `Refinement` fails. Renaming a directory that exists in the lower layer copies up only the directory, so its lower children disappear. |
| `xattr_whiteout_leak` | violation | `NoReservedLeak` fails. `strings.HasPrefix(XattrOverlayPrefix, name)` has its arguments swapped, so whiteout xattrs reach callers. |
| `imagegen` | pass | Both versions, for all 1600 trees of depth 3, with and without page alignment, with the disk filling at any point. `HeaderLocationCorrect`: the header location is correct. `ReadBack`: `readImage` decodes an image the file holds whole, and what it decodes is exactly each file's bytes. `Aligned`: data starts on page boundaries. `FilterHasEveryFile`: `constructFilter` adds exactly the file and symlink paths of the tree, although the manager reorders the walk. |
| `stats_numfiles` | violation | `StatsMatchTree` fails. A root holding one symlink ends the walk with `NumFiles` 0 and `NumSymLinks` 1, against the documented and tested `NumFiles` 1. |
| `zar_write_error` | violation | `CompleteOnSuccess` fails. The disk fills before `WriteHeader`, whose write errors are all dropped: `writeImage` returns normally, and the image has no metadata and no header location. `manager.go` drops the same errors. |
| `manager_filter_loc` | violation | `LocationsCorrect` fails for the manager's `filterLoc`. `Count` misses the metadata gob, and `WriteInt64` counts its bytes twice. |
| `bloom_implements_filter` | pass | `ImplementsFilter`: every step of `BloomFilter` is a step of `FilterIface`, so an added element is never reported absent while the filter does not panic. `FPProb` also takes the out-of-range values 1 (an empty filter that answers TRUE for everything) and 2 (a negative size, on which `make` panics). |
| `bloom_negative_index` | violation | `NoPanic` fails. A negative hash gives a negative `intHash % m`, which indexes outside the bit array. |
| `sandbox_wait_destroy` | pass | `Wait` returns the container's status or SIGKILL's. A `destroy` that returns nil leaves the sandbox stopped. After a kill, `Wait` eventually returns. `DestroyReturns`: `destroy` always returns, unless `Kill(0)` has ended the process. The waitForStopped timeout ends the retries even when a reused PID keeps `IsRunning` true. |
| `destroy_pid_race` | violation | `NoStrayKill` fails. Wait's `waitForStopped` reaps the sandbox and sets `s.Pid = 0` between destroy's test and its `Kill`, and `Kill(0, SIGKILL)` kills the caller's own process group. |

Every property of a passing run has a mutant in `PROJECT.json`: a plausible bug
in the code that makes TLC report the property violated. The mutants are:

- copy-up of only the last ancestor;
- a whiteout only for lower-only entries;
- a rename that moves the renamed Dirent but not its children;
- an off-by-one in the padding;
- double counting in `Write`;
- a real end that includes the padding;
- a manager walk that ends a directory too early;
- a filter that ignores `..`;
- a test loop one hash longer than the add loop;
- `Wait` returning the zero status;
- `WaitRPC` that blocks after a kill;
- a timeout taken for success;
- a backoff with no deadline, or one that never retries.

### Other counterexamples of `Refinement`

These are reproduced by changing `Ops` in a copy of `rename_lower_dir.cfg`:

- **Stale `lowerExists` on rename.** With `Ops = {"create", "rename"}` over
  `LowerFlat`, `overlayRename` decides the whiteout from the renamed Dirent's
  cached `lowerExists`. That value is stale once the name has been re-created
  over a whiteout.
- **rmdir of a merged directory.** With `Ops = {"rmdir"}` over `LowerNested`,
  rmdir removes a merged directory whose children are all in the lower layer.
  The upper `RemoveDirectory` checks only upper children. `spec.md` does not
  say whether the Dirent layer, which is outside this repository, checks
  merged emptiness first.

### A remove that fails halfway

Set `Faults = {"xattr"}`, `Lower <- LowerFlat`, `Ops <- OpsSetattrUnlink` and
`INVARIANT EntryCoherence` in a copy of `rename_lower_dir.cfg`. TLC then finds
`EntryCoherence` violated:

- the whiteout `Setxattr` fails after the upper Remove succeeded;
- `overlayRemove` returns the error, and the cached Dirent keeps an upper
  Inode that no longer exists;
- a fresh lookup shows the lower file again.

`spec.md` says an operation either completes or leaves the overlay unchanged.

With `Probs = {"2"}`, `bloom_negative_index.cfg` also finds the panic in `make([]bool, m)` for a negative size.

The divide by zero in `calcNumHashes` when `NumElem = 0` is found by
`bloom_negative_index.cfg` with `NumElems = {0}`. `GenerateFilter` never sets
`NumElem`.

## Bounds and why they suffice

**Overlay.**

- Bounds: two names, depth 2, attributes {0,1}.
- Lower content has attribute 1, and setattr writes only 0, so reverted
  content can be seen.
- These bounds already give:
  - a directory that exists in both layers;
  - a lower file to shadow;
  - a whiteout over it;
  - a nested child that needs a two-level copy-up;
  - every failure point.

**Sandbox.**

- Bounds: both values of `child`, two exit statuses, `MaxRetries = 2`.
- Two retries let an attempt fail and then succeed before the timeout.

**Image generator.**

- Each tree has up to 2 entries per directory and depth 3.
- Entries are files of size 1 or 4, symlinks, or directories. The page size is
  4, so a file gets either no padding or a partial page of it.
- Depth 3 is needed so that the manager's reordered walk puts `..` markers
  between files.
- `WriteFaults` is on in `imagegen` and `zar_write_error`. The disk
  may fill before any record, and every `IncludeFile` after that may or may
  not be the one that flushes. So both the fatal path and the silent one are
  reached, on every tree.

**Bloom filter.**

- int64 is modelled as 8 bits, so `h1 + k*h2` overflows with small hashes.
- Three hash pairs are used, including a negative h1.
- `FPProb` ranges over 0.5, 0.1 and 0.01, and the out-of-range 1 and 2. These give m = 0 and m < 0.
- `NumElem` ranges over {-1..3}, and there are three error rates.

## Fairness

Only the Sandbox specification has fairness. Weak fairness on each goroutine's
steps holds because the Go scheduler runs runnable goroutines. Weak fairness on
the sandbox's exit once SIGKILL is delivered holds because the kernel ends a
killed process.

The model makes no fairness assumption for any of these:

- the container exiting;
- init reaping;
- PID reuse.

The overlay, image and Bloom runs check safety only.

`CHECK_DEADLOCK FALSE` is set in these cases:

- the image and Bloom runs, which do one finite job and stop;
- the Sandbox runs, which stop when both goroutines have returned.

## Not modelled

- **Overlay:**
  - `Revalidate`;
  - readdir;
  - readlink/getlink;
  - statfs;
  - bound endpoints;
  - `WriteOut`;
  - `overlayCreateHardLink`. It gives one upper inode a second name, which a
    model that identifies nodes by path cannot hold;
  - the lock-level interleaving of copy-up with lookups.

  Apart from hard links, each of these either reads state without changing
  it, or sits below the atomicity that `renameMu` gives.
- **runsc:** `createSandboxProcess` and the RPC pass-through wrappers. These are
  process setup and single urpc calls. `DestroyContainer` of a container other
  than the root one is also left out: it is an `IsRunning` test and a single
  `ContainerDestroy` call.
- **imgGen:** lines 123–179 of `bloom.go` are a stray copy of the `fileType` constants and the `Manager` interface from `manager.go`. They are modelled once, from `manager.go`. Also `main`'s flag parsing. Read errors (`ReadDir`, `ReadFile`,
  `Lstat`) are `log.Fatalf` exits before anything is written for the entry.
  Write errors are modelled.
- **Other files:** the shell scripts, the C++ syscall tests, and the fragments
  `part_002`, `part_003` and `part_005`, which are imports and declarations.
