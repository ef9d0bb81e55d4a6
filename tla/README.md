# Verification of the SNK kernel

This directory holds TLA+ models of the SNK kernel (the Rust sources under
`src/src/`), the TLC configurations that check them on small instances, and
proofs, checked by TLAPS, of what matters most. The models are translated from
the code; file names below are relative to the repository's `src/` directory.

## 1. The system and its parts

The kernel boots on i386, sets up paging and a heap, builds device managers,
registers the RAM object system `ramobs`, mounts it at `/` and opens `/`
(`main.rs`). It then idles: `kmain` is the only thread today. The VFS and ramobs
are nevertheless written for many callers (`Send + Sync` traits, `spin::RwLock`
around every table, handles shared through `Arc`), and that promise is what is
modelled: any number of *tasks* calling the API at once.

| Part | Source | State | Operations | Talks to |
|---|---|---|---|---|
| ramobs namespace | `kernel/obs/ramobs/superobject.rs`, `handles/directory.rs`, `objects/directory.rs` | inode table, inode counter, one name map per directory, handles with flags | create, delete, rename, lookup, entries, stats, open | permission test of the VFS |
| VFS access control | `kernel/vfs/mod.rs` 106-238, 310-337, `defines.rs`, `objects/metadata.rs` | permission set, owner uid | open, chmod, chown, stat, permission test | objects of a mounted file system |
| ramobs files | `handles/file.rs`, `objects/file.rs` | byte vector, metadata size, position and seek policy per handle | read, write, seek, truncate, line reads | metadata |
| VFS paths and mounts | `kernel/vfs/mod.rs` 37-62, 240-308, `mountpoint.rs`, `register.rs` | registry of object systems, mount table, root of a context | register, mount, unmount, resolve, chroot | directory handles, access control |
| ramobs devices, device managers, globals | `handles/device.rs`, `i386/arch/dm/*`, `kernel/globals.rs` | device bound to an object, lists of devices, once-set globals | set_device, as_char/block/network_device, list, get_by_id | each other |
| ramobs symlinks | `handles/symlink.rs`, `objects/symlink.rs` | target | read_target, set_target | the flags open gives |
| kernel heap | `i386/arch/allocator.rs`, `kernel/sma/mod.rs` | offset into the boot arena, global pointer | alloc, dealloc (does nothing), reset, init | everything that allocates |
| early paging | `i386/earlyboot.rs` | page directory, four page tables | setup_higher_half_mapping, early_enable_paging | everything: the heap and the kernel are reached through it |
| boot sequence | `main.rs`, `i386/kboot.rs` | how far it has come | early_boot, kboot, kmain | all of the above |
| assembly, linker script, build | `i386/asm/*`, `rsrc/linker.ld`, `build.rs` | - | - | - |

### What is hard, and what makes each part correct

*Concurrency.* Every call on ramobs is a chain of short critical sections, and
what one section read is used in the next: the inode number found in `delete`
line 60 is removed at line 68; `create` tests a name at line 42 and inserts it
at line 52; `chmod` tests the caller's right under one lock and writes under
another. The namespace is correct if links stay unique and acyclic, entries say
the truth and numbers are not reused.

*Partial failure.* `create` allocates, then links; `delete` unlinks, then
removes. A call that fails in between must leave neither a lost inode nor a
dangling name. Nothing looks into a directory before it is deleted, so its contents
are lost with it; nothing else may be.

*Limits.* The inode counter is a `u32` that only grows, tested by an addition
that can itself overflow; the heap is an 8 KiB arena that never takes memory
back; file positions mix `i64`, `u32` and `usize`.

*Stale views.* A handle keeps its flags after `chmod` and its map after the
directory is deleted; a path is resolved one component and one lock at a time; a
device is searched for by the id of what was bound when the search began.

*Order.* `kmain` discards the answers of registration, mounting and opening: that
each finds what it needs rests on the order of the calls alone, as does that no
allocation comes before the heap. Where the heap ends nobody tests either.

`PROJECT.json` lists every such hazard with its line and the properties aimed
at it.

## 2. Plan

In order of importance to what the program does. All of it is done but the last item.

1. **RamobsDirectory**: the namespace, refined to **DirectoryTree**; invariants
   and refinement proved in **RamobsDirectoryProofs**.
2. **VfsAccess**: permission test, open, chmod and chown as two critical sections,
   and the handles of a symlink; **VfsAccessProofs**.
3. **RamobsFile**: shared handles reading, writing, seeking and truncating one file;
   **RamobsFileProofs**.
4. **VfsPaths**: registry, mount table, resolution in steps against a changing
   tree, chroot; **VfsPathsProofs**.
5. **BumpAllocator**: the heap over the boot arena and the global pointer to it;
   **BumpAllocatorProofs**.
6. **EarlyPaging**: both windows map the same memory, for tables of any size;
   **EarlyPagingProofs**.
7. **Devices**: binding a device to an object, device managers, once-set globals,
   refined to **DeviceQuery**; **DevicesProofs**.
8. **Boot**: composes EarlyPaging, BumpAllocator and an instance of VfsPaths in the
   order of `early_boot`, `kboot` and `kmain`; **BootProofs**.
9. Left: an abstract file (bytes, size and position changed at once) beside
   RamobsFile. It says nothing while the size of every file is stuck at 0 (finding
   `file_size`): every read and write of the code answers 0 bytes and every position
   stays 0.

Modules meant for proofs use no RECURSIVE operator; parameters are CONSTANTS with
named assumptions; each has one action per critical section.

## 3. Modules

Operators with a mistake in them (`Unchecked`, `Copied`, `FromGlobalRoot`,
`AllocForgetsPad`, ...) stand beside the right ones; no specification uses them.
They show which property would notice the mistake.

### HashMaps
`hashbrown::HashMap`: a map is a function whose domain is the keys present.
Modelled from how the kernel uses it (insert replaces, remove of an absent key
does nothing). External.

### RamobsDirectory
State: `inodes` (the table), `counter`, `map` (the name map of every directory that
is in the table or behind a handle: the object and its handles share it, and `Kept`
drops it with the last of them), `handle` (the directory and flags of each task's
handle) and `call` (where each task is in its call, with the locals the rest of it
needs).

One action is one critical section, with the computation on locals that follows:

| Action | Code |
|---|---|
| `Open`, `Denied` | `RamobsDirectoryObject::open`; `check_read`, `check_write` |
| `Chmod` | the write of `chmod_with_ctx` (`vfs/mod.rs` 206-209), at any moment |
| `CreateFind`, `AllocPanic` / `AllocNoSpace` / `AllocRoom`, `AllocInode`, `CreateInsert` | `create` 42; `create_inode` 83-87, with the counter lock kept up to 130; `create` 52 |
| `DeleteFind`, `DeleteCheck`, `DeleteUnlink`, `DeleteInode`, `DeleteRemove` | `delete` 60, 61-65, 67, `delete_inode` 133, 137 |
| `RenameFind`, `RenameCheck`, `RenameMove` | `rename` 75, 76-80, 82-99 |
| `LookupFind`, `LookupGet` | `lookup` 104-106: the map's read lock is held across both, so writers of that map wait (`Unread`) |

Where the code takes one lock with another in hand, the task stands between two
steps at a point that holds the first: `create_store` holds the counter while it
waits for the table, and so does for ever a task that has panicked (`HoldCounter`);
`lookup_get` holds a map while it waits for the table. No point holds the table
(`HoldTable` is empty): that is the order of the locks, and the mutant
`HoldTableToTheEnd` reverses it.

Abstractions: a name is a model value; of an inode only its kind and the two
rights directories test (DELETE, RENAME) are kept, as granted to callers that are
not privileged; owners and roles are the matter of VfsAccess. `get_inode` and the
permission test that follows are one step: between the two only a chmod of an
inode that has just left the table could change the answer, and that chmod might as
well have come before the inode left. `Increment` and `Overflows` keep the width of
the counter (`WordMax` stands for `u32::MAX`); the Makefile builds the dev profile,
whose overflow checks panic. `entries` and `stats` change nothing and have no
action; that the subtraction of `stats` stays above zero is `WithinCapacity`, which
is proved and, following from `Inductive`, is the property of no run. `Open` takes
any directory of the table, more than paths lead to. `Chmod` leaves the root alone,
of which no call here asks a right.

### DirectoryTree
What a caller may rely on: `Create`, `Delete` and `Rename` each change objects,
names and numbers at once, and deletes and renames are by right. `Chmod` changes
rights at any time, `Forget` drops removed directories nobody can reach any more.
`RamobsDirectory!Tree` maps the tables to it: an
inode exists from the moment it is linked to the moment it is unlinked
(`Objects`, `Links`, `Used`). It implements DirectoryTree as long as callers are
`Orderly`: at any moment at most one task is inside a create, delete or rename of a
given directory, and nobody uses the number of a directory before the create that
made it has linked it. A single caller is always orderly. And no chmod may fall on
an object between the test of a right on it and its use (`NoChmodBetween`): `delete`
lets the locks go at line 63, and a chmod that takes DELETE away before line 68 is
too late. That is what the code does, and nothing in the repository says otherwise;
a delete that is by right at the moment it takes effect is promised without such a
chmod only. Lookups, and calls on
other directories, on the directory's parent and on its children among them, may
overlap as they like. Two calls in one directory may not: there `delete` acts on a
name by what it led to earlier.

### VfsAccess
State: `kind`, `permissions` and `owner` of one object, its `target` if it is a
symlink, the `handle` each context has on it, and `call`.

| Action | Code (`kernel/vfs/mod.rs`) |
|---|---|
| `Open`, `OpenDenied` | `open_with_ctx` 106-140, one read of the permissions |
| `ObjectOpen` | `Object::open` (`ramobs/objects/*.rs`), which tests nothing: `open_with_ctx` ends in it, resolution calls it for the directories it goes through (`mod.rs` 298), and any holder of an object may, who has it from `lookup`, `create` or a handle's `object()` |
| `ChmodCheck`, `ChmodWrite` | `chmod_with_ctx` 182-205 (read lock), 206-209 (write lock) |
| `ChownCheck`, `ChownWrite` | `chown_with_ctx` 211-234, 235-238 |
| `AdministerDenied` | the refusals of both |
| `ReadTarget`, `SetTarget` | `handles/symlink.rs` 38-42, 44-49, with the flags the handle was opened with |

`CheckPermission` is `check_permission_on_object`, `MayAdminister` the test of
chmod and chown, which leaves the rights of everybody out, `Has` the bit test that
any one of the bits satisfies. A permission set keeps its three parts; sets are
drawn from `PermissionSets`. `stat` only reads. Code of the kernel that
holds an object could also lock and write its metadata with no call at all; that is
outside the model. `Spec` lets calls overlap,
`SerialSpec` is today's single thread.

### RamobsFile
State: `length` of the byte vector, `size` in the metadata, `position` and `policy`
of each handle, `call`. The bytes themselves are left out: no property tells them
apart. Each lock taken by `read_at`, `write_at`, `sizeline_at`, `truncate` and
`seek` is a step (`ReadAt` / `ReadCopy`, `WriteAt` / `WriteCheck` / `WriteCopy`,
`Seek` / `SeekSize` / `SeekPolicyRead` / `SeekTarget` / `SeekWrite`, ...); what `read` and `write` do
with the position is a step before and one after. Indexing beyond the vector
answers `panic`.

### VfsPaths
State: `registry`, `mounts`, the roots `mount` has made and not yet put in the table
(`fresh`), the tree below the mounts (`object`, `entry`), the `root` of each context,
`call`.

| Action | Code |
|---|---|
| `Register`, `Mount`, `Attach`, `Unmount` | `register.rs` 18-26; `mod.rs` 45-56, which makes the superobject; `mountpoint.rs` 52-64, which takes it into the table if the path is free; 67-73 |
| `NewContext` | `default_context` 252-255; a caller that makes a context of its own starts it at the global root too |
| `Resolve`, `Refused` | `chroot` 241-243, then `resolve_path_with_ctx` 262-274 |
| `CheckMount` | 275-282: one read of the mount table |
| `CheckExecute`, `CheckRead`, `Look` | 284-292, 293-295, 297-304: directory and EXECUTE, READ, lookup, each under a lock of its own |
| `Found`, `Chroot` | 307 and the caller; `chroot` 245-249 |
| `Create`, `Delete`, `Rename`, `Chmod` | what other callers do to trees meanwhile: of their calls the steps that entries show. `Create` is the insert of line 52, which may replace an entry made since line 42 tested for it; the rights everybody has are kept for directories only, since nothing else is entered |

A path is a sequence of names and slashes, so that `format!("{}/{}")` and the
filter that drops empty components keep their meaning. `above` remembers, for the
properties only, the directories an object was made below; links never move between
directories (`rename` stays in one map). A superobject goes by its root, which
RamobsDirectory shows to outlive everything (`RootIntact`). Of rights, only what
everybody has is kept. `Create` makes an object where the run's bound allows one;
that `create_inode` may find no room or panic is the matter of RamobsDirectory. The
error paths of registration and mounting change
nothing and are left out.

`RightSoFar` is what resolution should do. A walk's key spells the components it has
taken; it should stand where they lead: at the last prefix of the key that something
is mounted at, or at the root of its context, and from there along one entry for each
further component (`CameIn`, `NoMountAfter`, `Leads`), with the rest of one of the
`Paths` to go (`OnPath`).

### BumpAllocator
State: `current`, whether the `global` allocator is set, the `live` blocks, and why
the kernel has panicked. `Alloc`, `Oom`, `Dealloc`, `Reset` and
`InitGlobalAllocator` are the functions of `allocator.rs` and `sma/mod.rs`, with
`oom` of `kboot.rs` as the only thing that follows a null. Additions are those of
`usize` (modulo `2 * Half`); in the dev profile a wrap would panic instead, and
`NothingWraps` excludes both. `reset` has no caller; it is modelled where no block
is live. The arena's `Start` is any address: the linker script aligns it, the model
does not rely on that. The run `boot` checks it inside the boot.

### EarlyPaging
State: `directory` (PD), `table` (PAGE_TABLES), where `setup_higher_half_mapping` is
(`building` and its loop counters `table_idx`, `pte`), and whether `paging` is on.
`ClearEntry` and `FillEntry` are one turn of a loop each, `MapWindows` the writes of
directory entries, which nothing reads before `EnablePaging`. An entry is the frame
it leads to or `NotPresent`; all are written with the same flags. `Translate` is what
the processor does with a page number, the directory's own slot included.

### Devices, DeviceQuery
State: the `listed` devices of each manager, whether the managers are `shared`,
which once-set globals are `ready`, the `device` bound to an object, `call`, and
`since` (for the properties: what was bound and ready while the call ran).

| Action | Code |
|---|---|
| `Register` | `cdm.rs`, `bdm.rs`, `ndm.rs` `register`, which need the manager unshared |
| `FinalizeSetup`, `InitGlobal` | `arch/dm/mod.rs`, `globals.rs`: character, block, network, in that order |
| `SetDevice` | `handles/device.rs` `set_device`, which tests no flag |
| `Begin`, `AskGlobal`, `ReadCell`, `Find` | `as_char_device`, `as_block_device`, `as_network_device`, `as_device`: the global, the cell, then one device of the list after the other |

DeviceQuery is the promise: a query is answered at one moment. A query's moment is
its `ReadCell`, because lists do not change once a manager is global.
`list` and `list_by_type` change nothing and are left out. Drivers are not part of
the repository: a device is a model value with a kind and an id.

### Boot
`place` is where the boot is; `managers` what has become of the device managers. The
rest of its state is that of EarlyPaging, BumpAllocator and `Vfs`, an instance of
VfsPaths with the one context and the one mount of `kmain`. `EarlyBoot` is a step of
EarlyPaging, `SetAllocator` that of the heap, `RegisterAll`, `MountRoot`, `AttachRoot` and
`OpenRoot` are those of VfsPaths, or nothing where the call would answer an error
(`kmain` goes on). `Requests` lets each place make any requests of the heap, so that
what a particular boot allocates does not matter. `Kboot` stops at an unknown magic
number. The arena lies anywhere: neither `kboot` nor the linker script tests that it
ends within what is mapped, and `BlocksMapped` says what then happens to a block
that lies across the end. That the machine resets at the fault (there is no handler)
is left out.

## 4. Runs

Bounds of the directory runs: two tasks are enough for every pair of critical
sections to interleave; two names let renames collide and be told from creates;
`MaxInodes` is 3 or 4, the root and two or three others, so that a directory,
something in it and something beside it exist at once. `NewObjects` is a directory
everybody may delete and rename and, but for `dir_progress`, a file only a privileged
task may; where there is chmod, it gives both rights or none. Symmetry, but for
`dir_progress` (it is not sound for liveness): tasks and names are interchangeable.

| Run | Shows |
|---|---|
| `dir_two_tasks` | `SingleLink`, `ChildrenAreYounger`, `EntriesDescribe`, `NumbersNeverReused`, `StrandedForGood` and the inductive invariant, of which `TypeOK` and `RootIntact` are parts, under every interleaving of two tasks, up to the limit of the table (`MaxInodes` 4) and beyond it, where creates answer NoSpace. No property here reads a right, so there is no chmod in this run |
| `dir_progress` | `CallsReturn` under fairness, and the inductive invariant: two tasks, one privileged, one only let in by the rights of a directory, which chmod takes away or gives at any moment; objects are directories; `MaxInodes = WordMax = 3`, so that a create panics with the counter lock in hand and others are shut out by it. Deadlock is not checked for that reason |
| `dir_orderly` | two orderly callers (`OrderlySpec`): `NoDanglingEntry`, `LostWithDirectory`, `LookupSucceeds`, and the refinement `ImplementsTree`; with three numbers one task deletes a directory while the other creates in it, and chmod comes at any moment but between test and use of a right on the same object |
| `dir_silent_replace` | finding: two concurrent creates of one name both succeed |
| `access_users` | `TestExact` for every set of rights asked for, none and several included, `RightsHandedOn`: two users (one with two roles), four permission sets among which one owned, one shared by role, one open to all and one closed to both; every kind of object, three sets of flags; calls overlap |
| `access_owner` | finding: chown writes an owner no test reads |
| `file_tasks` | `NoPanic`, `TypeOK`: two tasks share a handle for reading and one for writing; lengths 0 and 1, seeks back and forth |
| `file_size` | finding: truncate resizes the bytes and not the size |
| `path_walk` | `WalkStaysBelow`, `RootsAreDirectories`, `MountsApart`, `RootsStay`, `WalksKeepToPaths` and the inductive invariant: a privileged and an ordinary context, two mounts, three objects. The second mount is at `//a`, the only kind of path resolution finds (see the finding); `/a/b` goes through it, and through a directory when it is not mounted; `/..` is refused, and `/`, which is over where it begins, is left to the proofs. A directory gives everybody both rights a walk asks for or neither, but chmod may come between the two tests |
| `path_mount` | finding: what is mounted at `/a` is never entered |
| `boot` | `WindowsAgree`, `NothingElseMapped`, `TablesShow` of the page tables; `BlocksInPlace`, `BlocksApart`, `NothingWraps`, `OomMeansFull` of the heap; `BlocksMapped`, `HeapBeforeUse`, `OkMeansReady` of their composition; `BootEnds` under fairness. Two tables of 8 entries and pages of 2 bytes map 32 bytes; the arena is bytes 25 to 34, at an odd address and across the end of what is mapped; six layouts from one byte to the largest an `isize` allows. Deadlock is not checked: a kernel that has booted, halted or panicked stops |
| `devices` | `AnswersFit`, `NotReadyIsTrue` and the refinement `ImplementsQuery`: three character devices and a block device that has the id of two of them, two devices listed per manager at most, one task that asks while lists, globals and the binding change at every step |

One asking task is enough in `devices`: a call writes nothing another call reads, so
tasks meet only in the lists, the globals and the cell, and these are changed at
every step of the one task by actions that belong to no task.

The properties of `dir_orderly` are not claimed for two calls in one directory:
there, `LostWithDirectory` fails by the first finding and `NoDanglingEntry` while a
delete races a rename. `NoPanic` of `file_tasks` holds because the size in the metadata
stays 0: once truncate keeps it in step (the mutant of that run does), `write_at`,
which tests the size under one lock and copies under another, would panic when a
truncate comes between.

Fairness. `dir_progress` assumes `WF_vars(Continue(t))`. Inside a call a
task only computes and waits for spin locks, so it keeps running; it need not start
a call. A spin lock gives no order to those who wait, so fairness is weak, and
`CallsReturn` assumes that lookups do not keep a map read-locked for ever
(`spin::RwLock` lets readers starve a writer). `boot` assumes
`WF_bootVars(BootStep)`: there is one processor, interrupts are off, nothing in the
boot waits, and each place makes finitely many requests of the heap.

## 5. Proofs

All theorems hold for any values of the constants that satisfy the named
assumptions of their module.

**RamobsDirectory.** `RamobsDirectoryProofs` proves, for any sets of tasks, names
and objects, any `MaxInodes` and `WordMax` with `1 <= MaxInodes <= WordMax`
(`LimitsAssumption`, `CallersAssumption`):

* `Invariance`: `Spec => []Inductive`. The properties alone are not inductive. That
  a create keeps links unique needs the number it holds to be in no entry and in no
  other create (`PendingUnlinked`); that the number is new needs every number in use
  to be below the counter (`CounterAhead`) and one create at a time to hold it
  (`OneAllocates`); and a directory opened needs a map (`DirectoriesHaveMaps`),
  which lives while table or handle hold it. One lemma per action; the calls that
  only move a program counter share `QuietStep`.
* `TypeCorrect`, `LinksAreUnique`, `NoCycles`, `RootStays`, `EntriesAreTrue`,
  `CapacityHolds` follow as invariants. `NumbersAreFresh` is the action property:
  the counter never goes back, a new inode has the number it passes over, an inode
  that stays keeps its kind. `GoneForGood` draws the conclusion for whole
  behaviours: a number that has left the table never names an inode again.
* `CutOffForGood`: what neither the root nor a create under way leads to is never
  led to again. The witness is a set closed under entries that leaves the inode out;
  the same set shows it after the step, with the number a create has just been given
  added to it.
* `LookupKeepsItsEntry`: whatever the others do, the entry a lookup has found stays
  in its directory until the lookup answers, because writers of that map wait.
* For orderly callers (`[]Orderly` and `[][NoChmodBetween]_vars` are hypotheses on
  how the API is used, not on the module; `OrderlyBehavior` shows that the
  behaviours TLC explores satisfy them): `OrderlyInvariance`, that at every point of
  every call tables and locals fit (`Current`: what a delete found is still what the
  name leads to, the right it tested is still there, the directory a create has made
  is still empty, and so on) and no inode is on its way in or out twice
  (`NoContest`). One lemma per action shows it of the task that moves, and
  `Bystander` of every other: what a call has read is in its own directory, in an
  inode nobody else is bringing in or taking away, or cannot change.
  `NamesLeadSomewhere` and `LookupsAnswer` follow; `LostOnlyWithDirectory`: no call,
  failing or not, loses an inode, but with a directory that is itself gone; and
  `CallsAreAtomic`: under these hypotheses `Spec` implies `ImplementsTree`, each
  step mapped to a step of DirectoryTree (the insert of a create, the unlinking of a
  delete, the move of a rename, a chmod, the loss of a map nobody holds) or to a
  stutter. `SingleCallerIsOrderly` rids it of `[]Orderly` for one task, which is all
  the kernel has today.

**VfsAccess.** `TestIsExact` is about the permission test alone, for any set of rights
asked for. `RightsAreHandedOn` holds however calls overlap: a context comes to be able
to change the object only by the write of a chmod whose caller is able too, or was when
it tested, and each write uses a right up; a stale right is good for one write. It
needs the types and one case per action. `ChangesAreByRight` is true only while
calls do not overlap (`SerialSpec`); its invariant, `SerialInductive`, says that the
one call under way still has the right it tested. With overlapping calls it is false:
between check and write another chmod may take the right away. No run is kept for
these two; TLC agrees with both under `SerialSpec`. `OutsidersChangeNothing`
holds for overlapping calls: contexts of a group none of whom ever has the right to
administer the object (`Powerless`) have no part in what becomes of its permissions
and owner; each change is a step of a call of somebody else.

**RamobsFile.** `FileTypeCorrect`: whatever the targets of the seeks, no position
stored is from before the start of the file. The proof goes by what the code really
comes to (`PositionsAreStuck`: size and positions stay 0, with the shapes of calls that
go with it); that is a step of the proof and the property of no run.
`NothingPanics` follows, as a write about to copy copies nothing.

**VfsPaths.** `PathsInvariant`: `Spec => []Inductive`. That a walk stays below its
base needs entries to lead only to objects made below all that the directory is
below (`EntriesDescend`); that mounts are apart needs each object to have one top
(`OneTop`); that only privileged contexts move their root needs the test at the
start of a chroot to be remembered (`ChrootsAllowed`). `MakeGrows` and `CallsStay`
carry the invariant over every step that only adds to the tree, `Relinked` over
delete and rename, `Moved` over every step of a walk. `WalksAreConfined`,
`ContextRootsAreDirectories`, `MountsAreApart` and `RootsOnlyDescend` follow. One
assumption, `ComponentsAssumption`, states what `SelectSeq` does to the paths (it is
recursive, and beyond the provers); TLC evaluates it.

`TreesInvariant` adds that an object is below exactly what its directory is below, and
itself (`Placed`), and has one name (`OneName`).

`WalksTakeTheirPaths` shows that each step of resolution leads from where the path
led to where it leads next: `CheckMountKeeps` for the mount table, `LetOnKeeps` and
`LookKeeps` for a directory, on the arithmetic of keys (`KeyExtended`) and sequences
(`OneTaken`). `ResolutionIsRight` draws the conclusion: a context during whose calls
the table and the entries stay as they are (`Calm`, a hypothesis on what others do
meanwhile and not on what they do between its calls) is at every moment where its
path leads, so a lookup that answers has the object the path names. When entries do
change under a walk, it may end where no moment's tree would have led it; what is
then left is `WalksAreConfined`.

**BumpAllocator** (`ArenaAssumption`, `LayoutsAssumption`). From three lemmas on
remainders, `Offsets` shows that no addition wraps while `current` is inside the
arena and that the padded address is aligned, `NoRoom` that the padding is the
least. `BlocksDoNotOverlap`, `BlocksStayInPlace`, `NoOverflow` and `OomOnlyWhenFull`
follow from `HeapInvariant`.

**EarlyPaging** (`PagingAssumption`: the windows and the last slot are apart).
`PagingInvariance`: how far the loops have come is what directory and tables show.
`WindowsLeadToTheSame`, `OnlyWindowsMapped` and `TablesAreVisible` follow, for
directories and tables of any size; the code's 1024, 4 and 768 are one instance.

**Boot.** `BootImplementsHeap` and `BootImplementsPaging` show that a step of the
boot is a step of each part or leaves it alone, so all that is proved of them holds
here. `BootGoesInOrder` is the invariant of the order; `HeapIsSetFirst` and
`OkIsTrue` follow. `HeapIsMapped` joins the two parts and assumes nothing of where
the arena lies: a byte of a block below the end of the windows is mapped to itself
and shown by the higher half (`FoundThroughBoth`, from `WindowsAgree`), and one
above it is on a page that is not present (`FaultsBetween`). So an arena the linker
puts across the end of the low window ends the boot with a fault, and as long as it
stays below the higher half never with other memory changed.

**Devices** (`DevicesAssumption`). `DevicesInvariance` says of a search that the id it
looks for was bound since its call began, that its list is final, and that what it has
passed did not match. `AnswersAreFit` and `NotReadyIsNeverStale` follow, and
`QueriesAreAtomic`: `Spec => ImplementsQuery`.

Only model-checked: `CallsReturn` and `BootEnds` (liveness is out of the prover's
reach). `ComponentsAssumption` of VfsPaths is evaluated by TLC for the paths of the
runs.

## 6. Not modelled, and other divergences

Not modelled:

* Assembly, linker script and build files: straight-line data with no state to explore.
* Trait declarations and module lists: no state and no step of their own; what
  implements them is modelled where it is. Device traits have no implementation in
  the repository.
* Queries that change nothing (`entries`, `stats`, `stat`, `list`, `list_by_type`),
  screen output, timestamps and `SnkObSFlags`, which are stored and never read.

Other places where the code and its comments or names part, met while modelling;
no run is kept for them:

* `defines.rs` 116 lists `NotEmpty`, "the directory is not empty, on deletion":
  `delete` never looks into what it deletes. The map of the directory goes with its
  last handle, and what was in it stays in the inode table for good with no name
  (`LostWithDirectory`, `StrandedForGood`).
* `handles/directory.rs` 63 and 78: `delete` and `rename` test a right under one
  lock and act under others; a chmod in between is not noticed (`NoChmodBetween`).
* `mod.rs` 279: the mount table is asked for what is mounted at a path relative to
  the caller's root, though mounts are made by absolute paths. A context whose root
  is a directory below may so come through a mount that is not below its root.
  `WalkStaysBelow` and `RootsStay` therefore admit any mounted root; no comment or
  test of the repository says that chroot confines.
* `superobject.rs` 85: with the limit `RamObS::mount` passes, `u32::MAX`, the test
  `*c + 1 > self.max` overflows before it can answer `NoSpace`.
* `superobject.rs` 58: `stats()` counts deleted inodes as free, but the counter
  `create_inode` tests never goes back.
* `mod.rs` 123 requires EXECUTE to open a directory; `Permission::has` is satisfied
  by READ alone when asked for both.
* `mod.rs` 128 allows a symlink to be opened without flags; the test for no right at
  all refuses everybody but the owner and the privileged.
* `handles/symlink.rs` 44: no handle that the open of the VFS gives passes the test
  of `set_target`, so a symlink gets a target only through `Object::open`, which
  tests nothing.
* `handles/file.rs` 73: `seek` to a negative position answers `Ok(0)` even with
  `disable_negative`, since the target is overwritten before it is tested.
