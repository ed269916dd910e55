# A TLA+ verification project for Rust-Ext4

Rust-Ext4 is an ext4 file system as a Rust library: `open_fs` mounts an image,
callers open a transaction, work on directories and files, and call
`Transaction::done`, which changes the cached metadata blocks and writes them to
the device. There is no journal. Several threads may do this at once.

Paths below are relative to `src/`, the repository. Run a check with
`tlc -workers 2 -config <run>.cfg <module>` and a proof with
`tlapm <module>.tla` for a module of section 5. `PROJECT.json` maps every definition to its lines and lists
the runs, the mutated definitions each property rejects, the hazards and the
theorems.

## 1. The system

| Component | State | Operations | What must hold |
|---|---|---|---|
| Block allocator `src/block/allocator.rs` | `buddies` (order to first blocks) and `backref` (first block to order), each behind a ticket lock | `allocate` (at a hoped-for place, a chunk that fits, or a smaller one), `push_chunk`, `deallocate` (records only) | no block twice; the indexes agree; no block lost |
| Transactions `src/transaction/{mod,event}.rs` | the list of events; deltas per group and superblock; inode operations | one recorder per event; `compress`, `flush` under the superblock lock | each event is applied once, in an order in which bitmaps and ownership agree |
| Collector `src/transaction/collector.rs` | blocks touched, postludes | clone, write, run the postludes | all changes reach the device; freed blocks return only after that |
| Block cache `src/block/mod.rs`, `src/cache.rs` | block number to locked buffer | `get`, `get_mut` (tracks on first write), `get_io_request` | one buffer per block |
| Block groups `src/block_group/`, `src/filesystem.rs` | counters, places of bitmaps and inode table; `None` until loaded | lazy load, `allocate_blocks`, `deallocate_blocks` | counters equal the bitmap |
| Superblock `src/superblock/` | `manipulator` behind a ticket lock, free inode counter, orphan list | orphan link changes, counters | the list on the device leads to every orphan |
| Inodes `src/inode/{allocator,manager,mod}.rs` | atomic bitmap per group, weak cache, `links_count`, size, extents | allocate, get, drop (deallocates at zero links), `set_size`, `prealloc` | one object per number; a number is not reused while its object lives |
| Extent tree `src/inode/extent/` | a path of cached nodes, the root in the inode | `or_allocated_many`, `remove_after`, splits, growth | a function from file blocks to device blocks |
| Legacy map `src/inode/legacy/` | none | lookups only | - |
| Directories `src/directory/` | entries in blocks, linear or hashed | lookup, create, remove, rename | names unique, link counts right |
| Files `src/file.rs` | an inode | read, write, truncate, `set_size` | a write lands on blocks of this file |
| Locks `lib/synchronizations/` | ticket lock: two 32-bit counters; `RwLock`, `SimpleLock`: a state word and sleepers | `lock`, `read`, `write`, their try forms, `upgrade`, `downgrade`, drop of the guards | mutual exclusion, order of arrival, no lost wake-up |
| Format, checksums, hashes, paths, driver, shell | none between calls | - | - |

Components call each other and share the block cache; there are no messages. A
file operation takes blocks from the buddies **at once** and records events in
the caller's transaction. `done` applies them to the cached bitmaps, group
descriptors, inodes and superblock, clones the blocks it touched, writes the
clones and then runs the postludes, which give freed blocks and inodes back.

What is hard here:

* **Interleaving.** Memory (buddies, extents) changes at the operation, the cached
  metadata at `compress` and `flush`, the device at `write_bios`. Only `flush` holds
  a lock over several blocks.
* **Ordering.** Clones are taken and written in no common order.
* **Failure.** A refused write leaves `done` at once; a crash between two writes
  leaves any prefix of them.
* **Locks.** Ticket locks are not re-entrant, and are taken inside each other.
* **Check, then act.** Directories look a name up and add it later, inodes leave the
  cache by number after the number is free, a block of a hashed directory splits in view of others.
  The code relies on callers here; the models state the discipline they need, and for each part of it a
  run shows what happens without.
* **Errors halfway.** A directory operation that fails has changed entries, numbers or blocks already; its
  transaction is dropped, and the program goes on.
* **Numbers.** Counters kept as deltas, `i_blocks`, wrapping tickets, size classes.

## 2. Modules

| Module | Models | Composes / refines |
|---|---|---|
| `BlockOwnership` | the promise of the block layer: a block is free, of one file, being released, or lost | abstract |
| `BlockTx` | allocator (as a set), transactions, flush, write-back, cache and device | refines `BlockOwnership` |
| `BlockTxProofs` | theorems about `BlockTx`: types, who has which block, the refinement | extends `BlockTx` |
| `BlockTxMemory` | theorems about bitmaps, extents and free counts in memory, and the counters of descriptors and superblock | extends `BlockTxProofs` |
| `BlockTxDisk` | theorems about the device | extends `BlockTxMemory` |
| `Buddy` | the buddies themselves, with the steps between their locks | refines `BlockOwnership` |
| `BuddyProofs` | theorems about `Buddy`, the refinement included | extends `Buddy` |
| `ExtentTree` | the extent tree of an inode: lookup, cursors, insertion, growth, split, truncation | used by `Files` |
| `Files` | write, read, walk, truncate and drop of a file over its tree | extends `ExtentTree` |
| `Inodes` | numbers, weak cache, names, link counts, orphan list, the last drop | - |
| `DirectoryBlock` | the slots of a block of entries | used by `Directories` |
| `Directories` | linear and hashed directories, several threads, the split of a block | extends `DirectoryBlock`, refines `NameMap` |
| `DirectoriesProofs` | theorems about `Directories`, the refinement included | extends `Directories` |
| `NameMap` | a set of names with operations that take time | abstract |
| `FairLock` | a queue: the head holds the lock | abstract |
| `TicketLock` | the two counters, one step per atomic operation | refines `FairLock` |
| `TicketLockProofs` | theorems about `TicketLock`, for any width of the counters | extends `TicketLock` |
| `ReadersWriters` | several readers or one writer | abstract |
| `SleepLocks` | `RwLock` and `SimpleLock` with sleeping and waking up | refines `ReadersWriters` |
| `SleepLocksProofs` | theorems about `SleepLocks` | extends `SleepLocks` |
| `MC...` | values of the constants for TLC | extend the module they are named after |

### BlockTx

`free` stands for the buddies, `owned[f]` for the blocks of the extents of `f` in
memory, `cache` and `disk` for the metadata in memory and on the device. A piece of
metadata (`Slot`) is a bitmap, a group descriptor, an inode or the superblock; what
it says is a set of blocks and a number. `DeviceBlock` puts pieces together as the
device does: descriptors in one block, inodes in blocks of the inode table.

`pc[t]` is where the transaction of a thread is: `open` (operations are recorded:
`Extend`, `Truncate`), `compress` (one event per step), `flush` (one delta or
inode operation per step, under `sbLock`; `WorkedOff` says what is left to do in each stage and who holds that lock), `writeback` (one clone or one write per
step, then the sync; any of the writes and the sync may fail), `postlude` (one
freed run per step). A step is what happens under one write lock of a cached block,
so two transactions meet between any two of them. The order of hash maps and hash
sets is free: groups in `SubmitBlockGroup`, blocks in `Snapshot`. The superblock is
cloned first, as in `Collector::done`.

Abstractions, on purpose:

* An operation records one allocation or deallocation and the change of size after
  it. Writes share the transaction of their caller; `File::truncate` has one of its
  own (`Record`). A caller that extends a file without changing its size would leave
  the new extents unwritten; callers here call `set_size`, as the tests do.
* `Truncate` takes any set of blocks of one group. The loop of
  `CursorMut::remove_after` ends only when the extents it keeps end before the cut;
  otherwise it records what `Truncate` records and never reaches `done`. That loop
  is in `ExtentTree`.
* Blocks of extent nodes are blocks of the file like others; their content is in
  `ExtentTree`, and file data is nowhere.
* `ExclusiveFiles` says that callers do not use one file in two open transactions;
  with one file in two transactions the sizes may be submitted in either order.

### Buddy

Blocks are numbers, chunks are aligned runs of `2^order`. The search of
`try_allocate_at` is one step because `backref` stays locked for all of it and every
other operation takes that lock first; each `insert` of `push_chunk` is a step of
its own. `pend[t]` is the run a thread has still to push, `held` the blocks with
callers. `stuck` is a thread that pushes while it holds `backref`: the branch at
`allocator.rs:91` would do that, and the run shows it is never taken.

### ExtentTree and Files

`tree` maps the root and the node blocks to their header and **all** their slots (a
slot past the count stays readable, and the code reads some); `owned` and `want` are a
ledger of what was allocated for which file block; `cache` is the leaf the last cursor left
behind. A cursor lives under the lock of its inode, so the steps are the iterations of
the loops of one operation: `OrAllocatedMany` (compute where to look, ask for a run and get a shorter
or an equal one), `InsertLeaf` (merge, insert or report a full node), `Grow`, `Split`,
`TruncateLast`, `MovePrev`. `Files` opens the cursors: `StartWrite` is `prealloc`,
`FinishWrite` the walk that sends the data, grouped by `Requests` as `write_slices`
does; then the writer sets the size.

What the code does and the model keeps (names in parentheses are instances of section 3):

* Extents merge up to a length of 0x8000 (`MaxLen`), which the root reads as an uninitialized extent of no
  blocks (`files_full_extent`: lookups find nothing). `filled` remembers that the root has held such an extent;
  `MapExact`, `TransfersAgree` and `FailsOnlyWhenFull` are about behaviours where it has not. `MaxLen` is 4 in `files`,
  so extents do reach it in the root and in node blocks, where it is read as it should be.
  One call of the allocator gives at most half of it (`MaxRun`).
* The place to look from is a difference of unsigned numbers, which may underflow (`HopeUnderflows`): a panic where
  overflow is checked, `files_hope`. The other runs number the blocks from 11, behind any file block.
* `remove_after` leaves its loop on an extent that ends *before* the cut only. A
  truncation that cuts an extent hangs, with the lock of the inode held
  (`files_truncate`). `OperationsEnd` says that every other loop ends, by a measure
  that every step lowers.
* `move_prev_with_cleanup` ends when it has freed an empty node whose parent has other
  children, and the loop of the truncation then finds no leaf: a file with several leaf
  nodes that is dropped gives back the blocks of the last node only (`files_drop`).
* The same truncation may leave a leaf of the removed node in the cache; the next cursor
  starts from it. `TransfersAgree` therefore is about trees of one level, or a cached leaf that
  is fresh.
* `truncate` passes a length in bytes as a block number, so it keeps more than asked, and sets any size: a write below
  a size that no block stands for finds no blocks and sends nothing (`files_stale_size`).
  `WriteHasBlocks` is about the writes up to the recorded size.
* `insert_at` does not move the last entry; an insertion before the last entry loses it (`files_sparse`).
  `InOrder` says that single blocks are asked for from the front, as the directories do, and
  `for_each_lba_mut` has no caller that does otherwise. A write always starts behind the last extent.
* A mutable cursor keeps the cached leaf when it loads a new path. A walk over several
  blocks that starts in the cached extent would allocate later blocks again; walks are one
  block long here.
* Panics and errors of branches that are not written end the behaviour.

### Inodes

A number (`bits`, and the free counts of superblock and group), its object (`objs`,
an incarnation of the number; `weak`, the cache), who holds the object (`handles`, and `keep` for the
operations of a transaction), names (`entry`), and the orphan list in memory (`orphan`)
and on the device (`meta`, with the bitmap, counters and link counts that `done`
applies events to). A creation is `StartCreate` (the name is free), `Scan` (one group; the clear bit is set),
`Count` (the counters follow and the events are recorded) and `Create` (the object, the entry); `LookupEntry` and
`OpenEntry` are the two halves of opening. `DropLast`, `DropDone`, `Free`, `Uncount`,
`Forget` are the drop of the last reference: its own transaction, the postlude that frees the
number and then counts it, and the removal from the cache by *number*.

**Failures** are part of the behaviour. A creation or renaming may find no block for the name, no number may be
left, a removal is refused for its link count when the entry is gone already. `Abandon` is what follows: the caller
passes the error on and the transaction is dropped. Without events this does nothing and the program goes on
(`inodes_refused`: a directory that was opened while it had a subdirectory keeps the link count of
then in its object, and is refused later). With events it is a `todo!()` (`inodes_full`; builds for tests
drop the events silently). `lost` remembers the inodes whose entry a failed operation took: such an inode stays counted and nobody
can reach it, so `CountsAgree` counts one link for it, and `NothingForgotten` and `Reclaimed` do not promise its number back. `NeverPanics` excuses
what follows when such an inode is a directory in a directory that can be removed itself.

**Discipline**, in two constants the code does not enforce. `OwnNames` (`Mine`, `MyDir`): two unfinished
transactions do not touch one name, nor a directory the other makes. `QuietDrops` (`Alone`, `NoDrop`):
the last reference to an inode is not dropped while another thread is inside an operation. Without the second,
`inodes_drop_race` finds two objects for a number, and `inodes_orphan_race` an orphan that is not on the list of the device.
The counters do not need it: `inodes_counters` has `QuietDrops = FALSE`, so the postlude of a drop meets
the scan and the count of a creation in every order, and `CountersFollow` holds. Without the first, two threads that create one name
both succeed and one of the two entries leads to an inode nobody finds: `CountsAgree` fails after 13 steps.

`Rename` has further limits, stated at the action: it removes a file of the new name from the *old* directory,
updates neither `..` nor the link counts of the parents, and would leave two entries of
one name in the new directory. The shell drops its reference before `done` (`shell.rs:199`), against the
comment at `directory/mod.rs:207`; such a drop finds an inode that is not an orphan yet
and ends in a `todo!()`. Callers here drop after `done`.

### DirectoryBlock, Directories and NameMap

A block is a sequence of slots with a name (or none) and a length; `insert_entry` splits a
slot with room, `destroy` merges one with its predecessor. A linear directory is a sequence of
blocks, a hashed one has the index of its root as well. Threads look up, remove and
list block by block, and add in the same way; the split is the five steps `Gather` to
`PutNew`, each of which others could see. Initially the directory is freshly
hashed, or one that another implementation left (`Foreign`): linear, hashed with a full block, or hashed with a second block
that goes on with a hash of the first.

`NameMap` is a set of names and nothing else: a name comes or goes at one instant, no other with it, and a lookup or listing that takes
time answers with all names that were there throughout and none that never was.

The code keeps this promise on conditions, and each condition has an instance that fails without it (section 3):

| Condition | Without it | Instance |
|---|---|---|
| no two names have one hash | a split gathers the entries in a map keyed by hash (`node.rs:428`), so a name gives way to another of its hash | `directory_collision` |
| entries take at most a quarter of a block | true of blocks of 2048 and 4096 bytes, and in 1024 of names up to 248 bytes; beyond that a half of a split may not fit and the answer of `insert_entry` is not looked at (`node.rs:492`, `501`) | `directory_long` |
| linear directories are not listed (`LinearLists`) | the second entry of every block is dropped (`linear.rs:91`) | `directory_list` |
| one thread at a time adds or removes a given name (`MayAdd`) | the name is there twice | `directory_twice` |
| nobody is inside while a block splits (`MayEnter`) | a lookup misses a name that was there throughout | `directory_reader` |
| one adds at a time (`MayAdd`) | a name is put where its hash used to lead, and is never found | `directory_stale` |

The last three are `Disciplined`; `BlocksTiled` and `IndexSound` need them too, and nothing else: `directory_chain` has equal hashes,
entries of half a block and linear listings, and both hold there.

Panics the code can reach end a behaviour (`Halted`): a full index, the `unwrap` at `node.rs:442` when no block can be
allocated for the split (`GrowFails`), and the one at
`node.rs:471` when the entries take at most half of the block once names of equal hash
are gone or the room was in fragments. A cursor that meets a block which is allocated but not filled yet panics as well;
this needs callers without discipline, and `Visits` leaves it out.

What is assumed of the constants, and why. No entry takes more than half a block: names
have at most 255 bytes (`name_len` is a byte) and blocks at least 1024. Hashes are even (the lowest
bit marks a block that goes on). A foreign directory is one that another implementation
leaves: its slots tile the blocks, no name is there twice, and its index leads to every
name (`ForeignAssumption`). There is more than one name (`NamesAssumption`), so that a listing can be told from a
lookup by what it asks for.

Left out: inode numbers and types of entries, `.` and `..` of a hashed directory,
paged listings. The binary search of the cursor is the last index entry at or below the hash, which it
is in a sorted index (`IndexSound`).

### SleepLocks

`state` is the word of `RwLock` (readers counted below `WRITER_LOCKED`) or of `SimpleLock`
(`simple`). A thread reads the word, swaps it, and on failure calls the `Dreamer`, which
looks again before it sleeps; a sleep may end for no reason, and `waking_up` wakes
all. `upgrade` spins: two at once wait for each other for ever (`CallsReturn` fails
in nine steps with `Disciplined = FALSE`); nothing in the repository calls it. The comment at
`rwlock.rs:83` describes more state bits than the code has.

### TicketLock

`next` and `owner` wrap at `Modulus` (2^32 in the code). The comment at
`ticket_lock.rs:52` speaks of 31 bits and a padding bit; the fields are whole `AtomicU32`s,
and that is what is modelled. Steps are interleaved as if sequentially consistent. The
unlock and the fast path of `lock` are `Relaxed`, so the code does not even order the
data of two critical sections; no statement about that is made here.

## 3. Runs

| Run | Instance | Checks | Result |
|---|---|---|---|
| `tx_concurrent` | 2 threads, 2 groups of 1 block, 2 files in one block of the inode table, 2 events each | `WorkedOff`, `OwnershipExclusive`, `BitmapAssertions`, `CountersConserved`, `MemoryAgreesWhenIdle`, `OwnershipSpec` | holds |
| `tx_durable` | 1 thread, 2 groups of 1 block, 2 files in different blocks, 4 events, failing writes | `DurableWhenIdle`, `DiskNoSharing`, `ReleasedOnce`, `ReuseAfterWriteback`, `DoneReturns`, `ReleasedIsFreed` | holds |
| `tx_lost_write` | 2 threads, 2 blocks of one group, 2 files | `DurableWhenIdle` | violated |
| `buddy` | 2 threads, 6 blocks, orders 0 to 2, requests of 1 to 5, three fillings at mount | `TypeOK`, `IndexesAgree`, `BlocksExclusive`, `OnlyHopeLoses`, `ShortAnswers`, `CallsReturn`, `OwnershipSpec` | holds |
| `buddy_leak` | 1 thread, 4 blocks | `FullMeansFull` | violated |
| `files` | a file of up to 5 blocks of 2 bytes on a device of 9, nodes of 2 slots, extents of up to 4 blocks | `MapExact`, `OwnsExactly`, `TransfersAgree`, `WriteHasBlocks`, `FailsOnlyWhenFull`, `OperationsEnd` | holds |
| `files_truncate` | a file of up to 3 blocks on a device of 4 | `TruncateReturns` | violated |
| `inodes` | 2 threads, 2 names, 2 inodes in 2 groups, operations begun with fewer than 2 events, failing operations | `OrphanListComplete`, `OneObject`, `CountsAgree`, `NeverPanics`, `CountersFollow`, `NothingForgotten` | holds |
| `inodes_refused` | 1 thread, 2 names | `RemovalsGoThrough` | violated |
| `directory` | 2 threads, 4 names of 4 hashes and up to a third of a block, blocks of 48 bytes, an index of 3 | `BlocksTiled`, `IndexSound`, `NameMapSpec` | holds |
| `sleep_locks` | 3 threads with 2, 2 and 1 calls | `CallsReturn`, `ReadersWritersSpec` | holds |
| `ticket` | 3 threads, 4 tickets | `TypeOK`, `TicketsInWindow`, `LockReturns`, `FairLockSpec` | holds |

What a run leaves out by its constants, or a property by its wording, is not hidden: each of the following configurations
lets TLC show what the code does there, or that a property holds beyond its run. They are checked like the others
(`tlc -config <name>.cfg <module>`) but are not part of the twelve.

| Instance | Module | What it lifts | Property | Result |
|---|---|---|---|---|
| `tx_i_blocks` | `MCBlockTx` | events of two blocks | `IBlocksCountsExtents` | violated |
| `files_full_extent` | `MCFiles` | `filled` in `MapExact` | `LookupExact` | violated |
| `files_hope` | `MCFiles` | blocks numbered from 1 | `FailsOnlyWhenFull` | violated |
| `files_drop` | `MCFiles` | what a drop must give back | `DropFreesAll` | violated |
| `files_stale_size` | `MCFiles` | the size in `WriteHasBlocks` | `PreparedBlocks` | violated |
| `files_sparse` | `MCFiles` | `InOrder` | `LookupExact` | violated |
| `inodes_full` | `MCInodes` | what an error in a transaction with events must do | `ErrorsReturn` | violated |
| `inodes_drop_race` | `MCInodes` | `QuietDrops` | `OneObject` | violated |
| `inodes_orphan_race` | `MCInodes` | `QuietDrops` | `OrphanListComplete` | violated |
| `inodes_reclaimed` | `MCInodes` | one name, under the fairness of drops | `Reclaimed` | holds |
| `inodes_counters` | `MCInodes` | `QuietDrops`, both inodes in one group | `CountersFollow` | holds |
| `directory_collision` | `MCDirectories` | hashes of their own | `SplitKeepsNames` | violated |
| `directory_long` | `MCDirectories` | short names | `SplitKeepsNames` | violated |
| `directory_list` | `MCDirectories` | no listing of linear directories | `ListsAll` | violated |
| `directory_twice` | `MCDirectories` | `Disciplined` | `NamesOnce` | violated |
| `directory_reader` | `MCDirectories` | `Disciplined` | `FindsAll` | violated |
| `directory_stale` | `MCDirectories` | `Disciplined` | `AddedIsFound` | violated |
| `directory_chain` | `MCDirectories` | hashes, lengths and listings at once | `BlocksTiled`, `IndexSound` | holds |

Why the bounds are enough to be interesting. Two threads are the smallest number
that overlap in every phase, and everything a transaction shares with another (bitmap,
descriptor, inode table block, superblock, buddies) is shared in `tx_concurrent`; a
group of one block is exhausted by one allocation, so reuse happens at once. Four events
let one transaction allocate for two files, and a truncation record two deallocations. In `buddy`, six
blocks with chunks of up to four make chunks of every order, chunks that end at the
end of the device, and requests below, at and above the largest chunk (`MaxRequest` 5 is cut to
4). In `ticket`, four tickets for three threads make both counters wrap
with all tickets in use. In `files`, nodes of two slots make a root grow after two extents and a leaf
split after three; `Near` lets an allocation start at either of the first two free
blocks, so that extents merge or do not, and a limit of four blocks on a file of five is reached and passed.
In `inodes`, one inode per group
makes the scan cross groups, and a number is taken again at once; two names are enough for a parent and its child, and for a file
that gives way in a renaming. `NothingForgotten` is the safety part of `Reclaimed`, whose liveness graph with two names is
too large. `inodes_counters` puts
both inodes into one group, so that all threads work on one counter, and `SoFar` stops it at the first state where
an object is doubled or an operation has failed, as the states behind are those of `inodes_drop_race`. In `directory`, a block holds three or four
of the names, the index gets full after two splits, and one of the initial directories has a block that goes on with a hash of the one before; `OneReader` admits one lookup
or listing at a time (readers change nothing and see the same blocks), `MaxBlocks` bounds the growth
of a linear directory. In `sleep_locks` the calls are finite (`MaxCalls`) because a stream of
readers may keep a writer out for ever; three threads make a reader, a writer and a sleeper.

`CHECK_DEADLOCK FALSE` stands where the system may really stop: a caller need not start
anything, a panic ends the program (`directory`), and the bounds on events and calls stop `BlockTx`
and `SleepLocks`. `files` and `inodes` are checked for deadlock, with `Halted` for the
states the code has no way out of.

Durability is a property of one thread only: with two, `tx_lost_write` shows
that it fails. `DoneReturns` and `ReleasedIsFreed` are checked with one thread
too, since the liveness graph of two is too large for TLC here; what they look
for (a lock kept, a postlude forgotten) does not need a second thread.

### Findings

* `tx_lost_write`: `Collector::done` (`src/transaction/collector.rs:79`) clones
  blocks after the lock of the superblock has been released and writes the clones
  later. When two transactions touch one device block, the older clone can be written
  last; both calls return `Ok` and the device lacks the newer change until
  somebody touches the block again. The comment above `Collector`'s `Default`
  (line 38) asks for that lock to be held.
* `buddy_leak`: an allocation at the hoped-for place takes the last chunk whole
  (`src/block/allocator.rs:89` compares with `chain`, not with `allocated`), so its
  end is free in the bitmap but in no buddy until the next mount, and `FsFull` is
  answered too early.
* `files_truncate`: `remove_after` (`src/inode/extent/cursor.rs:204`) shortens an extent that
  ends at the cut to its own length for ever; a truncation into an extent never returns.
* `inodes_refused`: `do_remove_entry` takes the entry away (`src/directory/mod.rs:169`) before it looks at the link count
  of the object, which does not follow the subdirectories made and removed since it was loaded. An empty directory
  that was opened while it had a subdirectory is refused ("Hardlink is not permitted on directory.", line 188) with its entry gone;
  the transaction has no events and is dropped without a word, and nobody reaches the inode again.

The further instances show, in the same order as above:

* `tx_i_blocks`: a deallocation event of several blocks takes one block off
  `i_blocks` (`src/transaction/event.rs:149`).
* `files_full_extent`: extents merge while `len + new.len <= 0x8000` (`src/inode/extent/path.rs:373`), but the root
  reads a length of 0x8000 as an uninitialized extent of length 0 (`src/inode/extent/mod.rs:432`), and lookups find nothing.
* `files_hope`: `start - (self.fba - block)` (`src/inode/extent/cursor.rs:139`) underflows for an extent at the beginning of the device.
* `files_drop`: `move_prev_with_cleanup` (`src/inode/extent/path.rs:743`) leaves its path on the slot of the node it has freed,
  and the truncation of a dropped file ends there; `src/inode/mod.rs:405` says "Truncate to the zero."
* `files_stale_size`: `prealloc` trusts the recorded size (`src/inode/mod.rs:532`), which `truncate` may have set without any block.
* `files_sparse`: `insert_at` (`src/inode/extent/mod.rs:156`) does not move the last entry.
* `inodes_full`: when `add_entry` finds no block (`src/directory/mod.rs:131`) the number is taken and the events are recorded; the
  transaction is dropped with a `todo!()` (`src/transaction/mod.rs:56`) where `File system is full.` should be returned.
* `inodes_drop_race`: `Drop` removes whatever object the cache has for the number (`src/inode/mod.rs:420`), also one made
  meanwhile, and the next lookup makes another.
* `inodes_orphan_race`: `remove_orphan` (`src/superblock/mod.rs:216`) takes the neighbours when the inode is dropped; an orphan put at the
  head before the event is applied is unlinked with it.
* `directory_collision`: names of one hash replace each other in the map of `split_data` (`src/directory/htree/node.rs:428`), whereas
  line 457 says that hash collisions are handled there.
* `directory_long`: the second half has no room for all its names, and what `insert_entry` answers is ignored (lines 492 and 501).
* `directory_list`: an entry read ahead is dropped (`src/directory/linear.rs:91`).
* `directory_twice`, `directory_reader`, `directory_stale`: no lock of the directory covers a lookup and what follows from it
  (`src/directory/mod.rs:110`, `src/directory/htree/node.rs:483` and `532`); section 2 says what is lost.

## 4. Fairness

`BlockTx!Fairness` is strong fairness of `Commit(t)`: a thread inside `done` keeps
running, and the only thing it waits for, the lock of the superblock, is handed over in order of
arrival, which is what `TicketLock` is shown to do. Callers are not obliged to begin
an operation or to call `done`, and a device is not obliged to fail. `Buddy` assumes
weak fairness of a thread that is pushing, `TicketLock` weak fairness of a thread inside
`lock`, `try_lock` or a critical section (guards are dropped). `Files!Fair` is weak fairness of
the loop of an operation. `Inodes!Fairness` is weak fairness of a drop, which runs
in the thread that gave up the last reference. `SleepLocks!Spec` assumes weak fairness of
a thread inside a call or holding the lock, except that a sleeper wakes only when woken.

## 5. Proofs

A theorem here is about every value of the constants that the `ConstantsOK` (or
`SleepLocksAssumption`) of its module admits: in `BlockTx` any sets of threads, files and groups, any finite set of
blocks and any bound on events; in `Buddy` any number of blocks, orders and threads, and anything in use at mount;
in the locks any finite set of threads with fewer threads than tickets, or than the writer's bit; in `Directories` any
threads, names, hashes and lengths of names, any size of blocks and of the index, and any foreign directories that meet
the assumptions of section 2 (`DirectoriesAssumption`, `NamesAssumption`, `ForeignAssumption`). All but five
(`TypeCorrect` of `BlockTxProofs`, `NeverWaitsForItself`, `MutualExclusion`, `ImplementsQueue`, `WordSaysWho`) state a
property that a run checks.

| Module | Theorem | Statement |
|---|---|---|
| `BlockTxProofs` | `TypeCorrect` | the types of all variables |
| | `StagesKept`, `Exclusive`, `GivenBackOnce` | `WorkedOff`, `OwnershipExclusive`, `ReleasedOnce` |
| | `ImplementsOwnership` | `OwnershipSpec` of `BlockTx` |
| `BlockTxMemory` | `NoBitTwice`, `MemoryAgrees` | with private files: `BitmapAssertions`, `MemoryAgreesWhenIdle` |
| | `CountersRight` | with private files, finitely many threads and groups: `CountersConserved` |
| `BlockTxDisk` | `Durable`, `NoSharingOnDisk`, `ReusedLate` | with one thread: `DurableWhenIdle`, `DiskNoSharing`, `ReuseAfterWriteback` |
| `BuddyProofs` | `TypeCorrect`, `SameChunks`, `NoBlockTwice` | `TypeOK`, `IndexesAgree`, `BlocksExclusive` |
| | `NeverWaitsForItself` | no thread pushes a chunk while it holds `backref` |
| | `OthersLoseNothing`, `AnswersShortForAReason` | `OnlyHopeLoses`, `ShortAnswers` |
| | `ImplementsOwnership` | `OwnershipSpec` of `Buddy` |
| `TicketLockProofs` | `TypeCorrect`, `WindowHolds` | `TypeOK`, `TicketsInWindow` |
| | `MutualExclusion` | no two threads in the critical section |
| | `ImplementsQueue` | the safety part of `FairLockSpec` |
| `SleepLocksProofs` | `WordSaysWho` | the word counts the readers or names one writer |
| | `ExcludesWriters` | `ReadersWritersSpec` |
| `DirectoriesProofs` | `BlocksStayTiled`, `IndexStaysSound` | with disciplined callers: `BlocksTiled`, `IndexSound` |
| | `ImplementsNameMap` | on the conditions `Promised`: `NameMapSpec` of `Directories` |

### The hypotheses

* `PrivateFiles == ExclusiveFiles \/ OneThread`: no two live transactions work on one file, which
  callers have to see to (section 2). With one file in two transactions the sizes may reach the inode
  in either order, and one transaction may clear a bit that the other has still to set.
* `OneThread`: the three theorems about the device. With two threads `DurableWhenIdle` is false
  (`tx_lost_write`): a clone taken before another transaction changed the block is written
  after it. `OneThread` is also an instance of the runs that check these properties.
* `FinitelyMany` (threads, groups): the counters are sums over them.
* `Disciplined` (`Directories`): the callers do what `MayAdd` and `MayEnter` say. Without it all three
  properties are false (`directory_twice`, `directory_reader`, `directory_stale`).
* `Promised`, for the refinement only: `Disciplined`, entries of at most a quarter of a block (`ShortNames`; always so with blocks of 2048
  and 4096 bytes), no two names of one hash (`HashesApart`), no listing of linear directories. Nothing in the code
  sees to any of these; each is there because the refinement is false without it, as one of the `directory_...` instances shows.
* `MayFail` may be true in all of them: writes fail at any point.

### The arguments

*Who has which block* (`IInv` of `BlockTxProofs`). `OwnershipExclusive` is not
inductive alone. A step of `compress` moves a deallocation from the events to the
postludes and a postlude moves blocks to the buddies; to know that the blocks are
then gone from what the transaction still holds, no block may be in two of its
events or postludes. That is `ReleasedOnce`, whose first conjunct (no events are left
after `compress`) is in turn needed to know that a transaction which fails or finishes drops
nothing. `IInv == TypeOK /\ OwnershipExclusive /\ ReleasedOnce` is inductive. Under it each step
changes the status of blocks in one way, which is a step of `BlockOwnership` or none
(`OwnershipStep`).

*Memory* (`MInv`). What a bitmap says is determined: `BitsTell` has a bit set exactly for blocks
in use which no transaction has still to mark, and for blocks some transaction has still to
unmark. That needs that a transaction only has blocks of its own files among its events
(`OwnFiles`) and that blocks to be marked are distinct and still owned (`EventsFit`). `RootsTell`
does the same for the extents of a file: the last size event that waits, or else the inode, has
the present root. `CountTells` counts what is neither in use nor being released.

*Counters*. Under `MInv` the first event of a transaction finds its bits as it expects them, so a
step of `compress` changes a bitmap by exactly the delta it records. The rest is arithmetic of
`SumFunction`: one summand changes, the sum changes by as much (`SumChanges`); the groups have all
blocks between them (`GroupsPartition`).

*Device* (`DInv`). Each slot is on the device as it is in the cache, or on its way there
(`Settled`: its block is tracked, or a clone of it waits); clones are current, which is where
one thread is needed; after a failed write this still holds of what the live transaction changes
(`OwnSettled`). `NoReuse` says of each block that an inode *on the device* maps that it is not in the
buddies, not another file's, and released by a transaction that works on that file only.

*Buddies* (`IInv` of `BuddyProofs`). Types, `NeverStuck`, `IndexesAgree`, `BlocksExclusive`, and
`ChunksFit`: no chunk reaches beyond the device. That chunks do not overlap is what makes the branch at
`allocator.rs:91` unreachable: the chain at the hoped-for place is as long as the chunks it is
made of, so a chunk that begins in it ends in it (`ChainOf`). A chain of chunks, a cutting into pieces and
the runs of zeros of a bitmap are recursive or minimal choices; lemmas say what they return
(`ChainIs`, `PiecesTile`, `FreeRunsAre`). Every allocation takes whole chunks and gives them to the
caller and to the run to be pushed (`Takes`), and one lemma shows that this keeps everything.

*Ticket lock*. `TicketsInWindow` says that the tickets drawn are those from `owner` to `next`, counted
with wrapping; two threads never have the same (`OneEach`), as long as there are fewer threads than tickets. The queue
of `FairLock` is the threads sorted by their distance from `owner`.

*Sleeping locks*. `WordCounts`: the word is the number of readers, or `WRITER_LOCKED` with exactly one writer.
A thread that swaps the word against one it read before swaps against a word that did not block it (`Asked`).

*Directories* (`IInv` of `DirectoriesProofs`). Outside a split the blocks are `Tidy` (tiled, no name twice) and a
hashed directory is led to by its index (`Leads`); but a split passes through states where neither holds, so
the invariant says of each step of it what the directory will be once the rest is done: `Gathered` before
the new block, then `Final`, the blocks with both halves in place, which is `Parted` (tidy) and, once the index
has the new entry, led to (`Unlinked` says it will be). `Entered` keeps for an addition that its name
is missing and that a block with room is ahead, or none was and it splits: this is where a second addition
at once, or a split behind the back of a cursor, would break it (`Alone`). Below are lemmas on the operators:
`insert_entry` and `destroy` keep a block tiled and add or take one name
(`InsertIs`, `DestroyIs`), a block filled with names that fit holds these names (`FilledHolds`), the two halves of a
split fit and are separated by the hash between them (`HalvesAre`), and an index with one more entry leads
where the old one led but for the divided block (`LinkedStops`, `DividedLeads`).

The refinement needs the histories (`HInv`): a lookup whose name has been there since it began has it still
ahead of its cursor (`MetAhead`), a listing of a hashed directory has shown or will meet every such name
(`ListedAhead`), and during a split the two halves are to hold the names of the old block and the new one, no other and no fewer (`Handed`):
here `HashesApart` and `ShortNames` are needed. Removal and addition are the steps at which the abstract set changes; the
split changes it at `PutNew`, the earlier steps of it hide nothing anybody can ask about.

Induction over data. The induction theorems of the library take operators, which the installed
provers cannot instantiate. Two lemmas stand in for them: a set of numbers has a least one
(`LeastExists`), and a set of subsets of a finite set has a smallest one (`SmallestExists`), both from the
well-foundedness of strict inclusion. A statement is proved by contradiction from the least
counterexample, and that a recursive function exists likewise. `2^n` is counted as the number of subsets
of a set of `n` elements.

### Left to TLC

* Liveness under fairness: `DoneReturns`, `ReleasedIsFreed`, `CallsReturn`, `LockReturns`,
  `OperationsEnd`, `Reclaimed`, and with it the fairness part of `FairLockSpec` (no prover here handles
  fairness or `ENABLED`).
* `Files` and `ExtentTree`: all of their properties. They are about a tree of any depth with a cached leaf, which a
  fold walks down (`Descend`) and a recursive function searches (`BinarySearch`). An inductive invariant that ties such a
  tree, through growth, splits and truncation, to the blocks the file owns has not been worked out.
* `Inodes`: all of its properties. They tie objects, the list of orphans and the
  counters to what the events of every open transaction have still to do, and to where every drop stands.
* The results of the runs and instances with a violation, which are counterexamples.

## 6. Not modelled

* The block cache as a map with loading, and the lazy loading of block groups (with the
  deadlock it allows when loading fails at mount): in the list of hazards.
* Runs of blocks across a group boundary, the last short group, padding of bitmaps.
* The legacy block map and symbolic links: lookups without state; every change is a `todo!()`.
* Mounting, and checks of what is read from the device.
* Formatting, checksums, hash functions, the path library, argument parsing and printing of driver and shell:
  sequential code without state of its own.
* Memory orderings weaker than sequential consistency.
* The composition of `Inodes` with `BlockTx`: a crash inside the `done` of a transaction that
  unlinks, and the failure of a write in it.

## 7. Plan

1. Done: `BlockOwnership`, `BlockTx`, `Buddy`, `FairLock`, `TicketLock`.
2. Done: `ExtentTree`, `Files`, `Inodes`, `DirectoryBlock`, `Directories`, `NameMap`,
   `ReadersWriters`, `SleepLocks`.
3. Done: proofs of all safety properties of `BlockTx`, `Buddy`, `TicketLock`, `SleepLocks` and
   `Directories`, with their refinements.
4. Proofs to come: `CountersFollow` of `Inodes`, which needs no discipline, then `OneObject` and the orphan list; then the
   tree of `Files`.
5. Group boundaries in `BlockTx`, lazy loading of groups and the lock order around it.
