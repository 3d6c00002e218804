# SadOS: a verification project

SadOS is a micro-kernel for x86-64 written in C: the kernel isolates processes,
manages address spaces and passes messages; console, file systems, the disk driver
and the loader are user programs.  This directory holds TLA+ models of the kernel's
core, of the two servers with their driver and of parts of libc, the TLC
configurations that check them on small instances, and TLAPS proofs about the
scheduler, IPC, copy on write, the areas of address spaces, the allocators with the
radix tree, the heap, the file server, the file system on the disk, the disk driver and
the console server.  Paths below are relative to `src/`.

## 1. Inventory

| Part | State | Operations | Interacts with |
|---|---|---|---|
| Scheduler (`sys/sched.c`, `sys/main.c`) | `tasks[]`, `runq`, `current`, `to_kill`, each task's state, parent, children | `schedule`, `after_switch`, `wake_up`, `create_task`, `exit`, `kill_process`, `int_reschedule`, idle loop | everything that sleeps or wakes |
| Interrupts (`sys/interrupt.c`, `sys/services/int.c`) | `int_wait_list[]`, the mark in each request, `interrupt_disabled` | `int_handler`, connect / available / dup / drop of the interrupt port | wakes tasks; runs between any two instructions with IF set |
| IPC (`sys/ipc/port.c`, `sys/ipc/uport.c`) | `port[]`, `uport[]`, descriptor tables, requests, queued messages, cookies, `port_wait_list[]` | `open_port`, `port_connect`, `request`, `pop_request`, `respond`, `get_response`, `close`, `dup0`, `wait_on`, `wait_on_port` | wakes tasks; carries page lists |
| Copy-on-write pages (`sys/mm/page_man.c`, `copy.c`, `page_fault.c`, `syscall.c`) | pages with `ref_count` and `snap_count`, page entries, page tables, page lists of messages | page fault, `asnew`, `sendpage`, `munmap`, `map_from_user`, `map_to_user`, `copy_to_user_simple`, `destroy_as` | faults and system calls of every process |
| Address spaces (`sys/mm/aspace.c`) | the sorted list of areas of each address space | insert at / anywhere, remove a range, find, validate | used by all of the above |
| Allocators (`sys/mm/get_page.c`, `obj_pool.c`) and radix tree (`sys/lib/binradix.c`) | unused ranges, free pages, pools, the tree of managed pages | get / drop a page, allocate / free an object, create / destroy a pool, insert / find / delete / visit | used by all of the above, and by each other: pools live on pages, the tree's nodes in a pool |
| Heap (`libc/malloc.c`) | free lists of 13 orders, headers of blocks | `malloc`, `free` | pages from `sendpage` |
| File server (`bin/fs/vfs.c`, `tarfs.c`, `fs.c`) | connections, open files, the archive's table, bitmaps and blocks of the disk | the server loop: accept, open, read, write, readdir, lseek | IPC; the disk driver |
| Disk driver (`bin/fs/ahci.c`) | the port's command list, the registers of the controller | bus scan, port set-up, `read_sata`, `write_sata` | the controller, which works at the same time |
| Console server (`bin/console`) | scan code state, line buffer, rings of lines and reads, screen | keyboard interrupts, read, write, change of the foreground | IPC, interrupt port |
| libc (`libc/rw.c`, `getcwd.c`, `exec.c`), shell | working directory, open descriptors | client side of the file server's requests | IPC |

What is hard here:

* **Concurrency.** There is one CPU and no preemption (the timer handler returns
  0, `sys/timer.c:40`), so tasks interleave only where they call `schedule()`.
  Interrupts are the other source: code that runs with interrupts enabled can be
  interrupted anywhere.
* **Lost wake-ups.** `wait_on` enables interrupts between its test and
  `schedule()`.
* **Two-ended objects.** Connections, messages and cookies are pointed to from
  two tasks that may close them in any order.
* **Failure paths** of system calls that have allocated something already.
* **Sharing.** The same physical page is referenced by several address spaces
  and messages; counters, flags and page tables must agree over any sequence of
  forks, faults, messages and exits.
* **A device beside the driver.** The driver polls registers that the controller
  changes at any time, and both use the same buffer.
* **Reuse.** Pages, objects, descriptors and blocks are used again at once: an
  error in the books shows much later and elsewhere.

The properties that make each part correct are the ones the runs check (section
3); `PROJECT.json` lists the hazards they are aimed at.

## 2. Modules

| Module | Models | State and actions |
|---|---|---|
| `Sched` | `sys/sched.c` and every place that sleeps or wakes | `state`, `runq`, `current` are the C variables; `pc` is where a task is when interrupts or other tasks can run; `ready` and `waited` abstract its descriptors to the two kinds of event a task can wait for. One action per system call or interrupt-free section. Two system calls wake somebody with interrupts enabled: `port_connect` (`Connect`) and `close` of a port from the first queued message with pages on (`ClosePort`, `CloseTell`, `CloseEnd`); there `wake_up` is the three actions `WakeTest`, `WakeState`, `WakeLink`. `stale` is what dead tasks have left dangling; whoever follows it may reach the state "freed", where the model stops (`Lost`). |
| `SchedLive` | the same with finite load and fairness | `work` counts the stimuli |
| `SchedProofs` | theorems about `Sched` | |
| `PageMan` | `page_man.c`, `copy.c`, `mm/syscall.c`, `page_fault.c`, the page part of `aspace.c` | `m` holds page entries, page table entries and pages; each C function is an operator from such records to such records and a handler composes them |
| `AddrSpaces` | abstract: every address space has private memory, a message is a copy | refined by `PageMan` (`PrivateMemory`) |
| `PageManProofs` | theorems about `PageMan`, and its refinement of `AddrSpaces` | |
| `MCPageMan` | symmetry for TLC | |
| `Uport` | `port.c`, `uport.c`: descriptors and objects of one port | `obj` are the `struct request`s (a pointer is the number of the object, never reused, so that a dangling pointer is noticed), `incoming` the queues, `clients` the lists of a PORT_REQ, `upc` the cookies; one action per system call and kind of object |
| `MCUport` | the two trials of `UportTrials` | |
| `UportProofs` | theorems about `Uport`, and its refinement of `Rpc` | |
| `Rpc` | abstract: the life of one request | refined by `Uport` (`RequestsAnsweredOnce`) |
| `Areas` | `aspace.c` and its callers `sendpage`, `munmap`, `map_to_user`, the services, `page_fault_handler`, `as_snapshot`, `destroy_as` | `areas` is the sorted list of `struct vm_area` (range, kind and the pages on its list), `vaddr_map` the pages the tree knows, `taken` the reserved physical pages, `fault` the panic that stopped the kernel. `Pieces` is what `remove_vma_range` makes of one area; the flags it does not initialise are a free choice. |
| `PageAlloc` | `get_page.c`, `obj_pool.c`, the trimming of the memory map in `paging.c` | operators on a record: `head` the free list, `usable` the unused ranges, `pool` each pool's free list, pages and rest of the newest page |
| `Radix` | `binradix.c` | operators on a function from node addresses to nodes; the loops are recursive functions of the number of turns, which the width of a key bounds |
| `Frames` | the two above with their callers in `page_man.c` and `copy.c` | one action per call: a managed page, a device page, a whole page, the pool of a message |
| `Malloc` | `libc/malloc.c` | `heap` holds headers and free lists, `huge` the blocks of several pages |
| `MemoryProofs` | theorems about `Frames` (with `PageAlloc` and `Radix`), `Areas` and `Malloc` | |
| `MCMemory` | `Frames`, `Areas` and `Malloc` for TLC; they share no state, `part` says which is explored | |
| `Vfs` | the loop of `vfs.c`, `tarfs.c`, the root directory; libc's `rw.c`, `chdir`, the request of `execve` | the C variables of the server; `inbox`, `backlog`, `hung` are what the kernel holds (`Uport` has the details); `at`, `conn`, `mine`, `call`, `answer` the programs. A round of the loop is one action per handle, two for an open, whose answer goes out before the table is written. When no descriptor is left the server accepts nothing, and at the next request the model stops following the loop (`ServeFull`). |
| `Ahci` | `ahci.c` and the start of `init_fs` | `st`, `fre`, `ci`, `tfes`, `busy` are register bits, `lists` the command lists in memory; `pc` is the loop the driver is in. The controller (external) has actions of its own; `strict` controllers stop at an error, others go on. |
| `Disk` | abstract: one request at a time, success means the sector was moved | refined by `Ahci` (`DiskKept`) |
| `FileServerProofs` | theorems about `Vfs` and `Ahci`, and the refinement of `Disk` | |
| `MCFileServer` | `Vfs` and `Ahci` for TLC, with the fairness of both | `part` says which is explored |
| `SataFs` | `bin/fs/fs.c` and the requests of `bin/fs/vfs.c` that reach it | the disk's bitmaps, inodes, dentries and data blocks; `tail` is the part of `common_buf` beyond the sector, where the names of odd dentries live; `handles` is `handle_to_fd`. One action per request. |
| `Files` | abstract: files as sequences of bytes | refined by `SataFs` (`FilesKept`) |
| `SataFsProofs` | theorems about `SataFs`, and its refinement of `Files` | |
| `MCServers` | `Console` and `SataFs` for TLC; they share no state, `part` says which is explored | |
| `Console` | `bin/console/main.c` | `line`, `readable_lines`, `pending_read` and their indices are the C variables, `scr` is the screen and its buffer; `wire` and `held` are the keyboard (external); a character is the number of its key stroke. `pc` divides the main loop into draining the keyboard, answering reads that wait, and one request. |
| `ConsoleProofs` | theorems about `Console` | |
| `ListLemmas` | lemmas about sequences that the proof modules share | |

Conventions: operators named `...Not`, `...Keeps...`, `...Silently` and the like,
commented "Mutant", are deliberately wrong variants of the definition that
follows them.  They are used by nothing; `PROJECT.json` ("mutants") says which
property notices each of them.

## 3. Runs

Each run checks the properties of one configuration over every reachable state.

* **SchedTwo** (`Sched`): two processes, each a driver with an interrupt and a
  server, task creation, exit and faults whatever a process holds, and every sleep
  and wake-up; device interrupts are kept out of `port_connect` and of `close` of a
  port after it has freed pages (`QuietConnect`, `QuietClose`), and a port is not
  closed under a process `open_port` has woken (`PoliteClose`): section 4.  Two
  processes and the idle task are enough for each pair of actors of a race:
  waker and sleeper, the interrupted and the interrupting.  Shows that every
  RUNNABLE process is on the run queue exactly once (`RunqSound`), that nobody
  sleeps over an event (`NoLostWakeup`), that sleepers on a port are listed
  (`PortSleepersListed`), that no dead task is on a list of the scheduler or
  anybody's parent (`DeadUnreferenced`; its descriptors do stay behind, section 4),
  that the kernel's own checks hold (`KernelChecks`), and
  that the CPU idles only if nothing can run (`IdleOnlyWhenNothingRunnable`).
* **SchedLive**: the same with a bounded number of stimuli, under fairness
  (section 5): `wait_on` and `wait_on_port` return, unless the kernel has used
  memory of a dead task.
* **PageManFork, PageManWhole** (`PageMan`): three address spaces that fork and
  send parts of pages; two that also pass pages with `sendpage` and send whole ones.
  Two pages of memory (text and data), two values and two free
  frames: a page can be shared by all, copied, and run out.  Shown: page tables
  respect snapshots, counts are exact, the tables follow the entries, and the
  whole refines private memory.  In PageManWhole, `PrivateMemory` is not checked:
  see section 4.
* **UportTrials** (`MCUport`): two trials.  A client and a server that use the calls
  as the programs of `bin/` do, six objects: enough for a port, a connection and
  its two ends and two requests under way.  The ends of each connection agree and
  every descriptor leads to a live object (`ObjectsLinked`), no freed object is
  followed (`KernelSafe`), messages and cookies have exactly one owner
  (`MessagesOwned`), and each request is answered or refused once (`Rpc`).  And two
  clients and a server that may also close things early, reuse descriptors and so
  on (`Mistake`), five objects, up to the first kernel fault: whoever makes a
  descriptor ready has woken its owner (`SleepersWaitForNothing`, in both trials).
* **Memory** (`MCMemory`), three parts that share no state.
  *Frames*: three memory maps of up to six pages, with the kernel inside a range, over
  a range and the front of the next, and over the end of one; keys of four bits, two device pages, pools with
  one to four objects a page.  Ranges and memory run out, pools grow and are
  destroyed, nodes split and merge at every depth.  Every page is in exactly one
  place (`PagesAccounted`), `binradix_find` finds exactly the managed pages
  (`TreeExact`), and the objects in use are those something points to
  (`ObjectsOwned`).
  *Areas*: an address space of four pages and requests of one or three pages at any
  address, besides what is left of them: all relative positions of two ranges (disjoint, adjacent, overlapping on
  either side, inside, equal) occur, with up to four areas.  Messages have pages
  (`Padded`) and ranges fit the limits (`Fits`), see section 4.  The list stays sorted
  and disjoint and each mapped page is on the list of the area it lies in
  (`AreasSound`); `validate_range`, `remove_vma_range`, `insert_vma_to_any`,
  `as_snapshot` and `destroy_as` agree with their definitions on sets of pages
  (`OperationsExact`).
  *Heap*: pages of eight units, three pages, nine blocks in use, requests of one unit, more than half a
  page, a page, and more.  The blocks tile the pages (`HeapTiled`), and each free
  list has exactly the free blocks of its order (`FreeListsExact`).
* **FileServer** (`MCFileServer`), two parts.
  *Loop*: two of three programs at a time, three handles (every close uses one up for
  good, so that the table fills), an archive with an empty
  file, one of exactly a block and one of less, and a member before its directory.
  Programs get the bytes and names of what they opened (`StreamsExact`), handles
  lead to their own files although numbers are used again after a failed or a second
  open (`OwnFile`), and every call returns as long as the server has a descriptor left
  (`Answered`).
  *Disk*: three machines, strict and emulated controllers, ports left running by
  the firmware, two slots, two sectors, errors at any time.  Driver and controller
  refine `Disk` (`DiskKept`), the port is set up while it rests and a slot is always
  found (`PortSound`), requests return unless the controller had stopped before
  (`RequestsReturn`).
* **Servers** (`MCServers`), two parts.
  *Disk*: four files in two directories, blocks of two bytes,
  three blocks on the disk (the last not formatted), writes of up to three bytes
  at any position up to four: a write spans up to two boundaries, leaves holes,
  and the disk fills.  One handle; positions of different handles meet only on
  the disk, and two handles with three files show nothing else.
  *Console*: two processes (one entry fewer than the rings
  have), lines of up to two characters, three key strokes that make a character
  besides any number of modifier, pause and escape keys, a screen of three rows of two
  columns: both rings wrap, the ring of lines fills, lines are read in parts, and
  the screen scrolls until its buffer wraps.  No character typed is lost or
  reordered and the reads that wait are in the ring (`LinesExact`), no read waits
  beside a line, reads are answered in order, the scan
  code machine stays in step with the keyboard, and the screen shows the end of
  the output, with nothing but one blank cell written behind its end (`ScreenTail`).

Four runs show a disagreement between the code and what it says of itself
(`PROJECT.json`, "findings"; section 4):

* **SchedConnectRace**: an interrupt in `port_connect`, and the CPU idles beside a
  RUNNABLE task.
* **PageManPanic**, **AreasFull**: sequences of calls that halt the kernel.
* **FileLeak** (`MCFileServer`, two handles, the fairness of section 5): a file that a
  program has closed stays open at the server.

Deadlock is not checked in the runs of sequential components (a process may ask
for nothing more, and after a crash nothing follows).

## 4. What the code does that a reader may not expect

The first four have a run of their own.

* An interrupt in `port_connect` loses a task from the run queue
  (SchedConnectRace).  `Sched`'s other runs and theorems assume that none comes
  there (`QuietConnect`).
* Unsharing a sole snapshot leaves a flag behind that panics the kernel later
  (PageManPanic).
* A request for memory that does not fit halts the machine (AreasFull): the
  failure path leaves interrupts disabled.
* The server of a connection is never told that its clients are gone: `wait_on`
  reports requests only (`uport.c:428-431`), so that the branch of `pop_request` for
  it, and that of `vfs.c:355-358`, are not reached.  Every closed file costs the file
  server a descriptor (FileLeak); when none is left, connections wait for ever
  (`pop_request` fails and the error number goes on the list, `vfs.c:344-347`) and
  requests are served with what is left in `ureq`.
* An interrupt in `close` of a port does what one in `port_connect` does: `close` never
  disables interrupts, and freeing the pages of a queued connect enables them
  (`get_page.c:163`) before the clients are woken (`uport.c:446-452`).  In the
  configuration of SchedConnectRace with `QuietConnect` TRUE and `QuietClose` FALSE TLC
  finds it; `QuietClose` excludes it elsewhere.
* `wait_on_port` sets the state WAITING once, before its loop: if the port is closed
  before the woken process runs, that process is RUNNING on `port_wait_list` and goes
  on the run queue with the same list node.  In the configuration of SchedTwo with
  `PoliteClose` FALSE TLC refutes `KernelChecks`; `PoliteClose` excludes it elsewhere.
* A message of exactly one aligned page has no pages (`copy.c:57-63`): it is mapped as
  an empty area, and at the lower limit `destroy_as` panics on that
  (`aspace.c:434-436`).  `Areas` with `Fits` TRUE, `Padded` FALSE and 0 among the lengths
  refutes `DestroyedClean`; `Padded` excludes it elsewhere.
* Two tasks that connect to each other's ports both wait for ever.
* A task that dies drops no descriptor (`sched.c:33-51`, `196-200`): its interrupt
  requests stay in `int_wait_list`, its port in `port[]`, its connections in the lists
  of others, in memory that is used for something else.  Whoever follows them reads
  what is there (`Outcomes`, the state "freed").
* A message that holds a whole page leaves the sender's page table entry
  writable: later stores of the sender are visible to the receiver (`PageMan`,
  Sends = {"whole"} refutes `PrivateMemory`).
* Un-sharing gives write permission to pages of read-only areas
  (`NormalPermission` is refuted).
* With mistakes, in `Uport`: closing a connection the server has closed unlinks
  it twice (`uport.c:368`; `list.h:322-323` forbids that); closing a connection
  that was never acknowledged follows a null pointer; closing a busy PORT_REQ
  leaves its cookies pending for ever; `request` on a connection that is not
  acknowledged yet frees it (`port.c`); `open_port` without a free descriptor
  leaves the port registered.
* `remove_vma_range` cannot remove an empty area or one that ends above
  `high_addr`, and `insert_vma_to_vaddr` accepts both; `destroy_as` panics on them
  (`Areas` with `Fits` FALSE refutes `DestroyedClean`).  The upper half of a split
  area has uninitialised flags.  `mem_port_request` maps one page, whatever the
  length.  `map_to_user`'s error is masked by the offset its callers add
  (`uport.c:156-157`).
* Two dentries do not fit the sector they share: the name of every odd dentry is
  lost (`DentryNumbers` is refuted), and files are looked up by it.  `build_dentry`
  puts an odd dentry together behind the memory it has allocated for one
  (`fs.c:164-170`); what this does to the heap is not modelled.  SEEK_END follows an
  inode number as a pointer, and a read past the end of a file has a negative length:
  both crash the file server, the second if position and end are in one block (if
  not, the client gets an error and the position moves back to the end).
* The console puts no NUL behind a line: a short line in a block that held a long
  one is read with the long one's end (`Stale`).  After the first scroll `voff` is a
  row above the cursor (`blit` leaves out one row), and `blit` writes a blank into the
  cell behind the end of the screen (`main.c:122`).  After a partial read `free` gets
  a pointer into the block (`main.c:352`); the heap is not modelled.  A request to change the
  foreground process is never answered.
* **Disk driver.**  After an error nothing restarts the port: with a controller that
  stops, the next request waits for ever (`ahci.c:369`), and with it the file
  server.  `find_cmdslot` looks at four bits of a five-bit field that is the number
  of slots minus one: with 17 slots it finds none, and `write_sata` does not look
  (`ahci.c:398`).  `port_rebase` always sets up port 0, whichever port the disk was
  found at (`ahci.c:182`): with a second disk, `pdtable[0]` is a list nobody reads;
  with the disk elsewhere it is uninitialised.  The results of `read_sata` and
  `write_sata` are not used by `fs.c`.
* **Allocators.**  Exhausted memory is a null dereference (`get_page.c:119`).
  `binradix_insert` of a key that is present inserts a second leaf, and
  `binradix_delete` of an absent one follows a null pointer; the callers do neither.
  `malloc` of a block that is with its header exactly a page uses a list that does
  not exist (order 13, `malloc.c:85`); `free` of more than half a page looks into
  the next page (`malloc.c:127`); only one level of buddies is merged.
* **File server.**  `opendir` puts no "/" between the working directory and a
  relative path (`rw.c:157`).  `read` copies as many bytes as it asked for, whatever
  came, and may run past the mapped response (`rw.c:51`).  A failed `write` leaks the
  pages of the request, a failed `open` its descriptor, `execve` the file's.  Any
  name that begins with "/tarfs" or "/sata" is in that file system
  (`vfs.c:103`).  A read behind the end of an archive file fails with the distance
  as its error number (`tarfs.c:60`).  The tables of 200 members, 30 entries a
  directory, 30 characters a name and 512 handles have no test for full.  A request
  other than open on a handle without a file follows a null pointer, and a file is
  not told from a directory.

## 5. Fairness

`SchedLive` assumes weak fairness of: the code of the kernel between two points
where others may run; the timer interrupt, which ends the idle task's `hlt`; the
process that has the CPU, which eventually makes a system call that gives it up
(there is no preemption, so nothing holds without that).  No device interrupt and
no request is fair.  The number of stimuli is bounded by `work`: a woken task goes
to the head of the queue, so that two tasks that wake each other for ever starve
a third, and no fairness of the code prevents it.

`MCFileServer` assumes weak fairness of the server's loop, of a program inside a call
that can go on (nothing is assumed of a program between calls: it may never read or
close), of the driver, and of each thing the controller has begun.  Strong fairness
is assumed of the controller's taking an issued command only: it may be busy for
reasons of its own again and again.  Whether a command succeeds is a free choice.

## 6. Proofs

Every theorem holds for every value of the constants that meets the named
assumptions of the module (`SchedAssumption`, `UportAssumption` and so on): any
number of tasks, objects, address spaces, pages, sectors.  What a theorem needs
beyond them is in its own ASSUME, and said here.

### The scheduler (`SchedProofs`)

| Theorem | States | Needs |
|---|---|---|
| `TypeCorrect` | `TypeOK` | nothing |
| `RunQueueSound` | `RunqSound` | `QuietConnect`, `QuietClose` |
| `NoWakeupLost` | `NoLostWakeup` | `QuietConnect`, `QuietClose` |
| `NoDeadPointer` | `DeadUnreferenced` | `QuietConnect`, `QuietClose` |
| `ChecksHold` | `KernelChecks` | these and `PoliteClose` |
| `PortWaitersFound` | `PortSleepersListed` | these and `PoliteClose` |
| `IdleLastResort` | `IdleOnlyWhenNothingRunnable` (an action property) | these and `PoliteClose` |

`QuietConnect`: no device interrupt falls into `uport_connect`.  `QuietClose`: none
falls into `close` of a port once that has freed the pages of a message.  Without either
the run queue breaks (`SchedConnectRace`; section 4).
`PoliteClose`: no server closes its port while a process that `open_port` has woken has
yet to run; `KernelChecks` needs it (section 4).  Nothing is assumed of
what a task holds when it dies.  `DeadUnreferenced` and its theorem are about pointers
to tasks; the descriptors of the dead dangle, and `KernelChecks` says only that memory
is used after it was freed in no other way.

`RunqSound` alone is not inductive: an action that changes the state of the
running task must know that this task is not queued, and a wake-up that the task
it queues is really asleep.  `SchedInv` adds that: only the running task is inside
`port_connect` or `close` of a port, and the port exists all the while (`WakeSound`);
the idle task stays in its loop (`IdleSound`); the current task is RUNNABLE only
between a wake-up and the `schedule()` it is about to call (`CurrentSound`); wait lists
hold only tasks inside the system call that waits (`WaitersSound`); and in the middle
of a `list_add` open to interrupts the task it links is the one task not queued yet
(`LinkSound`).  On top of it: `WakeupInv` (the only event that may be ready for a
WAITING task is the one whose wake-up is under way), `DeadInv` (a FREE task or a ZOMBIE
off the CPU is on no list and nobody's parent), and `CpuInv` (where a task off the CPU
can be, which list a task in `wait_on_port` is on, and that the idle task is the last
of the queue, for which `list_add` of a whole list must be reasoned about).

### Ports, connections, requests (`UportProofs`)

`KernelIsSafe` (`KernelSafe`), `EndsAgree` (`ObjectsLinked`), `HoldersExact`
(`MessagesOwned`), `NobodyStranded` (`SleepersWaitForNothing`), and `RpcImplemented`: the
refinement of `Rpc` (`RequestsAnsweredOnce`).  The properties themselves speak of the
trials in which programs make no mistake (`Polite`), except `NobodyStranded`, which
holds whatever programs do, up to the kernel's first fault.

`WaitInv` is what `wait_on` relies on: a descriptor somebody waits for is its own, and
`waited_rw` says that somebody must be woken.  `LinkInv` says what both ends of a
connection, the queues and the cookies have to do with each other in every state,
between any two of connecting, taking, answering, sharing and closing; each of its six
parts is disturbed by a different set of actions, and each needs others of them to be
kept.  For the refinement the phases of a request are exclusive (`Phase`), and a
step of the kernel moves one request by one step or none.

### Copy on write (`PageManProofs`)

| Theorem | States | Needs |
|---|---|---|
| `ReferencesExact` | `RefCountExact` | nothing |
| `TablesFollow` | `PageTableFollows` | nothing |
| `SnapshotsProtected` | `SnapshotsReadOnly` | messages cover pages in part |
| `OnePanicOnly` | `OnlyHasSnapshotPanic` | the same |
| `MemoryIsPrivate` | `PrivateMemory`: the refinement of `AddrSpaces` | the same |

A message that covers a whole page leaves the sender's page table entry writable
(section 4), so the hypothesis `"whole" \notin Sends` of the last three is needed.

`BaseInv` has the counts (`Counted`: a page's counter is the number of entries that
point to it, plus the message under way and `zero_page`'s own) and the page tables
(`Follows`).  `CowInv` has the snapshots.  `snap_count` is not the number of entries
with the flag SNAPSHOT: when the only holder of a page writes to it,
`page_man.c:159-165` leaves the flag and clears the count.  `SnapsCounted` is the exact
relation, that stale case included; it is also the source of the one panic that can be
reached.  `ReadOnly` and `Writable` relate the page tables to it, `OneOwner` says that
the entries of a page that are no snapshots are of one address space, `ZeroSound` that
every entry of the zero page is a snapshot and the page is never written.

The handlers are compositions of the C functions on the record `m`.  Each function has
a lemma that states its whole effect as a predicate (`Detached`, `Copied`, `Mapped` and
so on), and each action is proved from those.  The loops of `destroy_as` and
`asnew` are folds over the pages of an address space: `LoopExists` shows that the
recursive function a fold stands for exists, and an induction over the set
of pages already done (`SetInduction`, from the least member of a set of numbers) carries the invariant through the loop in whatever order the
pages come.  The refinement is stated about views (`View`: what a process reads,
`MsgView`: what the message holds); every action changes them as one action of
`AddrSpaces` does, or not at all.

`CounterAssumption` (`MaxRef < Word`): there are fewer entries than a counter has
values, `MaxRef` being the references there can be.  `MsgAssumption`: no message is
the null value.

### The areas of an address space (`MemoryProofs`)

`AreasAreSound` (`AreasSound`) and `OperationsAreExact` (`OperationsExact`), for a
machine word, limits, addresses and lengths of any size.  Three hypotheses, all true of
the passing runs: programs map ranges that are not empty and end at `high_addr` or below
(`Fits`), which the kernel does not check; no message is exactly one aligned page
(`Padded`), without which TLC refutes `DestroyedClean`, a part of `OperationsExact`
(section 4); and no range a program names wraps around the word (`NoWrap`): `base + len` is computed unchecked in `insert_vma_to_vaddr`,
`insert_vma_to_any` and `remove_vma_range`.

The inductive invariant `Inv` says of the list more than `AreasSound` does: its areas
are not empty and lie between the limits (`Mapped`).  Empty areas would be found by no search
and left behind by `destroy_as`; the limits keep every sum of an address and a length
below the word, so that the arithmetic modulo `Word` is ordinary arithmetic.  It also
says that `destroy_as` has not panicked, which follows because removing the whole range
leaves nothing (`DestroyEmpties`).  The proofs follow the operations: a search finds
the one area around an address (`FindIs`); both insertions find a gap (`ToVaddrGap`,
`ToAnyGap`) and a gap may be filled (`FillGap`); `remove_vma_range` leaves of each area
what is outside the range (`PiecesLeft`, one case per way an area and a range can
overlap), what is left of the areas is left of the list (`FlattenLeft`), and the areas
after the one its walk ends at are all above the range (`NotVisited`); `validate_range`
walks without a hole exactly if the range is covered (`ValidCovered`, `CoveredValid`);
every area passed over by the first-fit search ends below any gap (`LowestGap`); and
the areas a snapshot inserts come in order, so that each is appended (`CopyNext`).

### The physical pages (`MemoryProofs`)

`PagesAreAccounted` (`PagesAccounted`), `TreeIsExact` (`TreeExact`) and
`ObjectsAreOwned` (`ObjectsOwned`): for any memory map, kernel, number of objects in a
page and width of a key, and any sequence of calls.  `FramesAssumption` asks of the
memory map that its ranges are not empty and do not overlap and that device memory is
not in them, and that page numbers are keys.

The inductive invariant `FramesInv` says that the kernel followed a null pointer
(memory ran out, `get_page.c:119`, section 4) or that everything is sound
(`FramesSound`): the free list, the unused ranges and the pages of the pools are
disjoint and each pool's free list has objects of its own that it has handed out
(`Orderly`); these pages, the managed ones and those taken as a whole are all of the
memory (`Accounted`); every struct page is an object of its own (`Boxed`); the tree has
the right form and records exactly these (`Treed`); and the pool of a message is there as long as
it is (`Mailed`).  `Shape` is the form of a tree: with `e[x]` the number of bits below
node `x`, a leaf has data and no bits below it, any other node but the root has two
children that begin with different bits, every node but the root has one parent, and a
node agrees with its parent in all bits above its own.  The last is what makes
deletion right: a merged node takes its high bits from the parent and the low ones from
the child (`MergedPartIs`), which is just the child's key.

The proofs follow the operations.  Every turn of a loop of `binradix.c` uses up a bit,
so the bound on the turns is no restriction (`TurnsEnd`), and the place where it ends is
the key's leaf or where the key leaves the tree (`RadixWalkIs`, `LeavesAt`).  Insertion
splits a node (`ForkIs`) or hangs a leaf below the root (`HangIs`), deletion cuts a leaf
(`CutIs`) and merges its parent with the other child (`RadixMergeIs`); each keeps
`Shape` and changes the recorded pairs by one (`InsertIs`, `DeleteIs`).  `VisitsIs`
and `ReachIs` need the tree to be a tree: what is below two children is disjoint.  Of the
allocators: `GetPageIs`, `DropPageIs`, `ObjAllocIs`, `ObjFreeIs`, `PoolCreateIs`,
`PoolDestroyIs` say which pages and objects move where; at boot, `TrimIs`, `CarveIs` and
`UsableIs` say that what is left of the memory map is the memory without the kernel and
the low pages, and `BootedIs` that the first pools are built of it.  An insertion
allocates twice, and the second allocation may itself take a page: the lemmas are
about an arbitrary store, so that they compose.

TLC does not evaluate `FramesInv`, which quantifies over the depth `e`; it checks the
three properties that follow from it.

### The heap (`MemoryProofs`)

`HeapIsTiled` (`HeapTiled`) and `FreeListsAreExact` (`FreeListsExact`), for pages of any
order, any number of them and any requests.  `HeapInv` states the tiling of `HeapTiled`
by the addresses of the blocks: each begins at a multiple of its size, ends where or
before the next one begins, and every unit of a page of the heap is in some block
(`Tiling`).  The alignment is what the tiling needs to be inductive: it makes the
address with one bit inverted the other half of the block of twice the size, so that
what is there is a block of the same order or smaller ones inside that half
(`BuddyStarts`), and the header `free` reads there is a header.  The lists are exact for the blocks (`Lists`), and the pages of
the heap are not those of blocks of several pages.  The loop that splits a large block
down is a recursive function; each of its values is a sound heap whose list of the
next order is not empty.  What `malloc` and `free` do not survive (section 4) stops the
process in the model, and the theorems hold up to there and in that state.

### The file server (`FileServerProofs`)

`StreamsAreExact` (`StreamsExact`) and `FilesAreTheirOwn` (`OwnFile`), for any archive,
any number of programs and handles, and reads and seeks of any size.  `VfsAssumption`: the
archive's members have names of their own, a directory has fewer than 30 entries (the
size of `subdirs` in `tarfs.c`, which nothing tests), and the null value is none of the
others.

* *The archive.*  `LayoutBegins` says where the headers and the data of the members lie;
  after each header that `tarfs_init` has read, the table has the entries of the members
  up to there, and each directory's `subdirs` is the list of those members that are in it
  and come after it (`Table`, `TableInv`).
* *The server.*  `HandlesInv`, `BacklogInv`, `AskedInv`, `RoundInv`: the handles are those with
  a program at the other end or whose program has closed its end, a number that is not
  in use is clean, connections that
  wait are of programs that wait for them, a request is that of the program at the other
  end, and what is left of a round is there to serve.
* *Each program.*  `Phase` says where it can be and what it is told; `Link` that the
  server has at its handle what the program has open.  "Has open" is the difficulty: a
  program and the server change their minds at different times.  `After` is what the
  program will have once it has taken the answer that is there for it, and `FdOf` what
  the table will hold once the open under way is finished: an answer goes out before
  the table is written.  A program whose open has failed has a
  connection that the server is about to close (`Doomed`, `TodoInv`), so that nothing is
  said of it.

### The file system on the disk (`SataFsProofs`)

| Theorem | States | Invariant |
|---|---|---|
| `BlocksAreOwned` | `BlocksOwned` | `BytesInv` |
| `ReadsAreExact` | `ReadExact` | `BytesInv` |
| `DirectoriesAreSound` | `Directories` | `TreeInv` |
| `FilesAreKept` | `FilesKept`: the refinement of `Files` | `BytesInv` |

For blocks, disks and data of any size, up to 24 files of up to eight blocks
(`SataFsAssumption`; beyond that the code overruns its tables, see section 7).  `BytesInv` is about inodes and blocks:
a file has the blocks its length accounts for (`Accounted`), each block belongs to one
place of one file and is marked (`Owned`), and nothing was ever written to a block that
is not marked or behind the end of a file (`Unwritten`): without the last, a write behind the
end would bring forth what another write left there.  The pieces of a transfer fall on
different bytes and cover it exactly (`PiecesFit`, `PieceFor`); `get_free_data` is called until there
are blocks enough, and the list of what it returned is without repetition.
`TreeInv` is about numbers and dentries, whose labels
may be those of another file (section 4): a file is listed at one place, dentries that are not in use list
nothing.

### The disk driver (`FileServerProofs`)

`PortIsSound` (`PortSound`) and `DiskImplemented` (`DiskKept`, the refinement of
`Disk`), for controllers of which `find_cmdslot` looks at two slots or more (it takes
four bits of a five-bit field that is the number of slots minus one): with fewer, a
command that failed leaves no slot for the next request.  `SetupInv` is the state of the port's preparation,
`CommandInv` which commands can be issued and running while the driver is where:
after an error the slot of the failed command may stay in `ci`, and the next request
takes the other one.

### The console server (`ConsoleProofs`)

| Theorem | States | Invariant |
|---|---|---|
| `LinesAreExact` | `LinesExact`: what is typed is read, once and in order | `LineInv`, `PendInv` |
| `ReadsInOrder` | `ReadsServed` (an action property) | `PendInv` |
| `ModifiersFollow` | `ModifiersHeld` | `KeysInv` |
| `ScreenShowsTail` | `ScreenTail` | `ScreenInv` |

Rings, line buffers, screen and its buffer have any size, reads any length; the
processes are fewer than the entries of a ring (1024 in the code), and the screen's
buffer is larger than the screen (2048 cells for 2000; `ConsoleAssumption`).  That there
are fewer processes is what keeps `pending_read`, which nothing tests for full, from
running over: a process that waits asks for nothing, so the reads that wait are of
different processes.

`InRing` lists what a ring holds; `RingAppend` and `RingTail` say that storing at the
tail appends to that list and moving the head takes its first entry off, wherever the
indices wrap.  `LineInv` adds to `TextExact` that every line in store is text and then
junk and that no more of the first one has been read than it holds: without that, the
part of a line that a short read takes off would not be a prefix of its text.
`ScreenInv` is about the ring buffer as well as the screen: its last `VBuf` cells are
the last ones of the output (`Kept`), which is what `blit` relies on, and `voff` is at
the cursor or a row above it (`Rows`), which bounds it.  `KeysInv` names, for each
byte a key may still send, the state the scan code machine is in.

### Lemmas about lists (`ListLemmas`)

`list_add` and `list_del` as sequences without repetition: joining two of them,
removing one element, its length; joining and flattening lists of lists, and where
the members of a part are in the whole (`Places`); that a recursive function over `0 .. n` has the values its definition says (`Iterate`); and
that a non-empty set of numbers has a least member, from which the proofs that need an
induction get it (`UpTo`).

### Only model-checked

* The liveness properties (`SchedLive`, `Answered`, `RequestsReturn`): fairness is
  outside the prover's reach.
* Everything about interrupts inside `uport_connect` or `close` of a port, ports closed
  under their waiters, impolite programs in `Uport`
  other than `NobodyStranded`, and whole-page messages other than the counts: the code
  does not keep the properties there, and the violation runs show it.

## 7. Assumptions and what is left out

* `Sched`: a task may die holding anything (`Mortal` are those that die at all); the
  first use of what it leaves behind may be the last step the model follows.  Passing
  runs and theorems assume `QuietConnect`, `QuietClose` and, where section 6 says so,
  `PoliteClose`; section 4 says what happens without each.  A server that closes its port tells the
  clients before the first message with pages in one step, the others one by one.
* `Uport` has one port and one server; object numbers are not reused.
* `PageMan`'s areas and messages are one page long; device pages are left out.
* `Areas`' programs ask for non-empty ranges below `high_addr` when `Fits` is TRUE, and
  send no message of exactly one aligned page when `Padded` is.
  Permissions are `PageMan`'s matter.  Back pointers of lists follow the forward
  ones and are not modelled.
* `SataFs`' clients use a handle as libc does (a file handle for reads and writes,
  a directory handle for READDIR); at most 24 files of at most 8 blocks; the server's
  heap is left out (`build_dentry`, section 4).
* `Console`'s processes have at most one read waiting each, as libc's `read` does;
  the first client never disconnects (the server would follow a null pointer); the
  heap is left out (`free` after a partial read, section 4).
* `PageAlloc`'s memory maps are multiples of a page.  `Radix`' callers insert absent
  keys and delete present ones.
* `Malloc`'s programs free what they were given, once, and keep inside their blocks.
* `Vfs`: what the disk's file system answers is a free choice (`SataFs` has it);
  each program has one connection at a time and uses it as libc does; paths have no
  trailing slash and no "."; reads are shorter than what is mapped for the answer.
  The descriptor of the server's port is not counted; that of a cookie is only tested
  for, since it is given back with the answer.
* `Ahci`: the only SATA disk is at port 0, and requests are for one sector, as
  `fs.c`'s are.
* The processor, its registers, page table walks, the keyboard and text drivers of
  the kernel (`sys/drivers`, used for its own messages) are left out: hardware
  programming without a protocol of their own.  So are text formatting, the shell's
  parser, and the loading of programs: sequential text and data processing.
  `PROJECT.json` ("components") gives the reason for each part.

## 8. Plan

In this order; later modules rest on earlier ones.

1. *Done*: `Sched`, `SchedLive`, `SchedProofs`, `PageMan` with `AddrSpaces`, `Uport`
   with `Rpc`, `Areas`, `SataFs` with `Files`, `Console`, `PageAlloc`, `Radix`, `Frames`,
   `Malloc`, `Vfs`, `Ahci` with `Disk`.
2. *Done*: theorems about `Sched`, `Uport` with `Rpc`, `PageMan` with `AddrSpaces`,
   `Ahci` with `Disk`, `Console`, `Areas`, `Malloc`, `SataFs` with `Files`, `Vfs`, `Frames`
   with `PageAlloc` and `Radix`.
3. In `Uport`: exit with open descriptors, several ports, the bit layout of
   `fd_set`; in `PageMan`: messages of several pages.
4. The reservation of physical ranges (`paging.c:107-153`) with more than one page;
   program loading (`libc/exec.c`) as a client of `PageMan`.
