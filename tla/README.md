# A TLA+ model of the iVeia OTA server and its A/B boot

`src/zcu102/iVeiOTA` updates a running Android board. The board has two
*containers*, a and b, each with the partitions BootInfo, Root, System and Cache;
some partitions exist once. u-boot runs `config/AB.sh`, which picks a container by
the flags in `uEnvAB.txt` on its BootInfo partition. The system that comes up runs
the server, which writes an update to the *alternate* container (the one not
booted) and, when told to finalize, raises that container's revision above its
own, so that the next boot picks it.

The same repository holds the board's graphics memory manager, `src/common/gralloc`, which
shares nothing with the server but has as much concurrency.

The modules here model the update manager, the boot flags, the boot script, the socket, the
configuration, mounts and copies, and gralloc; TLC checks them on small instances and TLAPS
proves the most important properties for every instance.

## 1. Inventory

| Part | Source | State it keeps | Operations |
|---|---|---|---|
| Update manager | `src/ota_manager.cc` | update state, chunk list, job, thread handles and join flags; manifest and journal on disk | the OTAUpdate messages, `Process()`, copy thread, chunk thread, resume in the constructor |
| Boot flags | `src/uboot.cc` | cache of both `uEnvAB.txt` | constructor, five setters, the BootManagement messages |
| Boot selection | `config/AB.sh`, `config/uEnv.txt` | `uEnvAB.txt` in each BootInfo partition | pick, count, tell a fallback, forced boot |
| Files, mounts, commands | `src/support.cc` | the mount point, files | `CopyFileData`, `Mount`, `RemoveAllFiles`, `RunCommand`, hashing |
| Message framing | `src/socket_interface.cc`, `src/message.cc` | position in sync, header, payload; the client connection | accept, read, cut the stream into messages, send |
| Server process | `server.cc` | `initialized`, `exiting`, `brokenPipe` | start-up, dispatch, main loop, signals |
| Configuration | `src/config.cc` | partition tables, filesystem types, hash programs, names of the containers | `Init`, once; getters; `Valid` |
| Test client | `client.cc` | none | sends what is on its command line |
| Gralloc HAL | `common/gralloc` | buffer handles with lock state and address, the ION client, slot mask, buffer on the screen | open, close, alloc, free, register, unregister, lock, unlock, post |
| Echo tools, packaging, debug, board files | the rest | none | not part of the logic |

How they interact. The main thread alternates between `SocketInterface::Process()`,
which waits at most a second, hands a complete message to a callback that calls
`OTAManager` or `UBootManager`, and `OTAManager::Process()`, which joins threads that
have raised their join flag. The copy thread (`initUpdateFunction`) and the chunk thread
(`processChunk`) share the members of `OTAManager`, and the mount point, with the main
thread and take no lock. `UBootManager` is called by messages on the main thread and
by `OTAManager` on the main and the copy thread. The server and u-boot
share only the BootInfo partitions, across resets. The manifest and the journal in the
cache directory carry an update across a crash. In gralloc the alloc, framebuffer and module parts
work on the same handles and on one `private_module_t`, from any thread of the process.

What is hard. Threads and handles without locks; a cancel that meets a thread in any
phase; a process that dies, or a board that loses power, between any two writes, with
some of them not synced; an update resumed from what a journal says; flags cached in one
process and changed on disk by another; a boot count that two programs read in
different bases; a decision made across several boots; one mount point for all threads and all
lives of the process; a slot mask that is changed with a lock here and without it there; one bit that
says "locked" for all who lock. The list is in
`PROJECT.json` under `hazards`, each at its line, with the properties that watch it.

What makes each part correct:

* Update manager: no thread is lost, only one works at a time, its job stays put,
  Finalize only switches to a complete container, the journal tells the truth after
  any crash, cancels and jobs end, and no half-written container is bootable.
* Boot flags and selection: a finalized update is booted, an incomplete container is not
  picked, a fallback is reported exactly, a container that does not come up is given up,
  and stays so.
* Message framing: what is delivered is what was sent, however the bytes are cut up.
* Files and partitions: what is called successful is in place byte by byte, the running
  container is never written, the mount point does not stay taken, every copy ends.
* Gralloc: a framebuffer slot has one owner and is not lost; nobody works through an address
  that is gone; every mapping is undone; every access stays inside its buffer.

## 2. Modules

| Module | Models |
|---|---|
| `OTAManager` | `ota_manager.cc`: one process with its three threads, disk and crashes |
| `Resumption` | abstract: what a client that resumes an update can rely on. `OTAManager` implements it |
| `ABBoot` | `AB.sh` as operators: what is bootable, picked, counted, called a fallback |
| `UBootManager` | `uboot.cc`: the cache, and what each setter writes. EXTENDS `ABBoot` |
| `BootSystem` | the board: u-boot, the server and the client's updates over many boots. EXTENDS `UBootManager` |
| `SocketInterface` | `socket_interface.cc`, the format in `message.cc`, the loop of `server.cc` and clients like `client.cc` |
| `Session` | abstract: what the server promises to its clients. `SocketInterface` implements it |
| `GlobalConfig` | `config.cc`: the tables, line by line, and their getters |
| `MountPoint` | class `Mount` of `support.cc` and the kernel's mount stack. EXTENDS `GlobalConfig` |
| `CopyFile` | `CopyFileData` of `support.cc`. EXTENDS `MountPoint` |
| `Partitions` | what the server's two threads do with the three above. EXTENDS `CopyFile` |
| `PrivateHandle` | `gralloc_priv.h` and the sizes of `alloc_device.cpp`: pure operators |
| `GrallocModule` | `gralloc_module.cpp`: register, lock, unlock. EXTENDS `PrivateHandle` |
| `FramebufferDevice` | `framebuffer_device.cpp`: map the screen, post. EXTENDS `GrallocModule` |
| `AllocDevice` | `alloc_device.cpp`: devices, allocation, free. EXTENDS `FramebufferDevice` |
| `Graphics` | the three together, as one process uses them. EXTENDS `AllocDevice` |
| `SlotPool` | abstract: a slot of the screen belongs to one buffer at a time. `Graphics` implements it |
| `MCOTAManager`, `MCBootSystem`, `MCSocketInterface`, `MCPartitions`, `MCGraphics` | instances for TLC |
| `OTAManagerProofs`, `BootSystemProofs`, `SocketInterfaceProofs`, `PartitionsProofs`, `GraphicsProofs` | the theorems about each |
| `PartitionsJobProofs` | one more about `Partitions`: what a job that ended well has left behind |
| `OTAJournalProofs`, `OTAFinalizeProofs` | more theorems about `OTAManager`: what the journal says, what a restart offers, what Finalize switches to |

### OTAManager

Variables keep the names of the members of `OTAManager`. `main` says where the main
thread is: in its loop, at one of the three tests of `Process()`, or in the cleanup that ends
Finalize and a cancel (remove manifest, remove journal, sync). `pc[t]` says where worker
`t` is. `disk` is the cache directory as the running system sees it, `synced` what a power
failure leaves. `altValid` is BOOT_VALID of the alternate container; `fresh` and `applied`
record which of its partitions and chunks hold what the update wants, and are
what the properties are about.

Decisions:

* A message handler is one step, `Process()` one step per test, a worker one step per
  partition copied or per phase of a chunk; interleavings inside such a step would only
  matter for members that are read once. A message that is refused before anything is assigned is a
  stuttering step. `Initing` is left in the handler that enters it and is never seen.
* A chunk is its identifier, its data and a file with that data. A file matches a chunk's
  hash exactly when its path is that chunk. `maxIdentLength` only lays out replies.
* `succeeded` is not initialized for a new list entry, but is set together with
  `processed` and read only after it; the model uses FALSE.
* `init_success` in the journal is skipped by the constructor and therefore not kept.
* A failed `pthread_create` leaves the handle alone, as bionic's does.
* The journal line is appended in the same step as the entry of the list and the sync,
  but the sync does not include it: `synced` is the state before the line.
* After a power failure each file, each partition and each chunk is as it was or as last
  synced, independently. After a mere crash only what was being written is torn.
* `BeginUpdate` empties `fresh` and `applied`: a new update's data is nowhere yet.
* Threads keep references into the list; entry 0 is "not found", and the entry of a
  cleared list is remembered in `local`.
* What the environment may do is in two constants. `Faults`: thread creation, devices,
  mounts and scripts fail, the process dies, power fails, also inside the cleanup, the
  manifest being rewritten is lost, BOOT_VALID cannot be written. `Habits`: the client
  does not wait for the status (`pipeline`, what `client.cc` does), sends a chunk again (`redo`),
  or uses the two other chunk locations. With neither, the client waits for the status
  before a chunk or a Continue and may still cancel at any time.

`Resumption` says it in the client's terms: the list of chunks and outcomes, and the list that a power
failure would leave. The death of the process is not one of its actions, because it changes neither. In the
refinement, `list` is `chunks` while the server runs and what the constructor will make of the cache directory
(`Offered`) while it is down; `medium` is what it would make of `synced`, and empty during the cleanup, which ends
with a sync. The promise is void (`muddled`) while `chunks` holds two manifests: `BeginUpdate` keeps the list when
`pthread_create` fails, and the next one puts its chunks behind it.

### ABBoot and UBootManager

A BootInfo partition is damaged, has no `uEnvAB.txt`, or has one with four fields. The
boot count is a text. u-boot's `setexpr` reads and writes it in base 16; `test -lt`, and
`strtol(.., 10)` in `uboot.cc:203`, read it in base 10 up to the first letter. The model keeps
the base-16 value; `Decimal` is the other reading, `Hexadecimal` what a decimal number
written by the server (`uboot.cc:232`) is worth to u-boot. These two stand for
u-boot's commands, which are not in the repository.

`UBootManager`'s cache is one entry per role. `Read` gives the entry of a partition:
zeros when it could not be mounted, because the constructor's debug output (lines 17-28)
inserts them, and arbitrary values when there is no file, because nothing initializes
`ContainerInfo`. Every setter changes the cache and writes all four fields; when the
mount fails the cache keeps the new value.

Messages for the recovery container have no device and change nothing. `SetUpdated`,
`SetTries` and `SetRev` have no caller.

### BootSystem

`power` is off, on (with `active` booted) or stuck in u-boot. `complete[c]` says that the
content of `c` is one finished system, `sound[c]` that it comes up as far as the server;
`expected` is the container of a finalized update that waits for its first boot. `phase` is
the update as far as the flags can tell; OTAManager has the detail.

* `Boot` is the script's choice, `ForcedBoot` the second run of the script in
  `uEnv.txt:99`, with container a forced, when the first returned.
* The copy of BootInfo writes the raw partition in blocks of 1 MiB (`support.cc:131`). Cut short it leaves what was
  there, nothing that can be mounted, no `uEnvAB.txt`, or the active container's flags (`Torn`): a cancel does so
  at any time (`CutCopy`), and SetValidity follows. `Kill` and `Reset` may stop it as well, and then nothing follows.
  That they leave the active's flags, between the first block that can be read and SetValidity, needs fault
  `window`: it is the race that the TODO at `ota_manager.cc:537` admits. Without `window`
  they may still stop the copy, but leave the partition as it was or unreadable.
* `Reset` forgets mounts, `Kill` may leave one behind (fault `left`).
* `Prepare` covers BeginUpdate and ContinueUpdate. A continued update may here differ from
  the one begun in touching single partitions only, which allows more than the code.
  A whole copy of BootInfo is one step, and so is a cancel.
* The operator may reset counts, set flags, switch containers and declare validity at
  any time the server is up, but declares only a complete container valid.
* Updates do not start from revision `MaxRev`, and a count stops at `MaxCount`.

### SocketInterface and Session

One iteration of `ProcessData`'s loop is one step, so a client can write or vanish between any two;
`main` says whether the server's thread is at the top of its loop, in `ProcessData` or in
`Send`. `toServer` and `unread` are the two directions of a connection in the kernel; a client writes
as many bytes as there is room for, which yields every way of cutting a stream into reads.

* Bytes are bytes. The sync is a parameter, because the properties depend on its length and on where its
  first byte recurs, not on its text. Three symbols stand for the 28 header bytes after the
  sync; the immediates and the checksum, which nobody reads, are left out.
* An answer is one symbol: the client cuts the answers with the same code.
* What a handler does is not composed here: `handled` is the sequence of messages the callback
  was called with, and an answer says whether the server had been initialized.
* `CleanAssumption`: the payload of a message whose header is refused (another revision, too
  large) does not contain the first byte of the sync. What follows such a header is searched
  for the next sync, so the code makes no promise about other payloads.
* A failed `accept` leaves everything as it is and is not a step.

`Session` says it in the clients' terms: sessions one after another, requests handled in order, each
once and answered before the next, nobody's session ended while they stay. The
refinement maps the parser, the buffers and the backlog to the `status` of each client.

### GlobalConfig, MountPoint, CopyFile and Partitions

`GlobalConfig` reads `ConfLines` one by one in any order and stops anywhere, so every table that a
permuted, shortened or repeated file gives is an initial state of the server. `insert` keeps the first device
of a partition, `deviceTypes[dev] =` the last type. `Valid` looks the partitions that exist once up with `map::at`,
which throws when there are none: it is true or it ends the process (`Throw`).

`MountPoint` has the kernel's view, `stack` (devices on the mount point, topmost last) and the
devices that Android mounts elsewhere (`Fstab`, from `config/fstab.zcu102.*`), and
the program's, `pc[u]` between constructor and destructor. Each system call is a step. `open[u]` is
where the path was resolved: a device, or `RootFs`, the directory below the mount point when nothing
is mounted. An open file keeps `umount` from working; a Mount that mounted nothing still unmounts.

`CopyFile` copies block by block. A byte is named by the file or device it comes
from, so that "in place" can be said of each. `AsInt` is `lseek`'s result in an `int`,
`MinusOne` what a `size_t` makes of a failed `read`, which is then added to the total as
`write`'s equal -1 lets it pass.

`Partitions` runs them: `todo[u]` is what is left of the calls that thread `u` is in the middle of,
`InitTasks` the copies of `initUpdateFunction`, `ChunkTasks` those of `processChunkFile`, `BootFlags` the mounts of
`uboot.cc`. `result` and `trouble` say how the job went. What a chunk thread's job means for
the update is `OTAManager`'s part.

* The configuration is kept over `Kill`, since the same file is read again; `stack` and `content` are
  kept because the kernel keeps them. What tar and cp were writing is written whole or not at all: init
  kills the service's process group.
* `RemoveAllFiles` reads names from the directory it has open but removes by path: the two may be
  different filesystems, and `Use` treats them so.
* tar and cp are taken to do what they are told; nobody looks at their output.
* A chunk's file is there and has its hash whenever a program for the algorithm is configured. The shipped
  file says `SHA1`, which `GetHashAlgorithm` does not know; such chunks always fail, and `HashLines` has one.
* `Faults`: a mount, a read or a write fails, the process dies. `Habits`: boot messages arrive
  while a worker runs (`maintain`).

### PrivateHandle, GrallocModule, FramebufferDevice, AllocDevice and Graphics

A handle is named by the memory it occupies (`Cells`), so that freed memory may become another handle while
somebody still points to it; `mem[p]` is the handle whose buffer is mapped at page `p`.
`use[c]` is what the callers have done with it: `gralloc_lock` does not ask. A section
under `s_map_lock` is one step, `*vaddr = hnd->base` after it is another (`ReadBase`). `held` and
`addr` are what a thread believes it has.

* `bufferMask` is loaded, changed and stored in separate steps, by an allocation under the module's lock
  (`orLoad`, `orStore`) and by `alloc_device_free` without it (`andLoad`, `andStore`).
* `fb_post` is six steps, because it locks through the module and `currentBuffer` is a bare pointer. It is the
  branch for `STANDARD_LINUX_SCREEN` (`framebuffer_device.cpp:94-142`), which `Android.mk:28` defines: after a failed
  FBIOPAN_DISPLAY the buffer is unlocked; after a failure of one of the three ioctls around the wait for the vertical
  sync (fault `vsync`) it stays locked, and `currentBuffer` does not name it although it is on the screen. All return 0.
* `gralloc_register_buffer` maps whatever ION handle it is given, and overwrites base and lock state of one that is mapped
  already: allocated here, registered, or unregistered but still locked. Callers that do so have habit `again`
  (`MayRegister`); without it they register what they received or have unregistered.
* The build sets `GRALLOC_16_BITS` (`Android.mk:27`): the screen has 16 bits per pixel, and a buffer that was asked for with
  GRALLOC_USAGE_HW_FB is called RGB_565 (`OnScreen`), in the width and height asked for. Its strides still come
  from the format and width asked for (`asked`), and its memory is one screen: a slot, or an
  ION buffer of that size when there is room for one screen only. `ScreenShapes` is what clients ask for.
* `zcu106/device-common.mk:64` builds without the framebuffer parts (`DISABLE_FRAMEBUFFER_HAL`). That board is
  the case in which nobody calls `OpenFramebuffer` and nobody asks for the screen.
* Every alloc device stores its ION client in the one field of the module; `alloc_device_close` takes the
  device for the module and may close the wrong descriptor (`CloseDevice`).
* A buffer's shape is its format, width and height; `BufferSize`, `Ycbcr` and `Stride` compute as the code does.
* A caller frees or locks only what it knows and nothing that another call is using. What callers may do
  beyond that is in `Habits`: `overlap`, `sharing`, `freePosted`, `wrongFormat`, `again`, `close`. `PeerLocked` lets
  another process send a handle that it has locked. `Faults`: ion, mmap, the flip or the wait for the vertical sync fail.

`SlotPool` is the framebuffer as clients see it: a slot is taken when nobody has it, and given back. The
refinement maps `owners[i]` to the living framebuffer handles whose address is slot `i`.

## 3. Runs

Passing runs:

| Run | Asks | Bounds |
|---|---|---|
| `update_client` | Is every step of the client's protocol safe, and does everything end? | three manifests (image and file; file and script; script only), two threads, three journal lines |
| `update_crash` | Do the journal and the boot flag survive crashes, power loss and failing system calls, and does a restart offer the update that was interrupted? | two manifests, two threads, two journal lines; thread ids symmetric (no liveness) |
| `boot_update` | Is the right container booted through updates, resets and failures? | count limit 3 as shipped (`uEnv.txt:10`), counts to 4, updates from revisions up to 2 |
| `sessions` | Do clients get what the socket promises, however their bytes are cut up and whenever they leave? | two clients, each with one of two command lines; sync of 4 bytes, payloads to 2 bytes, 2 bytes per write and read ahead, one unread answer |
| `partitions` | Is what the server calls done in place, and nothing else, in spite of failures and deaths? | a board of six partitions of up to three bytes, four chunks, two preparations; blocks of 2 bytes, `int` below 2, `size_t` of 16 values |
| `graphics` | Does gralloc keep addresses, mappings, slots and sizes right under concurrent callers? | two threads, three handles, two pages, two slots, one alloc device; a planar shape and, for a screen of 32 x 2 with rows of 64 bytes, the screen's own and a smaller one; handles and pages symmetric |

The manifests hold each way of treating a partition: replaced by an image, copied and then
changed by a file, copied only, not touched; two chunks give an order and a
"not yet all". Two thread ids are enough: with a client that waits there is never more than
one worker (`OneWorker`), and the second id shows a handle being overwritten when there is.
`MaxJournal` allows a chunk to be sent again after it failed. Three revisions give older, equal
and newer; counts up to 4 pass the limit. With reads of at most two bytes every message is
spread over several, cut at each boundary of sync, header and payload; the short sync holds
its first byte twice, as the real one does. The command lines put messages with and without
payload, refused ones, and Initialize before and after others. In `partitions` a copy has a full block, a
short one and an exact multiple, an image crosses a block and another one lies behind the largest `int`; a
chunk goes to a device that Android has mounted; the configuration is used at every
prefix of every order of its lines. In `graphics` three handles are one more than slots and pages, so each of
the two can run out, and two threads give every pair of operations. The planar shape's width is no multiple of any
alignment; the smaller one for the screen has rows that end inside those of the screen.

Runs that show a disagreement between the code and what is written about it; each has
an entry in `findings` with both quoted:

| Run | Property | What happens |
|---|---|---|
| `resume_failed` | `FinalizeNeedsSuccess` | A chunk failed, the server restarted, the update is continued: AllDone, because the copy thread's join looks at `processed` only. |
| `stale_journal` | `JournalNeedsManifest` | Death between removing manifest and journal leaves a journal that counts for the next update. |
| `cancel_pipelined` | `CancelEnds` | With messages sent without waiting a handle is overwritten, a join flag stays up, and a cancel never ends. |
| `boot_count` | `StaysGivenUp` | The tenth boot writes the count `a`, which reads as 0: a given-up container is tried again. |
| `mount_shared` | `ChunkInPlace` | A boot message is handled while an archive is unpacked: the destructor of the main thread's Mount takes the worker's partition off the mount point, tar fills the root filesystem, and the chunk succeeds. |
| `slot_race` | `OneOwner` | A buffer is freed while another is allocated: the stale mask that is written back loses the allocation's bit, and the next allocation gets the same slot. |

`CHECK_DEADLOCK FALSE` in `sessions`: a server without clients waits, and one that got SIGINT
is gone. In the boot runs: a board whose container a cannot be loaded at all
stops in u-boot (`power = "stuck"`), as the code intends.
The other runs check deadlock.

More was seen with TLC and kept out of the runs. `SucceededInPlace` fails for a manifest with a chunk on the
cache partition: a continued update clears that partition again (`ota_manager.cc:636`).
`BootsUpdated` fails under fault `left`: a server killed with a partition mounted starts again with
revision 0 for the active container, and Finalize then writes revision 1; and under habit `stack`: an
update of single partitions, begun before the reboot, invalidates the finalized container for good. `NeverBootsIncomplete` fails when an update
brings a BootInfo partition that is valid already (`NewBootInfo <- MCSetUp`) or lacks
`uEnvAB.txt` (`MCNoFile`), with fault `mount`, and with fault `window`: a server killed inside the copy of BootInfo leaves the
active's flags over an incomplete container, which the script may pick. The three other properties of
`boot_update` hold with `window` too. `BootsUpdated` fails with
fault `mount`, since Finalize ignores whether its write succeeded. `JobEnds` fails under
`location` and `thread`: status 5 without a thread. `SucceededInPlace` fails under `redo` with
`kill`, and under `truncate` with `power`. `KeepsUpdate` fails under `cleanup`, when a canceled or finalized update
comes back; under `truncate`, when the manifest is lost with its update; under `payload`, when a chunk
fails without a journal line; under `pipeline`; and for an empty manifest behind one whose `pthread_create`
failed. `AllAnswered` fails for a command line with more answers than fit into
`ReplySpace` while its client is still writing: both sides wait. `NeverStale` fails under `sharing` and
`freePosted`, `MappingsTracked` under `wrongFormat`, with `PeerLocked`, and under `again`: a received buffer that is registered
twice is mapped twice, and the first mapping is lost, although `gralloc_module.cpp:73` says of a handle of this process
"then we keep it as is". `InBounds` fails for `ScreenShapes` with RGBA_8888 in the screen's
width: the handle's rows are four bytes per pixel apart, in a slot with room for two. It also fails for a `LineLength` beyond
the 64 bytes that `alloc_device_alloc` computes for such a row: `fb_post` then copies more than an ordinary buffer has.
They are listed as hazards.

## 4. Fairness

`OTAManager`: `WF(ServerStep)`, because `select()` returns within a second and the loop then calls
`Process()`; `WF(WorkerStep(t))`, because the scheduler runs every thread and the model's
steps of a thread are finite loops. The client, crashes and restarts are not fair. Liveness is checked
without `kill` and `power`.

`BootSystem`: `WF(Boot)`, u-boot runs when there is power; `WF(Reset /\ ~sound[active])`, a board whose
system does not come up is reset in the end, by a watchdog or by hand. Without the second a
boot count would have no purpose. `ForcedBoot`, the server and the client are not fair.

`SocketInterface`: `WF(Server)`, its loop; `WF(Write(c))` and `WF(Receive(c))`, a client that is there
writes and, once it has written everything, reads (`client.cc:148-159`). Connecting, leaving
and SIGINT are not fair; `NextServed` therefore assumes that no other client stays for ever, since
`Process()` does not accept while it has a client.

`Partitions`: `WF(UserStep(u))` for both threads, which the kernel runs as long as they have something to do.
A fault is an action of its own and never fair, so `JobEnds` does not owe its truth to a failing disk; the client,
the configuration and death are not fair either. `Graphics` has no liveness: nothing in gralloc waits.

## 5. Proofs

All theorems hold for every value of the constants that their assumptions allow; no
bound of the runs is used.

`OTAManagerProofs`

* `TypeCorrect`: `TypeOK`, together with `HasJob` (a thread past its search has a list
  index and an identifier), without which `JobIdent` would have no type.
* `NoThreadLost`, `NeverTwoWorkers`, `JobNeverSwapped`, assuming `"pipeline" \notin Habits`. The
  invariant is `HandleInv`: each handle names the one thread of its kind, a worker of one
  kind excludes the other, and the update state and `main` tell when a handle may be in use
  at all. ThreadsTracked alone is not inductive: that BeginUpdate or ProcessChunk finds its handle
  free follows from the state and from `processingChunk`, not from the handles.
* `NeverBootsHalfWritten`, assuming further that BOOT_VALID can be written and no chunk replaces
  BootInfo: SetValidity precedes the thread, and the copy thread's own SetValidity follows
  the copy that brings a valid flag.

`OTAJournalProofs`

* `SuccessIsInPlace` (`SucceededInPlace`) and `JournalTellsTheTruth` (`JournalSound`), with `kill`, `power`, `mount`,
  `device`, `signal`, `thread` and `bootwrite` in any combination, assuming `Resumable`: the client waits and does not
  repeat a chunk that succeeded, the cleanup and the rewriting of the manifest are not cut short, the chunks of a
  manifest do not overwrite one another (the chunks of two manifests neither when the copy thread may not start, since the
  list then keeps the first one's, and no manifest is empty then), and none is on the cache partition. The invariant is `Journaled`. The properties speak of
  successes only; that they stay true needs to know why nothing overwrites what succeeded: no partition that
  is still to be copied holds a chunk the journal speaks of (`Copying`), the thread's chunk has no success yet and
  does not overwrite one (`Working`, `Listed`), what is not synced holds none (`Flushed`), so that a power failure takes
  none away, and the journal on the medium never says more than the file (`Behind`), so that falling back to it is safe.

* `UpdateIsKept` (`KeepsUpdate`), step by step, for all other faults together, assuming `Replayable`: the client waits and sends no
  chunk data in the payload, the cleanup and the rewriting of the manifest are not cut short, and no manifest is empty where the copy thread may fail to start.
  A property of traces, so the invariant `Mirrored` has to say at every state where the list could be found
  again: in the cache directory while the server is up (`Mirrors`), on the medium once anything is there (`OnMedium`), and nowhere
  during a cleanup (`Forgotten`). That a journal line makes the same change to the list that the chunk thread has made needs
  the thread to have found the entry that the constructor will find (`EntryFound`), and the lemma `OfferedAppend`, that
  one more line changes one entry.
* `ListsDoNotMix`: unless the copy thread may not start, `Muddled` is never true, so the promise has no exception.

`OTAFinalizeProofs`

* `FinalizedIsComplete` (`FinalizeComplete`), assuming `Resumable` and `Unbroken` (no `kill`, `power`, `device` or `mount`).
  That the chunks are in place is `SuccessIsInPlace`. For the partitions the invariant `Finalizable` follows the
  copy thread: those it has behind it (`Past`) are copied, all others that are not replaced still have their copy flag, and the
  state leaves Preparing only when the thread has been joined. Without `Unbroken` the theorem is false: `resume_failed`
  is the crash, and `CopyFileData`'s result is not looked at when a device fails.

`BootSystemProofs`

* `FallbackExact`: FALLBACK_BOOT is set exactly when, with all counts forgiven, the script
  would have picked the other container. A fact about the script, for all flags.
  `FallbackAlwaysTold` carries it to every state.
* `BootTypeCorrect`: `TypeOK`.
* `NeverPicksIncomplete`, assuming `Careful`: writes succeed, images bring an invalid `uEnvAB.txt`, and nothing stops the
  server from the first readable block of the copy of BootInfo to the SetValidity behind it. What the theorem says of the copy
  is that a cancel inside it is harmless, whatever it leaves, and that no setter brings the flag back
  later. NeverBootsIncomplete speaks of the disk only; the
  invariant `FlagsSound` adds the cache, since every setter writes the cached valid flag back,
  and that an update in `allDone` is complete, since Finalize raises the flag.
* `FinalizedIsBooted`, assuming `Orderly` (BootInfo can be mounted, nothing is left mounted, no
  update of single partitions on top of a finalized one, images bring a `uEnvAB.txt`). The
  invariant `Expectation` says that the server knows the active revision, that Finalize
  finds a partition it can write, and that a finalized container is ahead on disk *and* in the
  cache, because a later message writes the cache back. The lemma `CountWritten` closes
  the gap between the two readings of the count: below the limit they agree.

`SocketInterfaceProofs`

* `TypeCorrect`: `TypeOK`, and `DeliveredAsSent`: `NothingHeldBack`, for every sync, set of messages, buffer size, queue
  and number of clients, from `CleanAssumption` alone. The invariant is `Delivery`. A client's stream is what the parser has looked
  at, what was read into `rdbuf`, what the kernel holds and what is unsent: each is a `Slice` of the stream at the
  place where the one before it ends (`Flowing`, `Held`), and a client nobody accepted has lost nothing (`Untouched`).
  `Parsing` says which message the parser stands in: in its sync (`Searching`), its header, its payload, or in what a refused
  header left behind (`Skipping`), that its buffer holds exactly the bytes of that part, and that all messages before are
  handled. The property speaks of the complete messages only; it is inductive only with the place inside the
  incomplete one. `accept` keeps what the last client left in `hbuf` and `message`,
  which is harmless: the end of a sync empties the one and the end of a header replaces the other before they are read. That `FlattenSeq` and `Requests` grow with their sequence is proved
  from their recursive functions, by descent over the naturals (`SetInduction`).

* `ImplementsSession`: `KeepsPromise`, step by step. Besides `Delivery` it needs `Answers`: everything handled but
  the message being answered has its answer, unless the client left. A dispatch is Session's Handle because by
  `Parsing` what has been handled afterwards is a prefix of the client's requests; SIGINT is its Stop because the
  loop is left only between two messages; a client is never counted twice (`Queue`), so its status is one of Session's.

`PartitionsProofs`

* `TypeCorrect`: `TypeOK`, for every size of `size_t`, `int`, block, file and device and whatever fails. The
  invariant `Base` adds that a copy that goes on is inside its source and its destination and has, with what
  remains, the length asked for (`CopyOk`), and that only the worker copies.
* `RunningUntouched`: `NeverActive`, for all faults and habits, assuming `ConfApart`: no device is named
  for two partitions. Two containers that share a device would break it at once, and nothing in `config.cc`
  looks. The invariant carries where each table entry comes from (`Tables`) and that every call, every mounted
  device and every open path is a `Target` (`Targets`).
* `MountPointFreed`: `MountPointFree`, for all faults and habits. What an earlier process left is at most
  two devices deep (`Layers`), and the constructor's two reads take off one each (`Freeing`).

`PartitionsJobProofs`

* `JobsInPlace`: `JobInPlace`, for all faults, habits, sizes, offsets and widths, assuming `ConfApart`. The
  property speaks of the end of a job; the invariant `InPlace` says what each call of it still owes.
  `Assigned`: the calls left are the job's own. `Progress`: the first `copy.total` bytes are where they belong
  (`Placed`), so a copy that returns with all it was asked for has them all, and read()'s -1 never adds up to
  that (`MinusOneMisses`). `Owned`: without a boot message meanwhile, what a thread opens below the mount point is
  on the device it mounted, because `Freeing` says the mount point was free then. `Effects` and `Emptied`: a call that
  leaves the mount point has emptied or filled that device, and a complete archive met it empty.
  `Prepared` and `Delivered`: each promise is kept, or its call is still to be made, and no other call
  undoes it, since partitions have devices of their own. `Ordered`: a job succeeds only with nothing left to do, and a cancel
  counts as trouble. A chunk for BootInfo is left out of the property: `SetFlags` goes on writing there.

`GraphicsProofs`

* `TypeCorrect`, and `BaseHolds`, on which the others rest: what callers did with a handle tells what is in it,
  no two operations work on one handle, and a thread works on what it has in hand.
* `PlanesInBounds`: `InBounds`, for every shape, screen and number of bytes per row, assuming `Fitting`: buffers for the screen are
  asked for in RGB_565 and no larger than it, and the driver's rows are as long as those that
  `alloc_device_alloc` computes. Nothing in the code sees to either, and section 3 has what happens otherwise; other
  buffers may have any format and size. By arithmetic on `BufferSize`, `Ycbcr`, `Stride` and `ByteStride`, and the invariant
  `Sized`: a handle has the size of its shape, or was made for the screen (`Plain`, `ForScreen`).
* `SlotsNotLost` (`NoSlotLost`) and `ImplementsSlotPool` (`KeepsSlots`), assuming `"overlap" \notin Habits`. The invariant
  `Mask` says that one thread at a time changes `bufferMask`, and that what it has loaded is still true. `slot_race`
  is what happens otherwise.
* `AddressesGood` (`NeverStale`) and `NoMappingLost` (`MappingsTracked`), assuming `Careful`: no `sharing`, `freePosted`,
  `wrongFormat` or `again`, and no locked handle from a peer. A buffer that is unregistered may be registered again. One bit cannot count lockers: `Memory` says that it
  is set exactly when one thread holds the buffer, so that an unmapping waits for it.

Each assumption is matched by a run or by an observation in section 3 in which the property fails
without it; `ConfApart` by its own words.

Every invariant, action property and refinement of the passing runs is proved. Only model-checked: the liveness
properties `CancelEnds`, `JobEnds`, `GivesUp`, `AllAnswered`, `NextServed`, which are out of the prover's reach.

## 6. Not modelled

* Manifest syntax, hashing, decompression, reply texts: data without control.
* A torn in-place write of `uEnvAB.txt`: a write is one step.
* The raw copy of BootInfo while the main thread has the same partition mounted: what a filesystem makes
  of blocks that change below it is not in this code. For the same reason a copy of the running root
  filesystem is a copy of its bytes as they are.
* tar, cp and the hash programs as processes: that they fail, or are cut short, is not seen by the code.
* SIGINT beyond the end of the process: the branch that would cancel the update
  (`server.cc:136`) is reached only if the signal arrives between two lines.
* Which manager `server.cc` hands a message to; how `config.cc` cuts a line into words.
* In gralloc: the UMP variant (`GRALLOC_ARM_UMP_MODULE`), the posts of builds without `STANDARD_LINUX_SCREEN`, and
  `setSwapInterval`: at interval 0 a post makes none of the vsync ioctls, which the runs cover because these may always succeed.
* i2c-tools (third party), board files, echo tools, packaging scripts.

## 7. State of the plan

Done: the update manager, the boot, their composition across resets, the socket and its abstract
specification, the partitions with configuration, mount point and copies, gralloc with its abstract
specification, and the proofs of section 5.

Left, in the order of what it would add:

1. An abstract update (begun, applied and switched to, or not at all) that `OTAManager` and
   `BootSystem` implement together. `Resumption` is the part of it that `OTAManager` implements alone; the
   switch is today in the properties of both.
