# OBC verification project

TLA+ models, TLC runs and TLAPS proofs for the OBC board support code: the
redundant start and the update commands of U-Boot, the start of Linux up to
the mounted applications, and the concurrent programs of the application layer.

1. [Inventory](#1-inventory)
2. [Modules and the code they stand for](#2-modules-and-the-code-they-stand-for)
3. [Runs](#3-runs)
4. [Proofs](#4-proofs)
5. [Where code and documentation disagree](#5-where-code-and-documentation-disagree)
6. [What is not modelled](#6-what-is-not-modelled)
7. [Plan](#7-plan)

`PROJECT.json` lists every component, run, theorem and hazard, and the source
lines each definition stands for.

## 1. Inventory

The repository builds the software of small ARM boards (AM62x, RV1106 and
others) around external SDKs. Its own logic is in five places.

### U-Boot: `bootloader/obcbase`

| | |
| --- | --- |
| state | on each MMC device: two copies of loader, fdt, teeos, uboot, kernel and rootfs, the `sysflag` block; in memory: the global block device `gstBlkDev`, slot and medium of this start, the partition table, the memory SPL shares, the device tree at `uiFdtAddr`, `g_iUp_Dev_type` |
| operations | `obc_board_init` (hardware, device tree, bootargs), `bootk`, `updatex -d`, `updatex up`, `obcflash mmc erase`, `obc_slot_switch` |
| talks to | SPL through shared memory; itself at the next start through `sysflag`; Linux through bootargs |
| hard | power loss between any two writes, I/O errors whose results are ignored, memory that survives a warm reset, a global that one command leaves changed for the next, images of which only some are checked |
| correct when | one accident never costs both copies; copies that no accident touched agree; kernel and device tree come from one slot; a board with one sound slot comes up; a write stays in its partition, and a refused image writes nothing |

### Linux start: `rootfs/base_rootfs/etc`, `module/obcbase`

| | |
| --- | --- |
| state | the stage of the start, the links mdev makes in `/dev/obcblock`, `/proc/obcbase/sysinfo_part`, the two application partitions, what is mounted at `/appfs` |
| operations | the kernel mounts the root file system; `S01_basedev`, `S09_obc_base` with `obcbase.ko`, `S10_obc_startup` (mount, `blkid`, `mkfs`, mount again) |
| talks to | U-Boot through the command line; the next start through the application partition |
| hard | the slot passes through five hands (flag, SPL, bootargs, module, script); `blkid` is silent about an empty partition and about an unreadable one; power loss during `mkfs`; nothing reacts to a damaged root file system |
| correct when | all that comes up is of one slot; only an empty partition is formatted; a start without errors ends with the applications mounted |

### LVGL application: `system/appfs/lvgl/platform/luckfox`

| | |
| --- | --- |
| state | the loaded screen and the menu's idle timer; the pomodoro state; the stock table and its configuration; the table of monitored hosts and the record on show |
| operations | swipes, clicks, LVGL timers (UI thread); the stock thread, the UDP receiver thread, the NTP thread |
| talks to | threads share tables under a mutex; the stock thread reads the loaded screen without one; NTP sets the clock LVGL's tick is read from |
| hard | accesses outside the mutex, a round of requests that outlives its screen, a tick that starts again every 71.6 minutes and jumps when NTP sets the clock, widgets that some packets leave alone, state compared with a configuration that has changed since |
| correct when | what is on the screen is one device's, the selected one's, and fresh (the GPU values and the jumps of the tick excepted, section 3); the menu is left when idle and never otherwise; a failed price is shown as failed; a paused period resumes as itself; traffic stops after the screen is left |

### obc-link-node: `system/appfs/obc-link-node`

| | |
| --- | --- |
| state | `g_running`, the server with `listen_fd` and `client_fd`, the kernel's descriptor table, one client and a backlog |
| operations | create, start, process (select, accept, replace, recv), stop, destroy; the signal handler |
| hard | the handler closes descriptors between any two system calls, and the kernel reuses their numbers; an acknowledgement to a peer that is gone raises SIGPIPE |
| correct when | `client_fd` never stands for another connection than its own; nothing is left open; callbacks alternate; every peer is accepted; a signal ends the program, and of what peers do only a configuration in pieces with a hang-up behind it can |

### OSAL of the AMP image: `system/appfs/amp-a53/osal`

Static pools of semaphores, mutexes and tasks: flags per entry, a count. Create
and delete run partly with interrupts on. Correct when no entry is handed out
twice and the count is the number of entries in use; that holds until two tasks
create at the same time in an unused pool (`osal_race`). A task that deletes itself
takes its entry with it for good: the pool shrinks, the count stays true.

The other parts (host tools, kernel modules, scripts, command-line tools,
vendored code) are listed with their reasons in `PROJECT.json` and in section 6.

## 2. Modules and the code they stand for

| module | stands for | state and actions |
| --- | --- | --- |
| `ObcStore` | `obc_blk.c`: copies, headers, sysflag | `part`, `sysflag`; `ReadPartOK`, `PrepareOK`, `Stored`, `SetCopy` |
| `BoardInit` | `board_config*.c`, `cmd_bootk.c` | `PowerOn` (ROM and SPL, external), `HwInit`, `FdtInit`, `ArgsInit`, `Bootk`: one action per handler |
| `Updatex` | `cmd_updatex.c`, `cmd_obcflash.c` | `SetTarget`, `StartUpdate`, `Fetch`, `BeginWrite`, `EndWrite`, `FailWrite`, `EnableUserBoot`, `Erase` |
| `ObcBoard` | the board as a whole | the three above with `Interrupt`, `Reset`, `PowerLoss` |
| `AppfsStart` | `S01_basedev`, `mdev/obcblock`, `S09_obc_base`, `obcbase.c`, `S10_obc_startup`, on top of `ObcBoard` | `MountRoot`, `BaseDev`, `ObcBase`, `MountAppfs`, `ProbeAppfs`, `FormatAppfs`, `MountAgain`; `EraseAppfs`; `BoardStep` |
| `SlotBoot` | the promise of a two-slot start (abstract) | good slots, flag, slot tried, mode |
| `ObcBoardRefines` | `ObcBoard` implements `SlotBoot` | the refinement mapping |
| `MCObcBoard`, `MCObcLinux`, `MCSysInfo` | instances for TLC | command lists, files, application partitions; symmetry of the hosts |
| `RootfsWrite` | `obc_blk_write_rootfs_by_name`, `obc_validate_sparse`; `obc_blk_mmc_erase` | `CheckHeader`, `CheckChunk`, `CheckTotals`, `WriteChunk`, `Interrupted`, `Written`, `WriteRaw`; `StartErase`, `EraseBlocks`, `EndErase` |
| `TomatoTimer` | `tomato_timer.c` | `CountDown`, `Expire`, both buttons, the sliders |
| `LvglScreens` | `luckfox_720.c`, `menu.c` | `Swipe`, `ClickItem`, `IdleExpires`, `ClockTick` |
| `StockConfig` | `stock_load_config` | one action per kind of line |
| `StockUpdate` | `stock_info.c`, composed with the two above | `ScreenInit`, `Round`, `Fetched`, `UpdateDisplay` |
| `SysInfo` | `sys_info.c`, with the clock of `main.c` and `net_date.c` | receiver: `Receive`, `Copy`, `CopyRest`; UI: `Refresh`, `Swipe`, `Switch`, `DrawName`, `DrawNumbers`; `Tick`, `NtpStep` |
| `LinkNode` | `tcp_server.c`, `main.c` | one action per system call of the main program, the acknowledgement apart from `recv` (`Receive`, `Acknowledge`, `BrokenPipe`); `Signal`, and the peers with their resets |
| `ObjectPool` | the promise of a pool (abstract) | who has which entries; `Take`, `Give` |
| `OsalPool` | `SemaphoreP_freertos.c`, and the pools of `MutexP` and `TaskP` | `TestCount`, `Reset`, `Scan`, `Construct`, `ConstructFails`, `TestUsed`, `Release`, `DeleteSelf`; the history `overlapped` |

Eight modules hold the theorems of section 4 about the modules they extend:
`ObcBoardProofs` (U-Boot), `SystemProofs` (the board with Linux on it, and its
refinement of `SlotBoot`), `RootfsWriteProofs`, `TomatoProofs`, `StockProofs`
(screens, configuration and thread), `SysInfoProofs`, `LinkNodeProofs` and
`OsalPoolProofs`.

How atomic a step is follows from the code:

- U-Boot has one thread and no interrupts that matter here. A handler is one
  step; power may fail between two. Writing a copy takes long and is two steps
  (`BeginWrite` tears the copy, `EndWrite` completes it).
- In Linux the scripts run one after the other: a step is a script, or a command
  of `S10_obc_startup` whose result it acts on. Formatting is two steps
  (`ProbeAppfs` leaves a partial file system, `FormatAppfs` completes it).
- A callback of the LVGL thread is one step, unless it touches shared data
  outside the mutex: a swipe in `sys_info.c` is `Swipe`, `Switch`, `DrawName`
  and `DrawNumbers`, because the index is changed before the lock is taken and
  the record is drawn after it is given back. What a thread does under the lock
  is one step where no other access ignores the lock, and several where one does.
- The signal handler of obc-link-node can come between any two system calls, so
  each call is a step.
- In the OSAL, what runs with interrupts off is one step.

Bytes are abstracted to what the code tells apart: a copy has a header or not,
is whole or torn, and holds one of a few payloads; a packet is a sender, a
serial number and whether it has GPU values; an image is a sequence of chunks. A torn copy fails its CRC16; a
collision of the checksum is left out.

## 3. Runs

Every passing run goes through its whole state space. A `.cfg` names the module's own
specification and gives its constants; the board has MC modules, because its command lists and
files are structured values, and `sysinfo` one for the symmetry of its hosts.

### The board

`board` (start from eMMC, updates of eMMC and SD card; single components and
`all`; a power loss and an I/O error in any place, an erasure):

- `CopiesAgree`: a component no accident has touched has two whole, equal copies.
- `OneCopySurvives`: one broken-off update or erasure costs at most one copy.
- `SlotSurvives`: after one accident on a device, one slot is complete in all
  its components. That is stronger than the property before: slots are never mixed.

The history variable `hurt` counts, per device and component, the accidents
since its copies were last written alike. Two is all the properties tell apart.
Three commands are enough for: damage a component, repair it, damage it again;
with both devices for every order of re-pointing `gstBlkDev`.

- `EventuallyBoots`: a board with one sound slot comes up. Images that verify but
  do not start, and the writer's acceptance of images without a header, are in the
  files of `board_linux`.

`board_linux` (one medium, two power losses, three commands, also images that
verify but do not start and damaged root file systems; application partitions
of five kinds, an `mkfs` that is broken off):

- `OneSlotUp`: the kernel that runs, its device tree, the root file system on
  the command line and the partition at `/appfs` are of one slot.
- `HealthySlotKept`: no unattended start moves the flag off a slot that works,
  unless the medium fails in that very step.
- `FilesystemKept`: Linux formats the application partition of its own slot and
  only when it has no file system or the torn one its own step began.
- `AppfsIsReady`: a start that meets no error leaves the applications mounted, or
  their partition is one that the script must leave to an operator.
- `EventuallyUp`: a board all of whose startable slots have a sound root file
  system comes up to the end of its scripts.
- `ImplementsSlotBoot`: the board, Linux on it, implements `SlotBoot`, its
  fairness included.

Under the mapping a start has given up as soon as its device tree was refused,
though `obc_board_init` and bootcmd go on; so the second slot switch, that of
`bootk`, has to be a stutter. It is one because `obc_slot_switch` writes the
other slot of its argument, not of the flag: a flag that is toggled breaks
`HealthySlotKept`, and a kernel that falls back to the other slot breaks the
refinement (both are mutants of this run). Three commands damage what each of the
three readers looks at: U-Boot the device tree and the kernel, Linux the root
file system. Two losses are the one that tears and one in the start that follows.

Fairness: a handler that was begun ends (`BootSteps`); an update waits for
nothing but its own timeouts (`Updating`); Linux gets on with its start
(`LinuxSteps`); a board that stands at the prompt or at a fault, or whose kernel
has panicked, is power-cycled sooner or later by its operator. Commands, power losses and
I/O errors need not happen. Without the last assumption nothing would bring a
board on from the prompt: the code has no watchdog there. A running board is
reset from its shell, which init starts after the scripts, or after a panic; before
that only a power loss stops it.

`board_linux` has no I/O errors, and both runs have an SPL that always publishes;
`SystemProofs` covers one that never does, and `HealthySlotKept` any. With an I/O
error and a warm reset the board can run a kernel with the other slot's device tree
(`slot_mixing`); with two errors, Linux formats a sound partition (`appfs_format`). These two, `boot_source` and `osal_race` are the runs that are
expected to end in a counterexample (section 5).

### The root file system writer and the erase

`rootfs_write`: every sparse image of up to three blocks and six words, chosen
chunk by chunk as the validation reads it, then written by `write_sparse_image`
(external: taken to advance by block counts and to refuse what is past the
partition), with a failure or power loss after any part of a chunk. The image
block is two storage blocks, the partition begins at block 2 and an odd number
of blocks long, so that mixed-up units and offsets show. The other way into the
partition is the erase, buffer by buffer; with a buffer of two blocks and a
partition of five the last write is a shorter one. `RejectedUntouched`,
`InsidePartition` (of both), `WriterAgrees`, `NeverRefused`, `DoneIsComplete` (of both).
Sizes are words of a header of length 1, which makes images of three chunks fit
into six words.

### The applications

| run | what it explores | properties |
| --- | --- | --- |
| `tomato` | three sliders whose ranges overlap; pause, resume, reset and move at any second | `ResumeRestores`, `PeriodEnds`, and in `TypeOK` that the progress bar never divides by zero nor passes 100 % |
| `lvgl_stock` | three sections for two places, unknown sections, zero intervals; then screens, thread and timer together | `TimerOnlyOnMenu`, `MenuIsLeft`, `OwnCode`, `LastStockOnly`, `TrafficBounded`, `RefreshedWhileShown`, `FailureIsShown` |
| `sysinfo` | three senders for two rows, packets with a GPU and without, any initial tick, NTP steps, a swipe at any point of a packet's way | `ShowsSelected`, `OneDeviceDrawn`, `TimelyNumbers`, and in `TypeOK` that a sender has one row |
| `link_node` | two peers with two segments each, that hang up at any moment and whose resets take their time; signals between any two system calls, a failing start | `ClientFdIsOwn`, `AllClosedAtExit`, `KilledOnlyBySplit`, `CallbacksAlternate`, `SignalEnds`, `PeerIsAccepted` |
| `osal_pool` | `main()`, then three tasks that also delete themselves, three entries: a pool that fills up, shrinks and is reset | `OwnUnlessOverlapped`, `CountUnlessOverlapped` |
| `osal_race` | two tasks that make the first objects of a pool at the same time | `OwnHandle`, which fails |

Bounds. `sysinfo`: the timeout is one period, the tick starts again after four
(`Turn`, the 2^32 microseconds of the code) and its differences are taken modulo
seven (`ClockSize`, the 2^32 milliseconds), so that a difference across a turn is
three too large; in five periods data is heard, kept, outlived and heard again on
either side of a turn. Three packets are one for each sender, or two of one around
one of another. `tomato`: nine work periods with an interval of four pass two long
breaks. `link_node`: descriptors are one more than the peers, the most that can
be open, so that every close is followed by a reuse of the lowest number; two
segments are what it takes to send two acknowledgements.
`lvgl_stock`: one section more than there is room for.

Fairness. `tomato`, `lvgl_stock`: LVGL's loop calls a timer that is due, and time
passes; nobody has to touch the display. The stock thread is scheduled and a
request ends, since `recv` has a timeout of five seconds. `link_node`: the main
program runs; nobody has to connect, send, hang up or press Ctrl+C.

Conditions a property states, because the code needs them:

- `ResumeRestores` speaks of a period during which no slider has moved, with
  three lengths that differ.
- `TimelyNumbers` speaks of a host that was heard since the tick last jumped
  (`steady`), be it that it started again or that NTP set the clock. After a jump
  fresh data may be taken off the screen, until the host's next packet.
- `OneDeviceDrawn` asks for the GPU values only when the packet drawn has a GPU;
  otherwise `update_gpu_info` leaves on the screen what is there.
- `OwnCode` speaks of a file without unknown sections and without one stock
  too many; `LastStockOnly` bounds what such a file can do.
- `OwnUnlessOverlapped` and `CountUnlessOverlapped` hold until `overlapped`: an entry
  is handed out while another caller stands between its count test and its memset,
  both of which run with interrupts on. That is the one schedule that spoils the
  pool; resets that meet deletes, full scans and one another are harmless.
  Deadlock is not checked in this run: every task may delete itself.
- `PeerIsAccepted` excepts the ends of the program, SIGPIPE among them;
  `KilledOnlyBySplit` says what a peer must have done to bring that about.
- `CallbacksAlternate` excepts the callback after a signal.

## 4. Proofs

The theorems hold for every value of the constants that the modules' assumptions
allow; where a theorem needs more, it is named below. The assumptions are
evaluated by TLC in every run of the module. Each proof has one lemma per group
of actions, an inductive invariant, and a last temporal step.

### `ObcBoardProofs`: any devices, images, commands, accidents

| theorem | |
| --- | --- |
| `TypeCorrect` | `TypeOK` with `Selected`: where U-Boot reads, writes or switches a slot, `gstBlkDev` is a device; a running command has a component, and a file once it was fetched |
| `CopiesAgreeAlways`, `OneCopySurvivesAlways`, `SlotSurvivesAlways` | the three invariants of `board` |

The three say nothing about a component that is just being written, so they
are not inductive. The invariant adds what the code's order of writing gives:

- `DamageCounted`: without accidents the copies are whole and alike, with one
  accident one copy is whole;
- `WriteOrder`: while copy 0 is written, copy 1 is what it was; while copy 1
  is written, copy 0 is the whole new image; the write goes to `upDev`, whatever
  `gstBlkDev` was before.

Each update step, erasure and power loss is a lemma of its own; the steps of a
start leave the copies alone. `SlotSurvives` follows from `DamageCounted` by
choosing the whole copy of the one component that was hurt.

### `SystemProofs`: the same with Linux on the board, and the promise of two slots

| theorem | states | assumes |
| --- | --- | --- |
| `LinuxTypesHold`, `AppfsIsReadyAlways` | the types of the Linux side; a start without an error leaves the applications mounted, or their partition to an operator | |
| `FormatsItsOwnAlways` | Linux never touches the application partition of the other slot or of another device | |
| `HealthySlotKeptAlways` | `HealthySlotKept` | |
| `SoundFilesystemKeptAlways` | Linux destroys no sound file system | `MaxIoErrors` at most 1 |
| `FilesystemKeptAlways` | `FilesystemKept` | `MaxIoErrors = 0` |
| `UnattendedStartIsOneSlot` | what bootcmd starts, kernel and device tree, is of the boot medium and of one slot, and published as that | `MaxIoErrors = 0` |
| `OneSlotUpAlways` | `OneSlotUp` | `MaxIoErrors = 0`, booting from and updating `"emmc"` only |
| `StartsConvergeAlways` | a start tries the slot its flag names, and comes up, or that slot is bad and the flag is on the other | `MaxIoErrors = 0`, `OneHandoff` |
| `BoardRefinesSlotBoot` | every step is one `SlotBoot` allows, or a stutter | `MaxIoErrors = 0`, `OneHandoff`, one boot medium |

`MaxIoErrors = 0` means media that do not fail, `OneHandoff` an SPL that always or
never publishes its slot. The assumptions are needed: `appfs_format` fails with two
errors where `SoundFilesystemKept` holds with one, `slot_mixing` with one, and
`boot_source` needs no error but a second medium and someone at the prompt, which
`UnattendedStartIsOneSlot` excludes.

The invariants:

- `LinuxInv` adds to the types `Published` (from bootcmd on medium and slot are
  in bootargs), `Handed` (which stage has received them, and that nobody hands on
  anything else) and `Caused` (what must have failed before the script probes, and
  that what it formats is marked partial first).
- `OneSlot` says that a device tree in memory is that of the slot in play or
  none; `OneDev`, that the global block device stays with the one medium in use.
- `FdtTried` is what keeps a sound slot: at bootk the device tree of the slot in
  play is in memory, or it is bad, or the flag has left the slot already, so that
  the second switch of a start changes nothing. It holds through any errors and any SPL.
- `StartInv` is what the refinement needs besides: SPL's word is the flag's, and
  after fdt_init the slot was either given up (`Refused`) or its device tree is
  the one in memory (`Accepted`). `StartsConverge` is the safety core of
  `EventuallyBoots`: of two starts that nobody interrupts the second comes up, if
  a slot is sound. The fairness half of `ImplementsSlotBoot` is left to TLC.

`FormatsItsOwn`, `SoundFilesystemKept`, `UnattendedOneSlot` and `StartsConverge` are
defined in this module; they refine what the runs ask and have no run of their own.

### `RootfsWriteProofs`: any image, any number of chunks, any partition

`TypeOKAlways`, `InsidePartitionAlways`, `NeverRefusedAlways`,
`RejectedUntouchedAlways`, `WriterAgreesAlways`, `DoneIsCompleteAlways`. The
invariant ties the two readings together: `Layout` (the chunks that were accepted
follow one another without a gap up to the total), `Room` (the total the header
promised fits the partition), `WriterAt` (the writer stands at the end of the
chunk before the next one), `Totals`, `Behind` (the chunks the writer has passed
are on the device), `EraseAt` (what the erase has passed is zero), `Fresh`. That
the total is compared with the header's at every chunk, and not only at the end,
is what makes `Room` usable; that the chunks do not overlap keeps `Behind`.

### `TomatoProofs`: any slider ranges, any number of periods

`TypeOKAlways` (with it: the progress bar never divides by zero nor passes its end)
and `ResumeIsRestore`. `tomato_start` knows a paused period only by its length;
the invariant `LengthIs` says that this is the configured length of its phase as
long as no slider has moved, and `IdleIs` that phase and state are idle together.
`PeriodsRunOut`: a period that counts has its LVGL timer, each run takes of the time
that is left or ends the period, and no button or slider gives time back.

### `StockProofs`: any file, any number of stocks

`TypeOKAlways`, `TimerOnlyOnMenuAlways`, `OwnCodeAlways`, `TrafficIsBounded`,
`OnlyTheLastStock`, `PricesTellAlways`. The invariant adds `LastOrNone` (lines go to the last stock or
to none), `ReadSoFar` (without a section out of place, what is stored is what was
written), `NotYet` (nothing is fetched while the file is read) and `RestOfRound`. `PricesTell` is the
safety half of `FailureIsShown`: the display writes a price exactly where the last
fetch of that stock gave one (`AnsweredIs`: `valid` says so, however rounds and
screens overlap). `IdleTimerIsNotPutOff`: while the menu is shown, its timer runs on
to the limit, and nothing that keeps the menu up starts it again.

### `SysInfoProofs`: any hosts, any packets, any steps of the clock

`TypeOKAlways`, `ShowsSelectedAlways`, `OneDeviceDrawnAlways`, `NumbersAreTimely`. The accesses without
the lock are harmless since the receiver copies only packets of the selected
device into the record (`OnShow`), except between the two halves of a swipe, whose
second half overwrites the record under the lock; `SelectedIs`, `StoredIs` and
`Drawing` complete the invariant. For `TimelyNumbers` it is joined by `TimeInv`:
for the hosts heard since the tick last jumped (`steady`), the tick is as far from the
time in their row as they have been silent (`Aged`), and the time of the
record on show is that of the selected row, except in the middle of a packet or of
a swipe (`TimesKept`). `ElapsedIsAge` takes the difference of two ticks back to the
age of the packet.

### `LinkNodeProofs`: any peers

`ClientFdIsOwnAlways`, `AllClosedAlways`, `OnlySplitKills`, `CallbacksInTurn`. The
kernel reuses numbers; that is harmless since every open descriptor is one of
three that the server knows (`Held`), which differ (`Apart`) and stand for what
they were opened for or for nothing (`Own`), and a number whose descriptor is
closed survives only where nothing is accepted before it is overwritten
(`Stale`). `Phases` and `Callbacks` say where the program stands.
`SignalShortensTheRun` gives the most system calls main still makes after a signal
(`CallsLeft`, 14 at most): each of its steps makes it smaller, and no peer and no
further signal makes it larger.

`OnlySplitKills`: a reset is the answer to an acknowledgement, and the next
acknowledgement follows only another segment (`Acks`).

### `OsalPoolProofs`: any tasks, any finite pool

`HandlesAreOwn` and `CountStaysRight`: until `overlapped`, an entry has one owner and
the count is right. The invariant adds `AtHand` (an entry is at hand exactly between
the two ends of a create or a delete, or lost with a task that deleted itself),
`NoHandleYet` and, for as long as nothing has overlapped, `ResetsEmpty`: who found
the count zero finds the pool empty, and still does when it comes to its memset.
`KeptObjectIsEnough`: a program whose `main()` has an object of the pool when it starts
the scheduler never overlaps. The demo in the repository makes no OSAL object.

`PoolKeepsItsPromise`: without an overlap `OsalPool` implements `ObjectPool`.
The mapping takes `Has(t)` for the entries of an owner, what it has at hand
included: the scan is then a `Take`, the release of a delete and a construction
that fails are a `Give`, all else a stutter, and a task that deleted itself keeps its
entry for good. `NullOnlyWhenFull` adds what the abstract pool cannot say: the scan
refuses its caller only if every entry is with somebody.

### Only model-checked

- Liveness: `EventuallyBoots`, `EventuallyUp`, `PeriodEnds`, `MenuIsLeft`,
  `RefreshedWhileShown`, `FailureIsShown`, `SignalEnds`, `PeerIsAccepted`, and the
  fairness half of `ImplementsSlotBoot`. Their proofs reason about when a fair
  action is enabled, which the provers cannot. What six of them rest on is
  proved, that steps lead towards the end or the right answer and none away from it:
  `StartsConvergeAlways`, `PeriodsRunOut`, `IdleTimerIsNotPutOff`, `PricesTellAlways`,
  `SignalShortensTheRun`, `BoardRefinesSlotBoot`.
- `SameSlot`, `BootSourcePublished` and `OwnHandle`, which do not hold. `OneSlotUp`
  says more and is proved under the conditions under which it holds.

## 5. Where code and documentation disagree

Found by a run, with a counterexample:

| run | property | what happens |
| --- | --- | --- |
| `slot_mixing` | `SameSlot` | `obc_board_init` ignores that the device tree could not be read; after a warm reset the one a former start left in memory is used, with the kernel of the other slot |
| `boot_source` | `BootSourcePublished` | `updatex` to the other device leaves `gstBlkDev` there; `bootk` then starts that device's kernel while bootargs name the boot medium |
| `appfs_format` | `FilesystemKept` | `S10_obc_startup` takes a partition `blkid` prints nothing about for an empty one, also when it could not be read; after two failing reads a sound file system is formatted, which the script's comment excludes |
| `osal_race` | `OwnHandle` | two tasks find the count zero; one clears the pool, scans and gets an entry, the other clears the pool after it and gets the same, though `SemaphoreP.h` says that a handle represents its instance |

Met while modelling. The models have this behaviour, and the properties are
stated around it:

- The writer accepts an image without OBC header for every component, the
  reader refuses it; likewise an image that verifies but does not start. Such an
  update ends well and leaves two copies that are of no use. `EventuallyBoots`
  and `EventuallyUp` therefore ask for a sound slot.
- A device tree that verifies but does not parse empties the partition table;
  until the next start nothing can be updated by name.
- `updatex up all` leaves U-Boot out (`AllOrder`).
- A pomodoro period paused in the second in which it stands at zero cannot be
  resumed, only reset. One whose length a slider has changed since may be
  resumed as another.
- `menu_reset_idle_timer` has no caller: a touch does not prolong the menu's stay.
- The stock thread finishes its round after the screen was left
  (`TrafficBounded` says by how much). A stock section past the tenth writes its
  lines into the tenth.
- A swipe draws the record after it gave the mutex back; name and numbers can be
  of two packets, though never of two devices (`OneDeviceDrawn`).
- The GPU values on the screen stay when the packet drawn has no GPU
  (`sys_info.c:760`): after a swipe from a host with a GPU to one without, the
  former host's are shown under the new name.
- The tick starts again every 71.6 minutes, since `lvgl/main.c:77,83` computes it in
  32-bit microseconds before dividing, and it jumps with every NTP step. The unsigned
  difference of `sys_info.c:937` is then millions of milliseconds, and fresh data
  time out until the host's next packet, against the comment at line 934 (no data for
  more than five seconds).
- A peer of obc-link-node that sends its configuration in two pieces and hangs up
  without waiting ends the whole server: the reset it answers the first acknowledgement
  with makes the second, at `tcp_server.c:208`, raise SIGPIPE, which `main.c` does not
  handle. Other peers that wait are not accepted.
- A root file system that does not mount makes the kernel panic, and no part of the
  start moves the slot: the board panics again at every start (`EventuallyUp` asks for
  sound root file systems).
- An `mkfs` that was broken off leaves a partition `blkid` knows; no later start
  formats it, and the applications stay away until an operator erases it.
- Network speeds are drawn from the record also after its timeout.
- A second signal in the last lines of obc-link-node's `main` uses the freed server.
- `ipaddr` is compared with one address and set to another, so that every start
  writes the environment.

## 6. What is not modelled

- The repository holds 688,000 lines in 1,583 source files. All but a few
  percent are BusyBox, LVGL with its fonts, FreeRTOS and the TI chip support
  library; `PROJECT.json` maps the project's own code, and no larger share of the whole
  could be mapped without modelling other people's libraries.
- `write_sparse_image`, `booti`, ROM and SPL, the kernel's ext4, the TCP stack,
  FreeRTOS and LVGL are external: they appear as far as the code uses them (marked
  `external` in the map).
- In the composed board `obcflash mmc erase` is one step; its loop is in
  `RootfsWrite`. The network start (`boot_from_nfs`), the environment and the
  i.MX6ULL port, which has no slots, are left out; `obc_blk_flash.c` is a stub.
- The `stop` branches of the start-up scripts undo the start at a shutdown
  and write nothing the next start reads.
- LVGL locks input during a screen animation; the models take the screen as
  loaded from the call on, which allows more.
- `sysinfo_stop_udp_receiver`, the stock monitor's stop function,
  `tcp_server_send` and `do_updatex_sd_writefile` have no callers. The receiver
  thread's failure to bind, after which it is taken for running, is not modelled.
- The bytes of TCP segments, of HTTP answers and of JSON: every split of the
  stream reaches a parser that keeps no state.
- Host tools (`obc_sign`, `mkkimg`), the shared-memory and GPIO modules, host
  scripts, one-shot command-line tools, build files: straight-line code or pure
  I/O. Vendored code is not this project's.

Why each of the components `PROJECT.json` lists as `not_modelled` is one is in its note.

## 7. Plan

Done: the redundant start and update with its abstract specification, Linux up to
the applications, the root file system writer with the erase, the LVGL screens,
the link node, the OSAL pools with theirs; eight proof modules, in which every
safety property of a passing run is a theorem. Open, and of less weight:

1. `BoardRefinesSlotBoot` for media that may fail, which needs a `SlotBoot` whose
   slots can be given up for a failing medium.
2. The safety cores of `PeerIsAccepted` (a peer's place in the backlog only falls) and
   of `RefreshedWhileShown` (a round leaves no stock out).
3. `SysInfo`: the start of the receiver (a failing bind, and a second start), once the
   code acts on it.

New checks join an existing run where the constants allow, or take the place of
a weaker one; a run is added only for a question none of these asks.
