# Verification of the feiniu NAS hotspot and its MT7603U driver

TLA+ models of this repository: the tool that turns a NAS into a Wi-Fi hotspot
(`src/lib`, about 640 lines of Python) and the parts of the MT7603U USB driver
(`src/driver`, about 840,000 lines of C from the vendor) in which several
threads work on the same queues. TLC checks them on small instances; TLAPS
proves some of the results for every value of the constants.

`src/driver/release/` is a second copy of the driver and is left aside. The
build that the tool makes is the USB one (`RTMP_USB_SUPPORT`, `MT_MAC`,
`CONFIG_ANDES_SUPPORT`, cfg80211, 802.11n, UAPSD; no WPS and no mesh), and the
models follow the branches that this build takes.

## 1. The system

### The tool

| part | state it keeps | operations | who it works with |
|---|---|---|---|
| `lib/manage.py`, the commands | `operation.lock`, `state/hotspot-status.json` (shared with the worker), `state/driver-files.json`, `/lib/firmware` | start, stop, restart, unload, status | systemd (`systemd-run`, `systemctl stop`), the kernel (`insmod`, `rmmod`), NetworkManager |
| `lib/hotspot.py`, the worker | `/run/nas-wifi`, the undo list, cleanup errors, its signal flag, hostapd and dnsmasq | run: checks, changes, serving, cleanup | started by systemd, stopped by its SIGTERM; writes the status that the commands poll |
| `lib/network.py` | none; what it plans is in the kernel: `ip rule`, iptables, nft | `check_proxy`, `network_changes` | Mihomo's TUN and routes, Docker and firewall tools in the same chains |
| `lib/common.py` | none | `cmd` (time limit 15 s), `save_status`, `find_adapter`, configuration | all of the above |
| `lib/build_driver.py` | `build/<kernel>/`, `build.json`, a lock | build | make, modinfo |

What is hard here: the commands and the worker talk only through a file and
systemd, in any order; the worker can be killed in any step; every change to the
host has to be undone, also when the change or another undo failed or timed out;
other programs change the same tables meanwhile.

What makes each part right. *Worker:* no change is made twice; hostapd serves
nobody unless all rules are in place; "stopped, no errors" means that everything
was undone; what a dead worker left is noticed. *Commands:* success is said only
of what is so; the module is not removed under a worker. *Rules:* public traffic
does not fall back to the wire; traffic of others is not touched. *Firmware
files:* files of others are kept, and the project's own are removed.

### The driver

| part | state it keeps | contexts that work on it |
|---|---|---|
| reordering (`common/ba_action.c`) | the table of sessions, a list per session, a shared pool of blocks | RX tasklet (data, BAR), MLME thread (ADDBA, DELBA) |
| firmware commands (`mcu/andes_core.c`, `mcu/andes_mt.c`) | txq, kickq, ackq, tx_doneq, a sequence number, a state per command | any thread that sends, URB completion, RX tasklet, command tasklet, exit |
| USB bulk-out (`common/rtusb_bulk.c`, `cmm_data_usb.c`) | a write ring per queue, pending flags | transmit path, completion tasklet |
| USB bulk-in (`common/rtusb_data.c`, `os/linux/rt_usb.c`) | a ring of receive URBs | completion, RX tasklet, reset |
| command thread (`common/cmm_cmd.c`, `cmm_usb_io.c`, `os/linux/rt_usb.c`) | a queue and its state | any context that queues, thread, close |
| timer queue (`common/rtmp_timer.c`, `include/rtmp_timer.h`, `common/rtmp_init.c`) | timers, a pool of entries for those that expired | kernel timers, thread, contexts that set and cancel, close |
| MLME (`common/mlme.c`) | a ring of messages, machines' states | RX, timers, ioctls, the thread itself, close |
| close (`common/rtmp_init_inf.c`, `os/linux/rt_usb.c`) | how far it has come | `ifconfig down`, against all of the above |
| key handshake (`common/cmm_wpa.c`, `ap/ap_wpa.c`) | replay counters, retries, states | EAPOL, timers |
| power save, station table, AP machines, RF | tables per station | RX, timers, ioctls |

`PROJECT.json` lists all parts, the ones that are not modelled with the reason.

How they interact: timers and received frames only queue work; the timer thread
queues commands; the command thread sends firmware commands and wakes the MLME
thread; the MLME thread runs the state machines, which set timers, queue
commands and end reordering sessions. The close stops them in one order, while
each of them still works for the others.

What is hard here: pairs of critical sections with a decision carried from one
to the next; answers and time limits that race; wake-ups that are lost; numbers
that wrap; pools and queues that are full; contexts that end the session another
one works on; threads that wait for each other when the interface goes down.

What makes each part right. *Reordering:* a frame comes out once, in order, and
in the end; no block of the pool is lost. *Firmware commands:* no command is
lost or unlinked twice; an answer reaches the command it is for; a sender
returns. *MLME and command queue:* what was accepted is handled once and in
order, or freed when the queue is destroyed. *Timers:* a periodic timer goes on;
a cancelled one does not run. *Close:* it ends, and nothing is left that would
touch the adapter, which is freed.

## 2. The modules

| module | models | abstract view | used by |
|---|---|---|---|
| `Hotspot` | `hotspot.py`, `manage.py`, systemd unit, host | a change is a number; the undo list is its length | `HotspotProofs` |
| `HotspotProofs` | | inductive invariants, theorems | `MC_Hotspot` |
| `Forward` | `network.py`, applied and undone as in `hotspot.py` | a packet is interfaces and address classes; a rule is a packet with open fields | `ForwardProofs`, `MC_Forward` |
| `ForwardProofs` | | inductive invariant, theorems | |
| `Firmware` | `ensure_driver()`, `unload()` | a file is a version, a part of one, or something else | `FirmwareProofs` |
| `FirmwareProofs` | | inductive invariant, theorems | `MC_Firmware` |
| `Reorder` | recipient side of `ba_action.c`, BARs of `wdev_rx.c` | a frame is a station and a number | `ReorderProofs`, `MC_Reorder` |
| `ReorderProofs` | | inductive invariants, theorems | |
| `Andes` | command path of `andes_core.c`, `andes_mt.c` (USB) | a command is a name | `AndesProofs`, `MC_Andes` |
| `AndesProofs` | | inductive invariants, theorems | |
| `Mailbox` | (abstract) | what the queue of a thread promises | `MlmeQueue`, `CmdQueue`, `TimerQueue` |
| `OsTask` | `RtmpOSTaskWait`, `RtmpOSTaskKill` | a flag per thread | `Adapter` |
| `Adapter` | `HALT_IN_PROGRESS`, USB suspend and resume | two variables | the four below |
| `MlmeQueue` | the ring and the thread of `mlme.c` | a message is what it does to the link | `MlmeQueueProofs`, `MC_MlmeQueue` |
| `MlmeQueueProofs` | | inductive invariant, refinement, theorems | |
| `TimerQueue` | `rtmp_timer.c`, timers of `rtmp_init.c` | a timer is a name | `DriverTasks` |
| `CmdQueue` | `cmm_cmd.c`, `RTUSBCmdThread`, `CMDHandler` | a command is a name | `DriverTasks` |
| `DriverTasks` | `TimerQueue`, `CmdQueue`, the MLME thread and `RTMPDrvClose` together | the MLME thread is a user of the other two | `DriverTasksProofs`, `MC_DriverTasks` |
| `DriverTasksProofs` | | inductive invariants, refinement, theorems | |
| `SequenceLemmas` | | induction over the numbers, division; what appending, taking and removing do to a queue | `ForwardProofs`, `ReorderProofs`, `AndesProofs`, `MlmeQueueProofs`, `DriverTasksProofs` |

Each module that models code carries, next to the definitions, the variants that
the mutation runs put in their place; they are marked `Mutant` and nothing else
uses them. Where there was room in a property the type invariant is its first
conjunct (`UndoCovers`, `PoolConserved`, `Intact`, `RingCoherent`).

### Hotspot

`copies`, `managed`, `plugged`, `driver`, `runDir` and `legacy` are the host;
`unit` is what systemd says; `wpc` is the place in `run()`; the locals have the
code's names (`undo` is the *length* of the undo list: changes are pushed in a
fixed order, before they are made, so the list is always a prefix of it).
`state` and `cleanupErrors` are the status file. `op`, `opc` are the command
that holds `operation.lock`. `fresh`, `preManaged` and `nmDefault` are history.

The `W…` actions are the steps of `run()`, each ending where a signal, a kill or
a failing command can come in between; the `O…` actions are those of the
commands. A command of the worker can fail, and one that fails may have taken
effect (`cmd` raises on its time limit). `Worker`, `Environment` and `Operator`
interleave freely.

Faults are a constant: `kill` (SIGKILL of the worker), `rmtree` (removing
`/run/nas-wifi` raises), `late` (a kill between rmtree and the last status) and
`disk` (writes under `logs/` or `state/` fail). The runs allow the first two.

### Forward

The plan of `network_changes()` is the sequence the code builds, for both modes.
`-I` inserts at the head, `-D` removes the first equal rule. `Verdict` is the
first rule that matches, `Route` what the policy rules, the main table and
Mihomo's TUN do with a packet. Docker or a firewall tool adds and removes one
rule of its own per chain between any two steps. One private network stands for
the three of the code. Rules of others that stand ahead of the project's concern
other interfaces only; a tool that flushes the chains while the hotspot serves
is not modelled. Killed workers are in `Hotspot`.

### Firmware

The two files, the record of their digests, what of it is on the disk, and the
places of `ensure_driver()` and `unload()`. A kill in the middle of a write
leaves a part of it; a panic leaves what was synced. Others put files there, and
the project may be updated, while no command runs. Files are taken in their
order when they are installed, in any order when they are removed.

### Reorder

Frames are numbered from the beginning and the code sees the number modulo
`MAXSEQ + 1`. A step of a thread ends at its next lock; `LastIndSeq` is read
once per decision. The station keeps to its transmit window and gives up at most
`MaxGap` frames in a row. `got` and `top` are history and start afresh with a
session. `Busy` are the stations that send. `Racing` says what the MLME thread may
do between two steps of the RX tasklet: nothing, anything but while a BAR of the
old kind is handled ("frames"), anything. Not modelled: the originator side,
action frames the driver sends, the programming of the MAC, frames too large or
of the legacy kind in `wdev_rx.c:360-395`. A BAR for a station without a session
has no effect. `RECBATimer` is initialised and never set, and
`BaReOrderingBufferMaintain` is not compiled for Linux, so neither is an action.

### Andes

A command has the fields `state`, `seq`, `ackDone`, its memory and its URB; the
queues are sequences. Every command is sent by a context of its own; nothing in
the code serialises them, and `overlap` lets two that wait be sent at once. An
interrupt may send one that waits as well, and is refused. A
step ends at the next queue lock. With `overlap` or `race` a list can be destroyed
(an item unlinked twice, whose pointers are NULL, or queued twice, or used after it
was freed): nothing can be told of what the code does after that, and the model
has no step from such a state (`Destroyed`). `Number` is the sequence number as
the answer carries it.
`fw` holds what the firmware has not answered. `KillUrb` is `usb_kill_urb`,
which waits for the completion. The exit comes after the threads and tasklets
are joined (`rtmp_init_inf.c:1514`). `Init` is the state after the microcode was
loaded. Left out: `need_retransmit` (always 0), the return value, URBs of the
receive side, and events that no command waits for. An answer comes after the
completion of the OUT URB, and not later than `SeqMax` further commands.

### Mailbox, OsTask, Adapter

`Mailbox` is the abstract specification of a thread's queue: `box` is what waits,
`hand` what is worked on, `open` until the queue is destroyed. Messages are taken
in the order of acceptance, one at a time, once; some may be withdrawn, and while the mailbox is
`shut` the oldest one may be refused. Three
queues of the driver are held against it. `MlmeQueue!DeliversInOrder` and
`CmdQueue!CommandsInOrder` are refinements that hold: the box is what the ring or
the list contains, the hand what the thread has taken; `CmdQueue` refuses commands
under `HALT_IN_PROGRESS`. `TimerQueue!RunsExpired`
maps the timers that expired the same way, and does not hold (finding 4).

`OsTask` is what the threads use of the kernel: waking sets a flag,
`RtmpOSTaskWait` takes it (or reports that the thread is to stop), and
`RtmpOSTaskKill` waits until the thread function has returned. Taking the flag is
one step with returning from the wait. `Adapter` has the flags every thread looks
at; an adapter is suspended at most once in a run.

### MlmeQueue

The entries of the ring with `Occupied` and the message, `Head`, `Tail`, `Num`;
the contexts that enqueue, which look at the queue before they take its lock; the
thread, which takes an entry, works on it outside the lock and frees it. An
EAPOL-Key frame that comes before the link is up is copied to the tail. `linked`
is changed by the messages that are handled, by the suspend and by the close.
`PutBack` does not test the entry it writes: when the rest of the ring is full that
is the entry the frame is in, whose message is zeroed before it is copied, and
which is then queued and freed at once. Nothing in `mlme.c` prevents it, though
mlme.c:1096 puts frames back so as not to lose them. `overran` remembers that it
has happened, and the properties claim nothing after it: a message accepted then
may be overwritten or freed. The thread's steps after it are followed, new calls
are not (a bound, in `MayCall`). `DeliversInOrder` is about the messages that are
never put back. `Ordinaries` is the list of the messages of the ring that
are never put back, in their order, by recursion over its length. Left out are the
other tests that end the loop of `MlmeHandler`: `MLME_RESET_IN_PROGRESS`, which
nothing in this tree sets, `NIC_NOT_EXIST` and `fRTMP_ADAPTER_SUSPEND`; and
`MT2_RESET_CONF`, a message like another.

### TimerQueue, CmdQueue, DriverTasks

A timer of the kernel is armed (`pending`) or in its callback (`firing`);
`Valid`, `State`, `Repeat` are the fields of `RALINK_TIMER_STRUCT`. The callback
queues the timer or, with no entry free, arms it again; the thread takes it, runs
the handler and arms a periodic one. Cancelling takes three steps: `Repeat` is
cleared under the lock, the kernel's timer is deleted, its entry is removed
(the first one; a timer can be in the queue twice). `RTMPModTimer` does not ask
whether the driver halts.

The command thread waits, takes one command after another, and clears the queue
when it ends. Between taking a command and beginning its handler it reads
`HALT_IN_PROGRESS`, and frees the command unexecuted when that is set
(`CmdRefused`), in a suspend as well, after which it goes on. A handler that has
begun is not stopped by it. Inserting a command and waking the thread are one step.

`DriverTasks` puts both together with a user (the MLME thread, and the handlers
of commands), suspend and resume, and `RTMPDrvClose`: MLME thread, cancelling the
periodic timers, timer queue, command thread, timer thread, two milliseconds,
release of the timers. Bounds: the command thread is `Backlog` ticks behind when
another timer may expire; it has been scheduled once before the close begins (a
thread that is stopped before it ever ran leaves what was queued); the MLME
thread begins no cancellation after it is told to stop (and may never return);
there is one command of
a kind in the queue. A callback that starts after the two milliseconds of
`rtmp_init_inf.c:1581` is left out. The initial state is either under the load
"timers" (timers are set and cancelled at any time) or "commands" (commands are
queued, the adapter is suspended and resumed).

## 3. The runs

| run | instance | states | shows |
|---|---|---|---|
| `hotspot` | 4 changes: release, address, nft exception, ip rule; kill, rmtree; fairness | 255,913 | what files and undo list promise, errors are kept, a stop ends, a start serves or ends |
| `firmware` | 2 files, 2 versions, kill, panic | 43,760 | files of others and of the project |
| `forward` | both modes, one private network, one foreign rule per chain | 119,752 | packets, undo, rules of others |
| `reorder` | one station, window 3, numbers 13..19 modulo 16, sessions, 100 ms | 10,213 | once and in order, window, head, drained |
| `reorder_race` | two stations, one of them sends, one entry, pool of 2, every event but EAPOL, handlers interleaved ("frames") | 1,808,334 | pool and table |
| `reorder_bar` | BARs | counterexample | finding 1 |
| `andes` | two commands that wait, one posted; URB errors, silence, unplugging, exit, a sender in an interrupt | 38,620 | queues, answers, nothing lost, senders return |
| `andes_seq` | two that wait at once | counterexample | finding 2 |
| `mlme` | ring of 3, a sender and a receiver, EAPOL-Key frames, a full ring, both at once, suspend, close | 384,142 | ring coherent, mailbox, everything handled, until the ring is overrun |
| `mlme_kill` | ring of 3, a receiver, no overrun needed | counterexample | finding 3 |
| `tasks` | a periodic timer and another, pool of 1, ticks and one more command, suspend, close | 276,400 | periodic timer lives, commands in order, refused only under halt, and leave the queue; the close leaves nothing, and ends once the MLME thread is gone |
| `timer_phantom` | the same, load "timers" | counterexample | finding 4 |

Why the bounds are enough. *Hotspot:* each kind of change occurs once; a firewall
rule is added and removed like the address, and the theorems hold for any number
of each. `MaxAge` counts loop rounds until a start that is not up has failed.
*Forward:* packets, rules and modes are all there are; one foreign rule is enough
to shift positions between an insertion and its removal, and the theorems hold for
any number of them and of private networks. *Firmware:* two files
are what the code has; two versions tell an update. *Reorder:* the numbers wrap
within `reorder`, the list reaches and would exceed the window, and in
`reorder_race` the pool is exhausted and an entry is reused by another station.
`GapAssumption` keeps half of the number space ahead of the station, as 4096
numbers do for the windows that are agreed on. *Andes:* two commands that wait
are the least that can meet, the posted one shows the loop that empties the queue
of somebody else. *MlmeQueue:* with three entries one can be in the thread's hands
while the others are full, a received frame finds the queue full (N/2) before
others do, and a frame goes back into a full ring as well as into one with room;
the theorems hold for any size. *DriverTasks:* one entry makes every second expiry find the
pool empty; two timers are what can be confused; the theorems hold for any number.

Deadlock is not checked for Andes (after the exit nothing is left to do); every
other passing run checks it.

Fairness. `Hotspot`: the worker is a process the kernel schedules and every
command it runs has a time limit; systemd takes a unit down that is deactivating
(its stop has a time limit of its own); a child that was sent SIGKILL is reaped.
Nothing is assumed of the operator, of faults, or of hostapd coming up.
`Reorder`: tasklet and thread run on; `Drained` assumes that frames keep coming
and that there is a pause of 100 ms now and then, for only a received frame
looks at the time limit. `Andes`: contexts run on and URBs complete; `Returns`
assumes in addition, as a premise, that the firmware is not silent for ever.
`MlmeQueue`: threads and calls that have begun go on, the periodic command comes
again and again while the adapter is awake, a suspend is followed by a resume, a
close that has begun goes on. `DriverTasks`: time goes on, threads are scheduled,
a suspend ends and so does a close, as far as the close does not wait for the MLME
thread: that one may never return once it is told to stop (finding 3), so that
`CloseReturns` is about a close whose MLME thread is gone. `DelAnyTimer` alone is strongly fair, for
`del_timer_sync` waits for a callback, which is short, and gets in between two
of them. Nothing is assumed of who sets, cancels or queues.

## 4. What is proved

All theorems are of the form `Spec => []P`, `Spec => [][A]_vars` or, for the
refinement, `Spec => AbstractSpec`, for every value of the constants, with the
assumptions named here.

**HotspotProofs**, assumption `FaultsSpared` (neither `late` nor `disk`, each of
which TLC shows to break `NoDoubleApply`): `TypeCorrect`, `NeverDoubled`,
`LeftoversAreFlagged`, `StopIsClean`, `ErrorsAreKept`, `ServedBehindRules`,
`StartedIsOurs`, `AdapterIsOwned`. None of the properties is inductive.
`NoDoubleApply` needs that a worker between `mkdir` and its first change finds a
clean kernel; that needs that leftovers keep the directory (`EarlyIsClean`,
`DirectoryHeld`), which needs that the undo list covers what the kernel holds or
an error was noted (`RecordCovers`), also for a worker that is gone. The commands
know that an inactive unit has no worker (`CommandKnows`), which is why `start`
may read the status at all. `IInv` is the conjunction. `CleanStop` needs in
addition what a worker knows of NetworkManager's state at each place of `run()`
(`ManagedKnown`). The lemmas follow the parts: types, `RecordStep`,
`ControlStep`, `HostapdStep`, `ManagedStep`.

**ForwardProofs**, for any list of private networks that are different strings
and none of which is another class of address (`PrivateAssumption`; the code has
three), and any number of rules of others: `UndoKnowsAll` (`UndoCovers`),
`OthersStay` (`TheirsKept`), `NothingFallsBack` (`NoFallback`), `ClientsAreServed`
(`Served`), `OthersAreUntouched` (`UnrelatedUntouched`). `ChainInv` says how far
the plan is in each phase (`Placed`), that the rules of the project in the kernel
are rules of the mode, also after errors (`Planned`), that they are those on the
undo list unless an undo action has failed (`Covered`), that nobody else has ip
rules (`Private`), and which rule of a chain may be ahead of which (`Shaped`):
none of a firewall tool ahead of ours, none of ours twice, none of ours behind
the rejection. The order of the insertions in `network_changes()` is what keeps
the last one, since each is put at the head (`PlanIs` has the plan position by
position). A packet is decided by the first rule that matches (`VerdictIs`,
`Decides`); no rule of the project matches traffic of others (`OwnMatches`), so
that taking ours out of a chain does not change what it decides
(`TheirsDecide`), and what is inserted or deleted leaves the others in their order
(`TheirsPut`, `TheirsCut`), by induction over the length of the chain.

**FirmwareProofs**, assumption `PowerSpared` (the host does not lose power; a
panic once `insmod` runs is allowed): `TypesKept`, `UnloadIsClean`,
`FirmwareIsThere`, `OthersAreKept`, for any number of files and versions.
`UnloadedClean` needs that a file of the project is in the record or the record
is unreadable (`Recorded`), and during an unload that what is left is still to
be looked at (`Removing`); the panic needs that all of it is on the disk when
the module comes in (`OnDisk`), which is what `os.sync()` is for. There is one
lemma per part of the invariant, with one case per action that the part depends
on. `OthersAreKept` needs that of the files of others a command claims none that
the record did not (`Claiming`), since it claims only what it found missing; a
file that took the place of a recorded one, with the same bytes, is not kept, and
the property says so.

**DriverTasksProofs**, for any timers, commands and sizes, no assumption but the
types of the constants. `PeriodicLives` (`PeriodicAlive`): a context that cancels
a timer has cleared `Repeat` first, so it takes only that timer out of the queue
(`RemoveFirstKeeps`), and the thread runs only what it took (`TimerInv`).
`NothingLeft` (`Quiet`): `CloseInv` says for each stage of the close which threads
have returned (`ThreadsDown`), that nobody still cancels (`UserDown`), that the
timer queue is empty and refuses (`QueueDown`), and that a released timer is not
armed again, since everybody who could is gone (`TimersDown`); there is one lemma
per part, with one case per action. `CommandsDelivered` (`CommandsInOrder`) is the
refinement of `Mailbox`: every step of the composition is one of the mailbox or
leaves its variables alone, given that the thread has a command in its hands from
when it takes it to when it frees it (`CmdInv`). It says that the handlers of the
accepted commands begin once and in order, but for the commands whose turn comes
under `HALT_IN_PROGRESS` and those that are there when the thread ends, which are
freed unexecuted. `TypesHold` (`TypeOK`): the timer queue never
holds more entries than the pool has.

**MlmeQueueProofs**, for any size of the ring and any contexts, no assumption but
the types of the constants: `RingStaysCoherent` (`RingCoherent`) and the refinement
`MessagesDelivered` (`DeliversInOrder`), both up to the destruction of the queue or
a frame that goes back into a full ring. `RingInv` says which entries of the ring
are occupied (`Filled`), that no other is but the one in hand (`Spare`), and what
the thread has in its hands (`Handling`). The refinement rests on
what `Ordinaries` gives for a list with one message more or less at either end,
proved by induction over its length.

**ReorderProofs**, for any stations, entries, windows, pools and numbers. The
invariants build on each other, each with one lemma per action:

- `TableStaysConsistent` (`TableConsistent`), assumption `Racing # "all"`: while
  the RX tasklet handles a BAR of the old kind, the MLME thread does not change
  sessions (without it TLC breaks the property, see section 5). The loop that
  looks for a free entry finds one when the count says so (`RoomFound`).
  `TableInv`: the count (`Counted`), an entry belongs to the station whose index
  points to it (`Owned`), the tasklet ends a session only while the thread is
  between two events (`Turns`), and what the thread has done half-way through
  adding or ending a session (`Adding`, `Ending`).
- `PoolStaysConserved` (`PoolConserved`), in addition no EAPOL frame out of order,
  whose block leaks. `PoolInv` adds the types and that the blocks in the lists,
  on the freelist and elsewhere are the pool (`Pooled`). It needs that
  `ba_reordering_mpdu_insertsorted` adds one frame or none and that what is
  taken is cut off the list (`InsertSortedIs`, `Cut`, `BlocksChange`).
- `WindowStaysHeld` (`WindowHeld`) and `HeadStaysBlocked` (`HeadIsBlocked`),
  assumption `Racing = "no"` and `Sufficient`: no other session uses the pool, no
  EAPOL frame is out of order, and the pool has a block for every number of
  every window, as 512 blocks have for eight windows of 64. Without a block the
  tasklet passes everything up to the new frame and leaves what is behind it in the list, and
  on an instance with window 4, five blocks taken from a pool of six and numbers
  modulo 32 TLC shows that both `WindowHeld` and `AtMostOnce` fail. `OrderInv` rests on
  `ResetInv` (one thread at a time, `Alone`, so that an entry whose `LastIndSeq` is
  reset, or that is taken away, has an empty list, `Emptied`): the
  frames of a list are in order by their distance from `LastIndSeq`, between 2
  (1 while the tasklet is moving on) and the window (`Ordered`), the frame in hand
  fits in (`InHand`), and a session has the window it was given (`Opened`).
  Distances are taken modulo the number space, of which a window is less than
  half, so that `SEQ_SMALLER` orders them (`DistIs`, `DistMoves`).
- `DeliveredOnceInOrder` (`OnceInOrder`), in addition no BAR (finding 1) and
  `MaxAge <= 1`, that is, the 500 ms limit is not reached (it forgets
  `LastIndSeq`, see section 5). `OnceInv`: `LastIndSeq` stands for a frame `n`
  that is neither older than what was indicated nor newer than what was heard
  (`Tracks`), and what was heard lies in the window behind `n`, but for the frame
  in hand (`Within`); a station keeps to its transmit window (`Sent`). From this,
  numbers that the code compares are never half of the space apart (`Nearby`),
  and what it takes for newer is newer. The run `reorder` is an instance of the
  assumptions.

**AndesProofs**, for any commands. `NoCommandLost` (`NoneLost`), up to the first
mishap that destroys a list, and without that limit where `QueuesStayIntact`
excludes one: a command that is not finished is in a
queue, in somebody's hands or in its URB. `KeptInv` says at which
places a sender has a command in its hands (`Hands`), that a command that was
never sent is nowhere (`Made`, `Started`), where one can be that its sender waits
for or has posted (`Awaited`, `PostedKept`), and that a posted command is in
`kickq` before its URB is submitted (`Submitted`). `QueuesStayIntact` (`Intact`) and
`AnswersMatch` (`AnswerMatches`) assume that two senders do not wait at once
(`overlap`, finding 2) and that a time limit does not run out while somebody else
is at work on the command (`race`, section 5). Their `OrderInv` says that a command is in
one place and alive there (`OnePlace`), what its place says of it (`Known`), when
its URB is out (`Underway`) and what its sender may be about to do (`Awaiting`);
and the command that waits has the last number that was given out (`Numbers`), so
that an answer not more than `SeqMax` commands late cannot be taken for another's
(`SameNumber`). There is one lemma per action.

**SequenceLemmas** holds what they share. The library states induction with an
operator parameter, so the lemma `Induction` is about a set of numbers instead; it rests on the
theorem that the natural numbers are well-founded, as does the least position of
an element (`Smallest`), from which follows what removing the first occurrence
does. `Division` says what `%` is when the divisor is not a literal.

Only model-checked: all liveness, which is beyond the prover.

## 5. What was found

1. `reorder_bar`: `CntlEnqueueForRecv` indicates the buffered frames up to and
   including the BAR's starting sequence and then sets `LastIndSeq` to the one
   before it, so that frame is indicated twice when it comes again.
2. `andes_seq`: `AndesGetCmdMsgSeq` chooses a number under `ackq_lock` and reads
   it after the lock; two senders can leave with the same one.
3. `mlme_kill`: an EAPOL-Key frame in the ring when the link goes down goes back
   to the tail for ever; `MlmeHandler` never ends, and the close waits for the
   MLME thread.
4. `timer_phantom`: when a cancellation empties the timer queue between the
   thread's test and its lock, the thread runs the handler of the timer before
   once more.

Seen while modelling, without a run of its own; most are listed as hazards, with
the property that fails when the model allows the event:

- *Hotspot.* `stop()` looks at `cleanup_errors` only, and a worker that was
  killed has written none: stop.sh reports success with the rules in place,
  though README.md:38 says that it removes them. (The next start does notice:
  `LeftoversFlagged`.) With `late` or `disk`, cleanup errors are lost and the next
  start adds a rule on top of the one left behind. After one failed undo,
  `cleanup_errors` stays, and every start, stop and unload fails until the
  status file is removed by hand, also after a reboot. `/run/nas-wifi` of a
  killed worker stops every start until a reboot. Fourteen undo commands of 15 s
  are longer than systemd's stop limit of 90 s. An unload whose `ip link set
  down` fails leaves the adapter unmanaged.
- *Firmware.* A kill while the record is written leaves JSON nothing can parse,
  and nothing repairs it. README.md:232-233 promises that unload.sh deletes only
  what the project created. That is broken for a file that the record claims and
  another package has put there since, with the same bytes: after a start that
  was killed between the record and the file, or after the project's file was
  deleted, unload (`manage.py:140`) removes it. `UnrelatedKept` claims what is
  left of the promise. A loss of power before `os.sync()` can lose the record and keep the
  file.
- *Reorder.* An EAPOL frame ahead of its turn leaks a pool block and leaves a
  head in the list that nothing takes. The 500 ms limit resets `LastIndSeq` in
  mid-session, after which old frames pass. A DELBA between decision and
  insertion leaves a frame in the list of a freed entry, so that the ASSERT of
  ba_action.c:2064, that a list is empty when `LastIndSeq` is reset, fails for the
  session that gets the entry next; it holds only while handlers take turns, and no
  property states it. BARs of the old kind
  end sessions in the RX tasklet, which races with the MLME thread over the
  count.
- *Andes.* A sender that finds a command in `txq` while an answer is outstanding
  goes round without a pause; if the answer is its own and the firmware silent,
  its 3 s time limit is never reached. The time limit reads the command's state
  without a lock; a completion or an answer just then unlinks it twice, which destroys the
  list (`DlListDel` leaves NULL pointers). With two commands that wait at once,
  `Intact` fails as well.
- *MLME, timers and commands.* With the rest of the ring full, `PutBack` overwrites
  the entry it copies: the frame is zeroed, its entry is freed while it is queued,
  and messages accepted later can be lost. A command whose turn comes in a suspend
  is freed unexecuted (cmm_usb_io.c:1652), although the thread goes on after it.
  A timer that is cancelled while its handler runs may be armed once more. A
  command thread that is stopped before it was ever scheduled leaves the commands
  that were queued.

## 6. Not modelled

The driver has 840,000 lines, most of them register tables, element parsing and
features that the hotspot does not use. What is modelled is the part in which
contexts meet: queues, pools, timers and the close. The next parts of that kind,
in order of what they would add, are the USB bulk-out rings with
`netif_block.c` and power save, the ring of receive URBs, and the station table.
They share no state with what is modelled: frames, answers and completions enter
`Reorder` and `Andes` as events. The rest, in `PROJECT.json` with a reason each,
is pure computation (cryptography, rate control, parsing), access to hardware
(RF, EEPROM, MAC tables), switched off in this build (mesh, WPS, sniffer), not
used by the hotspot (station mode, ATE, Wi-Fi Direct, the driver's own key
handshake) or a copy (`driver/release`). `build_driver.py` is a sequential script
whose one step that others see, the rename of the finished module, is atomic.

## 7. Running it

    tlc -workers 2 -config MC_Hotspot.cfg MC_Hotspot
    tlapm HotspotProofs.tla
    tlapm ForwardProofs.tla
    tlapm FirmwareProofs.tla
    tlapm DriverTasksProofs.tla
    tlapm MlmeQueueProofs.tla
    tlapm ReorderProofs.tla
    tlapm AndesProofs.tla
    tlapm SequenceLemmas.tla

`PROJECT.json` names the module and the configuration of every run, the source
lines of every definition, and the mutant that shows each property can fail.
