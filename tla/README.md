# capi4linux in TLA+

TLA+ modules translated from the C sources under `src/linux/`, TLC
configurations that model-check them on small instances, and theorems about
them that TLAPS proves for every instance. Paths below are relative to
`src/linux/drivers/isdn/capi/` unless they name a directory.

- [1 The system](#1-the-system): its components, their state, operations and hazards
- [2 The modules](#2-the-modules): how state and actions correspond to the code
- [3 The runs](#3-the-runs): what each checks, the bounds, the fairness
- [4 The proofs](#4-the-proofs)
- [5 Where the code departs from its documentation](#5-where-the-code-departs-from-its-documentation)
- [6 What is not modelled](#6-what-is-not-modelled)
- [7 Plan](#7-plan)

## 1 The system

capi4linux connects ISDN device drivers with CAPI 2.0 applications in the
kernel. In the middle is the *capicore*. Device drivers register devices with
it; applications register, put messages to devices and fetch messages that
devices enqueue. Everything else is an application of the capicore or a library
for one side:

    user process        kernel client       isdn4linux
    /dev/capi20, ttys   kernelcapi          capidrv            applications
    capi.c              kernelcapi.c        capidrv.c
          \                  |                /
           ------------   capicore   --------   core.c, core_proc.c, core_sysfs.c
                             |
                       device drivers           capilib.c: their data windows

| component | state it keeps | operations | properties that make it correct |
|---|---|---|---|
| **capicore registries**, `core.c`, `core_sysfs.c` | table and list of devices, list of applications, the bit field `appl->devs`, reference counters, two kinds of rw-semaphore | `capi_device_register`, `_unregister`, `_put`; `capi_register`, `capi_release`, `capi_put_message`, `capi_get_*`; the drivers' `capi_appl_*` | references exact; no use after free; unique numbers; a device and an application that register at the same time meet exactly once; after unregister/release no callback or signal runs; no list changes under a walk; calls end |
| **application numbers**, `core.c:228-250`, `core_proc.c` | sorted list of applications, iterators of /proc/capi | `add_capi_appl`, the unlinking in `capi_release`, `appl_start`, `appl_next`, `appl_stop` | numbers unique, refused only when full, list sorted, iterators never dangle |
| **application queue and signal**, `capiappl.h` | message queue, error, signal handler | get, unget, peek, set_signal, enqueue, signal | fetched in order, an error is sticky, purged at release |
| **capilib**, `capilib.c` | per NCCI a pool of slots, linked into a queue and a free list | new, free, release, `data_b3_req`, `data_b3_conf` | the data window is exactly enforced, no slot in two lists |
| **kernelcapi**, `kernelcapi.c` | number -> application structure; list of interface users | register, put, get, set_signal, release; attach, detach, device reports | a handle leads to its own, live application; attached users get reports |
| **/dev/capi20**, `capi.c` | open files with application, flags and NCCIs | open, read, write, ioctl, close | NCCIs and minors agree, nothing leaks |
| **middleware ttys**, `capi.c` | sorted list of minors; per minor in/out/ack queues and flow-control flags | tty operations, the NCCI's messages | bytes in order and once, acknowledgements exact, queues drain |
| **capidrv**, `capidrv.c` | per controller a listen state machine and timer, B channels, PLCIs and NCCIs with table-driven state machines, ack queues | messages, isdn4linux commands, device add/remove | structures, channels and connections agree; confirmations reach their call; callbacks in order; a hangup ends the call; acks exact; removal leaves nothing behind |
| **capiutil**, `capiutil.c`, `capicmd.h`, `capiutil.h` | none | `capi_cmsg2message`, `capi_message2cmsg`, header | decoding undoes encoding; a message is as long as it says |
| **capifs**, `capifs.c` | directory entries in the VFS | mount options, node add/remove | - |
| **module start and class devices** | registrations with the kernel | init, exit | - |

What is hard in this code:

- *Concurrency of the registries.* `capi_devs_table` is read without a lock in
  `capi_put_message`; the application list is changed under its own semaphore
  and walked by a device registration under another; a bit is set before its
  reference is taken (`core.c:116-119`); `dev->sem` says by being readable that
  the device is registered.
- *Promises to callers about other threads:* after `capi_device_unregister` no
  capicore thread is in the driver, after `capi_release` no driver is in the
  signal handler.
- *Partial failure:* `capi_device_register` undoes a binding that messages may
  already have used.
- *Re-use:* numbers of devices and applications, minors, data handles, slots
  and memory are all handed out again as soon as they are free.
- *Order:* confirmations, refusals and nested calls of the line discipline
  rearrange the queues of a tty; detach and release in any order.
- *Crossing messages:* in capidrv a device, isdn4linux and the removal of the
  controller end the same call at the same time, and a full device queue loses
  requests that the state machines believe sent.
- *Limits:* 16 bit numbers, full tables, window sizes of 0, structures of 255
  bytes.

The full list, at its lines, is under `hazards` in `PROJECT.json`.

## 2 The modules

| module | models | used by |
|---|---|---|
| `CapiCore` | registries of `core.c`, the interrupt side of drivers | `CapiCoreProps` |
| `CapiCoreProps` | their properties | `MCCapiCore`, `CapiCoreProofs` |
| `CapiCoreProofs` | theorems about the registries: lists, locks, quiet devices, references, meeting and release | - |
| `ApplNumbering` | abstract: unique numbers, refused only when none is free | `ApplList` |
| `ApplList` | the list walk that implements it; /proc/capi | `MCApplList`, `RegistryProofs` |
| `Lists` | what the kernel's lists do: follow `next`, remove entries | `MsgIdQueue`, `InterfaceUsers`, `Capi20`, `CapiDrv`, `ListLemmas` |
| `ListLemmas` | lemmas about sequences, linked lists and least numbers | the modules of proofs |
| `DataWindow` | abstract: the CAPI data window | `MsgIdQueue` |
| `MsgIdQueue` | the slots and pointers of `capilib.c` that implement it | `MCMsgIdQueue`, `MsgIdQueueProofs` |
| `MsgIdQueueProofs` | theorems about it, with the refinement | - |
| `KernelCapi`, `InterfaceUsers` | the two halves of `kernelcapi.c` | `MCKernelCapi`, `MCInterfaceUsers`, both `Registries` |
| `Registries` | the composition of `ApplList` with both halves of `kernelcapi.c` | `MCRegistries`, `RegistryProofs` |
| `RegistryProofs` | theorems about `ApplList` alone and about `Registries` | - |
| `Capi20` | files, NCCIs, minors and ttys of `capi.c`: their life | `MCCapi20`, `Capi20Proofs` |
| `Capi20Proofs` | theorems about it | - |
| `CapiMinor` | the data path of one minor | itself, `CapiMinorProofs` |
| `CapiMinorProofs` | theorems about it | - |
| `IsdnChannels` | abstract: the order of callbacks that isdn4linux sees on a channel | `CapiDrv` |
| `CapiDrv` | one controller of `capidrv.c`, which implements it | `MCCapiDrv`, `MCCapiCard`, `CapiDrvProofs` |
| `CapiDrvProofs` | theorems about its calls and its removal | `CapiDrvFlowProofs` |
| `CapiDrvFlowProofs` | theorems about its callbacks, with the refinement, and its data | - |
| `CapiMsg` | the codec of `capiutil.c` | `MCCapiCard` |

`map` in `PROJECT.json` has the lines that each definition translates.
Variables and actions are named after the code's. A function that lets other
threads in between has one action per section, named after it with a suffix
(`bind_capi_device`, `bind_capi_device_open`, `bind_capi_device_done`); a
variable `pc` says where a thread is. Sections that run under a lock against
everyone who could see their middle are one step. A parameter that a call may
refuse without changing anything, such as a bad block size, is left out of the
inputs. A definition `X_mutant` is never used by the
specification: it is a plausible bug in `X`, and putting it in place of `X`
must break the property it is listed with under `mutants`.

**CapiCore.** A driver thread is named by its device and runs alloc, register,
unregister and put; an application thread runs register, put, get, the queries
and release. That an application makes no other call while it releases is the
application's obligation (`core.c:318-321`), so is one thread per driver for
register and unregister. The interrupt side of a driver runs beside both:
`enter_appl` and the three `capi_appl_*` calls, for applications the driver
has accepted. `list_sem` and `list_queue` are `capi_devs_list_sem`, served in
order of arrival as the kernel's rw-semaphores do; `dev_sem` is the `sem` of a
device. `refcount` is that of the class device; `free_capi_device`
clears the table slot and makes the memory allocatable again, so that a stale
pointer would meet the next owner. Drivers behave as `capidevice.h` demands:
`capi_release` returns when the driver no longer signals the application, and
unregister is called when no thread signals. `capi_appls_list` is a set here; `ApplList` has its order.

**ApplList.** `WalkEnd` is where the loop of `add_capi_appl` stops, with its
counter modulo `IdLimit`. `appl_start`, `appl_next` and `appl_stop` hold the
semaphore between them, the position survives. The refinement maps the
number of an unregistered application to 0.

**MsgIdQueue.** The pool is modelled with its `next` pointers; `Queue` and
`Free` follow them. `accepted` and `unordered` are history: what a driver was
told is accepted, and for which NCCIs it has confirmed out of order. From then
on the refinement to `DataWindow` maps the window to a closed one, since the
code loses slots (section 5); `ListsDisjoint` and `WithinWindow` hold all the same.

**KernelCapi, InterfaceUsers.** `id` is the number while the capicore lists
the application: `capi_register` and `capi_release` are atomic here, their calls of
drivers being the subject of `CapiCore`, and what the kernelcapi does after each of them is a
step of its own. A call through an empty slot is a null pointer, modelled
as a state `fault` in which the client stays. In `InterfaceUsers`, `NewHead`
is what the loop of `detach_capi_interface` makes of the list.

**Registries.** The clients of `KernelCapi` are the applications of `ApplList`:
where `kernelcapi_register` and `kernelcapi_release` call the capicore, the
composed action is the step of the table (`Allocated`, `Released`) together with
`capi_register` and `capi_release` of the list, and a refused registration leaves
the table alone. What `KernelCapi` supposes of the numbers, that a client gets the
least one nobody has, is here the outcome of the walk: `TableImplemented` is the
refinement, with `number` for the variable `id`. The users share no state
with the table; their steps are interleaved.

**Capi20, CapiMinor.** `capi.c` has no locks for minors, and its semaphore for
NCCIs does not cover all their uses. It can only be meant for one processor
without preemption, and that is what is modelled: a call runs from one place
where it may sleep to the next. In `Capi20` these are the kmallocs of
`capincci_alloc`, `capi_release` in the last close, and the two calls of capifs:
`capincci_alloc` sleeps in `capifs_new_ncci` (`capi.c:354`) when the minor has its
NCCI and the NCCI is not in the list yet, and `capincci_free` in
`capifs_free_ncci` (`379`) when the NCCI has left the list and still has its minor.
So each of the two functions is several actions, and a close frees one NCCI with a minor
after the other (`capidev_free`, `capidev_free_minor`). The NCCI that such a
call holds in the meantime is `InHand`, and `BackPointers` speaks of the listed ones and
of that one. Between the two, the tty may be opened and closed, and other files go on. Without capifs the
two calls are not made, and the steps follow each other at once. One thread reads a
file. In `CapiMinor` the sleep before an NCCI is freed is the time between
`capincci_unlink` and `capincci_free`, in which messages no longer find the minor
(`linked` is false) while its tty still works; the sleep in `capifs_new_ncci` only
delays the reader. Otherwise nothing sleeps there, but calls nest: `receive_buf` and
`write_wakeup` call the line discipline, which may call any tty operation.
`todo` is the stack of calls under way; the device and its confirmations
come in at any step. One written byte stands for the bytes of one write.
`BlkSize` is the room that a block of `put_char` really has, which `alloc_skb`
may round up above CAPI_MAX_BLKSIZE (`skb_tailroom`, `capi.c:1134`).
Bytes and packets are numbered in the order they come, so that order,
loss and duplication can be told. `stalled` is history for the cases in which
the code waits for a message that nobody will send.

**CapiDrv, IsdnChannels.** The same processor: the handling of one message, a
command or a timer is one step. For a command this assumes, beside the one
processor, that no softirq runs the tasklet `capidrv_recv_message`
(`capidrv.c:1445-1450`) in its middle, for instance between the test of
`bchan->nccip` (`1765`) and its use (`1770-1773`) or while `new_plci` links a structure
(`385-387`); nothing in the code keeps it out. Two functions are split. `handle_incoming_call`
offers a call through the ICALL callback, from which isdn4linux may hang up or
accept before it returns; `icall` holds the channel, `icall_taken` and
`icall_rejected` are the rest of the function. `capidrv_delcontr` goes through
its loops with messages and commands in between, as its FIXME fears.
`plcitable`, `nccitable` and the listen table are functions from state and
event to the next state; `p0` and `n0` are what the tables call on the way.
`card` holds the structures: those of a call are named by its channel, since
`bchans[].plcip` and `plci_list` lead to the same ones, and `live` says whether an
NCCI that `nccip` leads to is still that of the PLCI. `line` is the device:
what it does on its own (`Device` and the actions under it) follows CAPI, what
it does for a request is `Take`. It may refuse any message where `MayRefuse`,
and `send_message` does not look, as in the code. Messages of one connection
stay in order, those of different connections are taken in any order, which
includes every order that the single queue of the application can have.
`card.told` is what isdn4linux was told of a channel, and the state that
`IsdnChannels` orders: for instance no BHUP without a connection, no DHUP while
the B channel is up, nothing for a discarded channel.

**CapiMsg.** A message is built and read by walks over the parameter list of
its command; the 16 different lists there are, are in `cpars`. A step builds
one message, the next reads it, `Handled` forgets both. Every byte names the
parameter that it belongs to, so a byte that is read for another parameter is
seen. The offsets in the `_cmsg` are left out: they are the place in the list.

## 3 The runs

| run | question | instance | distinct states |
|---|---|---|---|
| `core_reuse` | Do all safety promises of the registries hold while everything is re-used? | 2 devices and 2 applications for 1 device number and 1 application number, 1 message | 133 thousand |
| `core_sysfs` | Do calls end, and do walks stay on the lists, when the sysfs fails? | 2 devices, 2 numbers, 1 application, sysfs may fail | 209 thousand |
| `core_release_window` | Does `capi_release` keep its promise when the sysfs fails? *No.* | 1 device, 1 application | - |
| `appl_list` | Are numbers unique and refused only when full, while /proc/capi is read? | 4 applications for 3 numbers, 2 readers, counter modulo 8 | 74 thousand |
| `window` | Does the capilib keep the data window? | 1 NCCI, windows of 0 to 4 where the maximum is 3, 3 message numbers | 13 thousand |
| `kernelcapi` | Do slots ever lead to a freed or foreign structure, does the list give the table the numbers it relies on, and is the list of users sound? | 3 clients for 2 numbers, 1 reader of /proc/capi, 3 users, 1 without callback; symmetric | 1.5 million |
| `kcapi_reuse` | Does a client keep its slot? *No.* | 2 clients | - |
| `users_detach` | Does a user get reports until it detaches? *No.* | 2 users | - |
| `capi20` | Do files, NCCIs, minors and ttys agree? | 2 files, 2 NCCIs each, 2 minor numbers, 3 addresses, ttys open up to twice; symmetric | 1.5 million |
| `minor` | Does the data path keep order and drain? | blocks of 2 bytes, 1 bit handles, 1 request at the device, 3 bytes out, 2 packets in, 1 queued message | 231 thousand |
| `capidrv_calls` | Do calls, channels and connections agree when everything can fail? | 2 channels, 2 connections, 2 message numbers, 2 messages of each waiting; symmetric | 2.1 million |
| `capidrv_card` | Do calls end, are acknowledgements exact and is the removal complete? Does the codec read what it wrote? | 1 channel, 1 connection, 2 data blocks, nothing refused; structures of 0, 1, 3, 254, 255 and 300 bytes | 116 thousand |

What they show, beyond that:

- `core_reuse`: `RefcountExact` says what a counter is at every moment, also
  between `set_bit` and `capi_device_get`. `NoUseAfterFree` and
  `BitsLeadToDevices` are why `BUG_ON(!dev)` never fires. `BindingComplete`
  and `OfferedOnce` say that two registrations at the same time neither miss
  each other nor meet twice. `UnregisterQuiesces` and `ReleaseQuiesces` are the
  promises of `core.c:208-210` and `323-325`. `ListsStableUnderWalks` is what
  makes the missing lock of `bind_capi_device` harmless.
- `core_sysfs`: `ApplCallsEnd` and `DriverCallsEnd` exclude deadlock between
  the list semaphore, `dev->sem` and callbacks, and starvation of either side.
- `window`: requests are refused exactly when the window is full, as
  long as confirmations come in order; afterwards the window is still never
  exceeded.
- `kernelcapi`: deadlock is not checked, because clients that fault stop.
- `capi20`: `BackPointers` holds at every sleep, also in capifs: whatever
  happens meanwhile, the minor that a call will link or free is still that of its NCCI.
  `TtysHaveMinors` makes an exception of ttys that were open twice,
  because of the close at `capi.c:1054` (section 5).
- `minor`: `OutputDrains` and `InputDrains` name every case in which the code
  stops with a non-empty queue: tty stopped or throttled, NCCI gone, or the last
  attempt met a refusal after which no message is due.
- `capidrv_calls`: `CallsAreOnLine` says that a structure is freed no later
  than the device may use its number again, `RolesAgree` that a channel does not
  keep the direction of its last call, `ConfFindsCall` that a repeated message
  number leads to the newest call. `CallbackOrder` is the refinement of
  `IsdnChannels`. Deadlock is not checked: where messages are refused,
  calls hang for good, and the system may stop.
- `capidrv_card`: the removal and the return of the controller; that
  `CallbackOrder` holds there too is proved (section 4). `RemovalComplete` makes one exception, a call offered while
  the removal runs (section 5). `HangupEnds` names the hangups that the code
  loses. The messages of `CapiMsg` are coded only while the controller is
  new, since neither part reads what the other keeps. `RoundTrip` covers every
  parameter list, each choice of its composed structures, and one structure of
  an odd length in each place.

**Why the bounds are enough.** In every instance more parties compete than
there are numbers, so full tables, refusals and re-use by the next owner all
occur. The instances of the registries are small in one respect: `core_reuse` has one
device number and one application number, so two devices or two applications are in it
after each other, or compete for a number, and are never registered at once;
`core_sysfs` has two devices at once with one application. That every
pair of walks, callbacks and puts is kept apart is shown by the theorems of
`CapiCoreProofs`, which cover each property of `core_reuse` for any number of
devices, applications and numbers. 1 bit handles
wrap after two requests, windows go over the maximum, and the lengths of
structures lie on both sides of 255, where the length field grows. Two channels
and two connections are the fewest with which a message can find the wrong one;
removal and data look at one channel at a time.
Bounds that only keep TLC finite are `MaxQueue`, `MaxOpens`, `MaxMsgs`,
`MaxWritten`, `MaxReceived`, `MaxData`, and in `CapiDrv` the guard `NoAnswer` of
`listentimerfunc`, by which the timer repeats a request only when no answer is
waiting. Without the exception for confirmations out of
order the run `window` fails, without `stalled` the run `minor` does, without
`Deaf` the run `capidrv_card`.

**Fairness.** *CapiCore:* a thread inside a call of the capicore goes on (weak
fairness), and so does a driver's callback: `capidevice.h:67-69` says that
they "mustn't be slow, i.e., blocking indefinitely". Semaphores are served
in order. No thread has to begin a call.
*CapiMinor:* loops go on and a device confirms what it accepted (weak); a
line discipline that may call the tty again and again does return, and the
application gets to read between the calls of others (both strong: nested
and other calls disable them in between). Nothing makes a process write or
throttle. *CapiDrv:* the tasklet handles a waiting message, isdn4linux returns
from its callback, and the device disconnects a call that it was asked to
disconnect (all weak). Nobody has to call, answer or hang up. The other runs
check safety only.

## 4 The proofs

| theorem | says, for every value of the constants |
|---|---|
| `CapiCoreProofs!TypeCorrect` | `[]TypeOK`; it includes that device numbers stay in the table and cursors in the bit field |
| `CapiCoreProofs!ListsLocked` | `[](ListLocking /\ ListWalks)`: the list semaphore is held exactly in the sections that need it, a writer is alone, and whatever a walk relies on is listed and numbered |
| `CapiCoreProofs!ListsStable` | `ListsStableUnderWalks`, a property of steps |
| `CapiCoreProofs!UnregisteredIsQuiet` | `[]UnregisterQuiesces`: after `capi_device_unregister` no thread is in the driver |
| `CapiCoreProofs!ReferencesCounted` | `[]RefcountExact`: counters are exact at every moment |
| `CapiCoreProofs!NumbersUniqueAlways` | `[]UniqueNumbers`: a number leads to one live device |
| `CapiCoreProofs!BitsNeverDangle` | `[]BitsLeadToDevices`: `BUG_ON(!dev)` never fires |
| `CapiCoreProofs!DevicesAlive` | `[]NoUseAfterFree` |
| `CapiCoreProofs!NobodyIsMissed` | `[]BindingComplete`: two registrations never miss each other |
| `CapiCoreProofs!NobodyIsAskedTwice` | `OfferedOnce`: nor do they meet twice |
| `CapiCoreProofs!ReleasedIsQuiet` | `[]ReleaseQuiesces`, as long as the sysfs refuses no device: after `capi_release` no thread is in the signal handler |
| `RegistryProofs!ListIsExact`, `ListIsSorted`, `IteratorsStand` | the list holds the registered applications, in the order of their numbers, and iterators of /proc/capi are on it |
| `RegistryProofs!RefusalsJustified` | an application is refused only when every number is taken |
| `RegistryProofs!NumberingImplemented` | `ApplList` implements `ApplNumbering` |
| `RegistryProofs!TableIsImplemented` | `TableImplemented`: the walk of the list gives the table of the kernelcapi the numbers it relies on |
| `RegistryProofs!SlotsLive` | no slot leads to a freed structure |
| `RegistryProofs!SlotsOwn` | no call reaches the structure of another client |
| `RegistryProofs!UsersListed` | the list of interface users holds only attached users and has no cycle |
| `MsgIdQueueProofs!QueuesTyped` | `[]TypeOK` |
| `MsgIdQueueProofs!SlotsDisjoint` | `[]ListsDisjoint`: no slot is in both lists of a pool or twice in one |
| `MsgIdQueueProofs!WindowHolds` | `[]WithinWindow`: the window is never exceeded |
| `MsgIdQueueProofs!WindowImplemented` | `WindowKept`: `MsgIdQueue` implements `DataWindow` |
| `Capi20Proofs!Capi20BackPointers` | an NCCI and its minor point at each other, also while a call sleeps in capifs with the NCCI outside the list |
| `Capi20Proofs!Capi20NoMinorLeaks` | a minor without NCCI has a tty that will free it |
| `Capi20Proofs!Capi20TtysHaveMinors` | a tty keeps its minor until it is closed, if it was not open twice |
| `Capi20Proofs!Capi20MinorsSorted`, `Capi20LeastUnused` | minors are sorted, and a new one gets the least number that is free |
| `CapiMinorProofs!MinorTypeOK` | `[]TypeOK` |
| `CapiMinorProofs!MinorOutputInOrder` | written bytes reach the device in order and once, but for dropped blocks |
| `CapiMinorProofs!MinorInputInOrder` | packets reach the line discipline in order and once |
| `CapiMinorProofs!MinorOutbytesExact` | `outbytes` counts the bytes in the queue |
| `CapiMinorProofs!MinorAcksExact` | `[]AcksExact`, as long as no request gets a handle that is still in use: the ackqueue holds the handles of the requests that are still to be confirmed |
| `CapiDrvProofs!EveryCallIsOnLine` | a PLCI structure with a number leads to a connection that the device has, and no two to the same one |
| `CapiDrvProofs!DirectionsAgree` | a channel has the direction of its call |
| `CapiDrvProofs!ConfirmationsFindCalls` | every CONNECT_CONF finds the call that waits for it |
| `CapiDrvProofs!CallsAgree` | the same three of `CallSpec` |
| `CapiDrvProofs!NothingIsLeftBehind` | the removal leaves no connection behind, and no call but one offered meanwhile |
| `CapiDrvFlowProofs!CallbacksInOrder`, `CallsInOrder` | `CallbackOrder`: the driver implements `IsdnChannels`, from `Spec` and from `CallSpec` |
| `CapiDrvFlowProofs!HandlesMatchBlocks`, `CallHandlesMatch` | `[]AcksExact`: the ackqueue of a live NCCI holds the handles of the unconfirmed blocks |

*Registries, lists* (`CapiCoreProofs`). The invariant is
`CoreInv == TypeOK /\ ListLocking /\ ListWalks`.
`TypeOK` alone is not inductive: that `id[d]` is a slot when a bit is set
needs to know that the device has a number in that section (`ListWalks`), and
that a device stays listed while an application registers with it needs
the exclusion of writers (`ListLocking`). `CoreNext` is split into one lemma
for each conjunct with one step for each action. `ListsStable` then follows
from the same invariant for every step: only a thread in an exclusive section
changes a list, and the walkers are in others. The assumptions used are
`ThreadsAssumption` and `SizesAssumption`: devices and applications are
finite, disjoint sets without the null pointer, and sizes are numbers.

*Registries, quiet devices* (`CapiCoreProofs`). `DevLocking` adds what is held
of `dev->sem`: an application in an operation holds it for reading, the driver
holds it alone before the end of its walk and from the write lock of
`unregister_capi_device` on. The hard conjunct is `PutIsQuiet`: a driver that
has put its device no longer counts as holding anything, so a device that can be allocated
again is either still write-locked or out of reach, in no slot of the table and
in no thread's local variable.

*Registries, references* (`CapiCoreProofs`). `RefInv` needs all its parts at
once. `RefcountExact` compares the counter with the cardinality of the finite
set of holders (the driver, and each application with a bit that
`capi_release` has not passed), less those that have set a bit and not yet
counted it. For every step the lemmas on cardinality say that a
set gains or loses one member, or none. Two cases decide: a
driver's put that leaves 0 finds no holder, hence no bit and no local
variable that leads to the device; the put of `capi_release` that leaves 0
finds the driver gone and one application, which is itself. `WalksNew` is
why a walk never sets a bit that is set, `HeldBits` why a slot is not
cleared under a bit, `ApplPlaces` why no application on another walk's list
is in the middle of its release.

*Registries, meeting* (`CapiCoreProofs`). `Asked` and `Asks` say of both sides
of a registration that the set of those that were asked is during a walk what the
walk has passed, and afterwards everyone; the exclusion from `CoreInv` makes
the two halves fit. `Agree` says that the bit and the driver's answer agree,
but in `capi_release`, which tells the driver before it passes the bit.

*Registries, release* (`CapiCoreProofs`). Under `~SysfsMayFail`, `SignalInv`
says that a driver signals only applications it knows, or one whose
`capi_release` waits for that in the driver's callback. With `Agree` such an
application has a bit, so it has not left the list. That the theorem needs its
assumption is what the run `core_release_window` shows.

*ApplList.* The invariant `ListInv` has, beside the type and the properties,
`Steep`: numbers grow at least as fast as positions, so that the k-th number is
at least k (`NotBelow`) and the walk of `add_capi_appl` passes exactly the entries whose
number is their position. It ends at the first gap, which is the number to
give. `InsertEntries` and `RemoveEntries` say what `list_add_tail` and
`list_del` make of the sequence. All its theorems assume
`MaxAppls + 1 < IdLimit`, the condition under which the u16 counter cannot
wrap (section 5).

*KernelCapi.* The invariant `KernelInv` adds to `TypeOK` that two
applications never have the same number and which of a client's two copies of
its number is set at each place (`NumbersKnown`), and that a slot that is
filled belongs to the client that still knows its number (`SlotsKnown`). The
case that matters is the re-use of a number before its slot is emptied: the
late release can only empty the slot, never put a structure into it.

*Registries.* A step of the composition is a step of the list or leaves it
alone (`ListSteps`), so `ListInv` holds there too. With it the registrations
are split by the end of the walk: `GivesLeast` says that the number given is free and that
every smaller one is taken, `GivesNone` that a refusal changes no number, `GivesBack` what
a release returns. Hence every step of the composition is a step of `KernelCapi`
or leaves its variables alone (`TableSteps`), which is `TableIsImplemented`; `SlotsLive`
and `SlotsOwn` follow from `KernelInv` through it. The same three lemmas give
`NumberingImplemented`. The hypothesis is that of `ApplList`; that the null pointer is no
client is in `NumbersAssumption`.

*InterfaceUsers.* `UsersInv` says that the list is a sequence without
repetitions, linked by `next`, of attached users with a callback. Detaching moves the
head to the user behind the one that leaves: the rest of such a sequence is
such a sequence (`LinkedAfter`), which is also why nothing worse happens than the
loss that the run `users_detach` shows. The walk of the list is bounded by the number of
users in the model; that the bound is enough is part of the proof.
The assumption is `UsersAssumption`: finitely many users, none of them the null pointer.

*MsgIdQueue.* `PoolInv` names the two lists of a pool as sequences s and t
with the pointers between their entries. They are disjoint and have no
repetitions, but together they need not fill the pool: a slot that
is filled while `msgidlast` is null after a confirmation out of order
is in neither list, and `msgidlast` may point at such a slot later. What holds in
all cases is `Len(s) <= nmsg` and `nmsg + Len(t) <= Size(np[k])`; with the
accepted messages in place of `nmsg` it gives `WithinWindow`. As long as confirmations come in order
`Ordered` adds that nothing is lost and that the queue holds the accepted messages,
which is what the refinement to `DataWindow` needs: a request finds the
free list empty exactly when the window is full, and a confirmation finds its
message at the head. The assumption is `WindowAssumption`.

*Capi20.* `BackPointers` is proved in two halves. `Pointers` says that NCCIs and
minors point at each other, wherever the NCCI is; `FileInv` says of each file where its
NCCIs are at each place in a call: a reader adds only an NCCI that its file does not
have, a call that frees one has taken it off the list, and only an NCCI in the list or
in hand has a minor. Without the first the reader, who sleeps three times,
would overwrite the minor of a connection; without the last an NCCI that nobody will
free could keep one. With `NoMinorLeaks`, `TtysHaveMinors` and `OpenTwice` they are
inductive. `Steep` is the argument of `ApplList` for
the search in `capiminor_alloc`. The assumption is `Capi20Assumption`.

*CapiMinor.* Both directions keep a sequence that the code moves from place to
place. `OutputInv`: what was sent, the queue and the block under construction
are in this order the written bytes without the lost ones; every step of the code
moves an end of one part to the next. `InputInv`: what was delivered and the queue are
the packets 1 to n, those behind n are the messages still to be read, in
order (`ToRead`), and an NCCI that is not listed has none (`Gone`). The stack `todo` of nested calls
does not matter to either, since every access of a queue is one step. `AcksInv` is a ledger:
the handles on the ackqueue are without repetition those of the requests at
the device and of the confirmations in the application's queue, no handle is in both, and none
is confirmed twice (`AckLedger`). A request that is refused comes off again, and `del_ack`
takes the first such handle: `DistinctAgain` shows that it does no harm even if that is an
older one. The theorem has a hypothesis on steps, `HandleFresh`: the device does not
take a request whose handle is on the ackqueue. The code relies on it, since its counter has 16 bits
and a device may confirm in any order; where it fails, so does `AcksExact`
(with 1 bit handles and a window of 2 TLC finds a run). In the
instance of the run `minor` the window keeps it true. The assumption is
`MinorAssumption`.

*CapiDrv.* None of the three properties is inductive: a structure is freed
when a message of its connection comes to the head of a queue, so the invariant
`DrvInv` must say of every message on its way what it will find. `Structures`
is about the card alone: a PLCI is in `plci_list` once, exactly if the channel has it,
and has no number exactly while it is OUTGOING. `Lines` is about the device
alone: in the queue of a connection at most one message begins the
call and at most one ends it, in this order, and both agree with the state of the
connection. The other parts are about both. `Owners`: the connection of a
structure is not free for another call, or its DISCONNECT_IND is on its way, the
message that began it has been handled, and the direction is the same
on both sides. `UniqueIds` and `Awaited`: a message number is in one
CONNECT_CONF at most, and the first structure of `plci_list` with that number
is the one that waits for it; an older one with the same number is behind it.
A handler is a composition of operators on two records, so the proof has a lemma for
what each operator may change (`Agree` is stated over the fields), one for each
handler, and one step for each action. `DrvInv` also holds while the device is
unregistered and silent; once the removal begins it claims nothing but that no call is
being offered at the end, and `capidrv_addcontr` begins anew. The assumption
is `DrvAssumption`: numbers exclude 0, `MaxData` is a number, and the null pointer is neither a
channel nor a PLCI or NCCI structure. `FreshIds`,
that the 16 bit counter of message numbers does not come round while a
confirmation is due, is a guard of the model.

*CapiDrv, the removal.* `capidrv_delcontr` frees from the highest channel
down, and lets messages and commands in between. `RemovalComplete` says
nothing until the end, so `RemInv` says of every section which channels are
`Passed`, and of these (`Left`): no NCCI, and no PLCI but that of an incoming
call, of which no CONNECT_CONF or CONNECT_B3_IND waits in a queue. The messages
decide whether something comes back, and they stem from before: of the queues that the
unregistered device left behind `Silent` says that none holds both a
CONNECT_IND and a CONNECT_B3_IND, so the call that a late CONNECT_IND creates
gets no connection. That rests on the order in which the device sends
while it is there (`Heralds`): it opens a connection only after its call was answered,
hence after CONNECT_IND was handled, and never after DISCONNECT_IND.
That a queue begins and ends one call at most is `DrvInv`, which holds until the
device is unregistered; so the two are proved together
(`RemovalInvariant`). Of each operator of the handlers a lemma says that it
changes one channel only (`Touch`), and how: it keeps the PLCI (`Stays`) or
creates no NCCI (`Mild`).

*CapiDrv, callbacks and data* (`CapiDrvFlowProofs`). What isdn4linux may be told next
depends on what it was told, but the code decides by the states of its PLCI
and NCCI, and those follow messages that were sent long before. So `FlowInv`
has three layers. `Lanes` is about the device: in the queue of a connection the
messages that open, use and close a B3 connection are in this order (`Ordered`) and
fit the states of the connection (`Fitting`). `Link` is about the structures: an NCCI without a
number is OUTGOING and has no block in its ackqueue, one with a number fits the
state of the B3 connection and the messages on their way (`Connection`). `Faithful` is about the
callbacks: what isdn4linux was told fits the two structures of the channel and
the messages that would make the driver tell more (`Report`). A handler is followed
through its calls by one relation between the state before and after, `Goes`: it
leaves the other channels alone, keeps `Faithful`, and tells what `Turn` allows,
which are the steps of `IsdnChannels`. So one lemma for each action gives both that the
invariant stays and that the step is one of `IsdnChannels`; the refinement is the sum.
The removal keeps `Faithful` and drops the rest, because the device is gone. `FlowInv` leans
on `DrvInv` and `RemInv`, so the three are proved together (`FlowInvariant`).
`AcksExact` comes from the same invariant: `Ledger` says of an open
NCCI how long ago each handle was given out (`Age`, modulo the numbers there are). The
ackqueue holds the last ones without a gap, the blocks at the device are the youngest of these,
and the DATA_B3_CONFs in the queue are the others, oldest first. Hence handles
that wrap around never meet, as long as the ackqueue is shorter than the numbers,
which is the bound `MaxData` on both.

What stays with TLC, and why:

- *Liveness*: `ApplCallsEnd`, `DriverCallsEnd`, `OutputDrains`, `InputDrains`,
  `HangupEnds` are beyond the prover.
- *Induction over data*: `RoundTrip` is about the recursive walks of the codec, whose
  results for every input cannot be proved. `Chain` is a recursive
  function too, but of a list whose entries are known: `ChainIsLinked` proves
  by an induction of its own, on the least wrong position, that it is that list.
- *`AcksExact` of `CapiMinor`* without its hypothesis: it is not true for all constants
  (see above). That the window keeps the hypothesis true is checked in the run `minor`,
  which checks `AcksExact` itself.

## 5 Where the code departs from its documentation

Three runs end in a violation, each of one property that quotes the repository:

- `core_release_window` (`core.c:189`): when the sysfs refuses a device,
  `unregister_capi_device` unlists it while its driver may still signal
  applications. A release in that window skips the driver's `capi_release` and
  returns although `core.c:323-325` promises that no thread is in the handler.
- `kcapi_reuse` (`kernelcapi.c:98`): the slot of a number is emptied after the
  number was given back, so that a new application with that number loses it.
- `users_detach` (`kernelcapi.c:271`): the loop of `detach_capi_interface`
  moves the head of the list, so everyone in front of the user is dropped.

Met while modelling, kept in the models as the code has them where not said
otherwise, and without a run of their own. In the capicore and its libraries:

- `core.c:131`: a device accepts messages before it is counted, so that
  `capi_isinstalled` may deny a device whose queries succeed.
- `core.c:241`: with `CAPI_MAX_APPLS` = 65535, which Kconfig permits, the u16
  counter wraps to 0 when all numbers are in use; the application is linked
  with number 0 and refused, and its owner frees it. The run `appl_list` and the theorems
  are about a counter that cannot wrap.
- `capilib.c:69`: `mq_dequeue` sets `msgidlast` to null when it removes the last of
  several; the next message is accepted but not linked, its confirmation
  is "not on queue", and its slot is lost until the NCCI ends.
- `kernelcapi.c:63`, `182`: the signal handler may be null while registered,
  which `capiappl.h:112` forbids; nothing tests it.
- `capiutil.c:484`: when a composed structure has 255 bytes or more,
  `pars_2_message` moves its bytes up by two for the longer length field but does
  not advance `l`: what follows overwrites the last two bytes, and the message says it is
  two bytes shorter than it is. `CapiMsg` builds such messages and does not
  read them back.
- `capiutil.c:416`: `jumpcstruct` begins behind the first member of a structure,
  which is harmless because in all the lists that member is not a composed one.

In `capi.c`:

- `capi.c:596`: a block refused with BUSY is dropped, although `core.c:365-370`
  calls BUSY temporary.
- `capi.c:1054`: every close of a tty whose NCCI has ended frees the minor, so
  that with two opens the second close uses freed memory.
- `capi.c:1250`: unthrottle and start use `mp->ap` of a file that may be gone.
- `capi.c:1241`: `ttyinstop` and `ttyoutstop` survive the close of a tty.
- `capi.c:643` and all of the minors: no lock on several processors.

In `capidrv.c`:

- A DISCONNECT_IND that crosses a CONNECT_B3_REQ frees the PLCI and leaves the
  NCCI in `bchans[].nccip` (`426`). Later hangups of the channel go to that NCCI and are
  lost, and `capidrv_delcontr` frees it through a `plcip` that is gone.
- Hangups are lost while the NCCI is OUTGOING, after a refused
  DISCONNECT_B3_REQ, in ST_PLCI_INCOMING outside the ICALL callback, and before
  CONNECT_CONF, where the command fails with -EINVAL (`1751`).
- The CONNECT_ACTIVE_IND of a PLCI that is disconnecting still opens a B3 connection
  (`1108`).
- `send_message` ignores a refusal (`554`): the request is lost and the state
  machine waits. Only LISTEN_REQ is repeated, by the timer of 60 seconds.
- A CONNECT_IND that comes between the freeing of a channel and the decrement of
  `nbchan` in `capidrv_delcontr` gets that channel and leaks its PLCI (`2159`, the
  FIXME), and channel numbers are taken modulo an `nbchan` that becomes 0.
- DIAL on a busy channel answers 0 as if it had dialled (`1623`).
  ACCEPTD uses the PLCI of a channel without a test (`1712`); the model accepts
  only calls that were offered.
- `free_ncci` does not free the entries of its `ackqueue` (`494`), and
  `capidrv_delcontr` reports a "bug in free_plci()" while the channels that it has not come
  to yet have their PLCIs (`2188`).
- Removing the module never runs `capidrv_delcontr`.

## 6 What is not modelled

- *capifs* and *module start*: calls into the VFS and the driver core in a
  straight line, with no state that another part reads. That the two calls of
  capifs sleep is modelled where `capi.c` makes them.
- *capidrv*: the D channel trace and `readstat`, the protocol settings of a
  channel, charge information, leased lines, /proc/capi/capidrv, and the list of
  several controllers, which do not share calls. A CONNECT_CONF with an error is
  answered to the PLCI it belongs to; message number 0 is excluded. A DIAL without
  memory, which only tells DHUP, changes nothing.
- *capiutil*: the functions that fill or answer a `_cmsg` by assignments, and those that
  print one.
- *Application queue:* `capi_unget_message`, `capi_peek_message` and the order
  of messages; `CapiCore` has the length of the queue.
- In modelled parts: the text of /proc and sysfs files, byte counts of the
  statistics, error codes beyond the kinds a caller tells apart, queries and
  ioctls that only read, the message queue of /dev/capi20 towards the user, and
  the fields of a minor that nothing reads (`msgid`, `inbytes`, `nack`).
- Contents of messages, except where they decide what happens.
- Several processors in `capi.c` and `capidrv.c`, which have no locks for them, and in
  `capidrv.c` a softirq that handles messages in the middle of a command, which can
  happen on one processor too. The properties of `CapiDrv` stand under the assumption
  that neither occurs.

## 7 Plan

Done: the registries, numbers, capilib, kernelcapi, both halves of `capi.c`,
capidrv and the codec, in this order, since everything else is an application
of the capicore; then the proofs of all of them but the codec.

What is left, in order of what it would add:

1. `ApplQueue`: get, unget, peek, enqueue, error and release of one
   application's queue, with the order of its messages.
2. A composition of `CapiCore` with `Registries`, so that release and signals
   of a client also meet the drivers.
3. `capi.c` with an interleaving of several processors, and `capidrv.c` with
   messages in the middle of commands, when they have locks.
