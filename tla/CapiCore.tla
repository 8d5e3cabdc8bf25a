------------------------------- MODULE CapiCore -------------------------------
(***************************************************************************)
(* The registries of the capicore (drivers/isdn/capi/core.c): device       *)
(* table, device list, application list, reference counters and the two    *)
(* kinds of reader/writer semaphore, with the calls that use them.         *)
(*                                                                         *)
(* Every device has a driver thread, which allocates, registers,           *)
(* unregisters and puts it.  Every application has a thread, which         *)
(* registers, sends, receives, queries and releases; that it is one thread *)
(* discharges the obligation of core.c:318-321.  The interrupt side of the *)
(* driver (the capi_appl_* calls of capidevice.h) runs beside both.        *)
(*                                                                         *)
(* Application numbers are abstracted to membership and capacity; module   *)
(* ApplList models the list walk that hands them out.                      *)
(***************************************************************************)
EXTENDS Integers, FiniteSets, Sequences

CONSTANTS
  Devs,          \* device control structures (addresses kmalloc may return)
  Appls,         \* application control structures
  NoDev,         \* the null pointer
  MaxDevs,       \* CAPI_MAX_DEVS, the size of capi_devs_table
  MaxAppls,      \* CAPI_MAX_APPLS
  MaxQueue,      \* bound on the modelled length of a message queue
  SysfsMayFail   \* whether capi_device_register_sysfs may report an error

ASSUME ThreadsAssumption == /\ IsFiniteSet(Devs) /\ NoDev \notin Devs
                            /\ IsFiniteSet(Appls) /\ Devs \cap Appls = {}
ASSUME SizesAssumption == MaxDevs \in Nat /\ MaxAppls \in Nat /\ MaxQueue \in Nat
ASSUME SysfsAssumption == SysfsMayFail \in BOOLEAN

Slots == 1 .. MaxDevs
Threads == Devs \cup Appls     \* a driver thread is named by its device

VARIABLES
  capi_devs_table,   \* slot -> device or NoDev
  capi_devs_list,    \* devices linked into the device list
  nr_capi_devs,
  id,                \* dev->id, 0 outside the table
  refcount,          \* of dev->class_dev; 0 when the device is freed
  capi_appls_list,   \* registered applications
  list_sem,          \* holders of capi_devs_list_sem: a driver thread writes,
                     \* an application thread reads
  list_queue,        \* threads waiting for it, in order of arrival
  dev_sem,           \* holders of dev->sem: its driver writes, applications read
  devs,              \* appl->devs, the set bits
  info,              \* whether appl->info holds an error
  msg_queue,         \* number of messages in appl->msg_queue
  offered,           \* history: registered applications that the driver's
                     \* capi_register was called with
  known,             \* driver: applications it accepted and may signal
  running,           \* driver: applications it is signalling right now
  pc,                \* where a thread is
  walked,            \* entries that a thread's list walk has passed
  at,                \* application thread: its local variable dev
  cursor             \* application thread: its local variable i in capi_release

registry == <<capi_devs_table, capi_devs_list, nr_capi_devs, id, refcount,
              capi_appls_list>>
lists    == <<list_sem, list_queue>>
sems     == <<lists, dev_sem>>
appl     == <<devs, info, msg_queue>>
driver   == <<offered, known, running>>
locals   == <<walked, at, cursor>>
vars     == <<registry, sems, appl, driver, pc, locals>>

DevPC == {"none", "allocated", "bind", "walk", "get", "open", "sysfs",
          "registered", "fail_unlist", "fail_quiesce", "fail_count", "failed",
          "unlist", "quiesce", "count", "unregistered"}
ApplPC == {"unregistered", "bind", "walk", "in_register", "get", "idle",
           "trylock", "in_put", "in_query", "release", "loop", "in_release", "put"}

(* From its first capi_register callback until it calls                    *)
(* capi_device_unregister, or until capi_device_register fails, a driver   *)
(* may signal applications.                                                *)
Operating == {"walk", "get", "open", "sysfs", "registered", "fail_unlist",
              "fail_quiesce", "fail_count"}

(* Bits whose device reference the application still owns: capi_release    *)
(* clears no bit, it moves i past it.                                      *)
Held(a) == {i \in devs[a] : i >= cursor[a]}

TypeOK ==
  /\ capi_devs_table \in [Slots -> Devs \cup {NoDev}]
  /\ capi_devs_list \in SUBSET Devs
  /\ nr_capi_devs \in Int
  /\ id \in [Devs -> 0 .. MaxDevs]
  /\ refcount \in [Devs -> Int]
  /\ capi_appls_list \in SUBSET Appls
  /\ list_sem \in SUBSET Threads
  /\ list_queue \in Seq(Threads)
  /\ dev_sem \in [Devs -> SUBSET Threads]
  /\ devs \in [Appls -> SUBSET Slots]
  /\ info \in [Appls -> BOOLEAN]
  /\ msg_queue \in [Appls -> 0 .. MaxQueue]
  /\ offered \in [Devs -> SUBSET Appls]
  /\ known \in [Devs -> SUBSET Appls]
  /\ running \in [Devs -> SUBSET Appls]
  /\ pc \in [Threads -> DevPC \cup ApplPC]
  /\ \A d \in Devs : pc[d] \in DevPC
  /\ \A a \in Appls : pc[a] \in ApplPC
  /\ walked \in [Threads -> SUBSET Threads]
  /\ at \in [Appls -> Devs \cup {NoDev}]
  /\ cursor \in [Appls -> 1 .. MaxDevs + 1]

Init ==
  /\ capi_devs_table = [i \in Slots |-> NoDev]
  /\ capi_devs_list = {}
  /\ nr_capi_devs = 0
  /\ id = [d \in Devs |-> 0]
  /\ refcount = [d \in Devs |-> 0]
  /\ capi_appls_list = {}
  /\ list_sem = {}
  /\ list_queue = <<>>
  /\ dev_sem = [d \in Devs |-> {}]
  /\ devs = [a \in Appls |-> {}]
  /\ info = [a \in Appls |-> FALSE]
  /\ msg_queue = [a \in Appls |-> 0]
  /\ offered = [d \in Devs |-> {}]
  /\ known = [d \in Devs |-> {}]
  /\ running = [d \in Devs |-> {}]
  /\ pc = [t \in Threads |-> IF t \in Devs THEN "none" ELSE "unregistered"]
  /\ walked = [t \in Threads |-> {}]
  /\ at = [a \in Appls |-> NoDev]
  /\ cursor = [a \in Appls |-> MaxDevs + 1]

-------------------------------------------------------------------------------
(* Shared operations *)

Goto(t, from, to) == pc[t] = from /\ pc' = [pc EXCEPT ![t] = to]

(* Definitions with the suffix _mutant are never part of the specification *)
(* as it stands: each is a bug that could be in the definition it is named *)
(* after, and makes a run fail when it is put in that definition's place.  *)

(* capi_devs_list_sem serves its waiters in order of arrival, as the       *)
(* kernel's rw_semaphores do.                                              *)
WaitForList(t) == list_queue' = Append(list_queue, t)
ListTurn(t) == list_queue # <<>> /\ Head(list_queue) = t
CanReadList_mutant(t) == ListTurn(t)
CanReadList(t) == ListTurn(t) /\ list_sem \cap Devs = {}
CanWriteList_mutant(t) == ListTurn(t)
CanWriteList(t) == ListTurn(t) /\ list_sem = {}
LockList(t) == list_sem' = list_sem \cup {t} /\ list_queue' = Tail(list_queue)
PassList == list_queue' = Tail(list_queue) /\ UNCHANGED list_sem
UnlockList_mutant(t) == UNCHANGED lists
UnlockList(t) == list_sem' = list_sem \ {t} /\ UNCHANGED list_queue

(* Only a driver waits for its dev->sem; while it does, a trylock fails.   *)
CanReadDev(d) == d \notin dev_sem[d] /\ pc[d] \notin {"quiesce", "fail_quiesce"}
CanWriteDev_mutant(d) == TRUE
CanWriteDev(d) == dev_sem[d] = {}
LockDev(t, d) == dev_sem' = [dev_sem EXCEPT ![d] = @ \cup {t}]
UnlockDev_mutant(t, d) == UNCHANGED dev_sem
UnlockDev(t, d) == dev_sem' = [dev_sem EXCEPT ![d] = @ \ {t}]

capi_device_get_mutant(d) == UNCHANGED refcount
capi_device_get(d) == refcount' = [refcount EXCEPT ![d] = @ + 1]

capi_device_put_mutant(d) ==
  /\ refcount' = [refcount EXCEPT ![d] = @ - 1]
  /\ UNCHANGED capi_devs_table

(* The last put runs free_capi_device, which clears the table slot.        *)
capi_device_put(d) ==
  /\ refcount' = [refcount EXCEPT ![d] = @ - 1]
  /\ capi_devs_table' =
       [i \in Slots |-> IF refcount[d] = 1 /\ i = id[d] THEN NoDev
                                                        ELSE capi_devs_table[i]]

-------------------------------------------------------------------------------
(* Driver thread: capi_device_alloc, capi_device_register *)

(* kmalloc returns memory nobody owns; it is zeroed and has one reference. *)
capi_device_alloc(d) ==
  /\ refcount[d] = 0
  /\ Goto(d, "none", "allocated")
  /\ refcount' = [refcount EXCEPT ![d] = 1]
  /\ id' = [id EXCEPT ![d] = 0]
  /\ UNCHANGED <<capi_devs_table, capi_devs_list, nr_capi_devs, capi_appls_list,
                 sems, appl, driver, locals>>

(* init_rwsem and down_write of dev->sem; then the driver waits for the    *)
(* device list.                                                            *)
capi_device_register(d) ==
  /\ Goto(d, "allocated", "bind")
  /\ dev_sem' = [dev_sem EXCEPT ![d] = {d}]
  /\ WaitForList(d)
  /\ UNCHANGED <<registry, list_sem, appl, driver, locals>>

add_capi_device_mutant ==
  LET free == {i \in Slots : capi_devs_table[i] = NoDev}
  IN  IF free = {} THEN MaxDevs + 1
                   ELSE CHOOSE i \in free : \A j \in free : i <= j

(* The first free slot, or 0. *)
add_capi_device ==
  LET free == {i \in Slots : capi_devs_table[i] = NoDev}
  IN  IF free = {} THEN 0 ELSE CHOOSE i \in free : \A j \in free : i <= j

(* bind_capi_device up to the walk; without a free slot the semaphore is   *)
(* given back and capi_device_register answers -EMFILE.                    *)
bind_capi_device(d) ==
  /\ CanWriteList(d)
  /\ id' = [id EXCEPT ![d] = add_capi_device]
  /\ \/ /\ add_capi_device # 0
        /\ Goto(d, "bind", "walk")
        /\ capi_devs_table' = [capi_devs_table EXCEPT ![add_capi_device] = d]
        /\ LockList(d)
     \/ /\ add_capi_device = 0
        /\ Goto(d, "bind", "failed")
        /\ PassList
        /\ UNCHANGED capi_devs_table
  /\ UNCHANGED <<capi_devs_list, nr_capi_devs, refcount, capi_appls_list,
                 dev_sem, appl, driver, locals>>

(* register_capi_appl for the next entry of capi_appls_list: the driver's  *)
(* callback accepts the application, and its bit is set, or refuses it.    *)
register_next_appl(d) ==
  /\ \E a \in capi_appls_list \ walked[d] :
       /\ walked' = [walked EXCEPT ![d] = @ \cup {a}]
       /\ offered' = [offered EXCEPT ![d] = @ \cup {a}]
       /\ \/ /\ Goto(d, "walk", "get")
             /\ known' = [known EXCEPT ![d] = @ \cup {a}]
             /\ devs' = [devs EXCEPT ![a] = @ \cup {id[d]}]
          \/ Goto(d, "walk", "walk") /\ UNCHANGED <<known, devs>>
  /\ UNCHANGED <<registry, sems, info, msg_queue, running, at, cursor>>

register_next_appl_get(d) ==
  /\ Goto(d, "get", "walk")
  /\ capi_device_get(d)
  /\ UNCHANGED <<capi_devs_table, capi_devs_list, nr_capi_devs, id,
                 capi_appls_list, sems, appl, driver, locals>>

(* At the end of the walk, up_write(&dev->sem): messages are accepted.     *)
bind_capi_device_open(d) ==
  /\ capi_appls_list \subseteq walked[d]
  /\ Goto(d, "walk", "open")
  /\ walked' = [walked EXCEPT ![d] = {}]
  /\ UnlockDev(d, d)
  /\ UNCHANGED <<registry, lists, appl, driver, at, cursor>>

(* The count and the list entry, the latter protected by the semaphore.    *)
bind_capi_device_done(d) ==
  /\ Goto(d, "open", "sysfs")
  /\ nr_capi_devs' = nr_capi_devs + 1
  /\ capi_devs_list' = capi_devs_list \cup {d}
  /\ UnlockList(d)
  /\ UNCHANGED <<capi_devs_table, id, refcount, capi_appls_list, dev_sem, appl,
                 driver, locals>>

(* An error of the sysfs makes capi_device_register undo the binding.      *)
capi_device_register_sysfs(d) ==
  /\ \/ Goto(d, "sysfs", "registered") /\ UNCHANGED list_queue
     \/ /\ SysfsMayFail
        /\ Goto(d, "sysfs", "fail_unlist")
        /\ WaitForList(d)
  /\ UNCHANGED <<registry, list_sem, dev_sem, appl, driver, locals>>

-------------------------------------------------------------------------------
(* Driver thread: capi_device_unregister, capi_device_put *)

(* A driver calls capi_device_unregister only when none of its threads is, *)
(* or will be, in a capi_appl_* call.                                      *)
capi_device_unregister(d) ==
  /\ running[d] = {}
  /\ Goto(d, "registered", "unlist")
  /\ WaitForList(d)
  /\ UNCHANGED <<registry, list_sem, dev_sem, appl, driver, locals>>

(* unregister_capi_device: list_del_init in a write-locked section, whose  *)
(* middle no other thread can see; then the driver waits for dev->sem.     *)
unregister_capi_device(d) ==
  /\ CanWriteList(d)
  /\ PassList
  /\ Goto(d, "unlist", "quiesce") \/ Goto(d, "fail_unlist", "fail_quiesce")
  /\ capi_devs_list' = capi_devs_list \ {d}
  /\ UNCHANGED <<capi_devs_table, nr_capi_devs, id, refcount, capi_appls_list,
                 dev_sem, appl, driver, locals>>

(* down_write(&dev->sem), never released again. *)
unregister_capi_device_quiesce(d) ==
  /\ CanWriteDev(d)
  /\ Goto(d, "quiesce", "count") \/ Goto(d, "fail_quiesce", "fail_count")
  /\ LockDev(d, d)
  /\ UNCHANGED <<registry, lists, appl, driver, locals>>

(* atomic_dec, then the driver's call returns. *)
unregister_capi_device_count(d) ==
  /\ Goto(d, "count", "unregistered") \/ Goto(d, "fail_count", "failed")
  /\ nr_capi_devs' = nr_capi_devs - 1
  /\ UNCHANGED <<capi_devs_table, capi_devs_list, id, refcount, capi_appls_list,
                 sems, appl, driver, locals>>

(* The driver drops its own reference, its threads being done. *)
driver_put(d) ==
  /\ running[d] = {}
  /\ \E from \in {"allocated", "failed", "unregistered"} : Goto(d, from, "none")
  /\ capi_device_put(d)
  /\ offered' = [offered EXCEPT ![d] = {}]
  /\ known' = [known EXCEPT ![d] = {}]
  /\ UNCHANGED <<capi_devs_list, nr_capi_devs, id, capi_appls_list, sems, appl,
                 running, locals>>

-------------------------------------------------------------------------------
(* Application thread: capi_register *)

(* The refusal of a block size below 128 touches nothing and is left out.  *)
capi_register(a) ==
  /\ Goto(a, "unregistered", "bind")
  /\ msg_queue' = [msg_queue EXCEPT ![a] = 0]
  /\ info' = [info EXCEPT ![a] = FALSE]
  /\ devs' = [devs EXCEPT ![a] = {}]
  /\ cursor' = [cursor EXCEPT ![a] = 1]
  /\ WaitForList(a)
  /\ UNCHANGED <<registry, list_sem, dev_sem, driver, walked, at>>

(* bind_capi_appl and add_capi_appl; without a free number the semaphore   *)
(* is given back and capi_register answers CAPINFO_0X10_TOOMANYAPPLS.      *)
bind_capi_appl(a) ==
  /\ CanReadList(a)
  /\ \/ /\ Cardinality(capi_appls_list) < MaxAppls
        /\ Goto(a, "bind", "walk")
        /\ capi_appls_list' = capi_appls_list \cup {a}
        /\ LockList(a)
     \/ /\ Cardinality(capi_appls_list) >= MaxAppls
        /\ Goto(a, "bind", "unregistered")
        /\ PassList
        /\ UNCHANGED capi_appls_list
  /\ UNCHANGED <<capi_devs_table, capi_devs_list, nr_capi_devs, id, refcount,
                 dev_sem, appl, driver, locals>>

(* register_capi_appl for the next entry of capi_devs_list: the driver's   *)
(* callback is entered ...                                                 *)
register_next_device(a) ==
  /\ Goto(a, "walk", "in_register")
  /\ \E d \in capi_devs_list \ walked[a] :
       /\ walked' = [walked EXCEPT ![a] = @ \cup {d}]
       /\ at' = [at EXCEPT ![a] = d]
       /\ offered' = [offered EXCEPT ![d] = @ \cup {a}]
  /\ UNCHANGED <<registry, sems, appl, known, running, cursor>>

(* ... and accepts the application, whose bit is set, or refuses it.       *)
register_next_device_return(a) ==
  /\ \/ /\ Goto(a, "in_register", "get")
        /\ known' = [known EXCEPT ![at[a]] = @ \cup {a}]
        /\ devs' = [devs EXCEPT ![a] = @ \cup {id[at[a]]}]
     \/ Goto(a, "in_register", "walk") /\ UNCHANGED <<known, devs>>
  /\ UNCHANGED <<registry, sems, info, msg_queue, offered, running, locals>>

register_next_device_get(a) ==
  /\ Goto(a, "get", "walk")
  /\ capi_device_get(at[a])
  /\ UNCHANGED <<capi_devs_table, capi_devs_list, nr_capi_devs, id,
                 capi_appls_list, sems, appl, driver, locals>>

bind_capi_appl_done(a) ==
  /\ capi_devs_list \subseteq walked[a]
  /\ Goto(a, "walk", "idle")
  /\ walked' = [walked EXCEPT ![a] = {}]
  /\ at' = [at EXCEPT ![a] = NoDev]
  /\ UnlockList(a)
  /\ UNCHANGED <<registry, dev_sem, appl, driver, cursor>>

-------------------------------------------------------------------------------
(* Application thread: messages and queries *)

(* capi_put_message: the checks and the unlocked table access.  A message  *)
(* refused by a check changes nothing and is left out.                     *)
capi_put_message(a) ==
  /\ ~info[a]
  /\ Goto(a, "idle", "trylock")
  /\ \E i \in devs[a] : at' = [at EXCEPT ![a] = capi_devs_table[i]]
  /\ UNCHANGED <<registry, sems, appl, driver, walked, cursor>>

capi_put_message_trylock(a) ==
  /\ \/ /\ Goto(a, "trylock", "in_put")
        /\ CanReadDev(at[a])
        /\ LockDev(a, at[a])
        /\ UNCHANGED at
     \/ /\ Goto(a, "trylock", "idle")
        /\ ~CanReadDev(at[a])
        /\ at' = [at EXCEPT ![a] = NoDev]
        /\ UNCHANGED dev_sem
  /\ UNCHANGED <<registry, lists, appl, driver, walked, cursor>>

(* The driver's capi_put_message returns, then up_read. *)
capi_put_message_return(a) ==
  /\ Goto(a, "in_put", "idle")
  /\ UnlockDev(a, at[a])
  /\ at' = [at EXCEPT ![a] = NoDev]
  /\ UNCHANGED <<registry, lists, appl, driver, walked, cursor>>

capi_get_message(a) ==
  /\ ~info[a] /\ msg_queue[a] > 0
  /\ Goto(a, "idle", "idle")
  /\ msg_queue' = [msg_queue EXCEPT ![a] = @ - 1]
  /\ UNCHANGED <<registry, sems, devs, info, driver, locals>>

(* try_get_capi_device_by_id of the capi_get_* queries: table access and   *)
(* trylock are one section under capi_devs_table_lock, which               *)
(* free_capi_device takes as well.                                         *)
try_get_capi_device_by_id(a) ==
  /\ Goto(a, "unregistered", "in_query") \/ Goto(a, "idle", "in_query")
  /\ \E i \in Slots :
       LET d == capi_devs_table[i] IN
       /\ d # NoDev /\ CanReadDev(d)
       /\ LockDev(a, d)
       /\ at' = [at EXCEPT ![a] = d]
  /\ UNCHANGED <<registry, lists, appl, driver, walked, cursor>>

(* The field is copied, for capi_get_profile with nr_capi_devs; up_read.   *)
capi_get_profile(a) ==
  /\ \/ a \in capi_appls_list /\ Goto(a, "in_query", "idle")
     \/ a \notin capi_appls_list /\ Goto(a, "in_query", "unregistered")
  /\ UnlockDev(a, at[a])
  /\ at' = [at EXCEPT ![a] = NoDev]
  /\ UNCHANGED <<registry, lists, appl, driver, walked, cursor>>

-------------------------------------------------------------------------------
(* Application thread: capi_release *)

capi_release(a) ==
  /\ Goto(a, "idle", "release")
  /\ WaitForList(a)
  /\ UNCHANGED <<registry, list_sem, dev_sem, appl, driver, locals>>

capi_release_lock(a) ==
  /\ CanReadList(a)
  /\ Goto(a, "release", "loop")
  /\ LockList(a)
  /\ UNCHANGED <<registry, dev_sem, appl, driver, locals>>

capi_device_listed_mutant(d) == d \notin capi_devs_list
capi_device_listed(d) == d \in capi_devs_list

(* find_next_bit, the table access, and the test for a listed device. *)
capi_release_next(a) ==
  /\ Held(a) # {}
  /\ LET i == CHOOSE i \in Held(a) : \A j \in Held(a) : i <= j
         d == capi_devs_table[i]
     IN  /\ cursor' = [cursor EXCEPT ![a] = i]
         /\ at' = [at EXCEPT ![a] = d]
         /\ \/ capi_device_listed(d) /\ Goto(a, "loop", "in_release")
            \/ ~capi_device_listed(d) /\ Goto(a, "loop", "put")
  /\ UNCHANGED <<registry, sems, appl, driver, walked>>

(* The driver forgets the application ... *)
driver_release(a) ==
  /\ Goto(a, "in_release", "in_release")
  /\ a \in known[at[a]]
  /\ known' = [known EXCEPT ![at[a]] = @ \ {a}]
  /\ UNCHANGED <<registry, sems, appl, offered, running, locals>>

(* ... and returns from the callback once it no longer signals it. *)
driver_release_return(a) ==
  /\ Goto(a, "in_release", "put")
  /\ a \notin known[at[a]] \cup running[at[a]]
  /\ UNCHANGED <<registry, sems, appl, driver, locals>>

capi_release_put(a) ==
  /\ Goto(a, "put", "loop")
  /\ capi_device_put(at[a])
  /\ cursor' = [cursor EXCEPT ![a] = @ + 1]
  /\ at' = [at EXCEPT ![a] = NoDev]
  /\ UNCHANGED <<capi_devs_list, nr_capi_devs, id, capi_appls_list, sems, appl,
                 driver, walked>>

(* list_del under capi_appls_list_sem, skb_queue_purge, up_read. *)
capi_release_done(a) ==
  /\ Held(a) = {}
  /\ Goto(a, "loop", "unregistered")
  /\ capi_appls_list' = capi_appls_list \ {a}
  /\ msg_queue' = [msg_queue EXCEPT ![a] = 0]
  /\ cursor' = [cursor EXCEPT ![a] = MaxDevs + 1]
  /\ UnlockList(a)
  /\ offered' = [d \in Devs |-> offered[d] \ {a}]
  /\ UNCHANGED <<capi_devs_table, capi_devs_list, nr_capi_devs, id, refcount,
                 dev_sem, devs, info, known, running, walked, at>>

-------------------------------------------------------------------------------
(* Interrupt side of the driver *)

(* A thread of the driver enters a capi_appl_* call for an application the *)
(* driver has accepted.                                                    *)
enter_appl(d, a) ==
  /\ pc[d] \in Operating /\ a \in known[d] \ running[d]
  /\ running' = [running EXCEPT ![d] = @ \cup {a}]
  /\ UNCHANGED <<registry, sems, appl, offered, known, pc, locals>>

leave_appl(d, a) ==
  /\ a \in running[d]
  /\ running' = [running EXCEPT ![d] = @ \ {a}]
  /\ UNCHANGED <<registry, sems, devs, offered, known, pc, locals>>

capi_appl_enqueue_message(d, a) ==
  /\ msg_queue[a] < MaxQueue
  /\ msg_queue' = [msg_queue EXCEPT ![a] = @ + 1]
  /\ leave_appl(d, a) /\ UNCHANGED info

capi_appl_signal(d, a) == leave_appl(d, a) /\ UNCHANGED <<info, msg_queue>>

capi_appl_signal_error(d, a) ==
  /\ info' = [info EXCEPT ![a] = TRUE]
  /\ leave_appl(d, a) /\ UNCHANGED msg_queue

-------------------------------------------------------------------------------
(* Specification *)

(* What a thread does inside a call of the capicore, and how it begins one *)
(* or otherwise acts on its own account.                                   *)
DriverGoesOn(d) ==
  \/ bind_capi_device(d) \/ register_next_appl(d) \/ register_next_appl_get(d)
  \/ bind_capi_device_open(d) \/ bind_capi_device_done(d)
  \/ capi_device_register_sysfs(d) \/ unregister_capi_device(d)
  \/ unregister_capi_device_quiesce(d) \/ unregister_capi_device_count(d)

DriverBegins(d) ==
  \/ capi_device_alloc(d) \/ capi_device_register(d) \/ capi_device_unregister(d)
  \/ driver_put(d)

ApplGoesOn(a) ==
  \/ bind_capi_appl(a) \/ register_next_device(a)
  \/ register_next_device_return(a) \/ register_next_device_get(a)
  \/ bind_capi_appl_done(a) \/ capi_put_message_trylock(a)
  \/ capi_put_message_return(a) \/ capi_get_profile(a) \/ capi_release_lock(a)
  \/ capi_release_next(a) \/ driver_release(a) \/ driver_release_return(a)
  \/ capi_release_put(a) \/ capi_release_done(a)

ApplBegins(a) ==
  \/ capi_register(a) \/ capi_put_message(a) \/ capi_get_message(a)
  \/ try_get_capi_device_by_id(a) \/ capi_release(a)

capi_appl_call(d, a) ==
  \/ capi_appl_enqueue_message(d, a) \/ capi_appl_signal(d, a)
  \/ capi_appl_signal_error(d, a)

Next ==
  \/ \E d \in Devs : DriverGoesOn(d) \/ DriverBegins(d)
  \/ \E a \in Appls : ApplGoesOn(a) \/ ApplBegins(a)
  \/ \E d \in Devs, a \in Appls : enter_appl(d, a) \/ capi_appl_call(d, a)

Spec == Init /\ [][Next]_vars

(* A thread inside a capicore call goes on, and so does a driver callback  *)
(* ("mustn't be slow, i.e., blocking indefinitely", capidevice.h:67-69).   *)
(* Nothing makes a driver or an application begin a call.                  *)
Fairness ==
  /\ \A d \in Devs : WF_vars(DriverGoesOn(d))
  /\ \A a \in Appls : WF_vars(ApplGoesOn(a))
  /\ \A d \in Devs, a \in Appls : WF_vars(capi_appl_call(d, a))

FairSpec == Spec /\ Fairness
===============================================================================
