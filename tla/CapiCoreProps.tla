----------------------------- MODULE CapiCoreProps -----------------------------
(***************************************************************************)
(* What the capicore registries promise: to drivers, to applications and   *)
(* to their own memory management.                                         *)
(***************************************************************************)
EXTENDS CapiCore

(* A driver thread owns the initial reference until it puts it, and one    *)
(* more is on its way while register_capi_appl is between set_bit and get. *)
DriverRefs(d) == IF pc[d] = "none" THEN 0 ELSE 1

Holders(d) == {a \in Appls : \E i \in Held(a) : capi_devs_table[i] = d}

Unpaid(d) == {t \in Threads : pc[t] = "get" /\ (t = d \/ (t \in Appls /\ at[t] = d))}

(* Reference counting is exact: the counter of a device is the driver's    *)
(* reference plus one for every application that still owns the device's   *)
(* bit, minus those between set_bit and capi_device_get in                 *)
(* register_capi_appl.  A lost or doubled reference in the registration,   *)
(* release or put paths, in any interleaving, breaks it.                   *)
RefcountExact ==
  \A d \in Devs :
    refcount[d] = DriverRefs(d) + Cardinality(Holders(d)) - Cardinality(Unpaid(d))

(* Device numbers are unique ("@dev is assigned a unique device number"):  *)
(* an occupied slot belongs to an allocated device that carries its        *)
(* number, also while drivers register and applications free devices at    *)
(* the same time.                                                          *)
UniqueNumbers ==
  \A i \in Slots : LET d == capi_devs_table[i] IN
    d # NoDev => refcount[d] > 0 /\ id[d] = i

(* BUG_ON(!dev) of capi_release and capi_put_message never fires: a bit    *)
(* whose reference the application still owns leads to a device.           *)
BitsLeadToDevices ==
  \A a \in Appls, i \in Slots :
    i \in Held(a) /\ a \in capi_appls_list => capi_devs_table[i] # NoDev

(* No thread of the capicore uses a freed device: the local variable dev   *)
(* of an application thread, and every semaphore an application reads,     *)
(* belong to a device with a reference.                                    *)
NoUseAfterFree ==
  /\ \A a \in Appls : at[a] # NoDev => refcount[at[a]] > 0
  /\ \A d \in Devs, a \in Appls : a \in dev_sem[d] => refcount[d] > 0

(* capi_devs_list_sem: who is in which section of the code holds it, and a *)
(* driver that writes is alone.                                            *)
ListLocking ==
  /\ \A d \in Devs : d \in list_sem <=> pc[d] \in {"walk", "get", "open"}
  /\ \A a \in Appls :
       a \in list_sem <=>
         pc[a] \in {"walk", "in_register", "get", "loop", "in_release", "put"}
  /\ \A d \in Devs : d \in list_sem => list_sem = {d}

(* The device list and the local variables that a walk over it relies on:  *)
(* a listed device is between the two writers of its list entry and has a  *)
(* number, and a device being registered with an application stays listed. *)
ListWalks ==
  /\ \A d \in Devs :
       d \in capi_devs_list <=> pc[d] \in {"sysfs", "registered", "unlist", "fail_unlist"}
  /\ \A d \in Devs :
       pc[d] \in Operating \cup {"unlist", "quiesce", "count", "unregistered"}
         => id[d] \in Slots
  /\ \A a \in Appls :
       /\ pc[a] \in {"in_register", "get"} => at[a] \in capi_devs_list
       /\ pc[a] \in {"in_release", "put"} => cursor[a] \in Slots

InDriverOp(a, d) == at[a] = d /\ pc[a] \in {"in_register", "in_put", "in_release"}

(* The promise of capi_device_unregister to the driver (core.c:208-210):   *)
(* once it has returned, no thread is in, or enters, a call of the         *)
(* capicore to an operation of the device.                                 *)
UnregisterQuiesces ==
  \A d \in Devs, a \in Appls :
    pc[d] \in {"none", "unregistered"} => ~InDriverOp(a, d)

(* The promise of capi_release to the application (core.c:323-325): once   *)
(* it has returned, no thread is in a call to its signal handler.          *)
ReleaseQuiesces ==
  \A a \in Appls, d \in Devs :
    a \notin capi_appls_list /\ pc[a] \in {"unregistered", "bind"} => a \notin running[d]

(* An application and a device meet at most once: bind_capi_device and     *)
(* bind_capi_appl, started together, never call the driver's capi_register *)
(* twice for one registration.                                             *)
OfferedOnce ==
  [][\A d \in Devs, a \in Appls :
       register_next_appl(d) \/ register_next_device(a)
         => offered' # offered]_vars

(* And they do not miss each other: whenever a listed device and a         *)
(* registered application are both out of their registration calls, the    *)
(* driver was asked about the application, and the application's bit tells *)
(* the driver's answer.                                                    *)
BindingComplete ==
  \A d \in capi_devs_list, a \in capi_appls_list :
    pc[a] \in {"idle", "trylock", "in_put", "in_query", "release"} =>
      /\ a \in offered[d]
      /\ (id[d] \in Held(a)) <=> (a \in known[d])

(* The application list does not change under the walk of                  *)
(* bind_capi_device, which holds capi_devs_list_sem but never              *)
(* capi_appls_list_sem; nor does the device list change while an           *)
(* application walks it, or tests in capi_release whether a device is in.  *)
ListsKept ==
  /\ (\E d \in Devs : pc[d] \in {"walk", "get"}) => capi_appls_list' = capi_appls_list
  /\ (\E a \in Appls : pc[a] \in {"in_register", "get", "loop", "in_release", "put"})
       => capi_devs_list' = capi_devs_list
ListsStableUnderWalks == [][ListsKept]_vars

(* Calls end: an application that has called capi_register or capi_release *)
(* returns from it, whatever devices come and go and however often their   *)
(* interrupts signal.                                                      *)
ApplCallsEnd ==
  \A a \in Appls :
    pc[a] \in ApplPC \ {"unregistered", "idle"} ~> pc[a] \in {"unregistered", "idle"}

(* A driver's capi_device_register and capi_device_unregister return,      *)
(* whatever applications come, go and send.                                *)
DriverCallsEnd ==
  \A d \in Devs :
    pc[d] \in DevPC \ {"none", "allocated", "registered", "failed", "unregistered"}
      ~> pc[d] \in {"registered", "failed", "unregistered"}
===============================================================================
