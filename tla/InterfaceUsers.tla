---------------------------- MODULE InterfaceUsers ----------------------------
(***************************************************************************)
(* The users of the kernelcapi (kernelcapi.c:244-315): a singly linked     *)
(* list that users enter and leave, and that is walked when the device     *)
(* driver core reports a device.  The device driver core makes one report  *)
(* at a time.  A writer of kernelcapi_iface_list_sem does its work in one  *)
(* step, since nobody can see the middle of it; so all that is left of the *)
(* semaphore is that it is read-locked while a report walks the list.      *)
(***************************************************************************)
EXTENDS Lists

CONSTANTS
  Users,    \* struct capi_interface_user of the modules that may attach
  Silent,   \* users without a callback, which attach does not link
  Null

VARIABLES
  kernelcapi_iface_list,   \* head of the list, a user or Null
  next,                    \* iface->next of every user
  attached,                \* users between attach and detach
  report,                  \* state of the report: "idle", "lock", "walk"
  i                        \* its local variable i

vars == <<kernelcapi_iface_list, next, attached, report, i>>

Init ==
  /\ kernelcapi_iface_list = Null
  /\ next = [u \in Users |-> Null]
  /\ attached = {}
  /\ report = "idle" /\ i = Null

(* Users on the list from u on. *)
From(u) == ToSet(Chain(next, u, Null, Cardinality(Users)))

Listed == From(kernelcapi_iface_list)

-------------------------------------------------------------------------------
(* Definitions with the suffix _mutant are never part of the specification *)
(* as it stands: each is a bug that could be in the definition it is named *)
(* after, and makes a run fail when it is put in that definition's place.  *)

CanWrite_mutant == TRUE
CanWrite == report # "walk"

attach_capi_interface(u) ==
  /\ u \notin attached
  /\ attached' = attached \cup {u}
  /\ \/ u \in Silent /\ UNCHANGED <<kernelcapi_iface_list, next>>
     \/ /\ u \notin Silent /\ CanWrite
        /\ next' = [next EXCEPT ![u] = kernelcapi_iface_list]
        /\ kernelcapi_iface_list' = u
  /\ UNCHANGED <<report, i>>

(* The loop moves the head of the list itself over every entry that is not *)
(* the one it looks for.                                                   *)
NewHead_mutant(u) == kernelcapi_iface_list
NewHead(u) == IF u \in Listed THEN next[u] ELSE Null

detach_capi_interface(u) ==
  /\ u \in attached /\ CanWrite
  /\ attached' = attached \ {u}
  /\ kernelcapi_iface_list' = NewHead(u)
  /\ UNCHANGED <<next, report, i>>

(* kernelcapi_devadd and kernelcapi_devremove differ only in the command   *)
(* they pass.  The head is read before the semaphore is taken.             *)
kernelcapi_report ==
  /\ report = "idle" /\ report' = "lock"
  /\ i' = kernelcapi_iface_list
  /\ UNCHANGED <<kernelcapi_iface_list, next, attached>>

kernelcapi_report_lock ==
  /\ report = "lock" /\ report' = "walk"
  /\ UNCHANGED <<kernelcapi_iface_list, next, attached, i>>

kernelcapi_report_callback ==
  /\ report = "walk" /\ i # Null
  /\ i' = next[i]
  /\ UNCHANGED <<kernelcapi_iface_list, next, attached, report>>

kernelcapi_report_done ==
  /\ report = "walk" /\ i = Null /\ report' = "idle"
  /\ UNCHANGED <<kernelcapi_iface_list, next, attached, i>>

ReportGoesOn ==
  kernelcapi_report_lock \/ kernelcapi_report_callback \/ kernelcapi_report_done

Next ==
  \/ \E u \in Users : attach_capi_interface(u) \/ detach_capi_interface(u)
  \/ kernelcapi_report \/ ReportGoesOn

Spec == Init /\ [][Next]_vars

(* Callbacks return and a reader of the semaphore gets it.                 *)
FairSpec == Spec /\ WF_vars(ReportGoesOn)

-------------------------------------------------------------------------------
(* Properties *)

(* A detached user, whose module may be unloaded, is never left on the     *)
(* list, and the list has no cycle.                                        *)
ListedAreAttached ==
  /\ Listed \subseteq attached \ Silent
  /\ \A u \in Listed : u \notin From(next[u])

(* A report ends, whatever users do while it waits for the semaphore.      *)
ReportsEnd == report # "idle" ~> report = "idle"

(* Users "get informed when CAPI devices are being registered and removed" *)
(* (ngc.tmpl): a user with a callback is on the list from attach to        *)
(* detach.                                                                 *)
AttachedAreListed == attached \ Silent \subseteq Listed
===============================================================================
