------------------------------ MODULE Registries ------------------------------
(***************************************************************************)
(* The registries together: the clients of the kernelcapi are the          *)
(* applications of the capicore, so that the numbers that lead to their    *)
(* structures are those of the walk of add_capi_appl, and /proc/capi is    *)
(* read meanwhile; beside it the users of the kernelcapi come and go.      *)
(***************************************************************************)
EXTENDS ApplList, FiniteSets

CONSTANTS Users, Silent   \* as in InterfaceUsers

ASSUME UsersAssumption == IsFiniteSet(Users) /\ Null \notin Users

VARIABLES
  kernelcapi_appls, sig, pc, applid, ap,                   \* of KernelCapi
  kernelcapi_iface_list, next, attached, report, entry     \* of InterfaceUsers

tableVars == <<kernelcapi_appls, sig, pc, applid, ap>>
ifaceVars == <<kernelcapi_iface_list, next, attached, report, entry>>

(* appl->id of the applications that are on the list. *)
number == [a \in Appls |-> IF a \in registered THEN id[a] ELSE 0]

Kernel == INSTANCE KernelCapi WITH Clients <- Appls, id <- number, a <- ap
Iface == INSTANCE InterfaceUsers WITH i <- entry

JointInit == Init /\ Kernel!Init /\ Iface!Init

-------------------------------------------------------------------------------
(* capi_register is called with the structure that was just allocated.  If *)
(* it fails, the structure is freed and nothing else has changed.          *)
kernelcapi_register(c) ==
  /\ pc[c] = "none"
  /\ capi_register(c)
  /\ IF c \in registered' THEN Kernel!Allocated(c) ELSE UNCHANGED tableVars

(* capi_release is called with the structure that the slot leads to.       *)
kernelcapi_release(c) == Kernel!Released(c) /\ capi_release(Kernel!Lookup(c))

(* The other steps of a client do not come near the list. *)
ClientStep(c) ==
  \/ kernelcapi_register(c) \/ kernelcapi_release(c)
  \/ /\ UNCHANGED vars
     /\ \/ Kernel!kernelcapi_register_store(c) \/ Kernel!kernelcapi_fault(c)
        \/ Kernel!kernelcapi_set_signal(c) \/ Kernel!kernelcapi_release_clear(c)

ReaderStep(r) ==
  (appl_start(r) \/ appl_next(r) \/ appl_stop(r)) /\ UNCHANGED tableVars

JointNext ==
  \/ /\ (\E c \in Appls : ClientStep(c)) \/ (\E r \in Readers : ReaderStep(r))
     /\ UNCHANGED ifaceVars
  \/ Iface!Next /\ UNCHANGED <<vars, tableVars>>

JointSpec == JointInit /\ [][JointNext]_<<vars, tableVars, ifaceVars>>

-------------------------------------------------------------------------------
(* Properties *)

(* No slot leads to a freed structure: calls never use one, also when      *)
(* clients come and go at the same time (kernelcapi_release).              *)
NoDanglingSlot == Kernel!NoDanglingSlot

(* Slots lead to the client that was given the number, never to another,   *)
(* since add_capi_appl gives no number twice (kernelcapi_register).        *)
NoForeignSlot == Kernel!NoForeignSlot

(* The walk of the list is the allocation that KernelCapi supposes: the    *)
(* least number that no client has.                                        *)
TableImplemented == Kernel!Spec

(* A detached user is never left on the list of the reports, and the list  *)
(* has no cycle (detach_capi_interface).                                   *)
ListedAreAttached == Iface!ListedAreAttached
===============================================================================
