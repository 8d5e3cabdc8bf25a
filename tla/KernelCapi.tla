------------------------------ MODULE KernelCapi ------------------------------
(***************************************************************************)
(* The application table of the kernelcapi (kernelcapi.c:40-185), which    *)
(* gives kernel clients the numbers of the capicore for handles.  The      *)
(* table has no lock of its own.  Every client allocates one application   *)
(* structure at a time, named here by the client; a call through an empty  *)
(* slot is a fault, after which the client does nothing more.              *)
(***************************************************************************)
EXTENDS Naturals, FiniteSets

CONSTANTS
  Clients,
  Null,         \* the null pointer, no client
  MaxAppls      \* CAPI_MAX_APPLS

VARIABLES
  kernelcapi_appls,   \* number -> structure or Null
  id,                 \* appl->id while the capicore lists it, else 0
  sig,                \* whether appl->sig is kernelcapi_signal_handler
  pc,                 \* where a client is
  applid,             \* the number the client knows
  a                   \* local variable a of a client in a call

vars == <<kernelcapi_appls, id, sig, pc, applid, a>>

Numbers == 1 .. MaxAppls

TypeOK ==
  /\ kernelcapi_appls \in [Numbers -> Clients \cup {Null}]
  /\ id \in [Clients -> Numbers \cup {0}]
  /\ sig \in [Clients -> BOOLEAN]
  /\ pc \in [Clients -> {"none", "store", "idle", "clear", "fault"}]
  /\ applid \in [Clients -> Numbers \cup {0}]
  /\ a \in [Clients -> Clients \cup {Null}]

Init ==
  /\ kernelcapi_appls = [n \in Numbers |-> Null]
  /\ id = [c \in Clients |-> 0]
  /\ sig = [c \in Clients |-> FALSE]
  /\ pc = [c \in Clients |-> "none"]
  /\ applid = [c \in Clients |-> 0]
  /\ a = [c \in Clients |-> Null]

-------------------------------------------------------------------------------
(* Definitions with the suffix _mutant are never part of the specification *)
(* as it stands: each is a bug that could be in the definition it is named *)
(* after, and makes a run fail when it is put in that definition's place.  *)

Goto(c, from, to) == pc[c] = from /\ pc' = [pc EXCEPT ![c] = to]

Free == Numbers \ {id[c] : c \in Clients}

(* kmalloc, an empty signal handler, and capi_register, which takes the    *)
(* least free number.  If it has none, the structure is freed again.       *)
Allocated(c) ==
  /\ Goto(c, "none", "store")
  /\ sig' = [sig EXCEPT ![c] = FALSE]
  /\ UNCHANGED <<kernelcapi_appls, applid, a>>

kernelcapi_register(c) ==
  /\ Allocated(c)
  /\ \E n \in Free : (\A m \in Free : n <= m) /\ id' = [id EXCEPT ![c] = n]

kernelcapi_register_store(c) ==
  /\ Goto(c, "store", "idle")
  /\ kernelcapi_appls' = [kernelcapi_appls EXCEPT ![id[c]] = c]
  /\ applid' = [applid EXCEPT ![c] = id[c]]
  /\ UNCHANGED <<id, sig, a>>

(* Looking up the handle of a call: a client whose slot is empty faults.   *)
Lookup(c) == kernelcapi_appls[applid[c]]

kernelcapi_fault(c) ==
  /\ Goto(c, "idle", "fault")
  /\ Lookup(c) = Null
  /\ UNCHANGED <<kernelcapi_appls, id, sig, applid, a>>

(* The new handler may be none. *)
kernelcapi_set_signal(c) ==
  /\ Goto(c, "idle", "idle")
  /\ Lookup(c) # Null
  /\ \E signal \in BOOLEAN : sig' = [sig EXCEPT ![Lookup(c)] = signal]
  /\ UNCHANGED <<kernelcapi_appls, id, applid, a>>

(* capi_release gives the number back ... *)
Released(c) ==
  /\ Goto(c, "idle", "clear")
  /\ Lookup(c) # Null
  /\ a' = [a EXCEPT ![c] = Lookup(c)]
  /\ UNCHANGED <<kernelcapi_appls, sig, applid>>

kernelcapi_release(c) == Released(c) /\ id' = [id EXCEPT ![Lookup(c)] = 0]

kernelcapi_release_clear_mutant(c) ==
  /\ Goto(c, "clear", "none")
  /\ applid' = [applid EXCEPT ![c] = 0]
  /\ a' = [a EXCEPT ![c] = Null]
  /\ UNCHANGED <<kernelcapi_appls, id, sig>>

(* ... before its slot is emptied and the structure freed. *)
kernelcapi_release_clear(c) ==
  /\ Goto(c, "clear", "none")
  /\ kernelcapi_appls' = [kernelcapi_appls EXCEPT ![applid[c]] = Null]
  /\ applid' = [applid EXCEPT ![c] = 0]
  /\ a' = [a EXCEPT ![c] = Null]
  /\ UNCHANGED <<id, sig>>

Next ==
  \E c \in Clients :
    \/ kernelcapi_register(c) \/ kernelcapi_register_store(c)
    \/ kernelcapi_fault(c) \/ kernelcapi_set_signal(c)
    \/ kernelcapi_release(c) \/ kernelcapi_release_clear(c)

Spec == Init /\ [][Next]_vars

-------------------------------------------------------------------------------
(* Properties *)

(* No slot leads to a freed structure: calls never use one, also when      *)
(* clients come and go at the same time.                                   *)
NoDanglingSlot ==
  \A n \in Numbers :
    kernelcapi_appls[n] # Null => pc[kernelcapi_appls[n]] \in {"idle", "clear", "fault"}

(* Slots lead to the client that was given the number, never to another:   *)
(* messages do not reach the wrong application and releases do not hit it. *)
NoForeignSlot ==
  \A c \in Clients :
    pc[c] = "idle" => kernelcapi_appls[applid[c]] \in {c, Null}

(* "@appl is assigned a unique application number" (core.c:274), and       *)
(* capi_register "upon successful registration" makes it the handle of the *)
(* application: as long as a client does not release its number, its slot  *)
(* holds its structure.                                                    *)
OwnSlot ==
  \A c \in Clients : pc[c] = "idle" => kernelcapi_appls[applid[c]] = c
===============================================================================
