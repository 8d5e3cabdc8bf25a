-------------------------------- MODULE Capi20 --------------------------------
(***************************************************************************)
(* The open files of /dev/capi20 (capi.c), the NCCIs of their              *)
(* applications, the minors that the middleware gives them, and the ttys   *)
(* that processes open on those minors.  A file is read by one thread.     *)
(* The model is of one processor without preemption: a call is one step    *)
(* from one place where it may sleep to the next.  It sleeps in the        *)
(* kmallocs of capincci_alloc, in capifs_new_ncci and capifs_free_ncci,    *)
(* all under ncci_list_sem, and in capi_release.  Without capifs those two *)
(* calls are not made: the same steps, one right after the other.          *)
(***************************************************************************)
EXTENDS FiniteSets, Lists

CONSTANTS
  Files,
  Nccis,       \* values of an NCCI
  Structs,     \* addresses of struct capiminor
  Null,
  TtyMinors,   \* capi_ttyminors
  MaxOpens     \* bound on the times a tty is open at once

ASSUME Capi20Assumption ==
  /\ Null \notin Structs /\ TtyMinors \in Nat \ {0} /\ MaxOpens \in Nat

VARIABLES
  pc,               \* file -> "closed", "open", or where the holder of its
                    \* ncci_list_sem or its last close sleeps
  ncci,             \* ... and the NCCI that is being added or freed
  id,               \* files whose application is registered
  highjacking,      \* files with CAPIFLAG_HIGHJACKING
  nccis,            \* file -> its NCCIs
  minorp,           \* file -> NCCI -> its minor or Null
  connected,        \* file -> NCCIs that the device has reported and that are
                    \* not disconnected
  capiminor_list,   \* sequence of minors
  minor,            \* minor -> its number
  nccip,            \* minor -> file and NCCI it belongs to, or <<>>
  ttyopencount,     \* minor -> how often its tty is open
  twice             \* history: minors whose tty has been open twice at once

files == <<pc, ncci, id, highjacking, connected>>
minors == <<capiminor_list, minor, nccip, ttyopencount, twice>>
vars == <<files, nccis, minorp, minors>>

Live == ToSet(capiminor_list)

Places ==
  {"closed", "open", "ncci", "minor", "capifs", "disconnect", "release", "purge"}

TypeOK ==
  /\ pc \in [Files -> Places]
  /\ ncci \in [Files -> Nccis \cup {Null}]
  /\ id \subseteq Files /\ highjacking \subseteq Files
  /\ nccis \in [Files -> SUBSET Nccis]
  /\ minorp \in [Files -> [Nccis -> Structs \cup {Null}]]
  /\ connected \in [Files -> SUBSET Nccis]
  /\ capiminor_list \in Seq(Structs)
  /\ minor \in [Structs -> 0 .. TtyMinors - 1]
  /\ nccip \in [Structs -> {<<>>} \cup (Files \X Nccis)]
  /\ ttyopencount \in [Structs -> 0 .. MaxOpens]
  /\ twice \subseteq Structs

Init ==
  /\ pc = [f \in Files |-> "closed"] /\ ncci = [f \in Files |-> Null]
  /\ id = {} /\ highjacking = {}
  /\ nccis = [f \in Files |-> {}]
  /\ minorp = [f \in Files |-> [n \in Nccis |-> Null]]
  /\ connected = [f \in Files |-> {}]
  /\ capiminor_list = <<>>
  /\ minor = [m \in Structs |-> 0] /\ nccip = [m \in Structs |-> <<>>]
  /\ ttyopencount = [m \in Structs |-> 0] /\ twice = {}

-------------------------------------------------------------------------------
(* Definitions with the suffix _mutant are never part of the specification *)
(* as it stands: each is a bug that could be in the definition it is named *)
(* after, and makes a run fail when it is put in that definition's place.  *)

Goto(f, from, to) == pc[f] = from /\ pc' = [pc EXCEPT ![f] = to]

(* Minors *)

(* The place in the list where the loop of capiminor_alloc stops: its      *)
(* counter is behind the number of the minor there, or the list ends.      *)
Gap_mutant == 1 + Len(capiminor_list)
Gap ==
  LET beyond == {i \in DOMAIN capiminor_list : minor[capiminor_list[i]] > i - 1}
  IN  IF beyond = {} THEN 1 + Len(capiminor_list)
      ELSE CHOOSE i \in beyond : \A j \in beyond : i <= j

Room_mutant == TRUE
Room == Gap - 1 < TtyMinors

(* kmalloc returns memory that is not in use, nor still used by mistake.   *)
Unused == Structs \ (Live \cup {m \in Structs : ttyopencount[m] > 0})

capiminor_alloc(m, f, n) ==
  /\ m \in Unused /\ Room
  /\ capiminor_list' = InsertAt(capiminor_list, Gap, m)
  /\ minor' = [minor EXCEPT ![m] = Gap - 1]
  /\ nccip' = [nccip EXCEPT ![m] = <<f, n>>]
  /\ ttyopencount' = [ttyopencount EXCEPT ![m] = 0]
  /\ twice' = twice \ {m}

Freed(M) == Without(capiminor_list, M)

(* capincci_free: the minor of an NCCI, in the set M.  One that has a tty  *)
(* is hung up and loses its NCCI; another is freed.                        *)
HungUp_mutant(M) == {}
HungUp(M) == {m \in M : ttyopencount[m] > 0}

Detach(M) ==
  /\ nccip' = [m \in Structs |-> IF m \in M THEN <<>> ELSE nccip[m]]
  /\ capiminor_list' = Freed(M \ HungUp(M))
  /\ UNCHANGED <<minor, ttyopencount, twice>>

(* NCCIs with a minor.  capincci_free sleeps between two steps on each: it *)
(* takes it off the list ...                                               *)
HasMinor(f) == {n \in nccis[f] : minorp[f][n] # Null}

Unlink(f, n) ==
  /\ nccis' = [nccis EXCEPT ![f] = @ \ {n}]
  /\ ncci' = [ncci EXCEPT ![f] = n]

(* ... and when capifs_free_ncci returns it looks at the tty.              *)
FreeMinor(f) ==
  /\ minorp' = [minorp EXCEPT ![f][ncci[f]] = Null]
  /\ Detach({minorp[f][ncci[f]]})

-------------------------------------------------------------------------------
(* Files *)

capi_open(f) ==
  /\ Goto(f, "closed", "open")
  /\ UNCHANGED <<ncci, id, highjacking, connected, nccis, minorp, minors>>

(* CAPI_REGISTER, when capi_register succeeds. *)
capi_ioctl_register(f) ==
  /\ pc[f] = "open" /\ f \notin id
  /\ id' = id \cup {f}
  /\ UNCHANGED <<pc, ncci, highjacking, connected, nccis, minorp, minors>>

(* CAPI_SET_FLAGS and CAPI_CLR_FLAGS, also while another call sleeps. *)
capi_ioctl_flags(f) ==
  /\ pc[f] \notin {"closed", "release", "purge"}
  /\ highjacking' \in {highjacking \cup {f}, highjacking \ {f}}
  /\ UNCHANGED <<pc, ncci, id, connected, nccis, minorp, minors>>

(* The reader gets a CONNECT_B3_IND or a successful CONNECT_B3_CONF, takes *)
(* ncci_list_sem and sleeps in the first kmalloc of capincci_alloc.        *)
capi_recv_connect(f, n) ==
  /\ f \in id /\ n \notin connected[f]
  /\ Goto(f, "open", "ncci")
  /\ ncci' = [ncci EXCEPT ![f] = n]
  /\ connected' = [connected EXCEPT ![f] = @ \cup {n}]
  /\ UNCHANGED <<id, highjacking, nccis, minorp, minors>>

Linked(f) ==
  /\ nccis' = [nccis EXCEPT ![f] = @ \cup {ncci[f]}]
  /\ ncci' = [ncci EXCEPT ![f] = Null]

(* Without memory the NCCI stays unknown to the file; without the flag it  *)
(* gets no minor.                                                          *)
capincci_alloc(f) ==
  /\ \/ Goto(f, "ncci", "open") /\ ncci' = [ncci EXCEPT ![f] = Null] /\ UNCHANGED nccis
     \/ Goto(f, "ncci", "open") /\ f \notin highjacking /\ Linked(f)
     \/ Goto(f, "ncci", "minor") /\ f \in highjacking /\ UNCHANGED <<ncci, nccis>>
  /\ UNCHANGED <<id, highjacking, connected, minorp, minors>>

(* Without memory, or without a number, the NCCI gets no minor either.     *)
(* With one the reader sleeps in capifs_new_ncci, ...                      *)
capincci_alloc_minor(f) ==
  /\ \/ Goto(f, "minor", "open") /\ Linked(f) /\ UNCHANGED <<minorp, minors>>
     \/ /\ Goto(f, "minor", "capifs")
        /\ \E m \in Structs :
             /\ capiminor_alloc(m, f, ncci[f])
             /\ minorp' = [minorp EXCEPT ![f][ncci[f]] = m]
        /\ UNCHANGED <<ncci, nccis>>
  /\ UNCHANGED <<id, highjacking, connected>>

(* ... and links the NCCI then.                                            *)
capincci_alloc_link(f) ==
  /\ Goto(f, "capifs", "open")
  /\ Linked(f)
  /\ UNCHANGED <<id, highjacking, connected, minorp, minors>>

(* The device accepts a DISCONNECT_B3_RESP, or refuses it.                 *)
Answered(f, n) == connected' \in {connected, [connected EXCEPT ![f] = @ \ {n}]}

(* A DISCONNECT_B3_RESP is written: the NCCI is freed first, and then the  *)
(* message goes to the device.  ncci_list_sem must be free.                *)
capi_write_disconnect(f, n) ==
  /\ pc[f] = "open" /\ f \in id
  /\ \/ /\ n \in HasMinor(f)
        /\ Goto(f, "open", "disconnect") /\ Unlink(f, n)
        /\ UNCHANGED connected
     \/ /\ n \notin HasMinor(f)
        /\ nccis' = [nccis EXCEPT ![f] = @ \ {n}]
        /\ Answered(f, n)
        /\ UNCHANGED <<pc, ncci>>
  /\ UNCHANGED <<id, highjacking, minorp, minors>>

capi_write_free(f) ==
  /\ Goto(f, "disconnect", "open")
  /\ FreeMinor(f)
  /\ ncci' = [ncci EXCEPT ![f] = Null]
  /\ Answered(f, ncci[f])
  /\ UNCHANGED <<id, highjacking, nccis>>

(* The last close of the file: the application is released, ... *)
capi_frelease(f) ==
  /\ Goto(f, "open", "release")
  /\ id' = id \ {f}
  /\ UNCHANGED <<ncci, highjacking, connected, nccis, minorp, minors>>

(* ... and all its NCCIs are freed.  Those without a minor leave the list  *)
(* at the end; the code meets them on its way, when no call can see them.  *)
FreeRest(f) ==
  \/ /\ HasMinor(f) = {}
     /\ pc' = [pc EXCEPT ![f] = "closed"]
     /\ nccis' = [nccis EXCEPT ![f] = {}]
     /\ ncci' = [ncci EXCEPT ![f] = Null]
     /\ connected' = [connected EXCEPT ![f] = {}]
     /\ highjacking' = highjacking \ {f}
  \/ /\ \E n \in HasMinor(f) : Unlink(f, n)
     /\ pc' = [pc EXCEPT ![f] = "purge"]
     /\ UNCHANGED <<connected, highjacking>>

capidev_free(f) ==
  /\ pc[f] = "release"
  /\ FreeRest(f)
  /\ UNCHANGED <<id, minorp, minors>>

(* The loop of capincci_free goes on after its sleep.                      *)
capidev_free_minor(f) ==
  /\ pc[f] = "purge"
  /\ FreeMinor(f)
  /\ FreeRest(f)
  /\ UNCHANGED id

-------------------------------------------------------------------------------
(* ttys *)

capinc_tty_open(m) ==
  /\ m \in Live /\ nccip[m] # <<>>
  /\ ttyopencount[m] < MaxOpens
  /\ ttyopencount' = [ttyopencount EXCEPT ![m] = @ + 1]
  /\ twice' = IF ttyopencount[m] > 0 THEN twice \cup {m} ELSE twice
  /\ UNCHANGED <<files, nccis, minorp, capiminor_list, minor, nccip>>

(* Any close frees a minor whose NCCI has ended, not only the last one.    *)
FreedByClose_mutant(m) == FALSE
FreedByLastClose_mutant(m) == ttyopencount[m] = 1
FreedByClose(m) == nccip[m] = <<>>

(* A close of the tty of a freed minor is undefined; here it only counts.  *)
capinc_tty_close(m) ==
  /\ ttyopencount[m] > 0
  /\ ttyopencount' = [ttyopencount EXCEPT ![m] = @ - 1]
  /\ capiminor_list' = IF FreedByClose(m) THEN Freed({m}) ELSE capiminor_list
  /\ UNCHANGED <<files, nccis, minorp, minor, nccip, twice>>

-------------------------------------------------------------------------------
Next ==
  \/ \E f \in Files :
       \/ capi_open(f) \/ capi_ioctl_register(f) \/ capi_ioctl_flags(f)
       \/ capincci_alloc(f) \/ capincci_alloc_minor(f) \/ capincci_alloc_link(f)
       \/ capi_write_free(f)
       \/ capi_frelease(f) \/ capidev_free(f) \/ capidev_free_minor(f)
       \/ \E n \in Nccis : capi_recv_connect(f, n) \/ capi_write_disconnect(f, n)
  \/ \E m \in Structs : capinc_tty_open(m) \/ capinc_tty_close(m)

Spec == Init /\ [][Next]_vars

-------------------------------------------------------------------------------
(* Properties *)

(* The list of minors stays sorted, which the search for a number relies   *)
(* on, whatever order minors are freed in: so numbers are unique.          *)
MinorsSorted ==
  \A i, j \in DOMAIN capiminor_list :
    i < j => minor[capiminor_list[i]] < minor[capiminor_list[j]]

(* "Allocate the least unused minor number" (capi.c:266).                  *)
LeastUnused ==
  [][\A m \in Live' \ Live :
       \A k \in 0 .. minor'[m] - 1 : \E l \in Live : minor[l] = k]_vars

(* The NCCI that a call has in hand, outside the list, while it sleeps in  *)
(* capifs.                                                                 *)
InHand(f) == IF pc[f] \in {"capifs", "disconnect", "purge"} THEN {ncci[f]} ELSE {}

(* An NCCI with a minor and a minor with an NCCI point at each other, over *)
(* all files, closes and hangups.  The NCCI is in the list of its file, or *)
(* capincci_alloc or capincci_free has it in hand and will still use the   *)
(* minor when capifs returns, so nobody may free the minor meanwhile.      *)
BackPointers ==
  /\ \A f \in Files : \A n \in nccis[f] \cup InHand(f) :
       minorp[f][n] # Null => minorp[f][n] \in Live /\ nccip[minorp[f][n]] = <<f, n>>
  /\ \A m \in Live : nccip[m] # <<>> =>
       LET f == nccip[m][1]
           n == nccip[m][2]
       IN  n \in nccis[f] \cup InHand(f) /\ minorp[f][n] = m

(* No minor is left behind: one without an NCCI has a tty whose close will *)
(* free it.                                                                *)
NoMinorLeaks == \A m \in Live : nccip[m] = <<>> => ttyopencount[m] > 0

(* A tty does not outlive its minor, unless it was open twice: then the    *)
(* first close after the end of the NCCI frees the minor under the other.  *)
TtysHaveMinors == \A m \in Structs : ttyopencount[m] > 0 /\ m \notin twice => m \in Live
===============================================================================
