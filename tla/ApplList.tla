------------------------------- MODULE ApplList -------------------------------
(***************************************************************************)
(* The application list of the capicore: the walk of add_capi_appl that    *)
(* hands out 16 bit application numbers and keeps the list sorted          *)
(* (core.c:228-250), its removal in capi_release, and the readers of       *)
(* /proc/capi that iterate over it (core_proc.c).  All of them hold        *)
(* capi_appls_list_sem; the readers keep it from appl_start to appl_stop.  *)
(***************************************************************************)
EXTENDS Naturals, SequencesExt

CONSTANTS
  Appls,      \* application control structures
  Readers,    \* open files under /proc/capi
  Token,      \* SEQ_START_TOKEN
  Null,       \* the null pointer, and the id of nobody
  MaxAppls,   \* CAPI_MAX_APPLS
  IdLimit     \* values of the variable id of add_capi_appl, 2^16 in the code

(* Kconfig lets CAPI_MAX_APPLS range over 8 .. 65535.                      *)
ASSUME NumbersAssumption ==
  /\ IdLimit \in Nat /\ MaxAppls \in 1 .. IdLimit - 1
  /\ Token \notin Appls /\ Null \notin Appls \cup Readers /\ Token # Null

VARIABLES
  capi_appls_list,       \* the applications in list order
  capi_appls_list_sem,   \* the reader that holds it, or Null
  id,                    \* appl->id
  registered,            \* applications whose capi_register succeeded last
  refused,               \* applications whose capi_register failed last
  pos,                   \* position of a reader in its file
  v                      \* the iterator of a reader

vars == <<capi_appls_list, capi_appls_list_sem, id, registered, refused, pos, v>>

TypeOK ==
  /\ capi_appls_list \in Seq(Appls)
  /\ capi_appls_list_sem \in Readers \cup {Null}
  /\ id \in [Appls -> 0 .. MaxAppls]
  /\ registered \in SUBSET Appls
  /\ refused \in SUBSET Appls
  /\ pos \in [Readers -> Nat]
  /\ v \in [Readers -> Appls \cup {Token, Null}]

Init ==
  /\ capi_appls_list = <<>>
  /\ capi_appls_list_sem = Null
  /\ id = [a \in Appls |-> 0]
  /\ registered = {}
  /\ refused = {}
  /\ pos = [r \in Readers |-> 0]
  /\ v = [r \in Readers |-> Null]

-------------------------------------------------------------------------------
(* Definitions with the suffix _mutant are never part of the specification *)
(* as it stands: each is a bug that could be in the definition it is named *)
(* after, and makes a run fail when it is put in that definition's place.  *)

Leaves_mutant(k) == id[capi_appls_list[k]] >= k % IdLimit

(* The walk of add_capi_appl: when it stands at the k-th entry its counter *)
(* id is k, modulo the width of id, and it leaves at the first entry whose *)
(* number is above the counter, or at the end of the list.                 *)
Leaves(k) == id[capi_appls_list[k]] > k % IdLimit

WalkEnd_mutant == Len(capi_appls_list) + 1

WalkEnd ==
  CHOOSE k \in 1 .. Len(capi_appls_list) + 1 :
    /\ k <= Len(capi_appls_list) => Leaves(k)
    /\ \A j \in 1 .. k - 1 : ~Leaves(j)

InsertBefore_mutant(s, k, a) == Append(s, a)
InsertBefore(s, k, a) == InsertAt(s, k, a)

add_capi_appl_mutant(a) ==
  /\ id' = [id EXCEPT ![a] = IF WalkEnd % IdLimit > MaxAppls THEN 0 ELSE WalkEnd % IdLimit]
  /\ capi_appls_list' = InsertBefore(capi_appls_list, WalkEnd, a)

add_capi_appl(a) ==
  LET n == WalkEnd % IdLimit IN
  IF n > MaxAppls
  THEN id' = [id EXCEPT ![a] = 0] /\ UNCHANGED capi_appls_list
  ELSE /\ id' = [id EXCEPT ![a] = n]
       /\ capi_appls_list' = InsertBefore(capi_appls_list, WalkEnd, a)

(* bind_capi_appl returns appl->id and capi_register takes 0 for the       *)
(* answer CAPINFO_0X10_TOOMANYAPPLS.                                       *)
capi_register(a) ==
  /\ a \notin registered
  /\ capi_appls_list_sem = Null
  /\ add_capi_appl(a)
  /\ registered' = IF id'[a] = 0 THEN registered ELSE registered \cup {a}
  /\ refused'    = IF id'[a] = 0 THEN refused \cup {a} ELSE refused \ {a}
  /\ UNCHANGED <<capi_appls_list_sem, pos, v>>

list_del(a) ==
  capi_appls_list' =
    RemoveAt(capi_appls_list, CHOOSE k \in DOMAIN capi_appls_list : capi_appls_list[k] = a)

capi_release_mutant(a) ==
  /\ a \in registered
  /\ list_del(a)
  /\ registered' = registered \ {a}
  /\ UNCHANGED <<capi_appls_list_sem, id, refused, pos, v>>

capi_release(a) ==
  /\ a \in registered
  /\ capi_appls_list_sem = Null
  /\ list_del(a)
  /\ registered' = registered \ {a}
  /\ UNCHANGED <<capi_appls_list_sem, id, refused, pos, v>>

-------------------------------------------------------------------------------
(* core_proc.c, called by seq_read: one appl_start, an appl_next after     *)
(* each entry shown, and appl_stop at the end of the list or of the        *)
(* reader's buffer.  The position survives appl_stop.                      *)
get_capi_appl_by_idx(i) ==
  IF i < Len(capi_appls_list) THEN capi_appls_list[i + 1] ELSE Null

get_capi_appl_next(a) ==
  LET k == CHOOSE k \in DOMAIN capi_appls_list : capi_appls_list[k] = a
  IN  get_capi_appl_by_idx(k)

appl_start(r) ==
  /\ capi_appls_list_sem = Null
  /\ capi_appls_list_sem' = r
  /\ v' = [v EXCEPT ![r] = IF pos[r] = 0 THEN Token
                           ELSE get_capi_appl_by_idx(pos[r] - 1)]
  /\ UNCHANGED <<capi_appls_list, id, registered, refused, pos>>

appl_next(r) ==
  /\ capi_appls_list_sem = r /\ v[r] # Null
  /\ pos' = [pos EXCEPT ![r] = @ + 1]
  /\ v' = [v EXCEPT ![r] = IF @ = Token THEN get_capi_appl_by_idx(0)
                           ELSE get_capi_appl_next(@)]
  /\ UNCHANGED <<capi_appls_list, capi_appls_list_sem, id, registered, refused>>

(* After the end of the list the file is closed or rewound.                *)
appl_stop(r) ==
  /\ capi_appls_list_sem = r
  /\ capi_appls_list_sem' = Null
  /\ pos' = [pos EXCEPT ![r] = IF v[r] = Null THEN 0 ELSE @]
  /\ v' = [v EXCEPT ![r] = Null]
  /\ UNCHANGED <<capi_appls_list, id, registered, refused>>

-------------------------------------------------------------------------------
Next ==
  \/ \E a \in Appls : capi_register(a) \/ capi_release(a)
  \/ \E r \in Readers : appl_start(r) \/ appl_next(r) \/ appl_stop(r)

Spec == Init /\ [][Next]_vars

-------------------------------------------------------------------------------
(* Properties *)

Listed == {capi_appls_list[k] : k \in DOMAIN capi_appls_list}

(* capi_register either links an application and gives it a number or does *)
(* neither: the list holds exactly the registered applications, each once. *)
(* A refused application in the list is a structure its owner frees.       *)
ListedIffRegistered ==
  Listed = registered /\ \A a \in registered : id[a] \in 1 .. MaxAppls

(* The list stays strictly sorted by number, whatever order numbers are    *)
(* given back in; the walk that finds the gap relies on it.                *)
SortedByNumber ==
  \A j, k \in DOMAIN capi_appls_list :
    j < k => id[capi_appls_list[j]] < id[capi_appls_list[k]]

(* An iterator between appl_start and appl_stop is never left on an        *)
(* application that was released meanwhile, and it stands at the position  *)
(* that the file believes it does, so a read shows no entry twice.         *)
IteratorListed ==
  \A r \in Readers :
    v[r] \in Appls => pos[r] > 0 /\ get_capi_appl_by_idx(pos[r] - 1) = v[r]

Numbering == INSTANCE ApplNumbering
  WITH number <- [a \in Appls |-> IF a \in registered THEN id[a] ELSE 0]

(* The list implements the abstract allocation of unique numbers. *)
NumbersUnique == Numbering!Spec

(* An application is refused only when every number is in use.             *)
RefusedOnlyWhenFull ==
  [][\A a \in Appls : a \in refused' \ refused =>
       \A n \in 1 .. MaxAppls : \E b \in registered : id[b] = n]_vars
===============================================================================
