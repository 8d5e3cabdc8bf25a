-------------------------------- MODULE Lists ---------------------------------
(***************************************************************************)
(* Lists of the kernel (linux/list.h), and lists that code links by hand,  *)
(* as the sequences of their entries.                                      *)
(***************************************************************************)
EXTENDS Naturals, SequencesExt

(* The list s after list_del of its entries in M: the others keep their    *)
(* order.                                                                  *)
Without(s, M) ==
  LET rest[i \in 0 .. Len(s)] ==
        IF i = 0 THEN <<>>
        ELSE IF s[i] \in M THEN rest[i - 1] ELSE Append(rest[i - 1], s[i])
  IN  rest[Len(s)]

(* A list that is linked by hand, as the sequence of its entries from      *)
(* first on, of which there are at most n.                                 *)
Chain(next, first, null, n) ==
  LET from[k \in 0 .. n] ==
        [p \in DOMAIN next \cup {null} |->
           IF p = null \/ k = 0 THEN <<>> ELSE <<p>> \o from[k - 1][next[p]]]
  IN  from[n][first]
===============================================================================
