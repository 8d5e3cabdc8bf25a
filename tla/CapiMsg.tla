-------------------------------- MODULE CapiMsg --------------------------------
(***************************************************************************)
(* The codec of capiutil.c between the parameters of a _cmsg and the bytes *)
(* of a message: a walk of the command's parameter list, cpars, in each    *)
(* direction.                                                              *)
(*                                                                         *)
(* A parameter is known by its place in the list: its offset in the _cmsg  *)
(* is left out, its value is what a place is mapped to.  A word is the     *)
(* sequence of its bytes, a structure that of its contents behind its      *)
(* length; Absent is its null pointer.                                     *)
(***************************************************************************)
LOCAL INSTANCE Integers
LOCAL INSTANCE Sequences
LOCAL INSTANCE FiniteSets
LOCAL INSTANCE FiniteSetsExt

CONSTANTS
  Lengths,      \* contents of structures, in bytes
  OddLengths,   \* contents of the one structure that is unlike the others
  Nothing

VARIABLES
  cmsg,      \* the parameters that a caller filled in, with their list
  message,   \* the bytes made of them
  parsed     \* what is found in the bytes

msgvars == <<cmsg, message, parsed>>

Absent == <<>>

Word == "CWORD"
DWord == "CDWORD"
Struct == "CSTRUCT"
Composed == "CMSTRUCT"
End == "CEND"
Width == [CWORD |-> 2, CDWORD |-> 4]
Scalars == DOMAIN Width

(* Values of a composed structure: its members follow, or it is left out.  *)
CAPI_COMPOSE == <<0>>
CAPI_DEFAULT == <<1>>

Structs(n) == [i \in 1 .. n |-> Struct]
AdditionalInfo == <<Composed>> \o Structs(4) \o <<End>>
BProtocol == <<Composed, Word, Word, Word>> \o Structs(3) \o <<End>>
Parameters(list) == <<DWord>> \o list \o <<End>>

(* The lists of the commands, each once: those of CONNECT_REQ,             *)
(* CONNECT_IND, CONNECT_RESP, DISCONNECT_REQ, INFO_REQ, LISTEN_REQ,        *)
(* SELECT_B_PROTOCOL_REQ, FACILITY_REQ, FACILITY_CONF, CONNECT_B3_REQ,     *)
(* DATA_B3_REQ, DATA_B3_CONF, MANUFACTURER_REQ, CONNECT_ACTIVE_IND,        *)
(* CONNECT_CONF and DISCONNECT_RESP.                                       *)
cpars ==
  {Parameters(<<Word>> \o Structs(4) \o BProtocol \o Structs(3) \o AdditionalInfo),
   Parameters(<<Word>> \o Structs(7) \o AdditionalInfo),
   Parameters(<<Word>> \o BProtocol \o Structs(3) \o AdditionalInfo),
   Parameters(AdditionalInfo), Parameters(<<Struct>> \o AdditionalInfo),
   Parameters(<<DWord, DWord, DWord, Struct, Struct>>), Parameters(BProtocol),
   Parameters(<<Word, Struct>>), Parameters(<<Word, Word, Struct>>),
   Parameters(Structs(1)), Parameters(<<DWord, Word, Word, Word>>),
   Parameters(<<Word, Word>>), Parameters(<<DWord, DWord, DWord, Struct>>),
   Parameters(Structs(3)), Parameters(<<Word>>), Parameters(<<>>)}

-------------------------------------------------------------------------------
LengthPrefix(n) == IF n < 255 THEN <<n>> ELSE <<255, n % 256, n \div 256>>
LengthAt(m, l) == IF m[l] # 255 THEN m[l] ELSE m[l + 1] + 256 * m[l + 2]
PrefixSize(m, l) == IF m[l] # 255 THEN 1 ELSE 3

(* The end of a composed structure.  The first member is not looked at: it *)
(* is never composed itself.                                               *)
jumpcstruct_mutant(par, p) ==
  CHOOSE q \in (p + 1) .. Len(par) :
    par[q + 1] = End /\ \A r \in (p + 1) .. q : par[r] # End
jumpcstruct(par, p) ==
  LET Opened(q) == Cardinality({r \in (p + 2) .. q : par[r] = Composed})
      Closed(q) == Cardinality({r \in (p + 2) .. q : par[r] = End})
  IN CHOOSE q \in (p + 2) .. Len(par) :
       /\ Closed(q) = Opened(q) + 1
       /\ \A r \in (p + 2) .. (q - 1) : Closed(r) <= Opened(r)

(* pars_2_message from place p on, behind the bytes m: the place of the    *)
(* end, and the bytes.  The contents of a long composed structure are      *)
(* moved up to make room for the long length, but cmsg->l does not follow: *)
(* what comes next overwrites their last two bytes.                        *)
RECURSIVE pars_2_message(_, _, _, _)
pars_2_message(par, val, p, m) ==
  LET Next(bytes) == pars_2_message(par, val, p + 1, m \o bytes)
      inner == pars_2_message(par, val, p + 1, m \o <<0>>)
      contents == SubSeq(inner.m, Len(m) + 2, Len(inner.m))
      moved == m \o LengthPrefix(Len(contents)) \o contents
  IN CASE par[p] = End -> [p |-> p, m |-> m]
       [] par[p] \in Scalars -> Next(val[p])
       [] par[p] = Struct /\ val[p] = Absent -> Next(<<0>>)
       [] par[p] = Struct /\ val[p] # Absent -> Next(val[p])
       [] par[p] = Composed /\ val[p] = CAPI_DEFAULT ->
            pars_2_message(par, val, jumpcstruct(par, p) + 1, m \o <<0>>)
       [] OTHER ->
            pars_2_message(par, val, inner.p + 1, SubSeq(moved, 1, Len(inner.m)))

(* message_2_pars from place p and byte l on: the place of the end, the    *)
(* byte behind it, and the values found.                                   *)
RECURSIVE message_2_pars(_, _, _, _, _)
message_2_pars(par, m, p, l, val) ==
  LET Next(size) ==
        message_2_pars(par, m, p + 1, l + size,
                       [val EXCEPT ![p] = SubSeq(m, l, l + size - 1)])
      inner == message_2_pars(par, m, p + 1, l + PrefixSize(m, l),
                              [val EXCEPT ![p] = CAPI_COMPOSE])
  IN CASE par[p] = End -> [p |-> p, l |-> l, val |-> val]
       [] par[p] \in Scalars -> Next(Width[par[p]])
       [] par[p] = Struct -> Next(PrefixSize(m, l) + LengthAt(m, l))
       [] par[p] = Composed /\ m[l] = 0 ->
            message_2_pars(par, m, jumpcstruct(par, p) + 1, l + 1,
                           [val EXCEPT ![p] = CAPI_DEFAULT])
       [] OTHER -> message_2_pars(par, m, inner.p + 1, inner.l, inner.val)

-------------------------------------------------------------------------------
(* What callers fill in: any choice of the composed structures, all the    *)
(* others of one length but one.  Every byte names its parameter.          *)
StructOf(p, n) == LengthPrefix(n) \o [i \in 1 .. n |-> p]

Messages(par) ==
  LET composed == {p \in DOMAIN par : par[p] = Composed}
      structs == {p \in DOMAIN par : par[p] = Struct}
      Value(p, all, odd, n, choice) ==
        CASE par[p] \in Scalars -> [i \in 1 .. Width[par[p]] |-> p]
          [] par[p] = Struct -> LET k == IF p = odd THEN n ELSE all
                                IN IF k = 0 THEN Absent ELSE StructOf(p, k)
          [] par[p] = Composed -> IF p \in choice THEN CAPI_COMPOSE ELSE CAPI_DEFAULT
          [] OTHER -> Absent
  IN {[p \in DOMAIN par |-> Value(p, all, odd, n, choice)] :
        all \in Lengths, odd \in structs \cup {0}, n \in OddLengths,
        choice \in SUBSET composed}

(* Composed structures are not nested. *)
Members(par, p) == {q \in (p + 1) .. Len(par) : \A r \in (p + 1) .. q : par[r] # End}
Skipped(par, val, q) ==
  \E p \in DOMAIN par : par[p] = Composed /\ val[p] = CAPI_DEFAULT /\ q \in Members(par, p)

Found(val, p) == IF val[p] = Absent THEN <<0>> ELSE val[p]
Size(par, val, p) == MapThenSumSet(LAMBDA q : Len(Found(val, q)), Members(par, p))
Short(par, val) ==
  \A p \in DOMAIN par :
    par[p] = Composed /\ val[p] = CAPI_COMPOSE => Size(par, val, p) < 255

MsgInit == cmsg = Nothing /\ message = Nothing /\ parsed = Nothing

(* The bytes follow a header of 8 bytes.                                   *)
capi_cmsg2message ==
  /\ cmsg = Nothing
  /\ \E par \in cpars : \E val \in Messages(par) :
       /\ cmsg' = [par |-> par, val |-> val]
       /\ message' = pars_2_message(par, val, 1, <<>>).m
  /\ UNCHANGED parsed

(* memset leaves null pointers where nothing is found.  A message with     *)
(* overwritten bytes is not read: what is behind its end is not known.     *)
capi_message2cmsg ==
  /\ message # Nothing /\ parsed = Nothing
  /\ Short(cmsg.par, cmsg.val)
  /\ parsed' = message_2_pars(cmsg.par, message, 1, 1,
                              [p \in DOMAIN cmsg.par |-> Absent])
  /\ UNCHANGED <<cmsg, message>>

(* The codec keeps nothing from one message to the next.                   *)
Handled ==
  /\ message # Nothing
  /\ cmsg' = Nothing /\ message' = Nothing /\ parsed' = Nothing

-------------------------------------------------------------------------------
(* RoundTrip: as long as no composed structure reaches 255 bytes, the      *)
(* message that capi_cmsg2message builds is as long as it says and         *)
(* capi_message2cmsg finds every parameter in it again, whatever           *)
(* structures are long, absent or left to their default.                   *)
RoundTrip ==
  parsed # Nothing =>
    /\ parsed.l = Len(message) + 1
    /\ \A p \in DOMAIN cmsg.par :
         cmsg.par[p] # End /\ ~Skipped(cmsg.par, cmsg.val, p) =>
           parsed.val[p] = IF cmsg.par[p] = Struct THEN Found(cmsg.val, p)
                           ELSE cmsg.val[p]
===============================================================================
