-------------------------- MODULE NtlmAvPairList --------------------------
(***************************************************************************)
(* NtlmAvPairList of src/core/RDP/nla/ntlm/ntlm_avpair.hpp: a table of    *)
(* AV_PAIRs indexed by their AvId, with add, rm, packet_length, emit to a *)
(* stream and recv from one.  The sender's table is `list`; `wire` is the *)
(* stream the last emit wrote, as bytes; `peer` is the table a receiver   *)
(* builds with recv from that stream.  `fault` records what recv did      *)
(* outside the memory it owns: writing past list[] or reading past the    *)
(* stream's end.                                                           *)
(***************************************************************************)
EXTENDS Integers, Sequences

CONSTANTS
  AddIds,   \* ids the caller passes to add
  Values    \* the values it passes, as byte sequences

VARIABLES list, wire, peer, fault

vars == <<list, wire, peer, fault>>

(* enum NTLM_AV_ID: MsvAvEOL = 0, ..., MsvChannelBindings = 10, AV_ID_MAX. *)
MsvAvEOL == 0
AV_ID_MAX == 11
(* A NULL slot, as a record of the pair's shape that no pair equals.       *)
NULL == [AvId |-> -1, AvLen |-> 0, Value |-> <<>>]

(* The NtlmAvPair constructor: AvLen is the length cut to its uint16_t;   *)
(* Value holds the bytes copied from value (none for a NULL value).        *)
NtlmAvPair(id, value, length) ==
  [AvId |-> id % 65536, AvLen |-> length % 65536, Value |-> value]

(* Mutant: the constructor leaves list[MsvAvEOL] NULL.                    *)
NewListNoEol == [i \in 0 .. AV_ID_MAX - 1 |-> NULL]

(* The NtlmAvPairList constructor: every slot NULL but the EOL pair.      *)
NewList ==
  [i \in 0 .. AV_ID_MAX - 1 |->
     IF i = MsvAvEOL THEN NtlmAvPair(MsvAvEOL, <<>>, 0) ELSE NULL]

(* out_uint16_le / in_uint16_le.                                           *)
U16le(n) == <<n % 256, n \div 256>>
U16At(w, p) == w[p] + 256 * w[p + 1]

(* NtlmAvPair::emit: AvId, AvLen, then the Value bytes.                   *)
EmitPair(p) == U16le(p.AvId) \o U16le(p.AvLen) \o p.Value

RECURSIVE EmitFrom(_, _)
EmitFrom(l, i) ==
  IF i >= AV_ID_MAX THEN EmitPair(l[MsvAvEOL])
  ELSE (IF l[i] = NULL THEN <<>> ELSE EmitPair(l[i])) \o EmitFrom(l, i + 1)

(* Mutant: the loop starts at 0, so the EOL pair is also emitted first.   *)
EmitBytesFromZero(l) == EmitFrom(l, 0)

(* NtlmAvPairList::emit: the pairs 1 .. AV_ID_MAX-1 in id order, then EOL. *)
EmitBytes(l) == EmitFrom(l, 1)

RECURSIVE PacketLengthFrom(_, _)
PacketLengthFrom(l, i) ==
  IF i >= AV_ID_MAX THEN 0
  ELSE (IF l[i] = NULL THEN 0 ELSE 2 + 2 + l[i].AvLen) + PacketLengthFrom(l, i + 1)

(* Mutant: the EOL pair left out, as emit's loop leaves it for the end.   *)
PacketLengthSkipsEol(l) == PacketLengthFrom(l, 1)

(* packet_length: 4 bytes of header and AvLen bytes per pair present.      *)
PacketLength(l) == PacketLengthFrom(l, 0)

(* Mutant: the loop goes on after the EOL pair.                           *)
RECURSIVE RecvLoopNoBreak(_, _, _, _)
RecvLoopNoBreak(l, w, p, i) ==
  IF i >= AV_ID_MAX THEN [list |-> l, fault |-> {}]
  ELSE IF p + 3 > Len(w) THEN [list |-> l, fault |-> {"overread"}]
  ELSE LET id  == U16At(w, p)
           len == U16At(w, p + 2)
       IN IF id = MsvAvEOL THEN RecvLoopNoBreak(l, w, p + 4 + len, i + 1)
          ELSE IF id >= AV_ID_MAX THEN [list |-> l, fault |-> {"list_oob"}]
          ELSE IF p + 3 + len > Len(w) THEN [list |-> l, fault |-> {"overread"}]
          ELSE RecvLoopNoBreak([l EXCEPT ![id] = NtlmAvPair(id, SubSeq(w, p + 4, p + 3 + len), len)],
                               w, p + 4 + len, i + 1)

(* The loop of NtlmAvPairList::recv from byte p, iteration i: AvId and    *)
(* AvLen are read, EOL ends the loop, any other id is add()ed with the    *)
(* AvLen bytes that follow.  Neither the id nor the length is checked: an *)
(* id past the table writes outside list[], and a header or value past    *)
(* the stream's end is read from beyond it; the model stops there.         *)
RECURSIVE RecvLoop(_, _, _, _)
RecvLoop(l, w, p, i) ==
  IF i >= AV_ID_MAX THEN [list |-> l, fault |-> {}]
  ELSE IF p + 3 > Len(w) THEN [list |-> l, fault |-> {"overread"}]
  ELSE LET id  == U16At(w, p)
           len == U16At(w, p + 2)
       IN IF id = MsvAvEOL THEN [list |-> l, fault |-> {}]
          ELSE IF id >= AV_ID_MAX THEN [list |-> l, fault |-> {"list_oob"}]
          ELSE IF p + 3 + len > Len(w) THEN [list |-> l, fault |-> {"overread"}]
          ELSE RecvLoop([l EXCEPT ![id] = NtlmAvPair(id, SubSeq(w, p + 4, p + 3 + len), len)],
                        w, p + 4 + len, i + 1)
-----------------------------------------------------------------------------
Init ==
  /\ list = NewList
  /\ wire = <<>>
  /\ peer = NewList
  /\ fault = {}

(* add: the pair at avId, if any, is replaced.                              *)
Add(id, v) ==
  /\ list' = [list EXCEPT ![id] = NtlmAvPair(id, v, Len(v))]
  /\ UNCHANGED <<wire, peer, fault>>

(* rm: the caller never removes MsvAvEOL (the ASSUME in the code).         *)
Rm(id) ==
  /\ id # MsvAvEOL
  /\ list' = [list EXCEPT ![id] = NULL]
  /\ UNCHANGED <<wire, peer, fault>>

(* emit into a fresh stream.                                              *)
Emit ==
  /\ wire' = EmitBytes(list)
  /\ UNCHANGED <<list, peer, fault>>

(* A newly constructed table reads the stream with recv.                  *)
Recv ==
  /\ wire # <<>>
  /\ LET r == RecvLoop(NewList, wire, 1, 0)
     IN /\ peer' = r.list
        /\ fault' = fault \cup r.fault
  /\ UNCHANGED <<list, wire>>

Next ==
  \/ \E id \in AddIds, v \in Values : Add(id, v)
  \/ \E id \in AddIds : Rm(id)
  \/ Emit
  \/ Recv

Spec == Init /\ [][Next]_vars
=============================================================================
