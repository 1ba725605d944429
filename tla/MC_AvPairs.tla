----------------------------- MODULE MC_AvPairs -----------------------------
(***************************************************************************)
(* Model checking NtlmAvPairList: a caller adds and removes pairs, emits  *)
(* the table and a receiver reads it back, in any order.  `sent` is the   *)
(* dictionary the table held at the last emit, until it is received.     *)
(***************************************************************************)
EXTENDS NtlmAvPairList

CONSTANT MISSING

VARIABLE sent

mcvars == <<vars, sent>>

(* The attributes of a table, EOL aside, as the dictionary they stand for. *)
AvIds == 1 .. AV_ID_MAX - 1
View(l) == [i \in AvIds |-> IF l[i] = NULL THEN MISSING ELSE l[i].Value]

MCInit == Init /\ sent = MISSING

MCNext ==
  \/ \E id \in AddIds, v \in Values : Add(id, v) /\ UNCHANGED sent
  \/ \E id \in AddIds : Rm(id) /\ UNCHANGED sent
  \/ Emit /\ sent' = View(list)
  \/ Recv /\ sent' = MISSING

MCSpec == MCInit /\ [][MCNext]_mcvars

(* An EOL value of one byte (MS-NLMP wants none; add does not check), and *)
(* values of zero to two bytes.                                            *)
MCValues == {<<>>, <<7>>, <<7, 200>>}

Bytes(s) == \A k \in DOMAIN s : s[k] \in 0 .. 255
IsPair(p) ==
  /\ DOMAIN p = {"AvId", "AvLen", "Value"}
  /\ p.AvId \in 0 .. 65535 /\ p.AvLen \in 0 .. 65535 /\ Bytes(p.Value)
IsTable(t) ==
  /\ DOMAIN t = 0 .. AV_ID_MAX - 1
  /\ \A i \in DOMAIN t : t[i] = NULL \/ IsPair(t[i])

(* Both tables hold pairs at their own id, and an EOL pair, which emit    *)
(* dereferences without a check (the ASSUME in emit).                      *)
TypeOK ==
  /\ \A t \in {list, peer} :
       /\ IsTable(t)
       /\ t[MsvAvEOL] # NULL
       /\ \A i \in DOMAIN t : t[i] # NULL => t[i].AvId = i
  /\ Bytes(wire)
  /\ fault \subseteq {"overread", "list_oob"}

(* packet_length, which a caller uses to size the message before emit,    *)
(* is the number of bytes emit writes, whatever pairs were added,          *)
(* replaced and removed before.                                            *)
PacketLengthMatches == PacketLength(list) = Len(EmitBytes(list))

(* Reading what emit wrote, recv neither writes outside list[] nor reads   *)
(* past the end of the stream.                                             *)
RecvInBounds == fault = {}

(* The table implements AvPairsAbstract: add and rm update a dictionary,   *)
(* and a receiver reading the emitted stream with recv obtains exactly the *)
(* dictionary the sender held when it emitted.                              *)
Abs == INSTANCE AvPairsAbstract WITH
  Ids <- AvIds, dict <- View(list), msg <- sent, got <- View(peer)
AvPairsRefinement == Abs!Spec
=============================================================================
