-------------------------- MODULE AvPairsAbstract --------------------------
(***************************************************************************)
(* What an NTLM AV_PAIR list promises (MS-NLMP 2.2.2.1, quoted in         *)
(* ntlm_avpair.hpp): a dictionary from attribute ids to byte values, at   *)
(* most one value per id; the list sent is the dictionary at the time it  *)
(* is sent, and the receiver obtains exactly that dictionary, once.       *)
(***************************************************************************)
CONSTANTS
  Ids,       \* attribute ids other than MsvAvEOL
  Values,    \* values an attribute may hold
  MISSING    \* no value for the id

VARIABLES
  dict,    \* the sender's attributes
  msg,     \* the dictionary in the message on the way, or MISSING
  got      \* what the receiver obtained from the last message

avars == <<dict, msg, got>>

Empty == [i \in Ids |-> MISSING]

Init == dict = Empty /\ msg = MISSING /\ got = Empty

Put(i, v) ==
  /\ dict' = [dict EXCEPT ![i] = v]
  /\ UNCHANGED <<msg, got>>

Delete(i) ==
  /\ dict' = [dict EXCEPT ![i] = MISSING]
  /\ UNCHANGED <<msg, got>>

Send ==
  /\ msg' = dict
  /\ UNCHANGED <<dict, got>>

Receive ==
  /\ msg # MISSING
  /\ got' = msg /\ msg' = MISSING
  /\ UNCHANGED dict

Next ==
  \/ \E i \in Ids : \/ \E v \in Values : Put(i, v)
                    \/ Delete(i)
  \/ Send \/ Receive

Spec == Init /\ [][Next]_avars
=============================================================================
