---------------------------- MODULE ZrleAbstract ----------------------------
(***************************************************************************)
(* What decoding a ZRLE rectangle promises (spec.md, sections 4.3 and 8): *)
(* the tiles the server encoded are drawn in order, each exactly once and *)
(* with its own pixels, whatever the points at which the decompressed      *)
(* stream was cut into buffers; the rectangle ends only once all of them  *)
(* are drawn; decoding may instead stop on a fatal error.                  *)
(***************************************************************************)
EXTENDS Naturals, Sequences

VARIABLES
  want,    \* the tiles the server encoded for the current rectangle
  shown,   \* the tiles drawn so far
  status   \* "idle", "busy" or "failed"

Init == status = "idle" /\ shown = <<>>

(* A new rectangle starts: any tiles may be wanted.                        *)
Begin ==
  /\ status = "idle"
  /\ status' = "busy"
  /\ shown' = <<>>

(* Some further tiles, the next ones in order, are drawn.                  *)
Show ==
  /\ status = "busy"
  /\ \E k \in (Len(shown) + 1)..Len(want) : shown' = SubSeq(want, 1, k)
  /\ UNCHANGED <<want, status>>

(* The rectangle ends once every wanted tile is drawn.                     *)
Finish ==
  /\ status = "busy"
  /\ shown = want
  /\ status' = "idle"
  /\ UNCHANGED <<want, shown>>

(* Decoding stops on a fatal error, possibly after drawing further tiles  *)
(* in order, or before the rectangle's first tile (a rejected compressed  *)
(* length).                                                                *)
Abort ==
  /\ status # "failed"
  /\ status' = "failed"
  /\ IF status = "idle" THEN shown' = <<>>
     ELSE \E k \in Len(shown)..Len(want) : shown' = SubSeq(want, 1, k)

Next == Begin \/ Show \/ Finish \/ Abort

Spec == Init /\ [][Next]_<<want, shown, status>>
=============================================================================
