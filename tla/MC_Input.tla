------------------------------ MODULE MC_Input ------------------------------
(***************************************************************************)
(* RDP pointer events for model checking InputTranslator.                 *)
(***************************************************************************)
EXTENDS InputTranslator

Ev(mv, bs, dn, wh) == [move |-> mv, btns |-> bs, down |-> dn, wheel |-> wh]

(* What RDP clients send: a move, one button pressed or released, a wheel *)
(* step forward or back, or a wheel rotation the code does not recognise. *)
SingleFlagEvents ==
  {Ev(TRUE, {}, FALSE, 0)}
  \cup {Ev(FALSE, {b}, d, 0) : b \in {1, 2, 3}, d \in BOOLEAN}
  \cup {Ev(FALSE, {}, FALSE, w) : w \in {0, 4, 5}}

=============================================================================
