-------------------------- MODULE InputTranslator --------------------------
(***************************************************************************)
(* Keyboard and mouse input of mod_vnc: rdp_input_scancode with its held- *)
(* back left Ctrl (a left Ctrl directly followed by AltGr is the client's *)
(* AltGr emulation and is not forwarded), send_keyevent, rdp_input_mouse  *)
(* and mod_vnc::Mouse.  KeymapSym is not in this repository: a scancode   *)
(* is taken to give the same keysym when pressed and released, or none.   *)
(* Pointer positions are left out; only button masks are kept.            *)
(***************************************************************************)
EXTENDS Naturals, Sequences, FiniteSets

CONSTANTS
  Keys,         \* keysyms of ordinary keys
  NoSym,        \* a scancode for which keymapSym yields no keysym
  MouseEvents   \* RDP pointer events the client may send

LCtrl == 65507   \* 0xffe3
AltGr == 65027   \* 0xfe03
Syms == Keys \cup {LCtrl, AltGr}

VARIABLES
  state,              \* "WAIT_PASSWORD" or "UP_AND_RUNNING"
  left_ctrl_pressed,  \* a left Ctrl press is held back
  mod_mouse_state,    \* Mouse::mod_mouse_state, as the set of its bits
  sent,               \* the KeyEvents <<down, keysym>> sent by the last step
  server_keys,        \* the keysyms the VNC server holds down
  server_buttons,     \* the button mask of the last PointerEvent
  held,               \* keys the client holds, pressed while UP_AND_RUNNING
  buttons             \* RDP buttons the client holds, pressed while UP_AND_RUNNING

vars == <<state, left_ctrl_pressed, mod_mouse_state, sent, server_keys,
          server_buttons, held, buttons>>

(* The VNC server's key state after the KeyEvents evs.                     *)
RECURSIVE ServerAfter(_, _)
ServerAfter(ks, evs) ==
  IF evs = <<>> THEN ks
  ELSE ServerAfter(IF Head(evs)[1] THEN ks \cup {Head(evs)[2]}
                   ELSE ks \ {Head(evs)[2]}, Tail(evs))

Init ==
  /\ state = "WAIT_PASSWORD"
  /\ left_ctrl_pressed = FALSE
  /\ mod_mouse_state = {}
  /\ sent = <<>>
  /\ server_keys = {} /\ server_buttons = {}
  /\ held = {} /\ buttons = {}

(* The session reaches UP_AND_RUNNING.                                      *)
SessionUp ==
  /\ state = "WAIT_PASSWORD"
  /\ state' = "UP_AND_RUNNING"
  /\ sent' = <<>>
  /\ UNCHANGED <<left_ctrl_pressed, mod_mouse_state, server_keys,
                 server_buttons, held, buttons>>

(* The KeyEvents rdp_input_scancode sends for keysym key, and the new     *)
(* left_ctrl_pressed.                                                      *)
KeyEventsNoReset(down, key, lcp) ==
  IF lcp
  THEN IF key = AltGr THEN [evs |-> <<<<down, key>>>>, lcp |-> TRUE]
       ELSE [evs |-> <<<<TRUE, LCtrl>>, <<down, key>>>>, lcp |-> TRUE]
  ELSE IF ~(key = LCtrl /\ down) THEN [evs |-> <<<<down, key>>>>, lcp |-> FALSE]
  ELSE [evs |-> <<>>, lcp |-> TRUE]

KeyEvents(down, key, lcp) ==
  IF lcp
  THEN IF key = AltGr THEN [evs |-> <<<<down, key>>>>, lcp |-> FALSE]
       ELSE [evs |-> <<<<TRUE, LCtrl>>, <<down, key>>>>, lcp |-> FALSE]
  ELSE IF ~(key = LCtrl /\ down) THEN [evs |-> <<<<down, key>>>>, lcp |-> FALSE]
  ELSE [evs |-> <<>>, lcp |-> TRUE]

(* A key press or release from the RDP client: in WAIT_PASSWORD it goes  *)
(* to the login widget, in other states other than UP_AND_RUNNING it is  *)
(* dropped; a scancode without keysym sends nothing.  The client may release *)
(* any key, including one it pressed before UP_AND_RUNNING.                *)
Scancode ==
  \E k \in Syms \cup {NoSym}, down \in BOOLEAN :
    /\ held' = IF down /\ state = "UP_AND_RUNNING" /\ k # NoSym THEN held \cup {k}
               ELSE held \ {k}
    /\ IF state = "UP_AND_RUNNING" /\ k # NoSym
       THEN LET r == KeyEvents(down, k, left_ctrl_pressed)
            IN /\ sent' = r.evs
               /\ server_keys' = ServerAfter(server_keys, r.evs)
               /\ left_ctrl_pressed' = r.lcp
       ELSE /\ sent' = <<>>
            /\ UNCHANGED <<server_keys, left_ctrl_pressed>>
    /\ UNCHANGED <<state, mod_mouse_state, server_buttons, buttons>>

(* The VNC button bit of an RDP button: BUTTON1 is 1 << 0, BUTTON2 (right)  *)
(* is 1 << 2, BUTTON3 (middle) is 1 << 1.                                  *)
VncBitBadMiddle(b) == CASE b = 1 -> 1 [] b = 2 -> 4 [] b = 3 -> 8
VncBit(b) == CASE b = 1 -> 1 [] b = 2 -> 4 [] b = 3 -> 2

(* Mouse::scroll: a PointerEvent with the wheel bit, then one without.     *)
ScrollNoRelease(mask, bit) == <<mask \cup {bit}>>
Scroll(mask, bit) == <<mask \cup {bit}, mask>>

(* rdp_input_mouse: only the first of move, BUTTON1, BUTTON2, BUTTON3,    *)
(* wheel forward (8) and wheel back (16) present in the event is handled. *)
(* An event is [move, btns, down, wheel] with wheel 0 for none or for a   *)
(* rotation the code does not recognise.                                   *)
MouseInput ==
  \E e \in MouseEvents :
    /\ buttons' = IF state # "UP_AND_RUNNING" THEN buttons \ (IF e.down THEN {} ELSE e.btns)
                  ELSE IF e.down THEN buttons \cup e.btns ELSE buttons \ e.btns
    /\ IF state # "UP_AND_RUNNING"
       THEN UNCHANGED <<mod_mouse_state, server_buttons>>
       ELSE LET b     == CHOOSE x \in e.btns : \A y \in e.btns : x <= y
                mask  == IF e.down THEN mod_mouse_state \cup {VncBit(b)}
                         ELSE mod_mouse_state \ {VncBit(b)}
                sends == IF e.move THEN <<mod_mouse_state>>
                         ELSE IF e.btns # {} THEN <<mask>>
                         ELSE IF e.wheel = 4 THEN Scroll(mod_mouse_state, 8)
                         ELSE IF e.wheel = 5 THEN Scroll(mod_mouse_state, 16)
                         ELSE <<>>
            IN /\ mod_mouse_state' = IF ~e.move /\ e.btns # {} THEN mask
                                     ELSE mod_mouse_state
               /\ server_buttons' = IF sends = <<>> THEN server_buttons
                                    ELSE sends[Len(sends)]
    /\ sent' = <<>>
    /\ UNCHANGED <<state, left_ctrl_pressed, server_keys, held>>

Next == SessionUp \/ Scancode \/ MouseInput

Spec == Init /\ [][Next]_vars

(* Every variable has its type.                                            *)
TypeOK ==
  /\ state \in {"WAIT_PASSWORD", "UP_AND_RUNNING"}
  /\ left_ctrl_pressed \in BOOLEAN
  /\ mod_mouse_state \subseteq {1, 2, 4}
  /\ server_buttons \subseteq {1, 2, 4, 8, 16}
  /\ server_keys \subseteq Syms /\ held \subseteq Syms \cup {NoSym}
  /\ buttons \subseteq {1, 2, 3}

(* No key is left down on the VNC server: the server holds only keys the *)
(* client holds, whatever the order of presses, releases, the held-back  *)
(* left Ctrl and AltGr in rdp_input_scancode.                             *)
NoStuckKeys == server_keys \subseteq held

(* The VNC server's button mask is the client's buttons after each event *)
(* of the session (rdp_input_mouse, Mouse::click and Mouse::scroll).       *)
ButtonsInSync ==
  state = "UP_AND_RUNNING" => server_buttons = {VncBit(b) : b \in buttons}
=============================================================================
