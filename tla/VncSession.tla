----------------------------- MODULE VncSession -----------------------------
(***************************************************************************)
(* The connection life cycle of mod_vnc (src/mod/vnc/vnc.hpp): the state  *)
(* machine driven by draw_event, the login widget's notify, the front's   *)
(* rdp_input_up_and_running and rdp_input_invalidate, and the             *)
(* FramebufferUpdateRequest pacing of the steady state.                    *)
(*                                                                         *)
(* The VNC server is the environment: it answers the handshake, answers   *)
(* update requests with FramebufferUpdate messages and may send other      *)
(* messages at any time.  A FramebufferUpdate is decoded in one step that *)
(* may fail (ZrleDecoder models the decoding itself).                      *)
(***************************************************************************)
EXTENDS Integers, Sequences

CONSTANTS
  SecurityTypes,        \* security-type codes the server may announce
  IsSocketTransport,    \* is_socket_transport
  ServerMessages,       \* message types the server may send unasked
  MaxOutstanding,       \* bound on unanswered update requests
  MaxConnects,          \* bound on RETRY_CONNECTION reconnections
  MaxInbox              \* bound on server messages waiting to be read

ASSUME SecurityTypes \subseteq Int
ASSUME IsSocketTransport \in BOOLEAN

States == {"ASK_PASSWORD", "DO_INITIAL_CLEAR_SCREEN", "RETRY_CONNECTION",
           "UP_AND_RUNNING", "WAIT_PASSWORD", "WAIT_SECURITY_TYPES",
           "WAIT_CLIENT_UP_AND_RUNNING"}

VARIABLES
  state,        \* mod_vnc::state
  signal,       \* "none"; "next" once event.signal = BACK_EVENT_NEXT;
                \* "error" once an Error escaped to the caller
  connected,    \* the transport is connected
  outstanding,  \* update requests sent that the server has not answered
  inbox,        \* server messages sent and not yet read by the client
  auth,         \* outcome of the last security handshake (history)
  connects,     \* passwords submitted, each followed by a reconnection
  allow_retries \* allow_authentification_retries || !(*password), fixed
                \* when the module is built

vars == <<state, signal, connected, outstanding, inbox, auth, connects,
          allow_retries>>

Running == signal = "none"

(* Update requests not yet answered by a FramebufferUpdate the client has  *)
(* read: those the server still owes and the updates waiting in the inbox. *)
Unanswered ==
  outstanding + Len(SelectSeq(inbox, LAMBDA m : m = "update"))

(* A FramebufferUpdateRequest is put on the wire.                         *)
SendRequest == outstanding' = outstanding + 1

(* Mutants: lib_framebuffer_update without its closing update_screen, and  *)
(* with a second one.                                                      *)
RequestAfterUpdateDropped == UNCHANGED outstanding
RequestAfterUpdateTwice == outstanding' = outstanding + 2

(* The update_screen that ends lib_framebuffer_update.                    *)
RequestAfterUpdate == SendRequest

Init ==
  /\ state = "WAIT_SECURITY_TYPES"
  /\ signal = "none"
  /\ connected = TRUE
  /\ outstanding = 0
  /\ inbox = <<>>
  /\ auth = "none"
  /\ connects = 0
  /\ allow_retries \in BOOLEAN

(* draw_event in WAIT_SECURITY_TYPES: the whole handshake, from the       *)
(* version banner to ServerInit, SetPixelFormat, SetEncodings and the     *)
(* front's server_resize.  `sec` is the security type read, `verdict`    *)
(* the server's SecurityResult (0 is success), `lg` the name length and  *)
(* `resize` what front.server_resize returns.                             *)
SecurityHandshake(sec, verdict, lg, resize) ==
  LET failed == sec \in {2, -6} /\ verdict # 0 IN
  /\ auth' = IF sec \in {2, -6} THEN (IF failed THEN "failed" ELSE "ok") ELSE "none"
  /\ CASE sec = 2 /\ failed /\ allow_retries ->
            /\ connected' = FALSE
            /\ state' = "ASK_PASSWORD"
            /\ UNCHANGED signal
       [] sec = 2 /\ failed ->
            /\ signal' = "error"
            /\ UNCHANGED <<state, connected>>
          \* ms_logon logs a failed SecurityResult and returns; the server
          \* has closed the connection, so reading ServerInit throws.
       [] sec = -6 /\ failed ->
            /\ signal' = "error"
            /\ UNCHANGED <<state, connected>>
       [] sec \notin {1, 2, -6} \/ lg > 255 \/ resize = -1 ->
            /\ signal' = "error"
            /\ UNCHANGED <<state, connected>>
       [] resize = 0 ->
            /\ state' = "DO_INITIAL_CLEAR_SCREEN"
            /\ UNCHANGED <<signal, connected>>
       [] OTHER ->
            /\ state' = "WAIT_CLIENT_UP_AND_RUNNING"
            /\ UNCHANGED <<signal, connected>>

WaitSecurityTypes ==
  /\ Running /\ state = "WAIT_SECURITY_TYPES"
  /\ \E sec \in SecurityTypes, verdict \in {0, 1}, lg \in {0, 256},
        resize \in {0, 1, -1} :
       SecurityHandshake(sec, verdict, lg, resize)
  /\ UNCHANGED <<outstanding, inbox, connects, allow_retries>>

(* draw_event in ASK_PASSWORD: the password widget is shown.              *)
AskPassword ==
  /\ Running /\ state = "ASK_PASSWORD"
  /\ state' = "WAIT_PASSWORD"
  /\ UNCHANGED <<signal, connected, outstanding, inbox, auth, connects, allow_retries>>

(* notify(NOTIFY_SUBMIT) from the password widget.                        *)
SubmitPassword ==
  /\ Running /\ state = "WAIT_PASSWORD"
  /\ connects < MaxConnects
  /\ connects' = connects + 1
  /\ state' = "RETRY_CONNECTION"
  /\ UNCHANGED <<signal, connected, outstanding, inbox, auth, allow_retries>>

(* notify(NOTIFY_CANCEL): the module asks to be closed.                   *)
CancelPassword ==
  /\ Running /\ state = "WAIT_PASSWORD"
  /\ signal' = "next"
  /\ UNCHANGED <<state, connected, outstanding, inbox, auth, connects, allow_retries>>

(* draw_event in RETRY_CONNECTION: t.connect() on a fresh connection, or  *)
(* ERR_VNC_CONNECTION_ERROR.                                               *)
RetryConnection ==
  /\ Running /\ state = "RETRY_CONNECTION"
  /\ \/ /\ state' = "WAIT_SECURITY_TYPES"
        /\ connected' = TRUE
        /\ outstanding' = 0
        /\ inbox' = <<>>
        /\ UNCHANGED signal
     \/ /\ signal' = "error"
        /\ UNCHANGED <<state, connected, outstanding, inbox>>
  /\ UNCHANGED <<auth, connects, allow_retries>>

ClientUpAndRunning ==
  /\ Running /\ state = "WAIT_CLIENT_UP_AND_RUNNING"
  /\ state' = "DO_INITIAL_CLEAR_SCREEN"
  /\ UNCHANGED <<signal, connected, outstanding, inbox, auth, connects, allow_retries>>

(* draw_event in DO_INITIAL_CLEAR_SCREEN: pointer, black screen, state    *)
(* UP_AND_RUNNING, a full update request, the clipboard channel opened.   *)
InitialClearScreen ==
  /\ Running /\ state = "DO_INITIAL_CLEAR_SCREEN"
  /\ state' = "UP_AND_RUNNING"
  /\ SendRequest
  /\ UNCHANGED <<signal, connected, inbox, auth, connects, allow_retries>>

(* draw_event in UP_AND_RUNNING with data to read: one message is read    *)
(* and dispatched.  A FramebufferUpdate is decoded (or fails with an      *)
(* Error) and followed by the next update request; palette, clipboard    *)
(* and unknown messages send nothing; any Error ends the module with      *)
(* BACK_EVENT_NEXT.                                                        *)
ReadServerMessage ==
  /\ Running /\ state = "UP_AND_RUNNING"
  /\ IsSocketTransport /\ inbox # <<>>
  /\ inbox' = Tail(inbox)
  /\ \/ /\ Head(inbox) = "update"
        /\ RequestAfterUpdate
        /\ UNCHANGED signal
     \/ /\ Head(inbox) \in {"update", "palette", "cuttext", "closed"}
        /\ signal' = "next"
        /\ UNCHANGED outstanding
     \/ /\ Head(inbox) \in {"palette", "cuttext", "unknown"}
        /\ UNCHANGED <<signal, outstanding>>
  /\ UNCHANGED <<state, connected, auth, connects, allow_retries>>

(* draw_event in UP_AND_RUNNING with nothing to read (or a transport that *)
(* is not a socket): another incremental full-screen update request.      *)
PollScreen ==
  /\ Running /\ state = "UP_AND_RUNNING"
  /\ ~(IsSocketTransport /\ inbox # <<>>)
  /\ Unanswered < MaxOutstanding
  /\ SendRequest
  /\ UNCHANGED <<state, signal, connected, inbox, auth, connects, allow_retries>>

(* rdp_input_invalidate with a non-empty rectangle in UP_AND_RUNNING: a   *)
(* non-incremental update request.                                         *)
Invalidate ==
  /\ Running /\ state = "UP_AND_RUNNING"
  /\ Unanswered < MaxOutstanding
  /\ SendRequest
  /\ UNCHANGED <<state, signal, connected, inbox, auth, connects, allow_retries>>

(* The server answers one update request with a FramebufferUpdate.        *)
ServerSendsUpdate ==
  /\ connected /\ outstanding > 0 /\ Len(inbox) < MaxInbox
  /\ outstanding' = outstanding - 1
  /\ inbox' = Append(inbox, "update")
  /\ UNCHANGED <<state, signal, connected, auth, connects, allow_retries>>

(* The server sends a message nobody asked for, or closes the connection. *)
ServerSendsOther ==
  /\ connected /\ state = "UP_AND_RUNNING" /\ Len(inbox) < MaxInbox
  /\ \E m \in ServerMessages : inbox' = Append(inbox, m)
  /\ UNCHANGED <<state, signal, connected, outstanding, auth, connects, allow_retries>>

Next ==
  \/ WaitSecurityTypes \/ AskPassword \/ SubmitPassword \/ CancelPassword
  \/ RetryConnection \/ ClientUpAndRunning \/ InitialClearScreen
  \/ ReadServerMessage \/ PollScreen \/ Invalidate
  \/ ServerSendsUpdate \/ ServerSendsOther

Spec == Init /\ [][Next]_vars

(* Each state the handshake passes through is left by a step the module   *)
(* is bound to take: draw_event in RETRY_CONNECTION, WAIT_SECURITY_TYPES,  *)
(* ASK_PASSWORD and DO_INITIAL_CLEAR_SCREEN runs because the step that    *)
(* entered the state called event.set() (for the first handshake, the    *)
(* server's version banner makes the socket readable), and the front      *)
(* calls rdp_input_up_and_running once it has applied the resize.  The    *)
(* user (SubmitPassword, CancelPassword) and the server are not assumed   *)
(* to act.                                                                  *)
Fairness ==
  /\ WF_vars(RetryConnection) /\ WF_vars(WaitSecurityTypes)
  /\ WF_vars(AskPassword) /\ WF_vars(ClientUpAndRunning)
  /\ WF_vars(InitialClearScreen)

FairSpec == Spec /\ Fairness

-----------------------------------------------------------------------------
TypeOK ==
  /\ state \in States
  /\ signal \in {"none", "next", "error"}
  /\ connected \in BOOLEAN /\ allow_retries \in BOOLEAN
  /\ outstanding \in 0..MaxOutstanding
  /\ inbox \in Seq({"update"} \cup ServerMessages) /\ Len(inbox) <= MaxInbox
  /\ auth \in {"none", "ok", "failed"}
  /\ connects \in 0..MaxConnects

(* Self-pacing, lower half: while the module is UP_AND_RUNNING the server *)
(* always owes it an update, because DO_INITIAL_CLEAR_SCREEN sends the     *)
(* first request and lib_framebuffer_update ends with update_screen.      *)
AlwaysRequesting ==
  state = "UP_AND_RUNNING" /\ Running => Unanswered >= 1

(* The handshake always settles: from a reconnection, a security         *)
(* handshake of any type (none, VNC password, MS-Logon, rejection or an   *)
(* unknown code), a password retry or a resize, the module reaches a      *)
(* state where it waits for the user's password, runs the session, or    *)
(* has ended with BACK_EVENT_NEXT or an Error; it never stays in a state  *)
(* that nobody leaves.                                                      *)
Transient == {"RETRY_CONNECTION", "WAIT_SECURITY_TYPES", "ASK_PASSWORD",
              "WAIT_CLIENT_UP_AND_RUNNING", "DO_INITIAL_CLEAR_SCREEN"}

=============================================================================
