--------------------------- MODULE PasswordPrompt ---------------------------
(***************************************************************************)
(* The VNC password prompt: mod_vnc's ASK_PASSWORD and WAIT_PASSWORD      *)
(* states (draw_event, notify in src/mod/vnc/vnc.hpp) around the password *)
(* field of FlatVNCAuthentification (flat_vnc_authentification.hpp),      *)
(* whose editing is WidgetEdit's.  In WAIT_PASSWORD the RDP input goes    *)
(* through the WidgetScreen to the focused field; ESC is taken by         *)
(* FlatVNCAuthentification, ENTER comes back from the field as            *)
(* NOTIFY_SUBMIT.  The reconnection that follows a submit is VncSession's *)
(* and is taken here as its outcome: the password rejected (back to       *)
(* ASK_PASSWORD) or the session up.  The field is a WidgetEditValid,      *)
(* which is not in this repository; its editing is taken to be           *)
(* WidgetEdit's.  Paste, copy and cut only notify the dialog, which       *)
(* ignores them.                                                           *)
(***************************************************************************)
EXTENDS WidgetEdit

CONSTANTS Clicks   \* click offsets, in pixels from the start of the text

VARIABLES
  state,     \* mod_vnc::state
  signal,    \* event.signal: "none" or "BACK_EVENT_NEXT"
  password   \* mod_vnc::password, as the bytes before its NUL

vars == <<wvars, state, signal, password>>

(* The text of label.buffer, as its bytes and as its characters.          *)
TextBytes(b) == [i \in 1 .. StrLen(b, 0) |-> b[i - 1]]

(* The characters of the string from i, each as its bytes.               *)
RECURSIVE CharsFrom(_, _)
CharsFrom(b, i) ==
  IF b[i] = 0 THEN <<>>
  ELSE LET n == UTF8GetPos(b, i, 1)
       IN <<[k \in 1 .. n |-> b[i + k - 1]]>> \o CharsFrom(b, i + n)

TextChars(b) == CharsFrom(b, 0)

PInit ==
  /\ Init
  /\ state = "ASK_PASSWORD" /\ signal = "none" /\ password = <<>>

(* draw_event in ASK_PASSWORD: the dialog is shown, the field emptied     *)
(* with set_text("") and focused, and the module waits for the password. *)
AskPassword ==
  /\ state = "ASK_PASSWORD" /\ signal = "none"
  /\ SetTextEmpty
  /\ state' = "WAIT_PASSWORD"
  /\ UNCHANGED <<signal, password>>

Editing == state = "WAIT_PASSWORD" /\ signal = "none" /\ ~oob

(* A key the field handles.                                                *)
EditKey ==
  /\ Editing
  /\ \/ MoveLeft \/ MoveRight \/ KeyHome \/ KeyEnd \/ Backspace \/ Delete
     \/ \E c \in Chars : TypeChar(c)
  /\ UNCHANGED <<state, signal, password>>

(* BUTTON1 down inside the field.                                          *)
ClickField ==
  /\ Editing
  /\ \E x \in Clicks : Click(x)
  /\ UNCHANGED <<state, signal, password>>

(* KEVENT_ENTER: NOTIFY_SUBMIT reaches mod_vnc::notify, which copies at   *)
(* most 255 bytes of the field's text into password and goes to          *)
(* RETRY_CONNECTION.                                                      *)
Submit ==
  /\ Editing
  /\ password' = SubSeq(TextBytes(buf), 1, IF StrLen(buf, 0) < 255 THEN StrLen(buf, 0) ELSE 255)
  /\ state' = "RETRY_CONNECTION"
  /\ UNCHANGED <<wvars, signal>>

(* KEVENT_ESC: FlatVNCAuthentification sends NOTIFY_CANCEL and the module *)
(* signals BACK_EVENT_NEXT.                                                *)
Cancel ==
  /\ Editing
  /\ signal' = "BACK_EVENT_NEXT"
  /\ UNCHANGED <<wvars, state, password>>

(* The reconnection with the password: rejected, or the session is up.    *)
Answer ==
  /\ state = "RETRY_CONNECTION" /\ signal = "none"
  /\ state' \in {"ASK_PASSWORD", "UP_AND_RUNNING"}
  /\ UNCHANGED <<wvars, signal, password>>

PNext == AskPassword \/ EditKey \/ ClickField \/ Submit \/ Cancel \/ Answer

PSpec == PInit /\ [][PNext]_vars

Abs == INSTANCE PromptAbstract WITH
         Cap <- LabelBuf - 5, text <- TextChars(buf), cur <- edit_pos

(* Every variable has its type; the field never holds more characters     *)
(* than KEVENT_KEY's bound num_chars < LabelBuf - 5 lets in.              *)
TypeOK ==
  /\ buf \in [Idx -> 0 .. 255]
  /\ {buffer_size, edit_pos, edit_buffer_pos, cursor_px_pos, w_text} \subseteq Nat
  /\ num_chars \in 0 .. LabelBuf - 5
  /\ oob \in BOOLEAN
  /\ state \in {"ASK_PASSWORD", "WAIT_PASSWORD", "RETRY_CONNECTION", "UP_AND_RUNNING"}
  /\ signal \in {"none", "BACK_EVENT_NEXT"}

(* The field's counters describe its buffer after any sequence of keys    *)
(* and clicks: buffer_size is the text's byte length, num_chars its       *)
(* length in characters, and edit_buffer_pos the byte offset of the       *)
(* edit_pos-th character, which lies within the text.  Each KEVENT case   *)
(* and the click scan update them separately from the bytes they change.  *)
CountersMatchText ==
  /\ buffer_size = StrLen(buf, 0)
  /\ num_chars = UTF8Len(buf)
  /\ edit_pos <= num_chars
  /\ edit_buffer_pos = UTF8GetPos(buf, 0, edit_pos)

(* The cursor is drawn where the text before it ends, and w_text is the   *)
(* text's width: the pixel offsets that increment_edit_pos,               *)
(* decrement_edit_pos, BACKSPACE, DELETE and the click scan add and       *)
(* subtract stay equal to text_metrics of the buffer.                     *)
CursorAtPixel ==
  /\ cursor_px_pos = Width(buf, 0, edit_buffer_pos)
  /\ w_text = Width(buf, 0, LabelBuf)

(* No handler reads or writes outside label.buffer: decrement_edit_pos's  *)
(* unbounded scan back, utf8len_current_char's scan forward and the click *)
(* scan stay inside the array.                                             *)
BufferAccessInBounds == ~oob

(* The prompt implements PromptAbstract: the field edits a text of        *)
(* characters with a cursor, and the password mod_vnc::notify copies is   *)
(* that text, whatever keys, clicks and rejected attempts came before.    *)
PromptRefinement == Abs!Spec
=============================================================================
