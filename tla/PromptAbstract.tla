--------------------------- MODULE PromptAbstract ---------------------------
(***************************************************************************)
(* What the VNC password prompt promises, without bytes or pixels: the    *)
(* field holds a text of characters and a cursor between them; keys       *)
(* insert at the cursor, delete on either side of it or move it; ENTER    *)
(* hands the text, as the bytes of its characters, to the module as its   *)
(* password, and a rejected password brings back an empty field.         *)
(***************************************************************************)
EXTENDS Integers, Sequences, SequencesExt

CONSTANTS
  Chars,   \* characters, as their UTF-8 bytes
  Cap      \* most characters the field accepts

VARIABLES
  state,     \* "ASK_PASSWORD", "WAIT_PASSWORD", "RETRY_CONNECTION", "UP_AND_RUNNING"
  signal,    \* "none" or "BACK_EVENT_NEXT" once the user cancelled
  text,      \* the characters in the field
  cur,       \* the cursor: the number of characters before it
  password   \* the bytes submitted last

avars == <<state, signal, text, cur, password>>

Init ==
  /\ state = "ASK_PASSWORD" /\ signal = "none"
  /\ text = <<>> /\ cur = 0 /\ password = <<>>

Editing == state = "WAIT_PASSWORD" /\ signal = "none"

Ask ==
  /\ state = "ASK_PASSWORD" /\ signal = "none"
  /\ state' = "WAIT_PASSWORD" /\ text' = <<>> /\ cur' = 0
  /\ UNCHANGED <<signal, password>>

Insert(c) ==
  /\ Editing /\ Len(text) < Cap
  /\ text' = InsertAt(text, cur + 1, c)
  /\ cur' = cur + 1
  /\ UNCHANGED <<state, signal, password>>

EraseBefore ==
  /\ Editing /\ cur > 0
  /\ text' = RemoveAt(text, cur) /\ cur' = cur - 1
  /\ UNCHANGED <<state, signal, password>>

EraseAfter ==
  /\ Editing /\ cur < Len(text)
  /\ text' = RemoveAt(text, cur + 1)
  /\ UNCHANGED <<state, signal, cur, password>>

Move ==
  /\ Editing
  /\ cur' \in 0 .. Len(text)
  /\ UNCHANGED <<state, signal, text, password>>

Submit ==
  /\ Editing
  /\ password' = FlattenSeq(text) /\ state' = "RETRY_CONNECTION"
  /\ UNCHANGED <<signal, text, cur>>

Cancel ==
  /\ Editing
  /\ signal' = "BACK_EVENT_NEXT"
  /\ UNCHANGED <<state, text, cur, password>>

Answer ==
  /\ state = "RETRY_CONNECTION"
  /\ state' \in {"ASK_PASSWORD", "UP_AND_RUNNING"}
  /\ UNCHANGED <<signal, text, cur, password>>

Next ==
  \/ Ask \/ \E c \in Chars : Insert(c) \/ EraseBefore \/ EraseAfter
  \/ Move \/ Submit \/ Cancel \/ Answer

Spec == Init /\ [][Next]_avars
=============================================================================
