----------------------------- MODULE WidgetEdit -----------------------------
(***************************************************************************)
(* WidgetEdit (src/mod/internal/widget2/edit.hpp): a one-line text field   *)
(* over the NUL-terminated UTF-8 array label.buffer of LabelBuf bytes.    *)
(* The widget keeps the text's byte length (buffer_size), its length in   *)
(* characters (num_chars), the cursor as a character index (edit_pos) and *)
(* as a byte offset (edit_buffer_pos), and the pixel offsets of the       *)
(* cursor and of the text end (cursor_px_pos, w_text).                    *)
(*                                                                         *)
(* The array is kept whole, bytes after the NUL included, because the     *)
(* handlers read them.  A read or write outside the array sets oob; what  *)
(* the program does afterwards is undefined and the widget stops there.   *)
(* The UTF-8 helpers of utf.hpp and text_metrics are not in this          *)
(* repository: UTF8GetPos, UTF8InsertOneAtPos and UTF8RemoveOneAtPos are  *)
(* modelled by what their callers rely on, and a text's width is the sum  *)
(* of GlyphWidth over the lead bytes of its characters.  Drawing is left  *)
(* out.                                                                    *)
(***************************************************************************)
EXTENDS Integers, Sequences

CONSTANTS
  LabelBuf,       \* WidgetLabel::buffer_size (256)
  Chars,          \* characters the keymap may deliver, as their UTF-8 bytes
  GlyphWidth(_)   \* pixel width of the character a lead byte starts

VARIABLES
  buf,              \* label.buffer, a function 0..LabelBuf-1 -> bytes
  buffer_size,
  num_chars,
  edit_pos,
  edit_buffer_pos,
  cursor_px_pos,
  w_text,
  oob               \* an access outside label.buffer happened

wvars == <<buf, buffer_size, num_chars, edit_pos, edit_buffer_pos,
           cursor_px_pos, w_text, oob>>

Idx == 0 .. LabelBuf - 1

(* A UTF-8 continuation byte: (b & 0xC0) == 0x80.                          *)
IsCont(b) == b \in 128 .. 191

(* The index of the NUL ending the string at i.                          *)
RECURSIVE StrEnd(_, _)
StrEnd(b, i) == IF i >= LabelBuf - 1 \/ b[i] = 0 THEN i ELSE StrEnd(b, i + 1)

(* strlen of the string starting at p.                                     *)
StrLen(b, p) == StrEnd(b, p) - p

(* The loop of UTF8GetPos from index i: n more lead bytes to pass; it     *)
(* stops on the lead byte after them, or on the NUL.                      *)
RECURSIVE GetPosFrom(_, _, _)
GetPosFrom(b, i, n) ==
  IF b[i] = 0 THEN i
  ELSE IF IsCont(b[i]) THEN GetPosFrom(b, i + 1, n)
  ELSE IF n = 0 THEN i
  ELSE GetPosFrom(b, i + 1, n - 1)

(* UTF8GetPos(b + p, n): the byte offset of the n-th character after p,   *)
(* or strlen when the string has no more characters.                      *)
UTF8GetPos(b, p, n) == GetPosFrom(b, p, n) - p

(* UTF8Len: the lead bytes before the NUL.                                 *)
RECURSIVE LeadsFrom(_, _)
LeadsFrom(b, i) ==
  IF b[i] = 0 THEN 0 ELSE (IF IsCont(b[i]) THEN 0 ELSE 1) + LeadsFrom(b, i + 1)

UTF8Len(b) == LeadsFrom(b, 0)

(* text_metrics of the bytes p .. q-1 (the code puts a NUL at q first).    *)
RECURSIVE Width(_, _, _)
Width(b, p, q) ==
  IF p >= q \/ b[p] = 0 THEN 0
  ELSE (IF IsCont(b[p]) THEN 0 ELSE GlyphWidth(b[p])) + Width(b, p + 1, q)

(* The bytes cs inserted at p, the rest of the string and its NUL moved.  *)
InsertBytes(b, p, cs) ==
  [i \in Idx |-> IF i < p THEN b[i]
                 ELSE IF i < p + Len(cs) THEN cs[i - p + 1]
                 ELSE IF i <= p + StrLen(b, p) + Len(cs) THEN b[i - Len(cs)]
                 ELSE b[i]]

(* UTF8InsertOneAtPos(b + p, 0, c, room): c is inserted when the rest of  *)
(* the string, c and the NUL fit in room bytes; otherwise nothing changes.*)
UTF8InsertOneAtPos(b, p, c, room) ==
  LET q == p + UTF8GetPos(b, p, 0)
  IN IF StrLen(b, q) + Len(c) + 1 > room - (q - p) THEN b
     ELSE InsertBytes(b, q, c)

(* UTF8RemoveOneAtPos(b + p, 0): the character at p is removed and the    *)
(* rest of the string, NUL included, moves down; bytes after it are left. *)
UTF8RemoveOneAtPos(b, p) ==
  LET q    == p + UTF8GetPos(b, p, 0)
      n    == UTF8GetPos(b, q, 1)
      tail == StrLen(b, q + n)
  IN [i \in Idx |-> IF i >= q /\ i <= q + tail THEN b[i + n] ELSE b[i]]

(* utf8len_current_char from the cursor e: 1 plus the continuation bytes *)
(* after it, LabelBuf - e when the scan runs off the array.               *)
RECURSIVE CurLenFrom(_, _)
CurLenFrom(b, i) == IF i >= LabelBuf \/ ~IsCont(b[i]) THEN i ELSE CurLenFrom(b, i + 1)

CurLen(b, e) == CurLenFrom(b, e + 1) - e

(* The length decrement_edit_pos steps back over from the cursor e: 1     *)
(* plus the continuation bytes before it.  Its loop has no lower bound    *)
(* (the check is commented out): 0 when it would read before the array.  *)
RECURSIVE BackFrom(_, _)
BackFrom(b, i) == IF i < 0 THEN i ELSE IF IsCont(b[i]) THEN BackFrom(b, i - 1) ELSE i

BackLen(b, e) == IF BackFrom(b, e - 1) < 0 THEN 0 ELSE e - BackFrom(b, e - 1)

Init ==
  /\ buf = [i \in Idx |-> 0]
  /\ buffer_size = 0 /\ num_chars = 0
  /\ edit_pos = 0 /\ edit_buffer_pos = 0
  /\ cursor_px_pos = 0 /\ w_text = 0
  /\ oob = FALSE

(* Mutant: the counters are reset but the old text keeps its first byte. *)
SetTextEmptyNoNul ==
  /\ buffer_size' = 0 /\ num_chars' = 0 /\ w_text' = 0
  /\ edit_pos' = 0 /\ edit_buffer_pos' = 0 /\ cursor_px_pos' = 0
  /\ UNCHANGED <<buf, oob>>

(* set_text(""): the first byte becomes the NUL, counters and cursor go   *)
(* to 0; the other bytes are left as they were.                           *)
SetTextEmpty ==
  /\ buf' = [buf EXCEPT ![0] = 0]
  /\ buffer_size' = 0 /\ num_chars' = 0 /\ w_text' = 0
  /\ edit_pos' = 0 /\ edit_buffer_pos' = 0 /\ cursor_px_pos' = 0
  /\ UNCHANGED oob

(* increment_edit_pos: one character right, over UTF8GetPos(.., 1) bytes. *)
(* It returns the bytes and the pixels it moved over.                     *)
IncrementEditPos(b) ==
  LET n == UTF8GetPos(b, edit_buffer_pos, 1)
  IN [bytes |-> n, px |-> Width(b, edit_buffer_pos, edit_buffer_pos + n)]

(* Mutant: the edit_pos > 0 test dropped.                                 *)
MoveLeftUnguarded ==
  LET len == BackLen(buf, edit_buffer_pos)
  IN IF len = 0
     THEN /\ oob' = TRUE
          /\ UNCHANGED <<buf, buffer_size, num_chars, edit_pos, edit_buffer_pos,
                         cursor_px_pos, w_text>>
     ELSE /\ edit_pos' = edit_pos - 1
          /\ cursor_px_pos' = cursor_px_pos - Width(buf, edit_buffer_pos - len, edit_buffer_pos)
          /\ edit_buffer_pos' = edit_buffer_pos - len
          /\ UNCHANGED <<buf, buffer_size, num_chars, w_text, oob>>

(* KEVENT_LEFT_ARROW / KEVENT_UP_ARROW: decrement_edit_pos when edit_pos  *)
(* is not 0.                                                              *)
MoveLeft ==
  /\ edit_pos > 0
  /\ LET len == BackLen(buf, edit_buffer_pos)
     IN IF len = 0
        THEN /\ oob' = TRUE
             /\ UNCHANGED <<buf, buffer_size, num_chars, edit_pos, edit_buffer_pos,
                            cursor_px_pos, w_text>>
        ELSE /\ edit_pos' = edit_pos - 1
             /\ cursor_px_pos' = cursor_px_pos
                                   - Width(buf, edit_buffer_pos - len, edit_buffer_pos)
             /\ edit_buffer_pos' = edit_buffer_pos - len
             /\ UNCHANGED <<buf, buffer_size, num_chars, w_text, oob>>

(* KEVENT_RIGHT_ARROW / KEVENT_DOWN_ARROW.                                *)
MoveRight ==
  /\ edit_pos < num_chars
  /\ LET r == IncrementEditPos(buf)
     IN /\ edit_pos' = edit_pos + 1
        /\ cursor_px_pos' = cursor_px_pos + r.px
        /\ edit_buffer_pos' = edit_buffer_pos + r.bytes
  /\ UNCHANGED <<buf, buffer_size, num_chars, w_text, oob>>

(* KEVENT_END: move_to_last_character when the cursor is not at the end. *)
KeyEnd ==
  /\ edit_pos < num_chars
  /\ edit_pos' = num_chars /\ edit_buffer_pos' = buffer_size
  /\ cursor_px_pos' = w_text
  /\ UNCHANGED <<buf, buffer_size, num_chars, w_text, oob>>

(* KEVENT_HOME: move_to_first_character when edit_pos is not 0.           *)
KeyHome ==
  /\ edit_pos # 0
  /\ edit_pos' = 0 /\ edit_buffer_pos' = 0 /\ cursor_px_pos' = 0
  /\ UNCHANGED <<buf, buffer_size, num_chars, w_text, oob>>

(* Mutant: num_chars is not decremented.                                  *)
BackspaceNoCount ==
  /\ edit_pos > 0
  /\ LET len == BackLen(buf, edit_buffer_pos)
         w   == Width(buf, edit_buffer_pos - len, edit_buffer_pos)
     IN /\ len # 0
        /\ edit_pos' = edit_pos - 1 /\ edit_buffer_pos' = edit_buffer_pos - len
        /\ cursor_px_pos' = cursor_px_pos - w
        /\ buf' = UTF8RemoveOneAtPos(buf, edit_buffer_pos - len)
        /\ buffer_size' = buffer_size - len /\ w_text' = w_text - w
        /\ UNCHANGED <<num_chars, oob>>

(* KEVENT_BACKSPACE: num_chars is decremented, decrement_edit_pos moves   *)
(* the cursor back one character, the character there is removed, and    *)
(* buffer_size and w_text shrink by what the cursor moved over.           *)
Backspace ==
  /\ edit_pos > 0
  /\ LET len == BackLen(buf, edit_buffer_pos)
         w   == Width(buf, edit_buffer_pos - len, edit_buffer_pos)
     IN IF len = 0
        THEN /\ oob' = TRUE
             /\ UNCHANGED <<buf, buffer_size, num_chars, edit_pos, edit_buffer_pos,
                            cursor_px_pos, w_text>>
        ELSE /\ num_chars' = num_chars - 1
             /\ edit_pos' = edit_pos - 1
             /\ edit_buffer_pos' = edit_buffer_pos - len
             /\ cursor_px_pos' = cursor_px_pos - w
             /\ buf' = UTF8RemoveOneAtPos(buf, edit_buffer_pos - len)
             /\ buffer_size' = buffer_size - len
             /\ w_text' = w_text - w
             /\ UNCHANGED oob

(* Mutant: w_text is not reduced by the deleted character's width.        *)
DeleteKeepsWidth ==
  /\ edit_pos < num_chars
  /\ LET len == CurLen(buf, edit_buffer_pos)
     IN /\ edit_buffer_pos + len < LabelBuf
        /\ buf' = UTF8RemoveOneAtPos(buf, edit_buffer_pos)
        /\ buffer_size' = buffer_size - len /\ num_chars' = num_chars - 1
        /\ UNCHANGED <<edit_pos, edit_buffer_pos, cursor_px_pos, w_text, oob>>

(* KEVENT_DELETE: when the cursor is not at the end, the character under  *)
(* it (utf8len_current_char bytes, which writes a NUL after them) is      *)
(* measured and removed.                                                  *)
Delete ==
  /\ edit_pos < num_chars
  /\ LET len == CurLen(buf, edit_buffer_pos)
         w   == Width(buf, edit_buffer_pos, edit_buffer_pos + len)
     IN IF edit_buffer_pos + len >= LabelBuf
        THEN /\ oob' = TRUE
             /\ UNCHANGED <<buf, buffer_size, num_chars, edit_pos, edit_buffer_pos,
                            cursor_px_pos, w_text>>
        ELSE /\ buf' = UTF8RemoveOneAtPos(buf, edit_buffer_pos)
             /\ buffer_size' = buffer_size - len
             /\ num_chars' = num_chars - 1
             /\ w_text' = w_text - w
             /\ UNCHANGED <<edit_pos, edit_buffer_pos, cursor_px_pos, oob>>

(* Mutant: the bound num_chars <= LabelBuf - 5.                           *)
TypeCharOffByOne(c) ==
  /\ num_chars <= LabelBuf - 5
  /\ LET b == UTF8InsertOneAtPos(buf, edit_buffer_pos, c, LabelBuf - 1 - edit_buffer_pos)
         r == IncrementEditPos(b)
     IN /\ buf' = b /\ edit_pos' = edit_pos + 1
        /\ edit_buffer_pos' = edit_buffer_pos + r.bytes
        /\ cursor_px_pos' = cursor_px_pos + r.px
        /\ buffer_size' = buffer_size + r.bytes /\ num_chars' = num_chars + 1
        /\ w_text' = w_text + r.px
  /\ UNCHANGED oob

(* KEVENT_KEY while num_chars < LabelBuf - 5: the character is inserted   *)
(* at the cursor with room LabelBuf - 1 - edit_buffer_pos, then           *)
(* increment_edit_pos runs, and buffer_size, num_chars and w_text grow by *)
(* what the cursor moved over, whether or not the insertion happened.     *)
TypeChar(c) ==
  /\ num_chars < LabelBuf - 5
  /\ LET b == UTF8InsertOneAtPos(buf, edit_buffer_pos, c, LabelBuf - 1 - edit_buffer_pos)
         r == IncrementEditPos(b)
     IN /\ buf' = b
        /\ edit_pos' = edit_pos + 1
        /\ edit_buffer_pos' = edit_buffer_pos + r.bytes
        /\ cursor_px_pos' = cursor_px_pos + r.px
        /\ buffer_size' = buffer_size + r.bytes
        /\ num_chars' = num_chars + 1
        /\ w_text' = w_text + r.px
  /\ UNCHANGED oob

(* The scan of rdp_input_mouse for a click x pixels into the text: from   *)
(* the first character, add each character's width until the sum reaches *)
(* x.  After each step the width is taken over len bytes, the length of   *)
(* the character just passed.  It returns the cursor it stops at, or      *)
(* oob when buffer[e + len] lies outside the array.                       *)
RECURSIVE ClickScan(_, _, _, _, _)
ClickScan(e, ep, len, xx, x) ==
  IF e >= buffer_size THEN [oob |-> FALSE, e |-> e, ep |-> ep, xx |-> xx]
  ELSE IF e + len >= LabelBuf THEN [oob |-> TRUE, e |-> e, ep |-> ep, xx |-> xx]
  ELSE LET w == Width(buf, e, e + len)
       IN IF xx + w >= x THEN [oob |-> FALSE, e |-> e, ep |-> ep, xx |-> xx]
          ELSE LET l2 == CurLen(buf, e)
               IN ClickScan(e + l2, ep + 1, l2, xx + w, x)

(* BUTTON1 down at x pixels from the start of the text: before the text   *)
(* moves to the first character, past its end to the last, inside it the *)
(* cursor goes where ClickScan stops.                                      *)
Click(x) ==
  /\ \/ /\ x <= 0 /\ edit_pos # 0
        /\ edit_pos' = 0 /\ edit_buffer_pos' = 0 /\ cursor_px_pos' = 0
        /\ UNCHANGED oob
     \/ /\ x > 0 /\ x >= w_text /\ edit_pos < num_chars
        /\ edit_pos' = num_chars /\ edit_buffer_pos' = buffer_size
        /\ cursor_px_pos' = w_text
        /\ UNCHANGED oob
     \/ /\ x > 0 /\ x < w_text
        /\ LET r == ClickScan(0, 0, CurLen(buf, 0), 0, x)
           IN /\ oob' = r.oob
              /\ edit_pos' = IF r.oob THEN edit_pos ELSE r.ep
              /\ edit_buffer_pos' = IF r.oob THEN edit_buffer_pos ELSE r.e
              /\ cursor_px_pos' = IF r.oob THEN cursor_px_pos ELSE r.xx
  /\ UNCHANGED <<buf, buffer_size, num_chars, w_text>>
=============================================================================
