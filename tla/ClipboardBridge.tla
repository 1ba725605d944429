--------------------------- MODULE ClipboardBridge ---------------------------
(***************************************************************************)
(* The clipboard bridge of mod_vnc (src/mod/vnc/vnc.hpp) while the module *)
(* is UP_AND_RUNNING: ServerCutText from the VNC server (lib_clip_data),  *)
(* and the cliprdr channel PDUs from the RDP front (send_to_vnc), with    *)
(* the chunked FORMAT_DATA_RESPONSE accumulated in                        *)
(* to_vnc_large_clipboard_data and the pre-built response in               *)
(* to_rdp_clipboard_data streamed back in chunks.                          *)
(*                                                                         *)
(* A channel PDU is a sequence of symbols: its first symbol stands for the *)
(* 8-byte clipboard header ("h5" a FORMAT_DATA_RESPONSE, "h5fail" one     *)
(* with a failed status, "h2" a FORMAT_LIST, "h4" a FORMAT_DATA_REQUEST,   *)
(* "h10" a type the module does not handle), the others for text units.   *)
(***************************************************************************)
EXTENDS Naturals, Sequences, SequencesExt

CONSTANTS
  Symbols,      \* text units of clipboard contents
  MaxText,      \* longest clipboard text either side copies
  MaxClip,      \* MAX_VNC_2_RDP_CLIP_DATA_SIZE
  ChunkLen,     \* CHANNELS::CHANNEL_CHUNK_LENGTH
  AccCap,       \* capacity of to_vnc_large_clipboard_data
  MaxEvents     \* bound on the copies and PDUs of one behaviour

(* FORMAT_LIST with and without a text format, FORMAT_DATA_REQUEST for    *)
(* CF_UNICODETEXT and for another format, FORMAT_DATA_RESPONSE with an OK  *)
(* and with a failed status, and a type send_to_vnc has no case for.      *)
Headers == {"h2", "h2n", "h4", "h4x", "h5", "h5fail", "h10"}

Texts == UNION {[1..n -> Symbols] : n \in 0..MaxText}

MinN(a, b) == IF a <= b THEN a ELSE b

(* How the front cuts a PDU into virtual channel chunks of ChunkLen        *)
(* symbols, flagged CHANNEL_FLAG_FIRST and CHANNEL_FLAG_LAST.              *)
RECURSIVE Chunks(_, _)
Chunks(pdu, first) ==
  LET sz   == MinN(ChunkLen, Len(pdu))
      rest == Len(pdu) - sz
  IN <<[data |-> SubSeq(pdu, 1, sz), first |-> first, last |-> rest = 0]>>
       \o (IF rest = 0 THEN <<>> ELSE Chunks(SubSeq(pdu, sz + 1, Len(pdu)), FALSE))

VARIABLES
  enable_in,      \* enable_clipboard_in: RDP to VNC direction
  enable_out,     \* enable_clipboard_out: VNC to RDP direction
  has_channel,    \* get_channel_by_name(cliprdr) finds the channel
  to_rdp,         \* to_rdp_clipboard_data: the pre-built response PDU
  acc,            \* to_vnc_large_clipboard_data up to its write position
  front_tx,       \* chunks of the front's PDU not yet delivered
  requested,      \* the module asked the front for its text
  offered,        \* the front was sent a FORMAT_LIST for the server's copy
  reply,          \* chunks of the module's last answer to a data request
  vnc_clip,       \* text of the last ClientCutText sent to the server
  server_clip,    \* text of the last ServerCutText (history)
  pasted,         \* text of the front's last FORMAT_DATA_RESPONSE (history)
  signal,         \* "none", or "error" once send_to_vnc threw
  events          \* copies and PDUs so far

vars == <<enable_in, enable_out, has_channel, to_rdp, acc, front_tx,
          requested, offered, reply, vnc_clip, server_clip, pasted, signal,
          events>>

Init ==
  /\ enable_in \in BOOLEAN /\ enable_out \in BOOLEAN
  /\ has_channel \in BOOLEAN
  /\ to_rdp = <<>>
  /\ acc = <<>>
  /\ front_tx = <<>>
  /\ requested = FALSE /\ offered = FALSE
  /\ reply = <<>>
  /\ vnc_clip = <<"none">>
  /\ server_clip = <<"none">>
  /\ pasted = <<"none">>
  /\ signal = "none"
  /\ events = 0

Running == signal = "none" /\ events < MaxEvents
Config == <<enable_in, enable_out, has_channel>>
Tick == events' = events + 1

(* lib_clip_data: a ServerCutText of `text`.  The first MaxClip units are  *)
(* kept when either direction is enabled and packaged as a                 *)
(* FORMAT_DATA_RESPONSE (empty text when VNC to RDP is off); the rest is  *)
(* drained; a FORMAT_LIST is sent when the RDP to VNC direction is on and  *)
(* the channel exists.                                                     *)
ServerCutText(text) ==
  /\ Running
  /\ to_rdp' = IF enable_in \/ enable_out
               THEN <<"h5">> \o (IF enable_out
                                 THEN SubSeq(text, 1, MinN(Len(text), MaxClip))
                                 ELSE <<>>)
               ELSE to_rdp
  /\ offered' = (enable_in /\ has_channel)
  /\ server_clip' = text
  /\ Tick
  /\ UNCHANGED <<Config, acc, front_tx, requested, reply, vnc_clip, pasted,
                 signal>>

(* The front starts sending one clipboard PDU.  A FORMAT_DATA_RESPONSE     *)
(* answers the module's request; the other PDUs are single chunks.         *)
FrontSends(pdu) ==
  /\ Running /\ front_tx = <<>>
  /\ front_tx' = Chunks(pdu, TRUE)
  /\ Tick
  /\ UNCHANGED <<Config, to_rdp, acc, offered, reply, vnc_clip, server_clip,
                 signal>>

(* The front answers the module's request with its clipboard text.       *)
FrontPaste ==
  /\ requested
  /\ \E text \in Texts :
       /\ FrontSends(<<"h5">> \o text)
       /\ pasted' = text
  /\ requested' = FALSE

FrontOtherPdu ==
  /\ \E h \in Headers \ {"h5"} : FrontSends(<<h>>)
  /\ UNCHANGED <<requested, pasted>>

(* Mutant: CHANNEL_FLAG_FIRST never cleared after the first chunk.         *)
RECURSIVE ResponseChunksStickyFirst(_, _)
ResponseChunksStickyFirst(pdu, first) ==
  LET chunk_size == MinN(ChunkLen, Len(pdu))
      PDU_remain == Len(pdu) - chunk_size
  IN <<[data |-> SubSeq(pdu, 1, chunk_size), first |-> first,
        last |-> PDU_remain = 0]>>
       \o IF PDU_remain = 0 THEN <<>>
          ELSE ResponseChunksStickyFirst(SubSeq(pdu, chunk_size + 1, Len(pdu)), first)

(* The do-while loop of the CB_FORMAT_DATA_REQUEST case: to_rdp cut into   *)
(* chunks of at most ChunkLen, FIRST kept only on the first one, LAST set  *)
(* once nothing remains.  An empty PDU gives one empty chunk.              *)
RECURSIVE ResponseChunks(_, _)
ResponseChunks(pdu, first) ==
  LET chunk_size == MinN(ChunkLen, Len(pdu))
      PDU_remain == Len(pdu) - chunk_size
  IN <<[data |-> SubSeq(pdu, 1, chunk_size), first |-> first,
        last |-> PDU_remain = 0]>>
       \o IF PDU_remain = 0 THEN <<>>
          ELSE ResponseChunks(SubSeq(pdu, chunk_size + 1, Len(pdu)), FALSE)

(* Mutant: the copy not cut to the tailroom.                               *)
AccumulateUncapped(buf, data) == buf \o data

(* The accumulator after copying `data`, cut to its tailroom.              *)
Accumulate(buf, data) == buf \o SubSeq(data, 1, MinN(Len(data), AccCap - Len(buf)))

(* Mutant: the FIRST chunk appended to what the accumulator holds.        *)
StartAccumulationNoInit(data) == Accumulate(acc, data)

(* The FIRST chunk of a FORMAT_DATA_RESPONSE: init() then the copy.        *)
StartAccumulation(data) == Accumulate(<<>>, data)

(* send_to_vnc on the next chunk from the front, dispatched on the msgType *)
(* read from its first two bytes.                                          *)
ReceiveChunk ==
  /\ signal = "none" /\ front_tx # <<>>
  /\ front_tx' = Tail(front_tx)
  /\ LET c == Head(front_tx)
         h == c.data[1]
     IN CASE h = "h2" ->
               /\ requested' = (requested \/ enable_in)
               /\ UNCHANGED <<acc, reply, vnc_clip, signal>>
          [] h = "h4" ->
               /\ reply' = ResponseChunks(to_rdp, TRUE)
               /\ UNCHANGED <<acc, requested, vnc_clip, signal>>
          [] h = "h5" /\ c.last ->
               /\ vnc_clip' = IF enable_in THEN Tail(c.data) ELSE vnc_clip
               /\ UNCHANGED <<acc, requested, reply, signal>>
          [] h = "h5" /\ ~c.first ->
               /\ signal' = "error"
               /\ UNCHANGED <<acc, requested, reply, vnc_clip>>
          [] h = "h5" ->
               /\ acc' = IF enable_in THEN StartAccumulation(Tail(c.data)) ELSE acc
               /\ UNCHANGED <<requested, reply, vnc_clip, signal>>
          [] h \in {"h2n", "h4x", "h5fail"} \/ acc = <<>> ->
               UNCHANGED <<acc, requested, reply, vnc_clip, signal>>
          [] c.first ->
               /\ signal' = "error"
               /\ UNCHANGED <<acc, requested, reply, vnc_clip>>
          [] OTHER ->
               /\ acc' = Accumulate(acc, c.data)
               /\ vnc_clip' = IF c.last THEN acc' ELSE vnc_clip
               /\ UNCHANGED <<requested, reply, signal>>
  /\ UNCHANGED <<Config, to_rdp, offered, server_clip, pasted, events>>

Next ==
  \/ \E text \in Texts : ServerCutText(text)
  \/ FrontPaste \/ FrontOtherPdu \/ ReceiveChunk

Spec == Init /\ [][Next]_vars

-----------------------------------------------------------------------------
Chunk == [data : Seq(Headers \cup Symbols), first : BOOLEAN, last : BOOLEAN]

TypeOK ==
  /\ Config \in BOOLEAN \X BOOLEAN \X BOOLEAN
  /\ to_rdp \in Seq(Headers \cup Symbols) /\ acc \in Seq(Symbols)
  /\ Len(acc) <= AccCap
  /\ front_tx \in Seq(Chunk) /\ reply \in Seq(Chunk)
  /\ requested \in BOOLEAN /\ offered \in BOOLEAN
  /\ {vnc_clip, server_clip, pasted} \subseteq Texts \cup {<<"none">>}
  /\ signal \in {"none", "error"} /\ events \in 0..MaxEvents

(* What the VNC server should receive for a pasted text: all of it when    *)
(* the FORMAT_DATA_RESPONSE fits one chunk, else what the accumulator can  *)
(* hold.                                                                   *)
Delivered(text) ==
  IF Len(text) + 1 <= ChunkLen THEN text
  ELSE SubSeq(text, 1, MinN(Len(text), AccCap))

(* Pasting into the VNC session: once the front has finished sending a    *)
(* FORMAT_DATA_RESPONSE, one chunk or several, the last ClientCutText the *)
(* module sent carries that text: no earlier paste's data is mixed in and *)
(* no chunk is lost (send_to_vnc, the CB_FORMAT_DATA_RESPONSE case and    *)
(* the continuation chunks of its default case).                           *)
PasteDelivered ==
  enable_in /\ front_tx = <<>> /\ pasted # <<"none">> /\ signal = "none"
    => vnc_clip = Delivered(pasted)

(* A data request from the front that the module is answering.            *)
Answering == front_tx # <<>> /\ Head(front_tx).data = <<"h4">>

(* The response to the front's request is the server's last copy in       *)
(* well-formed chunks: put back together it is the header and the first   *)
(* MaxClip units of the last ServerCutText (nothing when VNC to RDP is     *)
(* off), FIRST is set on the first chunk only and LAST on the last only,  *)
(* and no chunk is larger than CHANNEL_CHUNK_LENGTH (lib_clip_data and the *)
(* CB_FORMAT_DATA_REQUEST loop of send_to_vnc).                            *)
ResponseMatchesServerCopy ==
  [][Answering /\ front_tx' = Tail(front_tx) /\ server_clip # <<"none">>
     /\ (enable_in \/ enable_out) =>
       /\ FlattenSeq([i \in DOMAIN reply' |-> reply'[i].data])
            = <<"h5">> \o (IF enable_out
                           THEN SubSeq(server_clip, 1, MinN(Len(server_clip), MaxClip))
                           ELSE <<>>)
       /\ \A i \in DOMAIN reply' :
            /\ reply'[i].first <=> i = 1
            /\ reply'[i].last <=> i = Len(reply')
            /\ Len(reply'[i].data) <= ChunkLen]_vars

(* A single-chunk PDU of a type send_to_vnc does not handle is logged and  *)
(* dropped; it is inside no open accumulation once the previous response  *)
(* has had its LAST chunk.                                                 *)
UnhandledPduIgnored ==
  [][front_tx # <<>> /\ Head(front_tx) = [data |-> <<"h10">>, first |-> TRUE,
                                          last |-> TRUE]
       => signal' = "none"]_vars
=============================================================================
