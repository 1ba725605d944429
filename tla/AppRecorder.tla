---------------------------- MODULE AppRecorder ----------------------------
(***************************************************************************)
(* get_file_count of src/utils/apps/app_recorder.hpp: the recorder's seek  *)
(* into a recording, over the lines of its .mwrm index.  The index is a    *)
(* sequence of [num, start, stop, complete] lines as MetaWriter writes      *)
(* them.  InMetaSequenceTransport is not in this repository: next() is     *)
(* taken to move to the following line, throwing ERR_TRANSPORT_NO_MORE_DATA *)
(* after the last, begin_chunk_time and end_chunk_time to be the line's     *)
(* two times, and get_seqno its position.                                   *)
(***************************************************************************)
EXTENDS Integers, Sequences

(* "less than 1 year means we are given a time relative to beginning of   *)
(* movie".                                                                  *)
OneYear == 31536000

(* Mutant: the loop stops at a chunk only if the time is before its end   *)
(* less one second.                                                         *)
RECURSIVE SeekFromEarly(_, _, _)
SeekFromEarly(idx, b, i) ==
  IF i > Len(idx) THEN 0
  ELSE IF b >= idx[i].stop - 1 THEN SeekFromEarly(idx, b, i + 1) ELSE i

(* while (begin_cap >= end_chunk_time()) next(): the position of the first *)
(* line from i whose end is after b, or 0 when next() runs out of lines.   *)
RECURSIVE SeekFrom(_, _, _)
SeekFrom(idx, b, i) ==
  IF i > Len(idx) THEN 0
  ELSE IF b >= idx[i].stop THEN SeekFrom(idx, b, i + 1) ELSE i

(* get_file_count: a relative begin_cap is made absolute with the first    *)
(* chunk's start; the result is the seqno of the chunk replay starts from, *)
(* or ok = FALSE when ERR_TRANSPORT_NO_MORE_DATA escapes (an empty index,  *)
(* or a begin_cap past the last chunk).  end_record is the last line's end.*)
GetFileCount(idx, begin_cap) ==
  IF idx = << >> THEN [ok |-> FALSE, seqno |-> 0, end_record |-> 0]
  ELSE LET b == IF begin_cap # 0 /\ begin_cap < OneYear
                THEN begin_cap + idx[1].start ELSE begin_cap
           i == SeekFrom(idx, b, 1)
       IN [ok |-> i # 0, seqno |-> i, end_record |-> idx[Len(idx)].stop]
=============================================================================
