----------------------------- MODULE MetaWriter -----------------------------
(***************************************************************************)
(* detail::out_meta_sequence_filename_buf of                               *)
(* src/transport/detail/meta_writer.hpp, with the out_sequence_filename_buf *)
(* it extends: a recording written as a sequence of chunk files, each      *)
(* first written under a temporary name (mkostemps), then renamed to its   *)
(* final name by next(), which appends "<name> <start> <stop+1>" to the    *)
(* .mwrm index.  Files are names mapped to their content; the content of a *)
(* chunk is the set of seconds (stop_sec_ at the time of the write) whose  *)
(* data it holds.  rename, the writes and mkostemps may each fail.          *)
(*                                                                          *)
(* FilenameGenerator is not in this repository: get(i) is taken to return  *)
(* the name set by set_last_filename(i, name), and the final name of chunk *)
(* i for any other i.                                                      *)
(***************************************************************************)
EXTENDS Integers, Sequences, TLC, Functions

CONSTANTS
  MaxFiles,   \* chunks that may be completed (bound on num_file_)
  MaxTmps,    \* temporary files mkostemps may create
  MaxSec      \* seconds the caller's clock reaches

VARIABLES
  fs,                \* the directory: file name -> seconds of data held
  meta_exists,       \* the .mwrm file is still on disk
  index,             \* the .mwrm lines after the header, in order
  buf_open,          \* buf_.is_open()
  current_filename,  \* current_filename_
  num_file,          \* num_file_
  last,              \* the filegen_'s set_last_filename(num, name)
  start_sec, stop_sec,
  tmp_count,         \* temporary files created so far
  failed,            \* chunk numbers for which next() returned an error
  closed             \* close() or request_full_cleaning() was called

vars == <<fs, meta_exists, index, buf_open, current_filename, num_file, last,
          start_sec, stop_sec, tmp_count, failed, closed>>

(* (unsigned)-1, the filegen_'s "no number", held as its bit pattern read *)
(* as a signed 32-bit int, since TLC's integers stop at 2^31 - 1.  The    *)
(* only unsigned wrap the code reaches is num_file_ - 1 at 0.              *)
UINT_MAX == -1
UnsignedPred(n) == IF n = 0 THEN UINT_MAX ELSE n - 1

(* File names: a chunk's final name, and mkostemps' "<get(n)>red-XXXXXX  *)
(* .tmp" for chunk n, unique by the count t of temporary files.           *)
Chunk(k) == [kind |-> "chunk", id |-> k, num |-> k]
(* Mutant: the temporary name built on the previous chunk's name.        *)
TmpPrevChunk(t, n) == [kind |-> "tmp", id |-> t, num |-> n - 1]
Tmp(t, n) == [kind |-> "tmp", id |-> t, num |-> n]
(* The empty string, and the mkostemps template left on a failed open.    *)
NoName == [kind |-> "none", id |-> 0, num |-> 0]
Template == [kind |-> "template", id |-> 0, num |-> 0]

(* FilenameGenerator::get.                                                 *)
Get(i) == IF i = last.num THEN last.name ELSE Chunk(i)

(* The data of a write at the caller's current second, if it succeeded.   *)
Written(content, ok) == IF ok THEN content \cup {stop_sec} ELSE content

Init ==
  /\ fs = << >>
  /\ meta_exists = TRUE
  /\ index = << >>
  /\ buf_open = FALSE
  /\ current_filename = NoName
  /\ num_file = 0
  /\ last = [num |-> UINT_MAX, name |-> NoName]
  /\ start_sec = 0 /\ stop_sec = 0
  /\ tmp_count = 0
  /\ failed = {}
  /\ closed = FALSE

(* update_sec: the caller's clock, which never goes back.                  *)
UpdateSec(t) ==
  /\ ~closed /\ t >= stop_sec
  /\ stop_sec' = t
  /\ UNCHANGED <<fs, meta_exists, index, buf_open, current_filename, num_file,
                 last, start_sec, tmp_count, failed, closed>>

(* write with the chunk open: buf_.write.                                  *)
WriteData(ok) ==
  /\ ~closed /\ buf_open
  /\ fs' = [fs EXCEPT ![current_filename] = Written(@, ok)]
  /\ UNCHANGED <<meta_exists, index, buf_open, current_filename, num_file,
                 last, start_sec, stop_sec, tmp_count, failed, closed>>

(* write with no chunk open: open_filename creates a temporary file, marks *)
(* it as filegen_'s name for num_file_, then buf_.write.                   *)
OpenAndWrite(ok) ==
  /\ ~closed /\ ~buf_open /\ tmp_count < MaxTmps
  /\ fs' = fs @@ (Tmp(tmp_count, num_file) :> Written({}, ok))
  /\ current_filename' = Tmp(tmp_count, num_file)
  /\ last' = [num |-> num_file, name |-> Tmp(tmp_count, num_file)]
  /\ buf_open' = TRUE
  /\ tmp_count' = tmp_count + 1
  /\ UNCHANGED <<meta_exists, index, num_file, start_sec, stop_sec, failed,
                 closed>>

(* write with no chunk open and mkostemps failing: current_filename_ keeps *)
(* the template, and write returns the error.                              *)
OpenFails ==
  /\ ~closed /\ ~buf_open
  /\ current_filename' = Template
  /\ UNCHANGED <<fs, meta_exists, index, buf_open, num_file, last, start_sec,
                 stop_sec, tmp_count, failed, closed>>

(* Mutant: the sprintf without the +1 on the stop second.                *)
LineRangeNoSlack == [start |-> start_sec, stop |-> stop_sec]

(* The range next() writes after the chunk's name: " start stop+1".      *)
LineRange == [start |-> start_sec, stop |-> stop_sec + 1]

(* Mutant: only a negative write result is taken as an error.            *)
NextSucceedsOnShort(rename_ok, w1, w2) == rename_ok /\ w1 # "err" /\ w2 # "err"

(* next() returns 0: the rename and both index writes were whole.        *)
NextSucceeds(rename_ok, w1, w2) == rename_ok /\ w1 = "ok" /\ w2 = "ok"

(* rename_filename, with get_filename_generate: the temporary name is     *)
(* marked as filegen_'s name for num_file_, the file is renamed to get(   *)
(* num_file_), and on success current_filename_ is cleared, the chunk is   *)
(* counted and the mark is cleared.                                         *)
RenameFilename(rename_ok) ==
  IF ~rename_ok
  THEN /\ last' = [num |-> num_file, name |-> current_filename]
       /\ UNCHANGED <<fs, current_filename, num_file>>
  ELSE /\ fs' = Restrict(fs, DOMAIN fs \ {current_filename})
                @@ (Chunk(num_file) :> fs[current_filename])
       /\ current_filename' = NoName
       /\ num_file' = num_file + 1
       /\ last' = [num |-> UINT_MAX, name |-> NoName]

(* The effect of next() on an open chunk: close it, rename it, then write  *)
(* its name and " start stop+1\n" to the index, where w1 and w2 are the   *)
(* outcomes of the two writes ("short" for a partial write).  A torn line *)
(* is kept in the index as an incomplete entry; start_sec_ moves on only   *)
(* when next() succeeds.                                                    *)
NextEffect(rename_ok, w1, w2) ==
  LET entry == [num |-> num_file, start |-> LineRange.start,
                stop |-> LineRange.stop, complete |-> w1 = "ok" /\ w2 = "ok"]
  IN
  /\ buf_open' = FALSE
  /\ RenameFilename(rename_ok)
  /\ failed' = IF NextSucceeds(rename_ok, w1, w2) THEN failed
               ELSE failed \cup {num_file}
  /\ index' = IF rename_ok /\ w1 # "err" THEN Append(index, entry) ELSE index
  /\ start_sec' = IF NextSucceeds(rename_ok, w1, w2) THEN stop_sec ELSE start_sec

Outcomes == {"ok", "err", "short"}

(* next(): rotate to a new chunk.  With no chunk open it returns 1.        *)
NextChunk(rename_ok, w1, w2) ==
  /\ ~closed /\ buf_open /\ num_file < MaxFiles
  /\ NextEffect(rename_ok, w1, w2)
  /\ UNCHANGED <<meta_exists, stop_sec, tmp_count, closed>>

(* close(): next(), then the index is closed; the writer is done.          *)
Close(rename_ok, w1, w2) ==
  /\ ~closed
  /\ closed' = TRUE
  /\ \/ buf_open /\ NextEffect(rename_ok, w1, w2)
     \/ ~buf_open /\ UNCHANGED <<fs, index, buf_open, current_filename,
                                 num_file, last, start_sec, failed>>
  /\ UNCHANGED <<meta_exists, stop_sec, tmp_count>>

(* The names request_full_cleaning unlinks: get(num_file_), get(num_file_  *)
(* - 1), ... down to get(0), stopping at the first unlink that fails.      *)
RECURSIVE CleanFrom(_, _)
CleanFrom(files, i) ==
  IF i = 0 \/ Get(i - 1) \notin files THEN files
  ELSE CleanFrom(files \ {Get(i - 1)}, i - 1)

(* request_full_cleaning: unlink the chunks, close the chunk, unlink the   *)
(* index.  The recording is abandoned.                                      *)
RequestFullCleaning ==
  /\ ~closed
  /\ fs' = Restrict(fs, CleanFrom(DOMAIN fs, num_file + 1))
  /\ buf_open' = FALSE
  /\ meta_exists' = FALSE
  /\ closed' = TRUE
  /\ UNCHANGED <<index, current_filename, num_file, last, start_sec, stop_sec,
                 tmp_count, failed>>

(* current_path: null before any chunk, else get(num_file_ - 1) in        *)
(* unsigned arithmetic.                                                     *)
CurrentPath ==
  IF current_filename = NoName /\ num_file = 0 THEN NoName
  ELSE Get(UnsignedPred(num_file))

Next ==
  \/ \E t \in 0 .. MaxSec : UpdateSec(t)
  \/ \E ok \in BOOLEAN : WriteData(ok) \/ OpenAndWrite(ok)
  \/ OpenFails
  \/ \E r \in BOOLEAN, w1, w2 \in Outcomes : NextChunk(r, w1, w2) \/ Close(r, w1, w2)
  \/ RequestFullCleaning

Spec == Init /\ [][Next]_vars
=============================================================================
