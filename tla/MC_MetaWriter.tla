--------------------------- MODULE MC_MetaWriter ---------------------------
(***************************************************************************)
(* Model checking MetaWriter: a caller writes data, moves its clock on,    *)
(* rotates chunks with next() and ends with close() or                      *)
(* request_full_cleaning(), in any order, while mkostemps, rename and the   *)
(* writes to the chunk and to the index may each fail.  The recorder's      *)
(* get_file_count (AppRecorder) reads the index the writer leaves.          *)
(***************************************************************************)
EXTENDS MetaWriter, AppRecorder

Kinds == {"chunk", "tmp", "none", "template"}
IsName(n) == n.kind \in Kinds /\ n.id \in Nat /\ n.num \in Nat

(* Every variable has its type, and an open chunk is a temporary file of  *)
(* the chunk num_file_ that is on disk.                                     *)
TypeOK ==
  /\ \A f \in DOMAIN fs : IsName(f) /\ f.kind \in {"chunk", "tmp"}
                          /\ fs[f] \subseteq 0 .. MaxSec
  /\ \A i \in DOMAIN index :
       index[i].num \in Nat /\ index[i].complete \in BOOLEAN
  /\ num_file \in 0 .. MaxFiles + 1 /\ tmp_count \in 0 .. MaxTmps
  /\ {start_sec, stop_sec} \subseteq 0 .. MaxSec
  /\ failed \subseteq 0 .. MaxFiles
  /\ buf_open => /\ current_filename \in DOMAIN fs
                 /\ current_filename.kind = "tmp"
                 /\ current_filename.num = num_file

(* The chunk numbers on a whole line of the index.                         *)
Indexed == {index[i].num : i \in {j \in DOMAIN index : index[j].complete}}

(* While the recording is kept, every file in the directory is accounted  *)
(* for: it is the chunk being written, or a chunk on a whole line of the   *)
(* index, or a chunk for which next() or close() returned an error; and    *)
(* every whole line names a chunk file on disk.  A rename or an index      *)
(* write failing between the steps of next() must not leave a file the     *)
(* index misses without the caller being told.                             *)
IndexConsistent ==
  meta_exists =>
    /\ \A f \in DOMAIN fs :
         \/ buf_open /\ f = current_filename
         \/ f.kind = "chunk" /\ f.num \in Indexed
         \/ f.num \in failed
    /\ \A k \in Indexed : Chunk(k) \in DOMAIN fs

(* Every second of data held by a chunk on a whole line of the index lies *)
(* in the range "start stop+1" that line gives it, across rotations at the *)
(* same second and next() calls whose index write failed.                  *)
ChunkTimesIndexed ==
  \A i \in DOMAIN index :
    (index[i].complete /\ Chunk(index[i].num) \in DOMAIN fs)
      => \A t \in fs[Chunk(index[i].num)] : index[i].start <= t /\ t < index[i].stop
(* The seconds of data held by the chunk on line i of the index.           *)
LineData(i) == IF Chunk(index[i].num) \in DOMAIN fs THEN fs[Chunk(index[i].num)] ELSE {}

(* The recorder's seek into what the writer wrote misses no data: for any *)
(* start second b, the chunks get_file_count skips hold only data before b *)
(* (all of them when it finds no chunk ending after b), and no chunk holds *)
(* data at or after its end_record.  Both rest on the writer's "stop+1"    *)
(* and the reader's ">=" agreeing, across rotations within one second.     *)
SeekSkipsNoData ==
  (meta_exists /\ index # << >> /\ \A i \in DOMAIN index : index[i].complete) =>
    /\ \A b \in 1 .. MaxSec :
         LET r == GetFileCount(index, b)
             skipped == IF r.ok THEN 1 .. r.seqno - 1 ELSE DOMAIN index
         IN \A i \in skipped : \A t \in LineData(i) : t < b
    /\ \A i \in DOMAIN index : \A t \in LineData(i) :
         t < GetFileCount(index, 0).end_record
=============================================================================
