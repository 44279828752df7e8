------------------------------- MODULE LogStream -------------------------------
(***************************************************************************)
(* One stream (stdout or stderr) of one task on its way from the file the  *)
(* task process writes to the copy in the control plane: the incremental   *)
(* upload with acknowledged offsets on the node (log_pump), and the        *)
(* handler of /task-log-chunk, which trims what it has already and refuses *)
(* gaps, truncated streams and chunks beyond the storage quota.            *)
(*                                                                         *)
(* A character is its position in the text, from 1, and one byte; offsets  *)
(* count characters.  The preview is left out.  The agent may die anywhere and   *)
(* start again.  The commit of the row may fail when the stored file has   *)
(* been appended to or deleted already (the server dies, or the database   *)
(* stays locked past busy_timeout), and the file stays as it has become.   *)
(*                                                                         *)
(* The retention job may delete the stream under the node; when it does,   *)
(* and what else the task stores, is in TaskFiles.                         *)
(***************************************************************************)
EXTENDS Naturals, Sequences, FiniteSets

CONSTANTS MaxText,     \* bound on the characters the process writes
          ChunkSize,   \* LOG_CHUNK_SIZE
          StreamMax,   \* task_log_stream_max_bytes
          MaxFailures, \* bound on the failed commits of the server
          MaxStops     \* bound on the deaths of the agent

ASSUME LogStreamAssumption ==
    /\ MaxText \in Nat
    /\ ChunkSize \in Nat \ {0}
    /\ StreamMax \in Nat \ {0}
    /\ MaxFailures \in Nat
    /\ MaxStops \in Nat

VARIABLES
    written,   \* characters in the node's file
    over,      \* the process has ended
    acked,     \* acked_offset in log_offsets.json
    pc,        \* where the agent is with this stream
    slice,     \* the text being sent, from offset `from' up to `upto'; is it the final
               \* upload, and was the process still alive when it was read
    row,       \* the task_logs row: does it exist, last_offset, is_truncated, and is
               \* center_log_path set
    stored,    \* the characters of the log file
    archived,  \* the characters of its archives, one after the other
    full,      \* the storage quota is used up
    pruned,    \* the retention has deleted the stream at some time
    failures,  \* failed commits so far
    stops      \* deaths of the agent so far

agentVars == <<acked, pc, slice, stops>>
storeVars == <<stored, archived>>
serverVars == <<row, storeVars, failures, pruned>>
processVars == <<written, over>>
vars == <<processVars, agentVars, serverVars, full>>

NoSlice == [from |-> 0, upto |-> 0, final |-> FALSE, live |-> FALSE]
NoRow == [exists |-> FALSE, last |-> 0, truncated |-> FALSE, path |-> FALSE]

TypeOK ==
    /\ written \in 0..MaxText
    /\ over \in BOOLEAN
    /\ acked \in 0..MaxText
    /\ pc \in {"idle", "send", "uploaded", "reported", "filed", "cleared", "forgotten"}
    /\ slice \in [from: 0..MaxText, upto: 0..MaxText, final: BOOLEAN, live: BOOLEAN]
    /\ row \in [exists: BOOLEAN, last: 0..MaxText, truncated: BOOLEAN, path: BOOLEAN]
    /\ stored \in Seq(1..MaxText)
    /\ archived \in Seq(1..MaxText)
    /\ full \in BOOLEAN
    /\ pruned \in BOOLEAN
    /\ failures \in 0..MaxFailures
    /\ stops \in 0..MaxStops

Init ==
    /\ written = 0
    /\ over = FALSE
    /\ acked = 0
    /\ pc = "idle"
    /\ slice = NoSlice
    /\ row = NoRow
    /\ stored = <<>>
    /\ archived = <<>>
    /\ full = FALSE
    /\ pruned = FALSE
    /\ failures = 0
    /\ stops = 0

--------------------------------------------------------------------------------
(* The process, and the storage it shares with every other task. *)

Write ==
    /\ ~over
    /\ written < MaxText
    /\ written' = written + 1
    /\ UNCHANGED <<over, agentVars, serverVars, full>>

End ==
    /\ ~over
    /\ over' = TRUE
    /\ UNCHANGED <<written, agentVars, serverVars, full>>

Storage ==
    /\ full' = ~full
    /\ UNCHANGED <<processVars, agentVars, serverVars>>

--------------------------------------------------------------------------------
(* The node: upload_incremental_logs, at every cycle and once more to finalize. *)

\* The process was started by this agent, and not by one that died.
Attended == stops = 0

\* read_text_slice from the acknowledged offset.  A stream without news is left
\* alone, unless this is the final upload, which sends an empty chunk.  Only the
\* agent that started the process uploads while it runs; recover_orphaned_task goes
\* straight to the final upload, the process being alive or not.
Read(final) ==
    /\ pc = "idle"
    /\ IF final THEN over \/ ~Attended ELSE Attended /\ acked < written
    /\ slice' = [from |-> acked, upto |-> written, final |-> final, live |-> ~over]
    /\ pc' = "send"
    /\ UNCHANGED <<acked, stops, processVars, serverVars, full>>

ChunkEnd == IF slice.from + ChunkSize < slice.upto THEN slice.from + ChunkSize ELSE slice.upto

\* Breaks CompleteWhenForgotten: every chunk of the final upload is taken for the last.
Acknowledged_FirstIsLast ==
    /\ acked' = ChunkEnd
    /\ slice' = [slice EXCEPT !.from = ChunkEnd]
    /\ pc' = IF slice.final THEN "uploaded" ELSE IF ChunkEnd < slice.upto THEN "send" ELSE "idle"
    /\ UNCHANGED stops

\* The reply has come: the offset is saved, and the next chunk is sent if any.
Acknowledged ==
    /\ acked' = ChunkEnd
    /\ slice' = [slice EXCEPT !.from = ChunkEnd]
    /\ pc' = IF ChunkEnd < slice.upto THEN "send"
             ELSE IF slice.final THEN "uploaded" ELSE "idle"
    /\ UNCHANGED stops

\* Breaks AckedIsStored: the offset is saved before the reply is there.
Unanswered_Acked ==
    (pc' = pc \/ pc' = "idle") /\ acked' = ChunkEnd /\ UNCHANGED <<slice, stops>>

\* The chunk is sent again by post_signed_json, or in the next cycle.
Unanswered == (pc' = pc \/ pc' = "idle") /\ UNCHANGED <<acked, slice, stops>>

Refused == pc' = "idle" /\ UNCHANGED <<acked, slice, stops>>

--------------------------------------------------------------------------------
(* The control plane: task_log_chunk. *)

\* The characters from offset `from' up to offset `upto'.
Text(from, upto) == [i \in 1..(upto - from) |-> from + i]

Later(a, b) == IF a < b THEN b ELSE a

\* Breaks StoredExactly: a chunk sent again is stored again.
News_NoOverlap == Text(slice.from, ChunkEnd)

\* What of the chunk the row does not have yet.
News == Text(Later(slice.from, row.last), Later(ChunkEnd, row.last))

\* Breaks ForgottenUnlessRefused: a chunk that was stored, and is sent again, is refused.
Fits_Exactly == slice.from = row.last

\* A first chunk starts at 0, a later one not after last_offset.
Fits == IF row.exists THEN slice.from <= row.last ELSE slice.from = 0

Exceeds == News # <<>> /\ full

\* append_log_chunk and rotate_log_stream: each time the file reaches its maximum its
\* text goes to a new archive.
AppendNews ==
    LET text == stored \o News
        cut == Len(text) - (Len(text) % StreamMax)
    IN  /\ archived' = archived \o SubSeq(text, 1, cut)
        /\ stored' = SubSeq(text, cut + 1, Len(text))

\* The chunk is stored and the row committed; the reply may be lost.
Store ==
    /\ pc = "send"
    /\ Fits /\ ~row.truncated /\ ~Exceeds
    /\ AppendNews
    /\ row' = [exists |-> TRUE, last |-> Later(row.last, ChunkEnd),
               truncated |-> FALSE, path |-> TRUE]
    /\ Acknowledged \/ Unanswered
    /\ UNCHANGED <<processVars, failures, pruned, full>>

\* append_log_chunk has written the file, and the commit fails.
StoreHalf ==
    /\ pc = "send"
    /\ Fits /\ ~row.truncated /\ ~Exceeds
    /\ failures < MaxFailures
    /\ failures' = failures + 1
    /\ AppendNews
    /\ Unanswered
    /\ UNCHANGED <<processVars, row, pruned, full>>

\* mark_log_truncated, and 507; a row it makes has no center_log_path.
Truncate ==
    /\ pc = "send"
    /\ Fits /\ ~row.truncated /\ Exceeds
    /\ row' = [row EXCEPT !.exists = TRUE, !.truncated = TRUE]
    /\ Refused
    /\ UNCHANGED <<processVars, storeVars, failures, pruned, full>>

\* 409 for a gap, 507 for a truncated stream.
Refuse ==
    /\ pc = "send"
    /\ ~Fits \/ row.truncated
    /\ Refused
    /\ UNCHANGED <<processVars, serverVars, full>>

--------------------------------------------------------------------------------
(* The retention: _prune_old_task_logs. *)

\* The file center_log_path names is deleted, and none of its archives ...
DeleteFile ==
    /\ stored' = IF row.path THEN <<>> ELSE stored
    /\ pruned' = TRUE
    /\ UNCHANGED archived

\* ... then the row ...
Prune ==
    /\ row.exists
    /\ DeleteFile
    /\ row' = NoRow
    /\ UNCHANGED <<processVars, agentVars, failures, full>>

\* ... or the row stays, its commit having failed.
PruneHalf ==
    /\ row.exists
    /\ failures < MaxFailures
    /\ failures' = failures + 1
    /\ DeleteFile
    /\ UNCHANGED <<processVars, agentVars, row, full>>

--------------------------------------------------------------------------------
(* The end of the task on the node: finalize_background_task. *)

\* send_task_result is accepted, perhaps as a duplicate ...
Report ==
    /\ pc = "uploaded"
    /\ pc' = "reported"
    /\ UNCHANGED <<acked, slice, stops, processVars, serverVars, full>>

\* ... and then send_artifact_file.
Filed ==
    /\ pc = "reported"
    /\ pc' = "filed"
    /\ UNCHANGED <<acked, slice, stops, processVars>>

\* One of the two fails: finalize again, from the upload on.
FinalizeAgain ==
    /\ pc \in {"uploaded", "reported"}
    /\ pc' = "idle"
    /\ UNCHANGED <<acked, slice, stops, processVars>>

\* clear_log_offsets ...
ClearOffsets ==
    /\ pc = "filed"
    /\ pc' = "cleared"
    /\ acked' = 0
    /\ UNCHANGED <<slice, stops, processVars, serverVars, full>>

\* ... and then clear_current_task.
Forget ==
    /\ pc = "cleared"
    /\ pc' = "forgotten"
    /\ UNCHANGED <<acked, slice, stops, processVars, serverVars, full>>

\* The agent dies and starts again, with what it has saved.
AgentDies ==
    /\ pc # "forgotten"
    /\ stops < MaxStops
    /\ stops' = stops + 1
    /\ pc' = "idle"
    /\ slice' = NoSlice
    /\ UNCHANGED <<acked, processVars, serverVars, full>>

--------------------------------------------------------------------------------
Process == Write \/ End

Node ==
    \/ Read(TRUE) \/ Read(FALSE)
    \/ Report
    \/ (Filed \/ FinalizeAgain) /\ UNCHANGED <<serverVars, full>>
    \/ ClearOffsets \/ Forget \/ AgentDies

Server == Store \/ StoreHalf \/ Truncate \/ Refuse \/ Prune \/ PruneHalf

Next == Process \/ Node \/ Server \/ Storage

Spec == Init /\ [][Next]_vars

--------------------------------------------------------------------------------
\* What the archives and the file hold, in the order it was stored.
Kept == archived \o stored

\* The text up to last_offset is kept, each character once and in order, however often
\* chunks were repeated, cut elsewhere, or sent from 0 again after the node cleared its
\* offsets.  What comes before it is left in archives from a stream the retention has
\* deleted: a node that sends its text again then has that part kept twice.  Only a
\* commit that fails after the file was written leaves anything else.
StoredExactly ==
    failures = 0 =>
        \E left \in 0..Len(archived) :
            /\ Len(Kept) = left + row.last
            /\ \A i \in 1..row.last : Kept[left + i] = i
            /\ left > 0 => pruned

\* What the node takes for acknowledged is in the control plane, even after failures
\* on both sides, so that the next chunk never makes a gap, until the retention
\* deletes the stream.
AckedIsStored ==
    ~pruned => /\ acked <= row.last
               /\ \A i \in 1..row.last : \E k \in DOMAIN Kept : Kept[k] = i

\* A task is forgotten by the node only when the control plane has all its output, or
\* its process was still alive when a restarted agent gave it up as lost, or the
\* output was too old to be kept.
CompleteWhenForgotten ==
    /\ pc \in {"uploaded", "reported", "filed", "cleared", "forgotten"}
    /\ ~slice.live
    /\ ~pruned
    => row.last = written

================================================================================
