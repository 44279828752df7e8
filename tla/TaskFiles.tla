------------------------------- MODULE TaskFiles -------------------------------
(***************************************************************************)
(* What a task leaves in the storage of the control plane, and how the     *)
(* retention takes it away again: the log stream of LogStream and the      *)
(* summary artifact the node uploads when it finalizes the task.  Rows and *)
(* files are separate: a file is written, or deleted, before the           *)
(* transaction that changes its row ends.                                  *)
(*                                                                         *)
(* A task grows old when it has been terminal for the retention period.    *)
(* The scanner may have ended it at any time without its node, so nothing  *)
(* is said of when; both retention periods end at once.                    *)
(***************************************************************************)
EXTENDS LogStream

VARIABLES
    old,          \* the task is past the retention period
    disk,         \* which files exist: the log file, the artifact
    artifactRow   \* the row of the artifact exists

fileVars == <<disk, artifactRow>>
filesVars == <<vars, fileVars, old>>

FilesTypeOK ==
    /\ TypeOK
    /\ old \in BOOLEAN
    /\ disk \in [log: BOOLEAN, artifact: BOOLEAN]
    /\ artifactRow \in BOOLEAN

FilesInit ==
    /\ Init
    /\ old = FALSE
    /\ disk = [log |-> FALSE, artifact |-> FALSE]
    /\ artifactRow = FALSE

--------------------------------------------------------------------------------
GrowsOld ==
    /\ ~old
    /\ old' = TRUE
    /\ UNCHANGED <<vars, fileVars>>

\* append_log_chunk makes the file for the first text, and rotate_log_stream only
\* empties it.
AppendChunk ==
    /\ Store \/ StoreHalf
    /\ disk' = [disk EXCEPT !.log = @ \/ News # <<>>]
    /\ UNCHANGED <<artifactRow, old>>

\* artifact_upload writes the file, then the row; the reply may be lost.
UploadArtifact ==
    /\ Filed \/ (pc = "reported" /\ FinalizeAgain)
    /\ disk' = [disk EXCEPT !.artifact = TRUE]
    /\ artifactRow' = TRUE
    /\ UNCHANGED <<serverVars, full, old>>

\* Breaks ArtifactKept: the node takes a failed upload for a successful one.
Unfiled_Ignored == Filed

\* The node finalizes again when the upload fails.
Unfiled == pc = "reported" /\ FinalizeAgain

\* The file has been written, and the commit fails.
UploadArtifactHalf ==
    /\ Unfiled
    /\ failures < MaxFailures
    /\ failures' = failures + 1
    /\ disk' = [disk EXCEPT !.artifact = TRUE]
    /\ UNCHANGED <<row, storeVars, pruned, full, artifactRow, old>>

\* The upload, or the result before it, does not arrive.
FinalizeFails ==
    /\ FinalizeAgain
    /\ UNCHANGED <<serverVars, full, fileVars, old>>

--------------------------------------------------------------------------------
(* The retention jobs. *)

\* Breaks RetentionFrees: a row is deleted only along with its file.
PruneLogs_WithFile ==
    /\ old /\ disk.log
    /\ Prune \/ PruneHalf
    /\ disk' = [disk EXCEPT !.log = @ /\ ~row.path]
    /\ UNCHANGED <<artifactRow, old>>

\* _prune_old_task_logs deletes the file center_log_path names, if it names one.
PruneLogs ==
    /\ old
    /\ Prune \/ PruneHalf
    /\ disk' = [disk EXCEPT !.log = @ /\ ~row.path]
    /\ UNCHANGED <<artifactRow, old>>

\* _prune_old_artifacts; the row stays if its commit fails.
PruneArtifacts ==
    /\ old
    /\ artifactRow
    /\ disk' = [disk EXCEPT !.artifact = FALSE]
    /\ \/ artifactRow' = FALSE /\ UNCHANGED failures
       \/ /\ failures < MaxFailures
          /\ failures' = failures + 1
          /\ UNCHANGED artifactRow
    /\ UNCHANGED <<processVars, agentVars, row, storeVars, pruned, full, old>>

--------------------------------------------------------------------------------
\* The steps of LogStream that change no file.
Streaming ==
    /\ \/ Process \/ Storage
       \/ Read(TRUE) \/ Read(FALSE) \/ Report
       \/ ClearOffsets \/ Forget \/ AgentDies
       \/ Truncate \/ Refuse
    /\ UNCHANGED <<fileVars, old>>

FilesNext ==
    \/ GrowsOld
    \/ Streaming
    \/ AppendChunk
    \/ UploadArtifact \/ UploadArtifactHalf \/ FinalizeFails
    \/ PruneLogs \/ PruneArtifacts

FilesSpec == FilesInit /\ [][FilesNext]_filesVars

\* A running agent uploads at every cycle, and what it sends again and again is in the
\* end answered; the retention jobs run again and again.
FilesFairSpec ==
    /\ FilesSpec
    /\ WF_filesVars(Read(TRUE) /\ UNCHANGED <<fileVars, old>>)
    /\ WF_filesVars(AppendChunk \/ ((Truncate \/ Refuse) /\ UNCHANGED <<fileVars, old>>))
    /\ SF_filesVars(AppendChunk /\ Store /\ Acknowledged)
    /\ SF_filesVars(Report /\ UNCHANGED <<fileVars, old>>)
    /\ SF_filesVars(UploadArtifact /\ Filed)
    /\ WF_filesVars(ClearOffsets /\ UNCHANGED <<fileVars, old>>)
    /\ WF_filesVars(Forget /\ UNCHANGED <<fileVars, old>>)
    /\ SF_filesVars(PruneLogs) /\ SF_filesVars(PruneArtifacts)

--------------------------------------------------------------------------------
\* When the node forgets a task, its summary is in the control plane, row and file,
\* although each was uploaded by a request whose commit or reply may have failed;
\* until the retention takes it.
ArtifactKept ==
    pc \in {"filed", "cleared", "forgotten"} /\ ~old => artifactRow /\ disk.artifact

\* The end of a task reaches the control plane and the node is free again, unless the
\* stream was truncated, or was deleted by the retention when part of it had been
\* acknowledged: from then on every chunk the node sends is a gap.
ForgottenUnlessRefused ==
    over ~> pc = "forgotten" \/ row.truncated \/ row.last < acked

\* What an old task has left is deleted, also when a commit failed in between, and
\* when the node sends more of it after the deletion.  Archives stay; and a failed
\* commit may leave a file that has no row.
RetentionFrees ==
    old /\ pc = "forgotten" ~>
        /\ ~row.exists /\ ~artifactRow
        /\ failures = 0 => ~disk.log /\ ~disk.artifact

================================================================================
