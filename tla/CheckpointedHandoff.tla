------------------------- MODULE CheckpointedHandoff -------------------------
(***************************************************************************)
(* ExecutionHandoffRuntime (src/src/core/runtime.ts) keeping the lifecycle *)
(* in a SignedFileHandoffCheckpointStore (src/src/core/checkpoint.ts),     *)
(* across failing file operations, process crashes and power losses.       *)
(*                                                                         *)
(* checkpoint() and clearCheckpoint() are synchronous, so no method of the *)
(* lifecycle runs while `op` says that one is under way; a crash may       *)
(* happen between any two of its file operations.  The file system is      *)
(* external: `visible` is what a read of the checkpoint file gives now,    *)
(* `mayRecover` what it may give after a power loss, every directory       *)
(* change since the last directory flush included.  A checkpoint is the    *)
(* id, status and epoch it records; a read may find it expired, made for   *)
(* another principal or not what was signed.  The audit events are left    *)
(* out.                                                                    *)
(***************************************************************************)
EXTENDS Lifecycle

CONSTANT DirectorySync  \* FALSE where the platform cannot flush a directory

ASSUME DirectorySyncAssumption == DirectorySync \in BOOLEAN

VARIABLES
    op,         \* the file operation of the store's call under way
    draft,      \* the checkpoint write() was called with
    visible,    \* the checkpoint file
    mayRecover, \* what the checkpoint file may be after a power loss
    reported,   \* history: what the last store call reported as stored
    refused,    \* history: interventions a checkpoint() failed for
    recovered   \* what this process was given by the read of its start

fileVars == <<op, draft, visible, mayRecover, reported, refused>>
storeVars == <<fileVars, recovered>>
checkpointedVars == <<lifecycleVars, storeVars>>

NoFile == [id |-> 0, status |-> "idle", epoch |-> 0]
Torn == [id |-> 0, status |-> "torn", epoch |-> 0]  \* content never flushed
Unreported == [id |-> 0, status |-> "unreported", epoch |-> 0]

Checkpoint == [id: 1..MaxIssued, status: InterventionStatus, epoch: 0..MaxEpoch]
CheckpointOf(i) == [id |-> i.id, status |-> i.status, epoch |-> i.epoch]

StoreIdle == op = "idle"

\* parseHandoffCheckpoint(): ten known fields, each with its type and range, or no
\* checkpoint at all.
WellFormed(f) == f \in Checkpoint

\* loadVerified(): no file, or a checkpoint that parses and carries its signature; what
\* was never flushed is neither.
Verified(f) == IF f = NoFile THEN "none" ELSE IF WellFormed(f) THEN "verified" ELSE "invalid"

\* recoverHandoffCheckpoint(): a verified checkpoint, unless its time is over.
Recoverable(f, expired) ==
    IF Verified(f) # "verified" THEN Verified(f) ELSE IF expired THEN "expired" ELSE "recovered"

\* load(), recover() and recoverForOperatorRevalidation() of the store, which answers the
\* operator after the expiry too.
Reads(f) == {Recoverable(f, expired) : expired \in BOOLEAN} \union {Verified(f)}

StoreInit ==
    /\ LifecycleInit
    /\ op = "idle" /\ draft = NoFile
    /\ visible = NoFile /\ mayRecover = {NoFile}
    /\ reported = NoFile /\ refused = {}
    /\ recovered = "unasked"

--------------------------------------------------------------------------------
\* The consumer drives the lifecycle between two calls of the store.
ConsumerStep ==
    /\ StoreIdle
    /\ \/ AdvanceResourceEpoch \/ Begin
       \/ \E id \in 1..issued :
            \/ ClaimHuman(id) \/ MarkHumanComplete(id) \/ ReturnToHuman(id)
            \/ MarkVerified(id) \/ ResumeAgent(id) \/ Cancel(id)
    /\ UNCHANGED storeVars

\* checkpoint(): with an active intervention it writes, with none it clears.
CheckpointCalled ==
    /\ StoreIdle
    /\ \/ Suspended /\ op' = "writing" /\ draft' = CheckpointOf(active)
       \/ ~Suspended /\ op' = "clearing" /\ UNCHANGED draft
    /\ UNCHANGED <<lifecycleVars, visible, mayRecover, reported, refused, recovered>>

\* clearCheckpoint(), whatever the lifecycle's state.
ClearCalled ==
    /\ StoreIdle
    /\ op' = "clearing"
    /\ UNCHANGED <<lifecycleVars, draft, visible, mayRecover, reported, refused, recovered>>

\* write(): mkdir, and the temporary file with its mode.
TempWritten ==
    /\ op = "writing" /\ op' = "written"
    /\ UNCHANGED <<lifecycleVars, draft, visible, mayRecover, reported, refused, recovered>>

\* Variant: the content is not flushed before the rename.
TempSyncedSkipped ==
    /\ op = "written" /\ op' = "renaming"
    /\ visible' = draft
    /\ mayRecover' = mayRecover \union {draft, Torn}
    /\ reported' = Unreported
    /\ UNCHANGED <<lifecycleVars, draft, refused, recovered>>

\* write(): fsync of the temporary file.
TempSynced ==
    /\ op = "written" /\ op' = "synced"
    /\ UNCHANGED <<lifecycleVars, draft, visible, mayRecover, reported, refused, recovered>>

\* write(): the rename, visible at once and durable with the next flush.
Renamed ==
    /\ op = "synced" /\ op' = "renaming"
    /\ visible' = draft
    /\ mayRecover' = mayRecover \union {draft}
    /\ reported' = Unreported
    /\ UNCHANGED <<lifecycleVars, draft, refused, recovered>>

\* Variant: the directory is never flushed, and the call returns.
WriteReturnsUnflushed ==
    /\ op = "renaming" /\ op' = "idle"
    /\ reported' = visible
    /\ UNCHANGED <<lifecycleVars, draft, visible, mayRecover, refused, recovered>>

\* The directory flush, where the platform has one.
FlushDirectory == mayRecover' = IF DirectorySync THEN {visible} ELSE mayRecover

\* write() flushes the directory and returns.
WriteReturns ==
    /\ op = "renaming" /\ op' = "idle"
    /\ FlushDirectory
    /\ reported' = visible
    /\ UNCHANGED <<lifecycleVars, draft, visible, refused, recovered>>

\* Variant: the error is passed on and the Human keeps the control.
WriteFailsQuietly ==
    /\ op \in {"writing", "written", "synced", "renaming"} /\ op' = "idle"
    /\ refused' = refused \union {draft.id}
    /\ UNCHANGED <<lifecycleVars, draft, visible, mayRecover, reported, recovered>>

\* Any operation of write() throws: checkpoint() cancels the intervention.
WriteFails ==
    /\ op \in {"writing", "written", "synced", "renaming"} /\ op' = "idle"
    /\ Cancel(draft.id)
    /\ refused' = refused \union {draft.id}
    /\ UNCHANGED <<draft, visible, mayRecover, reported, recovered>>

\* clear(): the unlink; a file that is not there ends the call.
Unlinked ==
    /\ op = "clearing"
    /\ \/ /\ visible # NoFile
          /\ op' = "unlinked" /\ reported' = Unreported
          /\ visible' = NoFile
          /\ mayRecover' = mayRecover \union {NoFile}
       \/ /\ visible = NoFile
          /\ op' = "idle" /\ reported' = NoFile
          /\ UNCHANGED <<visible, mayRecover>>
    /\ UNCHANGED <<lifecycleVars, draft, refused, recovered>>

\* clear() flushes the directory and returns.
ClearReturns ==
    /\ op = "unlinked" /\ op' = "idle"
    /\ FlushDirectory
    /\ reported' = NoFile
    /\ UNCHANGED <<lifecycleVars, draft, visible, refused, recovered>>

\* The unlink or the directory flush throws; checkpoint() cancels nothing here.
ClearFails ==
    /\ op \in {"clearing", "unlinked"} /\ op' = "idle"
    /\ UNCHANGED <<lifecycleVars, draft, visible, mayRecover, reported, refused, recovered>>

\* The process ends.  A new one starts from ExecutionHandoffState's initial
\* state.
Restart ==
    /\ epoch' = 0 /\ active' = NoIntervention
    /\ op' = "idle" /\ draft' = NoFile
    /\ recovered' = "unasked"
    /\ UNCHANGED <<issued, reported, refused>>

ProcessCrash == Restart /\ UNCHANGED <<visible, mayRecover>>

PowerLoss ==
    /\ Restart
    /\ visible' \in mayRecover
    /\ mayRecover' = {visible'}

\* recover() of the runtime at the start of a process: the record of the file, for the
\* principal that made it, restores neither control nor intervention; invalid and expired
\* ones throw.
Recover ==
    /\ StoreIdle /\ recovered = "unasked" /\ active = NoIntervention
    /\ recovered' \in Reads(visible) \union
            {IF Verified(visible) = "verified" THEN "none" ELSE Verified(visible)}
    /\ UNCHANGED <<lifecycleVars, fileVars>>

StoreNext ==
    \/ ConsumerStep \/ Recover
    \/ CheckpointCalled \/ ClearCalled
    \/ TempWritten \/ TempSynced \/ Renamed \/ WriteReturns \/ WriteFails
    \/ Unlinked \/ ClearReturns \/ ClearFails
    \/ ProcessCrash \/ PowerLoss

StoreSpec == StoreInit /\ [][StoreNext]_checkpointedVars

--------------------------------------------------------------------------------
\* The Human never holds, or gets back, an intervention whose checkpoint could
\* not be stored, at whichever of the write's operations it failed.
FailedCheckpointFencesHuman == Suspended => active.id \notin refused

\* A checkpoint() that returned is what a power loss gives back, until another
\* call of the store changes the file.
ReportedCheckpointSurvives ==
    DirectorySync /\ reported \in Checkpoint => mayRecover = {reported}

\* Wherever the process or the machine stopped, recovery never fails on a half-written
\* file: the content is flushed before the rename, and only the rename replaces the
\* checkpoint.  An "invalid" answer is one the code's own writes produced.
NoTornCheckpoint == recovered # "invalid"

================================================================================
