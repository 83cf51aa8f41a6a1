---------------------------- MODULE FileContext ----------------------------
(***************************************************************************)
(* One file of one site: the registry that creates and removes its context *)
(* (file/registry.go, file/context.go), the flag that says whether the     *)
(* file shows the document (WootCvrdt.Snapshot in cvrdt/state.go) and the  *)
(* poller that dumps the document into it (file/polling.go).               *)
(*                                                                         *)
(* UpdateFileCtx, GetFileContent and RemoveAllCtx hold the mutex of the    *)
(* registry.  The poller holds nothing: its Snapshot interleaves with      *)
(* them, a read of the characters while they move may return anything.     *)
(* The document is the number of updates it went through; 0 is the empty   *)
(* text.                                                                   *)
(***************************************************************************)
EXTENDS Integers

CONSTANTS
    MaxUpdates,     \* bound: updates that change the document
    MaxReads        \* bound: read commands

ASSUME BoundsAssumption == MaxUpdates \in Nat \ {0} /\ MaxReads \in Nat

VARIABLES
    ctx,        \* the context: "absent" from the registry, "tracked", or "removed"
    text,       \* the document, WootCvrdt.site
    upToDate,   \* WootCvrdt.isStateUpToDate
    updater,    \* UpdateState: "idle", "checking" what is new, "computing" it, "computed"
    poller,     \* StatePollingDumper.Run
    temp,       \* what Snapshot found in upToDate
    rappr,      \* what Snapshot returned
    file,       \* the content on disk
    closing,    \* RemoveAllCtx: "open", "closing" (in Stop) or "closed"
    reads       \* read commands so far

vars == <<ctx, text, upToDate, updater, poller, temp, rappr, file, closing, reads>>

\* A mixture of two texts.
Torn == -1

Texts == 0..MaxUpdates

PollerSteps == {"none", "born", "select", "marking", "reading", "truncating", "writing", "done"}

Init ==
    /\ ctx = "absent"
    /\ text = 0
    /\ upToDate = FALSE
    /\ updater = "idle"
    /\ poller = "none"
    /\ temp = FALSE
    /\ rappr = 0
    /\ file = 0
    /\ closing = "open"
    /\ reads = 0

\* FileRegistry.mu: no update is under way and RemoveAllCtx is not inside Stop.
MutexFree == updater = "idle" /\ closing # "closing"

-----------------------------------------------------------------------------
(* The registry.                                                           *)

\* UpdateFileCtx of a path that has a context.
UpdateFileCtx ==
    /\ MutexFree
    /\ ctx = "tracked"
    /\ updater' = "checking"
    /\ UNCHANGED <<ctx, text, upToDate, poller, temp, rappr, file, closing, reads>>

\* UpdateFileCtx of a new path: createFileCtx makes the file and starts the
\* poller before the operations are computed.  A path whose context was removed
\* cannot come back: its file is still there and CreateFile refuses.
CreateFileCtx ==
    /\ MutexFree
    /\ ctx = "absent"
    /\ ctx' = "tracked"
    /\ poller' = "born"
    /\ updater' = "checking"
    /\ UNCHANGED <<text, upToDate, temp, rappr, file, closing, reads>>

\* UpdateState: nothing of the payload is new, or the edit is refused.
ComputeNothing ==
    /\ updater = "checking"
    /\ updater' = "idle"
    /\ UNCHANGED <<ctx, text, upToDate, poller, temp, rappr, file, closing, reads>>

\* All that is new waits in pendingOps, or deletes what is deleted.
ComputeUnseen ==
    /\ updater = "checking"
    /\ updater' = "computed"
    /\ UNCHANGED <<ctx, text, upToDate, poller, temp, rappr, file, closing, reads>>

\* The first new operation moves the characters, ...
ComputeFirst ==
    /\ updater = "checking"
    /\ text < MaxUpdates
    /\ updater' = "computing"
    /\ UNCHANGED <<ctx, text, upToDate, poller, temp, rappr, file, closing, reads>>

\* ... the last one leaves the new text,
ComputeLast ==
    /\ updater = "computing"
    /\ updater' = "computed"
    /\ text' = text + 1
    /\ UNCHANGED <<ctx, upToDate, poller, temp, rappr, file, closing, reads>>

\* and the flag tells the poller, before the mutex is given back.
FinishUpdate ==
    /\ updater = "computed"
    /\ updater' = "idle"
    /\ upToDate' = FALSE
    /\ UNCHANGED <<ctx, text, poller, temp, rappr, file, closing, reads>>

\* GetFileContent, the read command: Snapshot, with the mutex.
GetFileContent ==
    /\ MutexFree
    /\ ctx = "tracked"
    /\ reads < MaxReads
    /\ reads' = reads + 1
    /\ upToDate' = TRUE
    /\ UNCHANGED <<ctx, text, updater, poller, temp, rappr, file, closing>>

\* Mutant: RemoveAllCtx without the mutex.
BeginStop_Unlocked ==
    /\ ctx = "tracked"
    /\ closing = "open"
    /\ closing' = "closing"
    /\ UNCHANGED <<ctx, text, upToDate, updater, poller, temp, rappr, file, reads>>

\* RemoveAllCtx: Stop closes stopCh ...
BeginStop ==
    /\ MutexFree
    /\ ctx = "tracked"
    /\ closing' = "closing"
    /\ UNCHANGED <<ctx, text, upToDate, updater, poller, temp, rappr, file, reads>>

\* ... waits for the poller, which counts in the wait group once it runs, closes
\* the file and forgets the context.
FinishStop ==
    /\ closing = "closing"
    /\ poller \in {"born", "done"}
    /\ closing' = "closed"
    /\ ctx' = "removed"
    /\ UNCHANGED <<text, upToDate, updater, poller, temp, rappr, file, reads>>

-----------------------------------------------------------------------------
(* The poller.                                                             *)

Run ==
    /\ poller = "born"
    /\ poller' = "select"
    /\ UNCHANGED <<ctx, text, upToDate, updater, temp, rappr, file, closing, reads>>

\* Mutant: Snapshot sets the flag before it looks.
Tick_MarksFirst ==
    /\ poller = "select"
    /\ poller' = "marking"
    /\ temp' = TRUE
    /\ UNCHANGED <<ctx, text, upToDate, updater, rappr, file, closing, reads>>

\* The ticker fires: Snapshot keeps the flag,
Tick ==
    /\ poller = "select"
    /\ poller' = "marking"
    /\ temp' = upToDate
    /\ UNCHANGED <<ctx, text, upToDate, updater, rappr, file, closing, reads>>

\* Mutant: Snapshot takes the mutex of the registry.
MarkUpToDate_Locked ==
    /\ poller = "marking"
    /\ MutexFree
    /\ poller' = "reading"
    /\ upToDate' = TRUE
    /\ UNCHANGED <<ctx, text, updater, temp, rappr, file, closing, reads>>

\* sets it,
MarkUpToDate ==
    /\ poller = "marking"
    /\ poller' = "reading"
    /\ upToDate' = TRUE
    /\ UNCHANGED <<ctx, text, updater, temp, rappr, file, closing, reads>>

\* and reads the characters, which an update may be moving.  A document that
\* was up to date is not written.
ReadText ==
    /\ poller = "reading"
    /\ rappr' \in {text} \cup (IF updater = "computing" THEN {Torn} ELSE {})
    /\ poller' = IF temp THEN "select" ELSE "truncating"
    /\ UNCHANGED <<ctx, text, upToDate, updater, temp, file, closing, reads>>

\* The errors of a closed file are ignored.
Truncate ==
    /\ poller = "truncating"
    /\ poller' = "writing"
    /\ file' = IF closing = "closed" THEN file ELSE 0
    /\ UNCHANGED <<ctx, text, upToDate, updater, temp, rappr, closing, reads>>

Write ==
    /\ poller = "writing"
    /\ poller' = "select"
    /\ file' = IF closing = "closed" THEN file ELSE rappr
    /\ UNCHANGED <<ctx, text, upToDate, updater, temp, rappr, closing, reads>>

\* stopCh is closed.  select may take the ticker a few times more.
SeeStop ==
    /\ poller = "select"
    /\ closing # "open"
    /\ poller' = "done"
    /\ UNCHANGED <<ctx, text, upToDate, updater, temp, rappr, file, closing, reads>>

-----------------------------------------------------------------------------

UpdaterStep ==
    ComputeNothing \/ ComputeUnseen \/ ComputeFirst \/ ComputeLast \/ FinishUpdate

PollerStep == Run \/ Tick \/ MarkUpToDate \/ ReadText \/ Truncate \/ Write

Next ==
    \/ UpdateFileCtx \/ CreateFileCtx \/ UpdaterStep
    \/ GetFileContent \/ BeginStop \/ FinishStop
    \/ PollerStep \/ SeeStop

\* Goroutines that can run do run, the ticker keeps firing, and select does not
\* pass over a closed channel for ever.  No command is ever sure to come.
Fairness ==
    /\ WF_vars(UpdaterStep)
    /\ WF_vars(PollerStep)
    /\ WF_vars(FinishStop)
    /\ SF_vars(SeeStop)

Spec == Init /\ [][Next]_vars /\ Fairness

-----------------------------------------------------------------------------
(* Properties.                                                             *)

\* The values of the variables, and the part of the mutex: the document of a
\* context is not touched before the context is there, nor while it is removed.
TypeOK ==
    /\ ctx \in {"absent", "tracked", "removed"}
    /\ text \in Texts
    /\ upToDate \in BOOLEAN
    /\ updater \in {"idle", "checking", "computing", "computed"}
    /\ poller \in PollerSteps
    /\ temp \in BOOLEAN
    /\ rappr \in Texts \cup {Torn}
    /\ file \in Texts \cup {Torn}
    /\ closing \in {"open", "closing", "closed"}
    /\ reads \in 0..MaxReads
    /\ updater = "computing" => text < MaxUpdates
    /\ updater # "idle" => ctx = "tracked" /\ closing = "open"
    /\ ctx = "absent" <=> poller = "none"
    /\ ctx = "removed" <=> closing = "closed"

\* A document that is at rest and flagged as changed gets to the disk, unless
\* the next update or read command comes first or the context is removed
\* (Run, Snapshot): whatever is lost is lost in the course of a Snapshot.
DirtyIsDumped ==
    \A v \in Texts, r \in 0..MaxReads :
        (/\ poller \in {"born", "select"} /\ updater = "idle"
         /\ ~upToDate /\ text = v /\ reads = r)
            ~> (file = v \/ text > v \/ reads > r \/ closing # "open")

\* Removing the contexts ends, although it holds the mutex of the registry
\* while it waits for the poller (RemoveAllCtx, Stop).
StopReturns == closing = "closing" ~> closing = "closed"

\* The poller dumps the document: once the updates are over and nothing reads
\* the document or removes the context, the file shows it (polling.go, "A
\* poller that countinuosly dump every interval some data R").
FileCatchesUp ==
    <>[](updater = "idle") => <>[](closing # "open" \/ reads > 0 \/ file = text)

=============================================================================
