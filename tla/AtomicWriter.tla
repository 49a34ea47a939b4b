----------------------------- MODULE AtomicWriter -----------------------------
(***************************************************************************)
(* The atomic writer: Write collects the content in a temporary file,      *)
(* Close moves it over the destination, Cleanup gets rid of what is left.  *)
(* Every file system call is a step of its own and may fail, and the       *)
(* process may die between any two. The caller is pushToFileWithDeps: it   *)
(* writes, stops at the first error, and closes in every case.             *)
(*                                                                         *)
(* A content is the sequence of the chunks written. A failed write may     *)
(* leave a part of its chunk, Torn, in the file.                           *)
(***************************************************************************)
EXTENDS Naturals, Sequences

CONSTANTS
    Chunks,       \* what a call of Write may be given
    Torn,         \* part of a chunk
    NoFile,       \* the temporary file does not exist
    MaxWrites     \* bound on the calls of Write per writer

ASSUME ChunksAssumption == Torn \notin Chunks
ASSUME NoFileAssumption == NoFile \notin Seq(Chunks \cup {Torn})
ASSUME BoundAssumption == MaxWrites \in Nat \ {0}

VARIABLES
    target,       \* content of the destination
    temp,         \* content of the temporary file, or NoFile
    tempFile,     \* w.tempFile is not nil
    pc,           \* the file system call that comes next
    closing,      \* Close has been called
    written,      \* history: what Write accepted
    failed,       \* history: a Write has returned an error
    stuck,        \* history: the file of a failed write could not be removed
    uncleared     \* history: truncate failed, or the process died

vars == <<target, temp, tempFile, pc, closing, written, failed, stuck, uncleared>>

Content == Seq(Chunks \cup {Torn})

Init ==
    /\ target = <<>> /\ temp = NoFile /\ tempFile = FALSE
    /\ pc = "caller" /\ closing = FALSE
    /\ written = <<>> /\ failed = FALSE /\ stuck = FALSE /\ uncleared = FALSE

Goto(label) == pc' = label

-----------------------------------------------------------------------------
\* Write creates the temporary file on its first call.
CreateTemp ==
    /\ pc = "caller" /\ ~closing /\ ~failed /\ ~tempFile
    /\ \/ temp' = <<>> /\ tempFile' = TRUE /\ Goto("write") /\ UNCHANGED failed
       \/ failed' = TRUE /\ UNCHANGED <<temp, tempFile, pc>>
    /\ UNCHANGED <<target, closing, written, stuck, uncleared>>

\* A later call of Write.
WriteMore ==
    /\ pc = "caller" /\ ~closing /\ ~failed /\ tempFile /\ Len(written) < MaxWrites
    /\ Goto("write")
    /\ UNCHANGED <<target, temp, tempFile, closing, written, failed, stuck, uncleared>>

WriteTemp ==
    /\ pc = "write"
    /\ \E c \in Chunks :
          /\ temp' = Append(temp, c)
          /\ written' = Append(written, c)
    /\ Goto("caller")
    /\ UNCHANGED <<target, tempFile, closing, failed, stuck, uncleared>>

\* Mutant: the temporary file is kept after a failed write.
NoCleanup == "caller"
AfterFailedWrite == "remove"

\* The write fails, possibly with a part written, and Cleanup is called.
WriteFails ==
    /\ pc = "write"
    /\ temp' \in {temp, Append(temp, Torn)}
    /\ failed' = TRUE
    /\ Goto(AfterFailedWrite)
    /\ UNCHANGED <<target, tempFile, closing, written, stuck, uncleared>>

-----------------------------------------------------------------------------
\* Close does nothing without a temporary file.
Close ==
    /\ pc = "caller" /\ ~closing
    /\ closing' = TRUE
    /\ Goto(IF tempFile THEN "sync" ELSE "done")
    /\ UNCHANGED <<target, temp, tempFile, written, failed, stuck, uncleared>>

\* A sync that fails ends Close; its deferred Cleanup follows.
Sync ==
    /\ pc = "sync"
    /\ pc' \in {"chmod", "remove"}
    /\ UNCHANGED <<target, temp, tempFile, closing, written, failed, stuck, uncleared>>

\* A chmod that fails is logged only.
Chmod ==
    /\ pc = "chmod"
    /\ Goto("rename")
    /\ UNCHANGED <<target, temp, tempFile, closing, written, failed, stuck, uncleared>>

Rename ==
    /\ pc = "rename"
    /\ target' = temp /\ temp' = NoFile /\ tempFile' = FALSE
    /\ Goto("done")
    /\ UNCHANGED <<closing, written, failed, stuck, uncleared>>

\* Mutant: Close returns without its deferred Cleanup.
NoDeferredCleanup == "done"
AfterRenameError == "remove"

RenameFails ==
    /\ pc = "rename"
    /\ Goto(AfterRenameError)
    /\ UNCHANGED <<target, temp, tempFile, closing, written, failed, stuck, uncleared>>

-----------------------------------------------------------------------------
CleanupReturns == Goto(IF closing THEN "done" ELSE "caller")

HandleAfterRemove == FALSE

\* Cleanup removes the temporary file; if it cannot, it tries to truncate it.
Remove ==
    /\ pc = "remove"
    /\ \/ /\ temp' = NoFile /\ tempFile' = HandleAfterRemove
          /\ CleanupReturns
          /\ UNCHANGED stuck
       \/ /\ Goto("truncate")
          /\ stuck' = (stuck \/ ~closing)
          /\ UNCHANGED <<temp, tempFile>>
    /\ UNCHANGED <<target, closing, written, failed, uncleared>>

Truncated == <<>>

\* The file stays, and w.tempFile with it, unless it is gone after all.
Truncate ==
    /\ pc = "truncate"
    /\ \/ temp' = Truncated /\ UNCHANGED <<tempFile, uncleared>>
       \/ temp' = NoFile /\ tempFile' = FALSE /\ UNCHANGED uncleared
       \/ uncleared' = TRUE /\ UNCHANGED <<temp, tempFile>>
    /\ CleanupReturns
    /\ UNCHANGED <<target, closing, written, failed, stuck>>

-----------------------------------------------------------------------------
\* The process dies: a temporary file stays behind, under a name nobody uses.
Crash ==
    /\ uncleared' = TRUE
    /\ Goto("done")
    /\ pc # "done"
    /\ UNCHANGED <<target, temp, tempFile, closing, written, failed, stuck>>

\* The next writer for the same destination.
NewWriter ==
    /\ pc = "done"
    /\ temp' = NoFile /\ tempFile' = FALSE
    /\ Goto("caller") /\ closing' = FALSE
    /\ written' = <<>> /\ failed' = FALSE /\ stuck' = FALSE /\ uncleared' = FALSE
    /\ UNCHANGED target

Next ==
    \/ CreateTemp \/ WriteMore \/ WriteTemp \/ WriteFails
    \/ Close \/ Sync \/ Chmod \/ Rename \/ RenameFails
    \/ Remove \/ Truncate \/ Crash \/ NewWriter

Spec == Init /\ [][Next]_vars

-----------------------------------------------------------------------------
Labels == {"caller", "write", "sync", "chmod", "rename", "remove", "truncate", "done"}

\* Files hold sequences of chunks, and w.tempFile is nil or not.
TypeOK ==
    /\ target \in Content
    /\ temp \in Content \cup {NoFile}
    /\ tempFile \in BOOLEAN /\ closing \in BOOLEAN
    /\ pc \in Labels
    /\ written \in Seq(Chunks)
    /\ failed \in BOOLEAN /\ stuck \in BOOLEAN /\ uncleared \in BOOLEAN

\* No content stays in a temporary file once the writer is done, unless the
\* process died or neither remove nor truncate worked (Close and Cleanup).
NothingLeftBehind == (pc = "done" /\ ~uncleared) => temp \in {NoFile, <<>>}

File == INSTANCE AtomicFile WITH pending <- written, spoiled <- stuck

\* The destination changes only as a whole, to all that was written: no reader
\* sees a part of it, whatever fails and whenever the process dies. The one
\* exception is the code's own: a write fails, the remove in Cleanup fails too
\* and leaves w.tempFile set, and the deferred Close renames that file.
WritesAtomically == File!Spec
====
