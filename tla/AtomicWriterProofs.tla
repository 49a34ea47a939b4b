-------------------------- MODULE AtomicWriterProofs --------------------------
(***************************************************************************)
(* Proofs about the atomic writer: its types, what it leaves behind, and   *)
(* that it implements AtomicFile.                                          *)
(***************************************************************************)
EXTENDS AtomicWriter, TLAPS, SequenceTheorems

FileType ==
    /\ target \in Content /\ temp \in Content \cup {NoFile}
    /\ pc \in Labels /\ written \in Seq(Chunks)

FlagType ==
    /\ tempFile \in BOOLEAN /\ closing \in BOOLEAN
    /\ failed \in BOOLEAN /\ stuck \in BOOLEAN /\ uncleared \in BOOLEAN

\* w.tempFile is set only while its file exists, and wherever it is used.
Handle ==
    /\ tempFile => temp \in Content
    /\ pc \in {"write", "sync", "chmod", "rename", "remove", "truncate"} => tempFile

\* Contents are closed under what Write does to them.
LEMMA ContentFacts ==
    /\ <<>> \in Content /\ <<>> \in Seq(Chunks)
    /\ \A s \in Content : Append(s, Torn) \in Content
    /\ \A s \in Content, c \in Chunks : Append(s, c) \in Content
    /\ \A s \in Seq(Chunks), c \in Chunks : Append(s, c) \in Seq(Chunks)
  BY DEF Content

\* Every step of Write, Close and Cleanup keeps the types of the files.
LEMMA FileTypeStep == FileType /\ Handle /\ [Next]_vars => FileType'
<1> SUFFICES ASSUME FileType, Handle, [Next]_vars PROVE FileType'
  OBVIOUS
<1> USE DEF FileType, Labels, Goto
<1>1. CASE CreateTemp
  BY <1>1, ContentFacts DEF CreateTemp
<1>2. CASE WriteMore
  BY <1>2, ContentFacts DEF WriteMore
<1>3. CASE WriteTemp
  <2>1. PICK c \in Chunks : temp' = Append(temp, c) /\ written' = Append(written, c)
    BY <1>3 DEF WriteTemp
  <2>2. temp \in Content
    BY <1>3 DEF WriteTemp, Handle
  <2>3. temp' \in Content /\ written' \in Seq(Chunks)
    BY <2>1, <2>2, ContentFacts
  <2> QED
    BY <1>3, <2>3 DEF WriteTemp
<1>4. CASE WriteFails
  <2>1. temp' \in Content
    BY <1>4, ContentFacts DEF WriteFails, Handle
  <2> QED
    BY <1>4, <2>1 DEF WriteFails, AfterFailedWrite
<1>5. CASE Close
  BY <1>5, ContentFacts DEF Close
<1>6. CASE Sync
  BY <1>6, ContentFacts DEF Sync
<1>7. CASE Chmod
  BY <1>7, ContentFacts DEF Chmod
<1>8. CASE Rename
  <2>1. temp \in Content
    BY <1>8 DEF Rename, Handle
  <2> QED
    BY <1>8, <2>1 DEF Rename
<1>9. CASE RenameFails
  BY <1>9, ContentFacts DEF RenameFails, AfterRenameError
<1>10. CASE Remove
  BY <1>10, ContentFacts DEF Remove, HandleAfterRemove, CleanupReturns
<1>11. CASE Truncate
  BY <1>11, ContentFacts DEF Truncate, Truncated, CleanupReturns
<1>12. CASE Crash
  BY <1>12, ContentFacts DEF Crash
<1>13. CASE NewWriter
  BY <1>13, ContentFacts DEF NewWriter
<1>14. CASE UNCHANGED vars
  BY <1>14, ContentFacts DEF vars
<1> QED
  BY <1>1, <1>2, <1>3, <1>4, <1>5, <1>6, <1>7,
     <1>8, <1>9, <1>10, <1>11, <1>12, <1>13, <1>14 DEF Next

\* Every step of Write, Close and Cleanup keeps the flags Boolean.
LEMMA FlagTypeStep == FlagType /\ [Next]_vars => FlagType'
<1> SUFFICES ASSUME FlagType, [Next]_vars PROVE FlagType'
  OBVIOUS
<1> USE DEF FlagType
<1>1. CASE CreateTemp
  BY <1>1 DEF CreateTemp
<1>2. CASE WriteMore
  BY <1>2 DEF WriteMore
<1>3. CASE WriteTemp
  BY <1>3 DEF WriteTemp
<1>4. CASE WriteFails
  BY <1>4 DEF WriteFails, AfterFailedWrite
<1>5. CASE Close
  BY <1>5 DEF Close
<1>6. CASE Sync
  BY <1>6 DEF Sync
<1>7. CASE Chmod
  BY <1>7 DEF Chmod
<1>8. CASE Rename
  BY <1>8 DEF Rename
<1>9. CASE RenameFails
  BY <1>9 DEF RenameFails, AfterRenameError
<1>10. CASE Remove
  BY <1>10 DEF Remove, HandleAfterRemove, CleanupReturns
<1>11. CASE Truncate
  BY <1>11 DEF Truncate, Truncated, CleanupReturns
<1>12. CASE Crash
  BY <1>12 DEF Crash
<1>13. CASE NewWriter
  BY <1>13 DEF NewWriter
<1>14. CASE UNCHANGED vars
  BY <1>14 DEF vars
<1> QED
  BY <1>1, <1>2, <1>3, <1>4, <1>5, <1>6, <1>7,
     <1>8, <1>9, <1>10, <1>11, <1>12, <1>13, <1>14 DEF Next

\* Every step keeps w.tempFile and the temporary file together.
LEMMA HandleStep == FileType /\ Handle /\ [Next]_vars => Handle'
<1> SUFFICES ASSUME FileType, Handle, [Next]_vars PROVE Handle'
  OBVIOUS
<1> USE DEF FileType, Handle, Labels, Goto
<1>1. CASE CreateTemp
  BY <1>1, ContentFacts DEF CreateTemp
<1>2. CASE WriteMore
  BY <1>2, ContentFacts DEF WriteMore
<1>3. CASE WriteTemp
  BY <1>3, ContentFacts DEF WriteTemp
<1>4. CASE WriteFails
  BY <1>4, ContentFacts DEF WriteFails, AfterFailedWrite
<1>5. CASE Close
  BY <1>5, ContentFacts DEF Close
<1>6. CASE Sync
  BY <1>6, ContentFacts DEF Sync
<1>7. CASE Chmod
  BY <1>7, ContentFacts DEF Chmod
<1>8. CASE Rename
  BY <1>8, ContentFacts DEF Rename
<1>9. CASE RenameFails
  BY <1>9, ContentFacts DEF RenameFails, AfterRenameError
<1>10. CASE Remove
  BY <1>10, ContentFacts DEF Remove, HandleAfterRemove, CleanupReturns
<1>11. CASE Truncate
  BY <1>11, ContentFacts DEF Truncate, Truncated, CleanupReturns
<1>12. CASE Crash
  BY <1>12, ContentFacts DEF Crash
<1>13. CASE NewWriter
  BY <1>13, ContentFacts DEF NewWriter
<1>14. CASE UNCHANGED vars
  BY <1>14, ContentFacts DEF vars
<1> QED
  BY <1>1, <1>2, <1>3, <1>4, <1>5, <1>6, <1>7,
     <1>8, <1>9, <1>10, <1>11, <1>12, <1>13, <1>14 DEF Next

\* TypeOK with what keeps it: the two halves of TypeOK, and Handle.
TypeInv == FileType /\ FlagType /\ Handle

\* The types hold in every state of every writer.
LEMMA TypeInvHolds == Spec => []TypeInv
<1>1. Init => TypeInv
  BY ContentFacts DEF Init, TypeInv, FileType, FlagType, Handle, Labels
<1>2. TypeInv /\ [Next]_vars => TypeInv'
  BY FileTypeStep, FlagTypeStep, HandleStep DEF TypeInv
<1> QED
  BY <1>1, <1>2, PTL DEF Spec

\* Type correctness of the writer (TypeOK): in particular Rename never moves a
\* file that does not exist over the destination.
THEOREM TypeCorrect == Spec => []TypeOK
<1>1. TypeInv => TypeOK
  BY DEF TypeInv, FileType, FlagType, TypeOK
<1> QED
  BY <1>1, TypeInvHolds, PTL

-----------------------------------------------------------------------------
\* Without w.tempFile there is no temporary file.
NoHandleNoFile == ~tempFile => temp = NoFile

\* Every step of Write, Close and Cleanup keeps a finished writer's temporary
\* file removed or empty, unless truncate failed or the process died.
LEMMA LeftBehindStep ==
    TypeInv /\ NoHandleNoFile /\ NothingLeftBehind /\ [Next]_vars
        => NoHandleNoFile' /\ NothingLeftBehind'
<1> SUFFICES ASSUME TypeInv, NoHandleNoFile, NothingLeftBehind, [Next]_vars
             PROVE  NoHandleNoFile' /\ NothingLeftBehind'
  OBVIOUS
<1> USE DEF TypeInv, FileType, FlagType, Handle, NoHandleNoFile, NothingLeftBehind, Goto
<1>1. CASE CreateTemp
  BY <1>1 DEF CreateTemp
<1>2. CASE WriteMore
  BY <1>2 DEF WriteMore
<1>3. CASE WriteTemp
  BY <1>3 DEF WriteTemp
<1>4. CASE WriteFails
  BY <1>4 DEF WriteFails, AfterFailedWrite
<1>5. CASE Close
  BY <1>5 DEF Close
<1>6. CASE Sync
  BY <1>6 DEF Sync
<1>7. CASE Chmod
  BY <1>7 DEF Chmod
<1>8. CASE Rename
  BY <1>8 DEF Rename
<1>9. CASE RenameFails
  BY <1>9 DEF RenameFails, AfterRenameError
<1>10. CASE Remove
  BY <1>10 DEF Remove, HandleAfterRemove, CleanupReturns
<1>11. CASE Truncate
  BY <1>11 DEF Truncate, Truncated, CleanupReturns
<1>12. CASE Crash
  BY <1>12 DEF Crash
<1>13. CASE NewWriter
  BY <1>13 DEF NewWriter
<1>14. CASE UNCHANGED vars
  BY <1>14 DEF vars
<1> QED
  BY <1>1, <1>2, <1>3, <1>4, <1>5, <1>6, <1>7,
     <1>8, <1>9, <1>10, <1>11, <1>12, <1>13, <1>14 DEF Next

\* Nothing is left behind in a temporary file (NothingLeftBehind), whether or
\* not os.Remove works.
THEOREM NothingLeftBehindHolds == Spec => []NothingLeftBehind
<1>1. Init => NoHandleNoFile /\ NothingLeftBehind
  BY DEF Init, NoHandleNoFile, NothingLeftBehind
<1> QED
  BY <1>1, TypeInvHolds, LeftBehindStep, PTL DEF Spec

-----------------------------------------------------------------------------
\* While the temporary file can still reach the destination it holds all that
\* was written, and nothing else, unless it survived a failed write.
TempIsWritten ==
    /\ ~stuck /\ pc \in {"write", "sync", "chmod", "rename"} => temp = written
    /\ ~stuck /\ pc = "caller" /\ tempFile => temp = written
    /\ pc = "truncate" => stuck \/ closing
    /\ pc = "caller" /\ ~tempFile /\ ~failed /\ ~closing => written = <<>>
    /\ pc \in {"remove", "truncate"} => failed \/ closing
    /\ pc \in {"sync", "chmod", "rename"} => closing

\* Every step keeps the temporary file equal to what was written until it is
\* renamed or removed, unless Cleanup could not remove it after a failed write.
LEMMA TempIsWrittenStep == TypeInv /\ TempIsWritten /\ [Next]_vars => TempIsWritten'
<1> SUFFICES ASSUME TypeInv, TempIsWritten, [Next]_vars PROVE TempIsWritten'
  OBVIOUS
<1> USE DEF TypeInv, FlagType, Handle, TempIsWritten, Goto
<1>1. CASE CreateTemp
  BY <1>1 DEF CreateTemp
<1>2. CASE WriteMore
  BY <1>2 DEF WriteMore
<1>3. CASE WriteTemp
  BY <1>3 DEF WriteTemp
<1>4. CASE WriteFails
  BY <1>4 DEF WriteFails, AfterFailedWrite
<1>5. CASE Close
  BY <1>5 DEF Close
<1>6. CASE Sync
  BY <1>6 DEF Sync
<1>7. CASE Chmod
  BY <1>7 DEF Chmod
<1>8. CASE Rename
  BY <1>8 DEF Rename
<1>9. CASE RenameFails
  BY <1>9 DEF RenameFails, AfterRenameError
<1>10. CASE Remove
  BY <1>10 DEF Remove, HandleAfterRemove, CleanupReturns
<1>11. CASE Truncate
  BY <1>11 DEF Truncate, Truncated, CleanupReturns
<1>12. CASE Crash
  BY <1>12 DEF Crash
<1>13. CASE NewWriter
  BY <1>13 DEF NewWriter
<1>14. CASE UNCHANGED vars
  BY <1>14 DEF vars
<1> QED
  BY <1>1, <1>2, <1>3, <1>4, <1>5, <1>6, <1>7,
     <1>8, <1>9, <1>10, <1>11, <1>12, <1>13, <1>14 DEF Next

\* The writer implements AtomicFile (WritesAtomically): a reader of the
\* destination never sees a part of a content, whichever file system calls fail
\* and whenever the process dies, unless a failed write could not be removed.
THEOREM WritesAtomicallyHolds == Spec => WritesAtomically
<1>1. Init => File!Init /\ TempIsWritten
  BY DEF Init, File!Init, TempIsWritten
<1>2. ASSUME TypeInv, TempIsWritten, [Next]_vars
      PROVE  [File!Next]_(File!vars)
  <2> USE <1>2 DEF File!vars
  <2>1. CASE WriteTemp
    BY <2>1 DEF WriteTemp, File!Next, File!Write
  <2>2. CASE Rename
    BY <2>2 DEF Rename, TempIsWritten, File!Next, File!Commit
  <2>3. CASE NewWriter
    BY <2>3 DEF NewWriter, File!Next, File!Renew
  <2>4. CASE CreateTemp \/ WriteMore \/ WriteFails \/ Close \/ Sync \/ Chmod \/ RenameFails
    BY <2>4 DEF CreateTemp, WriteMore, WriteFails, Close, Sync, Chmod, RenameFails
  <2>5. CASE Truncate \/ Crash \/ UNCHANGED vars
    BY <2>5 DEF Truncate, Crash, vars
  <2>6. CASE Remove
    <3>1. UNCHANGED <<target, written>> /\ (stuck' = stuck \/ stuck' = TRUE)
      BY <2>6 DEF Remove, TypeInv, FlagType
    <3> QED
      BY <3>1 DEF File!Next, File!Spoil
  <2> QED
    BY <2>1, <2>2, <2>3, <2>4, <2>5, <2>6 DEF Next
<1>3. TypeInv /\ TempIsWritten /\ [Next]_vars => TempIsWritten'
  BY TempIsWrittenStep
<1> QED
  BY <1>1, <1>2, <1>3, TypeInvHolds, PTL DEF Spec, WritesAtomically, File!Spec
====
