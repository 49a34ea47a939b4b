--------------------------- MODULE PushToFileProofs ---------------------------
(***************************************************************************)
(* Proofs about the push-to-file provider, for any number of groups.       *)
(***************************************************************************)
EXTENDS PushToFile, TLAPS

DataType ==
    /\ config \in Configs
    /\ files \in [Groups -> FileContents]
    /\ conjur \in [Vars -> Values] /\ denied \subseteq Vars /\ asked \subseteq Vars
    /\ fetched \in [Groups -> Contents \cup {Missing}]
    /\ g \in Groups /\ temp \in Contents \cup {Missing}

\* The variables that a call asks for are variables (getAllPaths).
LEMMA RequestedTyped == DataType => Requested \subseteq Vars
<1> SUFFICES ASSUME DataType PROVE Requested \subseteq Vars
  OBVIOUS
<1>1. SecretSpecs \in [Groups -> (SUBSET (Vars \cup {Star})) \ {{}}]
  BY ConfigAssumption DEF DataType, ConfigType, SecretSpecs
<1>2. CASE \E x \in Groups : Star \in SecretSpecs[x]
  BY <1>2 DEF Requested
<1>3. CASE ~\E x \in Groups : Star \in SecretSpecs[x]
  <2>1. \A x \in Groups : SecretSpecs[x] \subseteq Vars
    BY <1>1, <1>3
  <2> QED
    BY <1>3, <2>1 DEF Requested
<1> QED
  BY <1>2, <1>3

\* What is fetched for a group is a content of its file: values, decoded or not,
\* of variables (FetchSecretsForGroups).
LEMMA FetchedTyped == DataType => RetrievedSecrets(Answer) \in [Groups -> Contents]
<1> SUFFICES ASSUME DataType, NEW x \in Groups PROVE GroupSecrets(x, Answer) \in Contents
  BY DEF RetrievedSecrets
<1>1. SecretSpecs[x] \subseteq Vars \cup {Star}
  BY ConfigAssumption DEF DataType, ConfigType, SecretSpecs
<1>2. Answer \subseteq Vars
  BY DEF DataType, Answer, Returned
<1> DEFINE S == IF Star \in SecretSpecs[x] THEN Answer ELSE SecretSpecs[x]
<1>3. S \in SUBSET Vars
  BY <1>1, <1>2
<1>4. \A v \in Vars : SecretValue(x, v) \in SecretValues
  BY DEF DataType, SecretValue, SecretValues
<1>5. GroupSecrets(x, Answer) \in [S -> SecretValues]
  BY <1>3, <1>4 DEF GroupSecrets
<1> QED
  BY <1>3, <1>5 DEF Contents

ChecksumType == prevFileChecksums \in UNION {[D -> Contents] : D \in SUBSET Groups}

ControlType ==
    /\ step \in Steps /\ ret \in {"none", "error", "updated", "unchanged"}
    /\ changes \in 0..MaxChanges

FlagType == updated \in BOOLEAN /\ changed \in BOOLEAN

\* While groups are written, every group has a fetched content, and the
\* temporary file of the current group holds it.
InHand ==
    /\ step \in {"open", "write", "close", "next"} => fetched \in [Groups -> Contents]
    /\ step = "close" => temp = fetched[g]

\* Every step keeps what is fetched and what is in the temporary file in hand.
LEMMA InHandStep == DataType /\ InHand /\ [Next]_vars => InHand'
<1> SUFFICES ASSUME DataType, InHand, [Next]_vars PROVE InHand'
  OBVIOUS
<1> USE DEF DataType, InHand, envVars, callVars
<1>1. CASE Call
  BY <1>1 DEF Call
<1>2. CASE Fetch
  BY <1>2, FetchedTyped DEF Fetch
<1>3. CASE Sanitize
  BY <1>3 DEF Sanitize, Fault, Change
<1>4. CASE FetchDenied
  BY <1>4 DEF FetchDenied, Fail
<1>5. CASE OpenFile
  BY <1>5 DEF OpenFile, OpenedFile
<1>6. CASE WriteContent
  BY <1>6 DEF WriteContent
<1>7. CASE SkipUnchanged
  BY <1>7 DEF SkipUnchanged, UpdatedAfterSkip
<1>8. CASE CloseFile
  BY <1>8 DEF CloseFile
<1>9. CASE NextGroup
  BY <1>9 DEF NextGroup, LastGroup
<1>10. CASE Return
  BY <1>10 DEF Return, ClearCall
<1>11. CASE FetchFails
  BY <1>11 DEF FetchFails, Fault, Change, Fail
<1>12. CASE OpenFails
  BY <1>12 DEF OpenFails, Fault, Change, Fail
<1>13. CASE WriteFails
  BY <1>13 DEF WriteFails, Fault, Change, Fail
<1>w. CASE LeftoverRenamed
  BY <1>w DEF LeftoverRenamed, Fault, Change
<1>14. CASE CloseFails
  BY <1>14 DEF CloseFails, Fault, Change
<1>15. CASE Restart
  BY <1>15 DEF Restart, Fault, Change, ClearCall
<1>16. CASE Rotate
  BY <1>16 DEF Rotate, ConjurChange, Change
<1>17. CASE Revoke
  BY <1>17 DEF Revoke, ConjurChange, Change
<1>18. CASE Grant
  BY <1>18 DEF Grant, ConjurChange, Change
<1>19. CASE AppDeletes
  BY <1>19 DEF AppDeletes, Change
<1>20. CASE ListVariables
  BY <1>20, RequestedTyped DEF ListVariables
<1>21. CASE Unaccounted
  BY <1>21 DEF Unaccounted, Fail
<1>22. CASE UNCHANGED vars
  BY <1>22 DEF vars
<1> QED
  BY <1>1, <1>2, <1>3, <1>4, <1>5, <1>6, <1>7, <1>8, <1>9, <1>10, <1>11,
     <1>12, <1>13, <1>w, <1>14, <1>15, <1>16, <1>17, <1>18, <1>19, <1>20, <1>21, <1>22
  DEF Next, ProviderStep, FaultStep, Environment

\* Every step keeps the types of the files, the fetched secrets and Conjur.
LEMMA DataTypeStep == DataType /\ InHand /\ [Next]_vars => DataType'
<1> SUFFICES ASSUME DataType, InHand, [Next]_vars PROVE DataType'
  OBVIOUS
<1> USE NAssumption DEF DataType, InHand, Groups, FileContents, envVars, callVars
<1>1. CASE Call
  BY <1>1 DEF Call
<1>2. CASE Fetch
  BY <1>2, FetchedTyped DEF Fetch
<1>3. CASE Sanitize
  BY <1>3 DEF Sanitize, Fault, Change
<1>4. CASE FetchDenied
  BY <1>4 DEF FetchDenied, Fail
<1>5. CASE OpenFile
  BY <1>5 DEF OpenFile, OpenedFile
<1>6. CASE WriteContent
  BY <1>6 DEF WriteContent
<1>7. CASE SkipUnchanged
  BY <1>7 DEF SkipUnchanged, UpdatedAfterSkip
<1>8. CASE CloseFile
  BY <1>8 DEF CloseFile
<1>9. CASE NextGroup
  BY <1>9 DEF NextGroup, LastGroup
<1>10. CASE Return
  BY <1>10 DEF Return, ClearCall
<1>11. CASE FetchFails
  BY <1>11 DEF FetchFails, Fault, Change, Fail
<1>12. CASE OpenFails
  BY <1>12 DEF OpenFails, Fault, Change, Fail
<1>13. CASE WriteFails
  BY <1>13 DEF WriteFails, Fault, Change, Fail
<1>w. CASE LeftoverRenamed
  BY <1>w DEF LeftoverRenamed, Fault, Change
<1>14. CASE CloseFails
  BY <1>14 DEF CloseFails, Fault, Change
<1>15. CASE Restart
  BY <1>15 DEF Restart, Fault, Change, ClearCall
<1>16. CASE Rotate
  BY <1>16 DEF Rotate, ConjurChange, Change
<1>17. CASE Revoke
  BY <1>17 DEF Revoke, ConjurChange, Change
<1>18. CASE Grant
  BY <1>18 DEF Grant, ConjurChange, Change
<1>19. CASE AppDeletes
  BY <1>19 DEF AppDeletes, Change
<1>20. CASE ListVariables
  BY <1>20, RequestedTyped DEF ListVariables
<1>21. CASE Unaccounted
  BY <1>21 DEF Unaccounted, Fail
<1>22. CASE UNCHANGED vars
  BY <1>22 DEF vars
<1> QED
  BY <1>1, <1>2, <1>3, <1>4, <1>5, <1>6, <1>7, <1>8, <1>9, <1>10, <1>11,
     <1>12, <1>13, <1>w, <1>14, <1>15, <1>16, <1>17, <1>18, <1>19, <1>20, <1>21, <1>22
  DEF Next, ProviderStep, FaultStep, Environment

\* Only a fetched content of a group is stored as its checksum (writeContent).
LEMMA ChecksumTypeStep == DataType /\ InHand /\ ChecksumType /\ [Next]_vars => ChecksumType'
<1> SUFFICES ASSUME DataType, InHand, ChecksumType, [Next]_vars PROVE ChecksumType'
  OBVIOUS
<1> USE DEF DataType, InHand, ChecksumType, envVars, callVars
<1>1. CASE Call
  BY <1>1 DEF Call
<1>2. CASE Fetch
  BY <1>2, FetchedTyped DEF Fetch
<1>3. CASE Sanitize
  BY <1>3 DEF Sanitize, Fault, Change
<1>4. CASE FetchDenied
  BY <1>4 DEF FetchDenied, Fail
<1>5. CASE OpenFile
  BY <1>5 DEF OpenFile, OpenedFile
<1>6. CASE WriteContent
  <2>1. PICK D \in SUBSET Groups : prevFileChecksums \in [D -> Contents]
    BY DEF ChecksumType
  <2>2. prevFileChecksums' = Put(prevFileChecksums, g, fetched[g]) /\ fetched[g] \in Contents
    BY <1>6 DEF WriteContent
  <2>3. Put(prevFileChecksums, g, fetched[g]) \in [D \cup {g} -> Contents]
    BY <2>1, <2>2 DEF Put
  <2>4. D \cup {g} \in SUBSET Groups
    BY <2>1
  <2> QED
    BY <2>2, <2>3, <2>4
<1>7. CASE SkipUnchanged
  BY <1>7 DEF SkipUnchanged, UpdatedAfterSkip
<1>8. CASE CloseFile
  BY <1>8 DEF CloseFile
<1>9. CASE NextGroup
  BY <1>9 DEF NextGroup, LastGroup
<1>10. CASE Return
  BY <1>10 DEF Return, ClearCall
<1>11. CASE FetchFails
  BY <1>11 DEF FetchFails, Fault, Change, Fail
<1>12. CASE OpenFails
  BY <1>12 DEF OpenFails, Fault, Change, Fail
<1>13. CASE WriteFails
  BY <1>13 DEF WriteFails, Fault, Change, Fail
<1>w. CASE LeftoverRenamed
  BY <1>w DEF LeftoverRenamed, Fault, Change
<1>14. CASE CloseFails
  BY <1>14 DEF CloseFails, Fault, Change
<1>15. CASE Restart
  <2>1. NoChecksums \in [{} -> Contents]
    BY DEF NoChecksums
  <2> QED
    BY <1>15, <2>1 DEF Restart
<1>16. CASE Rotate
  BY <1>16 DEF Rotate, ConjurChange, Change
<1>17. CASE Revoke
  BY <1>17 DEF Revoke, ConjurChange, Change
<1>18. CASE Grant
  BY <1>18 DEF Grant, ConjurChange, Change
<1>19. CASE AppDeletes
  BY <1>19 DEF AppDeletes, Change
<1>20. CASE ListVariables
  BY <1>20, RequestedTyped DEF ListVariables
<1>21. CASE Unaccounted
  BY <1>21 DEF Unaccounted, Fail
<1>22. CASE UNCHANGED vars
  BY <1>22 DEF vars
<1> QED
  BY <1>1, <1>2, <1>3, <1>4, <1>5, <1>6, <1>7, <1>8, <1>9, <1>10, <1>11,
     <1>12, <1>13, <1>w, <1>14, <1>15, <1>16, <1>17, <1>18, <1>19, <1>20, <1>21, <1>22
  DEF Next, ProviderStep, FaultStep, Environment

\* Every step keeps the labels, the result and the bounded counter in range.
LEMMA ControlTypeStep == ControlType /\ [Next]_vars => ControlType'
<1> SUFFICES ASSUME ControlType, [Next]_vars PROVE ControlType'
  OBVIOUS
<1> USE ConfigAssumption DEF ControlType, Steps
<1>1. CASE Call
  BY <1>1 DEF Call
<1>2. CASE Fetch
  BY <1>2, FetchedTyped DEF Fetch
<1>3. CASE Sanitize
  BY <1>3 DEF Sanitize, Fault, Change
<1>4. CASE FetchDenied
  BY <1>4 DEF FetchDenied, Fail
<1>5. CASE OpenFile
  BY <1>5 DEF OpenFile, OpenedFile
<1>6. CASE WriteContent
  BY <1>6 DEF WriteContent
<1>7. CASE SkipUnchanged
  BY <1>7 DEF SkipUnchanged, UpdatedAfterSkip
<1>8. CASE CloseFile
  BY <1>8 DEF CloseFile
<1>9. CASE NextGroup
  BY <1>9 DEF NextGroup, LastGroup
<1>10. CASE Return
  BY <1>10 DEF Return, ClearCall
<1>11. CASE FetchFails
  BY <1>11 DEF FetchFails, Fault, Change, Fail
<1>12. CASE OpenFails
  BY <1>12 DEF OpenFails, Fault, Change, Fail
<1>13. CASE WriteFails
  BY <1>13 DEF WriteFails, Fault, Change, Fail
<1>w. CASE LeftoverRenamed
  BY <1>w DEF LeftoverRenamed, Fault, Change
<1>14. CASE CloseFails
  BY <1>14 DEF CloseFails, Fault, Change
<1>15. CASE Restart
  BY <1>15 DEF Restart, Fault, Change, ClearCall
<1>16. CASE Rotate
  BY <1>16 DEF Rotate, ConjurChange, Change
<1>17. CASE Revoke
  BY <1>17 DEF Revoke, ConjurChange, Change
<1>18. CASE Grant
  BY <1>18 DEF Grant, ConjurChange, Change
<1>19. CASE AppDeletes
  BY <1>19 DEF AppDeletes, Change
<1>20. CASE ListVariables
  BY <1>20, RequestedTyped DEF ListVariables
<1>21. CASE Unaccounted
  BY <1>21 DEF Unaccounted, Fail
<1>22. CASE UNCHANGED vars
  BY <1>22 DEF vars
<1> QED
  BY <1>1, <1>2, <1>3, <1>4, <1>5, <1>6, <1>7, <1>8, <1>9, <1>10, <1>11,
     <1>12, <1>13, <1>w, <1>14, <1>15, <1>16, <1>17, <1>18, <1>19, <1>20, <1>21, <1>22
  DEF Next, ProviderStep, FaultStep, Environment

\* Every step keeps the flags Boolean.
LEMMA FlagTypeStep == FlagType /\ [Next]_vars => FlagType'
<1> SUFFICES ASSUME FlagType, [Next]_vars PROVE FlagType'
  OBVIOUS
<1> USE DEF FlagType, callVars
<1>1. CASE Call
  BY <1>1 DEF Call
<1>2. CASE Fetch
  BY <1>2, FetchedTyped DEF Fetch
<1>3. CASE Sanitize
  BY <1>3 DEF Sanitize, Fault, Change
<1>4. CASE FetchDenied
  BY <1>4 DEF FetchDenied, Fail
<1>5. CASE OpenFile
  BY <1>5 DEF OpenFile, OpenedFile
<1>6. CASE WriteContent
  BY <1>6 DEF WriteContent
<1>7. CASE SkipUnchanged
  BY <1>7 DEF SkipUnchanged, UpdatedAfterSkip
<1>8. CASE CloseFile
  BY <1>8 DEF CloseFile
<1>9. CASE NextGroup
  BY <1>9 DEF NextGroup, LastGroup
<1>10. CASE Return
  BY <1>10 DEF Return, ClearCall
<1>11. CASE FetchFails
  BY <1>11 DEF FetchFails, Fault, Change, Fail
<1>12. CASE OpenFails
  BY <1>12 DEF OpenFails, Fault, Change, Fail
<1>13. CASE WriteFails
  BY <1>13 DEF WriteFails, Fault, Change, Fail
<1>w. CASE LeftoverRenamed
  BY <1>w DEF LeftoverRenamed, Fault, Change
<1>14. CASE CloseFails
  BY <1>14 DEF CloseFails, Fault, Change
<1>15. CASE Restart
  BY <1>15 DEF Restart, Fault, Change, ClearCall
<1>16. CASE Rotate
  BY <1>16 DEF Rotate, ConjurChange, Change
<1>17. CASE Revoke
  BY <1>17 DEF Revoke, ConjurChange, Change
<1>18. CASE Grant
  BY <1>18 DEF Grant, ConjurChange, Change
<1>19. CASE AppDeletes
  BY <1>19 DEF AppDeletes, Change
<1>20. CASE ListVariables
  BY <1>20, RequestedTyped DEF ListVariables
<1>21. CASE Unaccounted
  BY <1>21 DEF Unaccounted, Fail
<1>22. CASE UNCHANGED vars
  BY <1>22 DEF vars
<1> QED
  BY <1>1, <1>2, <1>3, <1>4, <1>5, <1>6, <1>7, <1>8, <1>9, <1>10, <1>11,
     <1>12, <1>13, <1>w, <1>14, <1>15, <1>16, <1>17, <1>18, <1>19, <1>20, <1>21, <1>22
  DEF Next, ProviderStep, FaultStep, Environment

\* TypeOK in parts, with what keeps it.
TypeInv == DataType /\ ChecksumType /\ ControlType /\ FlagType /\ InHand

\* The types hold in every state.
LEMMA TypeInvHolds == Spec => []TypeInv
<1>1. Init => TypeInv
  <2> SUFFICES ASSUME Init PROVE TypeInv
    OBVIOUS
  <2>1. DataType /\ ControlType /\ InHand
    BY NAssumption, ConfigAssumption
    DEF Init, DataType, ControlType, InHand, Groups, FileContents, Steps
  <2>2. NoChecksums \in [{} -> Contents]
    BY DEF NoChecksums
  <2>3. ChecksumType
    BY <2>2 DEF Init, ChecksumType
  <2> QED
    BY <2>1, <2>3 DEF Init, TypeInv, FlagType
<1>2. TypeInv /\ [Next]_vars => TypeInv'
  BY DataTypeStep, ChecksumTypeStep, ControlTypeStep, FlagTypeStep, InHandStep DEF TypeInv
<1> QED
  BY <1>1, <1>2, PTL DEF Spec

\* Type correctness of the push-to-file provider (TypeOK): files only ever hold
\* contents of Conjur or what a failed write left of one, checksums are always of whole
\* contents, and the loop over the groups stays within them.
THEOREM TypeCorrect == Spec => []TypeOK
<1>1. TypeInv => TypeOK
  BY DEF TypeInv, DataType, ChecksumType, ControlType, FlagType, TypeOK
<1> QED
  BY <1>1, TypeInvHolds, PTL

-----------------------------------------------------------------------------
\* Without sanitization and without an application that deletes files, no file
\* loses its content (ContentNeverLost), for any number of groups, whatever
\* fails and whenever the process dies, but for the file of a group whose temporary
\* file could be neither written nor removed, in a call that returns an error.
THEOREM ContentNeverLostHolds == Spec => ContentNeverLost
<1>1. TypeInv /\ [Next]_vars =>
        [(~SanitizeEnabled /\ ~Deletes) =>
            \A x \in Groups : files[x] \in Contents => files'[x] \in Contents \/ Spoils(x)]_vars
  <2> SUFFICES ASSUME TypeInv, [Next]_vars, ~SanitizeEnabled, ~Deletes,
                      NEW x \in Groups, files[x] \in Contents
               PROVE  files'[x] \in Contents \/ Spoils(x)
    OBVIOUS
  <2> USE DEF TypeInv, DataType, InHand
  <2>1. CASE OpenFile
    BY <2>1, ContentAssumption DEF OpenFile, OpenedFile
  <2>2. CASE CloseFile
    BY <2>2 DEF CloseFile
  <2>3. CASE Sanitize \/ AppDeletes
    BY <2>3 DEF Sanitize, MustSanitize, AppDeletes
  <2>4. CASE Call \/ ListVariables \/ Fetch \/ FetchDenied \/ Unaccounted \/ WriteContent \/ SkipUnchanged \/ NextGroup \/ Return
    BY <2>4 DEF Call, ListVariables, Fetch, FetchDenied, Unaccounted, Fail, WriteContent, SkipUnchanged, NextGroup, Return
  <2>5. CASE FetchFails \/ OpenFails \/ WriteFails \/ CloseFails
    BY <2>5 DEF FetchFails, OpenFails, WriteFails, CloseFails, Fail
  <2>7. CASE LeftoverRenamed
    BY <2>7 DEF LeftoverRenamed, Spoils
  <2>6. CASE Restart \/ Rotate \/ Revoke \/ Grant \/ UNCHANGED vars
    BY <2>6 DEF Restart, Rotate, Revoke, Grant, ConjurChange, vars
  <2> QED
    BY <2>1, <2>2, <2>3, <2>4, <2>5, <2>6, <2>7 DEF Next, ProviderStep, FaultStep, Environment
<1> QED
  BY <1>1, TypeInvHolds, PTL DEF Spec, ContentNeverLost

-----------------------------------------------------------------------------
\* A file that was replaced is remembered in updated until the call returns, or the
\* call returns an error.
Remembered ==
    /\ step \in {"idle", "list", "fetch"} => ~changed
    /\ changed => updated \/ (step = "return" /\ ret = "error")
    /\ step = "return" => ret # "none" /\ (ret = "unchanged" => ~updated)

\* Every step of a call keeps the record of replaced files in updated.
LEMMA RememberedStep == TypeInv /\ Remembered /\ [Next]_vars => Remembered'
<1> SUFFICES ASSUME TypeInv, Remembered, [Next]_vars PROVE Remembered'
  OBVIOUS
<1> USE DEF TypeInv, FlagType, ControlType, Remembered, callVars
<1>1. CASE Call
  BY <1>1 DEF Call
<1>2. CASE Fetch
  BY <1>2, FetchedTyped DEF Fetch
<1>3. CASE Sanitize
  BY <1>3 DEF Sanitize, Fault, Change
<1>4. CASE FetchDenied
  BY <1>4 DEF FetchDenied, Fail
<1>5. CASE OpenFile
  BY <1>5 DEF OpenFile, OpenedFile
<1>6. CASE WriteContent
  BY <1>6 DEF WriteContent
<1>7. CASE SkipUnchanged
  BY <1>7 DEF SkipUnchanged, UpdatedAfterSkip
<1>8. CASE CloseFile
  BY <1>8 DEF CloseFile
<1>9. CASE NextGroup
  BY <1>9 DEF NextGroup, LastGroup
<1>10. CASE Return
  BY <1>10 DEF Return, ClearCall
<1>11. CASE FetchFails
  BY <1>11 DEF FetchFails, Fault, Change, Fail
<1>12. CASE OpenFails
  BY <1>12 DEF OpenFails, Fault, Change, Fail
<1>13. CASE WriteFails
  BY <1>13 DEF WriteFails, Fault, Change, Fail
<1>w. CASE LeftoverRenamed
  BY <1>w DEF LeftoverRenamed, Fault, Change
<1>14. CASE CloseFails
  BY <1>14 DEF CloseFails, Fault, Change
<1>15. CASE Restart
  BY <1>15 DEF Restart, Fault, Change, ClearCall
<1>16. CASE Rotate
  BY <1>16 DEF Rotate, ConjurChange, Change
<1>17. CASE Revoke
  BY <1>17 DEF Revoke, ConjurChange, Change
<1>18. CASE Grant
  BY <1>18 DEF Grant, ConjurChange, Change
<1>19. CASE AppDeletes
  BY <1>19 DEF AppDeletes, Change
<1>20. CASE ListVariables
  BY <1>20, RequestedTyped DEF ListVariables
<1>21. CASE Unaccounted
  BY <1>21 DEF Unaccounted, Fail
<1>22. CASE UNCHANGED vars
  BY <1>22 DEF vars
<1> QED
  BY <1>1, <1>2, <1>3, <1>4, <1>5, <1>6, <1>7, <1>8, <1>9, <1>10, <1>11,
     <1>12, <1>13, <1>w, <1>14, <1>15, <1>16, <1>17, <1>18, <1>19, <1>20, <1>21, <1>22
  DEF Next, ProviderStep, FaultStep, Environment

\* The push-to-file provider implements the contract the scheduler relies on
\* (ImplementsContract).
THEOREM ImplementsContractHolds == Spec => ImplementsContract
<1>1. Init => Contract!Init /\ Remembered
  BY DEF Init, Contract!Init, Remembered
<1>2. ASSUME TypeInv, Remembered, [Next]_vars
      PROVE  [Contract!Next]_(Contract!vars)
  <2> USE <1>2 DEF TypeInv, FlagType, ControlType, Steps, Remembered, Contract!vars
  <2>1. CASE Call
    BY <2>1 DEF Call, Contract!Next, Contract!Call
  <2>2. CASE CloseFile
    BY <2>2 DEF CloseFile, Contract!Next, Contract!ChangeTarget
  <2>3. CASE Sanitize
    BY <2>3 DEF Sanitize, Contract!Next, Contract!ChangeTarget
  <2>4. CASE Return
    BY <2>4 DEF Return, ClearCall, Contract!Next, Contract!Return
  <2>5. CASE Restart
    BY <2>5 DEF Restart, ClearCall, Contract!Next, Contract!Restart
  <2>6. CASE ListVariables \/ Fetch \/ FetchDenied \/ Unaccounted \/ OpenFile \/ WriteContent \/ SkipUnchanged \/ NextGroup
    BY <2>6 DEF ListVariables, Fetch, FetchDenied, Unaccounted, Fail, OpenFile, WriteContent, SkipUnchanged, NextGroup
  <2>7. CASE FetchFails \/ OpenFails \/ WriteFails \/ CloseFails
    BY <2>7 DEF FetchFails, OpenFails, WriteFails, CloseFails, Fail
  <2>9. CASE LeftoverRenamed
    BY <2>9 DEF LeftoverRenamed, Contract!Next, Contract!ChangeTarget
  <2>8. CASE Rotate \/ Revoke \/ Grant \/ AppDeletes \/ UNCHANGED vars
    BY <2>8 DEF Rotate, Revoke, Grant, ConjurChange, AppDeletes, vars
  <2> QED
    BY <2>1, <2>2, <2>3, <2>4, <2>5, <2>6, <2>7, <2>8, <2>9 DEF Next, ProviderStep, FaultStep, Environment
<1> QED
  BY <1>1, <1>2, RememberedStep, TypeInvHolds, PTL DEF Spec, ImplementsContract, Contract!Spec

-----------------------------------------------------------------------------
\* The content whose checksum is stored is in the file, except for the group
\* whose temporary file is not renamed yet; the groups that this call is done
\* with have their fetched content.
Honest ==
    /\ \A x \in DOMAIN prevFileChecksums :
          (step = "close" /\ x = g) \/ files[x] = prevFileChecksums[x]
    /\ step \in {"open", "write", "close", "next"} =>
          \A x \in Groups : x < g => files[x] = fetched[x]
    /\ step = "close" => g \in DOMAIN prevFileChecksums /\ prevFileChecksums[g] = fetched[g]
    /\ step = "next" => files[g] = fetched[g]
    /\ step = "return" /\ ret # "error" => files = fetched

\* No step of the provider or its surroundings changes the configuration.
LEMMA ConfigFrozen == [Next]_vars => config' = config
  BY DEF Next, ProviderStep, FaultStep, Environment, Call, ListVariables, Fetch, Sanitize, FetchDenied, Unaccounted, OpenFile,
     WriteContent, SkipUnchanged, CloseFile, NextGroup, Return, FetchFails, OpenFails, WriteFails, LeftoverRenamed,
     CloseFails, Fail, Restart, Rotate, Revoke, Grant, ConjurChange, AppDeletes, vars

\* In quiet conditions every step keeps checksums and files together.
LEMMA HonestStep == Quiet /\ TypeInv /\ Honest /\ [Next]_vars => Honest'
<1> SUFFICES ASSUME Quiet, TypeInv, Honest, [Next]_vars PROVE Honest'
  OBVIOUS
<1>0. \A x \in DOMAIN prevFileChecksums : x \in Groups /\ prevFileChecksums[x] \in Contents
  BY DEF TypeInv, ChecksumType
<1> USE NAssumption DEF Quiet, TypeInv, DataType, InHand, Honest, Groups, envVars, callVars
<1>1. CASE Call
  BY <1>1, <1>0 DEF Call
<1>2. CASE Fetch
  BY <1>2, <1>0 DEF Fetch
<1>3. CASE Sanitize
  BY <1>3 DEF Sanitize, MustSanitize
<1>4. CASE FetchDenied
  BY <1>4, <1>0 DEF FetchDenied, Fail
<1>5. CASE OpenFile
  <2>1. \A x \in DOMAIN prevFileChecksums : files'[x] = files[x]
    BY <1>5, <1>0, ContentAssumption DEF OpenFile, OpenedFile
  <2>2. \A x \in Groups : x < g => files'[x] = files[x]
    BY <1>5 DEF OpenFile
  <2> QED
    BY <1>5, <2>1, <2>2 DEF OpenFile
<1>6. CASE WriteContent
  <2>1. \A x \in DOMAIN prevFileChecksums' : x # g =>
            x \in DOMAIN prevFileChecksums /\ prevFileChecksums'[x] = prevFileChecksums[x]
    BY <1>6 DEF WriteContent, Put
  <2>2. g \in DOMAIN prevFileChecksums' /\ prevFileChecksums'[g] = fetched[g]
    BY <1>6 DEF WriteContent, Put
  <2>3. step' = "close" /\ UNCHANGED <<files, fetched, g>>
    BY <1>6 DEF WriteContent
  <2> QED
    BY <1>6, <2>1, <2>2, <2>3 DEF WriteContent
<1>7. CASE SkipUnchanged
  BY <1>7, <1>0 DEF SkipUnchanged, ContentHasChanged
<1>8. CASE CloseFile
  <2>1. step = "close" /\ step' = "next" /\ g' = g /\ UNCHANGED <<prevFileChecksums, fetched>>
    BY <1>8 DEF CloseFile
  <2>2. files'[g] = fetched[g] /\ \A x \in Groups : x # g => files'[x] = files[x]
    BY <1>8, <2>1 DEF CloseFile
  <2>3. g \in DOMAIN prevFileChecksums => prevFileChecksums[g] = fetched[g]
    BY <2>1
  <2> QED
    BY <1>0, <2>1, <2>2, <2>3
<1>9. CASE NextGroup
  <2>1. CASE g = N
    <3>1. \A x \in Groups : files[x] = fetched[x]
      BY <1>9, <2>1 DEF NextGroup
    <3>2. files = fetched
      BY <3>1
    <3> QED
      BY <1>9, <2>1, <3>2 DEF NextGroup, LastGroup
  <2>2. CASE g # N
    BY <1>9, <2>2, <1>0 DEF NextGroup, LastGroup
  <2> QED
    BY <2>1, <2>2
<1>10. CASE Return
  BY <1>10, <1>0 DEF Return, ClearCall
<1>11. CASE FetchFails
  BY <1>11, <1>0 DEF FetchFails, Fault, Change, Fail
<1>12. CASE OpenFails
  BY <1>12, <1>0 DEF OpenFails, Fault, Change, Fail
<1>13. CASE WriteFails
  BY <1>13, <1>0 DEF WriteFails, Fault, Change, Fail
<1>w. CASE LeftoverRenamed
  BY <1>w, <1>0 DEF LeftoverRenamed, Fault, Change
<1>14. CASE CloseFails
  BY <1>14, <1>0 DEF CloseFails, Fault, Change
<1>15. CASE Restart
  BY <1>15 DEF Restart, Fault
<1>16. CASE Rotate
  BY <1>16, <1>0 DEF Rotate, ConjurChange, Change
<1>17. CASE Revoke
  BY <1>17, <1>0 DEF Revoke, ConjurChange, Change
<1>18. CASE Grant
  BY <1>18, <1>0 DEF Grant, ConjurChange, Change
<1>19. CASE AppDeletes
  BY <1>19, <1>0 DEF AppDeletes, Change
<1>20. CASE ListVariables
  BY <1>20, <1>0 DEF ListVariables
<1>21. CASE Unaccounted
  BY <1>21, <1>0 DEF Unaccounted, Fail
<1>22. CASE UNCHANGED vars
  BY <1>22, <1>0 DEF vars
<1> QED
  BY <1>1, <1>2, <1>3, <1>4, <1>5, <1>6, <1>7, <1>8, <1>9, <1>10, <1>11,
     <1>12, <1>13, <1>w, <1>14, <1>15, <1>16, <1>17, <1>18, <1>19, <1>20, <1>21, <1>22
  DEF Next, ProviderStep, FaultStep, Environment

\* In quiet conditions a call that returns no error has left in every file what
\* Conjur returned (CallDelivers), for any number of groups.
THEOREM CallDeliversHolds == Spec => []CallDelivers
<1> DEFINE QuietHonest == Quiet => Honest
<1>1. Init => QuietHonest
  BY DEF Init, Honest, NoChecksums
<1>2. TypeInv /\ QuietHonest /\ [Next]_vars => QuietHonest'
  <2> SUFFICES ASSUME TypeInv, QuietHonest, [Next]_vars, Quiet' PROVE Honest'
    OBVIOUS
  <2>1. Quiet
    BY ConfigFrozen DEF Quiet, Faults, Deletes, SanitizeEnabled
  <2> QED
    BY <2>1, HonestStep
<1>3. QuietHonest => CallDelivers
  BY DEF Honest, CallDelivers
<1> HIDE DEF QuietHonest
<1> QED
  BY <1>1, <1>2, <1>3, TypeInvHolds, PTL DEF Spec
====
