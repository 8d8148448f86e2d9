-------------------------- MODULE ApiProcessProofs --------------------------
(***************************************************************************)
(* Theorems of CreateImport and of the API process around it, for any      *)
(* requests, keys, places and signals.                                     *)
(***************************************************************************)
EXTENDS ApiProcess, FiniteSetTheorems, TLAPS

HandledNow == {r \in Requests : pc[r] \in Handled}

\* A request's import is made in its last step, from a whole file.
MadeLast ==
    \A r \in Requests : Registered(r) => pc[r] \in Finished /\ disk[r] = "whole"

SavedFirst == \A r \in Requests : pc[r] = "creating" => disk[r] = "whole"

\* A key's import is that of a request with the key.
KeysOwn == \A k \in IdempotencyKeys :
              importOf[k] # None => idempotencyKey[importOf[k]] = k

\* Past the conflict the key has its import, and what is answered is this import.
Answered ==
    \A r \in Requests :
        /\ pc[r] \in {"conflict", "deleting"} => importOf[idempotencyKey[r]] # None
        /\ pc[r] \in {"deleting", "accepted"} => answer[r] = importOf[idempotencyKey[r]]
        /\ pc[r] = "accepted" => answer[r] # None

\* What the proofs carry from step to step.
CreateInv ==
    /\ TypeOK /\ CounterIsActual
    /\ MadeLast /\ SavedFirst /\ KeysOwn /\ Answered
    /\ AcceptedLeavesNoOrphan

-----------------------------------------------------------------------------
(***************************************************************************)
(* The counter.                                                            *)
(***************************************************************************)
LEMMA HandledFinite ==
  /\ IsFiniteSet(HandledNow)
  /\ Cardinality(HandledNow) \in Nat
  /\ HandledNow = {} => Cardinality(HandledNow) = 0
<1>1. HandledNow \in SUBSET Requests
  BY DEF HandledNow
<1>2. IsFiniteSet(HandledNow)
  BY <1>1, FS_Subset, CreateImportAssumption
<1>3. QED
  BY <1>2, FS_CardinalityType, FS_EmptySet

\* A step from one label of the handler to another.
LEMMA StaysHandled ==
  ASSUME TypeOK, CounterIsActual, NEW r \in Requests, pc[r] \in Handled,
         NEW label \in Handled, Goto(r, label), UNCHANGED inFlight
  PROVE  CounterIsActual' /\ inFlight' \in 0..MAX_CONCURRENT_UPLOADS
<1>1. HandledNow' = HandledNow
  BY DEF HandledNow, Goto, TypeOK
<1>2. QED
  BY <1>1 DEF CounterIsActual, HandledNow, TypeOK

\* The handler settles.
LEMMA FinishCounts ==
  ASSUME TypeOK, CounterIsActual, NEW r \in Requests, pc[r] \in Handled,
         NEW how \in Finished, Finish(r, how)
  PROVE  CounterIsActual' /\ inFlight' \in 0..MAX_CONCURRENT_UPLOADS
<1>1. HandledNow' = HandledNow \ {r}
  BY DEF HandledNow, Finish, Goto, TypeOK, Handled, Finished
<1>2. Cardinality(HandledNow \ {r}) = Cardinality(HandledNow) - 1
  BY HandledFinite, FS_RemoveElement DEF HandledNow
<1>3. inFlight = Cardinality(HandledNow) /\ inFlight' = inFlight - 1
  BY DEF CounterIsActual, HandledNow, Finish
<1>4. Cardinality(HandledNow \ {r}) \in Nat
  BY HandledFinite, FS_RemoveElement, FS_CardinalityType
<1>5. inFlight' = Cardinality(HandledNow')
  BY <1>1, <1>2, <1>3
<1>6. QED
  BY <1>2, <1>3, <1>4, <1>5, CreateImportAssumption
  DEF CounterIsActual, HandledNow, TypeOK

LEMMA ArriveCounts ==
  ASSUME TypeOK, CounterIsActual, NEW r \in Requests, Arrive(r)
  PROVE  CounterIsActual' /\ inFlight' \in 0..MAX_CONCURRENT_UPLOADS
<1>1. CASE HasPlace
  <2>1. HandledNow' = HandledNow \cup {r} /\ r \notin HandledNow
    BY <1>1 DEF HandledNow, Arrive, Goto, TypeOK, Handled
  <2>2. Cardinality(HandledNow \cup {r}) = Cardinality(HandledNow) + 1
    BY <2>1, HandledFinite, FS_AddElement
  <2>3. inFlight' = Cardinality(HandledNow')
    BY <1>1, <2>1, <2>2 DEF CounterIsActual, HandledNow, Arrive
  <2>4. inFlight' \in 0..MAX_CONCURRENT_UPLOADS
    BY <1>1, CreateImportAssumption DEF HasPlace, Arrive, TypeOK
  <2>5. QED
    BY <2>3, <2>4 DEF CounterIsActual, HandledNow
<1>2. CASE ~HasPlace
  <2>1. HandledNow' = HandledNow
    BY <1>2 DEF HandledNow, Arrive, Goto, TypeOK, Handled
  <2>2. QED
    BY <1>2, <2>1 DEF CounterIsActual, HandledNow, Arrive, TypeOK
<1>3. QED
  BY <1>1, <1>2

LEMMA CrashCounts ==
  ASSUME TypeOK, Crash PROVE CounterIsActual' /\ inFlight' \in 0..MAX_CONCURRENT_UPLOADS
<1>1. HandledNow' = {}
  BY DEF HandledNow, Crash, TypeOK, Handled
<1>2. Cardinality(HandledNow') = 0
  BY <1>1, FS_EmptySet
<1>3. QED
  BY <1>2, CreateImportAssumption DEF CounterIsActual, HandledNow, Crash

-----------------------------------------------------------------------------
(***************************************************************************)
(* The invariant of CreateImport.                                          *)
(***************************************************************************)
LEMMA CreateInit == Init => CreateInv
<1> SUFFICES ASSUME Init PROVE CreateInv
  OBVIOUS
<1>1. HandledNow = {}
  BY DEF Init, HandledNow, Handled
<1>2. CounterIsActual
  BY <1>1, FS_EmptySet DEF Init, CounterIsActual, HandledNow
<1>3. \A r \in Requests : ~Registered(r)
  BY CreateImportAssumption DEF Init, Registered
<1>4. QED
  BY <1>2, <1>3, CreateImportAssumption
  DEF CreateInv, Init, TypeOK, MadeLast, SavedFirst, KeysOwn, Answered,
      AcceptedLeavesNoOrphan, Handled

\* A step that leaves the keys alone and moves one request that has made no import.
LEMMA FrameKeys ==
  ASSUME CreateInv, UNCHANGED <<idempotencyKey, importOf>>, NEW r \in Requests,
         NEW label \in Handled \cup Finished, Goto(r, label), ~Registered(r),
         disk' \in [Requests -> {"none", "partial", "whole"}],
         answer' \in [Requests -> Requests \cup {None}],
         inFlight' \in 0..MAX_CONCURRENT_UPLOADS, CounterIsActual',
         \A q \in Requests \ {r} : disk'[q] = disk[q] /\ answer'[q] = answer[q],
         label = "creating" => disk'[r] = "whole",
         label \in {"conflict", "deleting"} => importOf[idempotencyKey[r]] # None,
         label \in {"deleting", "accepted"} => answer'[r] = importOf[idempotencyKey[r]],
         label = "accepted" => answer'[r] # None /\ disk'[r] = "none"
  PROVE  CreateInv'
<1>1. TypeOK'
  BY DEF CreateInv, TypeOK, Goto
<1>2. \A q \in Requests : Registered(q)' <=> Registered(q)
  BY DEF Registered
<1>3. \A q \in Requests : pc'[q] = IF q = r THEN label ELSE pc[q]
  BY DEF CreateInv, TypeOK, Goto
<1>4. MadeLast' /\ AcceptedLeavesNoOrphan'
  BY <1>2, <1>3 DEF CreateInv, MadeLast, AcceptedLeavesNoOrphan
<1>5. SavedFirst'
  BY <1>3 DEF CreateInv, SavedFirst
<1>6. KeysOwn'
  BY DEF CreateInv, KeysOwn
<1>7. Answered'
  BY <1>3 DEF CreateInv, Answered
<1>8. QED
  BY <1>1, <1>4, <1>5, <1>6, <1>7 DEF CreateInv

\* The commit of the transaction that registers the import.
LEMMA FrameInsert ==
  ASSUME CreateInv, NEW r \in Requests, pc[r] = "creating", Insert(r),
         NEW how \in {"accepted", "failed"}, Finish(r, how),
         UNCHANGED <<idempotencyKey, disk>>,
         answer' \in [Requests -> Requests \cup {None}],
         \A q \in Requests \ {r} : answer'[q] = answer[q],
         how = "accepted" => answer'[r] = r
  PROVE  CreateInv'
<1> USE CreateImportAssumption
<1>1. CounterIsActual' /\ inFlight' \in 0..MAX_CONCURRENT_UPLOADS
  BY FinishCounts DEF CreateInv, Handled, Finished
<1>2. TypeOK'
  BY <1>1 DEF CreateInv, TypeOK, Insert, Finish, Goto, Finished
<1>3. \A q \in Requests : pc'[q] = IF q = r THEN how ELSE pc[q]
  BY DEF CreateInv, TypeOK, Finish, Goto
<1>4. \A k \in IdempotencyKeys :
        importOf'[k] = IF k = idempotencyKey[r] THEN r ELSE importOf[k]
  BY DEF CreateInv, TypeOK, Insert
<1>5. idempotencyKey[r] \in IdempotencyKeys /\ importOf[idempotencyKey[r]] = None
  BY DEF CreateInv, TypeOK, Insert
<1>6. \A q \in Requests : Registered(q)' <=> q = r \/ Registered(q)
  BY <1>4, <1>5 DEF Registered
<1>7. disk[r] = "whole"
  BY DEF CreateInv, SavedFirst
<1>8. MadeLast' /\ AcceptedLeavesNoOrphan'
  BY <1>3, <1>6, <1>7 DEF CreateInv, MadeLast, AcceptedLeavesNoOrphan, Finished
<1>9. SavedFirst'
  BY <1>3 DEF CreateInv, SavedFirst
<1>10. KeysOwn'
  BY <1>4, <1>5 DEF CreateInv, KeysOwn
<1>11. Answered'
  <2>1. ASSUME NEW q \in Requests, q # r, importOf[idempotencyKey[q]] # None
        PROVE  importOf'[idempotencyKey[q]] = importOf[idempotencyKey[q]]
    BY <1>4, <1>5, <2>1 DEF CreateInv, TypeOK
  <2>2. ASSUME NEW q \in Requests, q # r
        PROVE  /\ pc'[q] \in {"conflict", "deleting"} => importOf'[idempotencyKey'[q]] # None
               /\ pc'[q] \in {"deleting", "accepted"} => answer'[q] = importOf'[idempotencyKey'[q]]
               /\ pc'[q] = "accepted" => answer'[q] # None
    BY <1>3, <2>1, <2>2 DEF CreateInv, Answered
  <2>3. /\ pc'[r] = how
        /\ importOf'[idempotencyKey'[r]] = r
    BY <1>3, <1>4, <1>5
  <2>4. QED
    BY <2>2, <2>3 DEF Answered
<1>12. QED
  BY <1>1, <1>2, <1>8, <1>9, <1>10, <1>11 DEF CreateInv

LEMMA CrashPreserves ==
  ASSUME CreateInv, Crash PROVE CreateInv'
<1>1. CounterIsActual' /\ inFlight' \in 0..MAX_CONCURRENT_UPLOADS
  BY CrashCounts DEF CreateInv
<1>2. TypeOK'
  BY <1>1 DEF CreateInv, TypeOK, Crash, Finished
<1>3. \A q \in Requests : Registered(q)' <=> Registered(q)
  BY DEF Registered, Crash
<1>4. \A q \in Requests : pc'[q] = IF pc[q] \in Handled THEN "gone" ELSE pc[q]
  BY DEF Crash
<1>5. \A q \in Requests : answer'[q] = IF pc[q] \in Handled THEN None ELSE answer[q]
  BY DEF Crash
<1>6. MadeLast' /\ AcceptedLeavesNoOrphan'
  BY <1>3, <1>4 DEF CreateInv, MadeLast, AcceptedLeavesNoOrphan, Finished, Handled, Crash
<1>7. SavedFirst' /\ KeysOwn' /\ Answered'
  BY <1>4, <1>5 DEF CreateInv, SavedFirst, KeysOwn, Answered, Handled, Crash
<1>8. QED
  BY <1>1, <1>2, <1>6, <1>7 DEF CreateInv

LEMMA HandlePreserves ==
  ASSUME CreateInv, NEW r \in Requests, Handle(r) PROVE CreateInv'
<1> USE CreateImportAssumption
<1>1. pc[r] \in Handled => ~Registered(r)
  BY DEF CreateInv, MadeLast, Handled, Finished
<1>2. TypeOK /\ CounterIsActual
  BY DEF CreateInv
<1>3. ASSUME NEW label \in Handled, pc[r] \in Handled, Goto(r, label), UNCHANGED inFlight
      PROVE  CounterIsActual' /\ inFlight' \in 0..MAX_CONCURRENT_UPLOADS
  BY <1>2, <1>3, StaysHandled
<1>4. ASSUME NEW how \in Finished, pc[r] \in Handled, Finish(r, how)
      PROVE  /\ CounterIsActual' /\ inFlight' \in 0..MAX_CONCURRENT_UPLOADS
             /\ Goto(r, how)
  BY <1>2, <1>4, FinishCounts DEF Finish
<1>5. CASE RejectRequest(r) \/ RejectFileType(r)
  <2>1. pc[r] \in Handled /\ Finish(r, "refused") /\ "refused" \in Finished
    BY <1>5 DEF RejectRequest, RejectFileType, Handled, Finished
  <2>2. UNCHANGED <<idempotencyKey, disk, importOf, answer>>
    BY <1>5 DEF RejectRequest, RejectFileType
  <2>3. QED
    BY <1>1, <1>2, <1>4, <2>1, <2>2, FrameKeys DEF TypeOK
<1>6. CASE OpenFile(r) \/ SaveFile(r) \/ SaveFails(r)
  <2>1. PICK label \in {"saving", "creating", "removing"} :
           /\ Goto(r, label)
           /\ label = "creating" => disk'[r] = "whole"
    BY <1>2, <1>6 DEF OpenFile, SaveFile, SaveFails, TypeOK
  <2>2. /\ pc[r] \in Handled /\ label \in Handled
        /\ UNCHANGED <<idempotencyKey, inFlight, importOf, answer>>
        /\ disk' \in [Requests -> {"none", "partial", "whole"}]
        /\ \A q \in Requests \ {r} : disk'[q] = disk[q]
    BY <1>2, <1>6 DEF OpenFile, SaveFile, SaveFails, Handled, TypeOK
  <2>3. CounterIsActual' /\ inFlight' \in 0..MAX_CONCURRENT_UPLOADS
    BY <1>3, <2>1, <2>2
  <2>4. QED
    BY <1>1, <1>2, <2>1, <2>2, <2>3, FrameKeys DEF TypeOK
<1>7. CASE RemovePartial(r)
  <2>1. /\ pc[r] \in Handled /\ Finish(r, "failed") /\ "failed" \in Finished
        /\ UNCHANGED <<idempotencyKey, importOf, answer>>
        /\ disk' \in [Requests -> {"none", "partial", "whole"}]
        /\ \A q \in Requests \ {r} : disk'[q] = disk[q]
    BY <1>2, <1>7 DEF RemovePartial, Handled, Finished, TypeOK
  <2>2. QED
    BY <1>1, <1>2, <1>4, <2>1, FrameKeys DEF TypeOK
<1>8. CASE Create(r)
  <2>1. /\ answer' \in [Requests -> Requests \cup {None}] /\ answer'[r] = r
        /\ \A q \in Requests \ {r} : answer'[q] = answer[q]
    BY <1>2, <1>8 DEF Create, TypeOK
  <2>2. QED
    BY <1>8, <2>1, FrameInsert DEF Create
<1>9. CASE CreateReplyLost(r)
  BY <1>2, <1>9, FrameInsert DEF CreateReplyLost, TypeOK
<1>10. CASE Conflict(r)
  <2>1. /\ pc[r] \in Handled /\ Goto(r, "conflict") /\ "conflict" \in Handled
        /\ importOf[idempotencyKey[r]] # None
        /\ UNCHANGED <<idempotencyKey, inFlight, disk, importOf, answer>>
    BY <1>10 DEF Conflict, Handled
  <2>2. CounterIsActual' /\ inFlight' \in 0..MAX_CONCURRENT_UPLOADS
    BY <1>3, <2>1
  <2>3. QED
    BY <1>1, <1>2, <2>1, <2>2, FrameKeys DEF TypeOK
<1>11. CASE FindExisting(r)
  <2>1. /\ pc[r] \in Handled /\ Goto(r, "deleting") /\ "deleting" \in Handled
        /\ importOf[idempotencyKey[r]] # None
        /\ UNCHANGED <<idempotencyKey, inFlight, disk, importOf>>
    BY <1>11 DEF FindExisting, Handled, CreateInv, Answered
  <2>2. /\ answer' \in [Requests -> Requests \cup {None}]
        /\ answer'[r] = importOf[idempotencyKey[r]]
        /\ \A q \in Requests \ {r} : answer'[q] = answer[q]
    BY <1>2, <1>11 DEF FindExisting, TypeOK
  <2>3. CounterIsActual' /\ inFlight' \in 0..MAX_CONCURRENT_UPLOADS
    BY <1>3, <2>1
  <2>4. QED
    BY <1>1, <1>2, <2>1, <2>2, <2>3, FrameKeys DEF TypeOK
<1>12. CASE DeleteDuplicate(r)
  <2>1. /\ pc[r] \in Handled /\ Finish(r, "accepted") /\ "accepted" \in Finished
        /\ UNCHANGED <<idempotencyKey, importOf, answer>>
        /\ answer[r] = importOf[idempotencyKey[r]] /\ importOf[idempotencyKey[r]] # None
    BY <1>12 DEF DeleteDuplicate, Handled, Finished, CreateInv, Answered
  <2>2. /\ disk' \in [Requests -> {"none", "partial", "whole"}] /\ disk'[r] = "none"
        /\ \A q \in Requests \ {r} : disk'[q] = disk[q]
    BY <1>2, <1>12 DEF DeleteDuplicate, TypeOK
  <2>3. QED
    BY <1>1, <1>2, <1>4, <2>1, <2>2, FrameKeys DEF TypeOK
<1>13. CASE StepFails(r)
  <2>1. /\ pc[r] \in Handled /\ Finish(r, "failed") /\ "failed" \in Finished
        /\ UNCHANGED <<idempotencyKey, disk, importOf>>
        /\ answer' \in [Requests -> Requests \cup {None}]
        /\ \A q \in Requests \ {r} : answer'[q] = answer[q]
    BY <1>2, <1>13 DEF StepFails, Handled, Finished, TypeOK
  <2>2. QED
    BY <1>1, <1>2, <1>4, <2>1, FrameKeys DEF TypeOK
<1>14. QED
  BY <1>5, <1>6, <1>7, <1>8, <1>9, <1>10, <1>11, <1>12, <1>13 DEF Handle

LEMMA CreateStep == CreateInv /\ [Next]_vars => CreateInv'
<1> SUFFICES ASSUME CreateInv, [Next]_vars PROVE CreateInv'
  OBVIOUS
<1>1. ASSUME NEW r \in Requests, Arrive(r) PROVE CreateInv'
  <2>1. CounterIsActual' /\ inFlight' \in 0..MAX_CONCURRENT_UPLOADS
    BY <1>1, ArriveCounts DEF CreateInv
  <2>2. PICK label \in {"checking", "refused"} : Goto(r, label)
    BY <1>1 DEF Arrive
  <2>3. /\ pc[r] = "new" /\ label \in Handled \cup Finished
        /\ UNCHANGED <<idempotencyKey, disk, importOf, answer>>
    BY <1>1, <2>2 DEF Arrive, Handled, Finished
  <2>4. ~Registered(r)
    BY <2>3 DEF CreateInv, MadeLast, Finished
  <2>5. QED
    BY <2>1, <2>2, <2>3, <2>4, FrameKeys DEF CreateInv, TypeOK
<1>2. CASE UNCHANGED vars
  BY <1>2 DEF vars, CreateInv, TypeOK, CounterIsActual, MadeLast, SavedFirst, KeysOwn,
     Answered, AcceptedLeavesNoOrphan, Registered
<1>3. QED
  BY <1>1, <1>2, HandlePreserves, CrashPreserves DEF Next

-----------------------------------------------------------------------------
(***************************************************************************)
(* The theorems of CreateImport.                                           *)
(***************************************************************************)
\* The invariant of the upload path, which the claims below rest on.
THEOREM CreateInvariant == Spec => []CreateInv
BY CreateInit, CreateStep, PTL DEF Spec

\* Every variable keeps its type: no more uploads are counted than there are places,
\* and never fewer than none.
THEOREM TypeCorrect == Spec => []TypeOK
<1>1. CreateInv => TypeOK
  BY DEF CreateInv
<1>2. QED
  BY <1>1, CreateInvariant, PTL

\* The interceptor's counter is exact after every success, failure, abort and restart.
THEOREM CounterIsExact == Spec => []CounterIsActual
<1>1. CreateInv => CounterIsActual
  BY DEF CreateInv
<1>2. QED
  BY <1>1, CreateInvariant, PTL

\* The file of an import is whole, whatever is removed around it.
THEOREM FilesStayWhole == Spec => []RegisteredFilesAreWhole
<1>1. CreateInv => RegisteredFilesAreWhole
  BY DEF CreateInv, MadeLast, RegisteredFilesAreWhole
<1>2. QED
  BY <1>1, CreateInvariant, PTL

\* Whoever is told of an import is told of the one its key stands for.
THEOREM KeysHaveOneImport == Spec => []OneImportPerKey
<1>1. CreateInv => OneImportPerKey
  BY DEF CreateInv, Answered, OneImportPerKey
<1>2. QED
  BY <1>1, CreateInvariant, PTL

\* An accepted request leaves a file if and only if it made the import.
THEOREM NoOrphanOfAccepted == Spec => []AcceptedLeavesNoOrphan
<1>1. CreateInv => AcceptedLeavesNoOrphan
  BY DEF CreateInv
<1>2. QED
  BY <1>1, CreateInvariant, PTL

-----------------------------------------------------------------------------
(***************************************************************************)
(* The theorems of ApiProcess.                                             *)
(***************************************************************************)
\* Signals, closers, exits and restarts are to CreateImport a Crash or nothing, so that
\* all of the above holds of the API process as it is run.
THEOREM ImplementsCreateImport == ApiSpec => Spec
<1>1. ApiInit => Init
  BY DEF ApiInit
<1>2. [ApiNext]_apiVars => [Next]_vars
  BY DEF ApiNext, apiVars, Next, Receive, Serve, HangUp, Signal, HandleSignal, Exit,
     Drained, CloseHttpServer, ServerClosed, CloseContext, ForceExit, Disconnect, Dispose,
     RaiseAgain, Killed, Restart
<1>3. QED
  BY <1>1, <1>2, PTL DEF ApiSpec, Spec

\* A closed server's clients have their answers or are gone, and who is past its closing
\* has seen it closed.
ClosedInv ==
    /\ server = "closed" => \A r \in Requests : pc[r] \in Handled => r \in aborted
    /\ handler = "context" \/ hooks = "raise" => server = "closed"

ApiInv == TypeOK /\ ApiTypeOK /\ ClosedInv

LEMMA ApiInitInv == ApiInit => ApiTypeOK /\ ClosedInv
  BY ApiAssumption DEF ApiInit, ApiTypeOK, ClosedInv

LEMMA ApiStep == ApiInv /\ [ApiNext]_apiVars => ApiTypeOK' /\ ClosedInv'
<1> SUFFICES ASSUME ApiInv, [ApiNext]_apiVars PROVE ApiTypeOK' /\ ClosedInv'
  OBVIOUS
<1> USE ApiAssumption DEF ApiInv, ApiTypeOK, ClosedInv
<1>1. ASSUME Crash PROVE \A r \in Requests : pc'[r] \notin Handled
  BY <1>1 DEF Crash, Handled
<1>2. CASE \E r \in Requests : Receive(r)
  BY <1>2 DEF Receive, processVars
<1>3. CASE \E r \in Requests : Serve(r)
  <2>1. PICK r \in Requests : Handle(r) /\ UNCHANGED processVars
    BY <1>3 DEF Serve
  <2>2. pc[r] \in Handled /\ \A q \in Requests \ {r} : pc'[q] = pc[q]
    BY <2>1 DEF Handle, RejectRequest, RejectFileType, OpenFile, SaveFile, SaveFails,
       RemovePartial, Create, CreateReplyLost, Conflict, FindExisting, DeleteDuplicate,
       StepFails, Finish, Goto, TypeOK, Handled
  <2>3. QED
    BY <2>1, <2>2 DEF processVars
<1>4. CASE \E r \in Requests : HangUp(r)
  BY <1>4 DEF HangUp, vars
<1>5. CASE Signal
  BY <1>1, <1>5 DEF Signal, HandleSignal, Exit, vars
<1>6. CASE Drained
  BY <1>6 DEF Drained, vars
<1>7. CASE CloseHttpServer
  BY <1>7 DEF CloseHttpServer, CloseServer, vars
<1>8. CASE ServerClosed
  BY <1>8 DEF ServerClosed, vars
<1>9. CASE CloseContext \/ ForceExit \/ Killed
  BY <1>1, <1>9 DEF CloseContext, ForceExit, Killed, Exit
<1>10. CASE Disconnect
  BY <1>1, <1>10 DEF Disconnect, Exit, vars
<1>11. CASE Dispose
  BY <1>11 DEF Dispose, CloseServer, vars
<1>12. CASE RaiseAgain
  BY <1>1, <1>12 DEF RaiseAgain, HandleSignal, Exit, vars
<1>13. CASE Restart
  BY <1>13 DEF Restart
<1>14. CASE UNCHANGED apiVars
  BY <1>14 DEF apiVars, processVars, vars
<1>15. QED
  BY <1>2, <1>3, <1>4, <1>5, <1>6, <1>7, <1>8, <1>9, <1>10, <1>11, <1>12,
     <1>13, <1>14 DEF ApiNext

\* The process's own state keeps its type, and a closed server handles only requests
\* whose clients hung up.
THEOREM ApiInvariant == ApiSpec => []ApiInv
<1>1. ApiSpec => []TypeOK
  BY ImplementsCreateImport, TypeCorrect
<1>2. QED
  BY <1>1, ApiInitInv, ApiStep, PTL DEF ApiSpec, ApiInv

\* Only a forced exit cuts a request whose client waits, for any number of requests and
\* signals.
THEOREM OnlyForceCutsClients == ApiSpec => UnforcedExitCutsNoClient
<1>1. ApiInv /\ [ApiNext]_apiVars =>
        [exit = "running" /\ exit' \in {"clean", "raised"} =>
            \A r \in Requests : pc[r] \in Handled => r \in aborted]_apiVars
  BY DEF ApiInv, ApiTypeOK, ClosedInv, ApiNext, apiVars, processVars, Receive, Serve, HangUp,
     Signal, HandleSignal, Exit, Drained, CloseHttpServer, ServerClosed, CloseContext,
     ForceExit, Disconnect, Dispose, RaiseAgain, Killed, Restart
<1>2. QED
  BY <1>1, ApiInvariant, PTL DEF ApiSpec, UnforcedExitCutsNoClient
=============================================================================
