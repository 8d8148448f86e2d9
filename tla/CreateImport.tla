---------------------------- MODULE CreateImport ----------------------------
(***************************************************************************)
(* POST /v1/imports: the limit on concurrent uploads, the file streamed to *)
(* disk, and the one transaction that registers import, idempotency key,   *)
(* file and job.                                                           *)
(*                                                                         *)
(* A request draws a random file name and a random import id, so both are  *)
(* known by the request.  Requests with one key are a client's retries or  *)
(* its concurrent duplicates.  OrphanFileSweeper is registered in no       *)
(* module of the application: no step removes a file afterwards.           *)
(***************************************************************************)
EXTENDS Naturals, FiniteSets

CONSTANTS
    Requests,
    IdempotencyKeys,
    MAX_CONCURRENT_UPLOADS,
    None,
    Hazards

(***************************************************************************)
(* "abort": the stream breaks, is truncated or too long.  "error": a       *)
(* statement or a file removal fails.  "reply": the transaction commits    *)
(* and its reply is lost.                                                  *)
(***************************************************************************)
HazardKinds == {"abort", "error", "reply"}

ASSUME CreateImportAssumption ==
    /\ IsFiniteSet(Requests) /\ None \notin Requests
    /\ MAX_CONCURRENT_UPLOADS \in Nat \ {0}
    /\ Hazards \subseteq HazardKinds

VARIABLES
    idempotencyKey, \* the header of each request
    pc,             \* where each request stands
    inFlight,       \* the interceptor's counter
    disk,           \* the file of each request: "none", "partial" or "whole"
    importOf,       \* idempotency_keys: the import of each key
    answer          \* the import the client was told

vars == <<idempotencyKey, pc, inFlight, disk, importOf, answer>>

Handled  == {"checking", "saving", "removing", "creating", "conflict", "deleting"}
Finished == {"accepted", "refused", "failed", "gone"}

TypeOK ==
    /\ idempotencyKey \in [Requests -> IdempotencyKeys]
    /\ pc \in [Requests -> {"new"} \cup Handled \cup Finished]
    /\ inFlight \in 0..MAX_CONCURRENT_UPLOADS
    /\ disk \in [Requests -> {"none", "partial", "whole"}]
    /\ importOf \in [IdempotencyKeys -> Requests \cup {None}]
    /\ answer \in [Requests -> Requests \cup {None}]

Init ==
    /\ idempotencyKey \in [Requests -> IdempotencyKeys]
    /\ pc = [r \in Requests |-> "new"]
    /\ inFlight = 0
    /\ disk = [r \in Requests |-> "none"]
    /\ importOf = [k \in IdempotencyKeys |-> None]
    /\ answer = [r \in Requests |-> None]

-----------------------------------------------------------------------------
\* Rows of import_files: an import and its file are created with its key.
Registered(r) == \E k \in IdempotencyKeys : importOf[k] = r

Goto(r, label) == pc' = [pc EXCEPT ![r] = label]

\* Mutant: finalize runs for successful requests only.
FinishUncounted(r, how) ==
    /\ Goto(r, how)
    /\ inFlight' = IF how = "accepted" THEN inFlight - 1 ELSE inFlight

\* The handler settles, one way or the other: finalize.
Finish(r, how) ==
    /\ Goto(r, how)
    /\ inFlight' = inFlight - 1

HasPlace == inFlight < MAX_CONCURRENT_UPLOADS

\* ConcurrentUploadLimitInterceptor.
Arrive(r) ==
    /\ pc[r] = "new"
    /\ IF HasPlace
         THEN Goto(r, "checking") /\ inFlight' = inFlight + 1
         ELSE Goto(r, "refused") /\ UNCHANGED inFlight
    /\ UNCHANGED <<idempotencyKey, disk, importOf, answer>>

\* The controller refuses: no key, no file part, an archive.
RejectRequest(r) ==
    /\ pc[r] = "checking"
    /\ Finish(r, "refused")
    /\ UNCHANGED <<idempotencyKey, disk, importOf, answer>>

\* The use case refuses: a wrong extension or type.
RejectFileType(r) ==
    /\ pc[r] = "checking"
    /\ Finish(r, "refused")
    /\ UNCHANGED <<idempotencyKey, disk, importOf, answer>>

\* DiskFileStorage.save opens the file under a name of its own.
OpenFile(r) ==
    /\ pc[r] = "checking"
    /\ Goto(r, "saving")
    /\ disk' = [disk EXCEPT ![r] = "partial"]
    /\ UNCHANGED <<idempotencyKey, inFlight, importOf, answer>>

SaveFile(r) ==
    /\ pc[r] = "saving"
    /\ Goto(r, "creating")
    /\ disk' = [disk EXCEPT ![r] = "whole"]
    /\ UNCHANGED <<idempotencyKey, inFlight, importOf, answer>>

\* pipeline rejects, or the source says it was truncated.
SaveFails(r) ==
    /\ "abort" \in Hazards
    /\ pc[r] = "saving"
    /\ Goto(r, "removing")
    /\ UNCHANGED <<idempotencyKey, inFlight, disk, importOf, answer>>

RemovePartial(r) ==
    /\ pc[r] = "removing"
    /\ disk' = [disk EXCEPT ![r] = "none"]
    /\ Finish(r, "failed")
    /\ UNCHANGED <<idempotencyKey, importOf, answer>>

\* Mutant: the key is written over.
InsertOverwriting(r) ==
    /\ importOf' = [importOf EXCEPT ![idempotencyKey[r]] = r]

\* createOrReturnExisting's transaction: UNIQUE (idempotency_keys.key) decides.
Insert(r) ==
    /\ importOf[idempotencyKey[r]] = None
    /\ importOf' = [importOf EXCEPT ![idempotencyKey[r]] = r]

Create(r) ==
    /\ pc[r] = "creating"
    /\ Insert(r)
    /\ answer' = [answer EXCEPT ![r] = r]
    /\ Finish(r, "accepted")
    /\ UNCHANGED <<idempotencyKey, disk>>

CreateReplyLost(r) ==
    /\ "reply" \in Hazards
    /\ pc[r] = "creating"
    /\ Insert(r)
    /\ Finish(r, "failed")
    /\ UNCHANGED <<idempotencyKey, disk, answer>>

Conflict(r) ==
    /\ pc[r] = "creating" /\ importOf[idempotencyKey[r]] # None
    /\ Goto(r, "conflict")
    /\ UNCHANGED <<idempotencyKey, inFlight, disk, importOf, answer>>

\* findUniqueOrThrow, once the transaction is rolled back.
FindExisting(r) ==
    /\ pc[r] = "conflict"
    /\ answer' = [answer EXCEPT ![r] = importOf[idempotencyKey[r]]]
    /\ Goto(r, "deleting")
    /\ UNCHANGED <<idempotencyKey, inFlight, disk, importOf>>

\* Mutants: the replay's own file stays; the existing import's file goes.
DeleteNothing(r) ==
    /\ pc[r] = "deleting"
    /\ Finish(r, "accepted")
    /\ UNCHANGED <<idempotencyKey, disk, importOf, answer>>

DeleteExisting(r) ==
    /\ pc[r] = "deleting"
    /\ disk' = [disk EXCEPT ![answer[r]] = "none"]
    /\ Finish(r, "accepted")
    /\ UNCHANGED <<idempotencyKey, importOf, answer>>

\* An idempotent replay: the file just saved is discarded.
DeleteDuplicate(r) ==
    /\ pc[r] = "deleting"
    /\ disk' = [disk EXCEPT ![r] = "none"]
    /\ Finish(r, "accepted")
    /\ UNCHANGED <<idempotencyKey, importOf, answer>>

\* A removal, the transaction or the read rejects: the request fails and leaves
\* what is on disk.
StepFails(r) ==
    /\ "error" \in Hazards
    /\ pc[r] \in {"removing", "creating", "conflict", "deleting"}
    /\ answer' = [answer EXCEPT ![r] = None]
    /\ Finish(r, "failed")
    /\ UNCHANGED <<idempotencyKey, disk, importOf>>

\* The process ends, and starts again with a counter of its own.
Crash ==
    /\ pc' = [r \in Requests |-> IF pc[r] \in Handled THEN "gone" ELSE pc[r]]
    /\ answer' = [r \in Requests |-> IF pc[r] \in Handled THEN None ELSE answer[r]]
    /\ inFlight' = 0
    /\ UNCHANGED <<idempotencyKey, disk, importOf>>

-----------------------------------------------------------------------------
Handle(r) ==
    \/ RejectRequest(r) \/ RejectFileType(r)
    \/ OpenFile(r) \/ SaveFile(r) \/ SaveFails(r) \/ RemovePartial(r)
    \/ Create(r) \/ CreateReplyLost(r) \/ Conflict(r) \/ FindExisting(r)
    \/ DeleteDuplicate(r) \/ StepFails(r)

Next == (\E r \in Requests : Arrive(r) \/ Handle(r)) \/ Crash

Spec == Init /\ [][Next]_vars

-----------------------------------------------------------------------------
(***************************************************************************)
(* Properties.                                                             *)
(***************************************************************************)
\* The counter is the number of uploads being handled: no failure path leaks a
\* place, so the limit neither locks clients out nor lets too many in.
CounterIsActual ==
    inFlight = Cardinality({r \in Requests : pc[r] \in Handled})

\* An import the worker may pick up has its whole file on disk: no replay, failure
\* or retry removes or replaces it.
RegisteredFilesAreWhole == \A r \in Requests : Registered(r) => disk[r] = "whole"

\* Requests with one key are told one import, the one the key stands for, and one
\* that was told "failed" can be repeated without making a second.
OneImportPerKey ==
    \A r \in Requests : pc[r] = "accepted" => answer[r] = importOf[idempotencyKey[r]]

\* An accepted request leaves a file exactly if it made the import.
AcceptedLeavesNoOrphan ==
    \A r \in Requests : pc[r] = "accepted" => (disk[r] # "none" <=> Registered(r))
=============================================================================
