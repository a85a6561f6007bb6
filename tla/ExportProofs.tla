---------------------------- MODULE ExportProofs ----------------------------
(***************************************************************************)
(* What holds of exports for any number of exports, clients and worker     *)
(* slots beside an import pipeline that does whatever it likes: their      *)
(* types, that a COMPLETED export stays so unless a lock is lost, and what *)
(* is stored and counted although rows come and go meanwhile.              *)
(***************************************************************************)
EXTENDS ExportPipeline, ImportPipelineProofs, FiniteSetTheorems

----------------------------------------------------------------------------
(* The products of the import stay finitely many, so they can be counted.  *)

LEMMA ImageFinite ==
  ASSUME NEW S, IsFiniteSet(S), NEW f, f = [x \in S |-> f[x]]
  PROVE  IsFiniteSet({f[x] : x \in S})
  <1>. DEFINE T == {f[x] : x \in S}
  <1>1. f \in Surjection(S, T)
    BY DEF Surjection
  <1>. QED
    BY <1>1, FS_Surjection

Finite == IsFiniteSet(products)

LEMMA RowIdsFinite ==
  ASSUME Finite
  PROVE  IsFiniteSet(RowIds)
  <1>. DEFINE f == [p \in products |-> p.id]
  <1>1. RowIds = {f[p] : p \in products}
    BY DEF RowIds
  <1>2. f = [p \in products |-> f[p]]
    OBVIOUS
  <1>. HIDE DEF f
  <1>. QED
    BY <1>1, <1>2, ImageFinite DEF Finite

LEMMA FinitePipeline ==
  ASSUME Finite, Pipeline
  PROVE  Finite'
  <1>1. ASSUME NEW s \in Slots, NormalizeDelete(s) PROVE Finite'
    BY <1>1, FS_EmptySet DEF NormalizeDelete, Finite
  <1>2. ASSUME NEW s \in Slots, NormalizeCreate(s) PROVE Finite'
    BY <1>2, FS_AddElement DEF NormalizeCreate, Finite
  <1>3. ASSUME NEW s \in Slots, ValidateMark(s) PROVE Finite'
    <2>1. PICK r \in exec[s].seen :
            products' = {IF p.id = r.id THEN [p EXCEPT !.status = r.status] ELSE p : p \in products}
      BY <1>3 DEF ValidateMark
    <2>. DEFINE f == [p \in products |-> IF p.id = r.id THEN [p EXCEPT !.status = r.status] ELSE p]
    <2>2. products' = {f[p] : p \in products}
      BY <2>1
    <2>3. IsFiniteSet({f[p] : p \in products})
      <3>. HIDE DEF f
      <3>1. f = [p \in products |-> f[p]]
        BY DEF f
      <3>. QED
        BY <3>1, ImageFinite DEF Finite
    <2>. QED
      BY <2>2, <2>3 DEF Finite
  <1>4. ASSUME NEW c \in Clients, Call(c) \/ Serve(c) \/ Abort(c) PROVE UNCHANGED products
    BY <1>4 DEF Call, Create, Presign, Process, Remove, Confirm, Save, Handle, Serve,
       PresignUpdate, ConfirmCreate, ConfirmUploaded, ConfirmEnqueue, ConfirmQueued,
       SaveReplace, ProcessStart, ProcessEnqueue, RemoveUpdate, Abort
  <1>5. CASE Surroundings
    BY <1>5 DEF Surroundings, Tick, Recover, Forget, LoseLock, Throw, EndAttempt, NoEnvVars, Finite
  <1>6. ASSUME NEW s \in Slots, Work(s), ~NormalizeDelete(s), ~NormalizeCreate(s), ~ValidateMark(s)
        PROVE  UNCHANGED products
    BY <1>6 DEF Work, StartParse, StartNormalize, StartValidate, NoStartVars, FileMissing,
       ParseStatus, ParseWrite, NormalizeStatus, NormalizeUsage, NormalizeValidating,
       NormalizeEnqueue, ValidateClear, ValidateIssues, ValidateReady, Finish, Reject, EndAttempt
  <1>. QED
    BY <1>1, <1>2, <1>3, <1>4, <1>5, <1>6 DEF Pipeline, Finite

----------------------------------------------------------------------------
(* Types, with the export that a request or an execution is about.         *)

ExportKnown ==
  /\ \A c \in Clients : xreq[c].pc \in {"commit", "add"} => xreq[c].id \in Exports
  /\ \A s \in Slots : xexec[s].pc # "idle" => xexec[s].id \in Exports

ExportVarsOK ==
  /\ export \in [Exports -> ExportJob]
  /\ object \in [Exports -> SUBSET SUBSET Entry]
  /\ copies \in [Exports -> Seq(SUBSET Entry)]
  /\ edits \subseteq Edit
  /\ xqueue \in [Exports -> JobState]
  /\ xexec \in [Slots -> ExportExec]
  /\ xreq \in [Clients -> ExportReq]
  /\ xspent \in [ExportEvent -> Nat]

ExportTypeInv == TypeInv /\ Finite /\ ExportVarsOK /\ ExportKnown

LEMMA ExportNullTypes ==
  /\ ExportIdle \in ExportExec /\ ExportIdle.pc = "idle"
  /\ NoExportReq \in ExportReq /\ NoExportReq.pc = "idle"
  BY DEF ExportIdle, ExportExec, ExportPc, NoExportReq, ExportReq, ExportReqPc

LEMMA ExportSpendType ==
  ASSUME ExportVarsOK, NEW v \in ExportEvent, ExportSpend(v)
  PROVE  xspent' \in [ExportEvent -> Nat]
  BY DEF ExportVarsOK, ExportSpend

LEMMA ExportRespondStep ==
  ASSUME ExportVarsOK, NEW c \in Clients, ExportRespond(c)
  PROVE  /\ xreq' \in [Clients -> ExportReq]
         /\ xreq'[c].pc = "idle"
         /\ \A d \in Clients \ {c} : xreq'[d] = xreq[d]
  BY ExportNullTypes DEF ExportVarsOK, ExportRespond

LEMMA SetExportStep ==
  ASSUME ExportVarsOK, NEW s \in Slots, NEW x \in ExportExec, SetExport(s, x)
  PROVE  /\ xexec' \in [Slots -> ExportExec]
         /\ xexec'[s] = x
         /\ \A t \in Slots \ {s} : xexec'[t] = xexec[t]
  BY DEF ExportVarsOK, SetExport

LEMMA ExportGoStep ==
  ASSUME ExportVarsOK, NEW s \in Slots, NEW pc \in ExportPc, ExportGo(s, pc)
  PROVE  /\ xexec' \in [Slots -> ExportExec]
         /\ xexec'[s].pc = pc
         /\ xexec'[s].id = xexec[s].id
         /\ xexec'[s].lock = xexec[s].lock
         /\ \A t \in Slots \ {s} : xexec'[t] = xexec[t]
  <1>1. xexec[s] \in ExportExec
    BY DEF ExportVarsOK
  <1>2. [xexec[s] EXCEPT !.pc = pc] \in ExportExec
    BY <1>1 DEF ExportExec
  <1>. QED
    BY <1>1, <1>2, SetExportStep DEF ExportGo, ExportExec

LEMMA EntriesType ==
  ASSUME ExportTypeInv
  PROVE  Entries \in SUBSET Entry
  <1>1. \A p \in products : p.id \in RowId
    BY DEF ExportTypeInv, TypeInv, TypeOK, Row
  <1>2. \A id : {d.field : d \in EditsOf(id)} \in SUBSET Fields
    BY DEF ExportTypeInv, ExportVarsOK, EditsOf, Edit
  <1>. QED
    BY <1>1, <1>2 DEF Entries, Entry

----------------------------------------------------------------------------
(* Every step keeps the types.                                             *)

LEMMA ExportRequestType ==
  ASSUME ExportTypeInv, NEW c \in Clients,
         \/ ExportServe(c) \/ ExportAbort(c)
         \/ \E e \in Exports : CreateExport(c, e)
         \/ \E p \in products, f \in Fields : Patch(c, p, f)
  PROVE  ExportTypeInv'
  <1>. USE DEF ExportTypeInv
  <1>1. TypeInv' /\ Finite'
    BY DEF ExportServe, ExportAbort, CreateExport, Patch, CreateCommit, CreateAdd, PatchWrite,
       TypeInv, TypeOK, FileKnown, Finite, vars
  <1>2. CASE CreateCommit(c)
    <2>1. xreq[c] \in ExportReq /\ xreq[c].id \in Exports
      BY <1>2 DEF ExportVarsOK, ExportKnown, CreateCommit
    <2>2. export' \in [Exports -> ExportJob]
      BY <1>2, <2>1 DEF CreateCommit, ExportVarsOK, ExportJob, ExportStatus, ExportReq
    <2>3. [xreq[c] EXCEPT !.pc = "add"] \in ExportReq
      BY <2>1 DEF ExportReq, ExportReqPc
    <2>4. /\ xreq' \in [Clients -> ExportReq] /\ xreq'[c].id = xreq[c].id
          /\ \A d \in Clients \ {c} : xreq'[d] = xreq[d]
      BY <1>2, <2>1, <2>3 DEF CreateCommit, ExportVarsOK, ExportReq
    <2>. QED
      BY <1>1, <1>2, <2>1, <2>2, <2>4 DEF CreateCommit, ExportVarsOK, ExportKnown
  <1>3. CASE CreateAdd(c)
    <2>1. xreq[c].id \in Exports
      BY <1>3 DEF ExportKnown, CreateAdd
    <2>2. xqueue' \in [Exports -> JobState]
      BY <1>3, <2>1, QueueTypes DEF CreateAdd, ExportVarsOK
    <2>. QED
      BY <1>1, <1>3, <2>2, ExportRespondStep DEF CreateAdd, ExportVarsOK, ExportKnown
  <1>4. CASE PatchWrite(c)
    <2>1. xreq[c].edit \subseteq Edit
      BY DEF ExportVarsOK, ExportReq
    <2>2. edits' \subseteq Edit
      BY <1>4, <2>1 DEF PatchWrite, ExportVarsOK
    <2>. QED
      BY <1>1, <1>4, <2>2, ExportRespondStep DEF PatchWrite, ExportVarsOK, ExportKnown
  <1>5. CASE ExportAbort(c)
    BY <1>1, <1>5, ExportRespondStep, ExportSpendType
    DEF ExportAbort, ExportVarsOK, ExportKnown, ExportEvent
  <1>6. ASSUME NEW e \in Exports, CreateExport(c, e) PROVE ExportTypeInv'
    <2>. DEFINE r == [NoExportReq EXCEPT !.pc = "commit", !.id = e, !.total = Cardinality(RowIds)]
    <2>1. Cardinality(RowIds) \in Nat
      BY RowIdsFinite, FS_CardinalityType
    <2>2. r \in ExportReq /\ r.id = e
      BY <2>1 DEF NoExportReq, ExportReq, ExportReqPc
    <2>. HIDE DEF r
    <2>3. /\ xreq' \in [Clients -> ExportReq] /\ xreq'[c] = r
          /\ \A d \in Clients \ {c} : xreq'[d] = xreq[d]
      BY <1>6, <2>2 DEF CreateExport, ExportBegin, ExportVarsOK, r
    <2>4. xspent' \in [ExportEvent -> Nat]
      BY <1>6, ExportSpendType DEF CreateExport, ExportBegin, ExportEvent
    <2>. QED
      BY <1>1, <1>6, <2>2, <2>3, <2>4 DEF CreateExport, ExportVarsOK, ExportKnown
  <1>7. ASSUME NEW p \in products, NEW f \in Fields, Patch(c, p, f) PROVE ExportTypeInv'
    <2>. DEFINE m == EditsOf(p.id) \cup {[id |-> p.id, field |-> f]}
                r == [NoExportReq EXCEPT !.pc = "patch", !.edit = m]
    <2>1. p.id \in RowId
      BY DEF TypeInv, TypeOK, Row
    <2>2. m \subseteq Edit
      BY <2>1 DEF ExportVarsOK, EditsOf, Edit
    <2>3. r \in ExportReq /\ r.pc = "patch"
      <3>. HIDE DEF m
      <3>. QED
        BY <2>2 DEF NoExportReq, ExportReq, ExportReqPc
    <2>. HIDE DEF r
    <2>4. /\ xreq' \in [Clients -> ExportReq] /\ xreq'[c] = r
          /\ \A d \in Clients \ {c} : xreq'[d] = xreq[d]
      BY <1>7, <2>3 DEF Patch, ExportBegin, ExportVarsOK, r
    <2>5. xspent' \in [ExportEvent -> Nat]
      BY <1>7, ExportSpendType DEF Patch, ExportBegin, ExportEvent
    <2>. QED
      BY <1>1, <1>7, <2>3, <2>4, <2>5 DEF Patch, ExportVarsOK, ExportKnown
  <1>. QED
    BY <1>2, <1>3, <1>4, <1>5, <1>6, <1>7 DEF ExportServe

LEMMA ExportWorkType ==
  ASSUME ExportTypeInv, NEW s \in Slots,
         ExportWork(s) \/ ExportThrow(s) \/ ExportLoseLock(s)
  PROVE  ExportTypeInv'
  <1>. USE DEF ExportTypeInv
  <1>1. CASE ExportMark(s)
    <2>. DEFINE f == [p \in products |->
                        IF p.status = "READY" THEN [p EXCEPT !.status = "EXPORTED"] ELSE p]
    <2>1. products' = {f[p] : p \in products}
      BY <1>1 DEF ExportMark
    <2>2. \A p \in products : f[p] \in Row
      BY DEF TypeInv, TypeOK, Row, ProductStatus
    <2>3. IsFiniteSet({f[p] : p \in products})
      <3>. HIDE DEF f
      <3>1. f = [p \in products |-> f[p]]
        BY DEF f
      <3>. QED
        BY <3>1, ImageFinite DEF Finite
    <2>. HIDE DEF f
    <2>4. products' \subseteq Row /\ Finite'
      BY <2>1, <2>2, <2>3 DEF Finite
    <2>5. TypeInv'
      BY <1>1, <2>4 DEF ExportMark, TypeInv, TypeOK, FileKnown
    <2>. QED
      BY <1>1, <2>4, <2>5, ExportGoStep DEF ExportMark, ExportVarsOK, ExportKnown, ExportPc
  <1>2. TypeInv' /\ Finite'
    BY <1>1 DEF ExportWork, ExportStart, ExportProcessing, ExportPut, ExportFile, ExportComplete,
       ExportFinish, ExportThrow, ExportLoseLock, vars, TypeInv, TypeOK, FileKnown, Finite
  <1>3. xexec[s] \in ExportExec /\ (xexec[s].pc # "idle" => xexec[s].id \in Exports)
    BY DEF ExportVarsOK, ExportKnown
  <1>4. xexec[s].read \in SUBSET Entry
    BY <1>3 DEF ExportExec
  <1>5. ASSUME NEW e \in Exports, ExportStart(s, e) PROVE ExportTypeInv'
    <2>. DEFINE x == [pc    |-> IF export[e].status = "COMPLETED" THEN "done" ELSE "status",
                      id    |-> e, lock |-> TRUE, read |-> Entries]
    <2>1. x \in ExportExec /\ x.id = e
      BY EntriesType DEF ExportExec, ExportPc
    <2>2. xqueue' \in [Exports -> JobState]
      BY <1>5, QueueTypes DEF ExportStart, ExportVarsOK
    <2>3. /\ xexec' \in [Slots -> ExportExec] /\ xexec'[s].id = e
          /\ \A t \in Slots \ {s} : xexec'[t] = xexec[t]
      BY <1>5, <2>1, SetExportStep DEF ExportStart
    <2>. HIDE DEF x
    <2>. QED
      BY <1>2, <1>5, <2>2, <2>3 DEF ExportStart, ExportVarsOK, ExportKnown
  <1>6. CASE ExportProcessing(s) \/ ExportComplete(s)
    <2>1. export' \in [Exports -> ExportJob]
      <3>1. PICK status \in ExportStatus : export' = [export EXCEPT ![xexec[s].id].status = status]
        BY <1>6 DEF ExportProcessing, ExportComplete, ExportStatus
      <3>. QED
        BY <3>1 DEF ExportVarsOK, ExportJob
    <2>2. CASE ExportProcessing(s)
      BY <1>2, <1>3, <2>1, <2>2, ExportGoStep DEF ExportProcessing, ExportVarsOK, ExportKnown, ExportPc
    <2>3. CASE ExportComplete(s)
      BY <1>2, <1>3, <2>1, <2>3, ExportGoStep DEF ExportComplete, ExportVarsOK, ExportKnown, ExportPc
    <2>. QED
      BY <1>6, <2>2, <2>3
  <1>7. CASE ExportPut(s)
    BY <1>2, <1>3, <1>4, <1>7, ExportGoStep DEF ExportPut, ExportVarsOK, ExportKnown, ExportPc
  <1>8. CASE ExportFile(s)
    <2>1. Append(copies[xexec[s].id], xexec[s].read) \in Seq(SUBSET Entry)
      BY <1>3, <1>4, <1>8 DEF ExportFile, ExportVarsOK
    <2>2. copies' \in [Exports -> Seq(SUBSET Entry)]
      BY <1>8, <2>1 DEF ExportFile, ExportVarsOK
    <2>. QED
      BY <1>2, <1>3, <1>8, <2>2, ExportGoStep DEF ExportFile, ExportVarsOK, ExportKnown, ExportPc
  <1>9. CASE ExportFinish(s) \/ ExportThrow(s)
    <2>1. xexec[s].id \in Exports
      BY <1>3, <1>9 DEF ExportFinish, ExportThrow
    <2>2. xqueue' \in [Exports -> JobState]
      BY <1>9, <2>1, QueueTypes DEF ExportFinish, ExportThrow, ExportVarsOK
    <2>3. /\ xexec' \in [Slots -> ExportExec] /\ xexec'[s].pc = "idle"
          /\ \A t \in Slots \ {s} : xexec'[t] = xexec[t]
      BY <1>9, ExportNullTypes, SetExportStep DEF ExportFinish, ExportThrow
    <2>4. xspent' \in [ExportEvent -> Nat]
      BY <1>9, ExportSpendType DEF ExportFinish, ExportThrow, ExportVarsOK, ExportEvent
    <2>. QED
      BY <1>2, <1>9, <2>2, <2>3, <2>4 DEF ExportFinish, ExportThrow, ExportVarsOK, ExportKnown
  <1>10. CASE ExportLoseLock(s)
    <2>. DEFINE x == [xexec[s] EXCEPT !.lock = FALSE]
    <2>1. x \in ExportExec /\ x.pc = xexec[s].pc /\ x.id = xexec[s].id
      BY <1>3 DEF ExportExec
    <2>2. xqueue' \in [Exports -> JobState]
      BY <1>3, <1>10, QueueTypes DEF ExportLoseLock, ExportVarsOK
    <2>3. /\ xexec' \in [Slots -> ExportExec] /\ xexec'[s] = x
          /\ \A t \in Slots \ {s} : xexec'[t] = xexec[t]
      BY <1>10, <2>1, SetExportStep DEF ExportLoseLock
    <2>4. xspent' \in [ExportEvent -> Nat]
      BY <1>10, ExportSpendType DEF ExportLoseLock, ExportEvent
    <2>. HIDE DEF x
    <2>. QED
      BY <1>2, <1>3, <1>10, <2>1, <2>2, <2>3, <2>4 DEF ExportLoseLock, ExportVarsOK, ExportKnown
  <1>. QED
    BY <1>1, <1>5, <1>6, <1>7, <1>8, <1>9, <1>10 DEF ExportWork

LEMMA ExportTypeInit ==
  ASSUME ExportInit
  PROVE  ExportTypeInv
  <1>1. NoJob \in JobState
    BY DEF NoJob, JobState, JobPhase
  <1>2. TypeInv /\ Finite
    BY TypeInit, FS_EmptySet DEF ExportInit, Init, Finite
  <1>3. ExportVarsOK
    BY <1>1, ExportNullTypes
    DEF ExportInit, ExportVarsInit, ExportVarsOK, ExportJob, ExportStatus, ExportEvent
  <1>4. ExportKnown
    BY ExportNullTypes DEF ExportInit, ExportVarsInit, ExportKnown
  <1>. QED
    BY <1>2, <1>3, <1>4 DEF ExportTypeInv

LEMMA ExportTypeNext ==
  ASSUME ExportTypeInv, [ExportNext]_allVars
  PROVE  ExportTypeInv'
  <1>1. ASSUME NEW c \in Clients,
               \/ ExportServe(c) \/ ExportAbort(c)
               \/ \E e \in Exports : CreateExport(c, e)
               \/ \E p \in products, f \in Fields : Patch(c, p, f)
        PROVE  ExportTypeInv'
    BY <1>1, ExportRequestType
  <1>2. ASSUME NEW s \in Slots, ExportWork(s) \/ ExportThrow(s) \/ ExportLoseLock(s)
        PROVE  ExportTypeInv'
    BY <1>2, ExportWorkType
  <1>3. ASSUME NEW e \in Exports, ExportRecover(e) PROVE ExportTypeInv'
    <2>1. xqueue' \in [Exports -> JobState]
      BY <1>3, QueueTypes DEF ExportRecover, ExportTypeInv, ExportVarsOK
    <2>. QED
      BY <1>3, <2>1 DEF ExportRecover, ExportTypeInv, ExportVarsOK, ExportKnown, vars,
         TypeInv, TypeOK, FileKnown, Finite
  <1>4. CASE WorkerDies
    <2>1. xspent' \in [ExportEvent -> Nat]
      BY <1>4, ExportSpendType DEF WorkerDies, ExportTypeInv, ExportEvent
    <2>2. TypeInv' /\ Finite'
      BY <1>4, IdleType DEF WorkerDies, NoEnvVars, ExportTypeInv, TypeInv, TypeOK, FileKnown, Finite
    <2>. QED
      BY <1>4, <2>1, <2>2, ExportNullTypes DEF WorkerDies, ExportTypeInv, ExportVarsOK, ExportKnown
  <1>5. CASE Pipeline /\ UNCHANGED exportVars
    <2>1. Next
      BY <1>5 DEF Pipeline, Next, Environment
    <2>2. TypeInv' /\ Finite'
      BY <1>5, <2>1, TypeNext, FinitePipeline DEF ExportTypeInv
    <2>. QED
      BY <1>5, <2>2 DEF exportVars, ExportTypeInv, ExportVarsOK, ExportKnown
  <1>6. CASE UNCHANGED allVars
    BY <1>6 DEF allVars, vars, exportVars, ExportTypeInv, ExportVarsOK, ExportKnown,
       TypeInv, TypeOK, FileKnown, Finite
  <1>. QED
    BY <1>1, <1>2, <1>3, <1>4, <1>5, <1>6 DEF ExportNext, ExportStep

HistoryOK == late \subseteq RowId /\ moved \subseteq Exports

LEMMA HistoryNext ==
  ASSUME ExportTypeInv', HistoryOK, [ExportNext]_allVars
  PROVE  HistoryOK'
  <1>1. RowIds' \subseteq RowId
    BY DEF RowIds, ExportTypeInv, TypeInv, TypeOK, Row
  <1>. QED
    BY <1>1 DEF HistoryOK, ExportNext, Remember, allVars, historyVars

(* Type correctness of exports and of the pipeline beside them: updateMany *)
(* of the export processor leaves Product rows that the pipeline can go on *)
(* with, and the count POST /exports stores is a number.                   *)
THEOREM ExportTypeCorrect == ExportSpec => []ExportTypeOK
  <1>1. ExportInit => ExportTypeInv /\ HistoryOK
    BY ExportTypeInit DEF ExportInit, ExportVarsInit, HistoryOK
  <1>2. ExportTypeInv /\ HistoryOK /\ [ExportNext]_allVars => ExportTypeInv' /\ HistoryOK'
    BY ExportTypeNext, HistoryNext
  <1>3. ExportTypeInv /\ HistoryOK => ExportTypeOK
    BY DEF ExportTypeInv, ExportTypeOK, TypeInv, ExportVarsOK, HistoryOK
  <1>. QED
    BY <1>1, <1>2, <1>3, PTL DEF ExportSpec

----------------------------------------------------------------------------
(* While no lock is lost, an export has one execution at most, and none    *)
(* once it is COMPLETED, except one that has still to mark the products.   *)

Busy(s) == xexec[s].pc # "idle"

Early(s) == xexec[s].pc \in {"status", "put", "file", "complete"}

Alone ==
  /\ \A s \in Slots : Busy(s) => xexec[s].lock /\ xqueue[xexec[s].id].phase = "active"
  /\ \A s, t \in Slots : Busy(s) /\ Busy(t) /\ xexec[s].id = xexec[t].id => s = t

Guarded ==
  /\ \A s \in Slots : Early(s) => export[xexec[s].id].status # "COMPLETED"
  /\ \A c \in Clients : xreq[c].pc = "commit" => export[xreq[c].id].status = "NONE"
  /\ \A c, d \in Clients : /\ xreq[c].pc = "commit" /\ xreq[d].pc = "commit"
                           /\ xreq[c].id = xreq[d].id
                           => c = d
  /\ \A s \in Slots : Busy(s) => export[xexec[s].id].status # "NONE"
  /\ \A e \in Exports : xqueue[e].phase # "absent" => export[e].status # "NONE"
  /\ \A c \in Clients : xreq[c].pc = "add" => export[xreq[c].id].status # "NONE"

ExportInv == ExportTypeInv /\ Alone /\ Guarded

StaysDone(e) == export[e].status = "COMPLETED" => export'[e].status = "COMPLETED"

LEMMA RequestsGuarded ==
  ASSUME ExportInv, NEW c \in Clients, ExportTypeInv',
         \/ ExportServe(c) \/ ExportAbort(c)
         \/ \E e \in Exports : CreateExport(c, e)
         \/ \E p \in products, f \in Fields : Patch(c, p, f)
  PROVE  Alone' /\ Guarded' /\ \A e \in Exports : StaysDone(e)
  <1>. USE DEF ExportInv, ExportTypeInv
  <1>1. CASE CreateCommit(c)
    <2>1. xreq[c].id \in Exports /\ export[xreq[c].id].status = "NONE"
      BY <1>1 DEF ExportKnown, CreateCommit, Guarded
    <2>2. /\ export' \in [Exports -> ExportJob] /\ export'[xreq[c].id].status = "QUEUED"
          /\ \A e \in Exports \ {xreq[c].id} : export'[e] = export[e]
      BY <1>1, <2>1 DEF CreateCommit, ExportVarsOK
    <2>3. /\ xreq'[c].pc = "add" /\ xreq'[c].id = xreq[c].id
          /\ \A d \in Clients \ {c} : xreq'[d] = xreq[d]
      BY <1>1 DEF CreateCommit, ExportVarsOK, ExportReq
    <2>. QED
      BY <1>1, <2>1, <2>2, <2>3 DEF CreateCommit, ExportKnown, Alone, Guarded, Busy, Early, StaysDone
  <1>2. CASE CreateAdd(c)
    <2>1. xreq[c].id \in Exports /\ export[xreq[c].id].status # "NONE"
      BY <1>2 DEF ExportKnown, CreateAdd, Guarded
    <2>2. \A e \in Exports : e # xreq[c].id => xqueue'[e] = xqueue[e]
      BY <1>2, <2>1 DEF CreateAdd, Add, ExportVarsOK
    <2>3. xqueue[xreq[c].id].phase # "absent" => xqueue'[xreq[c].id] = xqueue[xreq[c].id]
      BY <1>2, <2>1 DEF CreateAdd, Add, ExportVarsOK
    <2>. QED
      BY <1>2, <2>1, <2>2, <2>3, ExportRespondStep
      DEF CreateAdd, ExportKnown, Alone, Guarded, Busy, Early, StaysDone
  <1>3. CASE PatchWrite(c) \/ ExportAbort(c)
    BY <1>3, ExportRespondStep DEF PatchWrite, ExportAbort, Alone, Guarded, Busy, Early, StaysDone
  <1>4. ASSUME NEW e \in Exports, CreateExport(c, e)
        PROVE  Alone' /\ Guarded' /\ \A x \in Exports : StaysDone(x)
    <2>1. /\ xreq'[c].id = e
          /\ \A d \in Clients \ {c} : xreq'[d] = xreq[d]
          /\ xreq'[c].pc = "commit"
      BY <1>4, ExportNullTypes DEF CreateExport, ExportBegin, ExportVarsOK, ExportReq
    <2>2. UNCHANGED <<export, xqueue, xexec>> /\ export[e].status = "NONE"
      BY <1>4 DEF CreateExport
    <2>3. Alone' /\ \A x \in Exports : StaysDone(x)
      BY <2>2 DEF Alone, Busy, StaysDone
    <2>4. \A d \in Clients : xreq[d].pc = "commit" => xreq[d].id # e
      BY <1>4 DEF CreateExport
    <2>5. Guarded'
      BY <2>1, <2>2, <2>4 DEF Guarded, Busy, Early
    <2>. QED
      BY <2>3, <2>5
  <1>5. ASSUME NEW p \in products, NEW f \in Fields, Patch(c, p, f)
        PROVE  Alone' /\ Guarded' /\ \A x \in Exports : StaysDone(x)
    <2>1. /\ xreq'[c].pc = "patch"
          /\ \A d \in Clients \ {c} : xreq'[d] = xreq[d]
      BY <1>5, ExportNullTypes DEF Patch, ExportBegin, ExportVarsOK, ExportReq
    <2>2. UNCHANGED <<export, xqueue, xexec>>
      BY <1>5 DEF Patch
    <2>3. Alone' /\ \A x \in Exports : StaysDone(x)
      BY <2>2 DEF Alone, Busy, StaysDone
    <2>4. Guarded'
      BY <2>1, <2>2 DEF Guarded, Busy, Early
    <2>. QED
      BY <2>3, <2>4
  <1>. QED
    BY <1>1, <1>2, <1>3, <1>4, <1>5 DEF ExportServe

LEMMA WorkGuarded ==
  ASSUME ExportInv, NEW s \in Slots, ExportTypeInv', ExportWork(s) \/ ExportThrow(s)
  PROVE  Alone' /\ Guarded' /\ \A e \in Exports : StaysDone(e)
  <1>. USE DEF ExportInv, ExportTypeInv
  <1>1. xexec[s] \in ExportExec /\ (Busy(s) => xexec[s].id \in Exports)
    BY DEF ExportVarsOK, ExportKnown, Busy
  <1>2. ASSUME NEW e \in Exports, ExportStart(s, e)
        PROVE  Alone' /\ Guarded' /\ \A x \in Exports : StaysDone(x)
    <2>1. /\ xexec'[s].id = e /\ xexec'[s].lock = TRUE
          /\ xexec'[s].pc = IF export[e].status = "COMPLETED" THEN "done" ELSE "status"
          /\ \A t \in Slots \ {s} : xexec'[t] = xexec[t]
      BY <1>2 DEF ExportStart, SetExport, ExportVarsOK
    <2>2. /\ xqueue'[e].phase = "active" /\ xqueue[e].phase = "waiting"
          /\ \A x \in Exports \ {e} : xqueue'[x] = xqueue[x]
      BY <1>2 DEF ExportStart, Take, ExportVarsOK, JobState
    <2>3. \A t \in Slots : Busy(t) => xexec[t].id # e
      BY <2>2 DEF Alone
    <2>. QED
      BY <1>2, <2>1, <2>2, <2>3 DEF ExportStart, ExportKnown, Alone, Guarded, Busy, Early, StaysDone
  <1>3. CASE ExportProcessing(s) \/ ExportComplete(s)
    <2>1. Busy(s) /\ Early(s) /\ xexec[s].id \in Exports
      BY <1>1, <1>3 DEF ExportProcessing, ExportComplete, Busy, Early
    <2>2. /\ xexec'[s].id = xexec[s].id /\ xexec'[s].lock = xexec[s].lock
          /\ xexec'[s].pc = IF xexec[s].pc = "status" THEN "put" ELSE "mark"
          /\ \A t \in Slots \ {s} : xexec'[t] = xexec[t]
      BY <1>3, ExportGoStep DEF ExportProcessing, ExportComplete, ExportPc
    <2>3. /\ export'[xexec[s].id].status = IF xexec[s].pc = "status" THEN "PROCESSING" ELSE "COMPLETED"
          /\ \A e \in Exports \ {xexec[s].id} : export'[e] = export[e]
      BY <1>3, <2>1 DEF ExportProcessing, ExportComplete, ExportVarsOK, ExportJob
    <2>4. \A t \in Slots \ {s} : Busy(t) => xexec[t].id # xexec[s].id
      BY <2>1 DEF Alone
    <2>5. xqueue' = xqueue /\ xreq' = xreq
      BY <1>3 DEF ExportProcessing, ExportComplete
    <2>6. Alone'
      BY <2>1, <2>2, <2>5 DEF Alone, Busy
    <2>7. Guarded'
      BY <2>1, <2>2, <2>3, <2>4, <2>5 DEF Guarded, Busy, Early, ExportKnown
    <2>8. \A e \in Exports : StaysDone(e)
      BY <2>1, <2>3 DEF Guarded, StaysDone
    <2>. QED
      BY <2>6, <2>7, <2>8
  <1>4. CASE ExportPut(s) \/ ExportFile(s) \/ ExportMark(s)
    <2>1. /\ xexec'[s].id = xexec[s].id /\ xexec'[s].lock = xexec[s].lock
          /\ xexec'[s].pc \in {"file", "complete", "done"}
          /\ Early(s)' => Early(s)
          /\ \A t \in Slots \ {s} : xexec'[t] = xexec[t]
      BY <1>4, ExportGoStep DEF ExportPut, ExportFile, ExportMark, ExportPc, Early
    <2>2. Busy(s)
      BY <1>4 DEF ExportPut, ExportFile, ExportMark, Busy
    <2>3. UNCHANGED <<export, xqueue, xreq>>
      BY <1>4 DEF ExportPut, ExportFile, ExportMark
    <2>. QED
      BY <2>1, <2>2, <2>3 DEF Alone, Guarded, Busy, Early, StaysDone
  <1>5. CASE ExportFinish(s) \/ ExportThrow(s)
    <2>1. Busy(s) /\ xexec[s].id \in Exports /\ xexec[s].lock
      BY <1>1, <1>5 DEF ExportFinish, ExportThrow, Busy, Alone
    <2>2. /\ ~Busy(s)' /\ ~Early(s)'
          /\ \A t \in Slots \ {s} : xexec'[t] = xexec[t]
      BY <1>5, ExportNullTypes, SetExportStep DEF ExportFinish, ExportThrow, Busy, Early
    <2>3. /\ xqueue' = Complete(xqueue, xexec[s].id) \/ xqueue' = Fail(xqueue, xexec[s].id)
          /\ UNCHANGED <<export, xreq>>
      BY <1>5, <2>1 DEF ExportFinish, ExportThrow
    <2>4. \A e \in Exports \ {xexec[s].id} : xqueue'[e] = xqueue[e]
      BY <2>1, <2>3 DEF Complete, Fail, ExportVarsOK
    <2>5. \A t \in Slots \ {s} : Busy(t) => xexec[t].id # xexec[s].id
      BY <2>1 DEF Alone
    <2>6. xqueue[xexec[s].id].phase # "absent"
      BY <2>1 DEF Alone
    <2>7. Alone'
      BY <2>1, <2>2, <2>4, <2>5 DEF Alone, Busy, ExportKnown
    <2>8. Guarded'
      BY <2>1, <2>2, <2>3, <2>4, <2>6 DEF Guarded, Busy, Early
    <2>. QED
      BY <2>3, <2>7, <2>8 DEF StaysDone
  <1>. QED
    BY <1>2, <1>3, <1>4, <1>5 DEF ExportWork

LEMMA ExportInvNext ==
  ASSUME ExportInv, Steady', [ExportNext]_allVars
  PROVE  ExportInv' /\ \A e \in Exports : StaysDone(e)
  <1>0. ExportTypeInv'
    BY ExportTypeNext DEF ExportInv
  <1>1. ASSUME NEW c \in Clients,
               \/ ExportServe(c) \/ ExportAbort(c)
               \/ \E e \in Exports : CreateExport(c, e)
               \/ \E p \in products, f \in Fields : Patch(c, p, f)
        PROVE  Alone' /\ Guarded' /\ \A e \in Exports : StaysDone(e)
    BY <1>0, <1>1, RequestsGuarded
  <1>2. ASSUME NEW s \in Slots, ExportWork(s) \/ ExportThrow(s)
        PROVE  Alone' /\ Guarded' /\ \A e \in Exports : StaysDone(e)
    BY <1>0, <1>2, WorkGuarded
  <1>3. ASSUME NEW s \in Slots, ExportLoseLock(s) PROVE FALSE
    <2>1. xspent["stall"] \in Nat /\ xspent'["stall"] = xspent["stall"] + 1
      BY <1>3 DEF ExportLoseLock, ExportSpend, ExportInv, ExportTypeInv, ExportVarsOK, ExportEvent
    <2>. QED
      BY <2>1 DEF Steady
  <1>4. ASSUME NEW e \in Exports, ExportRecover(e)
        PROVE  Alone' /\ Guarded' /\ \A x \in Exports : StaysDone(x)
    <2>1. \A t \in Slots : Busy(t) => xexec[t].id # e
      BY <1>4 DEF ExportRecover, ExportInv, Alone, Busy
    <2>2. \A x \in Exports \ {e} : xqueue'[x] = xqueue[x]
      BY <1>4 DEF ExportRecover, Stall, ExportInv, ExportTypeInv, ExportVarsOK
    <2>3. xqueue[e].phase = "active" /\ UNCHANGED <<export, xexec, xreq>>
      BY <1>4 DEF ExportRecover
    <2>. QED
      BY <2>1, <2>2, <2>3 DEF ExportInv, ExportTypeInv, ExportKnown, Alone, Guarded, Busy, Early, StaysDone
  <1>5. CASE WorkerDies
    <2>1. UNCHANGED <<export, xqueue, xreq>> /\ xexec' = [t \in Slots |-> ExportIdle]
      BY <1>5 DEF WorkerDies
    <2>2. \A t \in Slots : xexec'[t].pc = "idle"
      BY <2>1, ExportNullTypes DEF ExportIdle
    <2>3. Alone'
      BY <2>2 DEF Alone, Busy
    <2>4. Guarded'
      BY <2>1, <2>2 DEF ExportInv, Guarded, Busy, Early
    <2>5. \A e \in Exports : StaysDone(e)
      BY <2>1 DEF StaysDone
    <2>. QED
      BY <1>0, <2>3, <2>4, <2>5 DEF ExportInv
  <1>6. CASE (Pipeline /\ UNCHANGED exportVars) \/ UNCHANGED allVars
    <2>1. UNCHANGED <<export, xqueue, xexec, xreq>>
      BY <1>6 DEF exportVars, allVars
    <2>2. Alone'
      BY <2>1 DEF ExportInv, Alone, Busy
    <2>3. Guarded'
      BY <2>1 DEF ExportInv, Guarded, Busy, Early
    <2>4. \A e \in Exports : StaysDone(e)
      BY <2>1 DEF StaysDone
    <2>. QED
      BY <1>0, <2>2, <2>3, <2>4 DEF ExportInv
  <1>. QED
    BY <1>0, <1>1, <1>2, <1>3, <1>4, <1>5, <1>6 DEF ExportNext, ExportStep, ExportInv

(* A lock lost earlier stays lost.                                         *)
LEMMA SteadyBefore ==
  ASSUME ExportTypeInv, [ExportNext]_allVars, Steady'
  PROVE  Steady
  <1>1. xspent \in [ExportEvent -> Nat] /\ "stall" \in ExportEvent
    BY DEF ExportTypeInv, ExportVarsOK, ExportEvent
  <1>2. ASSUME NEW v \in ExportEvent, ExportSpend(v) PROVE Steady
    <2>1. xspent'["stall"] = IF v = "stall" THEN xspent["stall"] + 1 ELSE xspent["stall"]
      BY <1>1, <1>2 DEF ExportSpend
    <2>. QED
      BY <1>1, <2>1 DEF Steady
  <1>3. CASE UNCHANGED xspent
    BY <1>3 DEF Steady
  <1>4. (\E v \in ExportEvent : ExportSpend(v)) \/ UNCHANGED xspent
    <2>1. ASSUME NEW c \in Clients, ExportServe(c) PROVE UNCHANGED xspent
      BY <2>1 DEF ExportServe, CreateCommit, CreateAdd, PatchWrite
    <2>2. ASSUME NEW c \in Clients,
                 \/ ExportAbort(c)
                 \/ \E e \in Exports : CreateExport(c, e)
                 \/ \E p \in products, f \in Fields : Patch(c, p, f)
          PROVE  \E v \in ExportEvent : ExportSpend(v)
      BY <2>2 DEF ExportAbort, CreateExport, Patch, ExportBegin, ExportEvent
    <2>3. ASSUME NEW s \in Slots, ExportWork(s) PROVE UNCHANGED xspent
      BY <2>3 DEF ExportWork, ExportStart, ExportProcessing, ExportPut, ExportFile,
         ExportComplete, ExportMark, ExportFinish
    <2>4. ASSUME NEW s \in Slots, ExportThrow(s) \/ ExportLoseLock(s)
          PROVE  \E v \in ExportEvent : ExportSpend(v)
      BY <2>4 DEF ExportThrow, ExportLoseLock, ExportEvent
    <2>5. CASE WorkerDies
      BY <2>5 DEF WorkerDies, ExportEvent
    <2>6. ASSUME NEW e \in Exports, ExportRecover(e) PROVE UNCHANGED xspent
      BY <2>6 DEF ExportRecover
    <2>7. CASE (Pipeline /\ UNCHANGED exportVars) \/ UNCHANGED allVars
      BY <2>7 DEF exportVars, allVars
    <2>. QED
      BY <2>1, <2>2, <2>3, <2>4, <2>5, <2>6, <2>7 DEF ExportNext, ExportStep
  <1>. QED
    BY <1>2, <1>3, <1>4

SteadyInv == ExportTypeInv /\ (Steady => Alone /\ Guarded)

(* As long as no execution loses its lock, the status guard of the export  *)
(* processor is enough: whatever throws, dies or is edited, and whatever   *)
(* the pipeline does to the products, a COMPLETED export stays COMPLETED.  *)
THEOREM CompletedIsFinal == ExportSpec => CompletedStays
  <1>1. ExportInit => SteadyInv
    <2>. SUFFICES ASSUME ExportInit PROVE ExportTypeInv /\ Alone /\ Guarded
      BY DEF SteadyInv
    <2>. QED
      BY ExportTypeInit, ExportNullTypes
      DEF ExportInit, ExportVarsInit, Alone, Guarded, Busy, Early, NoJob
  <1>2. ASSUME SteadyInv, [ExportNext]_allVars
        PROVE  SteadyInv' /\ (Steady' => \A e \in Exports : StaysDone(e))
    <2>1. ExportTypeInv'
      BY <1>2, ExportTypeNext DEF SteadyInv
    <2>2. ASSUME Steady' PROVE ExportInv' /\ \A e \in Exports : StaysDone(e)
      <3>1. Steady
        BY <1>2, <2>2, SteadyBefore DEF SteadyInv
      <3>2. ExportInv
        BY <1>2, <3>1 DEF SteadyInv, ExportInv
      <3>. QED
        BY <1>2, <2>2, <3>2, ExportInvNext
    <2>. QED
      BY <2>1, <2>2 DEF SteadyInv, ExportInv
  <1>3. SteadyInv /\ [ExportNext]_allVars => SteadyInv'
    BY <1>2
  <1>4. SteadyInv /\ [ExportNext]_allVars =>
          [Steady' => \A e \in Exports :
             export[e].status = "COMPLETED" => export'[e].status = "COMPLETED"]_allVars
    BY <1>2 DEF StaysDone
  <1>. QED
    BY <1>1, <1>3, <1>4, PTL DEF ExportSpec, CompletedStays

----------------------------------------------------------------------------
(* What is EXPORTED has been stored.  Rows come and go while exports run:  *)
(* the pipeline inserts them as PROCESSING and never marks one EXPORTED.   *)

(* What an execution of validation is about to write.                      *)
Judged == \A s \in Slots : exec[s].pc = "mark" => \A r \in exec[s].seen : r.status # "EXPORTED"

WasExported(id) == \E p \in products : p.id = id /\ p.status = "EXPORTED"

LEMMA JudgedNext ==
  ASSUME TypeInv, Judged, NEW s \in Slots, Work(s) \/ Throw(s) \/ LoseLock(s)
  PROVE  Judged'
  <1>0. exec \in [Slots -> Exec] /\ exec[s] \in Exec
    BY DEF TypeInv, TypeOK
  <1>1. ASSUME NEW x \in Exec, SetExec(s, x), x.pc = "mark" => \A r \in x.seen : r.status # "EXPORTED"
        PROVE  Judged'
    BY <1>0, <1>1 DEF SetExec, Judged
  <1>2. ASSUME NEW pc \in ExecPc \ {"mark"}, Advance(s, pc) PROVE Judged'
    <2>1. [exec[s] EXCEPT !.pc = pc].pc = pc /\ exec' = [exec EXCEPT ![s] = [exec[s] EXCEPT !.pc = pc]]
      BY <1>0, <1>2 DEF Advance, SetExec, Exec
    <2>. QED
      BY <1>0, <2>1 DEF Judged
  <1>3. CASE StartParse(s) \/ StartNormalize(s) \/ StartValidate(s)
    <2>1. PICK n, id, pc, f, m, r, rows : pc # "mark" /\ Start(s, n, id, pc, f, m, r, rows)
      BY <1>3 DEF StartParse, StartNormalize, StartValidate, StartUnneeded
    <2>. QED
      BY <1>0, <2>1 DEF Start, SetExec, Judged
  <1>4. CASE FileMissing(s) \/ ParseStatus(s) \/ ParseWrite(s) \/ NormalizeStatus(s) \/ NormalizeUsage(s)
             \/ NormalizeValidating(s) \/ NormalizeEnqueue(s) \/ ValidateClear(s) \/ ValidateReady(s)
    <2>1. PICK pc \in ExecPc \ {"mark"} : Advance(s, pc)
      BY <1>4 DEF FileMissing, ParseStatus, ParseWrite, NormalizeStatus, NormalizeUsage,
         NormalizeValidating, NormalizeEnqueue, ValidateClear, ValidateReady, ExecPc
    <2>. QED
      BY <1>2, <2>1
  <1>5. CASE NormalizeDelete(s) \/ NormalizeCreate(s)
    <2>1. /\ exec'[s].pc = "create"
          /\ \A w \in Slots \ {s} : exec'[w] = exec[w]
      BY <1>0, <1>5 DEF NormalizeDelete, NormalizeCreate, SetExec, At, Exec
    <2>. QED
      BY <2>1 DEF Judged
  <1>6. CASE ValidateIssues(s)
    <2>1. /\ exec'[s] = [exec[s] EXCEPT !.pc = "mark",
                            !.seen = {[r EXCEPT !.status = Verdict(r, exec[s].seen)] : r \in @}]
          /\ \A w \in Slots \ {s} : exec'[w] = exec[w]
      BY <1>0, <1>6 DEF ValidateIssues, SetExec
    <2>2. exec'[s].seen = {[r EXCEPT !.status = Verdict(r, exec[s].seen)] : r \in exec[s].seen}
      BY <1>0, <2>1 DEF Exec
    <2>3. \A r \in exec[s].seen : [r EXCEPT !.status = Verdict(r, exec[s].seen)].status \in {"INVALID", "READY"}
      BY <1>0 DEF Exec, Row, Verdict
    <2>4. \A r \in exec'[s].seen : r.status # "EXPORTED"
      BY <2>2, <2>3
    <2>. QED
      BY <2>1, <2>4 DEF Judged
  <1>7. CASE ValidateMark(s)
    <2>1. PICK r \in exec[s].seen :
            SetExec(s, [exec[s] EXCEPT !.seen = @ \ {r},
                                     !.broken = @ \/ \A p \in products : p.id # r.id])
      BY <1>7 DEF ValidateMark
    <2>2. /\ exec'[s].seen = exec[s].seen \ {r} /\ exec[s].pc = "mark"
          /\ \A w \in Slots \ {s} : exec'[w] = exec[w]
      BY <1>0, <1>7, <2>1 DEF SetExec, Exec, ValidateMark, At
    <2>. QED
      BY <2>2 DEF Judged
  <1>8. CASE Finish(s) \/ Reject(s) \/ Throw(s)
    BY <1>0, <1>8, IdleType DEF Finish, Reject, Throw, EndAttempt, SetExec, Judged
  <1>9. CASE LoseLock(s)
    <2>1. exec'[s].pc = exec[s].pc /\ exec'[s].seen = exec[s].seen
          /\ \A w \in Slots \ {s} : exec'[w] = exec[w]
      BY <1>0, <1>9 DEF LoseLock, SetExec, Exec
    <2>. QED
      BY <2>1 DEF Judged
  <1>. QED
    BY <1>3, <1>4, <1>5, <1>6, <1>7, <1>8, <1>9 DEF Work

LEMMA PipelineRows ==
  ASSUME TypeInv, Judged, Pipeline
  PROVE  Judged' /\ \A id : WasExported(id)' => WasExported(id)
  <1>1. ASSUME NEW c \in Clients, Call(c) \/ Serve(c) \/ Abort(c) PROVE UNCHANGED <<products, exec>>
    BY <1>1 DEF Call, Create, Presign, Process, Remove, Confirm, Save, Handle, Serve, NoRequestVars,
       PresignUpdate, ConfirmCreate, ConfirmUploaded, ConfirmEnqueue, ConfirmQueued,
       SaveReplace, ProcessStart, ProcessEnqueue, RemoveUpdate, Abort
  <1>2. CASE Tick \/ \E n \in QueueName, id \in JobId : Recover(n, id) \/ Forget(n, id)
    BY <1>2 DEF Tick, Recover, Forget, NoEnvVars, Judged, WasExported
  <1>3. ASSUME NEW s \in Slots, Work(s) \/ Throw(s) \/ LoseLock(s)
        PROVE  \A id : WasExported(id)' => WasExported(id)
    <2>1. CASE NormalizeDelete(s)
      BY <2>1 DEF NormalizeDelete, WasExported
    <2>2. CASE NormalizeCreate(s)
      <3>1. NewRow(exec[s]).status = "PROCESSING"
        BY DEF NewRow
      <3>. QED
        BY <2>2, <3>1 DEF NormalizeCreate, WasExported
    <2>3. CASE ValidateMark(s)
      <3>1. PICK r \in exec[s].seen :
              products' = {IF p.id = r.id THEN [p EXCEPT !.status = r.status] ELSE p : p \in products}
        BY <2>3 DEF ValidateMark
      <3>2. r.status # "EXPORTED"
        BY <2>3, <3>1 DEF ValidateMark, At, Judged
      <3>3. \A p \in products : [p EXCEPT !.status = r.status].status = r.status
        BY DEF TypeInv, TypeOK, Row
      <3>. QED
        BY <3>1, <3>2, <3>3 DEF WasExported
    <2>4. CASE Throw(s) \/ LoseLock(s)
      BY <2>4 DEF Throw, EndAttempt, LoseLock, NoEnvVars, WasExported
    <2>5. CASE Work(s) /\ ~NormalizeDelete(s) /\ ~NormalizeCreate(s) /\ ~ValidateMark(s)
      <3>1. UNCHANGED products
        BY <2>5 DEF Work, StartParse, StartNormalize, StartValidate, NoStartVars, FileMissing,
           ParseStatus, ParseWrite, NormalizeStatus, NormalizeUsage, NormalizeValidating,
           NormalizeEnqueue, ValidateClear, ValidateIssues, ValidateReady, Finish, Reject, EndAttempt
      <3>. QED
        BY <3>1 DEF WasExported
    <2>. QED
      BY <1>3, <2>1, <2>2, <2>3, <2>4, <2>5
  <1>. QED
    BY <1>1, <1>2, <1>3, JudgedNext DEF Pipeline, Surroundings, Judged, WasExported

(* Every product there is, but for those inserted during an export.        *)
Due == RowIds \ late

Has(entries, ids) == ids \subseteq {x.id : x \in entries}

InFile(id, e) ==
  /\ copies[e] # <<>> /\ object[e] # {}
  /\ \A entries \in object[e] : id \in {x.id : x \in entries}

Reading(s) == xexec[s].pc \in {"status", "put", "file", "complete", "mark"}

StoredInv ==
  /\ Judged
  /\ \A s \in Slots : Reading(s) => Has(xexec[s].read, Due)
  /\ \A s \in Slots : xexec[s].pc \in {"file", "complete", "mark"} =>
       object[xexec[s].id] # {} /\ \A entries \in object[xexec[s].id] : Has(entries, Due)
  /\ \A s \in Slots : xexec[s].pc \in {"complete", "mark"} => copies[xexec[s].id] # <<>>
  /\ \A id : WasExported(id) => id \in late \/ \E e \in Exports : InFile(id, e)

LEMMA StoredPipeline ==
  ASSUME ExportTypeInv, StoredInv, Pipeline, UNCHANGED exportVars, Remember
  PROVE  StoredInv'
  <1>1. Judged' /\ \A id : WasExported(id)' => WasExported(id)
    BY PipelineRows DEF StoredInv, ExportTypeInv
  <1>2. late \subseteq late' /\ (Running => RowIds' \subseteq RowIds \cup late')
    BY DEF Remember
  <1>3. UNCHANGED <<xexec, object, copies>>
    BY DEF exportVars
  <1>4. ASSUME NEW s \in Slots, Reading(s) PROVE \A entries : Has(entries, Due) => Has(entries, Due')
    <2>1. Running
      BY <1>4 DEF Reading, Running
    <2>. QED
      BY <1>2, <2>1 DEF Has, Due
  <1>5. \A s \in Slots : Reading(s)' => Has(xexec'[s].read, Due')
    BY <1>3, <1>4 DEF StoredInv, Reading
  <1>6. \A s \in Slots : xexec[s].pc \in {"file", "complete", "mark"} => Reading(s)
    BY DEF Reading
  <1>7. \A s \in Slots : xexec[s].pc \in {"file", "complete", "mark"} =>
          object[xexec[s].id] # {} /\ \A entries \in object[xexec[s].id] : Has(entries, Due')
    BY <1>4, <1>6 DEF StoredInv
  <1>8. \A id : WasExported(id)' => id \in late' \/ \E e \in Exports : InFile(id, e)'
    BY <1>1, <1>2, <1>3 DEF StoredInv, InFile
  <1>. QED
    BY <1>1, <1>3, <1>5, <1>7, <1>8 DEF StoredInv

LEMMA SameStored ==
  ASSUME StoredInv, UNCHANGED <<products, exec, xexec, object, copies, late>>
  PROVE  StoredInv'
  BY DEF StoredInv, Judged, WasExported, Has, Due, RowIds, InFile, Reading

(* The mark changes no id, and all it marks is in the file or late.        *)
LEMMA StoredMark ==
  ASSUME ExportTypeInv, StoredInv, NEW s \in Slots, ExportMark(s), UNCHANGED historyVars
  PROVE  StoredInv'
  <1>1. /\ products' = {IF p.status = "READY" THEN [p EXCEPT !.status = "EXPORTED"] ELSE p : p \in products}
        /\ UNCHANGED <<exec, object, copies, late>> /\ xexec[s].pc = "mark"
    BY DEF ExportMark, historyVars
  <1>2. \A p \in products : [p EXCEPT !.status = "EXPORTED"].id = p.id
    BY DEF ExportTypeInv, TypeInv, TypeOK, Row
  <1>3. RowIds' = RowIds
    BY <1>1, <1>2 DEF RowIds
  <1>4. /\ xexec'[s].pc = "done"
        /\ \A t \in Slots \ {s} : xexec'[t] = xexec[t]
    BY ExportGoStep DEF ExportMark, ExportTypeInv, ExportPc
  <1>5. xexec[s].id \in Exports
    BY <1>1 DEF ExportTypeInv, ExportKnown
  <1>6. \A id \in RowIds : id \in late \/ InFile(id, xexec[s].id)
    BY <1>1 DEF StoredInv, Has, Due, InFile
  <1>7. \A id : WasExported(id)' => id \in RowIds
    BY <1>3 DEF WasExported, RowIds
  <1>8. \A id : WasExported(id)' => id \in late' \/ \E e \in Exports : InFile(id, e)'
    <2>. SUFFICES ASSUME NEW id, WasExported(id)', id \notin late
                  PROVE  \E e \in Exports : InFile(id, e)'
      BY <1>1
    <2>1. InFile(id, xexec[s].id)
      BY <1>6, <1>7
    <2>2. copies' = copies /\ object' = object
      BY <1>1
    <2>. QED
      BY <1>5, <2>1, <2>2 DEF InFile
  <1>9. Judged'
    BY <1>1 DEF StoredInv, Judged
  <1>10. Due' = Due
    BY <1>1, <1>3 DEF Has, Due
  <1>11. \A t \in Slots : Reading(t)' => t # s /\ Reading(t)
    BY <1>4 DEF Reading
  <1>12. \A t \in Slots : Reading(t)' => Has(xexec'[t].read, Due')
    BY <1>4, <1>10, <1>11 DEF StoredInv
  <1>13. \A t \in Slots : xexec'[t].pc \in {"file", "complete", "mark"} =>
           /\ object'[xexec'[t].id] # {} /\ \A entries \in object'[xexec'[t].id] : Has(entries, Due')
           /\ xexec'[t].pc \in {"complete", "mark"} => copies'[xexec'[t].id] # <<>>
    BY <1>1, <1>4, <1>10 DEF StoredInv
  <1>. QED
    BY <1>8, <1>9, <1>12, <1>13 DEF StoredInv

LEMMA AppendNotEmpty ==
  ASSUME NEW S, NEW q \in Seq(S), NEW x \in S
  PROVE  Append(q, x) # <<>>
  <1>1. Len(Append(q, x)) = Len(q) + 1 /\ Len(q) \in Nat
    OBVIOUS
  <1>2. Len(<<>>) = 0
    OBVIOUS
  <1>. QED
    BY <1>1, <1>2

LEMMA EntriesHaveRows ==
  ASSUME NEW ids, ids \subseteq RowIds
  PROVE  Has(Entries, ids)
  <1>. SUFFICES ASSUME NEW id \in ids PROVE \E x \in Entries : x.id = id
    BY DEF Has
  <1>1. PICK p \in products : p.id = id
    BY DEF RowIds
  <1>. DEFINE x == [id |-> p.id, edited |-> {d.field : d \in EditsOf(p.id)}]
  <1>2. x \in Entries
    BY DEF Entries
  <1>3. x.id = id
    BY <1>1
  <1>. QED
    BY <1>2, <1>3

LEMMA SlotStored ==
  ASSUME StoredInv, UNCHANGED <<products, exec, object, copies, late>>,
         \A w \in Slots : Reading(w)' => Has(xexec'[w].read, Due),
         \A w \in Slots : xexec'[w].pc \in {"file", "complete", "mark"} =>
           xexec[w].pc \in {"file", "complete", "mark"} /\ xexec'[w].id = xexec[w].id,
         \A w \in Slots : xexec'[w].pc \in {"complete", "mark"} => xexec[w].pc \in {"complete", "mark"}
  PROVE  StoredInv'
  <1>1. Due' = Due
    BY DEF Has, Due, RowIds
  <1>2. \A id : WasExported(id)' => id \in late' \/ \E e \in Exports : InFile(id, e)'
    BY DEF StoredInv, WasExported, InFile
  <1>3. \A w \in Slots : Reading(w)' => Has(xexec'[w].read, Due')
    BY <1>1
  <1>4. Judged'
    BY DEF StoredInv, Judged
  <1>. QED
    BY <1>1, <1>2, <1>3, <1>4 DEF StoredInv

LEMMA StoredWork ==
  ASSUME ExportTypeInv, StoredInv, NEW s \in Slots, UNCHANGED historyVars,
         ExportWork(s) \/ ExportThrow(s) \/ ExportLoseLock(s)
  PROVE  StoredInv'
  <1>0. /\ xexec \in [Slots -> ExportExec] /\ object \in [Exports -> SUBSET SUBSET Entry]
        /\ copies \in [Exports -> Seq(SUBSET Entry)]
        /\ \A w \in Slots : xexec[w].pc # "idle" => xexec[w].id \in Exports
    BY DEF ExportTypeInv, ExportVarsOK, ExportKnown
  <1>1. CASE ExportMark(s)
    BY <1>1, StoredMark
  <1>2. ASSUME ~ExportMark(s) PROVE UNCHANGED <<products, exec, late>>
    BY <1>2 DEF ExportWork, ExportStart, ExportProcessing, ExportPut, ExportFile, ExportComplete,
       ExportFinish, ExportThrow, ExportLoseLock, vars, historyVars
  <1>3. ASSUME NEW e \in Exports, ExportStart(s, e), ~ExportMark(s) PROVE StoredInv'
    <2>1. /\ xexec'[s].pc \in {"done", "status"} /\ xexec'[s].read = Entries
          /\ \A w \in Slots \ {s} : xexec'[w] = xexec[w]
          /\ UNCHANGED <<object, copies>>
      BY <1>0, <1>3 DEF ExportStart, SetExport
    <2>2. Has(Entries, Due)
      BY EntriesHaveRows DEF Due
    <2>3. \A w \in Slots : Reading(w)' => Has(xexec'[w].read, Due)
      BY <2>1, <2>2 DEF StoredInv, Reading
    <2>. QED
      BY <1>2, <1>3, <2>1, <2>3, SlotStored
  <1>4. CASE (ExportProcessing(s) \/ ExportComplete(s)) /\ ~ExportMark(s)
    <2>1. PICK pc \in {"put", "mark"} :
            /\ xexec' = [xexec EXCEPT ![s] = [xexec[s] EXCEPT !.pc = pc]]
            /\ xexec[s].pc = IF pc = "put" THEN "status" ELSE "complete"
            /\ UNCHANGED <<object, copies>>
      BY <1>4 DEF ExportProcessing, ExportComplete, ExportGo, SetExport
    <2>2. /\ xexec'[s].pc = pc /\ xexec'[s].id = xexec[s].id /\ xexec'[s].read = xexec[s].read
          /\ \A w \in Slots \ {s} : xexec'[w] = xexec[w]
      BY <1>0, <2>1 DEF ExportExec
    <2>3. \A w \in Slots : Reading(w)' => Has(xexec'[w].read, Due)
      BY <2>1, <2>2 DEF StoredInv, Reading
    <2>. QED
      BY <1>2, <1>4, <2>1, <2>2, <2>3, SlotStored
  <1>5. CASE ExportPut(s) /\ ~ExportMark(s)
    <2>1. /\ xexec' = [xexec EXCEPT ![s] = [xexec[s] EXCEPT !.pc = "file"]]
          /\ xexec[s].pc = "put" /\ object' = [object EXCEPT ![xexec[s].id] = {xexec[s].read}]
          /\ UNCHANGED copies
      BY <1>5 DEF ExportPut, ExportGo, SetExport
    <2>2. /\ xexec'[s].pc = "file" /\ xexec'[s].id = xexec[s].id /\ xexec'[s].read = xexec[s].read
          /\ \A w \in Slots \ {s} : xexec'[w] = xexec[w]
      BY <1>0, <2>1 DEF ExportExec
    <2>3. /\ object'[xexec[s].id] = {xexec[s].read}
          /\ \A e \in Exports \ {xexec[s].id} : object'[e] = object[e]
      BY <1>0, <2>1
    <2>4. Due' = Due
      BY <1>2, <1>5 DEF Has, Due, RowIds
    <2>5. Has(xexec[s].read, Due)
      BY <2>1 DEF StoredInv, Reading
    <2>6. \A w \in Slots : Reading(w)' => Has(xexec'[w].read, Due')
      BY <2>1, <2>2, <2>4 DEF StoredInv, Reading
    <2>7. \A w \in Slots : xexec'[w].pc \in {"file", "complete", "mark"} =>
            object'[xexec'[w].id] # {} /\ \A entries \in object'[xexec'[w].id] : Has(entries, Due')
      <3>. SUFFICES ASSUME NEW w \in Slots, xexec'[w].pc \in {"file", "complete", "mark"}
                    PROVE  /\ object'[xexec'[w].id] # {}
                           /\ \A entries \in object'[xexec'[w].id] : Has(entries, Due)
        BY <2>4
      <3>1. CASE xexec'[w].id = xexec[s].id
        BY <2>3, <2>5, <3>1
      <3>2. CASE xexec'[w].id # xexec[s].id
        <4>1. w # s /\ xexec'[w] = xexec[w] /\ xexec[w].id \in Exports
          BY <1>0, <2>2, <3>2
        <4>. QED
          BY <2>3, <3>2, <4>1 DEF StoredInv
      <3>. QED
        BY <3>1, <3>2
    <2>8. \A id, e : e \in Exports /\ id \in RowIds \ late /\ InFile(id, e) => InFile(id, e)'
      <3>. SUFFICES ASSUME NEW id \in RowIds \ late, NEW e \in Exports, InFile(id, e) PROVE InFile(id, e)'
        OBVIOUS
      <3>1. CASE e = xexec[s].id
        BY <2>1, <2>3, <2>5, <3>1 DEF InFile, Has, Due
      <3>2. CASE e # xexec[s].id
        BY <2>1, <2>3, <3>2 DEF InFile
      <3>. QED
        BY <3>1, <3>2
    <2>9. \A id : WasExported(id)' => id \in late' \/ \E e \in Exports : InFile(id, e)'
      BY <1>2, <1>5, <2>8 DEF StoredInv, WasExported, RowIds
    <2>10. \A w \in Slots : xexec'[w].pc \in {"complete", "mark"} => copies'[xexec'[w].id] # <<>>
      BY <2>1, <2>2 DEF StoredInv
    <2>. QED
      BY <1>2, <1>5, <2>6, <2>7, <2>9, <2>10 DEF StoredInv, Judged
  <1>6. CASE ExportFile(s) /\ ~ExportMark(s)
    <2>1. /\ xexec' = [xexec EXCEPT ![s] = [xexec[s] EXCEPT !.pc = "complete"]]
          /\ xexec[s].pc = "file"
          /\ copies' = [copies EXCEPT ![xexec[s].id] = Append(@, xexec[s].read)]
          /\ UNCHANGED object
      BY <1>6 DEF ExportFile, ExportGo, SetExport
    <2>2. /\ xexec'[s].pc = "complete" /\ xexec'[s].id = xexec[s].id /\ xexec'[s].read = xexec[s].read
          /\ \A w \in Slots \ {s} : xexec'[w] = xexec[w]
      BY <1>0, <2>1 DEF ExportExec
    <2>3. copies'[xexec[s].id] # <<>> /\ \A e \in Exports \ {xexec[s].id} : copies'[e] = copies[e]
      <3>1. xexec[s].id \in Exports /\ copies[xexec[s].id] \in Seq(SUBSET Entry) /\ xexec[s].read \in SUBSET Entry
        BY <1>0, <2>1 DEF ExportExec
      <3>2. Append(copies[xexec[s].id], xexec[s].read) # <<>>
        BY <3>1, AppendNotEmpty
      <3>. QED
        BY <1>0, <2>1, <3>1, <3>2
    <2>4. \A e \in Exports : copies[e] # <<>> => copies'[e] # <<>>
      BY <2>3
    <2>5. \A id : \A e \in Exports : InFile(id, e) => InFile(id, e)'
      BY <2>1, <2>4 DEF InFile
    <2>6. \A w \in Slots : xexec'[w].pc \in {"complete", "mark"} => copies'[xexec'[w].id] # <<>>
      BY <1>0, <2>2, <2>3, <2>4 DEF StoredInv
    <2>7. \A w \in Slots : xexec'[w].pc \in {"file", "complete", "mark"} =>
            /\ xexec[w].pc \in {"file", "complete", "mark"} /\ xexec'[w].id = xexec[w].id
            /\ xexec'[w].read = xexec[w].read
      BY <2>1, <2>2
    <2>8. \A w \in Slots : Reading(w)' => Reading(w) /\ xexec'[w].read = xexec[w].read
      BY <2>1, <2>2 DEF Reading
    <2>9. Due' = Due
      BY <1>2, <1>6 DEF Has, Due, RowIds
    <2>10. \A id : WasExported(id)' => id \in late' \/ \E e \in Exports : InFile(id, e)'
      BY <1>2, <1>6, <2>5 DEF StoredInv, WasExported
    <2>. QED
      BY <1>2, <1>6, <2>1, <2>6, <2>7, <2>8, <2>9, <2>10 DEF StoredInv, Judged
  <1>7. CASE (ExportFinish(s) \/ ExportThrow(s) \/ ExportLoseLock(s)) /\ ~ExportMark(s)
    <2>1. /\ \/ xexec'[s] = ExportIdle
             \/ xexec'[s] = [xexec[s] EXCEPT !.lock = FALSE] /\ xexec[s].pc # "idle"
          /\ \A w \in Slots \ {s} : xexec'[w] = xexec[w]
          /\ UNCHANGED <<object, copies>>
      BY <1>0, <1>7 DEF ExportFinish, ExportThrow, ExportLoseLock, SetExport
    <2>2. \/ xexec'[s].pc = "idle"
          \/ /\ xexec'[s].pc = xexec[s].pc /\ xexec'[s].id = xexec[s].id
             /\ xexec'[s].read = xexec[s].read
      BY <1>0, <2>1, ExportNullTypes DEF ExportExec
    <2>3. \A w \in Slots : Reading(w)' => Has(xexec'[w].read, Due)
      BY <2>1, <2>2 DEF StoredInv, Reading
    <2>. QED
      BY <1>2, <1>7, <2>1, <2>2, <2>3, SlotStored
  <1>. QED
    BY <1>1, <1>3, <1>4, <1>5, <1>6, <1>7 DEF ExportWork

LEMMA StoredNext ==
  ASSUME ExportTypeInv, StoredInv, [ExportNext]_allVars
  PROVE  StoredInv'
  <1>1. ASSUME NEW c \in Clients, UNCHANGED historyVars,
               \/ ExportServe(c) \/ ExportAbort(c)
               \/ \E e \in Exports : CreateExport(c, e)
               \/ \E p \in products, f \in Fields : Patch(c, p, f)
        PROVE  StoredInv'
    <2>1. UNCHANGED <<products, exec, xexec, object, copies, late>>
      BY <1>1 DEF ExportServe, CreateCommit, CreateAdd, PatchWrite, ExportAbort, CreateExport, Patch,
         vars, historyVars
    <2>. QED
      BY <2>1, SameStored
  <1>2. CASE WorkerDies /\ UNCHANGED historyVars
    <2>1. UNCHANGED <<products, object, copies, late>> /\ exec' = [s \in Slots |-> Idle]
          /\ xexec' = [s \in Slots |-> ExportIdle]
      BY <1>2 DEF WorkerDies, NoEnvVars, historyVars
    <2>2. \A s \in Slots : exec'[s].pc = "idle" /\ xexec'[s].pc = "idle"
      BY <2>1, IdleType, ExportNullTypes
    <2>. QED
      BY <2>1, <2>2 DEF StoredInv, Judged, WasExported, InFile, Reading
  <1>3. ASSUME NEW e \in Exports, ExportRecover(e), UNCHANGED historyVars PROVE StoredInv'
    <2>1. UNCHANGED <<products, exec, xexec, object, copies, late>>
      BY <1>3 DEF ExportRecover, vars, historyVars
    <2>. QED
      BY <2>1, SameStored
  <1>4. CASE UNCHANGED allVars
    <2>1. UNCHANGED <<products, exec, xexec, object, copies, late>>
      BY <1>4 DEF allVars, vars, exportVars, historyVars
    <2>. QED
      BY <2>1, SameStored
  <1>. QED
    BY <1>1, <1>2, <1>3, <1>4, StoredPipeline, StoredWork DEF ExportNext, ExportStep

(* Every product marked EXPORTED can be downloaded, unless it came after   *)
(* an export had read the others: one that put a file with the product and *)
(* a row for the file came first, also when locks are lost, executions of  *)
(* one export overlap, processors throw, the worker dies, and the import   *)
(* is processed again meanwhile.                                           *)
THEOREM ExportedCanBeDownloaded == ExportSpec => []ExportedWasStored
  <1>1. ExportInit => ExportTypeInv /\ StoredInv
    BY ExportTypeInit, ExportNullTypes, IdleType
    DEF ExportInit, ExportVarsInit, Init, StoredInv, Judged, WasExported, Reading
  <1>2. ExportTypeInv /\ StoredInv /\ [ExportNext]_allVars => ExportTypeInv' /\ StoredInv'
    BY ExportTypeNext, StoredNext
  <1>3. StoredInv => ExportedWasStored
    <2>1. SUFFICES ASSUME StoredInv, NEW p \in products, p.status = "EXPORTED", p.id \notin late
                   PROVE  \E e \in Exports :
                            /\ copies[e] # <<>>
                            /\ \E entries \in object[e] : \E x \in entries : x.id = p.id
      BY DEF ExportedWasStored
    <2>2. PICK e \in Exports : InFile(p.id, e)
      BY <2>1 DEF StoredInv, WasExported
    <2>. QED
      BY <2>2 DEF InFile
  <1>. QED
    BY <1>1, <1>2, <1>3, PTL DEF ExportSpec

----------------------------------------------------------------------------
(* What is counted is what is stored, unless rows came or went between.    *)

Total == Cardinality(RowIds)

LEMMA EntriesCounted ==
  ASSUME Finite
  PROVE  Cardinality(Entries) = Total
  <1>. DEFINE e(id) == [id |-> id, edited |-> {d.field : d \in EditsOf(id)}]
              g == [id \in RowIds |-> e(id)]
  <1>1. \A id : e(id).id = id
    OBVIOUS
  <1>2. Entries = {e(p.id) : p \in products}
    BY DEF Entries
  <1>. HIDE DEF e
  <1>3. g \in Bijection(RowIds, Entries)
    <2>1. \A id \in RowIds : e(id) \in Entries
      BY <1>2 DEF RowIds
    <2>2. \A x \in Entries : \E id \in RowIds : e(id) = x
      BY <1>2 DEF RowIds
    <2>3. \A i, j \in RowIds : e(i) = e(j) => i = j
      BY <1>1
    <2>. QED
      BY <2>1, <2>2, <2>3 DEF Bijection, Injection, Surjection, IsInjective
  <1>. HIDE DEF g
  <1>. QED
    BY <1>3, RowIdsFinite, FS_Bijection DEF ExistsBijection, Total

(* Of an export not yet created nothing is there but one request, and that *)
(* is why its row is written once.                                         *)
Fresh ==
  /\ \A e \in Exports : export[e].status = "NONE" => object[e] = {} /\ xqueue[e].phase = "absent"
  /\ \A s \in Slots : xexec[s].pc # "idle" => export[xexec[s].id].status # "NONE"
  /\ \A c \in Clients : xreq[c].pc = "add" => export[xreq[c].id].status # "NONE"
  /\ \A c \in Clients : xreq[c].pc = "commit" => export[xreq[c].id].status = "NONE"
  /\ \A c, d \in Clients : xreq[c].pc = "commit" /\ xreq[d].pc = "commit" /\ xreq[c].id = xreq[d].id => c = d

Counted(e) ==
  /\ \A c \in Clients : xreq[c].pc = "commit" /\ xreq[c].id = e => xreq[c].total = Total
  /\ \A c \in Clients : xreq[c].pc = "add" /\ xreq[c].id = e => export[e].total = Total
  /\ xqueue[e].phase \in {"waiting", "active"} => export[e].total = Total
  /\ \A s \in Slots : xexec[s].pc # "idle" /\ xexec[s].id = e =>
       export[e].total = Total /\ Cardinality(xexec[s].read) = Total
  /\ \A entries \in object[e] : Cardinality(entries) = export[e].total

CountedInv == Fresh /\ \A e \in Exports \ moved : Counted(e)

(* Rows that come or go leave a count only of exports that are not open.   *)
LEMMA CountedPipeline ==
  ASSUME CountedInv, Pipeline, UNCHANGED exportVars, Remember
  PROVE  CountedInv'
  <1>1. UNCHANGED <<export, object, xqueue, xexec, xreq>>
    BY DEF exportVars
  <1>2. Fresh'
    BY <1>1 DEF CountedInv, Fresh
  <1>3. ASSUME NEW e \in Exports \ moved' PROVE Counted(e)'
    <2>1. Counted(e)
      BY <1>3 DEF Remember, CountedInv
    <2>2. CASE RowIds' = RowIds
      BY <1>1, <2>1, <2>2 DEF Counted, Total
    <2>3. CASE RowIds' # RowIds
      <3>1. ~Open(e)
        BY <1>3, <2>3 DEF Remember
      <3>2. \A entries \in object[e] : Cardinality(entries) = export[e].total
        BY <2>1 DEF Counted
      <3>. QED
        BY <1>1, <3>1, <3>2 DEF Open, Counted
    <2>. QED
      BY <2>2, <2>3
  <1>. QED
    BY <1>2, <1>3 DEF CountedInv

LEMMA CountedRequest ==
  ASSUME ExportTypeInv, CountedInv, NEW c \in Clients, UNCHANGED historyVars,
         \/ ExportServe(c) \/ ExportAbort(c)
         \/ \E e \in Exports : CreateExport(c, e)
         \/ \E p \in products, f \in Fields : Patch(c, p, f)
  PROVE  CountedInv'
  <1>0. /\ xreq \in [Clients -> ExportReq] /\ export \in [Exports -> ExportJob]
        /\ xqueue \in [Exports -> JobState]
        /\ \A d \in Clients : xreq[d].pc \in {"commit", "add"} => xreq[d].id \in Exports
        /\ \A s \in Slots : xexec[s].pc # "idle" => xexec[s].id \in Exports
        /\ xreq[c] \in ExportReq
    BY DEF ExportTypeInv, ExportVarsOK, ExportKnown
  <1>1. Total' = Total /\ moved' = moved /\ UNCHANGED <<object, xexec>>
    BY DEF ExportServe, CreateCommit, CreateAdd, PatchWrite, ExportAbort, CreateExport, Patch,
       vars, historyVars, Total, RowIds
  <1>2. CASE CreateCommit(c)
    <2>. DEFINE e == xreq[c].id
    <2>1. e \in Exports /\ export[e].status = "NONE" /\ xreq[c].pc = "commit"
      BY <1>0, <1>2 DEF CreateCommit, CountedInv, Fresh
    <2>2. /\ export'[e] = [status |-> "QUEUED", total |-> xreq[c].total]
          /\ \A x \in Exports \ {e} : export'[x] = export[x]
          /\ xreq'[c].pc = "add" /\ xreq'[c].id = e
          /\ \A d \in Clients \ {c} : xreq'[d] = xreq[d]
          /\ UNCHANGED xqueue
      BY <1>0, <1>2, <2>1 DEF CreateCommit, ExportReq
    <2>3. export'[e].status = "QUEUED" /\ export'[e].total = xreq[c].total
      BY <2>2
    <2>4. \A d \in Clients \ {c} : xreq[d].pc = "commit" => xreq[d].id # e
      BY <2>1 DEF CountedInv, Fresh
    <2>. HIDE DEF e
    <2>5. Fresh'
      BY <1>0, <1>1, <2>1, <2>2, <2>3, <2>4 DEF CountedInv, Fresh
    <2>6. ASSUME NEW x \in Exports \ moved PROVE Counted(x)'
      <3>1. CASE x = e
        <4>1. xreq[c].total = Total
          BY <2>1, <2>6, <3>1 DEF CountedInv, Counted, e
        <4>2. object[e] = {} /\ xqueue[e].phase = "absent" /\ \A s \in Slots : xexec[s].pc # "idle" => xexec[s].id # e
          BY <2>1 DEF CountedInv, Fresh
        <4>. QED
          BY <1>1, <2>2, <2>3, <2>4, <3>1, <4>1, <4>2 DEF Counted
      <3>2. CASE x # e
        BY <1>1, <2>2, <2>6, <3>2 DEF CountedInv, Counted
      <3>. QED
        BY <3>1, <3>2
    <2>. QED
      BY <1>1, <2>5, <2>6 DEF CountedInv
  <1>3. CASE CreateAdd(c)
    <2>. DEFINE e == xreq[c].id
    <2>1. e \in Exports /\ xreq[c].pc = "add" /\ UNCHANGED export /\ export[e].status # "NONE"
      BY <1>0, <1>3 DEF CreateAdd, CountedInv, Fresh
    <2>2. \A x \in Exports \ {e} : xqueue'[x] = xqueue[x]
      BY <1>0, <1>3 DEF CreateAdd, Add
    <2>3. xreq'[c].pc = "idle" /\ \A d \in Clients \ {c} : xreq'[d] = xreq[d]
      BY <1>0, <1>3, ExportNullTypes DEF CreateAdd, ExportRespond
    <2>4. e \notin moved => export[e].total = Total
      BY <2>1 DEF CountedInv, Counted
    <2>. HIDE DEF e
    <2>5. Fresh'
      BY <1>1, <2>1, <2>2, <2>3 DEF CountedInv, Fresh
    <2>6. ASSUME NEW x \in Exports \ moved PROVE Counted(x)'
      <3>1. Counted(x)
        BY <2>6 DEF CountedInv
      <3>. QED
        BY <1>1, <2>1, <2>2, <2>3, <2>4, <2>6, <3>1 DEF Counted
    <2>. QED
      BY <1>1, <2>5, <2>6 DEF CountedInv
  <1>4. ASSUME NEW r, UNCHANGED <<export, xqueue>>, r.pc \in {"idle", "patch"},
               xreq' = [xreq EXCEPT ![c] = r]
        PROVE  CountedInv'
    <2>1. xreq'[c].pc \notin {"commit", "add"} /\ \A d \in Clients \ {c} : xreq'[d] = xreq[d]
      BY <1>0, <1>4
    <2>2. Fresh'
      BY <1>1, <1>4, <2>1 DEF CountedInv, Fresh
    <2>3. ASSUME NEW x \in Exports \ moved PROVE Counted(x)'
      <3>1. Counted(x)
        BY <2>3 DEF CountedInv
      <3>. QED
        BY <1>1, <1>4, <2>1, <3>1 DEF Counted
    <2>. QED
      BY <1>1, <2>2, <2>3 DEF CountedInv
  <1>5. CASE PatchWrite(c) \/ ExportAbort(c)
    BY <1>4, <1>5, ExportNullTypes DEF PatchWrite, ExportAbort, ExportRespond
  <1>6. ASSUME NEW p \in products, NEW f \in Fields, Patch(c, p, f) PROVE CountedInv'
    <2>. DEFINE r == [NoExportReq EXCEPT !.pc = "patch",
                                         !.edit = EditsOf(p.id) \cup {[id |-> p.id, field |-> f]}]
    <2>1. r.pc = "patch"
      BY DEF NoExportReq
    <2>2. xreq' = [xreq EXCEPT ![c] = r] /\ UNCHANGED <<export, xqueue>>
      BY <1>6 DEF Patch, ExportBegin
    <2>. HIDE DEF r
    <2>. QED
      BY <1>4, <2>1, <2>2
  <1>7. ASSUME NEW e \in Exports, CreateExport(c, e) PROVE CountedInv'
    <2>1. /\ xreq'[c].pc = "commit" /\ xreq'[c].id = e /\ xreq'[c].total = Total
          /\ \A d \in Clients \ {c} : xreq'[d] = xreq[d]
          /\ UNCHANGED <<export, xqueue>> /\ export[e].status = "NONE"
          /\ \A d \in Clients : xreq[d].pc = "commit" => xreq[d].id # e
      BY <1>0, <1>7 DEF CreateExport, ExportBegin, NoExportReq, Total
    <2>2. Fresh'
      BY <1>1, <2>1 DEF CountedInv, Fresh
    <2>3. ASSUME NEW x \in Exports \ moved PROVE Counted(x)'
      <3>1. Counted(x)
        BY <2>3 DEF CountedInv
      <3>. QED
        BY <1>1, <2>1, <3>1 DEF Counted
    <2>. QED
      BY <1>1, <2>2, <2>3 DEF CountedInv
  <1>. QED
    BY <1>2, <1>3, <1>5, <1>6, <1>7 DEF ExportServe

(* A slot's step is about one export: it goes on with an execution, ends   *)
(* it, or takes up a job that waits.                                       *)
LEMMA SlotCounted ==
  ASSUME ExportTypeInv, CountedInv, NEW s \in Slots, NEW e \in Exports,
         Total' = Total, moved' = moved, xreq' = xreq,
         \A w \in Slots \ {s} : xexec'[w] = xexec[w],
         \/ /\ xexec[s].pc # "idle" /\ xexec[s].id = e
            /\ xexec'[s].pc # "idle" => xexec'[s].id = e /\ xexec'[s].read = xexec[s].read
         \/ xqueue[e].phase = "waiting" /\ xexec'[s].id = e /\ Cardinality(xexec'[s].read) = Total,
         \A x \in Exports \ {e} :
           xqueue'[x] = xqueue[x] /\ object'[x] = object[x] /\ export'[x] = export[x],
         export'[e].total = export[e].total,
         export'[e].status = "NONE" => export[e].status = "NONE",
         export[e].status = "NONE" => export'[e].status = "NONE",
         object'[e] # object[e] =>
           xexec[s].pc # "idle" /\ xexec[s].id = e /\ object'[e] = {xexec[s].read}
  PROVE  CountedInv'
  <1>0. /\ \A c \in Clients : xreq[c].pc \in {"commit", "add"} => xreq[c].id \in Exports
        /\ \A w \in Slots : xexec[w].pc # "idle" => xexec[w].id \in Exports
    BY DEF ExportTypeInv, ExportKnown
  <1>1. export[e].status # "NONE"
    BY DEF CountedInv, Fresh
  <1>2. Fresh'
    <2>1. \A x \in Exports : export'[x].status = "NONE" => x # e /\ export[x].status = "NONE"
      BY <1>1
    <2>2. \A x \in Exports : export[x].status = "NONE" => export'[x].status = "NONE"
      BY <1>1
    <2>3. \A w \in Slots : xexec'[w].pc # "idle" => xexec'[w].id \in Exports /\ export[xexec'[w].id].status # "NONE"
      BY <1>0, <1>1 DEF CountedInv, Fresh
    <2>. QED
      BY <1>0, <2>1, <2>2, <2>3 DEF CountedInv, Fresh
  <1>3. ASSUME NEW x \in Exports \ moved PROVE Counted(x)'
    <2>1. Counted(x)
      BY <1>3 DEF CountedInv
    <2>2. CASE x = e
      <3>1. export[e].total = Total
        BY <2>1, <2>2 DEF Counted
      <3>2. xexec[s].pc # "idle" /\ xexec[s].id = e => Cardinality(xexec[s].read) = Total
        BY <2>1, <2>2 DEF Counted
      <3>3. \A w \in Slots : xexec'[w].pc # "idle" /\ xexec'[w].id = e => Cardinality(xexec'[w].read) = Total
        BY <2>1, <2>2, <3>2 DEF Counted
      <3>4. \A entries \in object'[e] : Cardinality(entries) = Total
        <4>1. CASE object'[e] = object[e]
          BY <2>1, <2>2, <3>1, <4>1 DEF Counted
        <4>2. CASE object'[e] # object[e]
          BY <3>2, <4>2
        <4>. QED
          BY <4>1, <4>2
      <3>. QED
        BY <2>1, <2>2, <3>1, <3>3, <3>4 DEF Counted
    <2>3. CASE x # e
      BY <2>1, <2>3 DEF Counted
    <2>. QED
      BY <2>2, <2>3
  <1>. QED
    BY <1>2, <1>3 DEF CountedInv

LEMMA CountedWork ==
  ASSUME ExportTypeInv, CountedInv, NEW s \in Slots, UNCHANGED historyVars,
         ExportWork(s) \/ ExportThrow(s) \/ ExportLoseLock(s)
  PROVE  CountedInv'
  <1>0. /\ export \in [Exports -> ExportJob] /\ object \in [Exports -> SUBSET SUBSET Entry]
        /\ xqueue \in [Exports -> JobState] /\ xexec \in [Slots -> ExportExec]
        /\ xexec[s] \in ExportExec
        /\ xexec[s].pc # "idle" => xexec[s].id \in Exports
    BY DEF ExportTypeInv, ExportVarsOK, ExportKnown
  <1>1. Total' = Total
    <2>1. CASE ExportMark(s)
      <3>1. \A p \in products : [p EXCEPT !.status = "EXPORTED"].id = p.id
        BY DEF ExportTypeInv, TypeInv, TypeOK, Row
      <3>2. RowIds' = RowIds
        BY <2>1, <3>1 DEF ExportMark, RowIds
      <3>. QED
        BY <3>2 DEF Total
    <2>2. CASE ~ExportMark(s)
      <3>1. UNCHANGED products
        BY <2>2 DEF ExportWork, ExportStart, ExportProcessing, ExportPut, ExportFile, ExportComplete,
           ExportFinish, ExportThrow, ExportLoseLock, vars
      <3>. QED
        BY <3>1 DEF Total, RowIds
    <2>. QED
      BY <2>1, <2>2
  <1>2. moved' = moved /\ xreq' = xreq
    BY DEF historyVars, ExportWork, ExportStart, ExportProcessing, ExportPut, ExportFile, ExportComplete,
       ExportMark, ExportFinish, ExportThrow, ExportLoseLock
  <1>3. ASSUME NEW e \in Exports, ExportStart(s, e) PROVE CountedInv'
    <2>1. /\ xqueue[e].phase = "waiting" /\ xexec'[s].id = e /\ xexec'[s].read = Entries
          /\ \A w \in Slots \ {s} : xexec'[w] = xexec[w]
          /\ \A x \in Exports \ {e} : xqueue'[x] = xqueue[x]
          /\ UNCHANGED <<export, object>>
      BY <1>0, <1>3 DEF ExportStart, SetExport, Take
    <2>2. Cardinality(Entries) = Total
      BY EntriesCounted DEF ExportTypeInv
    <2>. QED
      BY <1>1, <1>2, <2>1, <2>2, SlotCounted
  <1>4. ASSUME xexec[s].pc # "idle",
               \/ xexec'[s].pc = "idle"
               \/ xexec'[s].id = xexec[s].id /\ xexec'[s].read = xexec[s].read,
               \A w \in Slots \ {s} : xexec'[w] = xexec[w],
               \A x \in Exports \ {xexec[s].id} :
                 xqueue'[x] = xqueue[x] /\ object'[x] = object[x] /\ export'[x] = export[x],
               export'[xexec[s].id].total = export[xexec[s].id].total,
               export'[xexec[s].id].status # "NONE",
               object'[xexec[s].id] \in {object[xexec[s].id], {xexec[s].read}}
        PROVE  CountedInv'
    <2>1. export[xexec[s].id].status # "NONE" /\ xexec[s].id \in Exports
      BY <1>0, <1>4 DEF CountedInv, Fresh
    <2>. QED
      BY <1>1, <1>2, <1>4, <2>1, SlotCounted
  <1>5. ASSUME xexec[s].pc # "idle" PROVE export[xexec[s].id].status # "NONE"
    BY <1>5 DEF CountedInv, Fresh
  <1>6. ASSUME NEW pc \in ExportPc, ExportGo(s, pc)
        PROVE  /\ xexec'[s].id = xexec[s].id /\ xexec'[s].read = xexec[s].read
               /\ \A w \in Slots \ {s} : xexec'[w] = xexec[w]
    BY <1>0, <1>6 DEF ExportGo, SetExport, ExportExec
  <1>7. CASE ExportProcessing(s) \/ ExportComplete(s)
    <2>1. PICK pc \in ExportPc, status \in {"PROCESSING", "COMPLETED"} :
            /\ ExportGo(s, pc) /\ export' = [export EXCEPT ![xexec[s].id].status = status]
            /\ xexec[s].pc # "idle" /\ UNCHANGED <<object, xqueue>>
      BY <1>7 DEF ExportProcessing, ExportComplete, ExportPc
    <2>2. /\ export'[xexec[s].id].total = export[xexec[s].id].total
          /\ export'[xexec[s].id].status = status
          /\ \A x \in Exports \ {xexec[s].id} : export'[x] = export[x]
      BY <1>0, <2>1 DEF ExportJob
    <2>. QED
      BY <1>4, <1>6, <2>1, <2>2
  <1>8. CASE ExportPut(s)
    <2>1. /\ ExportGo(s, "file") /\ object' = [object EXCEPT ![xexec[s].id] = {xexec[s].read}]
          /\ xexec[s].pc # "idle" /\ UNCHANGED <<export, xqueue>> /\ "file" \in ExportPc
      BY <1>8 DEF ExportPut, ExportPc
    <2>2. /\ object'[xexec[s].id] = {xexec[s].read}
          /\ \A x \in Exports \ {xexec[s].id} : object'[x] = object[x]
      BY <1>0, <2>1
    <2>. QED
      BY <1>4, <1>5, <1>6, <2>1, <2>2
  <1>9. CASE ExportFile(s) \/ ExportMark(s)
    <2>1. PICK pc \in ExportPc : ExportGo(s, pc)
      BY <1>9 DEF ExportFile, ExportMark, ExportPc
    <2>2. xexec[s].pc # "idle" /\ UNCHANGED <<export, xqueue, object>>
      BY <1>9 DEF ExportFile, ExportMark
    <2>. QED
      BY <1>4, <1>5, <1>6, <2>1, <2>2
  <1>10. CASE ExportFinish(s) \/ ExportThrow(s) \/ ExportLoseLock(s)
    <2>1. /\ \/ xexec' = [xexec EXCEPT ![s] = ExportIdle]
             \/ xexec' = [xexec EXCEPT ![s] = [xexec[s] EXCEPT !.lock = FALSE]]
          /\ xexec[s].pc # "idle" /\ UNCHANGED <<export, object>>
      BY <1>10 DEF ExportFinish, ExportThrow, ExportLoseLock, SetExport
    <2>2. /\ \/ xexec'[s].pc = "idle"
             \/ xexec'[s].id = xexec[s].id /\ xexec'[s].read = xexec[s].read
          /\ \A w \in Slots \ {s} : xexec'[w] = xexec[w]
      BY <1>0, <2>1, ExportNullTypes DEF ExportExec
    <2>3. \A x \in Exports \ {xexec[s].id} : xqueue'[x] = xqueue[x]
      BY <1>0, <1>10 DEF ExportFinish, ExportThrow, ExportLoseLock, Complete, Fail, Stall
    <2>. QED
      BY <1>4, <1>5, <2>1, <2>2, <2>3
  <1>. QED
    BY <1>3, <1>7, <1>8, <1>9, <1>10 DEF ExportWork

LEMMA CountedNext ==
  ASSUME ExportTypeInv, CountedInv, [ExportNext]_allVars
  PROVE  CountedInv'
  <1>1. ASSUME UNCHANGED <<export, object, xreq, moved, products>>, NEW e \in Exports,
               \A s \in Slots : xexec'[s].pc # "idle" => xexec'[s] = xexec[s],
               \A x \in Exports \ {e} : xqueue'[x] = xqueue[x],
               xqueue'[e] # xqueue[e] => xqueue[e].phase = "active"
        PROVE  CountedInv'
    <2>1. Fresh'
      BY <1>1 DEF CountedInv, Fresh
    <2>2. ASSUME NEW x \in Exports \ moved PROVE Counted(x)'
      <3>1. Counted(x) /\ Total' = Total
        BY <1>1, <2>2 DEF CountedInv, Total, RowIds
      <3>. QED
        BY <1>1, <2>2, <3>1 DEF Counted
    <2>. QED
      BY <1>1, <2>1, <2>2 DEF CountedInv
  <1>2. ASSUME NEW e \in Exports, ExportRecover(e), UNCHANGED historyVars PROVE CountedInv'
    <2>1. \A x \in Exports \ {e} : xqueue'[x] = xqueue[x]
      BY <1>2 DEF ExportRecover, Stall, ExportTypeInv, ExportVarsOK
    <2>. QED
      BY <1>1, <1>2, <2>1 DEF ExportRecover, vars, historyVars
  <1>3. CASE UNCHANGED <<export, object, xreq, moved, products, xqueue>>
             /\ \A s \in Slots : xexec'[s].pc # "idle" => xexec'[s] = xexec[s]
    <2>1. Fresh'
      BY <1>3 DEF CountedInv, Fresh
    <2>2. ASSUME NEW x \in Exports \ moved PROVE Counted(x)'
      <3>1. Counted(x) /\ Total' = Total
        BY <1>3, <2>2 DEF CountedInv, Total, RowIds
      <3>. QED
        BY <1>3, <3>1 DEF Counted
    <2>. QED
      BY <1>3, <2>1, <2>2 DEF CountedInv
  <1>4. CASE WorkerDies /\ UNCHANGED historyVars
    <2>1. \A s \in Slots : xexec'[s].pc = "idle"
      BY <1>4, ExportNullTypes DEF WorkerDies
    <2>. QED
      BY <1>3, <1>4, <2>1 DEF WorkerDies, NoEnvVars, historyVars
  <1>5. CASE UNCHANGED allVars
    BY <1>3, <1>5 DEF allVars, vars, exportVars, historyVars
  <1>. QED
    BY <1>2, <1>4, <1>5, CountedPipeline, CountedRequest, CountedWork DEF ExportNext, ExportStep

(* Under the same failures the count of POST /exports is the number of     *)
(* products in every file stored for the export, unless rows of the import *)
(* came or went between the count and the end of the export's job.         *)
THEOREM TotalIsStored == ExportSpec => []ShownTotal
  <1>1. ExportInit => ExportTypeInv /\ CountedInv
    <2>1. ASSUME ExportInit PROVE CountedInv
      <3>1. /\ \A s \in Slots : xexec[s].pc = "idle"
            /\ \A c \in Clients : xreq[c].pc = "idle"
            /\ \A e \in Exports : object[e] = {} /\ xqueue[e].phase = "absent"
        BY <2>1, ExportNullTypes DEF ExportInit, ExportVarsInit, NoJob
      <3>. QED
        BY <3>1 DEF CountedInv, Fresh, Counted
    <2>. QED
      BY <2>1, ExportTypeInit
  <1>2. ExportTypeInv /\ CountedInv /\ [ExportNext]_allVars => ExportTypeInv' /\ CountedInv'
    BY ExportTypeNext, CountedNext
  <1>3. CountedInv => ShownTotal
    BY DEF CountedInv, Counted, ShownTotal
  <1>. QED
    BY <1>1, <1>2, <1>3, PTL DEF ExportSpec

----------------------------------------------------------------------------
(* What exports leave of the import pipeline: they mark products and kill  *)
(* executions of a worker process they share, and touch nothing else.      *)

LEMMA ExportStepKinds ==
  ASSUME [ExportNext]_allVars
  PROVE  \/ Next
         \/ UNCHANGED vars
         \/ WorkerDies
         \/ \E s \in Slots : ExportMark(s)
  <1>1. ASSUME NEW c \in Clients,
               \/ ExportServe(c) \/ ExportAbort(c)
               \/ \E e \in Exports : CreateExport(c, e)
               \/ \E p \in products, f \in Fields : Patch(c, p, f)
        PROVE  UNCHANGED vars
    BY <1>1 DEF ExportServe, CreateCommit, CreateAdd, PatchWrite, ExportAbort, CreateExport, Patch
  <1>2. ASSUME NEW s \in Slots, ExportWork(s) \/ ExportThrow(s) \/ ExportLoseLock(s), ~ExportMark(s)
        PROVE  UNCHANGED vars
    BY <1>2 DEF ExportWork, ExportStart, ExportProcessing, ExportPut, ExportFile, ExportComplete,
                ExportFinish, ExportThrow, ExportLoseLock
  <1>3. ASSUME NEW e \in Exports, ExportRecover(e) PROVE UNCHANGED vars
    BY <1>3 DEF ExportRecover
  <1>4. Pipeline => Next
    BY DEF Pipeline, Next, Environment
  <1>. QED
    BY <1>1, <1>2, <1>3, <1>4 DEF ExportNext, ExportStep, allVars

LEMMA ExportMappingNext ==
  ASSUME ExportTypeInv, MappingInv, [ExportNext]_allVars
  PROVE  MappingInv'
  <1>0. TypeInv' /\ TypeOK /\ MappedInv /\ RunInv
    BY ExportTypeNext DEF ExportTypeInv, MappingInv, TypeInv
  <1>1. CASE Next \/ UNCHANGED vars
    BY <1>1, MappingNext
  <1>2. CASE WorkerDies
    <2>1. ExecsKept
      BY <1>2, IdleType DEF WorkerDies, ExecsKept, Follows, Normalizing
    <2>. QED
      BY <1>0, <1>2, <2>1, SameRequests, SameRows, KeptInv
      DEF WorkerDies, NoEnvVars, Kept, MappingKept, QueueKept, MappingInv
  <1>3. ASSUME NEW s \in Slots, ExportMark(s) PROVE MappingInv'
    <2>1. RowsKept
      <3>1. \A r \in products : [r EXCEPT !.status = "EXPORTED"].id = r.id
                                /\ [r EXCEPT !.status = "EXPORTED"].map = r.map
        BY <1>0 DEF TypeOK, Row
      <3>. QED
        BY <1>3, <3>1 DEF ExportMark, RowsKept
    <2>. QED
      BY <1>0, <1>3, <2>1, SameRequests, SameExecs, KeptInv
      DEF ExportMark, Kept, MappingKept, QueueKept, MappingInv
  <1>. QED
    BY <1>1, <1>2, <1>3, ExportStepKinds

LEMMA ExportTableNext ==
  ASSUME ExportTypeInv, TableInv, [ExportNext]_allVars
  PROVE  TableInv' /\ [MappingStep]_vars
  <1>0. TypeInv'
    BY ExportTypeNext DEF ExportTypeInv
  <1>1. CASE Next \/ UNCHANGED vars
    BY <1>0, <1>1, TableNext DEF TableInv, UniqueColumns
  <1>2. CASE WorkerDies \/ \E s \in Slots : ExportMark(s)
    <2>1. UNCHANGED mapping
      BY <1>2 DEF WorkerDies, NoEnvVars, ExportMark
    <2>. QED
      BY <1>0, <2>1, SameTable DEF TableInv, UniqueColumns
  <1>. QED
    BY <1>1, <1>2, ExportStepKinds

(* Beside exports that mark its products and take its executions with them *)
(* when the worker dies, the pipeline keeps what it keeps alone: products  *)
(* are built from a mapping, those of one execution from one mapping, and  *)
(* the rows the user confirmed stay until a PUT replaces them.             *)
THEOREM ExportsSparePipeline == ExportSpec => [](MappedProducts /\ OneMappingPerRun) /\ UserMappingKept
  <1>1. ExportInit => ExportTypeInv /\ MappingInv /\ TableInv
    BY ExportTypeInit, MappingInit DEF ExportInit, Init, ExportTypeInv, TableInv, UniqueColumns
  <1>2. ExportTypeInv /\ MappingInv /\ TableInv /\ [ExportNext]_allVars
        => (ExportTypeInv /\ MappingInv /\ TableInv)' /\ [MappingStep]_vars
    BY ExportTypeNext, ExportMappingNext, ExportTableNext
  <1>3. MappingInv => MappedProducts /\ OneMappingPerRun
    BY DEF MappingInv, MappedInv, RunInv
  <1>4. ExportInit /\ [][ExportNext]_allVars => [](MappedProducts /\ OneMappingPerRun) /\ [][MappingStep]_vars
    BY <1>1, <1>2, <1>3, PTL
  <1>. QED
    BY <1>4 DEF ExportSpec, UserMappingKept

=============================================================================
