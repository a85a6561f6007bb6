------------------------ MODULE ImportPipelineProofs ------------------------
(***************************************************************************)
(* What holds of the import pipeline for any number of clients, worker     *)
(* slots, files, products and events: its types, and the three properties  *)
(* of the mapping that no interleaving may break.                          *)
(***************************************************************************)
EXTENDS ImportPipeline, TLAPS

----------------------------------------------------------------------------
(* The queue operators keep a queue a queue.                               *)

LEMMA QueueTypes ==
  ASSUME NEW Ids, NEW q \in [Ids -> JobState], NEW id \in Ids
  PROVE  /\ Add(q, id) \in [Ids -> JobState]
         /\ Take(q, id) \in [Ids -> JobState]
         /\ Complete(q, id) \in [Ids -> JobState]
         /\ Fail(q, id) \in [Ids -> JobState]
         /\ Stall(q, id) \in [Ids -> JobState]
         /\ Evict(q, id) \in [Ids -> JobState]
  <1>1. Add(q, id) \in [Ids -> JobState]
    BY DEF Add, JobState, JobPhase, NoJob
  <1>2. Take(q, id) \in [Ids -> JobState]
    BY DEF Take, JobState, JobPhase
  <1>3. Complete(q, id) \in [Ids -> JobState]
    BY DEF Complete, JobState, JobPhase
  <1>4. Fail(q, id) \in [Ids -> JobState]
    BY DEF Fail, JobState, JobPhase
  <1>5. Stall(q, id) \in [Ids -> JobState]
    BY DEF Stall, JobState, JobPhase
  <1>6. Evict(q, id) \in [Ids -> JobState]
    BY DEF Evict, JobState, JobPhase, NoJob
  <1>. QED
    BY <1>1, <1>2, <1>3, <1>4, <1>5, <1>6

----------------------------------------------------------------------------
(* The type invariant is inductive together with what the program counters *)
(* say of the file at hand.                                                *)

FileKnown ==
  /\ \A c \in Clients : req[c].pc \in {"file", "uploaded"} => req[c].file \in Files
  /\ \A s \in Slots : exec[s].pc \in {"write", "delete", "create"} => exec[s].file \in Files

TypeInv == TypeOK /\ FileKnown

----------------------------------------------------------------------------
(* What the assignment shorthands of the actions do.                       *)

LEMMA SetStatusType ==
  ASSUME TypeOK, NEW st \in Status, SetStatus(st)
  PROVE  job' \in [status : Status, deleted : BOOLEAN]
  BY DEF TypeOK, SetStatus

LEMMA OnQueueType ==
  ASSUME TypeOK, NEW n \in QueueName, NEW q \in [JobId -> JobState], OnQueue(n, q)
  PROVE  queue' \in [QueueName -> [JobId -> JobState]]
  BY DEF TypeOK, OnQueue

LEMMA SpendType ==
  ASSUME TypeOK, NEW e \in Event, Spend(e)
  PROVE  spent' \in [Event -> Nat]
  BY DEF TypeOK, Spend

LEMMA BeginStep ==
  ASSUME TypeOK, NEW c \in Clients, NEW r \in Req, Begin(c, r)
  PROVE  /\ req' \in [Clients -> Req]
         /\ spent' \in [Event -> Nat]
         /\ req'[c] = r
         /\ \A d \in Clients \ {c} : req'[d] = req[d]
  BY SpendType DEF TypeOK, Begin, Event

LEMMA GotoStep ==
  ASSUME TypeOK, NEW c \in Clients, NEW pc \in ReqPc, Goto(c, pc)
  PROVE  /\ req' \in [Clients -> Req]
         /\ req'[c].pc = pc
         /\ req'[c].file = req[c].file
         /\ req'[c].map = req[c].map
         /\ \A d \in Clients \ {c} : req'[d] = req[d]
  BY DEF TypeOK, Goto, Req

LEMMA NoReqType == NoReq \in Req /\ NoReq.pc = "idle"
  BY DEF NoReq, Req, ReqPc

LEMMA RespondStep ==
  ASSUME TypeOK, NEW c \in Clients, Respond(c)
  PROVE  /\ req' \in [Clients -> Req]
         /\ req'[c].pc = "idle"
         /\ \A d \in Clients \ {c} : req'[d] = req[d]
  BY NoReqType DEF TypeOK, Respond

LEMMA IdsType == 0 \in JobId /\ 1 \in 1 .. MaxClock /\ 1 .. MaxClock \subseteq JobId
  BY PipelineAssumption DEF JobId

LEMMA IdleType == Idle \in Exec /\ Idle.pc = "idle"
  BY IdsType DEF Idle, Exec, ExecPc, QueueName

LEMMA SetExecStep ==
  ASSUME TypeOK, NEW s \in Slots, NEW e \in Exec, SetExec(s, e)
  PROVE  /\ exec' \in [Slots -> Exec]
         /\ exec'[s] = e
         /\ \A t \in Slots \ {s} : exec'[t] = exec[t]
  BY DEF TypeOK, SetExec

LEMMA AdvanceStep ==
  ASSUME TypeOK, NEW s \in Slots, NEW pc \in ExecPc, Advance(s, pc)
  PROVE  /\ exec' \in [Slots -> Exec]
         /\ exec'[s] = [exec[s] EXCEPT !.pc = pc]
         /\ exec'[s].pc = pc
         /\ exec'[s].q = exec[s].q
         /\ exec'[s].file = exec[s].file
         /\ exec'[s].map = exec[s].map
         /\ exec'[s].run = exec[s].run
         /\ \A t \in Slots \ {s} : exec'[t] = exec[t]
  <1>1. exec[s] \in Exec
    BY DEF TypeOK
  <1>2. [exec[s] EXCEPT !.pc = pc] \in Exec
    BY <1>1 DEF Exec
  <1>3. exec' \in [Slots -> Exec] /\ exec'[s] = [exec[s] EXCEPT !.pc = pc]
    BY <1>2, SetExecStep DEF Advance
  <1>4. \A t \in Slots \ {s} : exec'[t] = exec[t]
    BY <1>2, SetExecStep DEF Advance
  <1>. QED
    BY <1>1, <1>3, <1>4 DEF Exec

----------------------------------------------------------------------------
(* Types: requests.                                                        *)

LEMMA HandleType ==
  ASSUME TypeInv, NEW c \in Clients, NEW pc \in ReqPc, NEW f \in Files \cup {NoFile},
         NEW m \in SUBSET MapRow, Handle(c, pc, f, m),
         pc \in {"file", "uploaded"} => f \in Files
  PROVE  TypeInv'
  <1>. DEFINE r == [pc |-> pc, file |-> f, map |-> m]
  <1>1. r \in Req
    BY DEF Req
  <1>2. Begin(c, r) /\ TypeOK
    BY DEF Handle, TypeInv
  <1>3. /\ req' \in [Clients -> Req] /\ spent' \in [Event -> Nat]
        /\ req'[c] = r /\ \A d \in Clients \ {c} : req'[d] = req[d]
    BY <1>1, <1>2, BeginStep
  <1>. HIDE DEF r
  <1>4. TypeOK'
    BY <1>2, <1>3 DEF TypeOK, Handle, NoRequestVars
  <1>5. FileKnown'
    <2>1. \A d \in Clients : req'[d].pc \in {"file", "uploaded"} => req'[d].file \in Files
      BY <1>3 DEF TypeInv, FileKnown, r
    <2>. QED
      BY <2>1 DEF TypeInv, FileKnown, Handle, NoRequestVars
  <1>. QED
    BY <1>4, <1>5 DEF TypeInv

LEMMA BodyType ==
  ASSUME NEW m \in Bodies
  PROVE  m \in SUBSET MapRow
  BY PipelineAssumption DEF MapRow

LEMMA CallType ==
  ASSUME TypeInv, NEW c \in Clients, Call(c)
  PROVE  TypeInv'
  <1>1. CASE Create(c)
    <2>1. TypeOK
      BY DEF TypeInv
    <2>2. job' \in [status : Status, deleted : BOOLEAN]
      BY <1>1, <2>1, SetStatusType DEF Create, Status
    <2>3. /\ req' \in [Clients -> Req] /\ spent' \in [Event -> Nat]
          /\ req'[c] = NoReq /\ \A d \in Clients \ {c} : req'[d] = req[d]
      BY <1>1, <2>1, BeginStep, NoReqType DEF Create
    <2>. QED
      BY <1>1, <2>1, <2>2, <2>3, NoReqType
      DEF TypeInv, TypeOK, FileKnown, Create, NoRequestVars
  <1>2. CASE Presign(c)
    BY <1>2, HandleType DEF Presign, ReqPc
  <1>3. CASE Process(c)
    BY <1>3, HandleType DEF Process, ReqPc
  <1>4. CASE Remove(c)
    BY <1>4, HandleType DEF Remove, ReqPc
  <1>5. ASSUME NEW f \in Files, Confirm(c, f) PROVE TypeInv'
    BY <1>5, HandleType DEF Confirm, ReqPc
  <1>6. ASSUME NEW m \in Bodies, Save(c, m) PROVE TypeInv'
    BY <1>6, HandleType, BodyType DEF Save, ReqPc
  <1>. QED
    BY <1>1, <1>2, <1>3, <1>4, <1>5, <1>6 DEF Call

LEMMA ServeType ==
  ASSUME TypeInv, NEW c \in Clients, Serve(c)
  PROVE  TypeInv'
  <1>1. CASE PresignUpdate(c)
    <2>1. job' \in [status : Status, deleted : BOOLEAN]
      BY <1>1, SetStatusType DEF TypeInv, PresignUpdate, Status
    <2>2. /\ req' \in [Clients -> Req] /\ req'[c].pc = "idle"
          /\ \A d \in Clients \ {c} : req'[d] = req[d]
      BY <1>1, RespondStep DEF TypeInv, PresignUpdate
    <2>. QED
      BY <1>1, <2>1, <2>2 DEF TypeInv, TypeOK, FileKnown, PresignUpdate, NoRequestVars
  <1>2. CASE ConfirmCreate(c)
    <2>1. /\ req' \in [Clients -> Req]
          /\ req'[c].pc = "uploaded" /\ req'[c].file = req[c].file
          /\ \A d \in Clients \ {c} : req'[d] = req[d]
      BY <1>2, GotoStep DEF TypeInv, ConfirmCreate, ReqPc
    <2>. QED
      BY <1>2, <2>1 DEF TypeInv, TypeOK, FileKnown, ConfirmCreate, NoRequestVars
  <1>3. CASE ConfirmUploaded(c)
    <2>1. job' \in [status : Status, deleted : BOOLEAN]
      BY <1>3, SetStatusType DEF TypeInv, ConfirmUploaded, Status
    <2>2. CASE Goto(c, "enqueue")
      <3>1. /\ req' \in [Clients -> Req] /\ req'[c].pc = "enqueue"
            /\ \A d \in Clients \ {c} : req'[d] = req[d]
        BY <2>2, GotoStep DEF TypeInv, ReqPc
      <3>. QED
        BY <1>3, <2>1, <3>1 DEF TypeInv, TypeOK, FileKnown, ConfirmUploaded, NoRequestVars
    <2>3. CASE Respond(c)
      <3>1. /\ req' \in [Clients -> Req] /\ req'[c].pc = "idle"
            /\ \A d \in Clients \ {c} : req'[d] = req[d]
        BY <2>3, RespondStep DEF TypeInv
      <3>. QED
        BY <1>3, <2>1, <3>1 DEF TypeInv, TypeOK, FileKnown, ConfirmUploaded, NoRequestVars
    <2>. QED
      BY <1>3, <2>2, <2>3 DEF ConfirmUploaded
  <1>4. CASE ConfirmEnqueue(c)
    <2>1. queue' \in [QueueName -> [JobId -> JobState]]
      BY <1>4, IdsType, QueueTypes, OnQueueType DEF TypeInv, TypeOK, ConfirmEnqueue, QueueName
    <2>2. /\ req' \in [Clients -> Req]
          /\ req'[c].pc = "queued" /\ req'[c].file = req[c].file
          /\ \A d \in Clients \ {c} : req'[d] = req[d]
      BY <1>4, GotoStep DEF TypeInv, ConfirmEnqueue, ReqPc
    <2>. QED
      BY <1>4, <2>1, <2>2 DEF TypeInv, TypeOK, FileKnown, ConfirmEnqueue, NoRequestVars
  <1>5. CASE ConfirmQueued(c)
    <2>1. job' \in [status : Status, deleted : BOOLEAN]
      BY <1>5, SetStatusType DEF TypeInv, ConfirmQueued, Status
    <2>2. /\ req' \in [Clients -> Req] /\ req'[c].pc = "idle"
          /\ \A d \in Clients \ {c} : req'[d] = req[d]
      BY <1>5, RespondStep DEF TypeInv, ConfirmQueued
    <2>. QED
      BY <1>5, <2>1, <2>2 DEF TypeInv, TypeOK, FileKnown, ConfirmQueued, NoRequestVars
  <1>6. CASE SaveReplace(c)
    <2>1. /\ req' \in [Clients -> Req] /\ req'[c].pc = "idle"
          /\ \A d \in Clients \ {c} : req'[d] = req[d]
      BY <1>6, RespondStep DEF TypeInv, SaveReplace
    <2>2. mapping' \subseteq MapRow
      BY <1>6 DEF TypeInv, TypeOK, SaveReplace, Req
    <2>. QED
      BY <1>6, <2>1, <2>2 DEF TypeInv, TypeOK, FileKnown, SaveReplace, NoRequestVars
  <1>7. CASE ProcessStart(c)
    <2>1. job' \in [status : Status, deleted : BOOLEAN]
      BY <1>7, SetStatusType DEF TypeInv, ProcessStart, Status
    <2>2. /\ req' \in [Clients -> Req]
          /\ req'[c].pc = "normalize" /\ req'[c].file = req[c].file
          /\ \A d \in Clients \ {c} : req'[d] = req[d]
      BY <1>7, GotoStep DEF TypeInv, ProcessStart, ReqPc
    <2>. QED
      BY <1>7, <2>1, <2>2 DEF TypeInv, TypeOK, FileKnown, ProcessStart, NoRequestVars
  <1>8. CASE ProcessEnqueue(c)
    <2>1. queue' \in [QueueName -> [JobId -> JobState]]
      BY <1>8, IdsType, QueueTypes, OnQueueType DEF TypeInv, TypeOK, ProcessEnqueue, QueueName
    <2>2. /\ req' \in [Clients -> Req] /\ req'[c].pc = "idle"
          /\ \A d \in Clients \ {c} : req'[d] = req[d]
      BY <1>8, RespondStep DEF TypeInv, ProcessEnqueue
    <2>. QED
      BY <1>8, <2>1, <2>2 DEF TypeInv, TypeOK, FileKnown, ProcessEnqueue, NoRequestVars
  <1>9. CASE RemoveUpdate(c)
    <2>1. job' \in [status : Status, deleted : BOOLEAN]
      BY <1>9 DEF RemoveUpdate, Status
    <2>2. /\ req' \in [Clients -> Req] /\ req'[c].pc = "idle"
          /\ \A d \in Clients \ {c} : req'[d] = req[d]
      BY <1>9, RespondStep DEF TypeInv, RemoveUpdate
    <2>. QED
      BY <1>9, <2>1, <2>2 DEF TypeInv, TypeOK, FileKnown, RemoveUpdate, NoRequestVars
  <1>. QED
    BY <1>1, <1>2, <1>3, <1>4, <1>5, <1>6, <1>7, <1>8, <1>9 DEF Serve

LEMMA AbortType ==
  ASSUME TypeInv, NEW c \in Clients, Abort(c)
  PROVE  TypeInv'
  <1>1. /\ req' \in [Clients -> Req] /\ req'[c].pc = "idle"
        /\ \A d \in Clients \ {c} : req'[d] = req[d]
    BY RespondStep DEF TypeInv, Abort
  <1>2. spent' \in [Event -> Nat]
    BY SpendType DEF TypeInv, Abort, Event
  <1>. QED
    BY <1>1, <1>2 DEF TypeInv, TypeOK, FileKnown, Abort, NoRequestVars

----------------------------------------------------------------------------
(* Types: executions.                                                      *)

LEMMA SuggestionsType ==
  ASSUME NEW f \in Files
  PROVE  Suggestions(f) \subseteq MapRow
  <1>1. Headers[f] \in Seq(Cols)
    BY PipelineAssumption
  <1>2. ASSUME NEW i \in DOMAIN Headers[f]
        PROVE  Headers[f][i] \in Cols
    BY <1>1
  <1>3. ASSUME NEW x \in Cols
        PROVE  [col |-> x, target |-> Detect[x], user |-> FALSE] \in MapRow
    BY PipelineAssumption DEF MapRow
  <1>. QED
    BY <1>2, <1>3 DEF Suggestions

LEMMA VerdictType ==
  ASSUME NEW rows \in SUBSET Row, NEW r \in Row
  PROVE  [r EXCEPT !.status = Verdict(r, rows)] \in Row
  BY DEF Verdict, Row, ProductStatus

(* Two-field updates of an execution, one field at a time.                 *)
LEMMA LoopType ==
  ASSUME NEW e \in Exec, e.file \in Files
  PROVE  LET n == [e EXCEPT !.pc = "create", !.todo = Catalog[e.file]]
         IN  n \in Exec /\ n.pc = "create" /\ n.file = e.file /\ n.q = e.q /\ n.map = e.map /\ n.run = e.run
  <1>. DEFINE m == [e EXCEPT !.pc = "create"]
              n == [e EXCEPT !.pc = "create", !.todo = Catalog[e.file]]
  <1>1. Catalog[e.file] \in Seq(Keys)
    BY PipelineAssumption
  <1>2. m \in Exec /\ m.pc = "create" /\ m.file = e.file /\ m.q = e.q /\ m.map = e.map /\ m.run = e.run
    BY DEF Exec, ExecPc
  <1>3. n = [m EXCEPT !.todo = Catalog[e.file]]
    OBVIOUS
  <1>. HIDE DEF m
  <1>4. [m EXCEPT !.todo = Catalog[e.file]] \in Exec
    BY <1>1, <1>2 DEF Exec
  <1>5. LET k == [m EXCEPT !.todo = Catalog[e.file]]
        IN  k.pc = m.pc /\ k.file = m.file /\ k.q = m.q /\ k.map = m.map /\ k.run = m.run
    BY <1>2 DEF Exec
  <1>. HIDE DEF n
  <1>6. n \in Exec /\ n.pc = "create" /\ n.file = e.file /\ n.q = e.q /\ n.map = e.map /\ n.run = e.run
    BY <1>2, <1>3, <1>4, <1>5
  <1>. QED
    BY <1>6 DEF n

LEMMA CreateType ==
  ASSUME NEW e \in Exec, e.todo # <<>>
  PROVE  /\ [e EXCEPT !.todo = Tail(@)] \in Exec
         /\ LET n == [e EXCEPT !.todo = Tail(@)]
            IN  n.pc = e.pc /\ n.file = e.file /\ n.q = e.q /\ n.map = e.map /\ n.run = e.run
         /\ NewRow(e) \in Row
  <1>1. /\ e.todo \in Seq(Keys) /\ e.map \in SUBSET MapRow /\ e.run \in Nat
    BY DEF Exec
  <1>2. Tail(e.todo) \in Seq(Keys) /\ Head(e.todo) \in Keys
    BY <1>1
  <1>3. [e EXCEPT !.todo = Tail(e.todo)] \in Exec
    BY <1>2 DEF Exec
  <1>4. NewRow(e) \in Row
    BY <1>1, <1>2 DEF NewRow, Row, RowId, ProductStatus
  <1>. QED
    BY <1>3, <1>4 DEF Exec

LEMMA SeenType ==
  ASSUME NEW e \in Exec, NEW rows \in SUBSET Row
  PROVE  LET n == [e EXCEPT !.pc = "mark", !.seen = rows]
         IN  n \in Exec /\ n.pc = "mark" /\ n.q = e.q /\ n.run = e.run
  <1>. DEFINE m == [e EXCEPT !.pc = "mark"]
              n == [e EXCEPT !.pc = "mark", !.seen = rows]
  <1>1. m \in Exec /\ m.pc = "mark" /\ m.q = e.q /\ m.run = e.run
    BY DEF Exec, ExecPc
  <1>2. n = [m EXCEPT !.seen = rows]
    OBVIOUS
  <1>. HIDE DEF m
  <1>3. [m EXCEPT !.seen = rows] \in Exec
    BY <1>1 DEF Exec
  <1>4. LET k == [m EXCEPT !.seen = rows] IN k.pc = m.pc /\ k.q = m.q /\ k.run = m.run
    BY <1>1 DEF Exec
  <1>. HIDE DEF n
  <1>5. n \in Exec /\ n.pc = "mark" /\ n.q = e.q /\ n.run = e.run
    BY <1>1, <1>2, <1>3, <1>4
  <1>. QED
    BY <1>5 DEF n

LEMMA MarkType ==
  ASSUME NEW e \in Exec, NEW rows \in SUBSET Row, NEW b \in BOOLEAN
  PROVE  LET n == [e EXCEPT !.seen = rows, !.broken = b]
         IN  n \in Exec /\ n.pc = e.pc /\ n.q = e.q /\ n.run = e.run
  <1>. DEFINE m == [e EXCEPT !.seen = rows]
              n == [e EXCEPT !.seen = rows, !.broken = b]
  <1>1. m \in Exec /\ m.pc = e.pc /\ m.q = e.q /\ m.run = e.run
    BY DEF Exec
  <1>2. n = [m EXCEPT !.broken = b]
    OBVIOUS
  <1>. HIDE DEF m
  <1>3. [m EXCEPT !.broken = b] \in Exec
    BY <1>1 DEF Exec
  <1>4. LET k == [m EXCEPT !.broken = b] IN k.pc = m.pc /\ k.q = m.q /\ k.run = m.run
    BY <1>1 DEF Exec
  <1>. HIDE DEF n
  <1>5. n \in Exec /\ n.pc = e.pc /\ n.q = e.q /\ n.run = e.run
    BY <1>1, <1>2, <1>3, <1>4
  <1>. QED
    BY <1>5 DEF n

LEMMA StartType ==
  ASSUME TypeInv, NEW s \in Slots, NEW n \in QueueName, NEW id \in JobId,
         NEW pc \in {"status", "clear", "done"}, NEW f \in Files \cup {NoFile},
         NEW m \in SUBSET MapRow, NEW r \in Nat, NEW rows \in SUBSET Row,
         Start(s, n, id, pc, f, m, r, rows), UNCHANGED NoStartVars, runs' \in Nat
  PROVE  TypeInv'
  <1>. DEFINE e == [pc |-> pc, q |-> n, id |-> id, lock |-> TRUE, file |-> f, map |-> m,
                    run |-> r, todo |-> <<>>, seen |-> rows, broken |-> FALSE]
  <1>1. e \in Exec /\ e.pc = pc
    BY DEF Exec, ExecPc
  <1>2. /\ exec' \in [Slots -> Exec] /\ exec'[s] = e
        /\ \A t \in Slots \ {s} : exec'[t] = exec[t]
    BY <1>1, SetExecStep DEF Start, TypeInv
  <1>. HIDE DEF e
  <1>3. queue' \in [QueueName -> [JobId -> JobState]]
    BY QueueTypes, OnQueueType DEF Start, TypeInv, TypeOK
  <1>. QED
    BY <1>1, <1>2, <1>3 DEF TypeInv, TypeOK, FileKnown, NoStartVars

LEMMA StartsType ==
  ASSUME TypeInv, NEW s \in Slots, StartParse(s) \/ StartNormalize(s) \/ StartValidate(s)
  PROVE  TypeInv'
  <1>. USE DEF QueueName
  <1>0. runs \in Nat /\ runs + 1 \in Nat /\ mapping \in SUBSET MapRow /\ products \in SUBSET Row
    BY DEF TypeInv, TypeOK
  <1>1. CASE StartParse(s)
    BY <1>0, <1>1, StartType DEF StartParse, StartUnneeded
  <1>2. CASE StartNormalize(s)
    <2>1. PICK id \in JobId :
            IF NormalizeSkips
            THEN StartUnneeded(s, "normalize", id) /\ UNCHANGED runs
            ELSE /\ \E f \in Files \cup {NoFile} :
                      CatalogFile(f) /\ Start(s, "normalize", id, "status", f, mapping, runs + 1, {})
                 /\ runs' = runs + 1
      BY <1>2 DEF StartNormalize
    <2>2. UNCHANGED NoStartVars
      BY <1>2 DEF StartNormalize
    <2>3. CASE NormalizeSkips
      <3>1. Start(s, "normalize", id, "done", NoFile, {}, 0, {}) /\ runs' \in Nat
        BY <1>0, <2>1, <2>3 DEF StartUnneeded
      <3>. QED
        BY <2>2, <3>1, StartType
    <2>4. CASE ~NormalizeSkips
      <3>1. PICK f \in Files \cup {NoFile} :
              Start(s, "normalize", id, "status", f, mapping, runs + 1, {})
        BY <2>1, <2>4
      <3>2. runs' \in Nat
        BY <1>0, <2>1, <2>4
      <3>. QED
        BY <1>0, <2>2, <3>1, <3>2, StartType
    <2>. QED
      BY <2>3, <2>4
  <1>3. CASE StartValidate(s)
    BY <1>0, <1>3, StartType DEF StartValidate
  <1>. QED
    BY <1>1, <1>2, <1>3

LEMMA ParseType ==
  ASSUME TypeInv, NEW s \in Slots, FileMissing(s) \/ ParseStatus(s) \/ ParseWrite(s)
  PROVE  TypeInv'
  <1>1. CASE FileMissing(s)
    <2>1. /\ exec' \in [Slots -> Exec]
          /\ exec'[s].pc = "done" /\ exec'[s].file = exec[s].file
          /\ \A t \in Slots \ {s} : exec'[t] = exec[t]
      BY <1>1, AdvanceStep DEF TypeInv, FileMissing, ExecPc
    <2>2. job' \in [status : Status, deleted : BOOLEAN]
      BY <1>1, SetStatusType DEF TypeInv, FileMissing, Status
    <2>. QED
      BY <1>1, <2>1, <2>2 DEF TypeInv, TypeOK, FileKnown, FileMissing, NoExecVars
  <1>2. CASE ParseStatus(s)
    <2>1. /\ exec' \in [Slots -> Exec]
          /\ exec'[s].pc = "write" /\ exec'[s].file = exec[s].file
          /\ \A t \in Slots \ {s} : exec'[t] = exec[t]
      BY <1>2, AdvanceStep DEF TypeInv, ParseStatus, ExecPc
    <2>2. job' \in [status : Status, deleted : BOOLEAN]
      BY <1>2, SetStatusType DEF TypeInv, ParseStatus, Status
    <2>3. exec[s].file \in Files
      BY <1>2 DEF TypeInv, TypeOK, Exec, ParseStatus
    <2>. QED
      BY <1>2, <2>1, <2>2, <2>3 DEF TypeInv, TypeOK, FileKnown, ParseStatus, NoExecVars
  <1>3. CASE ParseWrite(s)
    <2>1. /\ exec' \in [Slots -> Exec]
          /\ exec'[s].pc = "done" /\ exec'[s].file = exec[s].file
          /\ \A t \in Slots \ {s} : exec'[t] = exec[t]
      BY <1>3, AdvanceStep DEF TypeInv, ParseWrite, ExecPc
    <2>2. job' \in [status : Status, deleted : BOOLEAN]
      BY <1>3, SetStatusType DEF TypeInv, ParseWrite, Status
    <2>3. mapping' \subseteq MapRow
      <3>1. exec[s].file \in Files
        BY <1>3 DEF TypeInv, FileKnown, ParseWrite, At
      <3>2. Suggestions(exec[s].file) \subseteq MapRow
        BY <3>1, SuggestionsType
      <3>. QED
        BY <1>3, <3>2 DEF TypeInv, TypeOK, ParseWrite
    <2>. QED
      BY <1>3, <2>1, <2>2, <2>3 DEF TypeInv, TypeOK, FileKnown, ParseWrite, NoExecVars
  <1>. QED
    BY <1>1, <1>2, <1>3

LEMMA NormalizeType ==
  ASSUME TypeInv, NEW s \in Slots,
         \/ NormalizeStatus(s) \/ NormalizeDelete(s) \/ NormalizeCreate(s)
         \/ NormalizeUsage(s) \/ NormalizeValidating(s) \/ NormalizeEnqueue(s)
  PROVE  TypeInv'
  <1>1. CASE NormalizeStatus(s)
    <2>1. /\ exec' \in [Slots -> Exec]
          /\ exec'[s].pc = "delete" /\ exec'[s].file = exec[s].file
          /\ \A t \in Slots \ {s} : exec'[t] = exec[t]
      BY <1>1, AdvanceStep DEF TypeInv, NormalizeStatus, ExecPc
    <2>2. job' \in [status : Status, deleted : BOOLEAN]
      BY <1>1, SetStatusType DEF TypeInv, NormalizeStatus, Status
    <2>3. exec[s].file \in Files
      BY <1>1 DEF TypeInv, TypeOK, Exec, NormalizeStatus
    <2>. QED
      BY <1>1, <2>1, <2>2, <2>3 DEF TypeInv, TypeOK, FileKnown, NormalizeStatus, NoExecVars
  <1>2. CASE NormalizeDelete(s)
    <2>. DEFINE e == [exec[s] EXCEPT !.pc = "create", !.todo = Catalog[exec[s].file]]
    <2>1. exec[s] \in Exec /\ exec[s].file \in Files
      BY <1>2 DEF TypeInv, TypeOK, FileKnown, NormalizeDelete, At
    <2>2. e \in Exec /\ e.pc = "create" /\ e.file = exec[s].file
      BY <2>1, LoopType
    <2>3. /\ exec' \in [Slots -> Exec] /\ exec'[s] = e
          /\ \A t \in Slots \ {s} : exec'[t] = exec[t]
      BY <1>2, <2>2, SetExecStep DEF TypeInv, NormalizeDelete
    <2>. HIDE DEF e
    <2>. QED
      BY <1>2, <2>1, <2>2, <2>3 DEF TypeInv, TypeOK, FileKnown, NormalizeDelete, NoExecVars
  <1>3. CASE NormalizeCreate(s)
    <2>. DEFINE e == [exec[s] EXCEPT !.todo = Tail(@)]
    <2>1. /\ exec[s] \in Exec /\ exec[s].file \in Files
          /\ exec[s].pc = "create" /\ exec[s].todo # <<>>
      BY <1>3 DEF TypeInv, TypeOK, FileKnown, NormalizeCreate, At
    <2>2. /\ e \in Exec /\ e.pc = "create" /\ e.file = exec[s].file
          /\ NewRow(exec[s]) \in Row
      BY <2>1, CreateType
    <2>3. /\ exec' \in [Slots -> Exec] /\ exec'[s] = e
          /\ \A t \in Slots \ {s} : exec'[t] = exec[t]
      BY <1>3, <2>2, SetExecStep DEF TypeInv, NormalizeCreate
    <2>. HIDE DEF e
    <2>. QED
      BY <1>3, <2>1, <2>2, <2>3 DEF TypeInv, TypeOK, FileKnown, NormalizeCreate, NoExecVars
  <1>4. CASE NormalizeUsage(s)
    <2>1. /\ exec' \in [Slots -> Exec]
          /\ exec'[s].pc = "validating" /\ exec'[s].file = exec[s].file
          /\ \A t \in Slots \ {s} : exec'[t] = exec[t]
      BY <1>4, AdvanceStep DEF TypeInv, NormalizeUsage, ExecPc
    <2>2. usage' \in Nat
      <3>1. exec[s].file \in Files
        BY <1>4 DEF TypeInv, FileKnown, NormalizeUsage, At
      <3>2. Len(Catalog[exec[s].file]) \in Nat
        BY <3>1, PipelineAssumption
      <3>. QED
        BY <1>4, <3>2 DEF TypeInv, TypeOK, NormalizeUsage
    <2>. QED
      BY <1>4, <2>1, <2>2 DEF TypeInv, TypeOK, FileKnown, NormalizeUsage, NoExecVars
  <1>5. CASE NormalizeValidating(s)
    <2>1. /\ exec' \in [Slots -> Exec]
          /\ exec'[s].pc = "add" /\ exec'[s].file = exec[s].file
          /\ \A t \in Slots \ {s} : exec'[t] = exec[t]
      BY <1>5, AdvanceStep DEF TypeInv, NormalizeValidating, ExecPc
    <2>2. job' \in [status : Status, deleted : BOOLEAN]
      BY <1>5, SetStatusType DEF TypeInv, NormalizeValidating, Status
    <2>. QED
      BY <1>5, <2>1, <2>2 DEF TypeInv, TypeOK, FileKnown, NormalizeValidating, NoExecVars
  <1>6. CASE NormalizeEnqueue(s)
    <2>1. /\ exec' \in [Slots -> Exec]
          /\ exec'[s].pc = "done" /\ exec'[s].file = exec[s].file
          /\ \A t \in Slots \ {s} : exec'[t] = exec[t]
      BY <1>6, AdvanceStep DEF TypeInv, NormalizeEnqueue, ExecPc
    <2>2. queue' \in [QueueName -> [JobId -> JobState]]
      BY <1>6, IdsType, QueueTypes, OnQueueType DEF TypeInv, TypeOK, NormalizeEnqueue, QueueName
    <2>. QED
      BY <1>6, <2>1, <2>2 DEF TypeInv, TypeOK, FileKnown, NormalizeEnqueue, NoExecVars
  <1>. QED
    BY <1>1, <1>2, <1>3, <1>4, <1>5, <1>6

LEMMA ValidateType ==
  ASSUME TypeInv, NEW s \in Slots,
         ValidateClear(s) \/ ValidateIssues(s) \/ ValidateMark(s) \/ ValidateReady(s)
  PROVE  TypeInv'
  <1>1. CASE ValidateClear(s)
    <2>1. /\ exec' \in [Slots -> Exec]
          /\ exec'[s].pc = "issues" /\ exec'[s].file = exec[s].file
          /\ \A t \in Slots \ {s} : exec'[t] = exec[t]
      BY <1>1, AdvanceStep DEF TypeInv, ValidateClear, ExecPc
    <2>. QED
      BY <1>1, <2>1 DEF TypeInv, TypeOK, FileKnown, ValidateClear, NoExecVars
  <1>2. CASE ValidateIssues(s)
    <2>. DEFINE judged == {[r EXCEPT !.status = Verdict(r, exec[s].seen)] : r \in exec[s].seen}
                e == [exec[s] EXCEPT !.pc = "mark", !.seen = judged]
    <2>1. exec[s] \in Exec /\ exec[s].seen \subseteq Row
      BY DEF TypeInv, TypeOK, Exec
    <2>2. judged \subseteq Row
      BY <2>1, VerdictType
    <2>3. e \in Exec /\ e.pc = "mark"
      BY <2>1, <2>2, SeenType
    <2>4. SetExec(s, e)
      BY <1>2 DEF ValidateIssues
    <2>5. /\ exec' \in [Slots -> Exec] /\ exec'[s] = e
          /\ \A t \in Slots \ {s} : exec'[t] = exec[t]
      BY <2>3, <2>4, SetExecStep DEF TypeInv
    <2>. HIDE DEF e
    <2>6. ErrorIds(s) \subseteq RowId
      BY <2>1 DEF ErrorIds, Row
    <2>. QED
      BY <1>2, <2>3, <2>5, <2>6 DEF TypeInv, TypeOK, FileKnown, ValidateIssues, NoExecVars
  <1>3. CASE ValidateMark(s)
    <2>1. PICK r \in exec[s].seen :
            /\ products' = {IF p.id = r.id THEN [p EXCEPT !.status = r.status] ELSE p : p \in products}
            /\ SetExec(s, [exec[s] EXCEPT !.seen = @ \ {r},
                                         !.broken = @ \/ \A p \in products : p.id # r.id])
      BY <1>3 DEF ValidateMark
    <2>. DEFINE rest == exec[s].seen \ {r}
                b == exec[s].broken \/ \A p \in products : p.id # r.id
                e == [exec[s] EXCEPT !.seen = rest, !.broken = b]
    <2>2. /\ exec[s] \in Exec /\ exec[s].pc = "mark" /\ exec[s].seen \subseteq Row
          /\ exec[s].broken \in BOOLEAN
      BY <1>3 DEF TypeInv, TypeOK, Exec, ValidateMark, At
    <2>3. e \in Exec /\ e.pc = "mark"
      <3>1. rest \in SUBSET Row /\ b \in BOOLEAN
        BY <2>2
      <3>. HIDE DEF rest, b
      <3>. QED
        BY <2>2, <3>1, MarkType
    <2>4. SetExec(s, e)
      BY <2>1
    <2>5. /\ exec' \in [Slots -> Exec] /\ exec'[s] = e
          /\ \A t \in Slots \ {s} : exec'[t] = exec[t]
      BY <2>3, <2>4, SetExecStep DEF TypeInv
    <2>. HIDE DEF e
    <2>6. products' \subseteq Row
      BY <2>1, <2>2 DEF TypeInv, TypeOK, Row
    <2>. QED
      BY <1>3, <2>3, <2>5, <2>6 DEF TypeInv, TypeOK, FileKnown, ValidateMark, NoExecVars
  <1>4. CASE ValidateReady(s)
    <2>1. /\ exec' \in [Slots -> Exec]
          /\ exec'[s].pc = "done" /\ exec'[s].file = exec[s].file
          /\ \A t \in Slots \ {s} : exec'[t] = exec[t]
      BY <1>4, AdvanceStep DEF TypeInv, ValidateReady, ExecPc
    <2>2. job' \in [status : Status, deleted : BOOLEAN]
      BY <1>4, SetStatusType DEF TypeInv, ValidateReady, Status
    <2>. QED
      BY <1>4, <2>1, <2>2 DEF TypeInv, TypeOK, FileKnown, ValidateReady, NoExecVars
  <1>. QED
    BY <1>1, <1>2, <1>3, <1>4

LEMMA EndType ==
  ASSUME TypeInv, NEW s \in Slots, exec[s].pc # "idle", SetExec(s, Idle),
         \/ UNCHANGED queue
         \/ OnQueue(exec[s].q, Complete(queue[exec[s].q], exec[s].id))
         \/ OnQueue(exec[s].q, Fail(queue[exec[s].q], exec[s].id)),
         UNCHANGED <<job, files, mapping, products, issues, usage, req, clock, runs>>,
         spent' \in [Event -> Nat]
  PROVE  TypeInv'
  <1>1. exec[s].q \in QueueName /\ exec[s].id \in JobId
    BY DEF TypeInv, TypeOK, Exec
  <1>2. queue' \in [QueueName -> [JobId -> JobState]]
    <2>1. queue[exec[s].q] \in [JobId -> JobState]
      BY <1>1 DEF TypeInv, TypeOK
    <2>. QED
      BY <1>1, <2>1, QueueTypes, OnQueueType DEF TypeInv, TypeOK
  <1>3. /\ exec' \in [Slots -> Exec] /\ exec'[s] = Idle
        /\ \A t \in Slots \ {s} : exec'[t] = exec[t]
    BY IdleType, SetExecStep DEF TypeInv
  <1>. QED
    BY <1>2, <1>3, IdleType DEF TypeInv, TypeOK, FileKnown

LEMMA FinishType ==
  ASSUME TypeInv, NEW s \in Slots, Finish(s) \/ Reject(s) \/ Throw(s)
  PROVE  TypeInv'
  <1>1. spent \in [Event -> Nat]
    BY DEF TypeInv, TypeOK
  <1>2. CASE Finish(s)
    BY <1>1, <1>2, EndType DEF Finish, NoExecVars
  <1>3. CASE Reject(s)
    <2>1. exec[s].pc # "idle"
      BY <1>3 DEF Reject, Refused, At
    <2>. QED
      BY <1>1, <1>3, <2>1, EndType DEF Reject, EndAttempt
  <1>4. CASE Throw(s)
    <2>1. exec[s].pc # "idle"
      BY <1>4 DEF Throw, At
    <2>2. spent' \in [Event -> Nat]
      BY <1>4, SpendType DEF Throw, TypeInv, Event
    <2>. QED
      BY <1>4, <2>1, <2>2, EndType DEF Throw, EndAttempt
  <1>. QED
    BY <1>2, <1>3, <1>4

LEMMA EnvironmentType ==
  ASSUME TypeInv, Environment
  PROVE  TypeInv'
  <1>1. CASE Crash
    <2>1. spent' \in [Event -> Nat]
      BY <1>1, SpendType DEF Crash, TypeInv, Event
    <2>. QED
      BY <1>1, <2>1, IdleType DEF Crash, NoEnvVars, TypeInv, TypeOK, FileKnown
  <1>2. CASE Tick
    BY <1>2, PipelineAssumption DEF Tick, NoEnvVars, TypeInv, TypeOK, FileKnown
  <1>3. ASSUME NEW n \in QueueName, NEW id \in JobId, Recover(n, id) PROVE TypeInv'
    <2>1. queue' \in [QueueName -> [JobId -> JobState]]
      BY <1>3, QueueTypes, OnQueueType DEF Recover, TypeInv, TypeOK
    <2>. QED
      BY <1>3, <2>1 DEF Recover, NoEnvVars, TypeInv, TypeOK, FileKnown
  <1>4. ASSUME NEW n \in QueueName, NEW id \in JobId, Forget(n, id) PROVE TypeInv'
    <2>1. queue' \in [QueueName -> [JobId -> JobState]]
      BY <1>4, QueueTypes, OnQueueType DEF Forget, TypeInv, TypeOK
    <2>2. spent' \in [Event -> Nat]
      BY <1>4, SpendType DEF Forget, TypeInv, Event
    <2>. QED
      BY <1>4, <2>1, <2>2 DEF Forget, NoEnvVars, TypeInv, TypeOK, FileKnown
  <1>5. ASSUME NEW s \in Slots, LoseLock(s) PROVE TypeInv'
    <2>. DEFINE e == [exec[s] EXCEPT !.lock = FALSE]
    <2>1. exec[s] \in Exec /\ exec[s].q \in QueueName /\ exec[s].id \in JobId
      BY DEF TypeInv, TypeOK, Exec
    <2>2. queue' \in [QueueName -> [JobId -> JobState]]
      <3>1. queue[exec[s].q] \in [JobId -> JobState]
        BY <2>1 DEF TypeInv, TypeOK
      <3>. QED
        BY <1>5, <2>1, <3>1, QueueTypes, OnQueueType DEF LoseLock, TypeInv
    <2>3. spent' \in [Event -> Nat]
      BY <1>5, SpendType DEF LoseLock, TypeInv, Event
    <2>4. e \in Exec /\ e.pc = exec[s].pc /\ e.file = exec[s].file
      BY <2>1 DEF Exec
    <2>5. /\ exec' \in [Slots -> Exec] /\ exec'[s] = e
          /\ \A t \in Slots \ {s} : exec'[t] = exec[t]
      BY <1>5, <2>4, SetExecStep DEF TypeInv, LoseLock
    <2>. HIDE DEF e
    <2>. QED
      BY <1>5, <2>2, <2>3, <2>4, <2>5 DEF LoseLock, NoEnvVars, TypeInv, TypeOK, FileKnown
  <1>6. ASSUME NEW s \in Slots, Throw(s) PROVE TypeInv'
    BY <1>6, FinishType
  <1>. QED
    BY <1>1, <1>2, <1>3, <1>4, <1>5, <1>6 DEF Environment, Surroundings

LEMMA TypeInit ==
  ASSUME Init
  PROVE  TypeInv
  <1>1. NoJob \in JobState
    BY DEF NoJob, JobState, JobPhase
  <1>. QED
    BY <1>1, IdsType, IdleType, NoReqType
    DEF Init, TypeInv, TypeOK, FileKnown, Status, Event

LEMMA TypeNext ==
  ASSUME TypeInv, [Next]_vars
  PROVE  TypeInv'
  <1>1. ASSUME NEW c \in Clients, Call(c) \/ Serve(c) \/ Abort(c) PROVE TypeInv'
    BY <1>1, CallType, ServeType, AbortType
  <1>2. ASSUME NEW s \in Slots, Work(s) PROVE TypeInv'
    BY <1>2, StartsType, ParseType, NormalizeType, ValidateType, FinishType DEF Work
  <1>3. CASE Environment
    BY <1>3, EnvironmentType
  <1>4. CASE UNCHANGED vars
    BY <1>4 DEF vars, TypeInv, TypeOK, FileKnown
  <1>. QED
    BY <1>1, <1>2, <1>3, <1>4 DEF Next

(* Type correctness: whatever the clients call, however often handlers and *)
(* executions interleave, throw, die or lose their lock, every row and     *)
(* every queue entry keeps the shape schema.prisma and BullMQ give it, and *)
(* no processor goes on to a file that was not there.                      *)
THEOREM TypeCorrect == Spec => []TypeOK
  <1>1. Init => TypeInv
    BY TypeInit
  <1>2. TypeInv /\ [Next]_vars => TypeInv'
    BY TypeNext
  <1>3. TypeInv => TypeOK
    BY DEF TypeInv
  <1>. QED
    BY <1>1, <1>2, <1>3, PTL DEF Spec

----------------------------------------------------------------------------
(* The mapping: no product is built from an empty one, one execution of    *)
(* normalization builds all its products from one, and a parse replaces no *)
(* row the user has confirmed.                                             *)

(* The inductive invariants.                                               *)

(* The execution in s still has inserts ahead of it or behind it.          *)
Normalizing(s) == exec[s].q = "normalize" /\ exec[s].pc \notin {"idle", "done"}

(* Why normalization finds a mapping when it reads one: whoever may lead   *)
(* to a normalize execution was let through by the check of POST /process, *)
(* and a mapping, once there, is only ever replaced by a non-empty one.    *)
MappingAwaited ==
  /\ \A c \in Clients : req[c].pc \in {"start", "normalize"} => mapping # {}
  /\ \A c \in Clients : req[c].pc = "replace" => req[c].map # {}
  /\ \A id \in JobId : queue["normalize"][id].phase # "absent" => mapping # {}
  /\ \A s \in Slots : exec[s].q = "normalize" /\ exec[s].pc # "idle" => mapping # {}
  /\ \A s \in Slots : Normalizing(s) => exec[s].map # {}

MappedInv == MappingAwaited /\ MappedProducts

(* Why the rows of one execution agree: its number is its own, and it goes *)
(* on inserting with the mapping of the rows it has already inserted.      *)
RunsApart ==
  /\ \A p \in products : p.id.run <= runs
  /\ \A s \in Slots : Normalizing(s) => exec[s].run <= runs
  /\ \A s, t \in Slots :
       Normalizing(s) /\ Normalizing(t) /\ exec[s].run = exec[t].run => s = t
  /\ \A s \in Slots, p \in products :
       Normalizing(s) /\ p.id.run = exec[s].run => p.map = exec[s].map

RunInv == RunsApart /\ OneMappingPerRun

MappingInv == TypeInv /\ MappedInv /\ RunInv

----------------------------------------------------------------------------
(* What almost every step does to the parts of the state the invariants    *)
(* speak of, and that this keeps them.                                     *)

MappingKept == mapping # {} => mapping' # {}

QueueKept == mapping # {} \/ queue'["normalize"] = queue["normalize"]

RequestsKept ==
  \A c \in Clients :
    /\ req'[c].pc \in {"start", "normalize"} => req[c].pc \in {"start", "normalize"} \/ mapping # {}
    /\ req'[c].pc = "replace" => req'[c].map # {}

(* No row is new, though some may be gone or have another status.          *)
RowsKept == \A p \in products' : \E r \in products : p.id = r.id /\ p.map = r.map

(* The execution in s is no new one that normalizes.                       *)
Follows(s) ==
  /\ exec'[s].q = "normalize" /\ exec'[s].pc # "idle" =>
       (exec[s].q = "normalize" /\ exec[s].pc # "idle") \/ mapping # {}
  /\ Normalizing(s)' =>
       Normalizing(s) /\ exec'[s].map = exec[s].map /\ exec'[s].run = exec[s].run

ExecsKept == \A s \in Slots : Follows(s)

Kept == /\ MappingKept /\ QueueKept /\ RequestsKept /\ RowsKept /\ ExecsKept
        /\ runs' = runs

LEMMA KeptMapped ==
  ASSUME MappedInv, MappingKept, QueueKept, RequestsKept, RowsKept, ExecsKept
  PROVE  MappedInv'
  <1>1. MappedProducts'
    BY DEF MappedInv, MappedProducts, RowsKept
  <1>2. MappingAwaited'
    BY DEF MappedInv, MappingAwaited, MappingKept, QueueKept, RequestsKept, ExecsKept,
           Follows, Normalizing
  <1>. QED
    BY <1>1, <1>2 DEF MappedInv

LEMMA KeptRuns ==
  ASSUME RunInv, RowsKept, ExecsKept, runs' = runs
  PROVE  RunInv'
  <1>1. \A s \in Slots : Normalizing(s)' =>
          Normalizing(s) /\ exec'[s].map = exec[s].map /\ exec'[s].run = exec[s].run
    BY DEF ExecsKept, Follows
  <1>2. RunsApart'
    BY <1>1 DEF RunInv, RunsApart, RowsKept
  <1>3. OneMappingPerRun'
    BY DEF RunInv, OneMappingPerRun, RowsKept
  <1>. QED
    BY <1>2, <1>3 DEF RunInv

LEMMA KeptInv ==
  ASSUME MappedInv, RunInv, Kept
  PROVE  MappedInv' /\ RunInv'
  BY KeptMapped, KeptRuns DEF Kept

LEMMA OnQueueKept ==
  ASSUME TypeOK, NEW n \in QueueName, NEW q, OnQueue(n, q), n = "normalize" => mapping # {}
  PROVE  QueueKept
  BY DEF OnQueue, TypeOK, QueueName, QueueKept

LEMMA SameRows ==
  ASSUME UNCHANGED products
  PROVE  RowsKept
  BY DEF RowsKept

LEMMA SameExecs ==
  ASSUME UNCHANGED exec
  PROVE  ExecsKept
  BY DEF ExecsKept, Follows, Normalizing

LEMMA SameRequests ==
  ASSUME MappedInv, UNCHANGED req
  PROVE  RequestsKept
  BY DEF RequestsKept, MappedInv, MappingAwaited

(* One request moves, and neither to replace the mapping nor to process.   *)
LEMMA OtherRequest ==
  ASSUME MappedInv, NEW c \in Clients, \A d \in Clients \ {c} : req'[d] = req[d],
         req'[c].pc \notin {"start", "normalize", "replace"}
  PROVE  RequestsKept
  BY DEF RequestsKept, MappedInv, MappingAwaited

(* One execution moves on, ends, or loses its lock.                        *)
LEMMA OneExec ==
  ASSUME NEW s \in Slots, \A t \in Slots \ {s} : exec'[t] = exec[t], Follows(s)
  PROVE  ExecsKept
  BY DEF ExecsKept, Follows, Normalizing

LEMMA AdvanceFollows ==
  ASSUME TypeOK, NEW s \in Slots, NEW pc \in ExecPc, Advance(s, pc),
         exec[s].pc \notin {"idle", "done"}
  PROVE  ExecsKept
  BY AdvanceStep, OneExec DEF Follows, Normalizing

LEMMA IdleFollows ==
  ASSUME TypeOK, NEW s \in Slots, SetExec(s, Idle)
  PROVE  ExecsKept
  BY IdleType, SetExecStep, OneExec DEF Follows, Normalizing

----------------------------------------------------------------------------
(* Requests.                                                               *)

LEMMA HandleKept ==
  ASSUME MappingInv, NEW c \in Clients, NEW pc \in ReqPc, NEW f \in Files \cup {NoFile},
         NEW m \in SUBSET MapRow, Handle(c, pc, f, m),
         pc # "normalize", pc = "start" => mapping # {}, pc = "replace" => m # {}
  PROVE  Kept
  <1>. DEFINE r == [pc |-> pc, file |-> f, map |-> m]
  <1>1. r \in Req /\ r.pc = pc /\ r.map = m
    BY DEF Req
  <1>2. Begin(c, r) /\ TypeOK
    BY DEF Handle, MappingInv, TypeInv
  <1>3. req'[c] = r /\ \A d \in Clients \ {c} : req'[d] = req[d]
    BY <1>1, <1>2, BeginStep
  <1>. HIDE DEF r
  <1>4. RequestsKept
    BY <1>1, <1>3 DEF RequestsKept, MappingInv, MappedInv, MappingAwaited
  <1>. QED
    BY <1>4, SameRows, SameExecs
    DEF Handle, NoRequestVars, Kept, MappingKept, QueueKept

LEMMA CallKept ==
  ASSUME MappingInv, NEW c \in Clients, Call(c)
  PROVE  Kept
  <1>1. CASE Create(c)
    <2>1. req'[c] = NoReq /\ \A d \in Clients \ {c} : req'[d] = req[d]
      BY <1>1, BeginStep, NoReqType DEF Create, MappingInv, TypeInv
    <2>2. RequestsKept
      BY <2>1, OtherRequest, NoReqType DEF MappingInv
    <2>. QED
      BY <1>1, <2>2, SameRows, SameExecs
      DEF Create, NoRequestVars, Kept, MappingKept, QueueKept
  <1>2. CASE Presign(c)
    BY <1>2, HandleKept DEF Presign, ReqPc
  <1>3. CASE Process(c)
    BY <1>3, HandleKept DEF Process, ReqPc
  <1>4. CASE Remove(c)
    BY <1>4, HandleKept DEF Remove, ReqPc
  <1>5. ASSUME NEW f \in Files, Confirm(c, f) PROVE Kept
    BY <1>5, HandleKept DEF Confirm, ReqPc
  <1>6. ASSUME NEW m \in Bodies, Save(c, m) PROVE Kept
    BY <1>6, HandleKept, BodyType DEF Save, ReqPc
  <1>. QED
    BY <1>1, <1>2, <1>3, <1>4, <1>5, <1>6 DEF Call

LEMMA ServeKept ==
  ASSUME MappingInv, NEW c \in Clients, Serve(c)
  PROVE  Kept
  <1>. DEFINE Others == \A d \in Clients \ {c} : req'[d] = req[d]
  <1>0. TypeOK /\ MappedInv
    BY DEF MappingInv, TypeInv
  <1>1. ASSUME Respond(c) PROVE RequestsKept
    BY <1>0, <1>1, RespondStep, OtherRequest
  <1>2. ASSUME NEW pc \in {"uploaded", "enqueue", "queued"}, Goto(c, pc) PROVE RequestsKept
    <2>1. pc \in ReqPc /\ pc \notin {"start", "normalize", "replace"}
      BY DEF ReqPc
    <2>2. req'[c].pc = pc /\ Others
      BY <1>0, <1>2, <2>1, GotoStep
    <2>. QED
      BY <1>0, <2>1, <2>2, OtherRequest
  <1>3. CASE PresignUpdate(c) \/ ConfirmQueued(c) \/ RemoveUpdate(c)
    BY <1>1, <1>3, SameRows, SameExecs
    DEF PresignUpdate, ConfirmQueued, RemoveUpdate, NoRequestVars, Kept, MappingKept, QueueKept
  <1>4. CASE ConfirmCreate(c)
    BY <1>2, <1>4, SameRows, SameExecs
    DEF ConfirmCreate, NoRequestVars, Kept, MappingKept, QueueKept
  <1>5. CASE ConfirmUploaded(c)
    BY <1>1, <1>2, <1>5, SameRows, SameExecs
    DEF ConfirmUploaded, NoRequestVars, Kept, MappingKept, QueueKept
  <1>6. CASE ConfirmEnqueue(c)
    <2>1. QueueKept
      BY <1>0, <1>6, OnQueueKept DEF ConfirmEnqueue, QueueName
    <2>. QED
      BY <1>2, <1>6, <2>1, SameRows, SameExecs
      DEF ConfirmEnqueue, NoRequestVars, Kept, MappingKept
  <1>7. CASE SaveReplace(c)
    <2>1. MappingKept
      BY <1>0, <1>7 DEF SaveReplace, MappingKept, MappedInv, MappingAwaited
    <2>. QED
      BY <1>1, <1>7, <2>1, SameRows, SameExecs
      DEF SaveReplace, NoRequestVars, Kept, QueueKept
  <1>8. CASE ProcessStart(c)
    <2>1. req'[c].pc = "normalize" /\ Others
      BY <1>0, <1>8, GotoStep DEF ProcessStart, ReqPc
    <2>2. RequestsKept
      BY <1>0, <1>8, <2>1 DEF ProcessStart, RequestsKept, MappedInv, MappingAwaited
    <2>. QED
      BY <1>8, <2>2, SameRows, SameExecs
      DEF ProcessStart, NoRequestVars, Kept, MappingKept, QueueKept
  <1>9. CASE ProcessEnqueue(c)
    <2>1. mapping # {}
      BY <1>0, <1>9 DEF ProcessEnqueue, MappedInv, MappingAwaited
    <2>. QED
      BY <1>1, <1>9, <2>1, SameRows, SameExecs
      DEF ProcessEnqueue, NoRequestVars, Kept, MappingKept, QueueKept
  <1>. QED
    BY <1>3, <1>4, <1>5, <1>6, <1>7, <1>8, <1>9 DEF Serve

LEMMA AbortKept ==
  ASSUME MappingInv, NEW c \in Clients, Abort(c)
  PROVE  Kept
  <1>1. RequestsKept
    BY RespondStep, OtherRequest DEF Abort, MappingInv, TypeInv
  <1>. QED
    BY <1>1, SameRows, SameExecs DEF Abort, NoRequestVars, Kept, MappingKept, QueueKept

----------------------------------------------------------------------------
(* Executions.                                                             *)

LEMMA ParseKept ==
  ASSUME MappingInv, NEW s \in Slots, FileMissing(s) \/ ParseStatus(s) \/ ParseWrite(s)
  PROVE  Kept
  <1>0. TypeOK /\ MappedInv
    BY DEF MappingInv, TypeInv
  <1>1. RequestsKept /\ RowsKept /\ runs' = runs
    BY <1>0, SameRequests, SameRows DEF FileMissing, ParseStatus, ParseWrite, NoExecVars
  <1>2. QueueKept
    BY DEF FileMissing, ParseStatus, ParseWrite, QueueKept
  <1>3. MappingKept
    BY DEF FileMissing, ParseStatus, ParseWrite, MappingKept
  <1>4. ExecsKept
    BY <1>0, AdvanceFollows DEF FileMissing, ParseStatus, ParseWrite, At, ExecPc
  <1>. QED
    BY <1>1, <1>2, <1>3, <1>4 DEF Kept

(* Every write of normalization but the inserts.                           *)
LEMMA NormalizeKept ==
  ASSUME MappingInv, NEW s \in Slots,
         \/ NormalizeStatus(s) \/ NormalizeDelete(s) \/ NormalizeUsage(s)
         \/ NormalizeValidating(s) \/ NormalizeEnqueue(s)
  PROVE  Kept
  <1>0. TypeOK /\ MappedInv
    BY DEF MappingInv, TypeInv
  <1>1. RequestsKept /\ runs' = runs
    BY <1>0, SameRequests
    DEF NormalizeStatus, NormalizeDelete, NormalizeUsage, NormalizeValidating,
        NormalizeEnqueue, NoExecVars
  <1>2. QueueKept
    BY <1>0, OnQueueKept
    DEF NormalizeStatus, NormalizeDelete, NormalizeUsage, NormalizeValidating,
        NormalizeEnqueue, QueueKept, QueueName
  <1>3. MappingKept
    BY DEF NormalizeStatus, NormalizeDelete, NormalizeUsage, NormalizeValidating,
           NormalizeEnqueue, MappingKept
  <1>4. RowsKept
    BY DEF NormalizeStatus, NormalizeDelete, NormalizeUsage, NormalizeValidating,
           NormalizeEnqueue, RowsKept
  <1>5. CASE NormalizeDelete(s)
    <2>. DEFINE e == [exec[s] EXCEPT !.pc = "create", !.todo = Catalog[exec[s].file]]
    <2>1. /\ exec[s] \in Exec /\ exec[s].pc = "delete" /\ exec[s].q = "normalize"
          /\ exec[s].file \in Files
      BY <1>5 DEF MappingInv, TypeInv, TypeOK, FileKnown, NormalizeDelete, At
    <2>2. /\ e \in Exec /\ e.pc = "create" /\ e.q = exec[s].q
          /\ e.map = exec[s].map /\ e.run = exec[s].run
      BY <2>1, LoopType
    <2>3. /\ exec'[s] = e
          /\ \A t \in Slots \ {s} : exec'[t] = exec[t]
      BY <1>0, <1>5, <2>2, SetExecStep DEF NormalizeDelete
    <2>. HIDE DEF e
    <2>4. ExecsKept
      BY <2>1, <2>2, <2>3, OneExec DEF Follows, Normalizing
    <2>. QED
      BY <1>1, <1>2, <1>3, <1>4, <2>4 DEF Kept
  <1>6. CASE ~NormalizeDelete(s)
    <2>1. ExecsKept
      BY <1>0, <1>6, AdvanceFollows
      DEF NormalizeStatus, NormalizeUsage, NormalizeValidating, NormalizeEnqueue, At, ExecPc
    <2>. QED
      BY <1>1, <1>2, <1>3, <1>4, <2>1 DEF Kept
  <1>. QED
    BY <1>5, <1>6

(* An insert adds a row of the execution, built from its mapping.          *)
LEMMA CreateInv ==
  ASSUME MappingInv, NEW s \in Slots, NormalizeCreate(s)
  PROVE  MappedInv' /\ RunInv'
  <1>. DEFINE e == [exec[s] EXCEPT !.todo = Tail(@)]
              row == NewRow(exec[s])
  <1>0. TypeOK /\ MappedInv /\ RunInv
    BY DEF MappingInv, TypeInv
  <1>1. /\ exec[s] \in Exec /\ exec[s].todo # <<>>
        /\ exec[s].pc = "create" /\ exec[s].q = "normalize"
    BY <1>0 DEF TypeOK, NormalizeCreate, At
  <1>2. /\ e \in Exec /\ e.pc = exec[s].pc /\ e.q = exec[s].q
        /\ e.map = exec[s].map /\ e.run = exec[s].run
    BY <1>1, CreateType
  <1>3. exec'[s] = e /\ \A t \in Slots \ {s} : exec'[t] = exec[t]
    BY <1>0, <1>2, SetExecStep DEF NormalizeCreate
  <1>4. row.id.run = exec[s].run /\ row.map = exec[s].map
    BY DEF NewRow
  <1>5. products' = products \cup {row}
    BY DEF NormalizeCreate
  <1>. HIDE DEF e, row
  <1>6. ExecsKept
    BY <1>1, <1>2, <1>3, OneExec DEF Follows, Normalizing
  <1>7. Normalizing(s) /\ exec[s].map # {}
    BY <1>0, <1>1 DEF Normalizing, MappedInv, MappingAwaited
  <1>8. MappedInv'
    <2>1. MappingAwaited'
      BY <1>0, <1>6
      DEF NormalizeCreate, NoExecVars, MappedInv, MappingAwaited, ExecsKept, Follows
    <2>2. MappedProducts'
      BY <1>0, <1>4, <1>5, <1>7 DEF MappedInv, MappedProducts
    <2>. QED
      BY <2>1, <2>2 DEF MappedInv
  <1>9. RunInv'
    <2>1. runs' = runs
      BY DEF NormalizeCreate, NoExecVars
    <2>2. \A t \in Slots : Normalizing(t)' =>
            Normalizing(t) /\ exec'[t].map = exec[t].map /\ exec'[t].run = exec[t].run
      BY <1>6 DEF ExecsKept, Follows
    <2>3. RunsApart'
      BY <1>0, <1>4, <1>5, <1>7, <2>1, <2>2 DEF RunInv, RunsApart
    <2>4. OneMappingPerRun'
      BY <1>0, <1>4, <1>5, <1>7 DEF RunInv, RunsApart, OneMappingPerRun
    <2>. QED
      BY <2>3, <2>4 DEF RunInv
  <1>. QED
    BY <1>8, <1>9

LEMMA ValidateKept ==
  ASSUME MappingInv, NEW s \in Slots,
         ValidateClear(s) \/ ValidateIssues(s) \/ ValidateMark(s) \/ ValidateReady(s)
  PROVE  Kept
  <1>0. TypeOK /\ MappedInv
    BY DEF MappingInv, TypeInv
  <1>1. RequestsKept /\ runs' = runs /\ QueueKept /\ MappingKept
    BY <1>0, SameRequests
    DEF ValidateClear, ValidateIssues, ValidateMark, ValidateReady, NoExecVars,
        QueueKept, MappingKept
  <1>2. RowsKept
    <2>1. CASE ValidateMark(s)
      <3>1. PICK r \in exec[s].seen :
              products' = {IF p.id = r.id THEN [p EXCEPT !.status = r.status] ELSE p : p \in products}
        BY <2>1 DEF ValidateMark
      <3>2. ASSUME NEW p \in products
            PROVE  LET n == [p EXCEPT !.status = r.status] IN n.id = p.id /\ n.map = p.map
        BY <1>0 DEF TypeOK, Row
      <3>. QED
        BY <3>1, <3>2 DEF RowsKept
    <2>. QED
      BY <2>1, SameRows DEF ValidateClear, ValidateIssues, ValidateReady
  <1>3. ExecsKept
    <2>1. exec[s].q = "validate" /\ exec[s].pc \notin {"idle", "done"} /\ exec[s] \in Exec
      BY <1>0 DEF ValidateClear, ValidateIssues, ValidateMark, ValidateReady, At, TypeOK
    <2>2. CASE ValidateClear(s) \/ ValidateReady(s)
      BY <1>0, <2>1, <2>2, AdvanceFollows DEF ValidateClear, ValidateReady, ExecPc
    <2>3. ASSUME NEW e, SetExec(s, e), e.q = "validate" PROVE ExecsKept
      BY <1>0, <2>3, OneExec DEF SetExec, TypeOK, Follows, Normalizing
    <2>4. CASE ValidateIssues(s)
      <3>. DEFINE e == [exec[s] EXCEPT !.pc = "mark",
                          !.seen = {[r EXCEPT !.status = Verdict(r, exec[s].seen)] : r \in @}]
      <3>1. SetExec(s, e) /\ e.q = "validate"
        BY <2>1, <2>4 DEF ValidateIssues, Exec
      <3>. QED
        BY <2>3, <3>1
    <2>5. CASE ValidateMark(s)
      <3>1. PICK r \in exec[s].seen :
              SetExec(s, [exec[s] EXCEPT !.seen = @ \ {r},
                                        !.broken = @ \/ \A p \in products : p.id # r.id])
        BY <2>5 DEF ValidateMark
      <3>. DEFINE e == [exec[s] EXCEPT !.seen = @ \ {r},
                                      !.broken = @ \/ \A p \in products : p.id # r.id]
      <3>2. SetExec(s, e) /\ e.q = "validate"
        BY <2>1, <3>1 DEF Exec
      <3>. QED
        BY <2>3, <3>2
    <2>. QED
      BY <2>2, <2>4, <2>5
  <1>. QED
    BY <1>1, <1>2, <1>3 DEF Kept

(* An execution ends; one of normalization has a mapping in the database.  *)
LEMMA FinishKept ==
  ASSUME MappingInv, NEW s \in Slots, Finish(s) \/ Reject(s) \/ Throw(s)
  PROVE  Kept
  <1>0. TypeOK /\ MappedInv
    BY DEF MappingInv, TypeInv
  <1>1. RequestsKept /\ RowsKept /\ runs' = runs /\ MappingKept
    BY <1>0, SameRequests, SameRows
    DEF Finish, Reject, Throw, EndAttempt, NoExecVars, MappingKept
  <1>2. ExecsKept
    BY <1>0, IdleFollows DEF Finish, Reject, Throw, EndAttempt
  <1>3. QueueKept
    <2>1. exec[s].pc # "idle" /\ exec[s].q \in QueueName
      BY <1>0 DEF Finish, Reject, Refused, Throw, At, TypeOK, Exec
    <2>2. exec[s].q = "normalize" => mapping # {}
      BY <1>0, <2>1 DEF MappedInv, MappingAwaited
    <2>3. UNCHANGED queue \/ \E q : OnQueue(exec[s].q, q)
      BY DEF Finish, Reject, Throw, EndAttempt
    <2>. QED
      BY <1>0, <2>1, <2>2, <2>3, OnQueueKept DEF QueueKept
  <1>. QED
    BY <1>1, <1>2, <1>3 DEF Kept

----------------------------------------------------------------------------
(* Starts.                                                                 *)

LEMMA StartStep ==
  ASSUME TypeOK, NEW s \in Slots, NEW n \in QueueName, NEW id \in JobId, NEW pc,
         NEW f, NEW m, NEW r, NEW rows, Start(s, n, id, pc, f, m, r, rows)
  PROVE  /\ exec'[s].pc = pc /\ exec'[s].q = n /\ exec'[s].map = m /\ exec'[s].run = r
         /\ \A t \in Slots \ {s} : exec'[t] = exec[t]
         /\ exec[s].pc = "idle" /\ queue[n][id].phase = "waiting"
  BY DEF Start, SetExec, TypeOK

LEMMA StartKept ==
  ASSUME MappingInv, NEW s \in Slots, NEW n \in QueueName, NEW id \in JobId, NEW pc,
         NEW f, NEW m, NEW r, NEW rows, Start(s, n, id, pc, f, m, r, rows),
         n = "normalize" => pc = "done", UNCHANGED NoStartVars, UNCHANGED runs
  PROVE  Kept
  <1>0. TypeOK /\ MappedInv
    BY DEF MappingInv, TypeInv
  <1>1. /\ exec'[s].pc = pc /\ exec'[s].q = n
        /\ \A t \in Slots \ {s} : exec'[t] = exec[t]
        /\ n = "normalize" => mapping # {}
    BY <1>0, StartStep DEF MappedInv, MappingAwaited
  <1>2. QueueKept
    BY <1>0, <1>1, OnQueueKept DEF Start
  <1>3. ExecsKept
    BY <1>1, OneExec DEF Follows, Normalizing
  <1>4. RequestsKept /\ RowsKept /\ MappingKept
    BY <1>0, SameRequests, SameRows DEF NoStartVars, MappingKept
  <1>. QED
    BY <1>2, <1>3, <1>4 DEF Kept

(* A new execution of normalization: its number is new, and it reads a     *)
(* mapping that is there.                                                  *)
LEMMA StartNormalizeInv ==
  ASSUME MappingInv, NEW s \in Slots, NEW id \in JobId, NEW f,
         Start(s, "normalize", id, "status", f, mapping, runs + 1, {}),
         UNCHANGED NoStartVars, runs' = runs + 1
  PROVE  MappedInv' /\ RunInv'
  <1>0. /\ TypeOK /\ MappedInv /\ RunInv
        /\ runs \in Nat /\ \A p \in products : p.id.run \in Nat
        /\ \A t \in Slots : exec[t].run \in Nat
    BY DEF MappingInv, TypeInv, TypeOK, Row, RowId, Exec
  <1>1. /\ exec'[s].pc = "status" /\ exec'[s].q = "normalize"
        /\ exec'[s].map = mapping /\ exec'[s].run = runs + 1
        /\ \A t \in Slots \ {s} : exec'[t] = exec[t]
        /\ exec[s].pc = "idle"
        /\ mapping # {}
    BY <1>0, StartStep DEF MappedInv, MappingAwaited, QueueName
  <1>2. UNCHANGED <<mapping, products, req>>
    BY DEF NoStartVars
  <1>3. MappedInv'
    BY <1>0, <1>1, <1>2
    DEF MappedInv, MappingAwaited, MappedProducts, Normalizing
  <1>4. \A t \in Slots \ {s} :
          Normalizing(t)' => /\ Normalizing(t) /\ exec[t].run <= runs
                             /\ exec'[t].run = exec[t].run /\ exec'[t].map = exec[t].map
    BY <1>0, <1>1 DEF Normalizing, RunInv, RunsApart
  <1>5. RunInv'
    <2>1. \A p \in products' : p.id.run <= runs /\ p.id.run <= runs'
      BY <1>0, <1>2 DEF RunInv, RunsApart
    <2>2. \A t \in Slots : Normalizing(t)' => exec'[t].run <= runs'
      BY <1>0, <1>1, <1>4
    <2>3. \A t, u \in Slots :
            Normalizing(t)' /\ Normalizing(u)' /\ exec'[t].run = exec'[u].run => t = u
      <3>1. \A t \in Slots \ {s} : Normalizing(t)' => exec'[t].run # exec'[s].run
        BY <1>0, <1>1, <1>4
      <3>. QED
        BY <1>0, <1>1, <1>4, <3>1 DEF RunInv, RunsApart
    <2>4. \A t \in Slots, p \in products' :
            Normalizing(t)' /\ p.id.run = exec'[t].run => p.map = exec'[t].map
      <3>1. \A p \in products' : p.id.run # exec'[s].run
        BY <1>0, <1>1, <2>1
      <3>. QED
        BY <1>0, <1>2, <1>4, <3>1 DEF RunInv, RunsApart
    <2>5. OneMappingPerRun'
      BY <1>0, <1>2 DEF RunInv, OneMappingPerRun
    <2>. QED
      BY <2>1, <2>2, <2>3, <2>4, <2>5 DEF RunInv, RunsApart
  <1>. QED
    BY <1>3, <1>5

LEMMA StartsInv ==
  ASSUME MappingInv, NEW s \in Slots, StartParse(s) \/ StartNormalize(s) \/ StartValidate(s)
  PROVE  MappedInv' /\ RunInv'
  <1>. USE DEF QueueName
  <1>0. MappedInv /\ RunInv
    BY DEF MappingInv
  <1>1. CASE StartParse(s)
    <2>1. Kept
      BY <1>1, StartKept DEF StartParse, StartUnneeded
    <2>. QED
      BY <1>0, <2>1, KeptInv
  <1>2. CASE StartNormalize(s)
    <2>1. PICK id \in JobId :
            IF NormalizeSkips
            THEN StartUnneeded(s, "normalize", id) /\ UNCHANGED runs
            ELSE /\ \E f \in Files \cup {NoFile} :
                      CatalogFile(f) /\ Start(s, "normalize", id, "status", f, mapping, runs + 1, {})
                 /\ runs' = runs + 1
      BY <1>2 DEF StartNormalize
    <2>2. UNCHANGED NoStartVars
      BY <1>2 DEF StartNormalize
    <2>3. CASE NormalizeSkips
      <3>1. Kept
        BY <2>1, <2>2, <2>3, StartKept DEF StartUnneeded
      <3>. QED
        BY <1>0, <3>1, KeptInv
    <2>4. CASE ~NormalizeSkips
      BY <2>1, <2>2, <2>4, StartNormalizeInv
    <2>. QED
      BY <2>3, <2>4
  <1>3. CASE StartValidate(s)
    <2>1. Kept
      BY <1>3, StartKept DEF StartValidate
    <2>. QED
      BY <1>0, <2>1, KeptInv
  <1>. QED
    BY <1>1, <1>2, <1>3

----------------------------------------------------------------------------
(* The environment of the worker.                                          *)

LEMMA EnvironmentKept ==
  ASSUME MappingInv, Environment
  PROVE  Kept
  <1>0. TypeOK /\ MappedInv
    BY DEF MappingInv, TypeInv
  <1>1. CASE Crash
    <2>1. ExecsKept
      BY <1>1, IdleType DEF Crash, ExecsKept, Follows, Normalizing
    <2>. QED
      BY <1>0, <1>1, <2>1, SameRequests, SameRows
      DEF Crash, NoEnvVars, Kept, MappingKept, QueueKept
  <1>2. CASE Tick
    BY <1>0, <1>2, SameRequests, SameRows, SameExecs
    DEF Tick, NoEnvVars, Kept, MappingKept, QueueKept
  <1>3. ASSUME NEW n \in QueueName, NEW id \in JobId, Recover(n, id) \/ Forget(n, id)
        PROVE  Kept
    <2>1. n = "normalize" => mapping # {}
      BY <1>0, <1>3 DEF Recover, Forget, Retained, MappedInv, MappingAwaited
    <2>2. QueueKept
      BY <1>0, <1>3, <2>1, OnQueueKept DEF Recover, Forget
    <2>. QED
      BY <1>0, <1>3, <2>2, SameRequests, SameRows, SameExecs
      DEF Recover, Forget, NoEnvVars, Kept, MappingKept
  <1>4. ASSUME NEW s \in Slots, LoseLock(s) PROVE Kept
    <2>1. exec[s] \in Exec /\ exec[s].pc # "idle" /\ exec[s].q \in QueueName
      BY <1>0, <1>4 DEF LoseLock, TypeOK, Exec
    <2>2. exec[s].q = "normalize" => mapping # {}
      BY <1>0, <2>1 DEF MappedInv, MappingAwaited
    <2>3. QueueKept
      BY <1>0, <1>4, <2>1, <2>2, OnQueueKept DEF LoseLock
    <2>4. ExecsKept
      <3>. DEFINE e == [exec[s] EXCEPT !.lock = FALSE]
      <3>1. /\ e \in Exec /\ e.pc = exec[s].pc /\ e.q = exec[s].q
            /\ e.map = exec[s].map /\ e.run = exec[s].run
        BY <2>1 DEF Exec
      <3>2. exec'[s] = e /\ \A t \in Slots \ {s} : exec'[t] = exec[t]
        BY <1>0, <1>4, <3>1, SetExecStep DEF LoseLock
      <3>. HIDE DEF e
      <3>. QED
        BY <3>1, <3>2, OneExec DEF Follows, Normalizing
    <2>. QED
      BY <1>0, <1>4, <2>3, <2>4, SameRequests, SameRows
      DEF LoseLock, NoEnvVars, Kept, MappingKept
  <1>5. ASSUME NEW s \in Slots, Throw(s) PROVE Kept
    BY <1>5, FinishKept
  <1>. QED
    BY <1>1, <1>2, <1>3, <1>4, <1>5 DEF Environment, Surroundings

----------------------------------------------------------------------------
(* The theorems.                                                           *)

LEMMA MappingInit ==
  ASSUME Init
  PROVE  MappingInv
  <1>1. TypeInv
    BY TypeInit
  <1>2. MappedInv
    BY NoReqType, IdleType
    DEF Init, MappedInv, MappingAwaited, MappedProducts, Normalizing, NoJob, QueueName
  <1>3. RunInv
    BY IdleType DEF Init, RunInv, RunsApart, OneMappingPerRun, Normalizing
  <1>. QED
    BY <1>1, <1>2, <1>3 DEF MappingInv

LEMMA MappingNext ==
  ASSUME MappingInv, [Next]_vars
  PROVE  MappingInv'
  <1>0. TypeInv /\ MappedInv /\ RunInv
    BY DEF MappingInv
  <1>1. TypeInv'
    BY <1>0, TypeNext
  <1>2. ASSUME Kept PROVE MappedInv' /\ RunInv'
    BY <1>0, <1>2, KeptInv
  <1>3. ASSUME NEW c \in Clients, Call(c) \/ Serve(c) \/ Abort(c)
        PROVE  MappedInv' /\ RunInv'
    BY <1>2, <1>3, CallKept, ServeKept, AbortKept
  <1>4. ASSUME NEW s \in Slots, Work(s)
        PROVE  MappedInv' /\ RunInv'
    BY <1>2, <1>4, StartsInv, ParseKept, NormalizeKept, CreateInv, ValidateKept, FinishKept
    DEF Work
  <1>5. ASSUME Environment PROVE MappedInv' /\ RunInv'
    BY <1>2, <1>5, EnvironmentKept
  <1>6. ASSUME UNCHANGED vars PROVE MappedInv' /\ RunInv'
    BY <1>0, <1>2, <1>6, SameRequests, SameRows, SameExecs
    DEF vars, Kept, MappingKept, QueueKept
  <1>7. MappedInv' /\ RunInv'
    BY <1>3, <1>4, <1>5, <1>6 DEF Next
  <1>. QED
    BY <1>1, <1>7 DEF MappingInv

(* No product is ever built from an empty mapping, although POST /process  *)
(* looks for one long before normalization reads it.                       *)
THEOREM ProductsAreMapped == Spec => []MappedProducts
  <1>1. Init => MappingInv
    BY MappingInit
  <1>2. MappingInv /\ [Next]_vars => MappingInv'
    BY MappingNext
  <1>3. MappingInv => MappedProducts
    BY DEF MappingInv, MappedInv
  <1>. QED
    BY <1>1, <1>2, <1>3, PTL DEF Spec

(* One execution of normalization builds all its products from the mapping *)
(* it read at its start, whatever is saved or runs beside it.              *)
THEOREM RunsAreUniform == Spec => []OneMappingPerRun
  <1>1. Init => MappingInv
    BY MappingInit
  <1>2. MappingInv /\ [Next]_vars => MappingInv'
    BY MappingNext
  <1>3. MappingInv => OneMappingPerRun
    BY DEF MappingInv, RunInv
  <1>. QED
    BY <1>1, <1>2, <1>3, PTL DEF Spec

----------------------------------------------------------------------------
(* Rows the user confirmed.                                                *)

(* The unique index holds of the table: it is what makes an insert of      *)
(* suggestions beside rows for the same columns roll back.                 *)
TableInv == TypeInv /\ UniqueColumns(mapping)

LEMMA SuggestionsUnique ==
  ASSUME NEW f \in Files, Distinct(Headers[f])
  PROVE  UniqueColumns(Suggestions(f))
  <1>. DEFINE row(i) == [col |-> Headers[f][i], target |-> Detect[Headers[f][i]], user |-> FALSE]
  <1>1. SUFFICES ASSUME NEW i \in DOMAIN Headers[f], NEW j \in DOMAIN Headers[f],
                        row(i).col = row(j).col
                 PROVE  row(i) = row(j)
    BY DEF UniqueColumns, Suggestions
  <1>2. i = j
    BY <1>1 DEF Distinct
  <1>. QED
    BY <1>2

LEMMA SameTable ==
  ASSUME UniqueColumns(mapping), UNCHANGED mapping
  PROVE  MappingStep /\ UniqueColumns(mapping')
  BY DEF MappingStep, UserRows

LEMMA ServeTable ==
  ASSUME TableInv, NEW c \in Clients, Serve(c)
  PROVE  MappingStep /\ UniqueColumns(mapping')
  <1>1. CASE SaveReplace(c)
    BY <1>1, SameTable DEF TableInv, MappingStep, SaveReplace
  <1>2. CASE ~SaveReplace(c)
    <2>1. UNCHANGED mapping
      BY <1>2 DEF Serve, PresignUpdate, ConfirmCreate, ConfirmUploaded, ConfirmEnqueue,
                  ConfirmQueued, ProcessStart, ProcessEnqueue, RemoveUpdate
    <2>. QED
      BY <2>1, SameTable DEF TableInv
  <1>. QED
    BY <1>1, <1>2

LEMMA WorkTable ==
  ASSUME TableInv, NEW s \in Slots, Work(s)
  PROVE  MappingStep /\ UniqueColumns(mapping')
  <1>1. CASE ParseWrite(s)
    <2>1. CASE exec[s].map = {}
      <3>. DEFINE new == Suggestions(exec[s].file)
      <3>1. SuggestionsFit(exec[s].file) /\ exec[s].file \in Files
        BY <1>1, <2>1 DEF ParseWrite, ParseCommits, TableInv, TypeInv, FileKnown, At
      <3>2. UniqueColumns(new)
        BY <3>1, SuggestionsUnique DEF SuggestionsFit
      <3>3. Columns(new) \cap Columns(mapping) = {}
        BY <3>1 DEF SuggestionsFit
      <3>4. mapping' = mapping \cup new
        BY <1>1, <2>1 DEF ParseWrite
      <3>. HIDE DEF new
      <3>5. UniqueColumns(mapping')
        BY <3>2, <3>3, <3>4 DEF TableInv, UniqueColumns, Columns
      <3>. QED
        BY <3>4, <3>5 DEF MappingStep, UserRows
    <2>2. CASE exec[s].map # {}
      BY <1>1, <2>2, SameTable DEF ParseWrite, TableInv
    <2>. QED
      BY <2>1, <2>2
  <1>2. CASE ~ParseWrite(s)
    <2>1. UNCHANGED mapping
      BY <1>2
      DEF Work, StartParse, StartNormalize, StartValidate, NoStartVars, FileMissing, ParseStatus,
          NormalizeStatus, NormalizeDelete, NormalizeCreate, NormalizeUsage,
          NormalizeValidating, NormalizeEnqueue, ValidateClear, ValidateIssues,
          ValidateMark, ValidateReady, Finish, Reject, EndAttempt
    <2>. QED
      BY <2>1, SameTable DEF TableInv
  <1>. QED
    BY <1>1, <1>2

LEMMA TableNext ==
  ASSUME TableInv, [Next]_vars
  PROVE  MappingStep /\ UniqueColumns(mapping')
  <1>1. ASSUME NEW c \in Clients, Call(c) \/ Abort(c) PROVE UNCHANGED mapping
    BY <1>1 DEF Call, Create, Presign, Confirm, Save, Process, Remove, Handle, Abort
  <1>2. ASSUME Environment PROVE UNCHANGED mapping
    BY <1>2 DEF Environment, Surroundings, Crash, Tick, Recover, Forget, LoseLock, Throw, EndAttempt, NoEnvVars
  <1>3. ASSUME UNCHANGED vars PROVE UNCHANGED mapping
    BY <1>3 DEF vars
  <1>. QED
    BY <1>1, <1>2, <1>3, SameTable, ServeTable, WorkTable DEF Next, TableInv

(* No step but the replacement by a PUT removes a row the user confirmed   *)
(* or puts a second row for its column beside it: neither a parse that     *)
(* read the table before the user saved, nor one that is repeated.         *)
THEOREM UserMappingSurvives == Spec => UserMappingKept
  <1>1. Init => TableInv
    BY TypeInit DEF TableInv, Init, UniqueColumns
  <1>2. TableInv /\ [Next]_vars => TableInv' /\ [MappingStep]_vars
    BY TableNext, TypeNext DEF TableInv, UniqueColumns
  <1>3. Init /\ [][Next]_vars => [][MappingStep]_vars
    BY <1>1, <1>2, PTL
  <1>. QED
    BY <1>3 DEF Spec, UserMappingKept

=============================================================================
