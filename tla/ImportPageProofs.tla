-------------------------- MODULE ImportPageProofs --------------------------
(***************************************************************************)
(* One tab that creates, uploads, maps and processes an import, for any    *)
(* number of worker slots, files and products, with processors and         *)
(* handlers that throw anywhere: as long as no worker process dies and no  *)
(* execution loses its lock, only one execution at a time rewrites the     *)
(* products, and a READY import has exactly the products of its file,      *)
(* until the user, having missed an answer, asks for the products again.   *)
(***************************************************************************)
EXTENDS ImportPage, ImportPipelineProofs, FiniteSetTheorems

----------------------------------------------------------------------------
(* What has not happened.  spent only grows and nobody takes back a call,  *)
(* so Calm held before a step after which it holds.                        *)
Calm == spent["crash"] = 0 /\ spent["stall"] = 0 /\ ~AskedAgain

----------------------------------------------------------------------------
(* Executions and jobs.                                                    *)

Busy(s) == exec[s].pc # "idle"

Locked(s) == exec[s].lock /\ queue[exec[s].q][exec[s].id].phase = "active"

(* Without crashes and stalls a job is active exactly while one execution  *)
(* holds it, so the stall checker finds nothing.                           *)
Held ==
  /\ \A s \in Slots : Busy(s) => Locked(s)
  /\ \A s, w \in Slots : Busy(s) /\ Busy(w) /\ exec[s].q = exec[w].q /\ exec[s].id = exec[w].id => s = w
  /\ \A n \in QueueName, id \in JobId :
       queue[n][id].phase = "active" => \E s \in Slots : Holder(s, n, id)

(* Which processor a program counter belongs to.                           *)
PcOf(n) ==
  CASE n = "import"    -> {"status", "write", "done"}
    [] n = "normalize" -> {"status", "delete", "create", "validating", "add", "done"}
    [] n = "validate"  -> {"clear", "issues", "mark", "done"}

Processors == \A s \in Slots : Busy(s) => exec[s].pc \in PcOf(exec[s].q)

(* An import has one parse job and one validate job.                       *)
OneId == \A n \in {"import", "validate"}, id \in JobId \ {0} : queue[n][id].phase = "absent"

JobsInv == Held /\ Processors /\ OneId

----------------------------------------------------------------------------
(* The tab, its request and the stage of the import.                       *)

desk == tab[Uploader]
call == req[Uploader]

Alive(n, id) == queue[n][id].phase \in {"waiting", "active"}

(* The file has not been handed to the parse job.                          *)
Early == \/ desk.step \in {"new", "created", "presigning", "put"}
         \/ call.pc \in {"file", "uploaded", "enqueue"}

Quiet ==
  /\ \A s \in Slots : ~Busy(s)
  /\ \A n \in QueueName, id \in JobId : queue[n][id].phase = "absent"
  /\ job.status \in {"NONE", "CREATED", "UPLOADING", "UPLOADED"}

(* The parse job has nothing left to write.                                *)
Parsed ==
  /\ ~Early
  /\ files = {Chosen}
  /\ queue["import"][0].phase # "waiting"
  /\ \A s \in Slots : Busy(s) /\ exec[s].q = "import" => exec[s].pc = "done"

(* Processing has been asked for and not failed for good before it began.  *)
Begun == \/ \E id \in JobId : Alive("normalize", id)
         \/ Alive("validate", 0)
         \/ job.status \in {"PROCESSING", "VALIDATING", "READY"}

(* The normalize job has nothing left to write.                            *)
Normalized ==
  /\ \A id \in JobId : queue["normalize"][id].phase # "waiting"
  /\ \A s \in Slots : Busy(s) /\ exec[s].q = "normalize" => exec[s].pc = "done"

Desk ==
  /\ desk.step \in {"new", "created", "put", "closed", "detail", "saved"} => call.pc = "idle"
  /\ desk.step = "presigning" => call.pc = "uploading"
  /\ desk.step = "confirming" =>
       call.pc \in {"file", "uploaded", "enqueue", "queued"} /\ call.file = Chosen
  /\ desk.step = "saving" => call.pc = "replace"
  /\ desk.step = "processing" => call.pc \in {"start", "normalize"}
  /\ desk.step \in {"new", "created", "presigning", "put", "confirming"} => desk.view = "NONE"
  /\ desk.missed => desk.step \in {"detail", "saving", "saved"}
  /\ call.pc = "normalize" => job.status = "QUEUED"

Stored ==
  /\ files \subseteq {Chosen}
  /\ call.pc \in {"uploaded", "enqueue", "queued"} \/ Alive("import", 0) => files = {Chosen}

Stages ==
  /\ Early => Quiet
  /\ (\/ desk.view = "MAPPING_REQUIRED" \/ desk.step \in {"saving", "saved", "processing"}
      \/ job.status = "MAPPING_REQUIRED" \/ Begun)
       => Parsed
  /\ Begun =>
       /\ call.pc \in {"idle", "replace"}
       /\ job.status \in {"QUEUED", "PROCESSING", "VALIDATING", "READY"}
       /\ desk.missed \/ (desk.step \in {"closed", "detail"} /\ desk.view # "MAPPING_REQUIRED")
  /\ \A i, k \in JobId : Alive("normalize", i) /\ Alive("normalize", k) => i = k
  /\ Alive("validate", 0) \/ job.status = "READY" => Normalized

StageInv == Desk /\ Stored /\ Stages

----------------------------------------------------------------------------
(* The rows.                                                               *)

Source == Catalog[Chosen]

Own(k) == IF k \in Faulty THEN "INVALID" ELSE "READY"

(* What an execution has inserted when it stands before product n + 1.     *)
Inserted(e, n) ==
  {[id |-> [run |-> e.run, key |-> Source[i]], map |-> e.map, status |-> "PROCESSING"]
     : i \in 1 .. n}

Remaining(todo, n) ==
  /\ Len(todo) = Len(Source) - n
  /\ \A i \in 1 .. Len(todo) : todo[i] = Source[i + n]

Current(m) == desk.missed \/ m = mapping

NormalizesIn(s) ==
  Busy(s) /\ exec[s].q = "normalize" /\ exec[s].pc # "done" =>
    /\ exec[s].file = Chosen /\ Current(exec[s].map)
    /\ exec[s].pc = "create" =>
         \E n \in 0 .. Len(Source) : Remaining(exec[s].todo, n) /\ products = Inserted(exec[s], n)
    /\ exec[s].pc \in {"validating", "add"} => products = Inserted(exec[s], Len(Source))

Normalizes == \A s \in Slots : NormalizesIn(s)

Ids(rows) == {r.id : r \in rows}

Whole ==
  /\ {p.id.key : p \in products} = {Source[i] : i \in 1 .. Len(Source)}
  /\ \A p, r \in products : p.id.key = r.id.key => p = r
  /\ \A p \in products : Current(p.map)

Settled == \A p \in products : p.status = Own(p.id.key)

IssuesExact == issues = {i \in Ids(products) : i.key \in Faulty}

ValidatesIn(s) ==
  Busy(s) /\ exec[s].q = "validate" =>
    /\ exec[s].pc \in {"clear", "issues"} => exec[s].seen = products
    /\ exec[s].pc = "issues" => issues = {}
    /\ ~exec[s].broken
    /\ exec[s].pc = "mark" =>
         /\ Ids(exec[s].seen) \subseteq Ids(products)
         /\ \A r \in exec[s].seen : r.status = Own(r.id.key)
         /\ \A p \in products : p.id \in Ids(exec[s].seen) \/ p.status = Own(p.id.key)
    /\ exec[s].pc \in {"mark", "done"} => IssuesExact
    /\ exec[s].pc = "done" => Settled

Validates == \A s \in Slots : ValidatesIn(s)

(* made counts attempts that threw: a validation never has its inserts or  *)
(* updates refused.                                                        *)
Counted ==
  /\ queue["validate"][0].made <= spent["throw"]
  /\ queue["validate"][0].phase = "failed" => spent["throw"] >= Attempts

Judged ==
  /\ Alive("validate", 0) \/ job.status = "READY" => Whole
  /\ job.status = "READY" => Settled
  /\ job.status = "READY" => IssuesExact \/ Alive("validate", 0) \/ spent["throw"] >= Attempts

RowsInv == Normalizes /\ Validates /\ Judged /\ Counted

CalmInv == JobsInv /\ StageInv /\ RowsInv

----------------------------------------------------------------------------
(* Every step of a tab is a step of the pipeline, so the types hold.       *)

LEMMA TabStepIsStep ==
  ASSUME NEW c \in Clients, TabStep(c) \/ ClickProcess(c) \/ Focus(c) \/ TabAbort(c) \/ TabMissed(c)
  PROVE  Call(c) \/ Serve(c) \/ Abort(c) \/ UNCHANGED vars
  <1>1. CASE SubmitConfirm(c)
    BY <1>1, PageAssumption DEF SubmitConfirm, Call
  <1>2. CASE ClickProcess(c)
    BY <1>2 DEF ClickProcess, Edits, Call
  <1>3. CASE TabMissed(c)
    BY <1>3 DEF TabMissed, Serve
  <1>. QED
    BY <1>1, <1>2, <1>3
    DEF TabStep, FetchJob, FetchRows, OpenTab, SubmitCreate, SubmitPresign, SendProcess,
        ProcessIgnored, TabServe, Focus, TabAbort, Call

LEMMA PageStepIsStep ==
  ASSUME [PageNext]_pageVars
  PROVE  [Next]_vars
  BY TabStepIsStep DEF PageNext, Next, pageVars

PageInv == TypeInv /\ tab \in [Clients -> Tab]

LEMMA TabTypes ==
  ASSUME PageInv, NEW c \in Clients
  PROVE  /\ tab[c] \in Tab
         /\ \A t \in Tab : SetTab(c, t) => tab' \in [Clients -> Tab]
         /\ \A from, to \in Step : Move(c, from, to) => tab' \in [Clients -> Tab]
         /\ \A st \in Status : [tab[c] EXCEPT !.view = st] \in Tab
         /\ \A rows \in SUBSET MapRow :
              [tab[c] EXCEPT !.rows = rows, !.fetched = TRUE] \in Tab
         /\ \A st \in Status, rows \in SUBSET MapRow :
              [tab[c] EXCEPT !.view = st, !.rows = rows, !.fetched = TRUE] \in Tab
         /\ \A to \in Step, st \in Status : [tab[c] EXCEPT !.step = to, !.view = st] \in Tab
         /\ \A to \in Step, b \in BOOLEAN : [tab[c] EXCEPT !.step = to, !.again = b] \in Tab
  BY DEF PageInv, SetTab, Move, Tab

LEMMA TabTypeNext ==
  ASSUME PageInv, [PageNext]_pageVars
  PROVE  PageInv'
  <1>1. TypeInv' /\ job'.status \in Status
    BY PageStepIsStep, TypeNext DEF PageInv, TypeInv, TypeOK
  <1>2. job.status \in Status /\ mapping \in SUBSET MapRow
    BY DEF PageInv, TypeInv, TypeOK
  <1>3. ASSUME NEW c \in Clients, TabStep(c) \/ ClickProcess(c) \/ Focus(c) \/ TabAbort(c) \/ TabMissed(c)
        PROVE  tab' \in [Clients -> Tab]
    <2>. USE TabTypes
    <2>1. CASE FetchJob(c) \/ FetchRows(c) \/ Focus(c)
      BY <1>2, <2>1 DEF FetchJob, FetchRows, Focus
    <2>2. CASE OpenTab(c) \/ SubmitCreate(c) \/ SubmitPresign(c) \/ SubmitConfirm(c)
               \/ ClickProcess(c)
      BY <2>2 DEF OpenTab, SubmitCreate, SubmitPresign, SubmitConfirm, ClickProcess, Step
    <2>7. CASE SendProcess(c)
      <3>1. (tab[c].again \/ tab[c].missed) \in BOOLEAN /\ "processing" \in Step
        BY DEF Step
      <3>. QED
        BY <2>7, <3>1 DEF SendProcess
    <2>3. CASE ProcessIgnored(c)
      BY <1>2, <2>3 DEF ProcessIgnored, Step
    <2>4. CASE TabServe(c)
      <3>1. Answered(tab[c]) \in Tab
        <4>1. tab[c] \in Tab /\ \A to \in Step : [tab[c] EXCEPT !.step = to] \in Tab
          BY DEF Tab
        <4>. QED
          BY <1>1, <4>1 DEF Answered, Step
      <3>. QED
        BY <2>4, <3>1 DEF TabServe, PageInv
    <2>5. CASE TabAbort(c)
      <3>. DEFINE to == IF tab[c].step \in {"presigning", "confirming"} THEN "closed" ELSE "detail"
      <3>1. SetTab(c, [tab[c] EXCEPT !.step = to])
        BY <2>5 DEF TabAbort
      <3>2. to \in Step
        BY DEF Step
      <3>. HIDE DEF to
      <3>3. [tab[c] EXCEPT !.step = to] \in Tab
        BY <3>2 DEF Tab
      <3>. QED
        BY <3>1, <3>3
    <2>6. CASE TabMissed(c)
      <3>. DEFINE t == [tab[c] EXCEPT !.step = "detail", !.missed = TRUE]
      <3>1. SetTab(c, t)
        BY <2>6 DEF TabMissed
      <3>2. t \in Tab
        <4>1. \A to \in Step : [tab[c] EXCEPT !.step = to, !.missed = TRUE] \in Tab
          BY DEF Tab
        <4>. QED
          BY <4>1 DEF Step
      <3>. HIDE DEF t
      <3>. QED
        BY <3>1, <3>2
    <2>. QED
      BY <1>3, <2>1, <2>2, <2>3, <2>4, <2>5, <2>6, <2>7 DEF TabStep
  <1>4. ASSUME UNCHANGED tab PROVE tab' \in [Clients -> Tab]
    BY <1>4 DEF PageInv
  <1>. QED
    BY <1>1, <1>3, <1>4 DEF PageInv, PageNext, pageVars

LEMMA PageInvInit ==
  ASSUME PageInit
  PROVE  PageInv
  BY TypeInit DEF PageInit, PageInv, Tab, Blank, Step, Status

(* The pages keep the types of the pipeline and their own, for any number  *)
(* of tabs: whatever a tab fetched and however late an answer comes, it is *)
(* at one of the steps its code has, with a status and rows there are.     *)
THEOREM PageTypeCorrect == PageSpec => []PageTypeOK
  <1>1. PageInit => PageInv
    BY PageInvInit
  <1>2. PageInv /\ [PageNext]_pageVars => PageInv'
    BY TabTypeNext
  <1>3. PageInv => PageTypeOK
    BY DEF PageInv, TypeInv, PageTypeOK
  <1>. QED
    BY <1>1, <1>2, <1>3, PTL DEF PageSpec

(* Whatever users do with any number of tabs is something clients of the   *)
(* API can do: a tab asks for nothing in a state in which the handlers     *)
(* were not modelled, and polling, leaving a page or missing an answer     *)
(* change no row.  So all that holds of the pipeline holds behind the      *)
(* pages, for one, that the rows a user confirmed stay.                    *)
THEOREM PageImplementsPipeline == PageSpec => Spec
  <1>1. PageInit => Init
    BY DEF PageInit
  <1>2. [PageNext]_pageVars => [Next]_vars
    BY PageStepIsStep
  <1>. QED
    BY <1>1, <1>2, PTL DEF PageSpec, Spec

(* Behind the pages products are built from a mapping, those of one        *)
(* execution from one mapping, and no parse takes away what a user         *)
(* confirmed in any of the tabs.                                           *)
THEOREM PagesKeepMappings == PageSpec => [](MappedProducts /\ OneMappingPerRun) /\ UserMappingKept
  BY PageImplementsPipeline, ProductsAreMapped, RunsAreUniform, UserMappingSurvives, PTL

----------------------------------------------------------------------------
(* What a step does to the slots and the queues.                           *)

Phase(n, id) == queue[n][id].phase

Others(s) == \A w \in Slots \ {s} : exec'[w] = exec[w]

(* A slot takes a waiting job.                                             *)
Takes(s) ==
  \E n \in QueueName, id \in JobId :
    /\ ~Busy(s) /\ Busy(s)' /\ Others(s)
    /\ exec'[s].q = n /\ exec'[s].id = id /\ exec'[s].lock /\ exec'[s].pc \in PcOf(n)
    /\ Phase(n, id) = "waiting"
    /\ queue' = [queue EXCEPT ![n] = Take(queue[n], id)]

(* The execution in s goes on; the last step of normalization adds the     *)
(* validate job.                                                           *)
Goes(s) ==
  /\ Busy(s) /\ exec[s].pc # "done" /\ Others(s)
  /\ exec'[s].q = exec[s].q /\ exec'[s].id = exec[s].id /\ exec'[s].lock = exec[s].lock
  /\ exec'[s].pc \in PcOf(exec[s].q)
  /\ \/ UNCHANGED queue /\ exec[s].pc # "add"
     \/ /\ exec[s].q = "normalize" /\ exec[s].pc = "add" /\ exec'[s].pc = "done"
        /\ queue' = [queue EXCEPT !["validate"] = Add(queue["validate"], 0)]

(* It ends; only a validation can still throw when nothing else is left.   *)
Ends(s) ==
  /\ Busy(s) /\ exec'[s] = Idle /\ Others(s)
  /\ \/ queue' = [queue EXCEPT ![exec[s].q] = Complete(queue[exec[s].q], exec[s].id)]
     \/ /\ queue' = [queue EXCEPT ![exec[s].q] = Fail(queue[exec[s].q], exec[s].id)]
        /\ exec[s].pc = "done" => exec[s].q = "validate"

LEMMA ExecFields ==
  ASSUME TypeInv, NEW s \in Slots
  PROVE  /\ exec[s] \in Exec /\ exec[s].pc \in ExecPc
         /\ exec[s].q \in QueueName /\ exec[s].id \in JobId
         /\ exec[s].todo \in Seq(Keys) /\ exec[s].seen \in SUBSET Row
         /\ exec[s].map \in SUBSET MapRow /\ exec[s].run \in Nat
  BY DEF TypeInv, TypeOK, Exec

LEMMA StartTakes ==
  ASSUME TypeInv, NEW s \in Slots, NEW n \in QueueName, NEW id \in JobId, NEW pc \in PcOf(n),
         NEW f, NEW m, NEW r, NEW rows, Start(s, n, id, pc, f, m, r, rows)
  PROVE  Takes(s)
  <1>1. pc # "idle"
    BY DEF PcOf, QueueName
  <1>. QED
    BY <1>1 DEF Start, SetExec, OnQueue, Takes, Busy, Others, Phase, TypeInv, TypeOK

LEMMA StartsTake ==
  ASSUME TypeInv, NEW s \in Slots, StartParse(s) \/ StartNormalize(s) \/ StartValidate(s)
  PROVE  Takes(s)
  <1>. USE StartTakes DEF QueueName, PcOf
  <1>1. CASE StartParse(s)
    BY <1>1 DEF StartParse, StartUnneeded
  <1>2. CASE StartNormalize(s)
    BY <1>2 DEF StartNormalize, StartUnneeded
  <1>3. CASE StartValidate(s)
    BY <1>3 DEF StartValidate
  <1>. QED
    BY <1>1, <1>2, <1>3

LEMMA AdvanceGoes ==
  ASSUME TypeInv, NEW s \in Slots, NEW pc \in ExecPc, Advance(s, pc), Busy(s), exec[s].pc \notin {"add", "done"},
         pc \in PcOf(exec[s].q), UNCHANGED queue
  PROVE  Goes(s)
  <1>1. exec'[s].lock = exec[s].lock /\ exec'[s].id = exec[s].id
    BY DEF Advance, SetExec, TypeInv, TypeOK, Exec
  <1>. QED
    BY <1>1, AdvanceStep DEF TypeInv, Goes, Others

LEMMA MiddleGoes ==
  ASSUME TypeInv, Processors, NEW s \in Slots,
         \/ FileMissing(s) \/ ParseStatus(s) \/ ParseWrite(s)
         \/ NormalizeStatus(s) \/ NormalizeDelete(s) \/ NormalizeCreate(s)
         \/ NormalizeUsage(s) \/ NormalizeValidating(s) \/ NormalizeEnqueue(s)
         \/ ValidateClear(s) \/ ValidateIssues(s) \/ ValidateMark(s) \/ ValidateReady(s)
  PROVE  Goes(s)
  <1>. USE AdvanceGoes DEF At, Busy, PcOf, ExecPc
  <1>1. CASE FileMissing(s)
    BY <1>1, ExecFields DEF FileMissing, Processors, QueueName
  <1>2. CASE ParseStatus(s)
    BY <1>2 DEF ParseStatus
  <1>3. CASE ParseWrite(s)
    BY <1>3 DEF ParseWrite
  <1>4. CASE NormalizeStatus(s)
    BY <1>4 DEF NormalizeStatus
  <1>5. CASE NormalizeUsage(s)
    BY <1>5 DEF NormalizeUsage
  <1>6. CASE NormalizeValidating(s)
    BY <1>6 DEF NormalizeValidating
  <1>7. CASE ValidateClear(s)
    BY <1>7 DEF ValidateClear
  <1>8. CASE ValidateReady(s)
    BY <1>8 DEF ValidateReady
  <1>9. CASE NormalizeDelete(s)
    BY <1>9 DEF NormalizeDelete, SetExec, TypeInv, TypeOK, Exec, Goes, Others
  <1>10. CASE NormalizeCreate(s)
    BY <1>10 DEF NormalizeCreate, SetExec, TypeInv, TypeOK, Exec, Goes, Others
  <1>11. CASE NormalizeEnqueue(s)
    BY <1>11 DEF NormalizeEnqueue, Advance, SetExec, OnQueue, TypeInv, TypeOK, Exec, Goes, Others
  <1>12. CASE ValidateIssues(s)
    BY <1>12 DEF ValidateIssues, SetExec, TypeInv, TypeOK, Exec, Goes, Others
  <1>13. CASE ValidateMark(s)
    <2>1. PICK r \in exec[s].seen :
            SetExec(s, [exec[s] EXCEPT !.seen = @ \ {r},
                                     !.broken = @ \/ \A p \in products : p.id # r.id])
      BY <1>13 DEF ValidateMark
    <2>. QED
      BY <1>13, <2>1 DEF ValidateMark, SetExec, TypeInv, TypeOK, Exec, Goes, Others
  <1>. QED
    BY <1>1, <1>2, <1>3, <1>4, <1>5, <1>6, <1>7, <1>8, <1>9, <1>10, <1>11, <1>12, <1>13

LEMMA FinishEnds ==
  ASSUME TypeInv, Held, NEW s \in Slots, Finish(s) \/ Reject(s) \/ Throw(s)
  PROVE  Ends(s)
  <1>1. Busy(s) /\ exec[s].lock
    BY DEF Finish, Reject, Refused, Throw, At, Busy, Held, Locked
  <1>2. SetExec(s, Idle) => exec'[s] = Idle /\ Others(s)
    BY DEF SetExec, Others, TypeInv, TypeOK
  <1>3. CASE Finish(s)
    BY <1>1, <1>2, <1>3 DEF Finish, Ends, OnQueue
  <1>4. CASE Reject(s)
    BY <1>1, <1>2, <1>4 DEF Reject, Refused, EndAttempt, Ends, OnQueue, At
  <1>5. CASE Throw(s)
    <2>1. SetExec(s, Idle) /\ OnQueue(exec[s].q, Fail(queue[exec[s].q], exec[s].id))
      BY <1>1, <1>5 DEF Throw, EndAttempt
    <2>2. exec[s].pc = "done" => exec[s].q = "validate"
      BY <1>5 DEF Throw, At
    <2>. QED
      BY <1>1, <1>2, <2>1, <2>2 DEF Ends, OnQueue
  <1>. QED
    BY <1>3, <1>4, <1>5

(* Every step of a worker slot is one of the three.                        *)
LEMMA SlotStep ==
  ASSUME TypeInv, JobsInv, NEW s \in Slots, Work(s) \/ Throw(s)
  PROVE  Takes(s) \/ Goes(s) \/ Ends(s)
  BY StartsTake, MiddleGoes, FinishEnds DEF JobsInv, Work

----------------------------------------------------------------------------
(* Jobs and executions match after every step.                             *)

LEMMA QueuePhases ==
  ASSUME NEW q \in [JobId -> JobState], NEW id \in JobId
  PROVE  /\ \A i \in JobId \ {id} : /\ Take(q, id)[i] = q[i] /\ Complete(q, id)[i] = q[i]
                                    /\ Fail(q, id)[i] = q[i] /\ Add(q, id)[i] = q[i]
                                    /\ Evict(q, id)[i] = q[i]
         /\ Take(q, id)[id].phase = "active"
         /\ Complete(q, id)[id].phase = "completed"
         /\ Fail(q, id)[id].phase \in {"waiting", "failed"}
         /\ Add(q, id)[id].phase = IF q[id].phase = "absent" THEN "waiting" ELSE q[id].phase
         /\ Evict(q, id)[id].phase = "absent"
  BY DEF Take, Complete, Fail, Add, Evict, JobState, NoJob

LEMMA QueuesTyped ==
  ASSUME TypeInv
  PROVE  \A n \in QueueName : queue[n] \in [JobId -> JobState]
  BY DEF TypeInv, TypeOK

LEMMA TakesJobs ==
  ASSUME TypeInv, JobsInv, NEW s \in Slots, Takes(s)
  PROVE  JobsInv'
  <1>1. PICK n \in QueueName, id \in JobId :
          /\ ~Busy(s) /\ Busy(s)' /\ Others(s)
          /\ exec'[s].q = n /\ exec'[s].id = id /\ exec'[s].lock /\ exec'[s].pc \in PcOf(n)
          /\ Phase(n, id) = "waiting"
          /\ queue' = [queue EXCEPT ![n] = Take(queue[n], id)]
    BY DEF Takes
  <1>2. /\ Phase(n, id)' = "active"
        /\ \A m \in QueueName, i \in JobId : m # n \/ i # id => Phase(m, i)' = Phase(m, i)
    BY <1>1, QueuesTyped, QueuePhases DEF TypeInv, TypeOK, Phase
  <1>3. \A w \in Slots : exec[w].q \in QueueName /\ exec[w].id \in JobId
    BY ExecFields
  <1>4. Held'
    <2>0. Locked(s)'
      BY <1>1, <1>2 DEF Locked, Phase
    <2>2. \A w \in Slots \ {s} : Busy(w)' => exec'[w].q # n \/ exec'[w].id # id
      BY <1>1 DEF JobsInv, Held, Locked, Busy, Others, Phase
    <2>1. \A w \in Slots : Busy(w)' => Locked(w)'
      BY <1>1, <1>2, <1>3, <2>0, <2>2 DEF JobsInv, Held, Locked, Busy, Others, Phase
    <2>3. \A v, w \in Slots : Busy(v)' /\ Busy(w)' /\ exec'[v].q = exec'[w].q /\ exec'[v].id = exec'[w].id => v = w
      BY <1>1, <2>2 DEF JobsInv, Held, Busy, Others
    <2>4. ASSUME NEW m \in QueueName, NEW i \in JobId, Phase(m, i)' = "active"
          PROVE  \E w \in Slots : Holder(w, m, i)'
      <3>1. CASE m = n /\ i = id
        BY <1>1, <3>1 DEF Holder, Busy
      <3>2. CASE m # n \/ i # id
        <4>1. PICK w \in Slots : Holder(w, m, i)
          BY <1>2, <2>4, <3>2 DEF JobsInv, Held, Phase
        <4>2. w # s
          BY <1>1, <4>1 DEF Holder, Busy
        <4>. QED
          BY <1>1, <4>1, <4>2 DEF Holder, Others
      <3>. QED
        BY <3>1, <3>2
    <2>. QED
      BY <2>1, <2>3, <2>4 DEF Held, Phase
  <1>5. Processors'
    BY <1>1 DEF JobsInv, Processors, Busy, Others, PcOf
  <1>6. OneId'
    BY <1>1, <1>2 DEF JobsInv, OneId, Phase, QueueName
  <1>. QED
    BY <1>4, <1>5, <1>6 DEF JobsInv

(* The same executions hold the same jobs.                                 *)
LEMMA HeldKept ==
  ASSUME TypeInv, Held,
         \A s \in Slots : /\ Busy(s)' <=> Busy(s)
                          /\ exec'[s].q = exec[s].q /\ exec'[s].id = exec[s].id
                          /\ exec'[s].lock = exec[s].lock,
         \A n \in QueueName, id \in JobId : Phase(n, id)' = "active" <=> Phase(n, id) = "active"
  PROVE  Held'
  <1>1. \A w \in Slots : exec[w].q \in QueueName /\ exec[w].id \in JobId
    BY ExecFields
  <1>2. \A w \in Slots : Busy(w)' => Locked(w)'
    BY <1>1 DEF Held, Locked, Phase
  <1>3. \A v, w \in Slots : Busy(v)' /\ Busy(w)' /\ exec'[v].q = exec'[w].q /\ exec'[v].id = exec'[w].id => v = w
    BY DEF Held
  <1>4. \A n \in QueueName, id \in JobId : Phase(n, id)' = "active" => \E s \in Slots : Holder(s, n, id)'
    BY DEF Held, Holder, Busy, Phase
  <1>. QED
    BY <1>2, <1>3, <1>4 DEF Held, Phase

(* An add makes an absent job wait and leaves every other job alone.       *)
LEMMA AddPhases ==
  ASSUME TypeInv, NEW n \in QueueName, NEW id \in JobId,
         queue' = [queue EXCEPT ![n] = Add(queue[n], id)]
  PROVE  \A m \in QueueName, i \in JobId :
           \/ Phase(m, i)' = Phase(m, i)
           \/ m = n /\ i = id /\ Phase(m, i) = "absent" /\ Phase(m, i)' = "waiting"
  <1>1. queue[n] \in [JobId -> JobState] /\ n \in DOMAIN queue
    BY QueuesTyped DEF TypeInv, TypeOK
  <1>2. queue'[n] = Add(queue[n], id) /\ \A m \in QueueName \ {n} : queue'[m] = queue[m]
    BY DEF TypeInv, TypeOK
  <1>3. /\ \A i \in JobId \ {id} : Add(queue[n], id)[i] = queue[n][i]
        /\ Add(queue[n], id)[id].phase
             = IF queue[n][id].phase = "absent" THEN "waiting" ELSE queue[n][id].phase
    BY <1>1, QueuePhases
  <1>. QED
    BY <1>2, <1>3 DEF Phase

LEMMA GoesJobs ==
  ASSUME TypeInv, JobsInv, NEW s \in Slots, Goes(s)
  PROVE  JobsInv'
  <1>1. \A n \in QueueName, id \in JobId :
          \/ Phase(n, id)' = Phase(n, id)
          \/ n = "validate" /\ id = 0 /\ Phase(n, id) = "absent" /\ Phase(n, id)' = "waiting"
    <2>1. UNCHANGED queue \/ queue' = [queue EXCEPT !["validate"] = Add(queue["validate"], 0)]
      BY DEF Goes
    <2>2. CASE UNCHANGED queue
      BY <2>2 DEF Phase
    <2>3. CASE queue' = [queue EXCEPT !["validate"] = Add(queue["validate"], 0)]
      BY <2>3, AddPhases, IdsType DEF QueueName
    <2>. QED
      BY <2>1, <2>2, <2>3
  <1>2. exec'[s].pc # "idle"
    BY ExecFields DEF Goes, PcOf, QueueName
  <1>3. Held'
    BY <1>1, <1>2, HeldKept DEF JobsInv, Goes, Busy, Others
  <1>4. Processors'
    BY DEF JobsInv, Processors, Goes, Busy, Others
  <1>5. OneId'
    BY <1>1, IdsType DEF JobsInv, OneId, Phase, QueueName
  <1>. QED
    BY <1>3, <1>4, <1>5 DEF JobsInv

LEMMA EndsJobs ==
  ASSUME TypeInv, JobsInv, NEW s \in Slots, Ends(s)
  PROVE  JobsInv'
  <1>0. PICK n \in QueueName, id \in JobId : n = exec[s].q /\ id = exec[s].id
    BY ExecFields
  <1>1. /\ Phase(n, id) = "active" /\ Busy(s) /\ Others(s) /\ ~Busy(s)'
        /\ \/ queue' = [queue EXCEPT ![n] = Complete(queue[n], id)]
           \/ queue' = [queue EXCEPT ![n] = Fail(queue[n], id)]
    BY <1>0, IdleType DEF JobsInv, Held, Locked, Phase, Ends, Busy
  <1>2. /\ Phase(n, id)' # "active"
        /\ \A m \in QueueName, i \in JobId : m # n \/ i # id => Phase(m, i)' = Phase(m, i)
    <2>1. CASE queue' = [queue EXCEPT ![n] = Complete(queue[n], id)]
      BY <2>1, QueuesTyped, QueuePhases DEF TypeInv, TypeOK, Phase
    <2>2. CASE queue' = [queue EXCEPT ![n] = Fail(queue[n], id)]
      <3>1. /\ queue'[n] = Fail(queue[n], id)
            /\ \A m \in QueueName : m # n => queue'[m] = queue[m]
        BY <2>2 DEF TypeInv, TypeOK
      <3>2. /\ Fail(queue[n], id)[id].phase # "active"
            /\ \A i \in JobId : i # id => Fail(queue[n], id)[i] = queue[n][i]
        BY QueuesTyped, QueuePhases
      <3>. QED
        BY <3>1, <3>2 DEF Phase
    <2>. QED
      BY <1>1, <2>1, <2>2
  <1>3. \A w \in Slots : exec[w].q \in QueueName /\ exec[w].id \in JobId
    BY ExecFields
  <1>4. Held'
    <2>1. \A w \in Slots \ {s} : Busy(w) => exec[w].q # n \/ exec[w].id # id
      BY <1>0, <1>1 DEF JobsInv, Held
    <2>2. \A w \in Slots : Busy(w)' => Locked(w)'
      BY <1>1, <1>2, <1>3, <2>1 DEF JobsInv, Held, Locked, Busy, Others, Phase
    <2>3. \A v, w \in Slots : Busy(v)' /\ Busy(w)' /\ exec'[v].q = exec'[w].q /\ exec'[v].id = exec'[w].id => v = w
      BY <1>1 DEF JobsInv, Held, Busy, Others
    <2>4. ASSUME NEW m \in QueueName, NEW i \in JobId, Phase(m, i)' = "active"
          PROVE  \E w \in Slots : Holder(w, m, i)'
      <3>1. m # n \/ i # id
        BY <1>2, <2>4
      <3>2. PICK w \in Slots : Holder(w, m, i)
        BY <1>2, <2>4, <3>1 DEF JobsInv, Held, Phase
      <3>3. w # s
        BY <1>0, <3>1, <3>2 DEF Holder
      <3>. QED
        BY <1>1, <3>2, <3>3 DEF Holder, Others
    <2>. QED
      BY <2>2, <2>3, <2>4 DEF Held, Phase
  <1>5. Processors'
    BY <1>1 DEF JobsInv, Processors, Busy, Others
  <1>6. OneId'
    BY <1>1, <1>2 DEF JobsInv, OneId, Phase, QueueName
  <1>. QED
    BY <1>4, <1>5, <1>6 DEF JobsInv

(* A request adds jobs at most: the parse job under its one id, or a       *)
(* normalize job under the time of the call.                               *)
LEMMA RequestQueues ==
  ASSUME TypeInv, NEW c \in Clients, Call(c) \/ Serve(c) \/ Abort(c)
  PROVE  /\ UNCHANGED exec
         /\ \/ UNCHANGED queue
            \/ /\ ConfirmEnqueue(c)
               /\ queue' = [queue EXCEPT !["import"] = Add(queue["import"], 0)]
            \/ /\ ProcessEnqueue(c)
               /\ queue' = [queue EXCEPT !["normalize"] = Add(queue["normalize"], clock)]
  BY DEF Call, Create, Presign, Process, Remove, Confirm, Save, Handle, Serve, PresignUpdate,
         ConfirmCreate, ConfirmUploaded, ConfirmEnqueue, ConfirmQueued, SaveReplace,
         ProcessStart, ProcessEnqueue, RemoveUpdate, Abort, NoRequestVars, OnQueue

LEMMA RequestJobs ==
  ASSUME TypeInv, JobsInv, NEW c \in Clients, Call(c) \/ Serve(c) \/ Abort(c)
  PROVE  JobsInv'
  <1>1. clock \in JobId
    BY IdsType DEF TypeInv, TypeOK
  <1>2. \A n \in QueueName, id \in JobId :
          \/ Phase(n, id)' = Phase(n, id)
          \/ /\ Phase(n, id) = "absent" /\ Phase(n, id)' = "waiting"
             /\ n \in {"import", "validate"} => id = 0
    <2>1. \/ UNCHANGED queue
          \/ queue' = [queue EXCEPT !["import"] = Add(queue["import"], 0)]
          \/ queue' = [queue EXCEPT !["normalize"] = Add(queue["normalize"], clock)]
      BY RequestQueues
    <2>2. CASE UNCHANGED queue
      BY <2>2 DEF Phase
    <2>3. CASE queue' = [queue EXCEPT !["import"] = Add(queue["import"], 0)]
      BY <2>3, AddPhases, IdsType DEF QueueName
    <2>4. CASE queue' = [queue EXCEPT !["normalize"] = Add(queue["normalize"], clock)]
      BY <2>4, <1>1, AddPhases DEF QueueName
    <2>. QED
      BY <2>1, <2>2, <2>3, <2>4
  <1>3. UNCHANGED exec
    BY RequestQueues
  <1>4. Held'
    BY <1>2, <1>3, HeldKept DEF JobsInv, Busy
  <1>5. Processors' /\ OneId'
    BY <1>2, <1>3 DEF JobsInv, Processors, OneId, Phase, QueueName, Busy
  <1>. QED
    BY <1>4, <1>5 DEF JobsInv

LEMMA SpentGrows ==
  ASSUME TypeInv, [Next]_vars
  PROVE  \A e \in Event : spent'[e] \in Nat /\ spent[e] \in Nat /\ spent'[e] >= spent[e]
  <1>1. spent \in [Event -> Nat]
    BY DEF TypeInv, TypeOK
  <1>2. (\E v \in Event : Spend(v)) \/ UNCHANGED spent
    BY DEF Next, vars, Event, Call, Create, Presign, Process, Remove, Confirm, Save, Handle, Begin, Serve,
       PresignUpdate, ConfirmCreate, ConfirmUploaded, ConfirmEnqueue, ConfirmQueued, SaveReplace,
       ProcessStart, ProcessEnqueue, RemoveUpdate, Abort, Work, StartParse, StartNormalize, StartValidate,
       NoStartVars, FileMissing, ParseStatus, ParseWrite, NormalizeStatus, NormalizeDelete,
       NormalizeCreate, NormalizeUsage, NormalizeValidating, NormalizeEnqueue, ValidateClear,
       ValidateIssues, ValidateMark, ValidateReady, NoExecVars, Finish, Reject, Environment,
       Surroundings, Crash, Tick, Recover, LoseLock, Forget, Throw
  <1>. QED
    BY <1>1, <1>2 DEF Spend

(* Of the environment only throws, evictions and the clock are left.       *)
LEMMA CalmEnvironment ==
  ASSUME TypeInv, Held, Environment, Calm'
  PROVE  \/ Tick
         \/ \E n \in QueueName, id \in JobId : Forget(n, id)
         \/ \E s \in Slots : Throw(s)
  <1>1. ~Crash /\ \A s \in Slots : ~LoseLock(s)
    BY DEF Crash, LoseLock, Spend, Calm, TypeInv, TypeOK, Event
  <1>2. \A n \in QueueName, id \in JobId : ~Recover(n, id)
    BY DEF Recover, Held
  <1>. QED
    BY <1>1, <1>2 DEF Environment, Surroundings

LEMMA ForgetPhases ==
  ASSUME TypeInv, NEW n \in QueueName, NEW id \in JobId, Forget(n, id)
  PROVE  /\ Phase(n, id) \in {"completed", "failed"} /\ Phase(n, id)' = "absent"
         /\ \A m \in QueueName, i \in JobId : m # n \/ i # id => queue'[m][i] = queue[m][i]
  <1>1. queue' = [queue EXCEPT ![n] = Evict(queue[n], id)] /\ Phase(n, id) \in {"completed", "failed"}
    BY DEF Forget, OnQueue, Retained, Phase
  <1>. QED
    BY <1>1, QueuesTyped, QueuePhases DEF TypeInv, TypeOK, Phase

LEMMA QuietEnvironmentJobs ==
  ASSUME TypeInv, JobsInv, Tick \/ \E n \in QueueName, id \in JobId : Forget(n, id)
  PROVE  JobsInv'
  <1>1. UNCHANGED exec
    BY DEF Tick, Forget
  <1>2. \A n \in QueueName, id \in JobId :
          Phase(n, id)' = Phase(n, id) \/ (Phase(n, id)' = "absent" /\ Phase(n, id) # "active")
    BY ForgetPhases DEF Tick, Phase
  <1>3. Held'
    BY <1>1, <1>2, HeldKept DEF JobsInv, Busy
  <1>. QED
    BY <1>1, <1>2, <1>3 DEF JobsInv, Processors, OneId, Phase, QueueName, Busy

LEMMA JobsNext ==
  ASSUME TypeInv, JobsInv, [Next]_vars, Calm'
  PROVE  JobsInv'
  <1>1. ASSUME NEW s \in Slots, Work(s) \/ Throw(s) PROVE JobsInv'
    BY <1>1, SlotStep, TakesJobs, GoesJobs, EndsJobs
  <1>2. CASE Environment
    BY <1>1, <1>2, CalmEnvironment, QuietEnvironmentJobs DEF JobsInv
  <1>3. CASE UNCHANGED vars
    BY <1>3 DEF vars, JobsInv, Held, Locked, Holder, Processors, OneId, Busy
  <1>. QED
    BY <1>1, <1>2, <1>3, RequestJobs DEF Next

----------------------------------------------------------------------------
(* The stages: steps of the worker.                                        *)

(* What is waiting or busy after a slot's step, and what it was before.    *)
LEMMA SlotPhases ==
  ASSUME TypeInv, JobsInv, NEW s \in Slots, Takes(s) \/ Goes(s) \/ Ends(s)
  PROVE  /\ \A n \in QueueName, id \in JobId : Phase(n, id)' = "waiting" =>
              \/ Phase(n, id) = "waiting"
              \/ Busy(s) /\ exec[s].q = n /\ exec[s].id = id /\ (exec[s].pc # "done" \/ n = "validate")
              \/ n = "validate" /\ id = 0 /\ At(s, "normalize", "add")
         /\ \A n \in QueueName, id \in JobId : Alive(n, id)' =>
              Alive(n, id) \/ (n = "validate" /\ id = 0 /\ At(s, "normalize", "add") /\ Goes(s))
         /\ \A w \in Slots : Busy(w)' /\ exec'[w].pc # "done" =>
              \/ Busy(w) /\ exec[w].pc # "done" /\ exec'[w].q = exec[w].q
              \/ \E id \in JobId : Phase(exec'[w].q, id) = "waiting"
  <1>1. CASE Takes(s)
    <2>1. PICK n \in QueueName, id \in JobId :
            /\ Others(s) /\ exec'[s].q = n /\ Phase(n, id) = "waiting"
            /\ queue' = [queue EXCEPT ![n] = Take(queue[n], id)]
      BY <1>1 DEF Takes
    <2>2. /\ Phase(n, id)' = "active"
          /\ \A m \in QueueName, i \in JobId : m # n \/ i # id => Phase(m, i)' = Phase(m, i)
      BY <2>1, QueuesTyped, QueuePhases DEF TypeInv, TypeOK, Phase
    <2>. QED
      BY <2>1, <2>2 DEF Others, Busy, Alive, Phase
  <1>2. CASE Goes(s)
    <2>1. \A n \in QueueName, id \in JobId :
            Phase(n, id)' = Phase(n, id) \/ (n = "validate" /\ id = 0 /\ At(s, "normalize", "add"))
      <3>1. \/ UNCHANGED queue
            \/ /\ At(s, "normalize", "add")
               /\ queue' = [queue EXCEPT !["validate"] = Add(queue["validate"], 0)]
        BY <1>2 DEF Goes, At
      <3>2. ASSUME queue' = [queue EXCEPT !["validate"] = Add(queue["validate"], 0)]
            PROVE  \A n \in QueueName, id \in JobId : n # "validate" \/ id # 0 => Phase(n, id)' = Phase(n, id)
        BY <3>2, QueuesTyped, QueuePhases, IdsType DEF TypeInv, TypeOK, Phase, QueueName
      <3>. QED
        BY <3>1, <3>2 DEF Phase
    <2>. QED
      BY <1>2, <2>1 DEF Goes, Others, Busy, Alive, Phase
  <1>3. CASE Ends(s)
    <2>0. PICK n \in QueueName, id \in JobId : n = exec[s].q /\ id = exec[s].id
      BY ExecFields
    <2>1. /\ Phase(n, id) = "active" /\ Busy(s) /\ Others(s) /\ ~Busy(s)'
          /\ \/ queue' = [queue EXCEPT ![n] = Complete(queue[n], id)]
             \/ /\ queue' = [queue EXCEPT ![n] = Fail(queue[n], id)]
                /\ exec[s].pc = "done" => n = "validate"
      BY <1>3, <2>0, IdleType DEF JobsInv, Held, Locked, Phase, Ends, Busy
    <2>2. /\ \A m \in QueueName, i \in JobId : m # n \/ i # id => Phase(m, i)' = Phase(m, i)
          /\ Phase(n, id)' = "waiting" => exec[s].pc # "done" \/ n = "validate"
      <3>1. CASE queue' = [queue EXCEPT ![n] = Complete(queue[n], id)]
        BY <3>1, QueuesTyped, QueuePhases DEF TypeInv, TypeOK, Phase
      <3>2. CASE /\ queue' = [queue EXCEPT ![n] = Fail(queue[n], id)]
                 /\ exec[s].pc = "done" => n = "validate"
        <4>1. /\ queue'[n] = Fail(queue[n], id)
              /\ \A m \in QueueName : m # n => queue'[m] = queue[m]
          BY <3>2 DEF TypeInv, TypeOK
        <4>2. \A i \in JobId : i # id => Fail(queue[n], id)[i] = queue[n][i]
          BY QueuesTyped, QueuePhases
        <4>. QED
          BY <3>2, <4>1, <4>2 DEF Phase
      <3>. QED
        BY <2>1, <3>1, <3>2
    <2>. QED
      BY <2>0, <2>1, <2>2 DEF Others, Busy, Alive, Phase
  <1>. QED
    BY <1>1, <1>2, <1>3

(* A slot that works or throws leaves the tabs alone, and the import is    *)
(* past the upload.                                                        *)
LEMMA SlotFrame ==
  ASSUME TypeInv, JobsInv, NEW s \in Slots, Work(s) \/ Throw(s)
  PROVE  /\ UNCHANGED <<files, req, clock>>
         /\ Busy(s) \/ \E n \in QueueName, id \in JobId : Phase(n, id) = "waiting"
  <1>1. UNCHANGED <<files, req, clock>>
    BY DEF Work, Throw, StartParse, StartNormalize, StartValidate, NoStartVars, FileMissing,
       ParseStatus, ParseWrite, NormalizeStatus, NormalizeDelete, NormalizeCreate, NormalizeUsage,
       NormalizeValidating, NormalizeEnqueue, ValidateClear, ValidateIssues, ValidateMark,
       ValidateReady, NoExecVars, Finish, Reject, EndAttempt
  <1>2. Busy(s) \/ \E n \in QueueName, id \in JobId : Phase(n, id) = "waiting"
    BY SlotStep DEF Takes, Goes, Ends
  <1>. QED
    BY <1>1, <1>2

(* What an execution does to the status of the import.                     *)
LEMMA SlotStatus ==
  ASSUME TypeInv, JobsInv, Normalizes, NEW s \in Slots, Work(s) \/ Throw(s)
  PROVE  \/ UNCHANGED job
         \/ /\ Busy(s) /\ exec[s].q = "import" /\ exec[s].pc # "done" /\ Goes(s)
            /\ \/ job'.status \in {"PARSING", "FAILED"}
               \/ job'.status = "MAPPING_REQUIRED" /\ exec'[s].pc = "done" /\ UNCHANGED queue
         \/ /\ Busy(s) /\ exec[s].q = "normalize" /\ exec[s].pc # "done"
            /\ job'.status \in {"PROCESSING", "VALIDATING"}
         \/ Busy(s) /\ exec[s].q = "validate" /\ job'.status = "READY"
  <1>. USE DEF At, Busy
  <1>1. ASSUME NEW st, SetStatus(st) PROVE job'.status = st
    BY <1>1 DEF SetStatus, TypeInv, TypeOK
  <1>2. CASE FileMissing(s)
    <2>1. exec[s].q = "import"
      BY <1>2, ExecFields, PageAssumption, PipelineAssumption
      DEF FileMissing, JobsInv, Processors, Normalizes, NormalizesIn, PcOf, QueueName
    <2>. QED
      BY <1>1, <1>2, <2>1, MiddleGoes DEF FileMissing, JobsInv
  <1>3. CASE ParseStatus(s)
    BY <1>1, <1>3, MiddleGoes DEF ParseStatus, JobsInv
  <1>4. CASE ParseWrite(s)
    BY <1>1, <1>4, MiddleGoes, AdvanceStep DEF ParseWrite, JobsInv, TypeInv, ExecPc
  <1>5. CASE NormalizeStatus(s) \/ NormalizeValidating(s)
    BY <1>1, <1>5 DEF NormalizeStatus, NormalizeValidating
  <1>6. CASE ValidateReady(s)
    BY <1>1, <1>6 DEF ValidateReady
  <1>7. CASE ~FileMissing(s) /\ ~ParseStatus(s) /\ ~ParseWrite(s) /\ ~NormalizeStatus(s)
             /\ ~NormalizeValidating(s) /\ ~ValidateReady(s)
    BY <1>7 DEF Work, Throw, StartParse, StartNormalize, StartValidate, NoStartVars, NormalizeDelete,
       NormalizeCreate, NormalizeUsage, NormalizeEnqueue, ValidateClear, ValidateIssues,
       ValidateMark, Finish, Reject, EndAttempt
  <1>. QED
    BY <1>2, <1>3, <1>4, <1>5, <1>6, <1>7

(* The job of a busy slot is alive; parsing and validation have one.       *)
LEMMA BusyAlive ==
  ASSUME TypeInv, JobsInv, NEW s \in Slots, Busy(s)
  PROVE  /\ Alive(exec[s].q, exec[s].id) /\ Phase(exec[s].q, exec[s].id) = "active"
         /\ exec[s].q \in {"import", "validate"} => exec[s].id = 0
  BY ExecFields DEF JobsInv, Held, Locked, OneId, Alive, Phase

LEMMA StageWork ==
  ASSUME PageInv, JobsInv, StageInv, Normalizes, NEW s \in Slots, Work(s) \/ Throw(s), UNCHANGED tab
  PROVE  StageInv'
  <1>0. TypeInv /\ desk \in Tab
    BY PageAssumption DEF PageInv, desk
  <1>. USE <1>0
  <1>1. UNCHANGED <<files, call, desk>>
    BY SlotFrame DEF call, desk
  <1>2. ~Early /\ ~Early'
    BY <1>1, SlotFrame DEF Early, StageInv, Stages, Quiet, Phase, Busy
  <1>3. Takes(s) \/ Goes(s) \/ Ends(s)
    BY SlotStep
  <1>4. At(s, "normalize", "add") => Begun
    BY BusyAlive, ExecFields DEF At, Begun, Busy
  <1>5. ASSUME Begun' PROVE Begun /\ (UNCHANGED job \/ job'.status \in {"PROCESSING", "VALIDATING", "READY"})
    <2>1. Begun \/ job'.status \in {"PROCESSING", "VALIDATING", "READY"}
      BY <1>3, <1>4, <1>5, SlotPhases, IdsType DEF Begun, QueueName
    <2>2. Begun
      BY <2>1, SlotStatus, BusyAlive, ExecFields DEF Begun
    <2>3. ~(Busy(s) /\ exec[s].q = "import" /\ exec[s].pc # "done")
      <3>1. Parsed
        BY <2>2 DEF StageInv, Stages
      <3>. QED
        BY <3>1 DEF Parsed
    <2>. QED
      BY <2>2, <2>3, SlotStatus
  <1>6. Parsed => Parsed'
    <2>1. Parsed => Phase("import", 0)' # "waiting"
      BY <1>3, SlotPhases, IdsType DEF Parsed, Phase, QueueName
    <2>2. Parsed => \A w \in Slots : Busy(w)' /\ exec'[w].q = "import" => exec'[w].pc = "done"
      <3>1. Parsed => \A id \in JobId : Phase("import", id) # "waiting"
        BY DEF Parsed, JobsInv, OneId, Phase
      <3>. QED
        BY <1>3, <3>1, SlotPhases DEF Parsed
    <2>. QED
      BY <1>1, <1>2, <2>1, <2>2 DEF Parsed, Phase
  <1>7. Normalized => Normalized'
    BY <1>3, SlotPhases DEF Normalized, Phase, QueueName
  <1>8. Desk'
    <2>1. ASSUME call.pc = "normalize" PROVE UNCHANGED job
      <3>1. desk.step = "processing"
        BY <2>1 DEF StageInv, Desk, Tab, Step
      <3>2. Parsed /\ ~Begun
        BY <2>1, <3>1 DEF StageInv, Stages
      <3>. QED
        BY <3>2, SlotStatus, BusyAlive, ExecFields DEF Parsed, Begun
    <2>. QED
      BY <1>1, <2>1 DEF StageInv, Desk
  <1>9. Stored'
    BY <1>1, <1>3, SlotPhases, IdsType DEF StageInv, Stored, QueueName
  <1>10. job'.status = "MAPPING_REQUIRED" => Parsed'
    <2>1. CASE UNCHANGED job
      <3>1. job'.status = job.status
        BY <2>1
      <3>2. job.status = "MAPPING_REQUIRED" => Parsed
        BY DEF StageInv, Stages
      <3>. QED
        BY <1>6, <3>1, <3>2
    <2>2. CASE /\ Busy(s) /\ exec[s].q = "import" /\ exec[s].pc # "done" /\ Goes(s)
               /\ exec'[s].pc = "done" /\ UNCHANGED queue
      <3>1. Alive("import", 0) /\ exec[s].id = 0 /\ Phase("import", 0)' # "waiting"
        BY <2>2, BusyAlive DEF Phase
      <3>2. files' = {Chosen}
        BY <1>1, <3>1 DEF StageInv, Stored
      <3>3. \A w \in Slots \ {s} : Busy(w) => exec[w].q # "import"
        BY <2>2, <3>1, BusyAlive DEF JobsInv, Held
      <3>. QED
        BY <1>2, <2>2, <3>1, <3>2, <3>3 DEF Parsed, Phase, Goes, Others, Busy
    <2>. QED
      BY <2>1, <2>2, SlotStatus
  <1>11. \A i, k \in JobId : Alive("normalize", i)' /\ Alive("normalize", k)' => i = k
    BY <1>3, SlotPhases DEF StageInv, Stages, QueueName
  <1>12. Alive("validate", 0)' \/ job'.status = "READY" => Normalized'
    <2>1. CASE At(s, "normalize", "add") /\ Goes(s)
      <3>1. \A id \in JobId : Phase("normalize", id) # "waiting"
        BY <2>1, BusyAlive, ExecFields DEF StageInv, Stages, At, Busy, Alive, Phase
      <3>2. \A w \in Slots \ {s} : Busy(w) => exec[w].q # "normalize"
        BY <2>1, BusyAlive, ExecFields DEF StageInv, Stages, JobsInv, Held, At, Busy
      <3>3. \A id \in JobId : Phase("normalize", id)' # "waiting"
        <4>1. queue'["normalize"] = queue["normalize"]
          BY <2>1 DEF Goes, TypeInv, TypeOK, QueueName
        <4>. QED
          BY <3>1, <4>1 DEF Phase
      <3>4. exec'[s].pc = "done"
        BY <2>1 DEF Goes, At
      <3>. QED
        BY <2>1, <3>2, <3>3, <3>4 DEF Normalized, Goes, Others, Busy, Phase
    <2>2. CASE ~(At(s, "normalize", "add") /\ Goes(s))
      <3>1. Alive("validate", 0)' => Alive("validate", 0)
        BY <1>3, <2>2, SlotPhases, IdsType DEF QueueName
      <3>2. job'.status = "READY" => job.status = "READY" \/ Alive("validate", 0)
        BY SlotStatus, BusyAlive
      <3>. QED
        BY <1>7, <3>1, <3>2 DEF StageInv, Stages
    <2>. QED
      BY <2>1, <2>2
  <1>. QED
    BY <1>1, <1>2, <1>5, <1>6, <1>8, <1>9, <1>10, <1>11, <1>12 DEF StageInv, Stages

----------------------------------------------------------------------------
(* The stages: steps of the one tab.                                       *)

OneTab == Clients = {Uploader}

(* Nothing happened but in the tab and its request.                        *)
LEMMA SameWork ==
  ASSUME UNCHANGED <<exec, queue, files>>, job'.status = job.status
  PROVE  /\ Quiet' <=> Quiet
         /\ Begun' <=> Begun
         /\ Normalized' <=> Normalized
         /\ Alive("import", 0)' <=> Alive("import", 0)
         /\ Alive("validate", 0)' <=> Alive("validate", 0)
         /\ \A id \in JobId : Alive("normalize", id)' <=> Alive("normalize", id)
         /\ Parsed /\ ~Early' => Parsed'
  BY DEF Quiet, Begun, Normalized, Alive, Parsed, Busy

LEMMA DeskTypes ==
  ASSUME PageInv
  PROVE  /\ desk \in Tab /\ call \in Req
         /\ \A t : SetTab(Uploader, t) => desk' = t
         /\ \A from, to : Move(Uploader, from, to) => desk.step = from /\ desk' = [desk EXCEPT !.step = to]
         /\ Respond(Uploader) => call' = NoReq
         /\ \A pc : Goto(Uploader, pc) => call' = [call EXCEPT !.pc = pc]
         /\ \A pc, f, m : Handle(Uploader, pc, f, m) =>
              /\ call.pc = "idle" /\ call' = [pc |-> pc, file |-> f, map |-> m]
              /\ UNCHANGED <<job, files, mapping, products, issues, queue, exec>>
         /\ \A st : SetStatus(st) => job'.status = st
  BY PageAssumption DEF PageInv, TypeInv, TypeOK, desk, call, SetTab, Move, Respond, Goto, Handle, Begin,
     SetStatus, NoRequestVars

(* What the steps of a tab make of it, and which fields they keep.         *)
Looked(t, v, rows) == [t EXCEPT !.view = v, !.rows = rows, !.fetched = TRUE]

Got(t, rows) == [t EXCEPT !.rows = rows, !.fetched = TRUE]

Moved(t, to) == [t EXCEPT !.step = to]

Shown(t, to, v) == [t EXCEPT !.step = to, !.view = v]

Unanswered(t) == [t EXCEPT !.step = "detail", !.missed = TRUE]

Resent(t) == [t EXCEPT !.step = "processing", !.again = @ \/ t.missed]

LEMMA LookFields ==
  ASSUME NEW t \in Tab, NEW v, NEW rows
  PROVE  /\ Looked(t, v, rows).step = t.step /\ Looked(t, v, rows).view = v
         /\ Looked(t, v, rows).missed = t.missed /\ Looked(t, v, rows).again = t.again
         /\ Got(t, rows).step = t.step /\ Got(t, rows).view = t.view
         /\ Got(t, rows).missed = t.missed /\ Got(t, rows).again = t.again
  <1>1. Looked(t, v, rows).step = t.step /\ Looked(t, v, rows).view = v
    BY DEF Tab, Looked
  <1>2. Looked(t, v, rows).missed = t.missed /\ Looked(t, v, rows).again = t.again
    BY DEF Tab, Looked
  <1>3. Got(t, rows).step = t.step /\ Got(t, rows).view = t.view
    BY DEF Tab, Got
  <1>4. Got(t, rows).missed = t.missed /\ Got(t, rows).again = t.again
    BY DEF Tab, Got
  <1>. QED
    BY <1>1, <1>2, <1>3, <1>4

LEMMA AnswerFields ==
  ASSUME NEW t \in Tab, NEW to, NEW v
  PROVE  /\ Moved(t, to).missed = t.missed /\ Moved(t, to).again = t.again
         /\ Shown(t, to, v).missed = t.missed /\ Shown(t, to, v).again = t.again
         /\ Unanswered(t).missed /\ Unanswered(t).again = t.again
         /\ Resent(t).missed = t.missed /\ Resent(t).again = (t.again \/ t.missed)
  <1>1. Moved(t, to).missed = t.missed /\ Moved(t, to).again = t.again
    BY DEF Tab, Moved
  <1>2. Shown(t, to, v).missed = t.missed /\ Shown(t, to, v).again = t.again
    BY DEF Tab, Shown
  <1>3. Unanswered(t).missed /\ Unanswered(t).again = t.again
    BY DEF Tab, Unanswered
  <1>4. Resent(t).missed = t.missed /\ Resent(t).again = (t.again \/ t.missed)
    BY DEF Tab, Resent
  <1>. QED
    BY <1>1, <1>2, <1>3, <1>4

(* The tab looks, or is shown the status without a call.                   *)
LEMMA LookStep ==
  ASSUME PageInv, OneTab, NEW c \in Clients,
         FetchJob(c) \/ FetchRows(c) \/ Focus(c) \/ OpenTab(c) \/ ProcessIgnored(c)
  PROVE  /\ UNCHANGED <<exec, queue, files, job, call>>
         /\ desk.step \in {"detail", "closed", "saved"} /\ desk'.step = "detail"
         /\ desk'.view \in {desk.view, job.status} /\ desk'.missed = desk.missed
         /\ desk'.again = desk.again
         /\ desk.step = "saved" => desk'.view \in {"PROCESSING", "VALIDATING"}
  <1>1. c = Uploader
    BY DEF OneTab
  <1>2. UNCHANGED <<exec, queue, files, job, call>>
    BY DEF FetchJob, FetchRows, Focus, OpenTab, ProcessIgnored, vars, call
  <1>3. /\ desk.step \in {"detail", "closed", "saved"} /\ desk'.step = "detail"
        /\ desk'.view \in {desk.view, job.status} /\ desk'.missed = desk.missed
        /\ desk'.again = desk.again
        /\ desk.step = "saved" => desk'.view \in {"PROCESSING", "VALIDATING"}
    <2>1. CASE FetchJob(c)
      BY <1>1, <2>1, DeskTypes DEF FetchJob, desk, Tab
    <2>2. CASE OpenTab(c)
      BY <1>1, <2>2, DeskTypes DEF OpenTab, Tab
    <2>3. CASE ProcessIgnored(c)
      BY <1>1, <2>3, DeskTypes DEF ProcessIgnored, desk, Tab
    <2>4. CASE FetchRows(c)
      <3>1. desk' = Got(desk, mapping) /\ desk.step = "detail" /\ desk \in Tab
        BY <1>1, <2>4, DeskTypes DEF FetchRows, desk, Got
      <3>. QED
        BY <3>1, LookFields
    <2>5. CASE Focus(c)
      <3>1. desk' = Looked(desk, job.status, mapping) /\ desk.step = "detail" /\ desk \in Tab
        BY <1>1, <2>5, DeskTypes DEF Focus, desk, Looked
      <3>. QED
        BY <3>1, LookFields
    <2>. QED
      BY <2>1, <2>2, <2>3, <2>4, <2>5
  <1>. QED
    BY <1>2, <1>3

LEMMA StageLook ==
  ASSUME PageInv, StageInv, OneTab, NEW c \in Clients,
         FetchJob(c) \/ FetchRows(c) \/ Focus(c) \/ OpenTab(c) \/ ProcessIgnored(c)
  PROVE  StageInv'
  <1>1. UNCHANGED <<exec, queue, files, job, call>>
    BY LookStep
  <1>2. /\ desk.step \in {"detail", "closed", "saved"} /\ desk'.step = "detail"
        /\ desk'.view \in {desk.view, job.status} /\ desk'.missed = desk.missed
        /\ desk.step = "saved" => desk'.view \in {"PROCESSING", "VALIDATING"}
    BY LookStep
  <1>4. Early' <=> Early
    BY <1>1, <1>2 DEF Early
  <1>5. Desk' /\ Stored'
    BY <1>1, <1>2, SameWork DEF StageInv, Desk, Stored
  <1>6. desk'.view = "MAPPING_REQUIRED" \/ job.status = "MAPPING_REQUIRED" \/ Begun => Parsed /\ ~Early
    BY <1>2 DEF StageInv, Stages, Parsed
  <1>7. Begun => desk.missed \/ desk'.view # "MAPPING_REQUIRED"
    BY <1>2 DEF StageInv, Stages
  <1>. QED
    BY <1>1, <1>2, <1>4, <1>5, <1>6, <1>7, SameWork DEF StageInv, Stages

(* The tab sends a call.                                                   *)
LEMMA StageSend ==
  ASSUME PageInv, StageInv, OneTab, ~AskedAgain', NEW c \in Clients,
         SubmitCreate(c) \/ SubmitPresign(c) \/ SubmitConfirm(c) \/ ClickProcess(c) \/ SendProcess(c)
  PROVE  StageInv'
  <1>1. c = Uploader
    BY DEF OneTab
  <1>2. CASE SubmitCreate(c)
    <2>1. /\ desk.step = "new" /\ desk' = [desk EXCEPT !.step = "created"] /\ call' = NoReq
          /\ job'.status = "CREATED" /\ UNCHANGED <<files, exec, queue>>
      BY <1>1, <1>2, DeskTypes
      DEF SubmitCreate, Create, Begin, call, PageInv, TypeInv, TypeOK, NoRequestVars
    <2>2. /\ desk'.step = "created" /\ desk'.view = "NONE" /\ ~desk'.missed /\ call'.pc = "idle"
      BY <2>1, NoReqType, DeskTypes DEF StageInv, Desk, Tab
    <2>3. Quiet' /\ Early' /\ Desk'
      BY <2>1, <2>2 DEF StageInv, Stages, Early, Quiet, Busy, Desk
    <2>4. /\ ~Begun' /\ ~Alive("import", 0)' /\ ~Alive("validate", 0)'
          /\ \A id \in JobId : ~Alive("normalize", id)'
      BY <2>1, <2>3, IdsType DEF Begun, Alive, Quiet, QueueName
    <2>. QED
      BY <2>1, <2>2, <2>3, <2>4 DEF StageInv, Stored, Stages
  <1>3. CASE SubmitPresign(c)
    <2>1. /\ desk.step = "created" /\ desk' = [desk EXCEPT !.step = "presigning"]
          /\ call'.pc = "uploading" /\ UNCHANGED <<files, exec, queue, job>>
      BY <1>1, <1>3, DeskTypes DEF SubmitPresign, Presign
    <2>2. desk'.step = "presigning" /\ desk'.view = "NONE" /\ ~desk'.missed /\ Early /\ Early'
      BY <2>1, DeskTypes DEF StageInv, Desk, Tab, Early
    <2>3. Desk' /\ Stored'
      BY <2>1, <2>2, SameWork DEF StageInv, Desk, Stored
    <2>4. Quiet /\ ~Begun
      BY <2>2 DEF StageInv, Stages, Parsed
    <2>. QED
      BY <2>1, <2>2, <2>3, <2>4, SameWork DEF StageInv, Stages, Quiet
  <1>4. CASE SubmitConfirm(c)
    <2>1. /\ desk.step = "put" /\ desk' = [desk EXCEPT !.step = "confirming"]
          /\ call'.pc = "file" /\ call'.file = Chosen /\ UNCHANGED <<files, exec, queue, job>>
      BY <1>1, <1>4, DeskTypes DEF SubmitConfirm, Confirm
    <2>2. desk'.step = "confirming" /\ desk'.view = "NONE" /\ ~desk'.missed /\ Early /\ Early'
      BY <2>1, DeskTypes DEF StageInv, Desk, Tab, Early
    <2>3. Desk' /\ Stored'
      BY <2>1, <2>2, SameWork DEF StageInv, Desk, Stored
    <2>4. Quiet /\ ~Begun
      BY <2>2 DEF StageInv, Stages, Parsed
    <2>. QED
      BY <2>1, <2>2, <2>3, <2>4, SameWork DEF StageInv, Stages, Quiet
  <1>5. CASE ClickProcess(c)
    <2>1. /\ desk.step = "detail" /\ desk.view = "MAPPING_REQUIRED"
          /\ desk' = [desk EXCEPT !.step = "saving"]
          /\ call'.pc = "replace" /\ UNCHANGED <<files, exec, queue, job>>
      BY <1>1, <1>5, DeskTypes DEF ClickProcess, WizardShown, Save, desk
    <2>2. /\ desk'.step = "saving" /\ desk'.view = desk.view /\ desk'.missed = desk.missed
          /\ Parsed /\ ~Early /\ ~Early'
      BY <2>1, DeskTypes DEF StageInv, Desk, Stages, Parsed, Tab, Early
    <2>3. Desk' /\ Stored'
      BY <2>1, <2>2, SameWork DEF StageInv, Desk, Stored
    <2>. QED
      BY <2>1, <2>2, <2>3, SameWork DEF StageInv, Stages
  <1>6. CASE SendProcess(c)
    <2>1. /\ desk.step = "saved"
          /\ desk' = [desk EXCEPT !.step = "processing", !.again = @ \/ desk.missed]
          /\ call'.pc = "start" /\ UNCHANGED <<files, exec, queue, job>>
      BY <1>1, <1>6, DeskTypes DEF SendProcess, Process, desk
    <2>5. ~desk'.again
      BY <1>1 DEF AskedAgain, desk
    <2>6. /\ desk'.step = "processing" /\ desk'.view = desk.view /\ desk'.missed = desk.missed
          /\ desk'.again = (desk.again \/ desk.missed)
      BY <2>1, DeskTypes DEF Tab
    <2>2. desk'.step = "processing" /\ desk'.view = desk.view /\ ~desk'.missed /\ Parsed /\ ~Begun
      BY <2>1, <2>5, <2>6 DEF StageInv, Stages
    <2>3. ~Early'
      BY <2>1, <2>2 DEF Early
    <2>4. Desk' /\ Stored'
      BY <2>1, <2>2, SameWork DEF StageInv, Desk, Stored
    <2>. QED
      BY <2>1, <2>2, <2>3, <2>4, SameWork DEF StageInv, Stages
  <1>. QED
    BY <1>2, <1>3, <1>4, <1>5, <1>6

(* A call of the tab fails.                                                *)
LEMMA StageAbort ==
  ASSUME PageInv, StageInv, OneTab, NEW c \in Clients, TabAbort(c)
  PROVE  StageInv'
  <1>1. c = Uploader
    BY DEF OneTab
  <1>2. /\ call.pc # "idle" /\ call'.pc = "idle" /\ UNCHANGED <<files, exec, queue, job>>
        /\ desk' = [desk EXCEPT !.step = IF @ \in {"presigning", "confirming"} THEN "closed" ELSE "detail"]
    BY <1>1, DeskTypes, NoReqType DEF TabAbort, Abort, desk, call, NoRequestVars
  <1>3. /\ desk'.step \in {"closed", "detail"} /\ desk'.view = desk.view /\ desk'.missed = desk.missed
        /\ desk.step \in {"presigning", "confirming"} <=> desk'.step = "closed"
    BY <1>2, DeskTypes DEF Tab
  <1>4. ~Early'
    BY <1>2, <1>3 DEF Early
  <1>5. Desk' /\ Stored'
    BY <1>2, <1>3, SameWork DEF StageInv, Desk, Stored
  <1>6. Begun => desk.missed \/ desk.view # "MAPPING_REQUIRED"
    BY DEF StageInv, Stages
  <1>. QED
    BY <1>2, <1>3, <1>4, <1>5, <1>6, SameWork DEF StageInv, Stages

(* The call of the tab is served; its answer comes, or is missed.          *)
LEMMA AnswerTypes ==
  ASSUME PageInv, TabServe(Uploader)
  PROVE  IF call'.pc = "idle" THEN desk' = Answered(desk) ELSE desk' = desk
  BY DeskTypes DEF TabServe, desk, call

LEMMA StageServe ==
  ASSUME PageInv, JobsInv, StageInv, OneTab, TabServe(Uploader) \/ TabMissed(Uploader)
  PROVE  StageInv'
  <1>1. Uploader \in Clients /\ desk \in Tab /\ call \in Req /\ NoReq.pc = "idle" /\ TypeInv
    BY DeskTypes, NoReqType, PageAssumption DEF PageInv
  <1>2. CASE PresignUpdate(Uploader) /\ TabServe(Uploader)
    <2>1. /\ call.pc = "uploading" /\ call' = NoReq /\ job'.status = "UPLOADING"
          /\ UNCHANGED <<files, exec, queue>>
      BY <1>1, <1>2, DeskTypes DEF PresignUpdate, call, NoRequestVars
    <2>2. desk.step = "presigning" /\ desk' = [desk EXCEPT !.step = "put"]
      <3>1. desk.step = "presigning" /\ call'.pc = "idle"
        BY <1>1, <2>1 DEF StageInv, Desk, Tab, Step
      <3>. QED
        BY <1>1, <1>2, <3>1, AnswerTypes DEF Answered
    <2>3. /\ desk'.step = "put" /\ desk'.view = "NONE" /\ ~desk'.missed /\ call'.pc = "idle" /\ Quiet
      BY <1>1, <2>1, <2>2 DEF StageInv, Stages, Early, Desk, Tab
    <2>4. Quiet' /\ Early' /\ Desk'
      BY <2>1, <2>3 DEF Early, Quiet, Busy, Desk
    <2>5. /\ ~Begun' /\ ~Alive("import", 0)' /\ ~Alive("validate", 0)'
          /\ \A id \in JobId : ~Alive("normalize", id)'
      BY <2>1, <2>4, IdsType DEF Begun, Alive, Quiet, QueueName
    <2>. QED
      BY <2>1, <2>3, <2>4, <2>5 DEF StageInv, Stored, Stages
  <1>3. CASE ConfirmCreate(Uploader) /\ TabServe(Uploader)
    <2>1. /\ call.pc = "file" /\ call' = [call EXCEPT !.pc = "uploaded"] /\ files' = files \cup {call.file}
          /\ UNCHANGED <<job, exec, queue>>
      BY <1>1, <1>3, DeskTypes DEF ConfirmCreate, call, NoRequestVars
    <2>2. call'.pc = "uploaded" /\ call'.file = call.file /\ desk' = desk
      BY <1>1, <1>3, <2>1, AnswerTypes DEF Answered, Req
    <2>3. desk.step = "confirming" /\ call.file = Chosen /\ desk.view = "NONE" /\ Quiet
      BY <1>1, <2>1 DEF StageInv, Desk, Tab, Step, Stages, Early
    <2>4. files' = {Chosen} /\ Desk' /\ Early' /\ Quiet'
      BY <2>1, <2>2, <2>3 DEF StageInv, Stored, Desk, Early, Quiet, Busy
    <2>5. /\ ~Begun' /\ ~Alive("import", 0)' /\ ~Alive("validate", 0)'
          /\ \A id \in JobId : ~Alive("normalize", id)'
      BY <2>4, IdsType DEF Begun, Alive, Quiet, QueueName
    <2>. QED
      BY <2>2, <2>3, <2>4, <2>5 DEF StageInv, Stored, Stages, Quiet
  <1>4. CASE ConfirmUploaded(Uploader) /\ TabServe(Uploader)
    <2>1. /\ call.pc = "uploaded" /\ job'.status = "UPLOADED" /\ UNCHANGED <<files, exec, queue>>
          /\ IF Type[call.file] = "CATALOG" THEN call' = [call EXCEPT !.pc = "enqueue"] ELSE call' = NoReq
      BY <1>1, <1>4, DeskTypes DEF ConfirmUploaded, call, NoRequestVars
    <2>2. desk.step = "confirming" /\ call.file = Chosen /\ desk.view = "NONE" /\ Quiet
      BY <1>1, <2>1 DEF StageInv, Desk, Tab, Step, Stages, Early
    <2>3. call'.pc = "enqueue" /\ call'.file = call.file /\ desk' = desk
      BY <1>1, <1>4, <2>1, <2>2, AnswerTypes, PageAssumption DEF Answered, Req
    <2>4. files' = {Chosen} /\ Desk' /\ Early' /\ Quiet'
      BY <2>1, <2>2, <2>3 DEF StageInv, Stored, Desk, Early, Quiet, Busy
    <2>5. /\ ~Begun' /\ ~Alive("import", 0)' /\ ~Alive("validate", 0)'
          /\ \A id \in JobId : ~Alive("normalize", id)'
      BY <2>4, IdsType DEF Begun, Alive, Quiet, QueueName
    <2>. QED
      BY <2>1, <2>2, <2>3, <2>4, <2>5 DEF StageInv, Stored, Stages
  <1>5. CASE ConfirmEnqueue(Uploader) /\ TabServe(Uploader)
    <2>1. /\ call.pc = "enqueue" /\ call' = [call EXCEPT !.pc = "queued"] /\ UNCHANGED <<job, files, exec>>
          /\ queue' = [queue EXCEPT !["import"] = Add(queue["import"], 0)]
      BY <1>1, <1>5, DeskTypes DEF ConfirmEnqueue, OnQueue, call, NoRequestVars
    <2>2. desk.step = "confirming" /\ call.file = Chosen /\ desk.view = "NONE" /\ Quiet /\ ~desk.missed
      BY <1>1, <2>1 DEF StageInv, Desk, Tab, Step, Stages, Early
    <2>3. call'.pc = "queued" /\ call'.file = call.file /\ desk' = desk
      BY <1>1, <1>5, <2>1, AnswerTypes DEF Answered, Req
    <2>4. files' = {Chosen} /\ Desk' /\ ~Early'
      BY <2>1, <2>2, <2>3 DEF StageInv, Stored, Desk, Early
    <2>5. /\ ~Alive("validate", 0)' /\ \A id \in JobId : ~Alive("normalize", id)'
      <3>1. queue'["validate"] = queue["validate"] /\ queue'["normalize"] = queue["normalize"]
        BY <2>1 DEF PageInv, TypeInv, TypeOK, QueueName
      <3>. QED
        BY <2>2, <3>1, IdsType DEF Alive, Quiet, QueueName
    <2>6. ~Begun' /\ job'.status \notin {"READY", "MAPPING_REQUIRED"}
      BY <2>1, <2>2, <2>5 DEF Begun, Quiet
    <2>. QED
      BY <2>2, <2>3, <2>4, <2>5, <2>6 DEF StageInv, Stored, Stages
  <1>6. CASE ConfirmQueued(Uploader) /\ TabServe(Uploader)
    <2>1. /\ call.pc = "queued" /\ call' = NoReq /\ job'.status = "QUEUED" /\ UNCHANGED <<files, exec, queue>>
      BY <1>1, <1>6, DeskTypes DEF ConfirmQueued, call, NoRequestVars
    <2>2. desk.step = "confirming" /\ desk.view = "NONE" /\ desk' = [desk EXCEPT !.step = "detail"]
      <3>1. desk.step = "confirming" /\ desk.view = "NONE" /\ call'.pc = "idle"
        BY <1>1, <2>1 DEF StageInv, Desk, Tab, Step
      <3>. QED
        BY <1>1, <1>6, <3>1, AnswerTypes DEF Answered
    <2>3. /\ desk'.step = "detail" /\ desk'.view = "NONE" /\ call'.pc = "idle"
          /\ ~Early' /\ ~Begun /\ desk'.missed = desk.missed
      BY <1>1, <2>1, <2>2 DEF Tab, StageInv, Desk, Stages, Early
    <2>4. Desk' /\ Stored' /\ ~Begun'
      BY <2>1, <2>3 DEF StageInv, Stored, Desk, Begun, Alive
    <2>5. /\ Alive("validate", 0)' <=> Alive("validate", 0)
          /\ \A id \in JobId : Alive("normalize", id)' <=> Alive("normalize", id)
      BY <2>1 DEF Alive
    <2>. QED
      BY <2>1, <2>3, <2>4, <2>5 DEF StageInv, Stages, Begun
  <1>7. CASE SaveReplace(Uploader) /\ TabServe(Uploader)
    <2>1. /\ call.pc = "replace" /\ call' = NoReq /\ UNCHANGED <<job, files, exec, queue>>
      BY <1>1, <1>7, DeskTypes DEF SaveReplace, call, NoRequestVars
    <2>2. desk.step = "saving" /\ desk' = [desk EXCEPT !.step = "saved"]
      <3>1. desk.step = "saving" /\ call'.pc = "idle"
        BY <1>1, <2>1 DEF StageInv, Desk, Tab, Step
      <3>. QED
        BY <1>1, <1>7, <3>1, AnswerTypes DEF Answered
    <2>3. /\ desk'.step = "saved" /\ desk'.view = desk.view /\ call'.pc = "idle"
          /\ ~Early' /\ Parsed /\ desk'.missed = desk.missed
      BY <1>1, <2>1, <2>2 DEF Tab, StageInv, Desk, Stages, Early
    <2>4. Desk' /\ Stored'
      BY <2>1, <2>3, SameWork DEF StageInv, Stored, Desk
    <2>5. Begun => desk.missed
      BY <2>2 DEF StageInv, Stages
    <2>. QED
      BY <2>1, <2>3, <2>4, <2>5, SameWork DEF StageInv, Stages
  <1>8. CASE ProcessStart(Uploader) /\ TabServe(Uploader)
    <2>1. /\ call.pc = "start" /\ call' = [call EXCEPT !.pc = "normalize"] /\ job'.status = "QUEUED"
          /\ UNCHANGED <<files, exec, queue>>
      BY <1>1, <1>8, DeskTypes DEF ProcessStart, call, NoRequestVars
    <2>2. call'.pc = "normalize" /\ desk' = desk
      BY <1>1, <1>8, <2>1, AnswerTypes DEF Answered, Req
    <2>3. desk.step = "processing" /\ Parsed /\ ~Begun
      BY <1>1, <2>1 DEF StageInv, Desk, Tab, Step, Stages
    <2>4. ~Early' /\ Desk' /\ Stored' /\ ~Begun' /\ Parsed'
      BY <2>1, <2>2, <2>3 DEF StageInv, Early, Desk, Stored, Begun, Alive, Parsed, Busy
    <2>5. /\ Alive("validate", 0)' <=> Alive("validate", 0)
          /\ \A id \in JobId : Alive("normalize", id)' <=> Alive("normalize", id)
      BY <2>1 DEF Alive
    <2>. QED
      BY <2>1, <2>4, <2>5 DEF StageInv, Stages, Begun
  <1>9. CASE ProcessEnqueue(Uploader)
    <2>1. /\ call.pc = "normalize" /\ call' = NoReq /\ UNCHANGED <<job, files, exec>>
          /\ queue' = [queue EXCEPT !["normalize"] = Add(queue["normalize"], clock)]
      BY <1>1, <1>9, DeskTypes DEF ProcessEnqueue, OnQueue, call, NoRequestVars
    <2>2. desk.step = "processing" /\ Parsed /\ ~Begun /\ job.status = "QUEUED" /\ ~desk.missed
      BY <1>1, <2>1 DEF StageInv, Desk, Tab, Step, Stages
    <2>3. desk'.step = "detail" /\ (desk'.missed \/ desk'.view = "QUEUED")
      <3>1. CASE TabServe(Uploader)
        <4>1. call'.pc = "idle" /\ job'.status = "QUEUED"
          BY <1>1, <2>1, <2>2
        <4>2. desk' = [desk EXCEPT !.step = "detail", !.view = job'.status]
          BY <1>1, <2>2, <3>1, <4>1, AnswerTypes DEF Answered
        <4>. QED
          BY <1>1, <4>1, <4>2 DEF Tab
      <3>2. CASE TabMissed(Uploader)
        BY <1>1, <3>2, DeskTypes DEF TabMissed, desk, Tab
      <3>. QED
        BY <3>1, <3>2
    <2>4. call'.pc = "idle" /\ ~Early' /\ Desk'
      BY <1>1, <2>1, <2>2, <2>3 DEF Early, Desk
    <2>5. /\ Alive("import", 0)' <=> Alive("import", 0)
          /\ Phase("import", 0)' = Phase("import", 0)
          /\ Alive("validate", 0)' <=> Alive("validate", 0)
          /\ \A id \in JobId : Alive("normalize", id)' => id = clock
      <3>1. /\ queue'["import"] = queue["import"] /\ queue'["validate"] = queue["validate"]
            /\ queue'["normalize"] = Add(queue["normalize"], clock)
        BY <2>1 DEF PageInv, TypeInv, TypeOK, QueueName
      <3>2. clock \in JobId
        BY <1>1, IdsType DEF TypeInv, TypeOK
      <3>3. \A id \in JobId : ~Alive("normalize", id)
        BY <2>2 DEF Begun
      <3>. QED
        BY <1>1, <3>1, <3>2, <3>3, QueuesTyped, QueuePhases DEF Alive, Phase, QueueName
    <2>6. Stored' /\ Parsed'
      BY <2>1, <2>2, <2>4, <2>5 DEF StageInv, Stored, Parsed, Busy, Phase
    <2>7. ~Alive("validate", 0)' /\ job'.status = "QUEUED"
      BY <2>1, <2>2, <2>5 DEF Begun
    <2>. QED
      BY <1>1, <2>1, <2>3, <2>4, <2>5, <2>6, <2>7 DEF StageInv, Stages
  <1>10. ~RemoveUpdate(Uploader)
    BY <1>1 DEF RemoveUpdate, StageInv, Desk, Tab, Step, call
  <1>. QED
    BY <1>2, <1>3, <1>4, <1>5, <1>6, <1>7, <1>8, <1>9, <1>10 DEF TabServe, TabMissed, Serve

LEMMA StageNext ==
  ASSUME PageInv, JobsInv, StageInv, Normalizes, OneTab, [PageNext]_pageVars, Calm'
  PROVE  StageInv'
  <1>0. TypeInv
    BY DEF PageInv
  <1>1. ASSUME NEW s \in Slots, Work(s) \/ Throw(s), UNCHANGED tab PROVE StageInv'
    BY <1>1, StageWork
  <1>2. CASE Environment /\ UNCHANGED tab
    <2>1. ASSUME Tick \/ \E n \in QueueName, id \in JobId : Forget(n, id)
          PROVE  StageInv'
      <3>1. UNCHANGED <<exec, files, job, call, desk>>
        BY <1>2, <2>1 DEF Tick, Forget, NoEnvVars, call, desk
      <3>2. \A n \in QueueName, id \in JobId :
              \/ Phase(n, id)' = Phase(n, id)
              \/ Phase(n, id)' = "absent" /\ Phase(n, id) \in {"completed", "failed"}
        BY <1>0, <2>1, ForgetPhases DEF Tick, Phase
      <3>3. /\ Early' <=> Early
            /\ Quiet => Quiet'
            /\ Begun' <=> Begun
            /\ Parsed => Parsed'
            /\ Normalized => Normalized'
        BY <3>1, <3>2, IdsType DEF Early, Quiet, Begun, Parsed, Normalized, Alive, Phase, Busy, QueueName
      <3>4. \A n \in QueueName, id \in JobId : Alive(n, id)' <=> Alive(n, id)
        BY <3>2 DEF Alive, Phase
      <3>. QED
        BY <3>1, <3>3, <3>4, IdsType DEF StageInv, Desk, Stored, Stages, QueueName
    <2>. QED
      BY <1>0, <1>1, <1>2, <2>1, CalmEnvironment DEF JobsInv
  <1>3. CASE UNCHANGED pageVars
    BY <1>3 DEF pageVars, vars, StageInv, Desk, Stored, Stages, Early, Quiet, Begun, Parsed, Normalized,
       Alive, Busy, desk, call
  <1>4. ASSUME NEW c \in Clients, TabServe(c) \/ TabMissed(c) PROVE StageInv'
    <2>1. TabServe(Uploader) \/ TabMissed(Uploader)
      BY <1>4 DEF OneTab
    <2>. QED
      BY <2>1, StageServe
  <1>5. ~AskedAgain'
    BY DEF Calm
  <1>. QED
    BY <1>1, <1>2, <1>3, <1>4, <1>5, StageLook, StageSend, StageAbort DEF PageNext, TabStep

----------------------------------------------------------------------------
(* One execution at a time rewrites the products.                          *)

LEMMA OneWriter ==
  ASSUME TypeInv, JobsInv, StageInv, NEW s \in Slots, Busy(s)
  PROVE  /\ exec[s].q = "normalize" /\ exec[s].pc # "done" =>
              /\ Begun /\ ~Alive("validate", 0) /\ job.status # "READY"
              /\ \A w \in Slots \ {s} : Busy(w) => exec[w].q \notin {"normalize", "validate"}
         /\ exec[s].q = "validate" =>
              /\ Begun /\ Alive("validate", 0)
              /\ \A w \in Slots \ {s} : Busy(w) => exec[w].q # "validate"
              /\ \A w \in Slots : Busy(w) /\ exec[w].q = "normalize" => exec[w].pc = "done"
         /\ exec[s].q = "import" /\ exec[s].pc # "done" => ~Begun
  <1>1. \A w \in Slots : Busy(w) /\ exec[w].q = "normalize" => exec[w].id \in JobId /\ Alive("normalize", exec[w].id)
    BY BusyAlive, ExecFields
  <1>2. \A w \in Slots : Busy(w) /\ exec[w].q = "validate" => exec[w].id = 0 /\ Alive("validate", 0)
    BY BusyAlive
  <1>3. CASE exec[s].q = "normalize" /\ exec[s].pc # "done"
    <2>1. ~Alive("validate", 0) /\ job.status # "READY"
      BY <1>3 DEF StageInv, Stages, Normalized
    <2>. QED
      BY <1>1, <1>2, <1>3, <2>1 DEF StageInv, Stages, JobsInv, Held, Begun
  <1>4. CASE exec[s].q = "validate"
    <2>1. Begun /\ Alive("validate", 0) /\ Normalized
      BY <1>2, <1>4 DEF StageInv, Stages, Begun
    <2>2. \A w \in Slots \ {s} : Busy(w) => exec[w].q # "validate"
      BY <1>2, <1>4 DEF JobsInv, Held
    <2>. QED
      BY <1>4, <2>1, <2>2 DEF Normalized
  <1>5. CASE exec[s].q = "import" /\ exec[s].pc # "done"
    BY <1>5 DEF StageInv, Stages, Parsed
  <1>. QED
    BY <1>3, <1>4, <1>5

LEMMA WritersExclude ==
  ASSUME TypeInv, JobsInv, StageInv
  PROVE  SingleWriter
  <1>1. SUFFICES ASSUME NEW s \in Slots, NEW w \in Slots, Rewrites(s), Rewrites(w) PROVE s = w
    BY DEF SingleWriter
  <1>2. ASSUME NEW x \in Slots, Rewrites(x)
        PROVE  Busy(x) /\ exec[x].pc # "done" /\ exec[x].q \in {"normalize", "validate"}
    <2>1. exec[x].pc \in {"delete", "create", "clear", "issues", "mark"} /\ Busy(x)
      BY <1>2 DEF Rewrites, Busy
    <2>2. exec[x].pc \in PcOf(exec[x].q) /\ exec[x].q \in QueueName
      BY <2>1, ExecFields DEF JobsInv, Processors
    <2>. QED
      BY <2>1, <2>2 DEF PcOf, QueueName
  <1>. QED
    BY <1>1, <1>2, OneWriter

----------------------------------------------------------------------------
(* The rows: what most steps leave alone.                                  *)

LEMMA OtherSlots ==
  ASSUME Normalizes, Validates, NEW s \in Slots, Others(s), UNCHANGED <<products, issues, mapping, tab>>
  PROVE  \A w \in Slots \ {s} : NormalizesIn(w)' /\ ValidatesIn(w)'
  BY DEF Normalizes, Validates, NormalizesIn, ValidatesIn, Others, Busy, Current, desk, Inserted,
         IssuesExact, Settled

LEMMA SameJudged ==
  ASSUME Judged, UNCHANGED <<products, issues, mapping, tab>>, Alive("validate", 0)' <=> Alive("validate", 0),
         job'.status = "READY" => job.status = "READY", spent'["throw"] >= spent["throw"],
         spent["throw"] \in Nat, spent'["throw"] \in Nat
  PROVE  Judged'
  <1>1. (Whole' <=> Whole) /\ (Settled' <=> Settled) /\ (IssuesExact' <=> IssuesExact)
    BY DEF Whole, Settled, IssuesExact, Current, desk
  <1>2. spent["throw"] >= Attempts => spent'["throw"] >= Attempts
    BY QueueAssumption
  <1>. QED
    BY <1>1, <1>2 DEF Judged

LEMMA SameCounted ==
  ASSUME TypeInv, Counted, queue'["validate"] = queue["validate"], spent'["throw"] >= spent["throw"],
         spent["throw"] \in Nat, spent'["throw"] \in Nat
  PROVE  Counted'
  <1>1. queue["validate"][0].made \in Nat
    BY IdsType DEF TypeInv, TypeOK, QueueName, JobState
  <1>. QED
    BY <1>1, QueueAssumption DEF Counted

(* A slot step that changes neither rows nor the validate job.             *)
LEMMA PlainSlot ==
  ASSUME TypeInv, RowsInv, NEW s \in Slots, Others(s), UNCHANGED <<products, issues, mapping, tab>>,
         queue'["validate"] = queue["validate"], job'.status = "READY" => job.status = "READY",
         spent'["throw"] >= spent["throw"], spent["throw"] \in Nat, spent'["throw"] \in Nat,
         NormalizesIn(s)', ValidatesIn(s)'
  PROVE  RowsInv'
  <1>1. Alive("validate", 0)' <=> Alive("validate", 0)
    BY DEF Alive
  <1>2. Judged' /\ Counted'
    BY <1>1, SameJudged, SameCounted DEF RowsInv
  <1>3. Normalizes' /\ Validates'
    BY OtherSlots DEF RowsInv, Normalizes, Validates
  <1>. QED
    BY <1>2, <1>3 DEF RowsInv

----------------------------------------------------------------------------
(* The rows: requests and what happens around the worker.                  *)

LEMMA RowsStill ==
  ASSUME PageInv, JobsInv, StageInv, RowsInv, UNCHANGED <<exec, products, issues>>,
         desk'.missed \/ ~desk.missed,
         desk'.missed \/ UNCHANGED mapping \/ ~Begun,
         Alive("validate", 0)' <=> Alive("validate", 0), Counted',
         job'.status = "READY" => job.status = "READY",
         spent'["throw"] >= spent["throw"], spent["throw"] \in Nat, spent'["throw"] \in Nat
  PROVE  RowsInv'
  <1>0. TypeInv
    BY DEF PageInv
  <1>1. Begun => \A m : Current(m) => Current(m)'
    BY DEF Current
  <1>2. Normalizes'
    <2>1. ASSUME NEW s \in Slots PROVE NormalizesIn(s)'
      <3>1. Busy(s) /\ exec[s].q = "normalize" /\ exec[s].pc # "done" => Begun
        BY <1>0, OneWriter DEF JobsInv, StageInv
      <3>. QED
        BY <1>1, <3>1 DEF RowsInv, Normalizes, NormalizesIn, Busy, Inserted
    <2>. QED
      BY <2>1 DEF Normalizes
  <1>3. Validates'
    BY DEF RowsInv, Validates, ValidatesIn, Busy, IssuesExact, Settled
  <1>4. Judged'
    <2>1. Alive("validate", 0) \/ job.status = "READY" => Begun
      BY DEF Begun
    <2>2. Begun /\ Whole => Whole'
      BY <1>1 DEF Whole
    <2>3. (Settled' <=> Settled) /\ (IssuesExact' <=> IssuesExact)
      BY DEF Settled, IssuesExact
    <2>4. spent["throw"] >= Attempts => spent'["throw"] >= Attempts
      BY QueueAssumption
    <2>. QED
      BY <2>1, <2>2, <2>3, <2>4 DEF RowsInv, Judged
  <1>. QED
    BY <1>2, <1>3, <1>4 DEF RowsInv

LEMMA ThrowsGrow ==
  ASSUME TypeInv, [Next]_vars
  PROVE  spent["throw"] \in Nat /\ spent'["throw"] \in Nat /\ spent'["throw"] >= spent["throw"]
  BY SpentGrows DEF Event

(* What a tab's step does to what it has missed, and asked since.          *)
LEMMA MissedGrows ==
  ASSUME PageInv, OneTab, NEW c \in Clients,
         TabStep(c) \/ ClickProcess(c) \/ Focus(c) \/ TabAbort(c) \/ TabMissed(c)
  PROVE  (desk'.missed \/ ~desk.missed) /\ (desk'.again \/ ~desk.again)
  <1>. USE DEF OneTab
  <1>0. desk \in Tab
    BY DeskTypes
  <1>1. ASSUME TabServe(Uploader) PROVE desk'.missed = desk.missed /\ desk'.again = desk.again
    <2>1. desk' = desk \/ desk' = Answered(desk)
      BY <1>1, AnswerTypes
    <2>2. \/ Answered(desk) = desk
          \/ \E to \in Step : Answered(desk) = Moved(desk, to)
          \/ \E to \in Step : Answered(desk) = Shown(desk, to, job'.status)
      BY DEF Answered, Step, Moved, Shown
    <2>. QED
      BY <1>0, <2>1, <2>2, AnswerFields
  <1>2. CASE TabMissed(c)
    <2>1. desk' = Unanswered(desk)
      BY <1>2, DeskTypes DEF TabMissed, desk, Unanswered
    <2>. QED
      BY <1>0, <2>1, AnswerFields
  <1>3. CASE FetchJob(c) \/ FetchRows(c) \/ Focus(c) \/ OpenTab(c) \/ ProcessIgnored(c)
    BY <1>3, LookStep
  <1>4. CASE SubmitCreate(c) \/ SubmitPresign(c) \/ SubmitConfirm(c) \/ ClickProcess(c)
    <2>1. \E to \in Step : desk' = Moved(desk, to)
      BY <1>4, DeskTypes DEF SubmitCreate, SubmitPresign, SubmitConfirm, ClickProcess, Moved, Step
    <2>. QED
      BY <1>0, <2>1, AnswerFields
  <1>7. CASE SendProcess(c)
    <2>1. desk' = Resent(desk)
      BY <1>7, DeskTypes DEF SendProcess, desk, Resent
    <2>. QED
      BY <1>0, <2>1, AnswerFields
  <1>5. CASE TabAbort(c)
    <2>1. \E to \in Step : desk' = Moved(desk, to)
      BY <1>5, DeskTypes DEF TabAbort, desk, Moved, Step
    <2>. QED
      BY <1>0, <2>1, AnswerFields
  <1>6. TabServe(c) => TabServe(Uploader)
    OBVIOUS
  <1>. QED
    BY <1>1, <1>2, <1>3, <1>4, <1>5, <1>6, <1>7 DEF TabStep

LEMMA CalmBefore ==
  ASSUME PageInv, OneTab, [PageNext]_pageVars, Calm'
  PROVE  Calm
  <1>1. spent["crash"] = 0 /\ spent["stall"] = 0
    <2>1. TypeInv /\ [Next]_vars
      BY PageStepIsStep DEF PageInv
    <2>. QED
      BY <2>1, SpentGrows DEF Calm, Event
  <1>2. desk'.again \/ ~desk.again
    <2>1. UNCHANGED tab => desk' = desk
      BY DEF desk
    <2>. QED
      BY <2>1, MissedGrows DEF PageNext, pageVars
  <1>3. ~AskedAgain
    BY <1>2 DEF Calm, AskedAgain, OneTab, desk
  <1>. QED
    BY <1>1, <1>3 DEF Calm

(* A request touches neither products, issues nor the validate job; it     *)
(* replaces the mapping only when the tab saves one.                       *)
LEMMA RequestFrame ==
  ASSUME TypeInv, NEW c \in Clients, Call(c) \/ Serve(c) \/ Abort(c)
  PROVE  /\ UNCHANGED <<exec, products, issues>> /\ queue'["validate"] = queue["validate"]
         /\ UNCHANGED mapping \/ req[c].pc = "replace"
         /\ UNCHANGED job \/ job'.status # "READY"
  <1>1. /\ UNCHANGED <<exec, products, issues>>
        /\ UNCHANGED mapping \/ req[c].pc = "replace"
    BY DEF Call, Create, Presign, Process, Remove, Confirm, Save, Handle, Serve, PresignUpdate,
         ConfirmCreate, ConfirmUploaded, ConfirmEnqueue, ConfirmQueued, SaveReplace,
         ProcessStart, ProcessEnqueue, RemoveUpdate, Abort, NoRequestVars
  <1>2. queue'["validate"] = queue["validate"]
    BY RequestQueues DEF TypeInv, TypeOK, QueueName
  <1>3. ASSUME NEW st \in Status \ {"READY"}, SetStatus(st) PROVE job'.status # "READY"
    BY <1>3 DEF SetStatus, TypeInv, TypeOK
  <1>4. \/ UNCHANGED job
        \/ \E st \in {"CREATED", "UPLOADING", "UPLOADED", "QUEUED"} : SetStatus(st)
        \/ job' = [status |-> "CANCELLED", deleted |-> TRUE]
    BY DEF Call, Create, Presign, Process, Remove, Confirm, Save, Handle, Serve, PresignUpdate,
         ConfirmCreate, ConfirmUploaded, ConfirmEnqueue, ConfirmQueued, SaveReplace,
         ProcessStart, ProcessEnqueue, RemoveUpdate, Abort, NoRequestVars
  <1>5. UNCHANGED job \/ job'.status # "READY"
    BY <1>3, <1>4 DEF Status
  <1>. QED
    BY <1>1, <1>2, <1>5

LEMMA TabRows ==
  ASSUME PageInv, JobsInv, StageInv, RowsInv, OneTab, NEW c \in Clients,
         TabStep(c) \/ ClickProcess(c) \/ Focus(c) \/ TabAbort(c) \/ TabMissed(c)
  PROVE  RowsInv'
  <1>0. TypeInv
    BY DEF PageInv
  <1>1. [Next]_vars
    BY TabStepIsStep DEF Next
  <1>2. /\ UNCHANGED <<exec, products, issues>> /\ queue'["validate"] = queue["validate"]
        /\ UNCHANGED mapping \/ req[c].pc = "replace"
        /\ UNCHANGED job \/ job'.status # "READY"
    BY <1>0, TabStepIsStep, RequestFrame DEF vars
  <1>3. UNCHANGED mapping \/ ~Begun \/ desk'.missed
    <2>1. ASSUME req[c].pc = "replace", Begun PROVE desk.missed
      <3>1. call.pc = "replace" /\ desk \in Tab
        BY <2>1, DeskTypes DEF call, OneTab
      <3>2. desk.step = "saving"
        BY <3>1 DEF StageInv, Desk, Tab, Step
      <3>. QED
        BY <2>1, <3>2 DEF StageInv, Stages
    <2>. QED
      BY <1>2, <2>1, MissedGrows
  <1>4. Counted' /\ (Alive("validate", 0)' <=> Alive("validate", 0))
    BY <1>0, <1>1, <1>2, ThrowsGrow, SameCounted DEF RowsInv, Alive
  <1>5. job'.status = "READY" => job.status = "READY"
    BY <1>2
  <1>. QED
    BY <1>0, <1>1, <1>2, <1>3, <1>4, <1>5, MissedGrows, ThrowsGrow, RowsStill

LEMMA AroundRows ==
  ASSUME PageInv, JobsInv, StageInv, RowsInv, UNCHANGED tab,
         Tick \/ \E n \in QueueName, id \in JobId : Forget(n, id)
  PROVE  RowsInv'
  <1>0. TypeInv /\ [Next]_vars
    BY DEF PageInv, Next, Environment, Surroundings
  <1>1. UNCHANGED <<exec, products, issues, mapping, job, desk>>
    BY DEF Tick, Forget, NoEnvVars, desk
  <1>2. /\ \/ queue'["validate"][0] = queue["validate"][0]
           \/ queue'["validate"][0] = NoJob /\ ~Alive("validate", 0)
    BY <1>0, IdsType DEF Tick, Forget, OnQueue, Evict, Retained, Alive, TypeInv, TypeOK, QueueName
  <1>3. Alive("validate", 0)' <=> Alive("validate", 0)
    BY <1>2 DEF Alive, NoJob
  <1>4. Counted'
    <2>1. queue["validate"][0].made \in Nat
      BY <1>0, IdsType DEF TypeInv, TypeOK, QueueName, JobState
    <2>. QED
      BY <1>0, <1>2, <2>1, ThrowsGrow, QueueAssumption DEF RowsInv, Counted, NoJob
  <1>. QED
    BY <1>0, <1>1, <1>3, <1>4, ThrowsGrow, RowsStill

----------------------------------------------------------------------------
(* The rows: parsing and normalization.                                    *)

LEMMA ThrowsInSlot ==
  ASSUME TypeInv, NEW s \in Slots, Work(s) \/ Throw(s)
  PROVE  spent["throw"] \in Nat /\ spent'["throw"] \in Nat /\ spent'["throw"] >= spent["throw"]
  BY ThrowsGrow DEF Next, Environment, Surroundings

LEMMA StartRows ==
  ASSUME PageInv, JobsInv, StageInv, RowsInv, NEW s \in Slots, UNCHANGED tab,
         StartParse(s) \/ StartNormalize(s) \/ StartValidate(s)
  PROVE  RowsInv'
  <1>0. /\ TypeInv /\ UNCHANGED <<products, issues, mapping, tab, job>>
        /\ spent["throw"] \in Nat /\ spent'["throw"] \in Nat /\ spent'["throw"] >= spent["throw"]
    BY ThrowsInSlot DEF PageInv, StartParse, StartNormalize, StartValidate, NoStartVars, Work
  <1>1. ASSUME NEW n \in QueueName, NEW id \in JobId, NEW pc, NEW f, NEW m, NEW r, NEW rows,
               Start(s, n, id, pc, f, m, r, rows)
        PROVE  /\ Others(s) /\ exec'[s].pc = pc /\ exec'[s].q = n /\ exec'[s].file = f
               /\ exec'[s].map = m /\ exec'[s].seen = rows /\ ~exec'[s].broken
               /\ Phase(n, id) = "waiting" /\ queue' = [queue EXCEPT ![n] = Take(queue[n], id)]
    BY <1>0, <1>1 DEF Start, SetExec, OnQueue, Others, Phase, TypeInv, TypeOK
  <1>2. CASE StartParse(s)
    <2>1. Others(s) /\ exec'[s].q = "import" /\ queue'["validate"] = queue["validate"]
      BY <1>0, <1>1, <1>2 DEF StartParse, StartUnneeded, QueueName, TypeInv, TypeOK
    <2>2. NormalizesIn(s)' /\ ValidatesIn(s)'
      BY <2>1 DEF NormalizesIn, ValidatesIn
    <2>. QED
      BY <1>0, <2>1, <2>2, PlainSlot
  <1>3. CASE StartNormalize(s)
    <2>1. PICK id \in JobId :
            \/ StartUnneeded(s, "normalize", id)
            \/ \E f \in Files \cup {NoFile} :
                 CatalogFile(f) /\ Start(s, "normalize", id, "status", f, mapping, runs + 1, {})
      BY <1>3 DEF StartNormalize
    <2>2. /\ Others(s) /\ exec'[s].q = "normalize" /\ queue'["validate"] = queue["validate"]
          /\ Phase("normalize", id) = "waiting"
          /\ \/ exec'[s].pc = "done"
             \/ exec'[s].pc = "status" /\ CatalogFile(exec'[s].file) /\ exec'[s].map = mapping
      BY <1>0, <1>1, <2>1 DEF StartUnneeded, QueueName, TypeInv, TypeOK
    <2>3. files = {Chosen}
      BY <2>2 DEF StageInv, Stages, Parsed, Begun, Alive, Phase
    <2>4. CatalogFile(exec'[s].file) => exec'[s].file = Chosen
      BY <2>3, PageAssumption DEF CatalogFile, CatalogFiles
    <2>5. NormalizesIn(s)' /\ ValidatesIn(s)'
      BY <1>0, <2>2, <2>4 DEF NormalizesIn, ValidatesIn, Current, desk
    <2>. QED
      BY <1>0, <2>2, <2>5, PlainSlot
  <1>4. CASE StartValidate(s)
    <2>1. PICK id \in JobId : Start(s, "validate", id, "clear", NoFile, {}, 0, products)
      BY <1>4 DEF StartValidate
    <2>2. /\ Others(s) /\ exec'[s].q = "validate" /\ exec'[s].pc = "clear" /\ exec'[s].seen = products /\ ~exec'[s].broken
          /\ Phase("validate", id) = "waiting"
          /\ queue' = [queue EXCEPT !["validate"] = Take(queue["validate"], id)]
      BY <1>1, <2>1 DEF QueueName
    <2>3. id = 0
      BY <2>2 DEF JobsInv, OneId, Phase
    <2>4. /\ queue["validate"][0].phase = "waiting" /\ queue'["validate"][0].phase = "active"
          /\ queue'["validate"][0].made = queue["validate"][0].made
      BY <1>0, <2>2, <2>3, IdsType DEF Phase, Take, TypeInv, TypeOK, QueueName, JobState
    <2>5. NormalizesIn(s)' /\ ValidatesIn(s)'
      BY <1>0, <2>2 DEF NormalizesIn, ValidatesIn
    <2>6. Normalizes' /\ Validates'
      BY <1>0, <2>2, <2>5, OtherSlots DEF RowsInv, Normalizes, Validates
    <2>7. Judged'
      BY <1>0, <2>4, SameJudged DEF RowsInv, Alive
    <2>8. Counted'
      <3>1. queue["validate"][0].made \in Nat
        BY <1>0, IdsType DEF TypeInv, TypeOK, QueueName, JobState
      <3>. QED
        BY <1>0, <2>4, <3>1 DEF RowsInv, Counted
    <2>. QED
      BY <2>6, <2>7, <2>8 DEF RowsInv
  <1>. QED
    BY <1>2, <1>3, <1>4

LEMMA ParseRows ==
  ASSUME PageInv, JobsInv, StageInv, RowsInv, NEW s \in Slots, UNCHANGED tab,
         FileMissing(s) \/ ParseStatus(s) \/ ParseWrite(s)
  PROVE  RowsInv'
  <1>0. TypeInv /\ Goes(s) /\ Busy(s) /\ exec[s].pc # "done"
    BY MiddleGoes DEF PageInv, JobsInv, Goes
  <1>1. exec[s].q = "import"
    BY <1>0, SlotStatus, PageAssumption, PipelineAssumption, ExecFields
    DEF FileMissing, ParseStatus, ParseWrite, At, RowsInv, Normalizes, NormalizesIn, JobsInv, Processors,
        PcOf, QueueName
  <1>2. ~Begun
    BY <1>0, <1>1, OneWriter
  <1>3. UNCHANGED <<products, issues, queue>> /\ spent' = spent
    BY DEF FileMissing, ParseStatus, ParseWrite, NoExecVars
  <1>4. job'.status # "READY"
    BY <1>0 DEF FileMissing, ParseStatus, ParseWrite, SetStatus, TypeInv, TypeOK
  <1>5. \A w \in Slots : Busy(w) => exec[w].q # "validate" /\ (exec[w].q = "normalize" => exec[w].pc = "done")
    BY <1>0, <1>2, OneWriter
  <1>6. \A w \in Slots : Busy(w)' => exec'[w].q # "validate" /\ (exec'[w].q = "normalize" => exec'[w].pc = "done")
    BY <1>0, <1>1, <1>5 DEF Goes, Others, Busy
  <1>7. Normalizes' /\ Validates'
    BY <1>6 DEF Normalizes, Validates, NormalizesIn, ValidatesIn
  <1>8. ~Alive("validate", 0)' /\ Counted'
    BY <1>2, <1>3 DEF RowsInv, Counted, Begun, Alive
  <1>. QED
    BY <1>4, <1>7, <1>8 DEF RowsInv, Judged

(* While normalization has rows to write nothing else reads or writes      *)
(* them, and no validation is due.                                         *)
LEMMA NormalizingAlone ==
  ASSUME PageInv, JobsInv, StageInv, RowsInv, NEW s \in Slots, Busy(s), exec[s].q = "normalize",
         exec[s].pc # "done", Goes(s)
  PROVE  /\ Validates' /\ \A w \in Slots \ {s} : NormalizesIn(w)'
         /\ ~Alive("validate", 0) /\ job.status # "READY"
         /\ exec[s].file = Chosen /\ Current(exec[s].map)
  <1>0. TypeInv
    BY DEF PageInv
  <1>1. /\ ~Alive("validate", 0) /\ job.status # "READY"
        /\ \A w \in Slots \ {s} : Busy(w) => exec[w].q \notin {"normalize", "validate"}
    BY <1>0, OneWriter
  <1>2. \A w \in Slots : Busy(w)' => exec'[w].q # "validate" /\ (w # s => exec'[w].q # "normalize")
    BY <1>1 DEF Goes, Others, Busy
  <1>3. exec[s].file = Chosen /\ Current(exec[s].map)
    BY DEF RowsInv, Normalizes, NormalizesIn
  <1>. QED
    BY <1>1, <1>2, <1>3 DEF Validates, ValidatesIn, NormalizesIn

LEMMA InsertedWhole ==
  ASSUME NEW e, products = Inserted(e, Len(Source)), Current(e.map)
  PROVE  Whole
  <1>1. ASSUME NEW p \in products
        PROVE  /\ \E i \in 1 .. Len(Source) : p.id.key = Source[i]
               /\ p = [id |-> [run |-> e.run, key |-> p.id.key], map |-> e.map, status |-> "PROCESSING"]
    <2>1. PICK i \in 1 .. Len(Source) :
            p = [id |-> [run |-> e.run, key |-> Source[i]], map |-> e.map, status |-> "PROCESSING"]
      BY <1>1 DEF Inserted
    <2>2. p.id.key = Source[i]
      BY <2>1
    <2>. QED
      BY <2>1, <2>2
  <1>2. ASSUME NEW i \in 1 .. Len(Source) PROVE \E p \in products : p.id.key = Source[i]
    <2>. DEFINE p == [id |-> [run |-> e.run, key |-> Source[i]], map |-> e.map, status |-> "PROCESSING"]
    <2>1. p \in products /\ p.id.key = Source[i]
      BY DEF Inserted
    <2>. QED
      BY <2>1
  <1>3. {p.id.key : p \in products} = {Source[i] : i \in 1 .. Len(Source)}
    BY <1>1, <1>2
  <1>4. \A p, r \in products : p.id.key = r.id.key => p = r
    BY <1>1
  <1>5. \A p \in products : Current(p.map)
    BY DEF Inserted
  <1>. QED
    BY <1>3, <1>4, <1>5 DEF Whole

(* The insert loop: one more product of the file.                          *)
LEMMA InsertedNext ==
  ASSUME NEW e \in Exec, NEW n \in 0 .. Len(Source), Remaining(e.todo, n), e.todo # <<>>
  PROVE  /\ n + 1 \in 0 .. Len(Source) /\ Remaining(Tail(e.todo), n + 1)
         /\ Inserted(e, n + 1) = Inserted(e, n) \cup {NewRow(e)}
         /\ Inserted([e EXCEPT !.todo = Tail(@)], n + 1) = Inserted(e, n + 1)
  <1>1. e.todo \in Seq(Keys) /\ Source \in Seq(Keys) /\ Len(Source) \in Nat
    BY PipelineAssumption, PageAssumption DEF Exec, Source
  <1>2. Len(e.todo) \in Nat \ {0} /\ Len(Tail(e.todo)) = Len(e.todo) - 1
        /\ \A i \in 1 .. Len(Tail(e.todo)) : Tail(e.todo)[i] = e.todo[i + 1]
    BY <1>1
  <1>3. Head(e.todo) = e.todo[1]
    BY <1>1
  <1>4. n + 1 \in 0 .. Len(Source) /\ Remaining(Tail(e.todo), n + 1)
    <2>1. Len(e.todo) = Len(Source) - n /\ \A i \in 1 .. Len(e.todo) : e.todo[i] = Source[i + n]
      BY DEF Remaining
    <2>2. n + 1 \in 0 .. Len(Source) /\ Len(Tail(e.todo)) = Len(Source) - (n + 1)
      BY <1>1, <1>2, <2>1
    <2>3. ASSUME NEW i \in 1 .. Len(Tail(e.todo)) PROVE Tail(e.todo)[i] = Source[i + (n + 1)]
      <3>1. i + 1 \in 1 .. Len(e.todo) /\ (i + 1) + n = i + (n + 1)
        BY <1>2
      <3>. QED
        BY <1>2, <2>1, <3>1
    <2>. QED
      BY <2>2, <2>3 DEF Remaining
  <1>5. Head(e.todo) = Source[n + 1] /\ n \in Nat
    BY <1>1, <1>2, <1>3 DEF Remaining
  <1>6. 1 .. (n + 1) = (1 .. n) \cup {n + 1}
    BY <1>5
  <1>7. Inserted(e, n + 1) = Inserted(e, n) \cup {NewRow(e)}
    BY <1>5, <1>6 DEF Inserted, NewRow
  <1>8. [e EXCEPT !.todo = Tail(@)].run = e.run /\ [e EXCEPT !.todo = Tail(@)].map = e.map
    BY DEF Exec
  <1>. QED
    BY <1>4, <1>7, <1>8 DEF Inserted

LEMMA NormalizeRows ==
  ASSUME PageInv, JobsInv, StageInv, RowsInv, NEW s \in Slots, UNCHANGED tab,
         \/ NormalizeStatus(s) \/ NormalizeDelete(s) \/ NormalizeCreate(s)
         \/ NormalizeUsage(s) \/ NormalizeValidating(s) \/ NormalizeEnqueue(s)
  PROVE  RowsInv'
  <1>0. TypeInv /\ Goes(s) /\ Busy(s) /\ exec[s].q = "normalize" /\ exec[s].pc # "done" /\ exec[s] \in Exec
    BY MiddleGoes, ExecFields DEF PageInv, JobsInv, Goes, At, NormalizeStatus, NormalizeDelete,
       NormalizeCreate, NormalizeUsage, NormalizeValidating, NormalizeEnqueue
  <1>1. /\ Validates' /\ \A w \in Slots \ {s} : NormalizesIn(w)'
        /\ ~Alive("validate", 0) /\ job.status # "READY"
        /\ exec[s].file = Chosen /\ Current(exec[s].map)
    BY <1>0, NormalizingAlone
  <1>2. /\ exec[s].pc = "create" =>
             \E n \in 0 .. Len(Source) : Remaining(exec[s].todo, n) /\ products = Inserted(exec[s], n)
        /\ exec[s].pc \in {"validating", "add"} => products = Inserted(exec[s], Len(Source))
    BY <1>0 DEF RowsInv, Normalizes, NormalizesIn
  <1>3. spent' = spent /\ UNCHANGED mapping /\ (\A m : Current(m)' <=> Current(m))
    BY DEF NormalizeStatus, NormalizeDelete, NormalizeCreate, NormalizeUsage, NormalizeValidating,
       NormalizeEnqueue, NoExecVars, Current, desk
  <1>4. job'.status # "READY"
    BY <1>0, <1>1 DEF NormalizeStatus, NormalizeDelete, NormalizeCreate, NormalizeUsage,
       NormalizeValidating, NormalizeEnqueue, SetStatus, TypeInv, TypeOK
  <1>5. SUFFICES NormalizesIn(s)' /\ (Alive("validate", 0)' => Whole') /\ Counted'
    BY <1>1, <1>4 DEF RowsInv, Normalizes, Judged
  <1>6. ASSUME UNCHANGED queue PROVE ~Alive("validate", 0)' /\ Counted'
    BY <1>1, <1>3, <1>6 DEF RowsInv, Counted, Alive
  <1>7. Len(Source) \in Nat /\ Source \in Seq(Keys)
    BY PipelineAssumption, PageAssumption DEF Source
  <1>8. CASE NormalizeStatus(s)
    <2>1. exec'[s] = [exec[s] EXCEPT !.pc = "delete"] /\ UNCHANGED queue
      BY <1>0, <1>8 DEF NormalizeStatus, Advance, SetExec, TypeInv, TypeOK
    <2>2. exec'[s].pc = "delete" /\ exec'[s].file = Chosen /\ exec'[s].map = exec[s].map
      BY <1>0, <1>1, <2>1 DEF Exec
    <2>. QED
      BY <1>1, <1>3, <1>6, <2>1, <2>2 DEF NormalizesIn
  <1>9. CASE NormalizeDelete(s)
    <2>1. /\ exec'[s] = [exec[s] EXCEPT !.pc = "create", !.todo = Catalog[exec[s].file]]
          /\ UNCHANGED queue /\ products' = {}
      BY <1>0, <1>9 DEF NormalizeDelete, SetExec, TypeInv, TypeOK
    <2>2. /\ exec'[s].pc = "create" /\ exec'[s].file = Chosen /\ exec'[s].map = exec[s].map
          /\ exec'[s].todo = Source
      BY <1>0, <1>1, <2>1 DEF Exec, Source
    <2>3. Remaining(exec'[s].todo, 0) /\ Inserted(exec'[s], 0) = {} /\ 0 \in 0 .. Len(Source)
      BY <1>7, <2>2 DEF Remaining, Inserted
    <2>. QED
      BY <1>1, <1>3, <1>6, <2>1, <2>2, <2>3 DEF NormalizesIn, Remaining, Inserted, Source
  <1>10. CASE NormalizeCreate(s)
    <2>1. /\ exec'[s] = [exec[s] EXCEPT !.todo = Tail(@)] /\ UNCHANGED queue
          /\ exec[s].pc = "create" /\ exec[s].todo # <<>> /\ products' = products \cup {NewRow(exec[s])}
      BY <1>0, <1>10 DEF NormalizeCreate, SetExec, At, TypeInv, TypeOK
    <2>2. PICK n \in 0 .. Len(Source) : Remaining(exec[s].todo, n) /\ products = Inserted(exec[s], n)
      BY <1>2, <2>1
    <2>3. /\ exec'[s].pc = "create" /\ exec'[s].file = Chosen /\ exec'[s].map = exec[s].map
          /\ exec'[s].todo = Tail(exec[s].todo)
      BY <1>0, <1>1, <2>1 DEF Exec
    <2>4. /\ n + 1 \in 0 .. Len(Source) /\ Remaining(exec'[s].todo, n + 1)
          /\ products' = Inserted(exec'[s], n + 1)
      BY <1>0, <2>1, <2>2, <2>3, InsertedNext
    <2>. QED
      BY <1>1, <1>3, <1>6, <2>1, <2>3, <2>4 DEF NormalizesIn, Remaining, Inserted, Source
  <1>11. CASE NormalizeUsage(s)
    <2>1. /\ exec'[s] = [exec[s] EXCEPT !.pc = "validating"] /\ UNCHANGED <<queue, products>>
          /\ exec[s].pc = "create" /\ exec[s].todo = <<>>
      BY <1>0, <1>11 DEF NormalizeUsage, Advance, SetExec, At, TypeInv, TypeOK
    <2>2. PICK n \in 0 .. Len(Source) : Remaining(exec[s].todo, n) /\ products = Inserted(exec[s], n)
      BY <1>2, <2>1
    <2>3. n = Len(Source)
      BY <1>7, <2>1, <2>2 DEF Remaining
    <2>4. /\ exec'[s].pc = "validating" /\ exec'[s].file = Chosen /\ exec'[s].map = exec[s].map
          /\ exec'[s].run = exec[s].run
      BY <1>0, <1>1, <2>1 DEF Exec
    <2>. QED
      BY <1>1, <1>3, <1>6, <2>1, <2>2, <2>3, <2>4 DEF NormalizesIn, Inserted, Source
  <1>12. CASE NormalizeValidating(s)
    <2>1. /\ exec'[s] = [exec[s] EXCEPT !.pc = "add"] /\ UNCHANGED <<queue, products>>
          /\ exec[s].pc = "validating"
      BY <1>0, <1>12 DEF NormalizeValidating, Advance, SetExec, At, TypeInv, TypeOK
    <2>2. /\ exec'[s].pc = "add" /\ exec'[s].file = Chosen /\ exec'[s].map = exec[s].map
          /\ exec'[s].run = exec[s].run
      BY <1>0, <1>1, <2>1 DEF Exec
    <2>. QED
      BY <1>1, <1>2, <1>3, <1>6, <2>1, <2>2 DEF NormalizesIn, Inserted, Source
  <1>13. CASE NormalizeEnqueue(s)
    <2>1. /\ exec'[s].pc = "done" /\ UNCHANGED products /\ exec[s].pc = "add"
          /\ queue'["validate"] = Add(queue["validate"], 0)
      BY <1>0, <1>13 DEF NormalizeEnqueue, Advance, SetExec, OnQueue, At, TypeInv, TypeOK, Exec, QueueName
    <2>2. Whole
      BY <1>1, <1>2, <2>1, InsertedWhole
    <2>3. Whole'
      BY <1>3, <2>1, <2>2 DEF Whole, Source
    <2>4. Counted'
      <3>1. queue["validate"] \in [JobId -> JobState] /\ 0 \in JobId
        BY <1>0, QueuesTyped, IdsType DEF QueueName
      <3>2. \/ queue'["validate"][0] = queue["validate"][0]
            \/ queue'["validate"][0].made = 0 /\ queue'["validate"][0].phase = "waiting"
        BY <2>1, <3>1 DEF Add, NoJob
      <3>4. spent["throw"] \in Nat
        BY <1>0 DEF TypeInv, TypeOK, Event
      <3>. QED
        BY <1>3, <3>2, <3>4 DEF RowsInv, Counted
    <2>. QED
      BY <2>1, <2>3, <2>4 DEF NormalizesIn
  <1>. QED
    BY <1>8, <1>9, <1>10, <1>11, <1>12, <1>13

----------------------------------------------------------------------------
(* The rows: validation.                                                   *)

(* A validation that is under way sees whole products, and nobody else     *)
(* writes any.                                                             *)
LEMMA ValidatingAlone ==
  ASSUME PageInv, JobsInv, StageInv, RowsInv, NEW s \in Slots, Busy(s), exec[s].q = "validate"
  PROVE  /\ Whole /\ Alive("validate", 0)
         /\ \A w \in Slots \ {s} : Busy(w) => exec[w].q # "validate"
         /\ \A w \in Slots : Busy(w) /\ exec[w].q = "normalize" => exec[w].pc = "done"
  <1>1. TypeInv
    BY DEF PageInv
  <1>. QED
    BY <1>1, OneWriter DEF RowsInv, Judged

LEMMA ValidatingSlots ==
  ASSUME PageInv, JobsInv, StageInv, RowsInv, NEW s \in Slots, Busy(s), exec[s].q = "validate",
         Goes(s) \/ Ends(s)
  PROVE  Normalizes' /\ \A w \in Slots \ {s} : ValidatesIn(w)'
  <1>1. \A w \in Slots \ {s} : Busy(w)' =>
          exec'[w].q # "validate" /\ (exec'[w].q = "normalize" => exec'[w].pc = "done")
    BY ValidatingAlone DEF Goes, Ends, Others, Busy
  <1>2. Busy(s)' => exec'[s].q = "validate"
    BY IdleType DEF Goes, Ends, Busy
  <1>. QED
    BY <1>1, <1>2 DEF Normalizes, NormalizesIn, ValidatesIn

(* Among whole products only a fault of its own makes one INVALID.         *)
LEMMA WholeVerdict ==
  ASSUME Whole
  PROVE  /\ \A p \in products : HasError(p, products) <=> p.id.key \in Faulty
         /\ \A p \in products : Verdict(p, products) = Own(p.id.key)
         /\ \A p, r \in products : p.id = r.id => p = r
  BY DEF Whole, HasError, Verdict, Own

LEMMA ErrorIdsOfWhole ==
  ASSUME Whole, NEW s \in Slots, exec[s].seen = products
  PROVE  ErrorIds(s) = {i \in Ids(products) : i.key \in Faulty}
  BY WholeVerdict DEF ErrorIds, Ids

LEMMA MarkedRows ==
  ASSUME PageInv, Whole, NEW r \in Row,
         products' = {IF p.id = r.id THEN [p EXCEPT !.status = r.status] ELSE p : p \in products},
         UNCHANGED <<mapping, tab>>
  PROVE  /\ Ids(products)' = Ids(products)
         /\ Whole'
         /\ \A q \in products' : \E p \in products :
              /\ q.id = p.id /\ (q.id = r.id => q.status = r.status)
              /\ q.id # r.id => q.status = p.status
  <1>. DEFINE Marked(p) == IF p.id = r.id THEN [p EXCEPT !.status = r.status] ELSE p
  <1>1. \A p \in products : p \in Row
    BY DEF PageInv, TypeInv, TypeOK
  <1>2. \A p \in products :
          /\ Marked(p).id = p.id /\ Marked(p).map = p.map
          /\ p.id = r.id => Marked(p).status = r.status
          /\ p.id # r.id => Marked(p).status = p.status
    BY <1>1 DEF Row
  <1>3. products' = {Marked(p) : p \in products}
    OBVIOUS
  <1>. HIDE DEF Marked
  <1>4. Ids(products)' = Ids(products)
    BY <1>2, <1>3 DEF Ids
  <1>5. \A q \in products' : \E p \in products : q = Marked(p)
    BY <1>3
  <1>6. Whole'
    <2>1. {q.id.key : q \in products'} = {p.id.key : p \in products}
      BY <1>2, <1>3
    <2>2. \A q, t \in products' : q.id.key = t.id.key => q = t
      BY <1>2, <1>5 DEF Whole
    <2>3. \A q \in products' : Current(q.map)'
      BY <1>2, <1>5 DEF Whole, Current, desk
    <2>. QED
      BY <2>1, <2>2, <2>3 DEF Whole, Source
  <1>. QED
    BY <1>2, <1>4, <1>5, <1>6

LEMMA ValidateRows ==
  ASSUME PageInv, JobsInv, StageInv, RowsInv, NEW s \in Slots, UNCHANGED tab,
         ValidateClear(s) \/ ValidateIssues(s) \/ ValidateMark(s) \/ ValidateReady(s)
  PROVE  RowsInv'
  <1>0. TypeInv /\ Goes(s) /\ Busy(s) /\ exec[s].q = "validate" /\ exec[s] \in Exec
    BY MiddleGoes, ExecFields DEF PageInv, JobsInv, Goes, At, ValidateClear, ValidateIssues,
       ValidateMark, ValidateReady
  <1>1. Whole /\ Alive("validate", 0)
    BY <1>0, ValidatingAlone
  <1>2. Normalizes' /\ \A w \in Slots \ {s} : ValidatesIn(w)'
    BY <1>0, ValidatingSlots
  <1>3. UNCHANGED <<queue, mapping, spent>> /\ (\A m : Current(m)' <=> Current(m))
    BY DEF ValidateClear, ValidateIssues, ValidateMark, ValidateReady, NoExecVars, Current, desk
  <1>4. Counted' /\ Alive("validate", 0)'
    BY <1>1, <1>3 DEF RowsInv, Counted, Alive
  <1>5. SUFFICES ValidatesIn(s)' /\ Whole' /\ (job'.status = "READY" => Settled')
    BY <1>2, <1>4 DEF RowsInv, Validates, Judged
  <1>6. ValidatesIn(s)
    BY DEF RowsInv, Validates
  <1>7. job.status = "READY" => Settled
    BY DEF RowsInv, Judged
  <1>8. UNCHANGED products => Whole' /\ (Settled' <=> Settled)
    BY <1>1, <1>3 DEF Whole, Settled, Source
  <1>9. CASE ValidateClear(s)
    <2>1. /\ exec'[s] = [exec[s] EXCEPT !.pc = "issues"] /\ UNCHANGED <<products, job>>
          /\ issues' = {} /\ exec[s].pc = "clear"
      BY <1>0, <1>9 DEF ValidateClear, Advance, SetExec, At, TypeInv, TypeOK
    <2>2. exec'[s].pc = "issues" /\ exec'[s].seen = products' /\ ~exec'[s].broken
      BY <1>0, <1>6, <2>1 DEF ValidatesIn, Exec
    <2>. QED
      BY <1>7, <1>8, <2>1, <2>2 DEF ValidatesIn
  <1>10. CASE ValidateIssues(s)
    <2>. DEFINE judged == {[r EXCEPT !.status = Verdict(r, exec[s].seen)] : r \in exec[s].seen}
    <2>1. /\ exec'[s] = [exec[s] EXCEPT !.pc = "mark", !.seen = judged] /\ UNCHANGED <<products, job>>
          /\ issues' = issues \cup ErrorIds(s) /\ exec[s].pc = "issues"
      BY <1>0, <1>10 DEF ValidateIssues, SetExec, At, TypeInv, TypeOK
    <2>2. exec[s].seen = products /\ issues = {} /\ products \subseteq Row
      BY <1>0, <1>6, <2>1 DEF ValidatesIn, TypeInv, TypeOK
    <2>3. ASSUME NEW r \in judged
          PROVE  /\ \E p \in products : r.id = p.id
                 /\ r.status = Own(r.id.key)
      <3>1. PICK p \in products : r = [p EXCEPT !.status = Verdict(p, products)]
        BY <2>2
      <3>2. r.id = p.id /\ r.status = Verdict(p, products)
        BY <2>2, <3>1 DEF Row
      <3>. QED
        BY <1>1, <3>2, WholeVerdict
    <2>4. ASSUME NEW p \in products PROVE \E r \in judged : r.id = p.id
      <3>1. [p EXCEPT !.status = Verdict(p, products)].id = p.id
        BY <2>2 DEF Row
      <3>. QED
        BY <2>2, <3>1
    <2>5. exec'[s].pc = "mark" /\ exec'[s].seen = judged
      BY <1>0, <2>1 DEF Exec
    <2>6. ~exec'[s].broken
      BY <1>0, <1>6, <2>1 DEF ValidatesIn, Exec
    <2>7. IssuesExact'
      BY <1>1, <2>1, <2>2, ErrorIdsOfWhole DEF IssuesExact, Ids
    <2>. HIDE DEF judged
    <2>8. Ids(exec'[s].seen) = Ids(products)
      BY <2>3, <2>4, <2>5 DEF Ids
    <2>9. \A p \in products' : p.id \in Ids(exec'[s].seen)
      BY <2>1, <2>8 DEF Ids
    <2>10. ValidatesIn(s)'
      BY <2>1, <2>3, <2>5, <2>6, <2>7, <2>8, <2>9 DEF ValidatesIn, Ids, Own
    <2>. QED
      BY <1>7, <1>8, <2>1, <2>10
  <1>11. CASE ValidateMark(s)
    <2>1. /\ exec[s].pc = "mark" /\ UNCHANGED <<issues, job>>
          /\ ~exec[s].broken /\ IssuesExact
          /\ Ids(exec[s].seen) \subseteq Ids(products)
          /\ \A r \in exec[s].seen : r.status = Own(r.id.key)
          /\ \A p \in products : p.id \in Ids(exec[s].seen) \/ p.status = Own(p.id.key)
      BY <1>0, <1>6, <1>11 DEF ValidateMark, At, ValidatesIn
    <2>2. PICK r \in exec[s].seen :
            /\ products' = {IF p.id = r.id THEN [p EXCEPT !.status = r.status] ELSE p : p \in products}
            /\ SetExec(s, [exec[s] EXCEPT !.seen = @ \ {r},
                                        !.broken = @ \/ \A p \in products : p.id # r.id])
      BY <1>11 DEF ValidateMark
    <2>3. /\ exec'[s].pc = "mark" /\ exec'[s].seen = exec[s].seen \ {r}
          /\ exec'[s].broken = (exec[s].broken \/ \A p \in products : p.id # r.id)
      BY <1>0, <2>1, <2>2 DEF SetExec, TypeInv, TypeOK, Exec
    <2>4. r \in Row /\ r.id \in Ids(products)
      BY <1>0, <2>1, ExecFields DEF Ids
    <2>5. ~exec'[s].broken
      BY <2>1, <2>3, <2>4 DEF Ids
    <2>6. /\ Ids(products)' = Ids(products) /\ Whole'
          /\ \A q \in products' : \E p \in products :
               /\ q.id = p.id /\ (q.id = r.id => q.status = r.status)
               /\ q.id # r.id => q.status = p.status
      BY <1>1, <1>3, <2>2, <2>4, MarkedRows
    <2>7. IssuesExact'
      BY <2>1, <2>6 DEF IssuesExact
    <2>8. Ids(exec'[s].seen) \subseteq Ids(products')
      BY <2>1, <2>3, <2>6 DEF Ids
    <2>9. ASSUME NEW q \in products'
          PROVE  q.id \in Ids(exec'[s].seen) \/ q.status = Own(q.id.key)
      <3>1. PICK p \in products : /\ q.id = p.id /\ (q.id = r.id => q.status = r.status)
                                  /\ q.id # r.id => q.status = p.status
        BY <2>6
      <3>2. CASE q.id = r.id
        BY <2>1, <3>1, <3>2
      <3>3. CASE q.id # r.id
        BY <2>1, <2>3, <3>1, <3>3 DEF Ids
      <3>. QED
        BY <3>2, <3>3
    <2>10. ValidatesIn(s)'
      BY <2>1, <2>3, <2>5, <2>7, <2>8, <2>9 DEF ValidatesIn, Own
    <2>11. Settled => Settled'
      <3>1. ASSUME Settled, NEW q \in products' PROVE q.status = Own(q.id.key)
        BY <2>1, <2>6, <3>1 DEF Settled
      <3>. QED
        BY <3>1 DEF Settled, Own
    <2>. QED
      BY <1>7, <2>1, <2>6, <2>10, <2>11
  <1>12. CASE ValidateReady(s)
    <2>1. /\ exec'[s].pc = "done" /\ UNCHANGED <<products, issues>>
          /\ exec[s].pc = "mark" /\ exec[s].seen = {}
      BY <1>0, <1>12 DEF ValidateReady, Advance, SetExec, At, TypeInv, TypeOK, Exec
    <2>2. IssuesExact /\ Settled /\ ~exec[s].broken /\ exec'[s].broken = exec[s].broken
      BY <1>0, <1>6, <1>12, <2>1 DEF ValidatesIn, Settled, Ids, ValidateReady, Advance, SetExec, TypeInv, TypeOK, Exec
    <2>3. IssuesExact' /\ Settled' /\ ~exec'[s].broken
      BY <1>8, <2>1, <2>2 DEF IssuesExact
    <2>. QED
      BY <1>8, <2>1, <2>3 DEF ValidatesIn
  <1>. QED
    BY <1>9, <1>10, <1>11, <1>12

----------------------------------------------------------------------------
(* The rows: executions that end.                                          *)

(* A validation under way is not refused anything.                         *)
LEMMA NotRefused ==
  ASSUME PageInv, JobsInv, StageInv, RowsInv, NEW s \in Slots, Busy(s), exec[s].q = "validate"
  PROVE  ~Reject(s)
  <1>1. ValidatesIn(s) /\ Whole
    BY ValidatingAlone DEF RowsInv, Validates
  <1>2. exec[s].pc = "issues" => IssuesFit(s)
    <2>1. exec[s].pc = "issues" => exec[s].seen = products
      BY <1>1 DEF ValidatesIn
    <2>2. exec[s].seen = products => ErrorIds(s) \subseteq Ids(products)
      BY <1>1, ErrorIdsOfWhole
    <2>. QED
      BY <2>1, <2>2 DEF IssuesFit, Ids
  <1>. QED
    BY <1>1, <1>2 DEF Reject, Refused, At, ValidatesIn

LEMMA EndRows ==
  ASSUME PageInv, JobsInv, StageInv, RowsInv, NEW s \in Slots, UNCHANGED tab,
         Finish(s) \/ Reject(s) \/ Throw(s)
  PROVE  RowsInv'
  <1>0. /\ TypeInv /\ Ends(s) /\ Busy(s) /\ Others(s) /\ ~Busy(s)' /\ exec[s].q \in QueueName
        /\ exec[s].lock
    BY FinishEnds, ExecFields, IdleType DEF PageInv, JobsInv, Ends, Busy, Held, Locked
  <1>1. UNCHANGED <<products, issues, mapping, tab, job>>
    BY DEF Finish, Reject, Throw, EndAttempt
  <1>2. spent["throw"] \in Nat /\ spent'["throw"] \in Nat /\ spent'["throw"] >= spent["throw"]
    BY <1>0, ThrowsInSlot DEF Work
  <1>3. NormalizesIn(s)' /\ ValidatesIn(s)'
    BY <1>0 DEF NormalizesIn, ValidatesIn
  <1>4. CASE exec[s].q # "validate"
    <2>1. queue'["validate"] = queue["validate"]
      BY <1>0, <1>4 DEF Ends, TypeInv, TypeOK, QueueName
    <2>. QED
      BY <1>0, <1>1, <1>2, <1>3, <2>1, PlainSlot
  <1>5. CASE exec[s].q = "validate"
    <2>1. /\ Whole /\ exec[s].id = 0 /\ ~Reject(s) /\ ValidatesIn(s)
          /\ queue["validate"] \in [JobId -> JobState] /\ 0 \in JobId
      BY <1>0, <1>5, ValidatingAlone, NotRefused, BusyAlive, QueuesTyped, IdsType
      DEF RowsInv, Validates, QueueName
    <2>2. Normalizes' /\ Validates'
      BY <1>0, <1>3, <1>5, ValidatingSlots DEF Validates
    <2>3. (Whole' <=> Whole) /\ (Settled' <=> Settled) /\ (IssuesExact' <=> IssuesExact)
      BY <1>1 DEF Whole, Settled, IssuesExact, Current, desk
    <2>4. CASE Finish(s)
      <3>1. queue'["validate"] = Complete(queue["validate"], 0)
        BY <1>0, <1>5, <2>1, <2>4 DEF Finish, OnQueue, TypeInv, TypeOK, QueueName
      <3>2. queue'["validate"][0].phase = "completed" /\ queue'["validate"][0].made = queue["validate"][0].made
        BY <2>1, <3>1 DEF Complete, JobState
      <3>3. IssuesExact /\ Settled
        BY <1>0, <1>5, <2>1, <2>4 DEF Finish, ValidatesIn
      <3>4. queue["validate"][0].made \in Nat
        BY <2>1 DEF JobState
      <3>. QED
        BY <1>2, <2>1, <2>2, <2>3, <3>2, <3>3, <3>4 DEF RowsInv, Judged, Counted
    <2>5. CASE Throw(s)
      <3>1. /\ queue'["validate"] = Fail(queue["validate"], 0) /\ spent'["throw"] = spent["throw"] + 1
        BY <1>0, <1>5, <2>1, <2>5 DEF Throw, EndAttempt, Spend, OnQueue, TypeInv, TypeOK, QueueName, Event
      <3>2. queue["validate"][0].made \in Nat /\ Attempts \in Nat
        BY <2>1, QueueAssumption DEF JobState
      <3>3. /\ queue'["validate"][0].made = queue["validate"][0].made + 1
            /\ queue'["validate"][0].phase =
                 IF queue["validate"][0].made + 1 < Attempts THEN "waiting" ELSE "failed"
        BY <2>1, <3>1 DEF Fail
      <3>4. Counted' /\ (Alive("validate", 0)' \/ spent'["throw"] >= Attempts)
        BY <1>2, <3>1, <3>2, <3>3 DEF RowsInv, Counted, Alive
      <3>5. job.status = "READY" => Settled
        BY DEF RowsInv, Judged
      <3>. QED
        BY <1>1, <2>1, <2>2, <2>3, <3>4, <3>5 DEF RowsInv, Judged
    <2>. QED
      BY <2>1, <2>4, <2>5
  <1>. QED
    BY <1>4, <1>5

----------------------------------------------------------------------------
(* The invariant.                                                          *)

LEMMA SlotRows ==
  ASSUME PageInv, JobsInv, StageInv, RowsInv, NEW s \in Slots, UNCHANGED tab, Work(s) \/ Throw(s)
  PROVE  RowsInv'
  BY StartRows, ParseRows, NormalizeRows, ValidateRows, EndRows DEF Work

LEMMA RowsNext ==
  ASSUME PageInv, JobsInv, StageInv, RowsInv, OneTab, [PageNext]_pageVars, Calm'
  PROVE  RowsInv'
  <1>0. TypeInv
    BY DEF PageInv
  <1>1. CASE \E c \in Clients : TabStep(c) \/ ClickProcess(c) \/ Focus(c) \/ TabAbort(c) \/ TabMissed(c)
    BY <1>1, TabRows
  <1>2. CASE \E s \in Slots : Work(s) /\ UNCHANGED tab
    BY <1>2, SlotRows
  <1>3. CASE Environment /\ UNCHANGED tab
    BY <1>0, <1>3, CalmEnvironment, SlotRows, AroundRows DEF JobsInv
  <1>4. CASE UNCHANGED pageVars
    BY <1>4 DEF pageVars, vars, RowsInv, Normalizes, NormalizesIn, Validates, ValidatesIn, Judged, Counted,
       Whole, Settled, IssuesExact, Current, Inserted, Busy, Alive, desk
  <1>. QED
    BY <1>1, <1>2, <1>3, <1>4 DEF PageNext

LEMMA CalmInit ==
  ASSUME PageInit
  PROVE  CalmInv
  <1>1. /\ \A s \in Slots : ~Busy(s)
        /\ \A n \in QueueName, id \in JobId : queue[n][id] = NoJob
        /\ job.status = "NONE" /\ files = {} /\ products = {} /\ issues = {}
        /\ spent["throw"] = 0
        /\ desk = [Blank EXCEPT !.step = "new"] /\ call = NoReq
    BY PageAssumption DEF PageInit, Init, Busy, Idle, desk, call, Event
  <1>2. \A n \in QueueName, id \in JobId : ~Alive(n, id)
    BY <1>1 DEF Alive, NoJob
  <1>3. JobsInv
    BY <1>1, <1>2 DEF JobsInv, Held, Processors, OneId, Alive, QueueName, NoJob
  <1>4. desk.step = "new" /\ desk.view = "NONE" /\ ~desk.missed /\ call.pc = "idle"
    BY <1>1 DEF Blank, NoReq
  <1>5. Quiet
    BY <1>1 DEF Quiet, NoJob
  <1>6. ~Begun /\ ~Alive("import", 0) /\ ~Alive("validate", 0)
    BY <1>1, <1>2, IdsType DEF Begun, QueueName
  <1>7. StageInv
    BY <1>1, <1>2, <1>4, <1>5, <1>6 DEF StageInv, Desk, Stored, Stages, QueueName
  <1>8. RowsInv
    <2>1. Normalizes /\ Validates /\ Judged
      BY <1>1, <1>6 DEF Normalizes, NormalizesIn, Validates, ValidatesIn, Judged
    <2>2. Counted
      BY <1>1, IdsType DEF Counted, NoJob, QueueName
    <2>. QED
      BY <2>1, <2>2 DEF RowsInv
  <1>. QED
    BY <1>3, <1>7, <1>8 DEF CalmInv

LEMMA CalmNext ==
  ASSUME PageInv, Calm => CalmInv, OneTab, [PageNext]_pageVars
  PROVE  Calm' => CalmInv'
  <1>1. TypeInv /\ [Next]_vars
    BY PageStepIsStep DEF PageInv
  <1>2. SUFFICES ASSUME Calm' PROVE CalmInv'
    OBVIOUS
  <1>3. CalmInv
    BY <1>1, <1>2, CalmBefore
  <1>. QED
    BY <1>1, <1>2, <1>3, JobsNext, StageNext, RowsNext DEF CalmInv, RowsInv

LEMMA CalmAlways ==
  ASSUME OneTab
  PROVE  PageSpec => [](PageInv /\ (Calm => CalmInv))
  <1>1. PageInit => PageInv /\ (Calm => CalmInv)
    BY PageInvInit, CalmInit
  <1>2. PageInv /\ (Calm => CalmInv) /\ [PageNext]_pageVars => (PageInv /\ (Calm => CalmInv))'
    BY TabTypeNext, CalmNext
  <1>. QED
    BY <1>1, <1>2, PTL DEF PageSpec

(* While no worker process has died and no execution has lost its lock,    *)
(* however often processors and handlers threw and whatever Redis forgot,  *)
(* two executions that rewrite the products never overlap, until the user  *)
(* of the one tab, having missed an answer, asks for the products again.   *)
THEOREM WritersNeverOverlap == OneTab => (PageSpec => [](Calm => SingleWriter))
  <1>. SUFFICES ASSUME OneTab PROVE PageSpec => [](Calm => SingleWriter)
    OBVIOUS
  <1>1. PageInv /\ (Calm => CalmInv) => (Calm => SingleWriter)
    BY WritersExclude DEF PageInv, CalmInv
  <1>. QED
    BY <1>1, CalmAlways, PTL

----------------------------------------------------------------------------
(* A READY import is exact.                                                *)

(* As many rows as the file has products: the rows name the positions of   *)
(* the file's products one to one.                                         *)
LEMMA WholeCount ==
  ASSUME Whole
  PROVE  Cardinality(products) = Len(Source)
  <1>. DEFINE row(i) == CHOOSE p \in products : p.id.key = Source[i]
              f == [i \in 1 .. Len(Source) |-> row(i)]
  <1>1. Source \in Seq(Keys) /\ Len(Source) \in Nat /\ DOMAIN Source = 1 .. Len(Source)
    BY PipelineAssumption, PageAssumption DEF Source
  <1>2. \A i, k \in 1 .. Len(Source) : Source[i] = Source[k] => i = k
    BY <1>1, PipelineAssumption, PageAssumption DEF Source, Distinct
  <1>3. ASSUME NEW i \in 1 .. Len(Source) PROVE row(i) \in products /\ row(i).id.key = Source[i]
    <2>1. \E p \in products : p.id.key = Source[i]
      BY DEF Whole
    <2>. QED
      BY <2>1
  <1>4. ASSUME NEW p \in products PROVE \E i \in 1 .. Len(Source) : row(i) = p
    <2>1. PICK i \in 1 .. Len(Source) : p.id.key = Source[i]
      BY DEF Whole
    <2>2. row(i) \in products /\ row(i).id.key = Source[i]
      BY <1>3
    <2>. QED
      BY <2>1, <2>2 DEF Whole
  <1>. HIDE DEF row
  <1>5. f \in Bijection(1 .. Len(Source), products)
    <2>1. f \in [1 .. Len(Source) -> products]
      BY <1>3
    <2>2. \A i, k \in 1 .. Len(Source) : f[i] = f[k] => i = k
      BY <1>2, <1>3
    <2>3. \A p \in products : \E i \in 1 .. Len(Source) : f[i] = p
      BY <1>4
    <2>. QED
      BY <2>1, <2>2, <2>3 DEF Bijection, Injection, Surjection, IsInjective
  <1>. HIDE DEF f
  <1>6. ExistsBijection(1 .. Len(Source), products)
    BY <1>5 DEF ExistsBijection
  <1>. QED
    BY <1>1, <1>6, FS_CountingElements

LEMMA ReadyRows ==
  ASSUME PageInv, CalmInv, Calm, OneTab, spent["throw"] < Attempts
  PROVE  ReadyExact
  <1>1. SUFFICES ASSUME job.status = "READY"
                 PROVE  /\ StoredKeys = KeysOf(Chosen)
                        /\ Cardinality(products) = Len(Catalog[Chosen])
                        /\ \A p \in products : p.status = Verdict(p, products)
                        /\ SavedLater \/ \A p \in products : p.map = mapping
                        /\ \/ issues = {p.id : p \in {r \in products : r.status = "INVALID"}}
                           \/ queue["validate"][0].phase \in {"waiting", "active"}
    BY DEF ReadyExact, ExactlyStored, Calm
  <1>2. Whole /\ Settled /\ (IssuesExact \/ Alive("validate", 0))
    <2>1. spent["throw"] \in Nat /\ Attempts \in Nat
      BY QueueAssumption DEF PageInv, TypeInv, TypeOK, Event
    <2>. QED
      BY <1>1, <2>1 DEF CalmInv, RowsInv, Judged
  <1>3. Source = Catalog[Chosen] /\ DOMAIN Catalog[Chosen] = 1 .. Len(Source)
    BY PipelineAssumption, PageAssumption DEF Source
  <1>4. \A p \in products : p.status = Own(p.id.key) /\ Verdict(p, products) = Own(p.id.key)
    BY <1>2, WholeVerdict DEF Settled
  <1>5. SavedLater \/ \A p \in products : p.map = mapping
    BY <1>2, PageAssumption DEF Whole, Current, SavedLater, desk
  <1>6. \A p \in products : p.status = "INVALID" <=> p.id.key \in Faulty
    BY <1>4 DEF Own
  <1>7. IssuesExact => issues = {p.id : p \in {r \in products : r.status = "INVALID"}}
    BY <1>6 DEF IssuesExact, Ids
  <1>. QED
    BY <1>2, <1>3, <1>4, <1>5, <1>7, WholeCount DEF Whole, Alive, StoredKeys, KeysOf

(* Under the same condition, and while fewer attempts have thrown than one *)
(* job has, a READY import has exactly the products of the file the user   *)
(* chose, each once, judged against each other, built from the mapping the *)
(* user sees, with an issue for every INVALID one: for any catalog, number *)
(* of worker slots, headers, suggestions and targets.                      *)
THEOREM ReadyImportIsExact == OneTab => (PageSpec => [](Calm /\ spent["throw"] < Attempts => ReadyExact))
  <1>. SUFFICES ASSUME OneTab
                PROVE  PageSpec => [](Calm /\ spent["throw"] < Attempts => ReadyExact)
    OBVIOUS
  <1>1. PageInv /\ (Calm => CalmInv) => (Calm /\ spent["throw"] < Attempts => ReadyExact)
    BY ReadyRows
  <1>. QED
    BY <1>1, CalmAlways, PTL

=============================================================================
