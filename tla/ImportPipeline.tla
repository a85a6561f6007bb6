--------------------------- MODULE ImportPipeline ---------------------------
(***************************************************************************)
(* One import of a supplier catalog, from POST /imports to status READY:   *)
(* the handlers of apps/api that touch it, the three worker processors     *)
(* that parse, normalize and validate it, the queues between them, and the *)
(* database rows they share.                                               *)
(*                                                                         *)
(* Every handler is split at its awaits: what is read before an await is   *)
(* kept in the record of the request or of the execution, and the next     *)
(* write happens in a later step, so requests and executions interleave    *)
(* exactly where Node and PostgreSQL let them.  A request that answers     *)
(* 404/400 changes nothing and is not a step.                              *)
(***************************************************************************)
EXTENDS JobQueue, Sequences, FiniteSets

CONSTANTS
  Clients,     \* callers of the API, each with at most one request in flight
  Slots,       \* executions the worker process can run at the same time
  Files,       \* objects a client may upload and confirm
  NoFile,      \* "no file", not a member of Files
  Type,        \* Type[f] = ImportFile.type, "CATALOG" or another kind
  Cols,        \* source columns
  Targets,     \* catalog fields a column can be mapped to
  Headers,     \* Headers[f] = header row of file f, a sequence of columns
  Detect,      \* Detect[c] = target detectColumns suggests for column c
  Bodies,      \* mappings a PUT /imports/:id/mappings may carry
  Keys,        \* products, named by their SKU
  Catalog,     \* Catalog[f] = products rowsToCatalog makes of file f, in order
  Unreadable,  \* files parseCatalogBuffer throws on
  Faulty,      \* products with an ERROR issue of their own
  MaxClock,    \* bound: values Date.now() takes
  Bounds       \* bound: how often the kinds of events below may happen, one
               \* of these combinations or less

(* A row of ColumnMapping; user is confirmedByUser.                        *)
MapRow == [col : Cols, target : Targets, user : BOOLEAN]

(* What may happen only finitely often in a checked behaviour: requests,   *)
(* awaits of a processor or of a handler that throw, deaths of the worker  *)
(* process, locks lost by an execution that goes on, retention evictions.  *)
Event == {"request", "throw", "abort", "crash", "stall", "evict"}

(* A sequence without repetitions.                                         *)
Distinct(seq) == \A i, j \in DOMAIN seq : seq[i] = seq[j] => i = j

ASSUME PipelineAssumption ==
  /\ NoFile \notin Files
  /\ Headers \in [Files -> Seq(Cols)]
  /\ Detect \in [Cols -> Targets]
  /\ \A body \in Bodies : body \subseteq [col : Cols, target : Targets, user : {TRUE}]
  /\ Catalog \in [Files -> Seq(Keys)]
  /\ \A f \in Files : Distinct(Catalog[f])
  /\ MaxClock \in Nat \ {0}
  /\ Bounds \subseteq [Event -> Nat]

VARIABLES
  job,       \* the ImportJob row: status and deletedAt # null
  files,     \* its ImportFile rows
  mapping,   \* its ColumnMapping rows
  products,  \* its Product rows
  issues,    \* ids of products that a ValidationIssue row of severity ERROR names
  usage,     \* UsageRecord.productsProcessed of the organization
  queue,     \* the three BullMQ queues
  exec,      \* the execution in each worker slot
  req,       \* the request of each client
  clock,     \* Date.now()
  runs,      \* normalize executions so far: tells their rows apart
  spent      \* how often each Event has happened

vars == <<job, files, mapping, products, issues, usage, queue, exec, req,
          clock, runs, spent>>

----------------------------------------------------------------------------
(* Types                                                                   *)

Status == {"NONE", "CREATED", "UPLOADING", "UPLOADED", "QUEUED", "PARSING",
           "MAPPING_REQUIRED", "PROCESSING", "VALIDATING", "READY", "FAILED",
           "CANCELLED"}

QueueName == {"import", "normalize", "validate"}

(* import-parse-<id> and validate-<id> are one id each, written 0 here;    *)
(* import-normalize-<id>-<Date.now()> is the time of the call.             *)
JobId == 0 .. MaxClock

ProductStatus == {"PROCESSING", "READY", "INVALID", "EXPORTED"}

RowId == [run : Nat, key : Keys]

Row == [id : RowId, map : SUBSET MapRow, status : ProductStatus]

ExecPc == {"idle", "status", "write", "delete", "create", "validating",
           "add", "clear", "issues", "mark", "done"}

(* file, map: what the first findFirst saw; run, todo: the normalize loop; *)
(* seen: the rows validation judges; broken: a promise of its Promise.all  *)
(* was rejected; lock: BullMQ still counts this execution as the job's.    *)
Exec == [pc : ExecPc, q : QueueName, id : JobId, lock : BOOLEAN,
         file : Files \cup {NoFile}, map : SUBSET MapRow, run : Nat,
         todo : Seq(Keys), seen : SUBSET Row, broken : BOOLEAN]

Idle == [pc |-> "idle", q |-> "import", id |-> 0, lock |-> FALSE,
         file |-> NoFile, map |-> {}, run |-> 0, todo |-> <<>>, seen |-> {},
         broken |-> FALSE]

ReqPc == {"idle", "uploading", "file", "uploaded", "enqueue", "queued",
          "replace", "start", "normalize", "cancel"}

Req == [pc : ReqPc, file : Files \cup {NoFile}, map : SUBSET MapRow]

NoReq == [pc |-> "idle", file |-> NoFile, map |-> {}]

TypeOK ==
  /\ job \in [status : Status, deleted : BOOLEAN]
  /\ files \subseteq Files
  /\ mapping \subseteq MapRow
  /\ products \subseteq Row
  /\ issues \subseteq RowId
  /\ usage \in Nat
  /\ queue \in [QueueName -> [JobId -> JobState]]
  /\ exec \in [Slots -> Exec]
  /\ req \in [Clients -> Req]
  /\ clock \in 1 .. MaxClock
  /\ runs \in Nat
  /\ spent \in [Event -> Nat]

Init ==
  /\ job = [status |-> "NONE", deleted |-> FALSE]
  /\ files = {} /\ mapping = {} /\ products = {} /\ issues = {}
  /\ usage = 0
  /\ queue = [n \in QueueName |-> [i \in JobId |-> NoJob]]
  /\ exec = [s \in Slots |-> Idle]
  /\ req = [c \in Clients |-> NoReq]
  /\ clock = 1
  /\ runs = 0
  /\ spent = [e \in Event |-> 0]

----------------------------------------------------------------------------
(* Helpers                                                                 *)

Spend(e) == /\ spent' = [spent EXCEPT ![e] = @ + 1]
            /\ \E most \in Bounds : \A v \in Event : spent'[v] <= most[v]

(* findFirst({ id, organizationId, deletedAt: null })                      *)
Found == job.status # "NONE" /\ ~job.deleted

(* importJob.update({ where: { id } }): no condition on the row.           *)
SetStatus(st) == job' = [job EXCEPT !.status = st]

OnQueue(n, q) == queue' = [queue EXCEPT ![n] = q]

Columns(rows) == {r.col : r \in rows}

(* The unique index (importId, sourceColumn) of ColumnMapping.             *)
UniqueColumns(rows) == \A r, t \in rows : r.col = t.col => r = t

CatalogFiles == {f \in files : Type[f] = "CATALOG"}

(* files.find(type === 'CATALOG') over rows read without an orderBy.       *)
CatalogFile(f) ==
  IF CatalogFiles = {} THEN f = NoFile ELSE f \in CatalogFiles

(* One suggestion per header.                                              *)
Suggestions(f) ==
  {[col |-> Headers[f][i], target |-> Detect[Headers[f][i]], user |-> FALSE]
     : i \in DOMAIN Headers[f]}

(* createMany of the suggestions meets no row with one of their columns.   *)
SuggestionsFit(f) ==
  /\ Distinct(Headers[f])
  /\ Columns(Suggestions(f)) \cap Columns(mapping) = {}

(* validateCatalog: an ERROR of the product's own, or its SKU occurs again *)
(* among the rows it was handed.                                           *)
HasError(r, rows) ==
  \/ r.id.key \in Faulty
  \/ \E t \in rows : t # r /\ t.id.key = r.id.key

Verdict(r, rows) == IF HasError(r, rows) THEN "INVALID" ELSE "READY"

----------------------------------------------------------------------------
(* Requests                                                                *)

Begin(c, r) == /\ req[c].pc = "idle"
               /\ Spend("request")
               /\ req' = [req EXCEPT ![c] = r]

Goto(c, pc) == req' = [req EXCEPT ![c].pc = pc]

Respond(c) == req' = [req EXCEPT ![c] = NoReq]

NoRequestVars == <<exec, clock, runs>>

(* POST /imports: one transaction creates the row.                         *)
Create(c) ==
  /\ job.status = "NONE"
  /\ Begin(c, NoReq)
  /\ SetStatus("CREATED")
  /\ UNCHANGED <<files, mapping, products, issues, usage, queue, NoRequestVars>>

(* A handler that found the import and goes on at pc.                      *)
Handle(c, pc, f, m) ==
  /\ Found
  /\ Begin(c, [pc |-> pc, file |-> f, map |-> m])
  /\ UNCHANGED <<job, files, mapping, products, issues, usage, queue, NoRequestVars>>

(* POST /uploads/presign *)
Presign(c) == Handle(c, "uploading", NoFile, {})

(* POST /imports/:id/files/confirm *)
Confirm(c, f) == Handle(c, "file", f, {})

(* PUT /imports/:id/mappings: an empty mapping is refused.                 *)
Save(c, m) == m # {} /\ Handle(c, "replace", NoFile, m)

(* Variant of Process that does not ask for a mapping.                     *)
ProcessUnmapped(c) ==
  /\ job.status \notin {"PROCESSING", "VALIDATING"}
  /\ Handle(c, "start", NoFile, {})

(* POST /imports/:id/process: needs a mapping, and leaves an import alone  *)
(* that is being processed or validated.                                   *)
Process(c) ==
  /\ mapping # {}
  /\ job.status \notin {"PROCESSING", "VALIDATING"}
  /\ Handle(c, "start", NoFile, {})

(* DELETE /imports/:id *)
Remove(c) == Handle(c, "cancel", NoFile, {})

PresignUpdate(c) ==
  /\ req[c].pc = "uploading"
  /\ SetStatus("UPLOADING")
  /\ Respond(c)
  /\ UNCHANGED <<files, mapping, products, issues, usage, queue, NoRequestVars, spent>>

ConfirmCreate(c) ==
  /\ req[c].pc = "file"
  /\ files' = files \cup {req[c].file}
  /\ Goto(c, "uploaded")
  /\ UNCHANGED <<job, mapping, products, issues, usage, queue, NoRequestVars, spent>>

ConfirmUploaded(c) ==
  /\ req[c].pc = "uploaded"
  /\ SetStatus("UPLOADED")
  /\ IF Type[req[c].file] = "CATALOG" THEN Goto(c, "enqueue") ELSE Respond(c)
  /\ UNCHANGED <<files, mapping, products, issues, usage, queue, NoRequestVars, spent>>

ConfirmEnqueue(c) ==
  /\ req[c].pc = "enqueue"
  /\ OnQueue("import", Add(queue["import"], 0))
  /\ Goto(c, "queued")
  /\ UNCHANGED <<job, files, mapping, products, issues, usage, NoRequestVars, spent>>

(* The status is written after the job can already run.                    *)
ConfirmQueued(c) ==
  /\ req[c].pc = "queued"
  /\ SetStatus("QUEUED")
  /\ Respond(c)
  /\ UNCHANGED <<files, mapping, products, issues, usage, queue, NoRequestVars, spent>>

(* $transaction([deleteMany, createMany]): a mapping that names a column   *)
(* twice violates the unique index and leaves the old rows.                *)
SaveReplace(c) ==
  /\ req[c].pc = "replace"
  /\ mapping' = IF UniqueColumns(req[c].map) THEN req[c].map ELSE mapping
  /\ Respond(c)
  /\ UNCHANGED <<job, files, products, issues, usage, queue, NoRequestVars, spent>>

(* Variant of ProcessStart with a status the enum does not have.           *)
ProcessMarked(c) ==
  /\ req[c].pc = "start"
  /\ SetStatus("STARTED")
  /\ Goto(c, "normalize")
  /\ UNCHANGED <<files, mapping, products, issues, usage, queue, NoRequestVars, spent>>

ProcessStart(c) ==
  /\ req[c].pc = "start"
  /\ SetStatus("QUEUED")
  /\ Goto(c, "normalize")
  /\ UNCHANGED <<files, mapping, products, issues, usage, queue, NoRequestVars, spent>>

ProcessEnqueue(c) ==
  /\ req[c].pc = "normalize"
  /\ OnQueue("normalize", Add(queue["normalize"], clock))
  /\ Respond(c)
  /\ UNCHANGED <<job, files, mapping, products, issues, usage, NoRequestVars, spent>>

(* Variant of RemoveUpdate with a status the enum does not have.           *)
RemoveMarked(c) ==
  /\ req[c].pc = "cancel"
  /\ job' = [status |-> "DELETED", deleted |-> TRUE]
  /\ Respond(c)
  /\ UNCHANGED <<files, mapping, products, issues, usage, queue, NoRequestVars, spent>>

RemoveUpdate(c) ==
  /\ req[c].pc = "cancel"
  /\ job' = [status |-> "CANCELLED", deleted |-> TRUE]
  /\ Respond(c)
  /\ UNCHANGED <<files, mapping, products, issues, usage, queue, NoRequestVars, spent>>

(* An await of the handler rejects, or the API process dies under it.      *)
Abort(c) ==
  /\ req[c].pc # "idle"
  /\ Spend("abort")
  /\ Respond(c)
  /\ UNCHANGED <<job, files, mapping, products, issues, usage, queue, NoRequestVars>>

Call(c) ==
  \/ Create(c) \/ Presign(c) \/ Process(c) \/ Remove(c)
  \/ \E f \in Files : Confirm(c, f)
  \/ \E m \in Bodies : Save(c, m)

Serve(c) ==
  \/ PresignUpdate(c) \/ ConfirmCreate(c) \/ ConfirmUploaded(c)
  \/ ConfirmEnqueue(c) \/ ConfirmQueued(c) \/ SaveReplace(c)
  \/ ProcessStart(c) \/ ProcessEnqueue(c) \/ RemoveUpdate(c)

----------------------------------------------------------------------------
(* Executions                                                              *)

SetExec(s, e) == exec' = [exec EXCEPT ![s] = e]

(* A worker slot takes a waiting job; the processor reads the import and   *)
(* either returns at once (pc "done") or keeps what it read and goes on.   *)
Start(s, n, id, pc, f, m, r, rows) ==
  /\ exec[s].pc = "idle"
  /\ queue[n][id].phase = "waiting"
  /\ OnQueue(n, Take(queue[n], id))
  /\ SetExec(s, [pc |-> pc, q |-> n, id |-> id, lock |-> TRUE, file |-> f, map |-> m,
                 run |-> r, todo |-> <<>>, seen |-> rows, broken |-> FALSE])

StartUnneeded(s, n, id) == Start(s, n, id, "done", NoFile, {}, 0, {})

NoStartVars == <<job, files, mapping, products, issues, usage, req, clock, spent>>

ParseSkips == ~Found \/ job.status \in {"PROCESSING", "READY"}

StartParse(s) ==
  /\ \E id \in JobId :
       IF ParseSkips
       THEN StartUnneeded(s, "import", id)
       ELSE \E f \in Files \cup {NoFile} :
              CatalogFile(f) /\ Start(s, "import", id, "status", f, mapping, 0, {})
  /\ UNCHANGED <<NoStartVars, runs>>

NormalizeSkips == ~Found \/ job.status = "READY"

StartNormalize(s) ==
  /\ \E id \in JobId :
       IF NormalizeSkips
       THEN StartUnneeded(s, "normalize", id) /\ UNCHANGED runs
       ELSE /\ \E f \in Files \cup {NoFile} :
                 CatalogFile(f) /\ Start(s, "normalize", id, "status", f, mapping, runs + 1, {})
            /\ runs' = runs + 1
  /\ UNCHANGED NoStartVars

StartValidate(s) ==
  /\ \E id \in JobId : Start(s, "validate", id, "clear", NoFile, {}, 0, products)
  /\ UNCHANGED <<NoStartVars, runs>>

(* The execution in s stands before the write pc of a queue-n processor.   *)
At(s, n, pc) == exec[s].q = n /\ exec[s].pc = pc

Advance(s, pc) == SetExec(s, [exec[s] EXCEPT !.pc = pc])

NoExecVars == <<files, req, clock, runs, spent>>

(* Both processors: no catalog file among the rows they read.              *)
FileMissing(s) ==
  /\ exec[s].pc = "status" /\ exec[s].file = NoFile
  /\ SetStatus("FAILED")
  /\ Advance(s, "done")
  /\ UNCHANGED <<mapping, products, issues, usage, queue, NoExecVars>>

ParseStatus(s) ==
  /\ At(s, "import", "status") /\ exec[s].file # NoFile
  /\ SetStatus("PARSING")
  /\ Advance(s, "write")
  /\ UNCHANGED <<mapping, products, issues, usage, queue, NoExecVars>>

(* One transaction; the mapping it may fill is the one read at the start,  *)
(* so the insert can meet rows a user has saved meanwhile and roll back.   *)
ParseCommits(s) ==
  /\ exec[s].file \notin Unreadable
  /\ exec[s].map = {} => SuggestionsFit(exec[s].file)

(* Variant of ParseWrite that puts the suggestions in place of all rows.   *)
ParseReplaces(s) ==
  /\ At(s, "import", "write") /\ ParseCommits(s)
  /\ SetStatus("MAPPING_REQUIRED")
  /\ mapping' = Suggestions(exec[s].file)
  /\ Advance(s, "done")
  /\ UNCHANGED <<products, issues, usage, queue, NoExecVars>>

ParseWrite(s) ==
  /\ At(s, "import", "write") /\ ParseCommits(s)
  /\ SetStatus("MAPPING_REQUIRED")
  /\ mapping' = IF exec[s].map = {} THEN mapping \cup Suggestions(exec[s].file) ELSE mapping
  /\ Advance(s, "done")
  /\ UNCHANGED <<products, issues, usage, queue, NoExecVars>>

NormalizeStatus(s) ==
  /\ At(s, "normalize", "status") /\ exec[s].file # NoFile
  /\ SetStatus("PROCESSING")
  /\ Advance(s, "delete")
  /\ UNCHANGED <<mapping, products, issues, usage, queue, NoExecVars>>

(* Variant of NormalizeDelete that keeps the rows of an earlier attempt.   *)
NormalizeKeep(s) ==
  /\ At(s, "normalize", "delete") /\ exec[s].file \notin Unreadable
  /\ SetExec(s, [exec[s] EXCEPT !.pc = "create", !.todo = Catalog[exec[s].file]])
  /\ UNCHANGED <<job, mapping, products, issues, usage, queue, NoExecVars>>

(* Variant of NormalizeDelete that asks for validation before the inserts. *)
NormalizeHurried(s) ==
  /\ At(s, "normalize", "delete") /\ exec[s].file \notin Unreadable
  /\ products' = {} /\ issues' = {}
  /\ SetExec(s, [exec[s] EXCEPT !.pc = "create", !.todo = Catalog[exec[s].file]])
  /\ OnQueue("validate", Add(queue["validate"], 0))
  /\ UNCHANGED <<job, mapping, usage, NoExecVars>>

(* deleteMany cascades to the issues of the deleted products.              *)
NormalizeDelete(s) ==
  /\ At(s, "normalize", "delete") /\ exec[s].file \notin Unreadable
  /\ products' = {} /\ issues' = {}
  /\ SetExec(s, [exec[s] EXCEPT !.pc = "create", !.todo = Catalog[exec[s].file]])
  /\ UNCHANGED <<job, mapping, usage, queue, NoExecVars>>

(* Variant of NewRow that reads the mapping again for every product.       *)
NewRowLive(e) == [id |-> [run |-> e.run, key |-> Head(e.todo)], map |-> mapping,
                  status |-> "PROCESSING"]

(* persistProducts: one insert per product, each its own statement.        *)
NewRow(e) == [id |-> [run |-> e.run, key |-> Head(e.todo)], map |-> e.map,
              status |-> "PROCESSING"]

NormalizeCreate(s) ==
  /\ At(s, "normalize", "create") /\ exec[s].todo # <<>>
  /\ products' = products \cup {NewRow(exec[s])}
  /\ SetExec(s, [exec[s] EXCEPT !.todo = Tail(@)])
  /\ UNCHANGED <<job, mapping, issues, usage, queue, NoExecVars>>

NormalizeUsage(s) ==
  /\ At(s, "normalize", "create") /\ exec[s].todo = <<>>
  /\ usage' = usage + Len(Catalog[exec[s].file])
  /\ Advance(s, "validating")
  /\ UNCHANGED <<job, mapping, products, issues, queue, NoExecVars>>

NormalizeValidating(s) ==
  /\ At(s, "normalize", "validating")
  /\ SetStatus("VALIDATING")
  /\ Advance(s, "add")
  /\ UNCHANGED <<mapping, products, issues, usage, queue, NoExecVars>>

NormalizeEnqueue(s) ==
  /\ At(s, "normalize", "add")
  /\ OnQueue("validate", Add(queue["validate"], 0))
  /\ Advance(s, "done")
  /\ UNCHANGED <<job, mapping, products, issues, usage, NoExecVars>>

ValidateClear(s) ==
  /\ At(s, "validate", "clear")
  /\ issues' = {}
  /\ Advance(s, "issues")
  /\ UNCHANGED <<job, mapping, products, usage, queue, NoExecVars>>

(* Issue rows point at products: the insert is refused when one is gone.   *)
ErrorIds(s) == {r.id : r \in {t \in exec[s].seen : HasError(t, exec[s].seen)}}

IssuesFit(s) == ErrorIds(s) \subseteq {p.id : p \in products}

ValidateIssues(s) ==
  /\ At(s, "validate", "issues") /\ IssuesFit(s)
  /\ issues' = issues \cup ErrorIds(s)
  /\ SetExec(s, [exec[s] EXCEPT !.pc = "mark",
                              !.seen = {[r EXCEPT !.status = Verdict(r, exec[s].seen)] : r \in @}])
  /\ UNCHANGED <<job, mapping, products, usage, queue, NoExecVars>>

(* Promise.all sends every update; one that finds no row rejects, but the  *)
(* others have been sent and land before the attempt is retried.           *)
ValidateMark(s) ==
  /\ At(s, "validate", "mark")
  /\ \E r \in exec[s].seen :
       /\ products' = {IF p.id = r.id THEN [p EXCEPT !.status = r.status] ELSE p : p \in products}
       /\ SetExec(s, [exec[s] EXCEPT !.seen = @ \ {r},
                                   !.broken = @ \/ \A p \in products : p.id # r.id])
  /\ UNCHANGED <<job, mapping, issues, usage, queue, NoExecVars>>

ValidateReady(s) ==
  /\ At(s, "validate", "mark") /\ exec[s].seen = {} /\ ~exec[s].broken
  /\ SetStatus("READY")
  /\ Advance(s, "done")
  /\ UNCHANGED <<mapping, products, issues, usage, queue, NoExecVars>>

Finish(s) ==
  /\ exec[s].pc = "done"
  /\ SetExec(s, Idle)
  /\ IF exec[s].lock
     THEN OnQueue(exec[s].q, Complete(queue[exec[s].q], exec[s].id))
     ELSE UNCHANGED queue
  /\ UNCHANGED <<job, mapping, products, issues, usage, NoExecVars>>

(* The processor throws: BullMQ counts the attempt if the lock still holds.*)
EndAttempt(s) ==
  /\ SetExec(s, Idle)
  /\ IF exec[s].lock
     THEN OnQueue(exec[s].q, Fail(queue[exec[s].q], exec[s].id))
     ELSE UNCHANGED queue
  /\ UNCHANGED <<job, files, mapping, products, issues, usage, req, clock, runs>>

(* What must throw: an unreadable file, an insert or an update refused.    *)
Refused(s) ==
  \/ At(s, "import", "write") /\ ~ParseCommits(s)
  \/ At(s, "normalize", "delete") /\ exec[s].file \in Unreadable
  \/ At(s, "validate", "issues") /\ ~IssuesFit(s)
  \/ At(s, "validate", "mark") /\ exec[s].seen = {} /\ exec[s].broken

Reject(s) == Refused(s) /\ EndAttempt(s) /\ UNCHANGED spent

(* What may throw: any await that is still ahead; at the end of validation *)
(* that is the audit log row, the other processors have none left.         *)
Throw(s) ==
  /\ exec[s].pc \notin {"idle", "done"} \/ At(s, "validate", "done")
  /\ Spend("throw")
  /\ EndAttempt(s)

Work(s) ==
  \/ StartParse(s) \/ StartNormalize(s) \/ StartValidate(s)
  \/ FileMissing(s) \/ ParseStatus(s) \/ ParseWrite(s)
  \/ NormalizeStatus(s) \/ NormalizeDelete(s) \/ NormalizeCreate(s)
  \/ NormalizeUsage(s) \/ NormalizeValidating(s) \/ NormalizeEnqueue(s)
  \/ ValidateClear(s) \/ ValidateIssues(s) \/ ValidateMark(s) \/ ValidateReady(s)
  \/ Finish(s) \/ Reject(s)

----------------------------------------------------------------------------
(* The environment of the worker                                           *)

NoEnvVars == <<job, files, mapping, products, issues, usage, req, runs>>

(* The worker process dies; its jobs stay active in Redis.                 *)
Crash ==
  /\ \E s \in Slots : exec[s].pc # "idle"
  /\ Spend("crash")
  /\ exec' = [s \in Slots |-> Idle]
  /\ UNCHANGED <<NoEnvVars, queue, clock>>

Holder(s, n, id) == /\ exec[s].pc # "idle" /\ exec[s].lock
                    /\ exec[s].q = n /\ exec[s].id = id

(* The stall checker finds a job whose execution died.                     *)
Recover(n, id) ==
  /\ queue[n][id].phase = "active"
  /\ \A s \in Slots : ~Holder(s, n, id)
  /\ OnQueue(n, Stall(queue[n], id))
  /\ UNCHANGED <<NoEnvVars, exec, clock, spent>>

(* It finds a job whose execution is alive but too busy to renew its lock: *)
(* the execution goes on, and the job can be taken again beside it.        *)
LoseLock(s) ==
  /\ exec[s].pc # "idle" /\ exec[s].lock
  /\ Spend("stall")
  /\ OnQueue(exec[s].q, Stall(queue[exec[s].q], exec[s].id))
  /\ SetExec(s, [exec[s] EXCEPT !.lock = FALSE])
  /\ UNCHANGED <<NoEnvVars, clock>>

Forget(n, id) ==
  /\ Retained(queue[n], id)
  /\ Spend("evict")
  /\ OnQueue(n, Evict(queue[n], id))
  /\ UNCHANGED <<NoEnvVars, exec, clock>>

Tick ==
  /\ clock < MaxClock
  /\ clock' = clock + 1
  /\ UNCHANGED <<NoEnvVars, exec, queue, spent>>

Surroundings ==
  \/ Tick
  \/ \E n \in QueueName, id \in JobId : Recover(n, id) \/ Forget(n, id)
  \/ \E s \in Slots : LoseLock(s) \/ Throw(s)

Environment == Crash \/ Surroundings

Next ==
  \/ \E c \in Clients : Call(c) \/ Serve(c) \/ Abort(c)
  \/ \E s \in Slots : Work(s)
  \/ Environment

Spec == Init /\ [][Next]_vars

----------------------------------------------------------------------------
(* Properties of every use of the API                                      *)

(* No product is ever built from an empty mapping: process refuses an      *)
(* import without ColumnMapping rows, and although normalization reads the *)
(* rows much later, no save in between ever leaves the import without any. *)
MappedProducts == \A p \in products : p.map # {}

(* Rows written by one execution of normalization were all built from the  *)
(* mapping it read at its start, also when the user saves another mapping  *)
(* while the insert loop runs.                                             *)
OneMappingPerRun ==
  \A p, r \in products : p.id.run = r.id.run => p.map = r.map

UserRows(rows) == {r \in rows : r.user}

MappingStep ==
  \/ UserRows(mapping) \subseteq mapping' /\ UniqueColumns(mapping')
  \/ \E c \in Clients : req[c].pc = "replace" /\ mapping' = req[c].map

(* Rows the user confirmed go only when a PUT replaces the mapping: a late *)
(* or repeated parse neither removes them nor suggests for their columns.  *)
UserMappingKept == [][MappingStep]_vars

=============================================================================
