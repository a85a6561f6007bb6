--------------------------- MODULE ExportPipeline ---------------------------
(***************************************************************************)
(* Exports of the import beside the pipeline that makes its products:      *)
(* POST /exports, the export processor of the worker, edits of products    *)
(* through PATCH /products/:id, and whatever ImportPipeline does to the    *)
(* same Product rows meanwhile.                                            *)
(*                                                                         *)
(* The export writes four things one after the other: the object in        *)
(* storage, its ExportFile row, the ExportJob status and the status of the *)
(* products.                                                               *)
(***************************************************************************)
EXTENDS ImportPipeline

CONSTANTS
  Exports,     \* ids of ExportJob rows
  NoExport,    \* "no export", not a member of Exports
  Fields,      \* editable fields of a product
  ExportBounds \* bound: as Bounds, for the kinds of events below

(* Requests, awaits that throw, handlers that die half way, deaths of the  *)
(* worker process and locks lost, as in ImportPipeline.                    *)
ExportEvent == {"request", "throw", "abort", "crash", "stall"}

ASSUME ExportAssumption ==
  /\ NoExport \notin Exports
  /\ ExportBounds \subseteq [ExportEvent -> Nat]

VARIABLES
  export,   \* the ExportJob rows
  object,   \* storage: what was last put under the key of each export
  copies,   \* the ExportFile rows of each export, as the checksums they hold
  edits,    \* which fields of which Product row a user has changed
  xqueue,   \* the catalog-export queue
  xexec,    \* the execution of the export processor in each worker slot
  xreq,     \* the request of each client of these handlers
  xspent    \* how often each ExportEvent has happened

(* History, which the actions do not read: the Product rows inserted while *)
(* some export was running, and the exports during which the rows of the   *)
(* import changed.                                                         *)
VARIABLES late, moved

exportVars == <<export, object, copies, edits, xqueue, xexec, xreq, xspent>>

historyVars == <<late, moved>>

allVars == <<vars, exportVars, historyVars>>

----------------------------------------------------------------------------
(* Types                                                                   *)

ExportStatus == {"NONE", "QUEUED", "PROCESSING", "COMPLETED"}

(* total is totalProducts.                                                 *)
ExportJob == [status : ExportStatus, total : Nat]

Edit == [id : RowId, field : Fields]

(* What a CSV says of one product.  In the file it is a block of rows, one *)
(* for each variant and each further image: ShopifyRows.                   *)
Entry == [id : RowId, edited : SUBSET Fields]

ExportPc == {"idle", "status", "put", "file", "complete", "mark", "done"}

(* read: the products as findFirst returned them.                          *)
ExportExec == [pc : ExportPc, id : Exports \cup {NoExport}, lock : BOOLEAN, read : SUBSET Entry]

ExportIdle == [pc |-> "idle", id |-> NoExport, lock |-> FALSE, read |-> {}]

ExportReqPc == {"idle", "commit", "add", "patch"}

ExportReq == [pc : ExportReqPc, id : Exports \cup {NoExport}, total : Nat, edit : SUBSET Edit]

NoExportReq == [pc |-> "idle", id |-> NoExport, total |-> 0, edit |-> {}]

ExportTypeOK ==
  /\ TypeOK
  /\ export \in [Exports -> ExportJob]
  /\ object \in [Exports -> SUBSET SUBSET Entry]
  /\ copies \in [Exports -> Seq(SUBSET Entry)]
  /\ edits \subseteq Edit
  /\ xqueue \in [Exports -> JobState]
  /\ xexec \in [Slots -> ExportExec]
  /\ xreq \in [Clients -> ExportReq]
  /\ xspent \in [ExportEvent -> Nat]
  /\ late \subseteq RowId /\ moved \subseteq Exports

(* object[e] is {} before the first put and a singleton afterwards.        *)
ExportVarsInit ==
  /\ export = [e \in Exports |-> [status |-> "NONE", total |-> 0]]
  /\ object = [e \in Exports |-> {}]
  /\ copies = [e \in Exports |-> <<>>]
  /\ edits = {}
  /\ xqueue = [e \in Exports |-> NoJob]
  /\ xexec = [s \in Slots |-> ExportIdle]
  /\ xreq = [c \in Clients |-> NoExportReq]
  /\ xspent = [v \in ExportEvent |-> 0]
  /\ late = {} /\ moved = {}

ExportInit == Init /\ ExportVarsInit

----------------------------------------------------------------------------
(* Helpers                                                                 *)

ExportSpend(v) == /\ xspent' = [xspent EXCEPT ![v] = @ + 1]
                  /\ \E most \in ExportBounds :
                       \A w \in ExportEvent : xspent'[w] <= most[w]

(* The primary keys of the rows: a count of rows is a count of these.      *)
RowIds == {p.id : p \in products}

EditsOf(id) == {d \in edits : d.id = id}

(* Variant of Entries that leaves out what validation has not passed.        *)
EntriesReady == {[id |-> p.id, edited |-> {d.field : d \in EditsOf(p.id)}]
                 : p \in {r \in products : r.status = "READY"}}

(* Every product of the import, whatever its status.                       *)
Entries == {[id |-> p.id, edited |-> {d.field : d \in EditsOf(p.id)}] : p \in products}

----------------------------------------------------------------------------
(* Requests                                                                *)

ExportBegin(c, r) == /\ xreq[c].pc = "idle"
                     /\ ExportSpend("request")
                     /\ xreq' = [xreq EXCEPT ![c] = r]

ExportRespond(c) == xreq' = [xreq EXCEPT ![c] = NoExportReq]

(* POST /exports: finds the import, whatever its status, and counts.       *)
CreateExport(c, e) ==
  /\ Found /\ export[e].status = "NONE"
  /\ \A d \in Clients : xreq[d].pc = "commit" => xreq[d].id # e
  /\ ExportBegin(c, [NoExportReq EXCEPT !.pc = "commit", !.id = e,
                                        !.total = Cardinality(RowIds)])
  /\ UNCHANGED <<vars, export, object, copies, edits, xqueue, xexec>>

(* Variant of CreateCommit with the status of a later step.                *)
CreateStarted(c) ==
  /\ xreq[c].pc = "commit"
  /\ export' = [export EXCEPT ![xreq[c].id] = [status |-> "STARTED", total |-> xreq[c].total]]
  /\ xreq' = [xreq EXCEPT ![c].pc = "add"]
  /\ UNCHANGED <<vars, object, copies, edits, xqueue, xexec, xspent>>

CreateCommit(c) ==
  /\ xreq[c].pc = "commit"
  /\ export' = [export EXCEPT ![xreq[c].id] = [status |-> "QUEUED", total |-> xreq[c].total]]
  /\ xreq' = [xreq EXCEPT ![c].pc = "add"]
  /\ UNCHANGED <<vars, object, copies, edits, xqueue, xexec, xspent>>

CreateAdd(c) ==
  /\ xreq[c].pc = "add"
  /\ xqueue' = Add(xqueue, xreq[c].id)
  /\ ExportRespond(c)
  /\ UNCHANGED <<vars, export, object, copies, edits, xexec, xspent>>

(* PATCH /products/:id reads the row and later writes every field of it,   *)
(* those it did not change as it read them.                                *)
Patch(c, p, f) ==
  /\ ExportBegin(c, [NoExportReq EXCEPT !.pc = "patch",
                                        !.edit = EditsOf(p.id) \cup {[id |-> p.id, field |-> f]}])
  /\ UNCHANGED <<vars, export, object, copies, edits, xqueue, xexec>>

(* The update finds its row, or none: then it throws.                      *)
PatchWrite(c) ==
  /\ xreq[c].pc = "patch"
  /\ LET of == {d.id : d \in xreq[c].edit}
     IN  edits' = IF of \subseteq RowIds
                  THEN {d \in edits : d.id \notin of} \cup xreq[c].edit
                  ELSE edits
  /\ ExportRespond(c)
  /\ UNCHANGED <<vars, export, object, copies, xqueue, xexec, xspent>>

ExportAbort(c) ==
  /\ xreq[c].pc # "idle"
  /\ ExportSpend("abort")
  /\ ExportRespond(c)
  /\ UNCHANGED <<vars, export, object, copies, edits, xqueue, xexec>>

ExportServe(c) == CreateCommit(c) \/ CreateAdd(c) \/ PatchWrite(c)

----------------------------------------------------------------------------
(* Executions                                                              *)

SetExport(s, x) == xexec' = [xexec EXCEPT ![s] = x]

ExportGo(s, pc) == SetExport(s, [xexec[s] EXCEPT !.pc = pc])

(* Variant of ExportStart without the status guard.                        *)
ExportAgain(s, e) ==
  /\ xexec[s].pc = "idle" /\ xqueue[e].phase = "waiting"
  /\ xqueue' = Take(xqueue, e)
  /\ SetExport(s, [pc |-> "status", id |-> e, lock |-> TRUE, read |-> Entries])
  /\ UNCHANGED <<vars, export, object, copies, edits, xreq, xspent>>

(* A slot takes the job; the processor reads the export with its products  *)
(* and returns at once from one that is COMPLETED.                         *)
ExportStart(s, e) ==
  /\ xexec[s].pc = "idle" /\ xqueue[e].phase = "waiting"
  /\ xqueue' = Take(xqueue, e)
  /\ SetExport(s, [pc    |-> IF export[e].status = "COMPLETED" THEN "done" ELSE "status",
                   id    |-> e, lock |-> TRUE,
                   read  |-> Entries])
  /\ UNCHANGED <<vars, export, object, copies, edits, xreq, xspent>>

ExportProcessing(s) ==
  /\ xexec[s].pc = "status"
  /\ export' = [export EXCEPT ![xexec[s].id].status = "PROCESSING"]
  /\ ExportGo(s, "put")
  /\ UNCHANGED <<vars, object, copies, edits, xqueue, xreq, xspent>>

(* Variant of ExportPut that leaves the object to a later step.            *)
ExportPutLater(s) ==
  /\ xexec[s].pc = "put"
  /\ ExportGo(s, "file")
  /\ UNCHANGED <<vars, export, object, copies, edits, xqueue, xreq, xspent>>

(* The key holds the id of the export: a second put replaces the first.    *)
ExportPut(s) ==
  /\ xexec[s].pc = "put"
  /\ object' = [object EXCEPT ![xexec[s].id] = {xexec[s].read}]
  /\ ExportGo(s, "file")
  /\ UNCHANGED <<vars, export, copies, edits, xqueue, xreq, xspent>>

ExportFile(s) ==
  /\ xexec[s].pc = "file"
  /\ copies' = [copies EXCEPT ![xexec[s].id] = Append(@, xexec[s].read)]
  /\ ExportGo(s, "complete")
  /\ UNCHANGED <<vars, export, object, edits, xqueue, xreq, xspent>>

ExportComplete(s) ==
  /\ xexec[s].pc = "complete"
  /\ export' = [export EXCEPT ![xexec[s].id].status = "COMPLETED"]
  /\ ExportGo(s, "mark")
  /\ UNCHANGED <<vars, object, copies, edits, xqueue, xreq, xspent>>

(* updateMany: every READY product of the import, in the file or not.      *)
ExportMark(s) ==
  /\ xexec[s].pc = "mark"
  /\ products' = {IF p.status = "READY" THEN [p EXCEPT !.status = "EXPORTED"] ELSE p
                    : p \in products}
  /\ ExportGo(s, "done")
  /\ UNCHANGED <<job, files, mapping, issues, usage, queue, exec, req, clock, runs, spent>>
  /\ UNCHANGED <<export, object, copies, edits, xqueue, xreq, xspent>>

ExportFinish(s) ==
  /\ xexec[s].pc = "done"
  /\ SetExport(s, ExportIdle)
  /\ xqueue' = IF xexec[s].lock THEN Complete(xqueue, xexec[s].id) ELSE xqueue
  /\ UNCHANGED <<vars, export, object, copies, edits, xreq, xspent>>

ExportThrow(s) ==
  /\ xexec[s].pc \notin {"idle", "done"}
  /\ ExportSpend("throw")
  /\ SetExport(s, ExportIdle)
  /\ xqueue' = IF xexec[s].lock THEN Fail(xqueue, xexec[s].id) ELSE xqueue
  /\ UNCHANGED <<vars, export, object, copies, edits, xreq>>

ExportWork(s) ==
  \/ \E e \in Exports : ExportStart(s, e)
  \/ ExportProcessing(s) \/ ExportPut(s) \/ ExportFile(s)
  \/ ExportComplete(s) \/ ExportMark(s) \/ ExportFinish(s)

----------------------------------------------------------------------------
(* The environment of the worker                                           *)

(* One process runs every processor: it takes all executions with it.      *)
WorkerDies ==
  /\ \/ \E s \in Slots : exec[s].pc # "idle"
     \/ \E s \in Slots : xexec[s].pc # "idle"
  /\ ExportSpend("crash")
  /\ exec' = [s \in Slots |-> Idle]
  /\ xexec' = [s \in Slots |-> ExportIdle]
  /\ UNCHANGED <<NoEnvVars, queue, clock, spent>>
  /\ UNCHANGED <<export, object, copies, edits, xqueue, xreq>>

ExportRecover(e) ==
  /\ xqueue[e].phase = "active"
  /\ \A s \in Slots : xexec[s].pc # "idle" /\ xexec[s].lock => xexec[s].id # e
  /\ xqueue' = Stall(xqueue, e)
  /\ UNCHANGED <<vars, export, object, copies, edits, xexec, xreq, xspent>>

ExportLoseLock(s) ==
  /\ xexec[s].pc # "idle" /\ xexec[s].lock
  /\ ExportSpend("stall")
  /\ xqueue' = Stall(xqueue, xexec[s].id)
  /\ SetExport(s, [xexec[s] EXCEPT !.lock = FALSE])
  /\ UNCHANGED <<vars, export, object, copies, edits, xreq>>

(* What the rest of the program does to the import.                        *)
Pipeline ==
  \/ \E c \in Clients : Call(c) \/ Serve(c) \/ Abort(c)
  \/ \E s \in Slots : Work(s)
  \/ Surroundings

(* Between its request and the end of its job an export is open.           *)
Open(e) ==
  \/ \E c \in Clients : xreq[c].pc \in {"commit", "add"} /\ xreq[c].id = e
  \/ xqueue[e].phase \in {"waiting", "active"}
  \/ \E s \in Slots : xexec[s].pc # "idle" /\ xexec[s].id = e

Running == \E s \in Slots : xexec[s].pc \notin {"idle", "done"}

Remember ==
  /\ late' = late \cup (IF Running THEN RowIds' \ RowIds ELSE {})
  /\ moved' = moved \cup (IF RowIds' = RowIds THEN {} ELSE {e \in Exports : Open(e)})

ExportStep ==
  \/ \E c \in Clients : ExportServe(c) \/ ExportAbort(c)
  \/ \E c \in Clients, e \in Exports : CreateExport(c, e)
  \/ \E c \in Clients, p \in products, f \in Fields : Patch(c, p, f)
  \/ \E s \in Slots : ExportWork(s) \/ ExportThrow(s) \/ ExportLoseLock(s)
  \/ \E e \in Exports : ExportRecover(e)
  \/ WorkerDies

ExportNext ==
  \/ ExportStep /\ UNCHANGED historyVars
  \/ Pipeline /\ UNCHANGED exportVars /\ Remember

ExportSpec == ExportInit /\ [][ExportNext]_allVars

(* Slots take and run what waits in their queues; the stall checker runs   *)
(* on a timer.                                                             *)
ExportFairness ==
  /\ \A s \in Slots : WF_allVars(ExportWork(s) /\ UNCHANGED historyVars)
  /\ WF_allVars((\E e \in Exports : ExportRecover(e)) /\ UNCHANGED historyVars)

----------------------------------------------------------------------------
(* Properties                                                              *)

(* As long as no execution has lost its lock, an export that is COMPLETED  *)
(* stays so: the guard of the processor keeps a job that is retried, or    *)
(* recovered after a crash, from starting it over under the user.          *)
Steady == xspent["stall"] = 0

CompletedStays ==
  [][Steady' => \A e \in Exports :
       export[e].status = "COMPLETED" => export'[e].status = "COMPLETED"]_allVars

(* Every product marked EXPORTED can be downloaded: some export has a file *)
(* row, and its stored object has the product.  That is so although the    *)
(* pipeline may process the import again meanwhile, and although the mark  *)
(* is put on every READY product, read or not; what was inserted while an  *)
(* export was running is all that can be marked without being in a file.   *)
ExportedWasStored ==
  \A p \in products : p.status = "EXPORTED" /\ p.id \notin late =>
    \E e \in Exports :
      /\ copies[e] # <<>>
      /\ \E entries \in object[e] : \E x \in entries : x.id = p.id

(* The page of an export says how many products were exported: the count   *)
(* of POST /exports is the number of products in the stored object, which  *)
(* another request reads, possibly several times, unless the rows of the   *)
(* import were replaced between the two.                                   *)
ShownTotal ==
  \A e \in Exports \ moved : export[e].status = "COMPLETED" =>
    \A entries \in object[e] : Cardinality(entries) = export[e].total

(* A queued export is COMPLETED in the end, although its processor may     *)
(* throw less often than a job has attempts.                               *)
QueuedCompletes ==
  \A e \in Exports :
    (xqueue[e].phase = "waiting") ~> [](export[e].status = "COMPLETED")

=============================================================================
