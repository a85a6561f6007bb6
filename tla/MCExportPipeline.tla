-------------------------- MODULE MCExportPipeline --------------------------
(* Small instances of exports beside the import pipeline.                  *)
EXTENDS ExportPipeline

MCType == [f \in Files |-> "CATALOG"]

MCHeaders == [f \in Files |-> <<"c1">>]

MCDetect == [c \in Cols |-> "ignore"]

MCCatalog == [f \in Files |-> <<"k1", "k2">>]

MCMapping == {[col |-> "c1", target |-> "title", user |-> TRUE]}

MCBodies == {MCMapping}

(* Of the pipeline only the end of a validation is left to run.            *)
MCNone == {[v \in Event |-> 0]}

Most(request, throw, abort, crash, stall) ==
  [request |-> request, throw |-> throw, abort |-> abort, crash |-> crash, stall |-> stall]

MCFailures == {Most(2, 1, 0, 1, 0), Most(2, 2, 1, 0, 0), Most(3, 1, 0, 0, 0), Most(2, 0, 1, 0, 1)}

(* What a pipeline that went through without failures leaves behind: two   *)
(* judged products, and validation about to write its audit row.           *)
MCProducts ==
  {[id |-> [run |-> 1, key |-> k], map |-> MCMapping,
    status |-> IF k \in Faulty THEN "INVALID" ELSE "READY"] : k \in Keys}

Jobs(asked, judging) ==
  [n \in QueueName |->
     [i \in JobId |->
        CASE n = "validate" /\ i = 0  -> [NoJob EXCEPT !.phase = judging]
          [] n = "normalize" /\ i = 1 -> [NoJob EXCEPT !.phase = asked]
          [] i = 0 -> [NoJob EXCEPT !.phase = "completed"]
          [] OTHER -> NoJob]]

MCInit ==
  /\ files = Files /\ mapping = MCMapping /\ products = MCProducts
  /\ issues = {p.id : p \in {r \in MCProducts : r.status = "INVALID"}}
  /\ usage = 2
  /\ req = [c \in Clients |-> NoReq]
  /\ clock = 1 /\ runs = 1
  /\ spent = [e \in Event |-> 0]
  /\ export = [e \in Exports |-> [status |-> "NONE", total |-> 0]]
  /\ object = [e \in Exports |-> {}]
  /\ copies = [e \in Exports |-> <<>>]
  /\ edits = {}
  /\ xqueue = [e \in Exports |-> NoJob]
  /\ xexec = [s \in Slots |-> ExportIdle]
  /\ xreq = [c \in Clients |-> NoExportReq]
  /\ late = {} /\ moved = {}

ReadyInit ==
  /\ MCInit
  /\ job = [status |-> "READY", deleted |-> FALSE]
  /\ xspent = [v \in ExportEvent |-> 0]
  /\ queue = Jobs("absent", "active")
  /\ exec \in {[s \in Slots |-> IF s = t
                 THEN [Idle EXCEPT !.pc = "done", !.q = "validate", !.lock = TRUE]
                 ELSE Idle] : t \in Slots}

(* A user has asked for the products again, long enough after the first    *)
(* time for Redis to have dropped the job that validated them.  Of the     *)
(* bounds a request and a throw are left.                                  *)
AgainInit ==
  /\ MCInit
  /\ job = [status |-> "QUEUED", deleted |-> FALSE]
  /\ queue = Jobs("waiting", "absent")
  /\ exec = [s \in Slots |-> Idle]
  /\ xspent = Most(1, 1, 1, 0, 0)

ReadySpec == (ReadyInit \/ AgainInit) /\ [][ExportNext]_allVars

FairReadySpec == ReadySpec /\ ExportFairness

=============================================================================
