----------------------------- MODULE ImportPage -----------------------------
(***************************************************************************)
(* The import pipeline driven by the web application instead of by         *)
(* arbitrary API calls: browser tabs that run the upload of                *)
(* dashboard/imports/new and the page dashboard/imports/[id].  A tab acts  *)
(* on what it last fetched, which may be stale; it sends the next call     *)
(* only when the previous one has answered.                                *)
(***************************************************************************)
EXTENDS ImportPipeline

CONSTANTS
  Uploader,  \* the tab that creates the import; the others only open it
  Chosen     \* the file it uploads

ASSUME PageAssumption ==
  /\ Uploader \in Clients
  /\ Chosen \in Files /\ Type[Chosen] = "CATALOG"

VARIABLE tab  \* what each browser tab shows and waits for

pageVars == <<vars, tab>>

(* step: where the tab's code is; "closed" for a tab not opened yet.       *)
(* view: status of the last job fetched, rows: mapping last fetched,       *)
(* fetched: mappingQuery has succeeded once.  missed: the answer to a      *)
(* process call did not come.  again: the tab has sent another one after   *)
(* that (history, read by the properties only).                            *)
Step == {"closed", "new", "created", "presigning", "put",
         "confirming", "detail", "saving", "saved", "processing"}

Tab == [step : Step, view : Status, rows : SUBSET MapRow,
        fetched : BOOLEAN, missed : BOOLEAN, again : BOOLEAN]

Blank == [step |-> "closed", view |-> "NONE", rows |-> {},
          fetched |-> FALSE, missed |-> FALSE, again |-> FALSE]

PageTypeOK == TypeOK /\ tab \in [Clients -> Tab]

PageInit ==
  /\ Init
  /\ tab = [c \in Clients |->
              IF c = Uploader THEN [Blank EXCEPT !.step = "new"] ELSE Blank]

SetTab(c, t) == tab' = [tab EXCEPT ![c] = t]

Move(c, from, to) == /\ tab[c].step = from
                     /\ SetTab(c, [tab[c] EXCEPT !.step = to])

(* jobQuery's refetchInterval.                                             *)
Polled == {"QUEUED", "PARSING", "PROCESSING", "VALIDATING", "UPLOADING"}

(* What the detail page does on its own once it is mounted.                *)
FetchJob(c) ==
  /\ tab[c].step = "detail"
  /\ tab[c].view = "NONE" \/ tab[c].view \in Polled
  /\ Found
  /\ SetTab(c, [tab[c] EXCEPT !.view = job.status])
  /\ UNCHANGED vars

(* mappingQuery is enabled by the first job data and then not repeated.    *)
FetchRows(c) ==
  /\ tab[c].step = "detail" /\ tab[c].view # "NONE" /\ ~tab[c].fetched
  /\ Found
  /\ SetTab(c, [tab[c] EXCEPT !.rows = mapping, !.fetched = TRUE])
  /\ UNCHANGED vars

(* refetchOnWindowFocus, on by default, and a reload do both.              *)
Focus(c) ==
  /\ tab[c].step = "detail" /\ Found
  /\ SetTab(c, [tab[c] EXCEPT !.view = job.status, !.rows = mapping, !.fetched = TRUE])
  /\ UNCHANGED vars

OpenTab(c) ==
  /\ Found /\ Move(c, "closed", "detail")
  /\ UNCHANGED vars

(* onSubmit of the upload page.                                            *)
SubmitCreate(c) == Move(c, "new", "created") /\ Create(c)

SubmitPresign(c) == Move(c, "created", "presigning") /\ Presign(c)

SubmitConfirm(c) == Move(c, "put", "confirming") /\ Confirm(c, Chosen)

(* The wizard: every row the tab fetched, with targets the user chose.     *)
Edits(rows) ==
  {m \in Bodies : Columns(m) = Columns(rows)}

WizardShown(c) == tab[c].step = "detail" /\ tab[c].view = "MAPPING_REQUIRED"

ClickProcess(c) ==
  /\ WizardShown(c)
  /\ Move(c, "detail", "saving")
  /\ \E m \in Edits(tab[c].rows) : Save(c, m)

(* process.mutateAsync goes on after saveMappings; a call the API answers  *)
(* without doing anything ends the mutation too.  The button knows nothing *)
(* of an answer that was missed, and the API refuses only PROCESSING and   *)
(* VALIDATING: one tab can queue a second job.                             *)
SendProcess(c) ==
  /\ tab[c].step = "saved"
  /\ SetTab(c, [tab[c] EXCEPT !.step = "processing", !.again = @ \/ tab[c].missed])
  /\ Process(c)

ProcessIgnored(c) ==
  /\ job.status \in {"PROCESSING", "VALIDATING"}
  /\ tab[c].step = "saved"
  /\ SetTab(c, [tab[c] EXCEPT !.step = "detail", !.view = job.status])
  /\ UNCHANGED vars

(* The answer to the call the tab waits for.                               *)
Answered(t) ==
  CASE t.step = "presigning" -> [t EXCEPT !.step = "put"]
    [] t.step = "confirming" -> [t EXCEPT !.step = "detail"]
    [] t.step = "saving"     -> [t EXCEPT !.step = "saved"]
    [] t.step = "processing" -> [t EXCEPT !.step = "detail", !.view = job'.status]
    [] OTHER -> t

TabServe(c) ==
  /\ Serve(c)
  /\ IF req'[c].pc = "idle" THEN SetTab(c, Answered(tab[c])) ELSE UNCHANGED tab

(* The job is queued, but its row cannot be read for the answer, or the    *)
(* answer is lost: the wizard stays.                                       *)
TabMissed(c) ==
  /\ tab[c].step = "processing" /\ ProcessEnqueue(c)
  /\ SetTab(c, [tab[c] EXCEPT !.step = "detail", !.missed = TRUE])

(* A failed call: the upload page shows an error, and the import it made   *)
(* is found again in the list; the wizard stays and can be used again.     *)
TabAbort(c) ==
  /\ Abort(c)
  /\ SetTab(c, [tab[c] EXCEPT !.step = IF @ \in {"presigning", "confirming"} THEN "closed" ELSE "detail"])

TabStep(c) ==
  \/ FetchJob(c) \/ FetchRows(c) \/ OpenTab(c)
  \/ SubmitCreate(c) \/ SubmitPresign(c) \/ SubmitConfirm(c)
  \/ SendProcess(c) \/ ProcessIgnored(c) \/ TabServe(c)

PageNext ==
  \/ \E c \in Clients : TabStep(c) \/ ClickProcess(c) \/ Focus(c) \/ TabAbort(c) \/ TabMissed(c)
  \/ \E s \in Slots : Work(s) /\ UNCHANGED tab
  \/ Environment /\ UNCHANGED tab

PageSpec == PageInit /\ [][PageNext]_pageVars

(* Weak fairness of what runs without a decision of anyone's: the calls of *)
(* a tab and their handlers, polling, the worker's slots and BullMQ's      *)
(* stall checker.  Clicking is fair too: the user wants the catalog.       *)
PageFairness ==
  /\ \A c \in Clients : WF_pageVars(TabStep(c)) /\ WF_pageVars(ClickProcess(c))
  /\ \A s \in Slots : WF_pageVars(Work(s) /\ UNCHANGED tab)
  /\ WF_pageVars((\E n \in QueueName, id \in JobId : Recover(n, id)) /\ UNCHANGED tab)

FairPageSpec == PageSpec /\ PageFairness

----------------------------------------------------------------------------
(* Properties                                                              *)

(* Somebody may save a mapping after the products have been asked for.     *)
SavedLater == \E c \in Clients : tab[c].missed

(* Somebody asked for the products a second time, the answer to the first  *)
(* call having been missed: the only way two normalize jobs come to be.    *)
AskedAgain == \E c \in Clients : tab[c].again

KeysOf(f) == {Catalog[f][i] : i \in DOMAIN Catalog[f]}

StoredKeys == {p.id.key : p \in products}

(* When an import is READY and nobody asked twice, its Product rows are    *)
(* exactly the products of the uploaded catalog, each once, judged against *)
(* each other, built from the mapping the user sees (unless the answer to  *)
(* the process call was missed: the wizard is still there, and what it     *)
(* saves then comes after the products), with an issue for every INVALID   *)
(* one unless a validation that threw at its audit log row is due again:   *)
(* neither a retry of the delete-then-insert loop of normalization nor one *)
(* of validation may lose, double or half-judge a row.                     *)
ExactlyStored ==
  /\ StoredKeys = KeysOf(Chosen)
  /\ Cardinality(products) = Len(Catalog[Chosen])
  /\ \A p \in products : p.status = Verdict(p, products)
  /\ SavedLater \/ \A p \in products : p.map = mapping
  /\ \/ issues = {p.id : p \in {r \in products : r.status = "INVALID"}}
     \/ queue["validate"][0].phase \in {"waiting", "active"}

(* If somebody did ask twice, products may be there twice or half-judged,  *)
(* but none is missing once no normalize job is left and nothing threw (a  *)
(* job that throws after its delete and finds READY when it is retried     *)
(* does nothing more).                                                     *)
NothingLost ==
  spent["throw"] = 0 /\ (\A id \in JobId : queue["normalize"][id].phase \notin {"waiting", "active"})
    => StoredKeys = KeysOf(Chosen)

ReadyExact ==
  job.status = "READY" => IF AskedAgain THEN NothingLost ELSE ExactlyStored

(* No two executions that rewrite the products of the import overlap: the  *)
(* insert loop of normalization and the judging and marking of validation  *)
(* never see half of each other's rows.  Where somebody asked twice only   *)
(* validations still exclude each other, by their one job id.              *)
Rewrites(s) == exec[s].pc \in {"delete", "create", "clear", "issues", "mark"}

SingleWriter ==
  \A s, t \in Slots :
    Rewrites(s) /\ Rewrites(t) /\ s # t
      => AskedAgain /\ "normalize" \in {exec[s].q, exec[t].q}

(* An import whose processing has been queued becomes READY and stays so,  *)
(* although processors may throw as often as the attempts of a job allow,  *)
(* unless somebody asks a second time: that job's validation is dropped if *)
(* the first one's is still on record, and the import stays VALIDATING.    *)
ProcessedGetsReady ==
  (\E id \in JobId : queue["normalize"][id].phase = "waiting")
    ~> [](job.status = "READY" \/ AskedAgain)

(* No product of the catalog is stored twice.                              *)
NoTwins == \A p, r \in products : p.id.key = r.id.key => p = r

(* Having uploaded its file, the tab is shown the column mapping wizard.   *)
UploadShowsWizard ==
  (job.status = "UPLOADED" /\ tab[Uploader].step = "confirming") ~> WizardShown(Uploader)

=============================================================================
