------------------------------ MODULE Workbench ------------------------------
(***************************************************************************)
(* A browser tab at the catalogs of one organization: the overview, the    *)
(* lists, the upload form and the pages of an import, a product and an     *)
(* export, with what the API answers them, beside another client of the    *)
(* organization that edits products, resolves issues and deletes imports.  *)
(*                                                                         *)
(* The worker is reduced to what a page can see of it, and an import has   *)
(* one product; the modules ImportPipeline and ExportPipeline have the     *)
(* rest.  A page that is left drops what it has fetched (React Query keeps *)
(* it, and shows it until the answer to the same question arrives).        *)
(***************************************************************************)
EXTENDS Naturals, Sequences, FiniteSets

CONSTANTS
  Files,       \* files the user may choose
  Flawed,      \* those whose row breaks a rule
  NoFile,
  Titles,      \* titles the user may type
  Vendors,     \* vendors the other client may send (and titles)
  Raw,         \* title and vendor as they were in the file
  NoData,      \* what a query holds before its first answer; no product, no draft
  MaxImports,  \* bound: submits of the upload form
  MaxExports,  \* bound: exports
  MaxUpsets    \* bound: requests that fail, and what the other client does

VARIABLES
  imports,  \* ImportJob rows, oldest first, each with its file and product
  exports,  \* ExportJob rows, oldest first
  other,    \* the other client's PATCH
  clash,    \* whether one PATCH has written while another held what it had read
  stale,    \* whether a save has sent a title nobody typed and that is not stored any more
  upsets,   \* requests that failed, and what the other client did, so far
  route,    \* the page, and of what
  shown,    \* what the queries of the page hold
  asked,    \* the queries of the page that are under way
  answer,   \* the product page: an answer on its way
  draft,    \* the product page: the text typed into the title field
  save,     \* the PATCH of the product page
  form,     \* the upload form: the chosen file and the submit it waits for
  uploads   \* submits of the form, those of a page that was left included

rowVars == <<imports, exports, other, clash, stale, upsets>>
pageVars == <<route, shown, asked, answer, draft, form>>
vars == <<rowVars, pageVars, save, uploads>>

ImportStatus == {"CREATED", "UPLOADING", "QUEUED", "MAPPING_REQUIRED", "PROCESSING", "READY", "CANCELLED"}
ExportStatus == {"QUEUED", "PROCESSING", "COMPLETED"}
UploadPc == {"create", "presign", "put", "confirm", "redirect", "done", "failed"}
PatchPc == {"idle", "sent", "read", "written"}
Queries == {"main", "job", "products", "summary"}

Lists == {"dashboard", "imports", "exports"}
PageName == Lists \cup {"new", "import", "product", "export"}

(* The columns of the rows.                                                *)
Title == Titles \cup {Raw}
Vendor == Vendors \cup {Raw}
ProductStatus == {"INVALID", "READY", "EXPORTED"}
Product == [title : Title, vendor : Vendor, issue : {"none", "open", "resolved"}, status : ProductStatus,
            named : [title : Title, vendor : Vendor]]
Import == [status : ImportStatus, file : Files \cup {NoFile}, mapped : BOOLEAN, deleted : BOOLEAN,
           product : Product \cup {NoData}]
Export == [import : Nat, status : ExportStatus, files : {0, 1}]
Item == [title : Title, vendor : Vendor, status : ProductStatus, errors : BOOLEAN]

(* A submit of the form, and a PATCH on its way: whether its client has    *)
(* entered what it sends, or sends what it was shown.                      *)
Upload == [pc : UploadPc, import : Nat, file : Files]
Patch == [pc : PatchPc, import : Nat, entered : BOOLEAN, read : Product \cup {NoData},
          body : [title : Title \cup {NoData}, vendor : Vendor \cup {NoData}] \cup {NoData}]

ASSUME WorkbenchAssumption ==
  /\ NoFile \notin Files /\ Flawed \subseteq Files /\ Raw \notin Titles \cup Vendors
  /\ NoData \notin Title \cup Vendor \cup ImportStatus \cup ExportStatus \cup Product
  /\ NoData \notin {{}} \cup {{item} : item \in Item}
  /\ MaxImports \in Nat /\ MaxExports \in Nat /\ MaxUpsets \in Nat

At(name, id) == [name |-> name, id |-> id]

NoImport == 0
NewImport == [status |-> "CREATED", file |-> NoFile, mapped |-> FALSE, deleted |-> FALSE, product |-> NoData]
NoPatch == [pc |-> "idle", import |-> NoImport, entered |-> TRUE, body |-> NoData, read |-> NoData]
NoSave == [patch |-> NoPatch, here |-> FALSE, last |-> NoData, at |-> 0]
NoForm == [file |-> NoFile, busy |-> 0]
Blank == [q \in Queries |-> NoData]

Init ==
  /\ imports = <<>> /\ exports = <<>>
  /\ other = NoPatch /\ clash = FALSE /\ stale = FALSE /\ upsets = 0
  /\ route = At("dashboard", 0) /\ shown = Blank /\ asked = {"main"} /\ answer = NoData
  /\ draft = NoData /\ save = NoSave /\ form = NoForm /\ uploads = <<>>

Upset == upsets < MaxUpsets /\ upsets' = upsets + 1

-----------------------------------------------------------------------------
(* What the API answers                                                    *)

Live == {i \in DOMAIN imports : ~imports[i].deleted}
Made == {i \in DOMAIN imports : imports[i].product # NoData}

Errors(I) == {i \in I \cap Made : imports[i].product.issue = "open"}
Ready(I) == {i \in I \cap Made : imports[i].product.status = "READY"}

(* validation-summary, with the two counters other pages have as well.     *)
Summary(I) == [errors |-> Cardinality(Errors(I)), ready |-> Cardinality(Ready(I))]

ImportList == [i \in Live |-> imports[i].status]
ExportList == [e \in DOMAIN exports |-> exports[e].status]

(* The counters of the overview know nothing of deletedAt; its lists hold  *)
(* the last five.                                                          *)
Dashboard ==
  [errors |-> Cardinality(Errors(DOMAIN imports)), ready |-> Cardinality(Ready(DOMAIN imports)),
   imports |-> ImportList, exports |-> ExportList]

(* The list of an import's products has the issues nobody has resolved,    *)
(* the product itself all of them.                                         *)
ProductItem(i) ==
  LET p == imports[i].product
  IN  [title |-> p.title, vendor |-> p.vendor, status |-> p.status, errors |-> i \in Errors({i})]

ProductDetail(i) ==
  LET p == imports[i].product IN [title |-> p.title, vendor |-> p.vendor, errors |-> p.issue # "none"]

Found(r) == r.name \in {"import", "product"} => r.id \in Live

AnswerTo(q, r) ==
  CASE r.name = "dashboard" -> Dashboard
    [] r.name = "imports" -> ImportList
    [] r.name = "exports" -> ExportList
    [] r.name = "export" -> exports[r.id].status
    [] r.name = "product" -> ProductDetail(r.id)
    [] q = "job" -> imports[r.id].status
    [] q = "products" -> IF r.id \in Made THEN {ProductItem(r.id)} ELSE {}
    [] q = "summary" -> Summary({r.id})

-----------------------------------------------------------------------------
(* What the pages show                                                     *)

(* The badge of all lists but the one of the exports.                      *)
StatusBadge(status) ==
  CASE status \in {"COMPLETED", "READY"} -> "success"
    [] status \in {"FAILED", "INVALID"} -> "error"
    [] OTHER -> "warning"

Polled == {"QUEUED", "PARSING", "PROCESSING", "VALIDATING", "UPLOADING"}

DashboardPage(data) ==
  IF data = NoData THEN [needsAttention |-> 0, readyToExport |-> 0, recent |-> {}]
  ELSE [needsAttention |-> data.errors, readyToExport |-> data.ready,
        recent |-> {<<i, StatusBadge(data.imports[i])>> : i \in DOMAIN data.imports}
                     \cup {<<e, StatusBadge(data.exports[e])>> : e \in DOMAIN data.exports}]

ImportsPage(data) ==
  IF data = NoData THEN {} ELSE {<<i, StatusBadge(data[i])>> : i \in DOMAIN data}

(* Every export has a link to download it, whatever its status.            *)
ExportsPage(data) ==
  IF data = NoData THEN {} ELSE {<<e, data[e], "Download">> : e \in DOMAIN data}

ImportPage(held) ==
  [badge |-> StatusBadge(held["job"]), bar |-> held["job"] \in Polled \ {"UPLOADING"},
   wizard |-> held["job"] = "MAPPING_REQUIRED", export |-> held["job"] \in {"READY", "COMPLETED"},
   summary |-> held["summary"],
   rows |-> IF held["products"] = NoData THEN {}
            ELSE {<<p, StatusBadge(p.status), IF p.errors THEN "Error" ELSE "OK">> : p \in held["products"]}]

ProductPage(data) ==
  IF data = NoData THEN [title |-> NoData]
  ELSE [title |-> data.title, field |-> IF draft = NoData THEN data.title ELSE draft,
        vendor |-> data.vendor, errors |-> data.errors]

ExportPage(status) ==
  CASE status = "COMPLETED" -> "Export File Ready!"
    [] status = "FAILED" -> "Export Generation Failed"
    [] OTHER -> "Building Export File"

Screen(r, held) ==
  CASE r.name = "dashboard" -> DashboardPage(held["main"])
    [] r.name = "imports" -> ImportsPage(held["main"])
    [] r.name = "exports" -> ExportsPage(held["main"])
    [] r.name = "import" -> ImportPage(held)
    [] r.name = "product" -> ProductPage(held["main"])
    [] r.name = "export" -> ExportPage(held["main"])
    [] r.name = "new" -> form

(* What the user may follow from here.                                     *)
Links ==
  {At(name, 0) : name \in Lists \cup {"new"}}
    \cup (IF route.name = "import" /\ shown["products"] \notin {NoData, {}} THEN {At("product", route.id)} ELSE {})
    \cup (IF route.name = "imports" /\ shown["main"] # NoData
          THEN {At("import", i) : i \in DOMAIN shown["main"]} ELSE {})
    \cup (IF route.name = "dashboard" /\ shown["main"] # NoData
          THEN {At("import", i) : i \in DOMAIN shown["main"].imports} ELSE {})
    \cup (IF route.name = "exports" /\ shown["main"] # NoData
          THEN {At("export", e) : e \in DOMAIN shown["main"]} ELSE {})

-----------------------------------------------------------------------------
(* Queries                                                                 *)

Enabled(q, r, held) ==
  CASE q = "main" -> r.name \in Lists \cup {"product", "export"}
    [] q = "job" -> r.name = "import"
    [] q = "products" -> r.name = "import" /\ held["job"] \in {"READY", "COMPLETED"}
    [] q = "summary" -> r.name = "import" /\ held["products"] # NoData

EnabledOf(r, held) == {q \in Queries : Enabled(q, r, held)}

\* A bug: what the page that was left had asked for is still awaited.
GotoKeeps(r) ==
  /\ route' = r /\ shown' = Blank /\ asked' = asked \cup EnabledOf(r, Blank) /\ answer' = NoData
  /\ draft' = NoData /\ form' = NoForm
  /\ save' = [save EXCEPT !.here = FALSE, !.last = NoData]

(* A page is mounted, and whatever was mounted is not any more.            *)
Goto(r) ==
  /\ route' = r /\ shown' = Blank /\ asked' = EnabledOf(r, Blank) /\ answer' = NoData
  /\ draft' = NoData /\ form' = NoForm
  /\ save' = [save EXCEPT !.here = FALSE, !.last = NoData]

Stay == UNCHANGED <<route, draft, save, form, uploads>>

Follow(r) ==
  /\ r \in Links \ {route} /\ Goto(r)
  /\ UNCHANGED <<rowVars, uploads>>

(* What a query enables is asked for at once.                              *)
Hold(q, data) ==
  LET held == [shown EXCEPT ![q] = data]
  IN  /\ shown' = held
      /\ asked' = (asked \ {q}) \cup (EnabledOf(route, held) \ EnabledOf(route, shown))

(* A 404 leaves what is shown.                                             *)
Fetch(q) ==
  /\ q \in asked /\ (route.name = "product" => ~Found(route))
  /\ IF Found(route) THEN Hold(q, AnswerTo(q, route))
     ELSE asked' = asked \ {q} /\ UNCHANGED shown
  /\ answer' = NoData /\ UNCHANGED rowVars /\ Stay

(* The answer of the product page takes its time, since saving asks again. *)
ServeProduct ==
  /\ route.name = "product" /\ "main" \in asked /\ Found(route) /\ answer = NoData
  /\ answer' = AnswerTo("main", route)
  /\ UNCHANGED <<rowVars, shown, asked>> /\ Stay

ReceiveProduct ==
  /\ answer # NoData /\ Hold("main", answer) /\ answer' = NoData
  /\ UNCHANGED rowVars /\ Stay

FetchFails(q) ==
  /\ q \in asked /\ Upset
  /\ asked' = asked \ {q} /\ answer' = NoData
  /\ UNCHANGED <<imports, exports, other, clash, stale, shown>> /\ Stay

(* refetchInterval.                                                        *)
Poll ==
  /\ \/ route.name = "import" /\ shown["job"] \in Polled /\ asked' = asked \cup {"job"}
     \/ route.name = "export" /\ shown["main"] \notin {"COMPLETED", "FAILED"} /\ asked' = asked \cup {"main"}
  /\ UNCHANGED <<rowVars, shown, answer>> /\ Stay

\* A bug: only the first query of a page is asked again.
FocusFirst ==
  /\ asked' = asked \cup (EnabledOf(route, shown) \ {"products", "summary"})
  /\ UNCHANGED <<rowVars, shown, answer>> /\ Stay

(* The window gets the focus; what is under way goes on.                   *)
Focus ==
  /\ asked' = asked \cup EnabledOf(route, shown)
  /\ UNCHANGED <<rowVars, shown, answer>> /\ Stay

-----------------------------------------------------------------------------
(* The upload form                                                         *)

SetUpload(u, pc) == uploads' = [uploads EXCEPT ![u].pc = pc]
Under(u) == uploads[u].import

(* The zone ignores the mouse while a submit is under way.                 *)
ChooseFile(f) ==
  /\ route.name = "new" /\ form.busy = 0 /\ f # form.file
  /\ form' = [form EXCEPT !.file = f]
  /\ UNCHANGED <<rowVars, route, shown, asked, answer, draft, save, uploads>>

(* The button can still be reached with the keyboard.                      *)
RemoveFile ==
  /\ route.name = "new" /\ form.file # NoFile
  /\ form' = [form EXCEPT !.file = NoFile]
  /\ UNCHANGED <<rowVars, route, shown, asked, answer, draft, save, uploads>>

Submit ==
  /\ route.name = "new" /\ form.file # NoFile /\ form.busy = 0
  /\ Len(uploads) < MaxImports /\ \A i \in DOMAIN imports : ~imports[i].mapped
  /\ uploads' = Append(uploads, [pc |-> "create", import |-> NoImport, file |-> form.file])
  /\ form' = [form EXCEPT !.busy = Len(uploads) + 1]
  /\ UNCHANGED <<rowVars, route, shown, asked, answer, draft, save>>

\* A bug: the file is the one the form has by now.
ServedOfForm(u) ==
  CASE uploads[u].pc = "create" -> imports' = Append(imports, NewImport)
    [] uploads[u].pc = "presign" -> imports' = [imports EXCEPT ![Under(u)].status = "UPLOADING"]
    [] uploads[u].pc = "put" -> UNCHANGED imports
    [] uploads[u].pc = "confirm" ->
         imports' = [imports EXCEPT ![Under(u)].status = "QUEUED", ![Under(u)].file = form.file]

(* What a request of a submit does at the API or at the storage.           *)
Served(u) ==
  CASE uploads[u].pc = "create" -> imports' = Append(imports, NewImport)
    [] uploads[u].pc = "presign" -> imports' = [imports EXCEPT ![Under(u)].status = "UPLOADING"]
    [] uploads[u].pc = "put" -> UNCHANGED imports
    [] uploads[u].pc = "confirm" ->
         imports' = [imports EXCEPT ![Under(u)].status = "QUEUED", ![Under(u)].file = uploads[u].file]

Accepts(u) == uploads[u].pc \in {"presign", "confirm"} => Under(u) \in Live
Sending(u) == uploads[u].pc \in {"create", "presign", "put", "confirm"}

NextPc == [create |-> "presign", presign |-> "put", put |-> "confirm", confirm |-> "redirect"]

UploadStep(u) ==
  /\ Sending(u) /\ Accepts(u) /\ Served(u)
  /\ uploads' = [uploads EXCEPT ![u].pc = NextPc[@],
                                ![u].import = IF uploads[u].pc = "create" THEN Len(imports) + 1 ELSE @]
  /\ UNCHANGED <<exports, other, clash, stale, upsets, pageVars, save>>

GivesUp(u) ==
  /\ SetUpload(u, "failed")
  /\ form' = IF form.busy = u THEN [form EXCEPT !.busy = 0] ELSE form
  /\ UNCHANGED <<route, shown, asked, answer, draft, save>>

(* The import was deleted meanwhile.                                       *)
UploadRefused(u) ==
  /\ Sending(u) /\ ~Accepts(u) /\ GivesUp(u) /\ UNCHANGED rowVars

(* A request fails, or its answer does.                                    *)
UploadFails(u) ==
  /\ Sending(u) /\ Accepts(u) /\ Upset /\ GivesUp(u)
  /\ UNCHANGED imports \/ Served(u)
  /\ UNCHANGED <<exports, other, clash, stale>>

(* router.push, whatever page the user is at by then.                      *)
UploadRedirect(u) ==
  /\ uploads[u].pc = "redirect" /\ SetUpload(u, "done")
  /\ Goto(At("import", Under(u)))
  /\ UNCHANGED rowVars

-----------------------------------------------------------------------------
(* The pages of an import and of a product                                 *)

(* Bound: either two files are submitted, or one goes through the wizard.  *)
ClickProcess ==
  /\ route.name = "import" /\ ImportPage(shown).wizard
  /\ route.id \in Live /\ ~imports[route.id].mapped /\ Len(uploads) = 1
  /\ imports' = [imports EXCEPT ![route.id].mapped = TRUE, ![route.id].status = "QUEUED"]
  /\ asked' = asked \cup {"job"}
  /\ UNCHANGED <<exports, other, clash, stale, upsets, shown, answer>> /\ Stay

(* The export page is opened as a new document: submits that are still     *)
(* under way end there.                                                    *)
ClickExport ==
  /\ route.name = "import" /\ ImportPage(shown).export /\ route.id \in Live
  /\ Len(exports) < MaxExports
  /\ exports' = Append(exports, [import |-> route.id, status |-> "QUEUED", files |-> 0])
  /\ Goto(At("export", Len(exports) + 1))
  /\ uploads' = [u \in DOMAIN uploads |->
                   IF Sending(u) \/ uploads[u].pc = "redirect" THEN [uploads[u] EXCEPT !.pc = "failed"]
                   ELSE uploads[u]]
  /\ UNCHANGED <<imports, other, clash, stale, upsets>>

Type(title) ==
  /\ route.name = "product" /\ shown["main"] # NoData /\ draft' = title /\ draft # title
  /\ UNCHANGED <<rowVars, route, shown, asked, answer, save, form, uploads>>

SetPatch(patch) == save' = [save EXCEPT !.patch = patch]

(* What is in the field is not the title above it.                         *)
Changed == ProductPage(shown["main"]).field # shown["main"].title

\* A bug: the page sends all it shows.
ClickSaveAll ==
  /\ route.name = "product" /\ shown["main"] # NoData /\ save.patch.pc = "idle"
  /\ save' = [NoSave EXCEPT !.here = TRUE, !.patch =
                [NoPatch EXCEPT !.pc = "sent", !.import = route.id, !.entered = Changed,
                                !.body = [title |-> ProductPage(shown["main"]).field, vendor |-> shown["main"].vendor]]]
  /\ stale' = (stale \/ (~Changed /\ shown["main"].title # imports[route.id].product.title))
  /\ UNCHANGED <<imports, exports, other, clash, upsets, pageVars, uploads>>

(* The body has the title only, typed or not: an untyped one is the one    *)
(* the page was drawn with.  Bound: one save at a time.                    *)
ClickSave ==
  /\ route.name = "product" /\ shown["main"] # NoData /\ save.patch.pc = "idle"
  /\ save' = [NoSave EXCEPT !.here = TRUE, !.patch =
                [NoPatch EXCEPT !.pc = "sent", !.import = route.id, !.entered = Changed,
                                !.body = [title |-> ProductPage(shown["main"]).field, vendor |-> NoData]]]
  /\ stale' = (stale \/ (~Changed /\ shown["main"].title # imports[route.id].product.title))
  /\ UNCHANGED <<imports, exports, other, clash, upsets, pageVars, uploads>>

(* patch: what the body does not have is written as it was read.  The      *)
(* product remembers, field by field, what the clients have entered.       *)
Patched(p, patch) ==
  LET new(field, old) == IF patch.body[field] = NoData THEN old ELSE patch.body[field]
      named(field) == IF patch.entered THEN new(field, p.named[field]) ELSE p.named[field]
  IN  [p EXCEPT !.title = new("title", patch.read.title), !.vendor = new("vendor", patch.read.vendor),
                !.named = [title |-> named("title"), vendor |-> named("vendor")]]

SaveRead ==
  /\ save.patch.pc = "sent"
  /\ SetPatch([save.patch EXCEPT !.pc = "read", !.read = imports[save.patch.import].product])
  /\ UNCHANGED <<rowVars, pageVars, uploads>>

SaveWrite ==
  /\ save.patch.pc = "read"
  /\ imports' = [imports EXCEPT ![save.patch.import].product = Patched(@, save.patch)]
  /\ clash' = (clash \/ (other.pc = "read" /\ other.import = save.patch.import))
  /\ save' = [save EXCEPT !.patch.pc = "written", !.patch.read = NoData, !.at = upsets]
  /\ UNCHANGED <<exports, other, stale, upsets, pageVars, uploads>>

\* A bug: the fetch that is under way is taken for the new one.
SaveAnswerKeeps ==
  /\ save.patch.pc = "written"
  /\ save' = [save EXCEPT !.patch = NoPatch, !.last = save.patch.body.title]
  /\ asked' = (IF save.here THEN asked \cup {"main"} ELSE asked) /\ answer' = answer
  /\ UNCHANGED <<rowVars, route, shown, draft, form, uploads>>

(* refetch gives up a fetch that is under way.                             *)
SaveAnswer ==
  /\ save.patch.pc = "written"
  /\ save' = [save EXCEPT !.patch = NoPatch, !.last = save.patch.body.title]
  /\ asked' = (IF save.here THEN asked \cup {"main"} ELSE asked)
  /\ answer' = (IF save.here THEN NoData ELSE answer)
  /\ UNCHANGED <<rowVars, route, shown, draft, form, uploads>>

SaveFails ==
  /\ save.patch.pc \in {"sent", "written"} /\ Upset
  /\ SetPatch(NoPatch)
  /\ UNCHANGED <<imports, exports, other, clash, stale, pageVars, uploads>>

-----------------------------------------------------------------------------
(* The worker, as the pages see it                                         *)

NewProduct(issue) ==
  [title |-> Raw, vendor |-> Raw, issue |-> issue, status |-> IF issue = "open" THEN "INVALID" ELSE "READY",
   named |-> [title |-> Raw, vendor |-> Raw]]

WorkImport(i) ==
  /\ \/ imports[i].status = "QUEUED"
          /\ imports' = [imports EXCEPT ![i].status = IF imports[i].mapped THEN "PROCESSING" ELSE "MAPPING_REQUIRED"]
     \/ imports[i].status = "PROCESSING"
          /\ imports' = [imports EXCEPT ![i].status = "READY",
                          ![i].product = NewProduct(IF imports[i].file \in Flawed THEN "open" ELSE "none")]
  /\ UNCHANGED <<exports, other, clash, stale, upsets, pageVars, save, uploads>>

\* A bug: the status comes before the file.
WorkExportEarly(e) ==
  /\ \/ exports[e].status = "QUEUED" /\ exports' = [exports EXCEPT ![e].status = "COMPLETED"] /\ UNCHANGED imports
     \/ /\ exports[e].status = "COMPLETED" /\ exports[e].files = 0
        /\ exports' = [exports EXCEPT ![e].files = 1] /\ UNCHANGED imports
  /\ UNCHANGED <<other, clash, stale, upsets, pageVars, save, uploads>>

WorkExport(e) ==
  /\ \/ exports[e].status = "QUEUED" /\ exports' = [exports EXCEPT ![e].status = "PROCESSING"] /\ UNCHANGED imports
     \/ /\ exports[e].status = "PROCESSING" /\ exports[e].files = 0
        /\ exports' = [exports EXCEPT ![e].files = 1] /\ UNCHANGED imports
     \/ /\ exports[e].status = "PROCESSING" /\ exports[e].files = 1
        /\ exports' = [exports EXCEPT ![e].status = "COMPLETED"]
        /\ imports' = [imports EXCEPT ![exports[e].import].product.status = IF @ = "READY" THEN "EXPORTED" ELSE @]
  /\ UNCHANGED <<other, clash, stale, upsets, pageVars, save, uploads>>

-----------------------------------------------------------------------------
(* The other client                                                        *)

(* Its body has a title, a vendor or both.                                 *)
OtherRead(i, title, vendor) ==
  /\ other = NoPatch /\ i \in Made /\ {title, vendor} # {NoData} /\ Upset
  /\ other' = [pc |-> "read", import |-> i, entered |-> TRUE, body |-> [title |-> title, vendor |-> vendor],
               read |-> imports[i].product]
  /\ UNCHANGED <<imports, exports, clash, stale, pageVars, save, uploads>>

Overtakes(i, title) ==
  save.patch.pc = "sent" /\ save.patch.import = i /\ ~save.patch.entered /\ title \notin {NoData, save.patch.body.title}

OtherWrite ==
  /\ other.pc = "read" /\ other' = NoPatch
  /\ imports' = [imports EXCEPT ![other.import].product = Patched(@, other)]
  /\ clash' = (clash \/ (save.patch.pc = "read" /\ save.patch.import = other.import))
  /\ stale' = (stale \/ Overtakes(other.import, other.body.title))
  /\ UNCHANGED <<exports, upsets, pageVars, save, uploads>>

Resolve(i) ==
  /\ i \in Errors({i}) /\ Upset
  /\ imports' = [imports EXCEPT ![i].product.issue = "resolved"]
  /\ UNCHANGED <<exports, other, clash, stale, pageVars, save, uploads>>

(* Bound: nothing is deleted while the worker is at it.                    *)
Remove(i) ==
  /\ i \in Live /\ imports[i].status # "PROCESSING" /\ Upset
  /\ imports' = [imports EXCEPT ![i].deleted = TRUE, ![i].status = "CANCELLED"]
  /\ UNCHANGED <<exports, other, clash, stale, pageVars, save, uploads>>

-----------------------------------------------------------------------------

Pages ==
  \/ \E name \in PageName, id \in 0..(MaxImports + MaxExports) : Follow(At(name, id))
  \/ \E q \in Queries : Fetch(q) \/ FetchFails(q)
  \/ ServeProduct \/ ReceiveProduct \/ Poll \/ Focus

Uploading ==
  \/ \E f \in Files : ChooseFile(f)
  \/ RemoveFile \/ Submit
  \/ \E u \in DOMAIN uploads : UploadStep(u) \/ UploadRefused(u) \/ UploadFails(u) \/ UploadRedirect(u)

Editing ==
  \/ ClickProcess \/ ClickExport \/ ClickSave \/ SaveRead \/ SaveWrite \/ SaveAnswer \/ SaveFails
  \/ \E title \in Titles : Type(title)

Others ==
  \/ \E i \in DOMAIN imports : WorkImport(i) \/ Resolve(i) \/ Remove(i)
  \/ \E e \in DOMAIN exports : WorkExport(e)
  \/ \E i \in DOMAIN imports, title \in Titles \cup {NoData}, vendor \in Vendors \cup {NoData} :
       OtherRead(i, title, vendor)
  \/ OtherWrite

Next == Pages \/ Uploading \/ Editing \/ Others

(* Answers arrive, polls are due, and somebody who sits at a page comes    *)
(* back to its window.                                                     *)
Fairness ==
  /\ \A q \in Queries : WF_vars(Fetch(q))
  /\ WF_vars(ServeProduct) /\ WF_vars(ReceiveProduct) /\ WF_vars(Poll) /\ WF_vars(Focus)

Spec == Init /\ [][Next]_vars /\ Fairness

-----------------------------------------------------------------------------
(* Properties                                                              *)

(* Types of all rows and of what the tab keeps; and no page waits for an   *)
(* answer to a query it does not ask.                                      *)
WorkbenchTypeOK ==
  /\ imports \in Seq(Import) /\ exports \in Seq(Export) /\ uploads \in Seq(Upload)
  /\ other \in Patch /\ clash \in BOOLEAN /\ stale \in BOOLEAN /\ upsets \in Nat
  /\ route \in [name : PageName, id : Nat] /\ asked \subseteq EnabledOf(route, shown)
  /\ draft \in Title \cup {NoData}
  /\ save \in [patch : Patch, here : BOOLEAN, last : Title \cup {NoData}, at : Nat]
  /\ form \in [file : Files \cup {NoFile}, busy : Nat]

(* A product has, field by field, what was last entered for that field,    *)
(* although every PATCH writes all fields and the page may be old: unless  *)
(* one PATCH has written while another one held what it had read, or the   *)
(* page has sent a title as it was shown that is not the stored one.       *)
EditsKept ==
  ~clash /\ ~stale => \A i \in Made : /\ imports[i].product.title = imports[i].product.named.title
                            /\ imports[i].product.vendor = imports[i].product.named.vendor

(* Once a save is answered and the page has nothing under way, it shows    *)
(* the title that was saved, unless a request failed or the other client   *)
(* has read for a write since the save has written.                        *)
SaveShown ==
  /\ save.here /\ save.last # NoData /\ save.patch = NoPatch /\ asked = {}
  /\ ~clash /\ other = NoPatch /\ save.at = upsets /\ Found(route)
  => shown["main"].title = save.last

(* Whatever is chosen, removed, submitted and left meanwhile, the import a *)
(* submit opens has the file of that submit, and there are no more imports *)
(* without a file than submits that are under way or have failed.          *)
UploadsAccounted ==
  /\ \A u \in DOMAIN uploads : uploads[u].pc \in {"redirect", "done"} => imports[Under(u)].file = uploads[u].file
  /\ Cardinality({i \in DOMAIN imports : imports[i].file = NoFile})
       <= Cardinality({u \in DOMAIN uploads : Sending(u) \/ uploads[u].pc = "failed"})

(* The button to download is there only when there is a file to download,  *)
(* however old the answer it is drawn from.                                *)
DownloadFound ==
  route.name = "export" /\ ExportPage(shown["main"]) = "Export File Ready!" => exports[route.id].files > 0

(* When nothing is saved or written any more and the user stays, the page  *)
(* ends up showing what is stored: by polling, and by the window's focus   *)
(* where nothing polls.  (A page whose import was deleted keeps what it    *)
(* had, and a save cancels the fetch it finds, so saving for ever would    *)
(* keep the page from ever being answered.)                                *)
Truth == [q \in Queries |-> IF q \in EnabledOf(route, shown) THEN AnswerTo(q, route) ELSE shown[q]]

PagesCatchUp ==
  <>[][imports' = imports /\ exports' = exports /\ route' = route /\ save' = save]_vars
    => <>[](~Found(route) \/ Screen(route, shown) = Screen(route, Truth))
=============================================================================
