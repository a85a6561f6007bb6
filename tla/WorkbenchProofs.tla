-------------------------- MODULE WorkbenchProofs ---------------------------
(***************************************************************************)
(* What holds of the pages of the catalogs for any number of files,        *)
(* submits, imports, exports and failures: the types of rows and pages,    *)
(* that edits are lost only where two PATCHes meet or a page is old, that  *)
(* saves are shown, that a submit opens the import of its own file, and    *)
(* that a file can be downloaded when the page says so.                    *)
(***************************************************************************)
EXTENDS Workbench, FiniteSetTheorems, SequenceTheorems, TLAPS

NoFileYet == {i \in DOMAIN imports : imports[i].file = NoFile}

Contents == {{}} \cup {{item} : item \in Item}

(* The life of an import.  One whose submit is not over has no file, and   *)
(* nobody can have mapped its columns.                                     *)
LifeOf(m) ==
  /\ m.product # NoData => m.mapped /\ m.status \in {"READY", "CANCELLED"}
  /\ m.status = "READY" => m.product # NoData
  /\ m.status = "PROCESSING" => m.mapped
  /\ m.status = "CANCELLED" <=> m.deleted
  /\ m.file = NoFile => m.status \in {"CREATED", "UPLOADING", "CANCELLED"} /\ ~m.mapped

Life == \A i \in DOMAIN imports : LifeOf(imports[i])

Open == {"presign", "put", "confirm"}
Opened(u) == uploads[u].pc \in Open

(* A submit and the import it has opened.                                  *)
LinkOK(upload, rows) ==
  /\ upload.import \in {NoImport} \cup DOMAIN rows
  /\ upload.pc = "create" => upload.import = NoImport
  /\ upload.pc \in Open => upload.import # NoImport /\ rows[upload.import].file = NoFile
  /\ upload.pc \in {"redirect", "done"} => upload.import # NoImport /\ rows[upload.import].file = upload.file

Opening ==
  /\ \A u \in DOMAIN uploads : LinkOK(uploads[u], imports)
  /\ \A u, v \in DOMAIN uploads : u # v /\ Under(u) # NoImport => Under(u) # Under(v)

OpenOrFailed == {u \in DOMAIN uploads : Opened(u) \/ uploads[u].pc = "failed"}

Counted == Cardinality(NoFileYet) <= Cardinality(OpenOrFailed)

(* What a page shows was true once, and some of it stays true.             *)
Seen ==
  /\ route.name \in {"import", "product"} => route.id \in DOMAIN imports
  /\ route.name = "product" => route.id \in Made
  /\ route.name = "export" => route.id \in DOMAIN exports
  /\ shown["main"] # NoData =>
       /\ route.name = "imports" => DOMAIN shown["main"] \subseteq DOMAIN imports
       /\ route.name = "dashboard" => DOMAIN shown["main"].imports \subseteq DOMAIN imports
       /\ route.name = "exports" => DOMAIN shown["main"] \subseteq DOMAIN exports
       /\ route.name = "product" => shown["main"].title \in Title
       /\ route.name = "export" /\ shown["main"] = "COMPLETED" => exports[route.id].status = "COMPLETED"
  /\ route.name = "import" =>
       /\ shown["job"] \in ImportStatus \cup {NoData}
       /\ shown["job"] = "MAPPING_REQUIRED" => imports[route.id].file # NoFile
       /\ shown["job"] = "READY" => route.id \in Made
       /\ shown["products"] \in Contents \cup {NoData}
       /\ shown["products"] \notin {NoData, {}} => route.id \in Made
  /\ answer # NoData => route.name = "product" /\ answer.title \in Title

Filed ==
  \A e \in DOMAIN exports :
    /\ exports[e].import \in Made
    /\ exports[e].status = "COMPLETED" => exports[e].files = 1

Bodies == [title : Titles \cup {NoData}, vendor : Vendors \cup {NoData}]

(* What a PATCH has read is still what is stored, until they clash.        *)
Fields(i, patch) ==
  /\ patch.read \in Product
  /\ ~clash => /\ patch.read.title = imports[i].product.title
               /\ patch.read.vendor = imports[i].product.vendor

Patches ==
  /\ save.patch.pc # "idle" =>
       save.patch.import \in Made /\ save.patch.body \in [title : Title, vendor : {NoData}]
  /\ save.patch.pc = "read" => Fields(save.patch.import, save.patch)
  /\ other.pc \in {"idle", "read"}
  /\ other.pc = "read" =>
       /\ other.import \in Made /\ other.body \in Bodies /\ other.entered
       /\ Fields(other.import, other)

(* A title that is sent as it was shown is the stored one, until a PATCH   *)
(* overtakes it.                                                           *)
Untyped ==
  save.patch.pc \in {"sent", "read"} /\ ~save.patch.entered /\ ~clash /\ ~stale
    => imports[save.patch.import].product.title = save.patch.body.title

(* The other client holds what it has read of a product.                   *)
Holds(i) == other.pc = "read" /\ other.import = i

(* The save of the page is one of its own product, and what it wrote stays *)
(* there until the other client reads.                                     *)
Here ==
  /\ save.here => route.name = "product"
  /\ save.here /\ save.patch.pc # "idle" => save.patch.import = route.id
  /\ save.patch.pc = "written" /\ ~clash /\ save.at = upsets =>
       ~Holds(save.patch.import) /\ imports[save.patch.import].product.title = save.patch.body.title
  /\ save.at <= upsets

(* From then on the page asks, or has been told.                           *)
Saved ==
  /\ save.last # NoData => save.patch = NoPatch
  /\ save.here /\ save.last # NoData /\ ~clash /\ save.at = upsets =>
       /\ ~Holds(route.id) /\ imports[route.id].product.title = save.last
       /\ answer # NoData => answer.title = save.last
       /\ Found(route) => "main" \in asked \/ shown["main"].title = save.last

TypeInv == WorkbenchTypeOK /\ shown = [q \in Queries |-> shown[q]]

WorkbenchInv ==
  /\ TypeInv /\ Life /\ Opening /\ Counted /\ Seen /\ Filed
  /\ Patches /\ Untyped /\ EditsKept /\ Here /\ Saved

-----------------------------------------------------------------------------
(* Rows                                                                    *)

(* What a step may do to an import.                                        *)
Later(m, n) ==
  /\ m.product # NoData => n.product # NoData
  /\ m.file # NoFile => n.file = m.file
  /\ m.deleted => n.deleted

ImportsGrow ==
  /\ imports' \in Seq(Import)
  /\ \A i \in DOMAIN imports' : LifeOf(imports'[i])
  /\ \A i \in DOMAIN imports : i \in DOMAIN imports' /\ Later(imports[i], imports'[i])

LEMMA Replaced ==
  ASSUME imports \in Seq(Import), Life,
         NEW i \in DOMAIN imports, NEW m \in Import, LifeOf(m), Later(imports[i], m),
         imports' = [imports EXCEPT ![i] = m]
  PROVE  ImportsGrow
  <1>1. i \in 1..Len(imports) /\ DOMAIN imports = 1..Len(imports)
    BY LenProperties
  <1>2. /\ imports' \in Seq(Import) /\ Len(imports') = Len(imports)
        /\ \A j \in 1..Len(imports) : imports'[j] = IF j = i THEN m ELSE imports[j]
    BY <1>1, ExceptSeq
  <1>3. DOMAIN imports' = DOMAIN imports
    BY <1>1, <1>2, LenProperties
  <1>. QED
    BY <1>1, <1>2, <1>3 DEF ImportsGrow, Life, Later

LEMMA Unreplaced ==
  ASSUME imports \in Seq(Import), Life, imports' = imports
  PROVE  ImportsGrow
  BY DEF ImportsGrow, Life, Later

LEMMA Added ==
  ASSUME imports \in Seq(Import), Life, imports' = Append(imports, NewImport)
  PROVE  ImportsGrow /\ Len(imports') = Len(imports) + 1 /\ imports'[Len(imports) + 1] = NewImport
  <1>1. NewImport \in Import /\ LifeOf(NewImport)
    BY DEF NewImport, Import, LifeOf, ImportStatus
  <1>2. /\ imports' \in Seq(Import) /\ DOMAIN imports' = 1..(Len(imports) + 1)
        /\ DOMAIN imports = 1..Len(imports) /\ Len(imports) \in Nat
        /\ \A i \in DOMAIN imports : imports'[i] = imports[i]
        /\ imports'[Len(imports) + 1] = NewImport
    BY <1>1
  <1>. QED
    BY <1>1, <1>2 DEF ImportsGrow, Life, Later

(* What one request of a submit does to the imports.                       *)
LEMMA ServedStep ==
  ASSUME WorkbenchInv, NEW u \in DOMAIN uploads, Sending(u), Accepts(u), Served(u)
  PROVE  /\ ImportsGrow
         /\ uploads[u].pc = "create" => imports' = Append(imports, NewImport)
         /\ uploads[u].pc = "put" => imports' = imports
         /\ uploads[u].pc \in {"presign", "confirm"} =>
              /\ Under(u) \in DOMAIN imports /\ imports[Under(u)].product = NoData
              /\ \E m \in Import :
                   /\ imports' = [imports EXCEPT ![Under(u)] = m]
                   /\ m.product = NoData
                   /\ m.file = IF uploads[u].pc = "confirm" THEN uploads[u].file ELSE NoFile
  <1>1. imports \in Seq(Import) /\ Life /\ uploads \in Seq(Upload)
    BY DEF WorkbenchInv, TypeInv, WorkbenchTypeOK
  <1>2. CASE uploads[u].pc = "create"
    <2>1. imports' = Append(imports, NewImport)
      BY <1>2 DEF Served
    <2>. QED
      BY <1>1, <1>2, <2>1, Added
  <1>3. CASE uploads[u].pc = "put"
    <2>1. imports' = imports
      BY <1>3 DEF Served
    <2>. QED
      BY <1>1, <1>3, <2>1, Unreplaced
  <1>4. CASE uploads[u].pc \in {"presign", "confirm"}
    <2>. DEFINE i == Under(u)
                m == imports[i]
    <2>1. i \in DOMAIN imports /\ i \in Live /\ m.file = NoFile
      BY <1>4 DEF WorkbenchInv, Opening, LinkOK, Open, Under, Accepts, NoImport
    <2>2. m \in Import /\ LifeOf(m) /\ ~m.deleted
      BY <1>1, <2>1 DEF Life, Live
    <2>3. m.product = NoData /\ ~m.mapped
      BY <2>1, <2>2 DEF LifeOf
    <2>4. uploads[u].file \in Files /\ uploads[u].file # NoFile
      <3>1. uploads[u] \in Upload
        BY <1>1
      <3>. QED
        BY <3>1, WorkbenchAssumption DEF Upload
    <2>5. CASE uploads[u].pc = "presign"
      <3>. DEFINE n == [m EXCEPT !.status = "UPLOADING"]
      <3>1. imports' = [imports EXCEPT ![i] = n]
        BY <2>1, <2>5 DEF Served
      <3>2. n \in Import /\ n.product = NoData /\ n.file = NoFile /\ ~n.mapped /\ ~n.deleted /\ n.status = "UPLOADING"
        BY <2>1, <2>2, <2>3 DEF Import, ImportStatus
      <3>3. LifeOf(n) /\ Later(m, n)
        BY <2>1, <2>2, <2>3, <3>2 DEF LifeOf, Later
      <3>. HIDE DEF n
      <3>. QED
        BY <1>1, <2>1, <2>3, <2>5, <3>1, <3>2, <3>3, Replaced
    <2>6. CASE uploads[u].pc = "confirm"
      <3>. DEFINE n == [m EXCEPT !.status = "QUEUED", !.file = uploads[u].file]
      <3>1. imports' = [imports EXCEPT ![i] = n]
        BY <2>1, <2>6 DEF Served
      <3>2. /\ n \in Import /\ n.product = NoData /\ n.file = uploads[u].file /\ ~n.mapped /\ ~n.deleted
            /\ n.status = "QUEUED"
        BY <2>1, <2>2, <2>3, <2>4 DEF Import, ImportStatus
      <3>3. LifeOf(n) /\ Later(m, n)
        BY <2>1, <2>2, <2>3, <2>4, <3>2 DEF LifeOf, Later
      <3>. HIDE DEF n
      <3>. QED
        BY <1>1, <2>1, <2>3, <2>6, <3>1, <3>2, <3>3, Replaced
    <2>. QED
      BY <1>4, <2>5, <2>6
  <1>. QED
    BY <1>2, <1>3, <1>4 DEF Sending

FilesStay ==
  /\ DOMAIN imports' = DOMAIN imports
  /\ \A i \in DOMAIN imports : imports'[i].file = imports[i].file

SameTexts(m, n) ==
  /\ n.product.title = m.product.title /\ n.product.vendor = m.product.vendor
  /\ n.product.named = m.product.named

LEMMA PatchedFields ==
  ASSUME NEW p \in Product, NEW patch \in Patch, patch.read \in Product,
         patch.body \in [title : Title \cup {NoData}, vendor : Vendor \cup {NoData}]
  PROVE  LET q == Patched(p, patch)
             sent(f) == patch.body[f] # NoData
         IN  /\ q \in Product
             /\ q.title = IF sent("title") THEN patch.body.title ELSE patch.read.title
             /\ q.vendor = IF sent("vendor") THEN patch.body.vendor ELSE patch.read.vendor
             /\ q.named.title = IF patch.entered /\ sent("title") THEN patch.body.title ELSE p.named.title
             /\ q.named.vendor = IF patch.entered /\ sent("vendor") THEN patch.body.vendor ELSE p.named.vendor
  <1>. DEFINE title == IF patch.body.title = NoData THEN patch.read.title ELSE patch.body.title
              vendor == IF patch.body.vendor = NoData THEN patch.read.vendor ELSE patch.body.vendor
              ntitle == IF patch.entered /\ patch.body.title # NoData THEN patch.body.title ELSE p.named.title
              nvendor == IF patch.entered /\ patch.body.vendor # NoData THEN patch.body.vendor ELSE p.named.vendor
              q == [p EXCEPT !.title = title, !.vendor = vendor,
                             !.named = [title |-> ntitle, vendor |-> nvendor]]
  <1>1. /\ patch.read.title \in Title /\ patch.read.vendor \in Vendor
        /\ p.named.title \in Title /\ p.named.vendor \in Vendor
    BY DEF Product
  <1>2. title \in Title /\ vendor \in Vendor /\ ntitle \in Title /\ nvendor \in Vendor
    BY <1>1
  <1>3. Patched(p, patch) = q
    BY DEF Patched
  <1>. HIDE DEF title, vendor, ntitle, nvendor
  <1>4. /\ q \in Product /\ q.title = title /\ q.vendor = vendor
        /\ q.named.title = ntitle /\ q.named.vendor = nvendor
    BY <1>2 DEF Product
  <1>. HIDE DEF q
  <1>. QED
    BY <1>3, <1>4 DEF title, vendor, ntitle, nvendor

LEMMA Types ==
  ASSUME WorkbenchInv
  PROVE  /\ imports \in Seq(Import) /\ exports \in Seq(Export) /\ uploads \in Seq(Upload)
         /\ \A i \in DOMAIN imports : imports[i] \in Import /\ LifeOf(imports[i])
         /\ \A i \in Made : i \in DOMAIN imports /\ imports[i].product \in Product
         /\ \A e \in DOMAIN exports : exports[e] \in Export
         /\ \A u \in DOMAIN uploads : uploads[u] \in Upload
         /\ save.patch \in Patch /\ other \in Patch
         /\ Life
  <1>1. imports \in Seq(Import) /\ exports \in Seq(Export) /\ uploads \in Seq(Upload) /\ Life
    BY DEF WorkbenchInv, TypeInv, WorkbenchTypeOK
  <1>2. save.patch \in Patch /\ other \in Patch
    BY DEF WorkbenchInv, TypeInv, WorkbenchTypeOK
  <1>3. \A i \in DOMAIN imports : imports[i] \in Import /\ LifeOf(imports[i])
    BY <1>1 DEF Life
  <1>4. \A i \in Made : i \in DOMAIN imports /\ imports[i].product \in Product
    BY <1>3 DEF Made, Import
  <1>. QED
    BY <1>1, <1>2, <1>3, <1>4

(* A step that writes the product of an import.                            *)
LEMMA ProductWritten ==
  ASSUME WorkbenchInv, NEW i \in Made, NEW p \in Product,
         imports' = [imports EXCEPT ![i].product = p]
  PROVE  /\ ImportsGrow /\ DOMAIN imports' = DOMAIN imports
         /\ imports'[i].product = p
         /\ \A j \in DOMAIN imports : imports'[j].file = imports[j].file /\ (j # i => imports'[j] = imports[j])
  <1>. DEFINE n == [imports[i] EXCEPT !.product = p]
  <1>1. i \in DOMAIN imports /\ imports \in Seq(Import) /\ imports[i] \in Import /\ LifeOf(imports[i])
    BY Types
  <1>2. p # NoData /\ imports[i].product # NoData
    BY WorkbenchAssumption DEF Made
  <1>3. n \in Import /\ LifeOf(n) /\ Later(imports[i], n) /\ n.file = imports[i].file /\ n.product = p
    BY <1>1, <1>2 DEF Import, LifeOf, Later
  <1>4. imports' = [imports EXCEPT ![i] = n]
    BY <1>1
  <1>. HIDE DEF n
  <1>. QED
    BY <1>1, <1>3, <1>4, Types, Replaced

LEMMA ImportsSame ==
  ASSUME WorkbenchInv, imports' = imports
  PROVE  /\ ImportsGrow /\ FilesStay
         /\ \A i \in Made : SameTexts(imports[i], imports'[i])
  BY Types, Unreplaced DEF FilesStay, SameTexts

LEMMA SaveWriteRows ==
  ASSUME WorkbenchInv, SaveWrite
  PROVE  LET i == save.patch.import
             p == imports[i].product
             q == imports'[i].product
         IN  /\ ImportsGrow /\ FilesStay /\ Made' = Made /\ i \in Made
             /\ q \in Product
             /\ q.title = save.patch.body.title
             /\ q.vendor = save.patch.read.vendor
             /\ q.named.title = IF save.patch.entered THEN save.patch.body.title ELSE p.named.title
             /\ q.named.vendor = p.named.vendor
             /\ \A j \in DOMAIN imports : j # i => imports'[j] = imports[j]
  <1>. DEFINE i == save.patch.import
              p == Patched(imports[i].product, save.patch)
  <1>1. /\ i \in Made /\ i \in DOMAIN imports /\ imports[i].product \in Product /\ save.patch \in Patch
        /\ save.patch.read \in Product /\ save.patch.body \in [title : Title, vendor : {NoData}]
    BY Types DEF SaveWrite, WorkbenchInv, Patches, Fields
  <1>2. /\ save.patch.body.title \in Title /\ save.patch.body.title # NoData /\ save.patch.body.vendor = NoData
        /\ save.patch.body \in [title : Title \cup {NoData}, vendor : Vendor \cup {NoData}]
    BY <1>1, WorkbenchAssumption
  <1>3. /\ p \in Product
        /\ p.title = save.patch.body.title /\ p.vendor = save.patch.read.vendor
        /\ p.named.title = IF save.patch.entered THEN save.patch.body.title ELSE imports[i].product.named.title
        /\ p.named.vendor = imports[i].product.named.vendor
    BY <1>1, <1>2, PatchedFields
  <1>4. imports' = [imports EXCEPT ![i].product = p]
    BY DEF SaveWrite
  <1>. HIDE DEF p
  <1>5. Made' = Made
    BY <1>1, <1>3, <1>4, ProductWritten, WorkbenchAssumption DEF Made
  <1>6. ImportsGrow /\ FilesStay /\ imports'[i].product = p /\ \A j \in DOMAIN imports : j # i => imports'[j] = imports[j]
    BY <1>1, <1>3, <1>4, ProductWritten DEF FilesStay
  <1>. QED
    BY <1>1, <1>3, <1>5, <1>6

LEMMA OtherWriteRows ==
  ASSUME WorkbenchInv, OtherWrite
  PROVE  LET i == other.import
             p == imports[i].product
             q == imports'[i].product
             sent(f) == other.body[f] # NoData
         IN  /\ ImportsGrow /\ FilesStay /\ Made' = Made /\ i \in Made
             /\ q \in Product
             /\ q.title = IF sent("title") THEN other.body.title ELSE other.read.title
             /\ q.vendor = IF sent("vendor") THEN other.body.vendor ELSE other.read.vendor
             /\ q.named.title = IF sent("title") THEN other.body.title ELSE p.named.title
             /\ q.named.vendor = IF sent("vendor") THEN other.body.vendor ELSE p.named.vendor
             /\ \A j \in DOMAIN imports : j # i => imports'[j] = imports[j]
  <1>. DEFINE i == other.import
              p == Patched(imports[i].product, other)
              sent(f) == other.body[f] # NoData
  <1>1. /\ i \in Made /\ i \in DOMAIN imports /\ imports[i].product \in Product /\ other \in Patch
        /\ other.read \in Product /\ other.body \in Bodies /\ other.entered
    BY Types DEF OtherWrite, WorkbenchInv, Patches, Fields
  <1>2. other.body \in [title : Title \cup {NoData}, vendor : Vendor \cup {NoData}]
    BY <1>1 DEF Bodies, Title, Vendor
  <1>3. /\ p \in Product
        /\ p.title = IF sent("title") THEN other.body.title ELSE other.read.title
        /\ p.vendor = IF sent("vendor") THEN other.body.vendor ELSE other.read.vendor
        /\ p.named.title = IF sent("title") THEN other.body.title ELSE imports[i].product.named.title
        /\ p.named.vendor = IF sent("vendor") THEN other.body.vendor ELSE imports[i].product.named.vendor
    BY <1>1, <1>2, PatchedFields
  <1>4. imports' = [imports EXCEPT ![i].product = p]
    BY DEF OtherWrite
  <1>. HIDE DEF p
  <1>5. Made' = Made
    BY <1>1, <1>3, <1>4, ProductWritten, WorkbenchAssumption DEF Made
  <1>6. ImportsGrow /\ FilesStay /\ imports'[i].product = p /\ \A j \in DOMAIN imports : j # i => imports'[j] = imports[j]
    BY <1>1, <1>3, <1>4, ProductWritten DEF FilesStay
  <1>. QED
    BY <1>1, <1>3, <1>5, <1>6

LEMMA ClickProcessRows ==
  ASSUME WorkbenchInv, ClickProcess
  PROVE  /\ ImportsGrow /\ FilesStay /\ Made' = Made
         /\ \A i \in Made : imports'[i] = imports[i]
  <1>. DEFINE i == route.id
              n == [imports[i] EXCEPT !.mapped = TRUE, !.status = "QUEUED"]
  <1>1. /\ i \in DOMAIN imports /\ imports \in Seq(Import) /\ imports[i] \in Import /\ LifeOf(imports[i])
        /\ ~imports[i].mapped /\ ~imports[i].deleted
    BY Types DEF ClickProcess, Live
  <1>2. imports[i].product = NoData /\ i \notin Made
    BY <1>1 DEF LifeOf, Made
  <1>3. imports[i].file # NoFile
    BY DEF ClickProcess, ImportPage, WorkbenchInv, Seen
  <1>4. n \in Import /\ n.product = NoData /\ n.file = imports[i].file /\ n.status = "QUEUED" /\ ~n.deleted
    BY <1>1, <1>2 DEF Import, ImportStatus
  <1>5. LifeOf(n) /\ Later(imports[i], n)
    BY <1>1, <1>2, <1>3, <1>4 DEF LifeOf, Later
  <1>6. imports' = [imports EXCEPT ![i] = n]
    BY <1>1 DEF ClickProcess
  <1>. HIDE DEF n
  <1>7. \A j \in DOMAIN imports : j # i => imports'[j] = imports[j]
    BY <1>1, <1>6
  <1>. QED
    BY <1>1, <1>2, <1>4, <1>5, <1>6, <1>7, Types, Replaced DEF FilesStay, Made

LEMMA NewProductType ==
  ASSUME NEW issue \in {"none", "open"}
  PROVE  /\ NewProduct(issue) \in Product /\ NewProduct(issue) # NoData
         /\ NewProduct(issue).title = NewProduct(issue).named.title
         /\ NewProduct(issue).vendor = NewProduct(issue).named.vendor
  BY WorkbenchAssumption DEF NewProduct, Product, ProductStatus, Title, Vendor

LEMMA WorkImportRows ==
  ASSUME WorkbenchInv, NEW i \in DOMAIN imports, WorkImport(i)
  PROVE  /\ ImportsGrow /\ FilesStay /\ Made' \subseteq Made \cup {i}
         /\ \A j \in Made : imports'[j] = imports[j]
         /\ imports'[i].product # NoData =>
              /\ imports'[i].product.title = imports'[i].product.named.title
              /\ imports'[i].product.vendor = imports'[i].product.named.vendor
  <1>. DEFINE m == imports[i]
  <1>1. m \in Import /\ LifeOf(m) /\ m.status \in {"QUEUED", "PROCESSING"} /\ imports \in Seq(Import)
    BY Types DEF WorkImport
  <1>2. m.product = NoData /\ i \notin Made /\ ~m.deleted /\ m.file # NoFile
    BY <1>1 DEF LifeOf, Made
  <1>3. CASE m.status = "QUEUED"
    <2>. DEFINE status == IF m.mapped THEN "PROCESSING" ELSE "MAPPING_REQUIRED"
                n == [m EXCEPT !.status = status]
    <2>1. imports' = [imports EXCEPT ![i] = n]
      BY <1>3 DEF WorkImport
    <2>2. /\ n \in Import /\ n.product = NoData /\ n.file = m.file /\ n.mapped = m.mapped /\ ~n.deleted
          /\ n.status = status
      BY <1>1, <1>2 DEF Import, ImportStatus
    <2>3. LifeOf(n) /\ Later(m, n)
      BY <1>1, <1>2, <2>2 DEF LifeOf, Later
    <2>. HIDE DEF n, m
    <2>4. imports'[i] = n /\ \A j \in DOMAIN imports : j # i => imports'[j] = imports[j]
      BY <1>1, <2>1
    <2>. QED
      BY <1>1, <1>2, <2>1, <2>2, <2>3, <2>4, Types, Replaced DEF FilesStay, Made, m
  <1>4. CASE m.status = "PROCESSING"
    <2>. DEFINE issue == IF m.file \in Flawed THEN "open" ELSE "none"
                n == [m EXCEPT !.status = "READY", !.product = NewProduct(issue)]
    <2>1. imports' = [imports EXCEPT ![i] = n]
      BY <1>4 DEF WorkImport
    <2>2. /\ n \in Import /\ n.product = NewProduct(issue) /\ n.file = m.file /\ n.mapped = m.mapped /\ ~n.deleted
          /\ n.status = "READY"
      BY <1>1, <1>2, NewProductType DEF Import, ImportStatus
    <2>3. n.product # NoData /\ n.product.title = n.product.named.title /\ n.product.vendor = n.product.named.vendor
      BY <2>2, NewProductType
    <2>4. LifeOf(n) /\ Later(m, n)
      BY <1>1, <1>2, <1>4, <2>2, <2>3 DEF LifeOf, Later
    <2>. HIDE DEF n, m
    <2>5. imports'[i] = n /\ \A j \in DOMAIN imports : j # i => imports'[j] = imports[j]
      BY <1>1, <2>1
    <2>. QED
      BY <1>1, <1>2, <2>1, <2>2, <2>3, <2>4, <2>5, Types, Replaced DEF FilesStay, Made, m
  <1>. QED
    BY <1>1, <1>3, <1>4

LEMMA WorkExportRows ==
  ASSUME WorkbenchInv, NEW e \in DOMAIN exports, WorkExport(e)
  PROVE  /\ ImportsGrow /\ FilesStay /\ Made' = Made
         /\ \A i \in Made : SameTexts(imports[i], imports'[i])
  <1>1. CASE imports' = imports
    BY <1>1, ImportsSame DEF Made
  <1>2. CASE imports' # imports
    <2>. DEFINE i == exports[e].import
                p == [imports[i].product EXCEPT !.status = IF @ = "READY" THEN "EXPORTED" ELSE @]
    <2>1. i \in Made /\ i \in DOMAIN imports /\ imports[i].product \in Product
      BY Types DEF WorkbenchInv, Filed
    <2>2. p \in Product /\ p.title = imports[i].product.title /\ p.vendor = imports[i].product.vendor
            /\ p.named = imports[i].product.named
      BY <2>1 DEF Product, ProductStatus
    <2>3. imports' = [imports EXCEPT ![i].product = p]
      BY <1>2, <2>1 DEF WorkExport
    <2>. HIDE DEF p
    <2>4. /\ ImportsGrow /\ FilesStay /\ imports'[i].product = p
          /\ \A j \in DOMAIN imports : j # i => imports'[j] = imports[j]
      BY <2>1, <2>2, <2>3, ProductWritten DEF FilesStay
    <2>5. Made' = Made
      BY <2>1, <2>2, <2>4, WorkbenchAssumption DEF Made, FilesStay
    <2>. QED
      BY <2>1, <2>2, <2>4, <2>5, Types DEF SameTexts
  <1>. QED
    BY <1>1, <1>2

LEMMA ResolveRows ==
  ASSUME WorkbenchInv, NEW i \in DOMAIN imports, Resolve(i)
  PROVE  /\ ImportsGrow /\ FilesStay /\ Made' = Made
         /\ \A j \in Made : SameTexts(imports[j], imports'[j])
  <1>. DEFINE p == [imports[i].product EXCEPT !.issue = "resolved"]
  <1>1. i \in Made /\ imports[i].product \in Product
    BY Types DEF Resolve, Errors
  <1>2. /\ p \in Product /\ p.title = imports[i].product.title /\ p.vendor = imports[i].product.vendor
        /\ p.named = imports[i].product.named
    BY <1>1 DEF Product
  <1>3. imports' = [imports EXCEPT ![i].product = p]
    BY <1>1 DEF Resolve
  <1>. HIDE DEF p
  <1>4. /\ ImportsGrow /\ FilesStay /\ imports'[i].product = p
        /\ \A j \in DOMAIN imports : j # i => imports'[j] = imports[j]
    BY <1>1, <1>2, <1>3, ProductWritten DEF FilesStay
  <1>5. Made' = Made
    BY <1>1, <1>2, <1>4, WorkbenchAssumption DEF Made, FilesStay
  <1>. QED
    BY <1>1, <1>2, <1>4, <1>5, Types DEF SameTexts

LEMMA RemoveRows ==
  ASSUME WorkbenchInv, NEW i \in DOMAIN imports, Remove(i)
  PROVE  /\ ImportsGrow /\ FilesStay /\ Made' = Made
         /\ \A j \in Made : SameTexts(imports[j], imports'[j])
  <1>. DEFINE m == imports[i]
              n == [m EXCEPT !.deleted = TRUE, !.status = "CANCELLED"]
  <1>1. m \in Import /\ LifeOf(m) /\ imports \in Seq(Import)
    BY Types
  <1>2. imports' = [imports EXCEPT ![i] = n]
    BY DEF Remove
  <1>3. /\ n \in Import /\ n.product = m.product /\ n.file = m.file /\ n.mapped = m.mapped /\ n.deleted
        /\ n.status = "CANCELLED"
    BY <1>1 DEF Import, ImportStatus
  <1>4. LifeOf(n) /\ Later(m, n)
    BY <1>1, <1>3 DEF LifeOf, Later
  <1>. HIDE DEF n, m
  <1>5. imports'[i] = n /\ \A j \in DOMAIN imports : j # i => imports'[j] = imports[j]
    BY <1>1, <1>2
  <1>. QED
    BY <1>1, <1>2, <1>3, <1>4, <1>5, Types, Replaced DEF FilesStay, SameTexts, Made, m

(* All other steps leave the imports alone.                                *)
PageStep ==
  \/ \E r \in [name : PageName, id : Nat] : Follow(r)
  \/ \E q \in Queries : Fetch(q) \/ FetchFails(q)
  \/ ServeProduct \/ ReceiveProduct \/ Poll \/ Focus

OtherReads ==
  \E i \in DOMAIN imports, title \in Titles \cup {NoData}, vendor \in Vendors \cup {NoData} :
    OtherRead(i, title, vendor)

QuietStep ==
  \/ \E f \in Files : ChooseFile(f)
  \/ RemoveFile \/ Submit
  \/ \E u \in DOMAIN uploads : UploadRefused(u) \/ UploadRedirect(u)
  \/ ClickExport \/ ClickSave \/ SaveRead \/ SaveAnswer \/ SaveFails
  \/ \E title \in Titles : Type(title)
  \/ OtherReads

LEMMA StepKinds ==
  ASSUME WorkbenchInv, Next
  PROVE  \/ PageStep \/ QuietStep
         \/ \E u \in DOMAIN uploads : UploadStep(u) \/ UploadFails(u)
         \/ ClickProcess \/ SaveWrite \/ OtherWrite
         \/ \E i \in DOMAIN imports : WorkImport(i) \/ Resolve(i) \/ Remove(i)
         \/ \E e \in DOMAIN exports : WorkExport(e)
  <1>1. ASSUME NEW name \in PageName, NEW id \in 0..(MaxImports + MaxExports)
        PROVE  At(name, id) \in [name : PageName, id : Nat]
    BY WorkbenchAssumption DEF At
  <1>2. CASE Pages
    BY <1>1, <1>2 DEF Pages, PageStep
  <1>3. CASE Uploading \/ Editing \/ Others
    BY <1>3 DEF Uploading, Editing, Others, QuietStep, OtherReads
  <1>. QED
    BY <1>2, <1>3 DEF Next

LEMMA QuietImports ==
  ASSUME PageStep \/ QuietStep
  PROVE  imports' = imports
  <1>1. CASE PageStep
    BY <1>1 DEF PageStep, Follow, Fetch, FetchFails, ServeProduct, ReceiveProduct, Poll, Focus, rowVars
  <1>2. CASE QuietStep
    BY <1>2 DEF QuietStep, ChooseFile, RemoveFile, Submit, UploadRefused, UploadRedirect, ClickExport,
                ClickSave, SaveRead, SaveAnswer, SaveFails, Type, OtherReads, OtherRead, rowVars
  <1>. QED
    BY <1>1, <1>2

LEMMA UploadRows ==
  ASSUME WorkbenchInv, NEW u \in DOMAIN uploads, UploadStep(u) \/ UploadFails(u)
  PROVE  /\ ImportsGrow /\ Made' = Made
         /\ \A i \in Made : imports'[i] = imports[i]
  <1>1. CASE imports' = imports
    BY <1>1, ImportsSame DEF Made
  <1>2. CASE imports' # imports
    <2>1. Sending(u) /\ Accepts(u) /\ Served(u)
      BY <1>2 DEF UploadStep, UploadFails
    <2>2. ImportsGrow
      BY <2>1, ServedStep
    <2>3. CASE uploads[u].pc = "create"
      <3>1. imports' = Append(imports, NewImport)
        BY <2>1, <2>3, ServedStep
      <3>. QED
        BY <2>2, <3>1, Types DEF Made, NewImport
    <2>4. CASE uploads[u].pc \in {"presign", "confirm"}
      <3>1. /\ Under(u) \in DOMAIN imports /\ Under(u) \notin Made
            /\ \E m \in Import : imports' = [imports EXCEPT ![Under(u)] = m] /\ m.product = NoData
        BY <2>1, <2>4, ServedStep DEF Made
      <3>. QED
        BY <2>2, <3>1, Types DEF Made
    <2>5. uploads[u].pc # "put"
      BY <1>2, <2>1, ServedStep
    <2>. QED
      BY <2>1, <2>3, <2>4, <2>5 DEF Sending
  <1>. QED
    BY <1>1, <1>2

(* The imports after any step: none loses its product or its file, and     *)
(* only a PATCH writes the texts of a product.                             *)
LEMMA ImportsStep ==
  ASSUME WorkbenchInv, Next
  PROVE  /\ ImportsGrow
         /\ \A i \in Made : \/ SameTexts(imports[i], imports'[i])
                            \/ SaveWrite /\ i = save.patch.import
                            \/ OtherWrite /\ i = other.import
         /\ FilesStay \/ \E u \in DOMAIN uploads : UploadStep(u) \/ UploadFails(u)
         /\ Made' = Made \/ \E i \in DOMAIN imports : WorkImport(i)
  <1>1. CASE PageStep \/ QuietStep
    BY <1>1, QuietImports, ImportsSame DEF Made
  <1>2. ASSUME NEW u \in DOMAIN uploads, UploadStep(u) \/ UploadFails(u)
        PROVE  ImportsGrow /\ Made' = Made /\ \A i \in Made : SameTexts(imports[i], imports'[i])
    BY <1>2, UploadRows DEF SameTexts
  <1>3. CASE ClickProcess
    BY <1>3, ClickProcessRows DEF SameTexts
  <1>4. CASE SaveWrite
    BY <1>4, SaveWriteRows, Types DEF SameTexts
  <1>5. CASE OtherWrite
    BY <1>5, OtherWriteRows, Types DEF SameTexts
  <1>6. ASSUME NEW i \in DOMAIN imports, WorkImport(i)
        PROVE  ImportsGrow /\ FilesStay /\ \A j \in Made : SameTexts(imports[j], imports'[j])
    BY <1>6, WorkImportRows DEF SameTexts
  <1>7. ASSUME NEW i \in DOMAIN imports, Resolve(i) \/ Remove(i)
        PROVE  ImportsGrow /\ FilesStay /\ Made' = Made /\ \A j \in Made : SameTexts(imports[j], imports'[j])
    BY <1>7, ResolveRows, RemoveRows
  <1>8. ASSUME NEW e \in DOMAIN exports, WorkExport(e)
        PROVE  ImportsGrow /\ FilesStay /\ Made' = Made /\ \A j \in Made : SameTexts(imports[j], imports'[j])
    BY <1>8, WorkExportRows
  <1>. QED
    BY <1>1, <1>2, <1>3, <1>4, <1>5, <1>6, <1>7, <1>8, StepKinds

LEMMA MadeGrows ==
  ASSUME WorkbenchInv, ImportsGrow
  PROVE  Made \subseteq Made' /\ DOMAIN imports \subseteq DOMAIN imports' /\ Life'
  BY DEF ImportsGrow, Later, Made, Life

-----------------------------------------------------------------------------
(* Exports                                                                 *)

ExportsGrow ==
  /\ exports' \in Seq(Export)
  /\ \A e \in DOMAIN exports : /\ e \in DOMAIN exports'
                               /\ exports[e].status = "COMPLETED" => exports'[e].status = "COMPLETED"

(* A row that is replaced by one of the same import, with its file if it is*)
(* completed.                                                              *)
LEMMA ExportReplaced ==
  ASSUME WorkbenchInv, ImportsGrow, NEW e \in DOMAIN exports, NEW x \in Export,
         exports' = [exports EXCEPT ![e] = x], x.import = exports[e].import,
         exports[e].status = "COMPLETED" => x.status = "COMPLETED",
         x.status = "COMPLETED" => x.files = 1
  PROVE  ExportsGrow /\ Filed'
  <1>1. e \in 1..Len(exports) /\ DOMAIN exports = 1..Len(exports) /\ exports \in Seq(Export)
    BY Types, LenProperties
  <1>2. /\ exports' \in Seq(Export) /\ Len(exports') = Len(exports)
        /\ \A d \in 1..Len(exports) : exports'[d] = IF d = e THEN x ELSE exports[d]
    BY <1>1, ExceptSeq
  <1>3. DOMAIN exports' = DOMAIN exports
    BY <1>1, <1>2, LenProperties
  <1>. QED
    BY <1>1, <1>2, <1>3, MadeGrows DEF ExportsGrow, Filed, WorkbenchInv

LEMMA ExportsSame ==
  ASSUME WorkbenchInv, ImportsGrow, exports' = exports
  PROVE  ExportsGrow /\ Filed'
  BY Types, MadeGrows DEF ExportsGrow, Filed, WorkbenchInv

LEMMA WorkExportStep ==
  ASSUME WorkbenchInv, ImportsGrow, NEW e \in DOMAIN exports, WorkExport(e)
  PROVE  ExportsGrow /\ Filed'
  <1>1. exports[e] \in Export
    BY Types
  <1>2. CASE exports[e].status = "QUEUED"
    <2>. DEFINE x == [exports[e] EXCEPT !.status = "PROCESSING"]
    <2>1. exports' = [exports EXCEPT ![e] = x]
      BY <1>2 DEF WorkExport
    <2>2. x \in Export /\ x.import = exports[e].import /\ x.status = "PROCESSING"
      BY <1>1 DEF Export, ExportStatus
    <2>. HIDE DEF x
    <2>. QED
      BY <1>2, <2>1, <2>2, ExportReplaced
  <1>3. CASE exports[e].status = "PROCESSING" /\ exports[e].files = 0
    <2>. DEFINE x == [exports[e] EXCEPT !.files = 1]
    <2>1. exports' = [exports EXCEPT ![e] = x]
      BY <1>3 DEF WorkExport
    <2>2. x \in Export /\ x.import = exports[e].import /\ x.status = "PROCESSING"
      BY <1>1, <1>3 DEF Export
    <2>. HIDE DEF x
    <2>. QED
      BY <1>3, <2>1, <2>2, ExportReplaced
  <1>4. CASE exports[e].status = "PROCESSING" /\ exports[e].files = 1
    <2>. DEFINE x == [exports[e] EXCEPT !.status = "COMPLETED"]
    <2>1. exports' = [exports EXCEPT ![e] = x]
      BY <1>4 DEF WorkExport
    <2>2. x \in Export /\ x.import = exports[e].import /\ x.files = 1
      BY <1>1, <1>4 DEF Export, ExportStatus
    <2>. HIDE DEF x
    <2>. QED
      BY <1>4, <2>1, <2>2, ExportReplaced
  <1>. QED
    BY <1>2, <1>3, <1>4 DEF WorkExport

LEMMA ClickExportStep ==
  ASSUME WorkbenchInv, ImportsGrow, ClickExport
  PROVE  ExportsGrow /\ Filed' /\ Len(exports) + 1 \in DOMAIN exports'
  <1>. DEFINE x == [import |-> route.id, status |-> "QUEUED", files |-> 0]
  <1>1. route.id \in Made /\ route.id \in Nat
    <2>1. route.name = "import" /\ shown["job"] \in {"READY", "COMPLETED"}
      BY DEF ClickExport, ImportPage
    <2>2. shown["job"] \in ImportStatus \cup {NoData}
      BY <2>1 DEF WorkbenchInv, Seen
    <2>3. shown["job"] = "READY"
      BY <2>1, <2>2, WorkbenchAssumption DEF ImportStatus, ExportStatus
    <2>. QED
      BY <2>1, <2>3 DEF WorkbenchInv, Seen, TypeInv, WorkbenchTypeOK
  <1>2. x \in Export
    BY <1>1 DEF Export, ExportStatus
  <1>3. exports' = Append(exports, x)
    BY DEF ClickExport
  <1>4. /\ exports' \in Seq(Export) /\ DOMAIN exports' = 1..(Len(exports) + 1)
        /\ DOMAIN exports = 1..Len(exports) /\ Len(exports) \in Nat
        /\ \A e \in DOMAIN exports : exports'[e] = exports[e]
        /\ exports'[Len(exports) + 1] = x
    BY <1>2, <1>3, Types
  <1>. QED
    BY <1>1, <1>4, MadeGrows DEF ExportsGrow, Filed, WorkbenchInv

LEMMA ExportsStep ==
  ASSUME WorkbenchInv, Next
  PROVE  ExportsGrow /\ Filed'
  <1>1. ImportsGrow
    BY ImportsStep
  <1>2. CASE exports' = exports
    BY <1>1, <1>2, ExportsSame
  <1>3. CASE PageStep
    <2>1. exports' = exports
      BY <1>3 DEF PageStep, Follow, Fetch, FetchFails, ServeProduct, ReceiveProduct, Poll, Focus, rowVars
    <2>. QED
      BY <1>2, <2>1
  <1>4. CASE QuietStep /\ ~ClickExport
    <2>1. exports' = exports
      BY <1>4 DEF QuietStep, ChooseFile, RemoveFile, Submit, UploadRefused, UploadRedirect,
                  ClickSave, SaveRead, SaveAnswer, SaveFails, Type, OtherReads, OtherRead, rowVars
    <2>. QED
      BY <1>2, <2>1
  <1>5. CASE \/ \E u \in DOMAIN uploads : UploadStep(u) \/ UploadFails(u)
             \/ ClickProcess \/ SaveWrite \/ OtherWrite
             \/ \E i \in DOMAIN imports : WorkImport(i) \/ Resolve(i) \/ Remove(i)
    <2>1. exports' = exports
      BY <1>5 DEF UploadStep, UploadFails, ClickProcess, SaveWrite, OtherWrite, WorkImport, Resolve, Remove
    <2>. QED
      BY <1>2, <2>1
  <1>. QED
    BY <1>1, <1>3, <1>4, <1>5, ClickExportStep, WorkExportStep, StepKinds

-----------------------------------------------------------------------------
(* Submits                                                                 *)

LEMMA LinkKept ==
  ASSUME WorkbenchInv, ImportsGrow, NEW u \in DOMAIN uploads,
         Opened(u) => imports'[Under(u)].file = NoFile
  PROVE  LinkOK(uploads[u], imports')
  <1>1. LinkOK(uploads[u], imports) /\ uploads[u] \in Upload
    BY Types DEF WorkbenchInv, Opening
  <1>2. uploads[u].file # NoFile
    BY <1>1, WorkbenchAssumption DEF Upload
  <1>3. uploads[u].import \in {NoImport} \cup DOMAIN imports'
    BY <1>1, MadeGrows DEF LinkOK
  <1>4. uploads[u].pc \in {"redirect", "done"} => imports'[uploads[u].import].file = uploads[u].file
    BY <1>1, <1>2 DEF LinkOK, ImportsGrow, Later, NoImport
  <1>. QED
    BY <1>1, <1>3, <1>4 DEF LinkOK, Opened, Under, Open

LEMMA LinksKept ==
  ASSUME WorkbenchInv, ImportsGrow, FilesStay
  PROVE  \A u \in DOMAIN uploads : LinkOK(uploads[u], imports')
  <1>. SUFFICES ASSUME NEW u \in DOMAIN uploads PROVE LinkOK(uploads[u], imports')
    OBVIOUS
  <1>1. Opened(u) => imports'[Under(u)].file = NoFile
    BY DEF WorkbenchInv, Opening, LinkOK, Opened, Open, Under, NoImport, FilesStay
  <1>. QED
    BY <1>1, LinkKept

LEMMA CountsFinite ==
  ASSUME WorkbenchInv, ImportsGrow, uploads' \in Seq(Upload)
  PROVE  /\ IsFiniteSet(NoFileYet) /\ IsFiniteSet(OpenOrFailed)
         /\ IsFiniteSet(NoFileYet') /\ IsFiniteSet(OpenOrFailed')
         /\ Cardinality(NoFileYet) \in Nat /\ Cardinality(OpenOrFailed) \in Nat
         /\ Cardinality(NoFileYet') \in Nat /\ Cardinality(OpenOrFailed') \in Nat
  <1>1. imports' \in Seq(Import)
    BY DEF ImportsGrow
  <1>2. NoFileYet \subseteq 1..Len(imports) /\ OpenOrFailed \subseteq 1..Len(uploads)
    BY Types DEF NoFileYet, OpenOrFailed
  <1>3. NoFileYet' \subseteq 1..Len(imports') /\ OpenOrFailed' \subseteq 1..Len(uploads')
    BY <1>1 DEF NoFileYet, OpenOrFailed
  <1>4. /\ IsFiniteSet(1..Len(imports)) /\ IsFiniteSet(1..Len(uploads))
        /\ IsFiniteSet(1..Len(imports')) /\ IsFiniteSet(1..Len(uploads'))
    BY <1>1, Types, FS_Interval
  <1>5. /\ IsFiniteSet(NoFileYet) /\ IsFiniteSet(OpenOrFailed)
        /\ IsFiniteSet(NoFileYet') /\ IsFiniteSet(OpenOrFailed')
    BY <1>2, <1>3, <1>4, FS_Subset
  <1>. QED
    BY <1>5, FS_CardinalityType

LEMMA CountKept ==
  ASSUME WorkbenchInv, ImportsGrow, uploads' \in Seq(Upload),
         NoFileYet' \subseteq NoFileYet, OpenOrFailed \subseteq OpenOrFailed'
  PROVE  Counted'
  <1>1. Cardinality(NoFileYet') <= Cardinality(NoFileYet)
    BY CountsFinite, FS_Subset
  <1>2. Cardinality(OpenOrFailed) <= Cardinality(OpenOrFailed')
    BY CountsFinite, FS_Subset
  <1>. QED
    BY <1>1, <1>2, CountsFinite DEF WorkbenchInv, Counted

LEMMA CountAdded ==
  ASSUME WorkbenchInv, ImportsGrow, uploads' \in Seq(Upload),
         NEW i, NEW u, u \notin OpenOrFailed,
         NoFileYet' \subseteq NoFileYet \cup {i}, OpenOrFailed \cup {u} \subseteq OpenOrFailed'
  PROVE  Counted'
  <1>1. Cardinality(NoFileYet') <= Cardinality(NoFileYet) + 1
    <2>1. /\ IsFiniteSet(NoFileYet \cup {i})
          /\ Cardinality(NoFileYet \cup {i}) = IF i \in NoFileYet THEN Cardinality(NoFileYet) ELSE Cardinality(NoFileYet) + 1
      BY CountsFinite, FS_AddElement
    <2>2. Cardinality(NoFileYet') <= Cardinality(NoFileYet \cup {i})
      BY <2>1, FS_Subset
    <2>. QED
      BY <2>1, <2>2, CountsFinite
  <1>2. Cardinality(OpenOrFailed) + 1 <= Cardinality(OpenOrFailed')
    <2>1. Cardinality(OpenOrFailed \cup {u}) = Cardinality(OpenOrFailed) + 1
      BY CountsFinite, FS_AddElement
    <2>2. Cardinality(OpenOrFailed \cup {u}) <= Cardinality(OpenOrFailed')
      BY CountsFinite, FS_Subset
    <2>. QED
      BY <2>1, <2>2
  <1>. QED
    BY <1>1, <1>2, CountsFinite DEF WorkbenchInv, Counted

LEMMA CountRemoved ==
  ASSUME WorkbenchInv, ImportsGrow, uploads' \in Seq(Upload),
         NEW i \in NoFileYet, NEW u,
         NoFileYet' \subseteq NoFileYet \ {i}, OpenOrFailed \subseteq OpenOrFailed' \cup {u}
  PROVE  Counted'
  <1>1. Cardinality(NoFileYet') <= Cardinality(NoFileYet) - 1
    <2>1. IsFiniteSet(NoFileYet \ {i}) /\ Cardinality(NoFileYet \ {i}) = Cardinality(NoFileYet) - 1
      BY CountsFinite, FS_RemoveElement
    <2>2. Cardinality(NoFileYet') <= Cardinality(NoFileYet \ {i})
      BY <2>1, FS_Subset
    <2>. QED
      BY <2>1, <2>2
  <1>2. Cardinality(OpenOrFailed) <= Cardinality(OpenOrFailed') + 1
    <2>1. /\ IsFiniteSet(OpenOrFailed' \cup {u})
          /\ Cardinality(OpenOrFailed' \cup {u})
               = IF u \in OpenOrFailed' THEN Cardinality(OpenOrFailed') ELSE Cardinality(OpenOrFailed') + 1
      BY CountsFinite, FS_AddElement
    <2>2. Cardinality(OpenOrFailed) <= Cardinality(OpenOrFailed' \cup {u})
      BY <2>1, FS_Subset
    <2>. QED
      BY <2>1, <2>2, CountsFinite
  <1>. QED
    BY <1>1, <1>2, CountsFinite DEF WorkbenchInv, Counted

UploadsOK == uploads' \in Seq(Upload) /\ Opening' /\ Counted'

(* A submit that goes on, one that fails, one that redirects.              *)
LEMMA OneUpload ==
  ASSUME WorkbenchInv, NEW u \in DOMAIN uploads, NEW x \in Upload,
         uploads' = [uploads EXCEPT ![u] = x]
  PROVE  /\ uploads' \in Seq(Upload) /\ DOMAIN uploads' = DOMAIN uploads
         /\ uploads'[u] = x /\ \A v \in DOMAIN uploads : v # u => uploads'[v] = uploads[v]
  <1>1. u \in 1..Len(uploads) /\ DOMAIN uploads = 1..Len(uploads) /\ uploads \in Seq(Upload)
    BY Types, LenProperties
  <1>2. /\ uploads' \in Seq(Upload) /\ Len(uploads') = Len(uploads)
        /\ \A v \in 1..Len(uploads) : uploads'[v] = IF v = u THEN x ELSE uploads[v]
    BY <1>1, ExceptSeq
  <1>. QED
    BY <1>1, <1>2, LenProperties

LEMMA UploadsSame ==
  ASSUME WorkbenchInv, ImportsGrow, FilesStay, uploads' = uploads
  PROVE  UploadsOK
  <1>1. \A u \in DOMAIN uploads' : LinkOK(uploads'[u], imports')
    BY LinksKept
  <1>2. Opening'
    BY <1>1 DEF WorkbenchInv, Opening, Under
  <1>3. NoFileYet' \subseteq NoFileYet /\ OpenOrFailed' = OpenOrFailed
    BY DEF NoFileYet, FilesStay, OpenOrFailed, Opened
  <1>. QED
    BY <1>2, <1>3, CountKept, Types DEF UploadsOK

LEMMA SubmitStep ==
  ASSUME WorkbenchInv, Submit
  PROVE  UploadsOK
  <1>. DEFINE x == [pc |-> "create", import |-> NoImport, file |-> form.file]
  <1>1. ImportsGrow /\ FilesStay
    BY ImportsSame DEF Submit, rowVars
  <1>2. x \in Upload
    BY DEF Submit, WorkbenchInv, TypeInv, WorkbenchTypeOK, Upload, UploadPc, NoImport
  <1>3. uploads' = Append(uploads, x)
    BY DEF Submit
  <1>. HIDE DEF x
  <1>4. /\ uploads' \in Seq(Upload) /\ DOMAIN uploads' = DOMAIN uploads \cup {Len(uploads) + 1}
        /\ Len(uploads) + 1 \notin DOMAIN uploads
        /\ \A u \in DOMAIN uploads : uploads'[u] = uploads[u]
        /\ uploads'[Len(uploads) + 1] = x
    BY <1>2, <1>3, Types
  <1>5. LinkOK(x, imports')
    BY DEF LinkOK, Open, x
  <1>6. \A u \in DOMAIN uploads' : LinkOK(uploads'[u], imports')
    BY <1>1, <1>4, <1>5, LinksKept
  <1>7. Opening'
    <2>. SUFFICES ASSUME NEW u \in DOMAIN uploads', NEW v \in DOMAIN uploads', u # v, Under(u)' # NoImport
                  PROVE  Under(u)' # Under(v)'
      BY <1>6 DEF Opening
    <2>1. u \in DOMAIN uploads
      BY <1>4 DEF Under, x
    <2>2. CASE v \in DOMAIN uploads
      BY <1>4, <2>1, <2>2 DEF WorkbenchInv, Opening, Under
    <2>3. CASE v = Len(uploads) + 1
      BY <1>4, <2>3 DEF Under, x
    <2>. QED
      BY <1>4, <2>2, <2>3
  <1>8. NoFileYet' \subseteq NoFileYet
    BY DEF NoFileYet, Submit, rowVars
  <1>9. OpenOrFailed \subseteq OpenOrFailed'
    BY <1>4 DEF OpenOrFailed, Opened
  <1>. QED
    BY <1>1, <1>4, <1>7, <1>8, <1>9, CountKept DEF UploadsOK

(* The other submits keep their imports when one goes on.                  *)
LEMMA OthersKeep ==
  ASSUME WorkbenchInv, ImportsGrow, NEW u \in DOMAIN uploads,
         \A i \in DOMAIN imports : i # Under(u) => imports'[i].file = imports[i].file
  PROVE  \A v \in DOMAIN uploads : v # u => LinkOK(uploads[v], imports')
  <1>. SUFFICES ASSUME NEW v \in DOMAIN uploads, v # u PROVE LinkOK(uploads[v], imports')
    OBVIOUS
  <1>1. Opened(v) => Under(v) \in DOMAIN imports /\ Under(v) # Under(u) /\ imports[Under(v)].file = NoFile
    BY DEF WorkbenchInv, Opening, LinkOK, Opened, Open, Under, NoImport
  <1>. QED
    BY <1>1, LinkKept

LEMMA GivesUpStep ==
  ASSUME WorkbenchInv, ImportsGrow, NEW u \in DOMAIN uploads, Sending(u), GivesUp(u),
         \A i \in DOMAIN imports : i # Under(u) => imports'[i].file = imports[i].file
  PROVE  /\ uploads' \in Seq(Upload) /\ Opening'
         /\ OpenOrFailed \cup {u} \subseteq OpenOrFailed'
  <1>. DEFINE x == [uploads[u] EXCEPT !.pc = "failed"]
  <1>1. uploads[u] \in Upload /\ LinkOK(uploads[u], imports)
    BY Types DEF WorkbenchInv, Opening
  <1>2. x \in Upload /\ x.pc = "failed" /\ x.import = uploads[u].import
    BY <1>1 DEF Upload, UploadPc
  <1>3. uploads' = [uploads EXCEPT ![u] = x]
    BY DEF GivesUp, SetUpload
  <1>. HIDE DEF x
  <1>4. /\ uploads' \in Seq(Upload) /\ DOMAIN uploads' = DOMAIN uploads
        /\ uploads'[u] = x /\ \A v \in DOMAIN uploads : v # u => uploads'[v] = uploads[v]
    BY <1>2, <1>3, OneUpload
  <1>5. LinkOK(x, imports')
    BY <1>1, <1>2, MadeGrows DEF LinkOK, Open
  <1>6. \A v \in DOMAIN uploads' : LinkOK(uploads'[v], imports')
    BY <1>4, <1>5, OthersKeep
  <1>7. \A v \in DOMAIN uploads : Under(v)' = Under(v)
    BY <1>2, <1>4 DEF Under
  <1>8. Opening'
    BY <1>4, <1>6, <1>7 DEF WorkbenchInv, Opening
  <1>9. OpenOrFailed \cup {u} \subseteq OpenOrFailed'
    BY <1>2, <1>4 DEF OpenOrFailed, Opened
  <1>. QED
    BY <1>4, <1>8, <1>9

LEMMA UploadFailsStep ==
  ASSUME WorkbenchInv, ImportsGrow, NEW u \in DOMAIN uploads, UploadFails(u)
  PROVE  UploadsOK
  <1>1. Sending(u) /\ Accepts(u) /\ GivesUp(u)
    BY DEF UploadFails
  <1>2. CASE imports' = imports
    <2>1. NoFileYet' \subseteq NoFileYet
      BY <1>2 DEF NoFileYet
    <2>. QED
      BY <1>1, <1>2, <2>1, GivesUpStep, CountKept DEF UploadsOK
  <1>3. CASE imports' # imports /\ uploads[u].pc = "create"
    <2>1. imports' = Append(imports, NewImport)
      BY <1>1, <1>3, ServedStep DEF UploadFails
    <2>2. \A i \in DOMAIN imports : imports'[i].file = imports[i].file
      BY <2>1, Types
    <2>3. NoFileYet' \subseteq NoFileYet \cup {Len(imports) + 1}
      BY <2>1, Types DEF NoFileYet
    <2>4. u \notin OpenOrFailed
      BY <1>3 DEF OpenOrFailed, Opened, Open
    <2>. QED
      BY <1>1, <2>2, <2>3, <2>4, GivesUpStep, CountAdded DEF UploadsOK
  <1>4. CASE imports' # imports /\ uploads[u].pc # "create"
    <2>1. Served(u) /\ uploads[u].pc \in {"presign", "confirm"}
      BY <1>1, <1>4, ServedStep DEF UploadFails, Sending
    <2>2. PICK m \in Import : imports' = [imports EXCEPT ![Under(u)] = m]
      BY <1>1, <2>1, ServedStep
    <2>3. DOMAIN imports' = DOMAIN imports /\ \A i \in DOMAIN imports : i # Under(u) => imports'[i] = imports[i]
      BY <2>2, Types
    <2>4. imports[Under(u)].file = NoFile /\ Under(u) \in DOMAIN imports
      BY <1>1, <2>1, ServedStep DEF WorkbenchInv, Opening, LinkOK, Open, Under
    <2>5. NoFileYet' \subseteq NoFileYet
      BY <2>3, <2>4 DEF NoFileYet
    <2>. QED
      BY <1>1, <2>3, <2>5, GivesUpStep, CountKept DEF UploadsOK
  <1>. QED
    BY <1>2, <1>3, <1>4

LEMMA UploadRefusedStep ==
  ASSUME WorkbenchInv, NEW u \in DOMAIN uploads, UploadRefused(u)
  PROVE  UploadsOK
  <1>1. imports' = imports
    BY DEF UploadRefused, rowVars
  <1>2. ImportsGrow /\ FilesStay /\ NoFileYet' \subseteq NoFileYet
    BY <1>1, ImportsSame DEF NoFileYet
  <1>. QED
    BY <1>1, <1>2, GivesUpStep, CountKept DEF UploadsOK, UploadRefused, FilesStay

LEMMA UploadRedirectStep ==
  ASSUME WorkbenchInv, NEW u \in DOMAIN uploads, UploadRedirect(u)
  PROVE  UploadsOK
  <1>. DEFINE x == [uploads[u] EXCEPT !.pc = "done"]
  <1>1. uploads[u] \in Upload /\ LinkOK(uploads[u], imports) /\ uploads[u].pc = "redirect"
    BY Types DEF WorkbenchInv, Opening, UploadRedirect
  <1>2. imports' = imports
    BY DEF UploadRedirect, rowVars
  <1>3. ImportsGrow /\ FilesStay /\ NoFileYet' \subseteq NoFileYet
    BY <1>2, ImportsSame DEF NoFileYet
  <1>4. x \in Upload /\ x.pc = "done" /\ x.import = uploads[u].import /\ x.file = uploads[u].file
    BY <1>1 DEF Upload, UploadPc
  <1>5. uploads' = [uploads EXCEPT ![u] = x]
    BY DEF UploadRedirect, SetUpload
  <1>. HIDE DEF x
  <1>6. /\ uploads' \in Seq(Upload) /\ DOMAIN uploads' = DOMAIN uploads
        /\ uploads'[u] = x /\ \A v \in DOMAIN uploads : v # u => uploads'[v] = uploads[v]
    BY <1>4, <1>5, OneUpload
  <1>7. LinkOK(x, imports')
    BY <1>1, <1>2, <1>4 DEF LinkOK, Open
  <1>8. \A v \in DOMAIN uploads' : LinkOK(uploads'[v], imports')
    BY <1>3, <1>6, <1>7, LinksKept
  <1>9. \A v \in DOMAIN uploads : Under(v)' = Under(v)
    BY <1>4, <1>6 DEF Under
  <1>10. Opening'
    BY <1>6, <1>8, <1>9 DEF WorkbenchInv, Opening
  <1>11. OpenOrFailed \subseteq OpenOrFailed'
    BY <1>1, <1>6 DEF OpenOrFailed, Opened, Open
  <1>. QED
    BY <1>3, <1>6, <1>10, <1>11, CountKept DEF UploadsOK

LEMMA UploadGoesOn ==
  ASSUME WorkbenchInv, NEW u \in DOMAIN uploads, UploadStep(u)
  PROVE  UploadsOK
  <1>. DEFINE pc == uploads[u].pc
              a == NextPc[pc]
              b == IF pc = "create" THEN Len(imports) + 1 ELSE uploads[u].import
              x == [uploads[u] EXCEPT !.pc = a, !.import = b]
  <1>1. Sending(u) /\ Accepts(u) /\ Served(u) /\ uploads[u] \in Upload /\ LinkOK(uploads[u], imports)
    BY Types DEF UploadStep, WorkbenchInv, Opening
  <1>2. ImportsGrow
    BY <1>1, ServedStep
  <1>3. /\ x \in Upload /\ x.pc = NextPc[pc] /\ x.file = uploads[u].file
        /\ x.import = IF pc = "create" THEN Len(imports) + 1 ELSE uploads[u].import
    <2>1. a \in UploadPc
      BY <1>1 DEF NextPc, Sending, UploadPc
    <2>2. b \in Nat
      BY <1>1, Types DEF Upload
    <2>. HIDE DEF a, b
    <2>3. x \in Upload /\ x.pc = a /\ x.file = uploads[u].file /\ x.import = b
      BY <1>1, <2>1, <2>2 DEF Upload
    <2>. QED
      BY <2>3 DEF a, b
  <1>4. uploads' = [uploads EXCEPT ![u] = x]
    <2>1. uploads' = [uploads EXCEPT ![u].pc = NextPc[@],
                                     ![u].import = IF uploads[u].pc = "create" THEN Len(imports) + 1 ELSE @]
      BY DEF UploadStep
    <2>. QED
      BY <1>1, <2>1, Types
  <1>. HIDE DEF x
  <1>5. /\ uploads' \in Seq(Upload) /\ DOMAIN uploads' = DOMAIN uploads
        /\ uploads'[u] = x /\ \A v \in DOMAIN uploads : v # u => uploads'[v] = uploads[v]
    BY <1>3, <1>4, OneUpload
  <1>6. CASE pc = "create"
    <2>1. imports' = Append(imports, NewImport) /\ uploads[u].import = NoImport
      BY <1>1, <1>6, ServedStep DEF LinkOK
    <2>2. /\ \A i \in DOMAIN imports : imports'[i].file = imports[i].file
          /\ imports'[Len(imports) + 1] = NewImport /\ Len(imports) + 1 \in DOMAIN imports'
          /\ Len(imports) + 1 \notin DOMAIN imports /\ Len(imports) + 1 # NoImport
      BY <2>1, Types DEF NoImport
    <2>3. x.pc = "presign" /\ x.import = Len(imports) + 1
      BY <1>3, <1>6 DEF NextPc
    <2>4. LinkOK(x, imports')
      BY <2>2, <2>3 DEF LinkOK, Open, NewImport
    <2>5. \A v \in DOMAIN uploads' : LinkOK(uploads'[v], imports')
      BY <1>2, <1>5, <2>2, <2>4, OthersKeep
    <2>6. \A v \in DOMAIN uploads : v # u => Under(v)' = Under(v) /\ Under(v) # Len(imports) + 1
      BY <1>5, <2>2 DEF Under, WorkbenchInv, Opening, LinkOK
    <2>7. Opening'
      BY <1>5, <2>3, <2>5, <2>6 DEF WorkbenchInv, Opening, Under
    <2>8. NoFileYet' \subseteq NoFileYet \cup {Len(imports) + 1}
      BY <2>1, Types DEF NoFileYet
    <2>9. u \notin OpenOrFailed /\ OpenOrFailed \cup {u} \subseteq OpenOrFailed'
      BY <1>5, <1>6, <2>3 DEF OpenOrFailed, Opened, Open
    <2>. QED
      BY <1>2, <1>5, <2>7, <2>8, <2>9, CountAdded DEF UploadsOK
  <1>7. CASE pc # "create"
    <2>1. x.import = uploads[u].import /\ \A v \in DOMAIN uploads : Under(v)' = Under(v)
      BY <1>3, <1>5, <1>7 DEF Under
    <2>2. pc \in {"presign", "put", "confirm"} /\ x.pc = NextPc[pc]
      BY <1>1, <1>3, <1>7 DEF Sending
    <2>3. Under(u) \in DOMAIN imports /\ imports[Under(u)].file = NoFile /\ Under(u) # NoImport
      BY <1>1, <2>2 DEF LinkOK, Open, Under, NoImport
    <2>4. \/ imports' = imports /\ pc = "put"
          \/ /\ pc \in {"presign", "confirm"}
             /\ \E m \in Import : /\ imports' = [imports EXCEPT ![Under(u)] = m]
                                  /\ m.file = IF pc = "confirm" THEN uploads[u].file ELSE NoFile
      BY <1>1, <2>2, ServedStep
    <2>5. /\ DOMAIN imports' = DOMAIN imports
          /\ \A i \in DOMAIN imports : i # Under(u) => imports'[i] = imports[i]
          /\ imports'[Under(u)].file = IF pc = "confirm" THEN uploads[u].file ELSE NoFile
      BY <2>3, <2>4, Types
    <2>6. LinkOK(x, imports')
      BY <1>3, <2>1, <2>2, <2>3, <2>5 DEF LinkOK, Open, NextPc, Under
    <2>7. \A v \in DOMAIN uploads' : LinkOK(uploads'[v], imports')
      BY <1>2, <1>5, <2>5, <2>6, OthersKeep
    <2>8. Opening'
      BY <1>5, <2>1, <2>7 DEF WorkbenchInv, Opening
    <2>9. CASE pc = "confirm"
      <3>1. uploads[u].file # NoFile
        BY <1>1, WorkbenchAssumption DEF Upload
      <3>2. Under(u) \in NoFileYet /\ NoFileYet' \subseteq NoFileYet \ {Under(u)}
        BY <2>3, <2>5, <2>9, <3>1 DEF NoFileYet
      <3>3. OpenOrFailed \subseteq OpenOrFailed' \cup {u}
        BY <1>5 DEF OpenOrFailed, Opened
      <3>. QED
        BY <1>2, <1>5, <2>8, <3>2, <3>3, CountRemoved DEF UploadsOK
    <2>10. CASE pc # "confirm"
      <3>1. NoFileYet' \subseteq NoFileYet
        BY <2>3, <2>5, <2>10 DEF NoFileYet
      <3>2. OpenOrFailed \subseteq OpenOrFailed'
        BY <1>5, <2>2, <2>10 DEF OpenOrFailed, Opened, Open, NextPc
      <3>. QED
        BY <1>2, <1>5, <2>8, <3>1, <3>2, CountKept DEF UploadsOK
    <2>. QED
      BY <2>9, <2>10
  <1>. QED
    BY <1>6, <1>7

LEMMA ClickExportUploads ==
  ASSUME WorkbenchInv, ClickExport
  PROVE  UploadsOK
  <1>1. imports' = imports /\ ImportsGrow /\ FilesStay
    BY ImportsSame DEF ClickExport
  <1>. DEFINE new(u) == IF Sending(u) \/ uploads[u].pc = "redirect" THEN [uploads[u] EXCEPT !.pc = "failed"]
                        ELSE uploads[u]
  <1>2. uploads' = [u \in DOMAIN uploads |-> new(u)]
    BY DEF ClickExport
  <1>3. \A u \in DOMAIN uploads :
          /\ new(u) \in Upload /\ new(u).import = uploads[u].import
          /\ new(u) = uploads[u] \/ new(u).pc = "failed"
          /\ Opened(u) => new(u).pc = "failed"
    BY Types DEF Upload, UploadPc, Opened, Open, Sending
  <1>. HIDE DEF new
  <1>4. DOMAIN uploads' = DOMAIN uploads /\ \A u \in DOMAIN uploads : uploads'[u] = new(u)
    BY <1>2
  <1>5. uploads' \in Seq(Upload)
    <2>1. DOMAIN uploads = 1..Len(uploads) /\ Len(uploads) \in Nat
      BY Types, LenProperties
    <2>. QED
      BY <1>2, <1>3, <2>1
  <1>6. \A u \in DOMAIN uploads' : LinkOK(uploads'[u], imports')
    <2>. SUFFICES ASSUME NEW u \in DOMAIN uploads PROVE LinkOK(new(u), imports')
      BY <1>4
    <2>1. LinkOK(uploads[u], imports)
      BY DEF WorkbenchInv, Opening
    <2>. QED
      BY <1>1, <1>3, <2>1 DEF LinkOK, Open
  <1>7. \A u \in DOMAIN uploads : Under(u)' = Under(u)
    BY <1>3, <1>4 DEF Under
  <1>8. Opening'
    BY <1>4, <1>6, <1>7 DEF WorkbenchInv, Opening
  <1>9. NoFileYet' \subseteq NoFileYet
    BY <1>1 DEF NoFileYet
  <1>10. OpenOrFailed \subseteq OpenOrFailed'
    BY <1>3, <1>4 DEF OpenOrFailed, Opened
  <1>. QED
    BY <1>1, <1>5, <1>8, <1>9, <1>10, CountKept DEF UploadsOK

LEMMA UploadsStep ==
  ASSUME WorkbenchInv, Next
  PROVE  UploadsOK
  <1>1. ImportsGrow
    BY ImportsStep
  <1>2. CASE FilesStay /\ uploads' = uploads
    BY <1>1, <1>2, UploadsSame
  <1>3. CASE PageStep
    <2>1. uploads' = uploads
      BY <1>3 DEF PageStep, Follow, Fetch, FetchFails, ServeProduct, ReceiveProduct, Poll, Focus, Stay
    <2>2. FilesStay
      BY <1>3, QuietImports, ImportsSame
    <2>. QED
      BY <1>2, <2>1, <2>2
  <1>4. CASE \/ \E f \in Files : ChooseFile(f)
             \/ RemoveFile \/ ClickSave \/ SaveRead \/ SaveAnswer \/ SaveFails
             \/ \E title \in Titles : Type(title)
             \/ OtherReads
    <2>1. uploads' = uploads
      BY <1>4 DEF ChooseFile, RemoveFile, ClickSave, SaveRead, SaveAnswer, SaveFails, Type, OtherReads, OtherRead
    <2>2. FilesStay
      BY <1>4, QuietImports, ImportsSame DEF QuietStep
    <2>. QED
      BY <1>2, <2>1, <2>2
  <1>5. CASE Submit \/ ClickExport \/ \E u \in DOMAIN uploads : UploadRefused(u) \/ UploadRedirect(u)
    BY <1>5, SubmitStep, UploadRefusedStep, UploadRedirectStep, ClickExportUploads
  <1>6. ASSUME NEW u \in DOMAIN uploads, UploadStep(u) \/ UploadFails(u)
        PROVE  UploadsOK
    BY <1>1, <1>6, UploadGoesOn, UploadFailsStep
  <1>7. CASE ClickProcess \/ SaveWrite \/ OtherWrite
    <2>1. uploads' = uploads
      BY <1>7 DEF ClickProcess, Stay, SaveWrite, OtherWrite
    <2>2. FilesStay
      BY <1>7, ClickProcessRows, SaveWriteRows, OtherWriteRows
    <2>. QED
      BY <1>2, <2>1, <2>2
  <1>8. ASSUME NEW i \in DOMAIN imports, WorkImport(i) \/ Resolve(i) \/ Remove(i)
        PROVE  UploadsOK
    <2>1. uploads' = uploads
      BY <1>8 DEF WorkImport, Resolve, Remove
    <2>2. FilesStay
      BY <1>8, WorkImportRows, ResolveRows, RemoveRows
    <2>. QED
      BY <1>2, <2>1, <2>2
  <1>9. ASSUME NEW e \in DOMAIN exports, WorkExport(e)
        PROVE  UploadsOK
    <2>1. uploads' = uploads
      BY <1>9 DEF WorkExport
    <2>2. FilesStay
      BY <1>9, WorkExportRows
    <2>. QED
      BY <1>2, <2>1, <2>2
  <1>. QED
    <2>1. CASE QuietStep
      BY <1>4, <1>5, <2>1 DEF QuietStep
    <2>. QED
      BY <1>3, <1>6, <1>7, <1>8, <1>9, <2>1, StepKinds

-----------------------------------------------------------------------------
(* Pages                                                                   *)

Target(r) ==
  /\ r \in [name : PageName, id : Nat]
  /\ r.name \in {"import", "product"} => r.id \in DOMAIN imports
  /\ r.name = "product" => r.id \in Made
  /\ r.name = "export" => r.id \in DOMAIN exports'

Moves == \E r : Target(r) /\ Goto(r)

Held(q) ==
  \/ Found(route) /\ Hold(q, AnswerTo(q, route))
  \/ q = "main" /\ answer # NoData /\ Hold(q, answer)

Answered ==
  /\ \E q \in Queries : Enabled(q, route, shown) /\ Held(q)
  /\ route' = route /\ answer' = NoData /\ imports' = imports /\ exports' = exports

Stays ==
  /\ route' = route /\ shown' = shown
  /\ asked' \subseteq asked \cup EnabledOf(route, shown)
  /\ asked \subseteq asked' \/ upsets' = upsets + 1 \/ ~Found(route)
  /\ \/ answer' \in {answer, NoData}
     \/ route.name = "product" /\ Found(route) /\ answer' = AnswerTo("main", route)

LEMMA PageTypes ==
  ASSUME WorkbenchInv
  PROVE  /\ route \in [name : PageName, id : Nat] /\ asked \subseteq EnabledOf(route, shown)
         /\ shown = [q \in Queries |-> shown[q]]
         /\ save \in [patch : Patch, here : BOOLEAN, last : Title \cup {NoData}, at : Nat]
         /\ form \in [file : Files \cup {NoFile}, busy : Nat] /\ draft \in Title \cup {NoData}
         /\ other \in Patch /\ clash \in BOOLEAN /\ stale \in BOOLEAN /\ upsets \in Nat
  BY DEF WorkbenchInv, TypeInv, WorkbenchTypeOK

(* What the page links to was there, and still is.                         *)
LEMMA FollowTarget ==
  ASSUME WorkbenchInv, ExportsGrow, NEW r \in [name : PageName, id : Nat], Follow(r)
  PROVE  Target(r)
  <1>1. r \in Links /\ DOMAIN exports \subseteq DOMAIN exports'
    BY DEF Follow, ExportsGrow
  <1>2. CASE \E name \in Lists \cup {"new"} : r = At(name, 0)
    BY <1>2 DEF Target, At, Lists
  <1>3. CASE route.name = "import" /\ shown["products"] \notin {NoData, {}} /\ r = At("product", route.id)
    BY <1>3, Types DEF Target, At, WorkbenchInv, Seen
  <1>4. CASE route.name = "imports" /\ shown["main"] # NoData /\ \E i \in DOMAIN shown["main"] : r = At("import", i)
    BY <1>4 DEF Target, At, WorkbenchInv, Seen
  <1>5. CASE /\ route.name = "dashboard" /\ shown["main"] # NoData
             /\ \E i \in DOMAIN shown["main"].imports : r = At("import", i)
    BY <1>5 DEF Target, At, WorkbenchInv, Seen
  <1>6. CASE route.name = "exports" /\ shown["main"] # NoData /\ \E e \in DOMAIN shown["main"] : r = At("export", e)
    BY <1>1, <1>6 DEF Target, At, WorkbenchInv, Seen
  <1>. QED
    BY <1>1, <1>2, <1>3, <1>4, <1>5, <1>6 DEF Links

LEMMA OpensAnother ==
  ASSUME WorkbenchInv, ImportsGrow, ExportsGrow, ClickExport \/ \E u \in DOMAIN uploads : UploadRedirect(u)
  PROVE  Moves
  <1>1. CASE ClickExport
    <2>1. Target(At("export", Len(exports) + 1))
      BY <1>1, ClickExportStep, Types DEF Target, At, PageName
    <2>. QED
      BY <1>1, <2>1 DEF ClickExport, Moves
  <1>2. ASSUME NEW u \in DOMAIN uploads, UploadRedirect(u)
        PROVE  Moves
    <2>1. Under(u) \in DOMAIN imports
      BY <1>2 DEF UploadRedirect, WorkbenchInv, Opening, LinkOK, Under, NoImport
    <2>2. Target(At("import", Under(u)))
      BY <2>1, Types DEF Target, At, PageName
    <2>. QED
      BY <1>2, <2>2 DEF UploadRedirect, Moves
  <1>. QED
    BY <1>1, <1>2

(* A page is left, or holds an answer, or stays as it is.                  *)
LEMMA PageKinds ==
  ASSUME WorkbenchInv, Next
  PROVE  Moves \/ Answered \/ Stays
  <1>1. ImportsGrow /\ ExportsGrow
    BY ImportsStep, ExportsStep
  <1>2. ASSUME route' = route, shown' = shown, asked' = asked, answer' = answer
        PROVE  Stays
    BY <1>2 DEF Stays
  <1>3. ASSUME NEW r \in [name : PageName, id : Nat], Follow(r)
        PROVE  Moves
    BY <1>1, <1>3, FollowTarget DEF Follow, Moves
  <1>4. ASSUME NEW q \in Queries, Fetch(q) \/ FetchFails(q)
        PROVE  Answered \/ Stays
    <2>1. Enabled(q, route, shown)
      BY <1>4, PageTypes DEF EnabledOf, Fetch, FetchFails
    <2>2. CASE Fetch(q) /\ Found(route)
      BY <2>1, <2>2 DEF Fetch, Answered, Held, Stay, rowVars
    <2>3. CASE Fetch(q) /\ ~Found(route)
      BY <2>3 DEF Fetch, Stays, Stay
    <2>4. CASE FetchFails(q)
      BY <2>4 DEF FetchFails, Stays, Stay, Upset
    <2>. QED
      BY <1>4, <2>2, <2>3, <2>4
  <1>5. CASE ServeProduct
    BY <1>5 DEF ServeProduct, Stays, Stay
  <1>6. CASE ReceiveProduct
    <2>1. route.name = "product" /\ "main" \in Queries
      BY <1>6 DEF ReceiveProduct, WorkbenchInv, Seen, Queries
    <2>2. Enabled("main", route, shown)
      BY <2>1 DEF Enabled
    <2>. QED
      BY <1>6, <2>1, <2>2 DEF ReceiveProduct, Answered, Held, Stay, rowVars
  <1>7. CASE Poll
    <2>1. route.name = "import" => "job" \in EnabledOf(route, shown)
      BY DEF EnabledOf, Enabled, Queries
    <2>2. route.name = "export" => "main" \in EnabledOf(route, shown)
      BY DEF EnabledOf, Enabled, Queries
    <2>. QED
      BY <1>7, <2>1, <2>2 DEF Poll, Stays, Stay
  <1>8. CASE Focus
    BY <1>8 DEF Focus, Stays, Stay
  <1>9. CASE SaveAnswer
    <2>1. save.here => "main" \in EnabledOf(route, shown)
      BY DEF WorkbenchInv, Here, EnabledOf, Enabled, Queries
    <2>. QED
      BY <1>9, <2>1 DEF SaveAnswer, Stays
  <1>10. ASSUME ClickExport \/ \E u \in DOMAIN uploads : UploadRedirect(u)
         PROVE  Moves
    BY <1>1, <1>10, OpensAnother
  <1>11. ASSUME NEW u \in DOMAIN uploads, UploadStep(u) \/ UploadFails(u) \/ UploadRefused(u)
         PROVE  Stays
    <2>1. route' = route /\ shown' = shown /\ asked' = asked /\ answer' = answer
      BY <1>11 DEF UploadStep, UploadFails, UploadRefused, GivesUp, pageVars
    <2>. QED
      BY <1>2, <2>1
  <1>12. CASE ClickProcess
    <2>1. "job" \in EnabledOf(route, shown)
      BY <1>12 DEF ClickProcess, EnabledOf, Enabled, Queries
    <2>. QED
      BY <1>12, <2>1 DEF ClickProcess, Stays, Stay
  <1>13. CASE \/ \E f \in Files : ChooseFile(f)
              \/ RemoveFile \/ Submit \/ ClickSave \/ SaveRead \/ SaveFails
              \/ \E title \in Titles : Type(title)
              \/ OtherReads
    BY <1>2, <1>13 DEF ChooseFile, RemoveFile, Submit, ClickSave, SaveRead, SaveFails, Type, OtherReads, OtherRead, pageVars
  <1>14. CASE \/ SaveWrite \/ OtherWrite
              \/ \E i \in DOMAIN imports : WorkImport(i) \/ Resolve(i) \/ Remove(i)
              \/ \E e \in DOMAIN exports : WorkExport(e)
    BY <1>2, <1>14 DEF SaveWrite, OtherWrite, WorkImport, Resolve, Remove, WorkExport, pageVars
  <1>. QED
    <2>1. CASE PageStep
      BY <1>3, <1>4, <1>5, <1>6, <1>7, <1>8, <2>1 DEF PageStep
    <2>2. CASE QuietStep
      BY <1>9, <1>10, <1>11, <1>13, <2>2 DEF QuietStep
    <2>. QED
      BY <1>11, <1>12, <1>14, <2>1, <2>2, StepKinds

(* What the API answers the page of an import, and the other pages.        *)
LEMMA ImportAnswers ==
  ASSUME WorkbenchInv, route.name = "import", Found(route)
  PROVE  /\ AnswerTo("job", route) = imports[route.id].status
         /\ imports[route.id].status \in ImportStatus
         /\ imports[route.id].status = "MAPPING_REQUIRED" => imports[route.id].file # NoFile
         /\ imports[route.id].status = "READY" <=> route.id \in Made
         /\ AnswerTo("products", route) \in Contents
         /\ AnswerTo("products", route) # {} => route.id \in Made
  <1>1. route.id \in DOMAIN imports /\ ~imports[route.id].deleted
    BY DEF Found, Live
  <1>2. imports[route.id] \in Import /\ LifeOf(imports[route.id])
    BY <1>1, Types
  <1>3. AnswerTo("job", route) = imports[route.id].status
    BY DEF AnswerTo
  <1>4. AnswerTo("products", route) = IF route.id \in Made THEN {ProductItem(route.id)} ELSE {}
    BY DEF AnswerTo
  <1>5. route.id \in Made => ProductItem(route.id) \in Item
    <2>. HAVE route.id \in Made
    <2>1. imports[route.id].product \in Product
      BY Types
    <2>. QED
      BY <2>1 DEF ProductItem, Item, Product
  <1>6. imports[route.id].status = "READY" <=> route.id \in Made
    BY <1>1, <1>2 DEF LifeOf, Made
  <1>. QED
    BY <1>2, <1>3, <1>4, <1>5, <1>6 DEF LifeOf, Import, Contents

LEMMA OtherAnswers ==
  ASSUME WorkbenchInv, Found(route)
  PROVE  /\ route.name = "imports" => DOMAIN AnswerTo("main", route) \subseteq DOMAIN imports
         /\ route.name = "dashboard" => DOMAIN AnswerTo("main", route).imports \subseteq DOMAIN imports
         /\ route.name = "exports" => DOMAIN AnswerTo("main", route) \subseteq DOMAIN exports
         /\ route.name = "product" =>
              /\ AnswerTo("main", route).title = imports[route.id].product.title
              /\ AnswerTo("main", route).title \in Title
         /\ route.name = "export" => AnswerTo("main", route) = exports[route.id].status
  <1>1. CASE route.name = "imports"
    BY <1>1 DEF AnswerTo, ImportList, Live
  <1>2. CASE route.name = "dashboard"
    BY <1>2 DEF AnswerTo, Dashboard, ImportList, Live
  <1>3. CASE route.name = "exports"
    BY <1>3 DEF AnswerTo, ExportList
  <1>4. CASE route.name = "product"
    <2>1. imports[route.id].product \in Product
      BY <1>4, Types DEF WorkbenchInv, Seen
    <2>. QED
      BY <1>4, <2>1 DEF AnswerTo, ProductDetail, Product
  <1>5. CASE route.name = "export"
    BY <1>5 DEF AnswerTo
  <1>. QED
    BY <1>1, <1>2, <1>3, <1>4, <1>5

(* The page of an import asks for its products as long as it is ready.     *)
LEMMA HeldAsked ==
  ASSUME WorkbenchInv, NEW q \in Queries, Enabled(q, route, shown), Held(q), route' = route
  PROVE  asked' \subseteq EnabledOf(route, shown')
  <1>1. PICK data : /\ Hold(q, data)
                    /\ \/ Found(route) /\ data = AnswerTo(q, route)
                       \/ q = "main"
    BY DEF Held
  <1>2. /\ shown' = [shown EXCEPT ![q] = data]
        /\ asked' = (asked \ {q}) \cup (EnabledOf(route, shown') \ EnabledOf(route, shown))
    BY <1>1 DEF Hold
  <1>3. shown'[q] = data /\ \A p \in Queries : p # q => shown'[p] = shown[p]
    BY <1>2, PageTypes
  <1>. SUFFICES ASSUME NEW p \in Queries, p # q, Enabled(p, route, shown)
                PROVE  Enabled(p, route, shown')
    BY <1>2, PageTypes DEF EnabledOf
  <1>4. CASE q \in {"main", "summary"}
    BY <1>3, <1>4 DEF Enabled, Queries
  <1>5. CASE q = "job"
    <2>1. route.name = "import" /\ Found(route) /\ data = imports[route.id].status
      BY <1>1, <1>5, ImportAnswers DEF Enabled
    <2>2. CASE p = "products"
      <3>1. shown["job"] = "READY"
        <4>1. shown["job"] \in {"READY", "COMPLETED"} /\ shown["job"] \in ImportStatus \cup {NoData}
          BY <2>1, <2>2 DEF Enabled, WorkbenchInv, Seen
        <4>. QED
          BY <4>1, WorkbenchAssumption DEF ImportStatus, ExportStatus
      <3>2. imports[route.id].status = "READY"
        BY <2>1, <3>1, ImportAnswers DEF WorkbenchInv, Seen
      <3>. QED
        BY <1>3, <1>5, <2>1, <2>2, <3>2 DEF Enabled
    <2>3. CASE p # "products"
      BY <1>3, <1>5, <2>1, <2>3 DEF Enabled, Queries
    <2>. QED
      BY <2>2, <2>3
  <1>6. CASE q = "products"
    <2>1. route.name = "import" /\ data \in Contents
      BY <1>1, <1>6, ImportAnswers DEF Enabled
    <2>2. data # NoData
      BY <2>1, WorkbenchAssumption DEF Contents
    <2>. QED
      BY <1>3, <1>6, <2>1, <2>2 DEF Enabled, Queries
  <1>. QED
    BY <1>4, <1>5, <1>6 DEF Queries

LEMMA PageTypesStep ==
  ASSUME WorkbenchInv, Next
  PROVE  /\ route' \in [name : PageName, id : Nat] /\ asked' \subseteq EnabledOf(route', shown')
         /\ shown' = [q \in Queries |-> shown'[q]]
  <1>1. CASE Moves
    BY <1>1 DEF Moves, Target, Goto, Blank
  <1>2. CASE Answered
    <2>1. PICK q \in Queries : Enabled(q, route, shown) /\ Held(q)
      BY <1>2 DEF Answered
    <2>2. \E data : shown' = [shown EXCEPT ![q] = data]
      BY <2>1 DEF Held, Hold
    <2>3. shown' = [p \in Queries |-> shown'[p]]
      BY <2>2, PageTypes
    <2>. QED
      BY <1>2, <2>1, <2>3, HeldAsked, PageTypes DEF Answered
  <1>3. CASE Stays
    BY <1>3, PageTypes DEF Stays
  <1>. QED
    BY <1>1, <1>2, <1>3, PageKinds

LEMMA FormStep ==
  ASSUME WorkbenchInv, Next
  PROVE  /\ form' \in [file : Files \cup {NoFile}, busy : Nat]
         /\ draft' \in Title \cup {NoData}
  <1>1. ASSUME form' = form, draft' = draft
        PROVE  form' \in [file : Files \cup {NoFile}, busy : Nat] /\ draft' \in Title \cup {NoData}
    BY <1>1, PageTypes
  <1>2. CASE form' = NoForm /\ draft' = NoData
    BY <1>2 DEF NoForm
  <1>3. ASSUME NEW f \in Files, ChooseFile(f)
        PROVE  form' \in [file : Files \cup {NoFile}, busy : Nat] /\ draft' = draft
    BY <1>3, PageTypes DEF ChooseFile
  <1>4. ASSUME RemoveFile
        PROVE  form' \in [file : Files \cup {NoFile}, busy : Nat] /\ draft' = draft
    BY <1>4, PageTypes DEF RemoveFile
  <1>5. ASSUME Submit
        PROVE  form' \in [file : Files \cup {NoFile}, busy : Nat] /\ draft' = draft
    <2>1. Len(uploads) \in Nat
      BY Types
    <2>. QED
      BY <1>5, <2>1, PageTypes DEF Submit
  <1>6. ASSUME NEW u \in DOMAIN uploads, UploadStep(u) \/ UploadFails(u) \/ UploadRefused(u)
        PROVE  form' \in [file : Files \cup {NoFile}, busy : Nat] /\ draft' = draft
    <2>1. form' \in {form, [form EXCEPT !.busy = 0]} /\ draft' = draft
      BY <1>6 DEF UploadStep, UploadFails, UploadRefused, GivesUp, pageVars
    <2>. QED
      BY <2>1, PageTypes
  <1>7. ASSUME NEW title \in Titles, Type(title)
        PROVE  form' = form /\ draft' \in Title
    BY <1>7 DEF Type, Title
  <1>8. CASE PageStep
    <2>1. \/ form' = form /\ draft' = draft
          \/ form' = NoForm /\ draft' = NoData
      BY <1>8 DEF PageStep, Follow, Goto, Fetch, FetchFails, ServeProduct, ReceiveProduct, Poll, Focus, Stay
    <2>. QED
      BY <1>1, <1>2, <2>1
  <1>9. CASE ClickExport \/ \E u \in DOMAIN uploads : UploadRedirect(u)
    BY <1>2, <1>9 DEF ClickExport, UploadRedirect, Goto
  <1>10. CASE \/ ClickSave \/ SaveRead \/ SaveAnswer \/ SaveFails \/ ClickProcess \/ SaveWrite \/ OtherWrite
              \/ OtherReads
              \/ \E i \in DOMAIN imports : WorkImport(i) \/ Resolve(i) \/ Remove(i)
              \/ \E e \in DOMAIN exports : WorkExport(e)
    <2>1. form' = form /\ draft' = draft
      BY <1>10 DEF ClickSave, SaveRead, SaveAnswer, SaveFails, ClickProcess, SaveWrite, OtherWrite, OtherReads, OtherRead,
                   WorkImport, Resolve, Remove, WorkExport, Stay, pageVars
    <2>. QED
      BY <1>1, <2>1
  <1>. QED
    <2>1. CASE QuietStep
      BY <1>3, <1>4, <1>5, <1>6, <1>7, <1>9, <1>10, <2>1, PageTypes DEF QuietStep
    <2>. QED
      BY <1>6, <1>8, <1>10, <2>1, PageTypes, StepKinds

(* What a step does to the save of the page.                               *)
LEMMA SaveKinds ==
  ASSUME WorkbenchInv, Next
  PROVE  \/ save' = save
         \/ Moves /\ save' = [save EXCEPT !.here = FALSE, !.last = NoData]
         \/ ClickSave \/ SaveRead \/ SaveWrite \/ SaveAnswer \/ SaveFails
  <1>1. ImportsGrow /\ ExportsGrow
    BY ImportsStep, ExportsStep
  <1>2. ASSUME NEW r \in [name : PageName, id : Nat], Follow(r)
        PROVE  Moves /\ save' = [save EXCEPT !.here = FALSE, !.last = NoData]
    BY <1>1, <1>2, FollowTarget DEF Follow, Moves, Goto
  <1>3. CASE PageStep
    <2>1. save' = save \/ \E r \in [name : PageName, id : Nat] : Follow(r)
      BY <1>3 DEF PageStep, Fetch, FetchFails, ServeProduct, ReceiveProduct, Poll, Focus, Stay
    <2>. QED
      BY <1>2, <2>1
  <1>4. ASSUME ClickExport \/ \E u \in DOMAIN uploads : UploadRedirect(u)
        PROVE  Moves /\ save' = [save EXCEPT !.here = FALSE, !.last = NoData]
    <2>1. save' = [save EXCEPT !.here = FALSE, !.last = NoData]
      BY <1>4 DEF ClickExport, UploadRedirect, Goto
    <2>. QED
      BY <1>1, <1>4, <2>1, OpensAnother
  <1>5. CASE \/ \E f \in Files : ChooseFile(f)
             \/ RemoveFile \/ Submit
             \/ \E u \in DOMAIN uploads : UploadRefused(u) \/ UploadStep(u) \/ UploadFails(u)
             \/ \E title \in Titles : Type(title)
             \/ OtherReads
             \/ ClickProcess \/ OtherWrite
             \/ \E i \in DOMAIN imports : WorkImport(i) \/ Resolve(i) \/ Remove(i)
             \/ \E e \in DOMAIN exports : WorkExport(e)
    BY <1>5 DEF ChooseFile, RemoveFile, Submit, UploadRefused, UploadStep, UploadFails, GivesUp, Type, OtherReads, OtherRead,
                ClickProcess, Stay, OtherWrite, WorkImport, Resolve, Remove, WorkExport
  <1>. QED
    <2>1. CASE QuietStep
      BY <1>4, <1>5, <2>1 DEF QuietStep
    <2>. QED
      BY <1>3, <1>5, <2>1, StepKinds

LEMMA SentTitle ==
  ASSUME WorkbenchInv, ClickSave
  PROVE  ProductPage(shown["main"]).field \in Title
  <1>1. shown["main"].title \in Title /\ shown["main"] # NoData
    BY DEF ClickSave, WorkbenchInv, Seen
  <1>2. ProductPage(shown["main"]).field = IF draft = NoData THEN shown["main"].title ELSE draft
    BY <1>1 DEF ProductPage
  <1>. QED
    BY <1>1, <1>2, PageTypes

LEMMA SaveTypes ==
  ASSUME WorkbenchInv, Next
  PROVE  save' \in [patch : Patch, here : BOOLEAN, last : Title \cup {NoData}, at : Nat]
  <1>. DEFINE Saves == [patch : Patch, here : BOOLEAN, last : Title \cup {NoData}, at : Nat]
  <1>1. save \in Saves /\ save.patch \in Patch
    BY PageTypes
  <1>2. NoPatch \in Patch
    BY DEF NoPatch, Patch, PatchPc, NoImport
  <1>3. ASSUME NEW patch \in Patch, SetPatch(patch)
        PROVE  save' \in Saves
    BY <1>1, <1>3 DEF SetPatch
  <1>4. CASE ClickSave
    <2>. DEFINE field == ProductPage(shown["main"]).field
                patch == [NoPatch EXCEPT !.pc = "sent", !.import = route.id, !.entered = Changed,
                                         !.body = [title |-> field, vendor |-> NoData]]
    <2>1. field \in Title
      BY <1>4, SentTitle
    <2>2. route.id \in Nat
      BY PageTypes
    <2>3. save' = [NoSave EXCEPT !.here = TRUE, !.patch = patch]
      BY <1>4 DEF ClickSave
    <2>. HIDE DEF field
    <2>4. patch \in Patch
      BY <2>1, <2>2 DEF NoPatch, Patch, PatchPc, Changed
    <2>. HIDE DEF patch
    <2>. QED
      BY <2>3, <2>4 DEF NoSave
  <1>5. CASE SaveRead
    <2>1. imports[save.patch.import].product \in Product
      BY <1>5, Types DEF SaveRead, WorkbenchInv, Patches
    <2>2. [save.patch EXCEPT !.pc = "read", !.read = imports[save.patch.import].product] \in Patch
      BY <1>1, <2>1 DEF Patch, PatchPc
    <2>. QED
      BY <1>3, <1>5, <2>2 DEF SaveRead
  <1>6. CASE SaveWrite
    <2>1. [save.patch EXCEPT !.pc = "written", !.read = NoData] \in Patch
      BY <1>1 DEF Patch, PatchPc
    <2>2. save' = [save EXCEPT !.patch = [save.patch EXCEPT !.pc = "written", !.read = NoData], !.at = upsets]
      BY <1>1, <1>6 DEF SaveWrite
    <2>. QED
      BY <1>1, <2>1, <2>2, PageTypes
  <1>7. CASE SaveAnswer
    <2>1. save.patch.body.title \in Title
      BY <1>7 DEF SaveAnswer, WorkbenchInv, Patches
    <2>2. save' = [save EXCEPT !.patch = NoPatch, !.last = save.patch.body.title]
      BY <1>7 DEF SaveAnswer
    <2>. QED
      BY <1>1, <1>2, <2>1, <2>2, PageTypes
  <1>8. CASE SaveFails
    BY <1>2, <1>3, <1>8 DEF SaveFails
  <1>9. CASE save' = save \/ save' = [save EXCEPT !.here = FALSE, !.last = NoData]
    BY <1>1, <1>9
  <1>. QED
    BY <1>4, <1>5, <1>6, <1>7, <1>8, <1>9, SaveKinds

(* What a step does to the PATCH of the other client, to clash, to stale,  *)
(* and to upsets.                                                          *)
LEMMA OtherKinds ==
  ASSUME WorkbenchInv, Next
  PROVE  /\ \/ other' = other
            \/ OtherReads
            \/ OtherWrite
         /\ clash' = clash \/ SaveWrite \/ OtherWrite
         /\ stale' = stale \/ ClickSave \/ OtherWrite
         /\ upsets' = upsets \/ Upset
  <1>1. CASE PageStep
    BY <1>1 DEF PageStep, Follow, Fetch, FetchFails, ServeProduct, ReceiveProduct, Poll, Focus, rowVars
  <1>2. CASE QuietStep
    BY <1>2 DEF QuietStep, ChooseFile, RemoveFile, Submit, UploadRefused, UploadRedirect, ClickExport,
                ClickSave, SaveRead, SaveAnswer, SaveFails, Type, OtherReads, OtherRead, rowVars
  <1>3. CASE ClickProcess \/ SaveWrite \/ OtherWrite \/ \E u \in DOMAIN uploads : UploadStep(u) \/ UploadFails(u)
    BY <1>3 DEF ClickProcess, SaveWrite, OtherWrite, UploadStep, UploadFails
  <1>4. CASE \/ \E i \in DOMAIN imports : WorkImport(i) \/ Resolve(i) \/ Remove(i)
             \/ \E e \in DOMAIN exports : WorkExport(e)
    BY <1>4 DEF WorkImport, Resolve, Remove, WorkExport
  <1>. QED
    BY <1>1, <1>2, <1>3, <1>4, StepKinds

LEMMA OtherTypes ==
  ASSUME WorkbenchInv, Next
  PROVE  other' \in Patch /\ clash' \in BOOLEAN /\ stale' \in BOOLEAN /\ upsets' \in Nat
  <1>1. other' \in Patch
    <2>1. NoPatch \in Patch
      BY DEF NoPatch, Patch, PatchPc, NoImport
    <2>2. ASSUME NEW i \in DOMAIN imports, NEW title \in Titles \cup {NoData}, NEW vendor \in Vendors \cup {NoData},
                 OtherRead(i, title, vendor)
          PROVE  other' \in Patch
      <3>1. imports[i].product \in Product /\ i \in Nat
        BY <2>2, Types DEF OtherRead
      <3>. QED
        BY <2>2, <3>1 DEF OtherRead, Patch, PatchPc, Vendor, Title
    <2>. QED
      BY <2>1, <2>2, OtherKinds, PageTypes DEF OtherWrite, OtherReads
  <1>2. clash' \in BOOLEAN
    BY OtherKinds, PageTypes DEF SaveWrite, OtherWrite
  <1>3. stale' \in BOOLEAN
    BY OtherKinds, PageTypes DEF ClickSave, OtherWrite
  <1>4. upsets' \in Nat
    BY OtherKinds, PageTypes DEF Upset
  <1>. QED
    BY <1>1, <1>2, <1>3, <1>4

LEMMA TypesStep ==
  ASSUME WorkbenchInv, Next
  PROVE  TypeInv'
  BY ImportsStep, ExportsStep, UploadsStep, PageTypesStep, FormStep, SaveTypes, OtherTypes
     DEF TypeInv, WorkbenchTypeOK, ImportsGrow, ExportsGrow, UploadsOK

(* What the pages show stays true.                                         *)
SeenMain(r, data) ==
  data # NoData =>
    /\ r.name = "imports" => DOMAIN data \subseteq DOMAIN imports
    /\ r.name = "dashboard" => DOMAIN data.imports \subseteq DOMAIN imports
    /\ r.name = "exports" => DOMAIN data \subseteq DOMAIN exports
    /\ r.name = "product" => data.title \in Title
    /\ r.name = "export" /\ data = "COMPLETED" => exports[r.id].status = "COMPLETED"

SeenImport(r, job, products) ==
  r.name = "import" =>
    /\ job \in ImportStatus \cup {NoData}
    /\ job = "MAPPING_REQUIRED" => imports[r.id].file # NoFile
    /\ job = "READY" => r.id \in Made
    /\ products \in Contents \cup {NoData}
    /\ products \notin {NoData, {}} => r.id \in Made

SeenRoute(r) ==
  /\ r.name \in {"import", "product"} => r.id \in DOMAIN imports
  /\ r.name = "product" => r.id \in Made
  /\ r.name = "export" => r.id \in DOMAIN exports

LEMMA SeenParts ==
  Seen <=> /\ SeenRoute(route)
           /\ SeenMain(route, shown["main"]) /\ SeenImport(route, shown["job"], shown["products"])
           /\ answer # NoData => route.name = "product" /\ answer.title \in Title
  BY DEF Seen, SeenRoute, SeenMain, SeenImport

LEMMA SeenStays ==
  ASSUME WorkbenchInv, ImportsGrow, ExportsGrow, NEW r, NEW data, NEW job, NEW products, SeenRoute(r)
  PROVE  /\ SeenRoute(r)'
         /\ SeenMain(r, data) => SeenMain(r, data)'
         /\ SeenImport(r, job, products) => SeenImport(r, job, products)'
  <1>1. Made \subseteq Made' /\ DOMAIN imports \subseteq DOMAIN imports' /\ DOMAIN exports \subseteq DOMAIN exports'
    BY MadeGrows DEF ExportsGrow
  <1>2. SeenRoute(r)'
    BY <1>1 DEF SeenRoute
  <1>3. ASSUME SeenMain(r, data) PROVE SeenMain(r, data)'
    BY <1>1, <1>3 DEF SeenMain, SeenRoute, ExportsGrow
  <1>4. ASSUME SeenImport(r, job, products) PROVE SeenImport(r, job, products)'
    BY <1>1, <1>4 DEF SeenImport, SeenRoute, ImportsGrow, Later
  <1>. QED
    BY <1>2, <1>3, <1>4

LEMMA SeenStep ==
  ASSUME WorkbenchInv, Next
  PROVE  Seen'
  <1>1. ImportsGrow /\ ExportsGrow /\ Made \subseteq Made' /\ DOMAIN imports \subseteq DOMAIN imports'
    BY ImportsStep, ExportsStep, MadeGrows
  <1>2. /\ SeenRoute(route) /\ SeenMain(route, shown["main"]) /\ SeenImport(route, shown["job"], shown["products"])
        /\ answer # NoData => route.name = "product" /\ answer.title \in Title
    BY SeenParts DEF WorkbenchInv
  <1>3. SUFFICES /\ SeenRoute(route)' /\ SeenMain(route, shown["main"])'
                 /\ SeenImport(route, shown["job"], shown["products"])'
                 /\ answer' # NoData => route'.name = "product" /\ answer'.title \in Title
    BY DEF Seen, SeenRoute, SeenMain, SeenImport
  <1>4. CASE Moves
    <2>1. PICK r : Target(r) /\ route' = r /\ shown' = Blank /\ answer' = NoData
      BY <1>4 DEF Moves, Goto
    <2>2. shown'["main"] = NoData /\ shown'["job"] = NoData /\ shown'["products"] = NoData
      BY <2>1 DEF Blank, Queries
    <2>3. NoData \notin {"MAPPING_REQUIRED", "READY"}
      BY WorkbenchAssumption DEF ImportStatus
    <2>4. SeenRoute(route)'
      BY <1>1, <2>1 DEF Target, SeenRoute
    <2>5. SeenMain(route, shown["main"])'
      BY <2>2 DEF SeenMain
    <2>6. SeenImport(route, shown["job"], shown["products"])'
      BY <2>2, <2>3 DEF SeenImport
    <2>. QED
      BY <2>1, <2>4, <2>5, <2>6
  <1>5. CASE Answered
    <2>1. PICK q \in Queries : Enabled(q, route, shown) /\ Held(q)
      BY <1>5 DEF Answered
    <2>2. PICK data : /\ shown' = [shown EXCEPT ![q] = data]
                      /\ \/ Found(route) /\ data = AnswerTo(q, route)
                         \/ q = "main" /\ answer # NoData /\ data = answer
      BY <2>1 DEF Held, Hold
    <2>3. /\ shown'["main"] = IF q = "main" THEN data ELSE shown["main"]
          /\ shown'["job"] = IF q = "job" THEN data ELSE shown["job"]
          /\ shown'["products"] = IF q = "products" THEN data ELSE shown["products"]
      BY <2>2, PageTypes DEF Queries
    <2>4. SeenMain(route, shown'["main"])
      <3>1. CASE q = "main" /\ Found(route) /\ data = AnswerTo(q, route)
        BY <2>3, <3>1, OtherAnswers DEF SeenMain
      <3>2. CASE q = "main" /\ answer # NoData /\ data = answer
        BY <1>2, <2>3, <3>2 DEF SeenMain
      <3>. QED
        BY <1>2, <2>2, <2>3, <3>1, <3>2
    <2>5. SeenImport(route, shown'["job"], shown'["products"])
      <3>1. CASE q \notin {"job", "products"}
        BY <1>2, <2>3, <3>1
      <3>2. CASE q = "job"
        <4>1. route.name = "import" /\ Found(route) /\ data = imports[route.id].status
          BY <2>1, <2>2, <3>2, ImportAnswers DEF Enabled
        <4>. QED
          BY <1>2, <2>3, <3>2, <4>1, ImportAnswers DEF SeenImport
      <3>3. CASE q = "products"
        <4>1. route.name = "import" /\ Found(route) /\ data = AnswerTo("products", route)
          BY <2>1, <2>2, <3>3 DEF Enabled
        <4>. QED
          BY <1>2, <2>3, <3>3, <4>1, ImportAnswers DEF SeenImport
      <3>. QED
        BY <3>1, <3>2, <3>3
    <2>6. route' = route /\ imports' = imports /\ exports' = exports /\ answer' = NoData /\ Made' = Made
      BY <1>5 DEF Answered, Made
    <2>7. SeenRoute(route)'
      BY <1>2, <2>6 DEF SeenRoute
    <2>8. SeenMain(route, shown["main"])'
      BY <2>4, <2>6 DEF SeenMain
    <2>9. SeenImport(route, shown["job"], shown["products"])'
      BY <2>5, <2>6 DEF SeenImport
    <2>. QED
      BY <2>6, <2>7, <2>8, <2>9
  <1>6. CASE Stays
    <2>1. SeenRoute(route)' /\ SeenMain(route, shown["main"])' /\ SeenImport(route, shown["job"], shown["products"])'
      BY <1>1, <1>2, <1>6, SeenStays DEF Stays, SeenRoute, SeenMain, SeenImport
    <2>2. answer' # NoData => route'.name = "product" /\ answer'.title \in Title
      BY <1>2, <1>6, OtherAnswers DEF Stays
    <2>. QED
      BY <2>1, <2>2
  <1>. QED
    BY <1>4, <1>5, <1>6, PageKinds

-----------------------------------------------------------------------------
(* Saves                                                                   *)

LEMMA ClashStays ==
  ASSUME WorkbenchInv, Next, ~clash'
  PROVE  /\ ~clash
         /\ SaveWrite => ~(other.pc = "read" /\ other.import = save.patch.import)
         /\ OtherWrite => ~(save.patch.pc = "read" /\ save.patch.import = other.import)
  <1>1. SaveWrite => clash' = (clash \/ (other.pc = "read" /\ other.import = save.patch.import))
    BY DEF SaveWrite
  <1>2. OtherWrite => clash' = (clash \/ (save.patch.pc = "read" /\ save.patch.import = other.import))
    BY DEF OtherWrite
  <1>3. ASSUME SaveWrite PROVE ~clash /\ ~(other.pc = "read" /\ other.import = save.patch.import)
    BY <1>1, <1>3
  <1>4. ASSUME OtherWrite PROVE ~clash /\ ~(save.patch.pc = "read" /\ save.patch.import = other.import)
    BY <1>2, <1>4
  <1>5. ASSUME clash' = clash PROVE ~clash
    BY <1>5
  <1>. QED
    BY <1>3, <1>4, <1>5, OtherKinds

LEMMA StaleStays ==
  ASSUME WorkbenchInv, Next, ~stale'
  PROVE  /\ ~stale
         /\ ClickSave => Changed \/ shown["main"].title = imports[route.id].product.title
         /\ OtherWrite => ~Overtakes(other.import, other.body.title)
  <1>1. ClickSave => stale' = (stale \/ (~Changed /\ shown["main"].title # imports[route.id].product.title))
    BY DEF ClickSave
  <1>2. OtherWrite => stale' = (stale \/ Overtakes(other.import, other.body.title))
    BY DEF OtherWrite
  <1>3. ASSUME ClickSave
        PROVE  ~stale /\ (Changed \/ shown["main"].title = imports[route.id].product.title)
    BY <1>1, <1>3
  <1>4. ASSUME OtherWrite PROVE ~stale /\ ~Overtakes(other.import, other.body.title)
    BY <1>2, <1>4
  <1>5. ASSUME stale' = stale PROVE ~stale
    BY <1>5
  <1>. QED
    BY <1>3, <1>4, <1>5, OtherKinds

(* A product that has just been imported has the texts of its file.        *)
LEMMA EditsStep ==
  ASSUME WorkbenchInv, Next
  PROVE  EditsKept'
  <1>. SUFFICES ASSUME ~clash', ~stale', NEW i \in Made'
                PROVE  /\ imports'[i].product.title = imports'[i].product.named.title
                       /\ imports'[i].product.vendor = imports'[i].product.named.vendor
    BY DEF EditsKept
  <1>1. ~clash /\ ~stale
    BY ClashStays, StaleStays
  <1>2. \A j \in Made : /\ imports[j].product.title = imports[j].product.named.title
                        /\ imports[j].product.vendor = imports[j].product.named.vendor
    BY <1>1 DEF WorkbenchInv, EditsKept
  <1>3. CASE i \in Made /\ SameTexts(imports[i], imports'[i])
    BY <1>2, <1>3 DEF SameTexts
  <1>4. CASE SaveWrite /\ i = save.patch.import
    <2>1. save.patch.pc = "read" /\ save.patch.read.vendor = imports[i].product.vendor /\ i \in Made
      BY <1>1, <1>4 DEF SaveWrite, WorkbenchInv, Patches, Fields
    <2>2. ~save.patch.entered => imports[i].product.title = save.patch.body.title
      BY <1>1, <1>4, <2>1 DEF WorkbenchInv, Untyped
    <2>. QED
      BY <1>2, <1>4, <2>1, <2>2, SaveWriteRows
  <1>5. CASE OtherWrite /\ i = other.import
    <2>1. /\ other.pc = "read" /\ i \in Made
          /\ other.read.title = imports[i].product.title /\ other.read.vendor = imports[i].product.vendor
      BY <1>1, <1>5 DEF OtherWrite, WorkbenchInv, Patches, Fields
    <2>. QED
      BY <1>2, <1>5, <2>1, OtherWriteRows
  <1>6. CASE i \notin Made
    <2>1. PICK j \in DOMAIN imports : WorkImport(j)
      BY <1>6, ImportsStep
    <2>2. i = j /\ imports'[i].product # NoData
      BY <1>6, <2>1, WorkImportRows DEF Made
    <2>. QED
      BY <2>1, <2>2, WorkImportRows
  <1>. QED
    BY <1>3, <1>4, <1>5, <1>6, ImportsStep

(* The texts of a product nobody writes.                                   *)
LEMMA TextsStay ==
  ASSUME WorkbenchInv, Next, NEW i \in Made,
         ~(SaveWrite /\ i = save.patch.import), ~(OtherWrite /\ i = other.import)
  PROVE  /\ imports'[i].product.title = imports[i].product.title
         /\ imports'[i].product.vendor = imports[i].product.vendor
  BY ImportsStep DEF SameTexts

LEMMA SaveFields ==
  ASSUME WorkbenchInv, Next
  PROVE  /\ save'.patch.pc # "idle" =>
              save'.patch.import \in Made' /\ save'.patch.body \in [title : Title, vendor : {NoData}]
         /\ save'.patch.pc = "read" => Fields(save.patch.import, save.patch)'
  <1>1. save.patch.pc # "idle" =>
          save.patch.import \in Made /\ save.patch.body \in [title : Title, vendor : {NoData}]
    BY DEF WorkbenchInv, Patches
  <1>2. Made \subseteq Made' /\ save \in [patch : Patch, here : BOOLEAN, last : Title \cup {NoData}, at : Nat]
    BY ImportsStep, MadeGrows, PageTypes
  <1>3. CASE save'.patch = save.patch
    <2>1. CASE save.patch.pc = "read"
      <3>1. save.patch.import \in Made /\ Fields(save.patch.import, save.patch)
        BY <2>1 DEF WorkbenchInv, Patches
      <3>2. ~SaveWrite
        <4>. SUFFICES ASSUME SaveWrite PROVE save'.patch.pc = "written"
          BY <1>3, <2>1
        <4>1. save'.patch = [save.patch EXCEPT !.pc = "written", !.read = NoData]
          BY <1>2 DEF SaveWrite
        <4>. QED
          BY <1>2, <4>1 DEF Patch
      <3>3. Fields(save.patch.import, save.patch)'
        BY <1>3, <2>1, <3>1, <3>2, TextsStay, ClashStays DEF Fields
      <3>. QED
        BY <1>1, <1>2, <1>3, <3>3
    <2>. QED
      BY <1>1, <1>2, <1>3, <2>1
  <1>4. CASE ClickSave
    <2>. DEFINE field == ProductPage(shown["main"]).field
    <2>1. field \in Title
      BY <1>4, SentTitle
    <2>2. save'.patch = [NoPatch EXCEPT !.pc = "sent", !.import = route.id, !.entered = Changed,
                                        !.body = [title |-> field, vendor |-> NoData]]
      BY <1>4 DEF ClickSave, NoSave
    <2>. HIDE DEF field
    <2>3. save'.patch.pc = "sent" /\ save'.patch.import = route.id
          /\ save'.patch.body = [title |-> field, vendor |-> NoData]
      BY <2>2 DEF NoPatch
    <2>4. route.id \in Made
      BY <1>4 DEF ClickSave, WorkbenchInv, Seen
    <2>. QED
      BY <1>2, <2>1, <2>3, <2>4
  <1>5. CASE SaveRead
    <2>. DEFINE i == save.patch.import
    <2>1. i \in Made /\ imports[i].product \in Product /\ imports' = imports /\ save.patch.pc = "sent"
      BY <1>1, <1>5, Types DEF SaveRead, rowVars
    <2>2. save'.patch = [save.patch EXCEPT !.pc = "read", !.read = imports[i].product]
      BY <1>2, <1>5 DEF SaveRead, SetPatch
    <2>3. save'.patch.pc = "read" /\ save'.patch.read = imports[i].product
          /\ save'.patch.import = i /\ save'.patch.body = save.patch.body
      BY <1>2, <2>2 DEF Patch
    <2>4. Fields(save.patch.import, save.patch)'
      BY <2>1, <2>3 DEF Fields
    <2>. QED
      BY <1>1, <1>2, <2>1, <2>3, <2>4
  <1>6. CASE SaveWrite
    <2>1. save'.patch = [save.patch EXCEPT !.pc = "written", !.read = NoData] /\ save.patch.pc = "read"
      BY <1>2, <1>6 DEF SaveWrite
    <2>2. save'.patch.pc = "written" /\ save'.patch.import = save.patch.import /\ save'.patch.body = save.patch.body
      BY <1>2, <2>1 DEF Patch
    <2>. QED
      BY <1>1, <1>2, <2>1, <2>2
  <1>7. CASE SaveAnswer \/ SaveFails
    <2>1. save'.patch = NoPatch
      BY <1>2, <1>7 DEF SaveAnswer, SaveFails, SetPatch
    <2>. QED
      BY <2>1 DEF NoPatch
  <1>8. save' = save \/ save' = [save EXCEPT !.here = FALSE, !.last = NoData] => save'.patch = save.patch
    BY <1>2
  <1>. QED
    BY <1>3, <1>4, <1>5, <1>6, <1>7, <1>8, SaveKinds

LEMMA OtherFields ==
  ASSUME WorkbenchInv, Next
  PROVE  /\ other'.pc \in {"idle", "read"}
         /\ other'.pc = "read" =>
              /\ other'.import \in Made' /\ other'.body \in Bodies /\ other'.entered
              /\ Fields(other.import, other)'
  <1>1. Made \subseteq Made'
    BY ImportsStep, MadeGrows
  <1>2. CASE other' = other /\ other.pc = "read"
    <2>. DEFINE i == other.import
    <2>1. i \in Made /\ other.body \in Bodies /\ other.entered /\ Fields(i, other)
      BY <1>2 DEF WorkbenchInv, Patches
    <2>2. ASSUME ~clash'
          PROVE  imports'[i].product.title = imports[i].product.title
                 /\ imports'[i].product.vendor = imports[i].product.vendor
      <3>1. ~(SaveWrite /\ i = save.patch.import)
        BY <1>2, <2>2, ClashStays
      <3>2. ~OtherWrite
        BY <1>2 DEF OtherWrite, NoPatch
      <3>. QED
        BY <2>1, <3>1, <3>2, ImportsStep DEF SameTexts
    <2>3. Fields(other.import, other)'
      BY <1>2, <2>1, <2>2, ClashStays DEF Fields
    <2>. QED
      BY <1>1, <1>2, <2>1, <2>3
  <1>3. CASE other' = other /\ other.pc # "read"
    BY <1>3 DEF WorkbenchInv, Patches
  <1>4. ASSUME NEW i \in DOMAIN imports, NEW title \in Titles \cup {NoData}, NEW vendor \in Vendors \cup {NoData},
               OtherRead(i, title, vendor)
        PROVE  /\ other'.pc = "read" /\ other'.import \in Made'
               /\ other'.body \in Bodies /\ other'.entered
               /\ Fields(other.import, other)'
    <2>1. i \in Made /\ imports[i].product \in Product /\ imports' = imports
      BY <1>4, Types DEF OtherRead
    <2>2. other' = [pc |-> "read", import |-> i, entered |-> TRUE, body |-> [title |-> title, vendor |-> vendor],
                    read |-> imports[i].product]
      BY <1>4 DEF OtherRead
    <2>. QED
      BY <1>1, <2>1, <2>2 DEF Fields, Bodies
  <1>5. OtherWrite => other'.pc = "idle"
    BY DEF OtherWrite, NoPatch
  <1>. QED
    BY <1>2, <1>3, <1>4, <1>5, OtherKinds DEF OtherReads

LEMMA UntypedStep ==
  ASSUME WorkbenchInv, Next
  PROVE  Untyped'
  <1>. SUFFICES ASSUME save'.patch.pc \in {"sent", "read"}, ~save'.patch.entered, ~clash', ~stale'
                PROVE  imports'[save'.patch.import].product.title = save'.patch.body.title
    BY DEF Untyped
  <1>1. save \in [patch : Patch, here : BOOLEAN, last : Title \cup {NoData}, at : Nat] /\ save.patch \in Patch
    BY PageTypes
  <1>2. ~clash /\ ~stale
    BY ClashStays, StaleStays
  <1>3. save.patch.pc \in {"sent", "read"} /\ ~save.patch.entered =>
          imports[save.patch.import].product.title = save.patch.body.title /\ save.patch.import \in Made
    BY <1>2 DEF WorkbenchInv, Untyped, Patches
  <1>4. CASE ClickSave
    <2>. DEFINE field == ProductPage(shown["main"]).field
    <2>1. save'.patch = [NoPatch EXCEPT !.pc = "sent", !.import = route.id, !.entered = Changed,
                                        !.body = [title |-> field, vendor |-> NoData]]
      BY <1>4 DEF ClickSave, NoSave
    <2>2. Changed <=> field # shown["main"].title
      BY DEF Changed
    <2>. HIDE DEF field
    <2>3. save'.patch.import = route.id /\ save'.patch.body.title = field /\ save'.patch.entered = Changed
      BY <2>1 DEF NoPatch
    <2>4. imports' = imports
      BY <1>4 DEF ClickSave
    <2>. QED
      BY <1>4, <2>2, <2>3, <2>4, StaleStays
  <1>5. CASE SaveRead
    <2>1. /\ save'.patch = [save.patch EXCEPT !.pc = "read", !.read = imports[save.patch.import].product]
          /\ save.patch.pc = "sent" /\ imports' = imports
      BY <1>1, <1>5 DEF SaveRead, SetPatch, rowVars
    <2>2. /\ save'.patch.entered = save.patch.entered /\ save'.patch.body = save.patch.body
          /\ save'.patch.import = save.patch.import
      BY <1>1, <2>1 DEF Patch
    <2>. QED
      BY <1>3, <2>1, <2>2
  <1>6. ~SaveWrite /\ ~SaveAnswer /\ ~SaveFails
    <2>1. SaveWrite => save'.patch = [save.patch EXCEPT !.pc = "written", !.read = NoData]
      BY <1>1 DEF SaveWrite
    <2>2. SaveWrite => save'.patch.pc = "written"
      BY <1>1, <2>1 DEF Patch
    <2>3. SaveAnswer \/ SaveFails => save'.patch = NoPatch
      BY <1>1 DEF SaveAnswer, SaveFails, SetPatch
    <2>. QED
      BY <2>2, <2>3 DEF NoPatch
  <1>7. CASE save'.patch = save.patch
    <2>. DEFINE i == save.patch.import
    <2>1. imports[i].product.title = save.patch.body.title /\ i \in Made
      BY <1>3, <1>7
    <2>2. CASE OtherWrite /\ i = other.import
      <3>1. other.read.title = imports[i].product.title
        BY <1>2, <2>2 DEF OtherWrite, WorkbenchInv, Patches, Fields
      <3>2. save.patch.pc = "sent"
        BY <1>7, <2>2, ClashStays
      <3>3. other.body.title \in {NoData, save.patch.body.title}
        BY <1>7, <2>2, <3>2, StaleStays DEF Overtakes
      <3>. QED
        BY <1>7, <2>1, <2>2, <3>1, <3>3, OtherWriteRows
    <2>3. CASE ~(OtherWrite /\ i = other.import)
      BY <1>6, <1>7, <2>1, <2>3, TextsStay
    <2>. QED
      BY <2>2, <2>3
  <1>8. save' = save \/ save' = [save EXCEPT !.here = FALSE, !.last = NoData] => save'.patch = save.patch
    BY <1>1
  <1>. QED
    BY <1>4, <1>5, <1>6, <1>7, <1>8, SaveKinds

(* The other client reads for a write at the price of an upset.            *)
LEMMA HoldsStay ==
  ASSUME WorkbenchInv, Next, upsets' = upsets, NEW i, ~Holds(i)
  PROVE  ~Holds(i)'
  <1>1. ~OtherReads
    BY PageTypes DEF OtherReads, OtherRead, Upset
  <1>2. OtherWrite => other'.pc = "idle"
    BY DEF OtherWrite, NoPatch
  <1>. QED
    BY <1>1, <1>2, OtherKinds DEF Holds

LEMMA PatchesStep ==
  ASSUME WorkbenchInv, Next
  PROVE  Patches'
  BY SaveFields, OtherFields DEF Patches, Bodies

(* While the page is there, so is its save.                                *)
LEMMA HereStays ==
  ASSUME WorkbenchInv, Next, save'.here, ~ClickSave
  PROVE  save.here /\ route' = route /\ ~Moves
  <1>1. save \in [patch : Patch, here : BOOLEAN, last : Title \cup {NoData}, at : Nat]
    BY PageTypes
  <1>2. ~Moves
    <2>1. ASSUME NEW r, Goto(r) PROVE save'.here = FALSE
      BY <1>1, <2>1 DEF Goto
    <2>. QED
      BY <2>1 DEF Moves
  <1>3. save'.here = save.here
    BY <1>1, <1>2, SaveKinds DEF SaveRead, SaveWrite, SaveAnswer, SaveFails, SetPatch
  <1>4. route' = route
    BY <1>2, PageKinds DEF Answered, Stays
  <1>. QED
    BY <1>2, <1>3, <1>4

LEMMA HereStep ==
  ASSUME WorkbenchInv, Next
  PROVE  Here'
  <1>1. save \in [patch : Patch, here : BOOLEAN, last : Title \cup {NoData}, at : Nat] /\ save.patch \in Patch
    BY PageTypes
  <1>2. upsets \in Nat /\ upsets' \in Nat /\ upsets <= upsets'
    BY PageTypes, OtherKinds DEF Upset
  <1>3. /\ save.here => route.name = "product"
        /\ save.here /\ save.patch.pc # "idle" => save.patch.import = route.id
        /\ save.patch.pc = "written" /\ ~clash /\ save.at = upsets =>
             ~Holds(save.patch.import) /\ imports[save.patch.import].product.title = save.patch.body.title
        /\ save.at <= upsets
    BY DEF WorkbenchInv, Here
  <1>4. CASE ClickSave
    <2>1. /\ save'.here = TRUE /\ save'.at = 0 /\ save'.patch.pc = "sent" /\ save'.patch.import = route.id
          /\ route' = route /\ route.name = "product"
      BY <1>4 DEF ClickSave, NoSave, NoPatch, pageVars
    <2>. QED
      BY <1>2, <2>1 DEF Here
  <1>5. CASE SaveRead
    <2>1. save' = [save EXCEPT !.patch = save'.patch] /\ save.patch.pc # "idle" /\ route' = route
      BY <1>1, <1>5 DEF SaveRead, SetPatch, pageVars
    <2>2. save'.patch = [save.patch EXCEPT !.pc = "read", !.read = imports[save.patch.import].product]
      BY <1>1, <1>5 DEF SaveRead, SetPatch
    <2>3. /\ save'.patch.import = save.patch.import /\ save'.patch.pc = "read"
          /\ save'.here = save.here /\ save'.at = save.at
      BY <1>1, <2>1, <2>2 DEF Patch
    <2>. QED
      BY <1>1, <1>2, <1>3, <2>1, <2>3 DEF Here
  <1>6. CASE SaveWrite
    <2>1. /\ save' = [save EXCEPT !.patch = [save.patch EXCEPT !.pc = "written", !.read = NoData], !.at = upsets]
          /\ save.patch.pc = "read" /\ route' = route /\ upsets' = upsets /\ other' = other
      BY <1>1, <1>6 DEF SaveWrite, pageVars
    <2>2. /\ save'.patch.import = save.patch.import /\ save'.patch.body = save.patch.body
          /\ save'.here = save.here /\ save'.at = upsets
      BY <1>1, <2>1 DEF Patch
    <2>3. imports'[save.patch.import].product.title = save.patch.body.title
      BY <1>6, SaveWriteRows
    <2>4. ~clash' => ~Holds(save.patch.import)'
      BY <1>6, <2>1, <2>2, ClashStays DEF Holds
    <2>5. save'.here => route'.name = "product" /\ save'.patch.import = route'.id
      BY <1>3, <2>1, <2>2
    <2>. QED
      BY <1>2, <2>1, <2>2, <2>3, <2>4, <2>5 DEF Here
  <1>7. CASE SaveAnswer \/ SaveFails
    <2>1. save'.patch = NoPatch /\ save'.here = save.here /\ save'.at = save.at /\ route' = route
      BY <1>1, <1>7 DEF SaveAnswer, SaveFails, SetPatch, pageVars
    <2>. QED
      BY <1>1, <1>2, <1>3, <2>1 DEF Here, NoPatch
  <1>8. ASSUME save'.patch = save.patch, save'.at = save.at
        PROVE  Here'
    <2>1. save'.patch = save.patch /\ save'.at = save.at
      BY <1>8
    <2>2. save'.here /\ ~ClickSave => save.here /\ route' = route
      BY HereStays
    <2>3. ASSUME save.patch.pc = "written", ~clash', save.at = upsets'
          PROVE  /\ ~Holds(save.patch.import)'
                 /\ imports'[save.patch.import].product.title = save.patch.body.title
      <3>1. save.patch.import \in Made /\ ~SaveWrite
        BY <2>3 DEF WorkbenchInv, Patches, SaveWrite
      <3>2. upsets' = upsets
        BY <1>2, <1>3, <2>3
      <3>3. ~Holds(save.patch.import) /\ imports[save.patch.import].product.title = save.patch.body.title
        BY <1>3, <2>3, <3>2, ClashStays
      <3>4. ~(OtherWrite /\ save.patch.import = other.import)
        BY <3>3 DEF Holds, OtherWrite
      <3>. QED
        BY <2>1, <3>1, <3>2, <3>3, <3>4, TextsStay, HoldsStay DEF Holds
    <2>. QED
      BY <1>1, <1>2, <1>3, <1>4, <2>1, <2>2, <2>3 DEF Here
  <1>9. CASE save' = save
    BY <1>8, <1>9
  <1>10. CASE save' = [save EXCEPT !.here = FALSE, !.last = NoData]
    BY <1>1, <1>8, <1>10
  <1>. QED
    BY <1>4, <1>5, <1>6, <1>7, <1>9, <1>10, SaveKinds

LEMMA SavedStep ==
  ASSUME WorkbenchInv, Next
  PROVE  Saved'
  <1>1. save \in [patch : Patch, here : BOOLEAN, last : Title \cup {NoData}, at : Nat] /\ save.patch \in Patch
    BY PageTypes
  <1>2. save.last # NoData => save.patch = NoPatch
    BY DEF WorkbenchInv, Saved
  <1>3. CASE ClickSave
    <2>1. save'.last = NoData
      BY <1>3 DEF ClickSave, NoSave
    <2>. QED
      BY <2>1 DEF Saved
  <1>4. CASE SaveRead \/ SaveWrite \/ SaveFails
    <2>1. save.patch.pc # "idle"
      BY <1>4 DEF SaveRead, SaveWrite, SaveFails
    <2>2. save'.last = save.last
      BY <1>1, <1>4 DEF SaveRead, SaveWrite, SaveFails, SetPatch
    <2>. QED
      BY <1>2, <2>1, <2>2 DEF Saved, NoPatch
  <1>5. CASE Moves /\ save' = [save EXCEPT !.here = FALSE, !.last = NoData]
    BY <1>1, <1>5 DEF Saved
  <1>6. CASE SaveAnswer
    <2>1. /\ save'.patch = NoPatch /\ save'.here = save.here /\ save'.last = save.patch.body.title
          /\ imports' = imports /\ route' = route
          /\ save.here => "main" \in asked' /\ answer' = NoData
      BY <1>1, <1>6 DEF SaveAnswer, rowVars
    <2>2. /\ save'.at = save.at /\ upsets' = upsets /\ other' = other
          /\ save.patch.pc = "written"
      BY <1>1, <1>6 DEF SaveAnswer, rowVars
    <2>3. save.here /\ ~clash' /\ save.at = upsets =>
            ~Holds(route.id) /\ imports[route.id].product.title = save.patch.body.title
      BY <2>2, ClashStays DEF WorkbenchInv, Here
    <2>. QED
      BY <2>1, <2>2, <2>3 DEF Saved, Holds
  <1>7. CASE save' = save
    <2>1. save'.last # NoData => save'.patch = NoPatch
      BY <1>2, <1>7
    <2>. SUFFICES ASSUME save.here, save.last # NoData, ~clash', save.at = upsets'
                  PROVE  /\ ~Holds(route.id)' /\ imports'[route'.id].product.title = save.last
                         /\ answer' # NoData => answer'.title = save.last
                         /\ Found(route)' => "main" \in asked' \/ shown'["main"].title = save.last
      BY <1>7, <2>1 DEF Saved
    <2>10. upsets' = upsets
      <3>1. upsets \in Nat /\ upsets' \in Nat /\ upsets <= upsets' /\ save.at \in Nat /\ save.at <= upsets
        BY PageTypes, OtherKinds DEF Upset, WorkbenchInv, Here
      <3>. QED
        BY <3>1
    <2>2. /\ ~Holds(route.id) /\ imports[route.id].product.title = save.last
          /\ answer # NoData => answer.title = save.last
          /\ Found(route) => "main" \in asked \/ shown["main"].title = save.last
          /\ route.name = "product" /\ route.id \in Made /\ save.at <= upsets
      BY <2>10, ClashStays DEF WorkbenchInv, Saved, Here, Seen
    <2>3. ~ClickSave /\ ~SaveWrite
      <3>1. save.patch.pc = "idle"
        BY <1>2 DEF NoPatch
      <3>2. ClickSave => save'.patch.pc = "sent"
        BY DEF ClickSave, NoSave, NoPatch
      <3>. QED
        BY <1>7, <3>1, <3>2 DEF SaveWrite
    <2>4. route' = route /\ ~Moves
      BY <1>7, <2>3, HereStays
    <2>5. ~Holds(route.id)' /\ imports'[route.id].product.title = save.last
      <3>1. ~(OtherWrite /\ route.id = other.import)
        BY <2>2 DEF Holds, OtherWrite
      <3>. QED
        BY <2>2, <2>3, <2>4, <2>10, <3>1, TextsStay, HoldsStay DEF Holds
    <2>6. Found(route)' => Found(route)
      <3>1. ImportsGrow
        BY ImportsStep
      <3>. QED
        BY <2>2, <2>4, <3>1, Types DEF Found, Live, ImportsGrow, Later
    <2>7. Found(route) => AnswerTo("main", route).title = save.last
      BY <2>2, OtherAnswers
    <2>8. CASE Answered
      <3>1. PICK q \in Queries : Enabled(q, route, shown) /\ Held(q)
        BY <2>8 DEF Answered
      <3>2. q = "main"
        BY <2>2, <3>1 DEF Enabled, Queries
      <3>3. \E data : shown' = [shown EXCEPT !["main"] = data] /\ data.title = save.last
        BY <2>2, <2>7, <3>1, <3>2 DEF Held, Hold
      <3>4. shown'["main"].title = save.last
        BY <3>3, PageTypes DEF Queries
      <3>. QED
        BY <2>4, <2>5, <2>8, <3>4 DEF Answered
    <2>9. CASE Stays
      <3>1. answer' # NoData => answer'.title = save.last
        BY <2>2, <2>7, <2>9 DEF Stays
      <3>2. ASSUME Found(route)'
            PROVE  "main" \in asked' \/ shown'["main"].title = save.last
        <4>1. upsets' = upsets /\ Found(route)
          BY <2>6, <2>10, <3>2
        <4>2. asked \subseteq asked' /\ shown' = shown
          BY <2>9, <4>1, PageTypes DEF Stays
        <4>. QED
          BY <2>2, <3>2, <4>1, <4>2
      <3>. QED
        BY <2>4, <2>5, <3>1, <3>2
    <2>. QED
      BY <2>4, <2>8, <2>9, PageKinds
  <1>. QED
    BY <1>3, <1>4, <1>5, <1>6, <1>7, SaveKinds

-----------------------------------------------------------------------------
(* Theorems                                                                *)

LEMMA WorkbenchInit ==
  Init => WorkbenchInv
  <1>. SUFFICES ASSUME Init PROVE WorkbenchInv
    OBVIOUS
  <1>1. /\ imports = <<>> /\ exports = <<>> /\ uploads = <<>>
        /\ other = NoPatch /\ clash = FALSE /\ stale = FALSE /\ upsets = 0
        /\ route = At("dashboard", 0) /\ shown = Blank /\ asked = {"main"} /\ answer = NoData
        /\ draft = NoData /\ save = NoSave /\ form = NoForm
    BY DEF Init
  <1>2. NoPatch \in Patch
    BY DEF NoPatch, Patch, PatchPc, NoImport
  <1>3. NoSave \in [patch : Patch, here : BOOLEAN, last : Title \cup {NoData}, at : Nat]
    BY <1>2 DEF NoSave
  <1>4. route \in [name : PageName, id : Nat] /\ route.name = "dashboard"
    BY <1>1 DEF At, PageName, Lists
  <1>5. asked \subseteq EnabledOf(route, shown)
    BY <1>1, <1>4 DEF EnabledOf, Enabled, Queries, Lists
  <1>6. shown["main"] = NoData /\ shown = [q \in Queries |-> shown[q]]
    BY <1>1 DEF Blank, Queries
  <1>7. TypeInv
    <2>1. imports \in Seq(Import) /\ exports \in Seq(Export) /\ uploads \in Seq(Upload)
      BY <1>1
    <2>2. other \in Patch /\ clash \in BOOLEAN /\ stale \in BOOLEAN /\ upsets \in Nat /\ draft \in Title \cup {NoData}
      BY <1>1, <1>2
    <2>3. form \in [file : Files \cup {NoFile}, busy : Nat]
      BY <1>1 DEF NoForm
    <2>. QED
      BY <1>1, <1>3, <1>4, <1>5, <1>6, <2>1, <2>2, <2>3 DEF TypeInv, WorkbenchTypeOK
  <1>8. Life /\ Opening /\ Filed /\ EditsKept
    BY <1>1 DEF Life, Opening, Filed, EditsKept, Made
  <1>9. Counted
    <2>1. NoFileYet = {} /\ OpenOrFailed = {}
      BY <1>1 DEF NoFileYet, OpenOrFailed
    <2>. QED
      BY <2>1, FS_EmptySet DEF Counted
  <1>10. Seen
    BY <1>1, <1>4, <1>6 DEF Seen
  <1>11. Patches /\ Untyped /\ Here /\ Saved
    BY <1>1 DEF Patches, Untyped, Here, Saved, NoSave, NoPatch
  <1>. QED
    BY <1>7, <1>8, <1>9, <1>10, <1>11 DEF WorkbenchInv

LEMMA WorkbenchStep ==
  WorkbenchInv /\ [Next]_vars => WorkbenchInv'
  <1>1. ASSUME WorkbenchInv, Next
        PROVE  WorkbenchInv'
    <2>1. Life'
      BY <1>1, ImportsStep, MadeGrows
    <2>2. Filed' /\ Opening' /\ Counted'
      BY <1>1, ExportsStep, UploadsStep DEF UploadsOK
    <2>. QED
      BY <1>1, <2>1, <2>2, TypesStep, SeenStep, PatchesStep, UntypedStep, EditsStep, HereStep, SavedStep DEF WorkbenchInv
  <1>2. ASSUME WorkbenchInv, UNCHANGED vars
        PROVE  WorkbenchInv'
    <2>1. /\ imports' = imports /\ exports' = exports /\ other' = other /\ clash' = clash /\ stale' = stale /\ upsets' = upsets
          /\ route' = route /\ shown' = shown /\ asked' = asked /\ answer' = answer
          /\ draft' = draft /\ form' = form /\ save' = save /\ uploads' = uploads
      BY <1>2 DEF vars, rowVars, pageVars
    <2>2. TypeInv' /\ Life' /\ Opening' /\ Filed'
      BY <1>2, <2>1 DEF WorkbenchInv, TypeInv, WorkbenchTypeOK, Life, Opening, Under, Filed, Made
    <2>3. Counted'
      BY <1>2, <2>1 DEF WorkbenchInv, Counted, NoFileYet, OpenOrFailed, Opened
    <2>4. Seen' /\ Patches' /\ Untyped' /\ EditsKept'
      BY <1>2, <2>1 DEF WorkbenchInv, Seen, Patches, Fields, Bodies, Untyped, EditsKept, Made
    <2>5. Here' /\ Saved'
      BY <1>2, <2>1 DEF WorkbenchInv, Here, Saved, Holds, Found, Live
    <2>. QED
      BY <2>2, <2>3, <2>4, <2>5 DEF WorkbenchInv
  <1>. QED
    BY <1>1, <1>2

LEMMA InvSaves ==
  WorkbenchInv => SaveShown
  BY DEF WorkbenchInv, Saved, SaveShown

LEMMA InvDownload ==
  WorkbenchInv => DownloadFound
  <1>1. ASSUME WorkbenchInv, route.name = "export", shown["main"] = "COMPLETED"
        PROVE  exports[route.id].files = 1
    <2>1. "COMPLETED" # NoData
      BY WorkbenchAssumption DEF ExportStatus
    <2>2. route.id \in DOMAIN exports /\ exports[route.id].status = "COMPLETED"
      BY <1>1, <2>1 DEF WorkbenchInv, Seen
    <2>. QED
      BY <1>1, <2>2 DEF WorkbenchInv, Filed
  <1>2. ExportPage(shown["main"]) = "Export File Ready!" => shown["main"] = "COMPLETED"
    BY DEF ExportPage
  <1>3. \A n : n = 1 => n > 0
    OBVIOUS
  <1>. QED
    BY <1>1, <1>2, <1>3 DEF DownloadFound

LEMMA InvUploads ==
  WorkbenchInv => UploadsAccounted
  <1>. SUFFICES ASSUME WorkbenchInv PROVE UploadsAccounted
    OBVIOUS
  <1>. DEFINE Pending == {u \in DOMAIN uploads : Sending(u) \/ uploads[u].pc = "failed"}
  <1>1. \A u \in DOMAIN uploads : uploads[u].pc \in {"redirect", "done"} => imports[Under(u)].file = uploads[u].file
    BY DEF WorkbenchInv, Opening, LinkOK, Under
  <1>2. Pending \subseteq 1..Len(uploads) /\ OpenOrFailed \subseteq Pending /\ NoFileYet \subseteq 1..Len(imports)
    BY Types DEF OpenOrFailed, Opened, Open, Sending, NoFileYet
  <1>3. IsFiniteSet(1..Len(uploads)) /\ IsFiniteSet(1..Len(imports))
    BY Types, FS_Interval
  <1>4. IsFiniteSet(Pending) /\ IsFiniteSet(OpenOrFailed) /\ IsFiniteSet(NoFileYet)
    BY <1>2, <1>3, FS_Subset
  <1>5. Cardinality(OpenOrFailed) <= Cardinality(Pending)
    BY <1>2, <1>4, FS_Subset
  <1>6. Cardinality(Pending) \in Nat /\ Cardinality(OpenOrFailed) \in Nat /\ Cardinality(NoFileYet) \in Nat
    BY <1>4, FS_CardinalityType
  <1>7. Cardinality(NoFileYet) <= Cardinality(Pending)
    BY <1>5, <1>6 DEF WorkbenchInv, Counted
  <1>. QED
    BY <1>1, <1>7 DEF UploadsAccounted, NoFileYet

LEMMA WorkbenchSafe ==
  Spec => []WorkbenchInv
  BY WorkbenchInit, WorkbenchStep, PTL DEF Spec

(* Rows, pages, saves and submits have their types, and no page waits for  *)
(* an answer to a query it does not ask, however often imports are edited, *)
(* resolved and deleted under it.                                          *)
THEOREM WorkbenchTypes == Spec => []WorkbenchTypeOK
  <1>1. WorkbenchInv => WorkbenchTypeOK
    BY DEF WorkbenchInv, TypeInv
  <1>. QED
    BY <1>1, WorkbenchSafe, PTL

(* Clients that edit any fields of a product lose nothing as long as no    *)
(* PATCH writes between the read and the write of another, and no save     *)
(* sends an untyped title that is not the stored one any more; for any     *)
(* number of products, titles and vendors.                                 *)
THEOREM NoEditIsLost == Spec => []EditsKept
  <1>1. WorkbenchInv => EditsKept
    BY DEF WorkbenchInv
  <1>. QED
    BY <1>1, WorkbenchSafe, PTL

(* The product page shows the title that was saved as soon as the save and *)
(* the fetches after it are answered.                                      *)
THEOREM SavesAreShown == Spec => []SaveShown
  BY WorkbenchSafe, InvSaves, PTL

(* An import that a submit opened has the file of that submit, and there   *)
(* are no more imports without a file than submits to explain them, for    *)
(* any number of submits that are left, fail or run side by side.          *)
THEOREM UploadsAreAccounted == Spec => []UploadsAccounted
  BY WorkbenchSafe, InvUploads, PTL

(* The page of an export offers the file only when it is stored, however   *)
(* old the answer that the page is drawn from.                             *)
THEOREM DownloadsAreFound == Spec => []DownloadFound
  BY WorkbenchSafe, InvDownload, PTL
=============================================================================
