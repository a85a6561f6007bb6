----------------------------- MODULE CatalogFlow -----------------------------
(***************************************************************************)
(* What becomes of the cells of one catalog file: parsed, mapped,          *)
(* normalized, stored, judged, exported, and imported again from the       *)
(* exported file.  ImportPipeline and ExportPipeline have the order in     *)
(* which requests and jobs do this; here every stage is one action.        *)
(***************************************************************************)
EXTENDS ToolPages

CONSTANTS
  Files,        \* the catalogs a supplier may send: rows of cells
  TargetFields, \* what the user may map a column to
  MaxRounds     \* bound: how often a file goes through the pipeline

ASSUME FlowAssumption ==
  /\ Files \subseteq Seq(Seq(STRING))
  /\ MaxRounds \in Nat \ {0}

VARIABLES
  stage,     \* ImportJob.status, reduced to the stages of one import
  file,      \* the file in storage, as rows of cells
  sheet,     \* its columns and rows; every job parses the file again
  mapping,   \* ColumnMapping rows
  products,  \* Product and Variant rows, in the order in which they were inserted
  status,    \* Product.status
  issues,    \* ValidationIssue rows
  csv,       \* the lines of the file the export stored
  sent,      \* the variant each line of csv was made of, and what its product adds
  round      \* which import this is

vars == <<stage, file, sheet, mapping, products, status, issues, csv, sent, round>>

Init ==
  /\ stage = "UPLOADED" /\ file \in Files /\ round = 1
  /\ sheet = [headers |-> <<>>, rows |-> <<>>] /\ mapping = <<>>
  /\ products = <<>> /\ status = <<>> /\ issues = {} /\ csv = <<>> /\ sent = <<>>

\* What the parse suggests for every column a file can have.
Suggested ==
  [header \in ToSet(SHOPIFY_CSV_HEADERS) \cup UNION {ToSet(ParseMatrix(f).headers) : f \in Files}
     |-> Target(header)]

\* Columns of one name would break the unique index of ColumnMapping.
Parse ==
  /\ stage = "UPLOADED" /\ stage' = "MAPPING_REQUIRED"
  /\ sheet' = ParseMatrix(file)
  /\ LET headers == sheet'.headers
     IN  /\ Cardinality(ToSet(headers)) = Len(headers)
         /\ mapping' = [i \in DOMAIN headers |->
                          [source |-> headers[i], target |-> Suggested[headers[i]]]]
  /\ UNCHANGED <<file, products, status, issues, csv, sent, round>>

\* The user picks another field for one column; bound: one column per import,
\* and none of an exported file.
Remap(i, target) ==
  /\ stage = "MAPPING_REQUIRED" /\ round = 1
  /\ \A j \in DOMAIN mapping : mapping[j].target = Suggested[mapping[j].source]
  /\ i \in DOMAIN mapping /\ target # mapping[i].target
  /\ mapping' = [mapping EXCEPT ![i].target = target]
  /\ UNCHANGED <<stage, file, sheet, products, status, issues, csv, sent, round>>

\* What the columns of a row can hold: no NaN, and no product without a title.
Stored(n) == IF IsFinite(n) THEN n ELSE Undefined

StoredVariant(variant) ==
  [variant EXCEPT !.price = Stored(@), !.compareAtPrice = Stored(@), !.cost = Stored(@),
                  !.inventoryQuantity = Stored(@), !.weight = Stored(@)]

\* A bug: titles and amounts are stored as they are.
PersistAsIs(product) == product

PersistProduct(product) ==
  [product EXCEPT !.title = IF @ = "" THEN "Untitled product" ELSE @,
                  !.price = Stored(@), !.compareAtPrice = Stored(@), !.cost = Stored(@),
                  !.variants = [v \in DOMAIN @ |-> StoredVariant(@[v])]]

Normalize ==
  /\ stage = "MAPPING_REQUIRED" /\ stage' = "VALIDATING"
  /\ LET catalog == RowsToCatalog(sheet.rows, mapping)
     IN  /\ products' = [p \in DOMAIN catalog |-> PersistProduct(catalog[p])]
         /\ status' = [p \in DOMAIN catalog |-> "PROCESSING"]
  /\ UNCHANGED <<file, sheet, mapping, issues, csv, sent, round>>

Validate ==
  /\ stage = "VALIDATING" /\ stage' = "READY"
  /\ issues' = ValidateCatalog(products)
  /\ status' = [p \in DOMAIN products |->
                  IF \E issue \in issues' : issue.product = p /\ issue.severity = "ERROR"
                  THEN "INVALID" ELSE "READY"]
  /\ UNCHANGED <<file, sheet, mapping, products, csv, sent, round>>

\* The variant a line stands for, with what it takes over from its product.
SentVariant(product, variant) ==
  [variant EXCEPT !.sku = OwnText(@, product.sku), !.barcode = OwnText(@, product.barcode),
                  !.price = OwnNumber(@, product.price), !.cost = OwnNumber(@, product.cost)]

\* Product by product, the places of the variants of a catalog.
Places(catalog) ==
  FlattenSeq([p \in DOMAIN catalog |-> [v \in DOMAIN catalog[p].variants |-> <<p, v>>]])

\* Every product is exported, also those that are INVALID.  The query names no
\* order: the rows are taken to come as they were inserted.
Export ==
  /\ stage = "READY" /\ stage' = "COMPLETED"
  /\ csv' = ShopifyCsv(products)
  /\ sent' = [l \in DOMAIN Places(products) |->
               LET product == products[Places(products)[l][1]]
                   variant == product.variants[Places(products)[l][2]]
               IN  [options |-> product.options, variant |-> SentVariant(product, variant),
                    handle |-> ExportHandle(product),
                    tags |-> IF Places(products)[l][2] = 1 THEN product.tags ELSE <<>>]]
  /\ UNCHANGED <<file, sheet, mapping, products, status, issues, round>>

\* The lines of the exported file, cell by cell.
CsvLines ==
  [l \in DOMAIN csv |-> [i \in DOMAIN SHOPIFY_CSV_HEADERS |-> csv[l][SHOPIFY_CSV_HEADERS[i]]]]

\* The exported file is uploaded to a new import.
Reimport ==
  /\ stage = "COMPLETED" /\ round < MaxRounds /\ csv # <<>>
  /\ stage' = "UPLOADED" /\ round' = round + 1
  /\ file' = <<SHOPIFY_CSV_HEADERS>> \o CsvLines
  /\ mapping' = <<>> /\ products' = <<>> /\ status' = <<>> /\ issues' = {}
  /\ UNCHANGED <<sheet, csv, sent>>

Finished == stage = "COMPLETED" /\ (round = MaxRounds \/ csv = <<>>) /\ UNCHANGED vars

Next ==
  \/ Parse
  \/ \E i \in DOMAIN mapping, target \in TargetFields : Remap(i, target)
  \/ Normalize \/ Validate \/ Export \/ Reimport
  \/ Finished

Spec == Init /\ [][Next]_vars

-----------------------------------------------------------------------------
(* Properties *)

Variants ==
  {pv \in (DOMAIN products) \X (1..Len(sheet.rows)) : pv[2] \in DOMAIN products[pv[1]].variants}

HasNoNaN(variant) ==
  NaN \notin {variant.price, variant.compareAtPrice, variant.cost, variant.inventoryQuantity, variant.weight}

\* Types of all variables; no number column of the database has a NaN.
FlowTypeOK ==
  /\ stage \in {"UPLOADED", "MAPPING_REQUIRED", "VALIDATING", "READY", "COMPLETED"}
  /\ round \in 1..MaxRounds
  /\ \A i \in DOMAIN mapping : mapping[i].source \in ToSet(sheet.headers)
  /\ DOMAIN status = DOMAIN products
  /\ \A p \in DOMAIN products :
       /\ products[p].title # "" /\ products[p].variants # <<>>
       /\ NaN \notin {products[p].price, products[p].compareAtPrice, products[p].cost}
       /\ \A v \in DOMAIN products[p].variants : HasNoNaN(products[p].variants[v])
       /\ status[p] \in {"PROCESSING", "INVALID", "READY"}
  /\ \A issue \in issues : issue.product \in DOMAIN products
  /\ \A l \in DOMAIN csv : DOMAIN csv[l] = ToSet(SHOPIFY_CSV_HEADERS)

\* What a line of the file says of variant v of a product.
LineSays(line, product, v) ==
  /\ line["Handle"] = SanitizeCsvCell(ExportHandle(product))
  /\ line["Title"] = IF v = 1 THEN SanitizeCsvCell(product.title) ELSE ""
  /\ \A column \in VariantColumns :
       line[column] = SanitizeCsvCell(VariantCell(product, product.variants[v], column))

\* From normalization on the variants are what the rows say one by one, as
\* often as they say it.
GroupingKeepsRows ==
  stage \in {"VALIDATING", "READY", "COMPLETED"} =>
    LET rowVariant == [i \in DOMAIN sheet.rows |-> StoredVariant(VariantOf(sheet.rows[i], mapping))]
    IN  \A i \in DOMAIN sheet.rows :
          Cardinality({j \in DOMAIN sheet.rows : rowVariant[j] = rowVariant[i]})
            = Cardinality({pv \in Variants : products[pv[1]].variants[pv[2]] = rowVariant[i]})

\* The exported file has as many lines as the sheet had rows, one for each
\* variant: the lines of a product are together and in order, the first of them
\* alone has the title, and each has the cells of its own variant.
ExportKeepsRows ==
  stage = "COMPLETED" =>
    LET place == Places(products)
    IN  /\ Len(csv) = Len(sheet.rows) /\ DOMAIN place = DOMAIN csv /\ ToSet(place) = Variants
        /\ \A l, k \in DOMAIN csv : l < k =>
             \/ place[l][1] < place[k][1]
             \/ place[l][1] = place[k][1] /\ place[l][2] < place[k][2]
        /\ \A l \in DOMAIN csv : LineSays(csv[l], products[place[l][1]], place[l][2])

\* Neither grouping nor export loses, doubles or mixes up a row.
RowsKept == GroupingKeepsRows /\ ExportKeepsRows

\* Two products that may be sold do not share an SKU, whichever of their
\* variants have it.
NoSharedSku ==
  \A p, q \in DOMAIN products :
    p # q /\ status[p] = "READY" /\ status[q] = "READY"
      => Own(products[p], "sku") \cap Own(products[q], "sku") = {}

\* What is left of a variant that went through the file.  Texts keep the quote of
\* the exporter; options after the third have no column, the weight none that
\* is read.  Of two options whose names the quote made one the second counts.
Returned(options, variant) ==
  LET kept == {n \in DOMAIN options : n <= 3 /\ options[n] \in DOMAIN variant.optionValues}
      named(name) == {n \in kept : SanitizeCsvCell(options[n]) = name}
  IN  [variant EXCEPT
        !.sku = SanitizeCsvCell(@), !.barcode = SanitizeCsvCell(@),
        !.weightUnit = SanitizeCsvCell(@), !.weight = Undefined,
        !.optionValues = [name \in {SanitizeCsvCell(options[n]) : n \in kept} |->
                            SanitizeCsvCell(@[options[Max(named(name))]])]]

\* The tags of a product that went through the file.
ReturnedTags(tags) == IF tags = <<>> THEN <<>> ELSE [tags EXCEPT ![1] = SanitizeCsvCell(@)]

\* A line of the exported file that is imported again, with the mapping the
\* parse suggests, is the variant it was made of: prices and stock to the last
\* digit, negative ones although they are quoted, texts and up to three options;
\* it has the handle of its product, and the first line of a product its tags.
RoundTrip ==
  (round > 1 /\ stage = "MAPPING_REQUIRED") =>
    /\ Len(sheet.rows) = Len(sent)
    /\ \A l \in DOMAIN sent :
         LET again == ProductOf(sheet.rows[l], mapping)
         IN  /\ VariantOf(sheet.rows[l], mapping) = Returned(sent[l].options, sent[l].variant)
             /\ again.handle = SanitizeCsvCell(sent[l].handle)
             /\ again.tags = ReturnedTags(sent[l].tags)

\* The SKU variant v of a product is exported with.
ExportSku(p, v) == OwnText(products[p].variants[v].sku, products[p].sku)

DuplicatedSku(p) == \E issue \in issues : issue.product = p /\ issue.code = "DUPLICATE_SKU"

\* The pipeline reports the SKUs that the lines of different products share, and
\* these only; but two SKUs of which one is the other with the quote of the
\* exporter are one in the file and two for the pipeline.
SharedSkusReported ==
  stage = "COMPLETED" =>
    LET place == Places(products)
        sku(l) == ExportSku(place[l][1], place[l][2])
        others(l) == {k \in DOMAIN csv : place[k][1] # place[l][1]}
    IN  /\ \A l \in DOMAIN csv : \A k \in others(l) :
             csv[l]["Variant SKU"] # "" /\ csv[l]["Variant SKU"] = csv[k]["Variant SKU"]
               => sku(l) # sku(k) \/ (DuplicatedSku(place[l][1]) /\ DuplicatedSku(place[k][1]))
        /\ \A p \in DOMAIN products : DuplicatedSku(p) =>
             \E l \in DOMAIN csv : place[l][1] = p /\ sku(l) # "" /\ \E k \in others(l) : sku(l) = sku(k)

\* No SKU of two products goes unnoticed, and none is reported that is not shared.
SkusJudged == NoSharedSku /\ SharedSkusReported

HasBreak(cell) == Includes(cell, "\n")

SkuPlace == CHOOSE i \in DOMAIN SHOPIFY_CSV_HEADERS : SHOPIFY_CSV_HEADERS[i] = "Variant SKU"

\* The tools split such a line where the exporter joined it, as far as its SKU.
IsPlain(line) ==
  \A i \in DOMAIN line : ~HasBreak(line[i]) /\ (i <= SkuPlace => ~Includes(line[i], ","))

NoHeaderMissed == HeaderPage(HeaderReport(Join(SHOPIFY_CSV_HEADERS, ","))) = {}

\* The free tools of the site read an exported file as the pipeline wrote it,
\* but for its quotes.  The validator finds fault with the quotes exactly where a
\* cell has a line break.  It warns of an SKU that two lines have which it can
\* split, and of nothing else if it can split every line.  The tool for lists of
\* SKUs finds the same ones, the tool for headers misses none, and the tool for
\* titles makes the handle the import made.
ToolsAgree ==
  stage = "COMPLETED" =>
    LET lines == CsvLines
        result == Validation(CsvText(<<SHOPIFY_CSV_HEADERS>> \o lines))
        warned == {warning[2] : warning \in result.warnings}
        plain == {l \in DOMAIN csv : IsPlain(lines[l])}
        skuList == [l \in DOMAIN csv |-> csv[l]["Variant SKU"]]
        twice(among) == {skuList[l] : l \in {k \in among : skuList[k] # "" /\
                                             \E j \in among : j # k /\ skuList[j] = skuList[k]}}
        quoted(skus) == {CsvCell(sku) : sku \in skus}
    IN  /\ result.errors # {} <=> \E l \in DOMAIN csv : \E i \in DOMAIN lines[l] : HasBreak(lines[l][i])
        /\ quoted(twice(plain)) \subseteq warned
        /\ plain = DOMAIN csv =>
             /\ warned = quoted(twice(plain))
             /\ ValidatorPage(result).summary = "Clean Format Passed" <=> twice(plain) = {}
        /\ (\A l \in DOMAIN csv : ~HasBreak(skuList[l])) =>
             {d.sku : d \in DuplicatesPage(Duplicates(Join(skuList, "\n"))).list} = twice(DOMAIN csv)
        /\ NoHeaderMissed
        /\ \A p \in DOMAIN products :
             (ToSet(Chars(Trim(ToLower(products[p].title)))) \subseteq Alphanumeric \cup {" "}
                /\ \A i \in DOMAIN mapping : mapping[i].target # "handle")
               => products[p].handle \in {GenerateHandle(products[p].title), ""}
=============================================================================
