------------------------------ MODULE ToolPages ------------------------------
(***************************************************************************)
(* The four free tools of the web site (apps/web/src/app/tools): what each *)
(* computes in the browser from the text in its box, and what its page     *)
(* then shows.  The tools split that text at every comma and every line    *)
(* break, those in quotes too.                                             *)
(***************************************************************************)
EXTENDS ShopifyRows

\* A name in the first line, without a quote at either end.
Unquoted(header) ==
  LET isQuote(i) == i \in 1..Len(header) /\ SubSeq(header, i, i) \in {"\"", "'"}
      first == IF isQuote(1) THEN 2 ELSE 1
      last == IF isQuote(Len(header)) /\ first <= Len(header) THEN Len(header) - 1 ELSE Len(header)
  IN  Trim(SubSeq(header, first, last))

OddQuotes(line) == Cardinality({n \in 1..Len(line) : SubSeq(line, n, n) = "\""}) % 2 = 1

\* A bug: the SKU is looked for in the first column.
SkuColumnFirst(headers) == 1

\* The first column whose name contains "sku", or 0.
SkuColumn(headers) ==
  SelectInSeq(headers, LAMBDA header : Includes(ToLower(header), "sku"))

CellAt(column, cells) == IF column \in DOMAIN cells THEN cells[column] ELSE ""

\* tools/shopify-csv-validator: handleValidate.  A warning names the line and
\* the SKU an earlier line has too.
Validation(csvText) ==
  LET text == Trim(csvText)
      lines == Split(text, "\n")
      names == Split(lines[1], ",")
      headers == [i \in DOMAIN names |-> Unquoted(names[i])]
      missing == {name \in {"Handle", "Title"} :
                    \A i \in DOMAIN headers : ToLower(headers[i]) # ToLower(name)}
      kept == {l \in 2..Len(lines) : ~Blank(lines[l])}
      column == SkuColumn(headers)
      cell == [l \in kept |-> CellAt(column, Split(Trim(lines[l]), ","))]
      named == {l \in kept : cell[l] # ""}
  IN  IF text = ""
      THEN [totalRows |-> 0, errors |-> {<<0, "empty">>}, warnings |-> {}]
      ELSE [totalRows |-> Len(lines) - 1,
            errors |-> {<<0, name>> : name \in missing}
              \cup {<<l, "quotes">> : l \in {k \in kept : OddQuotes(lines[k])}},
            warnings |-> {<<l, Trim(cell[l])>> :
              l \in {k \in named : \E j \in named : j < k /\ Trim(cell[j]) = Trim(cell[k])}}]

\* The page before and after the button has been pressed.
ValidatorPage(result) ==
  IF result = Undefined THEN [summary |-> "", errors |-> {}, warnings |-> {}]
  ELSE LET issuesFound == Cardinality(result.errors) + Cardinality(result.warnings)
       IN  [summary |-> IF issuesFound > 0 THEN ToString(issuesFound) \o " Issue(s) Found"
                        ELSE "Clean Format Passed",
            errors |-> result.errors, warnings |-> result.warnings]

\* tools/duplicate-sku-checker: handleCheck.
Duplicates(skuText) ==
  LET lines == Split(skuText, "\n")
      list == SelectSeq([l \in DOMAIN lines |-> Trim(lines[l])], LAMBDA sku : sku # "")
      count(sku) == Cardinality({l \in DOMAIN list : list[l] = sku})
  IN  {[sku |-> sku, count |-> count(sku)] : sku \in {s \in ToSet(list) : count(s) > 1}}

DuplicatesPage(duplicates) ==
  [heading |-> IF duplicates = {} THEN "No Duplicate SKUs Found"
               ELSE "Found " \o ToString(Cardinality(duplicates)) \o " Duplicate SKU(s)",
   list |-> duplicates]

\* tools/csv-header-checker: handleCheckHeaders.
HeaderReport(headerInput) ==
  LET names == Split(headerInput, ",")
      rawHeaders == SelectSeq([i \in DOMAIN names |-> Trim(names[i])], LAMBDA header : header # "")
      known(header) == \E word \in {"title", "handle", "sku", "price", "image", "vendor"} :
                         Includes(ToLower(header), word)
  IN  [mapped |-> SelectSeq(rawHeaders, known),
       unmapped |-> SelectSeq(rawHeaders, LAMBDA header : ~known(header)),
       missingRequired |-> {name \in {"Handle", "Title", "Variant Price"} :
         \A i \in DOMAIN rawHeaders : ~Includes(ToLower(rawHeaders[i]), ToLower(name))}]

\* The page lists what is missing, and neither of the two other lists.
HeaderPage(report) == IF report = Undefined THEN {} ELSE report.missingRequired

\* tools/shopify-handle-generator: generateHandle.
GenerateHandle(title) ==
  LET lower == Chars(Trim(ToLower(title)))
      kept == SelectSeq(lower, LAMBDA c : c \in Alphanumeric \cup {" ", "-"})
  IN  Squeeze(Replace(Glue(kept), Alphanumeric \cup {"-"}, "-"), "-")
=============================================================================
