----------------------------- MODULE CatalogRows -----------------------------
(***************************************************************************)
(* From the rows of a catalog file to its products: the functions of       *)
(* packages/catalog-core that the normalize processor calls, from          *)
(* applyColumnMapping to groupVariants.                                    *)
(*                                                                         *)
(* A row is a function from the headers of its file to trimmed cells, a    *)
(* mapping a sequence of [source, target] entries.  An absent text is "",  *)
(* an absent number Undefined.  Amounts are in hundredths.                 *)
(***************************************************************************)
EXTENDS ColumnDetection

CONSTANTS Undefined, NaN

ASSUME NumberAssumption == Undefined # NaN /\ {Undefined, NaN} \cap Int = {}

IsFinite(n) == n \notin {Undefined, NaN}

\* A finite set of positions in order.
InOrder(S) == [n \in 1..Cardinality(S) |-> CHOOSE i \in S : Cardinality({j \in S : j < i}) = n - 1]

-----------------------------------------------------------------------------
(* parseCsv, from the cells of a file to named columns.  parseXlsx does the *)
(* same, but keeps rows that have nothing but white space.                  *)

\* The first row that is not blank names the columns.  A short row is filled up
\* with blanks, and of two columns of one name the second counts.
ParseMatrix(matrix) ==
  LET kept == InOrder({r \in DOMAIN matrix : \E i \in DOMAIN matrix[r] : ~Blank(matrix[r][i])})
      headers == DetectHeaders(matrix[kept[1]])
      column(h) == Max({i \in DOMAIN headers : headers[i] = h})
      cell(row, h) == IF column(h) \in DOMAIN row THEN Trim(row[column(h)]) ELSE ""
  IN  IF kept = <<>> THEN [headers |-> <<>>, rows |-> <<>>]
      ELSE [headers |-> headers,
            rows |-> [r \in 1..(Len(kept) - 1) |->
                        [h \in ToSet(headers) |-> cell(matrix[kept[r + 1]], h)]]]

-----------------------------------------------------------------------------
(* The normalizers of single cells. *)

\* parseFloat, rounded to hundredths; digits after the third are dropped.
ParseFloat(cs) ==
  LET negative == cs # <<>> /\ cs[1] = "-"
      body == IF negative THEN Tail(cs) ELSE cs
      whole == LeadingDigits(body)
      rest == SubSeq(body, Len(whole) + 1, Len(body))
      fraction == IF rest # <<>> /\ rest[1] = "." THEN LeadingDigits(Tail(rest)) ELSE <<>>
      thousandths == 1000 * NumberOf(whole) + NumberOf(SubSeq(fraction \o <<"0", "0", "0">>, 1, 3))
  IN  IF whole \o fraction = <<>> THEN NaN
      ELSE ((IF negative THEN -thousandths ELSE thousandths) + 5) \div 10

\* Only the first comma becomes a point, and a second point ends the number.
NormalizePrice(cell) ==
  LET kept == SelectSeq(Chars(cell), LAMBDA c : c \in Digit \cup {".", ",", "-"})
      comma == SelectInSeq(kept, LAMBDA c : c = ",")
  IN  IF Blank(cell) THEN Undefined
      ELSE ParseFloat([i \in DOMAIN kept |-> IF i = comma THEN "." ELSE kept[i]])

\* Everything but digits and minus signs is dropped, decimal points included.
NormalizeInventory(cell) ==
  LET kept == SelectSeq(Chars(cell), LAMBDA c : c \in Digit \cup {"-"})
      negative == kept # <<>> /\ kept[1] = "-"
      digits == LeadingDigits(IF negative THEN Tail(kept) ELSE kept)
  IN  CASE Blank(cell) -> Undefined
        [] ~Blank(cell) /\ digits = <<>> -> NaN
        [] OTHER -> IF negative THEN -NumberOf(digits) ELSE NumberOf(digits)

NormalizeBarcode(cell) == Replace(cell, ToSet(Chars(cell)) \ Whitespace, "")
NormalizeTitle(cell) == Trim(Squeeze(Replace(cell, ToSet(Chars(cell)) \ Whitespace, " "), " "))

\* NFKD, which takes accents off, is left out: the titles here have none.
SlugifyHandle(title) ==
  Squeeze(Replace(Trim(Replace(ToLower(title), Alphanumeric \cup {"_", "-", " "}, "")),
                  Alphanumeric \cup {"-"}, "-"), "-")

-----------------------------------------------------------------------------
(* applyColumnMapping *)

Positions(mapping, target) == {i \in DOMAIN mapping : mapping[i].target = target}

TargetsOf(mapping) == {mapping[i].target : i \in DOMAIN mapping} \ {"", "ignore"}

\* Of several columns with one target the last one counts, blank or not.
Mapped(row, mapping, target) ==
  LET at == Positions(mapping, target)
  IN  IF at = {} THEN "" ELSE row[mapping[Max(at)].source]

\* Option values without a column for the option's name are named Color and Size.
OptionName(row, mapping, name, value, default) ==
  IF Positions(mapping, name) = {} /\ Positions(mapping, value) # {}
  THEN default ELSE Mapped(row, mapping, name)

\* The three pairs of name and value a row has, those without a value left out.
\* A name that is still missing is Option1, Option2 or Option3.
RowOptions(row, mapping) ==
  LET name1 == OptionName(row, mapping, "option1Name", "option1Value", "Color")
      name2 == OptionName(row, mapping, "option2Name", "option2Value", "Size")
      name3 == Mapped(row, mapping, "option3Name")
      pairs == << <<IF Blank(name1) THEN "Option1" ELSE Trim(name1), "option1Value">>,
                  <<IF Blank(name2) THEN "Option2" ELSE Trim(name2), "option2Value">>,
                  <<IF Blank(name3) THEN "Option3" ELSE Trim(name3), "option3Value">> >>
  IN  SelectSeq([i \in 1..3 |-> [name |-> pairs[i][1], value |-> Trim(Mapped(row, mapping, pairs[i][2]))]],
                LAMBDA option : option.value # "")

-----------------------------------------------------------------------------
(* mappedRowToVariant *)

\* The columns that are taken over as they are.
PlainText == {"description", "vendor", "productType", "seoTitle", "seoDescription"}

VariantOf(row, mapping) ==
  LET options == RowOptions(row, mapping)
      names == {options[i].name : i \in DOMAIN options}
      cell(target) == Mapped(row, mapping, target)
  IN  [sku |-> Trim(cell("sku")),
       barcode |-> NormalizeBarcode(cell("barcode")),
       price |-> NormalizePrice(cell("price")),
       compareAtPrice |-> NormalizePrice(cell("compareAtPrice")),
       cost |-> NormalizePrice(cell("cost")),
       inventoryQuantity |-> NormalizeInventory(cell("inventoryQuantity")),
       weight |-> NormalizePrice(cell("weight")),
       weightUnit |-> cell("weightUnit"),
       \* the second of two options with one name overwrites the first
       optionValues |-> [name \in names |->
         options[Max({i \in DOMAIN options : options[i].name = name})].value]]

ImagesOf(row, mapping) ==
  LET url == Mapped(row, mapping, "image")
  IN  IF url = "" THEN <<>> ELSE <<[url |-> url, position |-> 1]>>

\* Commas part the tags of a cell.
TagsOf(cell) ==
  LET parts == Split(cell, ",")
  IN  SelectSeq([i \in DOMAIN parts |-> Trim(parts[i])], LAMBDA tag : tag # "")

\* A product, its options and variants still missing.
ProductOf(row, mapping) ==
  LET cell(target) == Mapped(row, mapping, target)
      title == NormalizeTitle(cell("title"))
  IN  [sku |-> Trim(cell("sku")),
       barcode |-> NormalizeBarcode(cell("barcode")),
       title |-> title,
       handle |-> IF cell("handle") # "" THEN cell("handle") ELSE SlugifyHandle(title),
       text |-> [t \in PlainText |-> cell(t)],
       tags |-> TagsOf(cell("tags")),
       price |-> NormalizePrice(cell("price")),
       compareAtPrice |-> NormalizePrice(cell("compareAtPrice")),
       cost |-> NormalizePrice(cell("cost")),
       images |-> ImagesOf(row, mapping),
       options |-> <<>>,
       variants |-> <<>>]

\* What rows of one product share.  A row with nothing to group by is told from
\* others by its cells, those of ignored columns left out.
GroupingKey(row, mapping) ==
  LET candidates == <<Trim(Mapped(row, mapping, "externalId")),
                      ToLower(NormalizeTitle(Mapped(row, mapping, "title"))),
                      Trim(Mapped(row, mapping, "sku"))>>
      first == SelectInSeq(candidates, LAMBDA key : key # "")
  IN  IF first > 0 THEN <<"key", candidates[first]>>
      ELSE <<"row", [target \in TargetsOf(mapping) |-> Mapped(row, mapping, target)]>>

-----------------------------------------------------------------------------
(* groupVariants *)

\* The first occurrences of the elements of s, in order.
Distinct(s) ==
  LET first == {i \in DOMAIN s : \A j \in 1..(i - 1) : s[j] # s[i]}
  IN  [n \in 1..Cardinality(first) |-> s[InOrder(first)[n]]]

\* A bug: only the first row of a group is kept.
FirstOfGroups(keys) ==
  LET order == Distinct(keys)
  IN  [p \in DOMAIN order |->
         InOrder({i \in DOMAIN keys : keys[i] = order[p] /\ \A j \in 1..(i - 1) : keys[j] # keys[i]})]

\* The rows of each product, in the order in which products first occur.
Groups(keys) ==
  LET order == Distinct(keys)
  IN  [p \in DOMAIN order |-> InOrder({i \in DOMAIN keys : keys[i] = order[p]})]

\* The names of the options of all variants; their values are left out.
GroupOptions(optionsOf) ==
  LET all == FlattenSeq(optionsOf)
  IN  Distinct([i \in DOMAIN all |-> all[i].name])

RowsToCatalog(rows, mapping) ==
  LET keys == [i \in DOMAIN rows |-> GroupingKey(rows[i], mapping)]
      product(group) ==
        LET first == ProductOf(rows[group[1]], mapping)
            pictured == SelectInSeq(group, LAMBDA i : ImagesOf(rows[i], mapping) # <<>>)
            options == [v \in DOMAIN group |-> RowOptions(rows[group[v]], mapping)]
        IN  [first EXCEPT !.images = IF pictured = 0 THEN <<>>
                                     ELSE ImagesOf(rows[group[pictured]], mapping),
                          !.options = GroupOptions(options),
                          !.variants = [v \in DOMAIN group |-> VariantOf(rows[group[v]], mapping)]]
  IN  [p \in DOMAIN Groups(keys) |-> product(Groups(keys)[p])]
=============================================================================
