----------------------------- MODULE ShopifyRows -----------------------------
(***************************************************************************)
(* packages/shopify: the CSV file made of a catalog.  A line is a function *)
(* from the columns of the file to cells; CsvText writes lines of cells    *)
(* with their separators and quotes.                                       *)
(***************************************************************************)
EXTENDS ValidationRules

SHOPIFY_CSV_HEADERS == <<
  "Handle", "Title", "Body (HTML)", "Vendor", "Product Category", "Type", "Tags", "Published",
  "Option1 Name", "Option1 Value", "Option2 Name", "Option2 Value", "Option3 Name",
  "Option3 Value", "Variant SKU", "Variant Grams", "Variant Inventory Tracker",
  "Variant Inventory Qty", "Variant Inventory Policy", "Variant Fulfillment Service",
  "Variant Price", "Variant Compare At Price", "Variant Requires Shipping", "Variant Taxable",
  "Variant Barcode", "Image Src", "Image Position", "Image Alt Text", "Gift Card", "SEO Title",
  "SEO Description", "Variant Weight Unit", "Cost per item", "Status" >>

\* Columns that are the same for every variant.
FixedCell ==
  [column \in {"Product Category", "Published", "Variant Inventory Tracker", "Variant Inventory Policy",
               "Variant Fulfillment Service", "Variant Requires Shipping", "Variant Taxable",
               "Image Alt Text", "Gift Card", "Status"} |->
     CASE column \in {"Product Category", "Image Alt Text"} -> ""
       [] column \in {"Published", "Variant Requires Shipping", "Variant Taxable"} -> "true"
       [] column = "Gift Card" -> "false"
       [] column = "Variant Inventory Tracker" -> "shopify"
       [] column = "Variant Inventory Policy" -> "deny"
       [] column = "Variant Fulfillment Service" -> "manual"
       [] column = "Status" -> "active"]

ProductColumns == {"Title", "Body (HTML)", "Vendor", "Type", "Tags", "SEO Title", "SEO Description"}
ImageColumns == {"Image Src", "Image Position"}
VariantColumns ==
  ToSet(SHOPIFY_CSV_HEADERS) \ (DOMAIN FixedCell \cup ProductColumns \cup ImageColumns \cup {"Handle"})

\* A bug: cents without their leading zero.
UnpaddedDecimal(n) ==
  LET size == IF n < 0 THEN -n ELSE n
  IN  (IF n < 0 THEN "-" ELSE "") \o ToString(size \div 100) \o "." \o ToString(size % 100)

\* String(n / 100) for a number of hundredths.
Decimal(n) ==
  LET size == IF n < 0 THEN -n ELSE n
      cents == size % 100
      fraction == CASE cents = 0 -> ""
                    [] cents # 0 /\ cents % 10 = 0 -> "." \o ToString(cents \div 10)
                    [] cents \in 1..9 -> ".0" \o ToString(cents)
                    [] OTHER -> "." \o ToString(cents)
  IN  (IF n < 0 THEN "-" ELSE "") \o ToString(size \div 100) \o fraction

Shown(n) == IF n = Undefined THEN "" ELSE Decimal(n)

\* A cell a spreadsheet would take for a formula is quoted.
SanitizeCsvCell(cell) ==
  IF cell # "" /\ SubSeq(cell, 1, 1) \in {"=", "+", "-", "@", "\t", "\r"} THEN "'" \o cell ELSE cell

-----------------------------------------------------------------------------
(* mapProductToShopifyRows *)

ExportHandle(product) ==
  CASE product.handle # "" -> product.handle
    [] product.handle = "" /\ product.sku # "" -> product.sku
    [] OTHER -> "product"

OwnText(own, shared) == IF own = "" THEN shared ELSE own
OwnNumber(own, shared) == IF own = Undefined THEN shared ELSE own

ProductCell(product, column) ==
  CASE column = "Title" -> product.title
    [] column = "Body (HTML)" -> product.text["description"]
    [] column = "Vendor" -> product.text["vendor"]
    [] column = "Type" -> product.text["productType"]
    [] column = "Tags" -> Join(product.tags, ", ")
    [] column = "SEO Title" -> product.text["seoTitle"]
    [] column = "SEO Description" -> product.text["seoDescription"]

\* No more than three options have a column.
OptionCell(product, variant, n, isName) ==
  CASE n \notin DOMAIN product.options -> ""
    [] n \in DOMAIN product.options /\ isName -> product.options[n]
    [] OTHER -> IF product.options[n] \in DOMAIN variant.optionValues
                THEN variant.optionValues[product.options[n]] ELSE ""

VariantCell(product, variant, column) ==
  CASE column = "Option1 Name" -> OptionCell(product, variant, 1, TRUE)
    [] column = "Option1 Value" -> OptionCell(product, variant, 1, FALSE)
    [] column = "Option2 Name" -> OptionCell(product, variant, 2, TRUE)
    [] column = "Option2 Value" -> OptionCell(product, variant, 2, FALSE)
    [] column = "Option3 Name" -> OptionCell(product, variant, 3, TRUE)
    [] column = "Option3 Value" -> OptionCell(product, variant, 3, FALSE)
    [] column = "Variant SKU" -> OwnText(variant.sku, product.sku)
    [] column = "Variant Grams" -> IF variant.weight \in {Undefined, 0} THEN "" ELSE Decimal(variant.weight)
    [] column = "Variant Inventory Qty" ->
         IF variant.inventoryQuantity = Undefined THEN "" ELSE ToString(variant.inventoryQuantity)
    [] column = "Variant Price" -> Shown(OwnNumber(variant.price, product.price))
    [] column = "Variant Compare At Price" -> Shown(variant.compareAtPrice)
    [] column = "Variant Barcode" -> OwnText(variant.barcode, product.barcode)
    [] column = "Variant Weight Unit" -> variant.weightUnit
    [] column = "Cost per item" -> Shown(OwnNumber(variant.cost, product.cost))

ImageCell(image, column) ==
  IF column = "Image Src" THEN image.url ELSE ToString(image.position)

\* One line per variant, the first with the cells of the product, and one for
\* each image that is left.  Every line shows the image at its own place.
MapProductToShopifyRows(product) ==
  LET images == product.images
      variants == product.variants
      cell(l, column) ==
        CASE column = "Handle" -> ExportHandle(product)
          [] column \in ImageColumns -> IF l \in DOMAIN images THEN ImageCell(images[l], column) ELSE ""
          [] column \in VariantColumns ->
               IF l \in DOMAIN variants THEN VariantCell(product, variants[l], column) ELSE ""
          [] column \in DOMAIN FixedCell -> IF l \in DOMAIN variants THEN FixedCell[column] ELSE ""
          [] column \in ProductColumns -> IF l = 1 THEN ProductCell(product, column) ELSE ""
  IN  [l \in 1..Longer(Len(variants), Len(images)) |->
         [column \in ToSet(SHOPIFY_CSV_HEADERS) |-> SanitizeCsvCell(cell(l, column))]]

ShopifyCsv(products) ==
  FlattenSeq([p \in DOMAIN products |-> MapProductToShopifyRows(products[p])])

-----------------------------------------------------------------------------
(* toCsv, of cells that are already sanitized *)

\* A cell with a character that means something in the file is put in quotes,
\* and its own quotes are doubled.
CsvCell(cell) ==
  IF \E i \in 1..Len(cell) : SubSeq(cell, i, i) \in {"\"", ",", "\n"}
  THEN "\"" \o Join(Split(cell, "\""), "\"\"") \o "\"" ELSE cell

CsvText(lines) ==
  Join([l \in DOMAIN lines |-> Join([i \in DOMAIN lines[l] |-> CsvCell(lines[l][i])], ",")], "\n")
=============================================================================
