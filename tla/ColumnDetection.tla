--------------------------- MODULE ColumnDetection ---------------------------
(***************************************************************************)
(* How the parse of a catalog file names the field each column holds:      *)
(* packages/catalog-core/src/mapping/mapping-confidence.ts and             *)
(* column-detector.ts.                                                     *)
(***************************************************************************)
EXTENDS Text

\* lower case, runs of anything but letters and digits become one space
NormalizeHeader(header) ==
  Trim(Squeeze(Replace(ToLower(header), Alphanumeric, " "), " "))

\* The fields in the order in which they are tried.  The names of one field have
\* no order: only a better score of another field replaces the field.
SYNONYMS == <<
  <<"title", {"product name", "name", "title", "item name", "product title",
              "supplier item name", "item title"}>>,
  <<"sku", {"sku", "variant sku", "item sku", "product sku", "sku number", "sku code",
            "item number", "item no", "item #", "style number", "mpn", "code"}>>,
  <<"barcode", {"barcode", "variant barcode", "ean", "upc", "gtin", "isbn", "upc barcode"}>>,
  <<"externalId", {"supplier id", "supplierid", "id", "product id", "item id",
                   "supplier item id", "external id"}>>,
  <<"price", {"retail", "retail price", "price", "selling price", "msrp", "unit price",
              "variant price"}>>,
  <<"compareAtPrice", {"compare at", "variant compare at price", "list price", "was price",
                       "original price", "compare price", "compare at price"}>>,
  <<"cost", {"cost", "cost per item", "item cost", "wholesale", "cost price", "unit cost",
             "wholesale cost", "whsl_cost_usd"}>>,
  <<"vendor", {"brand", "brand name", "vendor", "manufacturer", "supplier"}>>,
  <<"productType", {"category", "product type", "type", "collection"}>>,
  <<"description", {"description", "long description", "product description", "details",
                    "body html"}>>,
  <<"color", {"color", "colour", "color name", "colour_val"}>>,
  <<"size", {"size", "sizes"}>>,
  <<"option1Name", {"option1 name", "option 1 name", "option1name", "option 1",
                    "first option name"}>>,
  <<"option1Value", {"option1 value", "option 1 value", "option1value", "first option value"}>>,
  <<"option2Name", {"option2 name", "option 2 name", "option2name", "option 2",
                    "second option name"}>>,
  <<"option2Value", {"option2 value", "option 2 value", "option2value", "second option value"}>>,
  <<"option3Name", {"option3 name", "option 3 name", "option3name", "option 3",
                    "third option name"}>>,
  <<"option3Value", {"option3 value", "option 3 value", "option3value", "third option value"}>>,
  <<"image", {"image", "photo", "image url", "image link", "picture", "image src",
              "img_src_link_1"}>>,
  <<"imagePosition", {"image position", "photo position", "img position"}>>,
  <<"imageAlt", {"image alt text", "image alt", "photo alt", "alt text"}>>,
  <<"inventoryQuantity", {"inventory", "qty", "quantity", "stock", "stock quantity",
                          "stock level", "variant inventory qty",
                          "variant inventory quantity", "variant qty", "qty_avail",
                          "inventory_qty"}>>,
  <<"inventoryTracker", {"inventory tracker", "variant inventory tracker", "tracker"}>>,
  <<"inventoryPolicy", {"inventory policy", "variant inventory policy"}>>,
  <<"fulfillmentService", {"fulfillment service", "variant fulfillment service"}>>,
  <<"requiresShipping", {"requires shipping", "variant requires shipping"}>>,
  <<"taxable", {"taxable", "variant taxable"}>>,
  <<"tags", {"tags", "keywords"}>>,
  <<"handle", {"handle", "slug", "url handle"}>>,
  <<"weight", {"weight", "variant weight", "weight in grams", "grams"}>>,
  <<"weightUnit", {"weight unit", "variant weight unit"}>>,
  <<"variantGrams", {"variant grams", "grams", "weight grams"}>>,
  <<"giftCard", {"gift card", "is gift card"}>>,
  <<"seoTitle", {"seo title", "meta title"}>>,
  <<"seoDescription", {"seo description", "meta description"}>>,
  <<"status", {"status", "product status", "active"}>> >>

Names == [i \in DOMAIN SYNONYMS |-> {NormalizeHeader(name) : name \in SYNONYMS[i][2]}]

Shorter(m, n) == IF m < n THEN m ELSE n
Longer(m, n) == IF m < n THEN n ELSE m

\* max(0.85, 0.98 * ratio of the lengths), in millionths, for a name and a
\* header one of which contains the other; 0 for any other pair.
Score(header, name) ==
  IF Includes(header, name) \/ Includes(name, header)
  THEN Longer(850000, (980000 * Shorter(Len(name), Len(header)))
                        \div Longer(Len(name), Len(header)))
  ELSE 0

\* The field of a column and the confidence in it.  An exact name wins over
\* everything, wherever it is; else the first field that has the best score.
ScoreColumn(raw) ==
  LET header == NormalizeHeader(raw)
      exact == SelectInSeq(Names, LAMBDA names : header \in names)
      best == [i \in DOMAIN SYNONYMS |-> Max({Score(header, name) : name \in Names[i]})]
      top == Max(ToSet(best))
  IN  CASE exact > 0 -> [field |-> SYNONYMS[exact][1], confidence |-> 98]
        [] exact = 0 /\ top > 0 ->
             [field |-> SYNONYMS[SelectInSeq(best, LAMBDA score : score = top)][1],
              confidence |-> (top + 5000) \div 10000]
        [] OTHER -> [field |-> "ignore", confidence |-> 0]

\* What the parse suggests for a column.  color and size are options, and no
\* score lies between 0 and the threshold of 0.40.
Target(header) ==
  LET scored == ScoreColumn(header)
  IN  CASE scored.confidence < 40 -> "ignore"
        [] scored.field = "color" -> "option1Value"
        [] scored.field = "size" -> "option2Value"
        [] OTHER -> scored.field

\* A blank header is named by its position.
DetectHeaders(headers) ==
  [i \in DOMAIN headers |-> IF Blank(headers[i]) THEN "Column " \o ToString(i)
                            ELSE Trim(headers[i])]
=============================================================================
