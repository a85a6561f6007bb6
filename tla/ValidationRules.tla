--------------------------- MODULE ValidationRules ---------------------------
(***************************************************************************)
(* packages/validation: what is wrong with a catalog.  A catalog is a      *)
(* sequence of products as CatalogRows makes them; an issue names its      *)
(* product and variant by position, 0 where the code has undefined.        *)
(***************************************************************************)
EXTENDS CatalogRows

Issue(code, severity, p, v) ==
  [code |-> code, severity |-> severity, product |-> p, variant |-> v]

\* What a product and its variants have in a column, blank cells left out.
Own(product, column) ==
  ({product[column]} \cup {product.variants[v][column] : v \in DOMAIN product.variants}) \ {""}

\* A bug: the SKUs of variants are not counted.
ProductSkuCounts(products, sku) == Cardinality({p \in DOMAIN products : products[p].sku = sku})

\* collectContext: how many products have an SKU or barcode, each counted once
\* per product, or a handle.
SkuCounts(products, sku) == Cardinality({p \in DOMAIN products : sku \in Own(products[p], "sku")})
BarcodeCounts(products, barcode) ==
  Cardinality({p \in DOMAIN products : barcode \in Own(products[p], "barcode")})
HandleCounts(products, handle) ==
  Cardinality({p \in DOMAIN products : products[p].handle = handle})

-----------------------------------------------------------------------------
(* The rules.  Each is given the catalog and the position of one product. *)

When(condition, issue) == IF condition THEN {issue} ELSE {}

MissingTitle(products, p) ==
  When(Blank(products[p].title), Issue("PRODUCT_MISSING_TITLE", "ERROR", p, 0))

MissingSku(products, p) ==
  When(Own(products[p], "sku") = {}, Issue("PRODUCT_MISSING_SKU", "ERROR", p, 0))

\* A variant that has the product's own SKU is not named beside it.
DuplicateSku(products, p) ==
  LET product == products[p]
      shared(sku) == sku # "" /\ SkuCounts(products, sku) > 1
  IN  When(shared(product.sku), Issue("DUPLICATE_SKU", "ERROR", p, 0))
      \cup {Issue("DUPLICATE_SKU", "ERROR", p, v) :
              v \in {w \in DOMAIN product.variants :
                       product.variants[w].sku # product.sku /\ shared(product.variants[w].sku)}}

\* Only the price of the product is judged, never that of a variant.
InvalidPrice(products, p) ==
  LET price == products[p].price
      compareAt == products[p].compareAtPrice
  IN  When(price = NaN, Issue("INVALID_PRICE", "ERROR", p, 0))
      \cup When(IsFinite(price) /\ price < 0, Issue("NEGATIVE_PRICE", "ERROR", p, 0))
      \cup When(IsFinite(price) /\ IsFinite(compareAt) /\ compareAt < price,
                Issue("INVALID_COMPARE_AT_PRICE", "WARNING", p, 0))

InvalidInventory(products, p) ==
  {Issue("INVALID_INVENTORY", "ERROR", p, v) :
     v \in {w \in DOMAIN products[p].variants : products[p].variants[w].inventoryQuantity = NaN}}

IsBarcode(barcode) == Len(barcode) \in 8..14 /\ ToSet(Chars(barcode)) \subseteq Digit

InvalidBarcode(products, p) ==
  LET barcode == products[p].barcode
  IN  When(barcode # "" /\ ~IsBarcode(barcode), Issue("INVALID_BARCODE", "WARNING", p, 0))
      \cup When(barcode # "" /\ BarcodeCounts(products, barcode) > 1,
                Issue("DUPLICATE_BARCODE", "WARNING", p, 0))

\* A path without a leading slash; a bare file name is left to image matching.
IsInvalidUrl(url) ==
  /\ Includes(url, "/") /\ ~StartsWith(url, "/")
  /\ \A scheme \in {"http://", "https://"} : ~StartsWith(ToLower(url), scheme)

ImageNotFound(products, p) ==
  LET images == products[p].images
  IN  IF images = <<>> THEN {Issue("IMAGE_NOT_FOUND", "WARNING", p, 0)}
      ELSE {Issue("INVALID_IMAGE_URL", "WARNING", p, 0) :
              i \in {j \in DOMAIN images : IsInvalidUrl(images[j].url)}}

EmptyDescription(products, p) ==
  When(Blank(products[p].text["description"]), Issue("EMPTY_DESCRIPTION", "WARNING", p, 0))

DuplicateHandle(products, p) ==
  When(products[p].handle # "" /\ HandleCounts(products, products[p].handle) > 1,
       Issue("DUPLICATE_HANDLE", "WARNING", p, 0))

OversizedSeo(products, p) ==
  When(Len(products[p].text["seoTitle"]) > 70, Issue("OVERSIZED_SEO_TITLE", "WARNING", p, 0))
  \cup When(Len(products[p].text["seoDescription"]) > 320,
            Issue("OVERSIZED_SEO_DESCRIPTION", "WARNING", p, 0))

Word == Alphanumeric \cup {"_"}

\* An element that runs code, an event attribute or a javascript: URL.
IsUnsafe(html) ==
  LET cs == Chars(ToLower(html))
      At(part) == {i \in 1..(Len(cs) + 1 - Len(part)) : SubSeq(cs, i, i + Len(part) - 1) = part}
  IN  \/ At(Chars("javascript:")) # {}
      \/ \E tag \in {"<script", "<iframe", "<object", "<embed"} :
           \E i \in At(Chars(tag)) : i + Len(tag) \in DOMAIN cs => cs[i + Len(tag)] \notin Word
      \/ \E i \in At(Chars("on")), j \in At(Chars("=")) :
           i + 2 < j /\ \A k \in (i + 2)..(j - 1) : cs[k] \in Word

UnsupportedHtml(products, p) ==
  When(IsUnsafe(products[p].text["description"]), Issue("UNSUPPORTED_HTML", "WARNING", p, 0))

WeightUnits == {"g", "kg", "kgs", "lb", "lbs", "oz", "ozs", "grams", "pounds", "ounces"}

InvalidWeight(products, p) ==
  LET variants == products[p].variants
      invalid(weight) == weight = NaN \/ (IsFinite(weight) /\ weight < 0)
  IN  {Issue("INVALID_WEIGHT", "WARNING", p, v) :
         v \in {w \in DOMAIN variants : invalid(variants[w].weight)}}
      \cup {Issue("INVALID_WEIGHT_UNIT", "INFO", p, v) :
              v \in {w \in DOMAIN variants : ToLower(variants[w].weightUnit) \notin WeightUnits \cup {""}}}

ValidateCatalog(products) ==
  UNION { MissingTitle(products, p) \cup MissingSku(products, p) \cup DuplicateSku(products, p)
          \cup InvalidPrice(products, p) \cup InvalidInventory(products, p)
          \cup InvalidBarcode(products, p) \cup ImageNotFound(products, p)
          \cup EmptyDescription(products, p) \cup DuplicateHandle(products, p)
          \cup OversizedSeo(products, p) \cup UnsupportedHtml(products, p)
          \cup InvalidWeight(products, p) : p \in DOMAIN products }
=============================================================================
