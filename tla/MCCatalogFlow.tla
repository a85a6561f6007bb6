---------------------------- MODULE MCCatalogFlow ----------------------------
(***************************************************************************)
(* Instances of CatalogFlow.  The rows have the flaws of the repository's  *)
(* test catalogs (fixtures/*.csv): missing titles and SKUs,        *)
(* unreadable and negative prices, SKUs used twice, titles that differ in  *)
(* case or make an empty handle; and cells with commas, quotes and line    *)
(* breaks, which the exported file has in quotes.                          *)
(***************************************************************************)
EXTENDS CatalogFlow

ApparelHeaders == <<"Product Name", "SKU Code", "Colour", "Retail Price", "Stock Qty", "EAN">>
ApparelRows == {
  <<"Tee", "T-1", "Red", "9.90", "5", "12345678">>,
  <<"tee", "T-2", "Blue", "1,05", "-3", "12345679">>,
  <<"Mug", "T-1", "", "$4", "1.0", "">>,
  <<"", "T-3", "Red", "free", "many", "4711">>,
  <<"???", "", "", "-3", "", "12345678">>,
  <<"Cap", "=T-4", "@2", "", "0", "">>,
  <<"Bag", "'=T-4", "", "5", "", "">> }

OptionHeaders == <<"Item Title", "SKU", "Option1 Name", "Option1 Value", "Option2 Name",
                   "Option2 Value", "Weight">>
OptionRows == {
  <<"Tee", "T-1", "Size", "S", "Color", "Red", "200">>,
  <<"Tee", "T-2", "Color", "Blue", "Size", "M", "0">>,
  <<"Tee", "T-3", "", "L", "", "", "heavy">>,
  <<"Tee", "T-5", "Fabric", "Wool", "=Fit", "Slim", "">>,
  <<"Tee", "T-6", "'=Fit", "Wide", "=Fit", "Slim", "">>,
  <<"Cap", "", "Size", "", "Size", "S", "">> }

Catalogs(names, rowSet, longest) ==
  {<<names>> \o cells : cells \in UNION {[1..n -> rowSet] : n \in 1..longest}}

BrandHeaders == <<"Title", "SKU", "Details", "Image", "List Price", "Price", "Weight Unit",
                  "Slug", "Meta Title", "Weight", "Keywords">>
BrandRows == {
  <<" Tee ", "B-\"1\"", "<p onclick=x>soft</p>", "img/tee.png", "5", "9.999", "=stones", "tee", "", "1", "@new">>,
  <<"Tee 2", "B-2", "<script>", "https://x/y.png", "20", "10", "KG", "tee", "Tee", "-2">>,
  <<"Tee  2", "B-3", "soft, warm", "bag.png">>, <<"", " ">>,
  <<"Cup", "B-\"1\"", "say \"tea\"", "", "", "3", "", "=cup", "", "", "red,, new ,sale">>,
  <<"Mug\t2", "B-\"1\"", "two\nlines", "", "", "4", "", "", "a, \"b\"">> }

MCFiles ==
  Catalogs(ApparelHeaders, ApparelRows, 2) \cup Catalogs(OptionHeaders, OptionRows, 3)
    \cup Catalogs(BrandHeaders, BrandRows, 2)
MCTargetFields == {"ignore", "sku"}
=============================================================================
