-------------------------- MODULE MCImportPipeline --------------------------
(* A small instance of the pipeline under arbitrary calls of its API.      *)
EXTENDS ImportPipeline, TLC

Symmetry == Permutations(Slots)

(* One catalog and one archive of pictures.                                *)
MCType == [f \in Files |-> IF f = "zip" THEN "IMAGE_ZIP" ELSE "CATALOG"]

MCHeaders == [f \in Files |-> <<"c1">>]

MCDetect == [c \in Cols |-> "ignore"]

MCCatalog == [f \in Files |-> <<"k1", "k2">>]

User(target) == [col |-> "c1", target |-> target, user |-> TRUE]

MCBodies == {{}, {User("title")}, {User("ignore")}}

Most(request, throw, abort, crash, stall, evict) ==
  [request |-> request, throw |-> throw, abort |-> abort, crash |-> crash,
   stall |-> stall, evict |-> evict]

(* One kind of failure at a time, at any point.                            *)
MCBounds ==
  {Most(4, 1, 0, 0, 0, 0), Most(4, 0, 1, 0, 0, 1), Most(4, 0, 0, 1, 0, 0), Most(4, 0, 0, 0, 1, 0)}

=============================================================================
