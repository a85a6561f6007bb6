---------------------------- MODULE MCImportPage ----------------------------
(* Small instances of the import pipeline driven by browser tabs.          *)
EXTENDS ImportPage

MCType == [f \in Files |-> "CATALOG"]

MCHeaders == [f \in Files |-> <<"c1">>]

MCDetect == [c \in Cols |-> "ignore"]

MCCatalog == [f \in Files |-> <<"k1", "k2">>]

(* What the wizard can send: the fetched column with either target.        *)
MCBodies == {{}} \cup {{[col |-> "c1", target |-> t, user |-> TRUE]} : t \in Targets}

Most(request, throw, abort, crash) ==
  [request |-> request, throw |-> throw, abort |-> abort, crash |-> crash,
   stall |-> 0, evict |-> 0]

(* Processors and handlers that throw, nothing lost.                       *)
MCRetries == {Most(6, 2, 0, 0), Most(6, 1, 1, 0), Most(7, 0, 0, 0)}

MCNoFailure == {Most(7, 0, 0, 0)}

MCTwoTabs == {Most(8, 0, 0, 0)}

=============================================================================
