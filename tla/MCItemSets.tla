----------------------------- MODULE MCItemSets -----------------------------
(***************************************************************************)
(* Two files: a choice and a score that share a label, a yes-no question   *)
(* and a second choice; and two files with an id in common.                *)
(***************************************************************************)
EXTENDS ItemSets

Item(key, kind, labels, gold) == [key |-> key, kind |-> kind, labels |-> labels, gold |-> gold]

First == Item(1, "choice", <<1, 2, 3>>, 2)
Second == Item(2, "score", <<3, 1>>, 1)
Third == Item(3, "noul", <<1, 2>>, 2)
Other == Item(1, "choice", <<2, 4>>, 1)

MCInputSets == {<<<<Third, First>>, <<Second>>>>, <<<<First>>, <<Other>>>>}
MCLosses == {{}, {"state"}, {"instructions"}, {"criteria"}, {"provenance"}}
=============================================================================
