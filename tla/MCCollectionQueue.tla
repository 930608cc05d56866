-------------------------- MODULE MCCollectionQueue --------------------------
(* A small instance of CollectionQueue for TLC: a ward of one family; its     *)
(* aggregate has an older or a newer record of it, or none.                   *)
EXTENDS CollectionQueue

Ward == [starts |-> "jphouse_23ku", exact |-> TRUE, stem |-> "minato"]

Aggregate(entries) == [config |-> "ok", aggregate |-> "ok", entries |-> entries]
Rec(v) == [stem |-> "minato", rents |-> [l \in {"1LDK"} |-> v],
              prices |-> [l \in {"2LDK"} |-> 50]]

MCSources == {Ward}
MCInputs == {Aggregate(<<[Rec(14) EXCEPT !.stem = "chuo"], Rec(14)>>),
             Aggregate(<<Rec(15), Rec(14)>>), Aggregate(<< >>)}
=============================================================================
