---------------------------- MODULE MCWebOverview ----------------------------
(* WebOverview on small instances. *)
EXTENDS WebOverview

CONSTANTS c1, c2, o1, o2, o3

Row(day, currency) == [day |-> day, currency |-> currency]
MCOwner == o1 :> c1 @@ o2 :> c1 @@ o3 :> c1
MCCurrency == o1 :> 1 @@ o2 :> 2 @@ o3 :> 1
MCTotal == o1 :> 10 @@ o2 :> 25 @@ o3 :> 40
(* Two orders fill the page; the third is placed while it is looked at, or  *)
(* has been.                                                                *)
MCBegins == {o1 :> row[1] @@ o2 :> row[2] @@ o3 :> row[3] :
                row \in {<<"paid", "unplaced", "paid">>, <<"paid", "packed", "unplaced">>,
                         <<"pending", "packed", "paid">>, <<"pending", "unplaced", "unplaced">>}}
MCTables == {{}, {Row(1, 1), Row(2, 1), Row(1, 2)}, {Row(1, 2), Row(2, 2), Row(1, 1)}}
=============================================================================
