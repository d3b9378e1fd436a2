------------------------------ MODULE MCWebList ------------------------------
(* WebList on small instances. *)
EXTENDS WebList

CONSTANTS r1, r2

MCListing == <<r1, r2>>
MCFound == {r1}
MCFilters == [orders |-> {"paid"}, products |-> {"archived"}, staff |-> {}, customers |-> {},
              roles |-> {}]
MCInitially == [orders |-> {"paid"}, products |-> {"draft"}, staff |-> {"employed"},
                customers |-> {"known"}, roles |-> {"known"}]
MCLinks == {Home, [status |-> "junk", sort |-> "junk", q |-> None, page |-> Junk, size |-> 1]}
=============================================================================
