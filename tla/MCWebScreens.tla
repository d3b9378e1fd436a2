----------------------------- MODULE MCWebScreens -----------------------------
(* WebScreens on small instances. *)
EXTENDS WebScreens

CONSTANTS o1, o2, p1, p2, s1, s2, r1, r2, c1, c2

R(screen, id) == [screen |-> screen, id |-> id]
Elsewhere == R("elsewhere", None)
Base == [id \in Ids |-> CASE id \in {p1, p2} -> "active" [] id = s1 -> "active"
                          [] id \in {r1, c1} -> "known" [] OTHER -> None]
Tour(rs, begins) == [menu |-> rs, rights |-> Permissions, begins |-> begins @@ Base]
OnlyLooking(tour) == [tour EXCEPT !.rights = {}]
MCTours ==
    {Tour({R("order", o1), Elsewhere}, o1 :> s) : s \in L!Status}
    \cup {Tour({R("product", p1), R("newProduct", None), R("editProduct", p1)},
               (p1 :> s) @@ (p2 :> None)) : s \in {"draft", "active"}}
    \cup {Tour({R("order", o1), R("order", o2)}, (o1 :> "paid") @@ (o2 :> "delivered")),
          Tour({R("newOrder", None), R("order", o1)}, << >>),
          Tour({R("editProduct", p2), Elsewhere}, << >>),
          Tour({R("customers", None), Elsewhere}, << >>),
          Tour({R("staffList", None), Elsewhere}, << >>),
          Tour({R("staff", s1), R("staff", s2)}, s2 :> "inactive"),
          Tour({R("roles", None), Elsewhere}, << >>),
          OnlyLooking(Tour({R("order", o1), Elsewhere}, o1 :> "paid")),
          OnlyLooking(Tour({R("product", p1), R("editProduct", p1)}, p1 :> "draft")),
          OnlyLooking(Tour({R("customers", None), Elsewhere}, << >>))}
MCCurrency == (p1 :> "USD") @@ (p2 :> "KWD")
MCDigits == (p1 :> 2) @@ (p2 :> 3)
MCTyped == {Unreadable, [whole |-> 1, fraction |-> <<5>>]}
=============================================================================
