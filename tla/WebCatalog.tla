------------------------------ MODULE WebCatalog ------------------------------
(***************************************************************************)
(* The screens of one product and of the form that makes or changes one    *)
(* (apps/web/src/routes/ProductDetail.tsx, ProductForm.tsx), and the       *)
(* conversion between minor units and what is typed (api/money.ts).        *)
(***************************************************************************)
EXTENDS WebScreen, SequencesExt

CONSTANTS Digits,       \* the decimal places of each product's currency
          Fallback,     \* those of the currency shown before there is a product
          Typed         \* the prices a person types

NoPrice == -1
Blank == [whole |-> -1, fraction |-> << >>]
Unreadable == [whole |-> -2, fraction |-> << >>]
Readable == [whole : Nat, fraction : Seq(0..9)]

ASSUME CatalogAssumption ==
    /\ Digits \in [Products -> 0..4] /\ Fallback \in 0..4
    /\ \A text \in Typed : text \in {Blank, Unreadable} \/ text \in Readable
-----------------------------------------------------------------------------
(* Prices: digits before the point, and after it as many as there are.      *)

Number(digits) ==
    LET upTo[i \in 0..Len(digits)] == IF i = 0 THEN 0 ELSE 10 * upTo[i - 1] + digits[i]
    IN upTo[Len(digits)]
padEnd(digits, length) ==
    [i \in 1..length |-> IF i <= Len(digits) THEN digits[i] ELSE 0]

parseMoney(text, digits) ==
    IF text \in {Blank, Unreadable} \/ Len(text.fraction) > digits THEN NoPrice
    ELSE text.whole * 10^digits + Number(padEnd(text.fraction, digits))

(* Mutant: the zeros after the point are left out.                          *)
WithoutPadding(minor, digits) ==
    [whole |-> minor \div 10^digits,
     fraction |-> IF digits = 0 THEN << >>
                  ELSE SelectSeq([i \in 1..digits |-> (minor \div 10^(digits - i)) % 10],
                                 LAMBDA d : d # 0)]
moneyInputValue(minor, digits) ==
    [whole |-> minor \div 10^digits,
     fraction |-> [i \in 1..digits |-> (minor \div 10^(digits - i)) % 10]]

(* A price on a page: its currency's decimals, however many are zeros.      *)
formatMoney(minor, digits) ==
    LET scale == 10^digits
        rest == minor % scale IN
    [whole |-> (minor - rest) \div scale,
     fraction |-> [i \in 1..digits |-> (rest % 10^(digits - i + 1)) \div 10^(digits - i)]]
-----------------------------------------------------------------------------
(* One product.                                                             *)

NoQuestion == [open |-> FALSE, seen |-> NotSeen]
ProductScreen == [confirm |-> NoQuestion, busy |-> FALSE, failure |-> FALSE, retried |-> {}]
ProductVerbs == {"activate", "archive", "upload", "removeImage"}

ProductReady == At("product") /\ Ready
PriceShown == formatMoney(Current.price, Digits[route.id])
editable == Current.status # "archived"
ShownImages == IF route.id \in DOMAIN ListShown THEN ListShown[route.id].images ELSE {}

RunProduct(verb, body, seen) ==
    /\ ~ui.busy
    /\ ui' = [ui EXCEPT !.busy = TRUE, !.failure = FALSE, !.confirm = NoQuestion]
    /\ Submit(verb, route.id, body, seen)

Activate ==
    /\ ProductReady /\ ~ui.confirm.open
    /\ Current.status = "draft"
    /\ RunProduct("activate", [status |-> "active"], Seen)

AskArchive ==
    /\ ProductReady /\ ~ui.confirm.open
    /\ Current.status = "active"
    /\ Edit([ui EXCEPT !.confirm = [open |-> TRUE, seen |-> Seen]])

CancelArchive ==
    /\ ProductReady /\ ui.confirm.open
    /\ Edit([ui EXCEPT !.confirm = NoQuestion])

ConfirmArchive ==
    /\ ProductReady /\ ui.confirm.open
    /\ RunProduct("archive", [status |-> "archived"], ui.confirm.seen)

Upload ==
    /\ ProductReady /\ ~ui.confirm.open /\ editable
    /\ RunProduct("upload", [image |-> None], Seen)

RemoveImage(i) ==
    /\ ProductReady /\ ~ui.confirm.open /\ editable
    /\ i \in ShownImages
    /\ RunProduct("removeImage", [image |-> i], Seen)

(* A presigned address has expired, or the object is gone.                  *)
ImageBreaks(i) ==
    /\ ProductReady /\ i \in ShownImages
    /\ i \notin ui.retried
    /\ ui' = [ui EXCEPT !.retried = @ \cup {i}]
    /\ side' = NotLoaded
    /\ UNCHANGED <<tourVars, rec, route, mount, shown, acked, late, once, calls, countVars>>

(* Activating an active product changes nothing and is no failure.          *)
StatusServed(c) ==
    /\ c.verb \in {"activate", "archive"}
    /\ LET p == rec[c.target] IN
       Served(c, c.verb = "activate" \/ p.status # "archived", c.target, c.body.status,
              IF p.status = c.body.status THEN [p EXCEPT !.version = @ - 1] ELSE p)

(* A file of another type or too large is refused.                          *)
UploadServed(c) ==
    /\ c.verb = "upload"
    /\ \E i \in Images, good \in BOOLEAN :
          /\ \A p \in Products : i \notin rec[p].used
          /\ Served(c, good, c.target, rec[c.target].status,
                    [rec[c.target] EXCEPT !.images = @ \cup {i}, !.used = @ \cup {i}])

RemoveServed(c) ==
    /\ c.verb = "removeImage"
    /\ Served(c, c.body.image \in rec[c.target].images, c.target, rec[c.target].status,
              [rec[c.target] EXCEPT !.images = @ \ {c.body.image}])

(* run: the product and its images are loaded again after a success.        *)
ProductAnswered(c) ==
    /\ c.verb \in ProductVerbs
    /\ Take(c)
    /\ IF Mounted(c)
       THEN /\ ui' = [ui EXCEPT !.busy = FALSE, !.failure = c.state # "ok"]
            /\ IF c.state = "ok" THEN Told(c) /\ shown' = NotLoaded /\ side' = NotLoaded
               ELSE UNCHANGED <<acked, late, shown, side>>
            /\ UNCHANGED <<route, mount, once>>
       ELSE NothingHappens
-----------------------------------------------------------------------------
(* The form.  It is filled once, from the product it was opened for.        *)

EmptyForm == [price |-> Blank, touched |-> FALSE, complete |-> FALSE, from |-> NoPrice,
              saving |-> FALSE, failure |-> FALSE]
FilledFrom(p) == [EmptyForm EXCEPT !.price = moneyInputValue(p.price, Digits[route.id]),
                                   !.complete = TRUE, !.from = p.price]
FormShown == At("newProduct") \/ (At("editProduct") /\ Ready)
FormDigits == IF At("newProduct") THEN Fallback ELSE Digits[route.id]

(* The SKU and the title are given, or one of them is blank.                *)
FillIn == FormShown /\ Edit([ui EXCEPT !.complete = ~@])
TypePrice(text) == FormShown /\ Edit([ui EXCEPT !.price = text, !.touched = TRUE])

Save ==
    /\ FormShown /\ ~ui.saving
    /\ ui.complete
    /\ ui.price = Blank \/ parseMoney(ui.price, FormDigits) # NoPrice
    /\ ui' = [ui EXCEPT !.saving = TRUE, !.failure = FALSE]
    /\ Submit(IF At("newProduct") THEN "createProduct" ELSE "updateProduct", route.id,
              [price |-> parseMoney(ui.price, FormDigits)], NotSeen)

(* A price that is left out stays as it is, or is zero.                     *)
Priced(p, price) == IF price = NoPrice THEN p ELSE [p EXCEPT !.price = price]

CreateServed(c) ==
    /\ c.verb = "createProduct"
    /\ \E p \in Products, skuTaken \in BOOLEAN :
          /\ rec[p].status = None
          /\ Served(c, ~skuTaken, p, "draft", Priced(rec[p], c.body.price))

UpdateServed(c) ==
    /\ c.verb = "updateProduct"
    /\ Served(c, rec[c.target].status # "archived", c.target, rec[c.target].status,
              Priced(rec[c.target], c.body.price))

FormAnswered(c) ==
    /\ c.verb \in {"createProduct", "updateProduct"}
    /\ Take(c)
    /\ CASE c.state = "ok" -> ShowResult(c, [screen |-> "product", id |-> c.target], ProductScreen)
         [] c.state # "ok" /\ Mounted(c) ->
               /\ ui' = [ui EXCEPT !.saving = FALSE, !.failure = TRUE]
               /\ UNCHANGED <<route, mount, shown, side, acked, late, once>>
         [] OTHER -> NothingHappens
-----------------------------------------------------------------------------
CatalogControls ==
    \/ Activate \/ AskArchive \/ CancelArchive \/ ConfirmArchive \/ Upload
    \/ \E i \in Images : RemoveImage(i) \/ ImageBreaks(i)
    \/ FillIn \/ Save
    \/ \E text \in Typed : TypePrice(text)

CatalogAnswers(c) ==
    \/ StatusServed(c) \/ UploadServed(c) \/ RemoveServed(c) \/ ProductAnswered(c)
    \/ CreateServed(c) \/ UpdateServed(c) \/ FormAnswered(c)
=============================================================================
