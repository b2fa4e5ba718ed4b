------------------------------ MODULE Pricing ------------------------------
(***************************************************************************)
(* What a sale or a purchase costs: the form that previews it (sale-ui,    *)
(* purchase-ui and previewTax), the items a manager may change meanwhile   *)
(* (updateItem), and the pricing steps of completeSale and                 *)
(* receivePurchase: line and order discounts, the discount ceiling, tax,   *)
(* and the split of a line over FIFO batches.                              *)
(*                                                                         *)
(* A form holds a list of items.  That of a purchase is loaded once; that  *)
(* of a sale is replaced by the answer of every search, and answers may    *)
(* come in any order.  The price of a line of a sale is fixed when its     *)
(* item is chosen from the list, but the tax rate of every line is looked  *)
(* up in the list as it is now, and is 0 if the item is not in it.         *)
(*                                                                         *)
(* Both use cases price within one transaction that reads every item once; *)
(* the locks on stock are module Stock's, settlement is CustomerAccount's  *)
(* and SupplierAccount's, except for what is refused because of it.        *)
(***************************************************************************)
EXTENDS Integers, FiniteSets, Sequences, Functions, Money

CONSTANTS
  Items,      \* items of the tenant
  Clerks,     \* users with a sale or purchase form open
  Nothing,    \* nothing yet
  Overrides,  \* the clerks that hold sales.discount.override
  Settings,   \* tenant settings: the ceilings [byRole, default, legacy], in percent
  Price0,     \* selling price of each item at the start
  Rate0,      \* tax rate of each item at the start
  Costs,      \* unit costs that may be entered for a purchase
  Updates,    \* what an item may be changed to: records [item, price, rate]
  Stock0,     \* what each FIFO batch of an item holds, oldest first; <<>> for an
              \* item that is not tracked by batch
  Results,    \* sets of items that the answer to a search may list
  Fills       \* what may be entered for the chosen lines, and for the order:
              \* <<quantities and discounts, orderDiscount>>

ASSUME PricingAssumption ==
  /\ Overrides \subseteq Clerks
  /\ Price0 \in [Items -> Nat] /\ Rate0 \in [Items -> Nat]
  /\ Costs \subseteq Nat /\ Updates \subseteq [item : Items, price : Nat, rate : Nat]
  /\ Settings.byRole \in [Clerks -> Nat \cup {Nothing}]
  /\ Settings.default \in Nat \cup {Nothing} /\ Settings.legacy \in Nat \cup {Nothing}
  /\ Stock0 \in [Items -> Seq(Nat \ {0})]
  /\ Results \subseteq SUBSET Items
  /\ \A fill \in Fills : fill[1] \in Seq([qty : Nat \ {0}, disc : Nat]) /\ fill[2] \in Nat

VARIABLES
  catalog,  \* core.items: price and tax rate
  draft,    \* a clerk's open form: its list of items, the answers that are under
            \* way, and the lines chosen so far
  form,     \* what a clerk sent, with the tax and the total the form showed
  doc,      \* what the server made of it
  stock     \* available quantity of each batch

pricingVars == <<catalog, draft, form, doc, stock>>

FormKinds == {"sale", "purchase"}
DefaultCeiling == 20   \* DEFAULT_MAX_DISCOUNT_PERCENT
NoDoc == [status |-> "NONE"]

PricingInit ==
  /\ catalog = [i \in Items |-> [price |-> Price0[i], rate |-> Rate0[i]]]
  /\ draft = [c \in Clerks |-> Nothing]
  /\ form = [c \in Clerks |-> Nothing]
  /\ doc = [c \in Clerks |-> NoDoc]
  /\ stock = Stock0

----------------------------------------------------------------------------
(* Totals of a list of lines with their prices and tax rates. *)
SumOf(s) == SumFunctionOnSet(s, DOMAIN s)
Gross(lines) == [k \in DOMAIN lines |->
  MultiplyToMoneyUnits(lines[k].qty, lines[k].price)]
AfterDiscount(lines) == [k \in DOMAIN lines |-> Gross(lines)[k] - lines[k].disc]
LineDiscounts(lines) == SumOf([k \in DOMAIN lines |-> lines[k].disc])
Subtotal(lines) == SumOf(Gross(lines))
DiscountsFit(lines, orderDiscount) ==
  /\ \A k \in DOMAIN lines : lines[k].disc <= Gross(lines)[k]
  /\ LineDiscounts(lines) + orderDiscount <= Subtotal(lines)
OrderShares(lines, orderDiscount) ==
  AllocateProportionally(orderDiscount, AfterDiscount(lines))
Taxes(lines, orderDiscount, rate) ==
  [k \in DOMAIN lines |->
     TaxForAmount(AfterDiscount(lines)[k] - OrderShares(lines, orderDiscount)[k],
                  rate[lines[k].item])]

\* previewTax, with the prices in the form and the rates of its list.
PreviewTax(lines, orderDiscount, rates) == SumOf(Taxes(lines, orderDiscount, rates))
PreviewTotal(lines, orderDiscount, rates) ==
  Subtotal(lines) - LineDiscounts(lines) - orderDiscount
    + PreviewTax(lines, orderDiscount, rates)

----------------------------------------------------------------------------
(* The form *)

\* The answer to GET /api/items: what of the catalog a search finds.
Answer(found) == [i \in found |-> catalog[i]]

Load(c, kind, found) ==
  /\ form[c] = Nothing
  /\ draft' = [draft EXCEPT ![c] =
       [kind |-> kind, list |-> Answer(found), asked |-> {}, lines |-> <<>>]]
  /\ UNCHANGED <<catalog, form, doc, stock>>

\* Only the form of a sale searches, and every answer replaces the list.
Search(c, found) ==
  /\ draft[c] # Nothing /\ draft[c].kind = "sale"
  /\ draft' = [draft EXCEPT ![c].asked = @ \cup {Answer(found)}]
  /\ UNCHANGED <<catalog, form, doc, stock>>
SetItems(c) ==
  /\ draft[c] # Nothing
  /\ \E answer \in draft[c].asked :
       draft' = [draft EXCEPT ![c].list = answer, ![c].asked = @ \ {answer}]
  /\ UNCHANGED <<catalog, form, doc, stock>>

\* An item is chosen from the list, for a new line or for one that has another item
\* so far.  The price of a sale is the list's; the cost of a purchase is entered.
ChooseItem(c, k, i, cost) ==
  /\ draft[c] # Nothing /\ i \in DOMAIN draft[c].list /\ k \in 1 .. Len(draft[c].lines) + 1
  /\ LET line == [item |-> i, price |-> IF draft[c].kind = "sale" THEN draft[c].list[i].price
                                       ELSE cost]
     IN  draft' = [draft EXCEPT ![c].lines =
           [j \in DOMAIN @ \cup {k} |-> IF j = k THEN line ELSE @[j]]]
  /\ UNCHANGED <<catalog, form, doc, stock>>

\* Bound: a form has as many lines as Fills has values for.
Slots == UNION {1 .. Len(fill[1]) : fill \in Fills}

\* The rates a form reckons with: those of the list it has now.
ListRates(c) ==
  [i \in Items |-> IF i \in DOMAIN draft[c].list THEN draft[c].list[i].rate ELSE 0]

\* A sale without a valid preview is not sent; a walk-in sale is sent with what the
\* form shows as its total, and no other with more.  Nothing is checked of a purchase.
Submit(c, fill) ==
  LET chosen == draft[c].lines
      lines == [k \in DOMAIN chosen |->
                  [item |-> chosen[k].item, price |-> chosen[k].price,
                   qty |-> fill[1][k].qty, disc |-> fill[1][k].disc]]
      valid == DiscountsFit(lines, fill[2])
      tax == IF valid THEN PreviewTax(lines, fill[2], ListRates(c)) ELSE 0
      preview == IF valid THEN PreviewTotal(lines, fill[2], ListRates(c)) ELSE 0
  IN  /\ draft[c] # Nothing /\ Len(chosen) > 0 /\ Len(fill[1]) = Len(chosen)
      /\ draft[c].kind = "sale" => valid
      /\ \E walkIn, inFull \in BOOLEAN :
           /\ walkIn => draft[c].kind = "sale" /\ inFull
           /\ form' = [form EXCEPT ![c] =
                [kind |-> draft[c].kind, lines |-> lines, order |-> fill[2],
                 rates |-> ListRates(c), tax |-> tax, preview |-> preview,
                 walkIn |-> walkIn, paid |-> IF inFull THEN preview ELSE 0]]
      /\ draft' = [draft EXCEPT ![c] = Nothing]
      /\ UNCHANGED <<catalog, doc, stock>>

(* updateItem: the price or the tax profile of an item *)
UpdateItem(update) ==
  /\ catalog' = [catalog EXCEPT ![update.item] = [price |-> update.price, rate |-> update.rate]]
  /\ UNCHANGED <<draft, form, doc, stock>>

----------------------------------------------------------------------------
(* DiscountThresholdPolicy: hundredths of a percent against the ceiling *)
ResolveDiscountCeiling(c) ==
  IF Settings.byRole[c] # Nothing THEN Settings.byRole[c]
  ELSE IF Settings.default # Nothing THEN Settings.default
  ELSE IF Settings.legacy # Nothing THEN Settings.legacy
  ELSE DefaultCeiling
WithinCeiling(c, discount, of) ==
  discount > 0 /\ of > 0 => (discount * 10000) \div of <= ResolveDiscountCeiling(c) * 100
\* Mutant: the discount of the whole order is not held to the ceiling.
OrderUnlimited(c, lines, orderDiscount) ==
  \A k \in DOMAIN lines : WithinCeiling(c, lines[k].disc, Gross(lines)[k])
UnderCeilings(c, lines, orderDiscount) ==
  /\ \A k \in DOMAIN lines : WithinCeiling(c, lines[k].disc, Gross(lines)[k])
  /\ WithinCeiling(c, orderDiscount, Subtotal(lines))

----------------------------------------------------------------------------
(* FIFO: a line of a batch-tracked item takes what earlier lines of the    *)
(* item left, the oldest batch first.  Laid end to end, the lines of an    *)
(* item and its batches overlap in exactly the quantities drawn.           *)
Batched(i) == Stock0[i] # <<>>
Before(lines, k) ==
  SumFunctionOnSet([j \in DOMAIN lines |-> lines[j].qty],
    {j \in DOMAIN lines : j < k /\ lines[j].item = lines[k].item})
Upto(i, b) == SumFunctionOnSet(stock[i], 1 .. b)
Smaller(a, b) == IF a < b THEN a ELSE b
Monus(a, b) == IF a > b THEN a - b ELSE 0
Drawn(lines, k, b) ==
  LET i == lines[k].item
      end == Before(lines, k) + lines[k].qty
  IN  Monus(Smaller(end, Upto(i, b)), Before(lines, k))
        - Monus(Smaller(end, Upto(i, b - 1)), Before(lines, k))
Enough(lines) ==
  \A k \in DOMAIN lines :
    Batched(lines[k].item) =>
      Before(lines, k) + lines[k].qty <= Upto(lines[k].item, Len(stock[lines[k].item]))

\* The posted lines: one per batch a line draws from, one for any other line.
Pieces(lines) ==
  {p \in UNION {{k} \X (0 .. Len(stock[lines[k].item])) : k \in DOMAIN lines} :
     IF Batched(lines[p[1]].item) THEN p[2] > 0 /\ Drawn(lines, p[1], p[2]) > 0
                                  ELSE p[2] = 0}
QtyOf(lines, p) == IF p[2] = 0 THEN lines[p[1]].qty ELSE Drawn(lines, p[1], p[2])
IsLast(lines, p) == \A q \in Pieces(lines) : q[1] = p[1] => q[2] <= p[2]
FloorShare(lines, amount, p) == (amount * QtyOf(lines, p)) \div lines[p[1]].qty
\* Mutant: the last batch takes its share and not what is left.
ShareWithoutRemainder(lines, amount, p) == FloorShare(lines, amount, p)
\* Every batch takes the floor of its share, and the last one what is left.
Share(lines, amount, p) ==
  IF IsLast(lines, p)
  THEN amount - SumFunctionOnSet([q \in Pieces(lines) |-> FloorShare(lines, amount, q)],
                  {q \in Pieces(lines) : q[1] = p[1] /\ q[2] < p[2]})
  ELSE FloorShare(lines, amount, p)

\* Mutant: the discount of a line stays with its last batch.
DiscountOnLast(lines, p) == IF IsLast(lines, p) THEN lines[p[1]].disc ELSE 0
DiscountShare(lines, p) == Share(lines, lines[p[1]].disc, p)

SaleLine(lines, orderDiscount, p) ==
  LET k == p[1]
      gross == Share(lines, Gross(lines)[k], p)
      disc == DiscountShare(lines, p)
      rates == [i \in Items |-> catalog[i].rate]
      tax == Share(lines, Taxes(lines, orderDiscount, rates)[k], p)
  IN  [qty |-> QtyOf(lines, p), rate |-> rates[lines[k].item], disc |-> disc,
       order |-> Share(lines, OrderShares(lines, orderDiscount)[k], p),
       tax |-> tax, total |-> gross - disc + tax]

ChargedTax(lines, orderDiscount) ==
  SumOf(Taxes(lines, orderDiscount, [i \in Items |-> catalog[i].rate]))
ChargedTotal(lines, orderDiscount) ==
  Subtotal(lines) - LineDiscounts(lines) - orderDiscount + ChargedTax(lines, orderDiscount)
DocOf(lines, orderDiscount, status, posted, override) ==
  [status |-> status, override |-> override, subtotal |-> Subtotal(lines),
   discount |-> LineDiscounts(lines) + orderDiscount,
   tax |-> ChargedTax(lines, orderDiscount), total |-> ChargedTotal(lines, orderDiscount),
   posted |-> posted]

\* What is paid may not exceed the total, and pays it off if nobody is to owe the rest.
Settles(c, total) == /\ form[c].paid <= total
                     /\ form[c].walkIn => form[c].paid = total

\* Mutant: a price that has changed since is charged all the same.
AnyPrice(lines) == TRUE
PricesCurrent(lines) ==
  \A k \in DOMAIN lines : lines[k].price = catalog[lines[k].item].price
\* The server multiplies with the item's price, not with the one it was sent.
AtCatalogPrice(lines) ==
  [k \in DOMAIN lines |-> [lines[k] EXCEPT !.price = catalog[lines[k].item].price]]

SaleAllowed(c) ==
  LET lines == AtCatalogPrice(form[c].lines)
  IN  /\ PricesCurrent(form[c].lines)
      /\ DiscountsFit(lines, form[c].order)
      /\ Settles(c, ChargedTotal(lines, form[c].order))
      /\ UnderCeilings(c, lines, form[c].order) \/ c \in Overrides
      /\ Enough(lines)

CompleteSale(c) ==
  LET lines == AtCatalogPrice(form[c].lines)
      order == form[c].order
      posted == [p \in Pieces(lines) |-> SaleLine(lines, order, p)]
      taken(i, b) == SumFunctionOnSet([p \in Pieces(lines) |-> QtyOf(lines, p)],
                       {p \in Pieces(lines) : lines[p[1]].item = i /\ p[2] = b})
  IN  /\ form[c] # Nothing /\ doc[c] = NoDoc /\ form[c].kind = "sale"
      /\ SaleAllowed(c)
      /\ doc' = [doc EXCEPT ![c] = DocOf(lines, order, "SOLD", posted,
                                         ~UnderCeilings(c, lines, order))]
      /\ stock' = [i \in Items |-> [b \in DOMAIN stock[i] |-> stock[i][b] - taken(i, b)]]
      /\ UNCHANGED <<catalog, draft, form>>

----------------------------------------------------------------------------
(* receivePurchase: the order discount and the tax are part of the cost at  *)
(* which a line enters the stock.                                           *)
InventoryCost(lines, orderDiscount, k) ==
  AfterDiscount(lines)[k] - OrderShares(lines, orderDiscount)[k]
    + Taxes(lines, orderDiscount, [i \in Items |-> catalog[i].rate])[k]
\* Mutant: the cost of one unit is rounded down.
FloorUnitCost(cost, quantity) == (cost * MoneyScale) \div quantity
InventoryUnitCost(cost, quantity) == RoundRatio(cost * MoneyScale, quantity)

PurchaseLine(lines, orderDiscount, k) ==
  LET cost == InventoryCost(lines, orderDiscount, k)
      tax == Taxes(lines, orderDiscount, [i \in Items |-> catalog[i].rate])[k]
  IN  [qty |-> lines[k].qty, rate |-> catalog[lines[k].item].rate, disc |-> lines[k].disc,
       order |-> OrderShares(lines, orderDiscount)[k], tax |-> tax,
       total |-> AfterDiscount(lines)[k] + tax, cost |-> cost,
       unitCost |-> InventoryUnitCost(cost, lines[k].qty)]

PurchaseAllowed(c) ==
  /\ DiscountsFit(form[c].lines, form[c].order)
  /\ Settles(c, ChargedTotal(form[c].lines, form[c].order))

ReceivePurchase(c) ==
  LET lines == form[c].lines
      order == form[c].order
  IN  /\ form[c] # Nothing /\ doc[c] = NoDoc /\ form[c].kind = "purchase"
      /\ PurchaseAllowed(c)
      /\ doc' = [doc EXCEPT ![c] =
           DocOf(lines, order, "RECEIVED",
                 [p \in {<<k, 0>> : k \in DOMAIN lines} |-> PurchaseLine(lines, order, p[1])],
                 FALSE)]
      /\ UNCHANGED <<catalog, draft, form, stock>>

\* The sale or purchase is refused and rolled back.
Refuse(c) ==
  /\ form[c] # Nothing /\ doc[c] = NoDoc
  /\ ~(IF form[c].kind = "sale" THEN SaleAllowed(c) ELSE PurchaseAllowed(c))
  /\ doc' = [doc EXCEPT ![c] = [status |-> "REFUSED"]]
  /\ UNCHANGED <<catalog, draft, form, stock>>

PricingNext ==
  \/ \E update \in Updates : UpdateItem(update)
  \/ \E c \in Clerks :
       \/ \E kind \in FormKinds, found \in Results : Load(c, kind, found)
       \/ \E found \in Results : Search(c, found)
       \/ SetItems(c)
       \/ \E k \in Slots, i \in Items, cost \in Costs : ChooseItem(c, k, i, cost)
       \/ \E fill \in Fills : Submit(c, fill)
       \/ CompleteSale(c)
       \/ ReceivePurchase(c)
       \/ Refuse(c)
PricingSpec == PricingInit /\ [][PricingNext]_pricingVars

----------------------------------------------------------------------------
Entered(c) == doc[c].status \in {"SOLD", "RECEIVED"}
PiecesOf(c, k) == {p \in DOMAIN doc[c].posted : p[1] = k}
PostedSum(c, Amount(_)) ==
  SumOf([p \in DOMAIN doc[c].posted |-> Amount(doc[c].posted[p])])
NetOf(line) == line.total - line.tax - line.order

\* Prices, rates, quantities and totals are never negative; no batch is sold
\* below what it holds.
PricingTypeOK ==
  /\ catalog \in [Items -> [price : Nat, rate : Nat]]
  /\ \A c \in Clerks : draft[c] # Nothing =>
       /\ draft[c].kind \in FormKinds
       /\ \A list \in {draft[c].list} \cup draft[c].asked :
            DOMAIN list \subseteq Items /\ \A i \in DOMAIN list : list[i].rate \in Nat
       /\ \A k \in DOMAIN draft[c].lines : draft[c].lines[k] \in [item : Items, price : Nat]
  /\ \A c \in Clerks : form[c] # Nothing =>
       form[c].kind \in FormKinds /\ form[c].preview \in Nat /\ form[c].paid \in Nat
  /\ \A c \in Clerks : doc[c].status \in {"NONE", "REFUSED", "SOLD", "RECEIVED"}
  /\ \A c \in Clerks : Entered(c) => doc[c].total \in Nat /\ doc[c].override \in BOOLEAN
  /\ \A i \in Items : \A b \in DOMAIN stock[i] : stock[i][b] \in Nat

\* Whatever the list of the form was replaced by, and however the catalog changed:
\* before tax, what is charged is what the form showed.  The tax is the form's unless
\* the form had no rate, or another rate, for an item when it was sent; and then the
\* sale is refused if nobody is to owe the difference.
ChargedAsPreviewed ==
  \A c \in Clerks : Entered(c) =>
    /\ doc[c].total - doc[c].tax = form[c].preview - form[c].tax
    /\ (form[c].walkIn \/ \A p \in DOMAIN doc[c].posted :
          doc[c].posted[p].rate = form[c].rates[form[c].lines[p[1]].item])
        => doc[c].total = form[c].preview

\* Without that exception it fails, in a catalog that nobody changes
\* (MCPreviewTax.cfg): a second search takes the first line's item off the list.
PreviewIsCharged ==
  \A c \in Clerks : Entered(c) => doc[c].total = form[c].preview

\* The posted lines add up to the document although discount, tax and quantity
\* were spread twice, over the lines and then over the batches: so the returns
\* of all lines give back exactly what was charged.
LinesAddUp ==
  \A c \in Clerks : Entered(c) =>
    LET Net(l) == l.total - l.order
        Off(l) == l.disc + l.order
    IN  /\ PostedSum(c, Net) = doc[c].total
        /\ PostedSum(c, Off) = doc[c].discount
        /\ \A k \in DOMAIN form[c].lines :
             SumFunctionOnSet([p \in DOMAIN doc[c].posted |-> doc[c].posted[p].qty],
               PiecesOf(c, k)) = form[c].lines[k].qty

\* The amounts of a split line are rounded apart from one another, so that a
\* posted line may be worth less than nothing, and then no return of it is
\* accepted.  It takes a share of less than two units per other batch.
NegativeOnlyNearZero ==
  \A c \in Clerks : Entered(c) =>
    \A p \in DOMAIN doc[c].posted :
      LET k == p[1]
          net == SumFunctionOnSet([q \in DOMAIN doc[c].posted |-> NetOf(doc[c].posted[q])],
                                  PiecesOf(c, k))
      IN  NetOf(doc[c].posted[p]) < 0 =>
            net * doc[c].posted[p].qty
              < 2 * (Cardinality(PiecesOf(c, k)) - 1) * form[c].lines[k].qty

\* Each discount of a sale is held to the ceiling on its own, those of the lines
\* and that of the order, so that together they stay below twice the ceiling;
\* more takes the permission and is flagged.
DiscountBounded ==
  \A c \in Clerks : doc[c].status = "SOLD" =>
    IF doc[c].override THEN c \in Overrides
    ELSE doc[c].discount > 0 =>
           doc[c].discount * 10000
             < 2 * (ResolveDiscountCeiling(c) * 100 + 1) * doc[c].subtotal

\* What account 1200 is debited for a purchase is what its lines enter the stock
\* at, and the unit cost of each differs from that by half a unit at most.
StockAtCost ==
  \A c \in Clerks : doc[c].status = "RECEIVED" =>
    /\ LET Cost(l) == l.cost IN PostedSum(c, Cost) = doc[c].total
    /\ \A p \in DOMAIN doc[c].posted :
         LET l == doc[c].posted[p]
             value == l.unitCost * l.qty
         IN  2 * (value - l.cost * MoneyScale) \in -l.qty .. l.qty
=============================================================================
