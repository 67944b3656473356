--------------------------- MODULE CatalogBackfill ---------------------------
(***************************************************************************)
(* The catalog made from the legacy product rows                           *)
(* (services/catalog_normalization.py): the rows of a run are grouped into *)
(* products, variants and store inventory in one transaction, and the      *)
(* product inventory the catalog is read from is made from those in a      *)
(* second one; a database that had rows before these tables existed got    *)
(* the same from two migrations (alembic f2a3b4c5d6e7 and d8e9f0a1b2c3),   *)
(* which know no style codes.                                              *)
(*                                                                         *)
(* Titles, brands and categories are one name, the attributes of a variant *)
(* one color; the hash of a key is the key.  Brand rows and images are     *)
(* left out, and the two migrations are taken together.                    *)
(***************************************************************************)
EXTENDS Integers, FiniteSets, FiniteSetsExt, Sequences, SequencesExt

CONSTANTS
  Runs,    \* generated runs
  Stocks,  \* the legacy rows a run may have: sets of rows
  None

\* A legacy row is one product in one color and size, for one store.
Columns == {"id", "name", "style", "color", "store", "size", "price", "avail", "qty"}
\* Columns of the legacy table: whole numbers, and a row that is not in stock has none
\* unless it can be ordered before.
BackfillAssumption ==
  /\ None \notin Stocks \cup Runs
  /\ \A rows \in Stocks : IsFiniteSet(rows) /\ \A r, q \in rows :
       /\ DOMAIN r = Columns /\ r.id \in Int /\ r.price \in Int /\ r.qty \in Nat
       /\ r.id = q.id => r = q
       /\ r.avail # "in_stock" => r.qty = 0 \/ r.avail = "preorder"

VARIABLES
  legacy,    \* run |-> its legacy rows, or None before it is loaded
  products,  \* catalog products [key, run, primary, low, high, color]
  variants,  \* [key, product, run, color, low, high]
  stock,     \* store inventory [id, variant, run, store, size, avail, qty]
  canonical, \* product inventory [product, store, size, run, avail, qty]
  running,   \* run whose product inventory is not made yet, or None
  done       \* history: runs whose catalog was completed
vars == <<legacy, products, variants, stock, canonical, running, done>>

First(rows) == CHOOSE r \in rows : \A q \in rows : r.id <= q.id

Low(rows) == Min({r.price : r \in rows})
High(rows) == Max({r.price : r \in rows})

\* ---- keys --------------------------------------------------------------
\* A size is shown as written, "" as "One Size" ("_" is a blank here), and is told apart
\* without its case.
Display(size) == IF size = "" THEN "One_Size" ELSE size
Cleaned(size) == IF size = "M" THEN "m" ELSE size
SizeKey(size) == IF size \in {"", "One_Size"} THEN "" ELSE Cleaned(size)

\* The migration knows a product by its values, the service by its style code first.
NameKey(run, r) == <<r.name>>
ServiceKey(run, r) ==
  IF r.style = None THEN NameKey(run, r) ELSE <<"source-family", run, r.style>>
ProductKey(styled, run, r) == IF styled THEN ServiceKey(run, r) ELSE NameKey(run, r)
VariantKey(styled, run, r) == Append(ProductKey(styled, run, r), r.color)

\* In stock if a row with units is, else preorder if a row is, else what the first says.
HasStock(r) == r.avail = "in_stock" /\ r.qty > 0
Merged(rows, first) ==
  IF \E r \in rows : HasStock(r) THEN "in_stock"
  ELSE IF \E r \in rows : r.avail = "preorder" THEN "preorder"
  ELSE first.avail
Units(rows) == MapThenSumSet(LAMBDA r : r.qty, rows)

\* ---- the first transaction ---------------------------------------------
ProductRows(styled, run, rows) ==
  {LET group == {r \in rows : ProductKey(styled, run, r) = key}
       first == First(group)
   IN [key |-> key, run |-> run, low |-> Low(group), high |-> High(group),
       color |-> first.color,
       primary |-> IF styled THEN VariantKey(styled, run, first) ELSE None]
     : key \in {ProductKey(styled, run, r) : r \in rows}}
VariantRows(styled, run, rows) ==
  {LET group == {r \in rows : VariantKey(styled, run, r) = key}
   IN [key |-> key, product |-> ProductKey(styled, run, First(group)), run |-> run,
       color |-> First(group).color, low |-> Low(group), high |-> High(group)]
     : key \in {VariantKey(styled, run, r) : r \in rows}}
Placed(styled, run, r) ==
  [store |-> r.store, variant |-> VariantKey(styled, run, r), size |-> Display(r.size)]
StockRows(styled, run, rows) ==
  {LET group == {r \in rows : Placed(styled, run, r) = place}
   IN [id |-> <<place.store, place.variant, Cleaned(place.size)>>, run |-> run,
       variant |-> place.variant, store |-> place.store, size |-> place.size,
       avail |-> Merged(group, First(group)), qty |-> Units(group)]
     : place \in {Placed(styled, run, r) : r \in rows}}

\* A key names one row, of whatever run it is.
HasUniqueKeys(ps, vs, ss) ==
  /\ \A p, q \in ps : p.key = q.key => p = q
  /\ \A v, w \in vs : v.key = w.key => v = w
  /\ \A s, t \in ss : s.id = t.id => s = t

\* backfill_catalog_from_legacy_products up to its commit.  The product inventory of
\* the products it deletes is deleted with them.
Normalize(run) ==
  /\ running = None /\ legacy[run] # None
  /\ LET ps == {p \in products : p.run # run} \cup ProductRows(TRUE, run, legacy[run])
         vs == {v \in variants : v.run # run} \cup VariantRows(TRUE, run, legacy[run])
         ss == {s \in stock : s.run # run} \cup StockRows(TRUE, run, legacy[run])
     IN /\ HasUniqueKeys(ps, vs, ss)
        /\ products' = ps /\ variants' = vs /\ stock' = ss
  /\ canonical' = {c \in canonical :
                     \E p \in products : p.key = c.product /\ p.run # run}
  /\ running' = run /\ done' = done \ {run}
  /\ UNCHANGED legacy

\* Two spellings of a size, or a product another run has: the transaction is rolled back.
Refused(run) ==
  /\ running = None /\ legacy[run] # None
  /\ ~ HasUniqueKeys({p \in products : p.run # run} \cup ProductRows(TRUE, run, legacy[run]),
                     {v \in variants : v.run # run} \cup VariantRows(TRUE, run, legacy[run]),
                     StockRows(TRUE, run, legacy[run]))
  /\ UNCHANGED vars

\* ---- the second transaction ----------------------------------------------
ProductOf(variant, vs) == (CHOOSE v \in vs : v.key = variant).product
\* The primary variant a product names, or the first of its variants in hash order.
Described(p, vs) ==
  LET own == {v \in vs : v.product = p.key}
      named == {v \in own : v.key = p.primary}
  IN {[p EXCEPT !.low = Min({w.low : w \in own}), !.high = Max({w.high : w \in own}),
                !.color = v.color] : v \in IF named # {} THEN named ELSE own}
\* A plausible bug: the row of the first variant stands for the size.
BrokenPooled(ss, vs) ==
  {LET s == CHOOSE t \in ss : <<ProductOf(t.variant, vs), t.store, SizeKey(t.size)>> = place
   IN [product |-> place[1], store |-> place[2], size |-> place[3],
       run |-> s.run, avail |-> s.avail, qty |-> s.qty]
     : place \in {<<ProductOf(s.variant, vs), s.store, SizeKey(s.size)>> : s \in ss}}
Pooled(ss, vs) ==
  {LET group == {s \in ss : <<ProductOf(s.variant, vs), s.store, SizeKey(s.size)>> = place}
       first == CHOOSE s \in group : TRUE
   IN [product |-> place[1], store |-> place[2], size |-> place[3],
       run |-> first.run, avail |-> Merged(group, first), qty |-> Units(group)]
     : place \in {<<ProductOf(s.variant, vs), s.store, SizeKey(s.size)>> : s \in ss}}

\* backfill_product_authoring_v2, for the products of a run.
Author(run) ==
  /\ running = run
  /\ LET own == {p \in products : p.run = run}
         vs == {v \in variants : v.product \in {p.key : p \in own}}
         ss == {s \in stock : s.variant \in {v.key : v \in vs}}
     IN /\ canonical' = {c \in canonical : c.product \notin {p.key : p \in own}}
                          \cup Pooled(ss, vs)
        /\ products' = (products \ own) \cup UNION {Described(p, vs) : p \in own}
  /\ running' = None /\ done' = done \cup {run}
  /\ UNCHANGED <<legacy, variants, stock>>

Crash ==
  /\ running # None /\ running' = None
  /\ UNCHANGED <<legacy, products, variants, stock, canonical, done>>
Load(run) ==
  /\ running = None /\ legacy[run] = None
  /\ \E rows \in Stocks : legacy' = [legacy EXCEPT ![run] = rows]
  /\ UNCHANGED <<products, variants, stock, canonical, running, done>>

\* ---- the migrations, of a database that holds the rows of one run ---------
\* f2a3b4c5d6e7: the tables, filled from the legacy rows.
TablesAdded(run, rows) ==
  /\ legacy = [r \in Runs |-> IF r = run THEN rows ELSE None]
  /\ variants = VariantRows(FALSE, run, rows) /\ stock = StockRows(FALSE, run, rows)
  /\ HasUniqueKeys({}, variants, stock)
\* d8e9f0a1b2c3: the product inventory, filled from them.
InventoryAdded(run, rows) ==
  LET ps == ProductRows(FALSE, run, rows)
  IN /\ \E f \in [ps -> UNION {Described(p, variants) : p \in ps}] :
          (\A p \in ps : f[p] \in Described(p, variants)) /\ products = Range(f)
     /\ canonical = Pooled(stock, variants)
     /\ done = {run}

Init ==
  /\ running = None
  /\ \/ /\ legacy = [r \in Runs |-> None] /\ done = {}
        /\ products = {} /\ variants = {} /\ stock = {} /\ canonical = {}
     \/ \E run \in Runs, rows \in Stocks : TablesAdded(run, rows) /\ InventoryAdded(run, rows)
Next ==
  \/ \E run \in Runs : Load(run) \/ Normalize(run) \/ Refused(run) \/ Author(run)
  \/ Crash
Spec == Init /\ [][Next]_vars

(***************************************************************************)
(* A completed catalog holds what the legacy rows hold, however it was     *)
(* made, after crashes and whatever another run did since: every unit of a *)
(* store and size once, in stock exactly if a row was, at the prices and   *)
(* in a color of the product's rows.                                       *)
(***************************************************************************)
Stands(run, key) ==
  {r \in legacy[run] :
     key = IF \E p \in products : p.key = ServiceKey(run, r) THEN ServiceKey(run, r)
           ELSE NameKey(run, r)}
CatalogHoldsTheRows ==
  \A run \in done :
    LET own == {p \in products : p.run = run}
        shown == {c \in canonical : c.product \in {p.key : p \in own}}
    IN /\ \A c, d \in shown :
            <<c.product, c.store, c.size>> = <<d.product, d.store, d.size>> => c = d
       /\ \A store \in {r.store : r \in legacy[run]}, size \in {"", "m"} :
            Units({c \in shown : c.store = store /\ c.size = size})
              = Units({r \in legacy[run] : r.store = store /\ SizeKey(r.size) = size})
       /\ \A c \in shown :
            HasStock(c) <=> \E r \in Stands(run, c.product) :
                              HasStock(r) /\ r.store = c.store /\ SizeKey(r.size) = c.size
       /\ \A p \in own : LET rows == Stands(run, p.key)
                         IN /\ p.low = Low(rows) /\ p.high = High(rows)
                            /\ p.color \in {r.color : r \in rows}
=============================================================================
