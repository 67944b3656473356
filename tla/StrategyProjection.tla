------------------------- MODULE StrategyProjection -------------------------
(***************************************************************************)
(* The what-if simulator and the search for the best strategy              *)
(* (app/services/executive.py): a discount on one category and a shift of  *)
(* floor space between two are projected on the sales of the last days,    *)
(* scenario by scenario over a grid, and the best are offered.             *)
(*                                                                         *)
(* The code computes with floats; here amounts are whole numbers,          *)
(* rounded down, so a property may only say what rounding                  *)
(* leaves true.  Rates, discounts and shifts are in percent.               *)
(***************************************************************************)
EXTENDS Integers, Sequences, FiniteSets, Functions

CONSTANTS
    Categories, \* categories with sales or inventory
    Revenues,   \* the revenues a category may have
    Rates,      \* the margin rates, in percent
    Spaces,     \* the inventory units
    DiscountRange, \* the least, the greatest and the step of the grid's discounts
    ShiftRange, \* and of its shifts
    Asked,      \* discounts and shifts asked for alone, of any size
    Floors, Caps, \* guardrails: the least margin rate, the greatest discount
    TopK,       \* how many scenarios are offered
    None

IsRange(r) == r.min \in Int /\ r.max \in Int /\ r.step \in Nat \ {0} /\ r.min <= r.max
ProjectionAssumption ==
    /\ IsFiniteSet(Categories) /\ None \notin Categories
    /\ Revenues \subseteq Nat /\ Rates \subseteq Int /\ Spaces \subseteq Nat
    /\ Asked \subseteq Int /\ Floors \subseteq Int /\ Caps \subseteq Int /\ TopK \in Nat
    /\ IsRange(DiscountRange) /\ IsRange(ShiftRange)

VARIABLES
    base,       \* base[c]: the sales and inventory of category c
    ask,        \* the categories, objective and guardrails of the request
    candidates, \* the scenarios simulated so far
    offered     \* the scenarios answered, or None

vars == <<base, ask, candidates, offered>>

Objectives == {"revenue", "margin", "sell_through"}
Lesser(a, b) == IF a < b THEN a ELSE b
Greater(a, b) == IF a > b THEN a ELSE b
Percent(p, amount) == (amount * p) \div 100
Total(row) == FoldFunction(+, 0, row)

Init ==
    /\ base \in [Categories -> [revenue : Revenues, rate : Rates, space : Spaces]]
    /\ ask \in [from : Categories \cup {None}, to : Categories \cup {None},
                objective : Objectives, margin : Floors, cap : Caps]
    /\ candidates = <<>> /\ offered = None

-----------------------------------------------------------------------------
\* _project_category_allocations.
Discounted(discount) == Greater(0, Lesser(discount, 60))
Moved(shift) == Greater(-40, Lesser(shift, 40))

\* The category the discount is for.
Target == IF ask.to # None THEN ask.to ELSE ask.from

Margin(revenue, rate) == Percent(rate, revenue)

\* After the discount: the volume grows by 1.6 times it, the margin falls by 0.9.
AfterDiscount(discount, c) ==
    LET d == Discounted(discount)
        volume == (Percent(100 - d, base[c].revenue) * (1000 + 16 * d)) \div 1000
    IN IF d > 0 /\ c = Target
       THEN [revenue |-> volume, space |-> base[c].space * 100,
             margin |-> Margin(volume, Greater(0, base[c].rate - (9 * d) \div 10))]
       ELSE [revenue |-> base[c].revenue, space |-> base[c].space * 100,
             margin |-> Margin(base[c].revenue, base[c].rate)]

\* The shift, of `moved` percent of the source's revenue and space, and the gain or loss
\* of the sales moved, by how productive the space of the two is.
Reallocated(source, now, moved) == Lesser(Percent(moved, base[source].revenue), now[source].revenue)
Gain(source, dest, amount) ==
    LET area(c) == Greater(base[c].space, 1)
    IN IF base[source].revenue = 0 THEN 0
       ELSE Percent(35, (amount * base[dest].revenue * area(source))
                            \div (area(dest) * base[source].revenue) - amount)

AfterShift(now, shift) ==
    LET forward == Moved(shift) > 0
        source == IF forward THEN ask.from ELSE ask.to
        dest == IF forward THEN ask.to ELSE ask.from
        moved == IF forward THEN Moved(shift) ELSE -Moved(shift)
        amount == Reallocated(source, now, moved)
        space == base[source].space * moved
        gain == Gain(source, dest, amount)
        rate == base[source].rate + ((base[dest].rate - base[source].rate) * 6) \div 10
    IN IF moved = 0 \/ ask.from = None \/ ask.to = None \/ ask.from = ask.to THEN now
       ELSE [now EXCEPT
               ![source] = [revenue |-> @.revenue - amount, space |-> Greater(0, @.space - space),
                            margin |-> @.margin - Margin(amount, base[source].rate)],
               ![dest] = [revenue |-> @.revenue + amount + gain, space |-> @.space + space,
                          margin |-> @.margin + Margin(amount, base[dest].rate) + Margin(gain, rate)]]

Projected(discount, shift) == AfterShift([c \in Categories |-> AfterDiscount(discount, c)], shift)

\* A negative projection counts as nothing.
Clamped(row) == IF row.revenue < 0 THEN [row EXCEPT !.revenue = 0, !.margin = 0] ELSE row

-----------------------------------------------------------------------------
\* what_if_simulator: the totals of a scenario.
Scenario(discount, shift) ==
    LET rows == Projected(discount, shift)
        baseline == Total([c \in Categories |-> base[c].revenue])
        revenue == Total([c \in Categories |-> Clamped(rows[c]).revenue])
        margin == Total([c \in Categories |-> Clamped(rows[c]).margin])
        before == Total([c \in Categories |-> Margin(base[c].revenue, base[c].rate)])
    IN [discount |-> discount, shift |-> shift, revenue |-> revenue, delta |-> revenue - baseline,
        rate |-> IF revenue > 0 THEN (100 * margin) \div revenue ELSE 0,
        rateDelta |-> (IF revenue > 0 THEN (100 * margin) \div revenue ELSE 0)
                          - (IF baseline > 0 THEN (100 * before) \div baseline ELSE 0)]

Passes(s) == s.discount <= ask.cap /\ s.rate >= ask.margin /\ s.delta > 0

\* _objective_score, times 20 to be a whole number.
Score(s) ==
    CASE ask.objective = "margin" -> 2000 * s.rateDelta + s.delta
      [] ask.objective = "sell_through" -> 7 * s.delta + s.revenue \div 100
      [] OTHER -> 20 * s.delta + 10 * s.rate

\* _inclusive_range: in steps from the least, and the greatest.
InclusiveRange(r) ==
    LET steps == [i \in 1 .. (r.max - r.min) \div r.step + 1 |-> r.min + (i - 1) * r.step]
    IN IF steps[Len(steps)] = r.max THEN steps ELSE Append(steps, r.max)

\* The shift is only tried between two categories.
DiscountsTried == InclusiveRange(DiscountRange)
ShiftsTried == IF ask.from # None /\ ask.to # None /\ ask.from # ask.to THEN InclusiveRange(ShiftRange) ELSE <<0>>
Grid == Len(DiscountsTried) * Len(ShiftsTried)

\* fashion_exec_what_if_simulator: one scenario, of the caller's own numbers.
WhatIf ==
    /\ offered = None /\ candidates = <<>>
    /\ \E discount, shift \in Asked : candidates' = <<Scenario(discount, shift)>>
    /\ offered' = {}
    /\ UNCHANGED <<base, ask>>

\* auto_optimize_strategy, one scenario of the grid.
Simulate ==
    /\ offered = None /\ Len(candidates) < Grid
    /\ LET i == Len(candidates)
           discount == DiscountsTried[(i \div Len(ShiftsTried)) + 1]
           shift == ShiftsTried[(i % Len(ShiftsTried)) + 1]
       IN candidates' = Append(candidates, Scenario(discount, shift))
    /\ UNCHANGED <<base, ask, offered>>

\* candidates.sort(reverse=True): by guardrails, score, revenue and margin; equals stay in
\* the order of the grid.
BrokenBetter(s, t) == <<Score(s), s.delta, s.rateDelta>> # <<Score(t), t.delta, t.rateDelta>> /\ Score(s) >= Score(t)
Better(s, t) ==
    \/ Passes(s) /\ ~Passes(t)
    \/ /\ Passes(s) <=> Passes(t)
       /\ \/ Score(s) > Score(t)
          \/ Score(s) = Score(t) /\ s.delta > t.delta
          \/ Score(s) = Score(t) /\ s.delta = t.delta /\ s.rateDelta > t.rateDelta
Before(i, j) == Better(candidates[i], candidates[j]) \/ (i < j /\ ~Better(candidates[j], candidates[i]))

Offer ==
    /\ offered = None /\ Len(candidates) = Grid
    /\ offered' = {i \in 1 .. Grid : Cardinality({j \in 1 .. Grid : j # i /\ Before(j, i)}) < TopK}
    /\ UNCHANGED <<base, ask, candidates>>

Next == WhatIf \/ Simulate \/ Offer

Spec == Init /\ [][Next]_vars

-----------------------------------------------------------------------------
\* A projection moves floor space and makes none, no category sells or holds less than
\* nothing: the clamp the code ends with is never needed, whichever way the shift goes
\* and whatever the discount took from the category it comes from.
ProjectionIsSound ==
    \A i \in DOMAIN candidates :
        LET rows == Projected(candidates[i].discount, candidates[i].shift)
        IN /\ Total([c \in Categories |-> rows[c].space]) = Total([c \in Categories |-> base[c].space * 100])
           /\ \A c \in Categories : rows[c].revenue >= 0 /\ rows[c].space >= 0

\* "Recommend top deterministic what-if scenarios under explicit guardrails"
\* (mcp_server.py): as many as asked are offered, one that breaks a guardrail only if none
\* that keeps them is left out, and of those by what the objective is for.
OffersAreBest ==
    offered # None /\ offered # {} =>
        /\ Cardinality(offered) = Lesser(TopK, Grid)
        /\ \A i \in offered, j \in (1 .. Grid) \ offered :
              /\ Passes(candidates[j]) => Passes(candidates[i])
              /\ Passes(candidates[i]) = Passes(candidates[j]) => Score(candidates[i]) >= Score(candidates[j])
=============================================================================
