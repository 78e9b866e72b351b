------------------------------- MODULE Layout -------------------------------
(***************************************************************************)
(* The widths of the human tables (src/report/layout.rs, human.rs and the  *)
(* cuts of types.rs): which columns a terminal leaves room for, and how    *)
(* far the others are cut.  A text is its width in columns of characters   *)
(* one column wide; a location is the width of its path and of each tail   *)
(* that begins at a separator.                                             *)
(***************************************************************************)
EXTENDS Naturals, FiniteSets, FiniteSetsExt

CONSTANT None   \* no limit, no cut, no such column

Less(a, b) == IF a >= b THEN a - b ELSE 0
Larger(a, b) == Max({a, b})
One(shown) == IF shown THEN 1 ELSE 0

(* The texts of a row.  A tail may be the whole path, if that begins at a  *)
(* separator; a row that moved has its previous file and that file's name. *)
IsLocation(at) ==
    /\ DOMAIN at = {"whole", "tails", "arrow"}
    /\ at.whole \in Nat /\ at.arrow \in Nat /\ at.tails \subseteq 0 .. at.whole
IsText(r) ==
    /\ DOMAIN r = {"function", "location", "crap", "cc", "known", "uncovered", "previous"}
    /\ r.function \in Nat /\ r.crap \in Nat /\ r.cc \in Nat /\ r.uncovered \in Nat
    /\ r.known \in BOOLEAN /\ IsLocation(r.location)
    /\ r.previous # None => r.previous.whole \in Nat /\ r.previous.name \in Nat

(* Tier and tier: the cells of the coverage bar, and whether CC and        *)
(* Uncovered are shown.                                                    *)
Tier(bar, cc, uncovered) == [bar |-> bar, cc |-> cc, uncovered |-> uncovered]
TierOf(width) ==
    LET wide(n) == width = None \/ width >= n IN
    Tier(IF wide(100) THEN 10 ELSE IF wide(80) THEN 5 ELSE 0, wide(60), wide(60))

(* shorten_end: a cut text ends in its mark, within the budget. *)
CutEnd(w, budget) == IF budget = None \/ w <= budget THEN w ELSE budget

(* shorten_path: cut at a separator, behind a mark; the longest tail that  *)
(* fits, or else the file itself.                                          *)
CutPath(at, budget) ==
    LET fitting == {t \in at.tails : t < budget} IN
    IF at.whole <= budget \/ at.tails = {} THEN at.whole
    ELSE 1 + IF fitting # {} THEN Max(fitting) ELSE Min(at.tails)

(* shorten_location: what follows a moved row's arrow is kept as it is. *)
CutLocation(at, budget) ==
    IF budget = None \/ at.whole + at.arrow <= budget THEN at.whole + at.arrow
    ELSE CutPath(at, Less(budget, at.arrow)) + at.arrow

(* column_width: a column is as wide as its header or its widest cell.     *)
Column(header, cells) == Max({header} \cup cells)
Functions(T, budget) == Column(8, {CutEnd(r.function, budget) : r \in T})
Locations(T, budget) == Column(8, {CutLocation(r.location, budget) : r \in T})
Uncovered(T, budget) == Column(9, {CutEnd(r.uncovered, budget) : r \in T})

(* coverage_cell: the bar, a space and the percentage, or a dash. *)
CoverageCell(known, bar) ==
    IF bar = 0 THEN IF known THEN 6 ELSE 1 ELSE bar + IF known THEN 7 ELSE 5

(* fixed_width and table_width: the columns that are never cut, the        *)
(* padding and the borders.                                                *)
Shows(hints, t) == hints /\ t.uncovered
Fixed(T, hints, t, delta) ==
    LET columns == 5 + One(delta # None) + One(t.cc) + One(Shows(hints, t)) IN
    1 + Column(4, {r.crap : r \in T}) + (IF delta = None THEN 0 ELSE delta)
      + (IF t.cc THEN Column(2, {r.cc : r \in T}) ELSE 0)
      + Column(8, {CoverageCell(r.known, t.bar) : r \in T})
      + 3 * columns + 1
Room(T, hints, t, delta, width) == Less(width, Fixed(T, hints, t, delta))

(* can_fit: the columns that can be cut, at their floors. *)
CanFit(T, hints, t, delta, width) ==
    (IF Shows(hints, t) THEN 9 ELSE 0) + Functions(T, 0) + Locations(T, 0)
        <= Room(T, hints, t, delta, width)

(* fit_two: Location gives way first, down to its file, then Function,     *)
(* down to its header.                                                     *)
Whole == [uncovered |-> None, function |-> None, location |-> None]
FitTwo(T, room) ==
    IF Functions(T, None) + Locations(T, None) <= room THEN Whole
    ELSE LET location == Larger(Less(room, Functions(T, None)), Locations(T, 0))
             used == Locations(T, location)
         IN [uncovered |-> None,
             location |-> location,
             function |-> IF Functions(T, None) + used <= room THEN None
                          ELSE Larger(Less(room, used), 8)]

(* A slip: the other two are not told what Uncovered still takes. *)
Fit_Forgetful(T, shows, room) ==
    LET others == Functions(T, None) + Locations(T, None)
        width(budget) == IF shows THEN Uncovered(T, budget) ELSE 0
    IN IF width(None) + others <= room THEN Whole
       ELSE LET budget == IF shows THEN Larger(Less(room, others), 9) ELSE None
            IN [FitTwo(T, room) EXCEPT !.uncovered = budget]

(* fit: before them, Uncovered gives way down to its header. *)
Fit(T, shows, room) ==
    LET others == Functions(T, None) + Locations(T, None)
        width(budget) == IF shows THEN Uncovered(T, budget) ELSE 0
    IN IF width(None) + others <= room THEN Whole
       ELSE LET budget == IF shows THEN Larger(Less(room, others), 9) ELSE None
            IN [FitTwo(T, Less(room, width(budget))) EXCEPT !.uncovered = budget]

(* layout: of the columns the width allows the bar goes first, then        *)
(* Uncovered, then CC, until the rest can fit.                             *)
Narrowest == Tier(0, FALSE, FALSE)
Steps(width) ==
    LET t == TierOf(width) IN
    <<t, [t EXCEPT !.bar = 0], [t EXCEPT !.bar = 0, !.uncovered = FALSE], Narrowest>>
Layout(T, hints, width, delta) ==
    LET fitting == {k \in 1 .. 4 : CanFit(T, hints, Steps(width)[k], delta, width)}
        chosen == IF fitting = {} THEN Narrowest ELSE Steps(width)[Min(fitting)]
    IN IF width = None THEN [tier |-> TierOf(None), budgets |-> Whole, fits |-> TRUE]
       ELSE [tier |-> chosen, fits |-> fitting # {},
             budgets |-> Fit(T, Shows(hints, chosen), Room(T, hints, chosen, delta, width))]

(* The width of a table laid out so. *)
Width(T, hints, delta, l) ==
    Fixed(T, hints, l.tier, delta)
      + (IF Shows(hints, l.tier) THEN Uncovered(T, l.budgets.uncovered) ELSE 0)
      + Functions(T, l.budgets.function) + Locations(T, l.budgets.location)

(* MovedTail and moved_locations: a moved row's Location, with its         *)
(* previous file whole, by its name, or dropped.                           *)
Tailed(T, form) ==
    {[r EXCEPT !.location.arrow =
        IF r.previous = None \/ form = "dropped" THEN 0
        ELSE 3 + IF form = "whole" THEN r.previous.whole ELSE r.previous.name] : r \in T}

(* fit_delta_rows: whole if that costs nothing, else by its name, unless   *)
(* dropping it saves a column or a function's name.                        *)
Drawn(T, hints, width, delta) ==
    LET as(form) == [rows |-> Tailed(T, form), plan |-> Layout(Tailed(T, form), hints, width, delta)]
        free(p) == p.fits /\ p.tier = TierOf(width) /\ p.budgets.location = None
        alike(p, o) == /\ p.fits /\ p.tier = o.tier
                       /\ (p.budgets.function = None) = (o.budgets.function = None)
    IN IF width # None /\ width < 80 THEN as("dropped")
       ELSE IF free(as("whole").plan) THEN as("whole")
       ELSE IF alike(as("name").plan, as("dropped").plan) THEN as("name") ELSE as("dropped")

-----------------------------------------------------------------------------
(* layout's promise, that the table fits whenever its narrowest form does, *)
(* and nothing is cut or dropped for a table that fits as it is.  (Where   *)
(* the widest file is in the root itself the mark of a cut costs a column, *)
(* and the floors may not fit though the table does.)                      *)
FitsIfItCan(T, hints, width, delta) ==
    LET d == Drawn(T, hints, width, delta)
        bare == Tailed(T, "dropped")
        ample == Tailed(T, "whole")
        full == [tier |-> TierOf(width), budgets |-> Whole]
    IN width # None =>
         /\ CanFit(bare, hints, Narrowest, delta, width) =>
              Width(d.rows, hints, delta, d.plan) <= width
         /\ Width(ample, hints, delta, full) <= width /\ width >= 80
              /\ Locations(ample, 0) <= Locations(ample, None) =>
              d.rows = ample /\ d.plan.budgets = Whole /\ d.plan.tier = TierOf(width)
=============================================================================
