SPECIFICATION ReportsSpec
CONSTANTS
    Entries = {e1, e2, e3}
    Latencies = {1, 6}
    Sizes = {1, 2}
    DefaultSize = 2
    MaxSize = 3
    MaxInt = 7
    MaxTime = 3
    Services = {s1, s2}
    Rules = {r1, r2}
    Routes = {t1}
    n1 = n1
    n2 = n2
    blank = blank
    Names = {n1, n2, blank}
    BadNames = {blank}
    Importers = {p1}
    Lists <- MCLists
SYMMETRY Symmetry
INVARIANTS
    TypeOK
    WalkComplete
    PageExact
    AverageBounds
    ExportClosed
    ImportSettled
