SPECIFICATION Spec
CONSTANTS
    Runs = {r1}
    Callers = {c1, c2, c3}
    Args = {a1, a2}
    NoArgs = NoArgs
    NoRun = NoRun
    NoRow = NoRow
SYMMETRY Symmetry
INVARIANTS TypeOK ReturnedRowIsTheEnding RefusalIsFinal
PROPERTIES EndedRowsAreFinal ImplementsRunRecords
