--------------------------- MODULE MCTableStorage ---------------------------
EXTENDS TableStorage, TLC

CONSTANTS t1, t2, rows, pages
TwoThreads == {t1, t2}
RowsAndPages == {rows, pages}      \* a Storage, of any size, and an
WholePages == {pages}              \* InsertonlyTable, of whole huge pages
Symmetry == Permutations(Threads)
=============================================================================
