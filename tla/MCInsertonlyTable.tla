------------------------- MODULE MCInsertonlyTable --------------------------
EXTENDS InsertonlyTable
=============================================================================
