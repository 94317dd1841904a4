------------------------- MODULE MCReaderOwnership -------------------------
EXTENDS ReaderOwnership
=============================================================================
