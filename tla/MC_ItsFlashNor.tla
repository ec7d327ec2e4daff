--------------------------- MODULE MC_ItsFlashNor ---------------------------
EXTENDS ItsFlashNor

\* Every read the file system may issue: any offset and size in one block.
MCArgs == Flash!Ranges
=============================================================================
