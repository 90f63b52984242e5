--------------------------- MODULE MCSymbolMapCache --------------------------
EXTENDS SymbolMapCache, TLC

\* Two builds and two versions, in every pairing, each build also recovered alone.
BuiltLibraries == [build : 1 .. 2, version : 0 .. 2]

\* Two builds of one version, and the version alone.
OneVersion     == [build : 0 .. 2, version : {1}]

RunSymmetry == Permutations(Runs)
=============================================================================
