------------------------ MODULE MCTranslateFunctions ------------------------
EXTENDS TranslateFunctions

CONSTANTS f1, f2, m1, m2

\* Two functions over two modules, each may call itself and the other:
\* every pair of caller and callee is intra- or inter-module somewhere.
MCOrder == <<f1, f2>>
MCModules == {m1, m2}
=============================================================================
