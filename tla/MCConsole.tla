------------------------------ MODULE MCConsole -----------------------------
EXTENDS Console

MCTexts == {<<"x", NUL, "y">>, <<"z">>}
MCIncrements == {-2, 0, 1, 2, 3, 9}
MCKeys == {"a", "q", NUL}
=============================================================================
