----------------------------- MODULE MCConsole -----------------------------
EXTENDS Console, TLC

\* The second name is taken, and there is no room for the third one, which an
\* enter alone would run.
MCRegistered == <<<<"a">>, <<"a">>, <<>>>>
MCLetters == {"a"}
MCChars == MCLetters \cup {text}
MCSymmetry == Permutations(Tasks)
=============================================================================
