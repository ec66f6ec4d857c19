----------------------------- MODULE MCWin32Env -----------------------------
EXTENDS Win32Env, TLC

CONSTANTS t1, t2, cur, tmp, d1, d2

MCThreads == {t1, t2}
MCNames == {cur, tmp}
MCData == {d1, d2}

(* Threads are interchangeable; so are the contents written.               *)
Symmetry == Permutations(MCThreads) \cup Permutations(MCData)
=============================================================================
