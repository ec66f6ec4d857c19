--------------------------- MODULE MCWin32MapFile ---------------------------
(* Model-checking instance of Win32MapFile.  One unit stands for 32K: a    *)
(* page (g_PageSize = 64K) is 2 units, the first view (64K) is 2 units and *)
(* the cap (1M in the code) is lowered to 4 units so that the view doubles *)
(* once and then stays.  Appends of 1, 2 and 3 units exercise a slice that    *)
(* fits, one that fills a view exactly, and one that spans two views.     *)
EXTENDS Win32MapFile
=============================================================================
