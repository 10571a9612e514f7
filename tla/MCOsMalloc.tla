----------------------------- MODULE MCOsMalloc -----------------------------
(* Small heaps for TLC: three classes instead of seven.  Sizes are counted in *)
(* units of 128 bytes, so the classes hold 1, 2 and 4 units.                  *)
EXTENDS OsMalloc

MCNClass == 3
MCBytes  == <<1, 2, 4>>
MCCnt    == <<2, 1, 4>>
MCSizes  == {1, 2, 11}
=============================================================================
