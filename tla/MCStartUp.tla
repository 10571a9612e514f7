----------------------------- MODULE MCStartUp ------------------------------
(* Two task numbers; two contexts, and an id that has none.                   *)
EXTENDS StartUp

MCTaskIDs == {0, 1}
MCIDs     == {0, 1, 9}
MCTwoNos  == {1, 2}
=============================================================================
