---------------------------- MODULE MCSheetNames -----------------------------
(***************************************************************************)
(* Three sheets for two labels: one of 5 characters and one of 31.         *)
(***************************************************************************)
EXTENDS SheetNames

MCLabels == {"short", "full"}
MCRoom == [short |-> 26, full |-> 0]
=============================================================================
