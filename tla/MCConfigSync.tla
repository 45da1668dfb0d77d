---------------------------- MODULE MCConfigSync ----------------------------
(***************************************************************************)
(* Two spellings of the name of one file.  Where only one of them is ever  *)
(* published they are an ordinary key with a file of its own.              *)
(***************************************************************************)
EXTENDS ConfigSync

TwoSpellings == {"a", "./a"}
OneFile == {"a"}
PathOf(k) == "a"
TwoEtags == {"e1", "e2"}
=============================================================================
