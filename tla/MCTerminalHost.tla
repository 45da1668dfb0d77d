--------------------------- MODULE MCTerminalHost ---------------------------
(* One session: sessions share nothing but the process that ends them.     *)
EXTENDS TerminalHost

OneSession == {"s1"}
=============================================================================
