--------------------------- MODULE MCStatusReport ---------------------------
(* One container, and files that are whole or being written.               *)
EXTENDS StatusReport

OneContainer == {"om1"}
TwoStates == {"running", "exited"}
TwoFileStates == {"whole", "cut"}
=============================================================================
