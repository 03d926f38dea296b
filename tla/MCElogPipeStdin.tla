--------------------------- MODULE MCElogPipeStdin ---------------------------
(***************************************************************************)
(* ElogPipeStdin with an input of up to four bytes, read with max 1 and  *)
(* 2, so that reads take part of the buffer or all of it.                  *)
(***************************************************************************)
EXTENDS ElogPipeStdin
=============================================================================
