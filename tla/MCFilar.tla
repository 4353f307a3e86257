------------------------------ MODULE MCFilar -------------------------------
(* The instance of Filar for TLC is given by its numbers alone.            *)
EXTENDS Filar
=============================================================================
