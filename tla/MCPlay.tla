-------------------------------- MODULE MCPlay --------------------------------
(* The readings at the controller's limits.                                *)
EXTENDS Play

MCLevels == {0, 10, 11, 128, 244, 245, 255}

=============================================================================
