-------------------------------- MODULE MCApm --------------------------------
(* Apm for TLC: no migration, one in the loop, and one the loop misses.    *)
EXTENDS Apm
MC_MigrateAfter == {-1, 0, msg_count}
=============================================================================
