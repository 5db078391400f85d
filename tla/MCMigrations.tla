---------------------------- MODULE MCMigrations ----------------------------
(* BackgroundMigrations for TLC: every version adds a startup and a          *)
(* background migration, and supports the version before it.                 *)
EXTENDS BackgroundMigrations

CONSTANTS p1, p2

MCMinOf == [b \in Versions |-> IF b = 1 THEN 1 ELSE b - 1]
MCBgOf == [b \in Versions |-> b - 1]
=============================================================================
