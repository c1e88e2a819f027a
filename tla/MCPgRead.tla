------------------------------ MODULE MCPgRead ------------------------------
(* Small instances of PgRead for TLC: those of PgStore, with a reader.     *)
EXTENDS MCPgStore, PgRead

OneSession == {p1}
=============================================================================
