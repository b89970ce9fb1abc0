------------------------ MODULE MCInMemoryJwtRegistry ------------------------
(* InMemoryJwtRegistry for TLC: users share nothing but the sweep's walk over  *)
(* the map, so the small instances have one.                                   *)
EXTENDS InMemoryJwtRegistry
=============================================================================
