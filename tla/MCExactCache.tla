----------------------------- MODULE MCExactCache -----------------------------
(* Two keys in a map with room for one, two Gets under way.                  *)
EXTENDS ExactCache

===============================================================================
