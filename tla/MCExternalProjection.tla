------------------------- MODULE MCExternalProjection -------------------------
(* Two sources; a reader that switches between them and one that can drop  *)
(* the second: branches are shared, exchanged and released.                *)
EXTENDS ExternalProjection, TLC

CONSTANTS s1, s2, switch, shared

MCBranches == (switch :> {{s1}, {s2}}) @@ (shared :> {{s1}, {s1, s2}})
=============================================================================
