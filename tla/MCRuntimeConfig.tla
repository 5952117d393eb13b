--------------------------- MODULE MCRuntimeConfig ---------------------------
(* Two servers, one model: it is priced and enabled, disabled and unpriced,  *)
(* or the whole configuration is replaced.                                   *)
EXTENDS RuntimeConfig

CONSTANTS s1, s2, m

Content(models, pricing) == [d \in Docs |-> IF d = "models" THEN models ELSE pricing]
Nothing == Content({}, {})
Priced == Content({}, {m})
Enabled == Content({m}, {m})
Change(scope, old, new) == [scope |-> scope, value |-> new, expected |-> old]
EditsOfOne ==
    {Change({"pricing"}, Nothing, Priced), Change({"pricing"}, Priced, Nothing),
     Change({"models"}, Priced, Enabled), Change({"models"}, Enabled, Priced),
     Change(Docs, Any, Nothing)}
=============================================================================
