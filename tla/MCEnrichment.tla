---------------------------- MODULE MCEnrichment ----------------------------
(* Two levels that share two functions and store them in opposite orders, as *)
(* standard and full do with contextual_severity and technical_description.  *)
EXTENDS Enrichment

CONSTANTS contextual_severity, technical_description

FunctionsDef == {contextual_severity, technical_description}
LevelsDef == {"standard", "full"}
LevelFunctionsDef ==
    [l \in LevelsDef |->
        IF l = "standard" THEN <<contextual_severity, technical_description>>
        ELSE <<technical_description, contextual_severity>>]
=============================================================================
