--------------------------- MODULE MCKernelPlane ---------------------------
(* Two plans that share the private excludes: the wide one has an egress    *)
(* the narrow one lacks, so switching back is the shrinking case.           *)
EXTENDS KernelPlane

CONSTANTS narrow, wide, excl, rule1, rule2

MCPlans    == {narrow, wide}
MCRules    == {excl, rule1, rule2}
MCExcludes == {excl}
MCRulesOf  == [p \in MCPlans |-> IF p = narrow THEN {excl, rule1}
                                 ELSE {excl, rule1, rule2}]
=============================================================================
