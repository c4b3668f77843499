-------------------------- MODULE MCAdvisoryLookup --------------------------
(* Instances of AdvisoryLookup for TLC: the name of an item starts with the *)
(* name of its client.                                                      *)
EXTENDS AdvisoryLookup, TLC

CONSTANTS nvd1, epss1, epss2, kev1, osv1, run1, run2

MCKind == [i \in Item |-> CASE i = nvd1 -> "nvd" [] i \in {epss1, epss2} -> "epss"
                            [] i = kev1 -> "kev" [] i = osv1 -> "osv"]

Runs == Permutations(Process)

=============================================================================
