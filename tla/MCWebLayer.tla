----------------------------- MODULE MCWebLayer -----------------------------
(* Instances of WebLayer for TLC: the URL of target 1 is a prefix of the    *)
(* URL of target 2, as http://host:80 and http://host:80/app are.           *)
EXTENDS WebLayer

MCBelow == [t \in Target |-> IF t = 1 THEN {1, 2} \intersect Target ELSE {t}]

=============================================================================
