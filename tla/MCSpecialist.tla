----------------------------- MODULE MCSpecialist -----------------------------
(* A model-checking instance of Specialist: two tools that share an underscore  *)
(* form, one that mixes hyphens and underscores.                                *)
EXTENDS Specialist

Names == {"a-b", "a_b", "x-y_z", "x_y_z", "x-y-z"}
UnderscoreForm == [n \in Names |-> IF n \in {"a-b", "a_b"} THEN "a_b" ELSE "x_y_z"]
HyphenForm == [n \in Names |-> IF n \in {"a-b", "a_b"} THEN "a-b" ELSE "x-y-z"]
Tools == {"a-b", "a_b", "x-y_z"}
Listings == {<<"a-b", "a_b", "x-y_z">>}
=============================================================================
