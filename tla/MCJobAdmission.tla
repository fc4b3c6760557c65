--------------------------- MODULE MCJobAdmission ---------------------------
(* The instance of JobAdmission for TLC. *)
EXTENDS JobAdmission, TLC

CONSTANTS u1, k1, k2

\* One user owns both jobs.
OneOwner == (k1 :> u1) @@ (k2 :> u1)

\* Handlers are interchangeable, and so are the bodies.
RequestSymmetry == Permutations(Handlers) \cup Permutations(Bodies)
=============================================================================
