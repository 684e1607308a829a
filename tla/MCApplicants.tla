---------------------------- MODULE MCApplicants -----------------------------
(***************************************************************************)
(* Applicants: three colours, and hashes that collide or wrap around.      *)
(***************************************************************************)
EXTENDS Applicants, TLC

MCPreferences == {<<2, 2, 0>>, <<1, 1, 1>>, <<0, 2, 2>>}

MCSymmetry == Permutations(Staff) \union Permutations(Sid) \union Permutations(Name)

=============================================================================
