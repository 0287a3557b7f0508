---------------------------- MODULE MCRoleAttempts ----------------------------
EXTENDS RoleAttempts, TLC

Symmetry == Permutations(Attempts) \cup Permutations(Roles) \cup Permutations(Invocations)
                \cup Permutations(Admissions)
=============================================================================
