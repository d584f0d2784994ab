---------------------------- MODULE MCFlyIdentity ----------------------------
(* FlyIdentity for TLC: two machines of one application.                    *)
EXTENDS FlyIdentity, TLC

OneApp == [m \in Machines |-> CHOOSE a \in Apps : TRUE]
LookupSymmetry == Permutations(Lookups)
=============================================================================
