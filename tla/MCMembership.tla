---------------------------- MODULE MCMembership ----------------------------
(* Instances of Membership for model checking. *)
EXTENDS Membership, TLC

CONSTANTS u1, u2, u3, h1, h2

TwoUsers == {u1, u2}
ThreeUsers == {u1, u2, u3}
NoStaff == {}
Second == {u2}
TwoHandlers == {h1, h2}
OwnerAdmin == {"a0", "a1"}
MemberOrOwner == {"m1", "a0"}
OneOrTwo == {{u1}, {u1, u2}}
HandlerSymmetry == Permutations(TwoHandlers)
=============================================================================
