------------------------------- MODULE Roles -------------------------------
(***************************************************************************)
(* The roles of the members of an organization and what each may do, as in *)
(* org/roles.py.  A membership keeps the permissions it was given: here    *)
(* they are known by the role they belong to.                              *)
(***************************************************************************)

EXTENDS Naturals

Access == {"can_read_stream_ids", "can_create_stream_data", "can_access_companion"}
Use == {"can_modify_device", "can_modify_stream_ids", "can_read_device_properties",
        "can_modify_device_properties", "can_read_notes", "can_access_webapp",
        "can_read_device_locations", "can_read_stream_data",
        "can_access_datablock", "can_access_reports"}
Manage == {"can_manage_users", "can_manage_org_and_projects", "can_claim_devices",
           "can_manage_stream_aliases", "can_create_datablock",
           "can_reset_device", "can_create_reports", "can_access_classic"}
Delete == {"can_delete_org", "can_delete_datablock"}
Develop == {"can_manage_ota", "can_create_stream_ids"}

RolePermissions ==
    [s0 |-> Access \cup Use \cup Manage \cup Delete \cup Develop,
     a0 |-> Access \cup Use \cup Manage \cup Delete,
     a1 |-> Access \cup Use \cup Manage,
     m1 |-> Access \cup Use,
     r1 |-> Access,
     d1 |-> Access \cup Use \cup Manage \cup Develop]

Role == DOMAIN RolePermissions

\* The order in which the forms offer the roles.
Rank == [s0 |-> 1, a0 |-> 2, a1 |-> 3, m1 |-> 4, r1 |-> 5, d1 |-> 6]

\* What a form offers to somebody who is not staff, and what a serializer does.
FormRoles == {r \in Role : 1 < Rank[r] /\ Rank[r] < 6}
ApiRoles == {r \in Role : Rank[r] > 2}
=============================================================================
