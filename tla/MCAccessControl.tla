-------------------------- MODULE MCAccessControl --------------------------
(* Instances of AccessControl for TLC. *)
EXTENDS AccessControl

CONSTANTS acme, fresh, jane, bob, eve, extra, s1, s2, q1, q2

Seed(id, c) == [id |-> id, email |-> id, org |-> acme, code |-> c]

MCSeedUsers == { Seed(jane, "ADMIN"), Seed(bob, "MANAGER"), Seed(eve, "HOSTESS") }

MCAdminUser == Seed(jane, "ADMIN")

\* What scopes, routes and the two mappings disagree about.
MCKept ==
    On("users", {"read"}, {"own", "org"}) \cup On("users", {"update"}, {"any", "org"})
    \cup On("events", {"read"}, {"assigned", "org"}) \cup On("roles", {"assign"}, {"org", "none"})
    \cup On("attendees", {"read"}, {"any"}) \cup On("registrations", {"update"}, {"org"})

MCWishes == { On("events", {"read"}, {"assigned"}), On("users", {"read"}, {"own", "org"}),
              On("users", {"read"}, {"org"}) }

MCAsked == { OrgRole(acme, c) : c \in Codes \ {"SUPER_ADMIN"} }

Lower == { OrgRole(acme, c) : c \in {"MANAGER", "HOSTESS"} }

MCNewUsers ==
    { [email |-> extra, role |-> r] : r \in Lower }
    \cup { [email |-> bob, role |-> OrgRole(acme, "HOSTESS")] }

MCPatches ==
    { [role |-> r, standing |-> "same", email |-> Nobody] : r \in Lower }
    \cup { [role |-> NoRole, standing |-> "inactive", email |-> Nobody],
           [role |-> NoRole, standing |-> "same", email |-> extra] }

Load(seeded, may, starts, faults) ==
    [seeded |-> seeded, may |-> may, starts |-> starts, faults |-> faults]

AllScripts == {"all", "organizations", "organization", "testUsers", "minimal", "createAdmin"}

MCLoads ==
    { \* scripts on an empty database, one after the other
      Load(FALSE, {s1} \X AllScripts, 3, 1),
      \* two containers that start at the same time
      Load(FALSE, { <<s1, "all">>, <<s2, "minimal">> }, 2, 0),
      \* a new organisation while the seeders run again
      Load(TRUE, { <<s1, "all">>, <<q1, "createOrg">>, <<jane, "login">> }, 2, 1),
      \* replacements of permissions
      Load(TRUE, ({q1, q2} \X {"setPermissions"}) \cup { <<jane, "login">> }, 3, 0),
      \* requests about accounts
      Load(TRUE, ({q1, q2} \X {"createUser", "updateUser", "deleteUsers"})
                 \cup { <<jane, "login">>, <<bob, "login">> }, 2, 0),
      \* accounts seeded again while they are used
      Load(TRUE, { <<s1, "testUsers">>, <<s2, "testUsers">>, <<q1, "createUser">>,
                   <<q2, "deleteUsers">>, <<jane, "login">> }, 3, 0) }

=============================================================================
