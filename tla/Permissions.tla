---------------------------- MODULE Permissions ----------------------------
(***************************************************************************)
(* The tables and pure functions of the authorisation of requests: the     *)
(* catalogue of permissions, the two mappings from roles to permissions    *)
(* (the seeders' and the one a new organisation is given), the ability     *)
(* CASL is built from, the guard of the routes, the rules the front end is *)
(* sent, and how far a request reaches (its scope).                        *)
(*                                                                         *)
(* A permission 'events.read:org' is the record On("events", {"read"},     *)
(* {"org"}) has as its one element; codes without a scope have "none".     *)
(***************************************************************************)

On(resource, actions, scopes) == [on : {resource}, do : actions, scope : scopes]

AnyOrg == {"any", "org"}
Edits == {"create", "update", "delete"}
Reads == {"read"}

---------------------------------------------------------------------------
\* The catalogue: permissionsData, upserted by seedPermissions

OrganizationPermissions ==
    On("organizations", {"read", "update"}, AnyOrg) \cup On("organizations", {"create"}, {"any"})

UserPermissions == On("users", Edits \cup Reads, AnyOrg) \cup On("users", Reads, {"own"})

EventPermissions ==
    On("events", Edits \cup {"read", "publish"}, AnyOrg) \cup On("events", Reads, {"assigned"})

AttendeePermissions ==
    On("attendees", Edits \cup {"read", "restore", "permanent-delete", "checkin", "export"}, AnyOrg)

RegistrationPermissions == On("registrations", Edits \cup {"read", "import"}, AnyOrg)

TemplatePermissions == On("badge-templates", Edits \cup Reads, AnyOrg)

BadgePermissions == On("badges", Edits \cup Reads, AnyOrg)

RolePermissions == On("roles", {"read", "manage", "assign"}, {"org"})

InvitationPermissions == On("invitations", {"create", "read", "cancel"}, {"none"})

ReportPermissions == On("analytics", {"view"}, {"none"}) \cup On("reports", {"export"}, {"none"})

Catalogue ==
    OrganizationPermissions \cup UserPermissions \cup EventPermissions
    \cup AttendeePermissions \cup RegistrationPermissions \cup TemplatePermissions
    \cup BadgePermissions \cup RolePermissions \cup InvitationPermissions
    \cup ReportPermissions

---------------------------------------------------------------------------
\* Roles, by code; the lower its level the more a role may do

Level == [SUPER_ADMIN |-> 0, ADMIN |-> 1, MANAGER |-> 2,
          PARTNER |-> 3, VIEWER |-> 4, HOSTESS |-> 5]

RoleCodes == DOMAIN Level

\* The roles an organisation gets a copy of; SUPER_ADMIN stays global.
OrgCodes == RoleCodes \ {"SUPER_ADMIN"}

\* rolePermissionMapping: roles.* are named without the scope their rows have.
SuperAdminMapping ==
    On("organizations", {"read", "create", "update"}, {"any"})
    \cup On("users", Edits \cup Reads, {"any"})
    \cup On("events", Edits \cup {"read", "publish"}, {"any"})
    \cup { p \in AttendeePermissions : p.scope = "any" }
    \cup On("registrations", {"read", "create", "update", "import"}, {"any"})
    \cup On("roles", {"read", "manage", "assign"}, {"none"})
    \cup InvitationPermissions \cup ReportPermissions

AdminMapping ==
    On("organizations", {"read", "update"}, {"org"})
    \cup On("users", Edits \cup Reads, {"org"})
    \cup On("events", Edits \cup {"read", "publish"}, {"org"})
    \cup { p \in AttendeePermissions : p.scope = "org" }
    \cup On("registrations", {"read", "create", "update", "import"}, {"org"})
    \cup On("badge-templates", Edits \cup Reads, {"org"})
    \cup On("badges", Edits \cup Reads, {"org"})
    \cup On("roles", {"read", "manage", "assign"}, {"none"})
    \cup InvitationPermissions \cup ReportPermissions

ManagerMapping ==
    On("organizations", Reads, {"org"})
    \cup On("users", {"read", "create", "update"}, {"org"})
    \cup On("events", {"read", "create", "update", "publish"}, {"org"})
    \cup On("attendees", {"read", "create", "checkin", "export"}, {"org"})
    \cup On("registrations", {"read", "create", "import"}, {"org"})
    \cup On("badges", Edits \cup Reads, {"org"})
    \cup On("roles", {"read", "assign"}, {"none"})
    \cup On("invitations", {"create", "read"}, {"none"})
    \cup ReportPermissions

ViewerMapping ==
    On("organizations", Reads, {"org"}) \cup On("users", Reads, {"own"})
    \cup On("events", Reads, {"org"}) \cup On("attendees", Reads, {"org"})
    \cup On("roles", Reads, {"none"}) \cup On("invitations", Reads, {"none"})
    \cup ReportPermissions

PartnerMapping ==
    On("users", Reads, {"own"}) \cup On("events", Reads, {"assigned"})
    \cup On("attendees", Reads, {"org"}) \cup On("registrations", Reads, {"org"})
    \cup On("analytics", {"view"}, {"none"})

HostessMappingWide ==
    On("users", Reads, {"own"}) \cup On("events", Reads, {"org"})
    \cup On("attendees", {"read", "checkin"}, {"org"})
    \cup On("registrations", Reads, {"org"})

HostessMapping ==
    On("users", Reads, {"own"}) \cup On("events", Reads, {"assigned"})
    \cup On("attendees", {"read", "checkin"}, {"org"})
    \cup On("registrations", Reads, {"org"})

SeededMapping ==
    [SUPER_ADMIN |-> SuperAdminMapping, ADMIN |-> AdminMapping,
     MANAGER |-> ManagerMapping, VIEWER |-> ViewerMapping,
     PARTNER |-> PartnerMapping, HOSTESS |-> HostessMapping]

\* ROLE_PERMISSIONS_MAP: what OrganizationsService.create gives a new
\* organisation's roles.  It names permissions the catalogue does not have.
FoundedAdmin ==
    On("organizations", {"read", "update"}, {"org"})
    \cup On("users", Edits \cup Reads, {"org"}) \cup On("roles", Edits \cup Reads, {"org"})
    \cup On("events", Edits \cup {"read", "publish"}, {"org"})
    \cup On("attendees", Edits \cup {"read", "export", "import"}, {"org"})
    \cup On("registrations", Edits \cup {"read", "checkin"}, {"org"})
    \cup On("badges", Edits \cup {"read", "print"}, {"org"})

FoundedManager ==
    On("organizations", Reads, {"org"}) \cup On("users", Reads, {"org"})
    \cup On("events", {"read", "create", "update", "publish"}, {"org"})
    \cup On("attendees", {"read", "create", "update", "export", "import"}, {"org"})
    \cup On("registrations", {"read", "create", "update", "checkin"}, {"org"})
    \cup On("badges", {"read", "create", "update", "print"}, {"org"})

FoundedPartner ==
    On("events", Reads, {"assigned"})
    \cup On("attendees", {"read", "create", "update"}, {"assigned"})
    \cup On("registrations", {"read", "create", "update", "checkin"}, {"assigned"})
    \cup On("badges", {"read", "print"}, {"assigned"})

FoundedViewer ==
    UNION { On(resource, Reads, {"org"}) :
            resource \in {"events", "attendees", "registrations", "badges"} }

FoundedHostess ==
    On("events", Reads, {"assigned"}) \cup On("attendees", Reads, {"assigned"})
    \cup On("registrations", {"read", "checkin"}, {"assigned"})
    \cup On("badges", {"read", "print"}, {"assigned"})

FoundedMapping ==
    [ADMIN |-> FoundedAdmin, MANAGER |-> FoundedManager, PARTNER |-> FoundedPartner,
     VIEWER |-> FoundedViewer, HOSTESS |-> FoundedHostess]

---------------------------------------------------------------------------
\* What a token may do: the ability of its role and permissions, and the guard

Verb ==
    [create |-> "create", read |-> "read", update |-> "update", delete |-> "delete",
     manage |-> "manage", assign |-> "manage", checkin |-> "update",
     export |-> "read", publish |-> "update", cancel |-> "delete", view |-> "read"]

Subject ==
    [users |-> "User", organizations |-> "Organization", events |-> "Event",
     attendees |-> "Attendee", registrations |-> "Registration", roles |-> "Role",
     invitations |-> "Invitation", analytics |-> "Analytics", reports |-> "Report"]

Rule(verb, subject) == [verb |-> verb, subject |-> subject]

\* Permissions whose action or resource it does not know count for nothing.
Ability(code, permissions) ==
    IF code \in {"SUPER_ADMIN", "ADMIN"}
      THEN { Rule("manage", "all") }
      ELSE { Rule(Verb[p.do], Subject[p.on]) :
             p \in { x \in permissions : x.do \in DOMAIN Verb /\ x.on \in DOMAIN Subject } }

\* ability.can of @casl/ability, without conditions.
Can(ability, verb, subject) ==
    \E r \in ability : r.verb \in {verb, "manage"} /\ r.subject \in {subject, "all"}

\* A route's permission, [on, do]: an action the guard does not know counts as
\* reading, a resource it does not know as everything.
RequiredVerb(do) == IF do \in DOMAIN Verb THEN Verb[do] ELSE "read"

RequiredSubject(on) ==
    IF on = "permissions" THEN "Permission"
    ELSE IF on \in DOMAIN Subject THEN Subject[on] ELSE "all"

\* PermissionsGuard: one of the permissions the route names is enough.
Passes(code, permissions, route) ==
    \E r \in route : Can(Ability(code, permissions), RequiredVerb(r.do), RequiredSubject(r.on))

Route(on, do) == { [on |-> on, do |-> do] }

---------------------------------------------------------------------------
\* The rules the front end is sent: getPolicyRules

Policy(code, permissions) ==
    IF code = "SUPER_ADMIN"
      THEN { [verb |-> "manage", subject |-> "all", within |-> "any"] }
      ELSE { [verb |-> p.do,
              subject |-> IF p.on \in DOMAIN Subject \ {"registrations"} THEN Subject[p.on] ELSE p.on,
              within |-> IF p.scope \in {"own", "org"} THEN p.scope ELSE "any"] : p \in permissions }

---------------------------------------------------------------------------
\* How far a request reaches: the scope utilities

Holds(permissions, resource, do, scope) ==
    [on |-> resource, do |-> do, scope |-> scope] \in permissions

\* Some permission on the resource has scope any.
Anywhere(permissions, resource) == \E p \in permissions : p.on = resource /\ p.scope = "any"

UserReadScope(code, permissions) ==
    IF code = "SUPER_ADMIN" \/ Holds(permissions, "users", "read", "any") THEN "any"
    ELSE IF \/ Holds(permissions, "users", "read", "org")
            \/ code \in {"ADMIN", "MANAGER"} /\ ~Holds(permissions, "users", "read", "own")
      THEN "org" ELSE "own"

UserWriteScope(code, permissions) ==
    IF code = "SUPER_ADMIN" \/ Anywhere(permissions, "users") THEN "any" ELSE "org"

EventReadScope(code, permissions) ==
    IF code = "SUPER_ADMIN" \/ Holds(permissions, "events", "read", "any") THEN "any"
    ELSE IF code = "ADMIN" \/ Holds(permissions, "events", "read", "org") THEN "org"
    ELSE "assigned"

EventWriteScope(code, permissions) ==
    IF code \in {"SUPER_ADMIN", "ADMIN"} \/ Anywhere(permissions, "events") THEN "any" ELSE "org"

AttendeeReadScope(code, permissions) ==
    IF code = "SUPER_ADMIN" \/ Holds(permissions, "attendees", "read", "any") THEN "any" ELSE "org"

AttendeeWriteScope(code, permissions) ==
    IF code = "SUPER_ADMIN" \/ Anywhere(permissions, "attendees") THEN "any" ELSE "org"

RegistrationReadScope(code, permissions) ==
    IF code = "SUPER_ADMIN" \/ Holds(permissions, "registrations", "read", "any") THEN "any" ELSE "org"

RegistrationWriteScope(code, permissions) ==
    IF code = "SUPER_ADMIN" \/ Anywhere(permissions, "registrations") THEN "any" ELSE "org"

=============================================================================
