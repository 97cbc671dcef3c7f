-------------------------- MODULE AccessCatalogue --------------------------
(***************************************************************************)
(* The authorization catalogue platform-api seeds: the permissions of the  *)
(* platform and of the modules, and the roles that bundle them.  A module  *)
(* permission is written <<resource, action>>.                             *)
(***************************************************************************)

\* Platform roles, PlatformRole, and the two that administer.
Roles == {"PLATFORM_USER", "PLATFORM_ADMIN", "SUPER_ADMIN"}

AdminRoles == {"PLATFORM_ADMIN", "SUPER_ADMIN"}

PlatformCatalogue ==
  {"access", "manage_users", "manage_admins", "manage_modules",
   "manage_roles", "manage_client_scopes", "view_audit"}

PlatformPermissions ==
  [r \in Roles |->
    CASE r = "SUPER_ADMIN"    -> PlatformCatalogue
      [] r = "PLATFORM_ADMIN" -> PlatformCatalogue \ {"manage_admins", "manage_roles"}
      [] OTHER                -> {}]

\* DijiTalentFlow.  Two permissions are retired: in the catalogue, in no role.
TalentCatalogue ==
  {<<"workspace", "staff">>, <<"dashboard", "read_own">>, <<"dashboard", "read">>,
   <<"clients", "read">>}
  \cup ({"requests"} \X {"read_own", "read", "create", "update", "review"})
  \cup ({"candidates"} \X {"read_client_safe", "read", "manage"})
  \cup ({"applications"} \X {"read", "create", "update"})
  \cup ({"interviews"} \X {"read_own", "read", "manage"})
  \cup ({"messages", "documents"} \X {"read_own", "read", "create"})

TaMemberPermissions ==
  {<<"workspace", "staff">>, <<"dashboard", "read">>, <<"clients", "read">>,
   <<"candidates", "read">>}
  \cup ({"requests"} \X {"read", "update"})
  \cup ({"applications"} \X {"read", "create", "update"})
  \cup ({"interviews"} \X {"read", "manage"})
  \cup ({"messages", "documents"} \X {"read", "create"})

TalentRoles == {"TALENT_CLIENT", "TA_MEMBER", "CUSTOMER_SUCCESS", "TA_MANAGER"}

TalentPermissions ==
  [r \in TalentRoles |->
    CASE r = "TALENT_CLIENT" ->
           {<<"candidates", "read_client_safe">>}
           \cup ({"dashboard", "requests", "interviews", "messages", "documents"} \X {"read_own"})
           \cup ({"messages", "documents"} \X {"create"})
      [] r = "TA_MEMBER" -> TaMemberPermissions
      [] OTHER           -> TaMemberPermissions \cup {<<"requests", "review">>}]

\* DijiBirthday
BirthdayCatalogue ==
  ({"dashboard"} \X {"read"})
  \cup ({"orders"} \X {"read", "create", "update", "hold_release", "cancel",
                       "send_supplier", "verify", "review", "delete"})
  \cup ({"suppliers"} \X {"read", "manage"})
  \cup ({"config"} \X {"manage"})
  \cup ({"portal"} \X {"access", "respond"})

BirthdayRoles == {"BIRTHDAY_USER", "BIRTHDAY_ADMIN", "BIRTHDAY_SUPPLIER"}

BirthdayPermissions ==
  [r \in BirthdayRoles |->
    CASE r = "BIRTHDAY_USER"  -> {"dashboard", "orders", "suppliers"} \X {"read"}
      [] r = "BIRTHDAY_ADMIN" -> BirthdayCatalogue \ ({"portal"} \X {"access", "respond"})
      [] OTHER                -> {"portal"} \X {"access", "respond"}]

\* seed_authorization_catalog looks every permission of a role up in the
\* catalogue and fails on one that is not there.
ASSUME CatalogueAssumption ==
  /\ \A r \in Roles : PlatformPermissions[r] \subseteq PlatformCatalogue
  /\ \A r \in TalentRoles : TalentPermissions[r] \subseteq TalentCatalogue
  /\ \A r \in BirthdayRoles : BirthdayPermissions[r] \subseteq BirthdayCatalogue
=============================================================================
