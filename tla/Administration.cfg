SPECIFICATION Spec
\* An installation that has lost its last super-admin stops.
CHECK_DEADLOCK FALSE
CONSTANTS
    LocalNames = {admin, dan}
    SsoNames = {sam}
    Groups = {g}
    Capabilities = {manage, create}
    ManageUsers = manage
    ManageRoles = manage
    ManageSso = manage
    Admin = admin
    MaxRoles = 3
    MaxMappings = 1
    MaxProviders = 2
    MaxRequests = 4
    Same = Same
VIEW MCView
PROPERTIES
    LastSuperAdminKept
    ChecksSuffice
    AuthorityKept
