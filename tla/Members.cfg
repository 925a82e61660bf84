SPECIFICATION Spec
CONSTANTS
  Members = {owner, m1}
  Owner = owner
  Requests = {r1, r2}
  Nothing = nothing
  RedisFails = TRUE
  RoleSets = {{"agent"}, {"tenant_admin"}}
  MaxChanges = 3
SYMMETRY Symmetric
INVARIANTS TypeOK OwnerIsAdmin RolesDistinct StaleExplained
PROPERTIES LifeCycleKept
