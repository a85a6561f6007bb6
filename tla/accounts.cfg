\* Two people, two clients: registrations and new organizations that meet at an address or a slug.
SPECIFICATION AccountsSpec
CONSTANTS
  ann = ann
  root = root
  Emails = {ann, root}
  Names = {"Workspace"}
  BaseSlug <- MCBaseSlug
  Clients = {1, 2}
  ScriptEmail = root
  Fallback = {root}
  NoUser = NoUser
  MaxOrgs = 2
  Offers <- MCOffers
  MaxUpsets = 2
INVARIANTS
  AccountsTypeOK
  OwnedOrganizations
  SlugsDense
PROPERTIES
  RequestAnswered
