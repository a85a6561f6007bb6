\* Two people whose organizations want the same slug, one of them made an administrator.
SPECIFICATION Spec
CONSTANTS
  ann = ann
  root = root
  web = web
  Emails = {ann, root}
  Names = {"Workspace"}
  BaseSlug <- MCBaseSlug
  Clients = {web}
  ScriptEmail = root
  Fallback = {root}
  NoUser = NoUser
  NoData = NoData
  Web = web
  MaxOrgs = 2
  Offers <- MCOffers
  MaxUpsets = 1
  MaxClicks = 1
INVARIANTS
  OrgOfUser
  ChangeShown
PROPERTIES
  DemotedLeaves
