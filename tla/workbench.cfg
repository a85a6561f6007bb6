\* A tab that uploads twice, edits and exports, beside another client of the organization.
SPECIFICATION Spec
CONSTANTS
  Files = {"a", "b"}
  Flawed = {"b"}
  NoFile = NoFile
  Titles = {"typed"}
  Vendors = {"sent"}
  Raw = "raw"
  NoData = NoData
  MaxImports = 2
  MaxExports = 1
  MaxUpsets = 1
INVARIANTS
  WorkbenchTypeOK
  EditsKept
  SaveShown
  UploadsAccounted
  DownloadFound
PROPERTIES
  PagesCatchUp
