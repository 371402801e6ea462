\* Three packages in four versions; each attempt at a download, and each step of
\* an installation, may fail.
CONSTANTS
  Slugs <- AllSlugs
  Names <- AllNames
  Versions <- AllVersions
  Master = "master"
  NoVersion = "none"
  Root <- App
  Servers <- AllServers
  Failed = 1
  Asked = "asked"
SPECIFICATION Spec
INVARIANTS
  TypeOK
  TreeCovered
  InstalledOnce
  DepthBounded
  FreedOnce
  NoUseAfterFree
PROPERTIES
  InstallReturns
