SPECIFICATION Spec
CONSTANTS
  Fingerprint = {1, 2, 3, 4, 5, 6}
  Cve = {1}
  VulnId = {1, 2}
  Cwe = {79}
  Top25 = {79}
  Unassigned = 9
  Latest = Latest
  All = All
  NoArg = NoArg
  Absent = Absent
  Missing = Missing
  Torn = Torn
  Unreadable = Unreadable
  site = site
  artifact = artifact
  lib = lib
  Asset0 = artifact
  Client = {c1, c2}
  NoClient = NoClient
  Place <- MCPlace
  HostOf <- MCHostOf
  PluginOf <- MCPluginOf
  CriticalityOf <- MCCriticalityOf
  SourceOf <- MCSourceOf
  TitleOf <- MCTitleOf
  PortOf <- MCPortOf
  CategoryOf <- MCCategoryOf
  SbomSource <- MCSbomSource
  TrivySource <- MCTrivySource
  GrypeSource <- MCGrypeSource
  Path <- MCPath
  Command <- MCCommand
  ScanResult <- MCScanResult
  OwnerFor <- MCOwnerFor
  TagsFor <- MCTagsFor
INVARIANTS
  TypeOK
  ReportsCanonical
  OwnerSlicesPartition
  TrendAddsUp
  JUnitTellsTheVerdict
  DocumentsAgree
  PlanCoversReport
PROPERTIES
  MergeLosesNothing
  MergeTwiceIsOnce
