SPECIFICATION Spec
CONSTANTS
  FindingDefinitions <- FindingDefinitions_MC
  TopStatistics = 3
  NumberOf <- NumberOf_MC
  RankOf <- RankOf_MC
  LocaleRank <- RankOf_MC
  CsvHeaders <- Header
  MinCells = 2
  NoDays = NoDays
  SuiteCap = 1
  NaN = NaN
  HostCap = 2
  TopCap = 2
  ExposureCap = 2
  Reports <- AllScans
  Queries <- SomeQueries
  Severities = {"all", "medium"}
  Compliances = {"all", "compliant"}
  HostSorts = {"severity", "score", "grade"}
  CertificateStates = {"all", "Expired"}
  CertificateSorts = {"expiration", "issuer"}
  MaxEvents = 4
CHECK_DEADLOCK FALSE
INVARIANTS TablesShowTheirState HostCardsTell OverviewAgrees CsvReadsBack
PROPERTIES LinkLandsOnCard
