SPECIFICATION FairSpec
CONSTANTS
  om1 = om1
  om1_sensor = om1_sensor
  Containers <- HostContainers
  Similar <- SimilarNames
  Faults = {"fail", "timeout", "err"}
INVARIANTS TypeOK NotFailedMeansAchieved
PROPERTIES CallContract GracefulFirst CallsReturn
