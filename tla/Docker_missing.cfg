SPECIFICATION Spec
CONSTANTS
  om1 = om1
  om1_sensor = om1_sensor
  Containers <- HostContainers
  Similar <- SimilarNames
  Faults = {}
INVARIANT MissingIsSkipped
