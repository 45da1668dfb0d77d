-------------------------- MODULE MCDockerManager --------------------------
(* Two services whose container names overlap, as om1 and om1_sensor do.   *)
EXTENDS DockerManager

CONSTANTS om1, om1_sensor

HostContainers == {om1, om1_sensor}
SimilarNames == {<<om1, om1_sensor>>}
=============================================================================
