\* The native service and the detached collector, two commands at a time.
SPECIFICATION Spec
CONSTANTS
  Cmd = {1, 2}
  None = None
  Burst = 2
  MaxFaults = 1
  Program = {"ensure", "newer", "setup", "force", "remove", "removeForce", "maintain"}
  Machines <- MCMachines
INVARIANT EndsAsReported
PROPERTIES AdoptionBounded Collects
CHECK_DEADLOCK FALSE
