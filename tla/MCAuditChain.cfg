\* More events than queue places, a crash at every step and fewer faults
\* than events: a full queue, a failed append with a later success and a
\* recovery from each kind of file end all occur.
SPECIFICATION FairSpec
CONSTANTS
  Event = {e1, e2, e3}
  Unserialisable = {}
  Modes = {"best_effort", "required"}
  QueueBound = 2
  SinkFaults = {"unwritten"}
  MaxFaults = 2
  MaxBoots = 3

  
PROPERTIES
  ImplementsTrail
  EventsAreSettled
CHECK_DEADLOCK FALSE
