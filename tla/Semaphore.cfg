\* The three threads of the program, and one more: two can sleep while a third
\* notifies and a fourth barges in.  No symmetry, as the run checks liveness.
SPECIFICATION FairSpec
CONSTANTS
  Threads = {rest, ous, obs, extra}
  NoThread = NoThread
INVARIANTS MutualExclusion NoLostWakeup
PROPERTIES ImplementsLock Progress
