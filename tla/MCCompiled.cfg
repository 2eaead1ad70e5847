SPECIFICATION FairSpec
CONSTANTS
  Kind <- Logic
  MaxId = 6
  MaxWidth = 1
  Circuits <- Compilable
  Fresh = {0, 1, 2}
  MaxGroups = 8
INVARIANTS TypeOK ScheduleCovers ReadsTheSynchronousValue
PROPERTIES ImplementsSync ScheduleEnds
