CONSTANTS
  Cmd = {kill, cmd}
  Exec = {cmd}
  MaxRecords = 1
  MaxRestarts = 1
  MaxStarts = 2
SPECIFICATION MCSpec
INVARIANTS
  OnceUntilForgotten
  RunsAreRecorded
  ReadyIsTrue
