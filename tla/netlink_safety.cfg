\* Two workers and one other program.
SPECIFICATION Spec
CONSTANTS
  w1 = w1  w2 = w2
  Workers = {w1, w2}
  NoWorker = NoWorker
  Names = {can0, vcan0}
  CanNames = {can0}
  Rates = {1, 2}
  MaxOutside = 1
SYMMETRY WorkerSymmetry
INVARIANTS TypeOK SuccessIsTrue FailedBitrateIsDown CreateIsThere
PROPERTY Implements
