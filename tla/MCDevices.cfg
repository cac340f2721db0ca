\* One process sleeps on the clock; two write to the console; three requests.
CONSTANTS p1 = p1  p2 = p2  a1 = a1  a2 = a2  a3 = a3  None = None
SPECIFICATION Spec
INVARIANTS InOrder SleepsLongEnough
PROPERTIES OutputDrains KilledReturns RequestsReturn
