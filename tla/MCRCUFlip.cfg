CONSTANTS
  Readers = {r1, r2, r3}
  Writers = {w1, w2}
SPECIFICATION Spec
SYMMETRY Symmetry
INVARIANTS IInv GracePeriodOver
PROPERTIES ImplementsPromise
