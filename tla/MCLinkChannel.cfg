SPECIFICATION Spec
CONSTANTS
  HalfModulus = 4
  Window = 3
  MaxLead = 8
  MaxAge = 4
  MaxSent = 10
CONSTRAINT Bounded
INVARIANTS RingHoldsBack
PROPERTIES StreamSpec KeepsWhatItAccepts
CHECK_DEADLOCK FALSE
