SPECIFICATION Spec
CONSTANTS
  FloatExact = 16777216
  MaxSize = 33554432
  InitialBuckets = 16777200
  M_bucket_choices <- DefaultChoices
INVARIANT GrowthMakesRoom
