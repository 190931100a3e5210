SPECIFICATION Spec
CONSTANTS
  Ids <- MCIds
  MaxSent = 2
INVARIANT OneBucketPerRoute
INVARIANT AnotherCallOnlyWithoutEmoji
