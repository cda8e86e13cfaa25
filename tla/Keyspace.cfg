SPECIFICATION Spec
CONSTANTS
  Keys <- MCKeys
  MinInt <- MCMinInt
  MaxInt <- MCMaxInt
  MinCount <- MCMinInt
  MaxCount <- MCMaxInt
  MaxIndex = 3
  MaxTime = 2
  MaxSize = 2
  MaxMem = 8
  Cap = 3
  Families <- AllFamilies
INVARIANT MemExact
PROPERTIES OneReply WritesAreTouched ErrorsChangeNothing RebornKeysAreFresh MemoryBounded
VIEW Tables
