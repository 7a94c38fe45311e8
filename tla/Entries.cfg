\* A 64-bit platform (int as wide as ParseInt's result) and a struct of supported field types.
CONSTANTS
  AttrNames <- MCAttrNames
  ValueLists <- MCValueLists
  WireLists <- MCWireLists
  MaxAttrs = 2
  DNVal = 50
  NonNumeric = {50, 99}
  DNTag <- dn
  Fields <- UserFields
  ParseBits = 6
  IntBits = 6
SPECIFICATION Spec
INVARIANT TypeOK
INVARIANT NewEntryLookups
INVARIANT UnmarshalFaithful
INVARIANT UnmarshalErrorKeepsPrefix
