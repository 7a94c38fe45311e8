\* A 32-bit platform: int is narrower than ParseInt's 64-bit result.
CONSTANTS
  AttrNames <- MCAttrNames
  ValueLists <- MCValueLists
  WireLists <- MCWireLists
  MaxAttrs = 2
  DNVal = 50
  NonNumeric = {50, 99}
  DNTag <- dn
  Fields <- UserFields
  ParseBits = 6
  IntBits = 4
SPECIFICATION Spec
INVARIANT UnmarshalFaithful
