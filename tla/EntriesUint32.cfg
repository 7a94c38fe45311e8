\* A struct with a field of a type Unmarshal does not support (uint32).
CONSTANTS
  AttrNames <- MCAttrNames
  ValueLists <- MCValueLists
  WireLists <- MCWireLists
  MaxAttrs = 2
  DNVal = 50
  NonNumeric = {50, 99}
  DNTag <- dn
  Fields <- UserFieldsUint32
  ParseBits = 6
  IntBits = 6
SPECIFICATION Spec
INVARIANT UnmarshalFaithful
