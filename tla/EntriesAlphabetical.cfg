\* NewEntry on a map whose keys are in both cases ("ID", "cn", "uid"): the
\* comment promises alphabetical order, sort.Strings gives byte order.
CONSTANTS
  AttrNames <- MCAttrNamesMixed
  ValueLists <- MCValueLists
  WireLists <- MCWireLists
  MaxAttrs = 2
  DNVal = 50
  NonNumeric = {50, 99}
  DNTag <- dn
  Fields <- UserFields
  ParseBits = 6
  IntBits = 6
SPECIFICATION Spec
INVARIANT NewEntryAlphabetical
