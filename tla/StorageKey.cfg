SPECIFICATION Spec
CONSTANTS
  None = None
  Invalid = Invalid
  Strings <- SomeStrings
  Headers <- SomeHeaders
  Digit <- Digits
  AlphaNumeric <- Letters
  MAX_KEY_LENGTH = 6
  MAX_NAMESPACE_LENGTH = 2
INVARIANTS
  StoreAcceptsKey
  NamespacesIsolated
  
