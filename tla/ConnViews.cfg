SPECIFICATION Spec
CONSTANTS
  Addrs <- OneAddr
  MaxChanges = 2
INVARIANTS Detached AddressKept MapsAgree
