SPECIFICATION Spec
INVARIANTS
  BytesAreForwarded
  PortTablesAgree
PROPERTIES
  EndsWithItsSides
  RequestsAndClientsAreServed
CHECK_DEADLOCK FALSE
