SPECIFICATION AuditSpec
CONSTANTS
  Body = {b1, b2}
  MaxLines = 3
SYMMETRY Symmetry
INVARIANTS ChainUnbroken LossIsDetected KeptLinesVouch RelayVouches
