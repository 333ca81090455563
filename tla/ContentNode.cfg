SPECIFICATION NodeSpec
CONSTANTS
  Keys = {k1}
  Threads = {t1, t2, t3}
  Configured = {TRUE, FALSE}
  None = None
INVARIANTS NodeSound OnlyVerifiedReturned RevokedNotServed
