\* A text message with an email to fall back to; an email, which an administrator
\* manages; a run that may stop and one that does not; three claims of a row, the
\* least that reaches the fallback.
CONSTANTS
  None = None
  Rows = {"text", "mail"}
  SmsRows = {"text"}
  WithEmail = {"text"}
  Workers = {"w1", "w2"}
  Admins = {"a"}
  SmsSettings = {TRUE, FALSE}
  BatchSize = 2
  MaxAttempts = 3
  Mortal = {"w1"}
  Managed = {"mail"}
SPECIFICATION Spec
INVARIANT DeliveriesAccounted
PROPERTIES SendingStands BatchWorkedOff
