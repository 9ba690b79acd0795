\* Every page, two requests of the user in flight, one row.
SPECIFICATION Spec
CONSTANTS
  None = None
  Pages = {"jobs", "messages", "logs", "sending", "admins", "users", "domains", "mailboxes", "keys", "emails", "account", "mails", "import", "inbox", "settings", "overview", "session"}
  MaxCalls = 2
  Rows = {r1}
  Filters = {None, f1}
  TwoFactor = TRUE
  MaxLines = 3
  Accounts <- MCAccounts
  MaxVersion = 2
INVARIANTS QuietIsIdle LatestShown MailOfClick MailboxOnce StoreHasCookie
CHECK_DEADLOCK FALSE
