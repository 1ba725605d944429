\* One module from construction to its end: security types none, VNC
\* password, MS-Logon, explicit rejection and an unknown code; two password
\* submissions; a server that answers requests and sends palette,
\* clipboard, unknown and closing messages.
CONSTANTS
  SecurityTypes <- MCSecurityTypes
  IsSocketTransport = TRUE
  ServerMessages = {"palette", "cuttext", "unknown", "closed"}
  MaxOutstanding = 2
  MaxConnects = 2
  MaxInbox = 2
SPECIFICATION FairSpec
INVARIANT TypeOK
INVARIANT AlwaysRequesting
 
\* The module stops for good once it has signalled BACK_EVENT_NEXT or
\* thrown, or while it waits for a password nobody submits.
CHECK_DEADLOCK FALSE
