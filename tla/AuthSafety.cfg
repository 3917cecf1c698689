\* Two Registers, a Login and two Telegram logins; the fourth user id does
\* not fit a token.
SPECIFICATION Spec
CONSTANTS
  Registers = {r1, r2}
  Logins = {l1}
  Telegrams = {b1, b2}
  Emails = {e1, e2}
  TgIDs = {t1}
  Passwords = {p1, p2}
  Profiles = {f1, f2}
  MaxUint32 = 3
  None = None
SYMMETRY Symmetry
INVARIANTS
  UsersAreOwners
  TokensNameTheOwner
  OneRegistrationPerEmail
  WaitingEnds
PROPERTIES
  OwnersAreStable
