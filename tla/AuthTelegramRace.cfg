\* Two first logins of one Telegram user at once.
SPECIFICATION Spec
CONSTANTS
  Registers = {r1}
  Logins = {l1}
  Telegrams = {b1, b2}
  Emails = {e1, e2}
  TgIDs = {t1}
  Passwords = {p1, p2}
  Profiles = {f1, f2}
  MaxUint32 = 3
  None = None
INVARIANTS
  TelegramRaceFallsBack
