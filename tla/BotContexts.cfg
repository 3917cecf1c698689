\* Two handlers at once, two messages, room for one context or for two.
SPECIFICATION Spec
CONSTANTS
  Handlers = {h1, h2}
  MaxComic = 2
  MaxSessions = 2
  MaxMessages = 2
SYMMETRY Symmetric
CHECK_DEADLOCK FALSE
INVARIANTS
  ScreenMatchesContext
  ContextsAreSeparate
