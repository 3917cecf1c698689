\* Two handlers, two comics; with a TTL of two ticks a press between two ticks
\* keeps the cache in use.
SPECIFICATION LiveSpec
CONSTANTS
  Tasks = {t1, t2}
  Comics = {c1, c2}
  CacheTTL = 2
INVARIANTS
  CacheIsRight
PROPERTIES
  CacheHeals
