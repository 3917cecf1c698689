\* A word of three bits: 8 is cut to 0, 9 to 1, 5 to a negative number.
SPECIFICATION Spec
CONSTANTS
  Updates = {u1}
  Drops = {d1}
  MaxID = 1
  Rows = {row}
  Absent = Absent
  None = None
  Users = {alice, bob}
  Calls = {c1, c2}
  Asked = {1, 5, 8, 9}
  Word = 8
SYMMETRY Symmetric
INVARIANTS
  SavedWasListed
  AnswersBalance
