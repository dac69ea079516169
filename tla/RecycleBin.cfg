SPECIFICATION FairSpec
CONSTANTS
  film = film
  book = book
  song = song
  note = note
  NoDoc = NoDoc
  Docs = {film, book, note}
  Size <- MCSize
  Quota = 2
  MaxItems = 2
  Workers = {w1, w2}
  Scanners = {s1}
  MaxFaults = 1
INVARIANTS
  Kept
  OnePlace
  Charged
PROPERTIES
  Destroyed
CHECK_DEADLOCK FALSE
