SPECIFICATION Spec
CONSTANTS
  film = film
  book = book
  song = song
  note = note
  NoDoc = NoDoc
  Docs = {film, book}
  Size <- MCSize
  Quota = 2
  MaxItems = 1
  Workers = {w1}
  Scanners = {s1}
  MaxFaults = 0
INVARIANT
  Counted
CHECK_DEADLOCK FALSE
