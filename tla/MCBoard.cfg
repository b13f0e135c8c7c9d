SPECIFICATION DeskSpec
CONSTANTS
  None = None
  p = p
  q = q
  l = l
  Props = {p, q}
  Digits = 4
  Titles = {"a", "b"}
  FirstColumns <- FirstColumnsValue
  FirstCards <- FirstCardsValue
  Texts = {"a", "b"}
  LinkOf <- LinkOfValue
  FirstNotes <- FirstNotesValue
  FirstEvidence <- FirstEvidenceValue
  MaxWrites = 4
  MaxSlow = 1
  MaxNow = 1
CHECK_DEADLOCK FALSE
INVARIANTS
  BoardWhole
  EditsMeant
  NamesMeant
