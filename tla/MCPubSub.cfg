CONSTANTS
  c1 = c1
  c2 = c2
  Clients <- MCClients
  MaxIds = 3
SYMMETRY MCSymmetry
SPECIFICATION Spec
INVARIANTS
  TypeOK
  UnsubscribeRemovesAtMostOne
  AtMostOneTrue
