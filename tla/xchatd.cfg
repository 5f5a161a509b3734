SPECIFICATION FairSpec
CONSTANTS
  Conns = {c1, c2}
  Users = {sysop, u}
  Sysops = {sysop}
  Guests = {}
  Rooms = {main, a}
  Main = main
  ChatIds = {x, y}
  None = none
  MaxLines = 2
  MaxOob = 1
INVARIANTS ChattersAgree KickIsSafe
PROPERTIES PrivilegesEnd UnnamedLeaves
