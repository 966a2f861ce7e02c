SPECIFICATION MCSpec
CONSTANTS
  Client = {c1, c2}
  NoClient = NoClient
  free_pages = 9
  user_page_limit = 2
  MaxCnt = 3
  MaxShared = 2
SYMMETRY Clients
INVARIANTS PagesExact FitsRight
PROPERTY NextFit
