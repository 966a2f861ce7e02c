SPECIFICATION Spec
CONSTANTS
  Client = {c1}
  NoClient = NoClient
  free_pages = 9
  user_page_limit = 3
  MaxCnt = 3
INVARIANT BuddyBlocks
