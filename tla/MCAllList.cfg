SPECIFICATION AllListSpec
CONSTANTS
  List = {"all_list"}
  all_list = "all_list"
  Elem = {"main", "t1", "t2", "t3"}
  initial_thread = "main"
  head <- HeadNode
  tail <- TailNode
  NULL = "NULL"
  key <- NoKeys
INVARIANT AllListed
CHECK_DEADLOCK FALSE
