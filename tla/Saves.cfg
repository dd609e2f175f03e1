SPECIFICATION Spec
CONSTANTS
  meta = meta
  late = late
  locked = locked
  root = root
  chest = chest
  Root = root
  Chest = chest
  Items = {ore}
  Box = box
  NoItem = noitem
  Metadata = meta
  ChestData = chestmeta
  Later = late
  Identifier <- Identifiers
  Tags = {locked}
  Reasons = {"Moving", "Deletion"}
  Denies <- DeniedReasons
  MaxKey <- Sizes
  MaxEdits = 2
INVARIANTS
  TagsStayOnTheirItem
PROPERTIES
  LoadRestoresData
CHECK_DEADLOCK FALSE
