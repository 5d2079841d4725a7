\* Every way to cut streams of three frames; dumps section by section.
CONSTANTS
  MAGIC_END = 2
  SIZE_SEEN = 3
  HDR_LEN = 4
  MaxSize = 6
  Streams <- SmallStreams
  KEYITEM_TABLES = 2
  KEYITEM_BITS_PER_TABLE = 8
  KEYITEM_TABLE_BITS = 16
  WORD = 2
  QuestArea = {"Jeuno", "AhtUrghan"}
  AhtUrghan = "AhtUrghan"
  JP_CATEGORIES = 2
  MaxJob = 3
  Gil = 0
  Temporary = 3
  Storage = 2
  ColumnOf <- Columns
  STORAGE_DEFAULTS <- Defaults
  STORAGE_MAX = 3
  CRAFT_SKILL_BASE = 4
  MAX_SPELL_ID = 4
  LEARNED_ABILITIES <- Rolls
  WS_UNLOCKS <- Unlocks
  HOMEPOINTS <- Points
  MAX_TITLE = 10
  Dumps <- AllDumps
SPECIFICATION Spec
INVARIANTS CutsDoNotMatter NothingSilentlyLost EquippedIsOwned FlagsInPlace SilenceErasesNothing
CHECK_DEADLOCK FALSE
