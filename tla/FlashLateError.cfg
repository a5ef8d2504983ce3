SPECIFICATION FairSpec
CONSTANTS
  FlashWord = 2
  ADDR_FLASH_SECTOR <- Sectors6
  LastSector = 2
  FlashEnd = 12
  Zero = Zero
  Blank = Blank
  Corrupt = Corrupt
  Data <- Words
  HeadData <- HeadWords
  OldData <- Words
  FLASH_APP1_ADDR_0 = 2
  MaxWords = 4
  Faults = {"program", "written"}
  Limit = 12
PROPERTIES
  StoredKept
