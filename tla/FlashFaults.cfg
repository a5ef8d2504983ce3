SPECIFICATION FairSpec
CONSTANTS
  FlashWord = 2
  ADDR_FLASH_SECTOR <- Sectors4
  LastSector = 2
  FlashEnd = 14
  Zero = Zero
  Blank = Blank
  Corrupt = Corrupt
  Data <- Words
  HeadData <- Words
  OldData <- Words
  FLASH_APP1_ADDR_0 = 4
  MaxWords = 3
  Faults = {"erase", "program", "written"}
  Limit = 14
PROPERTIES
  BootloaderKept
