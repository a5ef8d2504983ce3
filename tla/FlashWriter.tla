---------------------------- MODULE FlashWriter ----------------------------
(***************************************************************************)
(* Src/stmflash.c: STMFLASH_Write, one hardware operation at a time.       *)
(*                                                                         *)
(* The unit of address is the 32-bit word STMFLASH_ReadWord reads; address *)
(* 0 is STM32_FLASH_BASE.  A flash word of FlashWord such words (eight on  *)
(* the STM32H7) is what HAL_FLASH_Program programs, a sector is what       *)
(* HAL_FLASHEx_Erase erases.  Words that are not erased are Data, or       *)
(* Corrupt when a flash word was programmed twice without an erase (its    *)
(* ECC no longer matches).  The caller's buffer goes on behind the words   *)
(* it asked to write (uint32_t data_buffer[512] in wrq_recv_callback, zero *)
(* behind the payload), so the last flash word is padded with Zero.        *)
(***************************************************************************)
EXTENDS Integers, Sequences

CONSTANTS
  FlashWord,     \* 32-bit words in a flash word
  ADDR_FLASH_SECTOR, \* first word of each sector of bank 1, then of bank 2
  LastSector,    \* number of the last sector of bank 1
  FlashEnd,      \* first word behind bank 2
  Data, Blank, Zero, Corrupt,   \* contents of a word; Blank is 0xFFFFFFFF
  HeadData,      \* words an image may carry at the head of a sector
  OldData,       \* words the flash may hold at power-on
  FLASH_APP1_ADDR_0, \* initial value of FLASH_APP1_ADDR
  MaxWords,      \* words in a full TFTP block
  Faults,        \* errors the hardware may report: of an "erase", of a
                 \* "program" operation before it writes, or after ("written")
  Limit          \* bound: no call writes at or behind this address

Sectors == 0 .. LastSector
Addr    == 0 .. FlashEnd - 1
Word    == Data \cup {Blank, Corrupt}
Bank2   == ADDR_FLASH_SECTOR[LastSector + 1]

(* a is the address of a flash word *)
Aligned(a) == \E k \in 0 .. a : a = k * FlashWord

ASSUME GeometryAssumption ==
  /\ FlashWord \in Nat \ {0}
  /\ LastSector \in Nat
  /\ FlashEnd \in Nat
  /\ MaxWords \in Nat \ {0}
  /\ ADDR_FLASH_SECTOR \in [0 .. LastSector + 1 -> Nat]
  /\ ADDR_FLASH_SECTOR[0] = 0
  /\ \A s, r \in 0 .. LastSector + 1 :
        s < r => ADDR_FLASH_SECTOR[s] < ADDR_FLASH_SECTOR[r]
  /\ \A s \in 0 .. LastSector + 1 : Aligned(ADDR_FLASH_SECTOR[s])
  /\ \A a \in Addr : \E s \in Sectors :
        /\ ADDR_FLASH_SECTOR[s] <= a
        /\ s < LastSector => a < ADDR_FLASH_SECTOR[s + 1]
  /\ \E s \in Sectors \ {0} : FLASH_APP1_ADDR_0 = ADDR_FLASH_SECTOR[s]
  /\ Bank2 <= FlashEnd
  /\ Limit \in FLASH_APP1_ADDR_0 .. FlashEnd /\ Aligned(Limit)

ASSUME DataAssumption ==
  /\ Corrupt \notin Data /\ Blank # Corrupt
  /\ Zero \in Data /\ Zero # Blank
  /\ HeadData \subseteq Data
  /\ OldData \subseteq Word
  /\ Faults \subseteq {"erase", "program", "written"}

(* What STMFLASH_Write relies on but does not see to: images without an    *)
(* erased word at a sector head, erases that succeed, uploads in bank 1.   *)
Careful ==
  /\ Blank \notin HeadData
  /\ "erase" \notin Faults
  /\ Limit <= Bank2

VARIABLES
  flash,         \* contents of the flash
  WriteAddr,     \* *WriteAddr, the global FLASH_APP1_ADDR
  pc,            \* "idle", "scan" (lines 52-66) or "program" (lines 71-81)
  addrx,         \* the word the scan looks at
  endaddr,       \* first word behind the words to write
  pBuffer,       \* what is left of the caller's buffer, in whole flash words
  lateError      \* history: some program operation reported an error after
                 \* it had written (what it wrote outlives a reset)

vars == <<flash, WriteAddr, pc, addrx, endaddr, pBuffer, lateError>>

-----------------------------------------------------------------------------
(* stmflash.c:14-24.  Every address behind the head of sector 7 is in      *)
(* sector 7, those of bank 2 included.                                     *)
SectorOffByOne(a) ==  \* mutant: <= for < in the comparisons
  IF a <= ADDR_FLASH_SECTOR[1] THEN 0
  ELSE CHOOSE s \in Sectors :
          /\ ADDR_FLASH_SECTOR[s] < a
          /\ s < LastSector => a <= ADDR_FLASH_SECTOR[s + 1]

STMFLASH_GetFlashSector(a) ==
  CHOOSE s \in Sectors :
     /\ ADDR_FLASH_SECTOR[s] <= a
     /\ s < LastSector => a < ADDR_FLASH_SECTOR[s + 1]

SectorWords(s) == ADDR_FLASH_SECTOR[s] .. ADDR_FLASH_SECTOR[s + 1] - 1

Heads == {ADDR_FLASH_SECTOR[s] : s \in Sectors}

(* The words the next HAL_FLASH_Program writes. *)
Target == WriteAddr .. WriteAddr + FlashWord - 1

(* The flash with the first flash word of the buffer programmed at         *)
(* WriteAddr, whatever is there.                                           *)
Programmed ==
  [a \in Addr |-> IF a \notin Target THEN flash[a]
                 ELSE IF \A b \in Target : flash[b] = Blank
                      THEN pBuffer[a - WriteAddr + 1]
                      ELSE Corrupt]

(* An image whose words at sector heads all belong to HeadData. *)
HeadsOK(buf) ==
  \A i \in 1 .. Len(buf) : WriteAddr + i - 1 \in Heads => buf[i] \in HeadData

(* k flash words hold n words and no fewer do. *)
Holds(k, n) == k * FlashWord \in n .. n + FlashWord - 1

-----------------------------------------------------------------------------
(* What may be in the flash at power-on: sectors 1.. are erased or hold an *)
(* image that starts at the head of the sector.                            *)
NoGap(f) ==
  \A s \in Sectors :
     f[ADDR_FLASH_SECTOR[s]] = Blank => \A a \in SectorWords(s) : f[a] = Blank

Init ==
  /\ flash \in {f \in [Addr -> OldData] :
                   /\ NoGap(f)
                   /\ \A a \in 0 .. FLASH_APP1_ADDR_0 - 1 : f[a] # Blank}
  /\ WriteAddr = FLASH_APP1_ADDR_0
  /\ pc = "idle"
  /\ addrx = 0
  /\ endaddr = 0
  /\ pBuffer = << >>
  /\ lateError = FALSE

(* STMFLASH_Write(&FLASH_APP1_ADDR, data_buffer, n) is entered; the n      *)
(* words and the zeros behind them lie in k flash words.                   *)
Call(n, k, buf) ==
  /\ pc = "idle"
  /\ WriteAddr + n <= Limit
  /\ \A i \in n + 1 .. k * FlashWord : buf[i] = Zero
  /\ HeadsOK(buf)
  /\ pBuffer' = buf
  /\ addrx' = WriteAddr
  /\ endaddr' = WriteAddr + n
  /\ pc' = "scan"
  /\ UNCHANGED <<flash, WriteAddr, lateError>>

ScanBackwards ==  \* mutant: the address moves the wrong way
  /\ pc = "scan" /\ addrx < endaddr
  /\ flash[addrx] = Blank
  /\ addrx' = addrx - 1
  /\ UNCHANGED <<flash, WriteAddr, pc, endaddr, pBuffer, lateError>>

ScanStays ==  \* mutant: the address is not advanced
  /\ pc = "scan" /\ addrx < endaddr
  /\ flash[addrx] = Blank
  /\ UNCHANGED vars

(* Line 64: the word is erased, look at the next one. *)
ScanBlank ==
  /\ pc = "scan" /\ addrx < endaddr
  /\ flash[addrx] = Blank
  /\ addrx' = addrx + 1
  /\ UNCHANGED <<flash, WriteAddr, pc, endaddr, pBuffer, lateError>>

(* Lines 54-62: the word is not erased, erase the sector it is in. *)
EraseSector ==
  /\ pc = "scan" /\ addrx < endaddr
  /\ flash[addrx] # Blank
  /\ flash' = [a \in Addr |->
                 IF a \in SectorWords(STMFLASH_GetFlashSector(addrx))
                 THEN Blank ELSE flash[a]]
  /\ UNCHANGED <<WriteAddr, pc, addrx, endaddr, pBuffer, lateError>>

(* Line 61: HAL_FLASHEx_Erase reports an error, whose flags it clears: the *)
(* wait of line 68 succeeds and the loop of line 71 programs all the same. *)
EraseFails ==
  /\ "erase" \in Faults
  /\ pc = "scan" /\ addrx < endaddr
  /\ flash[addrx] # Blank
  /\ pc' = "program"
  /\ UNCHANGED <<flash, WriteAddr, addrx, endaddr, pBuffer, lateError>>

ScanStopsEarly ==  \* mutant: the last word is not looked at
  /\ pc = "scan" /\ addrx >= endaddr - 1
  /\ pc' = "program"
  /\ UNCHANGED <<flash, WriteAddr, addrx, endaddr, pBuffer, lateError>>

(* Line 52: the whole range is erased. *)
ScanDone ==
  /\ pc = "scan" /\ addrx >= endaddr
  /\ pc' = "program"
  /\ UNCHANGED <<flash, WriteAddr, addrx, endaddr, pBuffer, lateError>>

ProgramSameWords ==  \* mutant: the buffer pointer is not advanced
  /\ pc = "program" /\ WriteAddr < endaddr
  /\ flash' = [a \in Addr |-> IF a \notin Target THEN flash[a]
                             ELSE pBuffer[a - WriteAddr + 1]]
  /\ WriteAddr' = WriteAddr + FlashWord
  /\ UNCHANGED <<pc, addrx, endaddr, pBuffer, lateError>>

(* Lines 73-79: one flash word is programmed, whatever it holds. *)
ProgramFlashWord ==
  /\ pc = "program" /\ WriteAddr < endaddr
  /\ flash' = Programmed
  /\ WriteAddr' = WriteAddr + FlashWord
  /\ pBuffer' = SubSeq(pBuffer, FlashWord + 1, Len(pBuffer))
  /\ UNCHANGED <<pc, addrx, endaddr, lateError>>

Return ==
  /\ pc' = "idle"
  /\ addrx' = 0 /\ endaddr' = 0 /\ pBuffer' = << >>

(* Lines 73-77: HAL_FLASH_Program reports an error of its first wait,      *)
(* before it writes (stm32h7xx_hal_flash.c:166-168).                       *)
ProgramFails ==
  /\ "program" \in Faults
  /\ pc = "program" /\ WriteAddr < endaddr
  /\ Return
  /\ UNCHANGED <<flash, WriteAddr, lateError>>

(* Lines 73-77: it reports an error of its second wait (lines 191-204),    *)
(* after it wrote the flash word, well or badly: *WriteAddr stays on words *)
(* that are not erased any more.                                           *)
ProgramFailsLate ==
  /\ "written" \in Faults
  /\ pc = "program" /\ WriteAddr < endaddr
  /\ \/ flash' = Programmed
     \/ flash' = [a \in Addr |-> IF a \in Target THEN Corrupt ELSE flash[a]]
  /\ lateError' = TRUE
  /\ Return
  /\ UNCHANGED WriteAddr

(* Lines 71 and 83: everything is programmed. *)
ProgramDone ==
  /\ pc = "program" /\ WriteAddr >= endaddr
  /\ Return
  /\ UNCHANGED <<flash, WriteAddr, lateError>>

(* A reset between two hardware operations: RAM is initialised again. *)
Reset ==
  /\ Return
  /\ WriteAddr' = FLASH_APP1_ADDR_0
  /\ UNCHANGED <<flash, lateError>>

Next ==
  \/ \E n, k \in 1 .. MaxWords :
        /\ Holds(k, n)
        /\ \E buf \in [1 .. k * FlashWord -> Data] : Call(n, k, buf)
  \/ ScanBlank
  \/ EraseSector
  \/ EraseFails
  \/ ScanDone
  \/ ProgramFlashWord
  \/ ProgramFails
  \/ ProgramFailsLate
  \/ ProgramDone
  \/ Reset

Spec == Init /\ [][Next]_vars

(* The hardware finishes every operation it was given. *)
FairSpec ==
  /\ Spec
  /\ WF_vars(ScanBlank \/ EraseSector \/ ScanDone)
  /\ WF_vars(ProgramFlashWord \/ ProgramDone)

-----------------------------------------------------------------------------
TypeOK ==
  /\ flash \in [Addr -> Word]
  /\ WriteAddr \in Nat
  /\ pc \in {"idle", "scan", "program"}
  /\ addrx \in Nat
  /\ endaddr \in Nat
  /\ pBuffer \in Seq(Data)
  /\ lateError \in BOOLEAN

(* The flash word programmed next is erased, although the scan stops at    *)
(* endaddr and never looks at the words behind it that line 73 writes too. *)
(* After a late error it may not be: the words the failed operation left   *)
(* may lie behind endaddr.                                                 *)
ProgramsErased ==
  pc = "program" /\ WriteAddr < endaddr /\ ~lateError
    => \A a \in Target : flash[a] = Blank

(* Erasing clears the word the scan stopped at: the loop of lines 52-66    *)
(* makes progress ("clear every obstacle", stmflash.c:53).                 *)
EraseClearsTheWord == [][EraseSector => flash'[addrx] = Blank]_vars

(* The sectors below the application, where the bootloader itself lies,    *)
(* are neither erased nor programmed, whatever fails and however long the  *)
(* upload.                                                                 *)
BootloaderKept ==
  [][\A a \in 0 .. FLASH_APP1_ADDR_0 - 1 : flash'[a] = flash[a]]_vars

(* What the calls since the last reset have stored, read back from flash. *)
Image == [i \in 1 .. WriteAddr - FLASH_APP1_ADDR_0 |->
            flash[FLASH_APP1_ADDR_0 + i - 1]]

(* The abstract writer: a log that only grows, by what the caller passed,  *)
(* until a program operation that had written reports an error.            *)
Log == INSTANCE FlashImage
         WITH image <- Image, pending <- pBuffer, broken <- lateError

(* FlashWriter implements the log: no step, and no erase in particular,    *)
(* disturbs what an earlier call of the same upload has stored, and every  *)
(* flash word goes behind the last with the caller's data in it.  The one  *)
(* error that ends this for good is one reported after the words were      *)
(* written; any other error and any reset leave it a log.                  *)
ImplementsLog == Log!Spec

(* An erase never hits a sector that already holds words of the image      *)
(* being stored ("make sure the sector holds no important data before you  *)
(* write", stmflash.c:29-30).  Two things break this: an image with an     *)
(* erased word at a sector head, and a program operation that reports its  *)
(* error after it wrote, where the next block finds *WriteAddr not erased. *)
KeepsStored == \A a \in FLASH_APP1_ADDR_0 .. WriteAddr - 1 : flash'[a] = flash[a]

StoredKept == [][EraseSector => KeepsStored]_vars

(* The same until a program operation that had written reports an error.   *)
StoredUntilLateError == [][EraseSector /\ ~lateError => KeepsStored]_vars

(* Every call returns. *)
WriteReturns == pc # "idle" ~> pc = "idle"

(* The hardware operations and words to look at that are left of a call,   *)
(* at most: a word that is not erased takes two looks, and then no step of *)
(* a call leaves it as far from its end as it was, failures included.      *)
ToProgram == IF WriteAddr < endaddr THEN endaddr - WriteAddr ELSE 0
Obstacle  == IF addrx < endaddr /\ flash[addrx] # Blank THEN 1 ELSE 0
WorkLeft  ==
  CASE pc = "idle"    -> 0
    [] pc = "program" -> ToProgram + 1
    [] pc = "scan"    -> ToProgram + 2 + 2 * (endaddr - addrx) + Obstacle

CallsRunOut == [][pc # "idle" => WorkLeft' \in 0 .. WorkLeft - 1]_vars

(* The inductive invariant, until a program operation that had written     *)
(* reports an error.  Behind WriteAddr the sector being filled is erased,  *)
(* except before it was entered; sectors already entered carry a word at   *)
(* their head that is not erased.                                          *)
EnteredHeads ==
  \A s \in Sectors :
     /\ FLASH_APP1_ADDR_0 <= ADDR_FLASH_SECTOR[s]
     /\ ADDR_FLASH_SECTOR[s] < WriteAddr
     => flash[ADDR_FLASH_SECTOR[s]] # Blank

ErasedAhead ==
  \A s \in Sectors :
     /\ ADDR_FLASH_SECTOR[s] < WriteAddr
     => \A a \in SectorWords(s) : a >= WriteAddr => flash[a] = Blank

Scanned ==
  /\ pc = "scan" => \A a \in WriteAddr .. addrx - 1 : flash[a] = Blank
  /\ pc = "program" => \A a \in WriteAddr .. endaddr - 1 : flash[a] = Blank

Buffered ==
  /\ WriteAddr \in FLASH_APP1_ADDR_0 .. Limit
  /\ Aligned(WriteAddr)
  /\ pc = "scan" => addrx \in WriteAddr .. endaddr
  /\ pc = "idle" => pBuffer = << >>
  /\ pc # "idle" => /\ endaddr <= Limit
                    /\ Aligned(Len(pBuffer))
                    /\ WriteAddr + Len(pBuffer) \in endaddr .. endaddr + FlashWord - 1

(* What holds whatever fails. *)
BaseInv == TypeOK /\ Buffered

LogInv ==
  /\ NoGap(flash)
  /\ EnteredHeads
  /\ ErasedAhead
  /\ Scanned
  /\ HeadsOK(pBuffer)

IInv == BaseInv /\ (~lateError => LogInv)
=============================================================================
