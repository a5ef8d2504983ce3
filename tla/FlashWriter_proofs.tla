------------------------- MODULE FlashWriter_proofs -------------------------
(***************************************************************************)
(* Theorems about FlashWriter, for every flash geometry and every image.   *)
(***************************************************************************)
EXTENDS FlashWriter, SequenceTheorems, TLAPS

LEMMA FlashWordType == FlashWord \in Nat /\ FlashWord > 0
BY GeometryAssumption

(* The part of the geometry most steps need. *)
LEMMA Geometry ==
  /\ LastSector \in Nat
  /\ FlashEnd \in Nat
  /\ \A s \in 0 .. LastSector + 1 : ADDR_FLASH_SECTOR[s] \in Nat
  /\ Bank2 \in Nat /\ Bank2 <= FlashEnd
  /\ FLASH_APP1_ADDR_0 \in Nat
  /\ Limit \in Nat /\ FLASH_APP1_ADDR_0 <= Limit /\ Limit <= FlashEnd
  /\ Aligned(Limit) /\ Aligned(FLASH_APP1_ADDR_0)
BY GeometryAssumption DEF Sectors, Bank2

LEMMA SectorOrder ==
  ASSUME NEW s \in 0 .. LastSector + 1, NEW r \in 0 .. LastSector + 1, s <= r
  PROVE  ADDR_FLASH_SECTOR[s] <= ADDR_FLASH_SECTOR[r]
<1>1. CASE s = r
  BY <1>1, Geometry
<1>2. CASE s < r
  BY <1>2, Geometry, GeometryAssumption
<1>3. QED
  BY <1>1, <1>2, Geometry

-----------------------------------------------------------------------------
(* Products of natural numbers are monotonic. *)
LEMMA TimesMonotonic ==
  ASSUME NEW j \in Nat, NEW k \in Nat, NEW n \in Nat, j <= k
  PROVE  j * n <= k * n
OBVIOUS

LEMMA TimesAtLeast ==
  ASSUME NEW k \in Nat, NEW n \in Nat, n > 0
  PROVE  k <= k * n
OBVIOUS

(* Flash word addresses are FlashWord apart. *)
LEMMA AlignedGap ==
  ASSUME NEW x \in Nat, NEW y \in Nat, Aligned(x), Aligned(y), x < y
  PROVE  x + FlashWord <= y
<1>1. PICK j \in 0 .. x : x = j * FlashWord
  BY DEF Aligned
<1>2. PICK k \in 0 .. y : y = k * FlashWord
  BY DEF Aligned
<1>3. j < k
  <2>1. SUFFICES ASSUME k <= j PROVE FALSE
    OBVIOUS
  <2>2. k * FlashWord <= j * FlashWord
    BY <2>1, FlashWordType, TimesMonotonic
  <2>3. QED
    BY <1>1, <1>2, <2>2
<1>4. (j + 1) * FlashWord <= k * FlashWord
  BY <1>3, FlashWordType, TimesMonotonic
<1>5. (j + 1) * FlashWord = j * FlashWord + FlashWord
  BY FlashWordType
<1>6. QED
  BY <1>1, <1>2, <1>4, <1>5

LEMMA AlignedMultiple ==
  ASSUME NEW k \in Nat
  PROVE  Aligned(k * FlashWord)
<1>1. k <= k * FlashWord
  BY FlashWordType, TimesAtLeast
<1>2. k * FlashWord \in Nat
  BY FlashWordType
<1>3. QED
  BY <1>1, <1>2 DEF Aligned

LEMMA AlignedNext ==
  ASSUME NEW x \in Nat, Aligned(x)
  PROVE  Aligned(x + FlashWord)
<1>1. PICK j \in 0 .. x : x = j * FlashWord
  BY DEF Aligned
<1>2. (j + 1) * FlashWord = x + FlashWord
  BY <1>1, FlashWordType
<1>3. QED
  BY <1>2, AlignedMultiple

LEMMA AlignedPrev ==
  ASSUME NEW x \in Nat, Aligned(x), x >= FlashWord
  PROVE  Aligned(x - FlashWord)
<1>1. PICK j \in 0 .. x : x = j * FlashWord
  BY DEF Aligned
<1>2. j # 0
  BY <1>1, FlashWordType
<1>3. (j - 1) * FlashWord = x - FlashWord
  BY <1>1, FlashWordType
<1>4. QED
  BY <1>2, <1>3, AlignedMultiple

LEMMA AlignedZero == Aligned(0)
<1>1. 0 * FlashWord = 0
  BY FlashWordType
<1>2. QED
  BY <1>1, AlignedMultiple

(* The sector an address of bank 1 lies in contains it. *)
LEMMA SectorOfAddress ==
  ASSUME NEW a \in Addr
  PROVE  /\ STMFLASH_GetFlashSector(a) \in Sectors
         /\ ADDR_FLASH_SECTOR[STMFLASH_GetFlashSector(a)] <= a
         /\ a < Bank2 => a < ADDR_FLASH_SECTOR[STMFLASH_GetFlashSector(a) + 1]
<1>1. \E s \in Sectors :
         /\ ADDR_FLASH_SECTOR[s] <= a
         /\ s < LastSector => a < ADDR_FLASH_SECTOR[s + 1]
  BY GeometryAssumption
<1>2. /\ STMFLASH_GetFlashSector(a) \in Sectors
      /\ ADDR_FLASH_SECTOR[STMFLASH_GetFlashSector(a)] <= a
      /\ STMFLASH_GetFlashSector(a) < LastSector
            => a < ADDR_FLASH_SECTOR[STMFLASH_GetFlashSector(a) + 1]
  BY <1>1 DEF STMFLASH_GetFlashSector
<1>3. CASE STMFLASH_GetFlashSector(a) = LastSector
  BY <1>2, <1>3 DEF Bank2
<1>4. CASE STMFLASH_GetFlashSector(a) < LastSector
  BY <1>2, <1>4
<1>5. QED
  BY <1>2, <1>3, <1>4, GeometryAssumption DEF Sectors

(* Addresses of the application, sector 1 or later, are never in a sector  *)
(* below the application.                                                  *)
LEMMA SectorOfApplication ==
  ASSUME NEW a \in Addr, a >= FLASH_APP1_ADDR_0
  PROVE  ADDR_FLASH_SECTOR[STMFLASH_GetFlashSector(a)] >= FLASH_APP1_ADDR_0
<1> DEFINE e == STMFLASH_GetFlashSector(a)
<1>1. PICK q \in Sectors \ {0} : FLASH_APP1_ADDR_0 = ADDR_FLASH_SECTOR[q]
  BY GeometryAssumption
<1>2. /\ e \in Sectors
      /\ e < LastSector => a < ADDR_FLASH_SECTOR[e + 1]
  <2>1. \E s \in Sectors :
           /\ ADDR_FLASH_SECTOR[s] <= a
           /\ s < LastSector => a < ADDR_FLASH_SECTOR[s + 1]
    BY GeometryAssumption
  <2>2. QED
    BY <2>1 DEF STMFLASH_GetFlashSector
<1> HIDE DEF e
<1>4. ~ (e < q)
  <2>1. SUFFICES ASSUME e < q PROVE FALSE
    OBVIOUS
  <2>2. e < LastSector /\ e + 1 <= q
    BY <1>1, <1>2, <2>1, Geometry DEF Sectors
  <2>3. ADDR_FLASH_SECTOR[e + 1] <= ADDR_FLASH_SECTOR[q]
    BY <1>1, <1>2, <2>2, SectorOrder, Geometry DEF Sectors
  <2>4. QED
    BY <1>1, <1>2, <2>2, <2>3, Geometry DEF Sectors, Addr
<1>5. ADDR_FLASH_SECTOR[q] <= ADDR_FLASH_SECTOR[e]
  BY <1>1, <1>2, <1>4, SectorOrder, Geometry DEF Sectors
<1>6. QED
  BY <1>1, <1>5 DEF e
-----------------------------------------------------------------------------
(* Whatever fails: types, and where the cursors and the buffer stand. *)
LEMMA BaseInit == Init => BaseInv
<1> SUFFICES ASSUME Init PROVE BaseInv
  OBVIOUS
<1>1. flash \in [Addr -> Word]
  BY DataAssumption DEF Init, Word
<1>2. pBuffer \in Seq(Data)
  BY DEF Init
<1>3. TypeOK
  BY <1>1, <1>2, Geometry DEF Init, TypeOK
<1>4. Buffered
  BY Geometry DEF Init, Buffered
<1>5. QED
  BY <1>3, <1>4 DEF BaseInv

(* While a call programs, a whole flash word is left in the buffer and     *)
(* there is room for it.                                                   *)
LEMMA RoomForFlashWord ==
  ASSUME BaseInv, pc = "program", WriteAddr < endaddr
  PROVE  /\ Len(pBuffer) \in Nat
         /\ FlashWord <= Len(pBuffer)
         /\ WriteAddr + FlashWord <= Limit
<1>1. Len(pBuffer) \in Nat
  BY DEF BaseInv, TypeOK
<1>2. Len(pBuffer) > 0
  BY <1>1, Geometry DEF BaseInv, TypeOK, Buffered
<1>3. 0 + FlashWord <= Len(pBuffer)
  BY <1>1, <1>2, AlignedGap, AlignedZero DEF BaseInv, Buffered
<1>4. WriteAddr + FlashWord <= Limit
  BY AlignedGap, Geometry DEF BaseInv, TypeOK, Buffered
<1>5. QED
  BY <1>1, <1>3, <1>4, FlashWordType

LEMMA ProgrammedType ==
  ASSUME BaseInv, pc = "program", WriteAddr < endaddr
  PROVE  Programmed \in [Addr -> Word]
<1>1. \A a \in Target : pBuffer[a - WriteAddr + 1] \in Data
  BY RoomForFlashWord, FlashWordType DEF Target, BaseInv, TypeOK
<1>2. QED
  BY <1>1 DEF Programmed, BaseInv, TypeOK, Word

LEMMA BaseStep == BaseInv /\ [Next]_vars => BaseInv'
<1> SUFFICES ASSUME BaseInv, [Next]_vars PROVE BaseInv'
  OBVIOUS
<1> USE Geometry, FlashWordType
<1>1. ASSUME NEW n \in 1 .. MaxWords, NEW k \in 1 .. MaxWords, Holds(k, n),
             NEW buf \in [1 .. k * FlashWord -> Data], Call(n, k, buf)
      PROVE  BaseInv'
  <2>1. n \in Nat /\ k \in Nat /\ k * FlashWord \in Nat
    BY <1>1, GeometryAssumption
  <2>2. buf \in Seq(Data) /\ Len(buf) = k * FlashWord
    BY <1>1, <2>1
  <2>3. Aligned(Len(buf))
    BY <2>1, <2>2, AlignedMultiple
  <2>4. TypeOK'
    BY <1>1, <2>1, <2>2 DEF BaseInv, TypeOK, Call
  <2>5. WriteAddr + Len(buf) \in WriteAddr + n .. WriteAddr + n + FlashWord - 1
    BY <1>1, <2>1, <2>2 DEF Holds, BaseInv, TypeOK
  <2>6. Buffered'
    BY <1>1, <2>1, <2>2, <2>3, <2>5 DEF BaseInv, TypeOK, Buffered, Call
  <2>7. QED
    BY <2>4, <2>6 DEF BaseInv
<1>2. CASE ScanBlank
  BY <1>2 DEF ScanBlank, BaseInv, TypeOK, Buffered
<1>3. CASE EraseSector
  <2>1. flash' \in [Addr -> Word]
    BY <1>3 DEF EraseSector, BaseInv, TypeOK, Word
  <2>2. QED
    BY <1>3, <2>1 DEF EraseSector, BaseInv, TypeOK, Buffered
<1>4. CASE EraseFails
  BY <1>4 DEF EraseFails, BaseInv, TypeOK, Buffered
<1>5. CASE ScanDone
  BY <1>5 DEF ScanDone, BaseInv, TypeOK, Buffered
<1>6. CASE ProgramFlashWord
  <2>1. /\ Len(pBuffer) \in Nat
        /\ FlashWord <= Len(pBuffer)
        /\ WriteAddr + FlashWord <= Limit
    BY <1>6, RoomForFlashWord DEF ProgramFlashWord
  <2>3. flash' \in [Addr -> Word]
    BY <1>6, ProgrammedType DEF ProgramFlashWord
  <2>4. /\ pBuffer' \in Seq(Data)
        /\ Len(pBuffer') = Len(pBuffer) - FlashWord
    BY <1>6, <2>1 DEF ProgramFlashWord, BaseInv, TypeOK
  <2>5. Aligned(Len(pBuffer'))
    BY <1>6, <2>1, <2>4, AlignedPrev DEF ProgramFlashWord, BaseInv, Buffered
  <2>6. Aligned(WriteAddr')
    BY <1>6, AlignedNext DEF ProgramFlashWord, BaseInv, TypeOK, Buffered
  <2>7. TypeOK'
    BY <1>6, <2>3, <2>4 DEF ProgramFlashWord, BaseInv, TypeOK
  <2>8. Buffered'
    <3>1. /\ WriteAddr' = WriteAddr + FlashWord
          /\ pc' = "program" /\ endaddr' = endaddr
      BY <1>6 DEF ProgramFlashWord
    <3>2. /\ WriteAddr \in Nat /\ WriteAddr >= FLASH_APP1_ADDR_0
          /\ endaddr \in Nat /\ endaddr <= Limit
          /\ WriteAddr + Len(pBuffer) \in endaddr .. endaddr + FlashWord - 1
      BY <1>6 DEF ProgramFlashWord, BaseInv, TypeOK, Buffered
    <3>3. WriteAddr' + Len(pBuffer') = WriteAddr + Len(pBuffer)
      BY <3>1, <3>2, <2>1, <2>4
    <3>4. WriteAddr' \in FLASH_APP1_ADDR_0 .. Limit
      BY <3>1, <3>2, <2>1
    <3>5. QED
      BY <3>1, <3>2, <3>3, <3>4, <2>5, <2>6 DEF Buffered
  <2>9. QED
    BY <2>7, <2>8 DEF BaseInv
<1>7. CASE ProgramFails
  BY <1>7 DEF ProgramFails, Return, BaseInv, TypeOK, Buffered
<1>8. CASE ProgramFailsLate
  <2>1. flash' \in [Addr -> Word]
    BY <1>8, ProgrammedType DEF ProgramFailsLate, BaseInv, TypeOK, Word
  <2>2. QED
    BY <1>8, <2>1 DEF ProgramFailsLate, Return, BaseInv, TypeOK, Buffered
<1>9. CASE ProgramDone
  BY <1>9 DEF ProgramDone, Return, BaseInv, TypeOK, Buffered
<1>10. CASE Reset
  BY <1>10 DEF Reset, Return, BaseInv, TypeOK, Buffered
<1>11. CASE UNCHANGED vars
  BY <1>11 DEF vars, BaseInv, TypeOK, Buffered
<1>12. QED
  BY <1>1, <1>2, <1>3, <1>4, <1>5, <1>6, <1>7, <1>8, <1>9, <1>10, <1>11 DEF Next

THEOREM BaseCorrect == Spec => []BaseInv
<1>1. QED
  BY BaseInit, BaseStep, PTL DEF Spec

(* Type correctness of the flash writer, whatever fails. *)
THEOREM TypeCorrect == Spec => []TypeOK
<1>1. BaseInv => TypeOK
  BY DEF BaseInv
<1>2. QED
  BY <1>1, BaseCorrect, PTL

(* The loop of lines 52-66 makes progress as long as uploads end in bank 1 *)
(* (STMFLASH_GetFlashSector knows no other), whatever else fails.          *)
LEMMA EraseClears ==
  ASSUME Limit <= Bank2, BaseInv, EraseSector
  PROVE  flash'[addrx] = Blank
<1> DEFINE e == STMFLASH_GetFlashSector(addrx)
<1>1. addrx \in Addr /\ addrx < Bank2
  BY Geometry DEF EraseSector, BaseInv, TypeOK, Buffered, Addr
<1>2. e \in Sectors /\ ADDR_FLASH_SECTOR[e] <= addrx /\ addrx < ADDR_FLASH_SECTOR[e + 1]
  BY <1>1, SectorOfAddress
<1>3. addrx \in SectorWords(e)
  BY <1>1, <1>2, Geometry DEF SectorWords, Sectors, Addr
<1>4. QED
  BY <1>1, <1>3 DEF EraseSector

THEOREM EraseClearsCorrect == ASSUME Limit <= Bank2 PROVE Spec => EraseClearsTheWord
<1>1. BaseInv /\ [Next]_vars => [EraseSector => flash'[addrx] = Blank]_vars
  BY EraseClears
<1>2. QED
  BY <1>1, BaseCorrect, PTL DEF Spec, EraseClearsTheWord

(* Every step of a call brings its end nearer.                             *)
LEMMA WorkStep ==
  ASSUME Limit <= Bank2, BaseInv, [Next]_vars, vars' # vars, pc # "idle"
  PROVE  WorkLeft' \in 0 .. WorkLeft - 1
<1> USE Geometry, FlashWordType
<1>1. /\ WriteAddr \in Nat /\ endaddr \in Nat /\ addrx \in Nat
      /\ ToProgram \in Nat /\ Obstacle \in 0 .. 1
      /\ pc = "scan" => addrx <= endaddr /\ endaddr - addrx \in Nat
      /\ pc \in {"scan", "program"}
  BY DEF BaseInv, TypeOK, Buffered, ToProgram, Obstacle
<1>2. ASSUME NEW n \in 1 .. MaxWords, NEW k \in 1 .. MaxWords, NEW buf, Call(n, k, buf)
      PROVE  FALSE
  BY <1>2 DEF Call
<1>3. CASE ScanBlank
  <2>1. /\ pc = "scan" /\ pc' = "scan" /\ addrx < endaddr /\ addrx' = addrx + 1
        /\ endaddr' = endaddr /\ WriteAddr' = WriteAddr
    BY <1>3 DEF ScanBlank
  <2>2. Obstacle' \in 0 .. 1 /\ ToProgram' = ToProgram
    BY <2>1 DEF Obstacle, ToProgram
  <2>3. QED
    BY <1>1, <2>1, <2>2 DEF WorkLeft
<1>4. CASE EraseSector
  <2>1. /\ pc = "scan" /\ pc' = "scan" /\ addrx < endaddr /\ addrx' = addrx
        /\ endaddr' = endaddr /\ WriteAddr' = WriteAddr /\ flash[addrx] # Blank
    BY <1>4 DEF EraseSector
  <2>2. Obstacle = 1 /\ Obstacle' = 0 /\ ToProgram' = ToProgram
    BY <1>4, <2>1, EraseClears DEF Obstacle, ToProgram
  <2>3. QED
    BY <1>1, <2>1, <2>2 DEF WorkLeft
<1>5. CASE EraseFails \/ ScanDone
  <2>1. /\ pc = "scan" /\ pc' = "program"
        /\ endaddr' = endaddr /\ WriteAddr' = WriteAddr
    BY <1>5 DEF EraseFails, ScanDone
  <2>2. ToProgram' = ToProgram
    BY <2>1 DEF ToProgram
  <2>3. QED
    BY <1>1, <2>1, <2>2 DEF WorkLeft
<1>6. CASE ProgramFlashWord
  <2>1. /\ pc = "program" /\ pc' = "program" /\ WriteAddr < endaddr
        /\ endaddr' = endaddr /\ WriteAddr' = WriteAddr + FlashWord
    BY <1>6 DEF ProgramFlashWord
  <2>2. ToProgram' \in 0 .. ToProgram - 1
    BY <1>1, <2>1 DEF ToProgram
  <2>3. QED
    BY <1>1, <2>1, <2>2 DEF WorkLeft
<1>7. CASE ProgramFails \/ ProgramFailsLate \/ ProgramDone \/ Reset
  <2>1. pc' = "idle"
    BY <1>7 DEF ProgramFails, ProgramFailsLate, ProgramDone, Reset, Return
  <2>2. WorkLeft' = 0
    BY <2>1 DEF WorkLeft
  <2>3. WorkLeft \in Nat \ {0}
    BY <1>1 DEF WorkLeft
  <2>4. QED
    BY <2>2, <2>3
<1>8. QED
  BY <1>2, <1>3, <1>4, <1>5, <1>6, <1>7 DEF Next

(* No call runs for ever, whatever fails, as long as uploads end in bank 1:*)
(* the work that is left is a number that every step makes smaller.        *)
THEOREM CallsRunOutCorrect == ASSUME Limit <= Bank2 PROVE Spec => CallsRunOut
<1> DEFINE A == pc # "idle" => WorkLeft' \in 0 .. WorkLeft - 1
<1>1. BaseInv /\ [Next]_vars => [A]_vars
  BY WorkStep
<1>2. CallsRunOut <=> [][A]_vars
  BY DEF CallsRunOut
<1>3. QED
  BY <1>1, <1>2, BaseCorrect, PTL DEF Spec

(* The bootloader's own sectors are never erased nor programmed, whatever  *)
(* fails, whatever the image holds and however long it is: the sector      *)
(* STMFLASH_GetFlashSector names is never one below the application.       *)
LEMMA BootloaderStep ==
  ASSUME BaseInv, [Next]_vars
  PROVE  \A a \in 0 .. FLASH_APP1_ADDR_0 - 1 : flash'[a] = flash[a]
<1> SUFFICES ASSUME NEW a \in 0 .. FLASH_APP1_ADDR_0 - 1
             PROVE  flash'[a] = flash[a]
  OBVIOUS
<1> USE Geometry
<1>1. a \in Addr
  BY DEF Addr
<1>2. CASE EraseSector
  <2>1. addrx \in Addr /\ addrx >= FLASH_APP1_ADDR_0
    BY <1>2 DEF EraseSector, BaseInv, TypeOK, Buffered, Addr
  <2>2. ADDR_FLASH_SECTOR[STMFLASH_GetFlashSector(addrx)] >= FLASH_APP1_ADDR_0
    BY <2>1, SectorOfApplication
  <2>3. STMFLASH_GetFlashSector(addrx) \in Sectors
    BY <2>1, SectorOfAddress
  <2>4. a \notin SectorWords(STMFLASH_GetFlashSector(addrx))
    BY <2>2, <2>3 DEF SectorWords, Sectors
  <2>5. QED
    BY <1>1, <1>2, <2>4 DEF EraseSector
<1>3. CASE ProgramFlashWord \/ ProgramFailsLate
  <2>1. a \notin Target
    BY FlashWordType DEF Target, BaseInv, TypeOK, Buffered
  <2>2. QED
    BY <1>1, <1>3, <2>1 DEF ProgramFlashWord, ProgramFailsLate, Programmed
<1>4. CASE flash' = flash
  BY <1>4
<1>5. QED
  BY <1>2, <1>3, <1>4 DEF Next, vars, Call, ScanBlank, EraseFails, ScanDone,
     ProgramFails, ProgramDone, Reset

THEOREM BootloaderNeverTouched == Spec => BootloaderKept
<1>1. BaseInv /\ [Next]_vars
        => [\A a \in 0 .. FLASH_APP1_ADDR_0 - 1 : flash'[a] = flash[a]]_vars
  BY BootloaderStep
<1>2. QED
  BY <1>1, BaseCorrect, PTL DEF Spec, BootloaderKept
-----------------------------------------------------------------------------
(* With images, erases and uploads as Careful asks: the inductive          *)
(* invariant of the append-only log.                                       *)

(* The sectors of two addresses of bank 1 are the same or disjoint. *)
LEMMA SectorUnique ==
  ASSUME NEW s \in Sectors, NEW r \in Sectors, NEW a \in Nat,
         ADDR_FLASH_SECTOR[s] <= a, a < ADDR_FLASH_SECTOR[s + 1],
         ADDR_FLASH_SECTOR[r] <= a, a < ADDR_FLASH_SECTOR[r + 1]
  PROVE  s = r
<1> USE Geometry DEF Sectors
<1>1. ASSUME NEW x \in Sectors, NEW y \in Sectors, x < y,
             a < ADDR_FLASH_SECTOR[x + 1], ADDR_FLASH_SECTOR[y] <= a
      PROVE  FALSE
  <2>1. ADDR_FLASH_SECTOR[x + 1] <= ADDR_FLASH_SECTOR[y]
    BY <1>1, SectorOrder
  <2>2. QED
    BY <1>1, <2>1
<1>2. s < r \/ r < s \/ s = r
  OBVIOUS
<1>3. QED
  BY <1>1, <1>2

(* Where the next flash word goes: wholly into one sector, all of it       *)
(* erased, and all of what follows in that sector is erased too.           *)
LEMMA TargetErased ==
  ASSUME Careful, BaseInv, LogInv, pc = "program", WriteAddr < endaddr,
         NEW s \in Sectors, s = STMFLASH_GetFlashSector(WriteAddr)
  PROVE  /\ WriteAddr + FlashWord <= ADDR_FLASH_SECTOR[s + 1]
         /\ ADDR_FLASH_SECTOR[s] <= WriteAddr
         /\ \A a \in SectorWords(s) : a >= WriteAddr => flash[a] = Blank
         /\ \A a \in Target : a \in SectorWords(s) /\ flash[a] = Blank
<1> USE Geometry, FlashWordType
<1>1. WriteAddr \in Addr /\ WriteAddr < Bank2 /\ Aligned(WriteAddr)
  BY DEF BaseInv, TypeOK, Buffered, Careful, Addr
<1>2. /\ ADDR_FLASH_SECTOR[s] <= WriteAddr
      /\ WriteAddr < ADDR_FLASH_SECTOR[s + 1]
  BY <1>1, SectorOfAddress
<1>3. /\ ADDR_FLASH_SECTOR[s + 1] \in Nat
      /\ Aligned(ADDR_FLASH_SECTOR[s + 1])
  BY SMTT(30), GeometryAssumption DEF Sectors
<1>4. WriteAddr + FlashWord <= ADDR_FLASH_SECTOR[s + 1]
  BY <1>1, <1>2, <1>3, AlignedGap DEF Addr
<1>5. \A a \in SectorWords(s) : a >= WriteAddr => flash[a] = Blank
  <2>1. CASE ADDR_FLASH_SECTOR[s] < WriteAddr
    BY <2>1 DEF LogInv, ErasedAhead
  <2>2. CASE ADDR_FLASH_SECTOR[s] = WriteAddr
    <3>1. flash[WriteAddr] = Blank
      BY DEF LogInv, Scanned, BaseInv, TypeOK
    <3>2. QED
      BY <2>2, <3>1 DEF LogInv, NoGap
  <2>3. QED
    BY <1>2, <2>1, <2>2, <1>1 DEF Sectors, Addr
<1>6. \A a \in Target : a \in SectorWords(s) /\ a >= WriteAddr
  BY <1>1, <1>2, <1>3, <1>4 DEF Target, SectorWords, Sectors, Addr
<1>7. QED
  BY <1>2, <1>4, <1>5, <1>6

LEMMA InvInit == Init => IInv
<1> SUFFICES ASSUME Init PROVE IInv
  OBVIOUS
<1> USE Geometry
<1>1. BaseInv
  BY BaseInit
<1>2. NoGap(flash)
  BY DEF Init
<1>3. EnteredHeads
  BY DEF Init, EnteredHeads, Sectors
<1>4. ErasedAhead
  <2> SUFFICES ASSUME NEW s \in Sectors, ADDR_FLASH_SECTOR[s] < WriteAddr,
                      NEW a \in SectorWords(s), a >= WriteAddr
               PROVE  FALSE
    BY DEF ErasedAhead
  <2>1. PICK q \in Sectors \ {0} : FLASH_APP1_ADDR_0 = ADDR_FLASH_SECTOR[q]
    BY GeometryAssumption
  <2>2. s < q
    <3>1. SUFFICES ASSUME q <= s PROVE FALSE
      BY <2>1 DEF Sectors
    <3>2. ADDR_FLASH_SECTOR[q] <= ADDR_FLASH_SECTOR[s]
      BY <2>1, <3>1, SectorOrder DEF Sectors
    <3>3. QED
      BY <2>1, <3>2 DEF Init, Sectors
  <2>3. ADDR_FLASH_SECTOR[s + 1] <= ADDR_FLASH_SECTOR[q]
    BY <2>1, <2>2, SectorOrder DEF Sectors
  <2>4. QED
    BY <2>1, <2>3 DEF Init, SectorWords, Sectors
<1>5. Scanned /\ HeadsOK(pBuffer)
  BY DEF Init, Scanned, HeadsOK
<1>6. QED
  BY <1>1, <1>2, <1>3, <1>4, <1>5 DEF IInv, LogInv

(* An erase hits a sector the image has not entered: in the sector being   *)
(* filled every word the scan can meet is erased already.                  *)
LEMMA EraseAhead ==
  ASSUME Careful, BaseInv, LogInv, EraseSector,
         NEW e \in Sectors, e = STMFLASH_GetFlashSector(addrx)
  PROVE  /\ WriteAddr <= ADDR_FLASH_SECTOR[e]
         /\ addrx \in SectorWords(e)
<1> USE Geometry, FlashWordType
<1>1. /\ addrx \in Addr /\ addrx < Bank2 /\ addrx >= WriteAddr
      /\ flash[addrx] # Blank /\ WriteAddr \in Nat
  BY DEF EraseSector, BaseInv, TypeOK, Buffered, Careful, Addr
<1>2. /\ ADDR_FLASH_SECTOR[e] <= addrx
      /\ addrx < ADDR_FLASH_SECTOR[e + 1]
  BY <1>1, SectorOfAddress
<1>3. addrx \in SectorWords(e)
  BY <1>1, <1>2 DEF SectorWords, Sectors, Addr
<1>4. ~ (ADDR_FLASH_SECTOR[e] < WriteAddr)
  BY <1>1, <1>3 DEF LogInv, ErasedAhead
<1>5. QED
  BY <1>1, <1>3, <1>4 DEF Sectors

LEMMA EraseKeepsInv ==
  ASSUME Careful, BaseInv, LogInv, BaseInv', EraseSector
  PROVE  LogInv'
<1> USE Geometry
<1> DEFINE e == STMFLASH_GetFlashSector(addrx)
<1>1. e \in Sectors
  BY SectorOfAddress DEF EraseSector, BaseInv, TypeOK, Buffered, Addr
<1>2. WriteAddr <= ADDR_FLASH_SECTOR[e]
  BY <1>1, EraseAhead
<1>3. /\ flash' = [a \in Addr |-> IF a \in SectorWords(e) THEN Blank ELSE flash[a]]
      /\ UNCHANGED <<WriteAddr, pc, addrx, endaddr, pBuffer>>
      /\ pc = "scan"
  BY DEF EraseSector
<1>4. \A a \in Addr : flash[a] = Blank => flash'[a] = Blank
  BY <1>3
<1> HIDE DEF e
<1>5. \A s \in Sectors : SectorWords(s) \subseteq Addr
  <2> SUFFICES ASSUME NEW s \in Sectors, NEW a \in SectorWords(s)
               PROVE  a \in Addr
    OBVIOUS
  <2>1. ADDR_FLASH_SECTOR[s + 1] <= ADDR_FLASH_SECTOR[LastSector + 1]
    BY SectorOrder DEF Sectors
  <2>2. QED
    BY <2>1 DEF SectorWords, Sectors, Addr, Bank2
<1>6. \A s \in Sectors : ADDR_FLASH_SECTOR[s] \in SectorWords(s)
  BY SMTT(30), GeometryAssumption DEF SectorWords, Sectors
<1>7. NoGap(flash)'
  <2> SUFFICES ASSUME NEW s \in Sectors, flash'[ADDR_FLASH_SECTOR[s]] = Blank,
                      NEW a \in SectorWords(s)
               PROVE  flash'[a] = Blank
    BY DEF NoGap
  <2>1. CASE s = e
    BY <2>1, <1>3, <1>5
  <2>2. CASE s # e
    <3>1. ADDR_FLASH_SECTOR[s] \notin SectorWords(e)
      <4>1. SUFFICES ASSUME ADDR_FLASH_SECTOR[s] \in SectorWords(e) PROVE FALSE
        OBVIOUS
      <4>2. s = e
        BY SMTT(30), <1>1, <1>6, <4>1, SectorUnique DEF SectorWords, Sectors
      <4>3. QED
        BY <4>2, <2>2
    <3>2. flash[ADDR_FLASH_SECTOR[s]] = Blank
      BY <3>1, <1>3, <1>5, <1>6
    <3>3. QED
      BY <3>2, <1>4, <1>5 DEF LogInv, NoGap
  <2>3. QED
    BY <2>1, <2>2
<1>8. EnteredHeads'
  <2> SUFFICES ASSUME NEW s \in Sectors,
                      FLASH_APP1_ADDR_0 <= ADDR_FLASH_SECTOR[s],
                      ADDR_FLASH_SECTOR[s] < WriteAddr
               PROVE  flash'[ADDR_FLASH_SECTOR[s]] # Blank
    BY <1>3 DEF EnteredHeads
  <2>1. ADDR_FLASH_SECTOR[s] \notin SectorWords(e)
    BY SMTT(30), <1>1, <1>2 DEF SectorWords, Sectors, LogInv, BaseInv, TypeOK
  <2>2. QED
    BY <2>1, <1>3, <1>5, <1>6 DEF LogInv, EnteredHeads
<1>9. ErasedAhead'
  BY <1>3, <1>4, <1>5 DEF LogInv, ErasedAhead
<1>10. Scanned'
  BY <1>3, <1>4 DEF LogInv, Scanned, BaseInv, TypeOK, Buffered, Addr
<1>11. HeadsOK(pBuffer)'
  BY <1>3 DEF LogInv, HeadsOK
<1>12. QED
  BY <1>7, <1>8, <1>9, <1>10, <1>11 DEF LogInv

LEMMA ProgramKeepsInv ==
  ASSUME Careful, BaseInv, LogInv, BaseInv', ProgramFlashWord
  PROVE  LogInv'
<1> USE Geometry, FlashWordType
<1> DEFINE e == STMFLASH_GetFlashSector(WriteAddr)
<1>1. /\ WriteAddr \in Addr /\ WriteAddr >= FLASH_APP1_ADDR_0
      /\ WriteAddr < Bank2 /\ Aligned(WriteAddr)
      /\ pc = "program" /\ WriteAddr < endaddr
      /\ endaddr \in Nat
  BY DEF ProgramFlashWord, BaseInv, TypeOK, Buffered, Careful, Addr
<1>2. e \in Sectors
  BY <1>1, SectorOfAddress
<1> HIDE DEF e
<1>3. /\ WriteAddr + FlashWord <= ADDR_FLASH_SECTOR[e + 1]
      /\ ADDR_FLASH_SECTOR[e] <= WriteAddr
      /\ \A a \in SectorWords(e) : a >= WriteAddr => flash[a] = Blank
      /\ \A a \in Target : a \in SectorWords(e) /\ flash[a] = Blank
  BY <1>1, <1>2, TargetErased DEF e
<1>4. /\ Len(pBuffer) \in Nat
      /\ FlashWord <= Len(pBuffer)
  BY <1>1, RoomForFlashWord
<1>5. /\ flash' = [a \in Addr |-> IF a \notin Target THEN flash[a]
                                 ELSE pBuffer[a - WriteAddr + 1]]
      /\ WriteAddr' = WriteAddr + FlashWord
      /\ pBuffer' = SubSeq(pBuffer, FlashWord + 1, Len(pBuffer))
      /\ UNCHANGED <<pc, addrx, endaddr>>
  BY <1>3 DEF ProgramFlashWord, Programmed
<1>6. \A a \in Addr \ Target : flash'[a] = flash[a]
  BY <1>5
<1>7. \A s \in Sectors : /\ ADDR_FLASH_SECTOR[s] \in SectorWords(s)
                         /\ SectorWords(s) \subseteq Addr
  <2> SUFFICES ASSUME NEW s \in Sectors
               PROVE  /\ ADDR_FLASH_SECTOR[s] \in SectorWords(s)
                      /\ SectorWords(s) \subseteq Addr
    OBVIOUS
  <2>1. ADDR_FLASH_SECTOR[s + 1] <= ADDR_FLASH_SECTOR[LastSector + 1]
    BY SectorOrder DEF Sectors
  <2>2. ADDR_FLASH_SECTOR[s] < ADDR_FLASH_SECTOR[s + 1]
    BY GeometryAssumption DEF Sectors
  <2>3. QED
    BY <2>1, <2>2 DEF SectorWords, Sectors, Addr, Bank2
<1>8. \A s \in Sectors : s # e => \A a \in SectorWords(s) : a \notin Target
  BY <1>2, <1>3, SectorUnique DEF SectorWords, Sectors
<1>9. \A s \in Sectors :
         ADDR_FLASH_SECTOR[s] \in Target => s = e /\ ADDR_FLASH_SECTOR[e] = WriteAddr
  BY <1>3, <1>7, <1>8, <1>1 DEF Target, Sectors, Addr
(* The head of the sector being filled is not erased any more. *)
<1>10. flash'[ADDR_FLASH_SECTOR[e]] # Blank
  <2>1. CASE ADDR_FLASH_SECTOR[e] = WriteAddr
    <3>1. WriteAddr \in Heads
      BY <2>1, <1>2 DEF Heads
    <3>2. pBuffer[1] \in HeadData
      BY <3>1, <1>1, <1>4 DEF LogInv, HeadsOK, Addr
    <3>3. flash'[WriteAddr] = pBuffer[1]
      BY <1>5, <1>1 DEF Target, Addr
    <3>4. QED
      BY <2>1, <3>2, <3>3 DEF Careful
  <2>2. CASE ADDR_FLASH_SECTOR[e] < WriteAddr
    <3>1. ADDR_FLASH_SECTOR[e] >= FLASH_APP1_ADDR_0
      BY <1>1, SectorOfApplication DEF e
    <3>2. flash[ADDR_FLASH_SECTOR[e]] # Blank
      BY <2>2, <3>1, <1>2 DEF LogInv, EnteredHeads
    <3>3. ADDR_FLASH_SECTOR[e] \notin Target
      BY <2>2, <1>1, <1>2 DEF Target, Sectors, Addr
    <3>4. QED
      BY <3>2, <3>3, <1>2, <1>6, <1>7
  <2>3. QED
    BY <2>1, <2>2, <1>1, <1>2, <1>3 DEF Sectors, Addr
<1>11. NoGap(flash)'
  <2> SUFFICES ASSUME NEW s \in Sectors, flash'[ADDR_FLASH_SECTOR[s]] = Blank,
                      NEW a \in SectorWords(s)
               PROVE  flash'[a] = Blank
    BY DEF NoGap
  <2>1. s # e
    BY <1>10
  <2>2. QED
    BY <2>1, <1>6, <1>7, <1>8 DEF LogInv, NoGap
<1>12. EnteredHeads'
  <2> SUFFICES ASSUME NEW s \in Sectors,
                      FLASH_APP1_ADDR_0 <= ADDR_FLASH_SECTOR[s],
                      ADDR_FLASH_SECTOR[s] < WriteAddr + FlashWord
               PROVE  flash'[ADDR_FLASH_SECTOR[s]] # Blank
    BY <1>5 DEF EnteredHeads
  <2>1. CASE s = e
    BY <2>1, <1>10
  <2>2. CASE s # e
    <3>1. ADDR_FLASH_SECTOR[s] \notin Target
      BY <2>2, <1>7, <1>8
    <3>2. ADDR_FLASH_SECTOR[s] < WriteAddr
      BY <3>1, <1>1 DEF Target, Sectors, Addr
    <3>3. QED
      BY <3>1, <3>2, <1>6, <1>7 DEF LogInv, EnteredHeads
  <2>3. QED
    BY <2>1, <2>2
<1>13. ErasedAhead'
  <2> SUFFICES ASSUME NEW s \in Sectors,
                      ADDR_FLASH_SECTOR[s] < WriteAddr + FlashWord,
                      NEW a \in SectorWords(s), a >= WriteAddr + FlashWord
               PROVE  flash'[a] = Blank
    BY <1>5 DEF ErasedAhead
  <2>1. a \in Addr \ Target /\ a >= WriteAddr
    BY <1>1, <1>7 DEF Target, Addr
  <2>2. s = e
    <3>1. CASE ADDR_FLASH_SECTOR[s] <= WriteAddr
      BY <3>1, <2>1, <1>1, <1>2, <1>3, SectorUnique DEF SectorWords, Sectors, Addr
    <3>2. CASE ADDR_FLASH_SECTOR[s] > WriteAddr
      BY <3>2, <1>1, <1>7, <1>8 DEF Target, Sectors, Addr
    <3>3. QED
      BY <3>1, <3>2, <1>1 DEF Sectors, Addr
  <2>3. QED
    BY <2>1, <2>2, <1>3, <1>6
<1>14. Scanned'
  <2> SUFFICES ASSUME NEW a \in WriteAddr + FlashWord .. endaddr - 1
               PROVE  flash'[a] = Blank
    BY <1>1, <1>5 DEF Scanned
  <2>1. a \in Addr \ Target /\ a \in WriteAddr .. endaddr - 1
    BY <1>1 DEF Target, Addr, BaseInv, Buffered
  <2>2. QED
    BY <2>1, <1>1, <1>6 DEF LogInv, Scanned
<1>15. HeadsOK(pBuffer)'
  <2> SUFFICES ASSUME NEW i \in 1 .. Len(pBuffer'),
                      WriteAddr + FlashWord + i - 1 \in Heads
               PROVE  pBuffer'[i] \in HeadData
    BY <1>5 DEF HeadsOK
  <2>1. pBuffer \in Seq(Data)
    BY DEF BaseInv, TypeOK
  <2>2. Len(pBuffer') = Len(pBuffer) - FlashWord
    BY <2>1, <1>4, <1>5
  <2>3. pBuffer'[i] = pBuffer[i + FlashWord]
    BY <2>1, <2>2, <1>4, <1>5
  <2>4. i + FlashWord \in 1 .. Len(pBuffer)
    BY <2>2, <1>4
  <2>5. WriteAddr + (i + FlashWord) - 1 \in Heads
    BY <1>1 DEF Addr
  <2>6. QED
    BY <2>3, <2>4, <2>5 DEF LogInv, HeadsOK
<1>16. QED
  BY <1>11, <1>12, <1>13, <1>14, <1>15 DEF LogInv

LEMMA InvStep == Careful /\ IInv /\ [Next]_vars => IInv'
<1> SUFFICES ASSUME Careful, IInv, [Next]_vars PROVE IInv'
  OBVIOUS
<1>0. BaseInv /\ BaseInv'
  BY BaseStep DEF IInv
<1> SUFFICES ASSUME ~lateError' PROVE LogInv'
  BY <1>0 DEF IInv
(* A history variable: once TRUE it stays so. *)
<1>a. ~lateError
  BY DEF Next, vars, Call, ScanBlank, EraseSector, EraseFails, ScanDone,
     ProgramFlashWord, ProgramFails, ProgramFailsLate, ProgramDone, Reset
<1>b. LogInv
  BY <1>a DEF IInv
<1>1. ASSUME NEW n \in 1 .. MaxWords, NEW k \in 1 .. MaxWords, Holds(k, n),
             NEW buf \in [1 .. k * FlashWord -> Data], Call(n, k, buf)
      PROVE  LogInv'
  <2>1. Scanned'
    BY <1>0, <1>b, <1>1 DEF Call, Scanned, LogInv, BaseInv, TypeOK
  <2>2. HeadsOK(pBuffer)'
    BY <1>1 DEF Call, HeadsOK
  <2>3. QED
    BY <1>0, <1>b, <1>1, <2>1, <2>2
       DEF Call, LogInv, NoGap, EnteredHeads, ErasedAhead, SectorWords
<1>2. CASE ScanBlank
  <2>1. Scanned'
    BY <1>0, <1>b, <1>2 DEF ScanBlank, Scanned, LogInv, BaseInv, TypeOK
  <2>2. QED
    BY <1>0, <1>b, <1>2, <2>1
       DEF ScanBlank, LogInv, NoGap, EnteredHeads, ErasedAhead, SectorWords, HeadsOK
<1>3. CASE EraseSector
  BY <1>0, <1>b, <1>3, EraseKeepsInv
<1>4. CASE EraseFails
  BY <1>4 DEF EraseFails, Careful
<1>5. CASE ScanDone
  <2>1. Scanned'
    BY <1>0, <1>b, <1>5 DEF ScanDone, Scanned, LogInv, BaseInv, TypeOK
  <2>2. QED
    BY <1>0, <1>b, <1>5, <2>1
       DEF ScanDone, LogInv, NoGap, EnteredHeads, ErasedAhead, SectorWords, HeadsOK
<1>6. CASE ProgramFlashWord
  BY <1>0, <1>b, <1>6, ProgramKeepsInv
<1>7. ASSUME Return, UNCHANGED <<flash, WriteAddr>>
      PROVE  LogInv'
  <2>1. HeadsOK(pBuffer)' /\ Scanned'
    BY <1>7 DEF Return, HeadsOK, Scanned
  <2>2. QED
    BY <1>0, <1>b, <1>7, <2>1
       DEF Return, LogInv, NoGap, EnteredHeads, ErasedAhead, SectorWords
<1>8. CASE Reset
  <2>1. HeadsOK(pBuffer)' /\ Scanned'
    BY <1>8 DEF Reset, Return, HeadsOK, Scanned
  <2>2. EnteredHeads'
    BY <1>8, Geometry DEF Reset, EnteredHeads, Sectors
  <2>3. ErasedAhead'
    <3> SUFFICES ASSUME NEW s \in Sectors, ADDR_FLASH_SECTOR[s] < FLASH_APP1_ADDR_0,
                        NEW a \in SectorWords(s), a >= FLASH_APP1_ADDR_0
                 PROVE  FALSE
      BY <1>8 DEF Reset, ErasedAhead
    <3>1. PICK q \in Sectors \ {0} : FLASH_APP1_ADDR_0 = ADDR_FLASH_SECTOR[q]
      BY GeometryAssumption
    <3>2. s < q
      BY <3>1, SectorOrder, Geometry DEF Sectors
    <3>3. ADDR_FLASH_SECTOR[s + 1] <= ADDR_FLASH_SECTOR[q]
      BY <3>1, <3>2, SectorOrder, Geometry DEF Sectors
    <3>4. QED
      BY <3>1, <3>3, Geometry DEF SectorWords, Sectors
  <2>4. QED
    BY <1>0, <1>b, <1>8, <2>1, <2>2, <2>3 DEF Reset, LogInv, NoGap, SectorWords
<1>9. CASE ProgramFailsLate
  BY <1>9 DEF ProgramFailsLate
<1>10. CASE UNCHANGED vars
  BY <1>0, <1>b, <1>10 DEF vars, LogInv, NoGap, EnteredHeads, ErasedAhead, SectorWords,
     HeadsOK, Scanned
<1>11. QED
  BY <1>1, <1>2, <1>3, <1>4, <1>5, <1>6, <1>7, <1>8, <1>9, <1>10
     DEF Next, ProgramFails, ProgramDone

THEOREM InvCorrect == ASSUME Careful PROVE Spec => []IInv
<1>1. IInv /\ [Next]_vars => IInv'
  BY InvStep
<1>2. QED
  BY InvInit, <1>1, PTL DEF Spec

(* With the care Careful asks for, the flash word that is programmed next  *)
(* is erased, the words behind the range the scan looked at included,      *)
(* until a program operation that had written reports an error.            *)
THEOREM ProgramsErasedCorrect == ASSUME Careful PROVE Spec => []ProgramsErased
<1>1. IInv => ProgramsErased
  <2> SUFFICES ASSUME IInv, pc = "program", WriteAddr < endaddr, ~lateError
               PROVE  \A a \in Target : flash[a] = Blank
    BY DEF ProgramsErased
  <2>1. STMFLASH_GetFlashSector(WriteAddr) \in Sectors
    BY Geometry, SectorOfAddress DEF IInv, BaseInv, TypeOK, Buffered, Addr
  <2>2. QED
    BY <2>1, TargetErased DEF IInv
<1>2. QED
  BY <1>1, InvCorrect, PTL
-----------------------------------------------------------------------------
(* FlashWriter implements the append-only log of FlashImage. *)

(* What is stored stays as it is when no word of it changes. *)
LEMMA ImageKept ==
  ASSUME BaseInv, WriteAddr' = WriteAddr,
         \A a \in FLASH_APP1_ADDR_0 .. WriteAddr - 1 : flash'[a] = flash[a]
  PROVE  Image' = Image
<1>1. \A i \in 1 .. WriteAddr - FLASH_APP1_ADDR_0 :
         FLASH_APP1_ADDR_0 + i - 1 \in FLASH_APP1_ADDR_0 .. WriteAddr - 1
  BY Geometry DEF BaseInv, TypeOK
<1>2. QED
  BY <1>1 DEF Image

LEMMA EraseKeepsStored ==
  ASSUME Careful, BaseInv, LogInv, EraseSector
  PROVE  KeepsStored
<1> DEFINE e == STMFLASH_GetFlashSector(addrx)
<1>1. e \in Sectors
  BY Geometry, SectorOfAddress DEF EraseSector, BaseInv, TypeOK, Buffered, Addr
<1>2. WriteAddr <= ADDR_FLASH_SECTOR[e]
  BY <1>1, EraseAhead
<1>3. \A a \in FLASH_APP1_ADDR_0 .. WriteAddr - 1 : a \in Addr /\ a \notin SectorWords(e)
  BY SMTT(30), <1>1, <1>2, Geometry DEF BaseInv, TypeOK, Buffered, Addr, SectorWords, Sectors
<1>4. QED
  BY <1>3 DEF EraseSector, KeepsStored

LEMMA EraseKeepsImage ==
  ASSUME Careful, BaseInv, LogInv, EraseSector
  PROVE  Image' = Image
BY EraseKeepsStored, ImageKept DEF EraseSector, KeepsStored

LEMMA ProgramAppends ==
  ASSUME Careful, BaseInv, LogInv, ProgramFlashWord
  PROVE  /\ Len(pBuffer) >= FlashWord
         /\ Image' = Image \o SubSeq(pBuffer, 1, FlashWord)
<1> USE Geometry, FlashWordType
<1> DEFINE n == WriteAddr - FLASH_APP1_ADDR_0
<1>1. /\ WriteAddr \in Addr /\ n \in Nat
      /\ pc = "program" /\ WriteAddr < endaddr
      /\ pBuffer \in Seq(Data)
  BY DEF ProgramFlashWord, BaseInv, TypeOK, Buffered, Addr
<1>2. /\ Len(pBuffer) \in Nat
      /\ FlashWord <= Len(pBuffer)
      /\ WriteAddr + FlashWord <= FlashEnd
  <2>1. WriteAddr + FlashWord <= Limit /\ FlashWord <= Len(pBuffer)
    BY <1>1, RoomForFlashWord
  <2>2. QED
    BY <2>1, <1>1 DEF Addr
<1>3. STMFLASH_GetFlashSector(WriteAddr) \in Sectors
  BY <1>1, SectorOfAddress
<1>4. \A a \in Target : flash[a] = Blank
  BY <1>1, <1>3, TargetErased
<1>5. /\ flash' = [a \in Addr |-> IF a \notin Target THEN flash[a]
                                 ELSE pBuffer[a - WriteAddr + 1]]
      /\ WriteAddr' = WriteAddr + FlashWord
  BY <1>4 DEF ProgramFlashWord, Programmed
<1>6. Image' = [i \in 1 .. n + FlashWord |-> flash'[FLASH_APP1_ADDR_0 + i - 1]]
  BY <1>1, <1>5 DEF Image, Addr
<1>7. ASSUME NEW i \in 1 .. n
      PROVE  Image'[i] = flash[FLASH_APP1_ADDR_0 + i - 1]
  <2>1. FLASH_APP1_ADDR_0 + i - 1 \in Addr \ Target
    BY <1>1, <1>7 DEF Addr, Target
  <2>2. QED
    BY <2>1, <1>1, <1>5, <1>6
<1>8. ASSUME NEW i \in n + 1 .. n + FlashWord
      PROVE  Image'[i] = pBuffer[i - n]
  <2>1. FLASH_APP1_ADDR_0 + i - 1 \in Addr /\ FLASH_APP1_ADDR_0 + i - 1 \in Target
    BY <1>1, <1>2, <1>8 DEF Addr, Target
  <2>2. (FLASH_APP1_ADDR_0 + i - 1) - WriteAddr + 1 = i - n
    BY <1>1, <1>8 DEF Addr
  <2>3. QED
    BY <2>1, <2>2, <1>1, <1>5, <1>6
<1> DEFINE head == SubSeq(pBuffer, 1, FlashWord)
<1>9. /\ head \in Seq(Word) /\ Len(head) = FlashWord
      /\ \A j \in 1 .. FlashWord : head[j] = pBuffer[j]
  BY <1>1, <1>2 DEF Word
<1>10. /\ Image \in Seq(Word) /\ Len(Image) = n
       /\ \A i \in 1 .. n : Image[i] = flash[FLASH_APP1_ADDR_0 + i - 1]
  <2>1. \A i \in 1 .. n : flash[FLASH_APP1_ADDR_0 + i - 1] \in Word
    BY <1>1 DEF BaseInv, TypeOK, Addr
  <2>2. QED
    BY <1>1, <2>1 DEF Image
<1>11. \A i \in 1 .. n + FlashWord : Image'[i] \in Word
  <2>1. \A i \in 1 .. n : Image'[i] \in Word
    BY <1>7, <1>1 DEF BaseInv, TypeOK, Addr
  <2>2. \A i \in n + 1 .. n + FlashWord : Image'[i] \in Word
    BY <1>8, <1>1, <1>2 DEF Word
  <2>3. QED
    BY <2>1, <2>2, <1>1
<1> HIDE DEF head, n
<1>12. /\ Image' \in Seq(Word) /\ Len(Image') = n + FlashWord
  BY <1>1, <1>6, <1>11
<1>13. /\ Image \o head \in Seq(Word)
       /\ Len(Image \o head) = n + FlashWord
       /\ \A i \in 1 .. n + FlashWord :
             (Image \o head)[i] = IF i <= n THEN Image[i] ELSE head[i - n]
  BY ZenonT(60), <1>9, <1>10, ConcatProperties
<1>14. \A i \in 1 .. n + FlashWord : Image'[i] = (Image \o head)[i]
  <2>1. ASSUME NEW i \in 1 .. n PROVE Image'[i] = (Image \o head)[i]
    <3>1. i \in 1 .. n + FlashWord /\ i <= n
      BY <1>1, <2>1
    <3>2. (Image \o head)[i] = Image[i]
      BY <1>13, <3>1
    <3>3. Image[i] = flash[FLASH_APP1_ADDR_0 + i - 1]
      BY <1>10, <2>1
    <3>4. Image'[i] = flash[FLASH_APP1_ADDR_0 + i - 1]
      BY <1>7, <2>1
    <3>5. QED
      BY <3>2, <3>3, <3>4
  <2>2. ASSUME NEW i \in n + 1 .. n + FlashWord PROVE Image'[i] = (Image \o head)[i]
    <3>1. i - n \in 1 .. FlashWord /\ ~ (i <= n) /\ i \in 1 .. n + FlashWord
      BY <1>1, <2>2
    <3>2. QED
      BY <1>8, <1>9, <1>13, <2>2, <3>1
  <2>3. \A i \in 1 .. n + FlashWord : i \in 1 .. n \/ i \in n + 1 .. n + FlashWord
    BY <1>1
  <2>4. QED
    BY <2>1, <2>2, <2>3
<1>15. Image' = Image \o head
  BY <1>12, <1>13, <1>14, SeqEqual
<1>16. QED
  BY <1>2, <1>15 DEF head

LEMMA ImplementsInit == Init => Log!Init
<1> SUFFICES ASSUME Init PROVE Log!Init
  OBVIOUS
<1>1. Image = << >>
  BY Geometry DEF Init, Image
<1>2. QED
  BY <1>1 DEF Init, Log!Init

LEMMA ImplementsStep ==
  ASSUME Careful, IInv, [Next]_vars
  PROVE  [Log!Next]_(Log!vars)
<1> USE Geometry, FlashWordType
<1>0. BaseInv /\ (~lateError => LogInv) /\ lateError \in BOOLEAN
  BY DEF IInv, BaseInv, TypeOK
(* Once broken the log promises nothing. *)
<1>1. CASE lateError
  <2>1. lateError'
    BY <1>1 DEF Next, vars, Call, ScanBlank, EraseSector, EraseFails, ScanDone,
       ProgramFlashWord, ProgramFails, ProgramFailsLate, ProgramDone, Reset
  <2>2. QED
    BY <1>1, <2>1 DEF Log!Next
<1>2. CASE ~lateError
  <2>1. LogInv
    BY <1>0, <1>2
  <2>2. ASSUME NEW n \in 1 .. MaxWords, NEW k \in 1 .. MaxWords, Holds(k, n),
               NEW buf \in [1 .. k * FlashWord -> Data], Call(n, k, buf)
        PROVE  Log!Next
    <3>1. k \in Nat /\ k > 0 /\ k * FlashWord \in Nat
      BY <2>2, GeometryAssumption
    <3>2. k * FlashWord > 0
      BY <3>1, TimesAtLeast
    <3>3. buf \in Seq(Data) /\ Len(buf) = k * FlashWord
      BY <2>2, <3>1
    <3>4. buf # << >>
      BY <3>2, <3>3
    <3>5. Image' = Image
      BY <1>0, <2>2, ImageKept DEF Call
    <3>6. Log!Submit
      BY <1>0, <2>2, <3>3, <3>4, <3>5 DEF Call, Log!Submit, BaseInv, Buffered
    <3>7. QED
      BY <1>2, <2>2, <3>6 DEF Call, Log!Next
  <2>3. CASE EraseSector
    <3>1. Image' = Image
      BY <1>0, <2>1, <2>3, EraseKeepsImage
    <3>2. QED
      BY <2>3, <3>1 DEF EraseSector, Log!vars
  <2>4. CASE ScanBlank \/ ScanDone \/ EraseFails
    <3>1. Image' = Image
      BY <1>0, <2>4, ImageKept DEF ScanBlank, ScanDone, EraseFails
    <3>2. QED
      BY <2>4, <3>1 DEF ScanBlank, ScanDone, EraseFails, Log!vars
  <2>5. CASE ProgramFlashWord
    <3>1. /\ Len(pBuffer) >= FlashWord
          /\ Image' = Image \o SubSeq(pBuffer, 1, FlashWord)
      BY <1>0, <2>1, <2>5, ProgramAppends
    <3>2. QED
      BY <1>2, <2>5, <3>1 DEF ProgramFlashWord, Log!Next, Log!Append1
  <2>6. CASE ProgramFails \/ ProgramDone
    <3>1. Image' = Image
      BY <1>0, <2>6, ImageKept DEF ProgramFails, ProgramDone
    <3>2. QED
      BY <1>2, <2>6, <3>1
         DEF ProgramFails, ProgramDone, Return, Log!Next, Log!Abandon
  <2>7. CASE ProgramFailsLate
    <3>1. Image' = Image
      <4>1. \A a \in FLASH_APP1_ADDR_0 .. WriteAddr - 1 : a \in Addr \ Target
        BY <1>0 DEF Target, Addr, BaseInv, TypeOK, Buffered
      <4>2. \A a \in FLASH_APP1_ADDR_0 .. WriteAddr - 1 : flash'[a] = flash[a]
        BY <2>7, <4>1 DEF ProgramFailsLate, Programmed
      <4>3. QED
        BY <1>0, <2>7, <4>2, ImageKept DEF ProgramFailsLate
    <3>2. QED
      BY <1>2, <2>7, <3>1
         DEF ProgramFailsLate, Return, Log!Next, Log!Break, Log!Abandon
  <2>8. CASE Reset
    <3>1. Image' = << >>
      BY <2>8 DEF Reset, Image
    <3>2. QED
      BY <1>2, <2>8, <3>1 DEF Reset, Return, Log!Next, Log!Restart
  <2>9. CASE UNCHANGED vars
    <3>1. Image' = Image
      BY <1>0, <2>9, ImageKept DEF vars
    <3>2. QED
      BY <2>9, <3>1 DEF vars, Log!vars
  <2>10. QED
    BY <2>2, <2>3, <2>4, <2>5, <2>6, <2>7, <2>8, <2>9 DEF Next
<1>3. QED
  BY <1>0, <1>1, <1>2

(* With the care Careful asks for, STMFLASH_Write is an append-only log:   *)
(* every block goes behind the one before, with the caller's words, and    *)
(* nothing that was stored is erased or programmed again before a reset.   *)
(* Errors reported before a word is written and resets do not end this; an *)
(* error reported after it was written does (see StoredKept).              *)
THEOREM Implements == ASSUME Careful PROVE Spec => ImplementsLog
<1>1. IInv /\ [Next]_vars => [Log!Next]_(Log!vars)
  BY ImplementsStep
<1>2. QED
  BY ImplementsInit, <1>1, InvCorrect, PTL DEF Spec, ImplementsLog, Log!Spec

(* With the care Careful asks for, no erase hits a word of the image that  *)
(* is being stored, the sector the scan erases has not been entered yet,   *)
(* as long as no program operation has reported an error after it wrote.   *)
THEOREM StoredUntilLateErrorCorrect ==
  ASSUME Careful PROVE Spec => StoredUntilLateError
<1>1. IInv => [EraseSector /\ ~lateError => KeepsStored]_vars
  BY EraseKeepsStored DEF IInv
<1>2. QED
  BY <1>1, InvCorrect, PTL DEF StoredUntilLateError
=============================================================================
