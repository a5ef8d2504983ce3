------------------------- MODULE EthernetIf_proofs --------------------------
(***************************************************************************)
(* Theorems about EthernetIf, for rings and pools of every size.           *)
(***************************************************************************)
EXTENDS EthernetIf, SequenceTheorems, FiniteSetTheorems, TLAPS

-----------------------------------------------------------------------------
(* Remainders. *)
LEMMA DivMod ==
  ASSUME NEW n \in Int, NEW d \in Nat \ {0}
  PROVE  n \div d \in Int /\ n % d \in 0 .. d - 1 /\ n = d * (n \div d) + (n % d)
<1>1. n % d \in 0 .. d - 1
  BY SMT
<1>2. n \div d \in Int
  BY SMT
<1>3. n = d * (n \div d) + (n % d)
  BY SMT
<1>4. QED
  BY <1>1, <1>2, <1>3

LEMMA Remainder ==
  ASSUME NEW d \in Nat \ {0}, NEW q \in Int, NEW r \in 0 .. d - 1
  PROVE  (d * q + r) % d = r
<1> DEFINE n == d * q + r
           k == n \div d
           s == n % d
<1>1. n \in Int
  OBVIOUS
<1>2. k \in Int /\ s \in 0 .. d - 1 /\ n = d * k + s
  BY <1>1, DivMod
<1> HIDE DEF k, s
<1>3. d * (q - k) = s - r
  BY <1>2
<1>4. CASE q - k >= 1
  <2>1. d * (q - k) >= d
    BY <1>2, <1>4
  <2>2. QED
    BY <1>2, <1>3, <2>1
<1>5. CASE q - k <= -1
  <2>1. d * (q - k) <= -d
    BY <1>2, <1>5
  <2>2. QED
    BY <1>2, <1>3, <2>1
<1>6. CASE q = k
  BY <1>2, <1>3, <1>6 DEF s
<1>7. QED
  BY <1>2, <1>4, <1>5, <1>6

LEMMA NextRemainder ==
  ASSUME NEW n \in Int, NEW d \in Nat \ {0}
  PROVE  ((n % d) + 1) % d = (n + 1) % d
<1> DEFINE q == n \div d
           r == n % d
<1>1. q \in Int /\ r \in 0 .. d - 1 /\ n = d * q + r
  BY DivMod
<1> HIDE DEF q, r
<1>2. CASE r + 1 < d
  <2>1. r + 1 \in 0 .. d - 1 /\ n + 1 = d * q + (r + 1) /\ r + 1 = d * 0 + (r + 1)
    BY <1>1, <1>2
  <2>2. (n + 1) % d = r + 1
    BY <1>1, <2>1, Remainder
  <2>3. (r + 1) % d = r + 1
    BY <2>1, Remainder
  <2>4. QED
    BY <2>2, <2>3 DEF r
<1>3. CASE r + 1 = d
  <2>1. 0 \in 0 .. d - 1 /\ n + 1 = d * (q + 1) + 0 /\ r + 1 = d * 1 + 0 /\ q + 1 \in Int
    BY <1>1, <1>3
  <2>2. (n + 1) % d = 0
    BY <2>1, Remainder
  <2>3. (r + 1) % d = 0
    BY <2>1, Remainder
  <2>4. QED
    BY <2>2, <2>3 DEF r
<1>4. QED
  BY <1>1, <1>2, <1>3

LEMMA AddRing ==
  ASSUME NEW n \in Int, NEW d \in Nat \ {0}
  PROVE  (n + d) % d = n % d
<1> DEFINE q == n \div d
           r == n % d
<1>1. q \in Int /\ r \in 0 .. d - 1 /\ n = d * q + r
  BY DivMod
<1> HIDE DEF q, r
<1>2. n + d = d * (q + 1) + r /\ q + 1 \in Int
  BY <1>1
<1>3. (n + d) % d = r
  BY <1>1, <1>2, Remainder
<1>4. QED
  BY <1>3 DEF r

(* Numbers less than a ring apart have different remainders. *)
LEMMA Different ==
  ASSUME NEW d \in Nat \ {0}, NEW a \in Int, NEW b \in Int, a < b, b < a + d
  PROVE  a % d # b % d
<1> DEFINE p == a \div d
           q == b \div d
           r == a % d
           s == b % d
<1>1. /\ p \in Int /\ r \in 0 .. d - 1 /\ a = d * p + r
      /\ q \in Int /\ s \in 0 .. d - 1 /\ b = d * q + s
  BY DivMod
<1> HIDE DEF p, q, r, s
<1>2. SUFFICES ASSUME r = s PROVE FALSE
  BY DEF r, s
<1>3. d * (q - p) = b - a
  BY <1>1, <1>2
<1>4. CASE q - p >= 1
  <2>1. d * (q - p) >= d
    BY <1>1, <1>4
  <2>2. QED
    BY <1>3, <2>1
<1>5. CASE q - p <= 0
  <2>1. d * (q - p) <= 0
    BY <1>1, <1>5
  <2>2. QED
    BY <1>3, <2>1
<1>6. QED
  BY <1>1, <1>4, <1>5

(* A remainder may be taken early. *)
LEMMA Reduce ==
  ASSUME NEW n \in Int, NEW b \in Int, NEW d \in Nat \ {0}
  PROVE  ((n % d) + b) % d = (n + b) % d
<1> DEFINE q == n \div d
           r == n % d
           k == (n + b) \div d
           s == (n + b) % d
<1>1. /\ q \in Int /\ r \in 0 .. d - 1 /\ n = d * q + r
      /\ n + b \in Int /\ k \in Int /\ s \in 0 .. d - 1 /\ n + b = d * k + s
  BY DivMod
<1> HIDE DEF q, r, k, s
<1>2. d * (k - q) = d * k - d * q /\ d * k \in Int /\ d * q \in Int /\ k - q \in Int
  BY <1>1
<1>3. r + b = d * (k - q) + s
  BY <1>1, <1>2
<1>4. (r + b) % d = s
  BY <1>1, <1>2, <1>3, Remainder
<1>5. QED
  BY <1>4 DEF r, s

LEMMA SmallRemainder ==
  ASSUME NEW d \in Nat \ {0}, NEW n \in 0 .. d - 1
  PROVE  n % d = n
<1>1. n = d * 0 + n
  OBVIOUS
<1>2. QED
  BY <1>1, Remainder

LEMMA Sizes ==
  /\ ETH_RX_DESC_CNT \in Nat \ {0} /\ ETH_RX_DESC_CNT > 1
  /\ ETH_TX_DESC_CNT \in Nat \ {0} /\ ETH_TX_DESC_CNT > 1
  /\ \A n \in Int : n % ETH_RX_DESC_CNT \in RxDesc /\ n % ETH_TX_DESC_CNT \in TxDesc
  /\ \A n \in Int : BufferOf(n) \in RxDesc
<1>1. /\ ETH_RX_DESC_CNT \in Nat \ {0} /\ ETH_RX_DESC_CNT > 1
      /\ ETH_TX_DESC_CNT \in Nat \ {0} /\ ETH_TX_DESC_CNT > 1
  BY EthAssumption
<1>2. \A n \in Int : n % ETH_RX_DESC_CNT \in RxDesc /\ n % ETH_TX_DESC_CNT \in TxDesc
  BY <1>1, DivMod DEF RxDesc, TxDesc
<1>3. \A n \in Int : BufferOf(n) \in RxDesc
  BY <1>2 DEF BufferOf
<1>4. QED
  BY <1>1, <1>2, <1>3

(* Frames less than a ring apart lie in different buffers, and the ring    *)
(* comes round after ETH_RX_DESC_CNT frames.                               *)
LEMMA Buffers ==
  ASSUME NEW n \in Int
  PROVE  /\ \A m \in Int : n < m /\ m < n + ETH_RX_DESC_CNT => BufferOf(n) # BufferOf(m)
         /\ BufferOf(n + ETH_RX_DESC_CNT) = BufferOf(n)
         /\ INCR_RX_DESC_INDEX(BufferOf(n)) = BufferOf(n + 1)
<1>1. ASSUME NEW m \in Int, n < m, m < n + ETH_RX_DESC_CNT
      PROVE  BufferOf(n) # BufferOf(m)
  <2>1. n - 1 \in Int /\ m - 1 \in Int /\ n - 1 < m - 1 /\ m - 1 < (n - 1) + ETH_RX_DESC_CNT
    BY <1>1, Sizes
  <2>2. QED
    BY <2>1, Sizes, Different DEF BufferOf
<1>2. BufferOf(n + ETH_RX_DESC_CNT) = BufferOf(n)
  <2>1. (n + ETH_RX_DESC_CNT) - 1 = (n - 1) + ETH_RX_DESC_CNT /\ n - 1 \in Int
    BY Sizes
  <2>2. QED
    BY <2>1, Sizes, AddRing DEF BufferOf
<1>3. INCR_RX_DESC_INDEX(BufferOf(n)) = BufferOf(n + 1)
  <2>1. (n - 1) + 1 = (n + 1) - 1 /\ n - 1 \in Int
    OBVIOUS
  <2>2. (((n - 1) % ETH_RX_DESC_CNT) + 1) % ETH_RX_DESC_CNT = ((n - 1) + 1) % ETH_RX_DESC_CNT
    BY <2>1, Sizes, NextRemainder
  <2>3. QED
    BY <2>1, <2>2 DEF BufferOf, INCR_RX_DESC_INDEX
<1>4. QED
  BY <1>1, <1>2, <1>3

-----------------------------------------------------------------------------
(* The receive ring. *)
RxType ==
  /\ pc \in {"idle", "build", "alloc", "read", "handle", "transmit"}
  /\ back \in {"idle", "handle"}
  /\ own \in [RxDesc -> {"cpu", "dma"}] /\ buf \in [RxDesc -> 0 .. MaxFrames]
  /\ {CurRxDesc, FirstAppDesc, dmaRx} \subseteq RxDesc /\ AppDescNbr \in 0 .. 1
  /\ arrived \in 0 .. MaxFrames /\ taken \in 0 .. MaxFrames

RxAll == RxType /\ RxInv /\ RxRingAgrees

LEMMA RxInit == Init => RxAll
<1> SUFFICES ASSUME Init PROVE RxAll
  OBVIOUS
<1>1. BufferOf(1) = 0
  <2>1. 0 \in 0 .. ETH_RX_DESC_CNT - 1 /\ 1 - 1 = 0
    BY Sizes
  <2>2. QED
    BY <2>1, Sizes, SmallRemainder DEF BufferOf
<1>2. 0 \in RxDesc
  BY Sizes DEF RxDesc
<1>3. RxType
  BY <1>2, EthAssumption DEF Init, RxType
<1>4. Waiting = {} /\ taken = 0 /\ arrived = 0 /\ FirstWaiting = 1
  BY DEF Init, Waiting, FirstWaiting
<1>5. RxInv
  BY <1>4, Sizes DEF Init, RxInv
<1>6. RxRingAgrees
  BY <1>1, <1>4 DEF Init, RxRingAgrees
<1>7. QED
  BY <1>3, <1>5, <1>6 DEF RxAll

(* Steps that leave the ring alone. *)
LEMMA RxSame ==
  ASSUME RxAll, UNCHANGED rxRing,
         pc' \in {"idle", "build", "alloc", "read", "handle", "transmit"},
         back' \in {"idle", "handle"},
         pc' = "build" <=> pc = "build",
         pc' \in {"alloc", "read"} => pc \in {"alloc", "read"}
  PROVE  RxAll'
<1>1. RxType'
  BY DEF RxAll, RxType, rxRing
<1>2. FirstWaiting' = FirstWaiting /\ Waiting' = Waiting
  BY DEF FirstWaiting, Waiting, rxRing
<1>3. RxInv'
  BY <1>2 DEF RxAll, RxType, RxInv, rxRing, BufferOf
<1>4. RxRingAgrees'
  BY <1>2 DEF RxAll, RxRingAgrees, rxRing, BufferOf
<1>5. QED
  BY <1>1, <1>3, <1>4 DEF RxAll

LEMMA RxTake ==
  ASSUME RxAll, HAL_ETH_IsRxDataAvailable
  PROVE  RxAll' /\ taken < arrived
<1> USE DEF RxAll, RxType
<1>1. /\ pc = "idle" /\ pc' = "build" /\ AppDescNbr' = 1 /\ taken' = taken + 1
      /\ own[CurRxDesc] = "cpu" /\ FirstAppDesc' = CurRxDesc
      /\ CurRxDesc' = INCR_RX_DESC_INDEX(CurRxDesc)
      /\ UNCHANGED <<back, own, buf, dmaRx, arrived>>
  BY DEF HAL_ETH_IsRxDataAvailable, Ready
<1>2. FirstWaiting = taken + 1 /\ FirstWaiting' = taken + 1 /\ Waiting' = Waiting
  BY <1>1 DEF FirstWaiting, Waiting
<1>3. PICK n \in Waiting : BufferOf(n) = CurRxDesc
  BY <1>1 DEF RxRingAgrees
<1>4. taken + 1 <= arrived /\ taken + 1 \in Waiting
  BY <1>2, <1>3 DEF Waiting
<1>5. CurRxDesc = BufferOf(taken + 1) /\ CurRxDesc' = BufferOf(taken' + 1)
  BY <1>1, Buffers DEF RxRingAgrees
<1>6. RxType'
  <2>1. taken' \in 0 .. MaxFrames /\ taken' + 1 \in Int
    BY <1>1, <1>4, EthAssumption
  <2>2. CurRxDesc' \in RxDesc
    BY <1>5, <2>1, Sizes
  <2>3. QED
    BY <1>1, <2>1, <2>2
<1>7. buf[BufferOf(taken + 1)] = taken + 1
  BY <1>4 DEF RxRingAgrees
<1>8. arrived < taken + 1 + ETH_RX_DESC_CNT
  BY <1>2 DEF RxInv
<1>9. RxInv'
  BY <1>1, <1>2, <1>4, <1>5, <1>7, <1>8 DEF RxInv, BufferOf
<1>10. RxRingAgrees'
  BY <1>1, <1>2, <1>5 DEF RxRingAgrees, BufferOf
<1>11. QED
  BY <1>4, <1>6, <1>9, <1>10

LEMMA RxBuild ==
  ASSUME RxAll, HAL_ETH_BuildRxDescriptors
  PROVE  RxAll'
<1> USE DEF RxAll, RxType
<1>1. /\ pc = "build" /\ pc' = "alloc" /\ AppDescNbr' = 0
      /\ own' = [own EXCEPT ![FirstAppDesc] = "dma"]
      /\ UNCHANGED <<back, buf, CurRxDesc, FirstAppDesc, dmaRx, arrived, taken>>
  BY DEF HAL_ETH_BuildRxDescriptors, BuiltDesc, AppDone
<1>2. FirstAppDesc = BufferOf(taken) /\ FirstWaiting = taken /\ FirstWaiting' = taken + 1
  BY <1>1 DEF RxInv, FirstWaiting
<1>3. arrived < taken + ETH_RX_DESC_CNT
  BY <1>2 DEF RxInv
<1>4. Waiting = taken .. arrived /\ Waiting' = taken + 1 .. arrived /\ taken \in Waiting
  BY <1>1, <1>2 DEF Waiting, RxInv
<1>5. \A n \in Waiting' : n \in Waiting /\ BufferOf(n) # BufferOf(taken)
  <2> SUFFICES ASSUME NEW n \in Waiting' PROVE n \in Waiting /\ BufferOf(n) # BufferOf(taken)
    OBVIOUS
  <2>1. n \in Int /\ taken \in Int /\ taken < n /\ n < taken + ETH_RX_DESC_CNT
    BY <1>3, <1>4, Sizes
  <2>2. QED
    BY <1>4, <2>1, Buffers
<1>6. RxType'
  BY <1>1
<1>7. RxInv'
  BY <1>1, <1>2, <1>3, Sizes DEF RxInv, BufferOf
<1>8. RxRingAgrees'
  <2>1. \A i \in RxDesc : own'[i] = "cpu" <=> \E n \in Waiting' : BufferOf(n) = i
    <3> SUFFICES ASSUME NEW i \in RxDesc
                 PROVE  own'[i] = "cpu" <=> \E n \in Waiting' : BufferOf(n) = i
      OBVIOUS
    <3>1. CASE i = BufferOf(taken)
      BY <1>1, <1>2, <1>5, <3>1
    <3>2. CASE i # BufferOf(taken)
      <4>1. own'[i] = own[i]
        BY <1>1, <1>2, <3>2
      <4>2. own[i] = "cpu" <=> \E n \in Waiting : BufferOf(n) = i
        BY DEF RxRingAgrees
      <4>3. \A n \in Waiting : n = taken \/ n \in Waiting'
        BY <1>4
      <4>4. QED
        BY <4>1, <4>2, <4>3, <1>5, <3>2
    <3>3. QED
      BY <3>1, <3>2
  <2>2. \A n \in Waiting' : buf'[BufferOf(n)] = n
    BY <1>1, <1>5 DEF RxRingAgrees
  <2>3. QED
    BY <1>1, <2>1, <2>2 DEF RxRingAgrees, BufferOf
<1>9. QED
  BY <1>6, <1>7, <1>8

LEMMA RxReceive ==
  ASSUME RxAll, DmaReceive
  PROVE  RxAll'
<1> USE DEF RxAll, RxType
<1> DEFINE a == arrived + 1
<1>1. /\ arrived < MaxFrames /\ own[dmaRx] = "dma" /\ arrived' = a
      /\ buf' = [buf EXCEPT ![dmaRx] = a] /\ own' = [own EXCEPT ![dmaRx] = "cpu"]
      /\ dmaRx' = INCR_RX_DESC_INDEX(dmaRx)
      /\ UNCHANGED <<pc, back, CurRxDesc, FirstAppDesc, AppDescNbr, taken>>
  BY DEF DmaReceive
<1>2. dmaRx = BufferOf(a) /\ dmaRx' = BufferOf(a + 1) /\ a \in Nat /\ a <= MaxFrames
  BY <1>1, Buffers, EthAssumption DEF RxRingAgrees
<1>3. \A n \in Waiting : BufferOf(n) # BufferOf(a)
  BY <1>1, <1>2 DEF RxRingAgrees
<1>4. FirstWaiting \in Nat /\ FirstWaiting' = FirstWaiting /\ FirstWaiting <= taken + 1
  BY <1>1 DEF FirstWaiting
<1>5. a < FirstWaiting + ETH_RX_DESC_CNT
  <2> SUFFICES ASSUME a = FirstWaiting + ETH_RX_DESC_CNT PROVE FALSE
    BY <1>4, Sizes DEF RxInv
  <2>1. FirstWaiting \in Waiting
    BY <1>4, Sizes DEF Waiting
  <2>2. BufferOf(FirstWaiting + ETH_RX_DESC_CNT) = BufferOf(FirstWaiting)
    BY <1>4, Buffers
  <2>3. QED
    BY <1>3, <2>1, <2>2
<1>6. Waiting' = Waiting \cup {a}
  <2>1. taken <= arrived
    BY DEF RxInv
  <2>2. Waiting = FirstWaiting .. arrived /\ Waiting' = FirstWaiting .. a
    BY <1>1, <1>4 DEF Waiting
  <2>3. FirstWaiting .. a = (FirstWaiting .. arrived) \cup {a}
    BY <1>4, <2>1
  <2>4. QED
    BY <2>2, <2>3
<1>7. RxType'
  <2>1. a \in 0 .. MaxFrames /\ a + 1 \in Int
    BY <1>2, EthAssumption
  <2>2. dmaRx' \in RxDesc
    BY <1>2, <2>1, Sizes
  <2>3. buf' \in [RxDesc -> 0 .. MaxFrames] /\ own' \in [RxDesc -> {"cpu", "dma"}]
    BY <1>1, <2>1
  <2>4. QED
    BY <1>1, <2>1, <2>2, <2>3
<1>8. RxInv'
  <2>1. ASSUME pc \in {"build", "alloc", "read"}
        PROVE  buf'[BufferOf(taken)] = IF a < taken + ETH_RX_DESC_CNT
                                       THEN taken ELSE taken + ETH_RX_DESC_CNT
    <3>1. taken >= 1 /\ taken \in Int /\ a \in Int
          /\ buf[BufferOf(taken)] = IF arrived < taken + ETH_RX_DESC_CNT
                                    THEN taken ELSE taken + ETH_RX_DESC_CNT
      BY <2>1, <1>2 DEF RxInv
    <3>2. BufferOf(taken) \in RxDesc
      BY <3>1, Sizes
    <3>3. CASE a < taken + ETH_RX_DESC_CNT
      <4>1. BufferOf(taken) # BufferOf(a)
        BY <3>1, <3>3, Buffers DEF RxInv
      <4>2. arrived < taken + ETH_RX_DESC_CNT
        BY <3>1, <3>3, Sizes
      <4>3. QED
        BY <1>1, <1>2, <3>1, <3>2, <3>3, <4>1, <4>2
    <3>4. CASE ~(a < taken + ETH_RX_DESC_CNT)
      <4>1. a = taken + ETH_RX_DESC_CNT
        BY <1>4, <1>5, <3>1, <3>4, Sizes
      <4>2. BufferOf(a) = BufferOf(taken)
        BY <3>1, <4>1, Buffers
      <4>3. QED
        BY <1>1, <1>2, <3>2, <3>4, <4>1, <4>2
    <3>5. QED
      BY <3>3, <3>4
  <2>2. QED
    BY <1>1, <1>2, <1>4, <1>5, <2>1 DEF RxInv, BufferOf
<1>9. RxRingAgrees'
  <2>1. \A i \in RxDesc : own'[i] = "cpu" <=> \E n \in Waiting' : BufferOf(n) = i
    <3> SUFFICES ASSUME NEW i \in RxDesc
                 PROVE  own'[i] = "cpu" <=> \E n \in Waiting' : BufferOf(n) = i
      OBVIOUS
    <3>1. own[i] = "cpu" <=> \E n \in Waiting : BufferOf(n) = i
      BY DEF RxRingAgrees
    <3>2. QED
      BY <1>1, <1>2, <1>6, <3>1
  <2>2. \A n \in Waiting' : buf'[BufferOf(n)] = n
    <3> SUFFICES ASSUME NEW n \in Waiting' PROVE buf'[BufferOf(n)] = n
      OBVIOUS
    <3>1. n \in Int
      BY <1>1, <1>2, <1>4 DEF Waiting
    <3>2. BufferOf(n) \in RxDesc
      BY <3>1, Sizes
    <3>3. n \in Waiting => buf[BufferOf(n)] = n
      BY DEF RxRingAgrees
    <3>4. QED
      BY <1>1, <1>2, <1>3, <1>6, <3>2, <3>3
  <2>3. QED
    BY <1>1, <1>2, <2>1, <2>2 DEF RxRingAgrees, BufferOf
<1>10. QED
  BY <1>7, <1>8, <1>9

-----------------------------------------------------------------------------
(* The send ring. *)
Pos(x, d) == (d - x) % ETH_TX_DESC_CNT

(* A descriptor is its distance from any other. *)
LEMMA Positions ==
  ASSUME NEW x \in TxDesc
  PROVE  /\ \A j \in Int : INCR_TX_DESC_INDEX(x, j) \in TxDesc
         /\ \A d \in TxDesc : /\ Pos(x, d) \in 0 .. ETH_TX_DESC_CNT - 1
                              /\ INCR_TX_DESC_INDEX(x, Pos(x, d)) = d
         /\ \A j \in 0 .. ETH_TX_DESC_CNT - 1 : Pos(x, INCR_TX_DESC_INDEX(x, j)) = j
         /\ INCR_TX_DESC_INDEX(x, ETH_TX_DESC_CNT) = x /\ INCR_TX_DESC_INDEX(x, 0) = x
         /\ \A j \in Int, i \in Int :
               INCR_TX_DESC_INDEX(INCR_TX_DESC_INDEX(x, j), i) = INCR_TX_DESC_INDEX(x, j + i)
<1> DEFINE M == ETH_TX_DESC_CNT
<1>1. M \in Nat \ {0} /\ x \in 0 .. M - 1 /\ x \in Int
  BY Sizes DEF TxDesc
<1>2. ASSUME NEW j \in Int PROVE INCR_TX_DESC_INDEX(x, j) \in TxDesc
  <2>1. x + j \in Int
    BY <1>1
  <2>2. (x + j) % M \in TxDesc
    BY <2>1, Sizes
  <2>3. QED
    BY <2>2 DEF INCR_TX_DESC_INDEX
<1>3. ASSUME NEW d \in TxDesc
      PROVE  Pos(x, d) \in 0 .. M - 1 /\ INCR_TX_DESC_INDEX(x, Pos(x, d)) = d
  <2>1. d \in 0 .. M - 1 /\ d - x \in Int
    BY <1>1 DEF TxDesc
  <2>2. Pos(x, d) \in 0 .. M - 1
    BY <1>1, <2>1, DivMod DEF Pos
  <2>3. (((d - x) % M) + x) % M = ((d - x) + x) % M
    BY <1>1, <2>1, Reduce
  <2>4. (d - x) + x = d /\ x + Pos(x, d) = Pos(x, d) + x
    BY <1>1, <2>1, <2>2
  <2>5. d % M = d
    BY <1>1, <2>1, SmallRemainder
  <2>6. QED
    BY <2>2, <2>3, <2>4, <2>5 DEF Pos, INCR_TX_DESC_INDEX
<1>4. ASSUME NEW j \in 0 .. M - 1
      PROVE  Pos(x, INCR_TX_DESC_INDEX(x, j)) = j
  <2>1. x + j \in Int /\ (x + j) + (-x) = j /\ -x \in Int
    BY <1>1
  <2>2. (((x + j) % M) + (-x)) % M = ((x + j) + (-x)) % M
    BY <1>1, <2>1, Reduce
  <2>3. (x + j) % M \in Int
    BY <1>1, <2>1, DivMod
  <2>4. ((x + j) % M) - x = ((x + j) % M) + (-x)
    BY <1>1, <2>3
  <2>5. j % M = j
    BY <1>1, SmallRemainder
  <2>6. Pos(x, INCR_TX_DESC_INDEX(x, j)) = (((x + j) % M) - x) % M
    BY DEF Pos, INCR_TX_DESC_INDEX
  <2>7. (((x + j) % M) - x) % M = ((x + j) + (-x)) % M
    BY <2>2, <2>4, Zenon
  <2>8. ((x + j) + (-x)) % M = j % M
    BY <2>1, Zenon
  <2>9. QED
    BY <2>5, <2>6, <2>7, <2>8, Zenon
<1>5. INCR_TX_DESC_INDEX(x, M) = x /\ INCR_TX_DESC_INDEX(x, 0) = x
  <2>1. (x + M) % M = x % M
    BY <1>1, AddRing
  <2>2. x % M = x
    BY <1>1, SmallRemainder
  <2>3. x + 0 = x
    BY <1>1
  <2>4. QED
    BY <2>1, <2>2, <2>3 DEF INCR_TX_DESC_INDEX
<1>6. ASSUME NEW j \in Int, NEW i \in Int
      PROVE  INCR_TX_DESC_INDEX(INCR_TX_DESC_INDEX(x, j), i) = INCR_TX_DESC_INDEX(x, j + i)
  <2>1. x + j \in Int /\ (x + j) + i = x + (j + i)
    BY <1>1
  <2>2. (((x + j) % M) + i) % M = ((x + j) + i) % M
    BY <1>1, <2>1, Reduce
  <2>3. QED
    BY <2>1, <2>2 DEF INCR_TX_DESC_INDEX
<1>7. QED
  BY <1>2, <1>3, <1>4, <1>5, <1>6

TxType ==
  /\ txown \in [TxDesc -> {"cpu", "dma"}] /\ txfrag \in [TxDesc -> Fragment]
  /\ {CurTxDesc, dmaTx, last} \subseteq TxDesc
  /\ gState \in {"READY", "ERROR"}
  /\ outputs \in 0 .. MaxOutputs /\ wire \in Fragment

TxAll == TxType /\ TxInv

LEMMA TxInit == Init => TxAll
<1> SUFFICES ASSUME Init PROVE TxAll
  OBVIOUS
<1>1. 0 \in TxDesc /\ None \in Fragment
  BY Sizes DEF TxDesc, None, Fragment
<1>2. TxType
  BY <1>1, EthAssumption DEF Init, TxType
<1>3. SendRing(0)
  <2>1. INCR_TX_DESC_INDEX(0, 0) = 0
    BY <1>1, Positions
  <2>2. \A d \in TxDesc : Pos(0, d) \in Nat
    BY <1>1, Positions
  <2>3. QED
    BY <2>1, <2>2 DEF Init, SendRing, Pos
<1>4. SendQueue(0)
  BY DEF Init, SendQueue, Whole, None
<1>5. 0 \in 0 .. ETH_TX_DESC_CNT
  BY Sizes
<1>6. QED
  BY <1>2, <1>3, <1>4, <1>5 DEF TxAll, TxInv

(* Nothing given to the DMA, and nothing sent. *)
LEMMA TxSame ==
  ASSUME TxAll, UNCHANGED <<txown, txfrag, CurTxDesc, dmaTx, last, wire>>,
         gState' \in {"READY", "ERROR"}, outputs' \in {outputs, outputs + 1},
         outputs' \in 0 .. MaxOutputs
  PROVE  TxAll'
<1>1. TxType'
  BY DEF TxAll, TxType
<1>2. outputs \in Nat /\ outputs <= outputs' /\ outputs' \in Nat
  BY EthAssumption DEF TxAll, TxType
<1>3. PICK n \in 0 .. ETH_TX_DESC_CNT : SendRing(n) /\ SendQueue(n)
  BY DEF TxAll, TxInv
<1>4. SendRing(n)'
  BY <1>3 DEF SendRing
<1>5. SendQueue(n)'
  <2> DEFINE at(j) == txfrag[INCR_TX_DESC_INDEX(dmaTx, j)]
  <2>1. CASE n = 0
    BY <1>2, <1>3, <2>1 DEF SendQueue, Whole, TxAll, TxType, Fragment
  <2>2. CASE n # 0
    <3>1. at(n - 1) \in Fragment
      BY Positions DEF TxAll, TxType
    <3>2. Follows(wire, at(0)) /\ (\A j \in 0 .. n - 2 : Follows(at(j), at(j + 1))) /\ Whole(at(n - 1))
      BY <1>3, <2>2 DEF SendQueue
    <3>3. at(n - 1).p = at(n - 1).of /\ at(n - 1).f <= outputs'
      BY <1>2, <3>1, <3>2 DEF Whole, Fragment
    <3>4. QED
      BY <2>2, <3>2, <3>3 DEF SendQueue, Whole, Follows
  <2>3. QED
    BY <2>1, <2>2
<1>6. QED
  BY <1>1, <1>3, <1>4, <1>5 DEF TxAll, TxInv

(* A frame of k pbufs is given to the DMA. *)
LEMMA PartsBound ==
  ASSUME NEW k \in 1 .. ETH_TX_DESC_CNT
  PROVE  Parts(k) \in 1 .. ETH_TX_DESC_CNT
BY Sizes DEF Parts

(* The descriptors for the parts of a frame, behind n that are in use: all *)
(* are free when they fit behind those, and only then.                     *)
LEMMA Behind ==
  ASSUME TxType, NEW n \in 0 .. ETH_TX_DESC_CNT, SendRing(n),
         NEW P \in 1 .. ETH_TX_DESC_CNT
  PROVE  /\ Needed(P) = {INCR_TX_DESC_INDEX(dmaTx, n + i) : i \in 0 .. P - 1}
         /\ AllFree(P) <=> n + P <= ETH_TX_DESC_CNT
         /\ n + P <= ETH_TX_DESC_CNT =>
              /\ \A i \in 0 .. P - 1 :
                    LET d == INCR_TX_DESC_INDEX(dmaTx, n + i)
                    IN  d \in TxDesc /\ d \in Needed(P) /\ PartIn(d) = i + 1
              /\ \A j \in 0 .. n - 1 :
                    LET d == INCR_TX_DESC_INDEX(dmaTx, j)
                    IN  d \in TxDesc /\ d \notin Needed(P)
<1> DEFINE M == ETH_TX_DESC_CNT
           x == dmaTx
           S(j) == INCR_TX_DESC_INDEX(x, j)
<1>1. M \in Nat /\ M > 1 /\ x \in TxDesc /\ CurTxDesc \in TxDesc
  BY Sizes DEF TxType
<1>2. ASSUME NEW i \in Int PROVE INCR_TX_DESC_INDEX(CurTxDesc, i) = S(n + i)
  BY <1>1, Positions DEF SendRing
<1>3. Needed(P) = {S(n + i) : i \in 0 .. P - 1}
  BY <1>2 DEF Needed
<1>4. ASSUME NEW j \in 0 .. M - 1
      PROVE  S(j) \in TxDesc /\ Pos(x, S(j)) = j /\ (txown[S(j)] = "dma" <=> j < n)
  <2>1. j \in Int /\ j \in 0 .. ETH_TX_DESC_CNT - 1
    BY <1>1
  <2>2. S(j) \in TxDesc /\ Pos(x, S(j)) = j
    BY <1>1, <2>1, Positions
  <2>3. QED
    BY <2>2 DEF SendRing, Pos
<1>5. ASSUME n + P > M PROVE ~AllFree(P)
  <2>1. M - n \in 0 .. P - 1 /\ n + (M - n) = M
    BY <1>1, <1>5
  <2>2. S(M) \in Needed(P)
    BY <1>3, <2>1
  <2>3. S(M) = S(0) /\ 0 \in 0 .. M - 1 /\ 0 < n
    BY <1>1, <1>5, Positions
  <2>4. txown[S(M)] = "dma"
    BY <1>4, <2>3
  <2>5. QED
    BY <2>2, <2>4 DEF AllFree
<1>6. ASSUME n + P <= M, NEW i \in 0 .. P - 1
      PROVE  n + i \in 0 .. M - 1 /\ S(n + i) \in TxDesc /\ txown[S(n + i)] # "dma"
             /\ S(n + i) \in Needed(P) /\ PartIn(S(n + i)) = i + 1
  <2>1. n + i \in 0 .. M - 1 /\ i \in 0 .. M - 1 /\ ~(n + i < n)
    BY <1>1, <1>6
  <2>2. Pos(CurTxDesc, INCR_TX_DESC_INDEX(CurTxDesc, i)) = i
    BY <1>1, <2>1, Positions
  <2>3. PartIn(S(n + i)) = i + 1
    BY <1>2, <2>2 DEF PartIn, Pos
  <2>4. S(n + i) \in TxDesc /\ txown[S(n + i)] # "dma"
    BY <1>4, <2>1
  <2>5. S(n + i) \in Needed(P)
    BY <1>3
  <2>6. QED
    BY <2>1, <2>3, <2>4, <2>5
<1>7. ASSUME n + P <= M PROVE AllFree(P)
  <2>1. \A d \in Needed(P) : d \in TxDesc /\ txown[d] # "dma"
    BY <1>3, <1>6, <1>7
  <2>2. QED
    BY <2>1 DEF AllFree, TxType
<1>8. ASSUME n + P <= M, NEW j \in 0 .. n - 1 PROVE S(j) \in TxDesc /\ S(j) \notin Needed(P)
  <2>1. j \in 0 .. M - 1 /\ j < n
    BY <1>1
  <2>2. ASSUME NEW i \in 0 .. P - 1 PROVE S(j) # S(n + i)
    BY <1>4, <1>6, <1>8, <2>1
  <2>3. QED
    BY <1>3, <1>4, <2>1, <2>2
<1>9. n + P \in Nat /\ (n + P <= M \/ n + P > M)
  BY <1>1
<1>10. QED
  BY <1>3, <1>5, <1>6, <1>7, <1>8, <1>9

LEMMA TxTransmit ==
  ASSUME TxType, NEW n \in 0 .. ETH_TX_DESC_CNT, SendRing(n), SendQueue(n),
         NEW k \in 1 .. ETH_TX_DESC_CNT + 1, Transmit(k), outputs < MaxOutputs,
         outputs' = outputs + 1, UNCHANGED <<dmaTx, gState, wire>>
  PROVE  /\ Parts(k) \in 1 .. ETH_TX_DESC_CNT /\ n + Parts(k) \in 0 .. ETH_TX_DESC_CNT
         /\ TxType' /\ SendRing(n + Parts(k))' /\ SendQueue(n + Parts(k))'
         /\ \A i \in 0 .. Parts(k) - 1 :
               txfrag'[INCR_TX_DESC_INDEX(dmaTx, n + i)]
                 = [f |-> outputs + 1, p |-> i + 1, of |-> Parts(k)]
         /\ \A j \in 0 .. n - 1 :
               txfrag'[INCR_TX_DESC_INDEX(dmaTx, j)] = txfrag[INCR_TX_DESC_INDEX(dmaTx, j)]
<1> DEFINE M == ETH_TX_DESC_CNT
           P == Parts(k)
           m == n + P
           x == dmaTx
           S(j) == INCR_TX_DESC_INDEX(x, j)
<1>1. M \in Nat /\ M > 1 /\ k \in 1 .. M
  BY Sizes DEF Transmit
<1>2. P \in 1 .. M
  BY <1>1, PartsBound
<1> HIDE DEF P, m
<1>3. x \in TxDesc /\ CurTxDesc \in TxDesc /\ outputs \in Nat
  BY EthAssumption DEF TxType
<1>4. n \in 0 .. M /\ SendRing(n) /\ SendQueue(n)
  OBVIOUS
<1>5. ASSUME NEW i \in Int PROVE INCR_TX_DESC_INDEX(CurTxDesc, i) = S(n + i)
  BY <1>3, <1>4, Positions DEF SendRing
<1>6. Needed(P) = {S(n + i) : i \in 0 .. P - 1}
  BY <1>2, <1>5 DEF Needed
<1>7. n + P <= M
  BY <1>2, <1>3, <1>4, Behind DEF Transmit, P
<1>8. ASSUME NEW d \in TxDesc
      PROVE  /\ d \in Needed(P) <=> Pos(x, d) >= n /\ Pos(x, d) < n + P
             /\ Pos(x, d) \in 0 .. M - 1
  <2>1. Pos(x, d) \in 0 .. M - 1 /\ S(Pos(x, d)) = d
    BY <1>3, Positions
  <2>2. ASSUME d \in Needed(P) PROVE Pos(x, d) >= n /\ Pos(x, d) < n + P
    <3>1. PICK i \in 0 .. P - 1 : d = S(n + i)
      BY <1>6, <2>2
    <3>2. n + i \in 0 .. M - 1
      BY <1>1, <1>2, <1>7
    <3>3. Pos(x, d) = n + i
      BY <1>3, <3>1, <3>2, Positions
    <3>4. QED
      BY <1>2, <3>3
  <2>3. ASSUME Pos(x, d) >= n, Pos(x, d) < n + P PROVE d \in Needed(P)
    <3>1. Pos(x, d) - n \in 0 .. P - 1 /\ n + (Pos(x, d) - n) = Pos(x, d)
      BY <1>2, <2>1, <2>3
    <3>2. d = S(n + (Pos(x, d) - n))
      BY <2>1, <3>1
    <3>3. QED
      BY <1>6, <3>1, <3>2
  <2>4. QED
    BY <2>1, <2>2, <2>3
<1>9. m \in 0 .. M /\ m = n + P /\ m # 0
  BY <1>1, <1>2, <1>7 DEF m
<1>10. /\ txown' = [d \in TxDesc |-> IF d \in Needed(P) THEN "dma" ELSE txown[d]]
       /\ txfrag' = [d \in TxDesc |->
                       IF d \in Needed(P)
                       THEN [f |-> outputs + 1, p |-> PartIn(d), of |-> P] ELSE txfrag[d]]
       /\ last' = S(n + (P - 1)) /\ CurTxDesc' = S(n + P)
  BY <1>2, <1>5 DEF Transmit, P, LastOf, BehindOf
<1>11. ASSUME NEW i \in 0 .. P - 1
       PROVE  /\ S(n + i) \in TxDesc /\ S(n + i) \in Needed(P)
              /\ PartIn(S(n + i)) = i + 1
              /\ txfrag'[S(n + i)] = [f |-> outputs + 1, p |-> i + 1, of |-> P]
  <2>1. /\ S(n + i) \in TxDesc /\ S(n + i) \in Needed(P)
        /\ PartIn(S(n + i)) = i + 1
    BY <1>2, <1>4, <1>7, Behind
  <2>2. QED
    BY <1>10, <2>1
<1>12. ASSUME NEW j \in 0 .. n - 1
       PROVE  S(j) \in TxDesc /\ txfrag'[S(j)] = txfrag[S(j)]
  <2>1. S(j) \in TxDesc /\ S(j) \notin Needed(P)
    BY <1>2, <1>4, <1>7, Behind
  <2>2. QED
    BY <1>10, <2>1
<1>13. TxType'
  <2>1. last' \in TxDesc /\ CurTxDesc' \in TxDesc
    BY <1>2, <1>3, <1>10, Positions
  <2>2. outputs' \in 0 .. MaxOutputs
    BY <1>3, EthAssumption
  <2>3. txown' \in [TxDesc -> {"cpu", "dma"}]
    BY <1>10 DEF TxType
  <2>4. ASSUME NEW d \in TxDesc PROVE txfrag'[d] \in Fragment
    <3>1. CASE d \in Needed(P)
      <4>1. PICK i \in 0 .. P - 1 : d = S(n + i)
        BY <1>6, <3>1
      <4>2. txfrag'[d] = [f |-> outputs + 1, p |-> i + 1, of |-> P]
        BY <1>11, <4>1
      <4>3. outputs + 1 \in Nat /\ i + 1 \in Nat /\ P \in Nat
        BY <1>2, <1>3
      <4>4. QED
        BY <4>2, <4>3 DEF Fragment
    <3>2. CASE d \notin Needed(P)
      BY <1>10, <3>2 DEF TxType
    <3>3. QED
      BY <3>1, <3>2
  <2>5. txfrag' \in [TxDesc -> Fragment]
    BY <1>10, <2>4
  <2>6. QED
    BY <2>1, <2>2, <2>3, <2>5 DEF TxType
<1>14. SendRing(m)'
  <2>1. ASSUME NEW d \in TxDesc PROVE txown'[d] = "dma" <=> Pos(x, d) < m
    <3>1. txown[d] = "dma" <=> Pos(x, d) < n
      BY <1>4 DEF SendRing, Pos
    <3>2. d \in Needed(P) <=> Pos(x, d) >= n /\ Pos(x, d) < n + P
      BY <1>8
    <3>3. Pos(x, d) \in Nat
      BY <1>1, <1>8
    <3>4. txown'[d] = IF d \in Needed(P) THEN "dma" ELSE txown[d]
      BY <1>10
    <3>5. QED
      BY <1>2, <1>9, <3>1, <3>2, <3>3, <3>4
  <2>2. QED
    BY <1>9, <1>10, <2>1 DEF SendRing, Pos, INCR_TX_DESC_INDEX
<1>15. SendQueue(m)'
  <2> DEFINE at(j) == txfrag'[S(j)]
  <2>1. at(n) = [f |-> outputs + 1, p |-> 1, of |-> P]
    BY <1>2, <1>11
  <2>2. at(m - 1).p = at(m - 1).of /\ at(m - 1).f <= outputs'
    <3>1. m - 1 = n + (P - 1) /\ P - 1 \in 0 .. P - 1
      BY <1>2, <1>9
    <3>2. at(m - 1) = [f |-> outputs + 1, p |-> (P - 1) + 1, of |-> P]
      BY <1>11, <3>1
    <3>3. QED
      BY <1>2, <1>3, <3>2
  <2>3. ASSUME NEW j \in 0 .. m - 2, j >= n
        PROVE  Follows(at(j), at(j + 1))
    <3>1. j - n \in 0 .. P - 1 /\ (j - n) + 1 \in 0 .. P - 1 /\ n + (j - n) = j
          /\ n + ((j - n) + 1) = j + 1
      BY <1>1, <1>2, <1>9, <2>3
    <3>2. at(j) = [f |-> outputs + 1, p |-> (j - n) + 1, of |-> P]
      BY <1>11, <3>1
    <3>3. at(j + 1) = [f |-> outputs + 1, p |-> ((j - n) + 1) + 1, of |-> P]
      BY <1>11, <3>1
    <3>4. (j - n) + 1 < P
      BY <1>2, <3>1
    <3>5. QED
      BY <3>2, <3>3, <3>4 DEF Follows
  <2>4. ASSUME Follows(wire, at(0)), \A j \in 0 .. m - 2 : Follows(at(j), at(j + 1))
        PROVE  SendQueue(m)'
    BY <1>9, <2>2, <2>4 DEF SendQueue, Whole, INCR_TX_DESC_INDEX, Follows
  <2>5. ASSUME NEW a \in Fragment, Whole(a) PROVE Follows(a, at(n))
    BY <1>3, <2>1, <2>5 DEF Whole, Follows, Fragment
  <2>6. CASE n = 0
    <3>1. wire \in Fragment /\ Whole(wire)
      BY <1>4, <2>6 DEF TxType, SendQueue
    <3>2. Follows(wire, at(0))
      BY <2>5, <2>6, <3>1
    <3>3. \A j \in 0 .. m - 2 : Follows(at(j), at(j + 1))
      BY <1>2, <2>3, <2>6
    <3>4. QED
      BY <2>4, <3>2, <3>3
  <2>7. CASE n # 0
    <3>1. /\ Follows(wire, txfrag[S(0)])
          /\ \A j \in 0 .. n - 2 : Follows(txfrag[S(j)], txfrag[S(j + 1)])
          /\ Whole(txfrag[S(n - 1)])
      BY <1>4, <2>7 DEF SendQueue
    <3>2. 0 \in 0 .. n - 1 /\ n - 1 \in 0 .. n - 1
      BY <1>1, <2>7
    <3>3. Follows(wire, at(0))
      BY <1>12, <3>1, <3>2
    <3>4. at(n - 1) = txfrag[S(n - 1)] /\ txfrag[S(n - 1)] \in Fragment
      BY <1>12, <3>2 DEF TxType
    <3>5. \A j \in 0 .. m - 2 : Follows(at(j), at(j + 1))
      <4> SUFFICES ASSUME NEW j \in 0 .. m - 2 PROVE Follows(at(j), at(j + 1))
        OBVIOUS
      <4>1. CASE j < n - 1
        <5>1. j \in 0 .. n - 2 /\ j \in 0 .. n - 1 /\ j + 1 \in 0 .. n - 1
          BY <1>1, <4>1
        <5>2. at(j) = txfrag[S(j)] /\ at(j + 1) = txfrag[S(j + 1)]
          BY <1>12, <5>1
        <5>3. QED
          BY <3>1, <5>1, <5>2
      <4>2. CASE j = n - 1
        <5>1. j + 1 = n
          BY <1>1, <4>2
        <5>2. QED
          BY <2>5, <3>1, <3>4, <4>2, <5>1
      <4>3. CASE j >= n
        BY <2>3, <4>3
      <4>4. QED
        BY <1>1, <4>1, <4>2, <4>3
    <3>6. QED
      BY <2>4, <3>3, <3>5
  <2>8. QED
    BY <2>6, <2>7
<1>16. QED
  BY <1>2, <1>9, <1>11, <1>12, <1>13, <1>14, <1>15 DEF m, P

(* The DMA sends a descriptor. *)
LEMMA TxSend ==
  ASSUME TxType, NEW n \in 0 .. ETH_TX_DESC_CNT, SendRing(n), SendQueue(n), DmaSend
  PROVE  /\ n > 0 /\ n - 1 \in 0 .. ETH_TX_DESC_CNT
         /\ TxType' /\ SendRing(n - 1)' /\ SendQueue(n - 1)'
         /\ Follows(wire, wire')
<1> DEFINE M == ETH_TX_DESC_CNT
           x == dmaTx
           S(j) == INCR_TX_DESC_INDEX(x, j)
<1>1. M \in Nat /\ M > 1 /\ x \in TxDesc
  BY Sizes DEF TxType
<1>2. /\ txown[x] = "dma" /\ txown' = [txown EXCEPT ![x] = "cpu"]
      /\ wire' = txfrag[x] /\ x' = S(1)
      /\ UNCHANGED <<txfrag, CurTxDesc, gState, last, outputs>>
  BY DEF DmaSend
<1>3. n \in 0 .. M /\ SendRing(n) /\ SendQueue(n)
  OBVIOUS
<1>4. S(0) = x /\ S(1) \in TxDesc /\ S(M) = x
      /\ \A j \in Int : INCR_TX_DESC_INDEX(x', j) = S(1 + j)
  BY <1>1, <1>2, Positions
<1>5. Pos(x, x) = 0
  BY <1>1, <1>4, Positions
<1>6. n > 0 /\ n - 1 \in 0 .. M
  BY <1>1, <1>2, <1>3, <1>5 DEF SendRing, Pos
<1>7. /\ Follows(wire, txfrag[x])
      /\ \A j \in 0 .. n - 2 : Follows(txfrag[S(j)], txfrag[S(j + 1)])
      /\ Whole(txfrag[S(n - 1)])
  BY <1>3, <1>4, <1>6 DEF SendQueue
<1>8. TxType'
  BY <1>1, <1>2, <1>4 DEF TxType
<1>9. SendRing(n - 1)'
  <2>1. CurTxDesc' = INCR_TX_DESC_INDEX(x', n - 1)
    <3>1. 1 + (n - 1) = n /\ n - 1 \in Int
      BY <1>1
    <3>2. CurTxDesc = S(n)
      BY <1>3 DEF SendRing
    <3>3. QED
      BY <1>2, <1>4, <3>1, <3>2
  <2>2. ASSUME NEW d \in TxDesc PROVE txown'[d] = "dma" <=> Pos(x', d) < n - 1
    <3>1. Pos(x, d) \in 0 .. M - 1 /\ S(Pos(x, d)) = d
      BY <1>1, Positions
    <3>2. txown[d] = "dma" <=> Pos(x, d) < n
      BY <1>3 DEF SendRing, Pos
    <3>3. CASE d = x
      <4>1. INCR_TX_DESC_INDEX(x', M - 1) = x /\ M - 1 \in 0 .. M - 1
        <5>1. 1 + (M - 1) = M /\ M - 1 \in Int /\ M - 1 \in 0 .. M - 1
          BY <1>1
        <5>2. QED
          BY <1>4, <5>1
      <4>2. Pos(x', d) = M - 1
        BY <1>2, <1>4, <3>3, <4>1, Positions
      <4>3. txown'[d] = "cpu"
        BY <1>2, <3>3 DEF TxType
      <4>4. QED
        BY <1>1, <4>2, <4>3
    <3>4. CASE d # x
      <4>1. Pos(x, d) # 0
        BY <1>4, <3>1, <3>4
      <4>2. Pos(x, d) - 1 \in 0 .. M - 1 /\ 1 + (Pos(x, d) - 1) = Pos(x, d)
            /\ Pos(x, d) - 1 \in Int
        BY <1>1, <3>1, <4>1
      <4>3. INCR_TX_DESC_INDEX(x', Pos(x, d) - 1) = d
        BY <1>4, <3>1, <4>2
      <4>4. Pos(x', d) = Pos(x, d) - 1
        BY <1>2, <1>4, <4>2, <4>3, Positions
      <4>5. txown'[d] = txown[d]
        BY <1>2, <3>4
      <4>6. QED
        BY <1>1, <3>1, <3>2, <4>4, <4>5
    <3>5. QED
      BY <3>3, <3>4
  <2>3. QED
    BY <2>1, <2>2 DEF SendRing, Pos, INCR_TX_DESC_INDEX
<1>10. SendQueue(n - 1)'
  <2>1. CASE n = 1
    <3>1. wire' = txfrag[S(n - 1)] /\ n - 1 = 0
      BY <1>2, <1>4, <2>1
    <3>2. QED
      BY <1>2, <1>7, <3>1 DEF SendQueue, Whole
  <2>2. CASE n # 1
    <3> DEFINE at(j) == txfrag[INCR_TX_DESC_INDEX(x', j)]
    <3>1. \A j \in Int : at(j) = txfrag[S(1 + j)]
      BY <1>4
    <3>2. Follows(wire', at(0))
      <4>1. 0 \in 0 .. n - 2 /\ 1 + 0 = 0 + 1
        BY <1>1, <1>6, <2>2
      <4>2. QED
        BY <1>2, <1>4, <1>7, <3>1, <4>1
    <3>3. \A j \in 0 .. (n - 1) - 2 : Follows(at(j), at(j + 1))
      <4> SUFFICES ASSUME NEW j \in 0 .. (n - 1) - 2 PROVE Follows(at(j), at(j + 1))
        OBVIOUS
      <4>1. 1 + j \in 0 .. n - 2 /\ (1 + j) + 1 = 1 + (j + 1) /\ j \in Int /\ j + 1 \in Int
        BY <1>1
      <4>2. QED
        BY <1>7, <3>1, <4>1
    <3>4. Whole(at((n - 1) - 1))
      <4>1. 1 + ((n - 1) - 1) = n - 1 /\ (n - 1) - 1 \in Int
        BY <1>1
      <4>2. QED
        BY <1>7, <3>1, <4>1
    <3>5. n - 1 # 0
      BY <1>1, <2>2
    <3>6. QED
      BY <1>2, <3>2, <3>3, <3>4, <3>5 DEF SendQueue, Whole, Follows, INCR_TX_DESC_INDEX
  <2>3. QED
    BY <2>1, <2>2
<1>11. QED
  BY <1>2, <1>6, <1>7, <1>8, <1>9, <1>10

LEMMA TxRing == TxAll => TxRingAgrees
<1> SUFFICES ASSUME TxAll PROVE TxRingAgrees
  OBVIOUS
<1>1. PICK n \in 0 .. ETH_TX_DESC_CNT : SendRing(n)
  BY DEF TxAll, TxInv
<1>2. dmaTx \in TxDesc /\ ETH_TX_DESC_CNT \in Nat
  BY Sizes DEF TxAll, TxType
<1>3. \A d \in TxDesc : txown[d] = "dma" <=> Pos(dmaTx, d) < n
  BY <1>1 DEF SendRing, Pos
<1>4. CASE n = ETH_TX_DESC_CNT
  <2>1. CurTxDesc = dmaTx
    BY <1>1, <1>2, <1>4, Positions DEF SendRing
  <2>2. \A d \in TxDesc : Pos(dmaTx, d) < n
    BY <1>2, <1>4, Positions
  <2>3. QED
    BY <1>3, <2>1, <2>2 DEF TxRingAgrees
<1>5. CASE n # ETH_TX_DESC_CNT
  <2>1. n \in 0 .. ETH_TX_DESC_CNT - 1
    BY <1>2, <1>5
  <2>2. Pos(dmaTx, CurTxDesc) = n
    BY <1>1, <1>2, <2>1, Positions DEF SendRing
  <2>3. QED
    BY <1>3, <2>2 DEF TxRingAgrees, Span, Pos
<1>6. QED
  BY <1>4, <1>5

-----------------------------------------------------------------------------
(* The pool of receive pbufs. *)
PoolAll == pool \in 0 .. RX_POOL /\ KeptInv /\ PoolConserved

LEMMA KeptFinite ==
  ASSUME RxType, KeptInv
  PROVE  IsFiniteSet(kept) /\ Cardinality(kept) \in Nat
<1>1. IsFiniteSet(1 .. taken)
  BY EthAssumption, FS_Interval DEF RxType
<1>2. IsFiniteSet(kept)
  BY <1>1, FS_Subset DEF KeptInv
<1>3. QED
  BY <1>2, FS_CardinalityType

LEMMA PoolInit == Init => PoolAll
<1> SUFFICES ASSUME Init PROVE PoolAll
  OBVIOUS
<1>1. pool = RX_POOL /\ kept = {} /\ pc = "idle" /\ back = "idle" /\ taken = 0
  BY DEF Init
<1>2. Cardinality(kept) = 0
  BY <1>1, FS_EmptySet
<1>3. QED
  BY <1>1, <1>2, EthAssumption DEF PoolAll, KeptInv, PoolConserved, InHand

(* Steps of the ring and of sending: the frame in hand stays in hand. *)
LEMMA PoolSame ==
  ASSUME RxType, PoolAll, UNCHANGED pbufs, InHand' = InHand, taken' = taken,
         pc' \in {"build", "alloc"} => pc \in {"build", "alloc"}
  PROVE  PoolAll'
BY DEF PoolAll, KeptInv, PoolConserved, pbufs

LEMMA PoolTake ==
  ASSUME RxType, PoolAll, HAL_ETH_IsRxDataAvailable
  PROVE  PoolAll'
<1>1. /\ pc = "idle" /\ pc' = "build" /\ taken' = taken + 1 /\ back' = back
      /\ pool' = pool /\ kept' = kept
  BY DEF HAL_ETH_IsRxDataAvailable, pbufs
<1>2. taken \in Nat
  BY EthAssumption DEF RxType
<1>3. InHand = 0 /\ InHand' = 0
  BY <1>1 DEF InHand
<1>4. KeptInv'
  BY <1>1, <1>2 DEF PoolAll, KeptInv
<1>5. QED
  BY <1>1, <1>3, <1>4 DEF PoolAll, PoolConserved

LEMMA PoolAlloc ==
  ASSUME RxType, PoolAll, pbuf_alloced_custom
  PROVE  PoolAll'
<1>1. /\ pc = "alloc" /\ kept' = kept /\ back' = back /\ taken' = taken
      /\ \/ pool > 0 /\ pool' = pool - 1 /\ pc' = "read"
         \/ pool = 0 /\ pc' = "idle" /\ pool' = pool
  BY DEF pbuf_alloced_custom, rxRing
<1>2. Cardinality(kept) \in Nat
  BY KeptFinite DEF PoolAll
<1>3. KeptInv'
  BY <1>1 DEF PoolAll, KeptInv, InHand
<1>4. pool' \in 0 .. RX_POOL /\ PoolConserved'
  BY <1>1, <1>2, EthAssumption DEF PoolAll, PoolConserved, InHand
<1>5. QED
  BY <1>3, <1>4 DEF PoolAll

LEMMA PoolHandled ==
  ASSUME RxType, PoolAll, Handled
  PROVE  PoolAll'
<1>1. /\ pc = "handle" /\ pc' = "idle" /\ back' = back /\ taken' = taken
      /\ \/ pool' = pool + 1 /\ kept' = kept
         \/ kept' = kept \cup {taken} /\ pool' = pool
  BY DEF Handled, pbuf_free_custom, rxRing
<1>2. IsFiniteSet(kept) /\ Cardinality(kept) \in Nat /\ taken \in Nat
  BY KeptFinite, EthAssumption DEF PoolAll, RxType
<1>3. InHand = 1 /\ InHand' = 0 /\ taken >= 1 /\ taken \notin kept
  BY <1>1 DEF InHand, PoolAll, KeptInv
<1>4. Cardinality(kept \cup {taken}) = Cardinality(kept) + 1
  BY <1>2, <1>3, FS_AddElement
<1>5. KeptInv'
  <2>1. kept \subseteq 1 .. taken /\ taken \in 1 .. taken
    BY <1>2, <1>3 DEF PoolAll, KeptInv
  <2>2. kept' \subseteq 1 .. taken'
    BY <1>1, <2>1
  <2>3. ~(pc' \in {"build", "alloc"}) /\ ~(InHand' = 1)
    BY <1>1, <1>3
  <2>4. QED
    BY <2>2, <2>3 DEF KeptInv
<1>6. pool' \in 0 .. RX_POOL /\ PoolConserved'
  BY <1>1, <1>2, <1>3, <1>4, EthAssumption DEF PoolAll, PoolConserved
<1>7. QED
  BY <1>5, <1>6 DEF PoolAll

LEMMA PoolFreeKept ==
  ASSUME RxType, PoolAll, FreeKept
  PROVE  PoolAll'
<1>1. PICK n \in kept : kept' = kept \ {n}
  BY DEF FreeKept
<1>2. pool' = pool + 1 /\ UNCHANGED <<pc, back, taken>>
  BY DEF FreeKept, pbuf_free_custom, rxRing
<1>3. IsFiniteSet(kept) /\ Cardinality(kept) \in Nat
  BY KeptFinite DEF PoolAll
<1>4. Cardinality(kept \ {n}) = Cardinality(kept) - 1 /\ Cardinality(kept \ {n}) \in Nat
  BY <1>3, FS_RemoveElement, FS_CardinalityType
<1>5. InHand' = InHand /\ InHand \in 0 .. 1
  BY <1>2 DEF InHand
<1>6. KeptInv'
  BY <1>1, <1>2, <1>5 DEF PoolAll, KeptInv
<1>7. pool' \in 0 .. RX_POOL /\ PoolConserved'
  BY <1>1, <1>2, <1>3, <1>4, <1>5, EthAssumption DEF PoolAll, PoolConserved
<1>8. QED
  BY <1>6, <1>7 DEF PoolAll

-----------------------------------------------------------------------------
(* All of it, step by step. *)
All == RxAll /\ TxAll /\ PoolAll

LEMMA InitAll == Init => All
BY RxInit, TxInit, PoolInit DEF All

LEMMA TxUnchanged == TxAll /\ UNCHANGED txRing => TxAll'
BY TxSame DEF TxAll, TxType, txRing

LEMMA OutputAll ==
  ASSUME All, low_level_output
  PROVE  All'
<1> USE DEF All
<1>1. PICK k \in 1 .. ETH_TX_DESC_CNT + 1 : Refused(k) \/ Transmit(k)
  BY DEF low_level_output
<1>2. /\ pc \in {"idle", "handle"} /\ outputs < MaxOutputs /\ outputs' = outputs + 1
      /\ UNCHANGED <<dmaTx, gState, wire, rxRing, pbufs>>
  BY DEF low_level_output
<1>3. outputs' \in 0 .. MaxOutputs
  BY <1>2, EthAssumption DEF TxAll, TxType
<1>4. TxAll'
  <2>1. CASE Refused(k)
    <3>1. UNCHANGED <<txown, txfrag, CurTxDesc, last>>
      BY <2>1 DEF Refused
    <3>2. QED
      BY <1>2, <1>3, <3>1, TxSame DEF TxAll, TxType
  <2>2. CASE Transmit(k)
    <3>1. PICK n \in 0 .. ETH_TX_DESC_CNT : SendRing(n) /\ SendQueue(n)
      BY DEF TxAll, TxInv
    <3>2. /\ n + Parts(k) \in 0 .. ETH_TX_DESC_CNT
          /\ TxType' /\ SendRing(n + Parts(k))' /\ SendQueue(n + Parts(k))'
      BY <1>2, <2>2, <3>1, TxTransmit DEF TxAll
    <3>3. QED
      BY <3>2 DEF TxAll, TxInv
  <2>3. QED
    BY <1>1, <2>1, <2>2
<1>5. /\ (pc' = pc /\ back' = back) \/ (back' = pc /\ pc' = "transmit")
      /\ InHand' = InHand
  <2>1. CASE Refused(k)
    BY <2>1 DEF Refused, InHand
  <2>2. CASE Transmit(k)
    <3>1. back' = pc /\ pc' = "transmit"
      BY <2>2 DEF Transmit
    <3>2. InHand' = InHand
      BY <1>2, <3>1 DEF InHand
    <3>3. QED
      BY <3>1, <3>2
  <2>3. QED
    BY <1>1, <2>1, <2>2
<1>6. RxAll'
  BY <1>2, <1>5, RxSame DEF RxAll, RxType
<1>7. PoolAll'
  BY <1>2, <1>5, PoolSame DEF RxAll, rxRing
<1>8. QED
  BY <1>4, <1>6, <1>7

LEMMA SendAll ==
  ASSUME TxAll, DmaSend
  PROVE  TxAll' /\ Follows(wire, wire')
<1>1. PICK n \in 0 .. ETH_TX_DESC_CNT : SendRing(n) /\ SendQueue(n)
  BY DEF TxAll, TxInv
<1>2. /\ n - 1 \in 0 .. ETH_TX_DESC_CNT
      /\ TxType' /\ SendRing(n - 1)' /\ SendQueue(n - 1)' /\ Follows(wire, wire')
  BY <1>1, TxSend DEF TxAll
<1>3. QED
  BY <1>2 DEF TxAll, TxInv

LEMMA NextAll == All /\ [Next]_vars => All'
<1> SUFFICES ASSUME All, [Next]_vars PROVE All'
  OBVIOUS
<1> USE DEF All
<1>1. CASE HAL_ETH_IsRxDataAvailable
  BY <1>1, RxTake, TxUnchanged, PoolTake DEF HAL_ETH_IsRxDataAvailable, RxAll
<1>2. CASE HAL_ETH_BuildRxDescriptors
  <2>1. InHand' = InHand /\ taken' = taken /\ pc = "build" /\ UNCHANGED pbufs /\ UNCHANGED txRing
    BY <1>2 DEF HAL_ETH_BuildRxDescriptors, InHand
  <2>2. QED
    BY <1>2, <2>1, RxBuild, TxUnchanged, PoolSame DEF RxAll
<1>3. CASE pbuf_alloced_custom
  BY <1>3, RxSame, TxUnchanged, PoolAlloc DEF pbuf_alloced_custom, RxAll, RxType
<1>4. CASE Read
  <2>1. /\ pc = "read" /\ pc' = "handle" /\ back' = back /\ InHand' = InHand
        /\ UNCHANGED <<pbufs, rxRing, txRing>>
    BY <1>4 DEF Read, InHand
  <2>2. QED
    BY <2>1, RxSame, TxUnchanged, PoolSame DEF RxAll, RxType, rxRing
<1>5. CASE Handled
  BY <1>5, RxSame, TxUnchanged, PoolHandled DEF Handled, RxAll, RxType
<1>6. CASE FreeKept
  BY <1>6, RxSame, TxUnchanged, PoolFreeKept DEF FreeKept, RxAll, RxType
<1>7. CASE low_level_output
  BY <1>7, OutputAll
<1>8. CASE TransmitEnds
  <2>1. /\ pc = "transmit" /\ pc' = back /\ back' = back /\ InHand' = InHand
        /\ gState' \in {gState, "ERROR"}
        /\ UNCHANGED <<txown, txfrag, CurTxDesc, dmaTx, last, outputs, wire, rxRing, pbufs>>
    BY <1>8 DEF TransmitEnds, Sent, Timeout, BusError, InHand, RxAll, RxType
  <2>2. TxAll'
    BY <2>1, TxSame DEF TxAll, TxType
  <2>3. RxAll'
    BY <2>1, RxSame DEF RxAll, RxType
  <2>4. PoolAll'
    BY <2>1, PoolSame DEF RxAll, RxType, rxRing
  <2>5. QED
    BY <2>2, <2>3, <2>4
<1>9. CASE DmaReceive
  <2>1. InHand' = InHand /\ UNCHANGED <<pc, taken, pbufs, txRing>>
    BY <1>9 DEF DmaReceive, InHand
  <2>2. QED
    BY <1>9, <2>1, RxReceive, TxUnchanged, PoolSame DEF RxAll
<1>10. CASE DmaSend
  <2>1. InHand' = InHand /\ UNCHANGED <<pc, back, rxRing, pbufs>>
    BY <1>10 DEF DmaSend, InHand
  <2>2. QED
    BY <1>10, <2>1, SendAll, RxSame, PoolSame DEF RxAll, RxType, rxRing
<1>11. CASE UNCHANGED vars
  <2>1. InHand' = InHand /\ UNCHANGED <<pc, back, rxRing, pbufs, txRing>>
    BY <1>11 DEF vars, InHand
  <2>2. QED
    BY <2>1, RxSame, TxUnchanged, PoolSame DEF RxAll, RxType, rxRing
<1>12. QED
  BY <1>1, <1>2, <1>3, <1>4, <1>5, <1>6, <1>7, <1>8, <1>9, <1>10, <1>11 DEF Next, Input

LEMMA AllIsIInv == All => IInv
<1> SUFFICES ASSUME All PROVE IInv
  OBVIOUS
<1>1. kept \subseteq 1 .. MaxFrames
  BY EthAssumption DEF All, RxAll, RxType, PoolAll, KeptInv
<1>2. QED
  BY <1>1 DEF All, RxAll, RxType, TxAll, TxType, PoolAll, IInv, TypeOK

(* Descriptors, buffers, pool and counters keep their types (the indices   *)
(* of heth.RxDescList and TxDescList stay within the rings).               *)
THEOREM TypeCorrect == Spec => []TypeOK
<1>1. IInv => TypeOK
  BY DEF IInv
<1>2. QED
  BY InitAll, NextAll, AllIsIInv, <1>1, PTL DEF Spec

(* Main loop and DMA agree on the receive ring, whatever the DMA does      *)
(* between two steps of low_level_input (ethernetif.c:398-430).            *)
THEOREM RxRingCorrect == Spec => []RxRingAgrees
<1>1. IInv => RxRingAgrees
  BY DEF IInv
<1>2. QED
  BY InitAll, NextAll, AllIsIInv, <1>1, PTL DEF Spec

(* The stack reads its frame, or, when the ring went round since the       *)
(* buffer was given back (line 412), the one that came a round later.      *)
THEOREM ReadsItsFrameCorrect == Spec => []ReadsItsFrame
<1>1. IInv => ReadsItsFrame
  BY DEF IInv, RxInv, ReadsItsFrame
<1>2. QED
  BY InitAll, NextAll, AllIsIInv, <1>1, PTL DEF Spec

(* No entry of RX_POOL is lost or freed twice (lines 419, 550).            *)
THEOREM PoolCorrect == Spec => []PoolConserved
<1>1. IInv => PoolConserved
  BY DEF IInv
<1>2. QED
  BY InitAll, NextAll, AllIsIInv, <1>1, PTL DEF Spec

(* Main loop and DMA agree on the send ring, also after timeouts and bus   *)
(* errors (stm32h7xx_hal_eth.c:965-1011).                                  *)
THEOREM TxRingCorrect == Spec => []TxRingAgrees
<1>1. All => TxRingAgrees
  BY TxRing DEF All
<1>2. QED
  BY InitAll, NextAll, <1>1, PTL DEF Spec

(* Frames leave whole, each once, in the order of low_level_output, when   *)
(* they are sent later than the 20 ms the main loop waits, too.            *)
THEOREM WireInOrderCorrect == Spec => WireInOrder
<1> DEFINE A == wire' # wire => Follows(wire, wire')
<1>1. ASSUME All, [Next]_vars PROVE A
  <2> SUFFICES ASSUME wire' # wire PROVE Follows(wire, wire')
    OBVIOUS
  <2>1. DmaSend
    BY <1>1 DEF Next, Input, HAL_ETH_IsRxDataAvailable, HAL_ETH_BuildRxDescriptors,
                pbuf_alloced_custom, Read, Handled, FreeKept, low_level_output,
                TransmitEnds, DmaReceive, vars, txRing
  <2>2. QED
    BY <1>1, <2>1, SendAll DEF All
<1>2. All /\ [Next]_vars => [A]_vars
  BY <1>1
<1>3. WireInOrder <=> [][A]_vars
  BY DEF WireInOrder
<1>4. QED
  BY InitAll, NextAll, <1>2, <1>3, PTL DEF Spec

-----------------------------------------------------------------------------
(* The ring as a queue. *)
Laid(n) == [j \in 1 .. n |-> txfrag[INCR_TX_DESC_INDEX(dmaTx, j - 1)]]

LEMMA LaidSeq ==
  \A n \in 0 .. ETH_TX_DESC_CNT :
     TxType => Laid(n) \in Seq(Fragment) /\ Len(Laid(n)) = n
<1> SUFFICES ASSUME NEW n \in 0 .. ETH_TX_DESC_CNT, TxType
             PROVE  Laid(n) \in Seq(Fragment) /\ Len(Laid(n)) = n
  OBVIOUS
<1>1. n \in Nat
  BY Sizes
<1>2. ASSUME NEW j \in 1 .. n PROVE Laid(n)[j] \in Fragment
  <2>1. dmaTx \in TxDesc /\ j - 1 \in Int
    BY <1>1 DEF TxType
  <2>2. INCR_TX_DESC_INDEX(dmaTx, j - 1) \in TxDesc
    BY <2>1, Positions
  <2>3. QED
    BY <1>2, <2>2 DEF Laid, TxType
<1>3. Laid(n) \in [1 .. n -> Fragment]
  BY <1>2 DEF Laid
<1>4. QED
  BY <1>1, <1>3

LEMMA InRingIs ==
  ASSUME TxType, NEW n \in 0 .. ETH_TX_DESC_CNT, SendRing(n)
  PROVE  InRing = n
<1>1. dmaTx \in TxDesc /\ ETH_TX_DESC_CNT \in Nat
  BY Sizes DEF TxType
<1>2. \A d \in TxDesc : txown[d] = "dma" <=> Pos(dmaTx, d) < n
  BY DEF SendRing, Pos
<1>3. CASE n = ETH_TX_DESC_CNT
  <2>1. \A d \in TxDesc : Pos(dmaTx, d) < n
    BY <1>1, <1>3, Positions
  <2>2. QED
    BY <1>2, <1>3, <2>1 DEF InRing
<1>4. CASE n # ETH_TX_DESC_CNT
  <2>1. n \in 0 .. ETH_TX_DESC_CNT - 1 /\ n \in Int
    BY <1>1, <1>4
  <2>2. CurTxDesc \in TxDesc /\ Pos(dmaTx, CurTxDesc) = n
    BY <1>1, <2>1, Positions DEF SendRing
  <2>3. ~(\A d \in TxDesc : txown[d] = "dma")
    BY <1>2, <2>1, <2>2
  <2>4. QED
    BY <2>2, <2>3 DEF InRing, Span, Pos
<1>5. QED
  BY <1>3, <1>4

LEMMA QueueLaid ==
  \A n \in 0 .. ETH_TX_DESC_CNT : TxType /\ SendRing(n) => Queue = Laid(n)
BY InRingIs DEF Queue, Laid

LEMMA QueueLaidNext ==
  (\A n \in 0 .. ETH_TX_DESC_CNT : TxType /\ SendRing(n) => Queue = Laid(n))'
BY QueueLaid, PTL

LEMMA LaidSeqNext ==
  (\A n \in 0 .. ETH_TX_DESC_CNT :
      TxType => Laid(n) \in Seq(Fragment) /\ Len(Laid(n)) = n)'
BY LaidSeq, PTL

(* A frame that is lost did not fit into the queue. *)
LEMMA QueueRefuses ==
  ASSUME TxAll, NEW k \in 1 .. ETH_TX_DESC_CNT + 1, Refused(k),
         outputs' = outputs + 1, UNCHANGED <<dmaTx, gState, wire>>
  PROVE  Out!Give(k)
<1>1. PICK n \in 0 .. ETH_TX_DESC_CNT : SendRing(n)
  BY DEF TxAll, TxInv
<1>2. Len(Queue) = n
  BY <1>1, QueueLaid, LaidSeq DEF TxAll
<1>3. ~Out!Fits(k)
  <2>1. CASE k > ETH_TX_DESC_CNT
    BY <2>1, Sizes DEF Out!Fits
  <2>2. CASE gState # "READY"
    BY <2>2 DEF Out!Fits
  <2>3. CASE k <= ETH_TX_DESC_CNT /\ ~AllFree(Parts(k))
    <3>1. Parts(k) \in 1 .. ETH_TX_DESC_CNT
      BY <2>3, PartsBound, Sizes
    <3>2. ~(n + Parts(k) <= ETH_TX_DESC_CNT)
      BY <1>1, <2>3, <3>1, Behind DEF TxAll
    <3>3. QED
      BY <1>2, <3>2 DEF Out!Fits, Out!Parts, Parts
  <2>4. QED
    BY <2>1, <2>2, <2>3, Sizes DEF Refused
<1>4. Queue' = Queue
  BY DEF Refused, Queue, InRing, Span
<1>5. QED
  BY <1>3, <1>4 DEF Out!Give

(* A frame that is sent goes, whole, to the end of the queue. *)
LEMMA QueueTakes ==
  ASSUME TxAll, NEW k \in 1 .. ETH_TX_DESC_CNT + 1, Transmit(k), outputs < MaxOutputs,
         outputs' = outputs + 1, UNCHANGED <<dmaTx, gState, wire>>
  PROVE  Out!Give(k)
<1> DEFINE P == Parts(k)
           S(j) == INCR_TX_DESC_INDEX(dmaTx, j)
           F == Out!FrameParts(outputs + 1, k)
<1>1. PICK n \in 0 .. ETH_TX_DESC_CNT : SendRing(n) /\ SendQueue(n)
  BY DEF TxAll, TxInv
<1>2. /\ P \in 1 .. ETH_TX_DESC_CNT /\ n + P \in 0 .. ETH_TX_DESC_CNT
      /\ TxType' /\ SendRing(n + P)'
  BY <1>1, TxTransmit DEF TxAll
<1>3. \A i \in 0 .. P - 1 : txfrag'[S(n + i)] = [f |-> outputs + 1, p |-> i + 1, of |-> P]
  BY <1>1, TxTransmit DEF TxAll
<1>4. \A j \in 0 .. n - 1 : txfrag'[S(j)] = txfrag[S(j)]
  BY <1>1, TxTransmit DEF TxAll
<1>5. n \in Nat /\ P \in Nat
  BY <1>2, Sizes
<1>6. Queue = Laid(n) /\ Queue \in Seq(Fragment) /\ Len(Queue) = n
  BY <1>1, QueueLaid, LaidSeq DEF TxAll
<1>7. /\ Queue' = [j \in 1 .. n + P |-> txfrag'[S(j - 1)]]
      /\ Queue' \in Seq(Fragment) /\ Len(Queue') = n + P
  <2>1. Queue' = Laid(n + P)' /\ Laid(n + P)' \in Seq(Fragment) /\ Len(Laid(n + P)') = n + P
    BY <1>2, QueueLaidNext, LaidSeqNext
  <2>2. Laid(n + P)' = [j \in 1 .. n + P |-> txfrag'[S(j - 1)]]
    BY DEF Laid, INCR_TX_DESC_INDEX
  <2>3. QED
    BY <2>1, <2>2
<1>8. F = [i \in 1 .. P |-> [f |-> outputs + 1, p |-> i, of |-> P]]
  BY DEF Out!FrameParts, Out!Parts, Parts
<1>9. F \in Seq(Fragment) /\ Len(F) = P
  <2>1. outputs + 1 \in Nat
    BY EthAssumption DEF TxAll, TxType
  <2>2. F \in [1 .. P -> Fragment]
    BY <1>5, <1>8, <2>1 DEF Fragment
  <2>3. QED
    BY <1>5, <2>2
<1>10. Out!Fits(k)
  BY <1>2, <1>6 DEF Transmit, Out!Fits, Out!Parts, Parts
<1> HIDE DEF P, F
<1>11. /\ Queue \o F \in Seq(Fragment) /\ Len(Queue \o F) = n + P
       /\ \A j \in 1 .. n + P : (Queue \o F)[j] = IF j <= n THEN Queue[j] ELSE F[j - n]
  <2>1. /\ Queue \o F \in Seq(Fragment) /\ Len(Queue \o F) = Len(Queue) + Len(F)
        /\ \A j \in 1 .. Len(Queue) + Len(F) :
              (Queue \o F)[j] = IF j <= Len(Queue) THEN Queue[j] ELSE F[j - Len(Queue)]
    BY ZenonT(60), <1>6, <1>9, ConcatProperties
  <2>2. QED
    BY <1>6, <1>9, <2>1
<1>12. ASSUME NEW j \in 1 .. n + P PROVE Queue'[j] = (Queue \o F)[j]
  <2>1. Queue'[j] = txfrag'[S(j - 1)]
    BY <1>7
  <2>2. CASE j <= n
    <3>1. j \in 1 .. n /\ j - 1 \in 0 .. n - 1
      BY <1>5, <2>2
    <3>2. Queue[j] = txfrag[S(j - 1)]
      BY <1>6, <3>1 DEF Laid
    <3>3. QED
      BY <1>4, <1>11, <2>1, <2>2, <3>1, <3>2
  <2>3. CASE ~(j <= n)
    <3>1. /\ j - n \in 1 .. P /\ (j - n) - 1 \in 0 .. P - 1 /\ n + ((j - n) - 1) = j - 1
          /\ ((j - n) - 1) + 1 = j - n
      BY <1>5, <2>3
    <3>2. F[j - n] = [f |-> outputs + 1, p |-> j - n, of |-> P]
      BY <1>8, <3>1
    <3>3. txfrag'[S(j - 1)] = [f |-> outputs + 1, p |-> j - n, of |-> P]
      BY <1>3, <3>1
    <3>4. (Queue \o F)[j] = F[j - n]
      BY <1>11, <2>3
    <3>5. QED
      BY <2>1, <3>2, <3>3, <3>4
  <2>4. QED
    BY <2>2, <2>3
<1>13. Queue' = Queue \o F
  BY <1>7, <1>11, <1>12, SeqEqual
<1>14. QED
  BY <1>10, <1>13 DEF Out!Give, F

(* What the DMA sends is the head of the queue. *)
LEMMA QueueLeaves ==
  ASSUME TxAll, DmaSend
  PROVE  Out!Leave
<1> DEFINE S(j) == INCR_TX_DESC_INDEX(dmaTx, j)
<1>1. PICK n \in 0 .. ETH_TX_DESC_CNT : SendRing(n) /\ SendQueue(n)
  BY DEF TxAll, TxInv
<1>2. n > 0 /\ n - 1 \in 0 .. ETH_TX_DESC_CNT /\ TxType' /\ SendRing(n - 1)'
  BY <1>1, TxSend DEF TxAll
<1>3. n \in Nat /\ n - 1 \in Nat
  BY <1>2, Sizes
<1>4. dmaTx \in TxDesc /\ dmaTx' = S(1) /\ wire' = txfrag[dmaTx] /\ txfrag' = txfrag
      /\ gState = "READY" /\ gState' = gState /\ outputs' = outputs
  BY DEF DmaSend, TxAll, TxType
<1>5. Queue = Laid(n) /\ Queue \in Seq(Fragment) /\ Len(Queue) = n
  BY <1>1, QueueLaid, LaidSeq DEF TxAll
<1>6. Queue' = Laid(n - 1)' /\ Queue' \in Seq(Fragment) /\ Len(Queue') = n - 1
  BY <1>2, QueueLaidNext, LaidSeqNext
<1>7. Queue # << >> /\ wire' = Head(Queue)
  <2>1. Queue # << >>
    BY <1>2, <1>5
  <2>2. 1 \in 1 .. n /\ 1 - 1 = 0
    BY <1>2, <1>3
  <2>3. Queue[1] = txfrag[S(0)]
    BY <1>5, <2>2 DEF Laid
  <2>4. S(0) = dmaTx
    BY <1>4, Positions
  <2>5. QED
    BY <1>4, <1>5, <2>1, <2>3, <2>4
<1>8. /\ Tail(Queue) \in Seq(Fragment) /\ Len(Tail(Queue)) = n - 1
      /\ \A j \in 1 .. n - 1 : Tail(Queue)[j] = Queue[j + 1]
  BY <1>5, <1>7, HeadTailProperties
<1>9. ASSUME NEW j \in 1 .. n - 1 PROVE Queue'[j] = Tail(Queue)[j]
  <2>1. j - 1 \in Int /\ 1 + (j - 1) = j /\ j + 1 \in 1 .. n /\ (j + 1) - 1 = j
    BY <1>3
  <2>2. Queue'[j] = txfrag[INCR_TX_DESC_INDEX(dmaTx', j - 1)]
    BY <1>4, <1>6 DEF Laid, INCR_TX_DESC_INDEX
  <2>3. INCR_TX_DESC_INDEX(dmaTx', j - 1) = S(j)
    BY <1>4, <2>1, Positions
  <2>4. Queue[j + 1] = txfrag[S(j)]
    BY <1>5, <2>1 DEF Laid
  <2>5. QED
    BY <1>8, <2>2, <2>3, <2>4
<1>10. Queue' = Tail(Queue)
  BY <1>6, <1>8, <1>9, SeqEqual
<1>11. QED
  BY <1>4, <1>7, <1>10 DEF Out!Leave

(* A bus error finds the frame that is waited for still in the queue. *)
LEMMA QueueBreaks ==
  ASSUME TxAll, TransmitEnds, ~UNCHANGED gState
  PROVE  Out!Break
<1>1. PICK n \in 0 .. ETH_TX_DESC_CNT : SendRing(n)
  BY DEF TxAll, TxInv
<1>2. /\ txown[last] = "dma" /\ gState' = "ERROR"
      /\ UNCHANGED <<txown, txfrag, CurTxDesc, dmaTx, outputs, wire>>
  BY DEF TransmitEnds, Sent, Timeout, BusError
<1>3. n # 0
  <2>1. dmaTx \in TxDesc /\ last \in TxDesc
    BY DEF TxAll, TxType
  <2>2. Pos(dmaTx, last) < n /\ Pos(dmaTx, last) \in 0 .. ETH_TX_DESC_CNT - 1
    BY <1>1, <1>2, <2>1, Positions DEF SendRing, Pos
  <2>3. QED
    BY <2>2, Sizes
<1>4. Queue # << >>
  <2>1. Queue \in Seq(Fragment) /\ Len(Queue) = n
    BY <1>1, QueueLaid, LaidSeq DEF TxAll
  <2>2. QED
    BY <1>3, <2>1
<1>5. Queue' = Queue
  BY <1>2 DEF Queue, InRing, Span
<1>6. QED
  BY <1>2, <1>4, <1>5 DEF Out!Break

LEMMA QueueSame ==
  ASSUME UNCHANGED txRing
  PROVE  UNCHANGED Out!vars
<1>1. Queue' = Queue
  BY DEF Queue, InRing, Span, txRing
<1>2. QED
  BY <1>1 DEF txRing, Out!vars

LEMMA QueueStep ==
  ASSUME TxAll, [Next]_vars
  PROVE  [Out!Next]_(Out!vars)
<1>1. CASE low_level_output
  <2>1. PICK k \in 1 .. ETH_TX_DESC_CNT + 1 : Refused(k) \/ Transmit(k)
    BY <1>1 DEF low_level_output
  <2>2. outputs < MaxOutputs /\ outputs' = outputs + 1 /\ UNCHANGED <<dmaTx, gState, wire>>
    BY <1>1 DEF low_level_output
  <2>3. Out!Give(k)
    BY <2>1, <2>2, QueueRefuses, QueueTakes
  <2>4. QED
    BY <2>3 DEF Out!Next
<1>2. CASE DmaSend
  BY <1>2, QueueLeaves DEF Out!Next
<1>3. CASE TransmitEnds
  <2>1. CASE UNCHANGED gState
    <3>1. UNCHANGED txRing
      BY <1>3, <2>1 DEF TransmitEnds, txRing
    <3>2. QED
      BY <3>1, QueueSame
  <2>2. CASE ~UNCHANGED gState
    BY <1>3, <2>2, QueueBreaks DEF Out!Next
  <2>3. QED
    BY <2>1, <2>2
<1>4. CASE ~(low_level_output \/ DmaSend \/ TransmitEnds)
  <2>1. UNCHANGED txRing
    BY <1>4 DEF Next, Input, HAL_ETH_IsRxDataAvailable, HAL_ETH_BuildRxDescriptors,
                pbuf_alloced_custom, Read, Handled, FreeKept, DmaReceive, vars
  <2>2. QED
    BY <2>1, QueueSame
<1>5. QED
  BY <1>1, <1>2, <1>3, <1>4

LEMMA QueueStart == Init => Out!Init
<1> SUFFICES ASSUME Init PROVE Out!Init
  OBVIOUS
<1>1. InRing = 0
  <2>1. 0 \in TxDesc /\ txown[0] = "cpu"
    BY Sizes DEF Init, TxDesc
  <2>2. Span = 0 % ETH_TX_DESC_CNT
    BY DEF Init, Span
  <2>3. 0 % ETH_TX_DESC_CNT = 0
    BY Sizes
  <2>4. QED
    BY <2>1, <2>2, <2>3 DEF InRing
<1>2. 1 .. 0 = {}
  OBVIOUS
<1>3. Queue = << >>
  BY <1>1, <1>2 DEF Queue
<1>4. QED
  BY <1>3 DEF Init, Out!Init

(* The ring of send descriptors is the queue FrameQueue describes, for     *)
(* every length of the ring: low_level_output queues a frame whole when    *)
(* there is room for it and loses it only when there is none, and the DMA  *)
(* sends what was queued, in order, also when the driver gave up waiting.  *)
THEOREM SendsAsAQueue == Spec => ImplementsQueue
<1>1. All /\ [Next]_vars => [Out!Next]_(Out!vars)
  BY QueueStep DEF All
<1>2. QED
  BY InitAll, NextAll, QueueStart, <1>1, PTL DEF Spec, ImplementsQueue, Out!Spec
=============================================================================
