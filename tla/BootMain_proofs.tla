--------------------------- MODULE BootMain_proofs ---------------------------
(***************************************************************************)
(* Proofs about BootMain, for every value of the constants, any number of  *)
(* sessions and requests wherever they arrive: its types, HeldForUpload,   *)
(* and, by the invariants IInv and WaitInv, FullCountdown and              *)
(* WaitTimeTells.                                                          *)
(***************************************************************************)
EXTENDS BootMain, TLAPS

(* The seconds to wait are a number below the range of the counters. *)
LEMMA SecondsType == Seconds \in 0 .. U32 - 1
<1>1. /\ PER_SECOND_FREQUENVY \in Nat \ {0}
      /\ WAIT_FREQUENCY \in Nat /\ U32 \in Nat /\ WAIT_FREQUENCY < U32
  BY BootAssumption
<1>2. Seconds \in Nat /\ Seconds <= WAIT_FREQUENCY
  BY <1>1 DEF Seconds
<1> QED BY <1>1, <1>2

(* A frame keeps the types of what it changes, and leaves either the old   *)
(* upload_flag or 1 or 2.                                                  *)
LEMMA FrameType ==
  ASSUME TypeOK, Frame
  PROVE  /\ connected' \in BOOLEAN
         /\ uploads' \in 0 .. MaxSessions
         /\ requests' \in 0 .. MaxRequests
         /\ vector' \in Vectors
         /\ upload_flag' = upload_flag \/ upload_flag' \in {1, 2}
         /\ Observe => unheld' \in BOOLEAN
<1> USE DEF Frame, NoFrame, ConnectFrame, WriteRequest, RefusedRequest,
            OtherRequest, BlockFrame, LastBlock, netVars
<1>1. connected' \in BOOLEAN
  BY Zenon DEF TypeOK
<1>2. uploads' \in 0 .. MaxSessions /\ requests' \in 0 .. MaxRequests
  BY BootAssumption DEF TypeOK
<1>3. vector' \in Vectors
  BY BootAssumption DEF TypeOK
<1>4. upload_flag' = upload_flag \/ upload_flag' \in {1, 2}
  OBVIOUS
<1>5. Observe => unheld' \in BOOLEAN
  BY Zenon DEF Observe
<1> QED BY <1>1, <1>2, <1>3, <1>4, <1>5

(* A frame that leaves upload_flag at 0 found it there and opens and ends  *)
(* no session; without one it leaves the vectors alone.                    *)
LEMMA FrameOpen ==
  ASSUME TypeOK, Frame, upload_flag' = 0
  PROVE  /\ upload_flag = 0 /\ uploads' = uploads
         /\ uploads = 0 => vector' = vector
BY BootAssumption
   DEF TypeOK, Frame, NoFrame, ConnectFrame, WriteRequest, RefusedRequest,
       OtherRequest, BlockFrame, LastBlock, netVars

LEMMA InitType == Init => TypeOK
<1> SUFFICES ASSUME Init PROVE TypeOK
  OBVIOUS
<1>1. /\ U32 \in Nat /\ WAIT_FREQUENCY \in Nat /\ WAIT_FREQUENCY < U32
      /\ MaxSessions \in Nat /\ MaxRequests \in Nat
      /\ OldVectors \subseteq Vectors
  BY BootAssumption
<1>2. t \in 0 .. U32 - 1 /\ wait_time \in 0 .. U32 - 1
  BY <1>1, SecondsType DEF Init
<1>3. uploads \in 0 .. MaxSessions /\ requests \in 0 .. MaxRequests
  BY <1>1 DEF Init
<1>4. quiet \in 0 .. WAIT_FREQUENCY /\ vector \in Vectors
  BY <1>1 DEF Init
<1>5. connected \in BOOLEAN /\ unheld \in BOOLEAN
  BY Zenon DEF Init
<1> QED BY <1>2, <1>3, <1>4, <1>5 DEF Init, TypeOK

LEMMA NextType == TypeOK /\ [Next]_vars => TypeOK'
<1> SUFFICES ASSUME TypeOK, [Next]_vars PROVE TypeOK'
  OBVIOUS
<1> USE BootAssumption, SecondsType
<1>1. CASE Top
  BY <1>1 DEF TypeOK, Top, CountDown, netVars
<1>2. CASE InWait
  BY <1>2, FrameType DEF TypeOK, InWait, TellWait, FrameHandled, Observe, loopVars
<1>3. CASE Flag
  BY <1>3 DEF TypeOK, Flag, Restart, loopVars, netVars
<1>4. CASE InStart
  BY <1>4, FrameType DEF TypeOK, InStart, TellStart, FrameHandled, Observe, Restart
<1>5. CASE InFinish
  BY <1>5, FrameType DEF TypeOK, InFinish, TellFinish, FrameHandled, Observe, loopVars
<1>5f. CASE Finish
  BY <1>5f DEF TypeOK, Finish, Finished, Restart, netVars
<1>6. CASE Check
  BY <1>6 DEF TypeOK, Check, loopVars, netVars
<1>7. CASE InIllegal
  BY <1>7, FrameType DEF TypeOK, InIllegal, TellIllegal, FrameHandled, Observe, loopVars
<1>8. CASE iap_load_app
  BY <1>8 DEF TypeOK, iap_load_app, loopVars, netVars
<1>9. CASE MX_LWIP_Process
  BY <1>9, FrameType DEF TypeOK, MX_LWIP_Process, Poll, FrameHandled, Observe, loopVars
<1>10. CASE UNCHANGED vars
  BY <1>10 DEF TypeOK, vars, loopVars, netVars
<1> QED BY <1>1, <1>2, <1>3, <1>4, <1>5, <1>5f, <1>6, <1>7, <1>8, <1>9, <1>10 DEF Next

(* The variables of the main loop keep their types: the counters stay u32  *)
(* values through underflow and wrap-around (main.c:156-159).              *)
THEOREM TypeCorrect == Spec => []TypeOK
<1>1. Init => TypeOK
  BY InitType
<1>2. TypeOK /\ [Next]_vars => TypeOK'
  BY NextType
<1> QED BY <1>1, <1>2, PTL DEF Spec

LEMMA NextHeld == TypeOK /\ HeldForUpload /\ [Next]_vars => HeldForUpload'
<1> SUFFICES ASSUME TypeOK, HeldForUpload, [Next]_vars PROVE HeldForUpload'
  OBVIOUS
<1>1. ASSUME UNCHANGED wait_flag, Frame
      PROVE  HeldForUpload'
  BY <1>1, FrameType DEF HeldForUpload
<1>2. CASE InWait
  BY <1>1, <1>2 DEF InWait, TellWait, FrameHandled, loopVars
<1>3. CASE Flag
  BY <1>3 DEF HeldForUpload, Flag, loopVars, netVars
<1>4. CASE InStart
  BY <1>1, <1>4 DEF InStart, TellStart, FrameHandled
<1>5. CASE InFinish \/ Finish
  BY <1>1, <1>5
     DEF InFinish, TellFinish, FrameHandled, loopVars, Finish, Finished, HeldForUpload
<1>6. CASE InIllegal
  BY <1>1, <1>6 DEF InIllegal, TellIllegal, FrameHandled, loopVars
<1>7. CASE MX_LWIP_Process
  BY <1>1, <1>7 DEF MX_LWIP_Process, Poll, FrameHandled, loopVars
<1>8. CASE Top \/ Check \/ iap_load_app \/ UNCHANGED vars
  BY <1>8 DEF HeldForUpload, Top, Check, iap_load_app, vars, loopVars
<1> QED BY <1>2, <1>3, <1>4, <1>5, <1>6, <1>7, <1>8 DEF Next

(* Whatever arrives and when, the countdown is stopped only while          *)
(* upload_flag announces an upload (main.c:156, 173, 190-191).             *)
THEOREM HeldCorrect == Spec => []HeldForUpload
<1>1. Init => HeldForUpload
  BY DEF Init, HeldForUpload
<1>2. TypeOK /\ HeldForUpload /\ [Next]_vars => HeldForUpload'
  BY NextHeld
<1> QED BY <1>1, <1>2, TypeCorrect, PTL DEF Spec

-----------------------------------------------------------------------------
(* What a frame does to Shown and Counted outside "Write File Finish!".    *)
LEMMA FrameShown ==
  ASSUME TypeOK, Shown, Counted, FrameHandled, pc # "in_finish",
         t' = t \/ t' = 0,
         pc' \notin {"in_finish", "finish", "jump"},
         pc' = "check" => t' = 0
  PROVE  Shown' /\ Counted'
<1> USE BootAssumption
<1>1. /\ uploads \in Nat /\ uploads' \in Nat
      /\ upload_flag' \in 0 .. 2
  BY FrameType DEF FrameHandled, TypeOK
<1>2. unheld' <=> uploads' > 0 /\ unheld
  BY Zenon DEF FrameHandled, Observe
<1>3. ASSUME upload_flag' = 0
      PROVE  upload_flag = 0 /\ uploads' = uploads
  BY <1>3, FrameOpen DEF FrameHandled
<1>4. Shown'
  <2>1. ASSUME uploads' > 0, upload_flag' = 0 PROVE unheld'
    <3>1. uploads > 0 /\ upload_flag = 0
      BY <1>3, <2>1
    <3>2. unheld
      BY <3>1 DEF Shown
    <3> QED BY <1>2, <2>1, <3>2
  <2> QED BY <1>2, <2>1 DEF Shown
<1>5. ASSUME upload_flag' = 0, t' <= WAIT_FREQUENCY, ~unheld'
      PROVE  t' <= quiet'
  <2>1. upload_flag = 0 /\ uploads' = uploads
    BY <1>3, <1>5
  <2>2. ~unheld
    BY <1>2, <1>5, <2>1 DEF Shown
  <2>3. uploads = 0
    BY <1>1, <2>1, <2>2 DEF Shown
  <2>4. quiet' = quiet
    BY <2>1, <2>3 DEF FrameHandled, Observe
  <2> QED BY <1>5, <2>1, <2>2, <2>4 DEF Counted, TypeOK
<1>6. Counted'
  BY <1>5 DEF Counted
<1> QED BY <1>4, <1>6

LEMMA NextShown == IInv /\ [Next]_vars => Shown' /\ Counted'
<1> SUFFICES ASSUME IInv, [Next]_vars PROVE Shown' /\ Counted'
  OBVIOUS
<1> USE BootAssumption
<1>0. TypeOK /\ HeldForUpload /\ Shown /\ Counted
  BY DEF IInv
<1>1. CASE Top
  <2>1. /\ UNCHANGED <<uploads, upload_flag, unheld>>
        /\ pc' \notin {"jump", "in_finish", "finish"}
    BY <1>1 DEF Top, netVars
  <2>2. ASSUME upload_flag = 0, t' <= WAIT_FREQUENCY, ~unheld PROVE t' <= quiet'
    <3>1. wait_flag = 1 /\ uploads = 0
      BY <1>0, <2>2 DEF HeldForUpload, TypeOK, Shown
    <3>2. CASE connected
      <4>1. t' = (t + 1) % U32
        BY <1>1, <3>1, <3>2 DEF Top
      <4>2. t' = t + 1 \/ t' = 0
        BY <1>0, <4>1 DEF TypeOK
      <4>3. quiet' = IF quiet < WAIT_FREQUENCY THEN quiet + 1 ELSE quiet
        BY <1>1, <3>1, <3>2 DEF Top
      <4> QED BY <1>0, <2>2, <4>2, <4>3 DEF TypeOK, Counted
    <3>3. CASE ~connected
      BY <1>0, <1>1, <2>2, <3>3 DEF Top, Counted
    <3> QED BY <3>2, <3>3
  <2>3. pc' = "check" => t' # WAIT_FREQUENCY
    <3> SUFFICES ASSUME pc' = "check" PROVE t' # WAIT_FREQUENCY
      OBVIOUS
    <3>1. t' % PER_SECOND_FREQUENVY # 0
      BY <1>1 DEF Top
    <3> QED BY <3>1
  <2>4. Counted'
    BY <2>1, <2>2, <2>3 DEF Counted
  <2>5. Shown'
    BY <1>0, <2>1 DEF Shown
  <2> QED BY <2>4, <2>5
<1>2. CASE InWait
  BY <1>0, <1>2, FrameShown DEF InWait, TellWait, loopVars
<1>3. CASE Flag
  BY <1>0, <1>3 DEF Flag, Restart, loopVars, netVars, Shown, Counted, TypeOK
<1>4. CASE InStart
  BY <1>0, <1>4, FrameShown DEF InStart, TellStart, Restart
<1>5. CASE InFinish
  <2>1. /\ pc = "in_finish" /\ pc' = "finish"
        /\ unheld' <=> uploads' > 0
    BY <1>5, Zenon DEF InFinish, TellFinish, FrameHandled, Observe
  <2>2. upload_flag' # 0
    <3>1. upload_flag # 0
      BY <1>0, <2>1 DEF Shown
    <3> QED BY <1>0, <1>5, <3>1, FrameType DEF InFinish, FrameHandled
  <2> QED BY <2>1, <2>2 DEF Shown, Counted
<1>6. CASE Finish
  BY <1>0, <1>6 DEF Finish, Finished, Restart, netVars, Shown, Counted, TypeOK
<1>7. CASE Check
  BY <1>0, <1>7 DEF Check, loopVars, netVars, Shown, Counted
<1>8. CASE InIllegal
  BY <1>0, <1>8, FrameShown DEF InIllegal, TellIllegal, loopVars
<1>9. CASE iap_load_app
  BY <1>0, <1>9 DEF iap_load_app, loopVars, netVars, Shown, Counted
<1>10. CASE MX_LWIP_Process
  BY <1>0, <1>10, FrameShown DEF MX_LWIP_Process, Poll, loopVars
<1>11. CASE UNCHANGED vars
  BY <1>0, <1>11 DEF vars, loopVars, netVars, Shown, Counted
<1> QED BY <1>1, <1>2, <1>3, <1>4, <1>5, <1>6, <1>7, <1>8, <1>9, <1>10, <1>11 DEF Next

LEMMA InitShown == Init => Shown /\ Counted
BY BootAssumption DEF Init, Shown, Counted

(* The invariant behind FullCountdown.                                     *)
THEOREM InvCorrect == Spec => []IInv
<1>1. Init => IInv
  BY InitType, InitShown DEF IInv, Init, HeldForUpload
<1>2. IInv /\ [Next]_vars => IInv'
  BY NextType, NextHeld, NextShown DEF IInv
<1> QED BY <1>1, <1>2, PTL DEF Spec

(* The board leaves for the application only after a whole countdown       *)
(* without an upload (main.c:195-205), however long the countdown is, or   *)
(* under an upload that was open when line 191 reset upload_flag.          *)
THEOREM FullCountdownCorrect == Spec => []FullCountdown
<1>1. IInv => FullCountdown
  BY BootAssumption
  DEF IInv, TypeOK, Shown, Counted, FullCountdown, QuietCountdown
<1> QED BY <1>1, InvCorrect, PTL

-----------------------------------------------------------------------------
(* The seconds told. *)

LEMMA DivMod ==
  ASSUME NEW n \in Int, NEW d \in Nat \ {0}
  PROVE  n \div d \in Int /\ n % d \in 0 .. d - 1 /\ n = d * (n \div d) + (n % d)
<1>1. n % d \in 0 .. d - 1
  BY SMT
<1>2. n \div d \in Int
  BY SMT
<1>3. n = d * (n \div d) + (n % d)
  BY SMT
<1> QED BY <1>1, <1>2, <1>3

LEMMA SmallMultiple ==
  ASSUME NEW d \in Nat \ {0}, NEW k \in Int, 0 <= d * k, d * k < d
  PROVE  k = 0
<1>1. CASE k >= 1
  <2>1. d * k >= d
    BY <1>1
  <2> QED BY <2>1
<1>2. CASE k <= -1
  <2>1. d * k <= -d
    BY <1>2
  <2> QED BY <2>1
<1> QED BY <1>1, <1>2

(* A count and whole seconds that reach a whole number of seconds, and by  *)
(* less than a second too far, reach it exactly.                           *)
LEMMA Exactly ==
  ASSUME NEW d \in Nat \ {0}, NEW a \in Int, NEW b \in Int, NEW w \in Int,
         a % d = 0, b % d = 0, b <= a + d * w, a + d * w < b + d
  PROVE  a + d * w = b
<1> DEFINE p == a \div d
           q == b \div d
<1>1. p \in Int /\ q \in Int /\ a = d * p /\ b = d * q
  BY DivMod
<1> HIDE DEF p, q
<1>2. d * (p + w - q) = a + d * w - b
  BY <1>1
<1>3. p + w - q \in Int /\ a + d * w - b \in Int
  BY <1>1
<1>4. 0 <= d * (p + w - q) /\ d * (p + w - q) < d
  BY <1>2, <1>3
<1>5. p + w - q = 0
  BY <1>3, <1>4, SmallMultiple
<1>6. a + d * w - b = 0
  BY <1>1, <1>2, <1>5
<1> QED BY <1>1, <1>3, <1>6

(* A pass that does not end a second leaves the seconds rounded up. *)
LEMMA Within ==
  ASSUME NEW d \in Nat \ {0}, NEW a \in Int, NEW b \in Int, NEW w \in Int,
         a % d # 0, b % d = 0, a - 1 + d * w < b + d
  PROVE  a + d * w < b + d
<1> SUFFICES ASSUME a + d * w >= b + d PROVE FALSE
  BY DivMod
<1> DEFINE p == a \div d
           r == a % d
           q == b \div d
<1>1. p \in Int /\ q \in Int /\ r \in 1 .. d - 1 /\ a = d * p + r /\ b = d * q
  BY DivMod
<1> HIDE DEF p, q, r
<1>2. d * (p + w - q - 1) = a - r + d * w - b - d
  BY <1>1
<1>3. p + w - q - 1 \in Int /\ d * w \in Int
  BY <1>1
<1>4. a + d * w = b + d
  BY <1>3
<1>5. d * (p + w - q - 1) = -r
  BY <1>1, <1>2, <1>3, <1>4
<1>6. CASE p + w - q - 1 >= 0
  <2>1. d * (p + w - q - 1) >= 0
    BY <1>3, <1>6
  <2> QED BY <1>1, <1>5, <2>1
<1>7. CASE p + w - q - 1 <= -1
  <2>1. d * (p + w - q - 1) <= -d
    BY <1>3, <1>7
  <2> QED BY <1>1, <1>5, <2>1
<1> QED BY <1>3, <1>6, <1>7

(* A pass of the loop, while wait_time is w and the count a is below b. *)
LEMMA Pass ==
  ASSUME NEW d \in Nat \ {0}, NEW a \in Nat, NEW b \in Nat, NEW w \in Nat,
         b % d = 0, a < b, b <= a + d * w, a + d * w < b + d
  PROVE  LET n == a + 1
         IN  /\ n % d = 0 => w >= 1 /\ b <= n + d * (w - 1) /\ n + d * (w - 1) < b + d
             /\ n % d # 0 => b <= n + d * w /\ n + d * w < b + d
<1> DEFINE n == a + 1
           m == d * w
<1>1. m \in Int /\ d * (w - 1) = m - d /\ n \in Int /\ n - 1 = a /\ n <= b
  OBVIOUS
<1>2. b <= a + m /\ a + m < b + d
  OBVIOUS
<1>3. CASE n % d = 0
  <2>1. m >= d
    <3>1. CASE w >= 1
      BY <3>1, <1>1
    <3>2. CASE w = 0
      <4>1. m = 0
        BY <3>2
      <4> QED BY <4>1, <1>2
    <3> QED BY <3>1, <3>2
  <2>2. b <= n + (m - d)
    <3> SUFFICES ASSUME n + (m - d) < b PROVE FALSE
      BY <1>1
    <3> HIDE DEF n
    <3>1. d * (w - 1) = m - d /\ w - 1 \in Int
      BY <1>1
    <3>2. n + m - 1 >= b /\ n + m < b + d /\ b <= n + m
      BY <1>1, <1>2
    <3>3. n + d * w = b
      <4>1. n \in Int /\ w \in Int /\ b \in Int /\ b <= n + d * w /\ n + d * w < b + d
        BY <1>1, <3>2
      <4> HIDE DEF m
      <4> QED BY <1>3, <4>1, Exactly
    <3>4. n + m = b
      BY <3>3
    <3> QED BY <1>1, <3>2, <3>4
  <2>3. n + (m - d) < b + d
    BY <1>1, <1>2
  <2>4. w >= 1
    <3>1. CASE w = 0
      <4>1. m = 0
        BY <3>1
      <4> QED BY <4>1, <2>1
    <3> QED BY <3>1
  <2> QED BY <1>1, <1>3, <2>2, <2>3, <2>4
<1>4. CASE n % d # 0
  <2>1. b <= n + m
    BY <1>1, <1>2
  <2>2. n - 1 + d * w < b + d
    BY <1>1, <1>2
  <2>3. n + d * w < b + d
    <3>1. n \in Int /\ w \in Int /\ b \in Int
      BY <1>1
    <3> HIDE DEF n, m
    <3> QED BY <1>4, <2>2, <3>1, Within
  <2>4. b <= n + d * w
    BY <2>1
  <2> QED BY <1>4, <2>3, <2>4
<1> QED BY <1>3, <1>4

LEMMA SecondsExact == PER_SECOND_FREQUENVY * Seconds = WAIT_FREQUENCY
<1>1. WAIT_FREQUENCY = PER_SECOND_FREQUENVY * Seconds + (WAIT_FREQUENCY % PER_SECOND_FREQUENVY)
  BY DivMod, BootAssumption DEF Seconds
<1>2. Seconds \in Nat /\ PER_SECOND_FREQUENVY \in Nat
  BY SecondsType, BootAssumption
<1> QED BY <1>1, <1>2, BootAssumption

(* A frame after which nothing announces an upload and none is unheld was  *)
(* handled in such a state, and the vectors are the same.                  *)
LEMMA FrameWait ==
  ASSUME IInv, FrameHandled, upload_flag' = 0, ~unheld'
  PROVE  upload_flag = 0 /\ ~unheld /\ vector' = vector
<1>1. TypeOK /\ Shown /\ uploads \in Nat
  BY BootAssumption DEF IInv, TypeOK
<1>2. /\ upload_flag = 0 /\ uploads' = uploads
      /\ uploads = 0 => vector' = vector
  BY <1>1, FrameOpen DEF FrameHandled
<1>3. unheld' <=> uploads' > 0 /\ (unheld \/ pc = "in_finish")
  BY Zenon DEF FrameHandled, Observe
<1>4. ~unheld
  BY <1>1, <1>2, <1>3 DEF Shown
<1>5. uploads = 0
  BY <1>1, <1>2, <1>4 DEF Shown
<1> QED BY <1>2, <1>4, <1>5

LEMMA TopWait ==
  ASSUME IInv, WaitInv, Top
  PROVE  WaitInv'
<1> DEFINE d == PER_SECOND_FREQUENVY
           W == WAIT_FREQUENCY
<1>1. d \in Nat \ {0} /\ W \in Nat /\ W % d = 0 /\ U32 \in Nat /\ W < U32
  BY BootAssumption
<1>2. t \in Nat /\ wait_time \in 0 .. U32 - 1
  BY <1>1 DEF IInv, TypeOK
<1>3. /\ pc = "top" /\ UNCHANGED <<vector, upload_flag, unheld>>
      /\ pc' \in {"in_wait", "flag", "check", "lwip"}
  BY DEF Top, netVars
<1>4. pc' = "in_wait" => t' % d = 0
  BY DEF Top
<1> SUFFICES ASSUME vector # "none", upload_flag = 0, ~unheld
             PROVE  /\ W <= t' + d * wait_time'
                    /\ t' + d * wait_time' < W + d
                    /\ t' <= W
                    /\ pc' = "lwip" => t' < W
  BY <1>3, <1>4 DEF WaitInv
<1>5. W <= t + d * wait_time /\ t + d * wait_time < W + d /\ t < W
  BY <1>3 DEF WaitInv
<1>6. wait_flag = 1
  BY DEF IInv, HeldForUpload, TypeOK
<1>7. CASE ~connected
  BY <1>5, <1>7, <1>2, <1>1 DEF Top
<1>8. CASE connected
  <2>1. t' = t + 1
    <3>1. t' = (t + 1) % U32
      BY <1>6, <1>8 DEF Top
    <3>2. t + 1 \in 0 .. U32 - 1
      BY <1>1, <1>2, <1>5
    <3> QED BY <1>1, <3>1, <3>2
  <2>2. pc' # "lwip" /\ t' <= W
    BY <1>1, <1>2, <1>5, <1>8, <2>1 DEF Top
  <2>3. /\ t' % d = 0 => /\ wait_time >= 1 /\ W <= t' + d * (wait_time - 1)
                         /\ t' + d * (wait_time - 1) < W + d
        /\ t' % d # 0 => W <= t' + d * wait_time /\ t' + d * wait_time < W + d
    <3>1. wait_time \in Nat
      BY <1>1, <1>2
    <3> HIDE DEF d, W
    <3> QED BY <1>1, <1>2, <1>5, <2>1, <3>1, Pass
  <2>4. CASE t' % d = 0
    <3>1. wait_time' = wait_time - 1
      <4>1. wait_time' = (wait_time + U32 - 1) % U32
        BY <1>8, <2>4 DEF Top, CountDown
      <4>2. wait_time \in 1 .. U32 - 1
        BY <1>1, <1>2, <2>3, <2>4
      <4>3. \A n \in 1 .. U32 - 1 : (n + U32 - 1) % U32 = n - 1
        BY <1>1
      <4> QED BY <4>1, <4>2, <4>3
    <3> QED BY <2>2, <2>3, <2>4, <3>1
  <2>5. CASE t' % d # 0
    <3>1. wait_time' = wait_time
      BY <1>8, <2>5 DEF Top
    <3> QED BY <2>2, <2>3, <2>5, <3>1
  <2> QED BY <2>4, <2>5
<1> QED BY <1>7, <1>8

LEMMA NextWait == IInv /\ WaitInv /\ [Next]_vars => WaitInv'
<1> SUFFICES ASSUME IInv, WaitInv, [Next]_vars PROVE WaitInv'
  OBVIOUS
<1>1. ASSUME FrameHandled, UNCHANGED loopVars, pc' \in {"flag", "top", "lwip"},
             pc \in {"in_wait", "in_illegal", "lwip"}, pc' = "top" => pc = "lwip",
             pc' = "lwip" => pc = "in_illegal"
      PROVE  WaitInv'
  <2>1. upload_flag' = 0 /\ ~unheld' => upload_flag = 0 /\ ~unheld /\ vector' = vector
    BY <1>1, FrameWait
  <2> QED BY <1>1, <2>1 DEF WaitInv, loopVars
<1>2. ASSUME Frame, upload_flag # 0, pc' \in {"check", "finish"}
      PROVE  WaitInv'
  <2>1. upload_flag' # 0
    BY <1>2, FrameType DEF IInv
  <2> QED BY <1>2, <2>1 DEF WaitInv
<1>3. CASE Top
  BY <1>3, TopWait
<1>4. CASE InWait
  BY <1>1, <1>4 DEF InWait, TellWait
<1>5. CASE Flag
  BY <1>5 DEF Flag, WaitInv, loopVars, netVars
<1>6. CASE InStart
  BY <1>2, <1>6 DEF InStart, TellStart, FrameHandled, WaitInv
<1>7. CASE InFinish
  BY <1>2, <1>7 DEF InFinish, TellFinish, FrameHandled, IInv, Shown
<1>8. CASE Finish
  <2>1. pc' = "check" /\ t' = 0 /\ wait_time' = Seconds
    BY <1>8 DEF Finish, Finished, Restart
  <2>2. /\ WAIT_FREQUENCY \in Nat /\ PER_SECOND_FREQUENVY \in Nat \ {0}
        /\ 0 + PER_SECOND_FREQUENVY * Seconds = WAIT_FREQUENCY
    BY SecondsExact, BootAssumption
  <2>3. WAIT_FREQUENCY < WAIT_FREQUENCY + PER_SECOND_FREQUENVY
    BY <2>2
  <2> QED BY <2>1, <2>2, <2>3 DEF WaitInv
<1>9. CASE Check
  <2>1. t \in Nat /\ WAIT_FREQUENCY \in Nat
    BY BootAssumption DEF IInv, TypeOK
  <2>2. /\ UNCHANGED <<loopVars, vector, upload_flag, unheld>>
        /\ pc' = IF t # WAIT_FREQUENCY THEN "lwip"
                 ELSE IF vector = "none" THEN "in_illegal" ELSE "jump"
    BY <1>9 DEF Check, netVars
  <2> QED BY <2>1, <2>2 DEF WaitInv, loopVars
<1>10. CASE InIllegal
  BY <1>1, <1>10 DEF InIllegal, TellIllegal
<1>11. CASE iap_load_app
  BY <1>11 DEF iap_load_app, WaitInv, loopVars, netVars
<1>12. CASE MX_LWIP_Process
  BY <1>1, <1>12 DEF MX_LWIP_Process, Poll
<1>13. CASE UNCHANGED vars
  BY <1>13 DEF WaitInv, vars, loopVars, netVars
<1> QED BY <1>3, <1>4, <1>5, <1>6, <1>7, <1>8, <1>9, <1>10, <1>11, <1>12, <1>13 DEF Next

(* The seconds the client is told are those that are left to the jump      *)
(* (main.c:159-166), with counters that wrap and for every length of the   *)
(* countdown.                                                              *)
THEOREM WaitTimeTellsCorrect == Spec => []WaitTimeTells
<1>1. Init => WaitInv
  <2> SUFFICES ASSUME Init PROVE WaitInv
    OBVIOUS
  <2>1. /\ WAIT_FREQUENCY \in Nat \ {0} /\ PER_SECOND_FREQUENVY \in Nat \ {0}
        /\ 0 + PER_SECOND_FREQUENVY * Seconds = WAIT_FREQUENCY
    BY SecondsExact, BootAssumption
  <2>2. /\ WAIT_FREQUENCY < WAIT_FREQUENCY + PER_SECOND_FREQUENVY
        /\ 0 < WAIT_FREQUENCY
    BY <2>1
  <2>3. t = 0 /\ wait_time = Seconds /\ pc = "top"
    BY DEF Init
  <2> QED BY <2>1, <2>2, <2>3 DEF WaitInv
<1>2. IInv /\ WaitInv => WaitTimeTells
  <2> SUFFICES ASSUME IInv, WaitInv, pc = "in_wait", vector # "none", upload_flag = 0,
                      ~unheld
               PROVE  t + PER_SECOND_FREQUENVY * wait_time = WAIT_FREQUENCY
    BY DEF WaitTimeTells
  <2>1. /\ t \in Int /\ wait_time \in Int /\ WAIT_FREQUENCY \in Int
        /\ PER_SECOND_FREQUENVY \in Nat \ {0}
        /\ WAIT_FREQUENCY % PER_SECOND_FREQUENVY = 0
    BY BootAssumption DEF IInv, TypeOK
  <2>2. /\ t % PER_SECOND_FREQUENVY = 0
        /\ WAIT_FREQUENCY <= t + PER_SECOND_FREQUENVY * wait_time
        /\ t + PER_SECOND_FREQUENVY * wait_time < WAIT_FREQUENCY + PER_SECOND_FREQUENVY
    BY DEF WaitInv
  <2> QED BY <2>1, <2>2, Exactly
<1> QED BY <1>1, <1>2, NextWait, InvCorrect, PTL DEF Spec
=============================================================================
