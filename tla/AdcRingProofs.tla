--------------------------- MODULE AdcRingProofs ---------------------------
(***************************************************************************)
(* Proofs about AdcRing for a ring of any size: the types, the buffer that *)
(* is there whenever it is used, and the command that never reads past     *)
(* what the interrupt has stored.                                          *)
(***************************************************************************)
EXTENDS AdcRing, TLAPS

(* The cursors, the slots and what the command has read have their types.  *)
Typed ==
  /\ init \in {-1, 0, 1, 2}
  /\ count \in 0 .. Wrap - 1 /\ overrun \in 0 .. Wrap - 1
  /\ buf_rx \in Slots /\ buf_tx \in Slots
  /\ pbuf = << >> \/ pbuf \in [Slots -> Nat]
  /\ irq \in BOOLEAN
  /\ pc \in {"idle", "started", "check", "check2", "get"}
  /\ seen \in {"none", "tx", "rx", "count"} \X (0 .. Size)
  /\ made \in Nat

(* The interrupt is enabled, with slots to fill, from the start of the     *)
(* conversion to its stop, and the command is past its first step only     *)
(* between the two.                                                        *)
Enabled ==
  /\ irq => pbuf \in [Slots -> Nat]
  /\ init > 0 \/ pc # "idle" => irq

(* What the command is about to compute, or has computed, is there: a      *)
(* cursor the interrupt has moved since it was read only makes the         *)
(* difference smaller, or the ring is full.                                *)
Counted ==
  /\ pc = "check2" => \/ seen[1] = "tx" /\ Between(seen[2], buf_rx) <= Unread /\ seen[2] \in Slots
                      \/ seen[1] = "rx" /\ Between(buf_tx, seen[2]) <= Unread /\ seen[2] \in Slots
  /\ pc = "get" => seen[2] <= Unread /\ seen[2] > 0

IInv == Typed /\ Enabled /\ Counted

(* Slots that are allocated are not the empty function.                    *)
LEMMA SlotsAllocated == ASSUME NEW f \in [Slots -> Nat] PROVE f # << >>
<1>1. 0 \in Slots
  BY RingAssumption DEF Slots
<1>2. DOMAIN f = Slots
  OBVIOUS
<1>3. DOMAIN << >> = 1 .. 0
  OBVIOUS
<1> QED
  BY <1>1, <1>2, <1>3

(* A 16-bit counter stays a 16-bit counter.                                *)
LEMMA Wrapped == ASSUME NEW n \in Nat PROVE n % Wrap \in 0 .. Wrap - 1
BY RingAssumption

(* Differences of cursors are counts of slots.                             *)
LEMMA BetweenCounts ==
  ASSUME NEW tx \in Slots, NEW rx \in Slots
  PROVE  Between(tx, rx) \in 0 .. Size - 1
BY RingAssumption DEF Between, Slots

(* The slot after a slot is a slot, and a ring whose oldest slot follows   *)
(* the one written next is full.                                           *)
LEMMA SlotAfter == ASSUME NEW slot \in Slots PROVE NextSlot(slot) \in Slots
BY RingAssumption DEF NextSlot, Slots

LEMMA FullRing ==
  ASSUME NEW slot \in Slots PROVE Between(slot, NextSlot(slot)) = Size - 1
BY RingAssumption DEF NextSlot, Between, Slots

(* The ring has no samples, nothing is allocated, and no command runs.     *)
LEMMA Initially == Init => IInv
<1> SUFFICES ASSUME Init PROVE IInv
  OBVIOUS
<1> USE RingAssumption DEF Init
<1>1. 0 \in Slots /\ 0 \in 0 .. Wrap - 1 /\ 0 \in 0 .. Size
  BY DEF Slots
<1>2. Typed
  BY <1>1 DEF Typed
<1>3. Enabled /\ Counted
  BY DEF Enabled, Counted
<1> QED
  BY <1>2, <1>3 DEF IInv

(* A slot that does not run into the reader is one slot further from it.   *)
LEMMA StepAway == ASSUME NEW tx \in Slots, NEW rx \in Slots, NextSlot(tx) # rx
                  PROVE  Between(NextSlot(tx), rx) = Between(tx, rx) + 1
  BY RingAssumption DEF Between, NextSlot, Slots

(* A conversion keeps the invariant, whatever the command is doing.        *)
LEMMA Interrupted == ASSUME IInv, adc_int_handler PROVE IInv'
<1> USE RingAssumption DEF IInv, Typed
<1>1. pbuf \in [Slots -> Nat]
  BY DEF adc_int_handler, Enabled
<1>2. buf_tx' \in Slots /\ buf_rx' \in Slots
  BY SMTT(30) DEF adc_int_handler, NextSlot, AfterDrop, Slots
<1>3. overrun' \in 0 .. Wrap - 1
  <2>1. overrun + 1 \in Nat
    OBVIOUS
  <2>2. (overrun + 1) % Wrap \in 0 .. Wrap - 1
    BY <2>1, Wrapped
  <2> QED
    BY <2>2 DEF adc_int_handler, Overrun
<1>4. Typed'
  BY <1>1, <1>2, <1>3 DEF adc_int_handler
<1>5. Enabled'
  BY <1>1 DEF adc_int_handler, Enabled
<1>6. Counted'
  <2>1. CASE buf_rx = buf_tx'
    <3>1. Unread' = Size - 1
      <4>1. buf_rx' = NextSlot(buf_tx')
        BY <2>1 DEF adc_int_handler, AfterDrop
      <4> QED
        BY <4>1, <1>2, FullRing DEF Unread
    <3>2. \A v \in Slots : Between(v, buf_rx') <= Size - 1 /\ Between(buf_tx', v) <= Size - 1
      <4>1. \A v \in Slots : Between(v, buf_rx') \in 0 .. Size - 1 /\ Between(buf_tx', v) \in 0 .. Size - 1
        BY <1>2, BetweenCounts
      <4> QED
        BY <4>1
    <3>3. pc' = pc /\ seen' = seen
      BY DEF adc_int_handler
    <3>4. pc = "get" => seen[2] <= Size - 1
      BY BetweenCounts DEF Counted, Unread
    <3> QED
      BY <3>1, <3>2, <3>3, <3>4 DEF Counted
  <2>2. CASE buf_rx # buf_tx'
    <3>1. buf_rx' = buf_rx /\ pc' = pc /\ seen' = seen
      BY <2>2 DEF adc_int_handler
    <3>2. Unread' = Unread + 1
      <4>1. buf_tx' = NextSlot(buf_tx) /\ NextSlot(buf_tx) # buf_rx /\ Unread' = Between(NextSlot(buf_tx), buf_rx)
        BY <2>2, <3>1 DEF adc_int_handler, Unread
      <4>2. Between(NextSlot(buf_tx), buf_rx) = Between(buf_tx, buf_rx) + 1
        BY <4>1, StepAway
      <4> QED
        BY <4>1, <4>2 DEF Unread
    <3>3. \A v \in Slots : Between(buf_tx', v) <= Between(buf_tx, v) + 1
      BY DEF adc_int_handler, Between, NextSlot, Slots
    <3>4. \A v \in Slots : Between(v, buf_rx) \in 0 .. Size - 1 /\ Between(buf_tx, v) \in 0 .. Size - 1
                             /\ Between(buf_tx', v) \in 0 .. Size - 1
      BY BetweenCounts, <1>2
    <3>5. Unread \in 0 .. Size - 1
      BY BetweenCounts DEF Unread
    <3> QED
      BY SMTT(30), <3>1, <3>2, <3>3, <3>4, <3>5 DEF Counted
  <2> QED
    BY <2>1, <2>2
<1> QED
  BY <1>4, <1>5, <1>6

(* The two subtractions of adc_chkdata leave a count that is there.        *)
LEMMA Checked == ASSUME IInv, CheckFirst \/ CheckSecond PROVE IInv'
<1> USE RingAssumption DEF IInv, Typed, Enabled
<1>1. CASE CheckFirst
  <2>1. Unread' = Unread /\ Unread \in 0 .. Size - 1
    BY <1>1, BetweenCounts DEF CheckFirst, ring, Unread
  <2>2. Typed' /\ Enabled'
    BY <1>1 DEF CheckFirst, ring, Slots
  <2>3. Counted'
    BY <1>1, <2>1 DEF CheckFirst, ring, Counted, Unread
  <2> QED
    BY <2>2, <2>3
<1>2. CASE CheckSecond
  <2> DEFINE len == IF seen[1] = "tx" THEN Between(seen[2], buf_rx) ELSE Between(buf_tx, seen[2])
             i   == IF len < Room THEN len ELSE Room
  <2>1. len \in 0 .. Size - 1 /\ len <= Unread
    BY <1>2, BetweenCounts DEF CheckSecond, Counted
  <2>2. Room \in Nat \ {0}
    BY DEF Room
  <2>3. i \in 0 .. Size - 1 /\ i <= Unread
    <3>1. Unread \in 0 .. Size - 1
      BY BetweenCounts DEF Unread
    <3> HIDE DEF len
    <3> QED
      BY <2>1, <2>2, <3>1
  <2>4. seen' = <<"count", i>> /\ pc' = IF i = 0 THEN "idle" ELSE "get"
    BY <1>2 DEF CheckSecond
  <2>5. Unread' = Unread
    BY <1>2 DEF CheckSecond, ring, Unread
  <2>6. Typed' /\ Enabled'
    BY <1>2, <2>3, <2>4 DEF CheckSecond, ring
  <2>7. Counted'
    BY <2>3, <2>4, <2>5 DEF Counted
  <2> QED
    BY <2>6, <2>7
<1> QED
  BY <1>1, <1>2

(* adc_getdata moves buf_rx over samples that are there.                   *)
LEMMA Gotten == ASSUME IInv, adc_getdata PROVE IInv'
<1> USE RingAssumption DEF IInv, Typed, Enabled
<1>1. seen[2] \in 0 .. Size - 1
  BY SMTT(30), BetweenCounts DEF adc_getdata, Counted, Unread
<1>2. buf_rx' \in Slots
  <2>1. buf_rx' = SlotAt(buf_rx + seen[2])
    BY DEF adc_getdata
  <2> QED
    BY SMTT(30), <1>1, <2>1 DEF SlotAt, Slots
<1>3. count' \in 0 .. Wrap - 1
  <2>1. count + seen[2] \in Nat
    BY <1>1
  <2>2. count' = (count + seen[2]) % Wrap
    BY DEF adc_getdata
  <2> QED
    BY <2>1, <2>2, Wrapped
<1>4. /\ pc' = "idle" /\ seen' = <<"none", 0>> /\ irq
      /\ UNCHANGED <<init, overrun, buf_tx, pbuf, irq, made>>
  BY DEF adc_getdata
<1>5. Typed'
  BY <1>2, <1>3, <1>4
<1>6. Enabled' /\ Counted'
  BY <1>4 DEF Counted
<1> QED
  BY <1>5, <1>6

(* The invariant is inductive.                                             *)
LEMMA Inductive == ASSUME IInv, [Next]_vars PROVE IInv'
<1> USE RingAssumption
<1>1. CASE adc_int_handler
  BY <1>1, Interrupted
<1>2. CASE CommandStop
  <2>1. pc' = "idle" /\ irq' = FALSE /\ init' = -1 /\ ~(init' > 0)
    BY <1>2 DEF CommandStop
  <2>2. Typed'
    BY <1>2, <2>1 DEF CommandStop, IInv, Typed
  <2>3. Enabled' /\ Counted'
    BY <2>1 DEF Enabled, Counted
  <2> QED
    BY <2>2, <2>3 DEF IInv
<1>3. CASE CommandStart
  <2>1. 0 \in Slots /\ 0 \in 0 .. Wrap - 1
    BY DEF Slots
  <2>2. [s \in Slots |-> 0] \in [Slots -> Nat]
    OBVIOUS
  <2>3. Typed'
    BY <1>3, <2>1, <2>2 DEF CommandStart, IInv, Typed
  <2>4. Enabled'
    BY <1>3, <2>2 DEF CommandStart, IInv, Enabled
  <2>5. Counted'
    BY <1>3 DEF CommandStart, Counted
  <2> QED
    BY <2>3, <2>4, <2>5 DEF IInv
<1>4. CASE CommandStarted
  BY <1>4 DEF CommandStarted, IInv, Typed, Enabled, Counted
<1>5. CASE CommandGet
  BY <1>5 DEF CommandGet, ring, IInv, Typed, Enabled, Counted
<1>6. CASE CheckFirst \/ CheckSecond
  BY <1>6, Checked
<1>7. CASE adc_getdata
  BY <1>7, Gotten
<1>8. CASE UNCHANGED vars
  BY <1>8 DEF vars, IInv, Typed, Enabled, Counted, Unread
<1> QED
  BY <1>1, <1>2, <1>3, <1>4, <1>5, <1>6, <1>7, <1>8 DEF Next

LEMMA Always == Spec => []IInv
<1>1. Init => IInv
  BY Initially
<1>2. IInv /\ [Next]_vars => IInv'
  BY Inductive
<1> QED
  BY <1>1, <1>2, PTL DEF Spec

(* The state of the driver has the types of its fields.                    *)
THEOREM RingTyped == Spec => []TypeOK
<1>1. IInv => TypeOK
  BY DEF IInv, Typed, TypeOK
<1> QED
  BY <1>1, Always, PTL

(* The interrupt and adc_getdata only run with slots allocated.            *)
THEOREM SlotsWhileUsed == Spec => []BufferWhileUsed
<1>1. IInv => BufferWhileUsed
  BY SlotsAllocated DEF IInv, Enabled, BufferWhileUsed
<1> QED
  BY <1>1, Always, PTL

(* The count computed with interrupts enabled is there when it is read.    *)
THEOREM NothingOverread == Spec => []NeverOverreads
<1>1. IInv => NeverOverreads
  BY DEF IInv, Counted, NeverOverreads
<1> QED
  BY <1>1, Always, PTL
-----------------------------------------------------------------------------
(***************************************************************************)
(* What is in the ring and in a block.  Counters modulo Wrap are compared  *)
(* through the multiple of Wrap they differ by.                            *)
(***************************************************************************)
LEMMA ModPart == ASSUME NEW n \in Nat PROVE \E q \in Int : n = (n % Wrap) + q * Wrap
<1>1. Wrap \in Nat /\ Wrap > 0
  BY RingAssumption
<1>2. n \div Wrap \in Int
  BY <1>1
<1>3. n = (n % Wrap) + (n \div Wrap) * Wrap
  BY <1>1
<1> QED
  BY <1>2, <1>3

LEMMA Multiple == ASSUME NEW q \in Int PROVE (q * Wrap) % Wrap = 0
<1>1. Wrap \in Nat /\ Wrap > 0
  BY RingAssumption
<1> QED
  BY <1>1

LEMMA Multiples == \A x \in Int : x * Wrap \in Int
BY RingAssumption

LEMMA SumOfMultiples ==
  ASSUME NEW p \in Int, NEW q \in Int
  PROVE  \E r \in Int : p * Wrap + q * Wrap = r * Wrap
<1>1. Wrap \in Nat
  BY RingAssumption
<1>2. p + q \in Int /\ p * Wrap + q * Wrap = (p + q) * Wrap
  BY <1>1
<1> QED
  BY <1>2

(* Numbers that differ by a multiple of Wrap have the same remainder.      *)
LEMMA Same == ASSUME NEW a \in Int, NEW q \in Int PROVE (a + q * Wrap) % Wrap = a % Wrap
<1>1. Wrap \in Nat /\ Wrap > 0
  BY RingAssumption
<1> DEFINE b == a + q * Wrap
           p == (a \div Wrap) + q - (b \div Wrap)
<1>2. b \in Int /\ b = (b % Wrap) + (b \div Wrap) * Wrap /\ b % Wrap \in 0..Wrap - 1 /\ b \div Wrap \in Int
  <2>1. b \in Int
    BY <1>1
  <2> HIDE DEF b
  <2> QED BY <2>1, <1>1
<1>3. a = (a % Wrap) + (a \div Wrap) * Wrap /\ a % Wrap \in 0..Wrap - 1 /\ a \div Wrap \in Int
  BY <1>1
<1>4. (b % Wrap) - (a % Wrap) = p * Wrap /\ p \in Int
  <2>1. b = (a % Wrap) + (a \div Wrap) * Wrap + q * Wrap
    BY <1>3
  <2>2. \A x, y, z \in Int : (x + y - z) * Wrap = x * Wrap + y * Wrap - z * Wrap
    BY <1>1
  <2>3. p * Wrap = (a \div Wrap) * Wrap + q * Wrap - (b \div Wrap) * Wrap
    BY <1>2, <1>3, <2>2
  <2>4. p \in Int
    BY <1>2, <1>3
  <2>5. q * Wrap \in Int /\ (a \div Wrap) * Wrap \in Int /\ (b \div Wrap) * Wrap \in Int
    BY <1>1, <1>2, <1>3
  <2> HIDE DEF b, p
  <2> QED BY <1>2, <1>3, <2>1, <2>3, <2>4, <2>5
<1> HIDE DEF b, p
<1>5. p = 0
  <2>1. \A x \in Int : (x >= 1 => x * Wrap >= Wrap) /\ (x <= -1 => x * Wrap <= - Wrap)
    BY <1>1
  <2> QED BY <1>1, <1>2, <1>3, <1>4, <2>1
<1>6. b % Wrap = a % Wrap
  BY <1>1, <1>2, <1>3, <1>4, <1>5
<1> QED BY <1>6 DEF b

(* The number of the oldest sample is the sum of the counters, modulo Wrap.*)
Numbered == irq => \E q \in Int : made - Unread = count + overrun + q * Wrap

(* The interrupt is enabled from the start of a conversion to its stop.    *)
Running == irq => init > 0 \/ pc = "started"

KInv == IInv /\ RingInOrder /\ Numbered /\ BlockExact /\ Running

(* A conversion adds the newest sample, and drops the oldest when it must. *)
LEMMA InterruptedInOrder ==
  ASSUME KInv, adc_int_handler
  PROVE  RingInOrder'
<1> USE RingAssumption DEF KInv, IInv, Typed
<1>1. /\ irq /\ irq' /\ made' = made + 1 /\ made \in Nat
      /\ buf_tx' = NextSlot(buf_tx) /\ pbuf' = [pbuf EXCEPT ![buf_tx] = made]
  BY DEF adc_int_handler
<1>2. pbuf \in [Slots -> Nat] /\ buf_tx \in Slots /\ buf_rx \in Slots
  BY <1>1 DEF Enabled
<1>3. /\ pbuf'[buf_tx] = made
      /\ \A s \in Slots \ {buf_tx} : pbuf'[s] = pbuf[s]
  BY <1>1, <1>2
<1>4. Unread \in 0 .. Size - 1
  BY BetweenCounts DEF Unread
<1>5. /\ Unread <= made
      /\ \A k \in 0 .. Size - 2 : k < Unread => pbuf[SlotAt(buf_rx + k)] = made - Unread + k
  BY <1>1 DEF RingInOrder
<1>6. CASE buf_rx = buf_tx'
  <2>1. buf_rx' = NextSlot(buf_rx)
    BY <1>6 DEF adc_int_handler, AfterDrop
  <2>2. Unread = Size - 1
    BY <1>1, <1>2, <1>6, FullRing DEF Unread
  <2>3. Unread' = Size - 1
    BY <1>1, <1>2, <1>6, <2>1, SlotAfter, FullRing DEF Unread
  <2>4. ASSUME NEW k \in 0 .. Size - 2
        PROVE  pbuf'[SlotAt(buf_rx' + k)] = made' - (Size - 1) + k
    <3>1. CASE k = Size - 2
      <4>1. SlotAt(buf_rx' + k) = buf_tx
        BY <1>1, <1>2, <1>6, <2>1, <3>1 DEF SlotAt, NextSlot, Slots
      <4> QED
        BY <1>1, <1>3, <3>1, <4>1
    <3>2. CASE k < Size - 2
      <4>1. /\ SlotAt(buf_rx' + k) = SlotAt(buf_rx + (k + 1))
            /\ SlotAt(buf_rx + (k + 1)) \in Slots \ {buf_tx}
        BY <1>1, <1>2, <1>6, <2>1, <3>2 DEF SlotAt, NextSlot, Slots
      <4>2. pbuf[SlotAt(buf_rx + (k + 1))] = made - (Size - 1) + (k + 1)
        BY <1>5, <2>2, <3>2
      <4> QED
        BY <1>1, <1>3, <4>1, <4>2
    <3> QED
      BY <3>1, <3>2
  <2> QED
    BY <1>1, <1>5, <2>2, <2>3, <2>4 DEF RingInOrder
<1>7. CASE buf_rx # buf_tx'
  <2>1. buf_rx' = buf_rx
    BY <1>7 DEF adc_int_handler
  <2>2. Unread' = Unread + 1
    <3>1. Between(NextSlot(buf_tx), buf_rx) = Between(buf_tx, buf_rx) + 1
      BY <1>1, <1>2, <1>7, StepAway
    <3> QED
      BY <1>1, <2>1, <3>1 DEF Unread
  <2>3. Unread < Size - 1
    BY <1>1, <1>2, <1>7 DEF Unread, Between, NextSlot, Slots
  <2>4. ASSUME NEW k \in 0 .. Size - 2, k < Unread + 1
        PROVE  pbuf'[SlotAt(buf_rx + k)] = made - Unread + k
    <3>1. CASE k = Unread
      <4>1. SlotAt(buf_rx + k) = buf_tx
        BY <1>2, <3>1 DEF SlotAt, Unread, Between, Slots
      <4> QED
        BY <1>1, <1>3, <1>4, <3>1, <4>1
    <3>2. CASE k < Unread
      <4>1. SlotAt(buf_rx + k) \in Slots \ {buf_tx}
        BY <1>2, <3>2 DEF SlotAt, Unread, Between, Slots
      <4> QED
        BY <1>3, <1>5, <3>2, <4>1
    <3> QED
      BY <1>4, <2>4, <3>1, <3>2
  <2>5. made' - Unread' = made - Unread
    BY <1>1, <1>4, <2>2
  <2> QED
    BY <1>1, <1>4, <1>5, <2>1, <2>2, <2>4, <2>5 DEF RingInOrder
<1> QED
  BY <1>6, <1>7

(* A sample that is dropped is counted.                                    *)
LEMMA InterruptedNumbered ==
  ASSUME KInv, adc_int_handler
  PROVE  Numbered'
<1> USE RingAssumption DEF KInv, IInv, Typed
<1>1. /\ irq /\ made' = made + 1 /\ made \in Nat /\ count' = count /\ buf_tx' = NextSlot(buf_tx)
      /\ count \in Nat /\ overrun \in Nat
  BY DEF adc_int_handler
<1>2. PICK q \in Int : made - Unread = count + overrun + q * Wrap
  BY <1>1 DEF Numbered
<1>3. Unread \in 0 .. Size - 1
  BY BetweenCounts DEF Unread
<1>4. CASE buf_rx = buf_tx'
  <2>1. buf_rx' = NextSlot(buf_rx) /\ overrun' = (overrun + 1) % Wrap
    BY <1>4 DEF adc_int_handler, AfterDrop, Overrun
  <2>2. Unread = Size - 1
    BY <1>1, <1>4, FullRing DEF Unread
  <2>3. Unread' = Size - 1
    BY <1>1, <1>4, <2>1, SlotAfter, FullRing DEF Unread
  <2>4. PICK p \in Int : overrun + 1 = overrun' + p * Wrap
    <3>1. overrun + 1 \in Nat
      BY <1>1
    <3> QED
      BY <2>1, <3>1, ModPart
  <2>5. overrun' \in Nat
    BY <1>1, <2>1, Wrapped
  <2>6. PICK r \in Int : p * Wrap + q * Wrap = r * Wrap
    BY SumOfMultiples
  <2>7. made' - Unread' = count' + overrun' + r * Wrap
    <3> DEFINE P == p * Wrap
               Q == q * Wrap
    <3>1. made - Unread = count + overrun + Q
      BY <1>2
    <3>2. overrun + 1 = overrun' + P
      BY <2>4
    <3>3. P \in Int /\ Q \in Int
      BY Multiples
    <3> HIDE DEF P, Q, KInv, IInv, Typed
    <3>4. made' - Unread' = count' + overrun' + (P + Q)
      <4>1. made' - Unread' = (made - Unread) + 1
        BY <1>1, <2>2, <2>3
      <4>2. (count + overrun + Q) + 1 = count' + (overrun + 1) + Q
        BY <1>1, <3>3
      <4>3. count' + (overrun' + P) + Q = count' + overrun' + (P + Q)
        BY <1>1, <2>5, <3>3
      <4> QED
        BY <3>1, <3>2, <4>1, <4>2, <4>3
    <3> QED
      BY <2>6, <3>4 DEF P, Q
  <2> QED
    BY <2>7 DEF Numbered
<1>5. CASE buf_rx # buf_tx'
  <2>1. buf_rx' = buf_rx /\ overrun' = overrun
    BY <1>5 DEF adc_int_handler
  <2>2. Unread' = Unread + 1
    <3>1. Between(NextSlot(buf_tx), buf_rx) = Between(buf_tx, buf_rx) + 1
      BY <1>1, <1>5, StepAway
    <3> QED
      BY <1>1, <2>1, <3>1 DEF Unread
  <2>3. made' - Unread' = count' + overrun' + q * Wrap
    BY <1>1, <1>2, <1>3, <2>1, <2>2
  <2> QED
    BY <2>3 DEF Numbered
<1> QED
  BY <1>4, <1>5

(* A block takes the oldest samples out of the ring.                       *)
LEMMA GottenInOrder ==
  ASSUME KInv, adc_getdata
  PROVE  RingInOrder' /\ Numbered' /\ BlockExact'
<1> USE RingAssumption DEF KInv, IInv, Typed
<1> DEFINE cnt == seen[2]
<1>1. /\ UNCHANGED <<overrun, buf_tx, pbuf, irq, made>>
      /\ buf_rx' = SlotAt(buf_rx + cnt) /\ count' = (count + cnt) % Wrap
      /\ count \in Nat /\ overrun \in Nat /\ made \in Nat
      /\ buf_tx \in Slots /\ buf_rx \in Slots
  BY DEF adc_getdata
<1>2. irq /\ cnt > 0 /\ cnt <= Unread
  BY DEF adc_getdata, Enabled, Counted
<1>3. Unread \in 0 .. Size - 1 /\ cnt \in 0 .. Size
  BY BetweenCounts DEF Unread
<1>4. block' = [index |-> Index, first |-> pbuf[buf_rx],
                samples |-> [k \in 1 .. cnt |-> pbuf[SlotAt(buf_rx + k - 1)]]]
  BY DEF adc_getdata
<1>5. /\ Unread <= made
      /\ \A k \in 0 .. Size - 2 : k < Unread => pbuf[SlotAt(buf_rx + k)] = made - Unread + k
  BY <1>2 DEF RingInOrder
<1>6. PICK q \in Int : made - Unread = count + overrun + q * Wrap
  BY <1>2 DEF Numbered
<1> HIDE DEF cnt
<1>7. Unread' = Unread - cnt
  BY <1>1, <1>2, <1>3 DEF Unread, Between, SlotAt, Slots
<1>8. RingInOrder'
  <2>1. ASSUME NEW k \in 0 .. Size - 2, k < Unread - cnt
        PROVE  pbuf[SlotAt(buf_rx' + k)] = made - (Unread - cnt) + k
    <3>1. k + cnt \in 0 .. Size - 2 /\ k + cnt < Unread
      BY <1>3, <2>1
    <3>2. SlotAt(buf_rx' + k) = SlotAt(buf_rx + (k + cnt))
      BY <1>1, <1>3, <3>1 DEF SlotAt, Slots
    <3>3. pbuf[SlotAt(buf_rx + (k + cnt))] = made - Unread + (k + cnt)
      BY <1>5, <3>1
    <3> QED
      BY <1>1, <1>3, <3>2, <3>3
  <2>2. Unread - cnt <= made
    BY <1>1, <1>2, <1>3, <1>5
  <2> QED
    BY <1>1, <1>7, <2>1, <2>2 DEF RingInOrder
<1>9. Numbered'
  <2>1. PICK p \in Int : count + cnt = count' + p * Wrap
    <3>1. count + cnt \in Nat
      BY SMTT(30), <1>1, <1>3
    <3> QED
      BY <1>1, <3>1, ModPart
  <2>2. count' \in Nat
    BY <1>1, <1>3, Wrapped
  <2>3. PICK r \in Int : p * Wrap + q * Wrap = r * Wrap
    BY SumOfMultiples
  <2>4. made' - Unread' = count' + overrun' + r * Wrap
    <3> DEFINE P == p * Wrap
               Q == q * Wrap
    <3>1. made - Unread = count + overrun + Q
      BY <1>6
    <3>2. count + cnt = count' + P
      BY <2>1
    <3>3. P \in Int /\ Q \in Int
      BY Multiples
    <3> HIDE DEF P, Q
    <3>4. made' - Unread' = count' + overrun' + (P + Q)
      BY <1>1, <1>3, <1>7, <2>2, <3>1, <3>2, <3>3
    <3> QED
      BY <2>3, <3>4 DEF P, Q
  <2> QED
    BY <2>4 DEF Numbered
<1>10. pbuf[buf_rx] = made - Unread
  <2>1. SlotAt(buf_rx + 0) = buf_rx
    BY <1>1 DEF SlotAt, Slots
  <2>2. pbuf[SlotAt(buf_rx + 0)] = made - Unread + 0
    BY <1>2, <1>3, <1>5
  <2> QED
    BY <1>1, <1>3, <2>1, <2>2
<1>11. ASSUME NEW k \in 1 .. cnt
       PROVE  pbuf[SlotAt(buf_rx + k - 1)] = pbuf[buf_rx] + k - 1
  <2>1. /\ k - 1 \in 0 .. Size - 2 /\ k - 1 < Unread
        /\ buf_rx + k - 1 = buf_rx + (k - 1)
    BY <1>1, <1>2, <1>3 DEF Slots
  <2>2. pbuf[SlotAt(buf_rx + (k - 1))] = made - Unread + (k - 1)
    BY <1>5, <2>1
  <2> QED
    BY <1>1, <1>3, <1>10, <2>1, <2>2
<1>12. (count + overrun) % Wrap = pbuf[buf_rx] % Wrap
  <2>1. count + overrun \in Int
    BY <1>1
  <2>2. (count + overrun + q * Wrap) % Wrap = (count + overrun) % Wrap
    BY <2>1, Same
  <2> QED
    BY <1>6, <1>10, <2>2
<1>13. BlockExact'
  <2>1. /\ block'.index = Index /\ block'.first = pbuf[buf_rx]
        /\ block'.samples = [k \in 1 .. cnt |-> pbuf[SlotAt(buf_rx + k - 1)]]
    BY <1>4
  <2>2. \A k \in DOMAIN block'.samples : block'.samples[k] = block'.first + k - 1
    BY <1>11, <2>1
  <2>3. block'.index = block'.first % Wrap
    BY <1>12, <2>1 DEF Index
  <2> QED
    BY <2>2, <2>3 DEF BlockExact
<1> QED
  BY <1>8, <1>9, <1>13

LEMMA InOrderFirst == Init => RingInOrder /\ Numbered /\ BlockExact /\ Running
<1> SUFFICES ASSUME Init PROVE RingInOrder /\ Numbered /\ BlockExact /\ Running
  OBVIOUS
<1>1. RingInOrder /\ Numbered /\ Running
  BY DEF Init, RingInOrder, Numbered, Running
<1>2. block.index = 0 /\ block.first = 0 /\ DOMAIN block.samples = 1 .. 0
  BY DEF Init, NoBlock
<1>3. 0 % Wrap = 0
  <2>1. 0 * Wrap = 0
    BY RingAssumption
  <2> QED
    BY <2>1, Multiple
<1>4. BlockExact
  BY <1>2, <1>3 DEF BlockExact
<1> QED
  BY <1>1, <1>4

LEMMA KInductive == ASSUME KInv, [Next]_vars PROVE KInv'
<1> USE DEF KInv
<1>1. IInv' /\ Running'
  <2> USE DEF Running
  <2>1. CASE adc_int_handler
    <3>1. init' \in {init, 2} /\ pc' = pc /\ irq' = irq
      BY <2>1 DEF adc_int_handler
    <3> QED
      BY <3>1, Inductive
  <2>2. CASE CommandStop \/ CommandStart \/ CommandStarted
    <3>1. CommandStart => pc' = "started" \/ (~irq /\ irq' = irq)
      BY DEF CommandStart, IInv, Typed
    <3>2. CommandStop => ~irq'
      BY DEF CommandStop
    <3>3. CommandStarted => init' = 1
      BY DEF CommandStarted
    <3>4. CASE pc' = "started" \/ init' = 1
      BY <3>4, Inductive
    <3>5. CASE ~irq'
      BY <3>5, Inductive
    <3>6. (~irq /\ irq' = irq) => ~irq'
      OBVIOUS
    <3> QED
      BY <2>2, <3>1, <3>2, <3>3, <3>4, <3>5, <3>6
  <2>3. CASE CommandGet \/ CheckFirst \/ CheckSecond \/ adc_getdata
    <3>1. pc # "started" /\ init' = init /\ irq' = irq
      BY <2>3 DEF CommandGet, CheckFirst, CheckSecond, adc_getdata, ring
    <3> QED
      BY <3>1, Inductive
  <2>4. CASE UNCHANGED vars
    BY <2>4, Inductive DEF vars
  <2> QED
    BY <2>1, <2>2, <2>3, <2>4 DEF Next
<1>2. CASE adc_int_handler
  <2>1. block' = block
    BY <1>2 DEF adc_int_handler
  <2> QED
    BY <1>1, <1>2, <2>1, InterruptedInOrder, InterruptedNumbered DEF BlockExact
<1>3. CASE CommandStop
  BY <1>1, <1>3 DEF CommandStop, RingInOrder, Numbered, BlockExact
<1>4. CASE CommandStart
  <2>1. block' = block
    BY <1>4 DEF CommandStart
  <2>2. CASE irq' = irq /\ made' = made /\ buf_rx' = buf_rx /\ buf_tx' = buf_tx
             /\ pbuf' = pbuf
    <3>1. ~irq'
      <4>1. init <= 0 /\ pc = "idle"
        BY <1>4 DEF CommandStart
      <4> QED
        BY <2>2, <4>1 DEF Running, IInv, Typed
    <3> QED
      BY <1>1, <2>1, <3>1 DEF RingInOrder, Numbered, BlockExact
  <2>3. CASE buf_rx' = 0 /\ buf_tx' = 0 /\ made' = 0
    <3>1. Unread' = 0 /\ count' = 0 /\ overrun' = 0
      BY <1>4, <2>3 DEF CommandStart, Unread, Between
    <3>2. 0 * Wrap = 0
      BY RingAssumption
    <3>3. RingInOrder'
      BY <2>3, <3>1 DEF RingInOrder
    <3>4. Numbered'
      BY <2>3, <3>1, <3>2 DEF Numbered
    <3> QED
      BY <1>1, <2>1, <3>3, <3>4 DEF BlockExact
  <2> QED
    BY <1>4, <2>2, <2>3 DEF CommandStart
<1>5. CASE CommandStarted \/ CommandGet \/ CheckFirst \/ CheckSecond \/ UNCHANGED vars
  <2>1. UNCHANGED <<count, overrun, buf_rx, buf_tx, pbuf, irq, made, block>>
    BY <1>5 DEF CommandStarted, CommandGet, CheckFirst, CheckSecond, vars, ring
  <2> QED
    BY <1>1, <2>1 DEF RingInOrder, Numbered, BlockExact, Unread
<1>6. CASE adc_getdata
  BY <1>1, <1>6, GottenInOrder
<1> QED
  BY <1>2, <1>3, <1>4, <1>5, <1>6 DEF Next

LEMMA KAlways == Spec => []KInv
<1>1. Init => KInv
  BY Initially, InOrderFirst DEF KInv
<1>2. KInv /\ [Next]_vars => KInv'
  BY KInductive
<1> QED
  BY <1>1, <1>2, PTL DEF Spec

(* The unread slots hold the last samples converted, in order.             *)
THEOREM RingKeepsOrder == Spec => []RingInOrder
<1>1. KInv => RingInOrder
  BY DEF KInv
<1> QED
  BY <1>1, KAlways, PTL

(* The sum of the 16-bit counters is the number of the oldest sample.      *)
THEOREM CountersTell == Spec => []IndexExact
<1>1. KInv => IndexExact
  <2> SUFFICES ASSUME KInv, irq PROVE (made - Unread - (count + overrun)) % Wrap = 0
    BY DEF IndexExact
  <2>1. PICK q \in Int : made - Unread = count + overrun + q * Wrap
    BY DEF KInv, Numbered
  <2>2. /\ q * Wrap \in Int /\ count \in Nat /\ overrun \in Nat /\ made \in Nat
        /\ Unread \in 0 .. Size - 1
    BY Multiples, RingAssumption, BetweenCounts DEF KInv, IInv, Typed, Unread
  <2>3. made - Unread - (count + overrun) = q * Wrap
    <3> DEFINE Q == q * Wrap
    <3>1. Q \in Int /\ made - Unread = count + overrun + Q
      BY <2>1, <2>2
    <3> HIDE DEF Q
    <3>2. made - Unread - (count + overrun) = Q
      BY <2>2, <3>1, RingAssumption
    <3> QED
      BY <3>2 DEF Q
  <2> QED
    BY <2>3, Multiple
<1> QED
  BY <1>1, KAlways, PTL

(* A block is a run of consecutive samples, and its index is the number of *)
(* its first one, for every size of the ring, the block and the counters.  *)
THEOREM BlocksAreRuns == Spec => []BlockExact
<1>1. KInv => BlockExact
  BY DEF KInv
<1> QED
  BY <1>1, KAlways, PTL
=============================================================================
