------------------------------ MODULE AdcRing ------------------------------
(***************************************************************************)
(* adc_ws.c: the ring between the ADC interrupt and the websocket command  *)
(* that sends its samples.  The interrupt may run between any two steps of *)
(* the command, which holds it off only inside adc_getdata.  Samples are   *)
(* numbered from the start of the conversion, so that the block a browser  *)
(* receives can be compared with what was converted.                       *)
(***************************************************************************)
EXTENDS Integers

CONSTANTS
  Size,      (* buf_idx + 1: slots of pbuf.                                *)
  SampleBytes,  (* sizeof(ADC_DATA).                                       *)
  MsgBufSize,   (* msgbufsize: the bytes of the buffer for a block.        *)
  Wrap,      (* 2^16: the 16-bit counters wrap at it.                      *)
  MaxSample  (* Bound of the model: samples converted after a start.       *)

ASSUME RingAssumption ==
  /\ Size \in Nat /\ Size >= 2
  /\ SampleBytes \in Nat \ {0}
  /\ MsgBufSize \in Nat /\ MsgBufSize >= SampleBytes
  /\ Wrap \in Nat \ {0}
  /\ MaxSample \in Nat

VARIABLES
  init,      (* adc_drv.init: -1 stopped, 0 never started, 1 running, 2 running and *)
             (* the overrun counter has wrapped.                           *)
  count,     (* Samples handed out, modulo Wrap.                           *)
  overrun,   (* Samples dropped, modulo Wrap.                              *)
  buf_rx,    (* Slot of the oldest sample not read.                        *)
  buf_tx,    (* Slot of the next sample.                                   *)
  pbuf,      (* The slots; << >> while nothing is allocated.               *)
  irq,       (* Whether the ADC interrupt is enabled.                      *)
  pc,        (* Step of the websocket command.                             *)
  seen,      (* Cursor adc_chkdata has read: <<"tx"/"rx", value>>, or the count.*)
  made,      (* History: number of the next sample.                        *)
  block      (* The last block sent: its index field and its samples.      *)

vars == <<init, count, overrun, buf_rx, buf_tx, pbuf, irq, pc, seen, made, block>>
ring == <<init, count, overrun, buf_rx, buf_tx, pbuf, irq, made>>

Slots == 0 .. Size - 1
Room  == MsgBufSize \div SampleBytes
NoBlock == [index |-> 0, first |-> 0, samples |-> << >>]

(* Samples between two cursors, as adc_chkdata subtracts them.             *)
Between(tx, rx) == IF tx - rx < 0 THEN tx - rx + Size ELSE tx - rx
Unread == Between(buf_tx, buf_rx)

(* Mutant: buf_tx wraps a slot too early.                                  *)
NextSlot_Early(slot) == IF slot >= Size - 2 THEN 0 ELSE slot + 1

NextSlot(slot) == IF slot >= Size - 1 THEN 0 ELSE slot + 1

(* The slot at a distance behind the start of pbuf, less than 2 * Size.    *)
SlotAt(i) == IF i > Size - 1 THEN i - Size ELSE i

(* Mutants of the overrun: the whole ring is dropped, or nothing counted.  *)
AfterDrop_All(tx) == tx
Overrun_Not == overrun

(* The oldest slot after a sample was dropped; tx is the new buf_tx.       *)
AfterDrop(tx) == NextSlot(buf_rx)
Overrun == (overrun + 1) % Wrap

(* Mutant: the index of a block forgets the samples dropped.               *)
Index_NoOverrun == count

(* The index field of a block: all samples handed out or dropped before it.*)
Index == (count + overrun) % Wrap

Init ==
  /\ init = 0
  /\ count = 0 /\ overrun = 0
  /\ buf_rx = 0 /\ buf_tx = 0
  /\ pbuf = << >>
  /\ irq = FALSE
  /\ pc = "idle"
  /\ seen = <<"none", 0>>
  /\ made = 0
  /\ block = NoBlock

---------------------------------------------------------------------------
(* A conversion: the sample goes to the ring, over the oldest when full.   *)
adc_int_handler ==
  /\ irq
  /\ made < MaxSample
  /\ pbuf' = [pbuf EXCEPT ![buf_tx] = made]
  /\ buf_tx' = NextSlot(buf_tx)
  /\ \/ /\ buf_rx = buf_tx'
        /\ overrun' = Overrun
        /\ init' = IF overrun' = 0 THEN 2 ELSE init
        /\ buf_rx' = AfterDrop(buf_tx')
     \/ /\ buf_rx # buf_tx'
        /\ UNCHANGED <<overrun, init, buf_rx>>
  /\ made' = made + 1
  /\ UNCHANGED <<count, irq, pc, seen, block>>

(* Mutant: the slots are freed with the interrupt enabled.                 *)
CommandStop_Unmasked ==
  /\ pc = "idle"
  /\ init > 0
  /\ pbuf' = << >>
  /\ init' = -1
  /\ UNCHANGED <<count, overrun, buf_rx, buf_tx, irq, pc, seen, made, block>>

(* Command 'd' masks the interrupt before it frees the slots.              *)
CommandStop ==
  /\ pc = "idle"
  /\ init > 0
  /\ irq' = FALSE
  /\ pbuf' = << >>
  /\ init' = -1
  /\ UNCHANGED <<count, overrun, buf_rx, buf_tx, pc, seen, made, block>>

(* The default command on a stopped ADC, up to the enabled interrupt; with *)
(* no memory the counters are reset all the same.                          *)
CommandStart ==
  /\ pc = "idle"
  /\ init <= 0
  /\ count' = 0 /\ overrun' = 0
  /\ \/ /\ pbuf' = [s \in Slots |-> 0]
        /\ buf_rx' = 0 /\ buf_tx' = 0
        /\ irq' = TRUE
        /\ made' = 0
        /\ pc' = "started"
     \/ UNCHANGED <<pbuf, buf_rx, buf_tx, irq, made, pc>>
  /\ UNCHANGED <<init, seen, block>>

(* init is set last, and loses a 2 an interrupt may have put there.        *)
CommandStarted ==
  /\ pc = "started"
  /\ init' = 1
  /\ pc' = "check"
  /\ UNCHANGED <<count, overrun, buf_rx, buf_tx, pbuf, irq, seen, made, block>>

(* Command 'g', and the default command on a running ADC.                  *)
CommandGet ==
  /\ pc = "idle"
  /\ init > 0
  /\ pc' = "check"
  /\ UNCHANGED <<ring, seen, block>>

(* adc_chkdata subtracts two cursors the interrupt moves; the compiler     *)
(* may load either of them first.                                          *)
CheckFirst ==
  /\ pc = "check"
  /\ seen' \in {<<"tx", buf_tx>>, <<"rx", buf_rx>>}
  /\ pc' = "check2"
  /\ UNCHANGED <<ring, block>>

CheckSecond ==
  /\ pc = "check2"
  /\ LET len == IF seen[1] = "tx" THEN Between(seen[2], buf_rx) ELSE Between(buf_tx, seen[2])
         i   == IF len < Room THEN len ELSE Room
     IN /\ seen' = <<"count", i>>
        /\ pc' = IF i = 0 THEN "idle" ELSE "get"
  /\ UNCHANGED <<ring, block>>

(* adc_getdata, with interrupts disabled; the frame is then sent or lost.  *)
adc_getdata ==
  /\ pc = "get"
  /\ LET cnt  == seen[2]
     IN /\ block' = [index   |-> Index,
                     first   |-> pbuf[buf_rx],
                     samples |-> [k \in 1 .. cnt |->
                       pbuf[SlotAt(buf_rx + k - 1)]]]
        /\ count' = (count + cnt) % Wrap
        /\ buf_rx' = SlotAt(buf_rx + cnt)
  /\ pc' = "idle"
  /\ seen' = <<"none", 0>>
  /\ UNCHANGED <<init, overrun, buf_tx, pbuf, irq, made>>

Next ==
  \/ adc_int_handler
  \/ CommandStop \/ CommandStart \/ CommandStarted \/ CommandGet
  \/ CheckFirst \/ CheckSecond \/ adc_getdata

Spec == Init /\ [][Next]_vars

---------------------------------------------------------------------------
TypeOK ==
  /\ init \in {-1, 0, 1, 2}
  /\ count \in 0 .. Wrap - 1 /\ overrun \in 0 .. Wrap - 1
  /\ buf_rx \in Slots /\ buf_tx \in Slots
  /\ pbuf = << >> \/ pbuf \in [Slots -> Nat]
  /\ irq \in BOOLEAN
  /\ pc \in {"idle", "started", "check", "check2", "get"}
  /\ seen[2] \in 0 .. Size
  /\ made \in Nat

(* The interrupt never stores into slots that are not allocated, and the   *)
(* command never reads such slots.                                         *)
BufferWhileUsed == irq \/ pc = "get" => pbuf # << >>

(* The unread slots hold the last samples converted, in order: dropping    *)
(* the oldest sample never tears the ring.                                 *)
RingInOrder ==
  irq => /\ Unread <= made
         /\ \A k \in 0 .. Size - 2 : k < Unread =>
              pbuf[SlotAt(buf_rx + k)] = made - Unread + k

(* However the interrupt runs between adc_chkdata and adc_getdata, the     *)
(* count the command computed is there when it is read.                    *)
NeverOverreads == pc = "get" => seen[2] <= Unread

(* "If nothing was missed it equals the last one plus the count read"      *)
(* (adc_getdata): the index of the next block is the number of its first   *)
(* sample, whatever was dropped or handed out before.                      *)
IndexExact == irq => (made - Unread - (count + overrun)) % Wrap = 0

(* A block is a run of consecutive samples, and its index is the number of *)
(* the first one.                                                          *)
BlockExact ==
  /\ \A k \in DOMAIN block.samples : block.samples[k] = block.first + k - 1
  /\ block.index = block.first % Wrap
=============================================================================
