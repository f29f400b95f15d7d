------------------------------ MODULE IrqModule ------------------------------
(***************************************************************************)
(* irq_module: a driver that measures the latency of a periodic timer's    *)
(* interrupt.  The handler counts interrupts and keeps statistics, readers *)
(* of the misc device sleep until an interrupt has been counted that no    *)
(* reader has taken yet, and a sysfs file shows the statistics and resets  *)
(* them.  All of them share the_private_data under irq_lock.               *)
(*                                                                         *)
(* What is done with irq_lock taken is one step.  Reads of the 64 bit      *)
(* global timer are one step too: GlobalTimer shows that they may be.      *)
(* The wait queue is the kernel's, modelled from what the driver relies    *)
(* on: a reader is in the queue before it tests its condition, so that a   *)
(* wake-up between the test and the sleep is not lost.                     *)
(***************************************************************************)
EXTENDS Integers, Sequences, FiniteSetsExt

CONSTANTS
  Reader,      \* threads that read the misc device
  Cpu,         \* CPUs that may run the handler
  MaxTime      \* bound on the global timer, and so on the interrupts

ASSUME IrqAssumption ==
  MaxTime \in Nat \ {0}

VARIABLES
  now,            \* the global timer
  expired,        \* the timer's TO status bit: the interrupt is pending
  hpc,            \* the handler: idle, or where it is
  handler_GT, handler_timer,  \* its this_GT_value and timer_value
  last_GT_value, max_GT_delta, min_GT_delta,
  max_timer_value, min_timer_value,
  irq_count, last_read_irq_count, cpu_mask,
  rpc,            \* rpc[r]: where reader r is
  woken,          \* woken[r]: wake_up has found r in the queue
  got,            \* got[r]: the last_GT_value and irq_count that r has read
  delta,          \* delta[r]: the read_GT_delta that r returns
  \* history
  untaken,        \* interrupts counted since a reader last took the count
  seen,           \* this_GT_value of those counted since the last reset
  counted,        \* the times and numbers of interrupts that there have been
  stale,          \* a reset has made the two counts incomparable
  reset_met,      \* reset_met[r]: r was told to read by a reset, or met one
  read_at         \* read_at[r]: when r has read the global timer

gt == <<last_GT_value, max_GT_delta, min_GT_delta>>
timer == <<max_timer_value, min_timer_value>>
handler == <<hpc, handler_GT, handler_timer>>
reader == <<rpc, woken, got, delta>>
history == <<untaken, seen, counted, stale, reset_met, read_at>>
vars == <<now, expired, handler, gt, timer, irq_count, last_read_irq_count,
          cpu_mask, reader, history>>

Latency == 0..1                \* how late a handler can be, in timer ticks
NoDelta == MaxTime + 1         \* 0xFFFFFFFFFFFFFFFF
NoLatency == 2                 \* 0xFFFFFFFF
NoIrq == [GT |-> 0, count |-> 0]

TypeOK ==
  /\ now \in 1..MaxTime /\ expired \in BOOLEAN
  /\ hpc \in {"idle", "read_GT", "update", "wake"}
  /\ handler_GT \in 0..MaxTime /\ handler_timer \in Latency
  /\ last_GT_value \in 0..MaxTime
  /\ max_GT_delta \in 0..MaxTime /\ min_GT_delta \in 0..NoDelta
  /\ max_timer_value \in Latency /\ min_timer_value \in 0..NoLatency
  /\ irq_count \in 0..MaxTime /\ last_read_irq_count \in 0..MaxTime
  /\ cpu_mask \subseteq Cpu
  /\ rpc \in [Reader -> {"idle", "test", "sleep", "take", "read_GT", "copy"}]
  /\ woken \in [Reader -> BOOLEAN]
  /\ got \in [Reader -> [GT : 0..MaxTime, count : 0..MaxTime]]
  /\ delta \in [Reader -> 0..MaxTime]
  /\ untaken \in 0..MaxTime
  /\ seen \in Seq(1..MaxTime)
  /\ counted \subseteq [GT : 0..MaxTime, count : 0..MaxTime]
  /\ stale \in BOOLEAN
  /\ reset_met \in [Reader -> BOOLEAN]
  /\ read_at \in [Reader -> 0..MaxTime]

(* The module has been loaded and has started the timer. *)
Init ==
  /\ now = 1 /\ expired = FALSE
  /\ hpc = "idle" /\ handler_GT = 0 /\ handler_timer = 0
  /\ last_GT_value = 0 /\ max_GT_delta = 0 /\ min_GT_delta = NoDelta
  /\ max_timer_value = 0 /\ min_timer_value = NoLatency
  /\ irq_count = 0 /\ last_read_irq_count = 0 /\ cpu_mask = {}
  /\ rpc = [r \in Reader |-> "idle"]
  /\ woken = [r \in Reader |-> FALSE]
  /\ got = [r \in Reader |-> NoIrq]
  /\ delta = [r \in Reader |-> 0]
  /\ untaken = 0 /\ seen = <<>> /\ counted = {} /\ stale = FALSE
  /\ reset_met = [r \in Reader |-> FALSE]
  /\ read_at = [r \in Reader |-> 0]

-----------------------------------------------------------------------------
(* The hardware. *)
TimePasses ==
  /\ now < MaxTime
  /\ now' = now + 1
  /\ UNCHANGED <<expired, handler, gt, timer, irq_count, last_read_irq_count,
                 cpu_mask, reader, history>>

(* The timer reaches zero.  A second time before the first was handled is  *)
(* not seen.                                                               *)
TimerExpires ==
  /\ ~expired
  /\ expired' = TRUE
  /\ UNCHANGED <<now, handler, gt, timer, irq_count, last_read_irq_count,
                 cpu_mask, reader, history>>

-----------------------------------------------------------------------------
(* interrupt_handler.  The kernel does not run it twice at a time.  It     *)
(* reads how late it is and clears the interrupt ...                       *)
HandlerStarts ==
  /\ hpc = "idle" /\ expired
  /\ expired' = FALSE
  /\ handler_timer' \in Latency
  /\ hpc' = "read_GT"
  /\ UNCHANGED <<now, handler_GT, gt, timer, irq_count, last_read_irq_count,
                 cpu_mask, reader, history>>

\* the time of the interrupt is stored at once, before irq_lock is taken
HandlerStoresGT ==
  /\ hpc = "read_GT"
  /\ now > handler_GT
  /\ handler_GT' = now /\ last_GT_value' = now
  /\ hpc' = "update"
  /\ UNCHANGED <<now, expired, handler_timer, max_GT_delta, min_GT_delta, timer,
                 irq_count, last_read_irq_count, cpu_mask, reader, history>>

(* ... reads the global timer, which is so much faster than the other one  *)
(* that it has advanced since the last interrupt ...                       *)
HandlerReadsGT ==
  /\ hpc = "read_GT"
  /\ now > handler_GT
  /\ handler_GT' = now
  /\ hpc' = "update"
  /\ UNCHANGED <<now, expired, handler_timer, gt, timer, irq_count,
                 last_read_irq_count, cpu_mask, reader, history>>

Larger(a, b) == IF a > b THEN a ELSE b
Smaller(a, b) == IF a < b THEN a ELSE b

(* ... updates the statistics with irq_lock taken ...                      *)
HandlerUpdates(c) ==
  /\ hpc = "update"
  /\ max_timer_value' = Larger(handler_timer, max_timer_value)
  /\ min_timer_value' = Smaller(handler_timer, min_timer_value)
  /\ IF last_GT_value = 0
       THEN UNCHANGED <<max_GT_delta, min_GT_delta>>
       ELSE LET this_GT_delta == handler_GT - last_GT_value
            IN /\ max_GT_delta' = Larger(this_GT_delta, max_GT_delta)
               /\ min_GT_delta' = Smaller(this_GT_delta, min_GT_delta)
  /\ last_GT_value' = handler_GT
  /\ cpu_mask' = cpu_mask \cup {c}
  /\ irq_count' = irq_count + 1
  /\ hpc' = "wake"
  /\ untaken' = untaken + 1
  /\ seen' = Append(seen, handler_GT)
  /\ counted' = counted \cup {[GT |-> handler_GT, count |-> irq_count']}
  /\ UNCHANGED <<now, expired, handler_GT, handler_timer, last_read_irq_count,
                 reader, stale, reset_met, read_at>>

\* wake_up_interruptible() is missing
HandlerWakesNone ==
  /\ hpc = "wake"
  /\ hpc' = "idle"
  /\ UNCHANGED <<now, expired, handler_GT, handler_timer, gt, timer, irq_count,
                 last_read_irq_count, cpu_mask, reader, history>>

(* ... and wakes the readers.                                              *)
HandlerWakes ==
  /\ hpc = "wake"
  /\ woken' = [r \in Reader |-> TRUE]
  /\ hpc' = "idle"
  /\ UNCHANGED <<now, expired, handler_GT, handler_timer, gt, timer, irq_count,
                 last_read_irq_count, cpu_mask, rpc, got, delta, history>>

-----------------------------------------------------------------------------
(* IRQ_miscdev_read.  The reader enters the wait queue, or, having been    *)
(* woken, goes through the queue once more ...                             *)
ReaderQueues(r) ==
  /\ rpc[r] = "idle" \/ (rpc[r] = "sleep" /\ woken[r])
  /\ woken' = [woken EXCEPT ![r] = FALSE]
  /\ rpc' = [rpc EXCEPT ![r] = "test"]
  /\ UNCHANGED <<now, expired, handler, gt, timer, irq_count,
                 last_read_irq_count, cpu_mask, got, delta, history>>

(* ... tests the counts, test_irq_count, and sleeps until it is woken ...  *)
ReaderTests(r) ==
  /\ rpc[r] = "test"
  /\ rpc' = [rpc EXCEPT ![r] = IF irq_count # last_read_irq_count
                                 THEN "take" ELSE "sleep"]
  /\ reset_met' = [reset_met EXCEPT ![r] =
                    stale /\ irq_count # last_read_irq_count]
  /\ UNCHANGED <<now, expired, handler, gt, timer, irq_count,
                 last_read_irq_count, cpu_mask, woken, got, delta, untaken,
                 seen, counted, stale, read_at>>

(* ... or a signal interrupts it.                                          *)
ReaderInterrupted(r) ==
  /\ rpc[r] = "sleep"
  /\ rpc' = [rpc EXCEPT ![r] = "idle"]
  /\ UNCHANGED <<now, expired, handler, gt, timer, irq_count,
                 last_read_irq_count, cpu_mask, woken, got, delta, history>>

\* the count is not remembered
ReaderForgets(r) ==
  /\ rpc[r] = "take"
  /\ got' = [got EXCEPT ![r] = [GT |-> last_GT_value, count |-> irq_count]]
  /\ rpc' = [rpc EXCEPT ![r] = "read_GT"]
  /\ untaken' = 0 /\ stale' = FALSE
  /\ UNCHANGED <<now, expired, handler, gt, timer, irq_count,
                 last_read_irq_count, cpu_mask, woken, delta, seen,
                 counted, reset_met, read_at>>

(* It takes the count and the time of the last interrupt ...               *)
ReaderTakes(r) ==
  /\ rpc[r] = "take"
  /\ got' = [got EXCEPT ![r] = [GT |-> last_GT_value, count |-> irq_count]]
  /\ last_read_irq_count' = irq_count
  /\ rpc' = [rpc EXCEPT ![r] = "read_GT"]
  /\ untaken' = 0 /\ stale' = FALSE
  /\ UNCHANGED <<now, expired, handler, gt, timer, irq_count, cpu_mask, woken,
                 delta, seen, counted, reset_met, read_at>>

\* the shared last_GT_value is subtracted, without irq_lock
ReaderSubtractsShared(r) ==
  /\ rpc[r] = "read_GT" /\ now >= last_GT_value
  /\ delta' = [delta EXCEPT ![r] = now - last_GT_value]
  /\ read_at' = [read_at EXCEPT ![r] = now]
  /\ rpc' = [rpc EXCEPT ![r] = "copy"]
  /\ UNCHANGED <<now, expired, handler, gt, timer, irq_count,
                 last_read_irq_count, cpu_mask, woken, got, untaken, seen,
                 counted, stale, reset_met>>

(* ... reads the global timer ...                                          *)
ReaderReadsGT(r) ==
  /\ rpc[r] = "read_GT"
  /\ delta' = [delta EXCEPT ![r] = now - got[r].GT]
  /\ read_at' = [read_at EXCEPT ![r] = now]
  /\ rpc' = [rpc EXCEPT ![r] = "copy"]
  /\ UNCHANGED <<now, expired, handler, gt, timer, irq_count,
                 last_read_irq_count, cpu_mask, woken, got, untaken, seen,
                 counted, stale, reset_met>>

(* ... and returns, whether or not copy_to_user() has succeeded.  Its      *)
(* local variables are gone.                                               *)
ReaderReturns(r) ==
  /\ rpc[r] = "copy"
  /\ rpc' = [rpc EXCEPT ![r] = "idle"]
  /\ got' = [got EXCEPT ![r] = NoIrq]
  /\ delta' = [delta EXCEPT ![r] = 0]
  /\ reset_met' = [reset_met EXCEPT ![r] = FALSE]
  /\ read_at' = [read_at EXCEPT ![r] = 0]
  /\ UNCHANGED <<now, expired, handler, gt, timer, irq_count,
                 last_read_irq_count, cpu_mask, woken, untaken, seen, counted,
                 stale>>

-----------------------------------------------------------------------------
(* The history of a reset. *)
Forgotten ==
  /\ seen' = <<>>
  /\ stale' = (stale \/ irq_count # 0 \/ last_read_irq_count # 0)
  /\ reset_met' = [r \in Reader |-> reset_met[r] \/ rpc[r] = "take"]
  /\ UNCHANGED <<untaken, counted, read_at>>

\* last_GT_value is not reset
ResetKeepsGT ==
  /\ max_GT_delta' = 0 /\ min_GT_delta' = NoDelta
  /\ max_timer_value' = 0 /\ min_timer_value' = NoLatency
  /\ cpu_mask' = {} /\ irq_count' = 0
  /\ Forgotten
  /\ UNCHANGED <<now, expired, handler, last_GT_value, last_read_irq_count,
                 reader>>

(* dump_stats_and_reset_show.  The count that was read last stays.         *)
DumpStatsAndReset ==
  /\ last_GT_value' = 0 /\ max_GT_delta' = 0 /\ min_GT_delta' = NoDelta
  /\ max_timer_value' = 0 /\ min_timer_value' = NoLatency
  /\ cpu_mask' = {} /\ irq_count' = 0
  /\ Forgotten
  /\ UNCHANGED <<now, expired, handler, last_read_irq_count, reader>>

-----------------------------------------------------------------------------
Hardware == TimePasses \/ TimerExpires

Handler == \/ HandlerStarts \/ HandlerReadsGT \/ HandlerWakes
           \/ \E c \in Cpu : HandlerUpdates(c)

Wait(r) == ReaderQueues(r) \/ ReaderTests(r) \/ ReaderInterrupted(r)

Read(r) == ReaderTakes(r) \/ ReaderReadsGT(r) \/ ReaderReturns(r)

Next == \/ Hardware \/ Handler \/ DumpStatsAndReset
        \/ \E r \in Reader : Wait(r) \/ Read(r)

(* The handler runs to its end and so does a reader that is not asleep;    *)
(* nobody has to interrupt a reader, to reset, or to start a read.         *)
Fairness ==
  /\ WF_vars(Handler) /\ WF_vars(TimePasses)
  /\ \A r \in Reader : /\ WF_vars(rpc[r] = "sleep" /\ ReaderQueues(r))
                       /\ WF_vars(ReaderTests(r))
                       /\ WF_vars(Read(r))

Spec == Init /\ [][Next]_vars

FairSpec == Spec /\ Fairness

-----------------------------------------------------------------------------
(* The statistics are those of the interrupts since the last reset: the    *)
(* deltas between two consecutive ones of these, and never one across a    *)
(* reset, although the reset can come while the handler is between its     *)
(* timer read and its update.                                              *)
Deltas == {seen[i + 1] - seen[i] : i \in 1..(Len(seen) - 1)}

StatsSinceReset ==
  /\ TypeOK
  /\ irq_count = Len(seen)
  /\ IF Deltas = {} THEN max_GT_delta = 0 /\ min_GT_delta = NoDelta
                    ELSE max_GT_delta = Max(Deltas) /\ min_GT_delta = Min(Deltas)
  /\ IF seen = <<>> THEN cpu_mask = {} /\ min_timer_value = NoLatency
                    ELSE cpu_mask # {} /\ min_timer_value <= max_timer_value

(* The two counts differ exactly when an interrupt has been counted that   *)
(* no reader has taken, which is what readers are woken to find out.  Only *)
(* from a reset to the next read they say nothing: the reset takes one of  *)
(* the counts back and not the other, so that a read may return without an *)
(* interrupt, or leave one hidden until the next comes.                    *)
CountsTellIrq ==
  ~stale => (irq_count # last_read_irq_count <=> untaken > 0)

(* A reader returns the number of one interrupt and the time from that     *)
(* interrupt to the reader's own read of the timer, although the handler   *)
(* counts more of them in between: number and time never belong to two     *)
(* interrupts, nor to one that was not counted.  The exception is a reset. *)
(* A reader that was let through by counts that a reset made incomparable, *)
(* or that a reset overtakes before it takes the count, may find nothing   *)
(* but the zeros: it then returns the number 0 and the whole value of the  *)
(* timer, of no interrupt.                                                 *)
DeltaOfCount ==
  \A r \in Reader :
    rpc[r] \in {"read_GT", "copy"} =>
      /\ got[r] \in counted \/ (got[r] = NoIrq /\ reset_met[r])
      /\ rpc[r] = "copy" => delta[r] = read_at[r] - got[r].GT

(* An interrupt that has been counted while a reader waits is taken by a   *)
(* reader, unless a signal takes the reader away or a reset hides the      *)
(* interrupt: no wake-up is lost.                                          *)
NoLostWakeup ==
  \A r \in Reader :
    (untaken > 0 /\ rpc[r] = "sleep")
      ~> (untaken = 0 \/ rpc[r] = "idle" \/ stale)

=============================================================================
