--------------------------- MODULE IrqModuleProof ---------------------------
(***************************************************************************)
(* Proofs about the statistics of irq_module and what its readers take,    *)
(* for any set of readers and of CPUs, any number of interrupts and resets *)
(* at any time; and about the timer that they read, for any width of its   *)
(* registers.                                                              *)
(***************************************************************************)
EXTENDS IrqModule, GlobalTimer, TLAPS

(* No interrupt is counted with a time later than this one: the handler    *)
(* reads the timer after it has counted the interrupt before.              *)
Latest == IF hpc = "update" THEN handler_GT - 1 ELSE handler_GT

(* What the handler and the readers know of the time lies in the past, and *)
(* there are no more interrupts than there have been times.                *)
TimesPast ==
  /\ handler_GT <= now
  /\ hpc = "update" => handler_GT >= 1
  /\ irq_count <= Latest /\ untaken <= Latest /\ last_GT_value <= Latest
  /\ \A r \in Reader : got[r].GT <= now

(* The statistics are those of the interrupts that have been seen.         *)
SeenKept ==
  /\ irq_count = Len(seen)
  /\ last_GT_value = IF seen = <<>> THEN 0 ELSE seen[Len(seen)]
  /\ IF Deltas = {}
       THEN max_GT_delta = 0 /\ min_GT_delta = NoDelta
       ELSE /\ max_GT_delta \in Deltas /\ min_GT_delta \in Deltas
            /\ \A d \in Deltas : min_GT_delta <= d /\ d <= max_GT_delta
  /\ IF seen = <<>> THEN cpu_mask = {} /\ min_timer_value = NoLatency
                    ELSE cpu_mask # {} /\ min_timer_value <= max_timer_value

(* The counts are as far apart as there are interrupts that were not taken. *)
CountsApart == ~stale => irq_count = last_read_irq_count + untaken

(* What a reader takes is an interrupt that has been counted, or else the  *)
(* zeros of a reset that has let the reader through or has overtaken it.   *)
Present == [GT |-> last_GT_value, count |-> irq_count]

TakesCounted ==
  /\ irq_count # 0 => Present \in counted
  /\ \A r \in Reader :
       rpc[r] = "take" => Present \in counted \/ (Present = NoIrq /\ reset_met[r])

(* The inductive invariant.                                                *)
IrqInv ==
  /\ TypeOK
  /\ TimesPast /\ SeenKept /\ CountsApart /\ TakesCounted /\ DeltaOfCount

-----------------------------------------------------------------------------

(* The first interrupt since a reset has no delta ...                      *)
LEMMA FirstSeen ==
  ASSUME NEW h \in 1..MaxTime, seen = <<>>, seen' = Append(seen, h)
  PROVE  Deltas = {} /\ Deltas' = {}
<1>1. Len(seen) = 0 /\ Len(seen') = 1
  OBVIOUS
<1> QED
  BY <1>1 DEF Deltas

(* ... and each other one has the time from the one before it.             *)
LEMMA NextSeen ==
  ASSUME NEW h \in 1..MaxTime, seen \in Seq(1..MaxTime), seen # <<>>,
         seen' = Append(seen, h)
  PROVE  Deltas' = Deltas \cup {h - seen[Len(seen)]}
<1> USE IrqAssumption
<1> DEFINE n == Len(seen)
<1>1. n \in Nat \ {0} /\ Len(seen') = n + 1
  OBVIOUS
<1>2. \A i \in 1..n : seen'[i] = seen[i]
  OBVIOUS
<1>3. seen'[n + 1] = h
  OBVIOUS
<1> HIDE DEF n
<1>4. \A i \in 1..(n - 1) : seen'[i + 1] - seen'[i] = seen[i + 1] - seen[i]
  BY <1>1, <1>2
<1>5. seen'[n + 1] - seen'[n] = h - seen[n]
  BY <1>1, <1>2, <1>3
<1>6. 1..(Len(seen') - 1) = 1..(n - 1) \cup {n}
  BY <1>1
<1>7. Deltas' = {seen'[i + 1] - seen'[i] : i \in 1..(n - 1) \cup {n}}
  BY <1>6 DEF Deltas
<1>8. Deltas = {seen[i + 1] - seen[i] : i \in 1..(n - 1)}
  BY DEF Deltas, n
<1> QED
  BY <1>4, <1>5, <1>7, <1>8 DEF n

(* Whatever has been seen, its deltas are numbers.                         *)
LEMMA DeltasAreNumbers ==
  ASSUME seen \in Seq(1..MaxTime)
  PROVE  \A d \in Deltas : d \in Int
<1> SUFFICES ASSUME NEW d \in Deltas PROVE d \in Int
  OBVIOUS
<1>1. PICK i \in 1..(Len(seen) - 1) : d = seen[i + 1] - seen[i]
  BY DEF Deltas
<1>2. seen[i] \in Int /\ seen[i + 1] \in Int
  BY IrqAssumption
<1> QED
  BY <1>1, <1>2

(* Before the first interrupt there is nothing to be taken.                *)
LEMMA IrqInit == Init => IrqInv
<1> SUFFICES ASSUME Init PROVE IrqInv
  OBVIOUS
<1> USE IrqAssumption
<1>1. TypeOK
  <2>1. expired \in BOOLEAN /\ stale \in BOOLEAN
    BY DEF Init
  <2>2. woken \in [Reader -> BOOLEAN]
    BY DEF Init
  <2>3. /\ got \in [Reader -> [GT : 0..MaxTime, count : 0..MaxTime]]
        /\ delta \in [Reader -> 0..MaxTime]
    BY DEF Init, NoIrq
  <2>4. seen \in Seq(1..MaxTime)
    BY DEF Init
  <2>5. /\ reset_met \in [Reader -> BOOLEAN]
        /\ read_at \in [Reader -> 0..MaxTime]
    BY DEF Init
  <2> QED
    BY <2>1, <2>2, <2>3, <2>4, <2>5
       DEF Init, TypeOK, NoDelta, NoLatency, Latency
<1>2. TimesPast
  BY DEF Init, TimesPast, Latest, NoIrq
<1>3. SeenKept
  <2>1. Deltas = {}
    BY DEF Init, Deltas
  <2> QED
    BY <2>1 DEF Init, SeenKept
<1>4. CountsApart /\ TakesCounted /\ DeltaOfCount
  BY DEF Init, CountsApart, TakesCounted, DeltaOfCount
<1> QED
  BY <1>1, <1>2, <1>3, <1>4 DEF IrqInv

(* A reader takes a time and a number that have the types. *)
LEMMA ReaderTakesType ==
  ASSUME TypeOK, NEW r \in Reader, ReaderTakes(r)
  PROVE  TypeOK'
<1> USE IrqAssumption
<1>1. [GT |-> last_GT_value, count |-> irq_count]
        \in [GT : 0..MaxTime, count : 0..MaxTime]
  BY DEF TypeOK
<1>2. got' \in [Reader -> [GT : 0..MaxTime, count : 0..MaxTime]]
  BY <1>1 DEF ReaderTakes, TypeOK
<1>3. rpc' \in [Reader -> {"idle", "test", "sleep", "take", "read_GT", "copy"}]
  BY DEF ReaderTakes, TypeOK
<1>4. untaken' \in 0..MaxTime /\ last_read_irq_count' \in 0..MaxTime
  BY DEF ReaderTakes, TypeOK
<1>5. stale' \in BOOLEAN
  BY DEF ReaderTakes
<1> QED
  BY <1>2, <1>3, <1>4, <1>5 DEF ReaderTakes, TypeOK, handler, gt, timer

(* Every step keeps the types: there are no more interrupts than ticks. *)
LEMMA TypeNext ==
  ASSUME TypeOK, TimesPast, SeenKept, [Next]_vars
  PROVE  TypeOK'
<1> USE IrqAssumption
       DEF TypeOK, Latency, NoDelta, NoLatency, NoIrq, TimesPast, Latest
<1>1. CASE TimePasses
  BY <1>1 DEF TimePasses, gt, timer, handler, reader, history
<1>2. CASE TimerExpires
  BY <1>2 DEF TimerExpires, gt, timer, handler, reader, history
<1>3. CASE HandlerStarts
  BY <1>3 DEF HandlerStarts, gt, timer, reader, history
<1>4. CASE HandlerReadsGT
  BY <1>4 DEF HandlerReadsGT, gt, timer, reader, history
<1>5. ASSUME NEW c \in Cpu, HandlerUpdates(c) PROVE TypeOK'
  BY <1>5 DEF HandlerUpdates, reader, Larger, Smaller
<1>6. CASE HandlerWakes
  BY <1>6 DEF HandlerWakes, gt, timer, reader, history
<1>7. CASE DumpStatsAndReset
  BY <1>7 DEF DumpStatsAndReset, handler, reader, Forgotten
<1>8. ASSUME NEW r \in Reader, ReaderQueues(r) PROVE TypeOK'
  BY <1>8 DEF ReaderQueues, gt, timer, handler, history
<1>9. ASSUME NEW r \in Reader, ReaderTests(r) PROVE TypeOK'
  BY <1>9 DEF ReaderTests, gt, timer, handler, history
<1>10. ASSUME NEW r \in Reader, ReaderInterrupted(r) PROVE TypeOK'
  BY <1>10 DEF ReaderInterrupted, gt, timer, handler, history
<1>11. ASSUME NEW r \in Reader, ReaderTakes(r) PROVE TypeOK'
  BY <1>11, ReaderTakesType
<1>12. ASSUME NEW r \in Reader, ReaderReadsGT(r) PROVE TypeOK'
  BY <1>12 DEF ReaderReadsGT, gt, timer, handler, history
<1>13. ASSUME NEW r \in Reader, ReaderReturns(r) PROVE TypeOK'
  BY <1>13 DEF ReaderReturns, gt, timer, handler, history
<1>14. CASE UNCHANGED vars
  BY <1>14 DEF vars, gt, timer, handler, reader, history
<1> QED
  BY <1>1, <1>2, <1>3, <1>4, <1>5, <1>6, <1>7, <1>8, <1>9, <1>10, <1>11,
     <1>12, <1>13, <1>14
     DEF Next, Hardware, Handler, Wait, Read

(* Times are read in order. *)
LEMMA TimesNext ==
  ASSUME TypeOK, TimesPast, [Next]_vars
  PROVE  TimesPast'
<1> USE IrqAssumption
       DEF TypeOK, TimesPast, Latest, NoIrq
<1>1. CASE TimePasses
  BY <1>1 DEF TimePasses, gt, timer, handler, reader, history
<1>2. CASE TimerExpires
  BY <1>2 DEF TimerExpires, gt, timer, handler, reader, history
<1>3. CASE HandlerStarts
  BY <1>3 DEF HandlerStarts, gt, timer, reader, history
<1>4. CASE HandlerReadsGT
  BY <1>4 DEF HandlerReadsGT, gt, timer, reader, history
<1>5. ASSUME NEW c \in Cpu, HandlerUpdates(c) PROVE TimesPast'
  BY <1>5 DEF HandlerUpdates, reader, Larger, Smaller
<1>6. CASE HandlerWakes
  BY <1>6 DEF HandlerWakes, gt, timer, reader, history
<1>7. CASE DumpStatsAndReset
  BY <1>7 DEF DumpStatsAndReset, handler, reader, Forgotten
<1>8. ASSUME NEW r \in Reader, ReaderQueues(r) PROVE TimesPast'
  BY <1>8 DEF ReaderQueues, gt, timer, handler, history
<1>9. ASSUME NEW r \in Reader, ReaderTests(r) PROVE TimesPast'
  BY <1>9 DEF ReaderTests, gt, timer, handler, history
<1>10. ASSUME NEW r \in Reader, ReaderInterrupted(r) PROVE TimesPast'
  BY <1>10 DEF ReaderInterrupted, gt, timer, handler, history
<1>11. ASSUME NEW r \in Reader, ReaderTakes(r) PROVE TimesPast'
  BY <1>11 DEF ReaderTakes, gt, timer, handler
<1>12. ASSUME NEW r \in Reader, ReaderReadsGT(r) PROVE TimesPast'
  BY <1>12 DEF ReaderReadsGT, gt, timer, handler, history
<1>13. ASSUME NEW r \in Reader, ReaderReturns(r) PROVE TimesPast'
  BY <1>13 DEF ReaderReturns, gt, timer, handler, history
<1>14. CASE UNCHANGED vars
  BY <1>14 DEF vars, gt, timer, handler, reader, history
<1> QED
  BY <1>1, <1>2, <1>3, <1>4, <1>5, <1>6, <1>7, <1>8, <1>9, <1>10, <1>11,
     <1>12, <1>13, <1>14
     DEF Next, Hardware, Handler, Wait, Read

(* The statistics with one more interrupt: its delta is one of the deltas, *)
(* and the extremes are those of all of them.                              *)
LEMMA HandlerUpdatesSeen ==
  ASSUME TypeOK, TimesPast, SeenKept, NEW c \in Cpu, HandlerUpdates(c)
  PROVE  SeenKept'
<1> USE IrqAssumption
<1>1. /\ hpc = "update" /\ handler_GT \in 1..MaxTime /\ handler_timer \in Latency
      /\ last_GT_value < handler_GT /\ seen \in Seq(1..MaxTime)
  BY DEF HandlerUpdates, TypeOK, TimesPast, Latest
<1>2. /\ seen' = Append(seen, handler_GT) /\ last_GT_value' = handler_GT
      /\ irq_count' = irq_count + 1 /\ cpu_mask' # {}
  BY DEF HandlerUpdates
<1>3. /\ irq_count' = Len(seen') /\ seen' # <<>>
      /\ last_GT_value' = seen'[Len(seen')]
  BY <1>1, <1>2 DEF SeenKept
<1>4. min_timer_value' <= max_timer_value'
  BY DEF HandlerUpdates, Larger, Smaller, TypeOK, Latency, NoLatency
<1>5. IF Deltas' = {}
        THEN max_GT_delta' = 0 /\ min_GT_delta' = NoDelta
        ELSE /\ max_GT_delta' \in Deltas' /\ min_GT_delta' \in Deltas'
             /\ \A d \in Deltas' : min_GT_delta' <= d /\ d <= max_GT_delta'
  <2>1. CASE seen = <<>>
    <3>1. Deltas = {} /\ Deltas' = {}
      BY <1>1, <1>2, <2>1, FirstSeen
    <3>2. last_GT_value = 0
      BY <2>1 DEF SeenKept
    <3> QED
      BY <3>1, <3>2 DEF HandlerUpdates, SeenKept
  <2>2. CASE seen # <<>>
    <3> DEFINE this == handler_GT - last_GT_value
    <3>1. last_GT_value = seen[Len(seen)] /\ last_GT_value \in 1..MaxTime
      BY <1>1, <2>2 DEF SeenKept
    <3>2. Deltas' = Deltas \cup {this}
      BY <1>1, <1>2, <2>2, <3>1, NextSeen
    <3>3. this \in 1..MaxTime
      BY <1>1, <3>1
    <3>4. /\ max_GT_delta' = Larger(this, max_GT_delta)
          /\ min_GT_delta' = Smaller(this, min_GT_delta)
      BY <3>1 DEF HandlerUpdates
    <3> HIDE DEF this
    <3>5. CASE Deltas = {}
      <4>1. max_GT_delta' = this /\ min_GT_delta' = this
        BY <3>3, <3>4, <3>5 DEF SeenKept, Larger, Smaller, NoDelta
      <4> QED
        BY <3>2, <3>3, <3>5, <4>1
    <3>6. CASE Deltas # {}
      <4>1. /\ max_GT_delta \in Deltas /\ min_GT_delta \in Deltas
            /\ \A d \in Deltas : min_GT_delta <= d /\ d <= max_GT_delta
            /\ max_GT_delta \in Int /\ min_GT_delta \in Int
        BY <3>6 DEF SeenKept, TypeOK, NoDelta
      <4>2. \A d \in Deltas : d \in Int
        BY <1>1, DeltasAreNumbers
      <4> QED
        BY <3>2, <3>3, <3>4, <4>1, <4>2 DEF Larger, Smaller
    <3> QED
      BY <3>5, <3>6
  <2> QED
    BY <2>1, <2>2
<1> QED
  BY <1>2, <1>3, <1>4, <1>5 DEF SeenKept

(* Only the handler and a reset change the statistics. *)
LEMMA SeenNext ==
  ASSUME TypeOK, TimesPast, SeenKept, [Next]_vars
  PROVE  SeenKept'
<1> USE IrqAssumption
       DEF SeenKept, Deltas
<1>1. CASE TimePasses
  BY <1>1 DEF TimePasses, gt, timer, handler, reader, history
<1>2. CASE TimerExpires
  BY <1>2 DEF TimerExpires, gt, timer, handler, reader, history
<1>3. CASE HandlerStarts
  BY <1>3 DEF HandlerStarts, gt, timer, reader, history
<1>4. CASE HandlerReadsGT
  BY <1>4 DEF HandlerReadsGT, gt, timer, reader, history
<1>5. ASSUME NEW c \in Cpu, HandlerUpdates(c) PROVE SeenKept'
  BY <1>5, HandlerUpdatesSeen
<1>6. CASE HandlerWakes
  BY <1>6 DEF HandlerWakes, gt, timer, reader, history
<1>7. CASE DumpStatsAndReset
  BY <1>7 DEF DumpStatsAndReset, handler, reader, Forgotten
<1>8. ASSUME NEW r \in Reader, ReaderQueues(r) PROVE SeenKept'
  BY <1>8 DEF ReaderQueues, gt, timer, handler, history
<1>9. ASSUME NEW r \in Reader, ReaderTests(r) PROVE SeenKept'
  BY <1>9 DEF ReaderTests, gt, timer, handler, history
<1>10. ASSUME NEW r \in Reader, ReaderInterrupted(r) PROVE SeenKept'
  BY <1>10 DEF ReaderInterrupted, gt, timer, handler, history
<1>11. ASSUME NEW r \in Reader, ReaderTakes(r) PROVE SeenKept'
  BY <1>11 DEF ReaderTakes, gt, timer, handler
<1>12. ASSUME NEW r \in Reader, ReaderReadsGT(r) PROVE SeenKept'
  BY <1>12 DEF ReaderReadsGT, gt, timer, handler, history
<1>13. ASSUME NEW r \in Reader, ReaderReturns(r) PROVE SeenKept'
  BY <1>13 DEF ReaderReturns, gt, timer, handler, history
<1>14. CASE UNCHANGED vars
  BY <1>14 DEF vars, gt, timer, handler, reader, history
<1> QED
  BY <1>1, <1>2, <1>3, <1>4, <1>5, <1>6, <1>7, <1>8, <1>9, <1>10, <1>11,
     <1>12, <1>13, <1>14
     DEF Next, Hardware, Handler, Wait, Read

(* An interrupt is counted for both. *)
LEMMA CountsNext ==
  ASSUME TypeOK, CountsApart, [Next]_vars
  PROVE  CountsApart'
<1> USE IrqAssumption
       DEF TypeOK, CountsApart
<1>1. CASE TimePasses
  BY <1>1 DEF TimePasses, gt, timer, handler, reader, history
<1>2. CASE TimerExpires
  BY <1>2 DEF TimerExpires, gt, timer, handler, reader, history
<1>3. CASE HandlerStarts
  BY <1>3 DEF HandlerStarts, gt, timer, reader, history
<1>4. CASE HandlerReadsGT
  BY <1>4 DEF HandlerReadsGT, gt, timer, reader, history
<1>5. ASSUME NEW c \in Cpu, HandlerUpdates(c) PROVE CountsApart'
  BY <1>5 DEF HandlerUpdates, reader, Larger, Smaller
<1>6. CASE HandlerWakes
  BY <1>6 DEF HandlerWakes, gt, timer, reader, history
<1>7. CASE DumpStatsAndReset
  BY <1>7 DEF DumpStatsAndReset, handler, reader, Forgotten
<1>8. ASSUME NEW r \in Reader, ReaderQueues(r) PROVE CountsApart'
  BY <1>8 DEF ReaderQueues, gt, timer, handler, history
<1>9. ASSUME NEW r \in Reader, ReaderTests(r) PROVE CountsApart'
  BY <1>9 DEF ReaderTests, gt, timer, handler, history
<1>10. ASSUME NEW r \in Reader, ReaderInterrupted(r) PROVE CountsApart'
  BY <1>10 DEF ReaderInterrupted, gt, timer, handler, history
<1>11. ASSUME NEW r \in Reader, ReaderTakes(r) PROVE CountsApart'
  BY <1>11 DEF ReaderTakes, gt, timer, handler
<1>12. ASSUME NEW r \in Reader, ReaderReadsGT(r) PROVE CountsApart'
  BY <1>12 DEF ReaderReadsGT, gt, timer, handler, history
<1>13. ASSUME NEW r \in Reader, ReaderReturns(r) PROVE CountsApart'
  BY <1>13 DEF ReaderReturns, gt, timer, handler, history
<1>14. CASE UNCHANGED vars
  BY <1>14 DEF vars, gt, timer, handler, reader, history
<1> QED
  BY <1>1, <1>2, <1>3, <1>4, <1>5, <1>6, <1>7, <1>8, <1>9, <1>10, <1>11,
     <1>12, <1>13, <1>14
     DEF Next, Hardware, Handler, Wait, Read

(* A reader that finds the counts to differ takes an interrupt, or the     *)
(* zeros of the reset that has made them differ: without a reset, counts   *)
(* that differ are not both those of no interrupt.                         *)
LEMMA ReaderTestsTakes ==
  ASSUME TypeOK, SeenKept, CountsApart, TakesCounted,
         NEW r \in Reader, ReaderTests(r)
  PROVE  TakesCounted'
<1> USE IrqAssumption
<1>1. UNCHANGED <<last_GT_value, irq_count, last_read_irq_count, counted>>
  BY DEF ReaderTests, gt
<1>2. \A q \in Reader \ {r} : rpc'[q] = rpc[q] /\ reset_met'[q] = reset_met[q]
  BY DEF ReaderTests, TypeOK
<1>3. rpc'[r] = "take" => irq_count # last_read_irq_count
  BY DEF ReaderTests, TypeOK
<1>4. reset_met'[r] = (stale /\ irq_count # last_read_irq_count)
  BY DEF ReaderTests, TypeOK
<1>5. ASSUME rpc'[r] = "take", irq_count = 0
      PROVE  Present = NoIrq /\ reset_met'[r]
  <2>1. seen = <<>>
    <3>1. Len(seen) = 0
      BY <1>5 DEF SeenKept
    <3>2. seen \in Seq(1..MaxTime)
      BY DEF TypeOK
    <3> QED
      BY <3>1, <3>2
  <2>2. Present = NoIrq
    BY <1>5, <2>1 DEF SeenKept, Present, NoIrq
  <2>3. stale
    BY <1>3, <1>5 DEF CountsApart, TypeOK
  <2> QED
    BY <1>3, <1>4, <1>5, <2>2, <2>3
<1> QED
  BY <1>1, <1>2, <1>5 DEF TakesCounted, Present

(* What there is to be taken has been counted, or is what a reset has      *)
(* left.                                                                   *)
LEMMA TakesNext ==
  ASSUME TypeOK, SeenKept, CountsApart, TakesCounted, [Next]_vars
  PROVE  TakesCounted'
<1> USE IrqAssumption
       DEF TypeOK, TakesCounted, Present, NoIrq
<1>1. CASE TimePasses
  BY <1>1 DEF TimePasses, gt, timer, handler, reader, history
<1>2. CASE TimerExpires
  BY <1>2 DEF TimerExpires, gt, timer, handler, reader, history
<1>3. CASE HandlerStarts
  BY <1>3 DEF HandlerStarts, gt, timer, reader, history
<1>4. CASE HandlerReadsGT
  BY <1>4 DEF HandlerReadsGT, gt, timer, reader, history
<1>5. ASSUME NEW c \in Cpu, HandlerUpdates(c) PROVE TakesCounted'
  BY <1>5 DEF HandlerUpdates, reader, Larger, Smaller
<1>6. CASE HandlerWakes
  BY <1>6 DEF HandlerWakes, gt, timer, reader, history
<1>7. CASE DumpStatsAndReset
  BY <1>7 DEF DumpStatsAndReset, handler, reader, Forgotten
<1>8. ASSUME NEW r \in Reader, ReaderQueues(r) PROVE TakesCounted'
  BY <1>8 DEF ReaderQueues, gt, timer, handler, history
<1>9. ASSUME NEW r \in Reader, ReaderTests(r) PROVE TakesCounted'
  BY <1>9, ReaderTestsTakes
<1>10. ASSUME NEW r \in Reader, ReaderInterrupted(r) PROVE TakesCounted'
  BY <1>10 DEF ReaderInterrupted, gt, timer, handler, history
<1>11. ASSUME NEW r \in Reader, ReaderTakes(r) PROVE TakesCounted'
  BY <1>11 DEF ReaderTakes, gt, timer, handler
<1>12. ASSUME NEW r \in Reader, ReaderReadsGT(r) PROVE TakesCounted'
  BY <1>12 DEF ReaderReadsGT, gt, timer, handler, history
<1>13. ASSUME NEW r \in Reader, ReaderReturns(r) PROVE TakesCounted'
  BY <1>13 DEF ReaderReturns, gt, timer, handler, history
<1>14. CASE UNCHANGED vars
  BY <1>14 DEF vars, gt, timer, handler, reader, history
<1> QED
  BY <1>1, <1>2, <1>3, <1>4, <1>5, <1>6, <1>7, <1>8, <1>9, <1>10, <1>11,
     <1>12, <1>13, <1>14
     DEF Next, Hardware, Handler, Wait, Read

(* What a reader has taken stays what it was. *)
LEMMA DeltasNext ==
  ASSUME TypeOK, TimesPast, TakesCounted, DeltaOfCount, [Next]_vars
  PROVE  DeltaOfCount'
<1> USE IrqAssumption
       DEF TypeOK, TimesPast, DeltaOfCount, TakesCounted, Present
<1>1. CASE TimePasses
  BY <1>1 DEF TimePasses, gt, timer, handler, reader, history
<1>2. CASE TimerExpires
  BY <1>2 DEF TimerExpires, gt, timer, handler, reader, history
<1>3. CASE HandlerStarts
  BY <1>3 DEF HandlerStarts, gt, timer, reader, history
<1>4. CASE HandlerReadsGT
  BY <1>4 DEF HandlerReadsGT, gt, timer, reader, history
<1>5. ASSUME NEW c \in Cpu, HandlerUpdates(c) PROVE DeltaOfCount'
  BY <1>5 DEF HandlerUpdates, reader, Larger, Smaller
<1>6. CASE HandlerWakes
  BY <1>6 DEF HandlerWakes, gt, timer, reader, history
<1>7. CASE DumpStatsAndReset
  BY <1>7 DEF DumpStatsAndReset, handler, reader, Forgotten
<1>8. ASSUME NEW r \in Reader, ReaderQueues(r) PROVE DeltaOfCount'
  BY <1>8 DEF ReaderQueues, gt, timer, handler, history
<1>9. ASSUME NEW r \in Reader, ReaderTests(r) PROVE DeltaOfCount'
  BY <1>9 DEF ReaderTests, gt, timer, handler, history
<1>10. ASSUME NEW r \in Reader, ReaderInterrupted(r) PROVE DeltaOfCount'
  BY <1>10 DEF ReaderInterrupted, gt, timer, handler, history
<1>11. ASSUME NEW r \in Reader, ReaderTakes(r) PROVE DeltaOfCount'
  BY <1>11 DEF ReaderTakes, gt, timer, handler
<1>12. ASSUME NEW r \in Reader, ReaderReadsGT(r) PROVE DeltaOfCount'
  BY <1>12 DEF ReaderReadsGT, gt, timer, handler, history
<1>13. ASSUME NEW r \in Reader, ReaderReturns(r) PROVE DeltaOfCount'
  BY <1>13 DEF ReaderReturns, gt, timer, handler, history
<1>14. CASE UNCHANGED vars
  BY <1>14 DEF vars, gt, timer, handler, reader, history
<1> QED
  BY <1>1, <1>2, <1>3, <1>4, <1>5, <1>6, <1>7, <1>8, <1>9, <1>10, <1>11,
     <1>12, <1>13, <1>14
     DEF Next, Hardware, Handler, Wait, Read

-----------------------------------------------------------------------------

(* The invariant is inductive, with any number of readers, and resets at   *)
(* any time.                                                               *)
THEOREM IrqInvariance == Spec => []IrqInv
<1>1. IrqInv /\ [Next]_vars => IrqInv'
  BY TypeNext, TimesNext, SeenNext, CountsNext, TakesNext, DeltasNext
     DEF IrqInv
<1> QED
  BY IrqInit, <1>1, PTL DEF Spec

(* The statistics that are shown are those since the last reset: no delta  *)
(* reaches across one, though the handler may have read the timer before.  *)
THEOREM StatisticsAreOfTheReset == Spec => []StatsSinceReset
<1>1. IrqInv => StatsSinceReset
  <2> SUFFICES ASSUME IrqInv PROVE StatsSinceReset
    OBVIOUS
  <2>1. SeenKept /\ TypeOK
    BY DEF IrqInv
  <2>2. CASE Deltas = {}
    BY <2>1, <2>2 DEF SeenKept, StatsSinceReset
  <2>3. CASE Deltas # {}
    <3>1. \A d \in Deltas : d \in Int
      BY <2>1, DeltasAreNumbers DEF TypeOK
    <3>2. max_GT_delta = Max(Deltas)
      BY <2>1, <2>3, <3>1 DEF SeenKept, Max
    <3>3. min_GT_delta = Min(Deltas)
      BY <2>1, <2>3, <3>1 DEF SeenKept, Min
    <3> QED
      BY <2>1, <2>3, <3>2, <3>3 DEF SeenKept, StatsSinceReset
  <2> QED
    BY <2>2, <2>3
<1> QED
  BY IrqInvariance, <1>1, PTL

(* But for a reset that no read has followed yet, the two counts differ    *)
(* exactly when there is an interrupt that no reader has taken.            *)
THEOREM CountsTell == Spec => []CountsTellIrq
<1>1. IrqInv => CountsTellIrq
  BY DEF IrqInv, TypeOK, CountsApart, CountsTellIrq
<1> QED
  BY IrqInvariance, <1>1, PTL

(* A reader's delta runs from the interrupt whose number it returns to its *)
(* own read of the timer; or else, after a reset, it returns the number 0  *)
(* and the whole value of the timer.                                       *)
THEOREM DeltasBelongToCounts == Spec => []DeltaOfCount
<1>1. IrqInv => DeltaOfCount
  BY DEF IrqInv
<1> QED
  BY IrqInvariance, <1>1, PTL

-----------------------------------------------------------------------------
(* A reader never sleeps over an interrupt: while one has been counted and *)
(* not taken, a reader that sleeps has been woken, or the handler is at    *)
(* the wake-up.  The exception is the reset, which makes the counts differ *)
(* and wakes nobody.                                                       *)
SleepersAreWoken ==
  \A r \in Reader :
    rpc[r] = "sleep" /\ untaken > 0 /\ ~stale => woken[r] \/ hpc = "wake"

(* The same, of what the readers compare.                                  *)
SleepersCompared ==
  \A r \in Reader :
    rpc[r] = "sleep" /\ ~woken[r] =>
      stale \/ hpc = "wake" \/ irq_count = last_read_irq_count

(* A reader is in the queue before it compares the counts, and the handler *)
(* wakes all of them after it has counted.                                 *)
LEMMA SleepersNext ==
  ASSUME TypeOK, SleepersCompared, [Next]_vars
  PROVE  SleepersCompared'
<1> USE DEF TypeOK, SleepersCompared, gt, timer, handler, reader, history
<1>1. CASE Hardware
  BY <1>1 DEF Hardware, TimePasses, TimerExpires
<1>2. CASE HandlerStarts \/ HandlerReadsGT
  BY <1>2 DEF HandlerStarts, HandlerReadsGT
<1>3. CASE HandlerWakes
  BY <1>3 DEF HandlerWakes
<1>4. ASSUME NEW c \in Cpu, HandlerUpdates(c) PROVE SleepersCompared'
  BY <1>4 DEF HandlerUpdates
<1>5. CASE DumpStatsAndReset
  BY <1>5 DEF DumpStatsAndReset, Forgotten
<1>6. ASSUME NEW r \in Reader, Wait(r) PROVE SleepersCompared'
  BY <1>6 DEF Wait, ReaderQueues, ReaderTests, ReaderInterrupted
<1>7. ASSUME NEW r \in Reader, Read(r) PROVE SleepersCompared'
  <2>1. CASE ReaderTakes(r)
    BY <2>1 DEF ReaderTakes
  <2>2. CASE ReaderReadsGT(r)
    BY <2>2 DEF ReaderReadsGT
  <2>3. CASE ReaderReturns(r)
    BY <2>3 DEF ReaderReturns
  <2> QED
    BY <1>7, <2>1, <2>2, <2>3 DEF Read
<1>8. CASE UNCHANGED vars
  BY <1>8 DEF vars
<1> QED
  BY <1>1, <1>2, <1>3, <1>4, <1>5, <1>6, <1>7, <1>8 DEF Next, Handler

(* No wake-up is lost, whenever a reader goes to sleep and whichever other *)
(* reader takes an interrupt from under it.                                *)
THEOREM WakeupsArrive == Spec => []SleepersAreWoken
<1>1. Init => SleepersCompared
  BY DEF Init, SleepersCompared
<1>2. IrqInv => TypeOK
  BY DEF IrqInv
<1>3. Spec => []SleepersCompared
  BY IrqInvariance, SleepersNext, <1>1, <1>2, PTL DEF Spec
<1>4. IrqInv /\ SleepersCompared => SleepersAreWoken
  BY DEF IrqInv, TypeOK, CountsApart, SleepersCompared, SleepersAreWoken
<1> QED
  BY IrqInvariance, <1>3, <1>4, PTL

-----------------------------------------------------------------------------
(* The global timer.                                                       *)

(* Quotient and remainder put a number together again. *)
LEMMA DivMod ==
  ASSUME NEW n \in Nat, NEW m \in Nat \ {0}
  PROVE  /\ n \div m \in Nat
         /\ n % m \in Nat /\ n % m < m
         /\ n = (n \div m) * m + (n % m)
  BY SMT

(* The high word never goes down. *)
LEMMA HiMonotonic ==
  ASSUME NEW a \in Nat, NEW b \in Nat, NEW m \in Nat \ {0}, a <= b
  PROVE  a \div m <= b \div m
  BY SMT

(* TimerInv holds at the start and is kept by each read of a register.     *)
LEMMA TimerStarts == TimerInit => TimerInv
  <1> SUFFICES ASSUME TimerInit PROVE TimerInv
    OBVIOUS
  <1>1. counter \in Nat
    BY TimerAssumption DEF TimerInit, TimerAssumption
  <1> QED
    BY <1>1 DEF TimerInit, TimerInv, TimerTypeOK, ValueWasShown

(* Neither the timer nor a read can break it.                              *)
LEMMA TimerStays == TimerInv /\ [TimerNext]_timer_vars => TimerInv'
  <1> SUFFICES ASSUME TimerInv, [TimerNext]_timer_vars PROVE TimerInv'
    OBVIOUS
  <1> USE TimerAssumption DEF TimerAssumption
  <1> USE DEF TimerInv, TimerTypeOK, ValueWasShown
  <1>1. CASE Advance
    <2>1. counter' \in Nat /\ counter < counter'
      BY <1>1 DEF Advance
    <2>2. \A n \in Nat : counter < n => counter \div WordMod <= n \div WordMod
      BY HiMonotonic
    <2>3. Hi <= Hi'
      BY <2>1, <2>2 DEF Hi
    <2>4. Hi \in Nat /\ Hi' \in Nat
      BY <2>1, DivMod DEF Hi
    <2> QED
      BY <1>1, <2>1, <2>3, <2>4 DEF Advance
  <1>2. CASE Start
    BY <1>2 DEF Start, Hi
  <1>3. CASE ReadHi
    <2>1. counter \div WordMod \in Nat
      BY DivMod
    <2> QED
      BY <1>3, <2>1 DEF ReadHi, Hi
  <1>4. CASE ReadLo
    <2>1. counter \div WordMod \in Nat /\ counter % WordMod \in Nat
      BY DivMod
    <2> QED
      BY <1>4, <2>1 DEF ReadLo, Hi, Lo
  <1>5. CASE ReadHiAgain
    <2>1. CASE counter \div WordMod # hi_GT
      BY <1>5, <2>1 DEF ReadHiAgain, Hi
    <2>2. CASE counter \div WordMod = hi_GT
      (* The high word was hi_GT before and after the low word was read. *)
      <3>1. /\ started <= lo_read /\ lo_read <= counter
            /\ lo_GT = lo_read % WordMod
            /\ hi_GT <= lo_read \div WordMod
        BY <1>5 DEF ReadHiAgain, Hi
      <3>2. lo_read \div WordMod <= hi_GT
        BY <2>2, <3>1, HiMonotonic
      <3>3. lo_read \div WordMod \in Nat
        BY DivMod
      <3>4. hi_GT = lo_read \div WordMod
        BY <3>1, <3>2, <3>3
      <3>5. lo_read = hi_GT * WordMod + lo_GT
        BY <3>1, <3>4, DivMod
      <3>6. pc' = "done" /\ value' = lo_read
        BY <1>5, <2>2, <3>5 DEF ReadHiAgain, Hi
      <3> QED
        BY <1>5, <3>1, <3>6 DEF ReadHiAgain, Hi
    <2> QED
      BY <2>1, <2>2
  <1>6. CASE UNCHANGED timer_vars
    BY <1>6 DEF timer_vars, Hi
  <1> QED
    BY <1>1, <1>2, <1>3, <1>4, <1>5, <1>6 DEF TimerNext, TimerRead

(* TimerInv holds in every state of every behaviour. *)
THEOREM TimerInvariance == TimerSpec => []TimerInv
  BY TimerStarts, TimerStays, PTL DEF TimerSpec

(* The value returned is one that the counter had between the start and    *)
(* the end of the read: the two words never belong to different times.     *)
THEOREM TimerReadsAreAtomic == TimerSpec => []ValueWasShown
  <1>1. TimerInv => ValueWasShown
    BY DEF TimerInv
  <1> QED
    BY <1>1, TimerInvariance, PTL
=============================================================================
