--------------------------- MODULE DataCopyProof ----------------------------
(***************************************************************************)
(* Proofs about the data copy programs.  First the ldrex/strex lock of the *)
(* amp_sim one, for any set of CPUs: SpinInv is inductive, as a strex that *)
(* stores needs a live reservation, and while the lock word is 1 no CPU    *)
(* standing at its strex has one.  Then the buffer handover of both, for   *)
(* every buffer size, word width and number of loops, with or without      *)
(* failing flushes.                                                        *)
(***************************************************************************)
EXTENDS DataCopy, SpinLock, TLAPS

(* The initial states satisfy the inductive invariant. *)
LEMMA SpinInvInit == SpinInit => SpinInv
  BY DEF SpinInit, SpinInv, SpinTypeOK, WordMeansHeld, NoStaleReservation,
         MutualExclusion

(* Every step of spin_lock(), of spin_unlock() and of the monitor          *)
(* preserves the inductive invariant.                                      *)
LEMMA SpinInvNext == SpinInv /\ [SpinNext]_spin_vars => SpinInv'
<1> SUFFICES ASSUME SpinInv, [SpinNext]_spin_vars PROVE SpinInv'
  OBVIOUS
<1> USE DEF SpinInv, SpinTypeOK, WordMeansHeld, NoStaleReservation,
            MutualExclusion
<1>1. ASSUME NEW c \in Cpu, Call(c) PROVE SpinInv'
  BY <1>1 DEF Call
<1>2. ASSUME NEW c \in Cpu, Ldrex(c) PROVE SpinInv'
  BY <1>2 DEF Ldrex
<1>3. ASSUME NEW c \in Cpu, StrexStores(c) PROVE SpinInv'
  <2>1. word = 0 /\ \A d \in Cpu : pc[d] # "held"
    BY <1>3 DEF StrexStores
  <2>2. QED
    BY <1>3, <2>1 DEF StrexStores
<1>4. ASSUME NEW c \in Cpu, StrexRetries(c) PROVE SpinInv'
  BY <1>4 DEF StrexRetries
<1>5. ASSUME NEW c \in Cpu, Unlock(c) PROVE SpinInv'
  BY <1>5 DEF Unlock
<1>6. ASSUME NEW c \in Cpu, LoseReservation(c) PROVE SpinInv'
  BY <1>6 DEF LoseReservation
<1>7. CASE UNCHANGED spin_vars
  BY <1>7 DEF spin_vars
<1>8. QED
  BY <1>1, <1>2, <1>3, <1>4, <1>5, <1>6, <1>7 DEF SpinNext

(* The inductive invariant holds in every reachable state. *)
THEOREM SpinInvariance == SpinSpec => []SpinInv
  BY SpinInvInit, SpinInvNext, PTL DEF SpinSpec

(* spin_lock() gives mutual exclusion, whatever the number of CPUs, the    *)
(* interleaving of their loops and the reservations that are lost.         *)
THEOREM SpinMutualExclusion == SpinSpec => []MutualExclusion
<1>1. SpinInv => MutualExclusion
  BY DEF SpinInv
<1>2. QED
  BY SpinInvariance, <1>1, PTL

-----------------------------------------------------------------------------
(* Where the invariant holds, holder is the one CPU at "held", or NoCpu.   *)
LEMMA HolderValue ==
  ASSUME SpinInv
  PROVE  /\ \A c \in Cpu : pc[c] = "held" => holder = c
         /\ (\A c \in Cpu : pc[c] # "held") => holder = NoCpu
<1>1. ASSUME NEW c \in Cpu, pc[c] = "held" PROVE holder = c
  BY <1>1 DEF holder, SpinInv, MutualExclusion
<1>2. ASSUME \A c \in Cpu : pc[c] # "held" PROVE holder = NoCpu
  BY <1>2 DEF holder
<1>3. QED
  BY <1>1, <1>2

(* Every step of the loop is a step of the atomic lock or a stutter. *)
LEMMA SpinStepSimulation ==
  SpinInv /\ SpinInv' /\ [SpinNext]_spin_vars => [Atomic!Next]_holder
<1> SUFFICES ASSUME SpinInv, SpinInv', [SpinNext]_spin_vars
             PROVE  [Atomic!Next]_holder
  OBVIOUS
<1>1. /\ \A c \in Cpu : pc'[c] = "held" => holder' = c
      /\ (\A c \in Cpu : pc'[c] # "held") => holder' = NoCpu
  BY DEF SpinInv, MutualExclusion, holder
<1>2. \A c \in Cpu : pc[c] = "held" => holder = c
  BY HolderValue
<1>3. (\A c \in Cpu : pc[c] # "held") => holder = NoCpu
  BY HolderValue
<1>4. ASSUME NEW c \in Cpu, StrexStores(c) PROVE Atomic!Acquire(c)
  <2>1. \A d \in Cpu : pc[d] # "held"
    BY <1>4 DEF StrexStores, SpinInv, SpinTypeOK, WordMeansHeld,
                NoStaleReservation
  <2>2. pc'[c] = "held"
    BY <1>4 DEF StrexStores, SpinInv, SpinTypeOK
  <2>3. QED
    BY <1>1, <1>3, <2>1, <2>2 DEF Atomic!Acquire
<1>5. ASSUME NEW c \in Cpu, Unlock(c) PROVE Atomic!Release(c)
  <2>1. \A d \in Cpu : pc'[d] # "held"
    BY <1>5 DEF Unlock, SpinInv, SpinTypeOK, MutualExclusion
  <2>2. QED
    BY <1>1, <1>2, <1>5, <2>1 DEF Atomic!Release, Unlock
<1>6. ASSUME \A c \in Cpu : pc'[c] = "held" <=> pc[c] = "held"
      PROVE  UNCHANGED holder
  <2>1. CASE \E c \in Cpu : pc[c] = "held"
    BY <1>1, <1>2, <1>6, <2>1
  <2>2. CASE \A c \in Cpu : pc[c] # "held"
    BY <1>1, <1>3, <1>6, <2>2
  <2>3. QED
    BY <2>1, <2>2
<1>7. ASSUME NEW c \in Cpu,
             Call(c) \/ Ldrex(c) \/ StrexRetries(c) \/ LoseReservation(c)
      PROVE  UNCHANGED holder
  BY <1>6, <1>7 DEF Call, Ldrex, StrexRetries, LoseReservation, SpinInv,
                    SpinTypeOK
<1>8. CASE UNCHANGED spin_vars
  BY <1>6, <1>8 DEF spin_vars
<1>9. QED
  BY <1>4, <1>5, <1>7, <1>8 DEF SpinNext, Atomic!Next

(* The ldrex/strex lock implements the atomic lock that its callers use.   *)
THEOREM SpinImplementsAtomicLock == SpinSpec => ImplementsAtomicLock
<1>1. SpinInit => Atomic!Init
  BY SpinInvInit, HolderValue DEF SpinInit, Atomic!Init
<1>2. QED
  BY <1>1, SpinInvariance, SpinStepSimulation, PTL
     DEF SpinSpec, ImplementsAtomicLock, Atomic!Spec

-----------------------------------------------------------------------------

(* A word counter taken modulo WordMod is a word. *)
LEMMA WordResult == \A n \in Nat : n % WordMod \in Word
  BY DataCopyAssumption DEF Word

(* The types hold at first.                                                *)
LEMMA TypeInit == Init => TypeOK
<1> SUFFICES ASSUME Init PROVE TypeOK
  OBVIOUS
<1>1. syncLock \in [Buf -> BOOLEAN]
  BY DEF Init
<1>2. 0 \in Word /\ 0 \in 0..MaxWords /\ 0 \in 0..MinLoops
  BY DataCopyAssumption DEF Word
<1>3. /\ bufLock \in [Buf -> BOOLEAN] /\ full \in [Buf -> BOOLEAN]
      /\ runLock \in BOOLEAN
  BY DEF Init
<1>4. /\ request \in [Buf -> 0..MaxWords] /\ response \in [Buf -> 0..MaxWords]
      /\ sequence \in [Buf -> Word] /\ data \in [Buf -> Word]
  BY <1>2 DEF Init
<1>5. mpc \in Starting /\ pass \in Passes
  BY DEF Init, Starting, Passes
<1>6. QED
  BY <1>1, <1>2, <1>3, <1>4, <1>5 DEF Init, TypeOK, Buf

(* Every step keeps them.                                                  *)
LEMMA TypeNext == TypeOK /\ [Next]_vars => TypeOK'
<1> SUFFICES ASSUME TypeOK, [Next]_vars PROVE TypeOK'
  OBVIOUS
<1> USE DataCopyAssumption, WordResult DEF TypeOK, Buf, Word, Exited, Starting, Passes
<1>1. CASE ThreadLocksFirst
  BY <1>1 DEF ThreadLocksFirst, thread, main, locks, buffers, test, ThreadAt, Take
<1>2. CASE ThreadLocksRunning
  BY <1>2 DEF ThreadLocksRunning, thread, main, locks, buffers, test, ThreadAt
<1>3. CASE ThreadSetsRunning
  BY <1>3 DEF ThreadSetsRunning, thread, main, locks, buffers, test, ThreadAt, FlushResults
<1>4. CASE ThreadUnlocksRunning
  BY <1>4 DEF ThreadUnlocksRunning, thread, main, locks, buffers, test, ThreadAt
<1>5. CASE ThreadFills
  BY <1>5 DEF ThreadFills, thread, main, locks, buffers, test, ThreadAt
<1>6. CASE ThreadPublishes
  BY <1>6, SMTT(20) DEF ThreadPublishes, thread, main, locks, buffers, test,
     ThreadAt, FlushResults
<1>7. CASE ThreadLocksSync
  BY <1>7 DEF ThreadLocksSync, thread, main, locks, buffers, test, ThreadAt, Take
<1>8. CASE ThreadUnlocksBuffer
  BY <1>8 DEF ThreadUnlocksBuffer, thread, main, locks, buffers, test, ThreadAt, Drop
<1>9. CASE ThreadLocksNext
  BY <1>9 DEF ThreadLocksNext, thread, main, locks, buffers, test, ThreadAt, Take
<1>10. CASE ThreadUnlocksSync
  BY <1>10 DEF ThreadUnlocksSync, thread, main, locks, buffers, test, ThreadAt, Drop
<1>11. CASE MainLocksRunning
  BY <1>11 DEF MainLocksRunning, thread, main, locks, buffers, test, ThreadAt
<1>12. CASE MainPollsRunning
  BY <1>12 DEF MainPollsRunning, thread, main, locks, buffers, test, ThreadAt, FlushResults
<1>13. CASE MainUnlocksRunning
  BY <1>13 DEF MainUnlocksRunning, thread, main, locks, buffers, test, ThreadAt
<1>14. CASE MainLocksNext
  BY <1>14 DEF MainLocksNext, thread, main, locks, buffers, test, ThreadAt, Take
<1>15. CASE MainUnlocksSync
  BY <1>15 DEF MainUnlocksSync, thread, main, locks, buffers, test, ThreadAt, Drop
<1>16. CASE MainSkips
  BY <1>16 DEF MainSkips, thread, main, locks, buffers, test, ThreadAt
<1>17. CASE MainCopies
  BY <1>17 DEF MainCopies, thread, main, locks, buffers, test, ThreadAt, FlushResults
<1>18. CASE MainValidates
  BY <1>18 DEF MainValidates, thread, main, locks, buffers, test, ThreadAt, FlushResults
<1>19. CASE MainRearms
  BY <1>19 DEF MainRearms, thread, main, locks, buffers, test, ThreadAt, FlushResults
<1>20. CASE MainLocksSync
  BY <1>20 DEF MainLocksSync, thread, main, locks, buffers, test, ThreadAt, Take
<1>21. CASE MainUnlocksBuffer
  BY <1>21 DEF MainUnlocksBuffer, thread, main, locks, buffers, test, ThreadAt, Drop
<1>22. CASE MainLoopsAgain
  BY <1>22 DEF MainLoopsAgain, thread, main, locks, buffers, test, ThreadAt
<1>23. CASE MainNextSize
  BY <1>23 DEF MainNextSize, thread, main, locks, buffers, test, ThreadAt, NextSize, TimeExpired
<1>24. CASE MainNextPass
  BY <1>24 DEF MainNextPass, thread, main, locks, buffers, test, ThreadAt, NextSize, TimeExpired
<1>25. CASE UNCHANGED vars
  BY <1>25 DEF vars, thread, main, locks, buffers, test, ThreadAt
<1>26. QED
  BY <1>1, <1>2, <1>3, <1>4, <1>5, <1>6, <1>7, <1>8, <1>9, <1>10, <1>11, <1>12, <1>13, <1>14, <1>15, <1>16, <1>17, <1>18, <1>19, <1>20, <1>21, <1>22, <1>23, <1>24, <1>25 DEF Next, Thread, Main, MainHandsOver, MainWorks,
     MainTimes, Ended

-----------------------------------------------------------------------------
(* The thread is before its first lock, main holds buffer 1's sync lock    *)
(* and both buffers are empty.                                             *)
LEMMA HandoverInit == Init => HandoverInv
<1> SUFFICES ASSUME Init PROVE HandoverInv
  OBVIOUS
<1>1. TypeOK
  BY TypeInit
<1>2. /\ \A b \in Buf : ~full[b] /\ ~bufLock[b]
      /\ \A b \in Buf : syncLock[b] <=> b = 1
  BY DEF Init
<1>3. /\ tpc = "start" /\ tbuf = 0 /\ mpc = "lock_running" /\ mbuf = 1
      /\ g_thread_running = 0 /\ saw_running = 0
  BY DEF Init
<1>4. LocksHeld
  BY <1>2, <1>3 DEF LocksHeld, ThreadHolds, MainHolds, ThreadHoldsSync,
     MainHoldsSync, Starting, Buf
<1>5. StartsInOrder
  BY <1>3 DEF StartsInOrder, Starting, ThreadStarting
<1>6. FullAsLeft
  BY <1>2, <1>3 DEF FullAsLeft, ThreadHolds, MainHolds, ThreadStarting, Buf
<1>7. QED
  BY <1>1, <1>3, <1>4, <1>5, <1>6 DEF HandoverInv, NoBufferLost

(* Every step of the two threads keeps the hand-over.                      *)
LEMMA HandoverNext == HandoverInv /\ [Next]_vars => HandoverInv'
<1> SUFFICES ASSUME HandoverInv, [Next]_vars PROVE HandoverInv'
  OBVIOUS
<1>a. TypeOK' 
  BY TypeNext DEF HandoverInv
<1> USE <1>a DEF HandoverInv, TypeOK, NoBufferLost, LocksHeld, StartsInOrder,
     FullAsLeft, ThreadHolds, MainHolds, ThreadHoldsSync, MainHoldsSync,
     ThreadStarting, Starting, Exited, Buf
<1>1. CASE ThreadLocksFirst
  BY <1>1 DEF ThreadLocksFirst, thread, main, locks, buffers, test, ThreadAt, Take
<1>2. CASE ThreadLocksRunning
  BY <1>2 DEF ThreadLocksRunning, thread, main, locks, buffers, test, ThreadAt
<1>3. CASE ThreadSetsRunning
  BY <1>3 DEF ThreadSetsRunning, thread, main, locks, buffers, test, ThreadAt, FlushResults
<1>4. CASE ThreadUnlocksRunning
  BY <1>4 DEF ThreadUnlocksRunning, thread, main, locks, buffers, test, ThreadAt
<1>5. CASE ThreadFills
  BY <1>5 DEF ThreadFills, thread, main, locks, buffers, test, ThreadAt
<1>6. CASE ThreadPublishes
  BY <1>6 DEF ThreadPublishes, thread, main, locks, buffers, test, ThreadAt, FlushResults
<1>7. CASE ThreadLocksSync
  BY <1>7 DEF ThreadLocksSync, thread, main, locks, buffers, test, ThreadAt, Take
<1>8. CASE ThreadUnlocksBuffer
  BY <1>8 DEF ThreadUnlocksBuffer, thread, main, locks, buffers, test, ThreadAt, Drop
<1>9. CASE ThreadLocksNext
  BY <1>9 DEF ThreadLocksNext, thread, main, locks, buffers, test, ThreadAt, Take
<1>10. CASE ThreadUnlocksSync
  BY <1>10 DEF ThreadUnlocksSync, thread, main, locks, buffers, test, ThreadAt, Drop
<1>11. CASE MainLocksRunning
  BY <1>11 DEF MainLocksRunning, thread, main, locks, buffers, test, ThreadAt
<1>12. CASE MainPollsRunning
  BY <1>12 DEF MainPollsRunning, thread, main, locks, buffers, test, ThreadAt, FlushResults
<1>13. CASE MainUnlocksRunning
  BY <1>13 DEF MainUnlocksRunning, thread, main, locks, buffers, test, ThreadAt
<1>14. CASE MainLocksNext
  BY <1>14 DEF MainLocksNext, thread, main, locks, buffers, test, ThreadAt, Take
<1>15. CASE MainUnlocksSync
  BY <1>15 DEF MainUnlocksSync, thread, main, locks, buffers, test, ThreadAt, Drop
<1>16. CASE MainSkips
  BY <1>16 DEF MainSkips, thread, main, locks, buffers, test, ThreadAt
<1>17. CASE MainCopies
  BY <1>17 DEF MainCopies, thread, main, locks, buffers, test, ThreadAt, FlushResults
<1>18. CASE MainValidates
  BY <1>18 DEF MainValidates, thread, main, locks, buffers, test, ThreadAt, FlushResults
<1>19. CASE MainRearms
  BY <1>19 DEF MainRearms, thread, main, locks, buffers, test, ThreadAt, FlushResults
<1>20. CASE MainLocksSync
  BY <1>20 DEF MainLocksSync, thread, main, locks, buffers, test, ThreadAt, Take
<1>21. CASE MainUnlocksBuffer
  BY <1>21 DEF MainUnlocksBuffer, thread, main, locks, buffers, test, ThreadAt, Drop
<1>22. CASE MainLoopsAgain
  BY <1>22 DEF MainLoopsAgain, thread, main, locks, buffers, test, ThreadAt
<1>23. CASE MainNextSize
  BY <1>23 DEF MainNextSize, thread, main, locks, buffers, test, ThreadAt, NextSize, TimeExpired
<1>24. CASE MainNextPass
  BY <1>24 DEF MainNextPass, thread, main, locks, buffers, test, ThreadAt, NextSize, TimeExpired
<1>25. CASE UNCHANGED vars
  BY <1>25 DEF vars, thread, main, locks, buffers, test, ThreadAt
<1>26. QED
  BY <1>1, <1>2, <1>3, <1>4, <1>5, <1>6, <1>7, <1>8, <1>9, <1>10, <1>11, <1>12, <1>13, <1>14, <1>15, <1>16, <1>17, <1>18, <1>19, <1>20, <1>21, <1>22, <1>23, <1>24, <1>25 DEF Next, Thread, Main, MainHandsOver, MainWorks,
     MainTimes, Ended

(* The handover invariant holds in every reachable state. *)
THEOREM HandoverInvariance == Spec => []HandoverInv
  BY HandoverInit, HandoverNext, PTL DEF Spec

(* The two threads are never inside the same buffer. *)
THEOREM NeverBothInside == Spec => []BufferExclusion
<1>1. HandoverInv => BufferExclusion
  BY DEF HandoverInv, TypeOK, LocksHeld, FullAsLeft, BufferExclusion,
     ThreadInside, MainInside, ThreadHolds, MainHolds, Exited
<1>2. QED
  BY HandoverInvariance, <1>1, PTL

(* The thread never overwrites a buffer that main has not consumed.        *)
THEOREM NothingOverwritten == Spec => []NoBufferLost
<1>1. HandoverInv => NoBufferLost
  BY DEF HandoverInv
<1>2. QED
  BY HandoverInvariance, <1>1, PTL

(* main never consumes a buffer before it is filled, nor one twice.        *)
THEOREM NothingConsumedTwice == Spec => []NoBufferTwice
<1>1. HandoverInv => NoBufferTwice
  BY DEF HandoverInv, FullAsLeft, NoBufferTwice, MainInside, Exited
<1>2. QED
  BY HandoverInvariance, <1>1, PTL

-----------------------------------------------------------------------------
(* Where the lock of g_thread_running is held, and by one of them only; a  *)
(* thread whose first flush fails keeps it.                                *)
ThreadHoldsRunning == tpc \in {"set_running", "unlock_running", "failed_start"}
MainHoldsRunning == mpc \in {"poll", "unlock_running"}

RunLockHeld ==
  mpc \notin Exited =>
    /\ runLock <=> ThreadHoldsRunning \/ MainHoldsRunning
    /\ ~(ThreadHoldsRunning /\ MainHoldsRunning)

(* Where a thread stands before a lock that is taken.                      *)
ThreadWaits ==
  \/ tpc = "start" /\ bufLock[0]
  \/ tpc = "lock_running" /\ runLock
  \/ tpc = "lock_sync" /\ syncLock[tbuf]
  \/ tpc = "lock_next" /\ bufLock[1 - tbuf]
MainWaits ==
  \/ mpc = "lock_running" /\ runLock
  \/ mpc = "lock_sync" /\ syncLock[mbuf]
  \/ mpc = "lock_next" /\ bufLock[1 - mbuf]

(* The threads never wait for each other, although each takes a sync lock  *)
(* while it holds a buffer and then a buffer while it holds a sync lock:   *)
(* when one waits the other one is on its way to the unlock, or has ended. *)
(* The thread's first lock is free when it comes to it.                    *)
NoDeadlock ==
  mpc \notin Exited =>
    /\ ~(ThreadWaits /\ MainWaits)
    /\ tpc = "start" => ~bufLock[0]

(* The lock of g_thread_running is free at first. *)
LEMMA RunLockInit == Init => RunLockHeld
  BY DEF Init, RunLockHeld, ThreadHoldsRunning, MainHoldsRunning

(* A step takes or drops the lock of g_thread_running, and moves the       *)
(* thread in or out with it, or leaves alone both.                         *)
LEMMA RunLockNext == RunLockHeld /\ [Next]_vars => RunLockHeld'
<1> SUFFICES ASSUME RunLockHeld, [Next]_vars PROVE RunLockHeld'
  OBVIOUS
<1> USE DEF RunLockHeld, ThreadHoldsRunning, MainHoldsRunning, Exited
<1>1. CASE Thread
  BY <1>1 DEF Thread, ThreadLocksFirst, ThreadLocksRunning, ThreadSetsRunning,
     ThreadUnlocksRunning, ThreadFills, ThreadPublishes, ThreadLocksSync,
     ThreadUnlocksBuffer, ThreadLocksNext, ThreadUnlocksSync, ThreadAt,
     FlushResults, main, locks
<1>2. CASE MainHandsOver
  BY <1>2 DEF MainHandsOver, MainLocksRunning, MainPollsRunning,
     MainUnlocksRunning, MainLocksNext, MainUnlocksSync, MainLocksSync,
     MainUnlocksBuffer, FlushResults, thread, locks
<1>3. CASE MainWorks
  BY <1>3 DEF MainWorks, MainSkips, MainCopies, MainValidates, MainRearms,
     FlushResults, thread, locks
<1>4. CASE MainTimes
  BY <1>4 DEF MainTimes, MainLoopsAgain, MainNextSize, MainNextPass,
     TimeExpired, thread, locks
<1>5. CASE UNCHANGED vars
  BY <1>5 DEF vars, thread, main, locks
<1>6. QED
  BY <1>1, <1>2, <1>3, <1>4, <1>5 DEF Next, Main, Ended

(* In every reachable state one of the two threads can go on.              *)
THEOREM NobodyWaitsForBoth == Spec => []NoDeadlock
<1>1. HandoverInv /\ RunLockHeld => NoDeadlock
  BY DEF HandoverInv, TypeOK, LocksHeld, StartsInOrder, RunLockHeld,
     NoDeadlock, ThreadWaits, MainWaits, ThreadHolds, MainHolds,
     ThreadHoldsSync, MainHoldsSync, ThreadHoldsRunning, MainHoldsRunning,
     Starting, ThreadStarting, Exited, Buf
<1>2. Spec => []RunLockHeld
  BY RunLockInit, RunLockNext, PTL DEF Spec
<1>3. QED
  BY HandoverInvariance, <1>1, <1>2, PTL

-----------------------------------------------------------------------------
(* Refinement: a published buffer is a Fill of the exchange, a re-armed    *)
(* one is a Take, every other step of the two threads is a stutter.        *)
LEMMA ExchangeInit == Init => Exchange!Init
<1> SUFFICES ASSUME Init PROVE Exchange!Init
  OBVIOUS
<1>1. words = [b \in Exchange!Slot |-> 0]
  BY DEF Init, words, Buf, Exchange!Slot
<1>2. toFill = 0 /\ toTake = 0
  BY DEF Init, toFill, toTake
<1>3. QED
  BY <1>1, <1>2 DEF Init, Exchange!Init, Buf, Exchange!Slot

(* Publishing a buffer fills its slot of the exchange.                     *)
LEMMA ExchangeFill ==
  ASSUME HandoverInv, HandoverInv', ThreadPublishes PROVE Exchange!Fill
<1> USE DEF HandoverInv, TypeOK, Buf
<1>1. toFill = tbuf /\ toFill' = 1 - tbuf /\ toTake' = toTake
  BY DEF ThreadPublishes, ThreadAt, toFill, toTake, main, FlushResults
<1>2. ~full[tbuf] /\ full' = [full EXCEPT ![tbuf] = TRUE]
  BY DEF ThreadPublishes, ThreadAt, NoBufferLost
<1>3. words' = words
  BY <1>2 DEF ThreadPublishes, ThreadAt, words
<1>4. QED
  BY <1>1, <1>2, <1>3 DEF Exchange!Fill

(* Re-arming a buffer takes what its slot held.                            *)
LEMMA ExchangeTake ==
  ASSUME HandoverInv, HandoverInv', MainRearms PROVE Exchange!Take
<1> USE DEF HandoverInv, TypeOK, Buf
<1>1. toTake = mbuf /\ toTake' = 1 - mbuf /\ toFill' = toFill
  BY DEF MainRearms, toFill, toTake, thread, FlushResults
<1>2. full[mbuf] /\ full' = [full EXCEPT ![mbuf] = FALSE]
  BY DEF MainRearms, FullAsLeft, Exited
<1>3. words' = [words EXCEPT ![mbuf] = current_request]
  BY <1>2 DEF MainRearms, words
<1>4. current_request \in 0..MaxWords
  OBVIOUS
<1>5. QED
  BY <1>1, <1>2, <1>3, <1>4 DEF Exchange!Take
(* Every step but those two leaves the abstract exchange as it is. *)
LEMMA ExchangeStutter ==
  ASSUME HandoverInv, HandoverInv', [Next]_vars,
         ~ThreadPublishes, ~MainRearms
  PROVE  UNCHANGED Exchange!vars
<1> USE DEF HandoverInv, TypeOK, Buf, Exchange!vars, words, toFill, toTake
<1>1. CASE ThreadLocksFirst
  BY <1>1 DEF ThreadLocksFirst, thread, main, locks, buffers, test, ThreadAt, Take
<1>2. CASE ThreadLocksRunning
  BY <1>2 DEF ThreadLocksRunning, thread, main, locks, buffers, test, ThreadAt
<1>3. CASE ThreadSetsRunning
  BY <1>3 DEF ThreadSetsRunning, thread, main, locks, buffers, test, ThreadAt, FlushResults
<1>4. CASE ThreadUnlocksRunning
  BY <1>4 DEF ThreadUnlocksRunning, thread, main, locks, buffers, test, ThreadAt
<1>5. CASE ThreadFills
  BY <1>5 DEF ThreadFills, thread, main, locks, buffers, test, ThreadAt
<1>6. CASE ThreadLocksSync
  BY <1>6 DEF ThreadLocksSync, thread, main, locks, buffers, test, ThreadAt, Take
<1>7. CASE ThreadUnlocksBuffer
  BY <1>7 DEF ThreadUnlocksBuffer, thread, main, locks, buffers, test, ThreadAt, Drop
<1>8. CASE ThreadLocksNext
  BY <1>8 DEF ThreadLocksNext, thread, main, locks, buffers, test, ThreadAt, Take
<1>9. CASE ThreadUnlocksSync
  BY <1>9 DEF ThreadUnlocksSync, thread, main, locks, buffers, test, ThreadAt, Drop
<1>10. CASE MainLocksRunning
  BY <1>10 DEF MainLocksRunning, thread, main, locks, buffers, test, ThreadAt
<1>11. CASE MainPollsRunning
  BY <1>11 DEF MainPollsRunning, thread, main, locks, buffers, test, ThreadAt, FlushResults
<1>12. CASE MainUnlocksRunning
  BY <1>12 DEF MainUnlocksRunning, thread, main, locks, buffers, test, ThreadAt, StartsInOrder, Starting
<1>13. CASE MainLocksNext
  BY <1>13 DEF MainLocksNext, thread, main, locks, buffers, test, ThreadAt, Take
<1>14. CASE MainUnlocksSync
  BY <1>14 DEF MainUnlocksSync, thread, main, locks, buffers, test, ThreadAt, Drop
<1>15. CASE MainSkips
  BY <1>15 DEF MainSkips, thread, main, locks, buffers, test, ThreadAt
<1>16. CASE MainCopies
  BY <1>16 DEF MainCopies, thread, main, locks, buffers, test, ThreadAt, FlushResults
<1>17. CASE MainValidates
  BY <1>17 DEF MainValidates, thread, main, locks, buffers, test, ThreadAt, FlushResults
<1>18. CASE MainLocksSync
  BY <1>18 DEF MainLocksSync, thread, main, locks, buffers, test, ThreadAt, Take
<1>19. CASE MainUnlocksBuffer
  BY <1>19 DEF MainUnlocksBuffer, thread, main, locks, buffers, test, ThreadAt, Drop
<1>20. CASE MainLoopsAgain
  BY <1>20 DEF MainLoopsAgain, thread, main, locks, buffers, test, ThreadAt
<1>21. CASE MainNextSize
  BY <1>21 DEF MainNextSize, thread, main, locks, buffers, test, ThreadAt, NextSize, TimeExpired
<1>22. CASE MainNextPass
  BY <1>22 DEF MainNextPass, thread, main, locks, buffers, test, ThreadAt, NextSize, TimeExpired
<1>23. CASE UNCHANGED vars
  BY <1>23 DEF vars, thread, main, locks, buffers, test, ThreadAt
<1>24. QED
  BY <1>1, <1>2, <1>3, <1>4, <1>5, <1>6, <1>7, <1>8, <1>9, <1>10, <1>11, <1>12, <1>13, <1>14, <1>15, <1>16, <1>17, <1>18, <1>19, <1>20, <1>21, <1>22, <1>23
     DEF Next, Thread, Main, MainHandsOver, MainWorks, MainTimes, Ended

(* The locks implement the exchange, for every size of the buffers. *)
THEOREM LocksImplementExchange == Spec => ImplementsExchange
<1>1. HandoverInv /\ HandoverInv' /\ [Next]_vars
        => [Exchange!Next]_(Exchange!vars)
  BY ExchangeFill, ExchangeTake, ExchangeStutter DEF Exchange!Next
<1>2. QED
  BY <1>1, ExchangeInit, HandoverInvariance, PTL
     DEF Spec, ImplementsExchange, Exchange!Spec

-----------------------------------------------------------------------------
(* The words.  The thread goes on counting from one buffer to the next, so *)
(* the runs of words in the filled buffers and the thread's next word form *)
(* a chain; main follows it.                                               *)

(* A word counted on from another one, as a uint32_t is.                   *)
Plus(a, n) == (a + n) % WordMod

(* Who is next follows from which buffers are filled.                      *)
InTurn ==
  /\ toFill = toTake <=> (full[0] <=> full[1])
  /\ toFill # toTake => full[toTake]

(* The runs of words that are in the buffers, and the word that the thread *)
(* goes on with, follow each other.                                        *)
Chain ==
  /\ full[0] /\ full[1] => data[1 - toTake] = Plus(data[toTake], words[toTake])
  /\ tpc = "publish" =>
       /\ ttemp = Plus(data[toFill], words[toFill])
       /\ full[1 - toFill] => data[toFill] = Plus(data[1 - toFill], words[1 - toFill])
  /\ tpc # "publish" /\ full[1 - toFill] =>
       ttemp = Plus(data[1 - toFill], words[1 - toFill])

(* Main has re-armed buffer b since the request size was last changed.     *)
Rearmed(b) ==
  \/ loops >= 1 \/ mpc = "loop_test"
  \/ mbuf = b /\ mpc \in {"lock_sync", "unlock_buf"}
  \/ b = 0 /\ mbuf = 0 /\ mpc = "lock_next"
  \/ b = 0 /\ mbuf = 1 /\ mpc \notin Starting \cup {"lock_next"}

SizesFollow ==
  /\ mpc = "loop_test" => mbuf = 1
  /\ mpc \notin Exited => \A b \in Buf : Rearmed(b) => words[b] = current_request

(* In this round of both buffers main has consumed buffer 0, and that was  *)
(* of the present request size.                                            *)
Reached ==
  /\ loops >= 1
  /\ \/ mbuf = 0 /\ mpc \in {"rearm", "error_inside", "lock_sync", "unlock_buf",
                             "lock_next"}
     \/ mbuf = 1 /\ mpc # "lock_next"

(* The first word that main has not been given yet, and the one that       *)
(* follows the last word that it has consumed.                             *)
Ahead ==
  IF full[toTake] THEN data[toTake]
  ELSE IF tpc = "publish" THEN data[toFill]
  ELSE ttemp

NextWord ==
  IF mpc \in {"rearm", "error_inside"} THEN Plus(data[mbuf], words[mbuf])
                                       ELSE Ahead

(* That is the word that main expects while it validates; and before that, *)
(* once whole buffers are copied, the one after the last word copied.      *)
Follows ==
  /\ pass = "validate" => mtemp = NextWord
  /\ pass = "memcpy" /\ current_request = MaxWords /\ Reached =>
       Plus(copy_last, 1) = NextWord


(* A count of words comes down to a word and a number of wraps.            *)
LEMMA PlusWraps ==
  ASSUME NEW a \in Nat, NEW n \in Nat
  PROVE  /\ Plus(a, n) \in Word
         /\ \E wraps \in Nat : a + n = wraps * WordMod + Plus(a, n)
<1> DEFINE x == a + n
<1>1. x \in Nat
  OBVIOUS
<1> HIDE DEF x
<1>2. /\ x % WordMod \in Word
      /\ x \div WordMod \in Nat
      /\ x = (x \div WordMod) * WordMod + (x % WordMod)
  BY <1>1, DataCopyAssumption, SMT DEF Word
<1> QED
  BY <1>2 DEF x, Plus

(* and to only one.                                                        *)
LEMMA WordUnique ==
  ASSUME NEW r \in Word, NEW s \in Word, NEW p \in Int, NEW q \in Int,
         p * WordMod + r = q * WordMod + s
  PROVE  r = s
<1> USE DataCopyAssumption DEF Word
<1>1. (p - q) * WordMod = s - r
  OBVIOUS
<1>2. CASE p - q >= 1
  <2>1. (p - q) * WordMod >= WordMod
    BY <1>2
  <2> QED
    BY <1>1, <2>1
<1>3. CASE p - q <= -1
  <2>1. (p - q) * WordMod <= -WordMod
    BY <1>3
  <2> QED
    BY <1>1, <2>1
<1>4. CASE p - q = 0
  BY <1>1, <1>4
<1> QED
  BY <1>2, <1>3, <1>4

(* Counting on in two steps is counting on by the sum.                     *)
LEMMA PlusFacts ==
  /\ \A a, n \in Nat : Plus(a, n) \in Word
  /\ \A a, n, m \in Nat : Plus(Plus(a, n), m) = Plus(a, n + m)
  /\ \A a \in Word : Plus(a, 0) = a
<1>0. Word \subseteq Nat /\ WordMod \in Nat
  BY DataCopyAssumption DEF Word
<1>1. ASSUME NEW a \in Nat, NEW n \in Nat, NEW m \in Nat
      PROVE  Plus(Plus(a, n), m) = Plus(a, n + m)
  <2> DEFINE x == Plus(a, n)
             y == Plus(Plus(a, n), m)
             z == Plus(a, n + m)
  <2>1. PICK p \in Nat : a + n = p * WordMod + x
    BY PlusWraps
  <2>2. x \in Nat
    BY <1>0, PlusWraps
  <2>3. PICK q \in Nat : x + m = q * WordMod + y
    BY <2>2, PlusWraps
  <2>4. n + m \in Nat
    OBVIOUS
  <2>5. PICK s \in Nat : a + (n + m) = s * WordMod + z
    BY <2>4, PlusWraps
  <2>6. y \in Word /\ z \in Word
    BY <2>2, <2>4, PlusWraps
  <2> HIDE DEF x, y, z
  <2>7. y \in Nat /\ z \in Nat
    BY <1>0, <2>6
  <2>8. (p + q) * WordMod + y = s * WordMod + z
    BY <1>0, <2>1, <2>2, <2>3, <2>5, <2>7, SMT
  <2>9. p + q \in Int /\ s \in Int
    OBVIOUS
  <2>10. y = z
    BY <2>6, <2>8, <2>9, WordUnique
  <2> QED
    BY <2>10 DEF y, z
<1>2. \A a \in Word : Plus(a, 0) = a
  BY DataCopyAssumption DEF Plus, Word
<1> QED
  BY <1>1, <1>2, PlusWraps

(* The word after the last one of a full buffer.                           *)
LEMMA PlusBack ==
  ASSUME NEW a \in Word
  PROVE  Plus((a + MaxWords - 1) % WordMod, 1) = Plus(a, MaxWords)
<1>1. a \in Nat /\ MaxWords - 1 \in Nat /\ a + MaxWords - 1 = a + (MaxWords - 1)
  BY DataCopyAssumption DEF Word
<1>2. (a + MaxWords - 1) % WordMod = Plus(a, MaxWords - 1)
  BY <1>1 DEF Plus
<1>3. MaxWords - 1 + 1 = MaxWords
  BY DataCopyAssumption
<1> QED
  BY <1>1, <1>2, <1>3, PlusFacts

(* Only the two steps inside a buffer change what the thread has written,  *)
(* or whether it is between writing a buffer and publishing it.            *)
LEMMA WordsStutter ==
  ASSUME TypeOK, [Next]_vars, ~ThreadFills, ~ThreadPublishes
  PROVE  UNCHANGED <<data, ttemp, tpc = "publish">>
<1>1. CASE ThreadLocksFirst
  BY <1>1 DEF ThreadLocksFirst, ThreadAt, main, thread, test, locks, buffers, Take
<1>2. CASE ThreadLocksRunning
  BY <1>2 DEF ThreadLocksRunning, ThreadAt, main, thread, test, locks, buffers
<1>3. CASE ThreadSetsRunning
  BY <1>3 DEF ThreadSetsRunning, ThreadAt, main, thread, test, locks, buffers, FlushResults
<1>4. CASE ThreadUnlocksRunning
  BY <1>4 DEF ThreadUnlocksRunning, ThreadAt, main, thread, test, locks, buffers
<1>5. CASE ThreadLocksSync
  BY <1>5 DEF ThreadLocksSync, ThreadAt, main, thread, test, locks, buffers, Take
<1>6. CASE ThreadUnlocksBuffer
  BY <1>6 DEF ThreadUnlocksBuffer, ThreadAt, main, thread, test, locks, buffers, Drop
<1>7. CASE ThreadLocksNext
  BY <1>7 DEF ThreadLocksNext, ThreadAt, main, thread, test, locks, buffers, Take
<1>8. CASE ThreadUnlocksSync
  BY <1>8 DEF ThreadUnlocksSync, ThreadAt, main, thread, test, locks, buffers, Drop
<1>9. CASE MainLocksRunning
  BY <1>9 DEF MainLocksRunning, thread, test, locks, buffers
<1>10. CASE MainPollsRunning
  BY <1>10 DEF MainPollsRunning, thread, test, locks, buffers, FlushResults
<1>11. CASE MainUnlocksRunning
  BY <1>11 DEF MainUnlocksRunning, thread, test, locks, buffers
<1>12. CASE MainLocksNext
  BY <1>12 DEF MainLocksNext, thread, test, locks, buffers, Take
<1>13. CASE MainUnlocksSync
  BY <1>13 DEF MainUnlocksSync, thread, test, locks, buffers, Drop
<1>14. CASE MainSkips
  BY <1>14 DEF MainSkips, thread, test, locks, buffers
<1>15. CASE MainCopies
  BY <1>15 DEF MainCopies, thread, test, locks, buffers, FlushResults
<1>16. CASE MainValidates
  BY <1>16 DEF MainValidates, thread, test, locks, buffers, FlushResults
<1>17. CASE MainRearms
  BY <1>17 DEF MainRearms, thread, test, locks, buffers, FlushResults
<1>18. CASE MainLocksSync
  BY <1>18 DEF MainLocksSync, thread, test, locks, buffers, Take
<1>19. CASE MainUnlocksBuffer
  BY <1>19 DEF MainUnlocksBuffer, thread, test, locks, buffers, Drop
<1>20. CASE MainLoopsAgain
  BY <1>20 DEF MainLoopsAgain, thread, test, locks, buffers
<1>21. CASE MainNextSize
  BY <1>21 DEF MainNextSize, thread, test, locks, buffers, NextSize, TimeExpired
<1>22. CASE MainNextPass
  BY <1>22 DEF MainNextPass, thread, test, locks, buffers, NextSize, TimeExpired
<1>23. CASE UNCHANGED vars
  BY <1>23 DEF vars, thread, main, buffers, test
<1> QED
  BY <1>1, <1>2, <1>3, <1>4, <1>5, <1>6, <1>7, <1>8, <1>9, <1>10, <1>11, <1>12, <1>13, <1>14, <1>15, <1>16, <1>17, <1>18, <1>19, <1>20, <1>21, <1>22, <1>23
     DEF Next, Thread, Main, MainHandsOver, MainWorks, MainTimes, Ended

(* Publishing moves the thread's turn on, re-arming moves main's.          *)
LEMMA InTurnNext ==
  ASSUME HandoverInv, HandoverInv', InTurn, [Next]_vars
  PROVE  InTurn'
<1>0. toFill \in Buf /\ toTake \in Buf /\ full \in [Buf -> BOOLEAN]
  BY DEF HandoverInv, TypeOK, Buf, toFill, toTake
<1>1. CASE ThreadPublishes
  <2>1. Exchange!Fill
    BY <1>1, ExchangeFill
  <2> QED
    BY <1>0, <2>1 DEF Exchange!Fill, InTurn, Buf
<1>2. CASE MainRearms
  <2>1. Exchange!Take
    BY <1>2, ExchangeTake
  <2> QED
    BY <1>0, <2>1 DEF Exchange!Take, InTurn, Buf
<1>3. CASE ~ThreadPublishes /\ ~MainRearms
  <2>1. UNCHANGED Exchange!vars
    BY <1>3, ExchangeStutter
  <2> QED
    BY <2>1 DEF Exchange!vars, InTurn
<1> QED
  BY <1>1, <1>2, <1>3

(* A fill prolongs the chain, a publish hands its last run over and a      *)
(* re-arm takes its first run off.                                         *)
LEMMA ChainNext ==
  ASSUME HandoverInv, HandoverInv', InTurn, Chain, [Next]_vars
  PROVE  Chain'
<1>0. /\ toFill \in Buf /\ toTake \in Buf /\ full \in [Buf -> BOOLEAN]
      /\ tbuf \in Buf /\ mbuf \in Buf
      /\ tpc \in {"fill", "publish"} => toFill = tbuf /\ ~full[tbuf]
  BY DEF HandoverInv, NoBufferLost, TypeOK, Buf, toFill, toTake
<1>1. CASE ThreadFills
  <2>1. UNCHANGED Exchange!vars
    BY <1>1, ExchangeStutter DEF ThreadFills, ThreadPublishes, MainRearms, ThreadAt, main, thread
  <2> QED
    BY <1>0, <1>1, <2>1 DEF ThreadFills, ThreadAt, Chain, InTurn, Exchange!vars, words, HandoverInv, TypeOK, Plus, Buf
<1>2. CASE ThreadPublishes
  <2>1. Exchange!Fill
    BY <1>2, ExchangeFill
  <2> QED
    BY <1>0, <1>2, <2>1 DEF Exchange!Fill, InTurn, Chain, ThreadPublishes, ThreadAt, FlushResults, Buf
<1>3. CASE MainRearms
  <2>1. Exchange!Take
    BY <1>3, ExchangeTake
  <2> QED
    BY <1>0, <1>3, <2>1 DEF Exchange!Take, InTurn, Chain, MainRearms, thread, Buf
<1>4. CASE ~ThreadFills /\ ~ThreadPublishes /\ ~MainRearms
  <2>1. UNCHANGED Exchange!vars
    BY <1>4, ExchangeStutter
  <2>2. UNCHANGED <<data, ttemp, tpc = "publish">>
    BY <1>4, WordsStutter DEF HandoverInv
  <2> QED
    BY <2>1, <2>2 DEF Exchange!vars, Chain
<1> QED
  BY <1>1, <1>2, <1>3, <1>4

(* Main re-arms both buffers with the size before it looks at the time,    *)
(* and gets a size of its own to both before it has counted a loop.        *)
LEMMA SizesNext ==
  ASSUME HandoverInv, HandoverInv', SizesFollow, [Next]_vars
  PROVE  SizesFollow'
<1>1. TypeOK /\ (mpc \notin Exited => StartsInOrder)
  BY DEF HandoverInv
<1>2. CASE MainRearms
  <2>1. words' = [words EXCEPT ![mbuf] = current_request]
    BY <1>1, <1>2 DEF MainRearms, words, TypeOK, HandoverInv, FullAsLeft, Exited
  <2>2. words \in [Buf -> 0..MaxWords]
    BY <1>1 DEF TypeOK, words
  <2> QED
    BY <1>1, <1>2, <2>1, <2>2 DEF MainRearms, FlushResults, thread, test,
       SizesFollow, Rearmed, Exited, Starting, Buf, TypeOK
<1>3. CASE ~MainRearms
  <2>a. words' = words
    BY <1>3, ExchangeFill, ExchangeStutter DEF Exchange!Fill, Exchange!vars
  <2> USE DataCopyAssumption, <1>1, <2>a DEF TypeOK, SizesFollow, Rearmed,
        StartsInOrder, Buf, Exited, Starting
  <2>1. CASE ThreadLocksFirst
    BY <2>1 DEF ThreadLocksFirst, ThreadAt, main, thread, test, locks, buffers, Take
  <2>2. CASE ThreadLocksRunning
    BY <2>2 DEF ThreadLocksRunning, ThreadAt, main, thread, test, locks, buffers
  <2>3. CASE ThreadSetsRunning
    BY <2>3 DEF ThreadSetsRunning, ThreadAt, main, thread, test, locks, buffers, FlushResults
  <2>4. CASE ThreadUnlocksRunning
    BY <2>4 DEF ThreadUnlocksRunning, ThreadAt, main, thread, test, locks, buffers
  <2>5. CASE ThreadFills
    BY <2>5 DEF ThreadFills, ThreadAt, main, thread, test, locks, buffers
  <2>6. CASE ThreadPublishes
    BY <2>6 DEF ThreadPublishes, ThreadAt, main, thread, test, locks, buffers, FlushResults
  <2>7. CASE ThreadLocksSync
    BY <2>7 DEF ThreadLocksSync, ThreadAt, main, thread, test, locks, buffers, Take
  <2>8. CASE ThreadUnlocksBuffer
    BY <2>8 DEF ThreadUnlocksBuffer, ThreadAt, main, thread, test, locks, buffers, Drop
  <2>9. CASE ThreadLocksNext
    BY <2>9 DEF ThreadLocksNext, ThreadAt, main, thread, test, locks, buffers, Take
  <2>10. CASE ThreadUnlocksSync
    BY <2>10 DEF ThreadUnlocksSync, ThreadAt, main, thread, test, locks, buffers, Drop
  <2>11. CASE MainLocksRunning
    BY <2>11 DEF MainLocksRunning, thread, test, locks, buffers
  <2>12. CASE MainPollsRunning
    BY <2>12 DEF MainPollsRunning, thread, test, locks, buffers, FlushResults
  <2>13. CASE MainUnlocksRunning
    BY <2>13 DEF MainUnlocksRunning, thread, test, locks, buffers
  <2>14. CASE MainLocksNext
    BY <2>14 DEF MainLocksNext, thread, test, locks, buffers, Take
  <2>15. CASE MainUnlocksSync
    BY <2>15 DEF MainUnlocksSync, thread, test, locks, buffers, Drop
  <2>16. CASE MainSkips
    BY <2>16 DEF MainSkips, thread, test, locks, buffers
  <2>17. CASE MainCopies
    BY <2>17 DEF MainCopies, thread, test, locks, buffers, FlushResults
  <2>18. CASE MainValidates
    BY <2>18 DEF MainValidates, thread, test, locks, buffers, FlushResults
  <2>19. CASE MainLocksSync
    BY <2>19 DEF MainLocksSync, thread, test, locks, buffers, Take
  <2>20. CASE MainUnlocksBuffer
    BY <2>20 DEF MainUnlocksBuffer, thread, test, locks, buffers, Drop
  <2>21. CASE MainLoopsAgain
    BY <2>21 DEF MainLoopsAgain, thread, test, locks, buffers
  <2>22. CASE MainNextSize
    BY <2>22 DEF MainNextSize, thread, test, locks, buffers, NextSize, TimeExpired
  <2>23. CASE MainNextPass
    BY <2>23 DEF MainNextPass, thread, test, locks, buffers, NextSize, TimeExpired
  <2>24. CASE UNCHANGED vars
    BY <2>24 DEF vars, thread, main, buffers, test
  <2> QED
    BY <1>3, <2>1, <2>2, <2>3, <2>4, <2>5, <2>6, <2>7, <2>8, <2>9, <2>10, <2>11, <2>12, <2>13, <2>14, <2>15, <2>16, <2>17, <2>18, <2>19, <2>20, <2>21, <2>22, <2>23, <2>24
       DEF Next, Thread, Main, MainHandsOver, MainWorks, MainTimes, Ended

<1> QED
  BY <1>2, <1>3


(* The first word that waits for main only changes when main re-arms ...   *)
LEMMA AheadStays ==
  ASSUME HandoverInv, HandoverInv', InTurn, [Next]_vars, ~MainRearms
  PROVE  Ahead' = Ahead
<1>0. /\ toFill \in Buf /\ toTake \in Buf /\ full \in [Buf -> BOOLEAN]
      /\ data \in [Buf -> Word]
      /\ tpc \in {"fill", "publish"} => toFill = tbuf /\ ~full[toFill]
  BY DEF HandoverInv, NoBufferLost, TypeOK, Buf, toFill, toTake
<1>1. CASE ThreadFills
  <2>1. UNCHANGED Exchange!vars
    BY <1>1, ExchangeStutter DEF ThreadFills, ThreadPublishes, ThreadAt
  <2> QED
    BY <1>0, <1>1, <2>1 DEF ThreadFills, ThreadAt, Ahead, Exchange!vars, Buf
<1>2. CASE ThreadPublishes
  <2>1. Exchange!Fill
    BY <1>2, ExchangeFill
  <2> QED
    BY <1>0, <1>2, <2>1 DEF Exchange!Fill, InTurn, Ahead, ThreadPublishes,
       ThreadAt, FlushResults, Buf
<1>3. CASE ~ThreadFills /\ ~ThreadPublishes
  <2>1. UNCHANGED Exchange!vars
    BY <1>3, ExchangeStutter
  <2>2. UNCHANGED <<data, ttemp, tpc = "publish">>
    BY <1>3, WordsStutter DEF HandoverInv
  <2> QED
    BY <2>1, <2>2 DEF Exchange!vars, Ahead
<1> QED
  BY <1>1, <1>2, <1>3

(* ... and is then the one that follows the run of the re-armed buffer.    *)
LEMMA AheadMoves ==
  ASSUME HandoverInv, HandoverInv', InTurn, Chain, MainRearms
  PROVE  Ahead' = Plus(data[mbuf], words[mbuf])
<1>0. /\ toFill \in Buf /\ toTake = mbuf /\ mbuf \in Buf
      /\ full \in [Buf -> BOOLEAN] /\ full[mbuf]
      /\ toTake' = 1 - mbuf /\ toFill' = toFill
  BY DEF HandoverInv, FullAsLeft, Exited, TypeOK, Buf, toFill, toTake, MainRearms,
     thread, FlushResults
<1>1. full' = [full EXCEPT ![mbuf] = FALSE] /\ UNCHANGED <<data, tpc, ttemp>>
  BY DEF MainRearms, thread
<1> QED
  BY <1>0, <1>1 DEF InTurn, Chain, Ahead, Buf

(* The word that main expects is the one that comes next: from step to     *)
(* step while it validates, and when the memcpy pass ends because the last *)
(* pair of buffers it copied was whole.                                    *)
LEMMA FollowsNext ==
  ASSUME HandoverInv, HandoverInv', InTurn, Chain, SizesFollow, Follows,
         ValidateNeverFails, [Next]_vars, MinLoops >= 2,
         mpc = "loop_test" /\ NextSize > MaxWords => current_request = MaxWords
  PROVE  Follows' /\ ValidateNeverFails'
<1>1. /\ mpc \in {"consume", "rearm"} => full[mbuf] /\ toTake = mbuf
      /\ mbuf \in Buf /\ data[mbuf] \in Word /\ words[mbuf] \in 0..MaxWords
      /\ copy_last \in Word /\ loops \in Nat /\ ttemp \in Word
      /\ response[mbuf] \in 0..MaxWords /\ pass \in Passes
      /\ mpc = "consume" => words[mbuf] = response[mbuf]
      /\ mpc \in Starting => mbuf = 1
  BY DEF HandoverInv, FullAsLeft, StartsInOrder, Exited, Starting, TypeOK, Buf, toTake, words
<1>2. mpc = "consume" => Ahead = data[mbuf]
  BY <1>1 DEF Ahead
<1>3. mpc = "consume" =>
        Plus((data[mbuf] + MaxWords - 1) % WordMod, 1) = Plus(data[mbuf], MaxWords)
  BY <1>1, PlusBack
<1>4. CASE MainRearms
  <2>1. Ahead' = Plus(data[mbuf], words[mbuf])
    BY <1>4, AheadMoves
  <2> QED
    BY <1>1, <1>4, <2>1 DEF MainRearms, FlushResults, test, Follows, NextWord,
       Reached, ValidateNeverFails, Exited
<1>5. CASE ~MainRearms
  <2>1. Ahead' = Ahead
    BY <1>5, AheadStays
  <2>a. words' = words
    BY <1>5, ExchangeFill, ExchangeStutter DEF Exchange!Fill, Exchange!vars
  <2>2. mpc \in {"rearm", "error_inside"} => data'[mbuf] = data[mbuf]
    <3>1. CASE ThreadFills
      BY <3>1 DEF ThreadFills, ThreadAt, HandoverInv, LocksHeld, ThreadHolds,
         MainHolds, Exited, TypeOK
    <3>2. CASE ThreadPublishes
      BY <3>2 DEF ThreadPublishes
    <3> QED
      BY <3>1, <3>2, WordsStutter DEF HandoverInv
  <2>3. CASE UNCHANGED main
    BY <2>1, <2>a, <2>2, <2>3 DEF Follows, NextWord, Reached, ValidateNeverFails, main, test
  <2>4. Thread \/ UNCHANGED vars => UNCHANGED main
    BY DEF Thread, vars, main, ThreadLocksFirst, ThreadLocksRunning,
       ThreadSetsRunning, ThreadUnlocksRunning, ThreadFills, ThreadPublishes,
       ThreadLocksSync, ThreadUnlocksBuffer, ThreadLocksNext, ThreadUnlocksSync
  <2> USE <2>1 DEF Follows, NextWord, Reached, ValidateNeverFails
  <2>5. CASE MainLocksRunning
    BY <1>1, <2>5 DEF MainLocksRunning, thread, test, locks, buffers
  <2>6. CASE MainPollsRunning
    BY <1>1, <2>6 DEF MainPollsRunning, thread, test, locks, buffers, FlushResults
  <2>7. CASE MainUnlocksRunning
    BY <1>1, <2>7 DEF MainUnlocksRunning, Starting, thread, test, locks, buffers
  <2>8. CASE MainLocksNext
    BY <1>1, <2>8 DEF MainLocksNext, Buf, thread, test, locks, buffers, Take
  <2>9. CASE MainUnlocksSync
    BY <1>1, <2>9 DEF MainUnlocksSync, thread, test, locks, buffers, Drop
  <2>10. CASE MainSkips
    BY <1>1, <2>10 DEF MainSkips, thread, test, locks, buffers
  <2>11. CASE MainCopies
    <3>1. current_request = MaxWords /\ loops >= 1 => response[mbuf] = MaxWords
      BY <1>1, <2>11 DEF MainCopies, SizesFollow, Rearmed, Exited
    <3>2. UNCHANGED <<data, mbuf, pass, current_request, loops, mtemp>> /\ pass = "memcpy"
      BY <2>11 DEF MainCopies, test, buffers
    <3>3. mpc' \in {"rearm", "error_inside"} /\ mpc = "consume"
      BY <2>11 DEF MainCopies, FlushResults
    <3>4. NextWord' = Plus(data[mbuf], response[mbuf])
      BY <1>1, <2>a, <3>2, <3>3 DEF NextWord
    <3>5. response[mbuf] = MaxWords => Plus(copy_last', 1) = Plus(data[mbuf], MaxWords)
      BY <1>3, <2>11 DEF MainCopies
    <3> QED
      BY <3>1, <3>2, <3>3, <3>4, <3>5 DEF Follows, Reached, ValidateNeverFails
  <2>12. CASE MainValidates
    <3>1. pass = "validate" /\ mpc = "consume" /\ UNCHANGED <<data, mbuf, pass>>
      BY <2>12 DEF MainValidates, test, buffers
    <3>2. mtemp = data[mbuf]
      BY <1>2, <3>1 DEF Follows, NextWord
    <3>3. mpc' \in {"rearm", "error_inside"} /\ mtemp' = Plus(mtemp, response[mbuf])
      BY <2>12, <3>2 DEF MainValidates, FlushResults, Plus
    <3>4. NextWord' = Plus(data[mbuf], response[mbuf])
      BY <1>1, <2>a, <3>1, <3>3 DEF NextWord
    <3> QED
      BY <3>1, <3>2, <3>3, <3>4 DEF Follows, ValidateNeverFails
  <2>13. CASE MainLocksSync
    BY <1>1, <2>13 DEF MainLocksSync, thread, test, locks, buffers, Take
  <2>14. CASE MainUnlocksBuffer
    BY <1>1, <2>14 DEF MainUnlocksBuffer, thread, test, locks, buffers, Drop
  <2>15. CASE MainLoopsAgain
    BY <1>1, <2>15 DEF MainLoopsAgain, SizesFollow, thread, test, locks, buffers
  <2>16. CASE MainNextSize
    BY <1>1, <2>16 DEF MainNextSize, TimeExpired, SizesFollow, thread, test, locks, buffers
  <2>17. CASE MainNextPass
    <3>1. mpc = "loop_test" /\ mbuf = 1 /\ loops >= 1 /\ current_request = MaxWords
      BY <1>1, <2>17, DataCopyAssumption DEF MainNextPass, TimeExpired, SizesFollow
    <3>2. NextWord' = NextWord
      BY <2>1, <2>17, <3>1 DEF MainNextPass, NextWord
    <3>3. pass = "memcpy" => Plus(copy_last, 1) = NextWord
      BY <3>1 DEF Follows, Reached
    <3> QED
      BY <1>1, <2>17, <3>1, <3>2, <3>3 DEF MainNextPass, Follows, Reached, Plus,
         ValidateNeverFails, Passes, test
  <2> QED
    BY <1>5, <2>3, <2>4, <2>5, <2>6, <2>7, <2>8, <2>9, <2>10, <2>11, <2>12, <2>13, <2>14, <2>15, <2>16, <2>17
       DEF Next, Main, MainHandsOver, MainWorks, MainTimes, Ended
<1> QED
  BY <1>4, <1>5

(* The request sizes from 1 on: the powers of two up to MaxWords.          *)
RequestSizes ==
  CHOOSE sizes \in SUBSET (1..MaxWords) :
    1 \in sizes /\ \A s \in sizes : s = MaxWords \/ 2 * s \in sizes

(* The inductive invariant about the words, on top of HandoverInv.         *)
WordsInv ==
  /\ InTurn /\ Chain /\ SizesFollow /\ Follows /\ ValidateNeverFails
  /\ current_request \in {0} \cup RequestSizes

(* They double until MaxWords, which is one of them.                       *)
LEMMA SizesDouble ==
  /\ RequestSizes \in SUBSET (1..MaxWords) /\ 1 \in RequestSizes
  /\ \A s \in RequestSizes : s = MaxWords \/ 2 * s \in RequestSizes
  BY ValidateAssumption DEF RequestSizes

(* A pass that has no larger size left has arrived at whole buffers.       *)
LEMMA LastSize ==
  ASSUME current_request \in {0} \cup RequestSizes
  PROVE  /\ NextSize <= MaxWords => NextSize \in RequestSizes
         /\ NextSize > MaxWords => current_request = MaxWords
<1>1. CASE current_request = 0
  BY <1>1, SizesDouble, DataCopyAssumption DEF NextSize
<1>2. CASE current_request \in RequestSizes
  <2>1. current_request \in 1..MaxWords
    BY <1>2, SizesDouble
  <2>2. current_request = MaxWords \/ 2 * current_request \in RequestSizes
    BY <1>2, SizesDouble
  <2>3. \A s \in RequestSizes : s \in 1..MaxWords
    BY SizesDouble
  <2> QED
    BY <2>1, <2>2, <2>3, DataCopyAssumption DEF NextSize
<1> QED
  BY <1>1, <1>2

(* Both buffers are empty and the thread has not counted a word.           *)
LEMMA WordsInit == ASSUME Init PROVE WordsInv
<1>1. TypeOK
  BY TypeInit
<1>2. /\ ~full[0] /\ ~full[1] /\ tpc = "start" /\ mpc = "lock_running"
      /\ pass = "no_work" /\ current_request = 0 /\ loops = 0 /\ mbuf = 1 /\ tbuf = 0
  BY DEF Init, Buf
<1>3. toFill = 0 /\ toTake = 0
  BY <1>2 DEF toFill, toTake
<1>4. InTurn
  BY <1>2, <1>3 DEF InTurn
<1>5. Chain
  BY <1>2, <1>3 DEF Chain
<1>6. SizesFollow
  BY <1>2 DEF SizesFollow, Rearmed, Starting
<1>7. Follows /\ ValidateNeverFails
  BY <1>2 DEF Follows, ValidateNeverFails
<1> QED
  BY <1>2, <1>4, <1>5, <1>6, <1>7 DEF WordsInv

(* The words go on following each other. *)
LEMMA WordsNext ==
  ASSUME HandoverInv, HandoverInv', WordsInv, [Next]_vars
  PROVE  WordsInv'
<1>1. mpc = "loop_test" /\ NextSize > MaxWords => current_request = MaxWords
  BY LastSize DEF WordsInv
<1>2. current_request' \in {0} \cup RequestSizes
  <2>1. CASE MainNextSize
    BY <2>1, LastSize DEF MainNextSize, WordsInv
  <2>2. CASE MainNextPass
    BY <2>2 DEF MainNextPass, WordsInv, test
  <2>3. CASE ~MainNextSize /\ ~MainNextPass
    BY <2>3 DEF Next, Thread, Main, MainHandsOver, MainWorks, MainTimes, Ended,
       ThreadLocksFirst, ThreadLocksRunning, ThreadSetsRunning, ThreadUnlocksRunning,
       ThreadFills, ThreadPublishes, ThreadLocksSync, ThreadUnlocksBuffer,
       ThreadLocksNext, ThreadUnlocksSync, MainLocksRunning, MainPollsRunning,
       MainUnlocksRunning, MainLocksNext, MainUnlocksSync, MainSkips, MainCopies,
       MainValidates, MainRearms, MainLocksSync, MainUnlocksBuffer, MainLoopsAgain,
       main, test, vars, WordsInv
  <2> QED
    BY <2>1, <2>2, <2>3
<1>3. InTurn' /\ Chain' /\ SizesFollow'
  BY InTurnNext, ChainNext, SizesNext DEF WordsInv
<1>4. Follows' /\ ValidateNeverFails'
  BY <1>1, FollowsNext, ValidateAssumption DEF WordsInv
<1> QED
  BY <1>2, <1>3, <1>4 DEF WordsInv

(* Both invariants hold in every reachable state. *)
THEOREM WordsInvariance == Spec => [](HandoverInv /\ WordsInv)
<1>1. Init => HandoverInv /\ WordsInv
  BY HandoverInit, WordsInit
<1>2. HandoverInv /\ WordsInv /\ [Next]_vars => (HandoverInv /\ WordsInv)'
  BY HandoverNext, WordsNext
<1> QED
  BY <1>1, <1>2, PTL DEF Spec

(* The validate pass never meets a word out of sequence.                   *)
THEOREM NoMismatch == Spec => []ValidateNeverFails
<1>1. WordsInv => ValidateNeverFails
  BY DEF WordsInv
<1> QED
  BY <1>1, WordsInvariance, PTL

(* The words that wait are those of the filled buffers that main has not   *)
(* consumed and of the buffer that is written but not yet published.       *)
LEMMA WordsAccounted ==
  ASSUME HandoverInv, WordsInv PROVE NoWordLost
<1> SUFFICES ASSUME pass = "validate"
             PROVE  ttemp = Plus(mtemp, Waiting(0) + Waiting(1))
  <2>1. Waiting(0) \in Nat /\ Waiting(1) \in Nat /\ mtemp \in Nat
    BY DataCopyAssumption DEF HandoverInv, TypeOK, Waiting, Buf, Word
  <2>2. Plus(mtemp, Waiting(0) + Waiting(1)) = (mtemp + Waiting(0) + Waiting(1)) % WordMod
    BY <2>1 DEF Plus
  <2> QED
    BY <2>2 DEF NoWordLost
<1> DEFINE t == toTake  u == 1 - toTake
<1>1. t = toTake /\ u = 1 - toTake /\ t \in Buf /\ u \in Buf /\ t # u /\ (t = 0 \/ u = 0) /\ (toFill = t \/ toFill = u)
  BY DEF HandoverInv, TypeOK, Buf, toTake, toFill
<1>2. /\ words[t] \in Nat /\ words[u] \in Nat /\ ttemp \in Nat
      /\ data[t] \in Word /\ data[u] \in Word /\ Word \subseteq Nat
      /\ full \in [Buf -> BOOLEAN] /\ ttemp \in Word
  BY <1>1, DataCopyAssumption DEF HandoverInv, TypeOK, words, Word
<1>3. tpc = "publish" => toFill = tbuf /\ ~full[tbuf]
  BY DEF HandoverInv, NoBufferLost, TypeOK, toFill, Buf
<1>4. mpc \in {"rearm", "error_inside"} => mbuf = t /\ full[t]
  BY DEF HandoverInv, FullAsLeft, Exited, toTake
<1>5. mtemp = NextWord
  BY DEF WordsInv, Follows
<1>6. /\ \A b \in Buf : full[b] /\ ~Consumed(b) => Waiting(b) = words[b]
      /\ \A b \in Buf : ~full[b] => Waiting(b) = IF tpc = "publish" /\ toFill = b THEN words[b] ELSE 0
      /\ \A b \in Buf : Consumed(b) => Waiting(b) = 0
  BY <1>3, <1>4 DEF Waiting, words, Consumed, HandoverInv, TypeOK, NoBufferLost, toFill
<1>7. Waiting(0) + Waiting(1) = Waiting(t) + Waiting(u)
  BY <1>1 DEF Buf, Waiting, HandoverInv, TypeOK
<1>8. InTurn /\ Chain
  BY DEF WordsInv
<1>9. full[t] \/ ~full[u]
  BY <1>1, <1>8 DEF InTurn, Buf
<1>10. ~Consumed(u) /\ (Consumed(t) <=> mpc \in {"rearm", "error_inside"})
  BY <1>1, <1>4 DEF Consumed
<1> HIDE DEF t, u
<1>14. \A n \in Nat : Plus(Plus(data[t], words[t]), n) = Plus(data[t], words[t] + n)
  BY <1>2, PlusFacts
<1>11. CASE full[t] /\ full[u]
  <2>1. toFill = t /\ tpc # "publish"
    BY <1>1, <1>3, <1>8, <1>11 DEF InTurn, Buf
  <2>2. data[u] = Plus(data[t], words[t]) /\ ttemp = Plus(data[u], words[u])
    BY <1>1, <1>8, <1>11, <2>1 DEF Chain, Buf
  <2>3. Waiting(u) = words[u]
    BY <1>1, <1>6, <1>10, <1>11
  <2>4. CASE Consumed(t)
    <3>1. Waiting(t) = 0 /\ mtemp = data[u]
      BY <1>1, <1>4, <1>5, <1>6, <1>10, <2>2, <2>4 DEF NextWord
    <3> QED
      BY <1>2, <1>7, <2>2, <2>3, <3>1
  <2>5. CASE ~Consumed(t)
    <3>1. Waiting(t) = words[t] /\ mtemp = data[t]
      BY <1>1, <1>5, <1>6, <1>10, <1>11, <2>5 DEF NextWord, Ahead
    <3> QED
      BY <1>2, <1>7, <1>14, <2>2, <2>3, <3>1
  <2> QED
    BY <2>4, <2>5
<1>12. CASE full[t] /\ ~full[u]
  <2>1. toFill = u
    BY <1>1, <1>8, <1>12 DEF InTurn, Buf
  <2>2. Waiting(u) = IF tpc = "publish" THEN words[u] ELSE 0
    BY <1>1, <1>6, <1>12, <2>1
  <2>3. ttemp = Plus(Plus(data[t], words[t]), Waiting(u))
    <3>1. CASE tpc = "publish"
      BY <1>1, <1>8, <1>12, <2>1, <2>2, <3>1 DEF Chain, Buf
    <3>2. CASE tpc # "publish"
      <4>1. ttemp = Plus(data[t], words[t]) /\ Waiting(u) = 0
        BY <1>1, <1>8, <1>12, <2>1, <2>2, <3>2 DEF Chain, Buf
      <4> QED
        BY <1>2, <4>1, PlusFacts
    <3> QED
      BY <3>1, <3>2
  <2>4. Waiting(u) \in Nat
    BY <1>2, <2>2
  <2>5. CASE Consumed(t)
    <3>1. Waiting(t) = 0 /\ mtemp = Plus(data[t], words[t])
      BY <1>1, <1>4, <1>5, <1>6, <1>10, <2>5 DEF NextWord
    <3> QED
      BY <1>7, <2>3, <2>4, <3>1
  <2>6. CASE ~Consumed(t)
    <3>1. Waiting(t) = words[t] /\ mtemp = data[t]
      BY <1>1, <1>5, <1>6, <1>10, <1>12, <2>6 DEF NextWord, Ahead
    <3> QED
      BY <1>2, <1>7, <1>14, <2>3, <2>4, <3>1
  <2> QED
    BY <2>5, <2>6
<1>13. CASE ~full[t] /\ ~full[u]
  <2>1. toFill = t /\ ~Consumed(t)
    BY <1>1, <1>4, <1>8, <1>10, <1>13 DEF InTurn, Buf
  <2>2. Waiting(u) = 0 /\ Waiting(t) = IF tpc = "publish" THEN words[t] ELSE 0
    BY <1>1, <1>6, <1>13, <2>1
  <2>3. mtemp = IF tpc = "publish" THEN data[t] ELSE ttemp
    BY <1>1, <1>5, <1>10, <1>13, <2>1 DEF NextWord, Ahead
  <2>4. tpc = "publish" => ttemp = Plus(data[t], words[t])
    BY <1>8, <2>1 DEF Chain
  <2>5. CASE tpc = "publish"
    <3>1. Waiting(0) + Waiting(1) = words[t] + 0
      BY <1>7, <2>2, <2>5
    <3> QED
      BY <1>2, <2>3, <2>4, <2>5, <3>1
  <2>6. CASE tpc # "publish"
    <3>1. Waiting(0) + Waiting(1) = 0
      BY <1>7, <2>2, <2>6
    <3> QED
      BY <1>2, <2>3, <2>6, <3>1, PlusFacts
  <2> QED
    BY <2>5, <2>6
<1> QED
  BY <1>2, <1>9, <1>11, <1>12, <1>13

(* While main validates, the next word that the thread writes is the next  *)
(* one main expects plus the words that wait in the buffers.               *)
THEOREM WordsNotLost == Spec => []NoWordLost
  BY WordsInvariance, WordsAccounted, PTL

=============================================================================
