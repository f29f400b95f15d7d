------------------------------ MODULE DataCopy ------------------------------
(***************************************************************************)
(* amp_sim_data_copy and smp_data_copy: a performance thread fills two     *)
(* ping pong buffers with incrementing words, main consumes them, and four *)
(* locks hand the buffers over.  The holder of a buffer takes the buffer's *)
(* sync lock before it lets the buffer go, and keeps it until it has the   *)
(* other buffer: that is what forbids a thread to come round and take the  *)
(* same buffer again.                                                      *)
(*                                                                         *)
(* An action is the code between two lock operations, or a part of it.     *)
(* The steps that are inside a buffer are atomic here: BufferExclusion     *)
(* says that nobody else is inside at that time.  A buffer's memory is the *)
(* first word of the run that was last written to it; its length is the    *)
(* response.  Words count modulo WordMod, 2^32 in the code.                *)
(*                                                                         *)
(* The only difference between the two programs that matters here is the   *)
(* flush ioctl of the amp_sim one, which may fail (FlushMayFail).          *)
(***************************************************************************)
EXTENDS Integers

CONSTANTS
  WordMod,       \* number of values of a uint32_t
  MaxWords,      \* MALLOC_WORDS
  MinLoops,      \* buffer pairs that any request size is sure to be run for
  FlushMayFail   \* the flush ioctl can report an error

ASSUME DataCopyAssumption ==
  /\ WordMod \in Nat /\ MaxWords \in Nat /\ MinLoops \in Nat
  /\ 0 < MaxWords /\ MaxWords < WordMod
  /\ MinLoops > 0
  /\ FlushMayFail \in BOOLEAN

\* The memcpy pass ends with whole buffers: MALLOC_WORDS is a power of two,
\* so that it is one of the request sizes 1, 2, 4, ..., and ten seconds are
\* enough for two pairs of buffers.
ASSUME ValidateAssumption ==
  /\ MinLoops >= 2
  /\ \E sizes \in SUBSET (1..MaxWords) :
       1 \in sizes /\ \A s \in sizes : s = MaxWords \/ 2 * s \in sizes

Buf  == 0..1
Word == 0..(WordMod - 1)

VARIABLES
  bufLock,       \* bufLock[b]: g_spinlock_buffer_<b> is taken
  syncLock,      \* syncLock[b]: g_spinlock_buffer_<b>_sync is taken
  runLock,       \* g_spinlock_thread_running is taken
  g_thread_running,
  request,       \* g_buffer_<b>.request: words asked for
  response,      \* g_buffer_<b>.response: words delivered
  sequence,      \* g_buffer_<b>.sequence
  data,          \* *g_buffer_<b>.ptr: the first word of the buffer
  tpc, tbuf,     \* the thread: its place, the buffer it is at
  ttemp, tseq,   \* the thread's temp and sequence
  mpc, mbuf,     \* main: its place, the buffer it is at
  saw_running,   \* main's thread_running
  pass,          \* which of its three tests main is in
  current_request,
  loops,         \* main's loop_count, saturating at MinLoops
  mtemp,         \* main's temp: the word the validate pass expects next
  copy_last,     \* copy_buffer[MALLOC_WORDS - 1]
  full           \* history: full[b], filled by the thread, not yet re-armed

locks == <<bufLock, syncLock, runLock>>
buffers == <<request, response, sequence, data>>
test == <<pass, current_request, loops>>
thread == <<tpc, tbuf, ttemp, tseq>>
main == <<mpc, mbuf, saw_running, test, mtemp, copy_last>>
vars == <<locks, g_thread_running, buffers, thread, main, full>>

Passes == {"no_work", "memcpy", "validate"}
Starting == {"lock_running", "poll", "unlock_running"}
Exited == {"done", "error", "error_inside", "mismatch"}

TypeOK ==
  /\ bufLock \in [Buf -> BOOLEAN] /\ syncLock \in [Buf -> BOOLEAN]
  /\ runLock \in BOOLEAN
  /\ g_thread_running \in 0..1 /\ saw_running \in 0..1
  /\ request \in [Buf -> 0..MaxWords] /\ response \in [Buf -> 0..MaxWords]
  /\ sequence \in [Buf -> Word] /\ data \in [Buf -> Word]
  /\ tpc \in {"start", "lock_running", "set_running", "unlock_running",
              "fill", "publish", "lock_sync", "unlock_buf", "lock_next",
              "unlock_sync", "failed", "failed_start"}
  /\ mpc \in Starting \cup Exited \cup
             {"lock_next", "unlock_sync", "consume", "rearm", "lock_sync",
              "unlock_buf", "loop_test"}
  /\ tbuf \in Buf /\ mbuf \in Buf
  /\ ttemp \in Word /\ tseq \in Word /\ mtemp \in Word /\ copy_last \in Word
  /\ pass \in Passes /\ current_request \in 0..MaxWords /\ loops \in 0..MinLoops
  /\ full \in [Buf -> BOOLEAN]

(* main up to and including pthread_create(): it has taken buffer 1's sync *)
(* lock, as if it had just let buffer 1 go.  copy_buffer is not cleared.   *)
Init ==
  /\ bufLock = [b \in Buf |-> FALSE]
  /\ syncLock = [b \in Buf |-> b = 1]
  /\ runLock = FALSE
  /\ g_thread_running = 0
  /\ request = [b \in Buf |-> 0] /\ response = [b \in Buf |-> 0]
  /\ sequence = [b \in Buf |-> 0] /\ data = [b \in Buf |-> 0]
  /\ tpc = "start" /\ tbuf = 0 /\ ttemp = 0 /\ tseq = 0
  /\ mpc = "lock_running" /\ mbuf = 1 /\ saw_running = 0
  /\ pass = "no_work" /\ current_request = 0 /\ loops = 0
  /\ mtemp = 0
  /\ copy_last \in Word
  /\ full = [b \in Buf |-> FALSE]

(* A flush returns 0, or fails where that is possible. *)
FlushResults == IF FlushMayFail THEN {"ok", "failed"} ELSE {"ok"}

Take(lock, b) == ~lock[b] /\ lock' = [lock EXCEPT ![b] = TRUE]
Drop(lock, b) == lock' = [lock EXCEPT ![b] = FALSE]

-----------------------------------------------------------------------------
(* The performance thread.  It runs until main leaves and the process ends.*)
ThreadAt(place) == tpc = place /\ mpc \notin Exited

(* Plausible mistakes, one before the action each is a variant of, show    *)
(* that the properties notice them; no action of Next uses them.           *)

\* the first spin_lock( g_spinlock_buffer_0 ) is missing
ThreadStartsUnlocked ==
  /\ ThreadAt("start")
  /\ tpc' = "lock_running"
  /\ UNCHANGED <<locks, g_thread_running, buffers, tbuf, ttemp, tseq, main,
                 full>>

ThreadLocksFirst ==
  /\ ThreadAt("start")
  /\ Take(bufLock, 0)
  /\ tpc' = "lock_running"
  /\ UNCHANGED <<syncLock, runLock, g_thread_running, buffers, tbuf, ttemp,
                 tseq, main, full>>

ThreadLocksRunning ==
  /\ ThreadAt("lock_running")
  /\ ~runLock
  /\ runLock' = TRUE
  /\ tpc' = "set_running"
  /\ UNCHANGED <<bufLock, syncLock, g_thread_running, buffers, tbuf, ttemp,
                 tseq, main, full>>

(* A failed flush ends the thread with both locks still taken. *)
ThreadSetsRunning ==
  /\ ThreadAt("set_running")
  /\ g_thread_running' = 1
  /\ \E r \in FlushResults :
       tpc' = IF r = "ok" THEN "unlock_running" ELSE "failed_start"
  /\ UNCHANGED <<locks, buffers, tbuf, ttemp, tseq, main, full>>

ThreadUnlocksRunning ==
  /\ ThreadAt("unlock_running")
  /\ runLock' = FALSE
  /\ tpc' = "fill"
  /\ UNCHANGED <<bufLock, syncLock, g_thread_running, buffers, tbuf, ttemp,
                 tseq, main, full>>

\* temp is not carried on to the next buffer
ThreadRefills ==
  /\ ThreadAt("fill")
  /\ data' = [data EXCEPT ![tbuf] = ttemp]
  /\ tpc' = "publish"
  /\ UNCHANGED <<locks, g_thread_running, request, response, sequence, tbuf,
                 ttemp, tseq, main, full>>

(* while(request > 0) { *buffer_ptr++ = temp++; request--; } *)
ThreadFills ==
  /\ ThreadAt("fill")
  /\ data' = [data EXCEPT ![tbuf] = ttemp]
  /\ ttemp' = (ttemp + request[tbuf]) % WordMod
  /\ tpc' = "publish"
  /\ UNCHANGED <<locks, g_thread_running, request, response, sequence, tbuf,
                 tseq, main, full>>

(* response and sequence are set and the buffer is flushed; a failed flush *)
(* ends the thread with the buffer's lock still taken.                     *)
ThreadPublishes ==
  /\ ThreadAt("publish")
  /\ tseq' = (tseq + 1) % WordMod
  /\ response' = [response EXCEPT ![tbuf] = request[tbuf]]
  /\ sequence' = [sequence EXCEPT ![tbuf] = (tseq + 1) % WordMod]
  /\ \E r \in FlushResults :
       tpc' = IF r = "ok" THEN "lock_sync" ELSE "failed"
  /\ full' = [full EXCEPT ![tbuf] = TRUE]
  /\ UNCHANGED <<locks, g_thread_running, request, data, tbuf, ttemp, main>>

\* the sync lock is not taken before the buffer is let go
ThreadSkipsSync ==
  /\ ThreadAt("lock_sync")
  /\ tpc' = "unlock_buf"
  /\ UNCHANGED <<locks, g_thread_running, buffers, tbuf, ttemp, tseq, main,
                 full>>

ThreadLocksSync ==
  /\ ThreadAt("lock_sync")
  /\ Take(syncLock, tbuf)
  /\ tpc' = "unlock_buf"
  /\ UNCHANGED <<bufLock, runLock, g_thread_running, buffers, tbuf, ttemp,
                 tseq, main, full>>

ThreadUnlocksBuffer ==
  /\ ThreadAt("unlock_buf")
  /\ Drop(bufLock, tbuf)
  /\ tpc' = "lock_next"
  /\ UNCHANGED <<syncLock, runLock, g_thread_running, buffers, tbuf, ttemp,
                 tseq, main, full>>

ThreadLocksNext ==
  /\ ThreadAt("lock_next")
  /\ Take(bufLock, 1 - tbuf)
  /\ tbuf' = 1 - tbuf
  /\ tpc' = "unlock_sync"
  /\ UNCHANGED <<syncLock, runLock, g_thread_running, buffers, ttemp, tseq,
                 main, full>>

\* the sync lock is not given back
ThreadKeepsSync ==
  /\ ThreadAt("unlock_sync")
  /\ tpc' = "fill"
  /\ UNCHANGED <<locks, g_thread_running, buffers, tbuf, ttemp, tseq, main,
                 full>>

ThreadUnlocksSync ==
  /\ ThreadAt("unlock_sync")
  /\ Drop(syncLock, 1 - tbuf)
  /\ tpc' = "fill"
  /\ UNCHANGED <<bufLock, runLock, g_thread_running, buffers, tbuf, ttemp,
                 tseq, main, full>>

-----------------------------------------------------------------------------
(* main waits until the thread says that it holds buffer 0. *)
MainLocksRunning ==
  /\ mpc = "lock_running"
  /\ ~runLock
  /\ runLock' = TRUE
  /\ mpc' = "poll"
  /\ UNCHANGED <<bufLock, syncLock, g_thread_running, buffers, thread, mbuf,
                 saw_running, test, mtemp, copy_last, full>>

MainPollsRunning ==
  /\ mpc = "poll"
  /\ saw_running' = g_thread_running
  /\ \E r \in FlushResults :
       mpc' = IF r = "ok" THEN "unlock_running" ELSE "error"
  /\ UNCHANGED <<locks, g_thread_running, buffers, thread, mbuf, test, mtemp,
                 copy_last, full>>

\* main does not wait for the thread to be running
MainPollsOnce ==
  /\ mpc = "unlock_running"
  /\ runLock' = FALSE
  /\ mpc' = "lock_next"
  /\ UNCHANGED <<bufLock, syncLock, g_thread_running, buffers, thread, mbuf,
                 saw_running, test, mtemp, copy_last, full>>

(* while( thread_running == 0 ) *)
MainUnlocksRunning ==
  /\ mpc = "unlock_running"
  /\ runLock' = FALSE
  /\ mpc' = IF saw_running = 0 THEN "lock_running" ELSE "lock_next"
  /\ UNCHANGED <<bufLock, syncLock, g_thread_running, buffers, thread, mbuf,
                 saw_running, test, mtemp, copy_last, full>>

MainLocksNext ==
  /\ mpc = "lock_next"
  /\ Take(bufLock, 1 - mbuf)
  /\ mbuf' = 1 - mbuf
  /\ mpc' = "unlock_sync"
  /\ UNCHANGED <<syncLock, runLock, g_thread_running, buffers, thread,
                 saw_running, test, mtemp, copy_last, full>>

MainUnlocksSync ==
  /\ mpc = "unlock_sync"
  /\ Drop(syncLock, 1 - mbuf)
  /\ mpc' = "consume"
  /\ UNCHANGED <<bufLock, runLock, g_thread_running, buffers, thread, mbuf,
                 saw_running, test, mtemp, copy_last, full>>

(* The first pass does not look at the data. *)
MainSkips ==
  /\ mpc = "consume" /\ pass = "no_work"
  /\ mpc' = "rearm"
  /\ UNCHANGED <<locks, g_thread_running, buffers, thread, mbuf, saw_running,
                 test, mtemp, copy_last, full>>

(* memcpy(copy_buffer, ptr, response * 4), then the data is flushed.  Only *)
(* a full buffer reaches the last word of copy_buffer.                     *)
MainCopies ==
  /\ mpc = "consume" /\ pass = "memcpy"
  /\ copy_last' = IF response[mbuf] = MaxWords
                    THEN (data[mbuf] + MaxWords - 1) % WordMod
                    ELSE copy_last
  /\ \E r \in FlushResults :
       mpc' = IF r = "ok" THEN "rearm" ELSE "error_inside"
  /\ UNCHANGED <<locks, g_thread_running, buffers, thread, mbuf, saw_running,
                 test, mtemp, full>>

(* Each word is compared with temp; the first that differs ends main. *)
MainValidates ==
  /\ mpc = "consume" /\ pass = "validate"
  /\ IF response[mbuf] = 0 \/ data[mbuf] = mtemp
       THEN /\ mtemp' = (mtemp + response[mbuf]) % WordMod
            /\ \E r \in FlushResults :
                 mpc' = IF r = "ok" THEN "rearm" ELSE "error_inside"
       ELSE /\ mpc' = "mismatch"
            /\ UNCHANGED mtemp
  /\ UNCHANGED <<locks, g_thread_running, buffers, thread, mbuf, saw_running,
                 test, copy_last, full>>

MainRearms ==
  /\ mpc = "rearm"
  /\ request' = [request EXCEPT ![mbuf] = current_request]
  /\ response' = [response EXCEPT ![mbuf] = 0]
  /\ sequence' = [sequence EXCEPT ![mbuf] = 0]
  /\ full' = [full EXCEPT ![mbuf] = FALSE]
  /\ \E r \in FlushResults : mpc' = IF r = "ok" THEN "lock_sync" ELSE "error"
  /\ UNCHANGED <<locks, g_thread_running, data, thread, mbuf, saw_running,
                 test, mtemp, copy_last>>

MainLocksSync ==
  /\ mpc = "lock_sync"
  /\ Take(syncLock, mbuf)
  /\ mpc' = "unlock_buf"
  /\ UNCHANGED <<bufLock, runLock, g_thread_running, buffers, thread, mbuf,
                 saw_running, test, mtemp, copy_last, full>>

(* After buffer 1 the timer is read, with buffer 1's sync lock still held. *)
MainUnlocksBuffer ==
  /\ mpc = "unlock_buf"
  /\ Drop(bufLock, mbuf)
  /\ mpc' = IF mbuf = 1 THEN "loop_test" ELSE "lock_next"
  /\ UNCHANGED <<syncLock, runLock, g_thread_running, buffers, thread, mbuf,
                 saw_running, test, mtemp, copy_last, full>>

(* loop_count++ ; the ten seconds have not expired. *)
MainLoopsAgain ==
  /\ mpc = "loop_test"
  /\ loops' = IF loops < MinLoops THEN loops + 1 ELSE loops
  /\ mpc' = "lock_next"
  /\ UNCHANGED <<locks, g_thread_running, buffers, thread, mbuf, saw_running,
                 pass, current_request, mtemp, copy_last, full>>

NextSize == IF current_request = 0 THEN 1 ELSE 2 * current_request

TimeExpired == mpc = "loop_test" /\ loops + 1 >= MinLoops

(* The ten seconds have expired and there is a larger request to run. *)
MainNextSize ==
  /\ TimeExpired
  /\ NextSize <= MaxWords
  /\ current_request' = NextSize /\ loops' = 0
  /\ mpc' = "lock_next"
  /\ UNCHANGED <<locks, g_thread_running, buffers, thread, mbuf, saw_running,
                 pass, mtemp, copy_last, full>>

\* temp++ is missing after temp = copy_buffer[MALLOC_WORDS - 1]
MainNextPassNoIncrement ==
  /\ TimeExpired
  /\ NextSize > MaxWords
  /\ IF pass = "validate"
       THEN mpc' = "done" /\ UNCHANGED <<test, mtemp>>
       ELSE /\ mpc' = "lock_next"
            /\ pass' = IF pass = "no_work" THEN "memcpy" ELSE "validate"
            /\ current_request' = 0 /\ loops' = 0
            /\ mtemp' = IF pass = "memcpy" THEN copy_last ELSE mtemp
  /\ UNCHANGED <<locks, g_thread_running, buffers, thread, mbuf, saw_running,
                 copy_last, full>>

(* The pass is over; the validate pass starts from the word that follows   *)
(* the last word of copy_buffer, and main returns after it.                *)
MainNextPass ==
  /\ TimeExpired
  /\ NextSize > MaxWords
  /\ IF pass = "validate"
       THEN mpc' = "done" /\ UNCHANGED <<test, mtemp>>
       ELSE /\ mpc' = "lock_next"
            /\ pass' = IF pass = "no_work" THEN "memcpy" ELSE "validate"
            /\ current_request' = 0 /\ loops' = 0
            /\ mtemp' = IF pass = "memcpy"
                          THEN (copy_last + 1) % WordMod ELSE mtemp
  /\ UNCHANGED <<locks, g_thread_running, buffers, thread, mbuf, saw_running,
                 copy_last, full>>

-----------------------------------------------------------------------------
(* The process has ended, or the thread has ended early.  TLC reports any  *)
(* other state without a successor as a deadlock.                          *)
Ended == (mpc \in Exited \/ tpc \in {"failed", "failed_start"})
         /\ UNCHANGED vars

Thread == \/ ThreadLocksFirst \/ ThreadLocksRunning \/ ThreadSetsRunning
          \/ ThreadUnlocksRunning \/ ThreadFills \/ ThreadPublishes
          \/ ThreadLocksSync \/ ThreadUnlocksBuffer \/ ThreadLocksNext
          \/ ThreadUnlocksSync

MainHandsOver == \/ MainLocksRunning \/ MainPollsRunning \/ MainUnlocksRunning
                 \/ MainLocksNext \/ MainUnlocksSync \/ MainLocksSync
                 \/ MainUnlocksBuffer

MainWorks == MainSkips \/ MainCopies \/ MainValidates \/ MainRearms

MainTimes == MainLoopsAgain \/ MainNextSize \/ MainNextPass

Main == MainHandsOver \/ MainWorks \/ MainTimes

Next == Thread \/ Main \/ Ended

(* Both threads run.  The thread's first lock of "running" competes with   *)
(* main's polling loop, which takes that lock again and again: only a      *)
(* strongly fair lock lets the thread in.  No other lock needs more than   *)
(* weak fairness.  The ten seconds of a request size do expire.            *)
Fairness == /\ WF_vars(Thread) /\ WF_vars(Main)
            /\ SF_vars(ThreadLocksRunning)
            /\ SF_vars(MainNextSize) /\ SF_vars(MainNextPass)

Spec == Init /\ [][Next]_vars

FairSpec == Spec /\ Fairness

-----------------------------------------------------------------------------
(* Where a thread is inside a buffer. *)
ThreadInside(b) == tbuf = b /\ tpc \in {"fill", "publish", "failed"}
MainInside(b) == mbuf = b /\ mpc \in {"consume", "rearm"}

(* The two threads are never inside the same buffer, not even when the     *)
(* thread has ended half way because a flush failed.                       *)
BufferExclusion == \A b \in Buf : ~(ThreadInside(b) /\ MainInside(b))

(* The thread only writes a buffer that main has re-armed since it was     *)
(* last filled, and main only consumes a buffer filled since it last       *)
(* re-armed it: no buffer is lost and none is seen twice.                  *)
NoBufferLost == \A b \in Buf : tbuf = b /\ tpc \in {"fill", "publish"} => ~full[b]
NoBufferTwice == \A b \in Buf : MainInside(b) => full[b]

(* main never sees a word out of sequence, although the validate pass      *)
(* starts from what the memcpy pass happened to leave in copy_buffer.      *)
ValidateNeverFails == mpc # "mismatch"

(* While main validates no word is lost: what the thread writes next is    *)
(* what main expects next plus the words that wait in filled buffers.      *)
Consumed(b) == mbuf = b /\ mpc \in {"rearm", "error_inside"}
Waiting(b) == IF full[b] /\ ~Consumed(b) THEN response[b]
              ELSE IF tbuf = b /\ tpc = "publish" THEN request[b]
              ELSE 0
NoWordLost ==
  pass = "validate" =>
    ttemp = (mtemp + Waiting(0) + Waiting(1)) % WordMod

(* Which locks a thread holds follows from where it is. *)
ThreadHolds(b) == tbuf = b /\ tpc \notin {"start", "lock_next"}
MainHolds(b) ==
  mbuf = b /\ mpc \in {"unlock_sync", "consume", "rearm", "lock_sync",
                       "unlock_buf"}
ThreadHoldsSync(b) == \/ tbuf = b /\ tpc \in {"unlock_buf", "lock_next"}
                      \/ tbuf = 1 - b /\ tpc = "unlock_sync"
MainHoldsSync(b) ==
  \/ mbuf = b /\ mpc \in Starting \cup {"unlock_buf", "loop_test", "lock_next"}
  \/ mbuf = 1 - b /\ mpc = "unlock_sync"

LocksHeld ==
  \A b \in Buf :
    /\ bufLock[b] <=> ThreadHolds(b) \/ MainHolds(b)
    /\ syncLock[b] <=> ThreadHoldsSync(b) \/ MainHoldsSync(b)
    /\ ~(ThreadHolds(b) /\ MainHolds(b))
    /\ ~(ThreadHoldsSync(b) /\ MainHoldsSync(b))

(* Before main leaves its polling loop the thread has taken buffer 0. *)
ThreadStarting == {"start", "lock_running", "set_running", "unlock_running",
                   "failed_start"}
StartsInOrder ==
  /\ g_thread_running = 1 => tpc \notin {"start", "lock_running", "set_running"}
  /\ saw_running = 1 => g_thread_running = 1
  /\ mpc \notin Starting => g_thread_running = 1
  /\ mpc \in Starting => mbuf = 1
  /\ tpc \in ThreadStarting => tbuf = 0

(* Which buffers are filled follows from where the two threads are: a      *)
(* buffer that a thread left behind is as that thread left it until the    *)
(* other thread has been there.                                            *)
FullAsLeft ==
  /\ tpc \in ThreadStarting \cup {"unlock_sync", "fill", "publish"}
       => ~full[tbuf]
  /\ tpc \in {"lock_sync", "unlock_buf", "failed"} => full[tbuf]
  /\ mpc \in {"unlock_sync", "consume", "rearm"} => full[mbuf]
  /\ mpc \in {"lock_sync", "unlock_buf"} => ~full[mbuf]
  /\ tpc = "lock_next" /\ ~MainHolds(tbuf) => full[tbuf]
  /\ ~MainHolds(mbuf) /\ ~ThreadHolds(mbuf) => ~full[mbuf]
  /\ MainHolds(mbuf) /\ tbuf = mbuf => ~full[1 - mbuf]
  /\ ThreadHolds(tbuf) /\ mbuf = tbuf => full[1 - tbuf]

(* The inductive invariant; once main has left nothing moves any more. *)
HandoverInv ==
  /\ TypeOK
  /\ NoBufferLost
  /\ mpc = "error_inside" => full[mbuf]
  /\ mpc \notin Exited => LocksHeld /\ StartsInOrder /\ FullAsLeft

(* The exchange promised by BufferExchange is what the locks implement.    *)
words == [b \in Buf |-> IF full[b] THEN response[b]
                                   ELSE request[b]]
toFill == IF tpc \in {"lock_sync", "unlock_buf", "lock_next", "failed"}
            THEN 1 - tbuf ELSE tbuf
toTake == IF mpc \in {"unlock_sync", "consume", "rearm", "error_inside",
                      "mismatch"}
            THEN mbuf ELSE 1 - mbuf

Exchange == INSTANCE BufferExchange WITH Sizes <- 0..MaxWords

ImplementsExchange == Exchange!Spec

(* A failed flush has ended the thread with a lock taken that main spins   *)
(* for.                                                                    *)
MainSpins ==
  \/ tpc = "failed_start" /\ mpc = "lock_running" /\ runLock
  \/ tpc = "failed" /\ mpc = "lock_next" /\ mbuf = 1 - tbuf /\ bufLock[tbuf]

(* The program ends: main gets through its three passes, reports an error, *)
(* or finds a word out of sequence.  The one other outcome is that a flush *)
(* of the thread has failed: unless main has an error of its own after     *)
(* that, it spins for ever for the lock that the thread has kept.          *)
Ends == <>(mpc \in Exited) \/ <>[]MainSpins
=============================================================================
