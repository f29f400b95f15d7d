---------------------------- MODULE StatsHandoff ----------------------------
(***************************************************************************)
(* How the jitter and data mover programs hand statistics from a time      *)
(* critical performance thread to main (data_mover_app, max_jitter,        *)
(* max_irq_jitter_app).  The thread must never block: it keeps one of two  *)
(* statistics buffers locked, and after each round of measurements it      *)
(* tries to lock the other one.  If main has that one it stays where it    *)
(* is and overwrites its own round.  Main takes the two buffers in turn    *)
(* and counts the rounds that it sees to be missing from the sequence      *)
(* numbers.  In the end main evaluates what it has saved in two files, and *)
(* deletes them.  The process may be killed at any time and run again: the *)
(* files stay, and are opened again without being truncated.               *)
(*                                                                         *)
(* data_mover_app runs several tests in a row, each with a new thread, and *)
(* leaves the buffers of the last test as they are.  max_irq_jitter_app's  *)
(* thread opens and reads a device and returns when that fails, with its   *)
(* mutex locked when a read does.  The model has the behaviours of all     *)
(* three programs: any of them may stop where one of them does.            *)
(*                                                                         *)
(* Sequence numbers stop at MaxSeq here, a bound of the model that the     *)
(* program's 32 bits do not reach; the properties that compare them are    *)
(* about the numbers below it.                                             *)
(***************************************************************************)
EXTENDS Integers, Sequences

CONSTANTS
  Tests,          \* bound on the tests that are started, in all processes
  Saves,          \* NUMBER_OF_LOOPS_TO_SAVE
  MaxSeq          \* bound on the sequence numbers

ASSUME StatsAssumption ==
  Tests \in Nat \ {0} /\ Saves \in Nat \ {0} /\ MaxSeq \in Nat \ {0}

Buf == 0..1
NoSeq == -1       \* 0xFFFFFFFF
Number == 0..MaxSeq
Round == [test : 0..Tests, seq : Number]
NoRound == [test |-> 0, seq |-> 0]
Torn == [test |-> 0, seq |-> NoSeq]    \* a record that is not complete

VARIABLES
  mutex,        \* mutex[b], g_mutex_<b>: "free", "thread" or "main"
  sequence,     \* g_perf_stat_sequence_<b>
  ready, done,  \* first and last part of the statistics in buffer b: the
                \* round that they are from
  control,      \* main has g_mutex_control; the thread's use of it is one step
  keep_running, \* g_perf_keep_running
  tpc,
  tbuf,         \* the thread's stat_buffer_to_use
  tseq,         \* its stat_sequence_number
  mpc,
  mbuf,         \* main's stat_buffer_to_use
  test,         \* the number of the test that main is running
  first,        \* it is the first one of this process
  current,      \* current_stat_sequence
  dropped,      \* dropped_stats
  loops,        \* this_loop_count
  buffer_ready, processing_done,  \* the records in the two files
  samples       \* total_samples_processed, in records

stats == <<sequence, ready, done>>
thread == <<tpc, tbuf, tseq>>
files == <<buffer_ready, processing_done>>
main == <<mpc, mbuf, test, first, current, dropped, loops, samples, files>>
vars == <<mutex, stats, control, keep_running, thread, main>>

Nobody == "free"

TypeOK ==
  /\ mutex \in [Buf -> {"free", "thread", "main"}]
  /\ sequence \in [Buf -> Number \cup {NoSeq}]
  /\ ready \in [Buf -> Round] /\ done \in [Buf -> Round]
  /\ control \in BOOLEAN /\ keep_running \in 0..1
  /\ tpc \in {"off", "lock", "first", "last", "swap", "let_go", "control",
              "release", "failed"}
  /\ mpc \in {"start", "poll_lock", "poll", "lock", "save", "save_done",
              "unlock", "control_unlock", "join", "evaluate", "unlink",
              "unlink_done", "end", "error"}
  /\ tbuf \in Buf /\ mbuf \in Buf
  /\ tseq \in Number /\ current \in Number \cup {NoSeq}
  /\ test \in 1..Tests /\ dropped \in 0..Saves /\ loops \in 0..Saves
  /\ first \in BOOLEAN /\ samples \in 0..Saves
  /\ buffer_ready \in Seq(Round \cup {Torn})
  /\ processing_done \in Seq(Round \cup {Torn})

Init ==
  /\ mutex = [b \in Buf |-> Nobody]
  /\ sequence = [b \in Buf |-> 0]
  /\ ready = [b \in Buf |-> NoRound] /\ done = [b \in Buf |-> NoRound]
  /\ control = FALSE /\ keep_running = 0
  /\ tpc = "off" /\ tbuf = 0 /\ tseq = 0
  /\ mpc = "start" /\ mbuf = 0
  /\ test = 1 /\ first = TRUE /\ current = 0 /\ dropped = 0 /\ loops = 0
  /\ buffer_ready = <<>> /\ processing_done = <<>> /\ samples = 0

Lock(who, b) == mutex[b] = Nobody /\ mutex' = [mutex EXCEPT ![b] = who]
Unlock(b) == mutex' = [mutex EXCEPT ![b] = Nobody]

-----------------------------------------------------------------------------
(* The performance thread. *)
ThreadAt(place) == tpc = place /\ mpc \notin {"end", "error"}

(* Plausible mistakes come before the action each is a variant of. *)

ThreadStarts ==
  /\ ThreadAt("lock")
  /\ Lock("thread", 0)
  /\ sequence' = [sequence EXCEPT ![0] = 0]
  /\ tpc' = "first"
  /\ UNCHANGED <<ready, done, control, keep_running, tbuf, tseq, main>>

(* A round writes the whole of the statistics, here in two parts. *)
ThisRound == [test |-> test, seq |-> tseq]

ThreadMeasuresFirst ==
  /\ ThreadAt("first")
  /\ ready' = [ready EXCEPT ![tbuf] = ThisRound]
  /\ tpc' = "last"
  /\ UNCHANGED <<mutex, sequence, done, control, keep_running, tbuf, tseq, main>>

ThreadMeasuresLast ==
  /\ ThreadAt("last")
  /\ done' = [done EXCEPT ![tbuf] = ThisRound]
  /\ tpc' = "swap"
  /\ UNCHANGED <<mutex, sequence, ready, control, keep_running, tbuf, tseq, main>>

(* The device could not be opened: the thread returns before its first     *)
(* lock.  Only max_irq_jitter_app has a device, and it runs a single test. *)
ThreadFailsToOpen ==
  /\ ThreadAt("lock") /\ first
  /\ tpc' = "failed"
  /\ UNCHANGED <<mutex, stats, control, keep_running, tbuf, tseq, main>>

(* The device could not be read: the thread returns, its mutex locked. *)
ThreadFails ==
  /\ ThreadAt("first") /\ first
  /\ tpc' = "failed"
  /\ UNCHANGED <<mutex, stats, control, keep_running, tbuf, tseq, main>>

NextSeq == IF tseq < MaxSeq THEN tseq + 1 ELSE MaxSeq

(* pthread_mutex_trylock() of the other buffer succeeds ... *)
ThreadSwaps ==
  /\ ThreadAt("swap")
  /\ Lock("thread", 1 - tbuf)
  /\ tseq' = NextSeq
  /\ tpc' = "let_go"
  /\ UNCHANGED <<stats, control, keep_running, tbuf, main>>

\* the mutex of the buffer that is left is not released
ThreadKeepsBoth ==
  /\ ThreadAt("let_go")
  /\ tbuf' = 1 - tbuf
  /\ sequence' = [sequence EXCEPT ![1 - tbuf] = tseq]
  /\ tpc' = "control"
  /\ UNCHANGED <<mutex, ready, done, control, keep_running, tseq, main>>

ThreadLetsGo ==
  /\ ThreadAt("let_go")
  /\ Unlock(tbuf)
  /\ tbuf' = 1 - tbuf
  /\ sequence' = [sequence EXCEPT ![1 - tbuf] = tseq]
  /\ tpc' = "control"
  /\ UNCHANGED <<ready, done, control, keep_running, tseq, main>>

(* ... or main has it and the thread stays with the buffer it has. *)
ThreadStays ==
  /\ ThreadAt("swap")
  /\ mutex[1 - tbuf] # Nobody
  /\ tseq' = NextSeq
  /\ sequence' = [sequence EXCEPT ![tbuf] = NextSeq]
  /\ tpc' = "control"
  /\ UNCHANGED <<mutex, ready, done, control, keep_running, tbuf, main>>

(* perf_keep_running is only read if g_mutex_control is free. *)
ThreadReadsControl ==
  /\ ThreadAt("control")
  /\ tpc' = IF ~control /\ keep_running = 0 THEN "release" ELSE "first"
  /\ UNCHANGED <<mutex, stats, control, keep_running, tbuf, tseq, main>>

ThreadReleases ==
  /\ ThreadAt("release")
  /\ Unlock(tbuf)
  /\ tpc' = "off"
  /\ UNCHANGED <<stats, control, keep_running, tbuf, tseq, main>>

-----------------------------------------------------------------------------
Results == {"ok", "failed"}

\* g_perf_stat_sequence_0 still has the number of the last test
MainStartsStale ==
  /\ mpc = "start"
  /\ keep_running' = 1
  /\ tpc' = "lock" /\ tbuf' = 0 /\ tseq' = 0
  /\ mpc' = "poll_lock"
  /\ mbuf' = 0 /\ dropped' = 0 /\ loops' = 0
  /\ UNCHANGED <<mutex, stats, control, test, first, current, samples, files>>

(* The files are opened, the globals are set and the thread is created.    *)
MainStarts ==
  /\ mpc = "start"
  /\ sequence' = [sequence EXCEPT ![0] = NoSeq]
  /\ keep_running' = 1
  /\ tpc' = "lock" /\ tbuf' = 0 /\ tseq' = 0
  /\ mpc' = "poll_lock"
  /\ mbuf' = 0 /\ dropped' = 0 /\ loops' = 0
  /\ UNCHANGED <<mutex, ready, done, control, test, first, current, samples,
                 files>>

(* A file cannot be opened, for writing or, later, for reading. *)
MainFailsToOpen ==
  /\ mpc \in {"start", "evaluate"}
  /\ mpc' = "error"
  /\ UNCHANGED <<mutex, stats, control, keep_running, thread, mbuf, test, first,
                 current, dropped, loops, samples, files>>

MainLocksToPoll ==
  /\ mpc = "poll_lock"
  /\ Lock("main", 0)
  /\ mpc' = "poll"
  /\ UNCHANGED <<stats, control, keep_running, thread, mbuf, test, first,
                 current, dropped, loops, samples, files>>

(* Main waits for the thread to have put a number into buffer 0.  Only     *)
(* data_mover_app keeps that number; the others run a single test and      *)
(* start from current_stat_sequence 0.                                     *)
MainPolls ==
  /\ mpc = "poll"
  /\ current' \in {sequence[0]} \cup (IF first THEN {current} ELSE {})
  /\ Unlock(0)
  /\ mpc' = IF sequence[0] = NoSeq THEN "poll_lock" ELSE "lock"
  /\ UNCHANGED <<stats, control, keep_running, thread, mbuf, test, first,
                 dropped, loops, samples, files>>

\* the buffer is read without its mutex
MainReadsUnlocked ==
  /\ mpc = "lock"
  /\ loops < Saves
  /\ loops' = loops + 1
  /\ mpc' = "save"
  /\ UNCHANGED <<mutex, stats, control, keep_running, thread, mbuf, test, first,
                 current, dropped, samples, files>>

MainLocks ==
  /\ mpc = "lock"
  /\ loops < Saves
  /\ Lock("main", mbuf)
  /\ loops' = loops + 1
  /\ mpc' = "save"
  /\ UNCHANGED <<stats, control, keep_running, thread, mbuf, test, first,
                 current, dropped, samples, files>>

\* the files are opened with O_APPEND
WrittenAtEnd(file, record) == Append(file, record)

(* A file with the record of this loop: written over an older one, if the  *)
(* file has been there before.                                             *)
Written(file, record) ==
  IF loops <= Len(file) THEN [file EXCEPT ![loops] = record]
                        ELSE Append(file, record)

(* Sequence numbers are compared, and the first file is written. *)
MainSaves ==
  /\ mpc = "save"
  /\ current' = sequence[mbuf]
  /\ dropped' = IF sequence[mbuf] # 0 /\ current + 1 # sequence[mbuf]
                  THEN dropped + 1 ELSE dropped
  /\ \E r \in Results :
       /\ buffer_ready' = Written(buffer_ready,
                                  IF r = "ok" THEN ready[mbuf] ELSE Torn)
       /\ mpc' = IF r = "ok" THEN "save_done" ELSE "error"
  /\ UNCHANGED <<mutex, stats, control, keep_running, thread, mbuf, test, first,
                 loops, samples, processing_done>>

(* The second file is written. *)
MainSavesDone ==
  /\ mpc = "save_done"
  /\ \E r \in Results :
       /\ processing_done' = Written(processing_done,
                                     IF r = "ok" THEN done[mbuf] ELSE Torn)
       /\ mpc' = IF r = "ok" THEN "unlock" ELSE "error"
  /\ UNCHANGED <<mutex, stats, control, keep_running, thread, mbuf, test, first,
                 current, dropped, loops, samples, buffer_ready>>

\* main does not take turns
MainStaysAtBuffer ==
  /\ mpc = "unlock"
  /\ Unlock(mbuf)
  /\ mpc' = "lock"
  /\ UNCHANGED <<stats, control, keep_running, thread, mbuf, test, first,
                 current, dropped, loops, samples, files>>

MainUnlocks ==
  /\ mpc = "unlock"
  /\ Unlock(mbuf)
  /\ mbuf' = 1 - mbuf
  /\ mpc' = "lock"
  /\ UNCHANGED <<stats, control, keep_running, thread, test, first, current,
                 dropped, loops, samples, files>>

MainLocksControl ==
  /\ mpc = "lock" /\ loops = Saves
  /\ ~control
  /\ control' = TRUE
  /\ mpc' = "control_unlock"
  /\ UNCHANGED <<mutex, stats, keep_running, thread, mbuf, test, first, current,
                 dropped, loops, samples, files>>

MainStopsThread ==
  /\ mpc = "control_unlock"
  /\ keep_running' = 0
  /\ control' = FALSE
  /\ mpc' = "join"
  /\ UNCHANGED <<mutex, stats, thread, mbuf, test, first, current, dropped,
                 loops, samples, files>>

(* pthread_join(); the files are closed and opened again for reading. *)
MainJoins ==
  /\ mpc = "join"
  /\ tpc \in {"off", "failed"}
  /\ samples' = 0
  /\ mpc' = "evaluate"
  /\ UNCHANGED <<mutex, stats, control, keep_running, thread, mbuf, test, first,
                 current, dropped, loops, files>>

CanRead(file) == samples < Len(file) /\ file[samples + 1] # Torn

(* One record of each file, until one of them comes to its end. *)
MainEvaluates ==
  /\ mpc = "evaluate"
  /\ IF CanRead(buffer_ready) /\ CanRead(processing_done)
       THEN samples' = samples + 1 /\ UNCHANGED mpc
       ELSE mpc' = "unlink" /\ UNCHANGED samples
  /\ UNCHANGED <<mutex, stats, control, keep_running, thread, mbuf, test, first,
                 current, dropped, loops, files>>

(* A file that cannot be deleted is left, with a message. *)
MainUnlinks ==
  /\ mpc = "unlink"
  /\ buffer_ready' \in {<<>>, buffer_ready}
  /\ mpc' = "unlink_done"
  /\ UNCHANGED <<mutex, stats, control, keep_running, thread, mbuf, test, first,
                 current, dropped, loops, samples, processing_done>>

(* Then the next test, or the end, which a thread that has failed shows to *)
(* be that of a program with a single test.                                *)
MainUnlinksDone ==
  /\ mpc = "unlink_done"
  /\ processing_done' \in {<<>>, processing_done}
  /\ IF test < Tests /\ tpc # "failed"
       THEN test' = test + 1 /\ first' = FALSE /\ mpc' = "start"
       ELSE mpc' = "end" /\ UNCHANGED <<test, first>>
  /\ samples' = 0
  /\ UNCHANGED <<mutex, stats, control, keep_running, thread, mbuf, current,
                 dropped, loops, buffer_ready>>

-----------------------------------------------------------------------------
(* The process has ended, hangs, or is killed, and the program is run      *)
(* again: all but the files is new.                                        *)
Restart ==
  /\ test < Tests
  /\ mutex' = [b \in Buf |-> Nobody]
  /\ sequence' = [b \in Buf |-> 0]
  /\ ready' = [b \in Buf |-> NoRound] /\ done' = [b \in Buf |-> NoRound]
  /\ control' = FALSE /\ keep_running' = 0
  /\ tpc' = "off" /\ tbuf' = 0 /\ tseq' = 0
  /\ mpc' = "start" /\ mbuf' = 0
  /\ test' = test + 1 /\ first' = TRUE
  /\ current' = 0 /\ dropped' = 0 /\ loops' = 0 /\ samples' = 0
  /\ UNCHANGED files

(* The process has ended, or its thread has, with or without a mutex locked. *)
Ended == (mpc \in {"end", "error"} \/ tpc = "failed") /\ UNCHANGED vars

Thread == \/ ThreadStarts \/ ThreadMeasuresFirst \/ ThreadMeasuresLast
          \/ ThreadFailsToOpen \/ ThreadFails \/ ThreadSwaps \/ ThreadLetsGo
          \/ ThreadStays \/ ThreadReadsControl \/ ThreadReleases

Main == \/ MainStarts \/ MainFailsToOpen \/ MainLocksToPoll \/ MainPolls
        \/ MainLocks \/ MainSaves \/ MainSavesDone \/ MainUnlocks
        \/ MainLocksControl \/ MainStopsThread \/ MainJoins \/ MainEvaluates
        \/ MainUnlinks \/ MainUnlinksDone

Next == Thread \/ Main \/ Restart \/ Ended

(* Both threads run.  A mutex that main waits for is free for at least one *)
(* round at a time, time enough for a futex to wake main; the thread's     *)
(* first lock meets a main that polls the same mutex again and again.      *)
Fairness == /\ WF_vars(Thread) /\ WF_vars(Main)
            /\ SF_vars(ThreadStarts)
            /\ SF_vars(MainLocksToPoll) /\ SF_vars(MainLocks)

Spec == Init /\ [][Next]_vars

FairSpec == Spec /\ Fairness

-----------------------------------------------------------------------------
(* Main has read a buffer completely. *)
Saved == mpc = "unlock"

(* What main saves is one whole round of the present test, and the number  *)
(* that main has for it is that round's: the buffer was not being written, *)
(* and is not one that the last test has left.                             *)
RecordWhole ==
  /\ TypeOK
  /\ Saved => /\ buffer_ready[loops] = processing_done[loops]
              /\ processing_done[loops].test = test
              /\ processing_done[loops].seq = current

(* What main evaluates are the records that it has saved in this test, all *)
(* of them, and none that an earlier process or test has left in the files *)
(* when it was killed, failed, or could not delete one of them.            *)
EvaluatesThisTest ==
  /\ mpc = "evaluate" =>
       /\ buffer_ready = processing_done
       /\ Len(buffer_ready) = Saves
       /\ \A k \in 1..Saves : buffer_ready[k].test = test
  /\ mpc = "unlink" => samples = Saves

(* dropped_stats is zero exactly when nothing was lost, that is when main  *)
(* has saved rounds 0 to loops - 1; and it never counts more than was lost.*)
(* No word of the code says that the first buffer main reads cannot hold   *)
(* round 1, which the test "current_stat_sequence != 0" would miss.        *)
DropsCounted ==
  Saved /\ current < MaxSeq =>
    /\ dropped = 0 <=> current + 1 = loops
    /\ dropped <= current + 1 - loops

(* A round that is saved is later than the one saved before it.            *)
SavedInOrder ==
  [][MainSaves /\ current' < MaxSeq /\ loops > 1 => current' > current]_vars

(* The thread of max_irq_jitter_app has failed: main polls for a number    *)
(* that nobody writes, or waits for the mutex that the thread has kept.    *)
Hangs ==
  /\ tpc = "failed"
  /\ \/ mpc \in {"poll_lock", "poll"}
     \/ mpc = "lock" /\ loops < Saves /\ mutex[mbuf] = "thread"

(* Every test comes to its end, or the process gives up with an error; but *)
(* after a thread that has failed main may wait for ever, in one of these  *)
(* two places and in no other.                                             *)
Finishes == <>(mpc \in {"end", "error"}) \/ <>[]Hangs
=============================================================================
