------------------------- MODULE StatsHandoffProof -------------------------
(***************************************************************************)
(* Proofs about the hand-off of statistics from the performance thread to  *)
(* main, for any number of tests and of records that are saved in a test.  *)
(* The thread goes to a buffer only with its mutex, and leaves one only    *)
(* with a whole round in it; main takes the buffers in turn and so saves   *)
(* one that the thread has left.  What the numbers, the files and          *)
(* dropped_stats tell follows from there.                                  *)
(***************************************************************************)
EXTENDS StatsHandoff, TickStatistics, TLAPS

(* While main takes part in the hand-over the thread is told to run.       *)
Polling == {"poll_lock", "poll"}
Holding == {"save", "save_done", "unlock"}
HandingOver == Polling \cup Holding \cup {"lock", "control_unlock"}

(* Who holds which mutex.  The thread has that of the buffer it is at, and *)
(* keeps it when it fails; there is no test after that.                    *)
MutexesHeld ==
  /\ mpc # "error" => \A b \in Buf :
       mutex[b] = "main" <=> \/ mpc = "poll" /\ b = 0
                             \/ mpc \in Holding /\ b = mbuf
  /\ \A b \in Buf : mutex[b] = "thread" =>
       tpc = "let_go" \/ (tpc \notin {"off", "lock"} /\ b = tbuf)
  /\ mpc \in {"evaluate", "unlink", "unlink_done"} => tpc \in {"off", "failed"}
  /\ mpc = "start" => tpc = "off"
  /\ tpc = "lock" => tbuf = 0
  /\ mpc \in HandingOver =>
       /\ keep_running = 1 /\ tpc \notin {"off", "release"}
       /\ tpc \in {"first", "last", "swap", "control"} => mutex[tbuf] = "thread"
       /\ tpc = "let_go" => \A b \in Buf : mutex[b] = "thread"
       /\ tpc = "failed" /\ sequence[0] # NoSeq => mutex[tbuf] = "thread"

(* Buffer b has a whole round of this test, and its number.                *)
Whole(b) ==
  /\ ready[b] = done[b]
  /\ done[b] = [test |-> test, seq |-> sequence[b]]

(* n comes after m; from MaxSeq on numbers are not told apart.             *)
Later(n, m) == n > m \/ n = MaxSeq

(* The buffer that the thread has left is whole, and older than the one it *)
(* is at.                                                                  *)
RoundsWhole ==
  /\ \A b \in Buf : /\ ready[b].test <= test /\ done[b].test <= test
                    /\ mpc = "start" => ready[b].test < test /\ done[b].test < test
  /\ sequence[1] # NoSeq
  /\ mpc \in HandingOver =>
       /\ sequence[0] = NoSeq =>
            /\ tbuf = 0 /\ tpc \in {"lock", "failed"} /\ mpc \in Polling
            /\ \A b \in Buf : done[b].test < test
       /\ tpc = "lock" => sequence[0] = NoSeq /\ tseq = 0
       /\ tpc \in {"first", "last", "swap", "control"} => sequence[tbuf] = tseq
       /\ tpc = "last" => ready[tbuf] = ThisRound
       /\ tpc \in {"swap", "let_go"} => Whole(tbuf)
       /\ tpc = "let_go" =>
            tseq = IF sequence[tbuf] < MaxSeq THEN sequence[tbuf] + 1 ELSE MaxSeq
       /\ tbuf = 1 => done[0].test = test
       /\ done[1 - tbuf].test = test =>
            Whole(1 - tbuf) /\ Later(sequence[tbuf], sequence[1 - tbuf])

(* How many records main has counted, and how many it has stored.          *)
Counted == IF mpc = "save" THEN loops - 1 ELSE loops
Stored == IF mpc \in {"save", "save_done"} THEN loops - 1 ELSE loops

FilesKept ==
  /\ Len(buffer_ready) <= Saves /\ Len(processing_done) <= Saves
  /\ mpc \in Polling => loops = 0 /\ dropped = 0 /\ mbuf = 0
  /\ mpc \in Holding => loops >= 1
  /\ mpc \in {"control_unlock", "join", "evaluate"} => loops = Saves
  /\ mpc \in HandingOver \cup {"join", "evaluate"} =>
       /\ Len(buffer_ready) >= Counted /\ Len(processing_done) >= Stored
       /\ \A k \in 1..Stored : /\ buffer_ready[k] = processing_done[k]
                               /\ processing_done[k].test = test
  /\ mpc = "save_done" => buffer_ready[loops] = ready[mbuf]
  /\ mpc = "unlock" => processing_done[loops] = done[mbuf]
  /\ mpc = "unlink" => samples = Saves

(* The buffer that main holds, or waits for.                               *)
Turn ==
  /\ mpc \in Holding => tbuf # mbuf /\ done[mbuf].test = test
  /\ mpc = "lock" => tbuf = mbuf \/ done[mbuf].test = test
  /\ mpc \in {"save_done", "unlock"} => current = sequence[mbuf]
  /\ mpc \in {"lock", "save"} /\ Counted >= 1 => Later(sequence[mbuf], current)

(* The first number that main sees does not follow the one it starts from. *)
Skips(n, m) == m <= n /\ (n \in {0, m, MaxSeq} \/ n >= m + 2)

NumbersSkip ==
  /\ mpc \in Polling => sequence[0] \in {NoSeq, 0, MaxSeq} \/ sequence[0] >= 2
  /\ mpc \in Polling \cup {"start"} /\ first => current \in {NoSeq, 0}
  /\ mpc \in {"lock", "save"} /\ Counted = 0 =>
       mbuf = 0 /\ Skips(sequence[0], current)

DropsExact ==
  mpc \in HandingOver =>
    /\ dropped <= Counted
    /\ Counted >= 1 =>
         /\ current # NoSeq
         /\ current < MaxSeq => /\ dropped = 0 <=> current + 1 = Counted
                                /\ dropped <= current + 1 - Counted

(* The inductive invariant.                                                *)
StatsInv ==
  /\ TypeOK /\ MutexesHeld /\ RoundsWhole /\ FilesKept /\ Turn
  /\ NumbersSkip /\ DropsExact

-----------------------------------------------------------------------------

(* The record of this loop is in the file afterwards, which has grown by   *)
(* no more than that ...                                                   *)
LEMMA RecordWritten ==
  ASSUME NEW R, NEW file \in Seq(R), NEW record \in R,
         loops \in 1..Saves, Len(file) >= loops - 1, Len(file) <= Saves
  PROVE  /\ Written(file, record) \in Seq(R)
         /\ Len(Written(file, record)) >= loops
         /\ Len(Written(file, record)) <= Saves
         /\ Written(file, record)[loops] = record
<1> USE StatsAssumption
<1>1. CASE loops <= Len(file)
  BY <1>1 DEF Written
<1>2. CASE loops > Len(file)
  <2>1. Len(file) = loops - 1
    BY <1>2
  <2> QED
    BY <1>2, <2>1 DEF Written
<1> QED
  BY <1>1, <1>2

(* ... and the records before it are as they were.                         *)
LEMMA RecordsKept ==
  ASSUME NEW R, NEW file \in Seq(R), NEW record \in R,
         loops \in 1..Saves, Len(file) >= loops - 1, Len(file) <= Saves,
         NEW k \in 1..(loops - 1)
  PROVE  Written(file, record)[k] = file[k]
<1> USE StatsAssumption
<1>1. CASE loops <= Len(file)
  BY <1>1 DEF Written
<1>2. CASE loops > Len(file)
  BY <1>2 DEF Written
<1> QED
  BY <1>1, <1>2

(* Before the first test no buffer has anything of it, and the files are   *)
(* empty.                                                                  *)
LEMMA StatsInit == Init => StatsInv
<1> SUFFICES ASSUME Init PROVE StatsInv
  OBVIOUS
<1> USE StatsAssumption
<1>1. TypeOK
  <2>1. /\ mutex \in [Buf -> {"free", "thread", "main"}]
        /\ sequence \in [Buf -> Number \cup {NoSeq}]
    BY DEF Init, Nobody, Number
  <2>2. ready \in [Buf -> Round] /\ done \in [Buf -> Round]
    BY DEF Init, NoRound, Round, Number
  <2>3. /\ buffer_ready \in Seq(Round \cup {Torn})
        /\ processing_done \in Seq(Round \cup {Torn})
    BY DEF Init
  <2>4. /\ test \in 1..Tests /\ tseq \in Number /\ tbuf \in Buf
        /\ mbuf \in Buf /\ current \in Number
    BY DEF Init, Number, Buf
  <2>5. control \in BOOLEAN /\ first \in BOOLEAN
    BY DEF Init
  <2>6. /\ tpc = "off" /\ mpc = "start" /\ keep_running = 0
        /\ dropped = 0 /\ loops = 0 /\ samples = 0
    BY DEF Init
  <2> QED
    BY <2>1, <2>2, <2>3, <2>4, <2>5, <2>6 DEF TypeOK
<1>2. mpc = "start" /\ tpc = "off"
  BY DEF Init
<1>3. MutexesHeld
  BY <1>2 DEF Init, MutexesHeld, Nobody, Polling, Holding, HandingOver
<1>4. RoundsWhole
  BY <1>2
     DEF Init, RoundsWhole, NoRound, NoSeq, Buf, Polling, Holding, HandingOver
<1>5. FilesKept
  BY <1>2 DEF Init, FilesKept, Polling, Holding, HandingOver
<1>6. Turn /\ NumbersSkip /\ DropsExact
  BY <1>2
     DEF Init, Turn, NumbersSkip, DropsExact, Polling, Holding, HandingOver
<1> QED
  BY <1>1, <1>3, <1>4, <1>5, <1>6 DEF StatsInv

(* A record that has been written in whole or in part is one of the file;  *)
(* dropped_stats is at most the number of records.                         *)
LEMMA MainSavesType ==
  ASSUME TypeOK, RoundsWhole, FilesKept, DropsExact, MainSaves
  PROVE  TypeOK'
<1> USE StatsAssumption
<1>1. loops \in 1..Saves
  BY DEF MainSaves, FilesKept, Holding, TypeOK
<1>2. PICK record \in Round \cup {Torn} : buffer_ready' = Written(buffer_ready, record)
  BY DEF MainSaves, Results, TypeOK
<1>3. mpc' \in {"save_done", "error"}
  BY DEF MainSaves
<1>4. Len(buffer_ready) >= loops - 1
  BY DEF MainSaves, FilesKept, HandingOver, Holding, Counted, Stored
<1>5. buffer_ready' \in Seq(Round \cup {Torn})
  BY <1>1, <1>2, <1>4, RecordWritten DEF TypeOK, FilesKept
<1>6. dropped' \in 0..Saves
  BY <1>1 DEF MainSaves, DropsExact, HandingOver, Holding, Counted, TypeOK
<1>7. current' \in Number \cup {NoSeq}
  BY DEF MainSaves, TypeOK, Buf
<1> QED
  BY <1>3, <1>5, <1>6, <1>7 DEF MainSaves, stats, thread, TypeOK

(* The same of the second file. *)
LEMMA MainSavesDoneType ==
  ASSUME TypeOK, RoundsWhole, FilesKept, DropsExact, MainSavesDone
  PROVE  TypeOK'
<1> USE StatsAssumption
<1>1. loops \in 1..Saves
  BY DEF MainSavesDone, FilesKept, Holding, TypeOK
<1>2. PICK record \in Round \cup {Torn} : processing_done' = Written(processing_done, record)
  BY DEF MainSavesDone, Results, TypeOK
<1>3. mpc' \in {"unlock", "error"}
  BY DEF MainSavesDone
<1>4. Len(processing_done) >= loops - 1
  BY DEF MainSavesDone, FilesKept, HandingOver, Holding, Counted, Stored
<1>5. processing_done' \in Seq(Round \cup {Torn})
  BY <1>1, <1>2, <1>4, RecordWritten DEF TypeOK, FilesKept
<1> QED
  BY <1>3, <1>5 DEF MainSavesDone, stats, thread, TypeOK

(* Letting go of a buffer keeps the types. *)
LEMMA ThreadLetsGoType ==
  ASSUME TypeOK, ThreadLetsGo
  PROVE  TypeOK'
<1> USE StatsAssumption
<1>1. mutex' \in [Buf -> {"free", "thread", "main"}]
  BY DEF ThreadLetsGo, Unlock, Nobody, TypeOK
<1>2. sequence' \in [Buf -> Number \cup {NoSeq}] /\ tbuf' \in Buf
  BY DEF ThreadLetsGo, TypeOK, Buf
<1>3. /\ tpc' = "control"
      /\ UNCHANGED <<ready, done, control, keep_running, tseq, main>>
  BY DEF ThreadLetsGo
<1> QED
  BY <1>1, <1>2, <1>3 DEF main, files, TypeOK

(* Stopping the thread keeps the types. *)
LEMMA MainStopsThreadType ==
  ASSUME TypeOK, MainStopsThread
  PROVE  TypeOK'
<1> USE StatsAssumption
<1>1. keep_running' \in 0..1
  BY DEF MainStopsThread
<1>2. control' \in BOOLEAN
  BY DEF MainStopsThread
<1>3. /\ mpc' = "join"
      /\ UNCHANGED <<mutex, stats, thread, mbuf, test, first, current, dropped,
                     loops, samples, files>>
  BY DEF MainStopsThread
<1> QED
  BY <1>1, <1>2, <1>3 DEF stats, thread, files, TypeOK

(* No more records are evaluated than a file has. *)
LEMMA MainEvaluatesType ==
  ASSUME TypeOK, FilesKept, MainEvaluates
  PROVE  TypeOK'
<1> USE StatsAssumption
<1>1. samples' \in 0..Saves
  BY DEF MainEvaluates, CanRead, FilesKept, TypeOK
<1>2. mpc' \in {"evaluate", "unlink"}
  BY DEF MainEvaluates
<1> QED
  BY <1>1, <1>2 DEF MainEvaluates, stats, thread, files, TypeOK

(* A file is left as it is or deleted. *)
LEMMA MainUnlinksType ==
  ASSUME TypeOK, MainUnlinks
  PROVE  TypeOK'
<1> USE StatsAssumption
<1>1. <<>> \in Seq(Round \cup {Torn})
  OBVIOUS
<1>2. buffer_ready' \in Seq(Round \cup {Torn})
  BY <1>1 DEF MainUnlinks, TypeOK
<1>3. /\ mpc' = "unlink_done"
      /\ UNCHANGED <<mutex, stats, control, keep_running, thread, mbuf, test,
                     first, current, dropped, loops, samples,
                     processing_done>>
  BY DEF MainUnlinks
<1> QED
  BY <1>2, <1>3 DEF stats, thread, TypeOK

(* So is the second one, and the next test has a number if there is one. *)
LEMMA MainUnlinksDoneType ==
  ASSUME TypeOK, MainUnlinksDone
  PROVE  TypeOK'
<1> USE StatsAssumption
<1>1. <<>> \in Seq(Round \cup {Torn})
  OBVIOUS
<1>2. processing_done' \in Seq(Round \cup {Torn})
  BY <1>1 DEF MainUnlinksDone, TypeOK
<1>3. test' \in 1..Tests /\ mpc' \in {"start", "end"}
  BY DEF MainUnlinksDone, TypeOK
<1>4. first' \in BOOLEAN
  BY DEF MainUnlinksDone, TypeOK
<1>5. /\ samples' = 0
      /\ UNCHANGED <<mutex, stats, control, keep_running, thread, mbuf, current,
                     dropped, loops, buffer_ready>>
  BY DEF MainUnlinksDone
<1> QED
  BY <1>2, <1>3, <1>4, <1>5 DEF stats, thread, TypeOK

(* A new process has the types again. *)
LEMMA RestartType ==
  ASSUME TypeOK, Restart
  PROVE  TypeOK'
<1> USE StatsAssumption
<1>1. /\ mutex' \in [Buf -> {"free", "thread", "main"}]
      /\ sequence' \in [Buf -> Number \cup {NoSeq}]
  BY DEF Restart, Nobody, Number
<1>2. ready' \in [Buf -> Round] /\ done' \in [Buf -> Round]
  BY DEF Restart, NoRound, Round, Number
<1>3. /\ buffer_ready' \in Seq(Round \cup {Torn})
      /\ processing_done' \in Seq(Round \cup {Torn})
  BY DEF Restart, files, TypeOK
<1>4. /\ test' \in 1..Tests /\ tseq' \in Number /\ tbuf' \in Buf
      /\ mbuf' \in Buf /\ current' \in Number
  BY DEF Restart, TypeOK, Number, Buf
<1>5. control' \in BOOLEAN /\ first' \in BOOLEAN
  BY DEF Restart
<1>6. /\ tpc' = "off" /\ mpc' = "start" /\ keep_running' = 0
      /\ dropped' = 0 /\ loops' = 0 /\ samples' = 0
  BY DEF Restart
<1> QED
  BY <1>1, <1>2, <1>3, <1>4, <1>5, <1>6 DEF TypeOK

(* A step that changes nothing keeps the types. *)
LEMMA TypeStay == TypeOK /\ UNCHANGED vars => TypeOK'
  BY DEF vars, stats, thread, main, files, TypeOK

(* Every step keeps the types. *)
LEMMA TypeNext ==
  ASSUME TypeOK, RoundsWhole, FilesKept, DropsExact, [Next]_vars
  PROVE  TypeOK'
<1> USE StatsAssumption
       DEF TypeOK, Buf, Number, Round, NoSeq, stats, thread, main, files
<1>1. CASE ThreadStarts
  BY <1>1, SMTT(20) DEF ThreadStarts, ThreadAt, Lock, Nobody
<1>2. CASE ThreadMeasuresFirst
  BY <1>2 DEF ThreadMeasuresFirst, ThreadAt, ThisRound
<1>3. CASE ThreadMeasuresLast
  BY <1>3 DEF ThreadMeasuresLast, ThreadAt, ThisRound
<1>4. CASE ThreadFailsToOpen
  BY <1>4 DEF ThreadFailsToOpen, ThreadAt
<1>5. CASE ThreadFails
  BY <1>5 DEF ThreadFails, ThreadAt
<1>6. CASE ThreadSwaps
  BY <1>6 DEF ThreadSwaps, ThreadAt, Lock, NextSeq, Nobody
<1>7. CASE ThreadLetsGo
  BY <1>7, ThreadLetsGoType
<1>8. CASE ThreadStays
  BY <1>8, SMTT(20) DEF ThreadStays, ThreadAt, NextSeq, Nobody
<1>9. CASE ThreadReadsControl
  BY <1>9 DEF ThreadReadsControl, ThreadAt
<1>10. CASE ThreadReleases
  BY <1>10 DEF ThreadReleases, ThreadAt, Unlock, Nobody
<1>11. CASE MainStarts
  BY <1>11 DEF MainStarts
<1>12. CASE MainFailsToOpen
  BY <1>12 DEF MainFailsToOpen
<1>13. CASE MainLocksToPoll
  BY <1>13 DEF MainLocksToPoll, Lock, Nobody
<1>14. CASE MainPolls
  BY <1>14 DEF MainPolls, Unlock, Nobody
<1>15. CASE MainLocks
  BY <1>15 DEF MainLocks, Lock, Nobody
<1>16. CASE MainSaves
  BY <1>16, MainSavesType
<1>17. CASE MainSavesDone
  BY <1>17, MainSavesDoneType
<1>18. CASE MainUnlocks
  BY <1>18 DEF MainUnlocks, Unlock, Nobody
<1>19. CASE MainLocksControl
  BY <1>19 DEF MainLocksControl
<1>20. CASE MainStopsThread
  BY <1>20, MainStopsThreadType
<1>21. CASE MainJoins
  BY <1>21 DEF MainJoins
<1>22. CASE MainEvaluates
  BY <1>22, MainEvaluatesType
<1>23. CASE MainUnlinks
  BY <1>23, MainUnlinksType
<1>24. CASE MainUnlinksDone
  BY <1>24, MainUnlinksDoneType
<1>25. CASE Restart
  BY <1>25, RestartType
<1>26. CASE Ended \/ UNCHANGED vars
  BY <1>26, TypeStay DEF Ended
<1> QED
  BY <1>1, <1>2, <1>3, <1>4, <1>5, <1>6, <1>7, <1>8, <1>9, <1>10, <1>11,
      <1>12, <1>13, <1>14, <1>15, <1>16, <1>17, <1>18, <1>19, <1>20, <1>21,
      <1>22, <1>23, <1>24, <1>25, <1>26
     DEF Next, Thread, Main

(* Who holds a mutex: the thread takes the other one before it lets its    *)
(* own go, and main has at most one.                                       *)
LEMMA MutexesNext ==
  ASSUME TypeOK, MutexesHeld, RoundsWhole, [Next]_vars
  PROVE  MutexesHeld'
<1> USE StatsAssumption
       DEF TypeOK, MutexesHeld, RoundsWhole, Buf, NoSeq, HandingOver, Polling,
           Holding, stats, thread, main, files
<1>1. CASE ThreadStarts
  BY <1>1 DEF ThreadStarts, ThreadAt, Lock, Nobody
<1>2. CASE ThreadMeasuresFirst
  BY <1>2 DEF ThreadMeasuresFirst, ThreadAt, ThisRound
<1>3. CASE ThreadMeasuresLast
  BY <1>3 DEF ThreadMeasuresLast, ThreadAt, ThisRound
<1>4. CASE ThreadFailsToOpen
  BY <1>4 DEF ThreadFailsToOpen, ThreadAt
<1>5. CASE ThreadFails
  BY <1>5 DEF ThreadFails, ThreadAt
<1>6. CASE ThreadSwaps
  BY <1>6 DEF ThreadSwaps, ThreadAt, Lock, NextSeq, Nobody
<1>7. CASE ThreadLetsGo
  BY <1>7 DEF ThreadLetsGo, ThreadAt, Unlock, Nobody
<1>8. CASE ThreadStays
  BY <1>8 DEF ThreadStays, ThreadAt, NextSeq, Nobody
<1>9. CASE ThreadReadsControl
  BY <1>9 DEF ThreadReadsControl, ThreadAt
<1>10. CASE ThreadReleases
  BY <1>10 DEF ThreadReleases, ThreadAt, Unlock, Nobody
<1>11. CASE MainStarts
  BY <1>11 DEF MainStarts
<1>12. CASE MainFailsToOpen
  BY <1>12 DEF MainFailsToOpen
<1>13. CASE MainLocksToPoll
  BY <1>13 DEF MainLocksToPoll, Lock, Nobody
<1>14. CASE MainPolls
  BY <1>14 DEF MainPolls, Unlock, Nobody
<1>15. CASE MainLocks
  BY <1>15 DEF MainLocks, Lock, Nobody
<1>16. CASE MainSaves
  BY <1>16 DEF MainSaves
<1>17. CASE MainSavesDone
  BY <1>17 DEF MainSavesDone
<1>18. CASE MainUnlocks
  BY <1>18 DEF MainUnlocks, Unlock, Nobody
<1>19. CASE MainLocksControl
  BY <1>19 DEF MainLocksControl
<1>20. CASE MainStopsThread
  BY <1>20 DEF MainStopsThread
<1>21. CASE MainJoins
  BY <1>21 DEF MainJoins
<1>22. CASE MainEvaluates
  BY <1>22 DEF MainEvaluates
<1>23. CASE MainUnlinks
  BY <1>23 DEF MainUnlinks
<1>24. CASE MainUnlinksDone
  BY <1>24 DEF MainUnlinksDone
<1>25. CASE Restart
  BY <1>25 DEF Restart, Nobody
<1>26. CASE Ended \/ UNCHANGED vars
  BY <1>26 DEF Ended, vars
<1> QED
  BY <1>1, <1>2, <1>3, <1>4, <1>5, <1>6, <1>7, <1>8, <1>9, <1>10, <1>11,
      <1>12, <1>13, <1>14, <1>15, <1>16, <1>17, <1>18, <1>19, <1>20, <1>21,
      <1>22, <1>23, <1>24, <1>25, <1>26
     DEF Next, Thread, Main

(* What a buffer has is of an earlier test than the next one. *)
LEMMA MainUnlinksDoneRounds ==
  ASSUME TypeOK, MutexesHeld, RoundsWhole, MainUnlinksDone
  PROVE  RoundsWhole'
<1> USE StatsAssumption
<1>1. /\ test' >= test /\ mpc' \in {"start", "end"}
      /\ mpc' = "start" => test' > test
      /\ UNCHANGED <<sequence, ready, done>>
  BY DEF MainUnlinksDone, stats, TypeOK
<1>2. \A b \in Buf : ready[b].test <= test /\ done[b].test <= test
  BY DEF RoundsWhole
<1>3. /\ test \in Nat /\ test' \in Nat
      /\ \A b \in Buf : ready[b].test \in Nat /\ done[b].test \in Nat
  BY DEF MainUnlinksDone, TypeOK, Round
<1>4. \A b \in Buf :
        /\ ready[b].test <= test' /\ done[b].test <= test'
        /\ mpc' = "start" => ready[b].test < test' /\ done[b].test < test'
  BY <1>1, <1>2, <1>3
<1> QED
  BY <1>1, <1>4
     DEF RoundsWhole, HandingOver, Polling, Holding

(* A thread that finds the other buffer locked gives its own a number that *)
(* is later still than that of the other.                                  *)
LEMMA ThreadStaysRounds ==
  ASSUME TypeOK, MutexesHeld, RoundsWhole, ThreadStays
  PROVE  RoundsWhole'
<1> USE StatsAssumption
<1>1. /\ sequence' = [sequence EXCEPT ![tbuf] = tseq'] /\ tseq' = NextSeq
      /\ UNCHANGED <<ready, done, tbuf, main>>
      /\ tpc = "swap" /\ tpc' = "control"
  BY DEF ThreadStays, ThreadAt
<1>2. NextSeq \in Number /\ NextSeq >= tseq
  BY DEF NextSeq, TypeOK, Number
<1>3. mpc \in HandingOver /\ done[1 - tbuf].test = test =>
        Later(NextSeq, sequence[1 - tbuf])
  BY <1>1, <1>2 DEF RoundsWhole, Later, TypeOK, Number, Buf, NoSeq
<1>4. /\ sequence'[tbuf] = NextSeq /\ sequence'[1 - tbuf] = sequence[1 - tbuf]
      /\ \A b \in Buf : sequence'[b] = IF b = tbuf THEN NextSeq ELSE sequence[b]
  BY <1>1 DEF TypeOK, Buf
<1> QED
  BY <1>1, <1>2, <1>3, <1>4
     DEF RoundsWhole, Whole, TypeOK, main, files, Buf, Number, NoSeq,
         HandingOver, Polling, Holding

(* The buffer that the thread leaves is whole, and the number of the other *)
(* one comes after its own.                                                *)
LEMMA ThreadLetsGoRounds ==
  ASSUME TypeOK, MutexesHeld, RoundsWhole, ThreadLetsGo
  PROVE  RoundsWhole'
<1> USE StatsAssumption
<1>1. /\ tpc = "let_go" /\ tpc' = "control" /\ tbuf' = 1 - tbuf
      /\ sequence' = [sequence EXCEPT ![1 - tbuf] = tseq]
      /\ UNCHANGED <<ready, done, tseq, mpc, test>>
  BY DEF ThreadLetsGo, ThreadAt, main
<1>2. /\ sequence'[tbuf'] = tseq /\ sequence'[tbuf] = sequence[tbuf]
      /\ sequence'[0] # NoSeq \/ sequence'[0] = sequence[0]
      /\ sequence'[1] # NoSeq
  BY <1>1 DEF RoundsWhole, TypeOK, Buf, Number, NoSeq
<1>3. ASSUME mpc \in HandingOver
      PROVE  /\ sequence[0] # NoSeq
             /\ Whole(tbuf) /\ Later(tseq, sequence[tbuf])
  BY <1>1, <1>3 DEF RoundsWhole, Later, TypeOK, Number, Buf, NoSeq
<1>4. 1 - tbuf' = tbuf /\ (tbuf' = 1 => tbuf = 0)
  BY <1>1 DEF TypeOK, Buf
<1> QED
  BY <1>1, <1>2, <1>3, <1>4 DEF RoundsWhole, Whole

(* No buffer of a new process has a round. *)
LEMMA RestartRounds ==
  ASSUME TypeOK, MutexesHeld, RoundsWhole, Restart
  PROVE  RoundsWhole'
<1> USE StatsAssumption
<1>1. /\ test' \in Nat /\ test' > 0 /\ mpc' = "start"
      /\ \A b \in Buf : ready'[b].test = 0 /\ done'[b].test = 0
  BY DEF Restart, NoRound, TypeOK
<1>2. sequence'[1] # NoSeq
  BY DEF Restart, Buf, NoSeq
<1> QED
  BY <1>1, <1>2 DEF RoundsWhole, HandingOver, Polling, Holding

(* Nor does it touch the buffers. *)
LEMMA RoundsStay == RoundsWhole /\ UNCHANGED vars => RoundsWhole'
  BY DEF vars, stats, thread, main, files, RoundsWhole, Whole, Later,
         ThisRound

(* The buffers: the thread leaves one only with a whole round, and main    *)
(* writes neither.                                                         *)
LEMMA RoundsNext ==
  ASSUME TypeOK, MutexesHeld, RoundsWhole, [Next]_vars
  PROVE  RoundsWhole'
<1> USE StatsAssumption
       DEF TypeOK, MutexesHeld, RoundsWhole, Whole, Later, ThisRound, Buf,
           Number, Round, NoSeq, NoRound, HandingOver, Polling, Holding,
           stats, thread, main, files
<1>1. CASE ThreadStarts
  BY <1>1 DEF ThreadStarts, ThreadAt, Lock, Nobody
<1>2. CASE ThreadMeasuresFirst
  BY <1>2 DEF ThreadMeasuresFirst, ThreadAt
<1>3. CASE ThreadMeasuresLast
  BY <1>3 DEF ThreadMeasuresLast, ThreadAt
<1>4. CASE ThreadFailsToOpen
  BY <1>4 DEF ThreadFailsToOpen, ThreadAt
<1>5. CASE ThreadFails
  BY <1>5 DEF ThreadFails, ThreadAt
<1>6. CASE ThreadSwaps
  BY <1>6 DEF ThreadSwaps, ThreadAt, Lock, NextSeq, Nobody
<1>7. CASE ThreadLetsGo
  BY <1>7, ThreadLetsGoRounds
<1>8. CASE ThreadStays
  BY <1>8, ThreadStaysRounds
<1>9. CASE ThreadReadsControl
  BY <1>9 DEF ThreadReadsControl, ThreadAt
<1>10. CASE ThreadReleases
  BY <1>10 DEF ThreadReleases, ThreadAt, Unlock, Nobody
<1>11. CASE MainStarts
  BY <1>11 DEF MainStarts
<1>12. CASE MainFailsToOpen
  BY <1>12 DEF MainFailsToOpen
<1>13. CASE MainLocksToPoll
  BY <1>13 DEF MainLocksToPoll, Lock, Nobody
<1>14. CASE MainPolls
  BY <1>14 DEF MainPolls, Unlock, Nobody
<1>15. CASE MainLocks
  BY <1>15 DEF MainLocks, Lock, Nobody
<1>16. CASE MainSaves
  BY <1>16 DEF MainSaves
<1>17. CASE MainSavesDone
  BY <1>17 DEF MainSavesDone
<1>18. CASE MainUnlocks
  BY <1>18 DEF MainUnlocks, Unlock, Nobody
<1>19. CASE MainLocksControl
  BY <1>19 DEF MainLocksControl
<1>20. CASE MainStopsThread
  BY <1>20 DEF MainStopsThread
<1>21. CASE MainJoins
  BY <1>21 DEF MainJoins
<1>22. CASE MainEvaluates
  BY <1>22 DEF MainEvaluates
<1>23. CASE MainUnlinks
  BY <1>23 DEF MainUnlinks
<1>24. CASE MainUnlinksDone
  BY <1>24, MainUnlinksDoneRounds
<1>25. CASE Restart
  BY <1>25, RestartRounds
<1>26. CASE Ended \/ UNCHANGED vars
  BY <1>26, RoundsStay DEF Ended
<1> QED
  BY <1>1, <1>2, <1>3, <1>4, <1>5, <1>6, <1>7, <1>8, <1>9, <1>10, <1>11,
      <1>12, <1>13, <1>14, <1>15, <1>16, <1>17, <1>18, <1>19, <1>20, <1>21,
      <1>22, <1>23, <1>24, <1>25, <1>26
     DEF Next, Thread, Main

(* The thread does not write to the buffer that main is saving. *)
LEMMA ThreadMeasuresFirstFiles ==
  ASSUME TypeOK, RoundsWhole, FilesKept, Turn, ThreadMeasuresFirst
  PROVE  FilesKept'
<1> USE StatsAssumption
<1>1. mpc \in {"save_done", "unlock"} => mbuf # tbuf
  BY DEF Turn, Holding
<1>2. /\ mpc = "save_done" => ready'[mbuf] = ready[mbuf]
      /\ mpc = "unlock" => done'[mbuf] = done[mbuf]
  BY <1>1 DEF ThreadMeasuresFirst, TypeOK, Buf
<1> QED
  BY <1>2
     DEF ThreadMeasuresFirst, ThreadAt, main, files, FilesKept, Counted, Stored,
         HandingOver,
         Polling, Holding

(* Nor does it with the last part of the statistics. *)
LEMMA ThreadMeasuresLastFiles ==
  ASSUME TypeOK, RoundsWhole, FilesKept, Turn, ThreadMeasuresLast
  PROVE  FilesKept'
<1> USE StatsAssumption
<1>1. mpc \in {"save_done", "unlock"} => mbuf # tbuf
  BY DEF Turn, Holding
<1>2. /\ mpc = "save_done" => ready'[mbuf] = ready[mbuf]
      /\ mpc = "unlock" => done'[mbuf] = done[mbuf]
  BY <1>1 DEF ThreadMeasuresLast, TypeOK, Buf
<1> QED
  BY <1>2
     DEF ThreadMeasuresLast, ThreadAt, main, files, FilesKept, Counted, Stored,
         HandingOver,
         Polling, Holding

(* The first file has this loop's record, and the earlier ones still. *)
LEMMA MainSavesFiles ==
  ASSUME TypeOK, RoundsWhole, FilesKept, Turn, MainSaves
  PROVE  FilesKept'
<1> USE StatsAssumption
<1>1. loops \in 1..Saves
  BY DEF MainSaves, FilesKept, Holding, TypeOK
<1>2. PICK record \in Round \cup {Torn} :
        /\ buffer_ready' = Written(buffer_ready, record)
        /\ mpc' = "save_done" => record = ready[mbuf]
  BY DEF MainSaves, Results, TypeOK
<1>3. mpc' \in {"save_done", "error"}
  BY DEF MainSaves
<1>4. /\ Len(buffer_ready) >= loops - 1 /\ Len(processing_done) >= loops - 1
      /\ \A k \in 1..(loops - 1) : /\ buffer_ready[k] = processing_done[k]
                                   /\ processing_done[k].test = test
  BY DEF MainSaves, FilesKept, HandingOver, Holding, Counted, Stored
<1>5. buffer_ready \in Seq(Round \cup {Torn}) /\ Len(buffer_ready) <= Saves
  BY DEF TypeOK, FilesKept
<1>6. /\ Len(buffer_ready') >= loops /\ Len(buffer_ready') <= Saves
      /\ buffer_ready'[loops] = record
  BY <1>1, <1>2, <1>4, <1>5, RecordWritten
<1>7. \A k \in 1..(loops - 1) : buffer_ready'[k] = buffer_ready[k]
  BY <1>1, <1>2, <1>4, <1>5, RecordsKept
<1>8. mpc' = "save_done" => buffer_ready'[loops] = ready[mbuf]
  BY <1>2, <1>6
<1>9. UNCHANGED <<ready, mbuf, loops, test, processing_done>>
  BY DEF MainSaves, stats
<1>10. /\ Len(processing_done) <= Saves
      /\ \A k \in 1..(loops - 1) :
           /\ buffer_ready'[k] = processing_done[k]
           /\ processing_done[k].test = test
  BY <1>4, <1>7 DEF FilesKept
<1> QED
  BY <1>1, <1>3, <1>4, <1>6, <1>8, <1>9, <1>10
     DEF FilesKept, Counted, Stored, HandingOver, Polling, Holding

(* The second file has the same record: the buffer that main holds has one *)
(* whole round.                                                            *)
LEMMA MainSavesDoneFiles ==
  ASSUME TypeOK, RoundsWhole, FilesKept, Turn, MainSavesDone
  PROVE  FilesKept'
<1> USE StatsAssumption
<1>1. loops \in 1..Saves
  BY DEF MainSavesDone, FilesKept, Holding, TypeOK
<1>2. PICK record \in Round \cup {Torn} :
        /\ processing_done' = Written(processing_done, record)
        /\ mpc' = "unlock" => record = done[mbuf]
  BY DEF MainSavesDone, Results, TypeOK
<1>3. mpc' \in {"unlock", "error"}
  BY DEF MainSavesDone
<1>4. /\ Len(buffer_ready) >= loops /\ Len(processing_done) >= loops - 1
      /\ \A k \in 1..(loops - 1) : /\ buffer_ready[k] = processing_done[k]
                                   /\ processing_done[k].test = test
  BY DEF MainSavesDone, FilesKept, HandingOver, Holding, Counted, Stored
<1>5. processing_done \in Seq(Round \cup {Torn}) /\ Len(processing_done) <= Saves
  BY DEF TypeOK, FilesKept
<1>6. /\ Len(processing_done') >= loops /\ Len(processing_done') <= Saves
      /\ processing_done'[loops] = record
  BY <1>1, <1>2, <1>4, <1>5, RecordWritten
<1>7. \A k \in 1..(loops - 1) : processing_done'[k] = processing_done[k]
  BY <1>1, <1>2, <1>4, <1>5, RecordsKept
<1>8. mpc' = "unlock" => /\ processing_done'[loops] = done[mbuf]
                         /\ buffer_ready[loops] = ready[mbuf]
                         /\ ready[mbuf] = done[mbuf] /\ done[mbuf].test = test
  <2>1. mpc = "save_done" /\ tbuf = 1 - mbuf
    BY DEF MainSavesDone, Turn, Holding, TypeOK, Buf
  <2>2. done[mbuf].test = test /\ mbuf = 1 - tbuf
    BY <2>1 DEF Turn, Holding, TypeOK, Buf
  <2>3. ready[mbuf] = done[mbuf]
    BY <2>1, <2>2 DEF RoundsWhole, Whole, HandingOver, Holding
  <2> QED
    BY <1>2, <1>6, <2>1, <2>2, <2>3 DEF FilesKept
<1>9. UNCHANGED <<done, mbuf, loops, test, buffer_ready>>
  BY DEF MainSavesDone, stats
<1>10. mpc' = "unlock" =>
        \A k \in 1..loops : /\ buffer_ready[k] = processing_done'[k]
                            /\ processing_done'[k].test = test
  BY <1>1, <1>4, <1>6, <1>8, <1>7
<1>11. Len(buffer_ready) <= Saves
  BY DEF FilesKept
<1> QED
  BY <1>1, <1>3, <1>4, <1>6, <1>8, <1>9, <1>10, <1>11
     DEF FilesKept, Counted, Stored, HandingOver, Polling, Holding

(* Evaluation does not end before the last record: no record of this test  *)
(* is Torn, and neither file is shorter than that.                         *)
LEMMA MainEvaluatesFiles ==
  ASSUME TypeOK, RoundsWhole, FilesKept, Turn, MainEvaluates
  PROVE  FilesKept'
<1> USE StatsAssumption
<1>1. CASE CanRead(buffer_ready) /\ CanRead(processing_done)
  BY <1>1
     DEF MainEvaluates, files, FilesKept, Counted, Stored,
         HandingOver,
         Polling, Holding
<1>2. CASE ~(CanRead(buffer_ready) /\ CanRead(processing_done))
  <2>1. /\ loops = Saves /\ Len(buffer_ready) >= Saves
        /\ Len(processing_done) >= Saves
        /\ \A k \in 1..Saves : /\ buffer_ready[k] = processing_done[k]
                               /\ processing_done[k].test = test
    BY DEF MainEvaluates, FilesKept, Counted, Stored
  <2>2. samples < Saves => /\ buffer_ready[samples + 1].test = test
                           /\ processing_done[samples + 1].test = test
    BY <2>1 DEF TypeOK
  <2>3. samples < Saves => /\ buffer_ready[samples + 1] # Torn
                           /\ processing_done[samples + 1] # Torn
    BY <2>2 DEF Torn, TypeOK
  <2>4. samples = Saves
    BY <1>2, <2>1, <2>3 DEF CanRead, TypeOK
  <2> QED
    BY <1>2, <2>4
       DEF MainEvaluates, files, FilesKept, HandingOver, Polling, Holding
<1> QED
  BY <1>1, <1>2

(* The files: only the record of this loop is written. *)
LEMMA FilesNext ==
  ASSUME TypeOK, RoundsWhole, FilesKept, Turn, [Next]_vars
  PROVE  FilesKept'
<1> USE StatsAssumption
       DEF TypeOK, FilesKept, Counted, Stored, HandingOver, Polling, Holding,
           stats, thread, main, files
<1>1. CASE ThreadStarts
  BY <1>1 DEF ThreadStarts, ThreadAt, Lock, Nobody
<1>2. CASE ThreadMeasuresFirst
  BY <1>2, ThreadMeasuresFirstFiles
<1>3. CASE ThreadMeasuresLast
  BY <1>3, ThreadMeasuresLastFiles
<1>4. CASE ThreadFailsToOpen
  BY <1>4 DEF ThreadFailsToOpen, ThreadAt
<1>5. CASE ThreadFails
  BY <1>5 DEF ThreadFails, ThreadAt
<1>6. CASE ThreadSwaps
  BY <1>6 DEF ThreadSwaps, ThreadAt, Lock, NextSeq, Nobody
<1>7. CASE ThreadLetsGo
  BY <1>7 DEF ThreadLetsGo, ThreadAt, Unlock, Nobody
<1>8. CASE ThreadStays
  BY <1>8 DEF ThreadStays, ThreadAt, NextSeq, Nobody
<1>9. CASE ThreadReadsControl
  BY <1>9 DEF ThreadReadsControl, ThreadAt
<1>10. CASE ThreadReleases
  BY <1>10 DEF ThreadReleases, ThreadAt, Unlock, Nobody
<1>11. CASE MainStarts
  BY <1>11 DEF MainStarts
<1>12. CASE MainFailsToOpen
  BY <1>12 DEF MainFailsToOpen
<1>13. CASE MainLocksToPoll
  BY <1>13 DEF MainLocksToPoll, Lock, Nobody
<1>14. CASE MainPolls
  BY <1>14 DEF MainPolls, Unlock, Nobody
<1>15. CASE MainLocks
  BY <1>15 DEF MainLocks, Lock, Nobody
<1>16. CASE MainSaves
  BY <1>16, MainSavesFiles
<1>17. CASE MainSavesDone
  BY <1>17, MainSavesDoneFiles
<1>18. CASE MainUnlocks
  BY <1>18 DEF MainUnlocks, Unlock, Nobody
<1>19. CASE MainLocksControl
  BY <1>19 DEF MainLocksControl
<1>20. CASE MainStopsThread
  BY <1>20 DEF MainStopsThread
<1>21. CASE MainJoins
  BY <1>21 DEF MainJoins
<1>22. CASE MainEvaluates
  BY <1>22, MainEvaluatesFiles
<1>23. CASE MainUnlinks
  BY <1>23 DEF MainUnlinks
<1>24. CASE MainUnlinksDone
  BY <1>24 DEF MainUnlinksDone
<1>25. CASE Restart
  BY <1>25 DEF Restart, Nobody
<1>26. CASE Ended \/ UNCHANGED vars
  BY <1>26 DEF Ended, vars
<1> QED
  BY <1>1, <1>2, <1>3, <1>4, <1>5, <1>6, <1>7, <1>8, <1>9, <1>10, <1>11,
      <1>12, <1>13, <1>14, <1>15, <1>16, <1>17, <1>18, <1>19, <1>20, <1>21,
      <1>22, <1>23, <1>24, <1>25, <1>26
     DEF Next, Thread, Main

(* A number that grows is still later than what main has seen. *)
LEMMA ThreadStaysTurn ==
  ASSUME TypeOK, MutexesHeld, RoundsWhole, FilesKept, Turn, ThreadStays
  PROVE  Turn'
<1> USE StatsAssumption
<1>1. /\ tpc = "swap"
      /\ sequence' = [sequence EXCEPT ![tbuf] = NextSeq]
      /\ UNCHANGED <<done, tbuf, main>>
  BY DEF ThreadStays, ThreadAt
<1>2. mbuf # tbuf => sequence'[mbuf] = sequence[mbuf]
  BY <1>1 DEF TypeOK, Buf
<1>3. CASE mpc \in Holding
  BY <1>1, <1>2, <1>3 DEF Turn, Counted, Holding, main, files
<1>4. CASE mpc = "lock"
  <2>1. tbuf = mbuf => /\ sequence'[mbuf] = NextSeq /\ sequence[mbuf] = tseq
                       /\ tseq \in Number
    BY <1>1, <1>4 DEF RoundsWhole, HandingOver, TypeOK, Buf
  <2>2. Counted >= 1 => Later(sequence'[mbuf], current)
    BY <1>2, <1>4, <2>1 DEF Turn, Later, NextSeq, Number, NoSeq, TypeOK
  <2> QED
    BY <1>1, <1>4, <2>2 DEF Turn, Counted, Holding, main, files
<1>5. CASE mpc \notin Holding \cup {"lock"}
  BY <1>1, <1>5 DEF Turn, Holding, main
<1> QED
  BY <1>3, <1>4, <1>5

(* A buffer whose mutex is free is not the one that the thread is at. *)
LEMMA MainLocksTurn ==
  ASSUME TypeOK, MutexesHeld, RoundsWhole, FilesKept, Turn, MainLocks
  PROVE  Turn'
<1> USE StatsAssumption
<1>1. /\ mpc = "lock" /\ mpc' = "save" /\ loops' = loops + 1
      /\ mutex[mbuf] = Nobody
      /\ UNCHANGED <<stats, thread, mbuf, test, current>>
  BY DEF MainLocks, Lock
<1>2. mutex[tbuf] = "thread"
  BY <1>1
     DEF MutexesHeld, RoundsWhole, HandingOver, Polling, TypeOK, Buf
<1>3. tbuf # mbuf /\ done[mbuf].test = test
  BY <1>1, <1>2 DEF Turn, Nobody
<1>4. Counted' = Counted
  BY <1>1 DEF Counted, TypeOK
<1> QED
  BY <1>1, <1>3, <1>4 DEF Turn, Holding, stats, thread

(* The buffer that the thread leaves has a round of this test; the one     *)
(* that it goes to gets a number later than what main has seen of either.  *)
LEMMA ThreadLetsGoTurn ==
  ASSUME TypeOK, MutexesHeld, RoundsWhole, FilesKept, Turn, ThreadLetsGo
  PROVE  Turn'
<1> USE StatsAssumption
<1>1. mpc \notin Holding /\ mpc' = mpc
  BY DEF ThreadLetsGo, ThreadAt, main, MutexesHeld, HandingOver, Buf, TypeOK
<1>2. CASE mpc # "lock"
  BY <1>1, <1>2 DEF Turn, Holding
<1>3. CASE mpc = "lock"
  <2>1. /\ tbuf' = 1 - tbuf /\ sequence'[1 - tbuf] = tseq
        /\ sequence'[tbuf] = sequence[tbuf]
        /\ UNCHANGED <<done, test, mbuf, current, loops, mpc>>
    BY DEF ThreadLetsGo, main, TypeOK, Buf
  <2>2. /\ done[tbuf].test = test
        /\ tseq = IF sequence[tbuf] < MaxSeq THEN sequence[tbuf] + 1 ELSE MaxSeq
    BY <1>3 DEF ThreadLetsGo, ThreadAt, RoundsWhole, Whole, HandingOver
  <2>3. mbuf = 1 - tbuf /\ Counted >= 1 => Later(tseq, current)
    <3>1. mbuf = 1 - tbuf => /\ done[1 - tbuf].test = test
                             /\ Later(sequence[tbuf], sequence[1 - tbuf])
      BY <1>3 DEF Turn, TypeOK, Buf, RoundsWhole, HandingOver
    <3> QED
      BY <1>3, <2>2, <3>1 DEF Turn, Later, TypeOK, Buf, Number, NoSeq
  <2> QED
    BY <1>3, <2>1, <2>2, <2>3
       DEF Turn, Later, Counted, Holding, TypeOK, Buf
<1> QED
  BY <1>2, <1>3

(* When main sees a number in buffer 0, whose mutex it has, the thread has *)
(* been there and is at buffer 1.                                          *)
LEMMA MainPollsTurn ==
  ASSUME TypeOK, MutexesHeld, RoundsWhole, FilesKept, Turn, MainPolls
  PROVE  Turn'
<1> USE StatsAssumption
<1>1. mpc \in Polling /\ mpc \in HandingOver /\ mutex[0] = "main"
  BY DEF MainPolls, Polling, HandingOver, MutexesHeld, Buf
<1>2. sequence[0] # NoSeq => tbuf = 1
  BY <1>1 DEF MutexesHeld, RoundsWhole, TypeOK, Buf
<1>3. sequence[0] # NoSeq => done[0].test = test
  BY <1>1, <1>2 DEF RoundsWhole
<1>4. mbuf = 0 /\ loops = 0
  BY <1>1 DEF FilesKept
<1>5. /\ mpc' = IF sequence[0] = NoSeq THEN "poll_lock" ELSE "lock"
      /\ UNCHANGED <<stats, thread, test, mbuf, loops>>
  BY DEF MainPolls
<1> QED
  BY <1>3, <1>4, <1>5 DEF Turn, Counted, Holding, stats

(* Main goes to the buffer that the thread is at, whose number is later. *)
LEMMA MainUnlocksTurn ==
  ASSUME TypeOK, MutexesHeld, RoundsWhole, FilesKept, Turn, MainUnlocks
  PROVE  Turn'
<1> USE StatsAssumption
<1>1. /\ tbuf = 1 - mbuf /\ mbuf = 1 - tbuf
      /\ done[mbuf].test = test /\ current = sequence[mbuf]
  BY DEF MainUnlocks, Turn, Holding, TypeOK, Buf
<1>2. Later(sequence[1 - mbuf], current)
  BY <1>1 DEF MainUnlocks, RoundsWhole, HandingOver, Holding
<1>3. /\ mpc' = "lock" /\ mbuf' = 1 - mbuf
      /\ UNCHANGED <<stats, thread, test, current, loops>>
  BY DEF MainUnlocks
<1> QED
  BY <1>1, <1>2, <1>3
     DEF Turn, Later, Counted, Holding, stats, thread

(* Main and the thread are at different buffers when main saves, and main  *)
(* has always seen an earlier number than the next one.                    *)
LEMMA TurnNext ==
  ASSUME TypeOK, MutexesHeld, RoundsWhole, FilesKept, Turn, [Next]_vars
  PROVE  Turn'
<1> USE StatsAssumption
       DEF TypeOK, MutexesHeld, RoundsWhole, Turn, Later, Whole, Counted, Buf,
           Number, Round, NoSeq, HandingOver, Polling, Holding, stats, thread,
           main, files
<1>1. CASE ThreadStarts
  BY <1>1 DEF ThreadStarts, ThreadAt, Lock, Nobody
<1>2. CASE ThreadMeasuresFirst
  BY <1>2 DEF ThreadMeasuresFirst, ThreadAt, ThisRound
<1>3. CASE ThreadMeasuresLast
  BY <1>3 DEF ThreadMeasuresLast, ThreadAt, ThisRound
<1>4. CASE ThreadFailsToOpen
  BY <1>4 DEF ThreadFailsToOpen, ThreadAt
<1>5. CASE ThreadFails
  BY <1>5 DEF ThreadFails, ThreadAt
<1>6. CASE ThreadSwaps
  BY <1>6 DEF ThreadSwaps, ThreadAt, Lock, NextSeq, Nobody
<1>7. CASE ThreadLetsGo
  BY <1>7, ThreadLetsGoTurn
<1>8. CASE ThreadStays
  BY <1>8, ThreadStaysTurn
<1>9. CASE ThreadReadsControl
  BY <1>9 DEF ThreadReadsControl, ThreadAt
<1>10. CASE ThreadReleases
  BY <1>10 DEF ThreadReleases, ThreadAt, Unlock, Nobody
<1>11. CASE MainStarts
  BY <1>11 DEF MainStarts
<1>12. CASE MainFailsToOpen
  BY <1>12 DEF MainFailsToOpen
<1>13. CASE MainLocksToPoll
  BY <1>13 DEF MainLocksToPoll, Lock, Nobody
<1>14. CASE MainPolls
  BY <1>14, MainPollsTurn
<1>15. CASE MainLocks
  BY <1>15, MainLocksTurn
<1>16. CASE MainSaves
  BY <1>16 DEF MainSaves
<1>17. CASE MainSavesDone
  BY <1>17 DEF MainSavesDone
<1>18. CASE MainUnlocks
  BY <1>18, MainUnlocksTurn
<1>19. CASE MainLocksControl
  BY <1>19 DEF MainLocksControl
<1>20. CASE MainStopsThread
  BY <1>20 DEF MainStopsThread
<1>21. CASE MainJoins
  BY <1>21 DEF MainJoins
<1>22. CASE MainEvaluates
  BY <1>22 DEF MainEvaluates
<1>23. CASE MainUnlinks
  BY <1>23 DEF MainUnlinks
<1>24. CASE MainUnlinksDone
  BY <1>24 DEF MainUnlinksDone
<1>25. CASE Restart
  BY <1>25 DEF Restart, Nobody
<1>26. CASE Ended \/ UNCHANGED vars
  BY <1>26 DEF Ended, vars
<1> QED
  BY <1>1, <1>2, <1>3, <1>4, <1>5, <1>6, <1>7, <1>8, <1>9, <1>10, <1>11,
      <1>12, <1>13, <1>14, <1>15, <1>16, <1>17, <1>18, <1>19, <1>20, <1>21,
      <1>22, <1>23, <1>24, <1>25, <1>26
     DEF Next, Thread, Main

(* The thread does not stay with buffer 0 before main has been there:      *)
(* nobody has the mutex of buffer 1.                                       *)
LEMMA ThreadStaysNumbers ==
  ASSUME TypeOK, MutexesHeld, RoundsWhole, FilesKept, Turn, NumbersSkip,
         ThreadStays
  PROVE  NumbersSkip'
<1> USE StatsAssumption
<1>1. /\ tpc = "swap" /\ tpc' = "control" /\ mutex[1 - tbuf] # Nobody
      /\ sequence' = [sequence EXCEPT ![tbuf] = NextSeq]
      /\ UNCHANGED <<mutex, tbuf, main>>
  BY DEF ThreadStays, ThreadAt
<1>2. CASE tbuf = 1
  <2>1. sequence'[0] = sequence[0]
    BY <1>1, <1>2 DEF TypeOK, Buf
  <2> QED
    BY <1>1, <1>2, <2>1 DEF NumbersSkip, Counted, main, files
<1>3. CASE tbuf = 0
  <2>1. mutex[1] \in {"thread", "main"}
    BY <1>1, <1>3 DEF TypeOK, Buf, Nobody
  <2>2. mpc \notin Polling
    BY <1>1, <1>3, <2>1 DEF MutexesHeld, Polling, Holding, Buf
  <2>3. ~(mpc \in {"lock", "save"} /\ mbuf = 0)
    BY <1>1, <1>3, <2>1
       DEF Turn, MutexesHeld, HandingOver, Polling, Holding, Buf
  <2> QED
    BY <1>1, <1>3, <2>2, <2>3 DEF NumbersSkip, Counted, main, files
<1> QED
  BY <1>2, <1>3 DEF TypeOK, Buf

(* The number that main sees in buffer 0 has been left there by a thread   *)
(* that is at buffer 1.                                                    *)
LEMMA MainPollsNumbers ==
  ASSUME TypeOK, MutexesHeld, RoundsWhole, FilesKept, Turn, NumbersSkip,
         MainPolls
  PROVE  NumbersSkip'
<1> USE StatsAssumption
<1>1. /\ mpc \in Polling /\ mutex[0] = "main" /\ mbuf = 0
      /\ current' \in {sequence[0]} \cup (IF first THEN {current} ELSE {})
      /\ mpc' = IF sequence[0] = NoSeq THEN "poll_lock" ELSE "lock"
      /\ UNCHANGED <<sequence, mbuf, loops, first>>
  BY DEF MainPolls, Polling, MutexesHeld, FilesKept, Buf, stats
<1>2. CASE sequence[0] = NoSeq
  BY <1>1, <1>2 DEF NumbersSkip, Polling, Holding
<1>3. CASE sequence[0] # NoSeq
  <2>1. tbuf = 1
    BY <1>1, <1>3 DEF MutexesHeld, RoundsWhole, HandingOver, TypeOK, Buf
  <2>2. sequence[0] \in {0, MaxSeq} \/ sequence[0] >= 2
    BY <1>1, <1>3, <2>1 DEF NumbersSkip
  <2>3. current' \in {sequence[0], NoSeq, 0}
    BY <1>1 DEF NumbersSkip
  <2>4. sequence[0] \in Number
    BY <1>3 DEF TypeOK, Buf
  <2>5. Skips(sequence[0], current')
    BY <2>2, <2>3, <2>4 DEF Skips, Number, NoSeq
  <2> QED
    BY <1>1, <1>3, <2>5 DEF NumbersSkip, Polling
<1> QED
  BY <1>2, <1>3

(* The number that buffer 0 gets when the thread comes back to it leaves   *)
(* out at least the one that buffer 1 has.                                 *)
LEMMA ThreadLetsGoNumbers ==
  ASSUME TypeOK, MutexesHeld, RoundsWhole, FilesKept, Turn, NumbersSkip,
         ThreadLetsGo
  PROVE  NumbersSkip'
<1> USE StatsAssumption
<1>1. mpc \notin Holding /\ mpc' = mpc
  BY DEF ThreadLetsGo, ThreadAt, main, MutexesHeld, HandingOver, Buf, TypeOK
<1>2. /\ tpc = "let_go" /\ tpc' = "control"
      /\ sequence' = [sequence EXCEPT ![1 - tbuf] = tseq]
      /\ UNCHANGED <<first, current, loops, mbuf>>
  BY DEF ThreadLetsGo, ThreadAt, main
<1>3. CASE mpc \in Polling \cup {"lock"}
  <2>1. CASE tbuf = 0
    <3>1. sequence'[0] = sequence[0]
      BY <1>2, <2>1 DEF TypeOK, Buf
    <3> QED
      BY <1>1, <1>2, <1>3, <3>1
         DEF NumbersSkip, Skips, Counted, Polling, Holding
  <2>2. CASE tbuf = 1
    <3>1. /\ sequence'[0] = tseq /\ sequence[0] \in Number
          /\ sequence[1] \in Number /\ current \in Number \cup {NoSeq}
      BY <1>2, <1>3, <2>2 DEF RoundsWhole, HandingOver, TypeOK, Buf
    <3>2. /\ Later(sequence[1], sequence[0])
          /\ tseq = IF sequence[1] < MaxSeq THEN sequence[1] + 1 ELSE MaxSeq
      BY <1>2, <1>3, <2>2 DEF RoundsWhole, HandingOver
    <3>3. tseq = MaxSeq \/ tseq >= sequence[0] + 2
      BY <3>1, <3>2 DEF Later, Number
    <3>4. \A m \in Number \cup {NoSeq} : Skips(sequence[0], m) => Skips(tseq, m)
      BY <3>1, <3>3 DEF Skips, TypeOK, Number, NoSeq
    <3>5. mpc \in Polling => sequence'[0] = MaxSeq \/ sequence'[0] >= 2
      BY <3>1, <3>3 DEF TypeOK, Number
    <3>6. mpc = "lock" /\ Counted = 0 => mbuf = 0 /\ Skips(sequence[0], current)
      BY DEF NumbersSkip
    <3>7. mpc = "lock" /\ Counted = 0 => mbuf = 0 /\ Skips(tseq, current)
      BY <3>1, <3>4, <3>6
    <3> QED
      BY <1>1, <1>2, <1>3, <3>1, <3>5, <3>7
         DEF NumbersSkip, Skips, Counted, Polling, Holding
  <2> QED
    BY <2>1, <2>2 DEF TypeOK, Buf
<1>4. CASE mpc \notin Polling \cup {"lock"}
  BY <1>1, <1>2, <1>4 DEF NumbersSkip, Polling, Holding
<1> QED
  BY <1>3, <1>4

(* Nor the numbers. *)
LEMMA NumbersStay == NumbersSkip /\ UNCHANGED vars => NumbersSkip'
  BY DEF vars, stats, thread, main, files, NumbersSkip, Counted, Skips

(* The first number that main sees is 0, the one it starts from, or at     *)
(* least two more.                                                         *)
LEMMA NumbersNext ==
  ASSUME TypeOK, MutexesHeld, RoundsWhole, FilesKept, Turn, NumbersSkip,
         [Next]_vars
  PROVE  NumbersSkip'
<1> USE StatsAssumption
       DEF TypeOK, MutexesHeld, RoundsWhole, FilesKept, Turn, NumbersSkip,
           Skips, Later, Counted, Buf, Number, Round, NoSeq, HandingOver,
           Polling, Holding, stats, thread, main, files
<1>1. CASE ThreadStarts
  BY <1>1 DEF ThreadStarts, ThreadAt, Lock, Nobody
<1>2. CASE ThreadMeasuresFirst
  BY <1>2 DEF ThreadMeasuresFirst, ThreadAt, ThisRound
<1>3. CASE ThreadMeasuresLast
  BY <1>3 DEF ThreadMeasuresLast, ThreadAt, ThisRound
<1>4. CASE ThreadFailsToOpen
  BY <1>4 DEF ThreadFailsToOpen, ThreadAt
<1>5. CASE ThreadFails
  BY <1>5 DEF ThreadFails, ThreadAt
<1>6. CASE ThreadSwaps
  BY <1>6 DEF ThreadSwaps, ThreadAt, Lock, NextSeq, Nobody
<1>7. CASE ThreadLetsGo
  BY <1>7, ThreadLetsGoNumbers
<1>8. CASE ThreadStays
  BY <1>8, ThreadStaysNumbers
<1>9. CASE ThreadReadsControl
  BY <1>9 DEF ThreadReadsControl, ThreadAt
<1>10. CASE ThreadReleases
  BY <1>10 DEF ThreadReleases, ThreadAt, Unlock, Nobody
<1>11. CASE MainStarts
  BY <1>11 DEF MainStarts
<1>12. CASE MainFailsToOpen
  BY <1>12 DEF MainFailsToOpen
<1>13. CASE MainLocksToPoll
  BY <1>13 DEF MainLocksToPoll, Lock, Nobody
<1>14. CASE MainPolls
  BY <1>14, MainPollsNumbers
<1>15. CASE MainLocks
  BY <1>15 DEF MainLocks, Lock, Nobody
<1>16. CASE MainSaves
  BY <1>16 DEF MainSaves
<1>17. CASE MainSavesDone
  BY <1>17 DEF MainSavesDone
<1>18. CASE MainUnlocks
  BY <1>18 DEF MainUnlocks, Unlock, Nobody
<1>19. CASE MainLocksControl
  BY <1>19 DEF MainLocksControl
<1>20. CASE MainStopsThread
  BY <1>20 DEF MainStopsThread
<1>21. CASE MainJoins
  BY <1>21 DEF MainJoins
<1>22. CASE MainEvaluates
  BY <1>22 DEF MainEvaluates
<1>23. CASE MainUnlinks
  BY <1>23 DEF MainUnlinks
<1>24. CASE MainUnlinksDone
  BY <1>24 DEF MainUnlinksDone
<1>25. CASE Restart
  BY <1>25 DEF Restart, Nobody
<1>26. CASE Ended \/ UNCHANGED vars
  BY <1>26, NumbersStay DEF Ended
<1> QED
  BY <1>1, <1>2, <1>3, <1>4, <1>5, <1>6, <1>7, <1>8, <1>9, <1>10, <1>11,
      <1>12, <1>13, <1>14, <1>15, <1>16, <1>17, <1>18, <1>19, <1>20, <1>21,
      <1>22, <1>23, <1>24, <1>25, <1>26
     DEF Next, Thread, Main

(* dropped_stats stays exact: with the first record for the number that    *)
(* main starts from, with every other for the one before it.               *)
LEMMA MainSavesDrops ==
  ASSUME TypeOK, RoundsWhole, FilesKept, Turn, NumbersSkip, DropsExact,
         MainSaves
  PROVE  DropsExact'
<1> USE StatsAssumption
<1> DEFINE n == sequence[mbuf]
<1>1. /\ Counted = loops - 1 /\ loops \in 1..Saves /\ dropped \in 0..Saves
      /\ Counted' = loops \/ mpc' = "error"
  BY DEF MainSaves, Counted, FilesKept, Holding, TypeOK, Results
<1>2. n \in Number /\ current \in Number \cup {NoSeq}
  BY DEF MainSaves, RoundsWhole, HandingOver, Polling, Holding, TypeOK, Buf
<1>3. /\ current' = n
      /\ dropped' = IF n # 0 /\ current + 1 # n THEN dropped + 1 ELSE dropped
      /\ mpc' \in {"save_done", "error"}
  BY DEF MainSaves, Results
<1>4. /\ dropped <= loops - 1
      /\ loops - 1 >= 1 =>
           /\ current # NoSeq
           /\ current < MaxSeq => /\ dropped = 0 <=> current + 1 = loops - 1
                                  /\ dropped <= current + 1 - (loops - 1)
  BY <1>1 DEF MainSaves, DropsExact, HandingOver, Holding
<1>5. IF loops - 1 >= 1 THEN Later(n, current) ELSE Skips(n, current)
  BY <1>1 DEF MainSaves, Turn, NumbersSkip
<1> HIDE DEF n
<1>6. n < MaxSeq => /\ dropped' = 0 <=> n + 1 = loops
                    /\ dropped' <= n + 1 - loops
  <2>1. CASE loops = 1
    BY <1>1, <1>2, <1>3, <1>4, <1>5, <2>1 DEF Skips, Number, NoSeq
  <2>2. CASE loops >= 2
    BY <1>1, <1>2, <1>3, <1>4, <1>5, <2>2 DEF Later, Number, NoSeq
  <2> QED
    BY <1>1, <2>1, <2>2
<1>7. dropped' <= loops
  BY <1>1, <1>3, <1>4
<1> QED
  BY <1>1, <1>2, <1>3, <1>6, <1>7
     DEF DropsExact, HandingOver, Polling, Holding, Number, NoSeq

(* dropped_stats is zero exactly when nothing was lost. *)
LEMMA DropsNext ==
  ASSUME TypeOK, RoundsWhole, FilesKept, Turn, NumbersSkip, DropsExact,
         [Next]_vars
  PROVE  DropsExact'
<1> USE StatsAssumption
       DEF TypeOK, FilesKept, Turn, NumbersSkip, Skips, DropsExact, Later,
           Counted, Buf, Number, Round, NoSeq, HandingOver, Polling, Holding,
           stats, thread, main, files
<1>1. CASE ThreadStarts
  BY <1>1 DEF ThreadStarts, ThreadAt, Lock, Nobody
<1>2. CASE ThreadMeasuresFirst
  BY <1>2 DEF ThreadMeasuresFirst, ThreadAt, ThisRound
<1>3. CASE ThreadMeasuresLast
  BY <1>3 DEF ThreadMeasuresLast, ThreadAt, ThisRound
<1>4. CASE ThreadFailsToOpen
  BY <1>4 DEF ThreadFailsToOpen, ThreadAt
<1>5. CASE ThreadFails
  BY <1>5 DEF ThreadFails, ThreadAt
<1>6. CASE ThreadSwaps
  BY <1>6 DEF ThreadSwaps, ThreadAt, Lock, NextSeq, Nobody
<1>7. CASE ThreadLetsGo
  BY <1>7 DEF ThreadLetsGo, ThreadAt, Unlock, Nobody
<1>8. CASE ThreadStays
  BY <1>8 DEF ThreadStays, ThreadAt, NextSeq, Nobody
<1>9. CASE ThreadReadsControl
  BY <1>9 DEF ThreadReadsControl, ThreadAt
<1>10. CASE ThreadReleases
  BY <1>10 DEF ThreadReleases, ThreadAt, Unlock, Nobody
<1>11. CASE MainStarts
  BY <1>11 DEF MainStarts
<1>12. CASE MainFailsToOpen
  BY <1>12 DEF MainFailsToOpen
<1>13. CASE MainLocksToPoll
  BY <1>13 DEF MainLocksToPoll, Lock, Nobody
<1>14. CASE MainPolls
  BY <1>14 DEF MainPolls, Unlock, Nobody
<1>15. CASE MainLocks
  BY <1>15 DEF MainLocks, Lock, Nobody
<1>16. CASE MainSaves
  BY <1>16, MainSavesDrops
<1>17. CASE MainSavesDone
  BY <1>17 DEF MainSavesDone
<1>18. CASE MainUnlocks
  BY <1>18 DEF MainUnlocks, Unlock, Nobody
<1>19. CASE MainLocksControl
  BY <1>19 DEF MainLocksControl
<1>20. CASE MainStopsThread
  BY <1>20 DEF MainStopsThread
<1>21. CASE MainJoins
  BY <1>21 DEF MainJoins
<1>22. CASE MainEvaluates
  BY <1>22 DEF MainEvaluates
<1>23. CASE MainUnlinks
  BY <1>23 DEF MainUnlinks
<1>24. CASE MainUnlinksDone
  BY <1>24 DEF MainUnlinksDone
<1>25. CASE Restart
  BY <1>25 DEF Restart, Nobody
<1>26. CASE Ended \/ UNCHANGED vars
  BY <1>26 DEF Ended, vars
<1> QED
  BY <1>1, <1>2, <1>3, <1>4, <1>5, <1>6, <1>7, <1>8, <1>9, <1>10, <1>11,
      <1>12, <1>13, <1>14, <1>15, <1>16, <1>17, <1>18, <1>19, <1>20, <1>21,
      <1>22, <1>23, <1>24, <1>25, <1>26
     DEF Next, Thread, Main

-----------------------------------------------------------------------------

(* The invariant is inductive, whatever the thread and main do in turn, and *)
(* wherever the process is killed.                                         *)
THEOREM HandoffInvariance == Spec => []StatsInv
<1>1. StatsInv /\ [Next]_vars => StatsInv'
  BY TypeNext, MutexesNext, RoundsNext, FilesNext, TurnNext, NumbersNext,
     DropsNext DEF StatsInv
<1> QED
  BY StatsInit, <1>1, PTL DEF Spec

(* What main has saved is one whole round of this test, with its number:   *)
(* main has had the mutex of a buffer that the thread has left.            *)
THEOREM RoundsAreWhole == Spec => []RecordWhole
<1>1. StatsInv => RecordWhole
  <2> SUFFICES ASSUME StatsInv, mpc = "unlock"
               PROVE  /\ buffer_ready[loops] = processing_done[loops]
                      /\ processing_done[loops].test = test
                      /\ processing_done[loops].seq = current
    BY DEF StatsInv, RecordWhole, Saved
  <2>1. loops \in 1..Saves
    BY StatsAssumption DEF StatsInv, TypeOK, FilesKept, Holding
  <2>2. /\ buffer_ready[loops] = processing_done[loops]
        /\ processing_done[loops].test = test
        /\ processing_done[loops] = done[mbuf]
    BY <2>1 DEF StatsInv, FilesKept, Stored, HandingOver, Holding
  <2>3. current = sequence[mbuf] /\ mbuf = 1 - tbuf /\ done[mbuf].test = test
    BY DEF StatsInv, Turn, Holding, TypeOK, Buf
  <2>4. done[mbuf].seq = current
    BY <2>3 DEF StatsInv, RoundsWhole, Whole, HandingOver, Holding
  <2> QED
    BY <2>2, <2>4
<1> QED
  BY HandoffInvariance, <1>1, PTL

(* Main evaluates the records of this test, all and only those, though the *)
(* files are never truncated: as many have been written over as any        *)
(* earlier test or process can have left.                                  *)
THEOREM OnlyThisTestCounts == Spec => []EvaluatesThisTest
<1>1. StatsInv => EvaluatesThisTest
  <2> SUFFICES ASSUME StatsInv PROVE EvaluatesThisTest
    OBVIOUS
  <2>1. mpc = "unlink" => samples = Saves
    BY DEF StatsInv, FilesKept
  <2>2. ASSUME mpc = "evaluate"
        PROVE  /\ buffer_ready = processing_done
               /\ Len(buffer_ready) = Saves
               /\ \A k \in 1..Saves : buffer_ready[k].test = test
    <3>1. loops = Saves
      BY <2>2 DEF StatsInv, FilesKept
    <3>2. /\ Len(buffer_ready) <= Saves /\ Len(processing_done) <= Saves
          /\ Len(buffer_ready) >= Saves /\ Len(processing_done) >= Saves
          /\ \A k \in 1..Saves : /\ buffer_ready[k] = processing_done[k]
                                 /\ processing_done[k].test = test
      BY <2>2, <3>1 DEF StatsInv, FilesKept, Counted, Stored
    <3>3. /\ buffer_ready \in Seq(Round \cup {Torn})
          /\ processing_done \in Seq(Round \cup {Torn})
      BY DEF StatsInv, TypeOK
    <3>4. Len(buffer_ready) = Saves /\ Len(processing_done) = Saves
      BY <3>2, <3>3, StatsAssumption
    <3>5. buffer_ready = processing_done
      BY <3>2, <3>3, <3>4, StatsAssumption
    <3> QED
      BY <3>2, <3>4, <3>5
  <2> QED
    BY <2>1, <2>2 DEF EvaluatesThisTest
<1> QED
  BY HandoffInvariance, <1>1, PTL

(* dropped_stats is zero exactly when no round of this test was lost, and  *)
(* is never more than were lost.                                           *)
THEOREM DropsAreCounted == Spec => []DropsCounted
<1>1. StatsInv => DropsCounted
  <2> SUFFICES ASSUME StatsInv, mpc = "unlock", current < MaxSeq
               PROVE  /\ dropped = 0 <=> current + 1 = loops
                      /\ dropped <= current + 1 - loops
    BY DEF DropsCounted, Saved
  <2>1. Counted = loops /\ loops >= 1
    BY DEF StatsInv, FilesKept, Holding, Counted
  <2> QED
    BY <2>1 DEF StatsInv, DropsExact, HandingOver, Holding
<1> QED
  BY HandoffInvariance, <1>1, PTL

(* Rounds are saved in the order in which they were measured: the buffer   *)
(* that main goes to next has a later round, or is the one that the thread *)
(* is at, which will have one when main gets its mutex.                    *)
THEOREM LaterRoundsFollow == Spec => SavedInOrder
<1>1. StatsInv => (MainSaves /\ current' < MaxSeq /\ loops > 1 => current' > current)
  <2> SUFFICES ASSUME StatsInv, MainSaves, current' < MaxSeq, loops > 1
               PROVE  current' > current
    OBVIOUS
  <2>1. mpc = "save" /\ current' = sequence[mbuf]
    BY DEF MainSaves
  <2>2. Counted >= 1
    BY <2>1 DEF Counted, StatsInv, TypeOK
  <2>3. Later(sequence[mbuf], current)
    BY <2>1, <2>2 DEF StatsInv, Turn
  <2> QED
    BY <2>1, <2>3, StatsAssumption DEF Later
<1>2. StatsInv /\ [Next]_vars =>
        [MainSaves /\ current' < MaxSeq /\ loops > 1 => current' > current]_vars
  BY <1>1
<1> QED
  BY HandoffInvariance, <1>1, <1>2, PTL DEF Spec, SavedInOrder

-----------------------------------------------------------------------------
(* The thread and main do not wait longer than they must: while main waits *)
(* for a buffer's mutex the thread is at that buffer, or about to let it   *)
(* go, and nobody has the other one, so that the next trylock succeeds,    *)
(* unless the thread has failed there.  The thread itself waits once, for  *)
(* main that polls (or has given up, which ends the process).              *)
WaitsAreShort ==
  /\ mpc = "lock" /\ mutex[mbuf] # Nobody =>
       /\ mutex[mbuf] = "thread"
       /\ tpc = "let_go" \/ (tbuf = mbuf /\ mutex[1 - mbuf] = Nobody)
  /\ tpc = "lock" /\ mutex[0] = "main" => mpc \in {"poll", "error"}

(* A round is overwritten only if main was saving from the other buffer    *)
(* when it ended, or looking for the first number there; and a thread that *)
(* has been told to stop does so as soon as it looks, so that              *)
(* pthread_join() returns.                                                 *)
MainAtOther ==
  \/ mpc \in Holding /\ mbuf = 1 - tbuf
  \/ mpc = "poll" /\ tbuf = 1

TurnsMeet ==
  [][/\ ThreadStays => MainAtOther
     /\ ThreadReadsControl /\ mpc = "join" => tpc' = "release"]_vars

(* Main has g_mutex_control in one place, and the flag is down after it.   *)
StopTold ==
  /\ control <=> mpc = "control_unlock"
  /\ mpc = "join" => keep_running = 0

(* Only main writes the flag and takes g_mutex_control.                    *)
LEMMA StopToldNext == TypeOK /\ StopTold /\ [Next]_vars => StopTold'
<1> SUFFICES ASSUME TypeOK, StopTold, [Next]_vars PROVE StopTold'
  OBVIOUS
<1> USE DEF StopTold, stats, thread, main, files
<1>1. CASE Thread
  BY <1>1 DEF Thread, ThreadStarts, ThreadMeasuresFirst, ThreadMeasuresLast,
     ThreadFailsToOpen, ThreadFails, ThreadSwaps, ThreadLetsGo, ThreadStays,
     ThreadReadsControl, ThreadReleases, ThreadAt
<1>2. CASE Main
  BY <1>2 DEF Main, MainStarts, MainFailsToOpen, MainLocksToPoll, MainPolls,
     MainLocks, MainSaves, MainSavesDone, MainUnlocks, MainLocksControl,
     MainStopsThread, MainJoins, MainEvaluates, MainUnlinks, MainUnlinksDone
<1>3. CASE Restart
  BY <1>3 DEF Restart
<1>4. CASE Ended \/ UNCHANGED vars
  BY <1>4 DEF Ended, vars
<1> QED
  BY <1>1, <1>2, <1>3, <1>4 DEF Next

(* Main is never kept waiting for more than a round.                       *)
THEOREM NobodyWaitsLong == Spec => []WaitsAreShort
<1>1. StatsInv => WaitsAreShort
  <2> SUFFICES ASSUME StatsInv PROVE WaitsAreShort
    OBVIOUS
  <2>1. TypeOK /\ MutexesHeld /\ RoundsWhole
    BY DEF StatsInv
  <2>2. mbuf \in Buf /\ tbuf \in Buf
        /\ \A b \in Buf : mutex[b] \in {"free", "thread", "main"}
    BY <2>1 DEF TypeOK
  <2>3. ASSUME mpc = "lock", mutex[mbuf] # Nobody
        PROVE  /\ mutex[mbuf] = "thread"
               /\ tpc = "let_go" \/ (tbuf = mbuf /\ mutex[1 - mbuf] = Nobody)
    <3>1. \A b \in Buf : /\ mutex[b] # "main"
                         /\ mutex[b] = "thread" => b = tbuf \/ tpc = "let_go"
      BY <2>1, <2>3 DEF MutexesHeld, HandingOver, Holding, Polling
    <3>2. mutex[mbuf] = "thread"
      BY <2>2, <2>3, <3>1 DEF Nobody
    <3>3. CASE tpc # "let_go"
      BY <2>2, <3>1, <3>2, <3>3 DEF Nobody, Buf
    <3> QED
      BY <3>2, <3>3
  <2>4. ASSUME tpc = "lock", mutex[0] = "main", mpc # "error" PROVE mpc = "poll"
    <3>1. mpc = "poll" \/ mpc \in Holding
      BY <2>1, <2>4 DEF MutexesHeld, Buf
    <3>2. mpc \notin Holding
      BY <2>1, <2>4 DEF RoundsWhole, HandingOver, Holding, Polling
    <3> QED
      BY <3>1, <3>2
  <2> QED
    BY <2>3, <2>4 DEF WaitsAreShort
<1> QED
  BY HandoffInvariance, <1>1, PTL

(* A round is lost only to a main that is saving, and a thread that is     *)
(* told to stop does.                                                      *)
THEOREM TheTurnsMeet == Spec => TurnsMeet
<1>1. Init => StopTold
  BY DEF Init, StopTold
<1>2. Spec => []StopTold
  <2>1. StatsInv => TypeOK
    BY DEF StatsInv
  <2> QED
    BY HandoffInvariance, StopToldNext, <1>1, <2>1, PTL DEF Spec
<1>3. ASSUME StatsInv, ThreadStays PROVE MainAtOther
  BY <1>3 DEF StatsInv, TypeOK, MutexesHeld, ThreadStays, ThreadAt, Nobody,
     Holding, MainAtOther, Buf
<1>4. ASSUME StopTold, ThreadReadsControl, mpc = "join"
      PROVE  tpc' = "release"
  BY <1>4 DEF StopTold, ThreadReadsControl
<1>5. StatsInv /\ StopTold /\ [Next]_vars =>
        [/\ ThreadStays => MainAtOther
         /\ ThreadReadsControl /\ mpc = "join" => tpc' = "release"]_vars
  BY <1>3, <1>4
<1> QED
  BY HandoffInvariance, <1>2, <1>5, PTL DEF Spec, TurnsMeet

-----------------------------------------------------------------------------
(* What is made of the time stamps, for any number of places and any width *)
(* of the timer.                                                           *)

(* count[t] of the samples exceed t: the k-th largest does if at least k   *)
(* of them do, and it is 0 when there are not as many as k samples.        *)
IsLargest(largest, count) ==
  /\ largest \in [Rank -> Tick]
  /\ \A t \in Tick, k \in Rank : largest[k] > t <=> k <= count[t]

IsSmallest(smallest, count) ==
  /\ smallest \in [Rank -> Tick]
  /\ \A t \in Tick, k \in Rank : smallest[k] < t <=> k <= count[t]

CountAbove(count, x) == [t \in Tick |-> count[t] + (IF x > t THEN 1 ELSE 0)]
CountBelow(count, x) == [t \in Tick |-> count[t] + (IF x < t THEN 1 ELSE 0)]

Zero == [t \in Tick |-> 0]

(* A number is its own remainder below the modulus, and the modulus has    *)
(* none.                                                                   *)
LEMMA Remainder ==
  ASSUME NEW n \in Nat, n <= Modulus
  PROVE  n % Modulus = IF n = Modulus THEN 0 ELSE n
  BY StatisticsAssumption, SMTT(30)

(* The difference is right across one turn of the timer, for every width,  *)
(* with 0 for two readings that are the same.                              *)
THEOREM TicksAreElapsed ==
  ASSUME NEW from \in Tick, NEW to \in Tick
  PROVE  /\ Ticks(from, to) \in Tick
         /\ \/ to = from + Ticks(from, to)
            \/ to + Modulus = from + Ticks(from, to)
<1> DEFINE n == (Modulus - 1 - from) + 1 + to
<1>1. CASE to > from
  BY <1>1, StatisticsAssumption DEF Ticks, Tick
<1>2. CASE to <= from
  <2>1. n \in Nat /\ n <= Modulus
    BY <1>2, StatisticsAssumption DEF Tick
  <2>2. Ticks(from, to) = IF n = Modulus THEN 0 ELSE n
    <3>1. n % Modulus = IF n = Modulus THEN 0 ELSE n
      BY <2>1, Remainder
    <3>2. ~(to > from)
      BY <1>2, StatisticsAssumption DEF Tick
    <3> QED
      BY <3>1, <3>2 DEF Ticks
  <2> QED
    BY <2>1, <2>2, <1>2, StatisticsAssumption DEF Tick
<1> QED
  BY <1>1, <1>2, StatisticsAssumption DEF Tick

(* Before the first sample nothing has been exceeded, whatever the padding *)
(* of the places that are not taken: 0 and 0xFFFFFFFF.                     *)
THEOREM NothingKept == IsLargest(NoLargest, Zero) /\ IsSmallest(NoSmallest, Zero)
  BY StatisticsAssumption
     DEF IsLargest, IsSmallest, NoLargest, NoSmallest, Zero, Rank, Tick

(* One sample more, and the places hold the largest of all samples again,  *)
(* in order, equal ones as often as they were measured.                    *)
THEOREM LargestAreKept ==
  ASSUME NEW count \in [Tick -> Nat], NEW largest, IsLargest(largest, count),
         NEW x \in Tick
  PROVE  IsLargest(WithLargest(largest, x), CountAbove(count, x))
<1> DEFINE new == WithLargest(largest, x)
<1>1. ASSUME NEW k \in Rank
      PROVE  new[k] = IF \E j \in 1..(k - 1) : largest[j] < x THEN largest[k - 1]
                      ELSE IF largest[k] < x THEN x ELSE largest[k]
  BY <1>1 DEF WithLargest
<1>2. new \in [Rank -> Tick]
  BY StatisticsAssumption DEF WithLargest, IsLargest, Rank, Tick
<1>3. ASSUME NEW t \in Tick, NEW k \in Rank
      PROVE  new[k] > t <=> k <= count[t] + (IF x > t THEN 1 ELSE 0)
  <2>4. count[t] \in Nat /\ k \in 1..Kept /\ x \in Int /\ t \in Int
    BY StatisticsAssumption DEF Rank, Tick
  <2>1. \A j \in Rank : largest[j] \in Tick /\ (largest[j] > t <=> j <= count[t])
    BY DEF IsLargest
  <2>2. CASE \E j \in 1..(k - 1) : largest[j] < x
    <3> PICK j \in 1..(k - 1) : largest[j] < x
      BY <2>2
    <3>1. j \in Rank /\ k - 1 \in Rank /\ new[k] = largest[k - 1]
      BY <2>2, <1>1, StatisticsAssumption DEF Rank
    <3>2. (largest[j] > t <=> j <= count[t]) /\ largest[j] \in Int
      BY <3>1, <2>1 DEF Tick
    <3>3. (largest[k - 1] > t <=> k - 1 <= count[t]) /\ largest[k - 1] \in Int
      BY <3>1, <2>1 DEF Tick
    <3> HIDE DEF new
    <3> QED
      BY <3>1, <3>2, <3>3, <2>4
  <2>3. CASE ~\E j \in 1..(k - 1) : largest[j] < x
    <3>1. new[k] = IF largest[k] < x THEN x ELSE largest[k]
      BY <2>3, <1>1
    <3>2. k # 1 => k - 1 \in Rank /\ ~(largest[k - 1] < x)
      BY <2>3, StatisticsAssumption DEF Rank
    <3>3. (largest[k] > t <=> k <= count[t]) /\ largest[k] \in Int
      BY <2>1 DEF Tick
    <3>4. k # 1 => /\ largest[k - 1] > t <=> k - 1 <= count[t]
                   /\ largest[k - 1] \in Int
      BY <3>2, <2>1 DEF Tick
    <3> HIDE DEF new
    <3> QED
      BY <3>1, <3>2, <3>3, <3>4, <2>4
  <2> QED
    BY <2>2, <2>3
<1> QED
  BY <1>2, <1>3 DEF IsLargest, CountAbove

(* The same of the smallest.                                               *)
THEOREM SmallestAreKept ==
  ASSUME NEW count \in [Tick -> Nat], NEW smallest, IsSmallest(smallest, count),
         NEW x \in Tick
  PROVE  IsSmallest(WithSmallest(smallest, x), CountBelow(count, x))
<1> DEFINE new == WithSmallest(smallest, x)
<1>1. ASSUME NEW k \in Rank
      PROVE  new[k] = IF \E j \in 1..(k - 1) : smallest[j] > x THEN smallest[k - 1]
                      ELSE IF smallest[k] > x THEN x ELSE smallest[k]
  BY <1>1 DEF WithSmallest
<1>2. new \in [Rank -> Tick]
  BY StatisticsAssumption DEF WithSmallest, IsSmallest, Rank, Tick
<1>3. ASSUME NEW t \in Tick, NEW k \in Rank
      PROVE  new[k] < t <=> k <= count[t] + (IF x < t THEN 1 ELSE 0)
  <2>4. count[t] \in Nat /\ k \in 1..Kept /\ x \in Int /\ t \in Int
    BY StatisticsAssumption DEF Rank, Tick
  <2>1. \A j \in Rank : smallest[j] \in Tick /\ (smallest[j] < t <=> j <= count[t])
    BY DEF IsSmallest
  <2>2. CASE \E j \in 1..(k - 1) : smallest[j] > x
    <3> PICK j \in 1..(k - 1) : smallest[j] > x
      BY <2>2
    <3>1. j \in Rank /\ k - 1 \in Rank /\ new[k] = smallest[k - 1]
      BY <2>2, <1>1, StatisticsAssumption DEF Rank
    <3>2. (smallest[j] < t <=> j <= count[t]) /\ smallest[j] \in Int
      BY <3>1, <2>1 DEF Tick
    <3>3. (smallest[k - 1] < t <=> k - 1 <= count[t]) /\ smallest[k - 1] \in Int
      BY <3>1, <2>1 DEF Tick
    <3> HIDE DEF new
    <3> QED
      BY <3>1, <3>2, <3>3, <2>4
  <2>3. CASE ~\E j \in 1..(k - 1) : smallest[j] > x
    <3>1. new[k] = IF smallest[k] > x THEN x ELSE smallest[k]
      BY <2>3, <1>1
    <3>2. k # 1 => k - 1 \in Rank /\ ~(smallest[k - 1] > x)
      BY <2>3, StatisticsAssumption DEF Rank
    <3>3. (smallest[k] < t <=> k <= count[t]) /\ smallest[k] \in Int
      BY <2>1 DEF Tick
    <3>4. k # 1 => /\ smallest[k - 1] < t <=> k - 1 <= count[t]
                   /\ smallest[k - 1] \in Int
      BY <3>2, <2>1 DEF Tick
    <3> HIDE DEF new
    <3> QED
      BY <3>1, <3>2, <3>3, <3>4, <2>4
  <2> QED
    BY <2>2, <2>3
<1> QED
  BY <1>2, <1>3 DEF IsSmallest, CountBelow
=============================================================================
