--------------------------- MODULE ReadMasterProof ---------------------------
(***************************************************************************)
(* That the reads of the read master never find its FIFO full, and that it *)
(* gives the stream the words of each command, once and in order, for      *)
(* every depth of the FIFO, burst length and word size.                    *)
(***************************************************************************)
EXTENDS ReadMaster, SequenceTheorems, TLAPS

Reserved == Len(fifo) + pending_reads_counter

(* While the read register is set there is room for the burst that may be  *)
(* posted in this very cycle; ReadsHaveRoom alone does not say so.         *)
RoomInv ==
  /\ ReadsHaveRoom
  /\ master_read_reg => Reserved <= FifoDepth - MaxBurst

(* Whole words in a number of bytes.                                       *)
LEMMA WholeWords ==
  ASSUME NEW bytes \in Nat, NEW size \in Nat \ {0}
  PROVE  /\ bytes \div size \in Nat
         /\ size * (bytes \div size) <= bytes
         /\ bytes >= size => bytes \div size >= 1
<1> DEFINE q == bytes \div size
           r == bytes % size
<1>1. q \in Int /\ r \in 0..(size - 1) /\ bytes = size * q + r
  BY SMTT(60)
<1> HIDE DEF q, r
<1>2. q >= 0
  BY <1>1, SMTT(60)
<1>3. bytes >= size => q >= 1
  BY <1>1, SMTT(60)
<1>4. size * q <= bytes
  BY <1>1, SMTT(60)
<1> QED
  BY <1>1, <1>2, <1>3, <1>4 DEF q

(* A burst is one of 1 to MaxBurst words, and it does not pass the end of  *)
(* what is left to read.                                                   *)
LEMMA BurstFits ==
  ASSUME TypeOK, ~done
  PROVE  /\ master_burstcount \in 1..MaxBurst
         /\ bytes_to_transfer \in 1..length_counter
<1> USE ReadMasterAssumption DEF TypeOK, done
<1>1. length_counter \in Nat \ {0} /\ WordBytes \in Nat \ {0} /\ MaxBurst \in Nat \ {0}
  OBVIOUS
<1>2. /\ length_counter \div WordBytes \in Nat
      /\ WordBytes * (length_counter \div WordBytes) <= length_counter
      /\ length_counter >= WordBytes => length_counter \div WordBytes >= 1
  BY <1>1, WholeWords
<1>3. CASE short_last_access_enable
  <2>1. length_counter < WordBytes /\ master_burstcount = 1
    BY <1>3 DEF short_last_access_enable, burst_of_one_enable, master_burstcount
  <2>2. length_counter % WordBytes = length_counter
    BY <2>1, <1>1, SMTT(30)
  <2> QED
    BY <2>1, <2>2, <1>1, <1>3 DEF bytes_to_transfer
<1>4. CASE ~short_last_access_enable
  <2> DEFINE words == length_counter \div WordBytes
  <2>1. words \in Nat /\ words >= 1 /\ WordBytes * words <= length_counter
    BY <1>1, <1>2, <1>4 DEF short_last_access_enable
  <2>2. master_burstcount \in 1..MaxBurst /\ master_burstcount <= words
    <3> HIDE DEF words
    <3>1. short_burst_enable <=> words < MaxBurst
      BY DEF short_burst_enable, words
    <3>2. master_burstcount = 1 \/ (short_burst_enable /\ master_burstcount = words)
            \/ (~short_burst_enable /\ master_burstcount = MaxBurst)
      BY DEF master_burstcount, words
    <3> QED
      BY <2>1, <3>1, <3>2, <1>1
  <2>3. bytes_to_transfer = WordBytes * master_burstcount
    BY <1>4 DEF bytes_to_transfer
  <2> HIDE DEF words
  <2>4. WordBytes * master_burstcount <= WordBytes * words
    BY <2>1, <2>2, <1>1, SMTT(30)
  <2>5. WordBytes * master_burstcount >= 1 /\ WordBytes * master_burstcount \in Int
    BY <2>2, <1>1, SMTT(30)
  <2>6. WordBytes * words \in Int
    BY <2>1, <1>1
  <2> QED
    BY <2>1, <2>2, <2>3, <2>4, <2>5, <2>6, <1>1
<1> QED
  BY <1>3, <1>4

(* The words of a burst are as many as its length says.                    *)
LEMMA WordsOfBurst ==
  ASSUME NEW first \in Nat, NEW n \in Nat
  PROVE  Words(first, n) \in Seq(Nat) /\ Len(Words(first, n)) = n
BY DEF Words

(* What the FIFO and the reads in flight are after a cycle.                *)
LEMMA WordsMove ==
  ASSUME fifo \in Seq(Nat), in_flight \in Seq(Nat), address_counter \in Nat,
         NEW read_complete \in BOOLEAN,
         read_complete => master_burstcount \in Nat, NEW returns \in BOOLEAN,
         NEW takes \in BOOLEAN,
         returns => in_flight # <<>>, takes => fifo # <<>>,
         DataNext(read_complete, returns, takes)
  PROVE  /\ fifo' \in Seq(Nat) /\ in_flight' \in Seq(Nat)
         /\ Len(fifo') = Len(fifo) - (IF takes THEN 1 ELSE 0)
                                   + (IF returns THEN 1 ELSE 0)
         /\ Len(in_flight') = Len(in_flight) - (IF returns THEN 1 ELSE 0)
                                + (IF read_complete THEN master_burstcount ELSE 0)
<1> DEFINE left == IF takes THEN Tail(fifo) ELSE fifo
           new == IF returns THEN <<Head(in_flight)>> ELSE <<>>
           unread == IF returns THEN Tail(in_flight) ELSE in_flight
           posted == IF read_complete
                       THEN Words(address_counter, master_burstcount) ELSE <<>>
<1>1. left \in Seq(Nat) /\ Len(left) = Len(fifo) - (IF takes THEN 1 ELSE 0)
  BY HeadTailProperties, EmptySeq, LenProperties
<1>2. new \in Seq(Nat) /\ Len(new) = IF returns THEN 1 ELSE 0
  BY HeadTailProperties, EmptySeq
<1>3. /\ unread \in Seq(Nat)
      /\ Len(unread) = Len(in_flight) - (IF returns THEN 1 ELSE 0)
  BY HeadTailProperties, EmptySeq, LenProperties
<1>4. /\ posted \in Seq(Nat)
      /\ Len(posted) = IF read_complete THEN master_burstcount ELSE 0
  <2>1. ASSUME read_complete
        PROVE  /\ Words(address_counter, master_burstcount) \in Seq(Nat)
               /\ Len(Words(address_counter, master_burstcount)) = master_burstcount
    BY <2>1, WordsOfBurst
  <2>2. <<>> \in Seq(Nat) /\ Len(<<>>) = 0
    BY EmptySeq
  <2>3. CASE read_complete
    BY <2>1, <2>3
  <2>4. CASE ~read_complete
    BY <2>2, <2>4
  <2> QED
    BY <2>3, <2>4
<1>5. fifo' = left \o new /\ in_flight' = unread \o posted
  BY DEF DataNext
<1> HIDE DEF left, new, unread, posted
<1>6. /\ left \o new \in Seq(Nat) /\ Len(left \o new) = Len(left) + Len(new)
      /\ unread \o posted \in Seq(Nat)
      /\ Len(unread \o posted) = Len(unread) + Len(posted)
  BY <1>1, <1>2, <1>3, <1>4, ConcatProperties
<1> QED
  BY <1>1, <1>2, <1>3, <1>4, <1>5, <1>6

(* At first the FIFO is empty and nothing is on its way.                   *)
LEMMA RoomInit == Init => RoomInv
<1> SUFFICES ASSUME Init PROVE RoomInv
  OBVIOUS
<1>1. fifo = <<>> /\ in_flight = <<>> /\ Len(fifo) = 0 /\ Len(in_flight) = 0
      /\ fifo \in Seq(Nat) /\ in_flight \in Seq(Nat)
  BY EmptySeq DEF Init
<1>2. /\ commands = 0 /\ pending_reads_counter = 0 /\ ~master_read_reg
      /\ MaxCommands \in Nat /\ FifoDepth \in Nat
  BY ReadMasterAssumption DEF Init
<1>3. commands \in 0..MaxCommands /\ pending_reads_counter \in 0..FifoDepth
  BY <1>2
<1>4. TypeOK
  <2>1. settled \in 0..3
    BY DEF Init
  <2>2. address_counter \in Nat /\ length_counter \in Nat
    BY DEF Init
  <2> QED
    BY <1>1, <1>3, <2>1, <2>2, Zenon DEF Init, TypeOK
<1> QED
  BY <1>1, <1>2, <1>4 DEF RoomInv, ReadsHaveRoom

(* One cycle keeps the invariant: a burst that is posted uses the room     *)
(* that the read register stands for, and the register is only set, or     *)
(* stays set, where there is room for one more.                            *)
LEMMA RoomStep == RoomInv /\ [Next]_vars => RoomInv'
<1> SUFFICES ASSUME RoomInv, [Next]_vars PROVE RoomInv'
  OBVIOUS
<1> USE ReadMasterAssumption
<1>1. CASE UNCHANGED vars
  BY <1>1 DEF RoomInv, ReadsHaveRoom, TypeOK, Reserved, vars, counters, handshake,
              dispatcher
<1>2. ASSUME NEW go \in Given, NEW read_complete \in BOOLEAN,
             NEW returns \in BOOLEAN, NEW takes \in BOOLEAN,
             Cycle(go, read_complete, returns, takes)
      PROVE  RoomInv'
  <2>1. /\ TypeOK /\ pending_reads_counter = Len(in_flight)
        /\ Len(fifo) + pending_reads_counter <= FifoDepth
        /\ master_read_reg => Len(fifo) + pending_reads_counter <= FifoDepth - MaxBurst
    BY DEF RoomInv, ReadsHaveRoom, Reserved
  <2>2. /\ read_complete => master_read_reg /\ ~done
        /\ returns => in_flight # <<>>
        /\ takes => fifo # <<>>
    BY <1>2 DEF Cycle, master_read
  <2>3. ~done => /\ master_burstcount \in 1..MaxBurst
                 /\ bytes_to_transfer \in 1..length_counter
    BY <2>1, BurstFits
  <2> DEFINE posted == IF read_complete THEN master_burstcount ELSE 0
             returned == IF returns THEN 1 ELSE 0
             taken == IF takes THEN 1 ELSE 0
  <2>4. /\ fifo' \in Seq(Nat) /\ in_flight' \in Seq(Nat)
        /\ Len(fifo') = Len(fifo) - taken + returned
        /\ Len(in_flight') = Len(in_flight) - returned + posted
    <3>1. DataNext(read_complete, returns, takes)
      BY <1>2 DEF Cycle
    <3>2. fifo \in Seq(Nat) /\ in_flight \in Seq(Nat) /\ address_counter \in Nat
      BY <2>1 DEF TypeOK
    <3> QED
      BY <3>1, <3>2, <2>2, <2>3, WordsMove
  <2>5. pending_reads_counter' = pending_reads_counter + posted - returned
    BY <1>2 DEF Cycle, CountersNext
  <2>6. posted \in 0..MaxBurst /\ returned \in 0..1 /\ taken \in 0..1
    BY <2>2, <2>3
  <2>7. /\ Len(fifo) \in Nat /\ Len(in_flight) \in Nat
        /\ returned = 1 => Len(in_flight) >= 1
        /\ taken = 1 => Len(fifo) >= 1
    BY <2>1, <2>2, LenProperties, EmptySeq DEF TypeOK
  <2> HIDE DEF posted, returned, taken
  <2>8. /\ pending_reads_counter' = Len(in_flight')
        /\ pending_reads_counter' \in Nat
        /\ Reserved' = Reserved + posted - taken
    BY <2>1, <2>4, <2>5, <2>6, <2>7 DEF Reserved
  <2>9. Reserved' <= FifoDepth
    <3>1. CASE read_complete
      BY <3>1, <2>1, <2>2, <2>6, <2>7, <2>8 DEF Reserved
    <3>2. CASE ~read_complete
      BY <3>2, <2>1, <2>6, <2>7, <2>8 DEF Reserved, posted
    <3> QED
      BY <3>1, <3>2
  <2>10. master_read_reg' => Reserved' <= FifoDepth - MaxBurst
    <3> SUFFICES ASSUME master_read_reg'
                 PROVE  Reserved' <= FifoDepth - MaxBurst
      OBVIOUS
    <3>1. \/ ~too_many_pending_reads
          \/ master_read_reg /\ ~read_complete
      BY <1>2 DEF Cycle, ReadNext
    <3>2. CASE ~too_many_pending_reads
      <4>1. Reserved <= FifoDepth - 2 * MaxBurst
        BY <3>2, <2>1, <2>7 DEF too_many_pending_reads, Reserved, TypeOK
      <4> QED
        BY <4>1, <2>1, <2>6, <2>7, <2>8 DEF Reserved, TypeOK
    <3>3. CASE master_read_reg /\ ~read_complete
      BY <3>3, <2>1, <2>6, <2>7, <2>8 DEF Reserved, posted, TypeOK
    <3> QED
      BY <3>1, <3>2, <3>3
  <2>11. TypeOK'
    <3>1. \/ go = <<>>
          \/ Len(go) = 1 /\ go[1] \in Command /\ commands < MaxCommands
      BY DEF Given
    <3>2. /\ address_counter' \in Nat
          /\ length_counter' \in Nat
      <4>1. go # <<>> => go[1].start \in Nat /\ go[1].bytes \in Nat
        BY <3>1 DEF Command
      <4>2. read_complete => /\ address_counter + master_burstcount \in Nat
                             /\ length_counter - bytes_to_transfer \in Nat
        BY <2>1, <2>2, <2>3 DEF TypeOK
      <4> QED
        BY <1>2, <4>1, <4>2, <2>1 DEF Cycle, CountersNext, TypeOK
    <3>3. pending_reads_counter' \in 0..FifoDepth
      BY <2>4, <2>8, <2>9, LenProperties DEF Reserved
    <3>4. /\ snk_command_ready' \in BOOLEAN /\ src_response_valid' \in BOOLEAN
          /\ done_d1' \in BOOLEAN /\ all_reads_returned_d1' \in BOOLEAN
          /\ early_done_enable_d1' \in BOOLEAN
      <4>1. go # <<>> => go[1].early_done \in BOOLEAN
        BY <3>1 DEF Command
      <4> QED
        BY <1>2, <4>1, <2>1, Zenon
        DEF Cycle, HandshakeNext, TypeOK, done, all_reads_returned
    <3>5. master_read_reg' \in BOOLEAN /\ flush' \in BOOLEAN /\ stopped' \in BOOLEAN
      BY <1>2, <2>1, Zenon DEF Cycle, ReadNext, StopNext, TypeOK
    <3>6. sw_stop' \in BOOLEAN /\ sw_reset' \in BOOLEAN /\ cut' \in BOOLEAN
      BY <1>2, <2>1, Zenon DEF Cycle, DispatcherNext, TypeOK
    <3>7. settled' \in 0..3
      BY <1>2, <2>1 DEF Cycle, DispatcherNext, TypeOK
    <3>8. commands' \in 0..MaxCommands
      <4>1. commands' = commands + Len(go)
        BY <1>2 DEF Cycle, DispatcherNext
      <4>2. commands \in 0..MaxCommands /\ MaxCommands \in Nat
        BY <2>1 DEF TypeOK
      <4>3. CASE go = <<>>
        <5>1. Len(go) = 0
          BY <4>3, EmptySeq
        <5> QED
          BY <4>1, <4>2, <5>1
      <4>4. CASE Len(go) = 1 /\ commands < MaxCommands
        BY <4>1, <4>2, <4>4
      <4> QED
        BY <3>1, <4>3, <4>4
    <3> QED
      BY <2>4, <3>2, <3>3, <3>4, <3>5, <3>6, <3>7, <3>8 DEF TypeOK
  <2> QED
    BY <2>8, <2>9, <2>10, <2>11 DEF RoomInv, ReadsHaveRoom, Reserved
<1> QED
  BY <1>1, <1>2 DEF Next

(* In every execution the read register is only set where a burst fits.    *)
THEOREM RoomInvariance == Spec => []RoomInv
<1> QED
  BY RoomInit, RoomStep, PTL DEF Spec

(* The words of every read that was posted fit in the FIFO, whatever its   *)
(* depth, the burst length, the word size and the transfers, and however   *)
(* slow the slave and the stream are.                                      *)
THEOREM ReadsAlwaysHaveRoom == Spec => []ReadsHaveRoom
<1>1. RoomInv => ReadsHaveRoom
  BY DEF RoomInv
<1> QED
  BY <1>1, RoomInvariance, PTL

-----------------------------------------------------------------------------
(* The quotient and the remainder of a division are unique.                *)
LEMMA QuotientUnique ==
  ASSUME NEW size \in Nat \ {0}, NEW p \in Int, NEW q \in Int,
         NEW r \in 0..(size - 1), NEW s \in 0..(size - 1),
         size * p + r = size * q + s
  PROVE  p = q
<1>1. size * (p - q) = s - r
  BY SMT
<1>2. CASE p - q >= 1
  <2>1. size * (p - q) >= size * 1
    BY <1>2, SMT
  <2> QED
    BY <1>1, <2>1, SMT
<1>3. CASE q - p >= 1
  <2>1. size * (q - p) >= size * 1
    BY <1>3, SMT
  <2>2. size * (q - p) = r - s
    BY SMT
  <2> QED
    BY <2>1, <2>2, SMT
<1> QED
  BY <1>2, <1>3

(* Whole multiples come off the quotient.                                  *)
LEMMA QuotientShift ==
  ASSUME NEW size \in Nat \ {0}, NEW a \in Nat, NEW b \in Nat, size * b <= a
  PROVE  (a - size * b) \div size = a \div size - b
<1> DEFINE p == a \div size    r == a % size
           c == a - size * b
           q == c \div size    s == c % size
<1>1. size * b \in Nat /\ c \in Nat
  BY SMT
<1>2. p \in Int /\ r \in 0..(size - 1) /\ a = size * p + r
  BY SMT
<1> HIDE DEF c
<1>3. q \in Int /\ s \in 0..(size - 1) /\ c = size * q + s
  BY <1>1, SMT
<1> HIDE DEF p, r, q, s
<1>4. size * (p - b) + r = size * q + s
  <2>1. size * (p - b) = size * p - size * b
    BY <1>2, SMT
  <2> QED
    BY <2>1, <1>1, <1>2, <1>3, SMT DEF c
<1>5. p - b = q
  BY <1>2, <1>3, <1>4, QuotientUnique
<1> QED
  BY <1>5 DEF p, q, c

(* The words of a number of bytes, the last one of which may be short.     *)
LEMMA WordsOfLength ==
  ASSUME ReadMasterAssumption
  PROVE  /\ InWords(0) = 0
         /\ \A bytes \in Nat : InWords(bytes) \in Nat
         /\ \A bytes \in 1..WordBytes : InWords(bytes) = 1
         /\ \A bytes \in Nat \ {0} : InWords(bytes) >= 1
<1>1. WordBytes \in Nat \ {0}
  BY ReadMasterAssumption
<1>2. ASSUME NEW bytes \in Nat
      PROVE  /\ InWords(bytes) \in Nat
             /\ bytes >= 1 => InWords(bytes) >= 1
  BY <1>1, <1>2, WholeWords DEF InWords
<1>3. ASSUME NEW bytes \in 0..WordBytes
      PROVE  InWords(bytes) = IF bytes = 0 THEN 0 ELSE 1
  <2> DEFINE a == bytes + WordBytes - 1
             p == a \div WordBytes   r == a % WordBytes
  <2>1. a \in Nat
    BY <1>1
  <2> HIDE DEF a
  <2>2. p \in Int /\ r \in 0..(WordBytes - 1) /\ a = WordBytes * p + r
    BY <1>1, <2>1, SMT
  <2> HIDE DEF p, r
  <2>3. CASE bytes = 0
    <3>1. WordBytes * 0 + a = WordBytes * p + r /\ a \in 0..(WordBytes - 1)
      BY <1>1, <2>2, <2>3 DEF a
    <3>2. p = 0
      BY <1>1, <2>2, <3>1, QuotientUnique
    <3> QED
      BY <3>2, <2>3 DEF InWords, p, a
  <2>4. CASE bytes # 0
    <3>1. WordBytes * 1 + (bytes - 1) = WordBytes * p + r
          /\ bytes - 1 \in 0..(WordBytes - 1)
      BY <1>1, <2>2, <2>4 DEF a
    <3>2. p = 1
      BY <1>1, <2>2, <3>1, QuotientUnique
    <3> QED
      BY <3>2, <2>4 DEF InWords, p, a
  <2> QED
    BY <2>3, <2>4
<1> QED
  BY <1>1, <1>2, <1>3

(* A burst takes its words off the words that are left.                    *)
LEMMA BurstTakesWords ==
  ASSUME TypeOK, ~done
  PROVE  /\ master_burstcount \in Nat
         /\ length_counter - bytes_to_transfer \in Nat
         /\ InWords(length_counter - bytes_to_transfer) \in Nat
         /\ InWords(length_counter)
              = master_burstcount + InWords(length_counter - bytes_to_transfer)
<1> USE ReadMasterAssumption
<1>1. /\ length_counter \in Nat \ {0} /\ WordBytes \in Nat \ {0}
      /\ master_burstcount \in Nat /\ bytes_to_transfer \in 1..length_counter
  BY BurstFits DEF TypeOK, done
<1>2. CASE short_last_access_enable
  <2>1. length_counter < WordBytes /\ master_burstcount = 1
    BY <1>2 DEF short_last_access_enable, burst_of_one_enable, master_burstcount
  <2>2. length_counter % WordBytes = length_counter
    BY <2>1, <1>1, SMTT(30)
  <2> QED
    BY <1>1, <1>2, <2>1, <2>2, WordsOfLength DEF bytes_to_transfer
<1>3. CASE ~short_last_access_enable
  <2>1. bytes_to_transfer = WordBytes * master_burstcount
    BY <1>3 DEF bytes_to_transfer
  <2> DEFINE a == length_counter + WordBytes - 1
  <2>2. a \in Nat /\ WordBytes * master_burstcount <= a
    BY <1>1, <2>1
  <2>3. (a - WordBytes * master_burstcount) \div WordBytes
          = a \div WordBytes - master_burstcount
    BY <1>1, <2>2, QuotientShift
  <2> DEFINE left == length_counter - bytes_to_transfer
  <2>4. left \in Nat /\ a - WordBytes * master_burstcount = left + WordBytes - 1
    BY <1>1, <2>1
  <2>5. InWords(left) = InWords(length_counter) - master_burstcount
    BY <2>3, <2>4 DEF InWords
  <2>6. InWords(left) \in Nat /\ InWords(length_counter) \in Nat
    BY <1>1, <2>4, WordsOfLength
  <2> QED
    BY <1>1, <2>4, <2>5, <2>6
<1> QED
  BY <1>2, <1>3

(* Two runs of consecutive words are one.                                  *)
LEMMA WordsConcat ==
  ASSUME NEW first \in Nat, NEW n \in Nat, NEW m \in Nat
  PROVE  Words(first, n) \o Words(first + n, m) = Words(first, n + m)
BY DEF Words

(* A burst of no words is empty.                                           *)
LEMMA NoWords == \A first \in Nat : Words(first, 0) = <<>>
BY DEF Words

(* The first word comes off a sequence before what is appended to it.      *)
LEMMA TailOfConcat ==
  ASSUME NEW s \in Seq(Nat), NEW t \in Seq(Nat), s # <<>>
  PROVE  Head(s \o t) = Head(s) /\ Tail(s \o t) = Tail(s) \o t
OBVIOUS


-----------------------------------------------------------------------------
(* A command is only taken, and answered, when nothing is left to read, or *)
(* to return unless it may be answered early; and no edge is left over     *)
(* that would answer the next command with it.                             *)
AnswerInv ==
  /\ snk_command_ready => ~src_response_valid
  /\ snk_command_ready \/ src_response_valid =>
       /\ done /\ done_d1
       /\ early_done_enable_d1 \/ (all_reads_returned /\ all_reads_returned_d1)

(* One cycle keeps that.                                                   *)
LEMMA AnswerStep ==
  ASSUME RoomInv, AnswerInv, [Next]_vars PROVE AnswerInv'
<1> USE DEF AnswerInv, done, all_reads_returned
<1>1. CASE UNCHANGED vars
  BY <1>1 DEF vars, counters, handshake
<1>2. ASSUME NEW go \in Given, NEW read_complete \in BOOLEAN,
             NEW returns \in BOOLEAN, NEW takes \in BOOLEAN,
             Cycle(go, read_complete, returns, takes)
      PROVE  AnswerInv'
  <2>1. /\ go # <<>> => snk_command_ready
        /\ read_complete => ~done
        /\ returns => pending_reads_counter # 0
    <3>1. go # <<>> => snk_command_ready
      BY DEF Given
    <3>2. pending_reads_counter = Len(in_flight) /\ in_flight \in Seq(Nat)
      BY DEF RoomInv, ReadsHaveRoom, TypeOK
    <3>3. returns => in_flight # <<>>
      BY <1>2 DEF Cycle
    <3>4. in_flight # <<>> => Len(in_flight) # 0
      BY <3>2, EmptySeq
    <3> QED
      BY <1>2, <3>1, <3>2, <3>3, <3>4 DEF Cycle, master_read
  <2>2. CASE go # <<>>
    BY <1>2, <2>1, <2>2, Zenon
       DEF Cycle, HandshakeNext, set_src_response_valid
  <2>3. CASE go = <<>>
    <3>1. /\ early_done_enable_d1' = early_done_enable_d1
          /\ done_d1' = done /\ all_reads_returned_d1' = all_reads_returned
          /\ snk_command_ready' = (snk_command_ready \/ src_response_valid)
          /\ src_response_valid' = (~flush /\ set_src_response_valid)
      BY <1>2, <2>3, Zenon DEF Cycle, HandshakeNext
    <3>2. done => done'
      BY <1>2, <2>1, <2>3 DEF Cycle, CountersNext
    <3>3. all_reads_returned => all_reads_returned'
      BY <1>2, <2>1, <3>2 DEF Cycle, CountersNext
    <3>4. src_response_valid' =>
            /\ done /\ ~snk_command_ready /\ ~src_response_valid
            /\ early_done_enable_d1 \/ all_reads_returned
      BY <3>1, Zenon DEF set_src_response_valid
    <3>5. snk_command_ready' => ~src_response_valid'
      BY <3>1, <3>4, Zenon
    <3> QED
      BY <3>1, <3>2, <3>3, <3>4, <3>5, Zenon
  <2> QED
    BY <2>2, <2>3
<1> QED
  BY <1>1, <1>2 DEF Next

(* What the stream still has to get.                                       *)
Unread == in_flight \o Words(address_counter, InWords(length_counter))

(* At first there is nothing to read.                                      *)
LEMMA StreamInit == Init => Stream!Init
<1> SUFFICES ASSUME Init PROVE Stream!Init
  OBVIOUS
<1>1. Words(0, 0) = <<>> /\ <<>> \o <<>> = <<>>
  BY DEF Words
<1> QED
  BY <1>1, WordsOfLength, ReadMasterAssumption DEF Init, Stream!Init

(* The empty sequence, for sequences of words.                             *)
LEMMA EmptyConcat ==
  ASSUME NEW s \in Seq(Nat)
  PROVE  s \o <<>> = s /\ <<>> \o s = s
BY ConcatEmptySeq

(* What is left to read after a cycle: the word that has returned is off,  *)
(* and those of the new command are on, but for a reset that cuts them.    *)
LEMMA UnreadStep ==
  ASSUME RoomInv, RoomInv', AnswerInv,
         NEW go \in Given, NEW read_complete \in BOOLEAN,
         NEW returns \in BOOLEAN, NEW takes \in BOOLEAN,
         Cycle(go, read_complete, returns, takes),
         NEW asked,
         asked = IF go = <<>> THEN <<>>
                 ELSE Words(go[1].start, InWords(go[1].bytes)),
         NEW rest,
         rest = IF returns THEN Tail(Unread) ELSE Unread
  PROVE  \/ Unread' = rest \o asked
         \/ flush /\ Unread' \in Stream!Prefixes(rest \o asked)
<1> USE ReadMasterAssumption
<1>1. /\ TypeOK /\ TypeOK' /\ pending_reads_counter = Len(in_flight)
      /\ address_counter \in Nat /\ length_counter \in Nat
      /\ in_flight \in Seq(Nat) /\ in_flight' \in Seq(Nat)
  BY DEF RoomInv, ReadsHaveRoom, TypeOK
<1>2. /\ returns => in_flight # <<>>
      /\ read_complete => ~done
      /\ CountersNext(go, read_complete, returns)
      /\ DataNext(read_complete, returns, takes)
  BY DEF Cycle, master_read
<1>3. \/ go = <<>>
      \/ /\ go # <<>> /\ done /\ ~read_complete
         /\ go[1].start \in Nat /\ go[1].bytes \in Nat
  <2>1. go # <<>> => snk_command_ready /\ \E c \in Command : go = <<c>>
    BY DEF Given
  <2>2. ASSUME NEW c \in Command, go = <<c>>
        PROVE  go[1].start \in Nat /\ go[1].bytes \in Nat
    <3>1. go[1] = c
      BY <2>2
    <3>2. c.start \in Nat /\ c.bytes \in Nat
      BY DEF Command
    <3> QED
      BY <3>1, <3>2
  <2> QED
    BY <1>2, <2>1, <2>2, Zenon DEF AnswerInv
<1> DEFINE left == IF returns THEN Tail(in_flight) ELSE in_flight
           words == Words(address_counter, InWords(length_counter))
           posted == IF read_complete
                       THEN Words(address_counter, master_burstcount) ELSE <<>>
<1>4. words \in Seq(Nat) /\ asked \in Seq(Nat)
  BY <1>1, <1>3, WordsOfLength, WordsOfBurst, EmptySeq
<1>5. left \in Seq(Nat)
  BY <1>1, <1>2, HeadTailProperties
<1>6. rest = left \o words
  <2>1. Unread = in_flight \o words
    BY DEF Unread
  <2> HIDE DEF words
  <2>2. returns => Tail(in_flight \o words) = Tail(in_flight) \o words
    BY <1>1, <1>2, <1>4, TailOfConcat
  <2> QED
    BY <2>1, <2>2
<1>7. in_flight' = left \o posted
  BY <1>2 DEF DataNext
<1>8. done => words = <<>>
  BY <1>1, WordsOfLength, NoWords DEF done
<1>9. CASE length_sync_reset
  <2>1. flush /\ in_flight = <<>> /\ length_counter' = 0
    <3>1. flush /\ pending_reads_counter = 0 /\ length_counter' = 0
      BY <1>2, <1>9 DEF length_sync_reset, CountersNext
    <3> QED
      BY <1>1, <3>1, EmptySeq
  <2>2. Words(address_counter', InWords(length_counter')) = <<>>
    BY <1>1, <2>1, WordsOfLength, NoWords DEF TypeOK
  <2>3. Unread' = posted /\ rest = words
    <3>1. left = <<>>
      BY <1>2, <2>1
    <3>2. posted \in Seq(Nat)
      BY <1>1, <1>2, BurstTakesWords, WordsOfBurst, EmptySeq
    <3> HIDE DEF left, words, posted
    <3> QED
      BY <3>1, <3>2, <1>4, <1>6, <1>7, <2>2, EmptyConcat DEF Unread
  <2> DEFINE all == rest \o asked
  <2>4. all \in Seq(Nat)
    BY <1>4, <2>3, ConcatProperties
  <2>5. \E n \in 0..Len(all) : posted = SubSeq(all, 1, n)
    <3>1. CASE ~read_complete
      <4> HIDE DEF all
      <4>1. 0 \in 0..Len(all)
        BY <2>4, LenProperties
      <4>2. SubSeq(all, 1, 0) = <<>>
        BY SubSeqEmpty
      <4> QED
        BY <3>1, <4>1, <4>2
    <3>2. CASE read_complete
      <4>1. /\ master_burstcount \in Nat /\ InWords(length_counter) \in Nat
            /\ master_burstcount <= InWords(length_counter)
        BY <1>1, <1>2, <3>2, BurstTakesWords
      <4>2. rest \o asked = words
        BY <1>2, <1>3, <1>4, <2>3, <3>2, EmptyConcat
      <4>3. Len(words) = InWords(length_counter)
        BY <1>1, <4>1, WordsOfBurst
      <4>4. posted = SubSeq(words, 1, master_burstcount)
        BY <3>2, <4>1, <1>1 DEF Words
      <4> HIDE DEF posted, words
      <4>5. master_burstcount \in 0..Len(words)
        BY <4>1, <4>3
      <4> QED
        BY <4>2, <4>4, <4>5
    <3> QED
      BY <3>1, <3>2
  <2> QED
    BY <2>1, <2>3, <2>5 DEF Stream!Prefixes
<1>10. CASE ~length_sync_reset /\ go # <<>>
  <2>1. Words(address_counter', InWords(length_counter')) = asked
    BY <1>2, <1>10 DEF CountersNext
  <2>2. Unread' = left \o asked
    <3>1. posted = <<>>
      BY <1>3, <1>10
    <3> HIDE DEF left, posted
    <3> QED
      BY <3>1, <1>5, <1>7, <2>1, EmptyConcat DEF Unread
  <2>3. rest = left
    <3> HIDE DEF left, words
    <3> QED
      BY <1>3, <1>5, <1>6, <1>8, <1>10, EmptyConcat
  <2> QED
    BY <2>2, <2>3
<1>11. CASE ~length_sync_reset /\ go = <<>> /\ read_complete
  <2> DEFINE more == Words(address_counter + master_burstcount,
                           InWords(length_counter - bytes_to_transfer))
  <2>1. /\ master_burstcount \in Nat
        /\ length_counter - bytes_to_transfer \in Nat
        /\ InWords(length_counter - bytes_to_transfer) \in Nat
        /\ InWords(length_counter)
             = master_burstcount + InWords(length_counter - bytes_to_transfer)
    BY <1>1, <1>2, <1>11, BurstTakesWords
  <2>2. /\ address_counter' = address_counter + master_burstcount
        /\ length_counter' = length_counter - bytes_to_transfer
    BY <1>2, <1>11 DEF CountersNext
  <2>3. words = posted \o more
    <3> DEFINE m == InWords(length_counter - bytes_to_transfer)
    <3>1. m \in Nat
      BY <2>1
    <3> HIDE DEF m
    <3>2. Words(address_counter, master_burstcount)
            \o Words(address_counter + master_burstcount, m)
          = Words(address_counter, master_burstcount + m)
      BY <1>1, <2>1, <3>1, WordsConcat, ZenonT(30)
    <3>3. words = Words(address_counter, master_burstcount + m)
      BY <2>1 DEF m
    <3> QED
      BY <1>11, <3>2, <3>3, Zenon DEF m
  <2>4. posted \in Seq(Nat) /\ more \in Seq(Nat)
    <3>1. address_counter + master_burstcount \in Nat
      BY <1>1, <2>1
    <3> QED
      BY <1>1, <1>11, <2>1, <3>1, WordsOfBurst
  <2>5. Unread' = (left \o posted) \o more
    BY <1>7, <2>2 DEF Unread
  <2>6. rest \o asked = left \o (posted \o more)
    <3>1. asked = <<>>
      BY <1>11
    <3> HIDE DEF left, words, posted, more
    <3>2. left \o words \in Seq(Nat)
      BY <1>4, <1>5, ConcatProperties
    <3>3. (left \o words) \o <<>> = left \o words
      BY <3>2, EmptyConcat
    <3> QED
      BY <3>1, <3>3, <1>6, <2>3
  <2> HIDE DEF left, words, posted, more
  <2>7. (left \o posted) \o more = left \o (posted \o more)
    BY <1>5, <2>4, ConcatAssociative, SMTT(20)
  <2> QED
    BY <2>5, <2>6, <2>7
<1>12. CASE ~length_sync_reset /\ go = <<>> /\ ~read_complete
  <2>1. Words(address_counter', InWords(length_counter')) = words
    BY <1>2, <1>12 DEF CountersNext
  <2>2. posted = <<>> /\ asked = <<>>
    BY <1>12
  <2> HIDE DEF left, words, posted
  <2>3. rest \o asked = left \o words /\ left \o posted = left
    <3>1. left \o words \in Seq(Nat)
      BY <1>4, <1>5, ConcatProperties
    <3>2. (left \o words) \o <<>> = left \o words /\ left \o <<>> = left
      BY <1>5, <3>1, EmptyConcat
    <3> QED
      BY <1>6, <2>2, <3>2
  <2> QED
    BY <1>7, <2>1, <2>3 DEF Unread
<1> QED
  BY <1>9, <1>10, <1>11, <1>12

(* Every cycle is one of the abstract stream, or leaves it as it is.       *)
LEMMA StreamStep ==
  ASSUME RoomInv, RoomInv', AnswerInv, [Next]_vars
  PROVE  [Stream!Next]_(Stream!vars)
<1> USE ReadMasterAssumption
<1>1. CASE UNCHANGED vars
  BY <1>1 DEF vars, counters, handshake, Stream!vars
<1>2. ASSUME NEW go \in Given, NEW read_complete \in BOOLEAN,
             NEW returns \in BOOLEAN, NEW takes \in BOOLEAN,
             Cycle(go, read_complete, returns, takes)
      PROVE  Stream!Next
  <2> DEFINE asked == IF go = <<>> THEN <<>>
                      ELSE Words(go[1].start, InWords(go[1].bytes))
             rest == IF returns THEN Tail(Unread) ELSE Unread
  <2>1. /\ Len(fifo) \in Nat /\ Len(in_flight) \in Nat
        /\ in_flight \in Seq(Nat) /\ fifo \in Seq(Nat)
        /\ Len(fifo) + Len(in_flight) <= FifoDepth
        /\ pending_reads_counter = Len(in_flight)
        /\ address_counter \in Nat /\ length_counter \in Nat
    BY LenProperties DEF RoomInv, ReadsHaveRoom, TypeOK
  <2>2. /\ returns => in_flight # <<>>
        /\ takes => fifo # <<>>
        /\ fifo' = (IF takes THEN Tail(fifo) ELSE fifo)
                     \o (IF returns THEN <<Head(in_flight)>> ELSE <<>>)
    BY <1>2 DEF Cycle, DataNext
  <2>3. /\ asked = <<>> <=> go = <<>>
        /\ asked \in {Words(c.start, InWords(c.bytes)) : c \in Command}
                       \cup {<<>>}
    <3>1. ASSUME NEW c \in Command, go = <<c>>
          PROVE  asked # <<>> /\ asked = Words(c.start, InWords(c.bytes))
      <4>1. asked = Words(c.start, InWords(c.bytes))
        BY <3>1
      <4>2. c.start \in Nat /\ c.bytes \in Nat \ {0}
        BY DEF Command
      <4>3. InWords(c.bytes) \in Nat /\ InWords(c.bytes) >= 1
        BY <4>2, WordsOfLength
      <4>4. Len(asked) >= 1
        <5> HIDE DEF asked
        <5>1. Len(Words(c.start, InWords(c.bytes))) = InWords(c.bytes)
          BY <4>2, <4>3, WordsOfBurst
        <5> QED
          BY <4>1, <4>3, <5>1
      <4> HIDE DEF asked
      <4> QED
        BY <4>1, <4>4, EmptySeq
    <3>2. go # <<>> => \E c \in Command : go = <<c>>
      BY DEF Given
    <3> HIDE DEF asked
    <3>3. go = <<>> => asked = <<>>
      BY DEF asked
    <3> QED
      BY <3>1, <3>2, <3>3
  <2>4. returns => Unread # <<>> /\ Len(fifo) < FifoDepth
                   /\ Head(Unread) = Head(in_flight)
    <3>1. Words(address_counter, InWords(length_counter)) \in Seq(Nat)
      BY <2>1, WordsOfLength, WordsOfBurst
    <3> DEFINE words == Words(address_counter, InWords(length_counter))
    <3> HIDE DEF words
    <3>2. returns => in_flight \o words # <<>>
                     /\ Head(in_flight \o words) = Head(in_flight)
      BY <2>1, <2>2, <3>1, TailOfConcat, ConcatProperties, EmptySeq DEF words
    <3>3. returns => Len(in_flight) # 0
      BY <2>1, <2>2, EmptySeq
    <3> QED
      BY <2>1, <3>2, <3>3 DEF Unread, words
  <2>5. \/ Unread' = rest \o asked
        \/ flush /\ Unread' \in Stream!Prefixes(rest \o asked)
    BY <1>2, UnreadStep
  <2>6. IF asked # <<>> THEN snk_command_ready /\ ~snk_command_ready'
        ELSE /\ snk_command_ready => snk_command_ready'
             /\ early_done_enable_d1' = early_done_enable_d1
    <3>1. go # <<>> => snk_command_ready
      BY DEF Given
    <3> QED
      BY <1>2, <2>3, <3>1, Zenon DEF Cycle, HandshakeNext
  <2>7. ~snk_command_ready /\ snk_command_ready' =>
          early_done_enable_d1 \/ Unread = <<>>
    <3> SUFFICES ASSUME ~snk_command_ready, snk_command_ready',
                        ~early_done_enable_d1
                 PROVE  Unread = <<>>
      OBVIOUS
    <3>1. src_response_valid
      BY <1>2, Zenon DEF Cycle, HandshakeNext
    <3>2. length_counter = 0 /\ pending_reads_counter = 0
      BY <3>1, Zenon DEF AnswerInv, done, all_reads_returned
    <3>3. in_flight = <<>>
      BY <2>1, <3>2, EmptySeq
    <3>4. Words(address_counter, InWords(length_counter)) = <<>>
      BY <2>1, <3>2, WordsOfLength, NoWords
    <3> QED
      BY <3>3, <3>4, EmptySeq, EmptyConcat DEF Unread
  <2>8. /\ (~snk_command_ready)' \in BOOLEAN
        /\ early_done_enable_d1' \in BOOLEAN /\ flush' \in BOOLEAN
    BY DEF RoomInv, ReadsHaveRoom, TypeOK
  <2> HIDE DEF asked, rest
  <2>9. Stream!Cycle(takes, returns, asked)
    BY <2>2, <2>4, <2>5, <2>6, <2>7, <2>8 DEF Stream!Cycle, Unread, rest
  <2> QED
    BY <2>3, <2>9 DEF Stream!Next
<1> QED
  BY <1>1, <1>2 DEF Next

(* A command that is taken finds nothing of the last one.                  *)
THEOREM AnswersInvariance == Spec => []AnswerInv
<1>1. Init => AnswerInv
  BY DEF Init, AnswerInv, done, all_reads_returned
<1> QED
  BY <1>1, AnswerStep, RoomInvariance, PTL DEF Spec

(* The read master gives its stream the words of each command, once and in *)
(* order, for every FIFO, burst length, word size, with or without burst   *)
(* wrapping, through stops, resets and early answers.                      *)
THEOREM ReadsImplementStream == Spec => ImplementsStream
<1> QED
  BY StreamInit, StreamStep, RoomInvariance, AnswersInvariance, PTL
     DEF Spec, ImplementsStream, Stream!Spec
=============================================================================
