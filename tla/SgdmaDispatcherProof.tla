------------------------ MODULE SgdmaDispatcherProof ------------------------
(***************************************************************************)
(* Proofs about the dispatcher of the modular SGDMA, for any depth of its  *)
(* buffers, any bits that the host uses and any pace of the fabric.  The   *)
(* registers follow one another with delays of a cycle; the invariant says *)
(* which of them agree while it matters.                                   *)
(***************************************************************************)
EXTENDS SgdmaDispatcher, SequenceTheorems, TLAPS

(* The FIFO's counters agree, and a host that checks for room never has a  *)
(* write held up.                                                          *)
FifoInv ==
  /\ \A m \in Masters : write_address[m] = (read_address[m] + used(m)) % Depth
  /\ HostChecks => held = NoDescriptor

(* The master cannot be ready in the next cycle either.                    *)
StaysBusy(m) ==
  /\ ~ready[m]
  /\ m = "write" => ~reset_taken[m] /\ (running[m] \/ valid[m])
  /\ m = "read" => ~valid[m]

(* The two registers behind the memory follow the read address with the    *)
(* delay of the empty signals, or the master gives them time to do so.     *)
Next1(m) == ram[m][read_address[m]]
OutputsFollow ==
  \A m \in Masters :
    ~empty(m) /\ ~command_empty_d1[m] =>
      /\ ram_output[m] = Next1(m) \/ StaysBusy(m)
      /\ ~command_empty_d2[m] => read_data[m] = Next1(m) \/ ~ready[m]

(* A read master that is ready or responds has nothing left to do ...      *)
ReadRests ==
  "read" \in Masters /\ (ready["read"] \/ valid["read"]) =>
    /\ ~running["read"] /\ done_d1["read"]
    /\ command["read"].early_done \/ (~pending_reads /\ all_reads_returned_d1)

(* ... and so has a write master that responds.  One that has taken a      *)
(* reset finds the buffers empty when the reset is over.                   *)
WriteRests ==
  /\ valid["write"] => ~running["write"] /\ done_d1["write"]
  /\ reset_taken["write"] /\ ~sw_reset => \A m \in Masters : empty(m)

(* The mask is that of the write master's last command, once it has one.   *)
MaskFollows ==
  \/ irq_mask_d1 = command["write"].irq
  \/ ~running["write"] /\ done_d1["write"] /\ ~valid["write"]

(* The reset bit is written alone, and the host never reads it set.        *)
ResetAlone ==
  /\ control.reset => ~control.stop_on_error /\ ~stopped_on_error
  /\ seen # <<>> => ~seen[1].reset
  /\ sw_reset \/ control.reset => "reset" \in HostUses

DispatcherInv ==
  /\ TypeOK /\ FifoInv
  /\ HostChecks => OutputsFollow
  /\ ReadRests /\ WriteRests /\ MaskFollows /\ ResetAlone
  /\ StoppedMeansStop
  /\ Bursts \/ "reset" \notin HostUses => BusyUntilDone

-----------------------------------------------------------------------------
(* Addresses that go round: a step beyond the last one starts again.       *)
LEMMA Around ==
  ASSUME NEW n \in Nat \ {0}, NEW x \in 0..(2 * n - 1)
  PROVE  x % n = IF x < n THEN x ELSE x - n
<1>1. x \div n \in Nat /\ x % n \in 0..(n - 1) /\ x = (x \div n) * n + (x % n)
  BY SMT
<1>2. CASE x \div n = 0
  BY <1>1, <1>2
<1>3. CASE x \div n = 1
  BY <1>1, <1>3
<1>4. CASE x \div n >= 2
  <2>1. (x \div n) * n >= 2 * n
    BY <1>1, <1>4
  <2> QED
    BY <1>1, <2>1
<1> QED
  BY <1>1, <1>2, <1>3, <1>4

(* What waits in a memory r of n locations: k descriptors from a on.       *)
Waiting(r, n, a, k) == [i \in 1..k |-> r[(a + i - 1) % n]]

(* The places of the descriptors that wait, and the one behind them.       *)
LEMMA Place ==
  ASSUME NEW n \in Nat \ {0}, NEW a \in 0..(n - 1), NEW i \in 0..n
  PROVE  /\ (a + i) % n = IF a + i < n THEN a + i ELSE a + i - n
         /\ (a + i) % n \in 0..(n - 1)
<1>1. a + i \in 0..(2 * n - 1)
  OBVIOUS
<1> DEFINE x == a + i
<1>2. x \in 0..(2 * n - 1)
  BY <1>1
<1> HIDE DEF x
<1>3. x % n = IF x < n THEN x ELSE x - n
  BY <1>2, Around
<1> QED
  BY <1>2, <1>3 DEF x

(* Giving one away leaves the rest, in order.                              *)
LEMMA WaitingTail ==
  ASSUME NEW n \in Nat \ {0}, NEW S, NEW r \in [0..(n - 1) -> S],
         NEW a \in 0..(n - 1), NEW k \in 1..n
  PROVE  /\ Waiting(r, n, (a + 1) % n, k - 1) = Tail(Waiting(r, n, a, k))
         /\ Head(Waiting(r, n, a, k)) = r[a]
         /\ Waiting(r, n, a, k) # <<>>
<1>1. (a + 1) % n = IF a + 1 < n THEN a + 1 ELSE a + 1 - n
  <2>1. 1 \in 0..n
    OBVIOUS
  <2> QED
    BY <2>1, Place
<1>2. (a + 1) % n \in 0..(n - 1)
  BY <1>1
<1> DEFINE b == (a + 1) % n
<1>3. b \in 0..(n - 1) /\ b = IF a + 1 < n THEN a + 1 ELSE a + 1 - n
  BY <1>1, <1>2
<1> HIDE DEF b
<1>4. ASSUME NEW i \in 1..(k - 1)
      PROVE  (b + i - 1) % n = (a + (i + 1) - 1) % n
  <2>1. i - 1 \in 0..n /\ i \in 0..n
    OBVIOUS
  <2>2. (b + (i - 1)) % n = IF b + (i - 1) < n THEN b + (i - 1) ELSE b + (i - 1) - n
    BY <1>3, <2>1, Place
  <2>3. (a + i) % n = IF a + i < n THEN a + i ELSE a + i - n
    BY <2>1, Place
  <2>4. b + i - 1 = b + (i - 1) /\ a + (i + 1) - 1 = a + i
    BY <1>3
  <2>5. (b + (i - 1)) % n = (a + i) % n
    BY <1>3, <2>1, <2>2, <2>3
  <2> QED
    BY <2>4, <2>5
<1>5. a % n = a
  <2>1. a \in 0..(2 * n - 1) /\ a < n
    OBVIOUS
  <2> QED
    BY <2>1, Around
<1>6. ASSUME NEW i \in 1..k
      PROVE  (a + i - 1) % n \in 0..(n - 1)
  <2>1. i - 1 \in 0..n /\ a + i - 1 = a + (i - 1)
    OBVIOUS
  <2> QED
    BY <2>1, Place
<1> DEFINE w == Waiting(r, n, a, k)
<1>7. w \in Seq(S) /\ Len(w) = k /\ \A i \in 1..k : w[i] = r[(a + i - 1) % n]
  BY <1>6 DEF Waiting
<1>8. Waiting(r, n, b, k - 1) = [i \in 1..(k - 1) |-> w[i + 1]]
  BY <1>4, <1>7 DEF Waiting
<1> HIDE DEF w
<1>9. Tail(w) = [i \in 1..(k - 1) |-> w[i + 1]]
  <2> DEFINE u == [i \in 1..(k - 1) |-> w[i + 1]]
  <2>1. w # <<>>
    BY <1>7
  <2>2. /\ Tail(w) \in Seq(S) /\ Len(Tail(w)) = k - 1
        /\ \A i \in 1..(k - 1) : Tail(w)[i] = w[i + 1]
    BY <1>7, <2>1, HeadTailProperties
  <2>3. \A i \in 1..(k - 1) : w[i + 1] \in S
    BY <1>7
  <2>4. u \in Seq(S) /\ Len(u) = k - 1 /\ \A i \in 1..(k - 1) : u[i] = w[i + 1]
    BY <2>3
  <2> HIDE DEF u
  <2>5. Tail(w) = u
    BY <2>2, <2>4, SeqEqual
  <2> QED
    BY <2>5 DEF u
<1>10. Head(w) = r[(a + 1 - 1) % n] /\ w # <<>>
  BY <1>7
<1>11. a + 1 - 1 = a
  OBVIOUS
<1> QED
  BY <1>5, <1>8, <1>9, <1>10, <1>11 DEF w, b

(* Memory r1 is r with d at location p.                                    *)
Written(r1, r, n, p, d) ==
  r1[p] = d /\ \A q \in 0..(n - 1) : q # p => r1[q] = r[q]

(* A queue with d as its last descriptor.                                  *)
Behind(queue, d) == queue \o <<d>>

(* One that is written behind the others waits behind them.                *)
LEMMA WaitingAppend ==
  ASSUME NEW n \in Nat \ {0}, NEW r, NEW d,
         NEW a \in 0..(n - 1), NEW k \in 0..(n - 1),
         NEW r1, Written(r1, r, n, (a + k) % n, d)
  PROVE  Waiting(r1, n, a, k + 1) = Behind(Waiting(r, n, a, k), d)
<1> DEFINE p == (a + k) % n
           v == Waiting(r, n, a, k)
           S == {r[q] : q \in 0..(n - 1)} \cup {d}
<1>1. p \in 0..(n - 1) /\ p = IF a + k < n THEN a + k ELSE a + k - n
  <2>1. k \in 0..n
    OBVIOUS
  <2> QED
    BY <2>1, Place
<1>2. r1[p] = d /\ \A q \in 0..(n - 1) : q # p => r1[q] = r[q]
  BY DEF Written
<1> HIDE DEF p
<1>3. ASSUME NEW i \in 1..k
      PROVE  (a + i - 1) % n \in 0..(n - 1) /\ (a + i - 1) % n # p
  <2>1. i - 1 \in 0..n /\ a + i - 1 = a + (i - 1)
    OBVIOUS
  <2>2. /\ (a + (i - 1)) % n \in 0..(n - 1)
        /\ (a + (i - 1)) % n = IF a + (i - 1) < n THEN a + (i - 1) ELSE a + (i - 1) - n
    BY <2>1, Place
  <2>3. (a + (i - 1)) % n # p
    BY <1>1, <2>2
  <2> QED
    BY <2>1, <2>2, <2>3
<1>4. /\ v \in Seq(S) /\ Len(v) = k /\ d \in S
      /\ \A i \in 1..k : v[i] = r[(a + i - 1) % n] /\ v[i] \in S
  BY <1>3 DEF Waiting
<1> HIDE DEF S
<1>5. ASSUME NEW i \in Nat, i = k + 1
      PROVE  (a + i - 1) % n = p
  <2>1. a + i - 1 = a + k
    BY <1>5
  <2> QED
    BY <2>1 DEF p
<1> HIDE DEF v
<1>6. ASSUME NEW i \in 1..(k + 1)
      PROVE  r1[(a + i - 1) % n] = IF i <= k THEN v[i] ELSE d
  <2>1. CASE i \in 1..k
    <3> DEFINE q == (a + i - 1) % n
    <3>1. q \in 0..(n - 1) /\ q # p
      BY <1>3, <2>1
    <3>2. v[i] = r[q] /\ i <= k
      BY <1>4, <2>1
    <3> HIDE DEF q
    <3>3. r1[q] = v[i]
      BY <3>1, <3>2, <1>2
    <3> QED
      BY <3>2, <3>3 DEF q
  <2>2. CASE i = k + 1
    <3>1. (a + i - 1) % n = p
      BY <1>5, <2>2
    <3> QED
      BY <3>1, <1>2, <2>2
  <2> QED
    BY <2>1, <2>2
<1>7. v \o <<d>> = [i \in 1..(k + 1) |-> IF i <= k THEN v[i] ELSE d]
  <2> DEFINE u == [i \in 1..(k + 1) |-> IF i <= k THEN v[i] ELSE d]
  <2>1. /\ v \o <<d>> \in Seq(S) /\ Len(v \o <<d>>) = k + 1
        /\ \A i \in 1..(k + 1) : (v \o <<d>>)[i] = IF i <= k THEN v[i] ELSE d
    <3>1. <<d>> \in Seq(S) /\ Len(<<d>>) = 1 /\ <<d>>[1] = d
      BY <1>4
    <3>2. /\ v \o <<d>> \in Seq(S) /\ Len(v \o <<d>>) = k + 1
          /\ \A i \in 1..(k + 1) :
               (v \o <<d>>)[i] = IF i <= k THEN v[i] ELSE <<d>>[i - k]
      BY <1>4, <3>1, ConcatProperties
    <3> HIDE DEF v
    <3>3. \A i \in 1..(k + 1) : ~(i <= k) => i - k = 1
      OBVIOUS
    <3> QED
      BY <3>1, <3>2, <3>3
  <2>2. \A i \in 1..(k + 1) : (IF i <= k THEN v[i] ELSE d) \in S
    BY <1>4
  <2>3. /\ u \in Seq(S) /\ Len(u) = k + 1
        /\ \A i \in 1..(k + 1) : u[i] = IF i <= k THEN v[i] ELSE d
    BY <2>2
  <2> HIDE DEF u
  <2>4. v \o <<d>> = u
    BY <2>1, <2>3, SeqEqual
  <2> QED
    BY <2>4 DEF u
<1>8. Waiting(r1, n, a, k + 1) = [i \in 1..(k + 1) |-> IF i <= k THEN v[i] ELSE d]
  BY <1>6 DEF Waiting
<1> QED
  BY <1>7, <1>8 DEF v, Behind

-----------------------------------------------------------------------------
(* A cycle: the host writes descriptor d and w to the control register,    *)
(* clears the interrupt, reads control or a response; the masters do what  *)
(* is free in MastersNext.                                                 *)
Turn(d, w, clear_irq, read_control, response_read,
     finishing, between, data, failing) ==
  /\ d = NoDescriptor \/ d \in DescriptorWrites
  /\ w # None => w \in ControlWrites /\ ~control.reset
  /\ clear_irq \in BOOLEAN /\ read_control \in BOOLEAN
  /\ response_read \in BOOLEAN /\ (response_read => responses > 0)
  /\ read_control => ~control.reset
  /\ between \in BetweenAccesses(finishing)
  /\ data \in BOOLEAN /\ failing \in BOOLEAN
  /\ data => "read" \in Masters /\ (running["read"] \/ pending_reads)
  /\ FifoNext(d) /\ BuffersNext /\ DoneNext /\ CsrNext(w, clear_irq)
  /\ ResponseNext(response_read)
  /\ MastersNext(finishing, between, data, failing)
  /\ Host(d, w, read_control)

(* Every cycle that the host's actions allow is one.                       *)
LEMMA CycleIsTurn ==
  ASSUME NEW d, NEW w, NEW clear_irq \in BOOLEAN, NEW read_control \in BOOLEAN,
         NEW response_read \in BOOLEAN,
         d = NoDescriptor \/ d \in DescriptorWrites,
         w # None => w \in ControlWrites /\ ~control.reset,
         read_control => ~control.reset, response_read => responses > 0,
         Cycle(d, w, clear_irq, read_control, response_read)
  PROVE  \E finishing, between, data, failing :
           Turn(d, w, clear_irq, read_control, response_read,
                finishing, between, data, failing)
<1>1. PICK finishing \in SUBSET {m \in Masters : running[m] /\ ~stopped[m]} :
        \E between \in BetweenAccesses(finishing),
           data \in IF "read" \in Masters /\ (running["read"] \/ pending_reads)
                    THEN BOOLEAN ELSE {FALSE},
           failing \in IF running["write"] /\ ErrorsMatter THEN BOOLEAN ELSE {FALSE} :
          /\ "read" \in finishing => data
          /\ MastersNext(finishing, between, data, failing)
  BY DEF Cycle
<1>2. PICK between \in BetweenAccesses(finishing),
           data \in IF "read" \in Masters /\ (running["read"] \/ pending_reads)
                    THEN BOOLEAN ELSE {FALSE},
           failing \in IF running["write"] /\ ErrorsMatter THEN BOOLEAN ELSE {FALSE} :
        MastersNext(finishing, between, data, failing)
  BY <1>1
<1>3. /\ data \in BOOLEAN /\ failing \in BOOLEAN
      /\ data => "read" \in Masters /\ (running["read"] \/ pending_reads)
  <2>1. CASE "read" \in Masters /\ (running["read"] \/ pending_reads)
    BY <2>1, <1>2, Zenon
  <2>2. CASE ~("read" \in Masters /\ (running["read"] \/ pending_reads))
    <3>1. data = FALSE
      BY <2>2, <1>2, Zenon
    <3>2. failing \in BOOLEAN
      BY <1>2, Zenon
    <3> QED
      BY <3>1, <3>2, Zenon
  <2> QED
    BY <2>1, <2>2, Zenon
<1>4. Turn(d, w, clear_irq, read_control, response_read,
           finishing, between, data, failing)
  BY <1>2, <1>3 DEF Turn, Cycle
<1> QED
  BY <1>4

(* So is every step of the next-state relation.                            *)
LEMMA NextIsTurn ==
  ASSUME Next
  PROVE  \E d, w, clear_irq, read_control, response_read,
            finishing, between, data, failing :
           Turn(d, w, clear_irq, read_control, response_read,
                finishing, between, data, failing)
<1> USE DEF None
<1>1. CASE Quiet
  BY <1>1, CycleIsTurn DEF Quiet
<1>2. CASE HostWritesDescriptor
  BY <1>2, CycleIsTurn DEF HostWritesDescriptor
<1>3. CASE HostWritesControl
  BY <1>3, CycleIsTurn DEF HostWritesControl
<1>4. CASE HostReadsControl
  BY <1>4, CycleIsTurn DEF HostReadsControl
<1>5. CASE HostClearsIrq
  BY <1>5, CycleIsTurn DEF HostClearsIrq
<1>6. CASE HostReadsResponse
  BY <1>6, CycleIsTurn DEF HostReadsResponse
<1> QED
  BY <1>1, <1>2, <1>3, <1>4, <1>5, <1>6 DEF Next

(* What the types say of a master's FIFO, and what its signals say of the  *)
(* number of descriptors in it.                                            *)
LEMMA Counts ==
  ASSUME TypeOK, FifoInv, NEW m \in Masters
  PROVE  /\ Depth \in Nat \ {0} /\ used(m) \in 0..Depth
         /\ read_address[m] \in 0..(Depth - 1)
         /\ write_address[m] \in 0..(Depth - 1)
         /\ write_address[m] = IF read_address[m] + used(m) < Depth
                               THEN read_address[m] + used(m)
                               ELSE read_address[m] + used(m) - Depth
         /\ empty(m) <=> used(m) = 0
         /\ full(m) <=> used(m) = Depth
<1>1. Depth \in Nat \ {0}
  BY SgdmaAssumption
<1>2. /\ used(m) \in 0..Depth /\ read_address[m] \in 0..(Depth - 1)
      /\ write_address[m] \in 0..(Depth - 1)
  BY DEF TypeOK, used, Address
<1> DEFINE u == used(m)
           a == read_address[m]
<1>3. write_address[m] = (a + u) % Depth
  BY DEF FifoInv
<1> HIDE DEF u, a
<1>4. u \in 0..Depth /\ a \in 0..(Depth - 1)
  BY <1>2 DEF u, a
<1>5. (a + u) % Depth = IF a + u < Depth THEN a + u ELSE a + u - Depth
  BY <1>1, <1>4, Place
<1>6. write_address[m] = IF a + u < Depth THEN a + u ELSE a + u - Depth
  BY <1>3, <1>5
<1>7. empty(m) <=> a = write_address[m] /\ u = 0
  BY DEF empty, u, a
<1>8. full(m) <=> a = write_address[m] /\ u # 0
  BY DEF full, u, a
<1>9. (empty(m) <=> u = 0) /\ (full(m) <=> u = Depth)
  BY <1>1, <1>4, <1>6, <1>7, <1>8
<1> QED
  BY <1>1, <1>2, <1>6, <1>9 DEF u, a

(* One step of an address.                                                 *)
LEMMA NextPlace ==
  ASSUME NEW n \in Nat \ {0}, NEW a \in 0..(n - 1)
  PROVE  /\ (a + 1) % n = IF a + 1 < n THEN a + 1 ELSE a + 1 - n
         /\ (a + 1) % n \in 0..(n - 1)
<1>1. 1 \in 0..n
  OBVIOUS
<1> QED
  BY <1>1, Place

(* The FIFO of a master after a cycle.                                     *)
LEMMA FifoOf ==
  ASSUME NEW d, NEW w, NEW clear_irq, NEW read_control, NEW response_read,
         NEW finishing, NEW between, NEW data, NEW failing,
         Turn(d, w, clear_irq, read_control, response_read,
              finishing, between, data, failing),
         NEW m \in Masters
  PROVE  /\ ram'[m] = IF d = NoDescriptor THEN ram[m]
                      ELSE [ram[m] EXCEPT ![write_address[m]] = d]
         /\ d = NoDescriptor \/ write_address[m] # read_address[m] =>
              ram_output'[m] = ram[m][read_address[m]]
         /\ read_data'[m] = ram_output[m]
         /\ write_address'[m] = IF sw_reset THEN 0
                                ELSE IF push(d) THEN (write_address[m] + 1) % Depth
                                ELSE write_address[m]
         /\ read_address'[m] = IF sw_reset THEN 0
                               ELSE IF pop(m) THEN (read_address[m] + 1) % Depth
                               ELSE read_address[m]
         /\ internal_used'[m] = IF sw_reset THEN 0
              ELSE used(m) + (IF push(d) THEN 1 ELSE 0) - (IF pop(m) THEN 1 ELSE 0)
         /\ command_empty_d1'[m] = empty(m)
         /\ command_empty_d2'[m] = command_empty_d1[m]
BY DEF Turn, FifoNext, BuffersNext

(* A descriptor that is pushed has a place, and one that is popped was     *)
(* there.  A host that checks for room writes only what is pushed.         *)
LEMMA PushAndPop ==
  ASSUME TypeOK, FifoInv,
         NEW d, NEW w, NEW clear_irq, NEW read_control, NEW response_read,
         NEW finishing, NEW between, NEW data, NEW failing,
         Turn(d, w, clear_irq, read_control, response_read,
              finishing, between, data, failing)
  PROVE  /\ d # NoDescriptor => d \in Descriptors
         /\ HostChecks /\ d # NoDescriptor => push(d)
         /\ \A m \in Masters : /\ push(d) => used(m) < Depth
                               /\ issue(m) => used(m) >= 1 /\ ~sw_reset
                               /\ pop(m) => used(m) >= 1
<1>1. d # NoDescriptor => d \in Descriptors
  BY DEF Turn, DescriptorWrites, TypeOK
<1>2. HostChecks /\ d # NoDescriptor => push(d)
  BY DEF Turn, DescriptorWrites, FifoInv, push
<1>3. ASSUME NEW m \in Masters
      PROVE  push(d) => used(m) < Depth
  <2>1. push(d) => ~full(m)
    BY DEF push, waitrequest
  <2> QED
    BY <2>1, Counts
<1>4. ASSUME NEW m \in Masters
      PROVE  issue(m) => used(m) >= 1 /\ ~sw_reset
  <2>1. issue(m) => ~empty(m) /\ ~sw_reset
    BY DEF issue, command_valid
  <2> QED
    BY <2>1, Counts
<1> QED
  BY <1>1, <1>2, <1>3, <1>4 DEF pop

(* The counters agree after a cycle.                                       *)
LEMMA FifoKept ==
  ASSUME TypeOK, FifoInv,
         NEW d, NEW w, NEW clear_irq, NEW read_control, NEW response_read,
         NEW finishing, NEW between, NEW data, NEW failing,
         Turn(d, w, clear_irq, read_control, response_read,
              finishing, between, data, failing)
  PROVE  /\ FifoInv'
         /\ \A m \in Masters : /\ write_address'[m] \in Address
                               /\ read_address'[m] \in Address
                               /\ internal_used'[m] \in 0..Depth
<1>1. ASSUME NEW m \in Masters
      PROVE  /\ write_address'[m] = (read_address'[m] + internal_used'[m]) % Depth
             /\ write_address'[m] \in 0..(Depth - 1)
             /\ read_address'[m] \in 0..(Depth - 1)
             /\ internal_used'[m] \in 0..Depth
  <2> DEFINE u == used(m)
             a == read_address[m]
             b == write_address[m]
             u1 == internal_used'[m]
             a1 == read_address'[m]
             b1 == write_address'[m]
  <2>1. /\ Depth \in Nat \ {0} /\ u \in 0..Depth
        /\ a \in 0..(Depth - 1) /\ b \in 0..(Depth - 1)
        /\ b = IF a + u < Depth THEN a + u ELSE a + u - Depth
    BY Counts
  <2>2. /\ b1 = IF sw_reset THEN 0 ELSE IF push(d) THEN (b + 1) % Depth ELSE b
        /\ a1 = IF sw_reset THEN 0 ELSE IF pop(m) THEN (a + 1) % Depth ELSE a
        /\ u1 = IF sw_reset THEN 0
                ELSE u + (IF push(d) THEN 1 ELSE 0) - (IF pop(m) THEN 1 ELSE 0)
    BY FifoOf
  <2>3. (push(d) => u < Depth) /\ (pop(m) => u >= 1)
    BY PushAndPop
  <2> HIDE DEF u, a, b, u1, a1, b1
  <2>4. /\ (b + 1) % Depth = IF b + 1 < Depth THEN b + 1 ELSE b + 1 - Depth
        /\ (a + 1) % Depth = IF a + 1 < Depth THEN a + 1 ELSE a + 1 - Depth
    BY <2>1, NextPlace
  <2>5. a1 \in 0..(Depth - 1) /\ b1 \in 0..(Depth - 1) /\ u1 \in 0..Depth
    BY <2>1, <2>2, <2>3, <2>4
  <2>6. b1 = IF a1 + u1 < Depth THEN a1 + u1 ELSE a1 + u1 - Depth
    BY <2>1, <2>2, <2>3, <2>4
  <2>7. b1 = (a1 + u1) % Depth
    BY <2>1, <2>5, <2>6, Place
  <2> QED
    BY <2>5, <2>7 DEF a1, b1, u1
<1>2. HostChecks => held' = NoDescriptor
  BY PushAndPop DEF Turn, Host, push
<1> QED
  BY <1>1, <1>2 DEF FifoInv, used, Address

-----------------------------------------------------------------------------
(* The registers of a master after a cycle.                                *)
LEMMA MasterOf ==
  ASSUME NEW d, NEW w, NEW clear_irq, NEW read_control, NEW response_read,
         NEW finishing, NEW between, NEW data, NEW failing,
         Turn(d, w, clear_irq, read_control, response_read,
              finishing, between, data, failing),
         NEW m \in Masters
  PROVE  /\ ready'[m] <=> /\ ~issue(m)
                          /\ \/ ready[m]
                             \/ m = "write" /\ ((done(m) /\ ~valid[m]) \/ reset_taken[m])
                             \/ m = "read" /\ valid[m]
         /\ valid'[m] <=> ~reset_taken[m] /\ set_src_response_valid(m)
         /\ done_d1'[m] <=> ~running[m]
         /\ command'[m] = IF issue(m) THEN read_data[m] ELSE command[m]
BY DEF Turn, MastersNext, done

(* What runs, and which reset has been taken.                              *)
LEMMA WriteMasterOf ==
  ASSUME NEW d, NEW w, NEW clear_irq, NEW read_control, NEW response_read,
         NEW finishing, NEW between, NEW data, NEW failing,
         Turn(d, w, clear_irq, read_control, response_read,
              finishing, between, data, failing)
  PROVE  /\ running'["write"] <=>
              /\ ~(reset_taken["write"] /\ running["write"])
              /\ ~set_src_response_valid("write")
              /\ issue("write") \/ (running["write"] /\ "write" \notin finishing)
         /\ reset_taken'["write"] <=> sw_reset /\ "write" \in between
<1>1. "write" \in Masters
  BY SgdmaAssumption
<1> QED
  BY <1>1 DEF Turn, MastersNext

(* The read master runs on commands and waits for what it has asked for.   *)
LEMMA ReadMasterOf ==
  ASSUME "read" \in Masters,
         NEW d, NEW w, NEW clear_irq, NEW read_control, NEW response_read,
         NEW finishing, NEW between, NEW data, NEW failing,
         Turn(d, w, clear_irq, read_control, response_read,
              finishing, between, data, failing)
  PROVE  /\ running'["read"] => issue("read") \/ running["read"]
         /\ pending_reads' => running["read"] \/ pending_reads
         /\ all_reads_returned_d1' <=> ~running["read"] /\ ~pending_reads
<1>1. running'["read"] => issue("read") \/ running["read"]
  BY DEF Turn, MastersNext
<1>2. pending_reads' => running["read"] \/ pending_reads
  BY DEF Turn, MastersNext
<1>3. all_reads_returned_d1' <=> ~running["read"] /\ ~pending_reads
  BY DEF Turn, MastersNext, all_reads_returned, done
<1> QED
  BY <1>1, <1>2, <1>3

(* When the response of a master is due.                                   *)
LEMMA ResponseDue ==
  /\ set_src_response_valid("write") <=>
       ~running["write"] /\ ~done_d1["write"] /\ ~reset_taken["write"]
  /\ "read" \in Masters =>
       (set_src_response_valid("read") <=>
          /\ ~running["read"]
          /\ IF command["read"].early_done THEN ~done_d1["read"]
             ELSE ~pending_reads /\ ~all_reads_returned_d1)
BY DEF set_src_response_valid, done_strobe_of, done, all_reads_returned

(* A master that is given a command cannot be ready in the two cycles that *)
(* follow: the memory has time to show the next one.                       *)
LEMMA IssueKeepsBusy ==
  ASSUME TypeOK, FifoInv, ReadRests, WriteRests,
         NEW d, NEW w, NEW clear_irq, NEW read_control, NEW response_read,
         NEW finishing, NEW between, NEW data, NEW failing,
         Turn(d, w, clear_irq, read_control, response_read,
              finishing, between, data, failing),
         NEW m \in Masters
  PROVE  /\ issue(m) => StaysBusy(m)'
         /\ StaysBusy(m) => ~ready'[m]
<1>1. issue(m) => StaysBusy(m)'
  <2> SUFFICES ASSUME issue(m) PROVE StaysBusy(m)'
    OBVIOUS
  <2>1. ~sw_reset /\ ~empty(m) /\ ready[m]
    BY DEF issue, command_valid
  <2>2. ~ready'[m]
    BY MasterOf
  <2>3. m = "write" => ~reset_taken'[m] /\ (running'[m] \/ valid'[m])
    <3> SUFFICES ASSUME m = "write"
                 PROVE  ~reset_taken'[m] /\ (running'[m] \/ valid'[m])
      OBVIOUS
    <3>1. ~reset_taken["write"]
      BY <2>1 DEF WriteRests
    <3>2. ~reset_taken'[m]
      BY <2>1, WriteMasterOf
    <3>3. running'[m] \/ set_src_response_valid(m)
      BY <3>1, WriteMasterOf
    <3>4. set_src_response_valid(m) => valid'[m]
      BY <3>1, MasterOf
    <3> QED
      BY <3>2, <3>3, <3>4
  <2>4. m = "read" => ~valid'[m]
    BY <2>1, MasterOf, ResponseDue DEF ReadRests
  <2> QED
    BY <2>2, <2>3, <2>4 DEF StaysBusy
<1>2. StaysBusy(m) => ~ready'[m]
  <2>1. "write" # "read"
    OBVIOUS
  <2>2. m = "write" \/ m = "read"
    BY SgdmaAssumption
  <2> QED
    BY <2>1, <2>2, MasterOf DEF StaysBusy, done
<1> QED
  BY <1>1, <1>2

(* The memory's registers keep following the read address.                 *)
LEMMA OutputsKept ==
  ASSUME TypeOK, FifoInv, ReadRests, WriteRests, OutputsFollow, HostChecks,
         NEW d, NEW w, NEW clear_irq, NEW read_control, NEW response_read,
         NEW finishing, NEW between, NEW data, NEW failing,
         Turn(d, w, clear_irq, read_control, response_read,
              finishing, between, data, failing)
  PROVE  OutputsFollow'
<1> SUFFICES ASSUME NEW m \in Masters, ~empty(m)', ~command_empty_d1'[m]
             PROVE  /\ ram_output'[m] = Next1(m)' \/ StaysBusy(m)'
                    /\ ~command_empty_d2'[m] => read_data'[m] = Next1(m)' \/ ~ready'[m]
  BY DEF OutputsFollow
<1>1. ~empty(m)
  BY FifoOf
<1>2. ~sw_reset
  <2>1. sw_reset => /\ read_address'[m] = 0 /\ write_address'[m] = 0
                    /\ internal_used'[m] = 0
    BY FifoOf
  <2> QED
    BY <2>1 DEF empty, used
<1>3. CASE pop(m)
  <2>1. issue(m)
    BY <1>3 DEF pop
  <2>2. StaysBusy(m)'
    BY <2>1, IssueKeepsBusy
  <2> QED
    BY <2>2 DEF StaysBusy
<1>4. CASE ~pop(m)
  <2>1. read_address'[m] = read_address[m]
    BY <1>2, <1>4, FifoOf
  <2>2. d # NoDescriptor => write_address[m] # read_address[m]
    <3>1. used(m) >= 1 /\ used(m) \in 0..Depth
      BY <1>1, Counts
    <3>2. d # NoDescriptor => used(m) < Depth
      BY PushAndPop
    <3> QED
      BY <3>1, <3>2, Counts
  <2>3. ram'[m][read_address[m]] = ram[m][read_address[m]]
    <3>1. CASE d = NoDescriptor
      BY <3>1, FifoOf
    <3>2. CASE d # NoDescriptor
      <4>1. ram'[m] = [ram[m] EXCEPT ![write_address[m]] = d]
        BY <3>2, FifoOf
      <4>2. ram[m] \in [Address -> Descriptors] /\ read_address[m] \in Address
        BY DEF TypeOK
      <4> QED
        BY <4>1, <4>2, <2>2, <3>2
    <3> QED
      BY <3>1, <3>2
  <2>4. Next1(m)' = Next1(m)
    BY <2>1, <2>3 DEF Next1
  <2>5. ram_output'[m] = Next1(m)'
    <3>1. ram_output'[m] = ram[m][read_address[m]]
      BY <2>2, FifoOf
    <3> QED
      BY <3>1, <2>4 DEF Next1
  <2>6. ~command_empty_d2'[m] => read_data'[m] = Next1(m)' \/ ~ready'[m]
    <3>1. ~command_empty_d2'[m] => ram_output[m] = Next1(m) \/ StaysBusy(m)
      BY <1>1, FifoOf DEF OutputsFollow
    <3>2. read_data'[m] = ram_output[m]
      BY FifoOf
    <3>3. StaysBusy(m) => ~ready'[m]
      BY IssueKeepsBusy
    <3> QED
      BY <3>1, <3>2, <3>3, <2>4
  <2> QED
    BY <2>5, <2>6
<1> QED
  BY <1>3, <1>4

(* A read master at rest stays so until it is given a command.             *)
LEMMA ReadRestsKept ==
  ASSUME ReadRests,
         NEW d, NEW w, NEW clear_irq, NEW read_control, NEW response_read,
         NEW finishing, NEW between, NEW data, NEW failing,
         Turn(d, w, clear_irq, read_control, response_read,
              finishing, between, data, failing)
  PROVE  ReadRests'
<1> SUFFICES ASSUME "read" \in Masters, ready'["read"] \/ valid'["read"]
             PROVE  /\ ~running'["read"] /\ done_d1'["read"]
                    /\ \/ command'["read"].early_done
                       \/ ~pending_reads' /\ all_reads_returned_d1'
  BY DEF ReadRests
<1>1. CASE valid'["read"]
  <2>1. set_src_response_valid("read")
    BY <1>1, MasterOf
  <2>2. ~ready["read"]
    BY <2>1, ResponseDue DEF ReadRests
  <2>3. ~issue("read")
    BY <2>2 DEF issue
  <2>4. /\ ~running["read"]
        /\ command["read"].early_done \/ ~pending_reads
    BY <2>1, ResponseDue
  <2>5. command'["read"] = command["read"]
    BY <2>3, MasterOf
  <2>6. ~running'["read"] /\ done_d1'["read"]
    BY <2>3, <2>4, MasterOf, ReadMasterOf
  <2>7. ~pending_reads => ~pending_reads' /\ all_reads_returned_d1'
    BY <2>4, ReadMasterOf
  <2> QED
    BY <2>4, <2>5, <2>6, <2>7
<1>2. CASE ready'["read"]
  <2>1. ~issue("read") /\ (ready["read"] \/ valid["read"])
    BY <1>2, MasterOf
  <2>2. /\ ~running["read"]
        /\ command["read"].early_done \/ ~pending_reads
    BY <2>1 DEF ReadRests
  <2>3. command'["read"] = command["read"]
    BY <2>1, MasterOf
  <2>4. ~running'["read"] /\ done_d1'["read"]
    BY <2>1, <2>2, MasterOf, ReadMasterOf
  <2>5. ~pending_reads => ~pending_reads' /\ all_reads_returned_d1'
    BY <2>2, ReadMasterOf
  <2> QED
    BY <2>2, <2>3, <2>4, <2>5
<1> QED
  BY <1>1, <1>2

(* A write master that responds has nothing to do, and the buffers are     *)
(* empty in the cycle after a reset.                                       *)
LEMMA WriteRestsKept ==
  ASSUME WriteRests,
         NEW d, NEW w, NEW clear_irq, NEW read_control, NEW response_read,
         NEW finishing, NEW between, NEW data, NEW failing,
         Turn(d, w, clear_irq, read_control, response_read,
              finishing, between, data, failing)
  PROVE  WriteRests'
<1>0. "write" \in Masters
  BY SgdmaAssumption
<1>1. valid'["write"] => ~running'["write"] /\ done_d1'["write"]
  BY <1>0, MasterOf, WriteMasterOf, ResponseDue
<1>2. reset_taken'["write"] => \A m \in Masters : empty(m)'
  <2> SUFFICES ASSUME reset_taken'["write"], NEW m \in Masters PROVE empty(m)'
    OBVIOUS
  <2>1. sw_reset
    BY WriteMasterOf
  <2>2. /\ read_address'[m] = 0 /\ write_address'[m] = 0 /\ internal_used'[m] = 0
    BY <2>1, FifoOf
  <2> QED
    BY <2>2 DEF empty, used
<1> QED
  BY <1>1, <1>2 DEF WriteRests

(* The mask is latched when the command is given.                          *)
LEMMA MaskKept ==
  ASSUME MaskFollows,
         NEW d, NEW w, NEW clear_irq, NEW read_control, NEW response_read,
         NEW finishing, NEW between, NEW data, NEW failing,
         Turn(d, w, clear_irq, read_control, response_read,
              finishing, between, data, failing)
  PROVE  MaskFollows'
<1>0. "write" \in Masters
  BY SgdmaAssumption
<1>1. irq_mask_d1' = IF issue("write") THEN read_data["write"].irq ELSE irq_mask_d1
  BY DEF Turn, BuffersNext
<1>2. CASE issue("write") \/ irq_mask_d1 = command["write"].irq
  BY <1>0, <1>1, <1>2, MasterOf DEF MaskFollows
<1>3. CASE /\ ~issue("write")
           /\ ~running["write"] /\ done_d1["write"] /\ ~valid["write"]
  BY <1>0, <1>3, MasterOf, WriteMasterOf, ResponseDue DEF MaskFollows
<1> QED
  BY <1>2, <1>3 DEF MaskFollows

(* What the host writes to the control register: what it has read with     *)
(* bits changed that are not the reset bit, or that bit alone.             *)
LEMMA ControlWritten ==
  ASSUME TypeOK, ResetAlone, NEW w \in ControlWrites
  PROVE  /\ w = <<w[1]>> /\ w # <<>> /\ w[1] \in Control
         /\ w[1].reset => /\ "reset" \in HostUses
                          /\ w[1] = [Cleared EXCEPT !.reset = TRUE]
<1>1. CASE seen # <<>>
  <2>1. seen[1] \in Control /\ ~seen[1].reset
    BY <1>1 DEF TypeOK, ResetAlone
  <2>2. PICK c \in Modified(seen[1]) : w = <<c>>
    BY <1>1 DEF ControlWrites
  <2>3. PICK bit \in HostUses \ {"reset", "park", "early_done"}, b \in BOOLEAN :
          c = [seen[1] EXCEPT ![bit] = b]
    BY <2>2 DEF Modified
  <2>4. bit \in {"stop", "stop_on_error", "irq_enable", "stop_descriptors"}
    BY SgdmaAssumption
  <2>5. c \in Control /\ ~c.reset
    BY <2>1, <2>3, <2>4 DEF Control
  <2> QED
    BY <2>2, <2>5
<1>2. CASE seen = <<>>
  <2>1. "reset" \in HostUses /\ w = <<[Cleared EXCEPT !.reset = TRUE]>>
    BY <1>2 DEF ControlWrites
  <2>2. [Cleared EXCEPT !.reset = TRUE] \in Control
    BY DEF Cleared, Control
  <2> QED
    BY <2>1, <2>2
<1> QED
  BY <1>1, <1>2

(* A stop that is reported stays in force, and the reset bit is alone.     *)
LEMMA ControlKept ==
  ASSUME TypeOK, ResetAlone, StoppedMeansStop,
         NEW d, NEW w, NEW clear_irq, NEW read_control, NEW response_read,
         NEW finishing, NEW between, NEW data, NEW failing,
         Turn(d, w, clear_irq, read_control, response_read,
              finishing, between, data, failing)
  PROVE  ResetAlone' /\ StoppedMeansStop' /\ control' \in Control
<1> DEFINE clear_stop == w # <<>> /\ ~w[1].stop
           set_stop == (w # <<>> /\ w[1].stop) \/ set_stopped_on_error
           written == IF w # <<>> THEN w[1] ELSE control
<1>0. /\ control' = IF control.reset THEN Cleared
                    ELSE [written EXCEPT !.stop =
                            set_stop \/ (control.stop /\ ~clear_stop)]
      /\ sw_reset' <=> (w # <<>> /\ w[1].reset) \/ (sw_reset /\ reset_stalled)
      /\ stopped_on_error' <=>
           (~clear_stop /\ (stopped_on_error \/ set_stopped_on_error))
  BY DEF Turn, CsrNext
<1>1. w # <<>> => w \in ControlWrites /\ ~control.reset
  BY DEF Turn, None
<1>2. w # <<>> => /\ w[1] \in Control
                  /\ w[1].reset => /\ "reset" \in HostUses
                                   /\ w[1] = [Cleared EXCEPT !.reset = TRUE]
  BY <1>1, ControlWritten
<1>3. control \in Control /\ written \in Control
  BY <1>2 DEF TypeOK
<1>4. CASE control.reset
  <2>1. w = <<>> /\ control' = Cleared
    BY <1>0, <1>1, <1>4
  <2>2. ~stopped_on_error'
    BY <1>0, <1>4 DEF ResetAlone, set_stopped_on_error
  <2>3. sw_reset' => "reset" \in HostUses
    BY <1>0, <2>1 DEF ResetAlone
  <2>4. ~Cleared.reset /\ Cleared \in Control
    BY DEF Cleared, Control
  <2>5. seen' # <<>> => ~seen'[1].reset
    <3>1. seen' = seen
      BY <1>4, <2>1 DEF Turn, Host
    <3> QED
      BY <3>1 DEF ResetAlone
  <2> QED
    BY <2>1, <2>2, <2>3, <2>4, <2>5 DEF ResetAlone, StoppedMeansStop
<1>5. CASE ~control.reset
  <2> DEFINE stop1 == set_stop \/ (control.stop /\ ~clear_stop)
  <2>1. control' = [written EXCEPT !.stop = stop1]
    BY <1>0, <1>5
  <2>2. stop1 \in BOOLEAN
    OBVIOUS
  <2>3. stopped_on_error' => stop1
    BY <1>0 DEF StoppedMeansStop
  <2> HIDE DEF stop1, written
  <2>4. /\ control' \in Control /\ control'.stop = stop1
        /\ control'.reset = written.reset
        /\ control'.stop_on_error = written.stop_on_error
    BY <1>3, <2>1, <2>2 DEF Control
  <2>5. StoppedMeansStop'
    BY <2>3, <2>4 DEF StoppedMeansStop
  <2>6. control'.reset => /\ "reset" \in HostUses
                          /\ ~control'.stop_on_error /\ ~stopped_on_error'
    <3> SUFFICES ASSUME control'.reset
                 PROVE  /\ "reset" \in HostUses
                        /\ ~control'.stop_on_error /\ ~stopped_on_error'
      OBVIOUS
    <3>1. written.reset
      BY <2>4
    <3>2. w # <<>> /\ w[1].reset
      BY <3>1, <1>5 DEF written
    <3>3. w[1] = [Cleared EXCEPT !.reset = TRUE] /\ "reset" \in HostUses
      BY <3>2, <1>2
    <3>4. ~w[1].stop /\ ~w[1].stop_on_error
      BY <3>3 DEF Cleared
    <3>5. ~control'.stop_on_error
      BY <2>4, <3>2, <3>4 DEF written
    <3>6. ~stopped_on_error'
      BY <1>0, <3>2, <3>4
    <3> QED
      BY <3>3, <3>5, <3>6
  <2>7. sw_reset' => "reset" \in HostUses
    BY <1>0, <1>2 DEF ResetAlone
  <2>8. seen' # <<>> => ~seen'[1].reset
    <3>1. seen' = <<control>> \/ seen' = <<>> \/ seen' = seen
      BY DEF Turn, Host
    <3> QED
      BY <3>1, <1>5 DEF ResetAlone
  <2> QED
    BY <2>4, <2>5, <2>6, <2>7, <2>8 DEF ResetAlone
<1> QED
  BY <1>4, <1>5

(* While busy is not set the write master is done.  A master that does not *)
(* burst may answer to nothing after a reset.                              *)
LEMMA BusyKept ==
  ASSUME TypeOK, FifoInv, WriteRests, ResetAlone,
         Bursts \/ "reset" \notin HostUses, BusyUntilDone,
         NEW d, NEW w, NEW clear_irq, NEW read_control, NEW response_read,
         NEW finishing, NEW between, NEW data, NEW failing,
         Turn(d, w, clear_irq, read_control, response_read,
              finishing, between, data, failing)
  PROVE  BusyUntilDone'
<1> SUFFICES ASSUME ~busy', ~sw_reset'
             PROVE  /\ ~running'["write"] /\ ~valid'["write"]
                    /\ ~set_src_response_valid("write")'
                    /\ \A m \in Masters : empty(m)' \/ command_empty_d1'[m]
  BY DEF BusyUntilDone
<1>0. "write" \in Masters
  BY SgdmaAssumption
<1>1. \/ sw_reset
      \/ done_strobe /\ \A m \in Masters : empty(m)
      \/ ~busy /\ \A m \in Masters : empty(m)
  BY DEF Turn, DoneNext, busy
<1>2. CASE sw_reset
  <2>1. ~reset_stalled /\ reset_taken["write"]
    BY <1>2 DEF Turn, CsrNext, reset_stalled
  <2>2. ~issue("write")
    BY <1>2 DEF issue, command_valid
  <2>3. ~running'["write"] /\ ~valid'["write"]
    BY <1>0, <2>1, <2>2, MasterOf, WriteMasterOf
  <2>4. reset_taken'["write"]
    <3>1. "reset" \in HostUses
      BY <1>2 DEF ResetAlone
    <3>2. "write" \in between
      BY <1>0, <1>2, <2>1, <3>1 DEF Turn, BetweenAccesses
    <3> QED
      BY <1>2, <3>2, WriteMasterOf
  <2>5. ~set_src_response_valid("write")'
    BY <2>4 DEF set_src_response_valid
  <2>6. ASSUME NEW m \in Masters PROVE empty(m)'
    <3>1. /\ read_address'[m] = 0 /\ write_address'[m] = 0 /\ internal_used'[m] = 0
      BY <1>2, FifoOf
    <3> QED
      BY <3>1 DEF empty, used
  <2> QED
    BY <2>3, <2>5, <2>6
<1>3. CASE ~sw_reset /\ \A m \in Masters : empty(m)
  <2>1. ~issue("write")
    BY <1>0, <1>3 DEF issue, command_valid
  <2>2. /\ ~running["write"]
        /\ done_d1["write"] \/ reset_taken["write"]
    <3>1. CASE done_strobe
      BY <3>1 DEF done_strobe, WriteRests
    <3>2. CASE ~busy
      BY <3>2, <1>3, ResponseDue DEF BusyUntilDone
    <3> QED
      BY <1>1, <1>3, <3>1, <3>2
  <2>3. ~running'["write"] /\ ~valid'["write"] /\ done_d1'["write"]
    BY <1>0, <2>1, <2>2, MasterOf, WriteMasterOf, ResponseDue
  <2>4. ~set_src_response_valid("write")'
    BY <2>3 DEF set_src_response_valid, done_strobe_of
  <2>5. \A m \in Masters : command_empty_d1'[m]
    BY <1>3, FifoOf
  <2> QED
    BY <2>3, <2>4, <2>5
<1> QED
  BY <1>1, <1>2, <1>3

-----------------------------------------------------------------------------
(* The memory, its registers and the interrupt mask hold descriptors and   *)
(* masks of descriptors.                                                   *)
LEMMA BuffersKeepTypes ==
  ASSUME TypeOK, FifoInv,
         NEW d, NEW w, NEW clear_irq, NEW read_control, NEW response_read,
         NEW finishing, NEW between, NEW data, NEW failing,
         Turn(d, w, clear_irq, read_control, response_read,
              finishing, between, data, failing)
  PROVE  /\ ram' \in [Masters -> [Address -> Descriptors]]
         /\ write_address' \in [Masters -> Address]
         /\ read_address' \in [Masters -> Address]
         /\ internal_used' \in [Masters -> 0..Depth]
         /\ ram_output' \in [Masters -> Descriptors]
         /\ read_data' \in [Masters -> Descriptors]
         /\ command_empty_d1' \in [Masters -> BOOLEAN]
         /\ command_empty_d2' \in [Masters -> BOOLEAN]
         /\ irq_mask_d1' \in Irqs \cup {"never"}
<1>1. d # NoDescriptor => d \in Descriptors
  BY PushAndPop
<1>2. ram' \in [Masters -> [Address -> Descriptors]]
  <2>1. ram' = [m \in Masters |->
                  IF d = NoDescriptor THEN ram[m]
                                      ELSE [ram[m] EXCEPT ![write_address[m]] = d]]
    BY DEF Turn, FifoNext
  <2>2. ASSUME NEW m \in Masters
        PROVE  (IF d = NoDescriptor THEN ram[m]
                ELSE [ram[m] EXCEPT ![write_address[m]] = d])
                 \in [Address -> Descriptors]
    BY <1>1 DEF TypeOK
  <2> QED
    BY <2>1, <2>2
<1>3. \A m \in Masters : /\ write_address'[m] \in Address
                         /\ read_address'[m] \in Address
                         /\ internal_used'[m] \in 0..Depth
  BY FifoKept
<1>4. /\ write_address' = [m \in Masters |-> write_address'[m]]
      /\ read_address' = [m \in Masters |-> read_address'[m]]
      /\ internal_used' = [m \in Masters |-> internal_used'[m]]
  BY DEF Turn, FifoNext
<1>5. /\ write_address' \in [Masters -> Address]
      /\ read_address' \in [Masters -> Address]
      /\ internal_used' \in [Masters -> 0..Depth]
  BY <1>3, <1>4
<1>6. ram_output' \in [Masters -> Descriptors]
  BY DEF Turn, FifoNext
<1>7. read_data' \in [Masters -> Descriptors]
  BY DEF Turn, FifoNext, TypeOK
<1>8. /\ command_empty_d1' \in [Masters -> BOOLEAN]
      /\ command_empty_d2' \in [Masters -> BOOLEAN]
  BY DEF Turn, BuffersNext, TypeOK, empty
<1>9. irq_mask_d1' \in Irqs \cup {"never"}
  <2>1. read_data["write"].irq \in Irqs
    BY SgdmaAssumption DEF TypeOK, Descriptors
  <2>2. irq_mask_d1' = read_data["write"].irq \/ irq_mask_d1' = irq_mask_d1
    BY DEF Turn, BuffersNext
  <2> QED
    BY <2>1, <2>2 DEF TypeOK
<1> QED
  BY <1>2, <1>5, <1>6, <1>7, <1>8, <1>9

(* So do the registers of the masters.                                     *)
LEMMA MastersKeepTypes ==
  ASSUME TypeOK,
         NEW d, NEW w, NEW clear_irq, NEW read_control, NEW response_read,
         NEW finishing, NEW between, NEW data, NEW failing,
         Turn(d, w, clear_irq, read_control, response_read,
              finishing, between, data, failing)
  PROVE  /\ ready' \in [Masters -> BOOLEAN] /\ valid' \in [Masters -> BOOLEAN]
         /\ running' \in [Masters -> BOOLEAN] /\ done_d1' \in [Masters -> BOOLEAN]
         /\ all_reads_returned_d1' \in BOOLEAN
         /\ stopped' \in [Masters -> BOOLEAN] /\ reset_taken' \in [Masters -> BOOLEAN]
         /\ pending_reads' \in BOOLEAN /\ error' \in BOOLEAN
         /\ command' \in [Masters -> Descriptors]
<1>1. MastersNext(finishing, between, data, failing) /\ data \in BOOLEAN
  BY DEF Turn
<1>2. ready' \in [Masters -> BOOLEAN]
  BY <1>1 DEF MastersNext
<1>3. valid' \in [Masters -> BOOLEAN]
  BY <1>1 DEF MastersNext
<1>4. running' \in [Masters -> BOOLEAN]
  BY <1>1 DEF MastersNext, issue
<1>5. done_d1' \in [Masters -> BOOLEAN]
  BY <1>1 DEF MastersNext, done
<1>6. all_reads_returned_d1' \in BOOLEAN
  BY <1>1 DEF MastersNext, all_reads_returned
<1>7. stopped' \in [Masters -> BOOLEAN]
  BY <1>1 DEF MastersNext
<1>8. reset_taken' \in [Masters -> BOOLEAN]
  BY <1>1 DEF MastersNext
<1>9. pending_reads' \in BOOLEAN
  BY <1>1 DEF MastersNext
<1>10. error' \in BOOLEAN
  BY <1>1 DEF MastersNext
<1>11. command' \in [Masters -> Descriptors]
  BY <1>1 DEF MastersNext, TypeOK
<1> QED
  BY <1>2, <1>3, <1>4, <1>5, <1>6, <1>7, <1>8, <1>9, <1>10, <1>11

(* And what is left: the dispatcher's flags, the responses, the host.      *)
LEMMA TypesKept ==
  ASSUME TypeOK, FifoInv, ResetAlone, StoppedMeansStop,
         NEW d, NEW w, NEW clear_irq, NEW read_control, NEW response_read,
         NEW finishing, NEW between, NEW data, NEW failing,
         Turn(d, w, clear_irq, read_control, response_read,
              finishing, between, data, failing)
  PROVE  TypeOK'
<1>1. all_transfers_done' \in BOOLEAN
  BY DEF Turn, DoneNext
<1>2. /\ sw_reset' \in BOOLEAN /\ stopped_on_error' \in BOOLEAN /\ irq' \in BOOLEAN
  BY DEF Turn, CsrNext
<1>3. control' \in Control
  BY ControlKept
<1>4. responses' \in 0..ResponseDepth
  <2>1. ResponseDepth \in Nat /\ responses \in 0..ResponseDepth
    BY SgdmaAssumption DEF TypeOK
  <2>2. CASE ResponseDepth = 0 \/ sw_reset
    BY <2>1, <2>2 DEF Turn, ResponseNext
  <2>3. CASE ~(ResponseDepth = 0 \/ sw_reset)
    <3> DEFINE now == responses + (IF done_strobe THEN 1 ELSE 0)
                                - (IF response_read THEN 1 ELSE 0)
    <3>1. responses' \in IF now <= ResponseDepth THEN {now} ELSE 0..ResponseDepth
      BY <2>3 DEF Turn, ResponseNext
    <3>2. response_read => responses > 0
      BY DEF Turn
    <3>3. now \in Nat
      BY <2>1, <3>2
    <3> HIDE DEF now
    <3> QED
      BY <2>1, <3>1, <3>3
  <2> QED
    BY <2>2, <2>3
<1>5. held' \in Descriptors \cup {NoDescriptor}
  BY PushAndPop DEF Turn, Host
<1>6. seen' \in {<<>>} \cup {<<c>> : c \in Control}
  <2>1. control \in Control
    BY DEF TypeOK
  <2>2. seen' = <<control>> \/ seen' = <<>> \/ seen' = seen
    BY DEF Turn, Host
  <2> QED
    BY <2>1, <2>2 DEF TypeOK
<1> QED
  BY <1>1, <1>2, <1>3, <1>4, <1>5, <1>6, BuffersKeepTypes, MastersKeepTypes
  DEF TypeOK

(* Some descriptor exists.                                                 *)
LEMMA SomeDescriptor == (CHOOSE d \in Descriptors : TRUE) \in Descriptors
<1>1. PICK i \in Irqs : TRUE
  BY SgdmaAssumption
<1>2. [irq |-> i, park |-> FALSE, early_done |-> FALSE] \in Descriptors
  BY <1>1 DEF Descriptors
<1> QED
  BY <1>2

(* What holds before the first cycle.                                      *)
LEMMA DispatcherStarts == Init => DispatcherInv
<1> SUFFICES ASSUME Init PROVE DispatcherInv
  OBVIOUS
<1> USE DEF Init
<1>1. /\ Depth \in Nat \ {0} /\ ResponseDepth \in Nat /\ 0 \in Address
      /\ 0 % Depth = 0 /\ "write" \in Masters
  <2>1. Depth \in Nat \ {0} /\ ResponseDepth \in Nat /\ "write" \in Masters
    BY SgdmaAssumption
  <2>2. 0 \in 0..(2 * Depth - 1) /\ 0 < Depth
    BY <2>1
  <2>3. 0 % Depth = 0
    BY <2>1, <2>2, Around
  <2> QED
    BY <2>1, <2>2, <2>3 DEF Address
<1>2. Cleared \in Control /\ ~Cleared.reset
  BY DEF Cleared, Control
<1>3. \A m \in Masters : empty(m)
  BY DEF empty, used
<1>4. TypeOK
  <2> DEFINE anything == CHOOSE e \in Descriptors : TRUE
  <2>1. anything \in Descriptors
    BY SomeDescriptor
  <2>2. /\ ram = [m \in Masters |-> [p \in Address |-> anything]]
        /\ ram_output = [m \in Masters |-> anything]
        /\ read_data = [m \in Masters |-> anything]
        /\ command = [m \in Masters |-> anything]
    OBVIOUS
  <2> HIDE DEF anything
  <2>3. /\ ram \in [Masters -> [Address -> Descriptors]]
        /\ ram_output \in [Masters -> Descriptors]
        /\ read_data \in [Masters -> Descriptors]
        /\ command \in [Masters -> Descriptors]
    BY <2>1, <2>2
  <2>4. /\ write_address \in [Masters -> Address]
        /\ read_address \in [Masters -> Address]
        /\ internal_used \in [Masters -> 0..Depth]
        /\ responses \in 0..ResponseDepth
    BY <1>1
  <2>5. /\ control \in Control /\ seen \in {<<>>} \cup {<<c>> : c \in Control}
        /\ held \in Descriptors \cup {NoDescriptor}
        /\ irq_mask_d1 \in Irqs \cup {"never"}
    BY <1>2
  <2> QED
    BY <2>3, <2>4, <2>5 DEF TypeOK
<1>5. FifoInv
  BY <1>1 DEF FifoInv, used
<1>6. OutputsFollow
  BY <1>3 DEF OutputsFollow
<1>7. ReadRests /\ WriteRests /\ MaskFollows
  BY <1>1 DEF ReadRests, WriteRests, MaskFollows
<1>8. ResetAlone /\ StoppedMeansStop
  BY <1>2 DEF ResetAlone, StoppedMeansStop
<1>9. BusyUntilDone
  BY <1>1, <1>3 DEF BusyUntilDone, set_src_response_valid, done_strobe_of, done
<1> QED
  BY <1>4, <1>5, <1>6, <1>7, <1>8, <1>9 DEF DispatcherInv

(* A cycle keeps all of it.                                                *)
LEMMA DispatcherStays == DispatcherInv /\ [Next]_vars => DispatcherInv'
<1> SUFFICES ASSUME DispatcherInv, [Next]_vars PROVE DispatcherInv'
  OBVIOUS
<1>1. CASE Next
  <2>1. PICK d, w, clear_irq, read_control, response_read,
             finishing, between, data, failing :
          Turn(d, w, clear_irq, read_control, response_read,
               finishing, between, data, failing)
    BY <1>1, NextIsTurn
  <2>2. /\ TypeOK /\ FifoInv /\ ReadRests /\ WriteRests /\ MaskFollows
        /\ ResetAlone /\ StoppedMeansStop
    BY DEF DispatcherInv
  <2>3. TypeOK'
    BY <2>1, <2>2, TypesKept
  <2>4. FifoInv'
    BY <2>1, <2>2, FifoKept
  <2>5. HostChecks => OutputsFollow'
    BY <2>1, <2>2, OutputsKept DEF DispatcherInv
  <2>6. ReadRests'
    BY <2>1, <2>2, ReadRestsKept
  <2>7. WriteRests'
    BY <2>1, <2>2, WriteRestsKept
  <2>8. MaskFollows'
    BY <2>1, <2>2, MaskKept
  <2>9. ResetAlone' /\ StoppedMeansStop'
    BY <2>1, <2>2, ControlKept
  <2>10. Bursts \/ "reset" \notin HostUses => BusyUntilDone'
    BY <2>1, <2>2, BusyKept DEF DispatcherInv
  <2> QED
    BY <2>3, <2>4, <2>5, <2>6, <2>7, <2>8, <2>9, <2>10 DEF DispatcherInv
<1>2. CASE UNCHANGED vars
  <2> USE <1>2 DEF vars, fifo, csr, masters
  <2>1. TypeOK'
    BY DEF DispatcherInv, TypeOK
  <2>2. FifoInv'
    BY DEF DispatcherInv, FifoInv, used
  <2>3. HostChecks => OutputsFollow'
    BY DEF DispatcherInv, OutputsFollow, Next1, StaysBusy, empty, used
  <2>4. ReadRests' /\ WriteRests' /\ MaskFollows'
    BY DEF DispatcherInv, ReadRests, WriteRests, MaskFollows, empty, used
  <2>5. ResetAlone' /\ StoppedMeansStop'
    BY DEF DispatcherInv, ResetAlone, StoppedMeansStop
  <2>6. Bursts \/ "reset" \notin HostUses => BusyUntilDone'
    BY DEF DispatcherInv, BusyUntilDone, busy, set_src_response_valid,
           done_strobe_of, done, all_reads_returned, empty, used
  <2> QED
    BY <2>1, <2>2, <2>3, <2>4, <2>5, <2>6 DEF DispatcherInv
<1> QED
  BY <1>1, <1>2

-----------------------------------------------------------------------------
(* The registers of the FIFO, the masters and the control block agree with *)
(* one another as the comments above say, whatever the fabric does.        *)
THEOREM DispatcherInvariance == Spec => []DispatcherInv
BY DispatcherStarts, DispatcherStays, PTL DEF Spec

(* A stop on error that is reported is in force.  A host that writes back  *)
(* what it read before the error undoes both, the stop and the report.     *)
THEOREM StopsStayInForce == Spec => []StoppedMeansStop
<1>1. DispatcherInv => StoppedMeansStop
  BY DEF DispatcherInv
<1> QED
  BY <1>1, DispatcherInvariance, PTL

(* A response meets the interrupt mask of its own descriptor, though the   *)
(* dispatcher latches the mask of the next one as soon as it is issued.    *)
THEOREM MasksBelong == Spec => []MaskOfTransfer
<1>1. DispatcherInv => MaskOfTransfer
  BY DEF DispatcherInv, MaskFollows, MaskOfTransfer
<1> QED
  BY <1>1, DispatcherInvariance, PTL

(* While busy is not set no transfer is under way, provided that the write *)
(* master bursts or the host does not reset it: without bursts it answers  *)
(* to no command after a reset that met it in its last access.             *)
THEOREM BusyIsTrue ==
  ASSUME Bursts \/ "reset" \notin HostUses
  PROVE  Spec => []BusyUntilDone
<1>1. DispatcherInv => BusyUntilDone
  BY DEF DispatcherInv
<1> QED
  BY <1>1, DispatcherInvariance, PTL

-----------------------------------------------------------------------------
(* What waits in front of a master after a cycle without a reset.          *)
LEMMA QueueStep ==
  ASSUME TypeOK, FifoInv, OutputsFollow, HostChecks, ~sw_reset,
         NEW d, NEW w, NEW clear_irq, NEW read_control, NEW response_read,
         NEW finishing, NEW between, NEW data, NEW failing,
         Turn(d, w, clear_irq, read_control, response_read,
              finishing, between, data, failing),
         NEW m \in Masters
  PROVE  /\ waiting[m] # <<>> \/ ~issue(m)
         /\ d # NoDescriptor => Len(waiting[m]) < Depth
         /\ waiting'[m] = (IF issue(m) THEN Queue!Rest(waiting[m]) ELSE waiting[m])
                            \o (IF d = NoDescriptor THEN <<>> ELSE <<d>>)
         /\ issue(m) => read_data[m] = Head(waiting[m])
<1> DEFINE r == ram[m]
           a == read_address[m]
           u == used(m)
           a1 == read_address'[m]
           k1 == IF pop(m) THEN u - 1 ELSE u
           w0 == Waiting(r, Depth, a, u)
           w1 == Waiting(r, Depth, a1, k1)
<1>1. /\ waiting[m] = w0
      /\ waiting'[m] = Waiting(ram'[m], Depth, read_address'[m], internal_used'[m])
  BY DEF waiting, Waiting, used
<1>2. /\ Depth \in Nat \ {0} /\ u \in 0..Depth /\ a \in 0..(Depth - 1)
      /\ write_address[m] = (a + u) % Depth
      /\ r \in [0..(Depth - 1) -> Descriptors]
      /\ a1 \in 0..(Depth - 1)
  BY Counts, FifoKept DEF FifoInv, TypeOK, Address, used
<1>3. /\ a1 = IF pop(m) THEN (a + 1) % Depth ELSE a
      /\ internal_used'[m] = k1 + (IF d = NoDescriptor THEN 0 ELSE 1)
  <2>1. push(d) <=> d # NoDescriptor
    BY PushAndPop DEF push
  <2>2. internal_used'[m] = u + (IF push(d) THEN 1 ELSE 0) - (IF pop(m) THEN 1 ELSE 0)
    BY FifoOf
  <2>3. a1 = IF pop(m) THEN (a + 1) % Depth ELSE a
    BY FifoOf
  <2> QED
    BY <1>2, <2>1, <2>2, <2>3
<1>4. /\ issue(m) => u >= 1
      /\ pop(m) => u >= 1
      /\ d # NoDescriptor => u < Depth /\ d \in Descriptors
  BY PushAndPop
<1>5. issue(m) => read_data[m] = r[a]
  BY DEF issue, command_valid, OutputsFollow, Next1
<1>6. pop(m) <=> issue(m) /\ ~(read_data[m].park /\ u = 1)
  BY DEF pop, park_enable
<1> HIDE DEF r, a, u, a1, k1, w0, w1
<1>7. Len(w0) = u
  BY <1>2 DEF w0, Waiting
<1>8. k1 \in 0..Depth /\ (d # NoDescriptor => k1 \in 0..(Depth - 1))
  BY <1>2, <1>4 DEF k1
<1>9. issue(m) => /\ w0 # <<>> /\ Head(w0) = r[a]
                  /\ Waiting(r, Depth, (a + 1) % Depth, u - 1) = Tail(w0)
  <2> SUFFICES ASSUME issue(m)
               PROVE  /\ w0 # <<>> /\ Head(w0) = r[a]
                      /\ Waiting(r, Depth, (a + 1) % Depth, u - 1) = Tail(w0)
    OBVIOUS
  <2>1. u \in 1..Depth
    BY <1>2, <1>4
  <2> QED
    BY <1>2, <2>1, WaitingTail DEF w0
<1>10. w1 = IF issue(m) THEN Queue!Rest(w0) ELSE w0
  <2>1. CASE pop(m)
    <3>1. issue(m) /\ ~(read_data[m].park /\ u = 1)
      BY <1>6, <2>1
    <3>2. w1 = Tail(w0)
      BY <1>3, <1>9, <2>1, <3>1 DEF w1, k1
    <3>3. Queue!Rest(w0) = Tail(w0)
      BY <1>5, <1>7, <1>9, <3>1 DEF Queue!Rest
    <3> QED
      BY <3>1, <3>2, <3>3
  <2>2. CASE ~pop(m)
    <3>1. w1 = w0
      BY <1>3, <2>2 DEF w1, w0, k1
    <3>2. issue(m) => Queue!Rest(w0) = w0
      BY <1>5, <1>6, <1>7, <1>9, <2>2 DEF Queue!Rest
    <3> QED
      BY <3>1, <3>2
  <2> QED
    BY <2>1, <2>2
<1>11. waiting'[m] = w1 \o (IF d = NoDescriptor THEN <<>> ELSE <<d>>)
  <2>1. CASE d = NoDescriptor
    <3>1. ram'[m] = r /\ internal_used'[m] = k1
      <4>1. ram'[m] = r
        BY <2>1, FifoOf DEF r
      <4>2. internal_used'[m] = k1
        BY <1>3, <1>8, <2>1
      <4> QED
        BY <4>1, <4>2
    <3>2. waiting'[m] = w1
      <4>1. waiting'[m] = Waiting(ram'[m], Depth, a1, internal_used'[m])
        BY <1>1 DEF a1
      <4> QED
        BY <3>1, <4>1, Zenon DEF w1
    <3>3. w1 \in Seq(Descriptors)
      <4>1. ASSUME NEW i \in 1..k1
            PROVE  (a1 + i - 1) % Depth \in 0..(Depth - 1)
        <5>1. i - 1 \in 0..Depth /\ a1 + i - 1 = a1 + (i - 1)
          BY <1>2, <1>8
        <5> QED
          BY <1>2, <5>1, Place
      <4> QED
        BY <1>2, <1>8, <4>1 DEF w1, Waiting
    <3>4. w1 \o <<>> = w1
      BY <3>3, ConcatEmptySeq
    <3> QED
      BY <2>1, <3>2, <3>4
  <2>2. CASE d # NoDescriptor
    <3>1. /\ ram'[m] = [r EXCEPT ![(a + u) % Depth] = d]
          /\ internal_used'[m] = k1 + 1
      BY <1>2, <1>3, <2>2, FifoOf DEF r
    <3>2. (a + u) % Depth = (a1 + k1) % Depth
      <4>1. CASE ~pop(m)
        BY <1>3, <4>1 DEF k1
      <4>2. CASE pop(m)
        <5>1. /\ a1 = IF a + 1 < Depth THEN a + 1 ELSE a + 1 - Depth
              /\ k1 = u - 1
          BY <1>2, <1>3, <4>2, NextPlace DEF k1
        <5>2. (a + u) % Depth = IF a + u < Depth THEN a + u ELSE a + u - Depth
          BY <1>2, Place
        <5>3. (a1 + k1) % Depth = IF a1 + k1 < Depth THEN a1 + k1 ELSE a1 + k1 - Depth
          BY <1>2, <1>8, Place
        <5>4. u >= 1 /\ u < Depth
          BY <1>4, <2>2, <4>2
        <5> QED
          BY <1>2, <5>1, <5>2, <5>3, <5>4
      <4> QED
        BY <4>1, <4>2
    <3>3. waiting'[m] = Waiting(ram'[m], Depth, a1, k1 + 1)
      BY <1>1, <3>1 DEF a1
    <3>4. d \in Descriptors /\ k1 \in 0..(Depth - 1)
      BY <1>4, <1>8, <2>2
    <3>5. Written(ram'[m], r, Depth, (a1 + k1) % Depth, d)
      <4> DEFINE p == (a1 + k1) % Depth
      <4>1. p \in 0..(Depth - 1)
        BY <1>2, <1>8, Place
      <4>2. ram'[m] = [r EXCEPT ![p] = d]
        BY <3>1, <3>2
      <4> HIDE DEF p
      <4>3. ram'[m][p] = d /\ \A q \in 0..(Depth - 1) : q # p => ram'[m][q] = r[q]
        BY <1>2, <4>1, <4>2
      <4> QED
        BY <4>3 DEF p, Written
    <3>6. waiting'[m] = w1 \o <<d>>
      <4>1. /\ Depth \in Nat \ {0} /\ r \in [0..(Depth - 1) -> Descriptors]
            /\ a1 \in 0..(Depth - 1)
        BY <1>2
      <4>2. Waiting(ram'[m], Depth, a1, k1 + 1) = Behind(Waiting(r, Depth, a1, k1), d)
        BY <3>4, <3>5, <4>1, WaitingAppend
      <4> QED
        BY <3>3, <4>2 DEF w1, Behind
    <3> QED
      BY <2>2, <3>6
  <2> QED
    BY <2>1, <2>2
<1>12. waiting[m] = w0
  BY <1>1
<1>13. d # NoDescriptor => Len(waiting[m]) < Depth
  BY <1>4, <1>7, <1>12
<1>14. waiting[m] # <<>> \/ ~issue(m)
  BY <1>9, <1>12
<1>15. issue(m) => read_data[m] = Head(waiting[m])
  BY <1>5, <1>9, <1>12
<1> QED
  BY <1>10, <1>11, <1>12, <1>13, <1>14, <1>15

(* The queues are empty at first.                                          *)
LEMMA QueueInit == Init => Queue!Init
<1> SUFFICES ASSUME Init PROVE Queue!Init
  OBVIOUS
<1>1. ASSUME NEW m \in Masters PROVE waiting[m] = <<>>
  <2>1. used(m) = 0
    BY DEF Init, used
  <2> QED
    BY <2>1 DEF waiting
<1>2. waiting = [m \in Masters |-> <<>>]
  <2>1. waiting = [m \in Masters |-> waiting[m]]
    BY DEF waiting
  <2> QED
    BY <1>1, <2>1
<1>3. command \in [Masters -> Descriptors]
  BY SomeDescriptor DEF Init
<1> QED
  BY <1>2, <1>3 DEF Queue!Init

(* Every cycle serves the masters that are issued a command, or resets.    *)
LEMMA QueueNext ==
  ASSUME HostChecks, DispatcherInv, [Next]_vars
  PROVE  [Queue!Next]_(Queue!vars)
<1>1. CASE Next
  <2>1. PICK d, w, clear_irq, read_control, response_read,
             finishing, between, data, failing :
          Turn(d, w, clear_irq, read_control, response_read,
               finishing, between, data, failing)
    BY <1>1, NextIsTurn
  <2>2. TypeOK /\ FifoInv /\ OutputsFollow
    BY DEF DispatcherInv
  <2>3. command' = [m \in Masters |-> IF issue(m) THEN read_data[m] ELSE command[m]]
    BY <2>1 DEF Turn, MastersNext
  <2>4. waiting' = [m \in Masters |-> waiting'[m]]
    BY DEF waiting
  <2>5. CASE sw_reset
    <3>1. ASSUME NEW m \in Masters PROVE waiting'[m] = <<>>
      <4>1. internal_used'[m] = 0
        BY <2>1, <2>5, FifoOf
      <4> QED
        BY <4>1 DEF waiting, used
    <3>2. \A m \in Masters : ~issue(m)
      BY <2>5 DEF issue, command_valid
    <3>3. command' = command
      BY <2>2, <2>3, <3>2 DEF TypeOK
    <3>4. waiting' = [m \in Masters |-> <<>>]
      BY <2>4, <3>1
    <3> QED
      BY <3>3, <3>4 DEF Queue!Next, Queue!Reset
  <2>6. CASE ~sw_reset
    <3> DEFINE served == {m \in Masters : issue(m)}
               accepted == IF d = NoDescriptor THEN <<>> ELSE <<d>>
    <3>1. ASSUME NEW m \in Masters
          PROVE  /\ waiting[m] # <<>> \/ ~issue(m)
                 /\ d # NoDescriptor => Len(waiting[m]) < Depth
                 /\ waiting'[m] =
                      (IF issue(m) THEN Queue!Rest(waiting[m]) ELSE waiting[m])
                        \o accepted
                 /\ issue(m) => read_data[m] = Head(waiting[m])
      BY <2>1, <2>2, <2>6, QueueStep
    <3>2. served \in SUBSET Masters /\ \A m \in Masters : m \in served <=> issue(m)
      OBVIOUS
    <3>3. accepted \in {<<>>} \cup {<<e>> : e \in Descriptors}
      BY <2>1, <2>2, PushAndPop
    <3>4. accepted # <<>> => d # NoDescriptor
      OBVIOUS
    <3> HIDE DEF served, accepted
    <3>5. waiting' = [m \in Masters |->
            (IF m \in served THEN Queue!Rest(waiting[m]) ELSE waiting[m]) \o accepted]
      BY <2>4, <3>1, <3>2
    <3>6. command' = [m \in Masters |->
            IF m \in served THEN Head(waiting[m]) ELSE command[m]]
      BY <2>3, <3>1, <3>2
    <3>7. Queue!Serve(served, accepted)
      BY <3>1, <3>2, <3>4, <3>5, <3>6 DEF Queue!Serve
    <3> QED
      BY <3>2, <3>3, <3>7 DEF Queue!Next
  <2> QED
    BY <2>5, <2>6
<1>2. CASE UNCHANGED vars
  <2>1. waiting' = waiting /\ command' = command
    BY <1>2 DEF vars, fifo, masters, waiting, used
  <2> QED
    BY <2>1 DEF Queue!vars
<1> QED
  BY <1>1, <1>2

(* Each master is given what was accepted, in order and once, whatever the *)
(* depth of the buffers, through the latency of the memory, parking and    *)
(* resets, if the host checks for room before it writes.                   *)
THEOREM DispatcherIsQueue ==
  ASSUME HostChecks
  PROVE  Spec => ImplementsQueue
<1>1. DispatcherInv /\ [Next]_vars => [Queue!Next]_(Queue!vars)
  BY QueueNext
<1> QED
  BY <1>1, QueueInit, DispatcherInvariance, PTL DEF Spec, ImplementsQueue, Queue!Spec
=============================================================================
