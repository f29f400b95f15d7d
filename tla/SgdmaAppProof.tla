--------------------------- MODULE SgdmaAppProof ----------------------------
(***************************************************************************)
(* Proofs about the example application of the modular SGDMA, for any      *)
(* number of tests and buffers, any depth of the dispatcher and any FIFO.  *)
(* The invariant says at each place of main how many of the test's         *)
(* descriptors each master has been given and done, and what that means    *)
(* for the data in the cache, in the memory and between the masters.       *)
(***************************************************************************)
EXTENDS SgdmaApp, SequenceTheorems, TLAPS

(* The descriptors that main has written in this test, those that a master *)
(* has been given, and those that the write master has completed.          *)
Written == IF mpc \in {"enable", "populate", "flush"} THEN 0
           ELSE IF mpc \in {"poll", "write"} THEN i
           ELSE Buffers

Given(m) == Written - Len(waiting[m])

Done == Given("write") - (IF writing THEN 1 ELSE 0)

(* Between the flush and the end of the comparison. *)
Transferring == mpc \in {"poll", "write", "wait", "verify", "again"}

(* Main counts its buffers, finds room for a descriptor that it has seen   *)
(* room for, and never fails.                                              *)
MainInv ==
  /\ mpc # "failed"
  /\ mpc \in {"populate", "poll", "write", "verify"} => i < Buffers
  /\ mpc \in {"enable", "flush", "wait", "again", "end"} => i = 0
  /\ mpc = "write" => ~Full
  /\ mpc = "enable" <=> isr = "off"

(* The descriptors of the test wait in the order of the buffers, after     *)
(* those that the master has been given.                                   *)
QueueInv ==
  \A m \in Masters :
    /\ Len(waiting[m]) <= Written
    /\ \A k \in 1..Len(waiting[m]) :
         waiting[m][k] = Descriptor(Given(m) + k - 1)

(* What the read master was given is done, between the masters, or on its  *)
(* way, in this order.                                                     *)
MastersInv ==
  /\ writing => /\ Given("write") > 0
                /\ command["write"] = Descriptor(Given("write") - 1)
  /\ Given("read") = Done + Len(stream) + Len(pending)
  /\ \A k \in 1..Len(stream) : stream[k] = test
  /\ \A k \in 1..Len(pending) : pending[k] = Done + Len(stream) + k - 1

(* Main's data are in the source buffers as the processor sees them, and   *)
(* after the flush as the masters see them.                                *)
SourceInv ==
  /\ mpc = "populate" => \A b \in Buffer : b < i => Loaded(<<"source", b>>) = test
  /\ mpc = "flush" => \A b \in Buffer : Loaded(<<"source", b>>) = test
  /\ Transferring => \A b \in Buffer : /\ cache[<<"source", b>>] = Absent
                                       /\ memory[<<"source", b>>] = test

(* What is done is in memory, and not hidden behind the cache.             *)
DestInv ==
  /\ Transferring => \A b \in Buffer : b < Done => memory[<<"dest", b>>] = test
  /\ mpc \in {"poll", "write", "wait"} =>
       \A b \in Buffer : cache[<<"dest", b>>] = Absent
  /\ mpc = "verify" =>
       \A b \in Buffer : b >= i => cache[<<"dest", b>>] = Absent

(* The interrupt of a test comes when all of it is done, not before.       *)
Signalled(raised, where, fired, count) ==
  /\ irq = raised /\ isr = where
  /\ sgdma_interrupt_fired = fired /\ interrupts = count

InterruptInv ==
  \/ /\ Done < Buffers /\ mpc \notin {"verify", "again", "end"}
     /\ Signalled(FALSE, IF mpc = "enable" THEN "off" ELSE "idle", 0, test - 1)
  \/ Done = Buffers /\ mpc = "wait" /\ Signalled(TRUE, "idle", 0, test - 1)
  \/ Done = Buffers /\ mpc = "wait" /\ Signalled(TRUE, "clear", 1, test)
  \/ /\ Done = Buffers /\ mpc \in {"wait", "verify", "again"}
     /\ Signalled(FALSE, "idle", 1, test)
  \/ Done = Buffers /\ mpc = "end" /\ Signalled(FALSE, "idle", 0, test)

AppInv == /\ TypeOK /\ MainInv /\ QueueInv /\ MastersInv
          /\ SourceInv /\ DestInv /\ InterruptInv


-----------------------------------------------------------------------------
(* A descriptor that main builds says what it was built for.               *)
LEMMA DescriptorFields ==
  ASSUME NEW b \in Buffer
  PROVE  /\ Descriptor(b) \in Descriptors
         /\ Descriptor(b).buffer = b
         /\ Descriptor(b).irq <=> b = Buffers - 1
<1>1. Descriptor(b) \in Descriptors
  BY DEF Descriptor, Descriptors
<1>2. Descriptor(b).buffer = b
  BY DEF Descriptor
<1>3. Descriptor(b).irq <=> b = Buffers - 1
  BY DEF Descriptor
<1>4. QED
  BY <1>1, <1>2, <1>3

(* The dispatcher accepts a descriptor: it is the last in both queues.     *)
LEMMA Accepts ==
  ASSUME TypeOK, NEW d \in Descriptors, Dispatcher!Serve({}, <<d>>)
  PROVE  /\ waiting' \in [Masters -> Seq(Descriptors)]
         /\ UNCHANGED command
         /\ \A m \in Masters :
              /\ Len(waiting[m]) \in Nat /\ Len(waiting[m]) < Depth
              /\ Len(waiting'[m]) = Len(waiting[m]) + 1
              /\ \A k \in 1..Len(waiting[m]) : waiting'[m][k] = waiting[m][k]
              /\ waiting'[m][Len(waiting[m]) + 1] = d
<1>1. waiting' = [m \in Masters |-> waiting[m] \o <<d>>]
  BY DEF Dispatcher!Serve
<1>2. \A m \in Masters : Len(waiting[m]) < Depth
  BY DEF Dispatcher!Serve
<1>3. \A m \in Masters : waiting[m] \in Seq(Descriptors)
  BY DEF TypeOK
<1>4. command' = [m \in Masters |-> command[m]]
  BY DEF Dispatcher!Serve
<1>5. command' = command
  BY <1>4 DEF TypeOK
<1>6. ASSUME NEW q \in Seq(Descriptors)
      PROVE  /\ q \o <<d>> \in Seq(Descriptors)
             /\ Len(q) \in Nat /\ Len(q \o <<d>>) = Len(q) + 1
             /\ \A k \in 1..Len(q) : (q \o <<d>>)[k] = q[k]
             /\ (q \o <<d>>)[Len(q) + 1] = d
  OBVIOUS
<1>7. ASSUME NEW m \in Masters
      PROVE  /\ waiting'[m] = waiting[m] \o <<d>>
             /\ waiting[m] \in Seq(Descriptors)
  BY <1>1, <1>3
<1>8. waiting' \in [Masters -> Seq(Descriptors)]
  BY <1>1, <1>3, <1>6
<1>9. QED
  BY <1>2, <1>5, <1>6, <1>7, <1>8

(* The dispatcher gives a master its next command: the first that waits.   *)
LEMMA Gives ==
  ASSUME TypeOK, NEW m \in Masters, Dispatcher!Serve({m}, <<>>)
  PROVE  /\ waiting' \in [Masters -> Seq(Descriptors)]
         /\ command' = [command EXCEPT ![m] = waiting[m][1]]
         /\ waiting[m][1] \in Descriptors
         /\ Len(waiting[m]) \in Nat \ {0}
         /\ Len(waiting'[m]) = Len(waiting[m]) - 1
         /\ \A k \in 1..Len(waiting'[m]) : waiting'[m][k] = waiting[m][k + 1]
         /\ \A n \in Masters \ {m} : waiting'[n] = waiting[n]
<1>1. \A n \in Masters : waiting[n] \in Seq(Descriptors)
  BY DEF TypeOK
<1>2. waiting[m] # <<>>
  BY DEF Dispatcher!Serve
<1>3. ASSUME NEW q \in Seq(Descriptors), q # <<>>
      PROVE  /\ Len(q) \in Nat \ {0} /\ Head(q) = q[1] /\ q[1] \in Descriptors
             /\ Tail(q) \in Seq(Descriptors) /\ Len(Tail(q)) = Len(q) - 1
             /\ \A k \in 1..Len(Tail(q)) : Tail(q)[k] = q[k + 1]
  BY <1>3
<1>4. \A d \in Descriptors : d.park = FALSE
  BY DEF Descriptors
<1>5. Dispatcher!Rest(waiting[m]) = Tail(waiting[m])
  BY <1>1, <1>2, <1>3, <1>4 DEF Dispatcher!Rest
<1>6. ASSUME NEW q \in Seq(Descriptors) PROVE q \o <<>> = q
  OBVIOUS
<1>7. waiting' = [n \in Masters |->
        (IF n \in {m} THEN Dispatcher!Rest(waiting[n]) ELSE waiting[n]) \o <<>>]
  BY DEF Dispatcher!Serve
<1>8. waiting'[m] = Tail(waiting[m])
  <2>1. waiting'[m] = Dispatcher!Rest(waiting[m]) \o <<>>
    BY <1>7
  <2>2. Tail(waiting[m]) \in Seq(Descriptors)
    BY <1>1, <1>2, <1>3
  <2>3. QED
    BY <1>5, <1>6, <2>1, <2>2
<1>9. \A n \in Masters \ {m} : waiting'[n] = waiting[n]
  BY <1>1, <1>6, <1>7
<1>10. waiting' \in [Masters -> Seq(Descriptors)]
  <2>1. \A n \in Masters : waiting'[n] \in Seq(Descriptors)
    BY <1>1, <1>2, <1>3, <1>8, <1>9
  <2>2. QED
    BY <1>7, <2>1
<1>11. command' = [n \in Masters |-> IF n \in {m} THEN Head(waiting[n]) ELSE command[n]]
  BY DEF Dispatcher!Serve
<1>12. command' = [command EXCEPT ![m] = waiting[m][1]]
  <2>1. Head(waiting[m]) = waiting[m][1]
    BY <1>1, <1>2, <1>3
  <2>2. QED
    BY <1>11, <2>1 DEF TypeOK
<1>13. QED
  BY <1>1, <1>2, <1>3, <1>8, <1>9, <1>10, <1>12

-----------------------------------------------------------------------------
(* The counts of a test are what they are named for.                       *)
LEMMA Counts ==
  ASSUME AppInv
  PROVE  /\ Written \in 0..Buffers /\ i \in Nat /\ test \in Nat
         /\ Len(pending) \in Nat /\ Len(stream) \in Nat
         /\ \A m \in Masters : Len(waiting[m]) \in Nat /\ Given(m) \in 0..Written
         /\ Done \in 0..Given("write") /\ Done \in 0..Given("read")
         /\ Done \in 0..Written
<1> USE AppAssumption DEF AppInv
<1>1. Written \in 0..Buffers /\ i \in Nat /\ test \in Nat
  BY DEF TypeOK, Written
<1>2. Len(pending) \in Nat /\ Len(stream) \in Nat
  BY DEF TypeOK
<1>3. \A m \in Masters : Len(waiting[m]) \in Nat
  BY DEF TypeOK
<1>4. \A m \in Masters : Given(m) \in 0..Written
  <2>1. \A m \in Masters : Len(waiting[m]) <= Written
    BY DEF QueueInv
  <2>2. QED
    BY <1>1, <1>3, <2>1 DEF Given
<1>5. Given("write") \in 0..Written /\ Given("read") \in 0..Written
  BY <1>4 DEF Masters
<1>6. Done \in 0..Given("write")
  <2>1. CASE writing
    BY <1>1, <1>5, <2>1 DEF MastersInv, Done
  <2>2. CASE ~writing
    BY <1>1, <1>5, <2>2 DEF Done
  <2>3. QED
    BY <2>1, <2>2
<1>7. Done \in 0..Given("read")
  BY <1>1, <1>2, <1>5, <1>6 DEF MastersInv
<1>8. Done \in 0..Written
  BY <1>1, <1>5, <1>6
<1>9. QED
  BY <1>1, <1>2, <1>3, <1>4, <1>6, <1>7, <1>8

(* A step that touches neither queues nor masters leaves what they say     *)
(* about the test.                                                         *)
LEMMA Quiet ==
  ASSUME QueueInv, MastersInv, UNCHANGED <<queue, masters, Written, test>>
  PROVE  /\ QueueInv' /\ MastersInv'
         /\ \A m \in Masters : Given(m)' = Given(m)
         /\ Done' = Done
<1>1. \A m \in Masters : Given(m)' = Given(m)
  BY DEF Given, queue
<1>2. Given("write")' = Given("write") /\ Given("read")' = Given("read")
  BY DEF Given, queue
<1>3. Done' = Done
  BY <1>2 DEF Done, masters
<1>4. QueueInv'
  BY <1>1 DEF QueueInv, queue, Given
<1>5. MastersInv'
  BY <1>2, <1>3 DEF MastersInv, queue, masters
<1>6. QED
  BY <1>1, <1>3, <1>4, <1>5

(* When all that was written is done, nothing is left anywhere.            *)
LEMMA Rests ==
  ASSUME AppInv, Done = Written
  PROVE  /\ \A m \in Masters : waiting[m] = <<>> /\ Given(m) = Written
         /\ pending = <<>> /\ stream = <<>> /\ ~writing
<1>1. \A m \in Masters : Given(m) = Written
  BY Counts DEF Masters
<1>2. \A m \in Masters : waiting[m] = <<>>
  <2> SUFFICES ASSUME NEW m \in Masters PROVE waiting[m] = <<>>
    OBVIOUS
  <2>1. Len(waiting[m]) = 0
    BY <1>1, Counts DEF Given
  <2>2. waiting[m] \in Seq(Descriptors)
    BY DEF AppInv, TypeOK
  <2>3. QED
    BY <2>1, <2>2
<1>3. Given("read") = Written /\ Given("write") = Written
  BY <1>1 DEF Masters
<1>4. Given("read") = Done + Len(stream) + Len(pending)
  BY DEF AppInv, MastersInv
<1>5. Len(stream) = 0 /\ Len(pending) = 0
  BY <1>3, <1>4, Counts
<1>6. pending \in Seq(Buffer) /\ stream \in Seq(Content)
  BY DEF AppInv, TypeOK
<1>7. pending = <<>> /\ stream = <<>>
  BY <1>5, <1>6
<1>8. ~writing
  BY <1>3, Counts DEF Done
<1>9. QED
  BY <1>1, <1>2, <1>7, <1>8

(* Main writes a descriptor: nobody has been given it yet.                 *)
LEMMA MainWritesMoves ==
  ASSUME AppInv, MainWrites
  PROVE  /\ Dispatcher!Serve({}, <<Descriptor(i)>>) /\ Descriptor(i) \in Descriptors
         /\ \/ i + 1 < Buffers /\ i' = i + 1 /\ mpc' = "poll"
            \/ i + 1 = Buffers /\ i' = 0 /\ mpc' = "wait"
         /\ QueueInv' /\ MastersInv' /\ Written' = Written + 1
         /\ \A m \in Masters : Given(m)' = Given(m)
         /\ Done' = Done
<1>1. mpc = "write" /\ ~Full /\ i < Buffers /\ i \in Nat
  BY Counts DEF MainWrites, MainAt, AppInv, MainInv
<1>2. /\ Dispatcher!Serve({}, <<Descriptor(i)>>)
      /\ \/ i + 1 < Buffers /\ i' = i + 1 /\ mpc' = "poll"
         \/ i + 1 = Buffers /\ i' = 0 /\ mpc' = "wait"
  BY <1>1, AppAssumption DEF MainWrites
<1>3. Written = i /\ Written' = i + 1
  BY <1>1, <1>2 DEF Written
<1>4. i \in Buffer
  BY <1>1, AppAssumption DEF Buffer
<1>5. Descriptor(i) \in Descriptors
  BY <1>4, DescriptorFields
<1>6. TypeOK
  BY DEF AppInv
<1>7. /\ UNCHANGED command
      /\ \A m \in Masters :
           /\ Len(waiting[m]) \in Nat
           /\ Len(waiting'[m]) = Len(waiting[m]) + 1
           /\ \A k \in 1..Len(waiting[m]) : waiting'[m][k] = waiting[m][k]
           /\ waiting'[m][Len(waiting[m]) + 1] = Descriptor(i)
  BY <1>2, <1>5, <1>6, Accepts
<1>8. \A m \in Masters : Given(m)' = Given(m) /\ Given(m) = i - Len(waiting[m])
  <2> SUFFICES ASSUME NEW m \in Masters
               PROVE  Given(m)' = Given(m) /\ Given(m) = i - Len(waiting[m])
    OBVIOUS
  <2>1. Given(m) = i - Len(waiting[m])
    BY <1>3 DEF Given
  <2>2. Given(m)' = (i + 1) - Len(waiting'[m])
    BY <1>3 DEF Given
  <2>3. Len(waiting[m]) \in Nat /\ Len(waiting'[m]) = Len(waiting[m]) + 1
    BY <1>7
  <2>4. QED
    BY <1>1, <2>1, <2>2, <2>3
<1>9. Given("write")' = Given("write") /\ Given("read")' = Given("read")
  BY <1>8 DEF Masters
<1>10. Done' = Done
  BY <1>9 DEF Done, MainWrites, masters
<1>11. QueueInv'
  <2> SUFFICES ASSUME NEW m \in Masters
               PROVE  /\ Len(waiting'[m]) <= Written'
                      /\ \A k \in 1..Len(waiting'[m]) :
                           waiting'[m][k] = Descriptor(Given(m) + k - 1)
    BY <1>8 DEF QueueInv, Descriptor
  <2>1. /\ Len(waiting[m]) <= i
        /\ \A k \in 1..Len(waiting[m]) :
             waiting[m][k] = Descriptor(Given(m) + k - 1)
    BY <1>3 DEF AppInv, QueueInv
  <2>2. Len(waiting'[m]) <= Written'
    BY <1>1, <1>3, <1>7, <2>1
  <2>3. ASSUME NEW k \in 1..Len(waiting'[m])
        PROVE  waiting'[m][k] = Descriptor(Given(m) + k - 1)
    <3>1. CASE k \in 1..Len(waiting[m])
      BY <1>7, <2>1, <3>1
    <3>2. CASE k = Len(waiting[m]) + 1
      <4>1. Given(m) + k - 1 = i
        BY <1>1, <1>7, <1>8, <3>2
      <4>2. QED
        BY <1>7, <3>2, <4>1
    <3>3. QED
      BY <1>7, <3>1, <3>2
  <2>4. QED
    BY <2>2, <2>3
<1>12. MastersInv'
  BY <1>7, <1>9, <1>10 DEF AppInv, MastersInv, MainWrites, masters, Descriptor
<1>13. QED
  BY <1>2, <1>3, <1>5, <1>8, <1>10, <1>11, <1>12

(* A master is given a command: it is the one for the buffer that follows  *)
(* those it has had, and the other master's queue is as before.            *)
LEMMA GivesNext ==
  ASSUME AppInv, NEW m \in Masters, Dispatcher!Serve({m}, <<>>), UNCHANGED main
  PROVE  /\ Given(m) \in Buffer /\ Given(m) < Written
         /\ waiting' \in [Masters -> Seq(Descriptors)]
         /\ command' = [command EXCEPT ![m] = Descriptor(Given(m))]
         /\ Given(m)' = Given(m) + 1
         /\ \A n \in Masters \ {m} : Given(n)' = Given(n)
         /\ \A n \in Masters : Len(waiting'[n]) \in Nat /\ Len(waiting'[n]) <= Len(waiting[n])
         /\ QueueInv' /\ Written' = Written
<1>1. TypeOK
  BY DEF AppInv
<1>2. /\ waiting' \in [Masters -> Seq(Descriptors)]
      /\ command' = [command EXCEPT ![m] = waiting[m][1]]
      /\ Len(waiting[m]) \in Nat \ {0}
      /\ Len(waiting'[m]) = Len(waiting[m]) - 1
      /\ \A k \in 1..Len(waiting'[m]) : waiting'[m][k] = waiting[m][k + 1]
      /\ \A n \in Masters \ {m} : waiting'[n] = waiting[n]
  BY <1>1, Gives
<1>3. Written' = Written
  BY DEF Written, main
<1>4. Written \in 0..Buffers /\ Buffers \in Nat
  BY Counts, AppAssumption
<1>5. \A n \in Masters : Len(waiting[n]) \in Nat /\ Len(waiting[n]) <= Written
  BY Counts DEF AppInv, QueueInv
<1>6. \A n \in Masters : \A k \in 1..Len(waiting[n]) :
        waiting[n][k] = Descriptor(Given(n) + k - 1)
  BY DEF AppInv, QueueInv
<1>7. Given(m) = Written - Len(waiting[m])
  BY DEF Given
<1>8. Given(m) \in Buffer /\ Given(m) < Written
  BY <1>2, <1>4, <1>5, <1>7 DEF Buffer
<1>9. Given(m) \in Nat
  BY <1>4, <1>5, <1>7
<1>10. waiting[m][1] = Descriptor(Given(m))
  <2>1. Given(m) + 1 - 1 = Given(m)
    BY <1>9
  <2>2. 1 \in 1..Len(waiting[m])
    BY <1>2
  <2>3. QED
    BY <1>6, <2>1, <2>2
<1>11. Given(m)' = Written - Len(waiting'[m])
  BY <1>3 DEF Given
<1>12. Given(m)' = Given(m) + 1
  BY <1>2, <1>4, <1>7, <1>11
<1>13. \A n \in Masters \ {m} : Given(n)' = Given(n)
  BY <1>2, <1>3 DEF Given
<1>14. \A n \in Masters : Len(waiting'[n]) \in Nat /\ Len(waiting'[n]) <= Len(waiting[n])
  BY <1>2, <1>5
<1>15. QueueInv'
  <2> SUFFICES ASSUME NEW n \in Masters
               PROVE  /\ Len(waiting'[n]) <= Written
                      /\ \A k \in 1..Len(waiting'[n]) :
                           waiting'[n][k] = Descriptor(Given(n)' + k - 1)
    BY <1>3 DEF QueueInv, Descriptor
  <2>1. Len(waiting'[n]) <= Written
    BY <1>4, <1>5, <1>14
  <2>2. ASSUME NEW k \in 1..Len(waiting'[n])
        PROVE  waiting'[n][k] = Descriptor(Given(n)' + k - 1)
    <3>1. CASE n # m
      <4>1. waiting'[n] = waiting[n] /\ Given(n)' = Given(n)
        BY <1>2, <1>13, <3>1
      <4>2. \A h \in 1..Len(waiting[n]) : waiting[n][h] = Descriptor(Given(n) + h - 1)
        BY <1>6
      <4>3. QED
        BY <4>1, <4>2
    <3>2. CASE n = m
      <4>1. k + 1 \in 1..Len(waiting[m]) /\ waiting'[m][k] = waiting[m][k + 1]
        BY <1>2, <3>2
      <4>2. Given(m) + (k + 1) - 1 = Given(m)' + k - 1
        BY <1>9, <1>12
      <4>3. QED
        BY <1>6, <3>2, <4>1, <4>2
    <3>3. QED
      BY <3>1, <3>2
  <2>3. QED
    BY <2>1, <2>2
<1>16. QED
  BY <1>2, <1>3, <1>8, <1>10, <1>12, <1>13, <1>14, <1>15

-----------------------------------------------------------------------------
(* The read master posts the reads of the next buffer in order.            *)
LEMMA ReadsMoves ==
  ASSUME AppInv, ReadMasterReads
  PROVE  /\ QueueInv' /\ MastersInv' /\ Written' = Written /\ Done' = Done
         /\ waiting' \in [Masters -> Seq(Descriptors)]
         /\ command' \in [Masters -> Descriptors]
         /\ \A n \in Masters : Len(waiting'[n]) \in Nat /\ Len(waiting'[n]) <= Len(waiting[n])
         /\ Given("read")' = Given("read") + 1 /\ Given("write")' = Given("write")
         /\ pending' \in Seq(Buffer) /\ Len(pending') = Len(pending) + 1
<1>1. /\ Dispatcher!Serve({"read"}, <<>>) /\ "read" \in Masters /\ "write" \in Masters
      /\ UNCHANGED main
  BY DEF ReadMasterReads, Masters
<1>2. /\ Given("read") \in Buffer
      /\ waiting' \in [Masters -> Seq(Descriptors)]
      /\ command' = [command EXCEPT !["read"] = Descriptor(Given("read"))]
      /\ Given("read")' = Given("read") + 1
      /\ \A n \in Masters \ {"read"} : Given(n)' = Given(n)
      /\ \A n \in Masters : Len(waiting'[n]) \in Nat /\ Len(waiting'[n]) <= Len(waiting[n])
      /\ QueueInv' /\ Written' = Written
  BY <1>1, GivesNext
<1>3. Given("write")' = Given("write")
  BY <1>1, <1>2
<1>4. Done' = Done
  BY <1>3 DEF Done, ReadMasterReads
<1>5. command \in [Masters -> Descriptors] /\ pending \in Seq(Buffer)
  BY DEF AppInv, TypeOK
<1>6. Descriptor(Given("read")) \in Descriptors /\ Descriptor(Given("read")).buffer = Given("read")
  BY <1>2, DescriptorFields
<1>7. /\ command' \in [Masters -> Descriptors] /\ command'["write"] = command["write"]
      /\ command'["read"].buffer = Given("read")
  BY <1>1, <1>2, <1>5, <1>6
<1>8. pending' = Append(pending, Given("read"))
  BY <1>7 DEF ReadMasterReads
<1>9. /\ pending' \in Seq(Buffer) /\ Len(pending') = Len(pending) + 1
      /\ \A k \in 1..Len(pending) : pending'[k] = pending[k]
      /\ pending'[Len(pending) + 1] = Given("read")
  BY <1>2, <1>5, <1>8
<1>10. Given("read") = Done + Len(stream) + Len(pending)
  BY DEF AppInv, MastersInv
<1>11. MastersInv'
  <2>1. writing' => Given("write")' > 0 /\ command'["write"] = Descriptor(Given("write") - 1)
    BY <1>3, <1>7 DEF AppInv, MastersInv, ReadMasterReads
  <2>2. Given("read")' = Done' + Len(stream') + Len(pending')
    <3>1. Len(stream) \in Nat /\ Len(pending) \in Nat /\ Done \in Nat
      BY Counts
    <3>2. stream' = stream
      BY DEF ReadMasterReads
    <3>3. QED
      BY <1>2, <1>4, <1>9, <1>10, <3>1, <3>2
  <2>3. \A k \in 1..Len(stream') : stream'[k] = test'
    BY DEF AppInv, MastersInv, ReadMasterReads, main
  <2>4. \A k \in 1..Len(pending') : pending'[k] = Done' + Len(stream') + k - 1
    <3>1. \A k \in 1..Len(pending) : pending[k] = Done + Len(stream) + k - 1
      BY DEF AppInv, MastersInv
    <3>2. stream' = stream
      BY DEF ReadMasterReads
    <3>3. Len(stream) \in Nat /\ Len(pending) \in Nat /\ Done \in Nat
      BY Counts
    <3>4. Given("read") = Done + Len(stream) + (Len(pending) + 1) - 1
      BY <1>10, <3>3
    <3>5. QED
      BY <1>4, <1>9, <3>1, <3>2, <3>3, <3>4
  <2>5. QED
    BY <1>3, <2>1, <2>2, <2>3, <2>4 DEF MastersInv, Descriptor
<1>12. QED
  BY <1>2, <1>3, <1>4, <1>7, <1>9, <1>11

(* Data return for the buffer that has waited longest: this test's data.   *)
LEMMA ReturnsMoves ==
  ASSUME AppInv, DataReturns
  PROVE  /\ QueueInv' /\ MastersInv' /\ Written' = Written /\ Done' = Done
         /\ \A m \in Masters : Given(m)' = Given(m)
         /\ pending' \in Seq(Buffer) /\ stream' \in Seq(Content)
         /\ Len(pending') = Len(pending) - 1 /\ Len(stream') = Len(stream) + 1
<1>1. /\ pending \in Seq(Buffer) /\ stream \in Seq(Content) /\ test \in Content
      /\ pending # <<>>
  BY AppAssumption DEF AppInv, TypeOK, Content, DataReturns
<1>2. /\ Head(pending) \in Buffer /\ pending' \in Seq(Buffer)
      /\ Len(pending) \in Nat \ {0} /\ Len(pending') = Len(pending) - 1
      /\ \A k \in 1..Len(pending') : pending'[k] = pending[k + 1]
  BY <1>1 DEF DataReturns
<1>3. Transferring
  <2>1. CASE Done = Written
    BY <1>1, <2>1, Rests
  <2>2. CASE Done # Written
    <3>1. Written # 0
      BY <2>2, Counts
    <3>2. mpc # "end"
      <4>1. mpc = "end" => Written = Buffers
        BY DEF Written
      <4>2. mpc = "end" => Done = Buffers
        BY DEF AppInv, InterruptInv
      <4>3. QED
        BY <2>2, <4>1, <4>2
    <3>3. QED
      BY <3>1, <3>2 DEF AppInv, TypeOK, MainInv, Written, Transferring
  <2>3. QED
    BY <2>1, <2>2
<1>4. memory[<<"source", Head(pending)>>] = test
  BY <1>2, <1>3 DEF AppInv, SourceInv
<1>5. stream' = Append(stream, test)
  BY <1>4 DEF DataReturns
<1>6. /\ stream' \in Seq(Content) /\ Len(stream) \in Nat /\ Len(stream') = Len(stream) + 1
      /\ \A k \in 1..Len(stream) : stream'[k] = stream[k]
      /\ stream'[Len(stream) + 1] = test
  BY <1>1, <1>5
<1>7. Written' = Written /\ UNCHANGED <<waiting, command, writing, test>>
  BY DEF Written, DataReturns, main, queue
<1>8. \A m \in Masters : Given(m)' = Given(m)
  BY <1>7 DEF Given
<1>9. Given("write")' = Given("write") /\ Given("read")' = Given("read")
  BY <1>7 DEF Given
<1>10. Done' = Done
  BY <1>7, <1>9 DEF Done
<1>11. QueueInv'
  BY <1>7, <1>8 DEF AppInv, QueueInv, Given
<1>12. MastersInv'
  <2>1. writing' => Given("write")' > 0 /\ command'["write"] = Descriptor(Given("write") - 1)
    BY <1>7, <1>9 DEF AppInv, MastersInv
  <2>2. Done \in Nat
    BY Counts
  <2>3. Given("read")' = Done' + Len(stream') + Len(pending')
    BY <1>2, <1>6, <1>9, <1>10, <2>2 DEF AppInv, MastersInv
  <2>4. \A k \in 1..Len(stream') : stream'[k] = test'
    BY <1>6, <1>7 DEF AppInv, MastersInv
  <2>5. \A k \in 1..Len(pending') : pending'[k] = Done' + Len(stream') + k - 1
    <3>1. \A k \in 1..Len(pending) : pending[k] = Done + Len(stream) + k - 1
      BY DEF AppInv, MastersInv
    <3>2. QED
      BY <1>2, <1>6, <1>10, <2>2, <3>1
  <2>6. QED
    BY <1>9, <2>1, <2>3, <2>4, <2>5 DEF MastersInv, Descriptor
<1>13. QED
  BY <1>2, <1>6, <1>7, <1>8, <1>10, <1>11, <1>12

(* The write master takes the command for the buffer after what is done.   *)
LEMMA StartsMoves ==
  ASSUME AppInv, WriteMasterStarts
  PROVE  /\ QueueInv' /\ MastersInv' /\ Written' = Written /\ Done' = Done
         /\ waiting' \in [Masters -> Seq(Descriptors)]
         /\ command' \in [Masters -> Descriptors]
         /\ \A n \in Masters : Len(waiting'[n]) \in Nat /\ Len(waiting'[n]) <= Len(waiting[n])
         /\ Given("write")' = Given("write") + 1 /\ Given("read")' = Given("read")
<1>1. /\ Dispatcher!Serve({"write"}, <<>>) /\ "read" \in Masters /\ "write" \in Masters
      /\ UNCHANGED main /\ ~writing /\ writing' /\ UNCHANGED <<pending, stream, test>>
  BY DEF WriteMasterStarts, Masters, main
<1>2. /\ Given("write") \in Buffer
      /\ waiting' \in [Masters -> Seq(Descriptors)]
      /\ command' = [command EXCEPT !["write"] = Descriptor(Given("write"))]
      /\ Given("write")' = Given("write") + 1
      /\ \A n \in Masters \ {"write"} : Given(n)' = Given(n)
      /\ \A n \in Masters : Len(waiting'[n]) \in Nat /\ Len(waiting'[n]) <= Len(waiting[n])
      /\ QueueInv' /\ Written' = Written
  BY <1>1, GivesNext
<1>3. Given("read")' = Given("read") /\ Given("write") \in Nat
  BY <1>1, <1>2 DEF Buffer
<1>4. Done = Given("write")
  BY <1>1, <1>3 DEF Done
<1>5. Done' = Done
  <2>1. Done' = Given("write")' - 1
    BY <1>1 DEF Done
  <2>2. QED
    BY <1>2, <1>3, <1>4, <2>1
<1>6. command \in [Masters -> Descriptors]
  BY DEF AppInv, TypeOK
<1>7. Descriptor(Given("write")) \in Descriptors
  BY <1>2, DescriptorFields
<1>8. command' \in [Masters -> Descriptors] /\ command'["write"] = Descriptor(Given("write"))
  BY <1>1, <1>2, <1>6, <1>7
<1>9. MastersInv'
  <2>1. Given("write")' > 0 /\ Given("write")' - 1 = Given("write")
    BY <1>2, <1>3
  <2>2. Given("read")' = Done' + Len(stream') + Len(pending')
    BY <1>1, <1>3, <1>5 DEF AppInv, MastersInv
  <2>3. \A k \in 1..Len(stream') : stream'[k] = test'
    BY <1>1 DEF AppInv, MastersInv
  <2>4. \A k \in 1..Len(pending') : pending'[k] = Done' + Len(stream') + k - 1
    BY <1>1, <1>5 DEF AppInv, MastersInv
  <2>5. QED
    BY <1>8, <2>1, <2>2, <2>3, <2>4 DEF MastersInv, Descriptor
<1>10. QED
  BY <1>2, <1>3, <1>5, <1>8, <1>9

(* The write master completes its command: one more buffer is done.        *)
LEMMA CompletesMoves ==
  ASSUME AppInv, WriteMasterCompletes
  PROVE  /\ QueueInv' /\ MastersInv' /\ Written' = Written /\ Done' = Done + 1
         /\ \A m \in Masters : Given(m)' = Given(m)
         /\ stream' \in Seq(Content) /\ Len(stream') = Len(stream) - 1
         /\ Done \in Buffer
         /\ command["write"].buffer = Done
         /\ command["write"].irq <=> Done = Buffers - 1
         /\ Head(stream) = test
<1>1. /\ stream \in Seq(Content) /\ stream # <<>> /\ stream' = Tail(stream)
      /\ writing /\ ~writing' /\ UNCHANGED <<main, waiting, command, pending>>
  BY DEF AppInv, TypeOK, WriteMasterCompletes, queue
<1>2. /\ stream' \in Seq(Content) /\ Len(stream) \in Nat \ {0}
      /\ Len(stream') = Len(stream) - 1 /\ Head(stream) = stream[1]
      /\ \A k \in 1..Len(stream') : stream'[k] = stream[k + 1]
  BY <1>1
<1>3. Written' = Written /\ test' = test
  BY <1>1 DEF Written, main
<1>4. \A m \in Masters : Given(m)' = Given(m)
  BY <1>1, <1>3 DEF Given
<1>5. Given("write")' = Given("write") /\ Given("read")' = Given("read")
  BY <1>1, <1>3 DEF Given
<1>6. /\ Given("write") \in 0..Written /\ Written \in 0..Buffers /\ Given("write") > 0
      /\ command["write"] = Descriptor(Given("write") - 1)
  BY <1>1, Counts DEF AppInv, MastersInv, Masters
<1>7. Done = Given("write") - 1 /\ Done' = Given("write")
  BY <1>1, <1>5, <1>6 DEF Done
<1>8. Done \in Buffer /\ Done \in Nat /\ Done' = Done + 1
  BY <1>6, <1>7, AppAssumption DEF Buffer
<1>9. command["write"].buffer = Done /\ (command["write"].irq <=> Done = Buffers - 1)
  BY <1>6, <1>7, <1>8, DescriptorFields
<1>10. Head(stream) = test
  BY <1>2 DEF AppInv, MastersInv
<1>11. QueueInv'
  BY <1>1, <1>3, <1>4 DEF AppInv, QueueInv, Given
<1>12. MastersInv'
  <2>1. Given("read")' = Done' + Len(stream') + Len(pending')
    <3>1. Given("read") = Done + Len(stream) + Len(pending) /\ Len(pending) \in Nat
      BY Counts DEF AppInv, MastersInv
    <3>2. QED
      BY <1>1, <1>2, <1>5, <1>8, <3>1
  <2>2. \A k \in 1..Len(stream') : stream'[k] = test'
    BY <1>2, <1>3 DEF AppInv, MastersInv
  <2>3. \A k \in 1..Len(pending') : pending'[k] = Done' + Len(stream') + k - 1
    <3>1. \A k \in 1..Len(pending) : pending[k] = Done + Len(stream) + k - 1
      BY DEF AppInv, MastersInv
    <3>2. Done' + Len(stream') = Done + Len(stream)
      BY <1>2, <1>8
    <3>3. QED
      BY <1>1, <3>1, <3>2
  <2>4. QED
    BY <1>1, <2>1, <2>2, <2>3 DEF MastersInv
<1>13. QED
  BY <1>2, <1>3, <1>4, <1>8, <1>9, <1>10, <1>11, <1>12

(* Main is at the end of a test only when everything is done.              *)
LEMMA AtRest ==
  ASSUME AppInv, mpc \in {"enable", "populate", "flush", "verify", "again", "end"}
  PROVE  Done = Written
<1>1. CASE mpc \in {"enable", "populate", "flush"}
  BY <1>1, Counts DEF Written
<1>2. CASE mpc \in {"verify", "again", "end"}
  BY <1>2 DEF Written, AppInv, InterruptInv
<1>3. QED
  BY <1>1, <1>2

(* When main goes on to the next test nothing of this one is left.         *)
LEMMA RepeatsMoves ==
  ASSUME AppInv, MainRepeats
  PROVE  /\ QueueInv' /\ MastersInv'
         /\ Written' = IF mpc' = "populate" THEN 0 ELSE Buffers
         /\ Done' = Written'
         /\ \A m \in Masters : Given(m)' = Written'
<1>1. mpc = "again" /\ mpc' \in {"populate", "end"} /\ UNCHANGED <<waiting, pending, stream, writing>>
  BY DEF MainRepeats, MainAt, queue, masters
<1>2. /\ \A m \in Masters : waiting[m] = <<>>
      /\ pending = <<>> /\ stream = <<>> /\ ~writing
  BY <1>1, AtRest, Rests
<1>3. Written' = IF mpc' = "populate" THEN 0 ELSE Buffers
  BY <1>1 DEF Written
<1>4. Written' \in Nat
  BY <1>3, AppAssumption
<1>5. \A m \in Masters : waiting'[m] = <<>> /\ Len(waiting'[m]) = 0
  BY <1>1, <1>2
<1>6. \A m \in Masters : Given(m)' = Written'
  BY <1>4, <1>5 DEF Given
<1>7. Given("read")' = Written' /\ Given("write")' = Written'
  BY <1>6 DEF Masters
<1>8. Done' = Written'
  BY <1>1, <1>2, <1>4, <1>7 DEF Done
<1>9. QueueInv'
  BY <1>4, <1>5 DEF QueueInv
<1>10. Len(stream') = 0 /\ Len(pending') = 0
  BY <1>1, <1>2
<1>11. MastersInv'
  <2>1. ~writing'
    BY <1>1, <1>2
  <2>2. Given("read")' = Done' + Len(stream') + Len(pending')
    BY <1>4, <1>7, <1>8, <1>10
  <2>3. QED
    BY <1>10, <2>1, <2>2 DEF MastersInv
<1>12. QED
  BY <1>3, <1>6, <1>8, <1>9, <1>11

-----------------------------------------------------------------------------
(* The steps that move nothing between the queues and the masters.         *)
QuietStep ==
  \/ MainEnables \/ MainPopulates \/ MainFlushes \/ MainSeesRoom
  \/ MainSeesFlag \/ MainVerifies \/ IsrSetsFlag \/ IsrClears
  \/ \E l \in Line : CacheReplaces(l)
  \/ UNCHANGED vars

(* They keep the counts.                                                   *)
LEMMA QuietStepMoves ==
  ASSUME AppInv, QuietStep
  PROVE  /\ UNCHANGED <<queue, masters, Written, test, Done>>
         /\ \A m \in Masters : Given(m)' = Given(m)
         /\ QueueInv' /\ MastersInv'
<1>1. mpc = "flush" => i = 0
  BY DEF AppInv, MainInv
<1>2. UNCHANGED <<queue, masters, Written, test>>
  <2>1. CASE MainEnables
    BY <2>1 DEF MainEnables, MainAt, Written
  <2>2. CASE MainPopulates
    BY <2>2 DEF MainPopulates, MainAt, Written
  <2>3. CASE MainFlushes
    BY <1>1, <2>3 DEF MainFlushes, MainAt, Written
  <2>4. CASE MainSeesRoom
    BY <2>4 DEF MainSeesRoom, MainAt, Written
  <2>5. CASE MainSeesFlag
    BY <2>5 DEF MainSeesFlag, MainAt, Written
  <2>6. CASE MainVerifies
    <3>1. mpc = "verify" /\ mpc' \in {"verify", "again", "failed"}
      BY <2>6 DEF MainVerifies, MainAt
    <3>2. UNCHANGED <<queue, masters, test>>
      BY <2>6 DEF MainVerifies
    <3>3. Written' = Written
      BY <3>1 DEF Written
    <3>4. QED
      BY <3>2, <3>3
  <2>7. CASE IsrSetsFlag
    BY <2>7 DEF IsrSetsFlag, main, Written
  <2>8. CASE IsrClears
    BY <2>8 DEF IsrClears, main, Written
  <2>9. CASE \E l \in Line : CacheReplaces(l)
    BY <2>9 DEF CacheReplaces, main, Written
  <2>10. CASE UNCHANGED vars
    BY <2>10 DEF vars, main, Written
  <2>11. QED
    BY <2>1, <2>2, <2>3, <2>4, <2>5, <2>6, <2>7, <2>8, <2>9, <2>10 DEF QuietStep
<1>3. QED
  BY <1>2, Quiet DEF AppInv

(* A step is one of these or one of those above.                           *)
LEMMA StepCases ==
  ASSUME [Next]_vars
  PROVE  \/ QuietStep \/ MainWrites \/ MainRepeats
         \/ ReadMasterReads \/ DataReturns \/ WriteMasterStarts \/ WriteMasterCompletes
  BY DEF Next, Main, Isr, ReadMaster, WriteMaster, Ended, QuietStep

(* The order of the descriptors and of the data survives every step.       *)
LEMMA MovesNext ==
  ASSUME AppInv, [Next]_vars
  PROVE  QueueInv' /\ MastersInv'
  BY StepCases, QuietStepMoves, MainWritesMoves, RepeatsMoves, ReadsMoves,
     ReturnsMoves, StartsMoves, CompletesMoves

-----------------------------------------------------------------------------
(* The lines of different buffers are different.                           *)
LEMMA Lines ==
  ASSUME NEW b \in Buffer, NEW c \in Buffer
  PROVE  /\ <<"source", b>> \in Line /\ <<"dest", b>> \in Line
         /\ <<"source", b>> # <<"dest", c>>
         /\ b # c => <<"source", b>> # <<"source", c>> /\ <<"dest", b>> # <<"dest", c>>
         /\ <<"source", b>>[1] = "source" /\ <<"dest", b>>[1] = "dest"
  BY DEF Line

(* What main counts stays in range.                                        *)
LEMMA MainRange ==
  ASSUME AppInv
  PROVE  /\ i \in 0..Buffers /\ Buffers \in Nat \ {0}
         /\ mpc \in {"populate", "poll", "write", "verify"} => i \in Buffer
         /\ test \in Content /\ test # 0 /\ 0 \in Content
         /\ test \in 1..Tests /\ Tests \in Nat \ {0}
  BY AppAssumption DEF AppInv, TypeOK, MainInv, Buffer, Content

(* The processor loads what is of the type of a buffer.                    *)
LEMMA LoadedType ==
  ASSUME TypeOK, NEW l \in Line
  PROVE  Loaded(l) \in Content
  BY DEF TypeOK, Loaded

(* Every step keeps the types.                                             *)
LEMMA TypeNext ==
  ASSUME AppInv, [Next]_vars
  PROVE  TypeOK'
<1>1. TypeOK /\ MainInv
  BY DEF AppInv
<1> USE <1>1, MainRange DEF TypeOK
<1> USE DEF main, ram, queue, masters, handler
<1>2. CASE MainEnables
  BY <1>2 DEF MainEnables
<1>3. CASE MainPopulates
  <2>1. cache' \in [Line -> Content \cup {Absent}]
    BY <1>3 DEF MainPopulates
  <2>2. i' \in 0..Buffers /\ mpc' \in {"populate", "flush"}
    BY <1>3 DEF MainPopulates, MainAt
  <2>3. QED
    BY <1>3, <2>1, <2>2 DEF MainPopulates
<1>4. CASE MainFlushes
  <2>1. memory' \in [Line -> Content] /\ cache' \in [Line -> Content \cup {Absent}]
    BY <1>4 DEF MainFlushes
  <2>2. QED
    BY <1>4, <2>1 DEF MainFlushes
<1>5. CASE MainSeesRoom
  BY <1>5 DEF MainSeesRoom
<1>6. CASE MainWrites
  <2>1. /\ Dispatcher!Serve({}, <<Descriptor(i)>>) /\ Descriptor(i) \in Descriptors
        /\ \/ i + 1 < Buffers /\ i' = i + 1 /\ mpc' = "poll"
           \/ i + 1 = Buffers /\ i' = 0 /\ mpc' = "wait"
    BY <1>6, MainWritesMoves
  <2>2. /\ waiting' \in [Masters -> Seq(Descriptors)]
        /\ UNCHANGED command
        /\ \A m \in Masters :
             /\ Len(waiting[m]) \in Nat /\ Len(waiting[m]) < Depth
             /\ Len(waiting'[m]) = Len(waiting[m]) + 1
    BY <2>1, Accepts
  <2>3. \A m \in Masters : Len(waiting'[m]) <= Depth
    BY <2>2, AppAssumption
  <2>4. i' \in 0..Buffers /\ mpc' \in {"poll", "wait"}
    BY <2>1
  <2>5. QED
    BY <1>6, <2>2, <2>3, <2>4 DEF MainWrites
<1>7. CASE MainSeesFlag
  BY <1>7 DEF MainSeesFlag
<1>8. CASE MainVerifies
  <2>1. <<"dest", i>> \in Line
    BY <1>8, Lines DEF MainVerifies, MainAt
  <2>2. Loaded(<<"dest", i>>) \in Content
    BY <2>1, LoadedType
  <2>3. cache' \in [Line -> Content \cup {Absent}]
    BY <1>8, <2>2 DEF MainVerifies
  <2>4. i' \in 0..Buffers /\ mpc' \in {"verify", "again", "failed"}
    BY <1>8 DEF MainVerifies, MainAt
  <2>5. QED
    BY <1>8, <2>3, <2>4 DEF MainVerifies
<1>9. CASE MainRepeats
  <2>1. test' \in 1..Tests /\ mpc' \in {"populate", "end"}
    BY <1>9 DEF MainRepeats
  <2>2. QED
    BY <1>9, <2>1 DEF MainRepeats
<1>10. CASE IsrSetsFlag
  <2>1. interrupts' \in 0..Tests
    BY <1>10 DEF IsrSetsFlag, AppInv, InterruptInv, Signalled
  <2>2. QED
    BY <1>10, <2>1 DEF IsrSetsFlag
<1>11. CASE IsrClears
  BY <1>11 DEF IsrClears
<1>12. CASE ReadMasterReads
  <2>1. /\ waiting' \in [Masters -> Seq(Descriptors)]
        /\ command' \in [Masters -> Descriptors]
        /\ \A n \in Masters : Len(waiting'[n]) \in Nat /\ Len(waiting'[n]) <= Len(waiting[n])
        /\ pending' \in Seq(Buffer) /\ Len(pending') = Len(pending) + 1
    BY <1>12, ReadsMoves
  <2>2. \A n \in Masters : Len(waiting'[n]) <= Depth
    <3>1. \A n \in Masters : Len(waiting[n]) \in Nat
      BY Counts
    <3>2. QED
      BY <2>1, <3>1, AppAssumption
  <2>3. Len(pending') + Len(stream') <= InFlight
    <3>1. Len(pending) \in Nat /\ Len(stream) \in Nat
      BY Counts
    <3>2. QED
      BY <1>12, <2>1, <3>1, AppAssumption DEF ReadMasterReads
  <2>4. QED
    BY <1>12, <2>1, <2>2, <2>3 DEF ReadMasterReads
<1>13. CASE DataReturns
  <2>1. /\ pending' \in Seq(Buffer) /\ stream' \in Seq(Content)
        /\ Len(pending') = Len(pending) - 1 /\ Len(stream') = Len(stream) + 1
    BY <1>13, ReturnsMoves
  <2>2. Len(pending') + Len(stream') <= InFlight
    BY <2>1, Counts
  <2>3. QED
    BY <1>13, <2>1, <2>2 DEF DataReturns
<1>14. CASE WriteMasterStarts
  <2>1. /\ waiting' \in [Masters -> Seq(Descriptors)]
        /\ command' \in [Masters -> Descriptors]
        /\ \A n \in Masters : Len(waiting'[n]) \in Nat /\ Len(waiting'[n]) <= Len(waiting[n])
    BY <1>14, StartsMoves
  <2>2. \A n \in Masters : Len(waiting'[n]) <= Depth
    <3>1. \A n \in Masters : Len(waiting[n]) \in Nat
      BY Counts
    <3>2. QED
      BY <2>1, <3>1, AppAssumption
  <2>3. QED
    BY <1>14, <2>1, <2>2 DEF WriteMasterStarts
<1>15. CASE WriteMasterCompletes
  <2>1. stream' \in Seq(Content) /\ Len(stream') = Len(stream) - 1
    BY <1>15, CompletesMoves
  <2>2. Len(pending') + Len(stream') <= InFlight
    BY <1>15, <2>1, Counts, AppAssumption DEF WriteMasterCompletes
  <2>3. memory' \in [Line -> Content]
    <3>1. Head(stream) = test
      BY <1>15, CompletesMoves
    <3>2. QED
      BY <1>15, <3>1 DEF WriteMasterCompletes
  <2>4. irq' \in BOOLEAN
    BY <1>15 DEF WriteMasterCompletes
  <2>5. QED
    BY <1>15, <2>1, <2>2, <2>3, <2>4 DEF WriteMasterCompletes
<1>16. ASSUME NEW l \in Line, CacheReplaces(l) PROVE TypeOK'
  <2>1. cache' \in [Line -> Content \cup {Absent}]
    BY <1>16 DEF CacheReplaces
  <2>2. memory' \in [Line -> Content]
    BY <1>16 DEF CacheReplaces
  <2>3. QED
    BY <1>16, <2>1, <2>2 DEF CacheReplaces
<1>17. CASE UNCHANGED vars
  BY <1>17 DEF vars
<1>18. QED
  BY <1>2, <1>3, <1>4, <1>5, <1>6, <1>7, <1>8, <1>9, <1>10, <1>11, <1>12, <1>13,
     <1>14, <1>15, <1>16, <1>17, StepCases DEF QuietStep

-----------------------------------------------------------------------------
(* What main compares is never what was there before the first test.       *)
LEMMA Compares ==
  ASSUME AppInv, mpc = "verify"
  PROVE  /\ \A b \in Buffer : b >= i => Loaded(<<"dest", b>>) = test
         /\ Loaded(<<"dest", i>>) # 0
<1>1. Done = Buffers
  BY DEF AppInv, InterruptInv
<1>2. \A b \in Buffer : b < Done
  BY <1>1, MainRange DEF Buffer
<1>3. \A b \in Buffer : b >= i => Loaded(<<"dest", b>>) = test
  BY <1>2 DEF AppInv, DestInv, Transferring, Loaded
<1>4. i \in Buffer /\ i >= i /\ test # 0
  BY MainRange
<1>5. QED
  BY <1>3, <1>4

(* Main never fails and finds the room that it has seen: only masters take *)
(* descriptors out of the queues meanwhile.                                *)
LEMMA MainInvNext ==
  ASSUME AppInv, [Next]_vars
  PROVE  MainInv'
<1> USE MainRange DEF MainInv
<1>1. MainInv
  BY DEF AppInv
<1>2. CASE UNCHANGED <<main, isr, waiting>>
  BY <1>1, <1>2 DEF main, Full
<1>3. CASE MainEnables
  BY <1>1, <1>3 DEF MainEnables, MainAt
<1>4. CASE MainPopulates
  BY <1>1, <1>4 DEF MainPopulates, MainAt, handler
<1>5. CASE MainFlushes
  BY <1>1, <1>5 DEF MainFlushes, MainAt, handler
<1>6. CASE MainSeesRoom
  BY <1>1, <1>6 DEF MainSeesRoom, MainAt, handler, Full, queue
<1>7. CASE MainWrites
  <2>1. \/ i + 1 < Buffers /\ i' = i + 1 /\ mpc' = "poll"
        \/ i + 1 = Buffers /\ i' = 0 /\ mpc' = "wait"
    BY <1>7, MainWritesMoves
  <2>2. QED
    BY <1>1, <1>7, <2>1 DEF MainWrites, MainAt, handler
<1>8. CASE MainSeesFlag
  BY <1>1, <1>8 DEF MainSeesFlag, MainAt, handler
<1>9. CASE MainVerifies
  <2>1. Loaded(<<"dest", i>>) # 0
    BY <1>9, Compares DEF MainVerifies, MainAt
  <2>2. QED
    BY <1>1, <1>9, <2>1 DEF MainVerifies, MainAt, handler
<1>10. CASE MainRepeats
  BY <1>1, <1>10 DEF MainRepeats, MainAt, handler
<1>11. CASE Isr
  <2>1. UNCHANGED <<main, waiting>> /\ isr # "off" /\ isr' # "off"
    BY <1>11 DEF Isr, IsrSetsFlag, IsrClears, queue
  <2>2. QED
    BY <1>1, <2>1 DEF main, Full
<1>12. CASE ReadMasterReads \/ WriteMasterStarts
  <2>1. \A n \in Masters : Len(waiting'[n]) \in Nat /\ Len(waiting'[n]) <= Len(waiting[n])
    BY <1>12, ReadsMoves, StartsMoves
  <2>2. \A n \in Masters : Len(waiting[n]) \in Nat /\ Len(waiting[n]) <= Depth
    BY Counts DEF AppInv, TypeOK
  <2>3. Full' => Full
    BY <2>1, <2>2, AppAssumption DEF Full
  <2>4. UNCHANGED <<main, isr>>
    BY <1>12 DEF ReadMasterReads, WriteMasterStarts, handler
  <2>5. QED
    BY <1>1, <2>3, <2>4 DEF main
<1>13. CASE DataReturns \/ WriteMasterCompletes \/ UNCHANGED vars
  BY <1>2, <1>13 DEF DataReturns, WriteMasterCompletes, handler, queue, vars
<1>14. CASE \E l \in Line : CacheReplaces(l)
  BY <1>2, <1>14 DEF CacheReplaces, handler, queue
<1>15. QED
  BY <1>3, <1>4, <1>5, <1>6, <1>7, <1>8, <1>9, <1>10, <1>11, <1>12, <1>13, <1>14,
     StepCases DEF QuietStep, Isr

(* The data that main has filled in stay: a line that is replaced is       *)
(* written back, and the masters write only destinations.                  *)
LEMMA SourceNext ==
  ASSUME AppInv, [Next]_vars
  PROVE  SourceInv'
<1>1. SourceInv /\ TypeOK
  BY DEF AppInv
<1> USE MainRange DEF SourceInv, Transferring
<1>2. CASE UNCHANGED <<main, ram>>
  BY <1>1, <1>2 DEF main, ram, Loaded
<1>3. CASE MainEnables
  <2>1. mpc' = "populate" /\ i' = 0
    BY <1>3 DEF MainEnables, MainAt, AppInv, MainInv
  <2>2. QED
    BY <2>1 DEF Buffer
<1>4. CASE MainPopulates
  <2>1. /\ mpc = "populate" /\ i \in Buffer /\ memory' = memory /\ test' = test
        /\ cache' = [cache EXCEPT ![<<"source", i>>] = test]
    BY <1>4 DEF MainPopulates, MainAt
  <2>2. ASSUME NEW b \in Buffer, b <= i PROVE Loaded(<<"source", b>>)' = test
    <3>1. <<"source", b>> \in Line /\ <<"source", i>> \in Line
      BY <2>1, Lines
    <3>2. CASE b = i
      <4>1. cache'[<<"source", b>>] = test
        BY <1>1, <2>1, <3>1, <3>2 DEF TypeOK
      <4>2. test # Absent
        BY DEF Absent
      <4>3. QED
        BY <4>1, <4>2 DEF Loaded
    <3>3. CASE b # i
      <4>1. b < i
        BY <2>1, <2>2, <3>3 DEF Buffer
      <4>2. Loaded(<<"source", b>>) = test
        BY <1>1, <2>1, <4>1
      <4>3. cache'[<<"source", b>>] = cache[<<"source", b>>]
        BY <1>1, <2>1, <3>1, <3>3, Lines DEF TypeOK
      <4>4. QED
        BY <2>1, <4>2, <4>3 DEF Loaded
    <3>4. QED
      BY <3>2, <3>3
  <2>3. \/ i + 1 < Buffers /\ i' = i + 1 /\ mpc' = "populate"
        \/ i + 1 = Buffers /\ mpc' = "flush"
    BY <1>4, <2>1 DEF MainPopulates, Buffer
  <2>4. CASE i' = i + 1 /\ mpc' = "populate"
    <3>1. \A b \in Buffer : b < i' => b <= i
      BY <2>1, <2>4 DEF Buffer
    <3>2. QED
      BY <2>1, <2>2, <2>4, <3>1
  <2>5. CASE i + 1 = Buffers /\ mpc' = "flush"
    <3>1. \A b \in Buffer : b <= i
      BY <2>1, <2>5 DEF Buffer
    <3>2. QED
      BY <2>1, <2>2, <2>5, <3>1
  <2>6. QED
    BY <2>3, <2>4, <2>5
<1>5. CASE MainFlushes
  <2>1. ASSUME NEW b \in Buffer
        PROVE  cache'[<<"source", b>>] = Absent /\ memory'[<<"source", b>>] = test
    <3>1. <<"source", b>> \in Line /\ <<"source", b>>[1] = "source"
      BY Lines
    <3>2. Loaded(<<"source", b>>) = test
      BY <1>1, <1>5 DEF MainFlushes, MainAt
    <3>3. QED
      BY <1>5, <3>1, <3>2 DEF MainFlushes, Loaded
  <2>2. mpc' = "poll" /\ test' = test
    BY <1>5 DEF MainFlushes
  <2>3. QED
    BY <2>1, <2>2
<1>6. CASE MainSeesRoom
  BY <1>1, <1>6 DEF MainSeesRoom, MainAt, ram
<1>7. CASE MainWrites
  <2>1. mpc' \in {"poll", "wait"}
    BY <1>7, MainWritesMoves
  <2>2. QED
    BY <1>1, <1>7, <2>1 DEF MainWrites, MainAt, ram
<1>8. CASE MainSeesFlag
  BY <1>1, <1>8 DEF MainSeesFlag, MainAt, ram
<1>9. CASE MainVerifies
  <2>1. /\ mpc = "verify" /\ mpc' \in {"verify", "again"} /\ memory' = memory
        /\ test' = test /\ i \in Buffer
    BY <1>9, Compares DEF MainVerifies, MainAt
  <2>2. ASSUME NEW b \in Buffer PROVE cache'[<<"source", b>>] = cache[<<"source", b>>]
    <3>1. <<"source", b>> # <<"dest", i>> /\ <<"source", b>> \in Line
      BY <2>1, Lines
    <3>2. QED
      BY <1>1, <1>9, <3>1 DEF MainVerifies, TypeOK
  <2>3. QED
    BY <1>1, <2>1, <2>2
<1>10. CASE MainRepeats
  <2>1. mpc' \in {"populate", "end"} /\ i' = 0
    BY <1>10 DEF MainRepeats, MainAt, AppInv, MainInv
  <2>2. QED
    BY <2>1 DEF Buffer
<1>11. CASE Isr
  BY <1>2, <1>11 DEF Isr, IsrSetsFlag, IsrClears
<1>12. CASE ReadMasterReads \/ DataReturns \/ WriteMasterStarts
  BY <1>2, <1>12 DEF ReadMasterReads, DataReturns, WriteMasterStarts
<1>13. CASE WriteMasterCompletes
  <2>1. Done \in Buffer /\ command["write"].buffer = Done
    BY <1>13, CompletesMoves
  <2>2. ASSUME NEW b \in Buffer PROVE memory'[<<"source", b>>] = memory[<<"source", b>>]
    <3>1. <<"source", b>> # <<"dest", Done>> /\ <<"source", b>> \in Line
      BY <2>1, Lines
    <3>2. QED
      BY <1>1, <1>13, <2>1, <3>1 DEF WriteMasterCompletes, TypeOK
  <2>3. UNCHANGED <<main, cache>>
    BY <1>13 DEF WriteMasterCompletes
  <2>4. QED
    BY <1>1, <2>2, <2>3 DEF main, Loaded
<1>14. ASSUME NEW l \in Line, CacheReplaces(l) PROVE SourceInv'
  <2>1. /\ cache[l] # Absent /\ UNCHANGED main
        /\ cache' = [cache EXCEPT ![l] = Absent]
        /\ memory' = IF l[1] = "source" THEN [memory EXCEPT ![l] = cache[l]] ELSE memory
    BY <1>14 DEF CacheReplaces
  <2>2. ASSUME NEW b \in Buffer, cache[<<"source", b>>] = Absent
        PROVE  cache'[<<"source", b>>] = Absent /\ memory'[<<"source", b>>] = memory[<<"source", b>>]
    <3>1. <<"source", b>> # l /\ <<"source", b>> \in Line
      BY <2>1, <2>2, Lines
    <3>2. QED
      BY <1>1, <2>1, <2>2, <3>1 DEF TypeOK
  <2>3. ASSUME NEW b \in Buffer PROVE Loaded(<<"source", b>>)' = Loaded(<<"source", b>>)
    <3>1. <<"source", b>> \in Line /\ <<"source", b>>[1] = "source"
      BY Lines
    <3>2. CASE <<"source", b>> = l
      <4>1. cache'[l] = Absent /\ memory'[l] = cache[l]
        BY <1>1, <2>1, <3>1, <3>2 DEF TypeOK
      <4>2. QED
        BY <2>1, <3>2, <4>1 DEF Loaded
    <3>3. CASE <<"source", b>> # l
      <4>1. /\ cache'[<<"source", b>>] = cache[<<"source", b>>]
            /\ memory'[<<"source", b>>] = memory[<<"source", b>>]
        BY <1>1, <2>1, <3>1, <3>3 DEF TypeOK
      <4>2. QED
        BY <4>1 DEF Loaded
    <3>4. QED
      BY <3>2, <3>3
  <2>4. QED
    BY <1>1, <2>1, <2>2, <2>3 DEF main
<1>15. CASE UNCHANGED vars
  BY <1>2, <1>15 DEF vars
<1>16. QED
  BY <1>3, <1>4, <1>5, <1>6, <1>7, <1>8, <1>9, <1>10, <1>11, <1>12, <1>13, <1>14,
     <1>15, StepCases DEF QuietStep, Isr

(* What is done stays in memory, and no older copy of it is cached until   *)
(* main loads it.                                                          *)
LEMMA DestNext ==
  ASSUME AppInv, [Next]_vars
  PROVE  DestInv'
<1>1. DestInv /\ TypeOK
  BY DEF AppInv
<1>2. Done \in 0..Written /\ Written \in 0..Buffers
  BY Counts
<1> USE MainRange DEF DestInv, Transferring
<1>3. CASE UNCHANGED <<main, ram, Done>>
  BY <1>1, <1>3 DEF main, ram
<1>4. CASE MainEnables \/ MainPopulates
  <2>1. mpc' \in {"populate", "flush"}
    BY <1>4 DEF MainEnables, MainPopulates, MainAt
  <2>2. QED
    BY <2>1
<1>5. CASE MainFlushes
  <2>1. Done' = Done
    BY <1>5, QuietStepMoves DEF QuietStep
  <2>2. Done = 0
    BY <1>2, <1>5 DEF MainFlushes, MainAt, Written
  <2>3. \A b \in Buffer : ~(b < Done')
    BY <2>1, <2>2 DEF Buffer
  <2>4. mpc' = "poll"
    BY <1>5 DEF MainFlushes
  <2>5. \A b \in Buffer : cache'[<<"dest", b>>] = Absent
    BY <1>5, Lines DEF MainFlushes
  <2>6. QED
    BY <2>3, <2>4, <2>5
<1>6. CASE MainSeesRoom \/ MainSeesFlag
  <2>1. Done' = Done /\ UNCHANGED <<ram, test>>
    BY <1>6, QuietStepMoves DEF QuietStep, MainSeesRoom, MainSeesFlag
  <2>2. \/ mpc = "poll" /\ mpc' = "write"
        \/ mpc = "wait" /\ mpc' = "verify"
    BY <1>6 DEF MainSeesRoom, MainSeesFlag, MainAt
  <2>3. QED
    BY <1>1, <2>1, <2>2 DEF ram
<1>7. CASE MainWrites
  <2>1. mpc = "write" /\ mpc' \in {"poll", "wait"} /\ Done' = Done /\ UNCHANGED <<ram, test>>
    BY <1>7, MainWritesMoves DEF MainWrites, MainAt
  <2>2. QED
    BY <1>1, <2>1 DEF ram
<1>8. CASE MainVerifies
  <2>1. Done' = Done
    BY <1>8, QuietStepMoves DEF QuietStep
  <2>2. /\ mpc = "verify" /\ i \in Buffer /\ memory' = memory /\ test' = test
        /\ cache' = [cache EXCEPT ![<<"dest", i>>] = Loaded(<<"dest", i>>)]
        /\ \/ mpc' = "verify" /\ i' = i + 1
           \/ mpc' = "again"
    BY <1>8, Compares DEF MainVerifies, MainAt
  <2>3. ASSUME NEW b \in Buffer, b >= i + 1
        PROVE  cache'[<<"dest", b>>] = Absent
    <3>1. b # i /\ b >= i
      BY <2>2, <2>3 DEF Buffer
    <3>2. <<"dest", b>> # <<"dest", i>> /\ <<"dest", b>> \in Line
      BY <2>2, <3>1, Lines
    <3>3. cache[<<"dest", b>>] = Absent
      BY <1>1, <2>2, <3>1
    <3>4. QED
      BY <1>1, <2>2, <3>2, <3>3 DEF TypeOK
  <2>4. \A b \in Buffer : b < Done' => memory'[<<"dest", b>>] = test'
    BY <1>1, <2>1, <2>2
  <2>5. mpc' = "verify" => \A b \in Buffer : b >= i' => cache'[<<"dest", b>>] = Absent
    BY <2>2, <2>3
  <2>6. mpc' \notin {"poll", "write", "wait"}
    BY <2>2
  <2>7. QED
    BY <2>4, <2>5, <2>6
<1>9. CASE MainRepeats
  <2>1. mpc' \in {"populate", "end"}
    BY <1>9 DEF MainRepeats
  <2>2. QED
    BY <2>1
<1>10. CASE IsrSetsFlag \/ IsrClears \/ UNCHANGED vars
  <2>1. UNCHANGED <<main, ram, Done>>
    BY <1>10, QuietStepMoves DEF QuietStep, IsrSetsFlag, IsrClears, vars
  <2>2. QED
    BY <1>3, <2>1
<1>11. CASE ReadMasterReads \/ DataReturns \/ WriteMasterStarts
  <2>1. UNCHANGED <<main, ram, Done>>
    BY <1>11, ReadsMoves, ReturnsMoves, StartsMoves
       DEF ReadMasterReads, DataReturns, WriteMasterStarts
  <2>2. QED
    BY <1>3, <2>1
<1>12. CASE WriteMasterCompletes
  <2>1. /\ Done \in Buffer /\ Done' = Done + 1 /\ command["write"].buffer = Done
        /\ Head(stream) = test
    BY <1>12, CompletesMoves
  <2>2. /\ UNCHANGED <<main, cache>>
        /\ memory' = [memory EXCEPT ![<<"dest", Done>>] = test]
    BY <1>12, <2>1 DEF WriteMasterCompletes
  <2>3. ASSUME NEW b \in Buffer, b < Done', Transferring
        PROVE  memory'[<<"dest", b>>] = test
    <3>1. <<"dest", b>> \in Line /\ <<"dest", Done>> \in Line
      BY <2>1, Lines
    <3>2. CASE b = Done
      BY <1>1, <2>2, <3>1, <3>2 DEF TypeOK
    <3>3. CASE b # Done
      <4>1. b < Done
        BY <2>1, <2>3, <3>3 DEF Buffer
      <4>2. <<"dest", b>> # <<"dest", Done>>
        BY <2>1, <3>3, Lines
      <4>3. memory[<<"dest", b>>] = test
        BY <1>1, <2>3, <4>1
      <4>4. QED
        BY <1>1, <2>2, <3>1, <4>2, <4>3 DEF TypeOK
    <3>4. QED
      BY <3>2, <3>3
  <2>4. QED
    BY <1>1, <2>2, <2>3 DEF main
<1>13. ASSUME NEW l \in Line, CacheReplaces(l) PROVE DestInv'
  <2>1. /\ UNCHANGED main /\ Done' = Done /\ cache[l] # Absent
        /\ cache' = [cache EXCEPT ![l] = Absent]
        /\ memory' = IF l[1] = "source" THEN [memory EXCEPT ![l] = cache[l]] ELSE memory
    BY <1>13, QuietStepMoves DEF QuietStep, CacheReplaces
  <2>2. ASSUME NEW b \in Buffer PROVE memory'[<<"dest", b>>] = memory[<<"dest", b>>]
    <3>1. <<"dest", b>> \in Line /\ <<"dest", b>>[1] = "dest"
      BY Lines
    <3>2. QED
      BY <1>1, <2>1, <3>1 DEF TypeOK
  <2>3. ASSUME NEW b \in Buffer, cache[<<"dest", b>>] = Absent
        PROVE  cache'[<<"dest", b>>] = Absent
    <3>1. <<"dest", b>> \in Line /\ <<"dest", b>> # l
      BY <2>1, <2>3, Lines
    <3>2. QED
      BY <1>1, <2>1, <2>3, <3>1 DEF TypeOK
  <2>4. QED
    BY <1>1, <2>1, <2>2, <2>3 DEF main
<1>14. QED
  BY <1>4, <1>5, <1>6, <1>7, <1>8, <1>9, <1>10, <1>11, <1>12, <1>13, StepCases
     DEF QuietStep

-----------------------------------------------------------------------------
(* The interrupt comes with the last buffer of a test, is handled once,    *)
(* and lets main go on.                                                    *)
LEMMA InterruptNext ==
  ASSUME AppInv, [Next]_vars
  PROVE  InterruptInv'
<1>1. InterruptInv /\ MainInv
  BY DEF AppInv
<1>2. /\ Done \in 0..Written /\ Written \in 0..Buffers /\ Buffers \in Nat \ {0}
      /\ test \in Nat
  BY Counts, MainRange
<1>3. interrupts \in Nat
  BY DEF AppInv, TypeOK
<1> USE <1>1, <1>2, <1>3 DEF InterruptInv, Signalled
<1>4. CASE UNCHANGED <<main, isr, sgdma_interrupt_fired, irq, interrupts, Done>>
  BY <1>4 DEF main
<1>5. CASE MainEnables
  <2>1. Done' = Done
    BY <1>5, QuietStepMoves DEF QuietStep
  <2>2. QED
    BY <1>5, <2>1 DEF MainEnables, MainAt
<1>6. CASE MainPopulates
  <2>1. Done' = Done
    BY <1>6, QuietStepMoves DEF QuietStep
  <2>2. mpc' \in {"populate", "flush"} /\ mpc = "populate"
    BY <1>6 DEF MainPopulates, MainAt
  <2>3. QED
    BY <1>6, <2>1, <2>2 DEF MainPopulates, handler
<1>7. CASE MainFlushes \/ MainSeesRoom
  <2>1. Done' = Done
    BY <1>7, QuietStepMoves DEF QuietStep
  <2>2. QED
    BY <1>7, <2>1 DEF MainFlushes, MainSeesRoom, MainAt, handler
<1>8. CASE MainWrites
  <2>1. mpc = "write" /\ mpc' \in {"poll", "wait"} /\ Done' = Done
    BY <1>8, MainWritesMoves DEF MainWrites, MainAt
  <2>2. QED
    BY <1>8, <2>1 DEF MainWrites, handler
<1>9. CASE MainSeesFlag
  <2>1. Done' = Done
    BY <1>9, QuietStepMoves DEF QuietStep
  <2>2. QED
    BY <1>9, <2>1 DEF MainSeesFlag, MainAt, handler
<1>10. CASE MainVerifies
  <2>1. Done' = Done
    BY <1>10, QuietStepMoves DEF QuietStep
  <2>2. mpc = "verify" /\ mpc' \in {"verify", "again"}
    BY <1>10, Compares DEF MainVerifies, MainAt
  <2>3. QED
    BY <1>10, <2>1, <2>2 DEF MainVerifies, handler
<1>11. CASE MainRepeats
  <2>1. Done' = IF mpc' = "populate" THEN 0 ELSE Buffers
    BY <1>11, RepeatsMoves
  <2>2. /\ mpc = "again" /\ sgdma_interrupt_fired' = 0
        /\ UNCHANGED <<isr, irq, interrupts>>
        /\ \/ test' = test + 1 /\ mpc' = "populate"
           \/ test' = test /\ mpc' = "end"
    BY <1>11 DEF MainRepeats, MainAt, handler
  <2>3. irq = FALSE /\ isr = "idle" /\ interrupts = test
    BY <2>2
  <2>4. QED
    BY <2>1, <2>2, <2>3
<1>12. CASE IsrSetsFlag
  <2>1. Done' = Done /\ UNCHANGED main
    BY <1>12, QuietStepMoves DEF QuietStep, IsrSetsFlag
  <2>2. QED
    BY <1>12, <2>1 DEF IsrSetsFlag, main
<1>13. CASE IsrClears
  <2>1. Done' = Done /\ UNCHANGED main
    BY <1>13, QuietStepMoves DEF QuietStep, IsrClears
  <2>2. QED
    BY <1>13, <2>1 DEF IsrClears, main
<1>14. CASE ReadMasterReads \/ DataReturns \/ WriteMasterStarts
  <2>1. Done' = Done
    BY <1>14, ReadsMoves, ReturnsMoves, StartsMoves
  <2>2. QED
    BY <1>4, <1>14, <2>1 DEF ReadMasterReads, DataReturns, WriteMasterStarts, handler
<1>15. CASE WriteMasterCompletes
  <2>1. /\ Done \in Buffer /\ Done' = Done + 1
        /\ command["write"].irq <=> Done = Buffers - 1
    BY <1>15, CompletesMoves
  <2>2. Done < Buffers
    BY <2>1 DEF Buffer
  <2>3. Signalled(FALSE, IF mpc = "enable" THEN "off" ELSE "idle", 0, test - 1)
        /\ mpc \notin {"verify", "again", "end"}
    BY <2>2
  <2>4. UNCHANGED <<main, isr, sgdma_interrupt_fired, interrupts>>
    BY <1>15 DEF WriteMasterCompletes, handler
  <2>5. CASE Done = Buffers - 1
    <3>1. irq' = TRUE
      BY <1>15, <2>1, <2>3, <2>5 DEF WriteMasterCompletes
    <3>2. Done' = Buffers
      BY <2>1, <2>5
    <3>3. mpc = "wait"
      <4>1. Written = Buffers
        <5>1. Done' \in 0..Written'
          <6>1. Written' = Written /\ Given("write")' = Given("write")
            BY <1>15, CompletesMoves DEF Masters
          <6>2. Done' = Given("write")'
            BY <1>15, <2>1, <6>1, Counts DEF WriteMasterCompletes, Done, Masters
          <6>3. Given("write") \in 0..Written
            BY Counts DEF Masters
          <6>4. QED
            BY <6>1, <6>2, <6>3
        <5>2. Written' = Written
          BY <1>15, CompletesMoves
        <5>3. QED
          BY <3>2, <5>1, <5>2
      <4>2. mpc \in {"poll", "write"} => Written = i
        BY DEF Written
      <4>3. mpc \in {"poll", "write"} => i < Buffers
        BY DEF MainInv
      <4>4. mpc \notin {"enable", "populate", "flush"}
        BY <4>1 DEF Written
      <4>5. QED
        BY <2>3, <4>1, <4>2, <4>3, <4>4 DEF AppInv, TypeOK, MainInv
    <3>4. QED
      BY <2>3, <2>4, <3>1, <3>2, <3>3 DEF main
  <2>6. CASE Done # Buffers - 1
    <3>1. irq' = FALSE
      BY <1>15, <2>1, <2>3, <2>6 DEF WriteMasterCompletes
    <3>2. Done' < Buffers
      BY <2>1, <2>2, <2>6 DEF Buffer
    <3>3. QED
      BY <2>3, <2>4, <3>1, <3>2 DEF main
  <2>7. QED
    BY <2>5, <2>6
<1>16. CASE UNCHANGED vars
  <2>1. Done' = Done
    BY <1>16, QuietStepMoves DEF QuietStep
  <2>2. QED
    BY <1>4, <1>16, <2>1 DEF vars, handler
<1>17. CASE \E l \in Line : CacheReplaces(l)
  <2>1. Done' = Done
    BY <1>17, QuietStepMoves DEF QuietStep
  <2>2. QED
    BY <1>4, <1>17, <2>1 DEF CacheReplaces, handler
<1>18. QED
  BY <1>5, <1>6, <1>7, <1>8, <1>9, <1>10, <1>11, <1>12, <1>13, <1>14, <1>15, <1>16,
     <1>17, StepCases DEF QuietStep

-----------------------------------------------------------------------------
(* At first nothing is written, given or done.                             *)
LEMMA AppInit ==
  ASSUME Init
  PROVE  AppInv
<1> USE AppAssumption DEF Init
<1>1. /\ <<>> \in Seq(Descriptors) /\ <<>> \in Seq(Buffer) /\ <<>> \in Seq(Content)
      /\ Len(<<>>) = 0
  OBVIOUS
<1>2. [buffer |-> 0, irq |-> FALSE, early_done |-> FALSE, park |-> FALSE] \in Descriptors
  BY DEF Descriptors, Buffer
<1>3. \A m \in Masters : waiting[m] = <<>>
  OBVIOUS
<1>4. TypeOK
  <2>1. waiting \in [Masters -> Seq(Descriptors)] /\ command \in [Masters -> Descriptors]
    BY <1>1, <1>2
  <2>2. \A m \in Masters : Len(waiting[m]) <= Depth
    BY <1>1, <1>3
  <2>3. pending \in Seq(Buffer) /\ stream \in Seq(Content) /\ Len(pending) + Len(stream) <= InFlight
    BY <1>1
  <2>4. cache \in [Line -> Content \cup {Absent}] /\ memory \in [Line -> Content]
    BY DEF Content
  <2>5. i \in 0..Buffers /\ test \in 1..Tests /\ interrupts \in 0..Tests
    <3>1. i = 0 /\ test = 1 /\ interrupts = 0
      OBVIOUS
    <3> HIDE DEF Init
    <3>2. QED
      BY <3>1
  <2>6. /\ mpc = "enable" /\ isr = "off" /\ irq = FALSE /\ writing = FALSE
        /\ sgdma_interrupt_fired \in 0..1
    OBVIOUS
  <2> HIDE DEF Init
  <2>7. QED
    BY <2>1, <2>2, <2>3, <2>4, <2>5, <2>6 DEF TypeOK
<1>5. Written = 0
  BY DEF Written
<1>6. \A m \in Masters : Given(m) = 0
  <2> HIDE DEF Init
  <2> SUFFICES ASSUME NEW m \in Masters PROVE Given(m) = 0
    OBVIOUS
  <2>1. Len(waiting[m]) = 0
    BY <1>1, <1>3
  <2>2. QED
    BY <1>5, <2>1 DEF Given
<1>7. Given("write") = 0 /\ Given("read") = 0
  BY <1>6 DEF Masters
<1>8. Done = 0
  BY <1>7 DEF Done
<1>9. MainInv
  BY DEF MainInv
<1>10. QueueInv
  BY <1>1, <1>3, <1>5 DEF QueueInv
<1>11. MastersInv
  BY <1>1, <1>7, <1>8 DEF MastersInv
<1>12. SourceInv /\ DestInv
  BY DEF SourceInv, DestInv, Transferring
<1>13. InterruptInv
  BY <1>8 DEF InterruptInv, Signalled
<1>14. QED
  BY <1>4, <1>9, <1>10, <1>11, <1>12, <1>13 DEF AppInv

(* The inductive invariant of main, its handler, the data cache and the    *)
(* masters holds in every reachable state.                                 *)
THEOREM AppInvariance == Spec => []AppInv
<1>1. AppInv /\ [Next]_vars => AppInv'
  BY TypeNext, MainInvNext, MovesNext, SourceNext, DestNext, InterruptNext DEF AppInv
<1>2. QED
  BY AppInit, <1>1, PTL DEF Spec

(* What main compares in a test is what this test's transfers have put     *)
(* into memory, whatever the cache has replaced meanwhile.                 *)
THEOREM TestDataVerified == Spec => []VerifiesThisTest
<1>1. AppInv => VerifiesThisTest
  <2> SUFFICES ASSUME AppInv, mpc = "verify", NEW b \in i..(Buffers - 1)
               PROVE  Loaded(<<"dest", b>>) = test
    BY DEF VerifiesThisTest
  <2>1. b \in Buffer /\ b >= i
    BY MainRange DEF Buffer
  <2>2. QED
    BY <2>1, Compares
<1>2. QED
  BY AppInvariance, <1>1, PTL

(* The hardware is at rest while main fills and compares the buffers.      *)
THEOREM BuffersAreMains == Spec => []HardwareAtRest
<1>1. AppInv => HardwareAtRest
  <2> SUFFICES ASSUME AppInv PROVE HardwareAtRest
    OBVIOUS
  <2>1. TypeOK
    BY DEF AppInv
  <2>2. QED
    BY <2>1, AtRest, Rests DEF HardwareAtRest
<1>2. QED
  BY AppInvariance, <1>1, PTL

(* Every test has its own interrupt, and starts without one.               *)
THEOREM OneInterruptEach == Spec => []InterruptPerTest
<1>1. AppInv => InterruptPerTest
  <2> SUFFICES ASSUME AppInv PROVE InterruptPerTest
    OBVIOUS
  <2>1. mpc \in {"populate", "flush"} => Done # Buffers
    BY AtRest, MainRange DEF Written
  <2>2. QED
    BY <2>1 DEF AppInv, InterruptInv, Signalled, InterruptPerTest
<1>2. QED
  BY AppInvariance, <1>1, PTL

(* No descriptor is refused and no comparison fails.                       *)
NeverFails == mpc # "failed" /\ (mpc = "write" => ~Full)

(* Main never gets to one of its error returns.                            *)
THEOREM TestsNeverFail == Spec => []NeverFails
<1>1. AppInv => NeverFails
  BY DEF AppInv, MainInv, NeverFails
<1>2. QED
  BY AppInvariance, <1>1, PTL

(* The application uses the queue of descriptors as its specification, and *)
(* so the dispatcher that implements it, allows.                           *)
THEOREM ApplicationUsesQueue == Spec => Dispatcher!Spec
<1>1. Init => Dispatcher!Init
  <2> SUFFICES ASSUME Init PROVE Dispatcher!Init
    OBVIOUS
  <2>1. command \in [Masters -> Descriptors]
    BY AppInit DEF AppInv, TypeOK
  <2>2. QED
    BY <2>1 DEF Init, Dispatcher!Init
<1>2. AppInv /\ [Next]_vars => [Dispatcher!Next]_(Dispatcher!vars)
  <2> SUFFICES ASSUME AppInv, [Next]_vars
               PROVE  Dispatcher!Next \/ UNCHANGED queue
    BY DEF Dispatcher!vars, queue
  <2>1. CASE MainWrites
    <3>1. Dispatcher!Serve({}, <<Descriptor(i)>>) /\ Descriptor(i) \in Descriptors
      BY <2>1, MainWritesMoves
    <3>2. QED
      BY <3>1 DEF Dispatcher!Next
  <2>2. CASE ReadMasterReads
    BY <2>2 DEF ReadMasterReads, Dispatcher!Next, Masters
  <2>3. CASE WriteMasterStarts
    BY <2>3 DEF WriteMasterStarts, Dispatcher!Next, Masters
  <2>4. CASE QuietStep
    BY <2>4, QuietStepMoves
  <2>5. CASE MainRepeats \/ DataReturns \/ WriteMasterCompletes
    BY <2>5 DEF MainRepeats, DataReturns, WriteMasterCompletes
  <2>6. QED
    BY <2>1, <2>2, <2>3, <2>4, <2>5, StepCases
<1>3. QED
  BY <1>1, <1>2, AppInvariance, PTL DEF Spec, Dispatcher!Spec

-----------------------------------------------------------------------------
(* How far a test has got, in steps of main, of the masters and of the     *)
(* interrupt handler.                                                      *)
StepsAt(place, n) ==
  IF place = "enable" THEN 0
  ELSE IF place = "populate" THEN 1 + n
  ELSE IF place = "flush" THEN 1 + Buffers
  ELSE IF place = "poll" THEN 2 + Buffers + 2 * n
  ELSE IF place = "write" THEN 3 + Buffers + 2 * n
  ELSE IF place = "wait" THEN 2 + 3 * Buffers
  ELSE IF place = "verify" THEN 3 + 3 * Buffers + n
  ELSE IF place = "again" THEN 3 + 4 * Buffers
  ELSE 4 + 4 * Buffers

MainSteps == StepsAt(mpc, i)

MasterSteps == 2 * Given("read") - Len(pending) + Given("write") + Done

HandlerSteps == 2 * (interrupts - (test - 1)) - (IF isr = "clear" THEN 1 ELSE 0)

Steps == MainSteps + MasterSteps + HandlerSteps

(* The three counts are numbers that a test bounds.                        *)
LEMMA StepRanges ==
  ASSUME AppInv
  PROVE  /\ MainSteps \in 0..(4 * Buffers + 4)
         /\ MasterSteps \in 0..(4 * Buffers)
         /\ HandlerSteps \in 0..2
<1>1. MainSteps \in 0..(4 * Buffers + 4)
  <2>1. MainInv /\ TypeOK /\ i \in Nat /\ Buffers \in Nat
    BY MainRange DEF AppInv
  <2>2. mpc \in {"populate", "poll", "write", "verify"} => i < Buffers
    BY <2>1 DEF MainInv
  <2>3. QED
    BY <2>1, <2>2 DEF MainSteps, StepsAt
<1>2. MasterSteps \in 0..(4 * Buffers)
  <2>1. /\ Given("read") \in 0..Written /\ Given("write") \in 0..Written
        /\ Written \in 0..Buffers /\ Done \in 0..Written
        /\ Len(pending) \in Nat /\ Len(stream) \in Nat
    BY Counts DEF Masters
  <2>2. Given("read") = Done + Len(stream) + Len(pending)
    BY DEF AppInv, MastersInv
  <2>3. Buffers \in Nat
    BY MainRange
  <2>4. MasterSteps = Given("read") + Done + Len(stream) + Given("write") + Done
    BY <2>1, <2>2, <2>3 DEF MasterSteps
  <2>5. /\ Done + Len(stream) \in 0..Buffers
        /\ Given("read") \in 0..Buffers /\ Given("write") \in 0..Buffers
        /\ Done \in 0..Buffers
    BY <2>1, <2>2, <2>3
  <2>6. QED
    BY <2>4, <2>5, <2>3
<1>3. HandlerSteps \in 0..2
  <2>1. interrupts \in Nat /\ test \in Nat
    BY MainRange DEF AppInv, TypeOK
  <2>2. \/ isr # "clear" /\ interrupts = test - 1
        \/ isr # "clear" /\ interrupts = test
        \/ isr = "clear" /\ interrupts = test
    BY DEF AppInv, InterruptInv, Signalled
  <2>3. QED
    BY <2>1, <2>2 DEF HandlerSteps
<1>4. QED
  BY <1>1, <1>2, <1>3

(* A step of the masters is one step of theirs, and nobody else's.         *)
LEMMA MastersStep ==
  ASSUME AppInv,
         ReadMasterReads \/ DataReturns \/ WriteMasterStarts \/ WriteMasterCompletes
  PROVE  /\ MasterSteps' = MasterSteps + 1
         /\ UNCHANGED <<MainSteps, HandlerSteps, test>>
<1>1. /\ Given("read") \in Nat /\ Given("write") \in Nat /\ Done \in Nat
      /\ Len(pending) \in Nat
  BY Counts DEF Masters
<1>2. UNCHANGED <<main, handler>>
  BY DEF ReadMasterReads, DataReturns, WriteMasterStarts, WriteMasterCompletes
<1>3. UNCHANGED <<MainSteps, HandlerSteps, test>>
  BY <1>2 DEF MainSteps, HandlerSteps, StepsAt, main, handler
<1>4. CASE ReadMasterReads
  <2>1. /\ Given("read")' = Given("read") + 1 /\ Given("write")' = Given("write")
        /\ Done' = Done /\ Len(pending') = Len(pending) + 1
    BY <1>4, ReadsMoves
  <2>2. QED
    BY <1>1, <1>3, <2>1 DEF MasterSteps
<1>5. CASE DataReturns
  <2>1. /\ Given("read")' = Given("read") /\ Given("write")' = Given("write")
        /\ Done' = Done /\ Len(pending') = Len(pending) - 1
    BY <1>5, ReturnsMoves DEF Masters
  <2>2. QED
    BY <1>1, <1>3, <2>1 DEF MasterSteps
<1>6. CASE WriteMasterStarts
  <2>1. /\ Given("read")' = Given("read") /\ Given("write")' = Given("write") + 1
        /\ Done' = Done /\ Len(pending') = Len(pending)
    BY <1>6, StartsMoves DEF WriteMasterStarts
  <2>2. QED
    BY <1>1, <1>3, <2>1 DEF MasterSteps
<1>7. CASE WriteMasterCompletes
  <2>1. /\ Given("read")' = Given("read") /\ Given("write")' = Given("write")
        /\ Done' = Done + 1 /\ Len(pending') = Len(pending)
    BY <1>7, CompletesMoves DEF WriteMasterCompletes, Masters
  <2>2. QED
    BY <1>1, <1>3, <2>1 DEF MasterSteps
<1>8. QED
  BY <1>4, <1>5, <1>6, <1>7

(* Neither do the steps of main and of the handler move the masters.       *)
LEMMA MastersStay ==
  ASSUME AppInv, QuietStep \/ MainWrites
  PROVE  MasterSteps' = MasterSteps
<1>1. CASE QuietStep
  <2>1. /\ UNCHANGED <<pending, Done>> /\ \A m \in Masters : Given(m)' = Given(m)
    BY <1>1, QuietStepMoves DEF masters
  <2>2. Given("read")' = Given("read") /\ Given("write")' = Given("write")
    BY <2>1 DEF Masters
  <2>3. QED
    BY <2>1, <2>2 DEF MasterSteps
<1>2. CASE MainWrites
  <2>1. /\ UNCHANGED <<pending, Done>> /\ \A m \in Masters : Given(m)' = Given(m)
    BY <1>2, MainWritesMoves DEF MainWrites, masters
  <2>2. Given("read")' = Given("read") /\ Given("write")' = Given("write")
    BY <2>1 DEF Masters
  <2>3. QED
    BY <2>1, <2>2 DEF MasterSteps
<1>3. QED
  BY <1>1, <1>2

(* A step of main within a test is one step of its way.                    *)
LEMMA MainStep ==
  ASSUME AppInv,
         \/ MainEnables \/ MainPopulates \/ MainFlushes \/ MainSeesRoom
         \/ MainWrites \/ MainSeesFlag \/ MainVerifies
  PROVE  /\ MainSteps' = MainSteps + 1
         /\ MasterSteps' = MasterSteps
         /\ UNCHANGED <<HandlerSteps, test>>
<1>1. MasterSteps' = MasterSteps
  BY MastersStay DEF QuietStep
<1>2. UNCHANGED <<interrupts, test>> /\ (isr' = "clear" <=> isr = "clear")
  BY DEF MainEnables, MainPopulates, MainFlushes, MainSeesRoom, MainWrites,
         MainSeesFlag, MainVerifies, MainAt, handler
<1>3. UNCHANGED <<HandlerSteps, test>>
  BY <1>2 DEF HandlerSteps
<1> SUFFICES MainSteps' = MainSteps + 1
  BY <1>1, <1>3
<1>4. i \in Nat /\ Buffers \in Nat /\ MainInv
  BY MainRange DEF AppInv
<1>5. CASE MainEnables
  <2>2. mpc = "enable" /\ mpc' = "populate" /\ i = 0 /\ i' = 0
    BY <1>4, <1>5 DEF MainEnables, MainAt, MainInv
  <2>3. QED
    BY <1>4, <2>2 DEF MainSteps, StepsAt
<1>6. CASE MainPopulates
  <2>2. /\ mpc = "populate" /\ i < Buffers
        /\ \/ mpc' = "populate" /\ i' = i + 1
           \/ mpc' = "flush" /\ i + 1 = Buffers
    BY <1>4, <1>6 DEF MainPopulates, MainAt, MainInv
  <2>3. QED
    BY <1>4, <2>2 DEF MainSteps, StepsAt
<1>7. CASE MainFlushes
  <2>2. mpc = "flush" /\ mpc' = "poll" /\ i = 0 /\ i' = 0
    BY <1>4, <1>7 DEF MainFlushes, MainAt, MainInv
  <2>3. QED
    BY <1>4, <2>2 DEF MainSteps, StepsAt
<1>8. CASE MainSeesRoom
  <2>2. mpc = "poll" /\ mpc' = "write" /\ i' = i
    BY <1>4, <1>8 DEF MainSeesRoom, MainAt, MainInv
  <2>3. QED
    BY <1>4, <2>2 DEF MainSteps, StepsAt
<1>9. CASE MainWrites
  <2>1. \/ i + 1 < Buffers /\ i' = i + 1 /\ mpc' = "poll"
        \/ i + 1 = Buffers /\ i' = 0 /\ mpc' = "wait"
    BY <1>9, MainWritesMoves
  <2>2. /\ mpc = "write"
        /\ \/ mpc' = "poll" /\ i' = i + 1
           \/ mpc' = "wait" /\ i + 1 = Buffers
    BY <1>4, <1>9, <2>1 DEF MainWrites, MainAt, MainInv
  <2>3. QED
    BY <1>4, <2>2 DEF MainSteps, StepsAt
<1>10. CASE MainSeesFlag
  <2>2. mpc = "wait" /\ mpc' = "verify" /\ i = 0 /\ i' = 0
    BY <1>4, <1>10 DEF MainSeesFlag, MainAt, MainInv
  <2>3. QED
    BY <1>4, <2>2 DEF MainSteps, StepsAt
<1>11. CASE MainVerifies
  <2>1. Loaded(<<"dest", i>>) # 0 /\ i < Buffers
    BY <1>4, <1>11, Compares DEF MainVerifies, MainAt, MainInv
  <2>2. /\ mpc = "verify"
        /\ \/ mpc' = "verify" /\ i' = i + 1
           \/ mpc' = "again" /\ i + 1 = Buffers
    BY <1>4, <1>11, <2>1 DEF MainVerifies, MainAt, MainInv
  <2>3. QED
    BY <1>4, <2>2 DEF MainSteps, StepsAt
<1>12. QED
  BY <1>5, <1>6, <1>7, <1>8, <1>9, <1>10, <1>11

(* A step of the handler is one of its two.                                *)
LEMMA HandlerStep ==
  ASSUME AppInv, Isr
  PROVE  /\ HandlerSteps' = HandlerSteps + 1
         /\ UNCHANGED <<MainSteps, MasterSteps, test>>
<1>1. MasterSteps' = MasterSteps
  BY MastersStay DEF QuietStep, Isr
<1>2. UNCHANGED main
  BY DEF Isr, IsrSetsFlag, IsrClears
<1>3. UNCHANGED <<MainSteps, test>>
  BY <1>2 DEF MainSteps, StepsAt, main
<1>4. interrupts \in Nat /\ test \in Nat
  BY Counts DEF AppInv, TypeOK
<1>5. HandlerSteps' = HandlerSteps + 1
  <2>1. \/ isr = "idle" /\ isr' = "clear" /\ interrupts' = interrupts + 1
        \/ isr = "clear" /\ isr' = "idle" /\ interrupts' = interrupts
    BY DEF Isr, IsrSetsFlag, IsrClears
  <2>2. QED
    BY <1>3, <1>4, <2>1 DEF HandlerSteps
<1>6. QED
  BY <1>1, <1>3, <1>5

(* The last test ends with main's last step.                               *)
LEMMA LastStep ==
  ASSUME AppInv, MainRepeats, test' # test + 1
  PROVE  test' = test /\ Steps' = Steps + 1
<1>1. /\ mpc = "again" /\ mpc' = "end" /\ test' = test
      /\ UNCHANGED <<pending, isr, interrupts>>
  BY DEF MainRepeats, MainAt, handler, masters
<1>2. MainSteps = 3 + 4 * Buffers /\ MainSteps' = 4 + 4 * Buffers
  <2>1. i = 0 /\ i' = 0
    BY <1>1 DEF MainRepeats, AppInv, MainInv
  <2>2. QED
    BY <1>1, <2>1 DEF MainSteps, StepsAt
<1>3. HandlerSteps' = HandlerSteps
  BY <1>1 DEF HandlerSteps
<1>4. Done = Buffers /\ \A m \in Masters : Given(m) = Buffers
  <2>1. Written = Buffers
    BY <1>1 DEF Written
  <2>2. QED
    BY <1>1, <2>1, AtRest, Rests
<1>5. Done' = Buffers /\ \A m \in Masters : Given(m)' = Buffers
  BY <1>1, RepeatsMoves
<1>6. MasterSteps' = MasterSteps
  BY <1>1, <1>4, <1>5 DEF MasterSteps, Masters
<1>7. QED
  BY <1>1, <1>2, <1>3, <1>6, StepRanges, MainRange DEF Steps

(* Every step but the replacement of a cache line brings the test one step *)
(* on or begins the next test.                                             *)
StepByStep ==
  \/ UNCHANGED test /\ Steps' = Steps + 1
  \/ mpc = "again" /\ test' = test + 1
  \/ \E l \in Line : CacheReplaces(l)

(* A test takes at most so many steps.                                     *)
StepsBounded == Steps \in 0..(8 * Buffers + 6)

(* A test ends within a number of steps that only depends on the number of *)
(* its buffers: no loop of main, of its handler and of the masters can go  *)
(* on for ever.                                                            *)
THEOREM TestsAreFinite == Spec => []StepsBounded /\ [][StepByStep]_vars
<1>1. AppInv => StepsBounded
  <2> SUFFICES ASSUME AppInv PROVE StepsBounded
    OBVIOUS
  <2>1. QED
    BY StepRanges, MainRange DEF StepsBounded, Steps
<1>2. AppInv /\ [Next]_vars => [StepByStep]_vars
  <2> SUFFICES ASSUME AppInv, Next PROVE StepByStep \/ UNCHANGED vars
    OBVIOUS
  <2>1. MainSteps \in Nat /\ MasterSteps \in Nat /\ HandlerSteps \in Nat
    BY StepRanges, MainRange
  <2>2. CASE ReadMaster \/ WriteMaster
    BY <2>1, <2>2, MastersStep DEF ReadMaster, WriteMaster, StepByStep, Steps
  <2>3. CASE Isr
    BY <2>1, <2>3, HandlerStep DEF StepByStep, Steps
  <2>4. CASE MainRepeats
    BY <2>4, LastStep DEF StepByStep, MainRepeats, MainAt
  <2>5. CASE Main /\ ~MainRepeats
    BY <2>1, <2>5, MainStep DEF Main, StepByStep, Steps
  <2>6. QED
    BY <2>2, <2>3, <2>4, <2>5 DEF Next, Ended, StepByStep
<1>3. QED
  BY AppInvariance, <1>1, <1>2, PTL DEF Spec

-----------------------------------------------------------------------------
(* Main, the handler or a master can take a step, as the guards of their   *)
(* actions say, until all tests have ended.                                *)
SomeoneCanGo ==
  \/ mpc = "end"
  \* main
  \/ mpc \notin {"poll", "wait"}
  \/ mpc = "poll" /\ ~Full
  \/ mpc = "wait" /\ sgdma_interrupt_fired # 0
  \* the interrupt handler
  \/ isr = "clear" \/ (isr = "idle" /\ irq)
  \* the read master and the memory
  \/ waiting["read"] # <<>> /\ pending = <<>> /\ Len(stream) < InFlight
  \/ pending # <<>>
  \* the write master
  \/ waiting["write"] # <<>> /\ ~writing
  \/ writing /\ stream # <<>>

(* The application and its hardware never wait for one another for ever.   *)
THEOREM NobodyStuck == Spec => []SomeoneCanGo
<1>1. AppInv => SomeoneCanGo
  <2> SUFFICES ASSUME AppInv, ~SomeoneCanGo PROVE FALSE
    OBVIOUS
  <2>1. /\ Given("read") \in 0..Written /\ Given("write") \in 0..Written
        /\ Done \in 0..Written /\ Written \in 0..Buffers
        /\ Len(waiting["read"]) \in Nat /\ Len(waiting["write"]) \in Nat
    BY Counts DEF Masters
  <2>2. pending = <<>>
    BY DEF SomeoneCanGo
  <2>3. waiting["read"] \in Seq(Descriptors) /\ waiting["write"] \in Seq(Descriptors)
    BY DEF AppInv, TypeOK, Masters
  <2>4. Given("read") = Done + Len(stream) /\ Len(stream) \in Nat
    BY <2>1, <2>2, Counts DEF AppInv, MastersInv
  <2>5. CASE writing
    <3>1. stream = <<>> /\ Len(stream) = 0
      BY <2>5 DEF SomeoneCanGo
    <3>2. Len(stream) < InFlight
      BY <3>1, AppAssumption
    <3>3. waiting["read"] = <<>>
      BY <2>2, <3>2 DEF SomeoneCanGo
    <3>4. Given("read") = Written
      BY <2>1, <3>3 DEF Given
    <3>5. Done = Given("write") - 1
      BY <2>5 DEF Done
    <3>6. QED
      BY <2>1, <2>4, <3>1, <3>4, <3>5
  <2>6. CASE ~writing
    <3>1. waiting["write"] = <<>>
      BY <2>6 DEF SomeoneCanGo
    <3>2. Given("write") = Written
      BY <2>1, <3>1 DEF Given
    <3>3. Done = Written
      BY <2>1, <2>6, <3>2 DEF Done
    <3>4. \A m \in Masters : waiting[m] = <<>>
      BY <3>3, Rests
    <3>5. ~Full
      BY <3>4, AppAssumption DEF Full
    <3>6. mpc = "wait"
      BY <3>5 DEF SomeoneCanGo
    <3>7. Done = Buffers
      BY <3>3, <3>6 DEF Written
    <3>8. ~(isr = "clear") /\ ~(isr = "idle" /\ irq) /\ ~(sgdma_interrupt_fired # 0)
      BY <3>6 DEF SomeoneCanGo
    <3>9. Buffers \in Nat
      BY MainRange
    <3>10. irq = TRUE \/ isr = "clear" \/ sgdma_interrupt_fired = 1
      BY <3>6, <3>7, <3>9 DEF AppInv, InterruptInv, Signalled
    <3>11. irq = TRUE => isr \in {"idle", "clear"}
      BY <3>6, <3>7, <3>8, <3>9 DEF AppInv, InterruptInv, Signalled
    <3>12. QED
      BY <3>8, <3>10, <3>11
  <2>7. QED
    BY <2>5, <2>6
<1>2. QED
  BY AppInvariance, <1>1, PTL

=============================================================================
