------------------------------ MODULE SgdmaApp ------------------------------
(***************************************************************************)
(* The example application of the modular SGDMA (software/app/main.c) with *)
(* the hardware that it drives.  For each test main fills the source       *)
(* buffers, flushes the data cache, writes one descriptor per buffer, the  *)
(* last one with a transfer complete interrupt, waits for the interrupt    *)
(* handler to set a flag, and verifies the destination buffers.            *)
(*                                                                         *)
(* The dispatcher is the one that DescriptorQueue specifies and that       *)
(* SgdmaDispatcher implements.  The masters move a buffer at a time, the   *)
(* order of reads, returning data and writes being theirs.  The bytes of a *)
(* buffer are one value, the number of the test whose main filled it: the  *)
(* program fills every buffer with the same pattern in every test, so its  *)
(* own comparison cannot tell one test's data from another's.              *)
(***************************************************************************)
EXTENDS Integers, Sequences

CONSTANTS
  Tests,      \* NUMBER_OF_TESTS, with INFINITE_TEST 0
  Buffers,    \* NUMBER_OF_BUFFERS
  Depth,      \* DESCRIPTOR_FIFO_DEPTH
  InFlight    \* buffers that the read master's FIFO can have on their way

ASSUME AppAssumption ==
  /\ Tests \in Nat \ {0} /\ Buffers \in Nat \ {0}
  /\ Depth \in Nat \ {0} /\ InFlight \in Nat \ {0}

Buffer == 0..(Buffers - 1)
Line == {"source", "dest"} \X Buffer
Content == 0..Tests          \* 0 is what was there before the first test
Absent == -1

Masters == {"read", "write"}
Descriptors ==
  [buffer : Buffer, irq : BOOLEAN, early_done : BOOLEAN, park : {FALSE}]

VARIABLES
  mpc, i, test,       \* main: where it is, its i, and its test_counter + 1
  sgdma_interrupt_fired,
  isr,                \* the interrupt handler: "off", "idle" or "clear"
  cache,              \* what the data cache has for each line
  memory,
  irq,                \* the IRQ bit of the status register
  waiting, command,   \* the dispatcher's, see DescriptorQueue
  pending,            \* buffers whose reads have been posted
  stream,             \* data between the read master and the write master
  writing,            \* the write master has not finished its command
  interrupts          \* history: how often the handler has run

main == <<mpc, i, test>>
ram == <<cache, memory>>
queue == <<waiting, command>>
masters == <<pending, stream, writing>>
handler == <<isr, interrupts>>
vars == <<main, sgdma_interrupt_fired, handler, ram, irq, queue, masters>>

Dispatcher == INSTANCE DescriptorQueue

TypeOK ==
  /\ mpc \in {"enable", "populate", "flush", "poll", "write", "wait", "verify",
              "again", "end", "failed"}
  /\ i \in 0..Buffers /\ test \in 1..Tests
  /\ sgdma_interrupt_fired \in 0..1
  /\ isr \in {"off", "idle", "clear"} /\ irq \in BOOLEAN
  /\ cache \in [Line -> Content \cup {Absent}]
  /\ memory \in [Line -> Content]
  /\ waiting \in [Masters -> Seq(Descriptors)]
  /\ \A m \in Masters : Len(waiting[m]) <= Depth
  /\ command \in [Masters -> Descriptors]
  /\ pending \in Seq(Buffer) /\ stream \in Seq(Content)
  /\ Len(pending) + Len(stream) <= InFlight
  /\ writing \in BOOLEAN
  /\ interrupts \in 0..Tests

Init ==
  /\ mpc = "enable" /\ i = 0 /\ test = 1
  /\ sgdma_interrupt_fired = 0
  /\ isr = "off" /\ irq = FALSE
  /\ cache = [l \in Line |-> Absent]
  /\ memory = [l \in Line |-> 0]
  /\ waiting = [m \in Masters |-> <<>>]
  /\ command = [m \in Masters |->
                  [buffer |-> 0, irq |-> FALSE, early_done |-> FALSE,
                   park |-> FALSE]]
  /\ pending = <<>> /\ stream = <<>> /\ writing = FALSE
  /\ interrupts = 0

-----------------------------------------------------------------------------
(* The data cache: write back, and a line may have to make room for another *)
(* one at any time.  Destination lines are never written by the processor.  *)
CacheReplaces(l) ==
  /\ cache[l] # Absent
  /\ cache' = [cache EXCEPT ![l] = Absent]
  /\ memory' = IF l[1] = "source" THEN [memory EXCEPT ![l] = cache[l]]
                                  ELSE memory
  /\ UNCHANGED <<main, sgdma_interrupt_fired, handler, irq, queue, masters>>

(* main; the handler runs on the same processor.                           *)
MainAt(place) == mpc = place /\ isr # "clear"

(* alt_ic_isr_register() and enable_global_interrupt_mask() *)
MainEnables ==
  /\ MainAt("enable")
  /\ isr' = "idle"
  /\ mpc' = "populate"
  /\ UNCHANGED <<i, test, sgdma_interrupt_fired, interrupts, ram, irq, queue,
                 masters>>

MainPopulates ==
  /\ MainAt("populate")
  /\ cache' = [cache EXCEPT ![<<"source", i>>] = test]
  /\ IF i + 1 < Buffers THEN i' = i + 1 /\ UNCHANGED mpc
                        ELSE i' = 0 /\ mpc' = "flush"
  /\ UNCHANGED <<test, sgdma_interrupt_fired, handler, memory, irq, queue,
                 masters>>

\* alt_dcache_flush_all() is missing
MainSkipsFlush ==
  /\ MainAt("flush")
  /\ mpc' = "poll"
  /\ UNCHANGED <<i, test, sgdma_interrupt_fired, handler, ram, irq, queue,
                 masters>>

(* alt_dcache_flush_all(): what is dirty is written, nothing stays cached. *)
MainFlushes ==
  /\ MainAt("flush")
  /\ memory' = [l \in Line |-> IF l[1] = "source" /\ cache[l] # Absent
                                 THEN cache[l] ELSE memory[l]]
  /\ cache' = [l \in Line |-> Absent]
  /\ mpc' = "poll"
  /\ UNCHANGED <<i, test, sgdma_interrupt_fired, handler, irq, queue, masters>>

Full == \E m \in Masters : Len(waiting[m]) = Depth

\* main does not wait for room
MainDoesNotPoll ==
  /\ MainAt("poll")
  /\ mpc' = "write"
  /\ UNCHANGED <<i, test, sgdma_interrupt_fired, handler, ram, irq, queue,
                 masters>>

(* Main spins until there is room for a descriptor.                        *)
MainSeesRoom ==
  /\ MainAt("poll")
  /\ ~Full
  /\ mpc' = "write"
  /\ UNCHANGED <<i, test, sgdma_interrupt_fired, handler, ram, irq, queue,
                 masters>>

\* every descriptor asks for an interrupt
DescriptorsAllIrq(b) ==
  [buffer |-> b, irq |-> TRUE, early_done |-> FALSE, park |-> FALSE]

\* the interrupt comes with the first descriptor
DescriptorFirstIrq(b) ==
  [buffer |-> b, irq |-> b = 0, early_done |-> b # Buffers - 1, park |-> FALSE]

Descriptor(b) ==
  [buffer |-> b, irq |-> b = Buffers - 1, early_done |-> b # Buffers - 1,
   park |-> FALSE]

(* write_standard_descriptor() looks at the full flag once more.           *)
MainWrites ==
  /\ MainAt("write")
  /\ IF Full
       THEN mpc' = "failed" /\ UNCHANGED <<i, queue>>
       ELSE /\ Dispatcher!Serve({}, <<Descriptor(i)>>)
            /\ IF i + 1 < Buffers THEN i' = i + 1 /\ mpc' = "poll"
                                  ELSE i' = 0 /\ mpc' = "wait"
  /\ UNCHANGED <<test, sgdma_interrupt_fired, handler, ram, irq, masters>>

MainSeesFlag ==
  /\ MainAt("wait")
  /\ sgdma_interrupt_fired # 0
  /\ mpc' = "verify"
  /\ UNCHANGED <<i, test, sgdma_interrupt_fired, handler, ram, irq, queue,
                 masters>>

(* What the processor reads, through its cache. *)
Loaded(l) == IF cache[l] = Absent THEN memory[l] ELSE cache[l]

MainVerifies ==
  /\ MainAt("verify")
  /\ LET l == <<"dest", i>>
     IN /\ cache' = [cache EXCEPT ![l] = Loaded(l)]
        /\ IF Loaded(l) = 0 THEN mpc' = "failed" /\ UNCHANGED i
           ELSE IF i + 1 < Buffers THEN i' = i + 1 /\ UNCHANGED mpc
                                   ELSE i' = 0 /\ mpc' = "again"
  /\ UNCHANGED <<test, sgdma_interrupt_fired, handler, memory, irq, queue,
                 masters>>

\* the flag of the last test is not reset
MainKeepsFlag ==
  /\ MainAt("again")
  /\ IF test < Tests THEN test' = test + 1 /\ mpc' = "populate"
                     ELSE mpc' = "end" /\ UNCHANGED test
  /\ UNCHANGED <<i, sgdma_interrupt_fired, handler, ram, irq, queue, masters>>

MainRepeats ==
  /\ MainAt("again")
  /\ sgdma_interrupt_fired' = 0
  /\ IF test < Tests THEN test' = test + 1 /\ mpc' = "populate"
                     ELSE mpc' = "end" /\ UNCHANGED test
  /\ UNCHANGED <<i, handler, ram, irq, queue, masters>>

-----------------------------------------------------------------------------
(* sgdma_complete_isr *)
IsrSetsFlag ==
  /\ isr = "idle" /\ irq
  /\ sgdma_interrupt_fired' = 1
  /\ interrupts' = interrupts + 1
  /\ isr' = "clear"
  /\ UNCHANGED <<main, ram, irq, queue, masters>>

IsrClears ==
  /\ isr = "clear"
  /\ irq' = FALSE
  /\ isr' = "idle"
  /\ UNCHANGED <<main, sgdma_interrupt_fired, interrupts, ram, queue, masters>>

-----------------------------------------------------------------------------
(* The read master takes a command and posts its reads, if its FIFO has    *)
(* room for the data; after a descriptor without early done only when the  *)
(* data of that one has returned.                                          *)
ReadMasterReads ==
  /\ pending = <<>> \/ command["read"].early_done
  /\ Len(pending) + Len(stream) < InFlight
  /\ Dispatcher!Serve({"read"}, <<>>)
  /\ pending' = Append(pending, command'["read"].buffer)
  /\ UNCHANGED <<main, sgdma_interrupt_fired, handler, ram, irq, stream, writing>>

DataReturns ==
  /\ pending # <<>>
  /\ stream' = Append(stream, memory[<<"source", Head(pending)>>])
  /\ pending' = Tail(pending)
  /\ UNCHANGED <<main, sgdma_interrupt_fired, handler, ram, irq, queue, writing>>

WriteMasterStarts ==
  /\ ~writing
  /\ Dispatcher!Serve({"write"}, <<>>)
  /\ writing' = TRUE
  /\ UNCHANGED <<main, sgdma_interrupt_fired, handler, ram, irq, pending, stream>>

(* Its response makes the dispatcher set the interrupt that the descriptor *)
(* asks for.                                                               *)
WriteMasterCompletes ==
  /\ writing /\ stream # <<>>
  /\ memory' = [memory EXCEPT ![<<"dest", command["write"].buffer>>] = Head(stream)]
  /\ stream' = Tail(stream)
  /\ writing' = FALSE
  /\ irq' = (irq \/ command["write"].irq)
  /\ UNCHANGED <<main, sgdma_interrupt_fired, handler, cache, queue, pending>>

-----------------------------------------------------------------------------
Main == \/ MainEnables \/ MainPopulates \/ MainFlushes \/ MainSeesRoom
        \/ MainWrites \/ MainSeesFlag \/ MainVerifies \/ MainRepeats

Isr == IsrSetsFlag \/ IsrClears

ReadMaster == ReadMasterReads \/ DataReturns

WriteMaster == WriteMasterStarts \/ WriteMasterCompletes

Ended == mpc \in {"end", "failed"} /\ isr # "clear" /\ UNCHANGED vars

Next == \/ Main \/ Isr \/ ReadMaster \/ WriteMaster
        \/ \E l \in Line : CacheReplaces(l)
        \/ Ended

(* The processor runs, an interrupt is taken, and the masters and the      *)
(* memory behind them work on.  Nothing makes the cache replace a line.    *)
Fairness == /\ WF_vars(Main) /\ WF_vars(Isr)
            /\ WF_vars(ReadMasterReads) /\ WF_vars(DataReturns)
            /\ WF_vars(WriteMaster)

Spec == Init /\ [][Next]_vars

FairSpec == Spec /\ Fairness

-----------------------------------------------------------------------------
(* What main compares in a test are the data that this test's transfers    *)
(* have put into memory, for every buffer: the interrupt of the last       *)
(* descriptor speaks for all of them, and neither memory nor the cache     *)
(* still has the data of the test before, which would compare as well.     *)
VerifiesThisTest ==
  mpc = "verify" => \A b \in i..(Buffers - 1) : Loaded(<<"dest", b>>) = test

(* The hardware is at rest whenever main touches the buffers: it neither   *)
(* reads a source that main fills again nor writes what main compares.     *)
HardwareAtRest ==
  /\ TypeOK
  /\ mpc \in {"populate", "flush", "verify", "again", "end"} =>
       /\ \A m \in Masters : waiting[m] = <<>>
       /\ pending = <<>> /\ stream = <<>> /\ ~writing

(* Each test takes one interrupt, and its flag is set by no other test's.  *)
InterruptPerTest ==
  /\ mpc \in {"verify", "again"} => interrupts = test
  /\ mpc \in {"populate", "flush"} => sgdma_interrupt_fired = 0 /\ ~irq

(* All tests end, and end well: a descriptor is never refused, as main is  *)
(* the only one to write any after it has seen room, and the handler lets  *)
(* main go on.                                                             *)
TestsPass == <>(mpc = "end")
=============================================================================
