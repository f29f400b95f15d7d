# Formal models of the altera_soc examples

The repository is a collection of example designs for Altera's Cyclone V SoC:
Linux programs and kernel modules that run on the two ARM cores, and Verilog
that runs in the FPGA next to them. There is no one program. What the examples
have in common is that every one of them hands data from one actor to another
one that runs at the same time: thread to thread, interrupt handler to reader,
processor to DMA engine, DMA engine to memory. The models in this directory are
about these handovers.

Paths below are relative to `src/altera_examples/`. `LDM` stands for
`linux_data_mover`, `SG` for `Modular_SGDMA_DE/ip`.

1. [Inventory](#1-inventory)
2. [Modules](#2-modules)
3. [Model checking](#3-model-checking)
4. [Proofs](#4-proofs)
5. [Findings](#5-findings)
6. [What is not modelled](#6-what-is-not-modelled)
7. [Plan](#7-plan)

`PROJECT.json` has the machine-readable form: components, runs, a mutation of
the code for every property, the source lines of every definition, hazards,
findings and theorems.

## 1. Inventory

### 1.1 AMP spin lock

`LDM/data_mover_software_13.0sp1/amp_sim_data_copy/main.c:93-117`, in inline
assembler; `smp_data_copy` uses `pthread_spin_lock` in its place.

| | |
|---|---|
| State | a lock word; the exclusive monitor of each CPU |
| Operations | `spin_lock` (`ldrex`, test, `strex`, test, `dmb`), `spin_unlock` (`dmb`, store) |
| Hard | two CPUs read the word free before either stores; a store-exclusive may fail for no reason |
| Correct when | one CPU at a time is inside; a failed store goes back to the load; a free lock is always taken by someone |

### 1.2 Ping pong data copy

`amp_sim_data_copy/main.c` and `smp_data_copy/main.c`. A performance thread
fills two buffers with incrementing words and main consumes them: it skips
them, copies them, or validates them word by word, in three passes over all
request sizes.

| | |
|---|---|
| State | two buffer control blocks (request, response, sequence, pointer), five locks (one per buffer, one "sync" lock per buffer, one for `g_thread_running`), where both threads are |
| Operations | of the thread: announce itself, fill, publish, move on; of main: wait for the thread, consume, re-arm with the next request, move on, change size and pass |
| Interaction | shared memory under the locks; in the AMP variant each hand-over flushes the cache by an `ioctl` of `amp_sim_module`, which can fail |
| Hard | lock hand-over order; the start-up, where main must not overtake the thread; an error return that leaves locks taken |
| Correct when | the threads are never in the same buffer, no buffer and no word is lost or seen twice, the program ends |

### 1.3 Ping pong hand-off of statistics

`data_mover_app`, both versions of `max_jitter` and `max_irq_jitter_app` use
one scheme. A real time thread must never block: it keeps one of two statistics
buffers locked and moves to the other only if `pthread_mutex_trylock` gets it.
Main appends the buffers in turn to two files and counts the rounds missing in
the sequence numbers as `dropped_stats`; then it reads the files back, keeps
the five largest and smallest times, and deletes the files.

| | |
|---|---|
| State | two mutexes, two buffers with sequence numbers, `g_mutex_control` with `g_perf_keep_running`, two files, the tables of extremes |
| Hard | a record that mixes two rounds; buffers of the last test that look like this one's; the first record, which is excused from the drop check; a thread that returns with its mutex locked; files that are not truncated when they are opened, after a program that was killed or could not delete them; a timer that comes round between two stamps, equal times |
| Correct when | each saved record is one whole round of the present test, rounds are saved in order, `dropped_stats` is zero exactly when nothing was lost, what is evaluated is what this test has saved, the extremes are those of all samples, a test ends |

### 1.4 irq_module

`LDM/irq_affinity_software_13.1.1/irq_module/irq_module.c`: the driver of a
periodic FPGA timer. The handler measures latency with the timer and with the
Cortex-A9 global timer, counts interrupts and wakes readers. Readers of the
misc device sleep until the count differs from the one last read. A sysfs file
shows the statistics and resets them.

| | |
|---|---|
| State | `the_private_data` under `irq_lock`: counts, minima, maxima, last time, CPU mask; the wait queue |
| Operations | handler, `read`, `dump_stats_and_reset`, plain sysfs shows, load and unload |
| Hard | wake-up between test and sleep; reset between the handler's time stamp and its update; 64 bit timer read in three 32 bit accesses while it counts |
| Correct when | statistics are those since the last reset, a reader's numbers belong together, no wake-up is lost, the timer value is one the timer had |

### 1.5 Data mover hardware and its performance thread

`LDM/data_mover_hardware_13.0sp1/ip/{issue_dma_descriptor,dma_dispatcher,channel_remover}`
and the thread of `data_mover_app/main.c`. Two issuers, one for each ping pong
buffer, hold a descriptor. A write to a DMA_REQUEST register sends it through a
generated stream multiplexer to the dispatcher, which runs two transfers: f2h
(FPGA memory into the CPU's input buffer) and h2f (the CPU's output buffer into
FPGA memory). The thread finds out that data has come by polling the last word
of a buffer.

| | |
|---|---|
| State | request and overflow registers of the issuers, the multiplexer's register, started and complete registers of the dispatcher, the masters and the words between them, the buffers' last words |
| Hard | a request written while one is pending is dropped; acknowledge and accept in the same cycle; only the f2h direction tells anybody that it is over |
| Correct when | no request is lost, a buffer is not written while the thread uses it, a stream's words go to the transfer they were read for, the thread always gets its data |

### 1.6 Modular SGDMA

`SG/SGDMA_dispatcher` (Verilog and the HAL driver in `HAL/src`),
`SG/Read_Master`, `SG/Write_Master`. The host writes descriptors into two FIFOs
with a latency of two cycles; the dispatcher gives them to the masters, collects
responses, drives busy, interrupt, stop and software reset.

| | |
|---|---|
| State | descriptor FIFOs and their output registers, `irq_mask_d1`, control and status registers, response FIFO, the masters' handshakes, reset and stop registers; in the driver the control register it has read |
| Operations | a clock cycle; descriptor write, control read-modify-write, software reset, interrupt clear, response read; of the read master: post a burst, take back a word, throttle |
| Hard | early answers, with words of one command on their way while the next one begins; a throttling that is a cycle late; every register one cycle late of the one it follows; stop, reset and response in one cycle; full flags that are late; a host that writes back control bits the hardware has changed |
| Correct when | each master gets the accepted descriptors in order and once, the words of each come once and in order and never find the FIFO full, busy and the interrupt mask fit the transfer, a reset leaves a working engine, no response is lost, descriptors do not wait for ever |

### 1.7 Modular SGDMA application

`Modular_SGDMA_DE/software/app/main.c`, on a Nios II with a write-back data
cache. Each test fills the source buffers, flushes the cache, writes one
descriptor for each buffer, as there is room, spins on a flag that the
interrupt handler sets, and compares the destination buffers.

| | |
|---|---|
| State | the flag, the cache and the memory under it, the descriptors waiting, the words between the masters, the interrupt |
| Hard | every test moves the same data, so that stale memory or a stale cache line compares well; all descriptors but the last are answered early, and only the last one interrupts; there are more buffers than places for descriptors |
| Correct when | what is compared is what this test has moved, the hardware rests while main touches buffers, each test takes its own interrupt, all tests pass |

### 1.8 The kernel modules

`data_mover_module` and `amp_sim_module` show a kernel buffer as a file, as a
mapping and, a word at a time, in sysfs; `irq_module` (1.4) maps registers.

| | |
|---|---|
| State | what is registered (devices, driver, sysfs files, interrupt), buffer or mapping, `the_sysfs_vars_g`, open files with their positions |
| Operations | load, step by step, with failures; unload; open, close, `read`, `write`, `llseek`, `mmap`, sysfs words; the interrupt |
| Hard | a device can be opened as soon as it is registered, before the rest of the load; a step fails in the middle; unload while a handler runs; positions cut at a size that is not set yet |
| Correct when | what can be called has what it works on, copies stay in the buffer, a failed load leaves nothing behind (it does, at three steps) |

### 1.9 The rest

`hps_ddr_write_example` is a sequential user of the SGDMA, with generated DDR
calibration firmware next to it; `mem_thrash` is a load generator; `qsys_vip`
and `ug_avalon_verification` are test benches for vendor components. Section 6
says what becomes of them.

## 2. Modules

| Module | Models | Builds on |
|---|---|---|
| `AtomicLock` | abstract: a lock that is acquired and released in one step | |
| `SpinLock` | 1.1 | refines `AtomicLock` |
| `BufferExchange` | abstract: two slots filled and taken in strict alternation | |
| `DataCopy` | 1.2 | refines `BufferExchange`; its lock steps are what `AtomicLock` promises |
| `StatsHandoff` | 1.3: hand-off, files, crash and restart | |
| `TickStatistics` | 1.3: elapsed ticks and extremes, as functions | |
| `GlobalTimer` | the 64 bit timer read | |
| `IrqModule` | 1.4 | takes a timer read as one step, as `GlobalTimer` allows |
| `DataMover` | 1.5 | |
| `DescriptorQueue` | abstract: a queue of descriptors in front of each master | |
| `SgdmaDispatcher` | 1.6 without the data path | refines `DescriptorQueue` |
| `WordStream` | abstract: the words of each command, once and in order, through a bounded buffer | |
| `ReadMaster` | 1.6: the data path of the read master | refines `WordStream` |
| `SgdmaApp` | 1.7 | uses `DescriptorQueue` as its dispatcher |
| `DriverModule` | 1.8, and load and unload of 1.4 | |
| `ReadMasterProof`, `DriverModuleProof`, `DataMoverProof`, `SgdmaDispatcherProof`, `SgdmaAppProof` | theorems, see section 4 | extend their component |
| `DataCopyProof` | theorems | extends `DataCopy`, `SpinLock` |
| `StatsHandoffProof` | theorems | extends `StatsHandoff`, `TickStatistics` |
| `IrqModuleProof` | theorems | extends `IrqModule`, `GlobalTimer` |
| `MC*` | instances for TLC | extend their component |

**SpinLock.** An action is one exclusive access. `pc[c]` is where a CPU is in
the loop, `monitor[c]` its exclusive monitor; `LoseReservation` clears the monitor at
any time. `StrexStores` is the store that succeeds, `StrexRetries` the one that
does not. What other modules name alike begins with `Spin` here (`SpinInit`,
`SpinSpec`), so that `DataCopyProof` can extend both.

**DataCopy.** An action is the code between two lock operations. What a thread
does inside a buffer is one step, and `BufferExclusion` says that nobody could
have seen it half done. A run of incrementing words is its first word (`data`)
and its length (`response`); words wrap at `WordMod`. `pass`,
`current_request` and `loops` are main's three nested loops; the ten seconds
that a size is run for become "at least `MinLoops` pairs of buffers", after
which the time may expire at any moment. `full` is a history variable. A
failing flush (`FlushMayFail`) ends the thread where it stands, with its locks,
and is an error exit of main.

**StatsHandoff.** One model for three programs, in the sense of a union: it may
stop wherever one of them may. A round's statistics are the round's name,
written in two steps (`ready`, `done`), so that a torn record would be seen.
Only the thread's `trylock` of `g_mutex_control`, with the test under it, is a
single step. A file is a sequence of records; `Written` puts a record at the
place of this loop, over what an older file has there, as the file is opened
without `O_TRUNC`. A write that fails leaves a `Torn` record. A thread can fail
in `max_irq_jitter_app` only, which runs one test: `ThreadFailsToOpen` and
`ThreadFails` are steps of a process' first test, and no other follows in it.
`Restart` is the program run again after it was killed, gave up or hung: all but
the files is new.

**TickStatistics.** Pure functions of the stamps. The chain of `if ... else if`
that shifts values down is the function `WithLargest` of the rank, and its
mirror image `WithSmallest`; the code has four copies of the chain.

**IrqModule.** What happens under `irq_lock` is one step. A handler reads the
timer before it takes the lock, so `HandlerReadsGT` and `HandlerUpdates` are
two. A reader queues itself, tests, and sleeps, in the order of
`wait_event_interruptible`. Latencies are 0 or 1 timer ticks.
`untaken`, `seen`, `counted`, `stale`, `reset_met` (a reset let this reader
through, or overtook it before it took the count) and `read_at` (when it read the
timer) are history.

**DataMover.** `Clock` is one cycle of issuers, multiplexer and dispatcher. All
of `<dir>_dma_write_started`, `<dir>_dma_read_started` and `<dir>_dma_complete`
are updated from their old values, with the priorities of the Verilog.
Masters accept commands, move words and deliver responses at a pace of their
own. A transfer is the buffer it belongs to and the words left. `prompt` is a
history variable: no h2f transfer has yet outlasted its f2h transfer.

**SgdmaDispatcher.** `Cycle` is one clock cycle with at most one access of the
host in it. Each Verilog block has an operator for its registers' next values
(`FifoNext`, `BuffersNext`, `DoneNext`, `CsrNext`, `ResponseNext`,
`MastersNext`). Everything that depends on the fabric is free: which transfers
end, whether a master is between two bursts, whether read data returns, whether
it carries an error. The host is the HAL driver and the application: it checks
the full flag before it writes a descriptor (`HostChecks`), changes a control
bit by reading and writing back with interrupts off, and writes the reset bit
alone.

**ReadMaster.** `Cycle` is one clock cycle, like that of `SgdmaDispatcher`, whose
read master has no data path. Counters, throttling, burst control, FIFO, stop
and flush follow the Verilog cycle by cycle; the data of a word is its address.
The slave accepts and returns, and the stream takes, when they like. The
dispatcher gives commands, stop and reset as `SgdmaDispatcher` may: a reset
lasts while it is stalled, and no command is shown until three cycles after it.
`cut` is history: a reset has met this command.

**SgdmaApp.** The dispatcher is `DescriptorQueue`, which `SgdmaDispatcher`
implements; `Serve` is used as the action of that module. A buffer is a line of
memory whose content is the number of the test that has written it (the program
writes the same data in every test, so it sees only whether a buffer is filled,
but the properties see which test filled it). `CacheReplaces` evicts any line at
any time. The handler runs on the processor that runs main, and main does not
run while it does.

**DriverModule.** `module` says which of the three is meant. `LoadSteps` and
`UnloadSteps` are the steps that others can see or that can fail, in their
order; `Undone` is what the error path of a step undoes. The kernel is modelled
from what the modules rely on (`.owner`, `free_irq()`, names registered once).
A read or write is two steps, as base and size are read one after the other.
`stale` are names registered by a load that failed; a file open then is an
`orphan`, about which nothing is said any more.

The memory is sequentially consistent in all models. `spin_lock` and
`spin_unlock` have their `dmb`, mutexes and `irq_lock` imply theirs; the
weaker places are listed as hazards.

## 3. Model checking

Every property named below is paired in `PROJECT.json` with a plausible bug in
the modelled code (a lock not taken, a register cleared a cycle late, a reset
that forgets a variable), and TLC finds the property violated by it.

### 3.1 Runs

| Run | Bounds | States |
|---|---|---|
| `spin_lock` | 3 CPUs | 112 |
| `data_copy` | words of 3 bits, buffers of 4 words, sizes 0, 1, 2, 4, at least 2 loops each, failing flushes | 259336 |
| `stats_handoff` | 2 tests of 3 records, sequence numbers up to 6; 3 extremes of a timer modulo 4 | 661100 |
| `irq_module` | 2 readers, 1 CPU, 3 timer ticks | 499430 |
| `global_timer` | registers of 2 bits, counter up to 13 | 12951 |
| `driver_module` | 2 processes, buffer of 2 words, 2 sysfs files, 2 loads | 263424 |
| `data_mover` | transfers of 2 words, FIFOs of 1 word | 39382 |
| `sgdma_st_to_mm` | a write master, FIFO of 2, response FIFO of 4, bursts; stop, stop on error, interrupt enable, reset | 241399 |
| `sgdma_mm_to_mm` | read and write master, FIFO of 2, no response port, no bursts; park, early done, stop descriptors | 515887 |
| `sgdma_reset` | read and write master, bursts, reset | violation |
| `sgdma_app` | 3 tests, 5 buffers, 2 places for descriptors, 2 buffers in flight | 4752 |
| `read_master` | FIFO of 8 words, bursts of 2, words of 2 bytes; 2 commands of 3 or 17 bytes from word 1; stops and resets | 244222 |

The violation is the finding of section 5.

### 3.2 What they show

`spin_lock`
: `ImplementsAtomicLock`: each acquisition and release is one of a lock that
works in one step. `SpinInv`: the word is taken exactly when a CPU is inside,
and a reservation that can still be stored to has read the word free.
`SomeoneGetsIn`: once a CPU tries, some CPU gets in.

`data_copy`
: `ImplementsExchange`: through the four locks and the start-up, buffers are
filled and taken in strict alternation, each with the number of words that was
asked for. `BufferExclusion`: also when a thread has died inside. `NoWordLost`
and `ValidateNeverFails`: the validate pass finds the sequence unbroken although
it starts from what the memcpy pass left in `copy_buffer`. `Ends`: main gets
through or reports an error, or it waits for ever at the lock that the thread
has kept after a failed flush (`MainSpins`), and nowhere else. `HandoverInv` is the inductive invariant of
section 4.

`stats_handoff`
: `RecordWhole`, `SavedInOrder`, `DropsCounted`, `EvaluatesThisTest` and
`Finishes` are the points of 1.3. `DropsCounted` covers the first record, that
the code excuses from its test: the first buffer main gets can hold no round
between. `EvaluatesThisTest` holds although the files are never truncated:
every test writes as many records as any other, each over the one an older file
has there, and one that does not get that far evaluates nothing. `Finishes`:
main ends or gives up, or it waits for ever for a number that never comes or a
mutex that is never given back, because the thread has failed (`Hangs`). The instance
also evaluates `TickStatistics` on all sequences of up to 4 samples, against a
sort, and on all stamps of a timer modulo 4 (`EvaluationSorts`, `TicksAreShown`).

`irq_module`, `global_timer`
: `StatsSinceReset`: no delta spans a reset, though a reset may come between
the handler's time stamp and its update. `DeltaOfCount`: a reader returns the
number of an interrupt that was counted, and the time from that interrupt to
its own read of the timer. Only when a reset lets it through, or overtakes it,
may it return the number 0 and the timer's value itself, which are of no
interrupt. `CountsTellIrq`, `NoLostWakeup`: an interrupt no
reader has taken makes the counts differ and wakes somebody; both except from a
reset to the next read (see section 5). `ValueWasShown`: the timer value
returned lies between the values at the start and at the end of the read.

`driver_module`
: `EntriesBacked`: whoever can call a module, open it, map it, read a sysfs
file or be its interrupt, finds there what it works on. `CopiesInBuffer`: with
positions and counts cut at the end no copy leaves the buffer; the exception it
names is a call that read the base before it was set and the size after, which
begins before the module is loaded: once it is, base and size are set.
`FailedLoads`: exactly the failures of a second device, a sysfs file and
`request_irq` leave names behind, and the module cannot be loaded again.

`data_mover`
: `NoOverflow` and `Served`: no request meets a pending one, so that the thread
is always served. `Aligned`, `BufferStable`: an f2h transfer never takes the
other transfer's words, and is not writing while the thread reads. For the
other direction `Aligned` and `OutputStable` say the same, and that the masters
rest when the thread exits, under `prompt`: nothing in the hardware or the
program waits for an h2f transfer (see section 5). `F2hInv`, a part of
`Aligned`, ties started, complete, masters and multiplexer together.

`sgdma_st_to_mm`, `sgdma_mm_to_mm`
: `ImplementsQueue`: through two cycles of memory latency, pops, pushes,
parking and resets, each master gets the accepted descriptors in order.
`MaskOfTransfer`: the interrupt mask in force at a response is that of the
transfer that responds. `BusyUntilDone`: busy is not clear while the write
master works. `StoppedMeansStop`: a stop on error that is reported is in force,
also if the host resumes in the cycle of the error. It says nothing of a driver
that writes back the control register as it was before the error, which clears
stop and report together (see section 5). `Served`:
descriptors do not wait for ever.

`read_master`
: `ReadsHaveRoom`: each posted word finds a place in the FIFO, though the
decision to post is a cycle old and the stream may take nothing.
`ImplementsStream`: through bursts, short ends, throttling, stops, early
answers and resets the stream gets the words of each command once and in order.
`Answered`: each command that no reset meets is answered, unless it is stopped.

`sgdma_app`
: `VerifiesThisTest`, `HardwareAtRest`, `InterruptPerTest`, `TestsPass` are the
points of 1.7.

### 3.3 Bounds

* Two buffers, two sync locks and two issuers are what the programs have.
* `spin_lock`: with three CPUs a holder, one that stores and one that has read
  stale data are distinct. The proof is for any number.
* `data_copy`: 8 word values are more than the 4 words of a request in flight
  and wrap several times; 2 loops per size let a thread come round to the same
  buffer in each size. All but `Ends` is proved for all sizes.
* `stats_handoff`: 3 records take main to both buffers and back; a second test
  meets every state of the buffers, and in a new process of the files, that a
  first one can leave. Sequence numbers up to 6 leave room for several lost
  rounds between two records.
* `driver_module`: two loads meet what a failed one has left; a buffer of 2
  words has a start, an inside and an end; two processes can be inside while a
  third party, the loader, goes on.
* `read_master`: the FIFO is the smallest that the parameters' check admits
  (four bursts, `ReadMasterAssumption`); 17 bytes are one word more than it
  holds and end in a part of a word, 3 bytes are a word and a part; word 1 is not
  on a burst boundary. The second command meets words of the first.
* `sgdma_app`: 5 buffers are more than descriptors and data in flight together
  can hold, so that main waits for room; three tests let each start with what
  another one has left. All but `TestsPass` is proved for all sizes.
* `irq_module`: 3 ticks allow interrupts before and after a reset, and a delta
  on either side. `Cpu` has one member since the properties tell apart only an
  empty mask from one that is not.
* `data_mover`: a transfer of 2 words has a word that is not the last one; a
  FIFO of 1 word makes masters wait for each other. Tests follow one another
  without bound.
* `sgdma_*`: a FIFO of 2 is empty, partly full, full, and wraps; a memory
  latency of two cycles spans it. The response buffer is twice as deep, as
  `SG/SGDMA_dispatcher/response_block.v:96` asks. Nothing else is bounded.

Deadlock is checked in all runs but `driver_module`, where a module may be out
for good. The stuttering actions `Ended` of `DataCopy`, `StatsHandoff` and
`SgdmaApp` are enabled only after the process has ended, or after its thread has
returned with an error; any other state without successor is reported.

### 3.4 Fairness

* `SpinLock`: weak for each CPU's loads, failing stores and unlocks; strong for
  `StrexStores`, since a store-exclusive may fail but not for ever.
* `DataCopy`, `StatsHandoff`: weak for both threads. Strong where a thread
  waits for a lock that the other one releases and takes again and again: the
  thread's first lock, which main polls; in `StatsHandoff` also main's locks,
  as a mutex is free for at least a round and a futex wakes its waiter. Strong
  for the expiry of the ten seconds (`MainNextSize`, `MainNextPass`).
* `IrqModule`: the handler runs to its end, woken readers run. Nobody has to
  reset, to interrupt a reader, or to start a read.
* `DataMover`: the clock ticks, masters move words, the thread runs.
* `SgdmaDispatcher`: the clock ticks also in cycles in which the host does
  nothing, which a host that polls a register or waits for an interrupt leaves.
  The fabric completes a transfer unless it is stopped, and returns the data of
  all reads.

* `ReadMaster`: the clock ticks also in cycles in which the stop and reset bits do
  not change (`Ticks`); the slave accepts and returns reads, the stream takes
  words.
* `SgdmaApp`: the processor runs and takes its interrupt, the masters and the
  memory work. The cache need not replace anything.

### 3.5 Assumptions that matter

* `DataMover` takes the generated multiplexer as registered at its output
  (`MuxPipelined`). With a combinational one `NoOverflow` fails: the request
  bit is cleared after the data has come, and the thread's next request can meet
  it. The generator's output is not in the repository. `RequestsAreNotLost` has
  this as its assumption; the other theorems about the data mover hold for both
  kinds of multiplexer.
* With `HostChecks = FALSE` in `SgdmaDispatcher` `ImplementsQueue` fails: a
  descriptor write held by `waitrequest` overwrites the oldest descriptor
  (`SG/SGDMA_dispatcher/fifo_with_byteenables.v:135`). The driver and the
  application look at the full flag first. `DispatcherIsQueue` has it as its
  assumption.
* `BusyUntilDone` needs a write master that bursts or a host that does not
  reset: without bursts a reset may meet the master in its last access, and then
  it answers to no command after the reset, while busy is not set. TLC finds
  this with `Bursts = FALSE` and `"reset"`; `BusyIsTrue` has the condition as
  its assumption, and `sgdma_st_to_mm` has bursts.
* `NoWordLost` and `ValidateNeverFails` need that the memcpy pass ends with
  whole buffers and that every size is run for two pairs of buffers at least
  (`ValidateAssumption`). With `MinLoops = 1` main may leave the memcpy pass
  with a part of a buffer copied at the last size.
* Host accesses to the SGDMA are more than a cycle apart.

## 4. Proofs

TLAPS proves the following for every value of the constants that the assumption
of the component's module admits (`SpinAssumption`, `DataCopyAssumption` with
`ValidateAssumption`, `StatsAssumption`, `StatisticsAssumption`,
`IrqAssumption`, `TimerAssumption`, `DataMoverAssumption`, `SgdmaAssumption`,
`ReadMasterAssumption`, `DriverAssumption`, `AppAssumption`). What a theorem assumes beyond it is
said with it.

| Theorem | Statement |
|---|---|
| `SpinInvariance` | `Spec => []SpinInv` |
| `SpinMutualExclusion` | two CPUs are never inside |
| `SpinImplementsAtomicLock` | `SpinLock` implements `AtomicLock` |
| `HandoverInvariance` | `Spec => []HandoverInv` |
| `NeverBothInside` | `BufferExclusion` |
| `NothingOverwritten`, `NothingConsumedTwice` | a buffer is written only when re-armed, consumed only when filled |
| `LocksImplementExchange` | `DataCopy` implements `BufferExchange` |
| `NobodyWaitsForBoth` | main and the thread never wait for each other (`NoDeadlock`) |
| `WordsInvariance` | `Spec => [](HandoverInv /\ WordsInv)` |
| `NoMismatch`, `WordsNotLost` | `ValidateNeverFails`, `NoWordLost` |
| `HandoffInvariance` | `Spec => []StatsInv` |
| `RoundsAreWhole`, `LaterRoundsFollow` | `RecordWhole`, `SavedInOrder` |
| `DropsAreCounted`, `OnlyThisTestCounts` | `DropsCounted`, `EvaluatesThisTest` |
| `NobodyWaitsLong` | while main waits for a buffer the thread is at it and the other one is free (`WaitsAreShort`) |
| `TheTurnsMeet` | a round is overwritten only when main was at the other buffer, a thread told to stop stops (`TurnsMeet`) |
| `TicksAreElapsed` | the unsigned difference of two stamps is the time between them, across one turn |
| `NothingKept`, `LargestAreKept`, `SmallestAreKept` | the shifted places hold the extremes of all samples, before the first and after each one |
| `IrqInvariance` | `Spec => []IrqInv` |
| `StatisticsAreOfTheReset`, `CountsTell`, `DeltasBelongToCounts` | `StatsSinceReset`, `CountsTellIrq`, `DeltaOfCount` |
| `WakeupsArrive` | a reader does not sleep over an interrupt (`SleepersAreWoken`) |
| `TimerInvariance` | `TimerSpec => []TimerInv` |
| `TimerReadsAreAtomic` | `ValueWasShown` |
| `MoverInvariance` | `Spec => []MoverInv` |
| `BuffersAreStable`, `StreamsAreAligned`, `OutputsAreStable` | `BufferStable`, `Aligned`, `OutputStable` |
| `RequestsAreNotLost` | `NoOverflow`, assuming `MuxPipelined` |
| `DispatcherInvariance` | `Spec => []DispatcherInv` |
| `DispatcherIsQueue` | `SgdmaDispatcher` implements `DescriptorQueue`, assuming `HostChecks` |
| `StopsStayInForce`, `MasksBelong` | `StoppedMeansStop`, `MaskOfTransfer` |
| `BusyIsTrue` | `BusyUntilDone`, assuming bursts or no reset |
| `RoomInvariance`, `AnswersInvariance` | `Spec => []RoomInv`, `Spec => []AnswerInv` |
| `ReadsAlwaysHaveRoom` | `ReadsHaveRoom` |
| `ReadsImplementStream` | `ReadMaster` implements `WordStream` |
| `AppInvariance` | `Spec => []AppInv` |
| `TestDataVerified`, `BuffersAreMains`, `OneInterruptEach` | `VerifiesThisTest`, `HardwareAtRest`, `InterruptPerTest` |
| `TestsNeverFail` | no descriptor is refused, no comparison fails (`NeverFails`) |
| `ApplicationUsesQueue` | the application uses `DescriptorQueue` as its specification allows |
| `TestsAreFinite` | each step is one of at most `8 * Buffers + 6` of its test (`StepsBounded`, `StepByStep`) |
| `NobodyStuck` | until the end some step of the application or the hardware can be taken (`SomeoneCanGo`) |
| `DriverInvariance` | `Spec => []DriverInv` |
| `AlwaysBacked`, `FailuresLeaveNothingElse`, `AccessesInBuffer` | `EntriesBacked`, `FailedLoads`, `CopiesInBuffer` |

**Spin lock.** Mutual exclusion alone is not inductive: a CPU about to store
might have read the word before another one took it. `NoStaleReservation` says
that such a CPU has lost its reservation, as its monitor was cleared by the
other one's store. With `WordMeansHeld` that makes
`SpinInv`, which also gives the refinement mapping its `holder`.

**Data copy.** Nothing in the code says which buffer is filled; that follows
from who holds which lock. `LocksHeld` says that a lock is taken exactly by the
thread whose place says so, and by one only. That is not enough: from the locks
alone a thread could have come round twice. `FullAsLeft` says that a buffer
left behind is as it was left until the other thread has been there, and
`StartsInOrder` that main does not leave its polling loop before the thread has
buffer 0. `HandoverInv` joins these with `TypeOK` and `NoBufferLost`. Main's
error exits and its return free nothing and change nothing later, so the lock
part is stated up to then. With `RunLockHeld`, the same for the lock of
`g_thread_running`, it also gives `NoDeadlock`: each thread takes a sync lock
inside a buffer, and the other buffer with the sync lock in hand, yet the two
cannot stand before each other's locks, as the one that waits tells by its
place where the other one is. The refinement proof shows that `ThreadPublishes`
is `Fill`, `MainRearms` is `Take`, and that every other step stutters.

**Data copy, the words.** The thread counts on from one buffer to the next, so
the runs of words in the filled buffers and the thread's next word form a chain
(`Chain`); publishing hands its last run over and re-arming takes its first run
off. `Follows` says that the first word that waits for main is the one main
expects. While main validates it steps along the chain. When the memcpy pass
ends, main goes on from what it has copied last, and that is a whole buffer:
`SizesFollow` and `Reached` say that both buffers have been re-armed with the
present size before a loop is counted, so that the last pair main has copied was
of the largest size, which is the whole buffer by `ValidateAssumption`.

**Statistics hand-off.** `MutexesHeld` says who holds which mutex: the thread has
that of the buffer it is at, for a moment also the other one, and keeps it when it
fails. `RoundsWhole` says that the
buffer that the thread is not at has a whole round of this test, once it has
been there, and an earlier one than the thread's own. What main saves is the
buffer the thread is not at, so the records are whole and in order (`FilesKept`),
and each is at the place of its loop in both files, over whatever an older
process has left there; that is why evaluation never meets an old record.
`DropsExact` needs one more fact, for the first record, which the code excuses:
`NumbersSkip` says that the first number main sees is 0, the one it starts
from, or at least two more, because the thread has been at the other buffer
between. `MutexesHeld` also gives the safety part of `Finishes`: when main waits
for a mutex the thread has it and nobody has the other one, so that the next
`trylock` succeeds, if the thread has not failed (`WaitsAreShort`); a round is overwritten only when
main had the other buffer at its end, or was looking for the first number there,
and after the flag is down and `g_mutex_control` free (`StopTold`) a thread that
looks stops (`TurnsMeet`).

**Interrupts.** `TimesPast`: the handler's time is later than that of every
interrupt that has been counted, since it reads the timer after the interrupt
before was counted. `SeenKept`: the statistics are those of the list of
interrupts since the reset, deltas within the list only. `CountsApart`: the two
counts differ by the number of interrupts not taken, unless a reset has come
between. `TakesCounted`: what a reader takes away is an interrupt that has
been counted, or the zeros of a reset that has let it through or overtaken it. `SleepersCompared` is the safety part of
`NoLostWakeup`: a reader is in the queue before it compares the counts, so that
one that goes to sleep over equal counts is found by the wake-up of the next
interrupt, and between count and wake-up the handler is at `"wake"`.

**Timer.** While the two high words are not yet compared, `hi_GT` is at most
the high word at the moment the low word was read, and the counter only grows.
If the third read equals the first then all three belong to one value of the
high word.

**Statistics.** What a fold over all samples computes would need induction over
sequences; the step is proved instead. `IsLargest(largest, count)` says of
every value `t` that the places above `t` are as many as the samples above `t`
(`count[t]`), cut at `Kept`: this determines the table, ties included. It holds
of the initial table (`NothingKept`) and survives each sample: if an earlier
place is smaller than the sample, the place gets its neighbour, whose relation
to `t` is known for one less; otherwise it gets the larger of the sample and
itself.

**Read master.** `ReadsHaveRoom` is not inductive: the register in front of the
read may be set from the cycle before, and then a burst is posted whatever the
FIFO holds by now. `RoomInv` adds that while it is set the words in the FIFO
and on their way leave room for one more burst. The throttling keeps two bursts
free when it sets the register, one for the burst that is posted in that same
cycle. `BurstFits` gives that a burst has 1 to `MaxBurst` words and does not
pass the end of the transfer (so that the length never goes below 0), and
`WordsMove` how many words a cycle moves.

For the refinement the abstract stream has still to get `Unread`: the words on
their way and those that the address and length counters stand for. A burst
moves words from the second to the first and changes nothing in the sum
(`WordsOfLength`, also where the last word is a short one); a word that returns
leaves at the front. A command adds its words at the end, and `AnswerInv` says
that the length is 0 by then and that no edge of a done signal is left over that
would answer the new command with the old one's.

**Kernel modules.** What a module has follows from its place in the tables of
steps (`HasAsPlaced`): the steps of loading passed so far, less those of
unloading. `Before` and `DroppedAfter` read off the two tables that an entry
comes after what it works on and goes before it; they are the only part that
looks at the three modules one by one. `FailedLoads` is the same for the steps
whose error path undoes too little.

**Data mover.** The thread knows nothing of the hardware but two last words. So
the invariant follows each request (`RequestsOnce`): it is on its way to the
issuer, in the issuer, or in the dispatcher until the last word of its data is
written, in one of these only, and the buffers that have a request in one of
them are exactly those that the thread has asked for and not yet taken.
`TransfersMatch` follows the words: while the dispatcher sees a request, both
masters of a direction are at it, and the words to be read, in the stream and
written add up to those of the transfer (`AtRequest`), so that no word is left
when it is acknowledged. For h2f, which the dispatcher does not wait for, that
holds under `prompt`.

**Dispatcher.** Two registers lie between the memory and the master, and
`read_data` is the descriptor to be given next only in some cycles.
`OutputsFollow` says in which: when the empty signal has been low for two cycles,
or else the master is not ready. The last case is what the design rests on and
no block says: a master that has been given a command cannot be ready in the
next two cycles (`StaysBusy`), which is as long as the memory is behind after a
pop. It needs that no answer is due when a command is given (`ReadRests`,
`WriteRests`), and that after a reset the buffers are empty in the one cycle in
which a write master still resets. With that each cycle is a step `Serve` of
the abstract queue, or its `Reset`: `WaitingTail` and `WaitingAppend` do the
arithmetic of the ring once and for all. `MaskFollows` gives the interrupt mask.
`ResetAlone` (the host writes the reset bit alone, and never reads it set) is
needed for `StoppedMeansStop`, since the cycle after a reset clears the control
register.

**SGDMA application.** The invariant counts. `Written`, `Given` and `Done` are
the descriptors of this test that main has written, that a master has been
given, and that the write master has completed; all three follow from main's
place, the queues and whether the write master works. `QueueInv`: what waits in
front of a master are the descriptors of the buffers from `Given` on, in their
order. `MastersInv`: what the read master was given and is not done is in the
stream or pending, in order, and every word in the stream is of this test.
Early done makes the read master's count run ahead; the write master's cannot.
`SourceInv` and `DestInv` say where the data are. The program reads and writes
through a cache that may write back and drop any line at any time, so the
invariant speaks of memory only where main's flush has emptied the cache, and
of `Loaded`, which a replacement does not change, before that: from the flush to
the end of the comparison a source line is not cached and memory has this test's
data; a destination line below `Done` has it too, and is not cached until main
compares it. `InterruptInv` goes through the five states of flag, handler and
interrupt line, with `Done = Buffers` in all but the first: the last descriptor is
the only one that interrupts, and it is done when all are. `VerifiesThisTest`,
`HardwareAtRest` and `InterruptPerTest` are read off. `NeverFails` holds since
only main fills the queue: room that it has seen is still there when it writes.

Two further theorems are the safety part of `TestsPass`. `Steps` is a number that
main's place, the counts and the handler's place give; each step but a
replacement in the cache adds one to it or begins the next test
(`StepByStep`), and it never exceeds `8 * Buffers + 6`. `SomeoneCanGo` lists the
guards of the steps and says that one of them holds until main has ended. What
is left to fairness is that a step that can be taken is taken.

Only model-checked are the liveness properties (`SomeoneGetsIn`, `Ends`,
`Finishes`, `NoLostWakeup`, both `Served`, `Answered`, `TestsPass`), since TLAPS
does not reason about fairness and `ENABLED`; for `Ends`, `Finishes`,
`NoLostWakeup` and `TestsPass` the part that does not need them is proved (see
above). What the fold over all samples of `TickStatistics` computes
(`EvaluationSorts`, `TicksAreShown`) would take induction over sequences.
`IdleIsReady` is violated.

## 5. Findings

**A software reset can leave the read master dead** (`sgdma_reset`,
`IdleIsReady`). `read_master.v:500` holds the response at 0 while `flush` is
set, and only a response makes the master ready again (`:469`). If the last
data returns in that time, the master is idle and never ready.
`inc/csr_regs.h:25` says that a reset clears all registers.

Observed while modelling, with no run of their own:

* A read of `irq_module` returns after a reset without an interrupt:
  `dump_stats_and_reset_show` clears `irq_count` (`irq_module.c:264`) but not
  `last_read_irq_count`, and a read compares the two for inequality. When the
  count has climbed back to the old number, an unread interrupt is hidden. The
  comment at `irq_module.c:131` says "wait for the next irq event".
  `CountsTellIrq` has this as an exception (`stale`), and `DeltaOfCount` one for
  the read that returns: its number is 0, and its delta is not the time since an
  interrupt but the timer itself (`reset_met`). Two readers may also both return
  one interrupt (`:132`, `:139`).
* The thread of `data_mover_app` can exit while an h2f transfer still runs: it
  waits for the last words of the input buffers (`main.c:421`), and the
  dispatcher acknowledges a request on `f2h_dma_complete` alone
  (`dma_dispatcher.v:148`). The comment at `main.c:419` says "make sure the dma
  is complete before we exit the thread". `OutputStable` needs `prompt` for it.
* The response buffer can overflow: `dispatcher.v:386` looks at the full flag
  when it issues a command, but the write master is ready in the cycle of its
  response (`write_master.v:470`), which the flag does not show yet. The comment
  at `dispatcher.v:378` says that commands are not issued if there is no room.
  `ResponseNext` leaves open what the buffer shows then.
* A failed load of a kernel module leaves names registered after a failing
  second device (`data_mover_module.c:306`), sysfs file (`:336`,
  `irq_module.c:427`) or `request_irq` (`irq_module.c:447`); `FailedLoads` names
  these three. When a device cannot be registered the buffer is lost.
* `data_mover_module.c:54` computes the address before it looks at the size
  (`:57`), and the device is registered before both are set (`:301`). A call made
  in between may copy from or to an address that is no buffer; `CopiesInBuffer`
  excepts it (`touched.early`), and shows that no call begins so early once the
  module is loaded.
* The HAL driver changes control bits by reading and writing back
  (`sgdma_dispatcher.c:334`). If the hardware sets the stop bit between the two,
  it is written back as 0: that resumes the dispatcher (`csr_block.v:269`) and
  clears `stopped_on_error` too (`:308`), so that nobody learns of the error. No
  property excludes it.
* After a failed flush the thread of the data copy programs returns with a lock
  taken (`amp_sim_data_copy/main.c:148`), and main spins at it for ever; `Ends`
  excepts this (`MainSpins`). In `max_irq_jitter_app` a thread that cannot read
  the device returns with its mutex locked (`main.c:193`), and one that cannot
  open it returns before it has given a number (`:116`): main then waits for ever
  for the mutex or for the number, which `Finishes` excepts (`Hangs`).
* `software/app/main.c:190` of the SGDMA application takes `rand()/RAND_MAX` for
  less than 1; when it is 1 a buffer is one byte longer than its maximum.
* After a software reset the read master still puts returning words into its
  FIFO, and keeps those that are there, though the comment at `read_master.v:431`
  says "without buffering them"; a read that waits for the slave is dropped when
  the length is cleared, and a command given while `flush` is set is swallowed.
  `WordStream` admits these during a reset only.
* A non-burst write master may deliver a response to nothing after a software
  reset; early termination is shown to the dispatcher one cycle before the
  response is valid and not when it is sampled (`write_master.v:916`), so that
  stop on early termination never fires; if the host resumes in the very cycle
  of a stop on error, the stop stays but `stopped_on_error` is cleared.

## 6. What is not modelled

| Part | Why |
|---|---|
| SGDMA write master: burst lengths, byte enables, packets | planned; its handshake is in `SgdmaDispatcher`, word order in `DataMover` and `SgdmaApp` |
| Unaligned accesses, packets, stride and programmable bursts of the read master | turned off in all systems of the repository |
| Sequence numbers, timeouts, bytes transferred | data carried through unchanged |
| Early termination | never reaches the dispatcher, see section 5 |
| Coherency and latency tests of `data_mover_app` (`main.c:1012-1197`) | sequential, with one DMA at a time; they observe caches, see below |
| Command lines, `/dev/mem` mappings, averages, tables of results | sequential set-up and wording |
| CPUs' caches and store buffers of the ARM | sequential consistency assumed; `v7_dma_flush_range` is assembler that acts on nothing else. The place it is needed is in the hazards (`data_mover_app/main.c:346`) |
| `hps_ddr_write_example` | one sequential user; its way to write descriptors is the host of `SgdmaDispatcher` |
| DDR calibration firmware (`sequencer.c`, `sequencer.pre.c`, `tclrpt.pre.c` and their headers) | generated by the vendor's tool, the same program three times; it is sequential and talks to a PHY that is not in the repository. It is 31185 and more of the 43753 lines of C and C++, so that no share of these lines says much about the hand-written ones |
| `mem_thrash`, test benches | no protocol of their own; drive vendor components |

## 7. Plan

1. The data path of the write master, as `ReadMaster` has that of the read
   master, and the composition of both with `SgdmaDispatcher`.
2. For the hardware models, the safety part of `Served` and `Answered`, as
   `TestsAreFinite` and `NobodyStuck` are that of `TestsPass`.

New runs should replace or widen existing ones where they ask the same
question, to keep the whole set short enough to be run after every change.
