-------------------------- MODULE SgdmaDispatcher --------------------------
(***************************************************************************)
(* The dispatcher of the modular SGDMA with the command and response side  *)
(* of its masters: descriptor buffers, control and status registers,       *)
(* response buffer, and the host that drives them.  The action Cycle is    *)
(* one cycle of the clock.                                                 *)
(*                                                                         *)
(* Modes MM to MM (a read and a write master) and ST to MM (a write master *)
(* only).  A descriptor is what the properties tell apart: which interrupt *)
(* it asks for, whether it is parked and whether the read master is done   *)
(* with it before the data has come.  How long a transfer takes, when a    *)
(* pending read returns and when a master is between two bursts is up to   *)
(* the fabric.  Transfers are not empty, as the masters demand.  An early  *)
(* termination is not modelled: the write master shows it in the cycle     *)
(* before its response is valid, and no longer when it is.                 *)
(***************************************************************************)
EXTENDS Integers, Sequences

CONSTANTS
  Masters,        \* {"read", "write"} or {"write"}
  Irqs,           \* interrupts that a descriptor may ask for
  Depth,          \* DESCRIPTOR_FIFO_DEPTH
  ResponseDepth,  \* RESPONSE_FIFO_DEPTH, or 0 without a response port
  Bursts,         \* BURST_ENABLE of the masters
  HostChecks,     \* the host writes a descriptor only if there is room
  HostUses        \* bits of the control register and of descriptors

ASSUME SgdmaAssumption ==
  /\ Masters \in {{"read", "write"}, {"write"}}
  /\ Irqs \subseteq {"never", "complete", "error"} /\ Irqs # {}
  /\ Depth \in Nat \ {0} /\ ResponseDepth \in Nat
  /\ Bursts \in BOOLEAN /\ HostChecks \in BOOLEAN
  /\ HostUses \subseteq {"stop", "stop_on_error", "irq_enable",
                         "stop_descriptors", "reset", "park", "early_done"}

Descriptors ==
  [irq : Irqs,
   park : IF "park" \in HostUses THEN BOOLEAN ELSE {FALSE},
   early_done : IF "early_done" \in HostUses THEN BOOLEAN ELSE {FALSE}]
NoDescriptor == [irq |-> "none", park |-> FALSE, early_done |-> FALSE]
Address == 0..(Depth - 1)

Control == [stop : BOOLEAN, reset : BOOLEAN, stop_on_error : BOOLEAN,
            irq_enable : BOOLEAN, stop_descriptors : BOOLEAN]
Cleared == [stop |-> FALSE, reset |-> FALSE, stop_on_error |-> FALSE,
            irq_enable |-> FALSE, stop_descriptors |-> FALSE]

VARIABLES
  \* fifo_with_byteenables, one for each master
  ram, write_address, read_address, internal_used,
  ram_output, read_data,      \* the two cycles of latency of the memory
  \* descriptor_buffers
  command_empty_d1, command_empty_d2,
  irq_mask_d1,                \* of the write master's last descriptor
  \* dispatcher, csr_block, response_block
  all_transfers_done,
  control, sw_reset, stopped_on_error, irq,
  responses,                  \* number of responses in the response buffer
  \* the masters
  ready, valid,               \* snk_command_ready, src_response_valid
  running,                    \* length_counter # 0
  done_d1,
  all_reads_returned_d1,
  stopped,
  reset_taken,                \* reset_taken of the write, flush of the read master
  pending_reads,              \* the read master waits for data
  error,                      \* the write master has seen an error
  command,                    \* the descriptor that a master was given last
  \* the host
  held,                       \* the descriptor write that waitrequest holds up
  seen                        \* the control register as it was last read

fifo == <<ram, write_address, read_address, internal_used, ram_output,
          read_data, command_empty_d1, command_empty_d2>>
csr == <<control, sw_reset, stopped_on_error, irq>>
masters == <<ready, valid, running, done_d1, all_reads_returned_d1, stopped,
             reset_taken, pending_reads, error, command>>
vars == <<fifo, irq_mask_d1, all_transfers_done, csr, responses, masters, held,
          seen>>

TypeOK ==
  /\ ram \in [Masters -> [Address -> Descriptors]]
  /\ write_address \in [Masters -> Address]
  /\ read_address \in [Masters -> Address]
  /\ internal_used \in [Masters -> 0..Depth]
  /\ ram_output \in [Masters -> Descriptors]
  /\ read_data \in [Masters -> Descriptors]
  /\ command_empty_d1 \in [Masters -> BOOLEAN]
  /\ command_empty_d2 \in [Masters -> BOOLEAN]
  /\ irq_mask_d1 \in Irqs \cup {"never"}
  /\ all_transfers_done \in BOOLEAN
  /\ control \in Control /\ sw_reset \in BOOLEAN
  /\ stopped_on_error \in BOOLEAN /\ irq \in BOOLEAN
  /\ responses \in 0..ResponseDepth
  /\ ready \in [Masters -> BOOLEAN] /\ valid \in [Masters -> BOOLEAN]
  /\ running \in [Masters -> BOOLEAN] /\ done_d1 \in [Masters -> BOOLEAN]
  /\ all_reads_returned_d1 \in BOOLEAN
  /\ stopped \in [Masters -> BOOLEAN] /\ reset_taken \in [Masters -> BOOLEAN]
  /\ pending_reads \in BOOLEAN /\ error \in BOOLEAN
  /\ command \in [Masters -> Descriptors]
  /\ held \in Descriptors \cup {NoDescriptor}
  /\ seen \in {<<>>} \cup {<<c>> : c \in Control}

Init ==
  LET anything == CHOOSE d \in Descriptors : TRUE
      all(value) == [m \in Masters |-> value]
  IN /\ ram = all([a \in Address |-> anything])
     /\ write_address = all(0) /\ read_address = all(0)
     /\ internal_used = all(0)
     /\ ram_output = all(anything) /\ read_data = all(anything)
     /\ command_empty_d1 = all(FALSE) /\ command_empty_d2 = all(FALSE)
     /\ irq_mask_d1 = "never"
     /\ all_transfers_done = TRUE
     /\ control = Cleared /\ sw_reset = FALSE
     /\ stopped_on_error = FALSE /\ irq = FALSE
     /\ responses = 0
     /\ ready = all(TRUE) /\ valid = all(FALSE)
     /\ running = all(FALSE) /\ done_d1 = all(TRUE)
     /\ all_reads_returned_d1 = TRUE
     /\ stopped = all(FALSE) /\ reset_taken = all(FALSE)
     /\ pending_reads = FALSE /\ error = FALSE
     /\ command = all(anything)
     /\ held = NoDescriptor /\ seen = <<>>

-----------------------------------------------------------------------------
(* Signals of one cycle. *)
used(m) == internal_used[m]
empty(m) == read_address[m] = write_address[m] /\ used(m) = 0

full(m) == read_address[m] = write_address[m] /\ used(m) # 0

\* only when no buffer has room
waitrequest_late == \A m \in Masters : full(m)

waitrequest == \E m \in Masters : full(m)         \* of the descriptor port
response_fifo_full == ResponseDepth > 0 /\ responses = ResponseDepth
stop_issuing_commands == response_fifo_full \/ control.stop_descriptors
busy == ~all_transfers_done
done_strobe == valid["write"]      \* the dispatcher is always ready for it

\* the empty signal is not delayed by the latency of the memory
command_valid_early(m) ==
  ~control.stop /\ ~sw_reset /\ ~stop_issuing_commands
  /\ ~empty(m) /\ ~command_empty_d1[m]

\* a descriptor waits until there is another one
command_valid_behind(m) ==
  ~control.stop /\ ~sw_reset /\ ~stop_issuing_commands
  /\ used(m) > 1 /\ ~command_empty_d1[m] /\ ~command_empty_d2[m]

command_valid(m) ==
  ~control.stop /\ ~sw_reset /\ ~stop_issuing_commands
  /\ ~empty(m) /\ ~command_empty_d1[m] /\ ~command_empty_d2[m]

issue(m) == command_valid(m) /\ ready[m]

(* A parked descriptor stays in the buffer if it is the only one there. *)
park_enable(m) == read_data[m].park /\ used(m) = 1
pop(m) == issue(m) /\ ~park_enable(m)

(* A master is done when its length is used up.  The read master is done   *)
(* with its response only when the data has come, unless the descriptor    *)
(* asks for an early done.                                                 *)
done(m) == ~running[m]
done_strobe_of(m) == done(m) /\ ~done_d1[m]
all_reads_returned == "read" \in Masters => done("read") /\ ~pending_reads

set_src_response_valid(m) ==
  IF m = "write" THEN done_strobe_of(m) /\ ~reset_taken[m]
  ELSE IF command[m].early_done THEN done_strobe_of(m)
  ELSE all_reads_returned /\ ~all_reads_returned_d1

(* Some master has yet to take the reset. *)
reset_stalled == \/ ~reset_taken["write"] /\ sw_reset
                 \/ "read" \in Masters /\ reset_taken["read"]

-----------------------------------------------------------------------------
(* Each block's registers after a cycle.  In all of them d is the          *)
(* descriptor that the host writes in this cycle, or NoDescriptor.         *)

(* fifo_with_byteenables.  A write goes to the memory whether or not there *)
(* is room, push only moves the address.  A location that is read while it *)
(* is written gives anything.                                              *)
push(d) == d # NoDescriptor /\ ~waitrequest

FifoNext(d) ==
  /\ ram' = [m \in Masters |->
       IF d = NoDescriptor THEN ram[m]
                           ELSE [ram[m] EXCEPT ![write_address[m]] = d]]
  /\ ram_output' \in
       {o \in [Masters -> Descriptors] : \A m \in Masters :
          d = NoDescriptor \/ write_address[m] # read_address[m]
            => o[m] = ram[m][read_address[m]]}
  /\ read_data' = ram_output
  /\ write_address' = [m \in Masters |->
       IF sw_reset THEN 0
       ELSE IF push(d) THEN (write_address[m] + 1) % Depth
       ELSE write_address[m]]
  /\ read_address' = [m \in Masters |->
       IF sw_reset THEN 0
       ELSE IF pop(m) THEN (read_address[m] + 1) % Depth
       ELSE read_address[m]]
  /\ internal_used' = [m \in Masters |->
       IF sw_reset THEN 0
       ELSE used(m) + (IF push(d) THEN 1 ELSE 0) - (IF pop(m) THEN 1 ELSE 0)]

\* the masks are latched as soon as the command is valid
MaskFollowsCommand ==
  /\ command_empty_d1' = [m \in Masters |-> empty(m)]
  /\ command_empty_d2' = command_empty_d1
  /\ irq_mask_d1' =
       IF command_valid("write") THEN read_data["write"].irq ELSE irq_mask_d1

(* descriptor_buffers: the delayed empty signals, and the interrupt mask   *)
(* that belongs to the next response.                                      *)
BuffersNext ==
  /\ command_empty_d1' = [m \in Masters |-> empty(m)]
  /\ command_empty_d2' = command_empty_d1
  /\ irq_mask_d1' =
       IF issue("write") THEN read_data["write"].irq ELSE irq_mask_d1

\* done is not required to be the last one
DoneWithFirst ==
  all_transfers_done' =
    IF done_strobe \/ sw_reset THEN TRUE
    ELSE all_transfers_done /\ \A m \in Masters : empty(m)

(* dispatcher *)
DoneNext ==
  all_transfers_done' =
    IF (done_strobe /\ \A m \in Masters : empty(m)) \/ sw_reset THEN TRUE
    ELSE all_transfers_done /\ \A m \in Masters : empty(m)

(* csr_block.  w is <<c>> if c is written to the control register, and     *)
(* clear_irq says that the host clears the interrupt.                      *)
set_irq == /\ control.irq_enable /\ done_strobe
           /\ \/ irq_mask_d1 = "complete"
              \/ irq_mask_d1 = "error" /\ error /\ Masters = {"write"}
set_stopped_on_error == done_strobe /\ control.stop_on_error /\ error

\* clear_stop does not clear stopped_on_error
CsrKeepsStopped(w, clear_irq) ==
  LET clear_stop == w # <<>> /\ ~w[1].stop
      set_stop == (w # <<>> /\ w[1].stop) \/ set_stopped_on_error
      written == IF w # <<>> THEN w[1] ELSE control
  IN /\ control' =
          IF control.reset THEN Cleared
          ELSE [written EXCEPT !.stop =
                  set_stop \/ (control.stop /\ ~clear_stop)]
     /\ sw_reset' = ((w # <<>> /\ w[1].reset) \/ (sw_reset /\ reset_stalled))
     /\ stopped_on_error' = (stopped_on_error \/ set_stopped_on_error)
     /\ irq' = (~control.reset /\ (set_irq \/ (irq /\ ~clear_irq)))

CsrNext(w, clear_irq) ==
  LET clear_stop == w # <<>> /\ ~w[1].stop
      set_stop == (w # <<>> /\ w[1].stop) \/ set_stopped_on_error
      written == IF w # <<>> THEN w[1] ELSE control
  IN /\ control' =
          IF control.reset THEN Cleared
          ELSE [written EXCEPT !.stop =
                  set_stop \/ (control.stop /\ ~clear_stop)]
     /\ sw_reset' = ((w # <<>> /\ w[1].reset) \/ (sw_reset /\ reset_stalled))
     /\ stopped_on_error' =
          (~clear_stop /\ (stopped_on_error \/ set_stopped_on_error))
     /\ irq' = (~control.reset /\ (set_irq \/ (irq /\ ~clear_irq)))

(* response_block.  The buffer does not check for an overflow: what it     *)
(* shows after one is not defined.                                         *)
ResponseNext(response_read) ==
  IF ResponseDepth = 0 \/ sw_reset THEN responses' = 0
  ELSE LET now == responses + (IF done_strobe THEN 1 ELSE 0)
                            - (IF response_read THEN 1 ELSE 0)
       IN responses' \in IF now <= ResponseDepth THEN {now}
                                                 ELSE 0..ResponseDepth

(* The masters.  Those in finishing complete their last access in this     *)
(* cycle, those in between are not in the middle of an access or a burst,  *)
(* data says that reads are pending after it, failing that an error comes. *)
MastersNext(finishing, between, data, failing) ==
  /\ running' = [m \in Masters |->
       IF m = "write"
         THEN IF (reset_taken[m] /\ running[m]) \/ set_src_response_valid(m)
                THEN FALSE
              ELSE issue(m) \/ (running[m] /\ m \notin finishing)
         ELSE IF reset_taken[m] /\ ~pending_reads THEN FALSE
              ELSE issue(m) \/ (running[m] /\ m \notin finishing)]
  /\ pending_reads' = data
  /\ done_d1' = [m \in Masters |-> done(m)]
  /\ all_reads_returned_d1' = all_reads_returned
  /\ valid' = [m \in Masters |-> ~reset_taken[m] /\ set_src_response_valid(m)]
  /\ ready' = [m \in Masters |->
       /\ ~issue(m)
       /\ \/ ready[m]
          \/ m = "write" /\ ((done(m) /\ ~valid[m]) \/ reset_taken[m])
          \/ m = "read" /\ valid[m]]
  /\ reset_taken' = [m \in Masters |->
       IF m = "write" THEN sw_reset /\ m \in between
       ELSE IF reset_taken[m] /\ ~pending_reads THEN FALSE
       ELSE reset_taken[m] \/ (sw_reset /\ m \in between)]
  /\ stopped' = [m \in Masters |->
       /\ control.stop
       /\ IF m = "write" THEN ~reset_taken[m] ELSE ~sw_reset
       /\ stopped[m] \/ m \in between]
  /\ error' = (~issue("write") /\ ~reset_taken["write"] /\ (error \/ failing))
  /\ command' = [m \in Masters |->
       IF issue(m) THEN read_data[m] ELSE command[m]]

(* The sets of masters that may be between two accesses, which matters     *)
(* only when they are to stop or to be reset.  Idle masters are, and so is *)
(* one that completes an access, but not a write master that bursts: that  *)
(* one is between two bursts, and starts no burst that a reset would have  *)
(* to wait for.                                                            *)
BetweenAccesses(finishing) ==
  IF ~sw_reset /\ ~control.stop THEN {{}}
  ELSE {between \in SUBSET Masters : \A m \in Masters :
          /\ ready[m] \/ (done(m) /\ (m = "write" \/ done_d1[m])) => m \in between
          /\ IF m = "write" /\ Bursts
               THEN /\ m \in finishing => m \notin between
                    /\ (sw_reset /\ reset_taken[m]) \/ (control.stop /\ stopped[m])
                         => m \in between
               ELSE m \in finishing => m \in between}

(* Errors come with the data, as long as somebody looks at them. *)
ErrorsMatter == "stop_on_error" \in HostUses \/ "error" \in Irqs

-----------------------------------------------------------------------------
(* The host.  It changes a bit of the control register by reading it and   *)
(* writing it back, with nothing else in between, as interrupts are        *)
(* disabled meanwhile; or it writes the reset bit alone.                   *)
Modified(c) ==
  UNION {{[c EXCEPT ![bit] = b] : b \in BOOLEAN} :
           bit \in HostUses \ {"reset", "park", "early_done"}}

ControlWrites ==
  IF seen # <<>> THEN {<<c>> : c \in Modified(seen[1])}
  ELSE IF "reset" \in HostUses THEN {<<[Cleared EXCEPT !.reset = TRUE]>>} ELSE {}

(* A write that was not accepted is held; a host that checks for room does *)
(* not write into a full buffer.                                           *)
DescriptorWrites ==
  IF held # NoDescriptor THEN {held}
  ELSE {NoDescriptor} \cup
       (IF HostChecks /\ waitrequest THEN {} ELSE Descriptors)

Host(d, w, read_control) ==
  /\ held' = IF d # NoDescriptor /\ waitrequest THEN d ELSE NoDescriptor
  /\ seen' = IF read_control THEN <<control>> ELSE IF w # <<>> THEN <<>> ELSE seen

(* A clock cycle, with what the host does in it. *)
Cycle(d, w, clear_irq, read_control, response_read) ==
  /\ FifoNext(d)
  /\ BuffersNext
  /\ DoneNext
  /\ CsrNext(w, clear_irq)
  /\ ResponseNext(response_read)
  /\ \E finishing \in SUBSET {m \in Masters : running[m] /\ ~stopped[m]} :
       \E between \in BetweenAccesses(finishing),
          data \in IF "read" \in Masters /\ (running["read"] \/ pending_reads)
                   THEN BOOLEAN ELSE {FALSE},
          failing \in IF running["write"] /\ ErrorsMatter THEN BOOLEAN ELSE {FALSE} :
         /\ "read" \in finishing => data
         /\ MastersNext(finishing, between, data, failing)
  /\ Host(d, w, read_control)

None == <<>>
Free == held = NoDescriptor      \* the host is not held up by waitrequest
Idle == Free /\ seen = None      \* nor is it about to write what it has read

Quiet == Free /\ Cycle(NoDescriptor, None, FALSE, FALSE, FALSE)

HostWritesDescriptor ==
  /\ seen = None
  /\ \E d \in DescriptorWrites \ {NoDescriptor} :
       Cycle(d, None, FALSE, FALSE, FALSE)

(* Its accesses are more than a cycle apart: none to the control register  *)
(* falls into the cycle after a write of the reset bit, in which the       *)
(* registers are cleared.                                                  *)
HostWritesControl ==
  /\ Free /\ ~control.reset
  /\ \E w \in ControlWrites : Cycle(NoDescriptor, w, FALSE, FALSE, FALSE)

HostReadsControl ==
  /\ Idle /\ ~control.reset
  /\ Modified(control) # {}
  /\ Cycle(NoDescriptor, None, FALSE, TRUE, FALSE)

HostClearsIrq == Idle /\ irq /\ Cycle(NoDescriptor, None, TRUE, FALSE, FALSE)

HostReadsResponse ==
  Idle /\ responses > 0 /\ Cycle(NoDescriptor, None, FALSE, FALSE, TRUE)

Next == \/ Quiet \/ HostWritesDescriptor \/ HostWritesControl
        \/ HostReadsControl \/ HostClearsIrq \/ HostReadsResponse

(* A host that checks for room leaves the dispatcher alone in some cycles, *)
(* and the clock ticks in these.  The fabric lets a transfer come to its   *)
(* end, unless it is stopped, and returns the data of all reads.           *)
Fairness ==
  /\ WF_vars(Quiet)
  /\ \A m \in Masters : []<>(~running[m] \/ stopped[m])
  /\ []<>(~pending_reads \/ running["read"])

Spec == Init /\ [][Next]_vars

FairSpec == Spec /\ Fairness

-----------------------------------------------------------------------------
waiting == [m \in Masters |->
              [i \in 1..used(m) |-> ram[m][(read_address[m] + i - 1) % Depth]]]

Queue == INSTANCE DescriptorQueue

(* Through the latency of the memory, the handshakes and resets, each      *)
(* master is given the descriptors that were accepted, in order and once.  *)
ImplementsQueue == Queue!Spec

(* When busy is not set the last transfer is complete: the write master    *)
(* neither works nor has a response on its way, and the buffers are empty  *)
(* but for a descriptor that has just arrived.                             *)
BusyUntilDone ==
  ~busy /\ ~sw_reset =>
    /\ ~running["write"] /\ ~valid["write"] /\ ~set_src_response_valid("write")
    /\ \A m \in Masters : empty(m) \/ command_empty_d1[m]

(* A response meets the interrupt mask of its own descriptor, though the   *)
(* next descriptor may be issued in the very cycle of the response.        *)
MaskOfTransfer ==
  /\ TypeOK
  /\ valid["write"] => irq_mask_d1 = command["write"].irq

(* A stop on error that is reported is in force.  It does not say that a   *)
(* stop is never lost: a host that writes back what it read before the     *)
(* stop clears both bits (csr_block.v:306-310).                            *)
StoppedMeansStop == stopped_on_error => control.stop

(* A master that has nothing to do, and has delivered its response, takes  *)
(* commands: otherwise it never would again.                               *)
IdleIsReady ==
  \A m \in Masters :
    /\ done(m) /\ done_d1[m] /\ ~valid[m]
    /\ m = "read" => all_reads_returned /\ all_reads_returned_d1
    => ready[m]

(* Descriptors do not wait for ever, unless the host wants them to.        *)
Served ==
  \A m \in Masters :
    ~empty(m) ~> issue(m) \/ control.stop \/ sw_reset \/ stop_issuing_commands
=============================================================================
