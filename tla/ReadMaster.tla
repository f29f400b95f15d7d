----------------------------- MODULE ReadMaster -----------------------------
(***************************************************************************)
(* The read master of the modular SGDMA: the words of a command are read   *)
(* in bursts, as many at a time as there is room for in the FIFO, and the  *)
(* stream takes them from there.  The action Cycle is one cycle of the     *)
(* clock; the slave and the stream are as slow as they like.               *)
(*                                                                         *)
(* As the systems instantiate it: aligned accesses of whole words, with a  *)
(* last one that may be short, no packets, no stride, no programmable      *)
(* bursts, behind a dispatcher in the mode MM to MM.  The data of a word   *)
(* is its address.                                                         *)
(***************************************************************************)
EXTENDS Integers, Sequences

CONSTANTS
  FifoDepth,    \* FIFO_DEPTH
  MaxBurst,     \* MAX_BURST_COUNT, or 1 if BURST_ENABLE is 0
  Wrapping,     \* BURST_WRAPPING_SUPPORT
  WordBytes,    \* BYTE_ENABLE_WIDTH
  Starts,       \* the words that a transfer may start at
  Lengths,      \* the lengths of transfers in bytes
  MaxCommands   \* bound on the number of commands

(* "at least four times the maximum burst length"                          *)
ASSUME ReadMasterAssumption ==
  /\ MaxBurst \in Nat \ {0} /\ WordBytes \in Nat \ {0}
  /\ FifoDepth \in Nat /\ FifoDepth >= 4 * MaxBurst
  /\ Wrapping \in BOOLEAN
  /\ Starts \subseteq Nat /\ Lengths \subseteq Nat \ {0}
  /\ MaxCommands \in Nat

VARIABLES
  snk_command_ready, src_response_valid,
  address_counter,            \* in words
  length_counter,             \* in bytes
  early_done_enable_d1,
  pending_reads_counter,
  done_d1, all_reads_returned_d1,
  master_read_reg,
  flush, stopped,
  fifo,                       \* the_master_to_st_fifo
  in_flight,                  \* words that the slave has yet to return
  sw_stop, sw_reset,          \* the dispatcher's
  settled,                    \* cycles since a reset, as far as they matter
  commands,                   \* number of commands so far
  cut                         \* a reset has met the command

counters == <<address_counter, length_counter, pending_reads_counter>>
handshake == <<snk_command_ready, src_response_valid, early_done_enable_d1,
               done_d1, all_reads_returned_d1>>
dispatcher == <<sw_stop, sw_reset, settled, commands, cut>>
vars == <<counters, handshake, master_read_reg, flush, stopped, fifo,
          in_flight, dispatcher>>

Words(first, n) == [i \in 1..n |-> first + i - 1]
Command == [start : Starts, bytes : Lengths, early_done : BOOLEAN]
InWords(bytes) == (bytes + WordBytes - 1) \div WordBytes

Init ==
  /\ snk_command_ready = TRUE /\ src_response_valid = FALSE
  /\ address_counter = 0 /\ length_counter = 0 /\ pending_reads_counter = 0
  /\ early_done_enable_d1 = FALSE
  /\ done_d1 = TRUE /\ all_reads_returned_d1 = TRUE
  /\ master_read_reg = FALSE /\ flush = FALSE /\ stopped = FALSE
  /\ fifo = <<>> /\ in_flight = <<>>
  /\ sw_stop = FALSE /\ sw_reset = FALSE /\ settled = 3
  /\ commands = 0 /\ cut = FALSE

-----------------------------------------------------------------------------
(* Signals of one cycle. *)
done == length_counter = 0
master_read == master_read_reg /\ ~done

all_reads_returned == done /\ pending_reads_counter = 0

(* every command is answered when its last read is posted *)
response_at_done == done /\ ~done_d1

(* the end of the reads is told from the register of the other strobe *)
response_of_other_strobe ==
  IF early_done_enable_d1 THEN done /\ ~done_d1
                          ELSE all_reads_returned /\ ~done_d1

set_src_response_valid ==
  IF early_done_enable_d1 THEN done /\ ~done_d1
                          ELSE all_reads_returned /\ ~all_reads_returned_d1

length_sync_reset == flush /\ pending_reads_counter = 0

(* room is kept for one burst only *)
too_many_pending_reads_late ==
  Len(fifo) + pending_reads_counter > FifoDepth - MaxBurst

(* The register in front of the read makes this late by a burst. *)
too_many_pending_reads ==
  Len(fifo) + pending_reads_counter > FifoDepth - 2 * MaxBurst

short_last_access_enable == length_counter < WordBytes

(* read_burst_control *)
burst_of_one_enable ==
  short_last_access_enable \/ (Wrapping /\ address_counter % MaxBurst # 0)
short_burst_enable == length_counter \div WordBytes < MaxBurst

master_burstcount ==
  IF burst_of_one_enable \/ MaxBurst = 1 THEN 1
  ELSE IF short_burst_enable THEN length_counter \div WordBytes
  ELSE MaxBurst

bytes_to_transfer ==
  IF short_last_access_enable THEN length_counter % WordBytes
                              ELSE WordBytes * master_burstcount

-----------------------------------------------------------------------------
(* The registers, and the FIFO and the slave they act on, at the end of a  *)
(* cycle.  go is <<>> or holds the command that the dispatcher gives,      *)
(* read_complete says that the slave accepts a read, returns that it       *)
(* returns a word, takes that the stream takes one.                        *)
CountersNext(go, read_complete, returns) ==
  /\ address_counter' = IF go # <<>> THEN go[1].start
                        ELSE IF read_complete
                          THEN address_counter + master_burstcount
                        ELSE address_counter
  /\ length_counter' = IF length_sync_reset THEN 0
                       ELSE IF go # <<>> THEN go[1].bytes
                       ELSE IF read_complete
                         THEN length_counter - bytes_to_transfer
                       ELSE length_counter
  /\ pending_reads_counter' = pending_reads_counter
                                + (IF read_complete THEN master_burstcount ELSE 0)
                                - (IF returns THEN 1 ELSE 0)

(* The dispatcher takes a response in the cycle in which it is valid.      *)
HandshakeNext(go) ==
  /\ early_done_enable_d1' = IF go # <<>> THEN go[1].early_done
                                          ELSE early_done_enable_d1
  /\ done_d1' = done
  /\ all_reads_returned_d1' = all_reads_returned
  /\ snk_command_ready' = (go = <<>> /\ (snk_command_ready \/ src_response_valid))
  /\ src_response_valid' = (~flush /\ set_src_response_valid)

Between(read_complete) == read_complete \/ snk_command_ready \/ ~master_read_reg

ReadNext(read_complete) ==
  master_read_reg' =
    IF ~done /\ ~too_many_pending_reads /\ ~sw_stop /\ ~sw_reset THEN TRUE
    ELSE /\ master_read_reg /\ ~done
         /\ read_complete => ~too_many_pending_reads /\ ~sw_stop

StopNext(read_complete) ==
  /\ flush' = IF length_sync_reset THEN FALSE
              ELSE flush \/ (sw_reset /\ Between(read_complete))
  /\ stopped' = (sw_stop /\ ~sw_reset /\ (stopped \/ Between(read_complete)))

(* The data does not go through the barrel shifters: what returns is       *)
(* written to the FIFO, also while flush is set.                           *)
DataNext(read_complete, returns, takes) ==
  /\ fifo' = (IF takes THEN Tail(fifo) ELSE fifo)
               \o (IF returns THEN <<Head(in_flight)>> ELSE <<>>)
  /\ in_flight' = (IF returns THEN Tail(in_flight) ELSE in_flight)
                    \o (IF read_complete
                          THEN Words(address_counter, master_burstcount)
                          ELSE <<>>)

(* Stop bits come and go.  A reset lasts until neither this master's flush *)
(* nor the write master, which may hold it up, stalls it; the buffers that *)
(* it empties show no descriptor for three more cycles.                    *)
DispatcherNext(go) ==
  /\ sw_stop' \in BOOLEAN
  /\ sw_reset' \in BOOLEAN
  /\ sw_reset /\ flush => sw_reset'
  /\ settled' = IF sw_reset THEN 0 ELSE IF settled = 3 THEN 3 ELSE settled + 1
  /\ commands' = commands + Len(go)
  /\ cut' = (sw_reset \/ flush \/ (go = <<>> /\ cut))

Given ==
  {<<>>} \cup
  {<<c>> : c \in IF /\ snk_command_ready /\ ~sw_stop /\ ~sw_reset
                    /\ settled = 3 /\ commands < MaxCommands
                 THEN Command ELSE {}}

Cycle(go, read_complete, returns, takes) ==
  /\ read_complete => master_read
  /\ returns => in_flight # <<>>
  /\ takes => fifo # <<>>
  /\ CountersNext(go, read_complete, returns)
  /\ HandshakeNext(go)
  /\ ReadNext(read_complete)
  /\ StopNext(read_complete)
  /\ DataNext(read_complete, returns, takes)
  /\ DispatcherNext(go)

Next == \E go \in Given, read_complete, returns, takes \in BOOLEAN :
          Cycle(go, read_complete, returns, takes)

Spec == Init /\ [][Next]_vars

(* The clock ticks, whether or not the dispatcher's bits change.  The      *)
(* slave accepts reads and returns words, and the stream takes them.       *)
Ticks == Next /\ UNCHANGED <<sw_stop, sw_reset>>
Accepts == \E go \in Given, returns, takes \in BOOLEAN :
             Cycle(go, TRUE, returns, takes)
Returns == \E go \in Given, read_complete, takes \in BOOLEAN :
             Cycle(go, read_complete, TRUE, takes)
Takes == \E go \in Given, read_complete, returns \in BOOLEAN :
           Cycle(go, read_complete, returns, TRUE)

Fairness == /\ WF_vars(Ticks) /\ WF_vars(Accepts) /\ WF_vars(Returns)
            /\ WF_vars(Takes)

FairSpec == Spec /\ Fairness

-----------------------------------------------------------------------------
TypeOK ==
  /\ snk_command_ready \in BOOLEAN /\ src_response_valid \in BOOLEAN
  /\ address_counter \in Nat /\ length_counter \in Nat
  /\ pending_reads_counter \in 0..FifoDepth
  /\ early_done_enable_d1 \in BOOLEAN
  /\ done_d1 \in BOOLEAN /\ all_reads_returned_d1 \in BOOLEAN
  /\ master_read_reg \in BOOLEAN /\ flush \in BOOLEAN /\ stopped \in BOOLEAN
  /\ fifo \in Seq(Nat) /\ in_flight \in Seq(Nat)
  /\ sw_stop \in BOOLEAN /\ sw_reset \in BOOLEAN /\ settled \in 0..3
  /\ commands \in 0..MaxCommands /\ cut \in BOOLEAN

(* Every read that has been posted finds room in the FIFO for all of its   *)
(* words, though the decision to post it was taken a cycle earlier and the *)
(* stream may take nothing for as long as it likes.                        *)
ReadsHaveRoom ==
  /\ TypeOK
  /\ pending_reads_counter = Len(in_flight)
  /\ Len(fifo) + pending_reads_counter <= FifoDepth

Stream == INSTANCE WordStream WITH
  Capacity <- FifoDepth,
  Commands <- {Words(c.start, InWords(c.bytes)) : c \in Command},
  buffered <- fifo,
  unread <- in_flight \o Words(address_counter, InWords(length_counter)),
  open <- ~snk_command_ready,
  early <- early_done_enable_d1,
  resetting <- flush

(* Through bursts, throttling, stops and early answers the stream gets the *)
(* words of each command, once and in order.                               *)
ImplementsStream == Stream!Spec

(* A command that no reset has met is answered, unless the master is told  *)
(* to stop.                                                                *)
Answered == ~snk_command_ready /\ ~cut ~> snk_command_ready \/ cut \/ sw_stop
=============================================================================
