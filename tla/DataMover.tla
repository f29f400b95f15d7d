------------------------------ MODULE DataMover ------------------------------
(***************************************************************************)
(* The ping pong DMA of the data mover: two descriptor issuers share one   *)
(* dispatcher through a stream multiplexer, the dispatcher runs a pair of  *)
(* transfers for each request (f2h: FPGA memory into the CPU's input       *)
(* buffer, h2f: the CPU's output buffer into FPGA memory), and the         *)
(* performance thread of data_mover_app asks for buffer 0 and 1 in turn    *)
(* and learns from a buffer's last word that its data has come.            *)
(*                                                                         *)
(* Clock is one clock cycle of the issuers, the multiplexer and the        *)
(* dispatcher: everything that can happen in the same cycle can happen in  *)
(* one step.  The masters move words at their own pace, and let commands   *)
(* and responses wait as long as they like.  Issuer i always has the       *)
(* descriptor of buffer i, so that i stands for the request.               *)
(***************************************************************************)
EXTENDS Integers, Sequences

CONSTANTS
  Words,          \* length of a transfer
  FifoDepth,      \* words that a read master can be ahead of its write master
  MuxPipelined    \* the multiplexer has a register at its output

ASSUME DataMoverAssumption ==
  /\ Words \in Nat \ {0} /\ FifoDepth \in Nat \ {0}
  /\ MuxPipelined \in BOOLEAN

Buf == 0..1
Nothing == 2      \* no request, no command, no write on its way
Dir == {"f2h", "h2f"}
Idle == [buf |-> Nothing, left |-> 0]

VARIABLES
  dma_request, dma_request_overflow,   \* registers 0 and 1 of each issuer
  mux,              \* the request that the dispatcher sees
  write_started,    \* <dir>_dma_write_started
  read_started,     \* <dir>_dma_read_started
  complete,         \* <dir>_dma_complete
  reader, writer,   \* the masters of a direction: Idle, or what is left to do
  stream,           \* the words between them, as the buffers they belong to
  last_word,        \* last_word[b]: the last word of input buffer b is not 0
  csr_write,        \* the issuer that a DMA_REQUEST write is on its way to
  pc, buf,          \* the performance thread and the buffer it is at
  prompt            \* history: so far each h2f transfer was over before the
                    \* last word of its f2h transfer was written

issuers == <<dma_request, dma_request_overflow>>
dispatcher == <<write_started, read_started, complete>>
masters == <<reader, writer, stream, prompt>>
cpu == <<pc, buf>>
vars == <<issuers, mux, dispatcher, masters, last_word, csr_write, cpu>>

Command == [buf : Buf, left : 0..Words] \cup {Idle}

TypeOK ==
  /\ dma_request \in [Buf -> BOOLEAN]
  /\ dma_request_overflow \in [Buf -> BOOLEAN]
  /\ mux \in Buf \cup {Nothing}
  /\ write_started \in [Dir -> BOOLEAN] /\ read_started \in [Dir -> BOOLEAN]
  /\ complete \in [Dir -> BOOLEAN]
  /\ reader \in [Dir -> Command] /\ writer \in [Dir -> Command]
  /\ stream \in [Dir -> Seq(Buf)]
  /\ \A d \in Dir : Len(stream[d]) <= FifoDepth
  /\ last_word \in [Buf -> BOOLEAN]
  /\ csr_write \in Buf \cup {Nothing}
  /\ pc \in {"start", "kick_0", "kick_1", "spin", "process", "clear",
             "request", "again", "drain", "exit"}
  /\ buf \in Buf /\ prompt \in BOOLEAN

Init ==
  /\ dma_request = [b \in Buf |-> FALSE]
  /\ dma_request_overflow = [b \in Buf |-> FALSE]
  /\ mux = Nothing
  /\ write_started = [d \in Dir |-> FALSE]
  /\ read_started = [d \in Dir |-> FALSE]
  /\ complete = [d \in Dir |-> FALSE]
  /\ reader = [d \in Dir |-> Idle] /\ writer = [d \in Dir |-> Idle]
  /\ stream = [d \in Dir |-> <<>>]
  /\ last_word \in [Buf -> BOOLEAN]
  /\ csr_write = Nothing
  /\ pc = "start" /\ buf = 0 /\ prompt = TRUE

-----------------------------------------------------------------------------
(* Signals of one cycle.                                                   *)
valid == mux # Nothing                            \* asi_dma_req_valid

(* Plausible mistakes come before the definition each is a variant of.     *)

\* the f2h transfer has been started, but need not be complete
req_ready_early == valid /\ write_started["f2h"]

(* A request is acknowledged when its f2h transfer is complete; the other  *)
(* direction is not waited for.                                            *)
req_ready == valid /\ complete["f2h"]

(* <dir>_dma_write_cmd_valid and <dir>_dma_read_cmd_valid: f2h waits until *)
(* the h2f read has been started.                                          *)
write_cmd_valid(d) ==
  valid /\ ~write_started[d] /\ (d = "f2h" => read_started["h2f"])
read_cmd_valid(d) ==
  valid /\ ~read_started[d] /\ (d = "f2h" => read_started["h2f"])

(* Masters that can give a response in this cycle.                         *)
Finished(master) == {d \in Dir : master[d] # Idle /\ master[d].left = 0}

\* started registers keep their value when the request is acknowledged
DispatcherKeepsStarted(wcmd, rcmd, wrsp) ==
  /\ write_started' = [d \in Dir |-> d \in wcmd \/ write_started[d]]
  /\ read_started' = [d \in Dir |-> d \in rcmd \/ (~req_ready /\ read_started[d])]
  /\ complete' = [d \in Dir |-> d \in wrsp \/ (~req_ready /\ complete[d])]

(* The dispatcher's registers, with the commands that are accepted and the *)
(* write responses that come in this cycle.                                *)
DispatcherNext(wcmd, rcmd, wrsp) ==
  /\ write_started' =
       [d \in Dir |-> d \in wcmd \/ (~req_ready /\ write_started[d])]
  /\ read_started' =
       [d \in Dir |-> d \in rcmd \/ (~req_ready /\ read_started[d])]
  /\ complete' = [d \in Dir |-> d \in wrsp \/ (~req_ready /\ complete[d])]

(* The masters take commands, and are idle again after their response.     *)
MastersNext(wcmd, rcmd, wrsp, rrsp) ==
  LET Master(m, cmd, rsp) ==
        [d \in Dir |-> IF d \in cmd THEN [buf |-> mux, left |-> Words]
                       ELSE IF d \in rsp THEN Idle ELSE m[d]]
  IN /\ writer' = Master(writer, wcmd, wrsp)
     /\ reader' = Master(reader, rcmd, rrsp)

(* The multiplexer.  With a register it takes a request from an issuer as  *)
(* soon as it is free; without one the issuer waits for the dispatcher.    *)
MuxFree == ~valid \/ (MuxPipelined /\ req_ready)

MuxChoices == LET requests == {i \in Buf : dma_request[i]}
              IN IF MuxFree /\ requests # {} THEN requests ELSE {Nothing}

MuxNext(b) == mux' = IF MuxFree THEN b ELSE IF req_ready THEN Nothing ELSE mux

(* The issuer whose request is accepted in this cycle.                     *)
Accepted(b) == IF MuxPipelined THEN b ELSE IF req_ready THEN mux ELSE Nothing

\* the handshake does not clear the request
IssuersKeepRequest(w, b) ==
  /\ dma_request' = [i \in Buf |-> dma_request[i] \/ w = i]
  /\ dma_request_overflow' =
       [i \in Buf |-> dma_request_overflow[i] \/ (w = i /\ dma_request[i])]

(* An issuer: a write sets the request, or the overflow if there is one;   *)
(* the handshake clears the request.                                       *)
IssuersNext(w, b) ==
  /\ dma_request' = [i \in Buf |-> \/ dma_request[i] /\ Accepted(b) # i
                                   \/ ~dma_request[i] /\ w = i]
  /\ dma_request_overflow' =
       [i \in Buf |-> dma_request_overflow[i] \/ (w = i /\ dma_request[i])]

(* One clock cycle.  The write responses wrsp, the read responses rrsp and *)
(* the DMA_REQUEST write w arrive in it, the idle masters wready and       *)
(* rready are ready for a command, and the multiplexer chooses b.          *)
Clock ==
  \E wrsp \in SUBSET Finished(writer), rrsp \in SUBSET Finished(reader),
     wready \in SUBSET {d \in Dir : writer[d] = Idle},
     rready \in SUBSET {d \in Dir : reader[d] = Idle},
     w \in {Nothing, csr_write}, b \in MuxChoices :
    LET wcmd == {d \in wready : write_cmd_valid(d)}
        rcmd == {d \in rready : read_cmd_valid(d)}
    IN /\ DispatcherNext(wcmd, rcmd, wrsp)
       /\ MastersNext(wcmd, rcmd, wrsp, rrsp)
       /\ MuxNext(b)
       /\ IssuersNext(w, b)
       /\ csr_write' = IF w = csr_write THEN Nothing ELSE csr_write
       /\ UNCHANGED <<stream, prompt, last_word, cpu>>

-----------------------------------------------------------------------------
(* The masters.  A read master puts a word into the stream ...             *)
ReadWord(d) ==
  /\ reader[d].left > 0
  /\ Len(stream[d]) < FifoDepth
  /\ stream' = [stream EXCEPT ![d] = Append(@, reader[d].buf)]
  /\ reader' = [reader EXCEPT ![d].left = @ - 1]
  /\ UNCHANGED <<issuers, mux, dispatcher, writer, prompt, last_word,
                 csr_write, cpu>>

(* The h2f transfer of the request is over, which nothing in the design    *)
(* waits for.                                                              *)
H2fIsDone == /\ write_started["h2f"] /\ read_started["h2f"]
             /\ writer["h2f"] = Idle /\ reader["h2f"] = Idle

(* ... and a write master takes it from there.  The last word of an f2h    *)
(* transfer is what the performance thread is waiting for.                 *)
WriteWord(d) ==
  /\ writer[d].left > 0
  /\ stream[d] # <<>>
  /\ stream' = [stream EXCEPT ![d] = Tail(@)]
  /\ writer' = [writer EXCEPT ![d].left = @ - 1]
  /\ last_word' = IF d = "f2h" /\ writer[d].left = 1
                    THEN [last_word EXCEPT ![writer[d].buf] = TRUE]
                    ELSE last_word
  /\ prompt' = (prompt /\ (d = "f2h" /\ writer[d].left = 1 => H2fIsDone))
  /\ UNCHANGED <<issuers, mux, dispatcher, reader, csr_write, cpu>>

-----------------------------------------------------------------------------
(* The performance thread, from the clearing of the last words on.  A      *)
(* write to an issuer is on its way until a Clock delivers it, and the     *)
(* next one waits for it.                                                  *)
hardware == <<issuers, mux, dispatcher, masters>>

(* An overflow of the last test is reported and cleared.                   *)
CpuStarts ==
  /\ pc = "start"
  /\ last_word' = [b \in Buf |-> FALSE]
  /\ dma_request_overflow' = [b \in Buf |-> FALSE]
  /\ pc' = "kick_0"
  /\ UNCHANGED <<dma_request, mux, dispatcher, masters, csr_write, buf>>

CpuKicks(b) ==
  /\ pc = (IF b = 0 THEN "kick_0" ELSE "kick_1")
  /\ csr_write = Nothing
  /\ csr_write' = b
  /\ IF b = 0 THEN pc' = "kick_1" /\ UNCHANGED buf
              ELSE pc' = "spin" /\ buf' = 0
  /\ UNCHANGED <<hardware, last_word>>

(* while( last word of the buffer == 0 );                                  *)
CpuSeesData ==
  /\ pc = "spin"
  /\ last_word[buf]
  /\ pc' = "process"
  /\ UNCHANGED <<hardware, last_word, csr_write, buf>>

(* memcpy() from the input to the output buffer                            *)
CpuProcesses ==
  /\ pc = "process"
  /\ pc' = "clear"
  /\ UNCHANGED <<hardware, last_word, csr_write, buf>>

\* the last word is not cleared
CpuDoesNotClear ==
  /\ pc = "clear"
  /\ pc' = "request"
  /\ UNCHANGED <<hardware, last_word, csr_write, buf>>

CpuClears ==
  /\ pc = "clear"
  /\ last_word' = [last_word EXCEPT ![buf] = FALSE]
  /\ pc' = "request"
  /\ UNCHANGED <<hardware, csr_write, buf>>

(* The buffer is asked for again; the loop ends after buffer 1 only.       *)
CpuRequests ==
  /\ pc = "request"
  /\ csr_write = Nothing
  /\ csr_write' = buf
  /\ buf' = 1 - buf
  /\ pc' = IF buf = 0 THEN "spin" ELSE "again"
  /\ UNCHANGED <<hardware, last_word>>

(* perf_keep_running is looked at, and the loop goes on or it ends.        *)
CpuLoops ==
  /\ pc = "again"
  /\ pc' \in {"spin", "drain"}
  /\ UNCHANGED <<hardware, last_word, csr_write, buf>>

(* "make sure the dma is complete before we exit the thread"               *)
CpuExits ==
  /\ pc = "drain"
  /\ last_word[0] /\ last_word[1]
  /\ pc' = "exit"
  /\ UNCHANGED <<hardware, last_word, csr_write, buf>>

(* The next test starts a new thread.                                      *)
CpuRestarts ==
  /\ pc = "exit"
  /\ pc' = "start"
  /\ UNCHANGED <<hardware, last_word, csr_write, buf>>

-----------------------------------------------------------------------------
Masters == \E d \in Dir : ReadWord(d) \/ WriteWord(d)

Cpu == \/ CpuStarts \/ CpuKicks(0) \/ CpuKicks(1) \/ CpuSeesData
       \/ CpuProcesses \/ CpuClears \/ CpuRequests \/ CpuLoops \/ CpuExits
       \/ CpuRestarts

Next == Clock \/ Masters \/ Cpu

(* The clock ticks and what it can do it does some time; masters move      *)
(* their words, and the thread runs.                                       *)
Fairness == /\ WF_vars(Clock) /\ WF_vars(Cpu)
            /\ \A d \in Dir : WF_vars(ReadWord(d)) /\ WF_vars(WriteWord(d))

Spec == Init /\ [][Next]_vars

FairSpec == Spec /\ Fairness

-----------------------------------------------------------------------------
(* While the thread reads a buffer and clears its last word, no transfer   *)
(* writes to that buffer and none has been asked for.                      *)
BufferStable ==
  pc \in {"process", "clear"} =>
    /\ ~(writer["f2h"].buf = buf /\ writer["f2h"].left > 0)
    /\ csr_write # buf
    /\ MuxPipelined => ~dma_request[buf]

(* An f2h transfer keeps its request: until its write master is done the   *)
(* multiplexer shows the request it was started for, and an acknowledged   *)
(* request has been given to both masters and has left no word behind.     *)
F2hInv ==
  /\ TypeOK
  /\ writer["f2h"] # Idle => /\ mux = writer["f2h"].buf
                             /\ write_started["f2h"] /\ ~complete["f2h"]
  /\ read_started["f2h"] \/ write_started["f2h"] \/ complete["f2h"] => valid
  /\ complete["f2h"] => /\ write_started["f2h"] /\ read_started["f2h"]
                        /\ stream["f2h"] = <<>> /\ reader["f2h"].left = 0

(* The two masters of a direction are always given the same requests: the *)
(* words in a stream belong to the transfer that takes them.  In the h2f   *)
(* direction this needs transfers that do not lag behind.                  *)
Aligned ==
  /\ F2hInv
  /\ \A d \in Dir :
       writer[d].left > 0 /\ stream[d] # <<>> /\ (d = "h2f" => prompt)
         => Head(stream[d]) = writer[d].buf

(* No request is lost: an overflow would leave the thread waiting for ever.*)
NoOverflow == \A b \in Buf : ~dma_request_overflow[b]

(* "make sure the dma is complete before we exit the thread": it is, and   *)
(* an output buffer is not changed while it is read, as long as no h2f     *)
(* transfer has lagged behind.  Nothing waits for these.                   *)
OutputStable ==
  prompt =>
    /\ pc = "process" => ~(reader["h2f"].buf = buf /\ reader["h2f"].left > 0)
    /\ pc = "exit" => \A d \in Dir : writer[d].left = 0 /\ reader[d].left = 0

(* The thread gets every buffer it has asked for, and its last two ones    *)
(* before it exits.                                                        *)
Served == /\ \A b \in Buf : (pc = "spin" /\ buf = b) ~> pc = "process"
          /\ pc = "drain" ~> pc = "exit"
=============================================================================
