--------------------------- MODULE DataMoverProof ---------------------------
(***************************************************************************)
(* Proofs about the ping pong DMA of the data mover, for any length of a   *)
(* transfer and any depth of the FIFOs.  The performance thread knows      *)
(* nothing of the hardware but the last words of its buffers; what it may  *)
(* rely on follows from where each of its requests is.                     *)
(***************************************************************************)
EXTENDS DataMover, TLAPS

(* What a master has left of the transfer that the request at the          *)
(* dispatcher stands for.                                                  *)
ToRead(d) == IF read_started[d] THEN reader[d].left ELSE Words
ToWrite(d) == IF write_started[d] THEN writer[d].left ELSE Words

(* The last word is in the input buffer, but the request may not have been *)
(* acknowledged yet.                                                       *)
Written == write_started["f2h"] /\ writer["f2h"].left = 0

(* Both masters of a direction are at the request that the dispatcher      *)
(* sees, and every word of it is to be read, in the stream or written.     *)
AtRequest(d) ==
  /\ read_started[d] \/ write_started[d] => valid
  /\ writer[d] # Idle => writer[d].buf = mux /\ write_started[d]
  /\ reader[d].left > 0 => reader[d].buf = mux /\ read_started[d]
  /\ \A i \in 1..Len(stream[d]) : stream[d][i] = mux
  /\ Len(stream[d]) + ToRead(d) = ToWrite(d)

(* An acknowledged f2h transfer is over.  Of an h2f transfer this is known *)
(* only as long as none has lagged behind its f2h transfer.                *)
TransfersMatch ==
  /\ AtRequest("f2h")
  /\ complete["f2h"] => write_started["f2h"] /\ writer["f2h"] = Idle
  /\ prompt => AtRequest("h2f")
  /\ prompt /\ Written => H2fIsDone

(* Where a request for buffer b can be: on its way to the issuer, in the   *)
(* issuer (which keeps it while the dispatcher has it if the multiplexer   *)
(* has no register), or in the dispatcher with its data still to come.     *)
OnItsWay(b) == csr_write = b
InIssuer(b) == dma_request[b] /\ (MuxPipelined \/ mux # b)
InDispatcher(b) == mux = b /\ ~Written
Outstanding(b) == OnItsWay(b) \/ InIssuer(b) \/ InDispatcher(b)

(* The buffers that the thread has asked for and not yet taken.            *)
Asked ==
  IF pc = "kick_1" THEN {0}
  ELSE IF pc \in {"spin", "again", "drain"} THEN Buf
  ELSE IF pc \in {"process", "clear", "request"} THEN Buf \ {buf}
  ELSE {}

(* A request is in one place only; its buffer has been asked for and has   *)
(* no data; and where the thread asks again it has cleared the last word.  *)
RequestsOnce ==
  /\ \A b \in Buf :
       /\ Outstanding(b) => b \in Asked /\ ~last_word[b]
       /\ ~(OnItsWay(b) /\ InIssuer(b))
       /\ ~(OnItsWay(b) /\ InDispatcher(b))
       /\ ~(InIssuer(b) /\ InDispatcher(b))
  /\ pc = "kick_0" => ~last_word[0] /\ ~last_word[1]
  /\ pc = "kick_1" => ~last_word[1]
  /\ pc = "request" => ~last_word[buf]

(* With a register in the multiplexer no request meets one that is there.  *)
NoneLost == MuxPipelined => NoOverflow

MoverInv == TypeOK /\ TransfersMatch /\ RequestsOnce /\ NoneLost

-----------------------------------------------------------------------------
(* A cycle in which the masters in wcmd and rcmd accept commands, those in *)
(* wrsp and rrsp respond, the write w arrives and b is chosen.             *)
ClockStep(wcmd, rcmd, wrsp, rrsp, w, b) ==
  /\ wcmd \subseteq {d \in Dir : writer[d] = Idle /\ write_cmd_valid(d)}
  /\ rcmd \subseteq {d \in Dir : reader[d] = Idle /\ read_cmd_valid(d)}
  /\ wrsp \subseteq Finished(writer) /\ rrsp \subseteq Finished(reader)
  /\ w \in {Nothing, csr_write} /\ b \in MuxChoices
  /\ DispatcherNext(wcmd, rcmd, wrsp)
  /\ MastersNext(wcmd, rcmd, wrsp, rrsp)
  /\ MuxNext(b)
  /\ IssuersNext(w, b)
  /\ csr_write' = IF w = csr_write THEN Nothing ELSE csr_write
  /\ UNCHANGED <<stream, prompt, last_word, cpu>>

(* Clock is such a cycle.                                                  *)
LEMMA ClockSteps ==
  ASSUME Clock
  PROVE  \E wcmd, rcmd, wrsp, rrsp, w, b :
           ClockStep(wcmd, rcmd, wrsp, rrsp, w, b)
<1>1. PICK wrsp \in SUBSET Finished(writer), rrsp \in SUBSET Finished(reader),
           wready \in SUBSET {d \in Dir : writer[d] = Idle},
           rready \in SUBSET {d \in Dir : reader[d] = Idle},
           w \in {Nothing, csr_write}, b \in MuxChoices :
        /\ DispatcherNext({d \in wready : write_cmd_valid(d)},
                          {d \in rready : read_cmd_valid(d)}, wrsp)
        /\ MastersNext({d \in wready : write_cmd_valid(d)},
                       {d \in rready : read_cmd_valid(d)}, wrsp, rrsp)
        /\ MuxNext(b)
        /\ IssuersNext(w, b)
        /\ csr_write' = IF w = csr_write THEN Nothing ELSE csr_write
        /\ UNCHANGED <<stream, prompt, last_word, cpu>>
  BY DEF Clock
<1>2. ClockStep({d \in wready : write_cmd_valid(d)},
                {d \in rready : read_cmd_valid(d)}, wrsp, rrsp, w, b)
  BY <1>1 DEF ClockStep
<1> QED
  BY <1>2

(* What the types say of a master: an idle one has nothing left, and what  *)
(* is left is left of a buffer's transfer.                                 *)
LEMMA MasterTypes ==
  ASSUME TypeOK, NEW d \in Dir
  PROVE  /\ reader[d].left \in 0..Words /\ writer[d].left \in 0..Words
         /\ reader[d] = Idle => reader[d].left = 0
         /\ writer[d] = Idle => writer[d].left = 0
         /\ reader[d] # Idle => reader[d].buf \in Buf
         /\ writer[d] # Idle => writer[d].buf \in Buf
         /\ stream[d] \in Seq(Buf) /\ Len(stream[d]) \in Nat
<1>1. reader[d] \in Command /\ writer[d] \in Command /\ stream[d] \in Seq(Buf)
  BY DEF TypeOK
<1> QED
  BY <1>1, DataMoverAssumption DEF Command, Idle, Buf

(* The registers of one direction after a cycle.                           *)
LEMMA CycleOf ==
  ASSUME TypeOK, NEW d \in Dir,
         NEW wcmd, NEW rcmd, NEW wrsp, NEW rrsp, NEW w, NEW b,
         ClockStep(wcmd, rcmd, wrsp, rrsp, w, b)
  PROVE  /\ write_started'[d] = (d \in wcmd \/ (~req_ready /\ write_started[d]))
         /\ read_started'[d] = (d \in rcmd \/ (~req_ready /\ read_started[d]))
         /\ complete'[d] = (d \in wrsp \/ (~req_ready /\ complete[d]))
         /\ writer'[d] = IF d \in wcmd THEN [buf |-> mux, left |-> Words]
                         ELSE IF d \in wrsp THEN Idle ELSE writer[d]
         /\ reader'[d] = IF d \in rcmd THEN [buf |-> mux, left |-> Words]
                         ELSE IF d \in rrsp THEN Idle ELSE reader[d]
         /\ stream' = stream /\ prompt' = prompt
         /\ d \in wcmd => valid /\ writer[d] = Idle /\ ~write_started[d]
         /\ d \in rcmd => valid /\ reader[d] = Idle /\ ~read_started[d]
         /\ d \in wrsp => writer[d] # Idle /\ writer[d].left = 0
         /\ d \in rrsp => reader[d] # Idle /\ reader[d].left = 0
         /\ valid /\ ~req_ready => mux' = mux
BY DEF ClockStep, DispatcherNext, MastersNext, MuxNext, MuxFree, Finished,
       write_cmd_valid, read_cmd_valid

(* A cycle keeps a direction at the request that the dispatcher sees,      *)
(* since a request that is acknowledged is over.                           *)
LEMMA ClockKeepsRequest ==
  ASSUME TypeOK, NEW d \in Dir, AtRequest(d),
         NEW wcmd, NEW rcmd, NEW wrsp, NEW rrsp, NEW w, NEW b,
         ClockStep(wcmd, rcmd, wrsp, rrsp, w, b),
         req_ready => write_started[d] /\ read_started[d] /\ writer[d] = Idle
  PROVE  AtRequest(d)'
<1> USE DataMoverAssumption
<1>t. /\ reader[d].left \in 0..Words /\ writer[d].left \in 0..Words
      /\ reader[d] = Idle => reader[d].left = 0
      /\ writer[d] = Idle => writer[d].left = 0
      /\ Len(stream[d]) \in Nat
  BY MasterTypes
<1>c. /\ write_started'[d] = (d \in wcmd \/ (~req_ready /\ write_started[d]))
      /\ read_started'[d] = (d \in rcmd \/ (~req_ready /\ read_started[d]))
      /\ writer'[d] = IF d \in wcmd THEN [buf |-> mux, left |-> Words]
                      ELSE IF d \in wrsp THEN Idle ELSE writer[d]
      /\ reader'[d] = IF d \in rcmd THEN [buf |-> mux, left |-> Words]
                      ELSE IF d \in rrsp THEN Idle ELSE reader[d]
      /\ stream' = stream
      /\ d \in wcmd => valid /\ writer[d] = Idle /\ ~write_started[d]
      /\ d \in rcmd => valid /\ reader[d] = Idle /\ ~read_started[d]
      /\ d \in wrsp => writer[d] # Idle /\ writer[d].left = 0
      /\ d \in rrsp => reader[d] # Idle /\ reader[d].left = 0
      /\ valid /\ ~req_ready => mux' = mux
  BY CycleOf
<1>w. /\ write_started[d] \in BOOLEAN /\ read_started[d] \in BOOLEAN
      /\ writer'[d].left = IF d \in wcmd THEN Words
                           ELSE IF d \in wrsp THEN 0 ELSE writer[d].left
      /\ reader'[d].left = IF d \in rcmd THEN Words
                           ELSE IF d \in rrsp THEN 0 ELSE reader[d].left
  BY <1>c DEF TypeOK, Idle
<1>1. CASE req_ready
  <2>1. Len(stream[d]) + reader[d].left = writer[d].left /\ writer[d].left = 0
    BY <1>1, <1>t DEF AtRequest, ToRead, ToWrite
  <2>3. Len(stream[d]) = 0 /\ reader[d].left = 0
    BY <2>1, <1>t
  <2>2. /\ ~write_started'[d] /\ ~read_started'[d] /\ writer'[d] = Idle
        /\ reader'[d].left = 0
    BY <1>1, <1>c, <1>w, <2>3
  <2> QED
    BY <2>3, <2>2, <1>c, <1>t DEF AtRequest, ToRead, ToWrite
<1>2. CASE ~req_ready
  <2>2. CASE ~valid
    <3>1. /\ ~read_started[d] /\ ~write_started[d]
          /\ d \notin wcmd /\ d \notin rcmd
          /\ writer[d] = Idle /\ reader[d].left = 0 /\ Len(stream[d]) = 0
      BY <2>2, <1>c, <1>t DEF AtRequest, ToRead, ToWrite
    <3>2. /\ ~read_started'[d] /\ ~write_started'[d]
          /\ writer'[d] = Idle /\ reader'[d].left = 0
      BY <3>1, <1>c, <1>w
    <3> QED
      BY <3>1, <3>2, <1>c, <1>t DEF AtRequest, ToRead, ToWrite
  <2>3. CASE valid
    <3>1. mux' = mux /\ valid'
      BY <2>3, <1>2, <1>c DEF valid
    <3>2. writer'[d] # Idle => writer'[d].buf = mux' /\ write_started'[d]
      <4>1. CASE d \in wcmd
        <5>1. writer'[d] = [buf |-> mux, left |-> Words]
          BY <4>1, <1>c
        <5>2. write_started'[d]
          BY <4>1, <1>c, Zenon
        <5> QED
          BY <5>1, <5>2, <3>1
      <4>2. CASE d \notin wcmd /\ d \in wrsp
        BY <4>2, <1>c
      <4>3. CASE d \notin wcmd /\ d \notin wrsp
        <5>1. writer'[d] = writer[d] /\ write_started'[d] = write_started[d]
          BY <4>3, <1>2, <1>c, <1>w
        <5> QED
          BY <5>1, <3>1 DEF AtRequest
      <4> QED
        BY <4>1, <4>2, <4>3
    <3>4. reader'[d].left > 0 => reader'[d].buf = mux' /\ read_started'[d]
      <4>1. CASE d \in rcmd
        <5>1. reader'[d] = [buf |-> mux, left |-> Words]
          BY <4>1, <1>c
        <5>2. read_started'[d]
          BY <4>1, <1>c, Zenon
        <5> QED
          BY <5>1, <5>2, <3>1
      <4>2. CASE d \notin rcmd /\ d \in rrsp
        BY <4>2, <1>w
      <4>3. CASE d \notin rcmd /\ d \notin rrsp
        <5>1. reader'[d] = reader[d] /\ read_started'[d] = read_started[d]
          BY <4>3, <1>2, <1>c, <1>w
        <5> QED
          BY <5>1, <3>1 DEF AtRequest
      <4> QED
        BY <4>1, <4>2, <4>3
    <3>3. ToRead(d)' = ToRead(d) /\ ToWrite(d)' = ToWrite(d)
      BY <1>2, <1>c, <1>w, <1>t DEF ToRead, ToWrite, AtRequest
    <3> QED
      BY <3>1, <3>2, <3>3, <3>4, <1>c DEF AtRequest
  <2> QED
    BY <2>2, <2>3
<1> QED
  BY <1>1, <1>2

(* The transfers stay matched through a cycle.                             *)
LEMMA ClockKeepsTransfers ==
  ASSUME TypeOK, TransfersMatch, Clock
  PROVE  TransfersMatch'
<1> USE DataMoverAssumption
<1>0. PICK wcmd, rcmd, wrsp, rrsp, w, b :
        ClockStep(wcmd, rcmd, wrsp, rrsp, w, b)
  BY ClockSteps
<1>f. "f2h" \in Dir /\ "h2f" \in Dir
  BY DEF Dir
<1>t. /\ reader["f2h"].left \in 0..Words /\ writer["f2h"].left \in 0..Words
      /\ writer["f2h"] = Idle => writer["f2h"].left = 0
      /\ Len(stream["f2h"]) \in Nat
      /\ \A d \in Dir : /\ write_started[d] \in BOOLEAN
                        /\ read_started[d] \in BOOLEAN
                        /\ complete[d] \in BOOLEAN
  BY <1>f, MasterTypes DEF TypeOK
<1>1. req_ready => /\ write_started["f2h"] /\ read_started["f2h"]
                   /\ writer["f2h"] = Idle /\ Written
  <2>1. req_ready => write_started["f2h"] /\ writer["f2h"] = Idle
    BY DEF req_ready, TransfersMatch
  <2>2. Len(stream["f2h"]) + ToRead("f2h") = ToWrite("f2h")
    BY DEF TransfersMatch, AtRequest
  <2>3. req_ready => read_started["f2h"]
    BY <2>1, <2>2, <1>t DEF ToRead, ToWrite
  <2> QED
    BY <2>1, <2>3, <1>t DEF Written
<1>2. AtRequest("f2h")'
  BY <1>0, <1>1, <1>f, ClockKeepsRequest DEF TransfersMatch
<1>3. complete'["f2h"] => write_started'["f2h"] /\ writer'["f2h"] = Idle
  <2>1. CASE "f2h" \in wrsp
    <3>1. writer["f2h"] # Idle
      BY <2>1, <1>0, <1>f, CycleOf
    <3>2. /\ write_started["f2h"] /\ ~complete["f2h"] /\ ~req_ready
          /\ "f2h" \notin wcmd
      BY <3>1, <1>0, <1>f, CycleOf DEF TransfersMatch, AtRequest, req_ready
    <3>3. writer'["f2h"] = Idle
      BY <3>2, <2>1, <1>0, <1>f, CycleOf
    <3>4. write_started'["f2h"]
      BY <3>2, <1>0, <1>f, CycleOf, Zenon
    <3> QED
      BY <3>3, <3>4
  <2>2. CASE "f2h" \notin wrsp
    <3>1. complete'["f2h"] => complete["f2h"] /\ ~req_ready
      BY <2>2, <1>0, <1>f, CycleOf, Zenon
    <3>2. complete["f2h"] => /\ write_started["f2h"] /\ writer["f2h"] = Idle
                             /\ "f2h" \notin wcmd
      BY <1>0, <1>f, CycleOf DEF TransfersMatch
    <3>3. complete'["f2h"] => writer'["f2h"] = Idle
      BY <3>1, <3>2, <2>2, <1>0, <1>f, CycleOf
    <3>4. complete'["f2h"] => write_started'["f2h"]
      BY <3>1, <3>2, <1>0, <1>f, CycleOf, Zenon
    <3> QED
      BY <3>3, <3>4
  <2> QED
    BY <2>1, <2>2
<1>4. prompt' => AtRequest("h2f")'
  <2> SUFFICES ASSUME prompt' PROVE AtRequest("h2f")'
    OBVIOUS
  <2>1. prompt
    BY <1>0, <1>f, CycleOf
  <2>2. req_ready => H2fIsDone
    BY <2>1, <1>1 DEF TransfersMatch
  <2>3. AtRequest("h2f")
    BY <2>1 DEF TransfersMatch
  <2> QED
    BY <2>2, <2>3, <1>0, <1>f, ClockKeepsRequest DEF H2fIsDone
<1>5. prompt' /\ Written' => H2fIsDone'
  <2> SUFFICES ASSUME prompt', Written' PROVE H2fIsDone'
    OBVIOUS
  <2>0. prompt
    BY <1>0, <1>f, CycleOf
  <2>1. "f2h" \notin wcmd
    <3>1. "f2h" \in wcmd => writer'["f2h"] = [buf |-> mux, left |-> Words]
      BY <1>0, <1>f, CycleOf
    <3> QED
      BY <3>1 DEF Written
  <2>2. write_started["f2h"] /\ ~req_ready
    <3>1. write_started'["f2h"]
      BY DEF Written
    <3> QED
      BY <3>1, <2>1, <1>0, <1>f, CycleOf, Zenon
  <2>3. writer["f2h"].left = 0
    <3>1. CASE "f2h" \in wrsp
      BY <3>1, <1>0, <1>f, CycleOf
    <3>2. CASE "f2h" \notin wrsp
      BY <3>2, <2>1, <1>0, <1>f, CycleOf DEF Written
    <3> QED
      BY <3>1, <3>2
  <2>4. H2fIsDone
    BY <2>0, <2>2, <2>3 DEF TransfersMatch, Written
  <2>5. /\ "h2f" \notin wcmd /\ "h2f" \notin rcmd
        /\ "h2f" \notin wrsp /\ "h2f" \notin rrsp
    BY <2>4, <1>0, <1>f, CycleOf DEF H2fIsDone
  <2>6. writer'["h2f"] = Idle /\ reader'["h2f"] = Idle
    BY <2>4, <2>5, <1>0, <1>f, CycleOf DEF H2fIsDone
  <2>7. write_started'["h2f"] /\ read_started'["h2f"]
    BY <2>2, <2>4, <1>0, <1>f, CycleOf, Zenon DEF H2fIsDone
  <2> QED
    BY <2>6, <2>7 DEF H2fIsDone
<1> QED
  BY <1>2, <1>3, <1>4, <1>5 DEF TransfersMatch

(* A master that moves a word has one word less to move.                   *)
LEMMA OneLess ==
  ASSUME NEW m, NEW m1, NEW d \in Dir,
         m \in [Dir -> Command], m[d].left > 0,
         m1 = [m EXCEPT ![d].left = @ - 1]
  PROVE  /\ m1 \in [Dir -> Command]
         /\ m1[d].left = m[d].left - 1 /\ m1[d].buf = m[d].buf
         /\ m[d].buf \in Buf /\ m[d] # Idle /\ m1[d] # Idle
         /\ \A e \in Dir \ {d} : m1[e] = m[e]
<1> USE DataMoverAssumption
<1>1. m[d] \in Command
  OBVIOUS
<1>2. m[d] \in [buf : Buf, left : 0..Words]
  BY <1>1 DEF Command, Idle
<1>3. m1[d] = [m[d] EXCEPT !.left = @ - 1]
  OBVIOUS
<1>4. m1[d] \in [buf : Buf, left : 0..Words]
  BY <1>2, <1>3
<1>5. m1[d].left = m[d].left - 1 /\ m1[d].buf = m[d].buf /\ m[d].buf \in Buf
  BY <1>2, <1>3
<1>6. m[d] # Idle /\ m1[d] # Idle
  BY <1>5 DEF Idle, Buf, Nothing
<1>7. m1 \in [Dir -> Command]
  BY <1>4 DEF Command
<1> QED
  BY <1>5, <1>6, <1>7

(* A word that is read or written keeps both masters at their request.     *)
LEMMA ReadKeepsRequest ==
  ASSUME TypeOK, NEW d \in Dir, ReadWord(d), NEW e \in Dir, AtRequest(e)
  PROVE  AtRequest(e)'
<1> USE DataMoverAssumption
<1>1. UNCHANGED <<mux, read_started, write_started, writer>>
  BY DEF ReadWord, dispatcher
<1>2. /\ reader'[d].left = reader[d].left - 1 /\ reader'[d].buf = reader[d].buf
      /\ \A x \in Dir \ {d} : reader'[x] = reader[x]
  BY OneLess DEF ReadWord, TypeOK
<1>3. /\ stream'[d] = Append(stream[d], reader[d].buf)
      /\ \A x \in Dir \ {d} : stream'[x] = stream[x]
  <2>1. stream' = [stream EXCEPT ![d] = Append(@, reader[d].buf)]
    BY DEF ReadWord
  <2>2. DOMAIN stream = Dir
    BY DEF TypeOK
  <2> QED
    BY <2>1, <2>2
<1>4. CASE e # d
  <2>1. reader'[e] = reader[e] /\ stream'[e] = stream[e]
    BY <1>2, <1>3, <1>4
  <2>2. ToRead(e)' = ToRead(e) /\ ToWrite(e)' = ToWrite(e)
    BY <2>1, <1>1 DEF ToRead, ToWrite
  <2> QED
    BY <2>1, <2>2, <1>1 DEF AtRequest, valid
<1>5. CASE e = d
  <2>1. /\ reader[d].left \in 0..Words /\ reader[d].left > 0
        /\ stream[d] \in Seq(Buf) /\ Len(stream[d]) \in Nat
    BY MasterTypes DEF ReadWord
  <2>2. reader[d].buf = mux /\ read_started[d]
    BY <2>1, <1>5 DEF AtRequest
  <2>3. /\ Len(stream'[d]) = Len(stream[d]) + 1
        /\ \A i \in 1..Len(stream'[d]) : stream'[d][i] = mux
    <3>1. mux \in Buf
      BY <2>2, OneLess DEF ReadWord, TypeOK
    <3> QED
      BY <3>1, <2>1, <2>2, <1>3, <1>5 DEF AtRequest
  <2>4. Len(stream'[d]) + ToRead(d)' = ToWrite(d)'
    <3>1. ToRead(d) = reader[d].left /\ ToRead(d)' = reader[d].left - 1
      BY <2>2, <1>1, <1>2 DEF ToRead
    <3>2. ToWrite(d)' = ToWrite(d)
      BY <1>1 DEF ToWrite
    <3>3. Len(stream[d]) + reader[d].left = ToWrite(d)
      BY <3>1, <1>5 DEF AtRequest
    <3>4. Len(stream'[d]) = Len(stream[d]) + 1
      BY <2>3
    <3> QED
      BY <3>1, <3>2, <3>3, <3>4, <2>1
  <2> QED
    BY <2>2, <2>3, <2>4, <1>1, <1>2, <1>5 DEF AtRequest, valid
<1> QED
  BY <1>4, <1>5

(* A word that is written leaves the accounting of its request right.      *)
LEMMA WriteKeepsRequest ==
  ASSUME TypeOK, NEW d \in Dir, WriteWord(d), NEW e \in Dir, AtRequest(e)
  PROVE  AtRequest(e)'
<1> USE DataMoverAssumption
<1>1. UNCHANGED <<mux, read_started, write_started, reader>>
  BY DEF WriteWord, dispatcher
<1>2. /\ writer'[d].left = writer[d].left - 1 /\ writer'[d].buf = writer[d].buf
      /\ writer[d] # Idle
      /\ \A x \in Dir \ {d} : writer'[x] = writer[x]
  <2>1. /\ writer[d].left > 0 /\ writer' = [writer EXCEPT ![d].left = @ - 1]
        /\ writer \in [Dir -> Command]
    BY DEF WriteWord, TypeOK
  <2> QED
    BY <2>1, OneLess
<1>3. /\ stream'[d] = Tail(stream[d])
      /\ \A x \in Dir \ {d} : stream'[x] = stream[x]
  <2>1. stream' = [stream EXCEPT ![d] = Tail(@)]
    BY DEF WriteWord
  <2>2. DOMAIN stream = Dir
    BY DEF TypeOK
  <2> QED
    BY <2>1, <2>2
<1>4. CASE e # d
  <2>1. writer'[e] = writer[e] /\ stream'[e] = stream[e]
    BY <1>2, <1>3, <1>4
  <2>2. ToRead(e)' = ToRead(e) /\ ToWrite(e)' = ToWrite(e)
    BY <2>1, <1>1 DEF ToRead, ToWrite
  <2> QED
    BY <2>1, <2>2, <1>1 DEF AtRequest, valid
<1>5. CASE e = d
  <2>1. /\ writer[d].left \in 0..Words /\ writer[d].left > 0
        /\ stream[d] \in Seq(Buf) /\ stream[d] # <<>> /\ Len(stream[d]) \in Nat
        /\ reader[d].left \in 0..Words
    BY MasterTypes DEF WriteWord
  <2>2. writer[d].buf = mux /\ write_started[d]
    BY <1>2, <1>5 DEF AtRequest
  <2>3. /\ Len(stream'[d]) = Len(stream[d]) - 1
        /\ \A i \in 1..Len(stream'[d]) : stream'[d][i] = stream[d][i + 1]
    BY <2>1, <1>3
  <2>4. \A i \in 1..Len(stream'[d]) : stream'[d][i] = mux
    BY <2>1, <2>3, <1>5 DEF AtRequest
  <2>5. Len(stream'[d]) + ToRead(d)' = ToWrite(d)'
    <3>1. ToWrite(d) = writer[d].left /\ ToWrite(d)' = writer[d].left - 1
      BY <2>2, <1>1, <1>2 DEF ToWrite
    <3>2. ToRead(d)' = ToRead(d)
      BY <1>1 DEF ToRead
    <3>3. Len(stream[d]) + ToRead(d) = writer[d].left
      BY <3>1, <1>5 DEF AtRequest
    <3>4. ToRead(d) \in Int
      BY <2>1 DEF ToRead
    <3> QED
      BY <3>1, <3>2, <3>3, <3>4, <2>1, <2>3
  <2> QED
    BY <2>2, <2>4, <2>5, <1>1, <1>2, <1>5 DEF AtRequest, valid
<1> QED
  BY <1>4, <1>5

(* Words that are moved keep the transfers matched; the last one of an f2h *)
(* transfer finds the h2f transfer done, or spoils prompt.                 *)
LEMMA ReadKeepsTransfers ==
  ASSUME TypeOK, TransfersMatch, NEW d \in Dir, ReadWord(d)
  PROVE  TransfersMatch'
<1>1. UNCHANGED <<mux, read_started, write_started, complete, writer, prompt>>
  BY DEF ReadWord, dispatcher
<1>2. "f2h" \in Dir /\ "h2f" \in Dir
  BY DEF Dir
<1>3. AtRequest("f2h")' /\ (prompt' => AtRequest("h2f")')
  BY <1>1, <1>2, ReadKeepsRequest DEF TransfersMatch
<1>4. H2fIsDone => H2fIsDone'
  <2>1. H2fIsDone => d # "h2f"
    <3>1. reader[d].left > 0 /\ (reader[d] = Idle => reader[d].left = 0)
      BY MasterTypes DEF ReadWord
    <3> QED
      BY <3>1 DEF H2fIsDone
  <2>2. d # "h2f" => reader'["h2f"] = reader["h2f"]
    BY <1>2, OneLess DEF ReadWord, TypeOK
  <2> QED
    BY <1>1, <2>1, <2>2 DEF H2fIsDone
<1> QED
  BY <1>1, <1>3, <1>4 DEF TransfersMatch, Written

(* So it does that of all transfers.                                       *)
LEMMA WriteKeepsTransfers ==
  ASSUME TypeOK, TransfersMatch, NEW d \in Dir, WriteWord(d)
  PROVE  TransfersMatch'
<1>1. UNCHANGED <<mux, read_started, write_started, complete, reader>>
  BY DEF WriteWord, dispatcher
<1>2. "f2h" \in Dir /\ "h2f" \in Dir
  BY DEF Dir
<1>3. prompt' = (prompt /\ (d = "f2h" /\ writer[d].left = 1 => H2fIsDone))
  BY DEF WriteWord
<1>4. AtRequest("f2h")' /\ (prompt' => AtRequest("h2f")')
  BY <1>1, <1>2, <1>3, WriteKeepsRequest DEF TransfersMatch
<1>5. /\ writer'[d].left = writer[d].left - 1
      /\ writer[d].left \in 0..Words /\ writer[d].left > 0 /\ writer[d] # Idle
      /\ \A x \in Dir \ {d} : writer'[x] = writer[x]
  <2>1. /\ writer[d].left > 0 /\ writer' = [writer EXCEPT ![d].left = @ - 1]
        /\ writer \in [Dir -> Command]
    BY DEF WriteWord, TypeOK
  <2> QED
    BY <2>1, OneLess, MasterTypes
<1>6. complete'["f2h"] => write_started'["f2h"] /\ writer'["f2h"] = Idle
  BY <1>1, <1>2, <1>5 DEF TransfersMatch
<1>7. prompt' /\ Written' => H2fIsDone'
  <2> SUFFICES ASSUME prompt', Written' PROVE H2fIsDone'
    OBVIOUS
  <2>1. H2fIsDone
    <3>1. CASE d = "f2h"
      <4>1. writer[d].left = 1
        BY <3>1, <1>5 DEF Written
      <4> QED
        BY <3>1, <4>1, <1>3
    <3>2. CASE d # "f2h"
      BY <3>2, <1>1, <1>2, <1>3, <1>5 DEF Written, TransfersMatch
    <3> QED
      BY <3>1, <3>2
  <2>2. d # "h2f"
    BY <2>1, <1>5 DEF H2fIsDone
  <2> QED
    BY <2>1, <2>2, <1>1, <1>2, <1>5 DEF H2fIsDone
<1> QED
  BY <1>4, <1>6, <1>7 DEF TransfersMatch

-----------------------------------------------------------------------------
(* The multiplexer and the issuers over a cycle: a request goes on to the  *)
(* next place or stays where it is.                                        *)
LEMMA ClockMovesRequest ==
  ASSUME TypeOK, TransfersMatch, Clock, NEW x \in Buf,
         ~(OnItsWay(x) /\ InIssuer(x)), ~(OnItsWay(x) /\ InDispatcher(x)),
         ~(InIssuer(x) /\ InDispatcher(x))
  PROVE  /\ Outstanding(x)' => Outstanding(x)
         /\ ~(OnItsWay(x) /\ InIssuer(x))' /\ ~(OnItsWay(x) /\ InDispatcher(x))'
         /\ ~(InIssuer(x) /\ InDispatcher(x))'
<1> USE DataMoverAssumption
<1>0. PICK wcmd, rcmd, wrsp, rrsp, w, b :
        ClockStep(wcmd, rcmd, wrsp, rrsp, w, b)
  BY ClockSteps
<1>x. x # Nothing /\ "f2h" \in Dir /\ mux \in {0, 1, 2} /\ x \in {0, 1}
  BY DEF Dir, Buf, Nothing, TypeOK
<1>w. (OnItsWay(x)' => OnItsWay(x) /\ w # x) /\ (w = x => OnItsWay(x))
  BY <1>0, <1>x DEF ClockStep, OnItsWay
<1>b. /\ b \in MuxChoices
      /\ mux' = IF MuxFree THEN b ELSE IF req_ready THEN Nothing ELSE mux
      /\ dma_request'[x] <=> \/ dma_request[x] /\ Accepted(b) # x
                             \/ ~dma_request[x] /\ w = x
  BY <1>0 DEF ClockStep, MuxNext, IssuersNext
<1>r. req_ready => valid /\ Written
  BY DEF req_ready, TransfersMatch, Written, Idle
<1>f. Written' => Written /\ ~req_ready
  <2> SUFFICES ASSUME Written' PROVE Written /\ ~req_ready
    OBVIOUS
  <2>1. "f2h" \notin wcmd
    <3>1. "f2h" \in wcmd => writer'["f2h"] = [buf |-> mux, left |-> Words]
      BY <1>0, <1>x, CycleOf
    <3> QED
      BY <3>1 DEF Written
  <2>2. write_started["f2h"] /\ ~req_ready
    <3>1. write_started'["f2h"]
      BY DEF Written
    <3> QED
      BY <3>1, <2>1, <1>0, <1>x, CycleOf, Zenon
  <2>3. writer["f2h"].left = 0
    <3>1. CASE "f2h" \in wrsp
      BY <3>1, <1>0, <1>x, CycleOf
    <3>2. CASE "f2h" \notin wrsp
      BY <3>2, <2>1, <1>0, <1>x, CycleOf DEF Written
    <3> QED
      BY <3>1, <3>2
  <2> QED
    BY <2>2, <2>3 DEF Written
<1>g. Written /\ ~req_ready => Written'
  <2> SUFFICES ASSUME Written, ~req_ready PROVE Written'
    OBVIOUS
  <2>1. "f2h" \notin wcmd
    BY <1>0, <1>x, CycleOf DEF Written
  <2>2. write_started'["f2h"]
    BY <2>1, <1>0, <1>x, CycleOf, Zenon DEF Written
  <2>3. writer'["f2h"].left = 0
    BY <2>1, <1>0, <1>x, CycleOf DEF Written, Idle
  <2> QED
    BY <2>2, <2>3 DEF Written
<1>v. Written => valid
  BY DEF Written, TransfersMatch, AtRequest
<1>d. InDispatcher(x)' => InDispatcher(x) \/ InIssuer(x)
  BY <1>b, <1>f, <1>g, <1>r, <1>v, <1>x
     DEF InDispatcher, InIssuer, MuxFree, MuxChoices, valid
<1>i. InIssuer(x)' => InIssuer(x) \/ OnItsWay(x)
  BY <1>b, <1>r, <1>w, <1>x
     DEF InIssuer, MuxFree, MuxChoices, Accepted, valid
<1>1. ~(OnItsWay(x) /\ InIssuer(x))'
  <2> SUFFICES ASSUME OnItsWay(x)', InIssuer(x)' PROVE FALSE
    OBVIOUS
  <2>1. OnItsWay(x) /\ w # x /\ ~InIssuer(x)
    BY <1>w
  <2>2. dma_request[x] /\ Accepted(b) # x
    BY <2>1, <1>b DEF InIssuer
  <2>3. ~MuxPipelined /\ mux = x
    BY <2>1, <2>2 DEF InIssuer
  <2>4. mux' # x
    BY <2>3 DEF InIssuer
  <2>5. req_ready
    BY <2>3, <2>4, <1>b, <1>x DEF MuxFree, valid
  <2> QED
    BY <2>2, <2>3, <2>5 DEF Accepted
<1>2. ~(OnItsWay(x) /\ InDispatcher(x))'
  BY <1>d, <1>w
<1>3. ~(InIssuer(x) /\ InDispatcher(x))'
  <2> SUFFICES ASSUME InIssuer(x)', InDispatcher(x)' PROVE FALSE
    OBVIOUS
  <2>1. MuxPipelined /\ mux' = x /\ ~Written'
    BY DEF InIssuer, InDispatcher
  <2>2. CASE MuxFree
    <3>1. b = x /\ dma_request[x] /\ Accepted(b) = x
      BY <2>1, <2>2, <1>b, <1>x DEF MuxChoices, Accepted
    <3> QED
      BY <3>1, <1>b DEF InIssuer
  <2>3. CASE ~MuxFree
    <3>1. ~req_ready /\ mux = x
      BY <2>1, <2>3, <1>b, <1>r DEF MuxFree
    <3>2. InDispatcher(x)
      BY <3>1, <2>1, <1>g DEF InDispatcher
    <3>3. InIssuer(x) \/ OnItsWay(x)
      BY <1>i
    <3> QED
      BY <3>2, <3>3
  <2> QED
    BY <2>2, <2>3
<1> QED
  BY <1>1, <1>2, <1>3, <1>d, <1>i, <1>w DEF Outstanding

(* Requests stay in one place each through a cycle.                        *)
LEMMA ClockKeepsRequests ==
  ASSUME TypeOK, TransfersMatch, RequestsOnce, Clock
  PROVE  RequestsOnce'
<1>1. UNCHANGED <<last_word, pc, buf>>
  BY DEF Clock, cpu
<1>2. ASSUME NEW x \in Buf
      PROVE  /\ Outstanding(x)' => Outstanding(x)
             /\ ~(OnItsWay(x) /\ InIssuer(x))'
             /\ ~(OnItsWay(x) /\ InDispatcher(x))'
             /\ ~(InIssuer(x) /\ InDispatcher(x))'
  BY ClockMovesRequest DEF RequestsOnce
<1>3. Asked' = Asked
  BY <1>1 DEF Asked
<1> QED
  BY <1>1, <1>2, <1>3 DEF RequestsOnce

(* With a register in the multiplexer no write finds its request pending.  *)
LEMMA ClockLosesNone ==
  ASSUME TypeOK, RequestsOnce, NoneLost, Clock
  PROVE  NoneLost'
<1>0. PICK wcmd, rcmd, wrsp, rrsp, w, b :
        ClockStep(wcmd, rcmd, wrsp, rrsp, w, b)
  BY ClockSteps
<1> SUFFICES ASSUME MuxPipelined, NEW x \in Buf
             PROVE  ~dma_request_overflow'[x]
  BY DEF NoneLost, NoOverflow
<1>1. dma_request_overflow'[x] <=>
        dma_request_overflow[x] \/ (w = x /\ dma_request[x])
  BY <1>0 DEF ClockStep, IssuersNext
<1>2. w = x => OnItsWay(x)
  BY <1>0 DEF ClockStep, OnItsWay, Buf, Nothing
<1>3. ~(OnItsWay(x) /\ dma_request[x])
  BY DEF RequestsOnce, InIssuer
<1> QED
  BY <1>1, <1>2, <1>3 DEF NoneLost, NoOverflow

(* The masters leave requests alone, but for the last word of an f2h       *)
(* transfer: it ends the request that the thread is waiting for.           *)
LEMMA ReadKeepsRequests ==
  ASSUME RequestsOnce, NoneLost, NEW d \in Dir, ReadWord(d)
  PROVE  RequestsOnce' /\ NoneLost'
<1>1. UNCHANGED <<dma_request, dma_request_overflow, mux, write_started, writer,
                  last_word, csr_write, pc, buf>>
  BY DEF ReadWord, issuers, dispatcher, cpu
<1> QED
  BY <1>1 DEF RequestsOnce, NoneLost, NoOverflow, Outstanding, OnItsWay, InIssuer,
              InDispatcher, Written, Asked

(* And each request stays in one place.                                    *)
LEMMA WriteKeepsRequests ==
  ASSUME TypeOK, TransfersMatch, RequestsOnce, NoneLost, NEW d \in Dir, WriteWord(d)
  PROVE  RequestsOnce' /\ NoneLost'
<1>1. UNCHANGED <<dma_request, dma_request_overflow, mux, write_started,
                  csr_write, pc, buf>>
  BY DEF WriteWord, issuers, dispatcher, cpu
<1>2. NoneLost'
  BY <1>1 DEF NoneLost, NoOverflow
<1>3. /\ writer'[d].left = writer[d].left - 1
      /\ writer[d].left \in 0..Words /\ writer[d].left > 0
      /\ writer[d] # Idle /\ writer[d].buf \in Buf
      /\ \A x \in Dir \ {d} : writer'[x] = writer[x]
  <2>1. /\ writer[d].left > 0 /\ writer' = [writer EXCEPT ![d].left = @ - 1]
        /\ writer \in [Dir -> Command]
    BY DEF WriteWord, TypeOK
  <2> QED
    BY <2>1, OneLess, MasterTypes
<1>4. \A x \in Buf : /\ OnItsWay(x)' = OnItsWay(x) /\ InIssuer(x)' = InIssuer(x)
  BY <1>1 DEF OnItsWay, InIssuer
<1>5. Asked' = Asked
  BY <1>1 DEF Asked
<1>6. CASE d = "f2h" /\ writer[d].left = 1
  <2>1. writer[d].buf = mux /\ write_started["f2h"]
    BY <1>3, <1>6 DEF TransfersMatch, AtRequest
  <2>2. mux \in Buf /\ InDispatcher(mux)
    BY <1>3, <1>6, <2>1 DEF InDispatcher, Written
  <2>3. last_word' = [last_word EXCEPT ![mux] = TRUE]
    BY <1>6, <2>1 DEF WriteWord
  <2>4. /\ \A x \in Buf \ {mux} : last_word'[x] = last_word[x]
    BY <2>3 DEF TypeOK
  <2>5. Written'
    BY <1>1, <1>3, <1>6, <2>1 DEF Written
  <2>6. \A x \in Buf : ~InDispatcher(x)'
    BY <2>5 DEF InDispatcher
  <2>7. mux \in Asked /\ ~OnItsWay(mux) /\ ~InIssuer(mux)
    BY <2>2 DEF RequestsOnce, Outstanding
  <2>8. \A x \in Buf : Outstanding(x)' => x # mux /\ Outstanding(x)
    BY <2>6, <2>7, <1>4 DEF Outstanding
  <2>9. /\ \A x \in Buf :
             /\ Outstanding(x)' => x \in Asked' /\ ~last_word'[x]
             /\ ~(OnItsWay(x) /\ InIssuer(x))'
             /\ ~(OnItsWay(x) /\ InDispatcher(x))'
             /\ ~(InIssuer(x) /\ InDispatcher(x))'
    BY <2>4, <2>6, <2>8, <1>4, <1>5 DEF RequestsOnce
  <2>10. /\ pc' = "kick_0" => ~last_word'[0] /\ ~last_word'[1]
         /\ pc' = "kick_1" => ~last_word'[1]
         /\ pc' = "request" => ~last_word'[buf']
    <3>1. /\ pc # "kick_0" /\ (pc = "kick_1" => mux = 0)
          /\ pc = "request" => mux # buf
      BY <2>7 DEF Asked
    <3>2. buf \in Buf /\ 0 \in Buf /\ 1 \in Buf
      BY DEF TypeOK, Buf
    <3> QED
      BY <3>1, <3>2, <2>4, <1>1 DEF RequestsOnce
  <2> QED
    BY <2>9, <2>10, <1>2 DEF RequestsOnce
<1>7. CASE ~(d = "f2h" /\ writer[d].left = 1)
  <2>1. last_word' = last_word
    BY <1>7 DEF WriteWord
  <2>2. Written' = Written
    <3>1. CASE d = "f2h"
      BY <3>1, <1>1, <1>3, <1>7 DEF Written
    <3>2. CASE d # "f2h"
      BY <3>2, <1>1, <1>3 DEF Written, Dir
    <3> QED
      BY <3>1, <3>2
  <2>3. \A x \in Buf : InDispatcher(x)' = InDispatcher(x)
    BY <2>2, <1>1 DEF InDispatcher
  <2>4. \A x \in Buf : Outstanding(x)' = Outstanding(x)
    BY <2>3, <1>4 DEF Outstanding
  <2> QED
    BY <2>1, <2>3, <2>4, <1>1, <1>2, <1>4, <1>5 DEF RequestsOnce
<1> QED
  BY <1>6, <1>7

(* The thread asks for a buffer only if it has it back, and takes it only  *)
(* when its data is there.                                                 *)
LEMMA CpuKeepsRequests ==
  ASSUME TypeOK, RequestsOnce, NoneLost, Cpu
  PROVE  RequestsOnce' /\ NoneLost'
<1>1. UNCHANGED <<dma_request, mux, write_started, writer>>
  BY DEF Cpu, CpuStarts, CpuKicks, CpuSeesData, CpuProcesses, CpuClears,
         CpuRequests, CpuLoops, CpuExits, CpuRestarts, hardware, issuers,
         dispatcher, masters
<1>2. NoneLost'
  <2>1. \/ UNCHANGED dma_request_overflow
        \/ dma_request_overflow' = [b \in Buf |-> FALSE]
    BY DEF Cpu, CpuStarts, CpuKicks, CpuSeesData, CpuProcesses, CpuClears,
           CpuRequests, CpuLoops, CpuExits, CpuRestarts, hardware, issuers
  <2> QED
    BY <2>1 DEF NoneLost, NoOverflow
<1>3. \A x \in Buf : InIssuer(x)' = InIssuer(x) /\ InDispatcher(x)' = InDispatcher(x)
  BY <1>1 DEF InIssuer, InDispatcher, Written
<1>b. buf \in Buf /\ Buf = {0, 1} /\ Nothing \notin Buf
  BY DEF TypeOK, Buf, Nothing
<1>4. CASE UNCHANGED csr_write
  <2>1. \A x \in Buf : OnItsWay(x)' = OnItsWay(x) /\ Outstanding(x)' = Outstanding(x)
    BY <1>3, <1>4 DEF OnItsWay, Outstanding
  <2>2. CASE CpuStarts
    BY <2>1, <2>2, <1>2, <1>3, <1>b DEF CpuStarts, RequestsOnce, Asked
  <2>3. CASE CpuSeesData
    BY <2>1, <2>3, <1>2, <1>3, <1>b DEF CpuSeesData, RequestsOnce, Asked
  <2>4. CASE CpuProcesses
    BY <2>1, <2>4, <1>2, <1>3, <1>b DEF CpuProcesses, RequestsOnce, Asked
  <2>5. CASE CpuClears
    <3>1. last_word'[buf] = FALSE /\ \A x \in Buf \ {buf} : last_word'[x] = last_word[x]
      BY <2>5, <1>b DEF CpuClears, TypeOK
    <3> QED
      BY <3>1, <2>1, <2>5, <1>2, <1>3, <1>b DEF CpuClears, RequestsOnce, Asked
  <2>6. CASE CpuLoops
    BY <2>1, <2>6, <1>2, <1>3, <1>b DEF CpuLoops, RequestsOnce, Asked
  <2>7. CASE CpuExits
    BY <2>1, <2>7, <1>2, <1>3, <1>b DEF CpuExits, RequestsOnce, Asked
  <2>8. CASE CpuRestarts
    BY <2>1, <2>8, <1>2, <1>3, <1>b DEF CpuRestarts, RequestsOnce, Asked
  <2>9. ~CpuKicks(0) /\ ~CpuKicks(1) /\ ~CpuRequests
    BY <1>4, <1>b DEF CpuKicks, CpuRequests, Buf, Nothing
  <2> QED
    BY <2>2, <2>3, <2>4, <2>5, <2>6, <2>7, <2>8, <2>9 DEF Cpu
<1>5. ASSUME NEW b \in Buf, csr_write' = b, csr_write = Nothing,
             b \notin Asked, ~last_word[b], Asked' = Asked \cup {b},
             UNCHANGED last_word,
             pc' # "kick_0", pc' = "kick_1" => b = 0 /\ ~last_word[1], pc' # "request"
      PROVE  RequestsOnce'
  <2>1. \A x \in Buf : OnItsWay(x)' = (x = b)
    BY <1>5 DEF OnItsWay
  <2>2. ~InIssuer(b) /\ ~InDispatcher(b)
    BY <1>5 DEF RequestsOnce, Outstanding
  <2>3. \A x \in Buf : Outstanding(x)' => x = b \/ Outstanding(x)
    BY <2>1, <1>3 DEF Outstanding
  <2> QED
    BY <2>1, <2>2, <2>3, <1>3, <1>5 DEF RequestsOnce
<1>6. CASE CpuKicks(0)
  BY <1>5, <1>6, <1>2, <1>b DEF CpuKicks, RequestsOnce, Asked
<1>7. CASE CpuKicks(1)
  BY <1>5, <1>7, <1>2, <1>b DEF CpuKicks, RequestsOnce, Asked
<1>8. CASE CpuRequests
  BY <1>5, <1>8, <1>2, <1>b DEF CpuRequests, RequestsOnce, Asked
<1>9. \/ CpuKicks(0) \/ CpuKicks(1) \/ CpuRequests \/ UNCHANGED csr_write
  BY DEF Cpu, CpuStarts, CpuSeesData, CpuProcesses, CpuClears,
         CpuLoops, CpuExits, CpuRestarts, hardware
<1> QED
  BY <1>4, <1>6, <1>7, <1>8, <1>9

-----------------------------------------------------------------------------
(* The types are kept.                                                     *)
LEMMA ClockKeepsTypes ==
  ASSUME TypeOK, Clock
  PROVE  TypeOK'
<1> USE DataMoverAssumption
<1>0. PICK wcmd, rcmd, wrsp, rrsp, w, b :
        ClockStep(wcmd, rcmd, wrsp, rrsp, w, b)
  BY ClockSteps
<1>1. mux' \in Buf \cup {Nothing}
  BY <1>0 DEF ClockStep, MuxNext, MuxChoices, TypeOK
<1>2. /\ write_started' \in [Dir -> BOOLEAN] /\ read_started' \in [Dir -> BOOLEAN]
      /\ complete' \in [Dir -> BOOLEAN]
  BY <1>0 DEF ClockStep, DispatcherNext
<1>3. dma_request' \in [Buf -> BOOLEAN] /\ dma_request_overflow' \in [Buf -> BOOLEAN]
  BY <1>0 DEF ClockStep, IssuersNext
<1>4. /\ wcmd # {} \/ rcmd # {} => mux \in Buf
      /\ wcmd \subseteq Dir /\ rcmd \subseteq Dir
  BY <1>0 DEF ClockStep, write_cmd_valid, read_cmd_valid, valid, TypeOK
<1>5. mux \in Buf => [buf |-> mux, left |-> Words] \in Command
  BY DEF Command
<1>6. Idle \in Command
  BY DEF Command
<1>7. writer' \in [Dir -> Command] /\ reader' \in [Dir -> Command]
  <2>1. /\ writer' = [d \in Dir |-> IF d \in wcmd THEN [buf |-> mux, left |-> Words]
                                    ELSE IF d \in wrsp THEN Idle ELSE writer[d]]
        /\ reader' = [d \in Dir |-> IF d \in rcmd THEN [buf |-> mux, left |-> Words]
                                    ELSE IF d \in rrsp THEN Idle ELSE reader[d]]
    BY <1>0 DEF ClockStep, MastersNext
  <2>2. \A d \in Dir : writer[d] \in Command /\ reader[d] \in Command
    BY DEF TypeOK
  <2>3. \A d \in Dir : d \in wcmd \/ d \in rcmd => [buf |-> mux, left |-> Words] \in Command
    BY <1>4, <1>5
  <2> QED
    BY <2>1, <2>2, <2>3, <1>6
<1>8. csr_write' \in Buf \cup {Nothing}
  BY <1>0 DEF ClockStep, TypeOK
<1>9. UNCHANGED <<stream, last_word, pc, buf, prompt>>
  BY <1>0 DEF ClockStep, cpu
<1> QED
  BY <1>1, <1>2, <1>3, <1>7, <1>8, <1>9 DEF TypeOK

(* The masters keep the types ...                                          *)
LEMMA MastersKeepTypes ==
  ASSUME TypeOK, NEW d \in Dir, ReadWord(d) \/ WriteWord(d)
  PROVE  TypeOK'
<1> USE DataMoverAssumption
<1>0. stream[d] \in Seq(Buf) /\ Len(stream[d]) \in Nat /\ Len(stream[d]) <= FifoDepth
  BY DEF TypeOK
<1>1. CASE ReadWord(d)
  <2>1. /\ reader[d].left > 0 /\ reader' = [reader EXCEPT ![d].left = @ - 1]
        /\ reader \in [Dir -> Command] /\ Len(stream[d]) < FifoDepth
        /\ stream' = [stream EXCEPT ![d] = Append(@, reader[d].buf)]
    BY <1>1 DEF ReadWord, TypeOK
  <2>2. reader' \in [Dir -> Command] /\ reader[d].buf \in Buf
    BY <2>1, OneLess
  <2>3. /\ Append(stream[d], reader[d].buf) \in Seq(Buf)
        /\ Len(Append(stream[d], reader[d].buf)) <= FifoDepth
    BY <2>1, <2>2, <1>0
  <2>4. stream' \in [Dir -> Seq(Buf)] /\ \A e \in Dir : Len(stream'[e]) <= FifoDepth
    BY <2>1, <2>3 DEF TypeOK
  <2> QED
    BY <2>2, <2>4, <1>1 DEF ReadWord, TypeOK, issuers, dispatcher, cpu
<1>2. CASE WriteWord(d)
  <2>1. /\ writer[d].left > 0 /\ writer' = [writer EXCEPT ![d].left = @ - 1]
        /\ writer \in [Dir -> Command] /\ stream[d] # <<>>
        /\ stream' = [stream EXCEPT ![d] = Tail(@)]
    BY <1>2 DEF WriteWord, TypeOK
  <2>2. writer' \in [Dir -> Command]
    BY <2>1, OneLess
  <2>3. Tail(stream[d]) \in Seq(Buf) /\ Len(Tail(stream[d])) <= FifoDepth
    BY <2>1, <1>0
  <2>4. stream' \in [Dir -> Seq(Buf)] /\ \A e \in Dir : Len(stream'[e]) <= FifoDepth
    BY <2>1, <2>3 DEF TypeOK
  <2>5. last_word' \in [Buf -> BOOLEAN]
    BY <1>2 DEF WriteWord, TypeOK
  <2>6. prompt' \in BOOLEAN
    BY <1>2 DEF WriteWord
  <2> QED
    BY <2>2, <2>4, <2>5, <2>6, <1>2 DEF WriteWord, TypeOK, issuers, dispatcher, cpu
<1> QED
  BY <1>1, <1>2

(* ... and so does the CPU.                                                *)
LEMMA CpuKeepsTypes ==
  ASSUME TypeOK, Cpu
  PROVE  TypeOK'
<1> USE DEF TypeOK, hardware, issuers, dispatcher, masters
<1>0. 0 \in Buf /\ 1 \in Buf /\ 1 - buf \in Buf
  BY DEF Buf
<1>1. CASE CpuStarts
  BY <1>0, <1>1 DEF CpuStarts
<1>2. CASE CpuKicks(0)
  BY <1>0, <1>2 DEF CpuKicks
<1>3. CASE CpuKicks(1)
  BY <1>0, <1>3 DEF CpuKicks
<1>4. CASE CpuSeesData
  BY <1>0, <1>4 DEF CpuSeesData
<1>5. CASE CpuProcesses
  BY <1>0, <1>5 DEF CpuProcesses
<1>6. CASE CpuClears
  BY <1>0, <1>6 DEF CpuClears
<1>7. CASE CpuRequests
  BY <1>0, <1>7 DEF CpuRequests
<1>8. CASE CpuLoops
  BY <1>0, <1>8 DEF CpuLoops
<1>9. CASE CpuExits
  BY <1>0, <1>9 DEF CpuExits
<1>10. CASE CpuRestarts
  BY <1>0, <1>10 DEF CpuRestarts
<1> QED
  BY <1>1, <1>2, <1>3, <1>4, <1>5, <1>6, <1>7, <1>8, <1>9, <1>10
     DEF Cpu

(* The inductive invariant of the data mover: where the request of each    *)
(* buffer is, and that the masters work for the request at the dispatcher. *)
THEOREM MoverInvariance == Spec => []MoverInv
<1> USE DataMoverAssumption
<1>1. Init => MoverInv
  <2> SUFFICES ASSUME Init PROVE MoverInv
    OBVIOUS
  <2>1. <<>> \in Seq(Buf) /\ Len(<<>>) = 0
    OBVIOUS
  <2>2. Idle \in Command /\ Idle.left = 0
    BY DEF Command, Idle
  <2>3. TypeOK
    BY <2>1, <2>2 DEF Init, TypeOK, Buf
  <2>4. \A d \in Dir : AtRequest(d)
    BY <2>1, <2>2 DEF Init, AtRequest, ToRead, ToWrite
  <2>5. TransfersMatch
    BY <2>4 DEF Init, TransfersMatch, Written, Dir
  <2>6. RequestsOnce /\ NoneLost
    BY DEF Init, RequestsOnce, NoneLost, NoOverflow, Outstanding, OnItsWay,
           InIssuer, InDispatcher, Buf, Nothing
  <2> QED
    BY <2>3, <2>5, <2>6 DEF MoverInv
<1>2. MoverInv /\ [Next]_vars => MoverInv'
  <2> SUFFICES ASSUME MoverInv, [Next]_vars PROVE MoverInv'
    OBVIOUS
  <2> USE DEF MoverInv
  <2>1. CASE Clock
    BY <2>1, ClockKeepsTypes, ClockKeepsTransfers, ClockKeepsRequests,
       ClockLosesNone
  <2>2. ASSUME NEW d \in Dir, ReadWord(d)
        PROVE  MoverInv'
    BY <2>2, MastersKeepTypes, ReadKeepsTransfers, ReadKeepsRequests
  <2>3. ASSUME NEW d \in Dir, WriteWord(d)
        PROVE  MoverInv'
    BY <2>3, MastersKeepTypes, WriteKeepsTransfers, WriteKeepsRequests
  <2>4. CASE Cpu
    <3>1. UNCHANGED <<mux, dispatcher, masters>>
      BY <2>4 DEF Cpu, CpuStarts, CpuKicks, CpuSeesData, CpuProcesses, CpuClears,
             CpuRequests, CpuLoops, CpuExits, CpuRestarts, hardware
    <3>2. TransfersMatch'
      BY <3>1 DEF TransfersMatch, AtRequest, ToRead, ToWrite, Written, H2fIsDone,
                  valid, dispatcher, masters
    <3> QED
      BY <3>2, <2>4, CpuKeepsTypes, CpuKeepsRequests
  <2>5. CASE UNCHANGED vars
    BY <2>5 DEF vars, issuers, dispatcher, masters, cpu, TypeOK, TransfersMatch,
                AtRequest, ToRead, ToWrite, Written, H2fIsDone, valid,
                RequestsOnce, NoneLost, NoOverflow, Outstanding, OnItsWay,
                InIssuer, InDispatcher, Asked
  <2> QED
    BY <2>1, <2>2, <2>3, <2>4, <2>5 DEF Next, Masters
<1> QED
  BY <1>1, <1>2, PTL DEF Spec

(* The buffer that the thread works on is not written to and has not been  *)
(* asked for, whatever the masters' pace.                                  *)
THEOREM BuffersAreStable == Spec => []BufferStable
<1>1. MoverInv => BufferStable
  <2> SUFFICES ASSUME MoverInv, pc \in {"process", "clear"}
               PROVE  /\ ~(writer["f2h"].buf = buf /\ writer["f2h"].left > 0)
                      /\ csr_write # buf
                      /\ MuxPipelined => ~dma_request[buf]
    BY DEF BufferStable
  <2>1. buf \in Buf /\ ~Outstanding(buf)
    BY DEF MoverInv, TypeOK, RequestsOnce, Asked
  <2>2. csr_write # buf /\ (MuxPipelined => ~dma_request[buf])
    BY <2>1 DEF Outstanding, OnItsWay, InIssuer
  <2>3. ASSUME writer["f2h"].left > 0, writer["f2h"].buf = buf
        PROVE  FALSE
    <3>1. writer["f2h"] # Idle
      BY <2>3 DEF Idle
    <3>2. InDispatcher(buf)
      BY <2>3, <3>1 DEF MoverInv, TransfersMatch, AtRequest, InDispatcher, Written
    <3> QED
      BY <3>2, <2>1 DEF Outstanding
  <2> QED
    BY <2>2, <2>3
<1> QED
  BY <1>1, MoverInvariance, PTL

(* The words of a stream are those of the transfer that takes them: always *)
(* for f2h, and for h2f as long as no transfer has lagged behind.          *)
THEOREM StreamsAreAligned == Spec => []Aligned
<1> USE DataMoverAssumption
<1>1. MoverInv => Aligned
  <2> SUFFICES ASSUME MoverInv PROVE Aligned
    OBVIOUS
  <2>1. "f2h" \in Dir /\ "h2f" \in Dir
    BY DEF Dir
  <2>t. \A d \in Dir :
          /\ reader[d].left \in 0..Words /\ writer[d].left \in 0..Words
          /\ reader[d] = Idle => reader[d].left = 0
          /\ writer[d] = Idle => writer[d].left = 0
          /\ stream[d] \in Seq(Buf) /\ Len(stream[d]) \in Nat
    BY MasterTypes DEF MoverInv
  <2>2. complete["f2h"] => /\ write_started["f2h"] /\ read_started["f2h"]
                           /\ stream["f2h"] = <<>> /\ reader["f2h"].left = 0
    <3> SUFFICES ASSUME complete["f2h"]
                 PROVE  /\ read_started["f2h"] /\ stream["f2h"] = <<>>
                        /\ reader["f2h"].left = 0 /\ write_started["f2h"]
      OBVIOUS
    <3>1. write_started["f2h"] /\ writer["f2h"] = Idle
      BY DEF MoverInv, TransfersMatch
    <3>2. Len(stream["f2h"]) + ToRead("f2h") = 0
      BY <3>1, <2>1, <2>t DEF MoverInv, TransfersMatch, AtRequest, ToWrite
    <3>3. read_started["f2h"]
      BY <3>2, <2>1, <2>t DEF ToRead
    <3>4. Len(stream["f2h"]) = 0 /\ reader["f2h"].left = 0
      BY <3>2, <3>3, <2>1, <2>t DEF ToRead
    <3>5. stream["f2h"] = <<>>
      BY <3>4, <2>1, <2>t
    <3> QED
      BY <3>1, <3>3, <3>4, <3>5
  <2>3. writer["f2h"] # Idle => ~complete["f2h"]
    BY DEF MoverInv, TransfersMatch
  <2>4. F2hInv
    <3>1. /\ writer["f2h"] # Idle => mux = writer["f2h"].buf /\ write_started["f2h"]
          /\ read_started["f2h"] \/ write_started["f2h"] => valid
      BY DEF MoverInv, TransfersMatch, AtRequest
    <3> QED
      BY <2>2, <2>3, <3>1 DEF F2hInv, MoverInv
  <2>5. ASSUME NEW d \in Dir, writer[d].left > 0, stream[d] # <<>>,
               d = "h2f" => prompt
        PROVE  Head(stream[d]) = writer[d].buf
    <3>1. AtRequest(d)
      BY <2>5 DEF MoverInv, TransfersMatch, Dir
    <3>2. writer[d].buf = mux
      BY <3>1, <2>5, <2>t DEF AtRequest
    <3>3. Head(stream[d]) = stream[d][1] /\ 1 \in 1..Len(stream[d])
      BY <2>5, <2>t
    <3> QED
      BY <3>1, <3>2, <3>3 DEF AtRequest
  <2> QED
    BY <2>4, <2>5 DEF Aligned
<1> QED
  BY <1>1, MoverInvariance, PTL

(* Behind a multiplexer with a register no request is lost: when the       *)
(* thread has a buffer's data, the issuer has been free for its next       *)
(* request since the dispatcher took the last one.                         *)
THEOREM RequestsAreNotLost ==
  ASSUME MuxPipelined
  PROVE  Spec => []NoOverflow
<1>1. MoverInv => NoOverflow
  BY DEF MoverInv, NoneLost
<1> QED
  BY <1>1, MoverInvariance, PTL

(* As long as no h2f transfer has lagged behind, the thread's output       *)
(* buffer is not read while it is written, and all is at rest when the     *)
(* thread exits.                                                           *)
THEOREM OutputsAreStable == Spec => []OutputStable
<1> USE DataMoverAssumption
<1>1. MoverInv => OutputStable
  <2> SUFFICES ASSUME MoverInv, prompt PROVE OutputStable
    BY DEF OutputStable
  <2>1. "f2h" \in Dir /\ "h2f" \in Dir
    BY DEF Dir
  <2>t. \A d \in Dir :
          /\ reader[d].left \in 0..Words /\ writer[d].left \in 0..Words
          /\ reader[d] = Idle => reader[d].left = 0
          /\ writer[d] = Idle => writer[d].left = 0
          /\ reader[d] # Idle => reader[d].buf \in Buf
          /\ Len(stream[d]) \in Nat
    BY MasterTypes DEF MoverInv
  <2>2. AtRequest("f2h") /\ AtRequest("h2f") /\ (Written => H2fIsDone)
    BY DEF MoverInv, TransfersMatch
  <2>3. ASSUME pc = "process", reader["h2f"].buf = buf, reader["h2f"].left > 0
        PROVE  FALSE
    <3>1. mux = buf
      BY <2>2, <2>3 DEF AtRequest
    <3>2. ~Written
      BY <2>1, <2>2, <2>3, <2>t DEF H2fIsDone
    <3>3. ~Outstanding(buf)
      BY <2>3 DEF MoverInv, TypeOK, RequestsOnce, Asked
    <3> QED
      BY <3>1, <3>2, <3>3 DEF Outstanding, InDispatcher
  <2>4. ASSUME pc = "exit", NEW d \in Dir
        PROVE  writer[d].left = 0 /\ reader[d].left = 0
    <3>1. \A b \in Buf : ~InDispatcher(b)
      BY <2>4 DEF MoverInv, RequestsOnce, Asked, Outstanding
    <3>2. ~valid \/ Written
      BY <3>1 DEF InDispatcher, valid, MoverInv, TypeOK
    <3>3. CASE ~valid
      <4>1. AtRequest(d)
        BY <2>2 DEF Dir
      <4> QED
        BY <4>1, <3>3, <2>t DEF AtRequest
    <3>4. CASE Written
      <4>1. d = "h2f" => writer[d].left = 0 /\ reader[d].left = 0
        BY <3>4, <2>1, <2>2, <2>t DEF H2fIsDone
      <4>2. writer["f2h"].left = 0 /\ write_started["f2h"]
        BY <3>4 DEF Written
      <4>3. Len(stream["f2h"]) + ToRead("f2h") = 0
        BY <4>2, <2>2 DEF AtRequest, ToWrite
      <4>4. reader["f2h"].left = 0
        BY <4>3, <2>1, <2>t DEF ToRead
      <4> QED
        BY <4>1, <4>2, <4>4 DEF Dir
    <3> QED
      BY <3>2, <3>3, <3>4
  <2> QED
    BY <2>3, <2>4 DEF OutputStable
<1> QED
  BY <1>1, MoverInvariance, PTL
=============================================================================
