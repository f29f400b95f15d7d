-------------------------- MODULE DescriptorQueue --------------------------
(***************************************************************************)
(* What the dispatcher promises the host about descriptors.  Descriptors   *)
(* that are accepted wait in a queue in front of each master; each master  *)
(* is given them in the order in which they were accepted, each once and   *)
(* unchanged.  A parked descriptor is given again and again as long as it  *)
(* is the only one.  A software reset drops what waits.                    *)
(***************************************************************************)
EXTENDS Integers, Sequences

CONSTANTS
  Masters,      \* the masters that are given the descriptors
  Descriptors,  \* what the host may write: records with a field park
  Depth         \* of the queues

VARIABLES
  waiting,      \* waiting[m]: the descriptors that master m has yet to get
  command       \* command[m]: the descriptor that master m was given last

vars == <<waiting, command>>

Init == /\ waiting = [m \in Masters |-> <<>>]
        /\ command \in [Masters -> Descriptors]

Rest(queue) == IF Len(queue) = 1 /\ Head(queue).park THEN queue ELSE Tail(queue)

(* A clock cycle: the masters in served are given their next descriptors   *)
(* and a descriptor may be accepted, if there is room for it everywhere.   *)
Serve(served, accepted) ==
  /\ \A m \in served : waiting[m] # <<>>
  /\ accepted # <<>> => \A m \in Masters : Len(waiting[m]) < Depth
  /\ waiting' = [m \in Masters |->
       (IF m \in served THEN Rest(waiting[m]) ELSE waiting[m]) \o accepted]
  /\ command' = [m \in Masters |->
       IF m \in served THEN Head(waiting[m]) ELSE command[m]]

Reset == /\ waiting' = [m \in Masters |-> <<>>]
         /\ UNCHANGED command

Next == \/ \E served \in SUBSET Masters,
              accepted \in {<<>>} \cup {<<d>> : d \in Descriptors} :
             Serve(served, accepted)
        \/ Reset

Spec == Init /\ [][Next]_vars

=============================================================================
