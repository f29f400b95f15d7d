----------------------------- MODULE WordStream -----------------------------
(***************************************************************************)
(* What a read master promises the stream that it feeds.  A command names  *)
(* words of the memory.  Each of them is read once, in order and behind    *)
(* those of the commands before it, kept in a buffer that has room for it, *)
(* and given to the stream.  The next command is taken when the last one   *)
(* has been answered, and that is when its words have been read, unless    *)
(* the command allows to answer it early.  Only a reset cuts off words,    *)
(* and only the last ones.                                                 *)
(***************************************************************************)
EXTENDS Integers, Sequences

CONSTANTS
  Capacity,   \* words that the buffer takes
  Commands    \* the sequences of words that may be asked for

VARIABLES
  buffered,   \* words that have been read
  unread,     \* words that have yet to be read
  open,       \* a command has not been answered
  early,      \* it may be answered before its words have been read
  resetting

vars == <<buffered, unread, open, early, resetting>>

Init == /\ buffered = <<>> /\ unread = <<>>
        /\ open = FALSE /\ early = FALSE /\ resetting = FALSE

Prefixes(s) == {SubSeq(s, 1, n) : n \in 0..Len(s)}

(* A clock cycle: the stream takes a word, a word is read, the rest is cut *)
(* off, and a command is answered or taken.                                *)
Cycle(takes, reads, asked) ==
  /\ takes => buffered # <<>>
  /\ reads => unread # <<>> /\ Len(buffered) < Capacity
  /\ buffered' = (IF takes THEN Tail(buffered) ELSE buffered)
                   \o (IF reads THEN <<Head(unread)>> ELSE <<>>)
  /\ LET rest == IF reads THEN Tail(unread) ELSE unread
     IN \/ unread' = rest \o asked
        \/ resetting /\ unread' \in Prefixes(rest \o asked)
  /\ IF asked # <<>> THEN ~open /\ open'
                     ELSE (open' => open) /\ early' = early
  /\ open' \in BOOLEAN /\ early' \in BOOLEAN
  /\ open /\ ~open' => early \/ unread = <<>>
  /\ resetting' \in BOOLEAN

Next == \E takes, reads \in BOOLEAN, asked \in Commands \cup {<<>>} :
          Cycle(takes, reads, asked)

Spec == Init /\ [][Next]_vars
=============================================================================
