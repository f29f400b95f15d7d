--------------------------- MODULE MCStatsHandoff ---------------------------
(* StatsHandoff with two tests, so that the second starts with the buffers  *)
(* or, in a new process, with the files that the first has left; and what   *)
(* TickStatistics makes of the samples, against a sort of all of them.      *)
EXTENDS StatsHandoff, TickStatistics

K == INSTANCE SequencesExt

Samples == UNION {[1..n -> Tick] : n \in 0..4}

(* The five largest and smallest are the first five of the sorted samples.  *)
Evaluation(s) == K!FoldLeft(Evaluated, NoStatistics, s)

ASSUME EvaluationSorts ==
  \A s \in Samples :
    LET rising == K!SetToSortSeq({<<s[i], i>> : i \in DOMAIN s},
                    LAMBDA a, b : a[1] < b[1] \/ (a[1] = b[1] /\ a[2] < b[2]))
        n == Len(s)
    IN Evaluation(s) =
         [largest |-> [k \in Rank |-> IF k > n THEN 0 ELSE rising[n + 1 - k][1]],
          smallest |-> [k \in Rank |-> IF k > n THEN Modulus - 1
                                                ELSE rising[k][1]]]

(* The stamps of a timer that has come round are as far apart as they say.  *)
ASSUME TicksAreShown ==
  \A first_part, last_part \in [1..3 -> Tick] :
    \A i \in 1..2 :
      /\ (first_part[i] + ProcessingTicks(first_part, last_part)[i]) % Modulus
           = last_part[i]
      /\ (last_part[i] + ReadyTicks(first_part, last_part)[i]) % Modulus
           = first_part[i + 1]
=============================================================================
