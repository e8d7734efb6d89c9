------------------------------- MODULE Queue -------------------------------
(***************************************************************************)
(* The order in which both repositories hand out pending usage records.    *)
(***************************************************************************)
EXTENDS Naturals, SequencesExt

(* The first of a set of records in the order of their ids, up to a limit:
   exactly one sequence. *)
Oldest(pending, limit) ==
    {queue \in BoundedSeq(pending, limit) :
        /\ \A i, j \in DOMAIN queue : i < j => queue[i] < queue[j]
        /\ \A u \in pending \ ToSet(queue) :
              Len(queue) = limit /\ \A i \in DOMAIN queue : queue[i] < u}
=============================================================================
