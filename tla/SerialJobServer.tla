--------------------------- MODULE SerialJobServer ---------------------------
(***************************************************************************)
(* PosixJobServer under the one restriction its code does not enforce: in  *)
(* a make, no worker is in ReleaseJob while another is in ReleaseJob too   *)
(* or between the failed compare-exchange of TakeNewJob and its increment. *)
(* Two takes may still overlap, and different makes are not restricted at  *)
(* all.  Under it the operations do what JobSlots promises; PosixJobServer *)
(* without it shows what the overlaps break.                               *)
(***************************************************************************)
EXTENDS PosixJobServer

NoOverlap ==
  \A t, u \in Threads :
    t # u /\ ProcOf[t] = ProcOf[u] /\ pc[t] \in Releasing
      => pc[u] \notin Releasing \cup Taking

SerialNext == Next /\ NoOverlap'

SerialSpec == Init /\ [][SerialNext]_vars

-----------------------------------------------------------------------------
(* The workers whose job is paid for: by the free slot, or by a byte that  *)
(* is not yet written back.                                                *)
Paid == {"job", "zero?", "many?", "empty?", "top", "write"}
Running == {t \in Threads : pc[t] \in Paid}

(* A make's stack has one byte for each job but the first, and one for     *)
(* each take that has pushed its byte and not yet counted it.              *)
StackMatchesJobs ==
  \A p \in Procs :
    LET paid == {t \in ThreadsOf(p) : pc[t] \in Paid \cup {"pop"}} IN
    depth[p] = Cardinality({t \in ThreadsOf(p) : pc[t] = "increment"})
               + (IF paid = {} THEN 0 ELSE Cardinality(paid) - 1)

(* No byte is lost, none is made: what populate_pipe wrote is in the FIFO, *)
(* pays for a job, or is in the hands of a worker that is taking it.       *)
BytesConserved ==
  pipe + Cardinality(Running) - Cardinality({ProcOf[t] : t \in Running})
    + Cardinality({t \in Threads : pc[t] \in {"push", "increment"}}) = filled

(* Neither exception of ReleaseJob is thrown, nothing pops an empty stack, *)
(* and a make goes only by exiting.                                        *)
NeverAborts == [][\A p \in Procs : status[p] = "up" /\ status'[p] = "off" => Exit(p)]_vars

(* Commands that run at this moment and are not themselves makes.          *)
LeafJobs == {t \in Threads : pc[t] = "job" /\ sub[t] = NoProc}

(* A tree of makes runs at most MaxJobs + 1 commands at a time: the free   *)
(* slot of a sub-make is the job its parent holds for it.                  *)
AtMostOneExtra == Cardinality(LeafJobs) <= MaxJobs + 1

(* The job server implements JobSlots.                                     *)
Slots == INSTANCE JobSlots WITH running <- Running
ImplementsJobSlots == Slots!Spec
=============================================================================
