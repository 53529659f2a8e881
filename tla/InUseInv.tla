------------------------------ MODULE InUseInv ------------------------------
(***************************************************************************)
(* The inductive invariant behind InUseExact: a submission references the    *)
(* same objects wherever it is - in the call that submits it, in the deque,  *)
(* in the queue's thread - as the batch the driver accepted.                 *)
(***************************************************************************)
EXTENDS RetirementInv

\* What a submission references.
SemsOn(ws)    == [i \in DOMAIN ws |-> ws[i].semaphore]
Referenced(b) == [waits |-> SemsOn(b.wait_semaphores), signals |-> SemsOn(b.signal_semaphores),
                  cbs |-> b.cbs, fence |-> b.fence]

\* A call's batches that are accepted and not numbered are the last of their queue.
CallRefers(h) ==
    /\ Ahead(call[h].queue) = Accepted(h)
    /\ \A i \in 1..Accepted(h) :
          Referenced(issued[call[h].queue][seq_[call[h].queue] + i]) = Referenced(call[h].batches[i + Skip(h)])
SubRefers(h) ==
    /\ hpc[h] = "seq" => Referenced(call[h].sub) = Referenced(call[h].batches[1])
    /\ hpc[h] \in PushPc => Referenced(call[h].sub) = Referenced(issued[call[h].queue][call[h].sub.seq])
CallsRefer ==
    /\ \A q \in Queue : (\A h \in Host : hpc[h] \in SubmitPc => call[h].queue # q) => Ahead(q) = 0
    /\ \A h \in Host : hpc[h] \in SubmitPc => CallRefers(h)
    /\ \A h \in Host : SubRefers(h)

DequeRefers  == \A q \in Queue : \A i \in DOMAIN submissions_[q] :
                   Referenced(submissions_[q][i]) = Referenced(issued[q][submissions_[q][i].seq])
ThreadRefers == \A q \in Queue : InThread(q) => Referenced(tcur[q]) = Referenced(issued[q][tcur[q].seq])

\* The number of queues is not bounded, that of submissions in use is.
UseInv == CallsRefer /\ Room /\ DequeRefers /\ ThreadRefers /\ IsFiniteSet(InUse) /\ InUseExact
=============================================================================
