----------------------------- MODULE MCExecution -----------------------------
(* A batch of two workers, one child process of a Provider, and end-to-end    *)
(* probes with the Editor.  They share nothing, so the process is started, or *)
(* the first probe called, where the batch has ended well: every behaviour of *)
(* each is there, without their product.                                      *)
EXTENDS WorkerBatch, ProcessRuntime, FullE2E

BatchIsOver ==
  /\ phase = "returned"
  /\ \A w \in Workers : envelope[w] = "completed" /\ calls[w] = 1
  /\ report.results = Workers /\ ~report.timedOut /\ ~report.cancelled
  /\ late /\ cancelEvent   \* both have come since: nothing of the batch moves any more

BatchStep(A) == A /\ UNCHANGED <<processVars, e2eVars>>
ProcessStep(A) ==
  /\ BatchIsOver /\ E2eInit
  /\ A /\ UNCHANGED <<vars, e2eVars>>
E2eStep(A) ==
  /\ BatchIsOver /\ ProcessInit
  /\ A /\ UNCHANGED <<vars, processVars>>

MCInit == Init /\ ProcessInit /\ E2eInit

MCNext == BatchStep(Next) \/ ProcessStep(ProcessNext) \/ E2eStep(E2eNext)

allVars == <<vars, processVars, e2eVars>>

\* The fairness of the three specifications.
MCSpec ==
  /\ MCInit /\ [][MCNext]_allVars
  /\ WF_allVars(BatchStep(Parent))
  /\ \A w \in Workers : WF_allVars(BatchStep(Consuming(w)))
  /\ WF_allVars(BatchStep(DeadlinePasses))
  /\ WF_allVars(ProcessStep(Caller))
  /\ WF_allVars(ProcessStep(Drain))
  /\ WF_allVars(ProcessStep(DeadlineIsOver))
  /\ WF_allVars(E2eStep(Tick))
  /\ WF_allVars(E2eStep(CompileEnds))
  /\ WF_allVars(E2eStep(PlayChanges))
  /\ WF_allVars(E2eStep(\E r \in Probes : JobIsLate(r)))
=============================================================================
