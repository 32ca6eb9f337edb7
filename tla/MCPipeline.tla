----------------------------- MODULE MCPipeline -----------------------------
(* Pipeline on a small instance, in two scenes; see pipeline.cfg.           *)
EXTENDS Pipeline, TLC

CONSTANTS e1, t1, c1, p1, p2

ReaderSymmetry == Permutations(PushConsumers)

AllPushFaults == PushFaultKinds

VARIABLE scene

\* The persister has saved and announced the event and is about to produce its job.
Saved ==
  /\ log = <<e1>> /\ emitted = {e1} /\ claimed = {e1}
  /\ committed = 0 /\ position = 1 /\ disruptions = 0
  /\ owner = c1 /\ inHand = [c \in Consumers |-> 1]
  /\ pc = [c \in Consumers |-> "push"]
  /\ rows = [e \in Events |-> 1] /\ live = [e \in Events |-> 1]
  /\ pushJobs = [e \in Events |-> 0]
  /\ suppressed = {} /\ interrupted = {} /\ unguarded = {} /\ unchecked = {}
  /\ blocked = FALSE /\ covered = {}

\* Either all of the pipeline with one reader of each topic, of which the persister's
\* may lose its partition and get it back; or the push topics alone with two readers
\* each, from where the persister has come to its last call: PushDelivery lets it make
\* that as often as it may ever be made.  Of the last, either batches may be written
\* twice or readers disrupted; the theorems have both at once.
\* Blocks change only before the event: how they meet a handler is seen in Persister.
ScenesInit ==
  \/ scene = "pipeline" /\ PipelineInit /\ dOwner = rOwner
  \/ scene \in {"doubled", "disrupted"} /\ Saved /\ Push!Init

Undisrupted == UNCHANGED <<dDisruptions, rDisruptions>>
BlocksBefore == emitted # Events \/ UNCHANGED blocked
Once == Len(jobs') <= Len(jobs) + 1 /\ Len(retries') <= Len(retries) + 1

ScenesNext ==
  /\ UNCHANGED scene
  /\ \/ scene = "pipeline" /\ PipelineNext /\ Undisrupted /\ BlocksBefore
     \/ scene = "doubled" /\ Push!Next /\ Undisrupted /\ UNCHANGED vars
     \/ scene = "disrupted" /\ Push!Next /\ Once /\ UNCHANGED vars

Scenes == ScenesInit /\ [][ScenesNext]_<<scene, pipelineVars>>
=============================================================================
