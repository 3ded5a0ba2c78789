---------------------------- MODULE LinearRuntime ----------------------------
(***************************************************************************)
(* LinearRuntime: N stages in a row, one worker thread and one output      *)
(* queue per stage (src/src/core/linear_runtime.cpp).  Queue w is the      *)
(* output of stage w and the input of stage w+1; the owner, the thread     *)
(* that starts and stops the runtime, polls queue N.                       *)
(*                                                                         *)
(* A queue's operations are atomic here, as module InProcessQueue shows    *)
(* they are to their callers.  A frame is known by the session (the start  *)
(* call) and the number the source stage gave it; a processing stage       *)
(* passes its input on as a frame of the same number, or absorbs it.       *)
(***************************************************************************)
EXTENDS Naturals, Sequences, FiniteSets

CONSTANTS
    N,             \* number of stages added
    Entries,       \* the (queue_capacity, policy) pairs add_stage may be given
    MaxFrames,     \* bound: frames the source produces in one session
    MaxBatch,      \* bound: frames the source writes in one call of process
    MaxSessions    \* bound: calls of start()

Stages == 1..N
Policies == {"DropLatest", "DropOldest", "Block"}

ASSUME StagesAssumption == N \in Nat \ {0}
ASSUME EntriesAssumption == Entries \subseteq [capacity : Nat \ {0}, policy : Policies]
ASSUME BoundsAssumption == MaxFrames \in Nat /\ MaxBatch \in Nat /\ MaxSessions \in Nat

VARIABLES
    entries,    \* entries[w]: what add_stage was told for stage w
    running,    \* is_running
    stop,       \* stop
    owner,      \* where the owner is in start, stop or poll_latest
    latest,     \* poll_latest's local variable, as a sequence of 0 or 1 frames
    queue,      \* queue[w]: contents of the output queue of stage w
    closed,     \* closed[w]: its shutdown_
    worker,     \* worker[w]: where its thread is, the frames it holds, whether it will exit
    crashed,    \* a worker has used a WorkerState that was not there yet
    session,    \* history: calls of start() so far
    given,      \* history: the last frame polled
    fate        \* history: what became of each frame of this session: "unborn", "inside",
                \* "delivered", "skipped", "dropped", "refused" or "absorbed"

vars == <<entries, running, stop, owner, latest, queue, closed, worker, crashed, session,
          given, fate>>
queues == <<queue, closed>>
histories == <<session, given>>

Idle == [call |-> "none", at |-> 1]
NoThread == [pc |-> "none", hold |-> <<>>, ends |-> FALSE]

-----------------------------------------------------------------------------
MEntryOf(w) == entries[w]

(* The queue after stage w is made with what add_stage was told for stage   *)
(* w+1; the last one with what it was told for the last stage.              *)
EntryOf(w) == entries[IF w < N THEN w + 1 ELSE w]

Full(w) == Len(queue[w]) >= EntryOf(w).capacity

(* The stages are added; start() has not been called. *)
Init ==
    /\ entries \in [Stages -> Entries]
    /\ running = FALSE /\ stop = FALSE /\ crashed = FALSE
    /\ owner = Idle /\ latest = <<>>
    /\ queue = [w \in Stages |-> <<>>]
    /\ closed = [w \in Stages |-> FALSE]
    /\ worker = [w \in Stages |-> NoThread]
    /\ session = 0
    /\ given = [session |-> 0, no |-> 0]
    /\ fate = [n \in 1..MaxFrames |-> "unborn"]

MStartKeepsQueues ==
    /\ owner = Idle /\ ~running /\ session < MaxSessions
    /\ stop' = FALSE
    /\ closed' = [w \in Stages |-> FALSE]
    /\ worker' = [w \in Stages |-> NoThread]
    /\ owner' = [call |-> "launching", at |-> 1]
    /\ session' = session + 1
    /\ fate' = [n \in 1..MaxFrames |-> "unborn"]
    /\ UNCHANGED <<entries, running, latest, queue, crashed, given>>

(* start(): the flag is lowered and new queues replace the old ones, with   *)
(* whatever was still in them.                                              *)
Start ==
    /\ owner = Idle /\ ~running /\ session < MaxSessions
    /\ stop' = FALSE
    /\ queue' = [w \in Stages |-> <<>>]
    /\ closed' = [w \in Stages |-> FALSE]
    /\ worker' = [w \in Stages |-> NoThread]
    /\ owner' = [call |-> "launching", at |-> 1]
    /\ session' = session + 1
    /\ fate' = [n \in 1..MaxFrames |-> "unborn"]
    /\ UNCHANGED <<entries, running, latest, crashed, given>>

(* start(): a thread is created, before its WorkerState is in the vector. *)
Launch ==
    /\ owner.call = "launching"
    /\ worker' = [worker EXCEPT ![owner.at].pc = "entry"]
    /\ owner' = [owner EXCEPT !.call = "pushing"]
    /\ UNCHANGED <<entries, running, stop, latest, queues, crashed, histories, fate>>

(* start(): workers.push_back; after the last one the runtime is running. *)
Push ==
    /\ owner.call = "pushing"
    /\ \/ /\ owner.at < N
          /\ owner' = [call |-> "launching", at |-> owner.at + 1]
          /\ UNCHANGED running
       \/ /\ owner.at = N
          /\ owner' = Idle
          /\ running' = TRUE
    /\ UNCHANGED <<entries, stop, latest, queues, worker, crashed, histories, fate>>

(* stop(): a no-op unless the runtime is running. *)
Stop ==
    /\ owner = Idle /\ running
    /\ stop' = TRUE
    /\ owner' = [call |-> "closing", at |-> 1]
    /\ UNCHANGED <<entries, running, latest, queues, worker, crashed, histories, fate>>

MCloseInputsOnly ==
    /\ owner.call = "closing"
    /\ closed' = [closed EXCEPT ![owner.at] = owner.at < N]
    /\ owner' = IF owner.at < N THEN [owner EXCEPT !.at = @ + 1]
                                ELSE [call |-> "joining", at |-> 1]
    /\ UNCHANGED <<entries, running, stop, latest, queue, worker, crashed, histories, fate>>

(* stop(): the queues are shut down one after the other. *)
CloseQueue ==
    /\ owner.call = "closing"
    /\ closed' = [closed EXCEPT ![owner.at] = TRUE]
    /\ owner' = IF owner.at < N THEN [owner EXCEPT !.at = @ + 1]
                                ELSE [call |-> "joining", at |-> 1]
    /\ UNCHANGED <<entries, running, stop, latest, queue, worker, crashed, histories, fate>>

MJoinFirst ==
    /\ owner.call = "joining"
    /\ worker[owner.at].pc = "ended"
    /\ owner' = Idle
    /\ running' = FALSE
    /\ UNCHANGED <<entries, stop, latest, queues, worker, crashed, histories, fate>>

(* stop(): the workers are joined one after the other. *)
Join ==
    /\ owner.call = "joining"
    /\ worker[owner.at].pc = "ended"
    /\ \/ /\ owner.at < N
          /\ owner' = [owner EXCEPT !.at = @ + 1]
          /\ UNCHANGED running
       \/ /\ owner.at = N
          /\ owner' = Idle
          /\ running' = FALSE
    /\ UNCHANGED <<entries, stop, latest, queues, worker, crashed, histories, fate>>

(* The owner dequeues the oldest frame of the output queue. *)
TakeOutput == queue' = [queue EXCEPT ![N] = Tail(@)]

(* The fate of a frame; only frames of this session have one. *)
Befalls(f, what) == fate' = [fate EXCEPT ![f.no] = what]

(* poll_output(), when there is a frame; after stop() what is left in the   *)
(* queue can still be polled.                                               *)
PollOutput ==
    /\ owner = Idle
    /\ queue[N] # <<>>
    /\ TakeOutput
    /\ given' = Head(queue[N])
    /\ Befalls(Head(queue[N]), "delivered")
    /\ UNCHANGED <<entries, running, stop, owner, latest, closed, worker, crashed, session>>

(* poll_latest() dequeues until the queue is empty ... *)
PollLatest ==
    /\ owner = Idle \/ owner.call = "draining"
    /\ queue[N] # <<>>
    /\ TakeOutput
    /\ owner' = [call |-> "draining", at |-> 1]
    /\ latest' = <<Head(queue[N])>>
    /\ IF latest = <<>> THEN UNCHANGED fate ELSE Befalls(latest[1], "skipped")
    /\ UNCHANGED <<entries, running, stop, closed, worker, crashed, histories>>

(* ... and returns the last frame it got. *)
PollLatestReturns ==
    /\ owner.call = "draining"
    /\ queue[N] = <<>>
    /\ owner' = Idle
    /\ given' = latest[1]
    /\ Befalls(latest[1], "delivered")
    /\ latest' = <<>>
    /\ UNCHANGED <<entries, running, stop, queues, worker, crashed, session>>

-----------------------------------------------------------------------------
(* worker_func takes references into workers.  While the owner is between   *)
(* creating a thread and having pushed its state, that is a data race and,  *)
(* for the newest thread, an access beyond the end: it may work or crash.   *)
Bind(w) ==
    /\ worker[w].pc = "entry"
    /\ \/ worker' = [worker EXCEPT ![w].pc = "top"] /\ UNCHANGED crashed
       \/ owner.call = "pushing" /\ crashed' = TRUE /\ UNCHANGED worker
    /\ UNCHANGED <<entries, running, stop, owner, latest, queues, histories, fate>>

(* The loop condition. *)
CheckStop(w) ==
    /\ worker[w].pc = "top"
    /\ worker' = [worker EXCEPT ![w].pc = IF stop THEN "ended" ELSE "fetch"]
    /\ UNCHANGED <<entries, running, stop, owner, latest, queues, crashed, histories, fate>>

(* A source has no input; another stage takes one frame, or comes back to   *)
(* the loop condition when there is none.                                   *)
Fetch(w) ==
    /\ worker[w].pc = "fetch"
    /\ \/ /\ w = 1
          /\ worker' = [worker EXCEPT ![w].pc = "process"]
          /\ UNCHANGED queue
       \/ /\ w > 1 /\ queue[w-1] # <<>>
          /\ worker' = [worker EXCEPT ![w].pc = "process", ![w].hold = <<Head(queue[w-1])>>]
          /\ queue' = [queue EXCEPT ![w-1] = Tail(@)]
       \/ /\ w > 1 /\ queue[w-1] = <<>>
          /\ worker' = [worker EXCEPT ![w].pc = "top"]
          /\ UNCHANGED queue
    /\ UNCHANGED <<entries, running, stop, owner, latest, closed, crashed, histories, fate>>

Produced == Cardinality({n \in 1..MaxFrames : fate[n] # "unborn"})

(* The source stage's process: some new frames with Ok; none with NoData,   *)
(* Retry (the worker goes on) or with EOS, Error (it exits).                *)
ProcessSource ==
    /\ worker[1].pc = "process"
    /\ \E k \in 0..MaxBatch, ends \in BOOLEAN :
          /\ Produced + k <= MaxFrames
          /\ ends => k = 0
          /\ worker' = [worker EXCEPT ![1] =
                 [pc |-> "emit", ends |-> ends,
                  hold |-> [i \in 1..k |-> [session |-> session, no |-> Produced + i]]]]
          /\ fate' = [n \in 1..MaxFrames |->
                         IF n \in Produced+1..Produced+k THEN "inside" ELSE fate[n]]
    /\ UNCHANGED <<entries, running, stop, owner, latest, queues, crashed, histories>>

(* Another stage's process: it passes its input on (Ok), or writes nothing  *)
(* and goes on (a sink's Ok, NoData, Retry), or exits (EOS, Error).  The    *)
(* input is released in every case, also after Retry.                       *)
ProcessInput(w) ==
    /\ w > 1
    /\ worker[w].pc = "process"
    /\ \/ /\ worker' = [worker EXCEPT ![w].pc = "emit", ![w].ends = FALSE]
          /\ UNCHANGED fate
       \/ /\ \E ends \in BOOLEAN :
                worker' = [worker EXCEPT ![w] = [pc |-> "emit", hold |-> <<>>, ends |-> ends]]
          /\ Befalls(Head(worker[w].hold), "absorbed")
    /\ UNCHANGED <<entries, running, stop, owner, latest, queues, crashed, histories>>

(* One enqueue ends with the frame in the queue or nowhere; the worker has  *)
(* the rest of its frames still to enqueue.                                 *)
NextOutput(w) == worker' = [worker EXCEPT ![w].pc = "emit", ![w].hold = Tail(@)]

MEnqueueInFront(w) ==
    /\ worker[w].hold # <<>>
    /\ ~Full(w)
    /\ worker[w].pc = "emit" \/ (worker[w].pc = "blocked" /\ ~closed[w])
    /\ queue' = [queue EXCEPT ![w] = <<Head(worker[w].hold)>> \o @]
    /\ NextOutput(w)
    /\ UNCHANGED <<entries, running, stop, owner, latest, closed, crashed, histories, fate>>

(* The queue has room, at once or after a wait. *)
EnqueueWithRoom(w) ==
    /\ worker[w].hold # <<>>
    /\ ~Full(w)
    /\ worker[w].pc = "emit" \/ (worker[w].pc = "blocked" /\ ~closed[w])
    /\ queue' = [queue EXCEPT ![w] = Append(@, Head(worker[w].hold))]
    /\ NextOutput(w)
    /\ UNCHANGED <<entries, running, stop, owner, latest, closed, crashed, histories, fate>>

EnqueueDropLatest(w) ==
    /\ worker[w].pc = "emit" /\ worker[w].hold # <<>>
    /\ Full(w) /\ EntryOf(w).policy = "DropLatest"
    /\ Befalls(Head(worker[w].hold), "dropped")
    /\ NextOutput(w)
    /\ UNCHANGED <<entries, running, stop, owner, latest, queues, crashed, histories>>

MEnqueueDropBoth(w) ==
    /\ worker[w].pc = "emit" /\ worker[w].hold # <<>>
    /\ Full(w) /\ EntryOf(w).policy = "DropOldest"
    /\ Befalls(Head(queue[w]), "dropped")
    /\ queue' = [queue EXCEPT ![w] = Tail(@)]
    /\ NextOutput(w)
    /\ UNCHANGED <<entries, running, stop, owner, latest, closed, crashed, histories>>

EnqueueDropOldest(w) ==
    /\ worker[w].pc = "emit" /\ worker[w].hold # <<>>
    /\ Full(w) /\ EntryOf(w).policy = "DropOldest"
    /\ Befalls(Head(queue[w]), "dropped")
    /\ queue' = [queue EXCEPT ![w] = Append(Tail(@), Head(worker[w].hold))]
    /\ NextOutput(w)
    /\ UNCHANGED <<entries, running, stop, owner, latest, closed, crashed, histories>>

(* The Block policy waits for room or for shutdown(). *)
EnqueueBlocks(w) ==
    /\ worker[w].pc = "emit" /\ worker[w].hold # <<>>
    /\ Full(w) /\ EntryOf(w).policy = "Block" /\ ~closed[w]
    /\ worker' = [worker EXCEPT ![w].pc = "blocked"]
    /\ UNCHANGED <<entries, running, stop, owner, latest, queues, crashed, histories, fate>>

(* A wait ended by shutdown(), or not begun because of it: the frame is     *)
(* refused, and worker_func ignores that.                                   *)
EnqueueRefused(w) ==
    /\ worker[w].hold # <<>>
    /\ closed[w] /\ EntryOf(w).policy = "Block"
    /\ worker[w].pc = "blocked" \/ (worker[w].pc = "emit" /\ Full(w))
    /\ Befalls(Head(worker[w].hold), "refused")
    /\ NextOutput(w)
    /\ UNCHANGED <<entries, running, stop, owner, latest, queues, crashed, histories>>

(* All frames are enqueued: the loop goes on, or the thread function returns.*)
Finish(w) ==
    /\ worker[w].pc = "emit" /\ worker[w].hold = <<>>
    /\ worker' = [worker EXCEPT ![w].pc = IF worker[w].ends THEN "ended" ELSE "top"]
    /\ UNCHANGED <<entries, running, stop, owner, latest, queues, crashed, histories, fate>>

WorkerStep(w) ==
    \/ Bind(w) \/ CheckStop(w) \/ Fetch(w) \/ (w = 1 /\ ProcessSource) \/ ProcessInput(w)
    \/ EnqueueWithRoom(w) \/ EnqueueDropLatest(w) \/ EnqueueDropOldest(w)
    \/ EnqueueBlocks(w) \/ EnqueueRefused(w) \/ Finish(w)

(* The steps of start() and stop() once called. *)
OwnerStep == Launch \/ Push \/ CloseQueue \/ Join

(* Nothing is modelled after a crash. *)
Next ==
    /\ ~crashed
    /\ \/ Start
       \/ Stop
       \/ OwnerStep
       \/ PollOutput
       \/ PollLatest
       \/ PollLatestReturns
       \/ \E w \in Stages : WorkerStep(w)

Spec == Init /\ [][Next]_vars

(* Every thread is scheduled, and a stage's process returns ("must respond  *)
(* to the Runtime's stop request within bounded time", stage.h:27).  The    *)
(* owner need never call anything, but runs a call it made to its end.      *)
Fairness ==
    /\ WF_vars(~crashed /\ OwnerStep)
    /\ \A w \in Stages : WF_vars(~crashed /\ WorkerStep(w))

FairSpec == Spec /\ Fairness

-----------------------------------------------------------------------------
(* The places of the pipeline from the source to the owner: worker 1, queue *)
(* 1, worker 2, ..., queue N, and poll_latest's variable.                   *)
Places == 1..(2*N + 1)
Content(k) ==
    IF k = 2*N + 1 THEN latest
    ELSE IF k % 2 = 1 THEN worker[(k + 1) \div 2].hold
    ELSE queue[k \div 2]
Held(k) == {Content(k)[i] : i \in DOMAIN Content(k)}

Older(f, g) == f.session < g.session \/ (f.session = g.session /\ f.no < g.no)

(* Frames never overtake: whatever the policies drop, wherever the workers  *)
(* are, and across restarts, the owner polls frames in the order in which   *)
(* the source produced them, none twice (linear_runtime.cpp:167-195,        *)
(* in_process_queue.cpp:24-48).                                             *)
NoOvertaking ==
    /\ \A k \in Places : \A i, j \in DOMAIN Content(k) :
          i < j => Older(Content(k)[i], Content(k)[j])
    /\ \A k, l \in Places : k < l =>
          \A f \in Held(k), g \in Held(l) : Older(g, f)
    /\ \A k \in Places : \A f \in Held(k) : Older(given, f)

(* No frame vanishes uncounted and none is in two places: each frame of the *)
(* session that was not delivered, dropped by a policy, refused at shutdown *)
(* or absorbed by a stage is in exactly one place of the pipeline           *)
(* (linear_runtime.cpp:168-195).                                            *)
EachFrameOnce ==
    \A n \in 1..MaxFrames :
        LET f == [session |-> session, no |-> n]
        IN  Cardinality({k \in Places : f \in Held(k)}) = IF fate[n] = "inside" THEN 1 ELSE 0

(* After start() nothing of an earlier session is left anywhere, so no poll *)
(* returns a frame from before the restart (linear_runtime.cpp:41).         *)
NothingStale == \A k \in Places : \A f \in Held(k) : f.session = session

(* When stop() has returned, and before the first start(), every worker has *)
(* exited and holds no frame: no stage is called behind the owner's back,   *)
(* so it can be destroyed (linear_runtime.cpp:77-83).                       *)
StoppedMeansQuiet ==
    owner = Idle /\ ~running =>
        \A w \in Stages : worker[w].pc \in {"none", "ended"} /\ worker[w].hold = <<>>

(* When every stage that reads a queue was added with Block, nothing is     *)
(* ever dropped, whatever the first stage was added with: the policy of a   *)
(* stage is that of its input queue, "with the given capacity and policy"   *)
(* (runtime.h:48, linear_runtime.cpp:46-49).                                *)
BlockedInputsKeepAll ==
    (\A w \in Stages : w > 1 \/ N = 1 => entries[w].policy = "Block") =>
        \A n \in 1..MaxFrames : fate[n] # "dropped"

(* stop() returns, also when workers are blocked on full queues, have       *)
(* exited early, or the owner never polls: "Stop all workers (bounded time) *)
(* and join threads" (runtime.h:57).                                        *)
StopReturns == owner.call = "closing" ~> (owner = Idle /\ ~running)

=============================================================================
