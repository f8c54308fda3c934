--------------------------- MODULE VideoCacheProofs ---------------------------
(***************************************************************************)
(* Proofs about VideoCache, for any number of threads and items, any       *)
(* settings and any planner. First the pool: the state of the workers tells*)
(* the truth about the threads (IdleIsQuiet), what waits for a thread is   *)
(* not forgotten, and the thread limit of an item is kept. Then the        *)
(* playlist, and the calls the main thread has still to make: from what can*)
(* be in that list, and where, it follows that playback that waits is      *)
(* watched, and, without the conversion test, that no thread and no queue  *)
(* holds a deleted item. The types of all variables follow, with the test  *)
(* as well; and at the end, that the caches keep to their limit as long as *)
(* nothing is played.                                                      *)
(***************************************************************************)
EXTENDS VideoCache, ListsProofs, FiniteSetTheorems, TLAPS

\* The variables that the state of the pool consists of.
pool == <<workersState, threads, worker, filling, left, started>>

\* The types of these variables. Of a worker only the flag matters; the threads
\* that startCaching still has to visit are threads of the pool.
PoolTypeOK ==
    /\ workersState \in {"Idle", "Running", "IntReqStop", "IntReqRestart"}
    /\ threads \subseteq Thread
    /\ worker = [t \in Thread \cup Slot |-> worker[t]]
    /\ \A t \in Thread : worker[t].working \in BOOLEAN
    /\ filling \in BOOLEAN /\ started \in BOOLEAN
    /\ left \subseteq threads /\ (~filling => left = {})

\* As long as startCaching has not started a job no thread of the pool works.
FillStartsQuiet == filling /\ ~started => WorkingIn(worker) = {}

\* A worker that holds an item is working: it cannot post a second signal.
HoldingIsWorking == \A t \in Thread : worker[t].item # None => worker[t].working

\* A thread that was removed from the pool, or is not yet in it, does not work.
OutsiderIsIdle == \A t \in Thread \ threads : ~worker[t].working

\* The inductive invariant.
PoolInv ==
    /\ PoolTypeOK
    /\ IdleIsQuiet
    /\ FillStartsQuiet
    /\ HoldingIsWorking
    /\ OutsiderIsIdle
-----------------------------------------------------------------------------
\* Pushing a job either leaves the workers alone or makes one of them work.
LEMMA PushLemma ==
    ASSUME NEW t \in Thread, NEW w, NEW c, NEW watch, NEW play,
           Push(t, w, c, watch, play)
    PROVE  worker' = w \/ \E x : x.working = TRUE /\ worker' = [w EXCEPT ![t] = x]
<1>1. CASE testMode
  <2>1. PICK f : worker' = [w EXCEPT ![t] = Busy(testItem, f, TRUE)]
    BY <1>1 DEF Push, PushTestJob
  <2>2. Busy(testItem, f, TRUE).working = TRUE
    BY DEF Busy
  <2>3. QED
    BY <2>1, <2>2
<1>2. CASE ~testMode
  <2>1. PushJob(t, w, c, watch, play)
    BY <1>2 DEF Push
  <2>2. worker' = w \/ \E i, f : worker' = [w EXCEPT ![t] = Busy(i, f, FALSE)]
    BY <2>1 DEF PushJob
  <2>3. \A i, f : Busy(i, f, FALSE).working = TRUE
    BY DEF Busy
  <2>4. QED
    BY <2>2, <2>3
<1>3. QED
  BY <1>1, <1>2

\* A step that leaves the pool alone keeps the invariant.
LEMMA PoolUnchanged ==
    ASSUME PoolInv, UNCHANGED pool
    PROVE  PoolInv'
BY DEF PoolInv, pool, PoolTypeOK, IdleIsQuiet, FillStartsQuiet, HoldingIsWorking,
       OutsiderIsIdle, WorkingIn

\* Init establishes the invariant.
LEMMA InitPool == Init => PoolInv
<1> SUFFICES ASSUME Init
             PROVE  PoolInv
  OBVIOUS
<1>1. /\ workersState = "Idle" /\ threads = {} /\ left = {}
      /\ worker = [t \in Thread \cup Slot |-> IdleWorker]
      /\ filling = FALSE /\ started = FALSE
  BY DEF Init
<1>2. IdleWorker.working = FALSE /\ IdleWorker.item = None
  BY DEF IdleWorker
<1>3. QED
  BY <1>1, <1>2 DEF PoolInv, PoolTypeOK, IdleIsQuiet, FillStartsQuiet,
       HoldingIsWorking, OutsiderIsIdle, WorkingIn

\* startCaching begins while no thread works.
LEMMA StartCachingLemma ==
    ASSUME PoolInv, WorkingIn(worker) = {}, StartCaching,
           UNCHANGED <<threads, worker>>, workersState' \in
             {"Idle", "Running", "IntReqStop", "IntReqRestart"}
    PROVE  PoolInv'
BY DEF StartCaching, PoolInv, PoolTypeOK, IdleIsQuiet, FillStartsQuiet,
       HoldingIsWorking, OutsiderIsIdle, WorkingIn

\* The state of the workers may change to anything but Idle.
LEMMA StateLemma ==
    ASSUME PoolInv, UNCHANGED <<threads, worker, filling, left, started>>,
           workersState' \in {"Running", "IntReqStop", "IntReqRestart"}
    PROVE  PoolInv'
BY DEF PoolInv, PoolTypeOK, IdleIsQuiet, FillStartsQuiet,
       HoldingIsWorking, OutsiderIsIdle, WorkingIn

\* The steps of the loop in startCaching.
LEMMA FillStep ==
    ASSUME PoolInv, NEW t \in Thread, FillThread(t)
    PROVE  PoolInv'
<1>1. /\ filling /\ t \in left /\ t \in threads
      /\ left' = left \ {t} /\ started' = (started \/ worker'[t].working)
      /\ UNCHANGED <<filling, threads, workersState>>
  BY DEF FillThread, poolVars, PoolInv, PoolTypeOK
<1>2. worker' = worker \/ \E x : x.working = TRUE /\ worker' = [worker EXCEPT ![t] = x]
  BY PushLemma DEF FillThread
<1>3. CASE worker' = worker
  BY <1>1, <1>3 DEF PoolInv, PoolTypeOK, IdleIsQuiet, FillStartsQuiet,
       HoldingIsWorking, OutsiderIsIdle, WorkingIn
<1>4. CASE \E x : x.working = TRUE /\ worker' = [worker EXCEPT ![t] = x]
  <2>1. PICK x : x.working = TRUE /\ worker' = [worker EXCEPT ![t] = x]
    BY <1>4
  <2>2. worker'[t] = x /\ started' = TRUE
    BY <1>1, <2>1 DEF PoolInv, PoolTypeOK
  <2>3. PoolTypeOK'
    BY <1>1, <2>1, <2>2 DEF PoolInv, PoolTypeOK
  <2>4. IdleIsQuiet' /\ FillStartsQuiet'
    BY <1>1, <2>2 DEF IdleIsQuiet, FillStartsQuiet
  <2>5. HoldingIsWorking' /\ OutsiderIsIdle'
    BY <1>1, <2>1, <2>2 DEF PoolInv, PoolTypeOK, HoldingIsWorking, OutsiderIsIdle
  <2>6. QED
    BY <2>3, <2>4, <2>5 DEF PoolInv
<1>5. QED
  BY <1>2, <1>3, <1>4

LEMMA FillDoneStep ==
    ASSUME PoolInv, FillDone
    PROVE  PoolInv'
BY DEF FillDone, PoolInv, PoolTypeOK, IdleIsQuiet, FillStartsQuiet, HoldingIsWorking,
       OutsiderIsIdle, WorkingIn

\* A thread joins the pool; it may get a job while the state is Running.
LEMMA StartWorkerStep ==
    ASSUME PoolInv, NEW t \in Thread, StartWorkerThread(t)
    PROVE  PoolInv'
<1>1. /\ ~filling /\ t \notin threads /\ threads' = threads \cup {t}
      /\ UNCHANGED <<workersState, filling, left, started>>
  BY DEF StartWorkerThread, fillVars
<1>2. CASE workersState = "Running"
  <2>1. worker' = worker \/ \E x : x.working = TRUE /\ worker' = [worker EXCEPT ![t] = x]
    BY <1>2, PushLemma DEF StartWorkerThread
  <2>2. QED
    BY <1>1, <1>2, <2>1 DEF PoolInv, PoolTypeOK, IdleIsQuiet, FillStartsQuiet,
         HoldingIsWorking, OutsiderIsIdle, WorkingIn
<1>3. CASE workersState # "Running"
  <2>1. worker' = worker
    BY <1>3 DEF StartWorkerThread
  <2>2. QED
    BY <1>1, <1>3, <2>1 DEF PoolInv, PoolTypeOK, IdleIsQuiet, FillStartsQuiet,
         HoldingIsWorking, OutsiderIsIdle, WorkingIn
<1>4. QED
  BY <1>2, <1>3

\* A change of the worker of an interactive thread does not touch the pool.
LEMMA SlotLemma ==
    ASSUME PoolInv, NEW s \in Slot, NEW x, worker' = [worker EXCEPT ![s] = x],
           UNCHANGED <<workersState, threads, filling, left, started>>
    PROVE  PoolInv'
<1>1. \A t \in Thread : worker'[t] = worker[t]
  BY PoolAssumption DEF PoolInv, PoolTypeOK
<1>2. PoolTypeOK'
  BY <1>1 DEF PoolInv, PoolTypeOK
<1>3. QED
  BY <1>1, <1>2 DEF PoolInv, PoolTypeOK, IdleIsQuiet, FillStartsQuiet,
       HoldingIsWorking, OutsiderIsIdle, WorkingIn
-----------------------------------------------------------------------------
\* The rest of the methods that the main thread is in.
LEMMA ScheduleStep ==
    ASSUME PoolInv, scheduleCachingListUpdate
    PROVE  PoolInv'
<1>1. ~filling /\ UNCHANGED <<threads, worker>>
  BY DEF scheduleCachingListUpdate, Calling
<1>2. CASE workersState' = "IntReqRestart" /\ UNCHANGED fillVars
  BY <1>1, <1>2, StateLemma DEF fillVars
<1>3. CASE workersState = "Idle" /\ StartCaching /\ UNCHANGED workersState
  <2>1. WorkingIn(worker) = {}
    BY <1>1, <1>3 DEF PoolInv, IdleIsQuiet
  <2>2. QED
    BY <1>1, <1>3, <2>1, StartCachingLemma
<1>4. CASE UNCHANGED <<workersState, fillVars>>
  BY <1>1, <1>4, PoolUnchanged DEF pool, fillVars
<1>5. QED
  BY <1>2, <1>3, <1>4 DEF scheduleCachingListUpdate

LEMMA WatchStep ==
    ASSUME PoolInv, watchItemForCachingFinished
    PROVE  PoolInv'
<1>1. ~filling /\ UNCHANGED <<threads, worker, workersState>>
  BY DEF watchItemForCachingFinished, Calling, poolVars
<1>2. CASE workersState = "Idle" /\ StartCaching
  <2>1. WorkingIn(worker) = {}
    BY <1>1, <1>2 DEF PoolInv, IdleIsQuiet
  <2>2. workersState' \in {"Idle", "Running", "IntReqStop", "IntReqRestart"}
    BY <1>1, <1>2
  <2>3. QED
    BY <1>1, <1>2, <2>1, <2>2, StartCachingLemma
<1>3. CASE UNCHANGED fillVars
  BY <1>1, <1>3, PoolUnchanged DEF pool, fillVars
<1>4. QED
  BY <1>2, <1>3 DEF watchItemForCachingFinished

LEMMA DeleteStep ==
    ASSUME PoolInv, TagItem \/ itemAboutToBeDeleted
    PROVE  PoolInv'
<1>1. CASE TagItem
  BY <1>1, PoolUnchanged DEF TagItem, pool, poolVars, fillVars
<1>2. CASE itemAboutToBeDeleted
  <2>1. UNCHANGED <<threads, worker, filling, left, started>>
    BY <1>2 DEF itemAboutToBeDeleted, fillVars
  <2>2. workersState' = IF workersState # "Idle" THEN "IntReqRestart" ELSE "Idle"
    BY <1>2 DEF itemAboutToBeDeleted
  <2>3. CASE workersState # "Idle"
    BY <2>1, <2>2, <2>3, StateLemma
  <2>4. CASE workersState = "Idle"
    BY <2>1, <2>2, <2>4, PoolUnchanged DEF pool
  <2>5. QED
    BY <2>3, <2>4
<1>3. QED
  BY <1>1, <1>2
-----------------------------------------------------------------------------
\* The caching threads and the signals they post.
LEMMA WorkStep ==
    ASSUME PoolInv, NEW t \in Thread, processCacheJobInternal(t)
    PROVE  PoolInv'
<1>1. /\ worker[t].item # None /\ worker' = [worker EXCEPT ![t] = PostedWorker]
      /\ UNCHANGED <<workersState, threads, filling, left, started>>
  BY DEF processCacheJobInternal, poolVars, fillVars
<1>2. PostedWorker.working = TRUE
  BY DEF PostedWorker, IdleWorker
<1>3. worker[t].working
  BY <1>1 DEF PoolInv, HoldingIsWorking
<1>4. worker'[t] = PostedWorker /\ \A u \in Thread \ {t} : worker'[u] = worker[u]
  BY <1>1 DEF PoolInv, PoolTypeOK
<1>5. PoolTypeOK'
  BY <1>1, <1>2, <1>4 DEF PoolInv, PoolTypeOK
<1>6. WorkingIn(worker)' = WorkingIn(worker)
  BY <1>1, <1>2, <1>3, <1>4 DEF WorkingIn, PoolInv, PoolTypeOK
<1>7. QED
  BY <1>1, <1>2, <1>3, <1>4, <1>5, <1>6 DEF PoolInv, IdleIsQuiet, FillStartsQuiet,
       HoldingIsWorking, OutsiderIsIdle, WorkingIn

LEMMA LoadStep ==
    ASSUME PoolInv, NEW s \in Slot,
           \/ processLoadingJobInternal(s) \/ interactiveLoaderFinished(s)
           \/ \E i \in Item, f \in Frame \cup {NoFrame} : loadFrame(i, f, s)
    PROVE  PoolInv'
<1>1. UNCHANGED <<workersState, threads, filling, left, started>>
  BY DEF processLoadingJobInternal, interactiveLoaderFinished, loadFrame, poolVars, fillVars
<1>2. worker' = worker \/ \E x : worker' = [worker EXCEPT ![s] = x]
  BY DEF processLoadingJobInternal, interactiveLoaderFinished, loadFrame
<1>3. QED
  BY <1>1, <1>2, SlotLemma, PoolUnchanged DEF pool

\* The signal of thread t is handled without starting anything: t is idle now, it
\* may leave the pool, and the state becomes Idle only if no thread works.
LEMMA FinishLemma ==
    ASSUME PoolInv, NEW t \in Thread, ~filling,
           threads' = threads \/ threads' = threads \ {t},
           worker' = [worker EXCEPT ![t] = IdleWorker],
           UNCHANGED <<filling, left, started>>,
           workersState' \in {"Idle", "Running", "IntReqStop", "IntReqRestart"},
           workersState' = "Idle" => WorkingIn(worker') = {}
    PROVE  PoolInv'
<1>1. IdleWorker.working = FALSE /\ IdleWorker.item = None
  BY DEF IdleWorker
<1>2. worker'[t] = IdleWorker /\ \A u \in Thread \ {t} : worker'[u] = worker[u]
  BY DEF PoolInv, PoolTypeOK
<1>3. PoolTypeOK'
  BY <1>1, <1>2 DEF PoolInv, PoolTypeOK
<1>4. QED
  BY <1>1, <1>2, <1>3 DEF PoolInv, PoolTypeOK, IdleIsQuiet, FillStartsQuiet, HoldingIsWorking,
       OutsiderIsIdle, WorkingIn

\* The signal of the last working thread t is handled and startCaching begins.
LEMMA FinishAndStartLemma ==
    ASSUME PoolInv, NEW t \in Thread,
           threads' = threads \/ threads' = threads \ {t},
           worker' = [worker EXCEPT ![t] = IdleWorker],
           WorkingIn([worker EXCEPT ![t] = IdleWorker]) = {},
           filling' = TRUE, left' = threads', started' = FALSE,
           workersState' \in {"Idle", "Running", "IntReqStop", "IntReqRestart"}
    PROVE  PoolInv'
<1>1. IdleWorker.working = FALSE /\ IdleWorker.item = None
  BY DEF IdleWorker
<1>2. worker'[t] = IdleWorker /\ \A u \in Thread \ {t} : worker'[u] = worker[u]
  BY DEF PoolInv, PoolTypeOK
<1>3. PoolTypeOK'
  BY <1>1, <1>2 DEF PoolInv, PoolTypeOK
<1>4. QED
  BY <1>1, <1>2, <1>3 DEF PoolInv, PoolTypeOK, IdleIsQuiet, FillStartsQuiet, HoldingIsWorking,
       OutsiderIsIdle, WorkingIn

\* The signal of thread t is handled and t gets a new job.
LEMMA FinishAndPushLemma ==
    ASSUME PoolInv, NEW t \in threads, ~filling, NEW x, x.working = TRUE,
           worker' = [worker EXCEPT ![t] = x],
           UNCHANGED <<threads, filling, left, started>>,
           workersState' \in {"Running", "IntReqStop", "IntReqRestart"}
    PROVE  PoolInv'
<1>1. worker'[t] = x /\ \A u \in Thread \ {t} : worker'[u] = worker[u]
  BY DEF PoolInv, PoolTypeOK
<1>2. PoolTypeOK'
  BY <1>1 DEF PoolInv, PoolTypeOK
<1>3. IdleIsQuiet' /\ FillStartsQuiet'
  BY DEF IdleIsQuiet, FillStartsQuiet
<1>4. HoldingIsWorking' /\ OutsiderIsIdle'
  BY <1>1 DEF PoolInv, PoolTypeOK, HoldingIsWorking, OutsiderIsIdle
<1>5. QED
  BY <1>2, <1>3, <1>4 DEF PoolInv

LEMMA TestFinishedStep ==
    ASSUME PoolInv, NEW t \in Thread, TestCachingFinished(t)
    PROVE  PoolInv'
<1> DEFINE w == [worker EXCEPT ![t] = IdleWorker]
<1>1. ~filling /\ t \in threads /\ UNCHANGED <<workersState, threads>>
  BY DEF TestCachingFinished, InEventLoop, poolVars
<1>2. CASE /\ worker' = w /\ UNCHANGED fillVars
           /\ workersState # "Idle"
  BY <1>1, <1>2, FinishLemma DEF PoolInv, PoolTypeOK, fillVars
<1>3. CASE worker' = w /\ WorkingIn(w) = {} /\ StartCaching
  BY <1>1, <1>3, FinishAndStartLemma DEF StartCaching, PoolInv, PoolTypeOK
<1>4. CASE workersState = "Running" /\ PushTestJob(t, w) /\ UNCHANGED fillVars
  <2>1. PICK x : x.working = TRUE /\ worker' = [w EXCEPT ![t] = x]
    BY <1>4 DEF PushTestJob, Busy
  <2>2. worker' = [worker EXCEPT ![t] = x]
    BY <2>1 DEF PoolInv, PoolTypeOK
  <2>3. QED
    BY <1>1, <1>4, <2>1, <2>2, FinishAndPushLemma DEF fillVars
<1>5. QED
  BY <1>2, <1>3, <1>4 DEF TestCachingFinished, testFinished, fillVars

LEMMA FinishedStep ==
    ASSUME PoolInv, NEW t \in Thread, threadCachingFinished(t)
    PROVE  PoolInv'
<1> DEFINE w == [worker EXCEPT ![t] = IdleWorker]
<1>1. ~filling /\ t \in threads /\ (threads' = threads \/ threads' = threads \ {t})
  BY DEF threadCachingFinished, InEventLoop
<1>2. CASE workersState = "Running" /\ deleteNr = 0
  <2>1. PICK c, watch, play : PushJob(t, w, c, watch, play)
    BY <1>2 DEF threadCachingFinished
  <2>2. /\ workersState' = IF WorkingIn(worker') = {} THEN "Idle" ELSE "Running"
        /\ threads' = threads /\ UNCHANGED <<filling, left, started>>
    BY <1>1, <1>2 DEF threadCachingFinished, fillVars, PoolInv, PoolTypeOK
  <2>3. worker' = w \/ \E x : x.working = TRUE /\ worker' = [w EXCEPT ![t] = x]
    BY <2>1 DEF PushJob, Busy
  <2>4. CASE worker' = w
    BY <1>1, <2>2, <2>4, FinishLemma
  <2>5. CASE \E x : x.working = TRUE /\ worker' = [w EXCEPT ![t] = x]
    <3>1. PICK x : x.working = TRUE /\ worker' = [w EXCEPT ![t] = x]
      BY <2>5
    <3>2. worker' = [worker EXCEPT ![t] = x]
      BY <3>1 DEF PoolInv, PoolTypeOK
    <3>3. t \in WorkingIn(worker')
      BY <1>1, <3>1, <3>2 DEF WorkingIn, PoolInv, PoolTypeOK
    <3>4. QED
      BY <1>1, <2>2, <3>1, <3>2, <3>3, FinishAndPushLemma
  <2>6. QED
    BY <2>3, <2>4, <2>5
<1>3. CASE workersState # "Running" \/ deleteNr > 0
  <2>1. worker' = w
    BY <1>3 DEF threadCachingFinished
  <2>2. CASE Restarts(w)
    <3>1. /\ filling' = TRUE /\ left' = threads' /\ started' = FALSE
          /\ UNCHANGED workersState /\ WorkingIn(w) = {}
      BY <1>3, <2>2 DEF threadCachingFinished, Restarts
    <3>2. QED
      BY <1>1, <2>1, <3>1, FinishAndStartLemma DEF PoolInv, PoolTypeOK
  <2>3. CASE ~Restarts(w)
    <3>1. \/ WorkingIn(w) = {} /\ workersState' = "Idle"
          \/ WorkingIn(w) # {} /\ workersState' = workersState
      BY <1>3, <2>3 DEF threadCachingFinished, Restarts, fillVars, WorkingIn, queueVars
    <3>2. UNCHANGED fillVars
      BY <1>3, <2>3 DEF threadCachingFinished, Restarts, fillVars, WorkingIn, queueVars
    <3>3. workersState' = "Idle" => WorkingIn(worker') = {}
      BY <1>1, <2>1, <3>1 DEF PoolInv, IdleIsQuiet, WorkingIn, PoolTypeOK, IdleWorker
    <3>4. QED
      BY <1>1, <2>1, <3>1, <3>2, <3>3, FinishLemma DEF PoolInv, PoolTypeOK, fillVars
  <2>4. QED
    BY <2>2, <2>3
<1>4. deleteNr > 0 \/ deleteNr = 0
  BY DEF threadCachingFinished
<1>5. QED
  BY <1>2, <1>3, <1>4
-----------------------------------------------------------------------------
\* What the user does.
LEMMA RecacheStep ==
    ASSUME PoolInv, NEW i \in Item, NEW clear \in BOOLEAN, itemNeedsRecache(i, clear)
    PROVE  PoolInv'
<1>1. ~filling /\ UNCHANGED <<threads, filling, left, started>>
  BY DEF itemNeedsRecache, UserOp, InEventLoop, fillVars
<1>2. workersState' = workersState \/ workersState' = "IntReqRestart"
  BY DEF itemNeedsRecache
<1>3. \/ worker' = worker
      \/ worker' = [t \in DOMAIN worker |->
                      IF worker[t].item = i /\ t \in threads
                        THEN Outdate(worker[t]) ELSE worker[t]]
  BY DEF itemNeedsRecache
<1>4. /\ worker' = [t \in Thread \cup Slot |-> worker'[t]]
      /\ \A t \in Thread : /\ worker'[t].working = worker[t].working
                           /\ worker'[t].item = worker[t].item
  <2>1. worker = [t \in Thread \cup Slot |-> worker[t]]
    BY DEF PoolInv, PoolTypeOK
  <2>2. DOMAIN worker = Thread \cup Slot
    BY <2>1
  <2>3. CASE worker' = worker
    BY <2>1, <2>3
  <2>4. CASE worker' = [t \in DOMAIN worker |->
                          IF worker[t].item = i /\ t \in threads
                            THEN Outdate(worker[t]) ELSE worker[t]]
    <3>1. worker' = [t \in Thread \cup Slot |-> worker'[t]]
      BY <2>2, <2>4
    <3>2. ASSUME NEW t \in Thread
          PROVE  /\ worker'[t].working = worker[t].working
                 /\ worker'[t].item = worker[t].item
      <4>1. worker'[t] = Outdate(worker[t]) \/ worker'[t] = worker[t]
        BY <2>2, <2>4
      <4>2. QED
        BY <4>1 DEF Outdate
    <3>3. QED
      BY <3>1, <3>2
  <2>5. QED
    BY <1>3, <2>3, <2>4
<1>5. QED
  BY <1>1, <1>2, <1>4 DEF PoolInv, PoolTypeOK, IdleIsQuiet, FillStartsQuiet,
       HoldingIsWorking, OutsiderIsIdle, WorkingIn

LEMMA SettingsStep ==
    ASSUME PoolInv, NEW s \in Settings, updateSettings(s)
    PROVE  PoolInv'
<1>1. ~filling /\ UNCHANGED <<workersState, worker, filling, left, started>>
  BY DEF updateSettings, UserOp, InEventLoop, fillVars
<1>2. \/ threads' = threads
      \/ \E R \in SUBSET (threads \ WorkingIn(worker)) : threads' = threads \ R
      \/ threads' = threads \ (threads \ WorkingIn(worker))
  BY DEF updateSettings
<1>3. QED
  BY <1>1, <1>2 DEF PoolInv, PoolTypeOK, IdleIsQuiet, FillStartsQuiet,
       HoldingIsWorking, OutsiderIsIdle, WorkingIn

LEMMA TestStep ==
    ASSUME PoolInv, testConversionSpeed
    PROVE  PoolInv'
<1>1. ~filling /\ UNCHANGED <<threads, worker>>
  BY DEF testConversionSpeed, UserOp, InEventLoop
<1>2. CASE workersState = "Idle" /\ StartCaching /\ UNCHANGED workersState
  BY <1>1, <1>2, StartCachingLemma DEF PoolInv, IdleIsQuiet
<1>3. CASE workersState' = "IntReqRestart" /\ UNCHANGED fillVars
  BY <1>1, <1>3, StateLemma DEF fillVars
<1>4. CASE UNCHANGED <<workersState, fillVars>>
  BY <1>1, <1>4, PoolUnchanged DEF pool, fillVars
<1>5. QED
  BY <1>2, <1>3, <1>4 DEF testConversionSpeed

\* The other operations leave the pool alone.
LEMMA OtherSteps ==
    ASSUME PoolInv,
           \/ \E i \in Item : SelectItem(i)
           \/ \E all \in BOOLEAN : deletePlaylistItems(all)
           \/ StartPlayback \/ StopPlayback \/ GoToNextItem \/ CancelTest
    PROVE  PoolInv'
<1>1. CASE \E i \in Item : SelectItem(i)
  BY <1>1, PoolUnchanged DEF SelectItem, pool, poolVars, fillVars
<1>2. CASE \E all \in BOOLEAN : deletePlaylistItems(all)
  BY <1>2, PoolUnchanged DEF deletePlaylistItems, pool, poolVars, fillVars
<1>3. CASE StartPlayback
  BY <1>3, PoolUnchanged DEF StartPlayback, pool, poolVars, fillVars
<1>4. CASE StopPlayback
  BY <1>4, PoolUnchanged DEF StopPlayback, pool, poolVars, fillVars
<1>5. CASE GoToNextItem
  BY <1>5, PoolUnchanged DEF GoToNextItem, pool, poolVars, fillVars
<1>6. CASE CancelTest
  BY <1>6, PoolUnchanged DEF CancelTest, pool, poolVars, fillVars
<1>7. QED
  BY <1>1, <1>2, <1>3, <1>4, <1>5, <1>6

\* Every step keeps the invariant.
LEMMA NextPool == PoolInv /\ [Next]_vars => PoolInv'
<1> SUFFICES ASSUME PoolInv, [Next]_vars
             PROVE  PoolInv'
  OBVIOUS
<1>1. CASE User
  BY <1>1, LoadStep, RecacheStep, SettingsStep, TestStep, OtherSteps DEF User
<1>2. CASE MainThread
  BY <1>2, FillStep, FillDoneStep, StartWorkerStep, ScheduleStep, WatchStep, DeleteStep
     DEF MainThread
<1>3. CASE updateTestProgress
  BY <1>3, StateLemma DEF updateTestProgress, fillVars
<1>4. CASE \E t \in Thread : CachingThread(t)
  BY <1>4, WorkStep, FinishedStep, TestFinishedStep DEF CachingThread
<1>5. CASE \E s \in Slot : InteractiveThread(s)
  BY <1>5, LoadStep DEF InteractiveThread
<1>6. CASE UNCHANGED vars
  BY <1>6, PoolUnchanged DEF vars, pool, poolVars, fillVars
<1>7. QED
  BY <1>1, <1>2, <1>3, <1>4, <1>5, <1>6 DEF Next

\* The state of the pool is well typed, and while it is Idle no thread of the pool
\* works: what scheduleCachingListUpdate, itemAboutToBeDeleted, itemNeedsRecache
\* and testConversionSpeed rely on when they find it Idle.
THEOREM PoolIsTyped == Spec => []PoolTypeOK
<1>1. PoolInv => PoolTypeOK
  BY DEF PoolInv
<1>2. QED
  BY <1>1, InitPool, NextPool, PTL DEF Spec

THEOREM IdlePoolIsQuiet == Spec => []IdleIsQuiet
<1>1. PoolInv => IdleIsQuiet
  BY DEF PoolInv
<1>2. QED
  BY <1>1, InitPool, NextPool, PTL DEF Spec
-----------------------------------------------------------------------------
(* What waits for a thread is not forgotten. A request in a slot has a     *)
(* worker that will report, an item with outdated frames stays in the list *)
(* of items to be cleared, and an interruption is honoured.                *)

\* A request that waits has a frame, so that it is started when its turn comes.
RequestInv ==
    /\ slotQueue = [s \in Slot |-> slotQueue[s]]
    /\ \A s \in Slot : slotQueue[s].item # None =>
         worker[s].working /\ slotQueue[s].frame \in Nat

\* Pushing a job to a caching thread leaves the interactive threads alone.
LEMMA PushKeepsSlots ==
    ASSUME NEW t \in Thread, NEW w, w = [x \in Thread \cup Slot |-> w[x]],
           NEW c, NEW watch, NEW play, Push(t, w, c, watch, play)
    PROVE  \A s \in Slot : worker'[s] = w[s]
<1>1. worker' = w \/ \E x : x.working = TRUE /\ worker' = [w EXCEPT ![t] = x]
  BY PushLemma
<1>2. \A s \in Slot : s # t
  BY PoolAssumption
<1>3. QED
  BY <1>1, <1>2

\* So do all steps but those of the interactive threads and of loadFrame.
LEMMA OtherStepsKeepSlots ==
    ASSUME PoolInv, [Next]_vars,
           ~ \E s \in Slot : InteractiveThread(s),
           ~ \E i \in Item, s \in Slot : \E f \in Frame \cup {NoFrame} : loadFrame(i, f, s)
    PROVE  /\ \A s \in Slot : worker'[s] = worker[s]
           /\ \/ slotQueue' = slotQueue
              \/ \E gone : slotQueue' = [s \in Slot |-> IF slotQueue[s].item \in gone
                                           THEN NoRequest ELSE slotQueue[s]]
<1> DEFINE Claim1 == \A s \in Slot : worker'[s] = worker[s]
           Claim2 == \/ slotQueue' = slotQueue
                     \/ \E gone : slotQueue' = [s \in Slot |-> IF slotQueue[s].item \in gone
                                                  THEN NoRequest ELSE slotQueue[s]]
<1>1. /\ \A s \in Slot : s \notin Thread
      /\ worker = [x \in Thread \cup Slot |-> worker[x]] /\ threads \subseteq Thread
  BY PoolAssumption DEF PoolInv, PoolTypeOK
<1>2. ASSUME NEW t \in Thread, FillThread(t) \/ StartWorkerThread(t)
      PROVE  Claim1 /\ Claim2
  <2>1. slotQueue' = slotQueue
    BY <1>2 DEF FillThread, StartWorkerThread
  <2>2. worker' = worker \/ Push(t, worker, cached, watching, playing)
    BY <1>2 DEF FillThread, StartWorkerThread
  <2>3. Claim1
    BY <1>1, <2>2, PushKeepsSlots
  <2>4. QED
    BY <2>1, <2>3
<1>3. ASSUME NEW t \in Thread, CachingThread(t)
      PROVE  Claim1 /\ Claim2
  <2> DEFINE w == [worker EXCEPT ![t] = IdleWorker]
  <2>1. w = [x \in Thread \cup Slot |-> w[x]] /\ \A s \in Slot : w[s] = worker[s]
    BY <1>1
  <2>2. CASE processCacheJobInternal(t)
    BY <1>1, <2>2 DEF processCacheJobInternal
  <2>3. CASE threadCachingFinished(t)
    <3>1. Claim2
      BY <2>3 DEF threadCachingFinished
    <3>2. worker' = w \/ \E c, watch, play : PushJob(t, w, c, watch, play)
      BY <2>3 DEF threadCachingFinished
    <3>3. worker' = w \/ \E x : worker' = [w EXCEPT ![t] = x]
      BY <3>2 DEF PushJob
    <3>4. Claim1
      BY <1>1, <2>1, <3>3
    <3>5. QED
      BY <3>1, <3>4
  <2>4. CASE TestCachingFinished(t)
    <3>1. slotQueue' = slotQueue
      BY <2>4 DEF TestCachingFinished
    <3>2. worker' = w \/ \E x : worker' = [w EXCEPT ![t] = x]
      BY <2>4 DEF TestCachingFinished, PushTestJob
    <3>3. Claim1
      BY <1>1, <2>1, <3>2
    <3>4. QED
      BY <3>1, <3>3
  <2>5. QED
    BY <1>3, <2>2, <2>3, <2>4 DEF CachingThread
<1>4. CASE \E i \in Item, clear \in BOOLEAN : itemNeedsRecache(i, clear)
  <2>1. PICK i \in Item, clear \in BOOLEAN : itemNeedsRecache(i, clear)
    BY <1>4
  <2>2. slotQueue' = slotQueue
    BY <2>1 DEF itemNeedsRecache
  <2>3. \/ worker' = worker
        \/ worker' = [t \in DOMAIN worker |->
                        IF worker[t].item = i /\ t \in threads
                          THEN Outdate(worker[t]) ELSE worker[t]]
    BY <2>1 DEF itemNeedsRecache
  <2>4. Claim1
    BY <1>1, <2>3
  <2>5. QED
    BY <2>2, <2>4
<1>5. CASE itemAboutToBeDeleted
  <2>1. worker' = worker
    BY <1>5 DEF itemAboutToBeDeleted
  <2>2. \/ slotQueue' = slotQueue
        \/ \E i : slotQueue' = [s \in Slot |-> IF slotQueue[s].item = i
                                  THEN NoRequest ELSE slotQueue[s]]
    BY <1>5 DEF itemAboutToBeDeleted
  <2>3. ASSUME NEW i, slotQueue' = [s \in Slot |-> IF slotQueue[s].item = i
                                      THEN NoRequest ELSE slotQueue[s]]
        PROVE  slotQueue' = [s \in Slot |-> IF slotQueue[s].item \in {i}
                                THEN NoRequest ELSE slotQueue[s]]
    BY <2>3
  <2>4. QED
    BY <2>1, <2>2, <2>3
<1>6. CASE UNCHANGED <<worker, slotQueue>>
  BY <1>6
<1>7. CASE FillDone \/ scheduleCachingListUpdate \/ watchItemForCachingFinished \/ TagItem
           \/ updateTestProgress \/ UNCHANGED vars
  BY <1>6, <1>7 DEF FillDone, scheduleCachingListUpdate, watchItemForCachingFinished,
     TagItem, updateTestProgress, vars
<1>8. CASE (\E i \in Item : SelectItem(i)) \/ (\E all \in BOOLEAN : deletePlaylistItems(all))
           \/ (\E s \in Settings : updateSettings(s))
  BY <1>6, <1>8 DEF SelectItem, deletePlaylistItems, updateSettings
<1>9. CASE StartPlayback \/ StopPlayback \/ GoToNextItem \/ testConversionSpeed \/ CancelTest
  BY <1>6, <1>9 DEF StartPlayback, StopPlayback, GoToNextItem, testConversionSpeed, CancelTest
<1>10. QED
  BY <1>2, <1>3, <1>4, <1>5, <1>7, <1>8, <1>9 DEF Next, User, MainThread

LEMMA LoadRequests ==
    ASSUME RequestInv, PoolInv, IndexedByFrame = Item,
           NEW i \in Item, NEW s \in Slot, NEW f \in Frame \cup {NoFrame}, loadFrame(i, f, s)
    PROVE  RequestInv'
<1>1. worker = [x \in Thread \cup Slot |-> worker[x]]
  BY DEF PoolInv, PoolTypeOK
<1>2. f \in Nat
  BY ItemAssumption DEF loadFrame, FrameRange
<1>3. CASE /\ worker[s].working /\ worker' = worker
           /\ slotQueue' = [slotQueue EXCEPT ![s] = [item |-> i, frame |-> f]]
  BY <1>2, <1>3 DEF RequestInv
<1>4. CASE worker' = [worker EXCEPT ![s] = Busy(i, f, FALSE)] /\ slotQueue' = slotQueue
  <2>1. Busy(i, f, FALSE).working
    BY DEF Busy
  <2>2. \A u \in Slot : worker[u].working => worker'[u].working
    BY <1>1, <1>4, <2>1
  <2>3. QED
    BY <1>4, <2>2 DEF RequestInv
<1>5. QED
  BY <1>3, <1>4 DEF loadFrame

LEMMA InteractiveRequests ==
    ASSUME RequestInv, PoolInv, NEW s \in Slot, InteractiveThread(s)
    PROVE  RequestInv'
<1>1. worker = [x \in Thread \cup Slot |-> worker[x]]
  BY DEF PoolInv, PoolTypeOK
<1>2. CASE processLoadingJobInternal(s)
  <2>1. worker' = [worker EXCEPT ![s] = PostedWorker] /\ slotQueue' = slotQueue
    BY <1>2 DEF processLoadingJobInternal
  <2>2. PostedWorker.working
    BY DEF PostedWorker, IdleWorker
  <2>3. \A u \in Slot : worker[u].working => worker'[u].working
    BY <1>1, <2>1, <2>2
  <2>4. QED
    BY <2>1, <2>3 DEF RequestInv
<1>3. CASE interactiveLoaderFinished(s)
  <2> DEFINE gone == Deletable(worker)
             next == IF slotQueue[s].item \in gone THEN NoRequest ELSE slotQueue[s]
             start == Loadable(next)
  <2>1. /\ worker' = [worker EXCEPT ![s] =
                        IF start THEN Busy(next.item, next.frame, FALSE) ELSE IdleWorker]
        /\ slotQueue' = [slotQueue EXCEPT ![s] = IF start THEN NoRequest ELSE next]
    BY <1>3 DEF interactiveLoaderFinished
  <2>2. slotQueue' = [u \in Slot |-> slotQueue'[u]]
    BY <2>1 DEF RequestInv
  <2>3. NoRequest.item = None
    BY DEF NoRequest
  <2>4. ASSUME NEW u \in Slot, u # s
        PROVE  worker'[u] = worker[u] /\ slotQueue'[u] = slotQueue[u]
    BY <1>1, <2>1, <2>4 DEF RequestInv
  <2>5. slotQueue'[s].item = None
    <3>1. slotQueue'[s] = IF start THEN NoRequest ELSE next
      BY <2>1 DEF RequestInv
    <3>2. next.item # None => next.frame \in Nat
      BY <2>3 DEF RequestInv
    <3>3. ~start => next.item = None
      BY <3>2 DEF Loadable
    <3>4. QED
      BY <2>3, <3>1, <3>3
  <2>6. QED
    BY <2>2, <2>4, <2>5 DEF RequestInv
<1>4. QED
  BY <1>2, <1>3 DEF InteractiveThread

\* If every item has frames, a request that waits in a slot waits for a worker
\* that will report (interactiveLoaderFinished then starts or drops it).
THEOREM RequestsAreServed ==
    IndexedByFrame = Item => (Spec => []WaitingRequestHasWorker)
<1> SUFFICES ASSUME IndexedByFrame = Item
             PROVE  Spec => []WaitingRequestHasWorker
  OBVIOUS
<1>1. Init => RequestInv
  BY DEF Init, RequestInv, NoRequest
<1>2. RequestInv /\ PoolInv /\ [Next]_vars => RequestInv'
  <2> SUFFICES ASSUME RequestInv, PoolInv, [Next]_vars
               PROVE  RequestInv'
    OBVIOUS
  <2>1. CASE \E s \in Slot : InteractiveThread(s)
    BY <2>1, InteractiveRequests
  <2>2. CASE \E i \in Item, s \in Slot : \E f \in Frame \cup {NoFrame} : loadFrame(i, f, s)
    BY <2>2, LoadRequests
  <2>3. CASE /\ ~ \E s \in Slot : InteractiveThread(s)
             /\ ~ \E i \in Item, s \in Slot : \E f \in Frame \cup {NoFrame} :
                    loadFrame(i, f, s)
    <3>1. /\ \A s \in Slot : worker'[s] = worker[s]
          /\ \/ slotQueue' = slotQueue
             \/ \E gone : slotQueue' = [s \in Slot |-> IF slotQueue[s].item \in gone
                                          THEN NoRequest ELSE slotQueue[s]]
      BY <2>3, OtherStepsKeepSlots
    <3>2. QED
      BY <3>1 DEF RequestInv, NoRequest
  <2>4. QED
    BY <2>1, <2>2, <2>3
<1>3. RequestInv => WaitingRequestHasWorker
  BY DEF RequestInv, WaitingRequestHasWorker
<1>4. QED
  BY <1>1, <1>2, <1>3, InitPool, NextPool, PTL DEF Spec
-----------------------------------------------------------------------------
\* startCaching begins with no job started.
LEMMA FillBegins ==
    ASSUME [Next]_vars, ~filling, filling'
    PROVE  started' = FALSE
<1>1. CASE \E t \in Thread : FillThread(t) \/ StartWorkerThread(t)
  BY <1>1 DEF FillThread, StartWorkerThread, fillVars
<1>2. CASE FillDone
  BY <1>2 DEF FillDone
<1>3. CASE scheduleCachingListUpdate
  BY <1>3 DEF scheduleCachingListUpdate, StartCaching, fillVars
<1>4. CASE watchItemForCachingFinished
  BY <1>4 DEF watchItemForCachingFinished, StartCaching, fillVars
<1>5. CASE TagItem \/ itemAboutToBeDeleted
  BY <1>5 DEF TagItem, itemAboutToBeDeleted, fillVars
<1>6. CASE \E t \in Thread : CachingThread(t)
  <2>1. CASE \E t \in Thread : processCacheJobInternal(t)
    BY <2>1 DEF processCacheJobInternal, fillVars
  <2>2. CASE \E t \in Thread : threadCachingFinished(t)
    BY <2>2 DEF threadCachingFinished, fillVars
  <2>3. CASE \E t \in Thread : TestCachingFinished(t)
    BY <2>3 DEF TestCachingFinished, testFinished, StartCaching, fillVars
  <2>4. QED
    BY <1>6, <2>1, <2>2, <2>3 DEF CachingThread
<1>7. CASE \E s \in Slot : InteractiveThread(s)
  BY <1>7 DEF InteractiveThread, processLoadingJobInternal, interactiveLoaderFinished, fillVars
<1>8. CASE testConversionSpeed
  BY <1>8 DEF testConversionSpeed, StartCaching, fillVars
<1>9. CASE UNCHANGED fillVars
  BY <1>9 DEF fillVars
<1>10. QED
  BY <1>1, <1>2, <1>3, <1>4, <1>5, <1>6, <1>7, <1>8, <1>9
     DEF Next, User, MainThread, loadFrame, SelectItem, deletePlaylistItems, itemNeedsRecache,
         updateSettings, StartPlayback, StopPlayback, GoToNextItem, CancelTest,
         updateTestProgress, vars

\* Outside of the loop of startCaching a caching thread gets a job only while the
\* state is Running.
LEMMA JobsAreStarted ==
    ASSUME PoolInv, [Next]_vars, NEW t \in Thread, JobStarts(t)
    PROVE  filling \/ workersState = "Running"
<1>1. /\ worker = [x \in Thread \cup Slot |-> worker[x]]
      /\ t \notin Slot /\ worker[t].item = None /\ worker'[t].item # None
      /\ IdleWorker.item = None /\ PostedWorker.item = None
  BY PoolAssumption DEF JobStarts, PoolInv, PoolTypeOK, IdleWorker, PostedWorker
<1>2. CASE \E u \in Thread : FillThread(u) \/ StartWorkerThread(u)
  BY <1>1, <1>2 DEF FillThread, StartWorkerThread
<1>3. CASE \E u \in Thread : CachingThread(u)
  <2>1. PICK u \in Thread : CachingThread(u)
    BY <1>3
  <2>2. CASE worker' = [worker EXCEPT ![u] = PostedWorker]
    BY <1>1, <2>2
  <2>3. CASE worker' = [worker EXCEPT ![u] = IdleWorker]
    BY <1>1, <2>3
  <2>4. \/ worker' = [worker EXCEPT ![u] = PostedWorker]
        \/ worker' = [worker EXCEPT ![u] = IdleWorker]
        \/ workersState = "Running"
    BY <2>1 DEF CachingThread, processCacheJobInternal, threadCachingFinished,
       TestCachingFinished
  <2>5. QED
    BY <2>2, <2>3, <2>4
<1>4. CASE \E s \in Slot : InteractiveThread(s)
  BY <1>1, <1>4 DEF InteractiveThread, processLoadingJobInternal, interactiveLoaderFinished
<1>5. CASE \E i \in Item, s \in Slot : \E f \in Frame \cup {NoFrame} : loadFrame(i, f, s)
  BY <1>1, <1>5 DEF loadFrame
<1>6. CASE \E i \in Item, clear \in BOOLEAN : itemNeedsRecache(i, clear)
  <2>1. PICK i \in Item :
          \/ worker' = worker
          \/ worker' = [x \in DOMAIN worker |->
                          IF worker[x].item = i /\ x \in threads
                            THEN Outdate(worker[x]) ELSE worker[x]]
    BY <1>6 DEF itemNeedsRecache
  <2>2. None \notin Item
    BY ItemAssumption
  <2>3. worker'[t] = worker[t]
    BY <1>1, <2>1, <2>2
  <2>4. QED
    BY <1>1, <2>3
<1>7. worker' # worker
  BY <1>1
<1>8. CASE \/ FillDone \/ scheduleCachingListUpdate \/ watchItemForCachingFinished
           \/ TagItem \/ itemAboutToBeDeleted \/ updateTestProgress \/ UNCHANGED vars
  BY <1>7, <1>8 DEF FillDone, scheduleCachingListUpdate, watchItemForCachingFinished,
     TagItem, itemAboutToBeDeleted, updateTestProgress, vars
<1>9. CASE \/ \E i \in Item : SelectItem(i)
           \/ \E all \in BOOLEAN : deletePlaylistItems(all)
           \/ \E s \in Settings : updateSettings(s)
           \/ StartPlayback \/ StopPlayback \/ GoToNextItem \/ testConversionSpeed
           \/ CancelTest
  BY <1>7, <1>9 DEF SelectItem, deletePlaylistItems, updateSettings, StartPlayback,
     StopPlayback, GoToNextItem, testConversionSpeed, CancelTest
<1>10. QED
  BY <1>2, <1>3, <1>4, <1>5, <1>6, <1>8, <1>9 DEF Next, User, MainThread

\* After itemAboutToBeDeleted, itemNeedsRecache, testConversionSpeed or
\* scheduleCachingListUpdate asked for an interruption, no job is started before
\* all threads of the pool have finished.
THEOREM InterruptionsAreHonoured == Spec => InterruptIsHonoured
<1> DEFINE A == /\ (\E t \in Thread : JobStarts(t)) => filling \/ workersState = "Running"
                /\ filling' /\ ~filling => WorkingIn(worker') = {}
<1>1. PoolInv /\ PoolInv' /\ [Next]_vars => [A]_vars
  <2> SUFFICES ASSUME PoolInv, PoolInv', [Next]_vars
               PROVE  A
    OBVIOUS
  <2>1. (\E t \in Thread : JobStarts(t)) => filling \/ workersState = "Running"
    BY JobsAreStarted
  <2>2. ASSUME filling', ~filling
        PROVE  WorkingIn(worker') = {}
    <3>1. ~started'
      BY <2>2, FillBegins
    <3>2. \A t \in threads' : ~worker'[t].working
      BY <2>2, <3>1 DEF PoolInv, FillStartsQuiet, WorkingIn
    <3>3. \A t \in Thread \ threads' : ~worker'[t].working
      BY DEF PoolInv, OutsiderIsIdle
    <3>4. threads \subseteq Thread
      BY DEF PoolInv, PoolTypeOK
    <3>5. QED
      BY <3>2, <3>3, <3>4 DEF WorkingIn
  <2>3. QED
    BY <2>1, <2>2
<1>2. QED
  BY <1>1, InitPool, NextPool, PTL DEF Spec, InterruptIsHonoured
-----------------------------------------------------------------------------
\* A worker that caches an item as it was before its last change is known: when
\* it is done the item is cleared.
OldIsToBeCleared ==
    \A t \in Thread : worker[t].old =>
        worker[t].item \in itemsToClear /\ worker[t].item # None

OutdatedInv == OldIsToBeCleared /\ OutdatedIsCleared

\* A step that changes neither list keeps this if the workers at most get new jobs.
LEMMA OutdatedKept ==
    ASSUME OutdatedInv, UNCHANGED <<outdated, itemsToClear>>,
           \A t \in Thread : worker'[t].old => worker'[t] = worker[t]
    PROVE  OutdatedInv'
BY DEF OutdatedInv, OldIsToBeCleared, OutdatedIsCleared

\* A job that is pushed caches the item as it is now.
LEMMA PushedIsNew ==
    ASSUME PoolInv, NEW t \in Thread, NEW w, w = [x \in Thread \cup Slot |-> w[x]],
           \/ \E c, watch, play : Push(t, w, c, watch, play)
           \/ \E c, watch, play : PushJob(t, w, c, watch, play)
           \/ PushTestJob(t, w)
    PROVE  \A u \in Thread : worker'[u].old => worker'[u] = w[u]
<1>1. worker' = w \/ \E i, f, b : worker' = [w EXCEPT ![t] = Busy(i, f, b)]
  BY DEF Push, PushJob, PushTestJob
<1>2. \A i, f, b : Busy(i, f, b).old = FALSE
  BY DEF Busy
<1>3. QED
  BY <1>1, <1>2

LEMMA WorkerOutdated ==
    ASSUME PoolInv, OutdatedInv, NEW t \in Thread, CachingThread(t)
    PROVE  OutdatedInv'
<1> DEFINE w == [worker EXCEPT ![t] = IdleWorker]
<1>1. /\ worker = [x \in Thread \cup Slot |-> worker[x]]
      /\ w = [x \in Thread \cup Slot |-> w[x]] /\ w[t] = IdleWorker
      /\ \A u \in Thread : u # t => w[u] = worker[u]
      /\ IdleWorker.old = FALSE /\ PostedWorker.old = FALSE
  BY DEF PoolInv, PoolTypeOK, IdleWorker, PostedWorker
<1>2. CASE processCacheJobInternal(t)
  <2>1. /\ worker' = [worker EXCEPT ![t] = PostedWorker] /\ itemsToClear' = itemsToClear
        /\ outdated' = outdated \/ (worker[t].old /\ outdated' = outdated \cup {worker[t].item})
    BY <1>2 DEF processCacheJobInternal, listVars
  <2>2. \A u \in Thread : worker'[u].old => worker'[u] = worker[u]
    BY <1>1, <2>1
  <2>3. QED
    BY <2>1, <2>2 DEF OutdatedInv, OldIsToBeCleared, OutdatedIsCleared
<1>3. CASE threadCachingFinished(t)
  <2> DEFINE clear == Clearable(w)
  <2>1. itemsToClear' = itemsToClear \ clear /\ outdated' = outdated \ clear
    BY <1>3 DEF threadCachingFinished
  <2>2. worker' = w \/ \E c, watch, play : PushJob(t, w, c, watch, play)
    BY <1>3 DEF threadCachingFinished
  <2>3. \A u \in Thread : worker'[u].old => worker'[u] = worker[u] /\ u # t
    <3>1. \A u \in Thread : worker'[u].old => worker'[u] = w[u]
      <4> HIDE DEF w
      <4>1. QED
        BY <1>1, <2>2, PushedIsNew
    <3>2. QED
      BY <1>1, <3>1
  <2>4. ASSUME NEW u \in Thread, worker'[u].old
        PROVE  worker'[u].item \in itemsToClear \ clear /\ worker'[u].item # None
    <3>1. worker'[u] = worker[u] /\ u # t /\ worker[u].old
      BY <2>3, <2>4
    <3>2. worker[u].item \in itemsToClear /\ worker[u].item # None
      BY <3>1 DEF OutdatedInv, OldIsToBeCleared
    <3>3. u \in threads
      BY <3>2 DEF PoolInv, HoldingIsWorking, OutsiderIsIdle
    <3>4. u \in CachedBy(worker[u].item, w)
      BY <1>1, <3>1, <3>3 DEF CachedBy
    <3>5. worker[u].item \notin clear
      BY <3>4 DEF Clearable
    <3>6. QED
      BY <3>1, <3>2, <3>5
  <2>5. QED
    BY <2>1, <2>4 DEF OutdatedInv, OldIsToBeCleared, OutdatedIsCleared
<1>4. CASE TestCachingFinished(t)
  <2>1. UNCHANGED <<outdated, itemsToClear>>
    BY <1>4 DEF TestCachingFinished, listVars
  <2>2. worker' = w \/ PushTestJob(t, w)
    BY <1>4 DEF TestCachingFinished
  <2>3. \A u \in Thread : worker'[u].old => worker'[u] = w[u]
    <3> HIDE DEF w
    <3>1. QED
      BY <1>1, <2>2, PushedIsNew
  <2>4. \A u \in Thread : worker'[u].old => worker'[u] = worker[u]
    BY <1>1, <2>3
  <2>5. QED
    BY <2>1, <2>4, OutdatedKept
<1>5. QED
  BY <1>2, <1>3, <1>4 DEF CachingThread

\* An item changes: what is cached of it is cleared, now or when the threads that
\* are at it are done.
LEMMA RecacheOutdated ==
    ASSUME PoolInv, OutdatedInv, NEW i \in Item, NEW clear \in BOOLEAN,
           itemNeedsRecache(i, clear)
    PROVE  OutdatedInv'
<1> DEFINE held == workersState # "Idle" /\ CachedBy(i, worker) # {}
           next == [t \in DOMAIN worker |-> IF worker[t].item = i /\ t \in threads
                                             THEN Outdate(worker[t]) ELSE worker[t]]
<1>1. /\ worker = [x \in Thread \cup Slot |-> worker[x]] /\ DOMAIN worker = Thread \cup Slot
      /\ threads \subseteq Thread /\ i # None /\ ~filling
  BY ItemAssumption DEF PoolInv, PoolTypeOK, itemNeedsRecache, UserOp, InEventLoop
<1>2. CASE UNCHANGED <<worker, outdated, itemsToClear>>
  BY <1>2, OutdatedKept
<1>3. CASE /\ worker' = next /\ held /\ itemsToClear' = itemsToClear \cup {i}
           /\ outdated' = outdated \/ outdated' = outdated \cup {i}
  <2>1. \A t \in Thread : \/ worker'[t] = worker[t]
                          \/ worker[t].item = i /\ worker'[t] = Outdate(worker[t])
    BY <1>1, <1>3
  <2>2. \A t \in Thread : worker'[t] = Outdate(worker[t]) => worker'[t].item = worker[t].item
    BY DEF Outdate
  <2>3. QED
    BY <1>1, <1>3, <2>1, <2>2 DEF OutdatedInv, OldIsToBeCleared, OutdatedIsCleared
<1>4. CASE /\ worker' = next /\ ~held /\ itemsToClear' = itemsToClear
           /\ outdated' = outdated \ {i}
  <2>1. \A t \in threads : worker[t].item # i
    <3>1. CASE workersState = "Idle"
      BY <1>1, <3>1 DEF PoolInv, IdleIsQuiet, HoldingIsWorking, WorkingIn
    <3>2. CASE workersState # "Idle"
      BY <1>4, <3>2 DEF CachedBy
    <3>3. QED
      BY <3>1, <3>2
  <2>2. \A t \in Thread : worker'[t] = worker[t]
    BY <1>1, <1>4, <2>1
  <2>3. QED
    BY <1>4, <2>2 DEF OutdatedInv, OldIsToBeCleared, OutdatedIsCleared
<1>5. QED
  BY <1>2, <1>3, <1>4 DEF itemNeedsRecache

\* The other steps.
LEMMA OtherOutdated ==
    ASSUME PoolInv, OutdatedInv, [Next]_vars,
           ~ \E t \in Thread : CachingThread(t),
           ~ \E i \in Item, clear \in BOOLEAN : itemNeedsRecache(i, clear)
    PROVE  OutdatedInv'
<1>1. /\ worker = [x \in Thread \cup Slot |-> worker[x]]
      /\ \A t \in Thread : t \notin Slot
  BY PoolAssumption DEF PoolInv, PoolTypeOK
<1>2. ASSUME NEW t \in Thread, FillThread(t) \/ StartWorkerThread(t)
      PROVE  OutdatedInv'
  <2>1. UNCHANGED <<outdated, itemsToClear>>
    BY <1>2 DEF FillThread, StartWorkerThread, listVars
  <2>2. worker' = worker \/ \E c, watch, play : Push(t, worker, c, watch, play)
    BY <1>2 DEF FillThread, StartWorkerThread
  <2>3. \A u \in Thread : worker'[u].old => worker'[u] = worker[u]
    BY <1>1, <2>2, PushedIsNew
  <2>4. QED
    BY <2>1, <2>3, OutdatedKept
<1>3. ASSUME NEW s \in Slot,
             \/ InteractiveThread(s)
             \/ \E i \in Item, f \in Frame \cup {NoFrame} : loadFrame(i, f, s)
      PROVE  OutdatedInv'
  <2>1. UNCHANGED <<outdated, itemsToClear>>
    BY <1>3 DEF InteractiveThread, processLoadingJobInternal, interactiveLoaderFinished,
       loadFrame, cacheVars, listVars
  <2>2. worker' = worker \/ \E x : worker' = [worker EXCEPT ![s] = x]
    BY <1>3 DEF InteractiveThread, processLoadingJobInternal, interactiveLoaderFinished,
       loadFrame
  <2>3. \A u \in Thread : worker'[u] = worker[u]
    BY <1>1, <2>2
  <2>4. QED
    BY <2>1, <2>3, OutdatedKept
<1>4. CASE UNCHANGED <<worker, outdated, itemsToClear>>
  BY <1>4, OutdatedKept
<1>5. CASE \/ FillDone \/ scheduleCachingListUpdate \/ watchItemForCachingFinished
           \/ TagItem \/ itemAboutToBeDeleted \/ updateTestProgress \/ UNCHANGED vars
  BY <1>4, <1>5 DEF FillDone, scheduleCachingListUpdate, watchItemForCachingFinished,
     TagItem, itemAboutToBeDeleted, updateTestProgress, vars, cacheVars, listVars
<1>6. CASE \/ \E i \in Item : SelectItem(i)
           \/ \E all \in BOOLEAN : deletePlaylistItems(all)
           \/ \E s \in Settings : updateSettings(s)
           \/ StartPlayback \/ StopPlayback \/ GoToNextItem \/ testConversionSpeed
           \/ CancelTest
  BY <1>4, <1>6 DEF SelectItem, deletePlaylistItems, updateSettings, StartPlayback,
     StopPlayback, GoToNextItem, testConversionSpeed, CancelTest, cacheVars, listVars
<1>7. QED
  BY <1>2, <1>3, <1>5, <1>6 DEF Next, User, MainThread

\* Frames from before a change of an item never stay in the cache unnoticed, though
\* itemNeedsRecache may come at any moment of a worker and the list is looked at by
\* threadCachingFinished only.
THEOREM OutdatedFramesAreCleared == Spec => []OutdatedIsCleared
<1>1. Init => OutdatedInv
  BY DEF Init, OutdatedInv, OldIsToBeCleared, OutdatedIsCleared, IdleWorker
<1>2. OutdatedInv /\ PoolInv /\ [Next]_vars => OutdatedInv'
  <2> SUFFICES ASSUME OutdatedInv, PoolInv, [Next]_vars
               PROVE  OutdatedInv'
    OBVIOUS
  <2>1. QED
    BY WorkerOutdated, RecacheOutdated, OtherOutdated
<1>3. OutdatedInv => OutdatedIsCleared
  BY DEF OutdatedInv
<1>4. QED
  BY <1>1, <1>2, <1>3, InitPool, NextPool, PTL DEF Spec
-----------------------------------------------------------------------------
(* The thread limit of an item is kept, for any number of threads and any  *)
(* limits, with the conversion test and with changes of the number of      *)
(* threads.                                                                *)

\* The threads that cache an item outside of the test.
HoldersOf(i) == {t \in threads : worker[t].item = i /\ ~worker[t].test}

LimitHolds(i, S) == ThreadLimit[i] # -1 => Cardinality(S) <= ThreadLimit[i]

\* The holders are among those of before.
FewerHolders == \A i \in Item : HoldersOf(i)' \subseteq HoldersOf(i)
-----------------------------------------------------------------------------
LEMMA LimitIsOfHolders == ThreadLimitKept <=> \A i \in Item : LimitHolds(i, HoldersOf(i))
BY DEF ThreadLimitKept, LimitHolds, HoldersOf

LEMMA HoldersAreFinite ==
    ASSUME PoolInv, NEW i
    PROVE  IsFiniteSet(HoldersOf(i))
BY PoolAssumption, FS_Subset DEF PoolInv, PoolTypeOK, HoldersOf

LEMMA FewerKeepLimit ==
    ASSUME PoolInv, ThreadLimitKept, FewerHolders
    PROVE  ThreadLimitKept'
<1>1. ASSUME NEW i \in Item
      PROVE  LimitHolds(i, HoldersOf(i)')
  <2> DEFINE S == HoldersOf(i)
             T == HoldersOf(i)'
  <2>1. IsFiniteSet(S) /\ T \in SUBSET S
    BY HoldersAreFinite DEF FewerHolders
  <2>2. LimitHolds(i, S)
    BY LimitIsOfHolders
  <2> HIDE DEF S, T
  <2>3. Cardinality(T) <= Cardinality(S) /\ Cardinality(T) \in Nat /\ Cardinality(S) \in Nat
    BY <2>1, FS_Subset, FS_CardinalityType
  <2>4. ThreadLimit[i] \in Int
    BY ItemAssumption
  <2>5. LimitHolds(i, T)
    BY <2>2, <2>3, <2>4 DEF LimitHolds
  <2>6. QED
    BY <2>5 DEF T
<1>2. QED
  BY <1>1, LimitIsOfHolders DEF ThreadLimitKept, LimitHolds, HoldersOf

\* A thread that holds an item works, and is in the pool.
LEMMA HolderWorks ==
    ASSUME PoolInv, NEW t \in Thread, worker[t].item # None
    PROVE  t \in WorkingIn(worker)
BY DEF PoolInv, HoldingIsWorking, OutsiderIsIdle, WorkingIn, PoolTypeOK

\* Every worker is as before, or holds nothing.
Freed(w) == /\ w = [u \in Thread \cup Slot |-> w[u]]
            /\ \A u \in Thread : w[u] = worker[u] \/ w[u].item = None

LEMMA FreedHolders ==
    ASSUME PoolInv, NEW w, Freed(w), worker' = w,
           threads' \subseteq Thread
    PROVE  FewerHolders
<1>1. SUFFICES ASSUME NEW i \in Item, NEW u \in threads', w[u].item = i, ~w[u].test
               PROVE  u \in HoldersOf(i)
  BY DEF FewerHolders, HoldersOf
<1>2. i # None /\ u \in Thread
  BY <1>1, ItemAssumption
<1>3. w[u] = worker[u]
  BY <1>1, <1>2 DEF Freed
<1>4. u \in threads
  BY <1>1, <1>2, <1>3, HolderWorks DEF WorkingIn
<1>5. QED
  BY <1>1, <1>3, <1>4 DEF HoldersOf

\* A thread gets a job: only of an item that has not reached its limit.
LEMMA JobKeepsLimit ==
    ASSUME PoolInv, ThreadLimitKept, NEW t \in Thread, NEW w, Freed(w),
           NEW c, NEW watch, NEW play, PushJob(t, w, c, watch, play),
           threads' \subseteq threads \cup {t}
    PROVE  ThreadLimitKept'
<1>1. threads' \subseteq Thread /\ threads \subseteq Thread
  BY DEF PoolInv, PoolTypeOK
<1>2. CASE worker' = w
  BY <1>1, <1>2, FreedHolders, FewerKeepLimit
<1>3. ASSUME NEW job, Startable(job, w), NEW f,
             worker' = [w EXCEPT ![t] = Busy(job.item, f, FALSE)]
      PROVE  ThreadLimitKept'
  <2> DEFINE W(i) == {u \in threads : w[u].item = i /\ ~w[u].test}
  <2>1. \A i \in Item : W(i) \subseteq HoldersOf(i)
    BY <1>1, ItemAssumption DEF Freed, HoldersOf
  <2>2. \A u \in Thread \ {t} : worker'[u] = w[u]
    BY <1>3 DEF Freed
  <2>3. worker'[t].item = job.item
    BY <1>3 DEF Freed, Busy
  <2>4. ASSUME NEW i \in Item, i # job.item
        PROVE  LimitHolds(i, HoldersOf(i)')
    <3> DEFINE S == HoldersOf(i)
               T == HoldersOf(i)'
    <3>1. T \in SUBSET S
      BY <1>1, <2>1, <2>2, <2>3, <2>4 DEF HoldersOf
    <3>2. IsFiniteSet(S) /\ LimitHolds(i, S)
      BY HoldersAreFinite, LimitIsOfHolders
    <3> HIDE DEF S, T
    <3>3. Cardinality(T) <= Cardinality(S) /\ Cardinality(T) \in Nat /\ Cardinality(S) \in Nat
      BY <3>1, <3>2, FS_Subset, FS_CardinalityType
    <3>4. ThreadLimit[i] \in Int
      BY ItemAssumption
    <3>5. LimitHolds(i, T)
      BY <3>2, <3>3, <3>4 DEF LimitHolds
    <3>6. QED
      BY <3>5 DEF T
  <2>5. ASSUME NEW i \in Item, i = job.item
        PROVE  LimitHolds(i, HoldersOf(i)')
    <3> DEFINE S == {u \in WorkingIn(w) : w[u].item = i}
               T == HoldersOf(i)'
    <3>1. ThreadLimit[i] = -1 \/ Cardinality(S) < ThreadLimit[i]
      BY <1>3, <2>5 DEF Startable
    <3>2. IsFiniteSet(S)
      BY <1>1, PoolAssumption, FS_Subset DEF WorkingIn
    <3>3. T \in SUBSET (S \cup {t})
      <4>1. ASSUME NEW u \in T, u # t
            PROVE  u \in S
        <5>1. u \in threads /\ w[u].item = i /\ u \in Thread
          BY <1>1, <2>2, <4>1 DEF HoldersOf
        <5>2. w[u] = worker[u] /\ worker[u].item # None
          BY <5>1, ItemAssumption DEF Freed
        <5>3. worker[u].working
          BY <5>1, <5>2, HolderWorks DEF WorkingIn
        <5>4. QED
          BY <5>1, <5>2, <5>3 DEF WorkingIn
      <4>2. QED
        BY <4>1
    <3> HIDE DEF S, T
    <3>4. IsFiniteSet(S \cup {t}) /\ Cardinality(S \cup {t}) <= Cardinality(S) + 1
          /\ Cardinality(S) \in Nat /\ Cardinality(S \cup {t}) \in Nat
      <4>1. Cardinality(S) \in Nat
        BY <3>2, FS_CardinalityType
      <4>2. /\ IsFiniteSet(S \cup {t})
            /\ Cardinality(S \cup {t}) = IF t \in S THEN Cardinality(S) ELSE Cardinality(S) + 1
        BY <3>2, FS_AddElement
      <4>3. QED
        BY <4>1, <4>2
    <3>5. Cardinality(T) <= Cardinality(S \cup {t}) /\ Cardinality(T) \in Nat
      BY <3>3, <3>4, FS_Subset, FS_CardinalityType
    <3>6. ThreadLimit[i] \in Int
      BY ItemAssumption
    <3>7. LimitHolds(i, T)
      BY <3>1, <3>4, <3>5, <3>6 DEF LimitHolds
    <3>8. QED
      BY <3>7 DEF T
  <2>6. \A i \in Item : LimitHolds(i, HoldersOf(i)')
    BY <2>4, <2>5
  <2>7. QED
    BY <2>6 DEF ThreadLimitKept, LimitHolds, HoldersOf
<1>4. worker' = w \/ \E job, f : /\ Startable(job, w)
                                 /\ worker' = [w EXCEPT ![t] = Busy(job.item, f, FALSE)]
  BY DEF PushJob
<1>5. QED
  BY <1>2, <1>3, <1>4

\* A job of the conversion test does not count.
LEMMA TestJobKeepsLimit ==
    ASSUME PoolInv, ThreadLimitKept, NEW t \in Thread, NEW w, Freed(w), PushTestJob(t, w),
           threads' \subseteq threads \cup {t}
    PROVE  ThreadLimitKept'
<1>1. threads' \subseteq Thread /\ threads \subseteq Thread
  BY DEF PoolInv, PoolTypeOK
<1>2. PICK f : worker' = [w EXCEPT ![t] = Busy(testItem, f, TRUE)]
  BY DEF PushTestJob
<1>3. worker'[t].test = TRUE /\ \A u \in Thread \ {t} : worker'[u] = w[u]
  BY <1>2 DEF Freed, Busy
<1>4. FewerHolders
  <2>1. None \notin Item
    BY ItemAssumption
  <2>2. QED
    BY <1>1, <1>3, <2>1 DEF FewerHolders, HoldersOf, Freed
<1>5. QED
  BY <1>4, FewerKeepLimit

LEMMA PushKeepsLimit ==
    ASSUME PoolInv, ThreadLimitKept, NEW t \in Thread,
           Push(t, worker, cached, watching, playing), threads' \subseteq threads \cup {t}
    PROVE  ThreadLimitKept'
<1>1. Freed(worker)
  BY DEF PoolInv, PoolTypeOK, Freed
<1>2. CASE testMode
  BY <1>1, <1>2, TestJobKeepsLimit DEF Push
<1>3. CASE ~testMode
  <2>1. PushJob(t, worker, cached, watching, playing)
    BY <1>3 DEF Push
  <2>2. QED
    BY <1>1, <2>1, JobKeepsLimit
<1>4. QED
  BY <1>2, <1>3
-----------------------------------------------------------------------------
\* Steps that give no job to a thread of the pool.
LEMMA SameHolders ==
    ASSUME PoolInv, ThreadLimitKept, threads' \subseteq threads,
           \A t \in Thread : worker'[t].item = worker[t].item /\ worker'[t].test = worker[t].test
    PROVE  ThreadLimitKept'
<1>1. threads \subseteq Thread
  BY DEF PoolInv, PoolTypeOK
<1>2. FewerHolders
  BY <1>1 DEF FewerHolders, HoldersOf
<1>3. QED
  BY <1>2, FewerKeepLimit

LEMMA UnchangedLimit ==
    ASSUME PoolInv, ThreadLimitKept, UNCHANGED <<threads, worker>>
    PROVE  ThreadLimitKept'
BY SameHolders

LEMMA WorkLimit ==
    ASSUME PoolInv, ThreadLimitKept, NEW t \in Thread, processCacheJobInternal(t)
    PROVE  ThreadLimitKept'
<1> DEFINE w == [worker EXCEPT ![t] = PostedWorker]
<1>1. worker' = w /\ threads' = threads
  BY DEF processCacheJobInternal, poolVars
<1>2. Freed(w)
  BY DEF Freed, PoolInv, PoolTypeOK, PostedWorker, IdleWorker
<1>3. threads' \subseteq Thread
  BY <1>1 DEF PoolInv, PoolTypeOK
<1> HIDE DEF w
<1>4. FewerHolders
  BY <1>1, <1>2, <1>3, FreedHolders
<1>5. QED
  BY <1>4, FewerKeepLimit

LEMMA SlotLimit ==
    ASSUME PoolInv, ThreadLimitKept, NEW s \in Slot,
           InteractiveThread(s) \/ \E i \in Item, f \in Frame \cup {NoFrame} : loadFrame(i, f, s)
    PROVE  ThreadLimitKept'
<1>1. threads' = threads
  BY DEF InteractiveThread, processLoadingJobInternal, interactiveLoaderFinished, loadFrame,
     poolVars
<1>2. worker' = worker \/ \E x : worker' = [worker EXCEPT ![s] = x]
  BY DEF InteractiveThread, processLoadingJobInternal, interactiveLoaderFinished, loadFrame
<1>3. \A t \in Thread : worker'[t] = worker[t]
  BY <1>2, PoolAssumption DEF PoolInv, PoolTypeOK
<1>4. QED
  BY <1>1, <1>3, SameHolders

\* The signal of a thread: it may be removed, or get another job.
LEMMA FinishedLimit ==
    ASSUME PoolInv, ThreadLimitKept, NEW t \in Thread,
           threadCachingFinished(t) \/ TestCachingFinished(t)
    PROVE  ThreadLimitKept'
<1> DEFINE w == [worker EXCEPT ![t] = IdleWorker]
<1>1. Freed(w)
  BY DEF Freed, PoolInv, PoolTypeOK, IdleWorker
<1>2. threads' \subseteq threads /\ threads' \subseteq Thread /\ threads' \subseteq threads \cup {t}
  BY DEF threadCachingFinished, TestCachingFinished, poolVars, PoolInv, PoolTypeOK
<1>3. \/ worker' = w \/ PushTestJob(t, w)
      \/ \E c, watch, play : PushJob(t, w, c, watch, play)
  <2>1. CASE threadCachingFinished(t)
    <3>1. \/ worker' = w
          \/ PushJob(t, w, [i \in Item |-> IF i \in Clearable(w) THEN {} ELSE cached[i]],
                     watching', playMode' # "Stopped")
      BY <2>1, Zenon DEF threadCachingFinished
    <3> HIDE DEF w
    <3>2. QED
      BY <3>1
  <2>2. CASE TestCachingFinished(t)
    BY <2>2, Zenon DEF TestCachingFinished
  <2>3. QED
    BY <2>1, <2>2
<1> HIDE DEF w
<1>4. CASE worker' = w
  BY <1>1, <1>2, <1>4, FreedHolders, FewerKeepLimit
<1>5. CASE PushTestJob(t, w)
  BY <1>1, <1>2, <1>5, TestJobKeepsLimit
<1>6. ASSUME NEW c, NEW watch, NEW play, PushJob(t, w, c, watch, play)
      PROVE  ThreadLimitKept'
  BY <1>1, <1>2, <1>6, JobKeepsLimit
<1>7. QED
  BY <1>3, <1>4, <1>5, <1>6

LEMMA RecacheLimit ==
    ASSUME PoolInv, ThreadLimitKept, NEW i \in Item, NEW clear \in BOOLEAN,
           itemNeedsRecache(i, clear)
    PROVE  ThreadLimitKept'
<1>1. DOMAIN worker = Thread \cup Slot /\ threads' = threads
  BY DEF PoolInv, PoolTypeOK, itemNeedsRecache
<1>2. \/ worker' = worker
      \/ worker' = [t \in DOMAIN worker |->
                      IF worker[t].item = i /\ t \in threads
                        THEN Outdate(worker[t]) ELSE worker[t]]
  BY DEF itemNeedsRecache
<1>3. \A t \in Thread : worker'[t] = worker[t] \/ worker'[t] = Outdate(worker[t])
  BY <1>1, <1>2
<1>4. \A t \in Thread : /\ Outdate(worker[t]).item = worker[t].item
                        /\ Outdate(worker[t]).test = worker[t].test
  BY DEF Outdate
<1>5. QED
  BY <1>1, <1>3, <1>4, SameHolders

LEMMA OtherLimit ==
    ASSUME PoolInv, ThreadLimitKept,
           \/ \E i \in Item : SelectItem(i)
           \/ \E all \in BOOLEAN : deletePlaylistItems(all)
           \/ \E s \in Settings : updateSettings(s)
           \/ StartPlayback \/ StopPlayback \/ GoToNextItem
           \/ testConversionSpeed \/ CancelTest \/ updateTestProgress
           \/ FillDone \/ scheduleCachingListUpdate \/ watchItemForCachingFinished
           \/ TagItem \/ itemAboutToBeDeleted
    PROVE  ThreadLimitKept'
<1>1. CASE \E s \in Settings : updateSettings(s)
  <2>1. threads' \subseteq threads /\ worker' = worker
    BY <1>1 DEF updateSettings
  <2>2. QED
    BY <2>1, SameHolders
<1>2. CASE \/ \E i \in Item : SelectItem(i)
           \/ \E all \in BOOLEAN : deletePlaylistItems(all)
           \/ StartPlayback \/ StopPlayback \/ GoToNextItem
  BY <1>2, UnchangedLimit DEF SelectItem, deletePlaylistItems, StartPlayback, StopPlayback,
     GoToNextItem, poolVars
<1>3. CASE testConversionSpeed \/ CancelTest \/ updateTestProgress \/ FillDone
  BY <1>3, UnchangedLimit DEF testConversionSpeed, CancelTest, updateTestProgress, FillDone,
     poolVars
<1>4. CASE \/ scheduleCachingListUpdate \/ watchItemForCachingFinished
           \/ TagItem \/ itemAboutToBeDeleted
  BY <1>4, UnchangedLimit DEF scheduleCachingListUpdate, watchItemForCachingFinished, TagItem,
     itemAboutToBeDeleted, poolVars
<1>5. QED
  BY <1>1, <1>2, <1>3, <1>4

LEMMA FillLimit ==
    ASSUME PoolInv, ThreadLimitKept, NEW t \in Thread, FillThread(t) \/ StartWorkerThread(t)
    PROVE  ThreadLimitKept'
<1>1. CASE FillThread(t)
  <2>1. Push(t, worker, cached, watching, playing) /\ threads' \subseteq threads \cup {t}
    BY <1>1 DEF FillThread, poolVars
  <2>2. QED
    BY <2>1, PushKeepsLimit
<1>2. CASE StartWorkerThread(t)
  <2>1. threads' = threads \cup {t} /\ t \notin threads
    BY <1>2 DEF StartWorkerThread
  <2>2. CASE workersState = "Running"
    <3>1. Push(t, worker, cached, watching, playing)
      BY <1>2, <2>2 DEF StartWorkerThread
    <3>2. threads' \subseteq threads \cup {t}
      BY <2>1
    <3>3. QED
      BY <3>1, <3>2, PushKeepsLimit
  <2>3. CASE workersState # "Running"
    <3>1. worker' = worker
      BY <1>2, <2>3 DEF StartWorkerThread
    <3>2. Freed(worker) /\ threads' \subseteq Thread
      BY <2>1 DEF PoolInv, PoolTypeOK, Freed
    <3>3. QED
      BY <3>1, <3>2, FreedHolders, FewerKeepLimit
  <2>4. QED
    BY <2>2, <2>3
<1>3. QED
  BY <1>1, <1>2

\* Startable looks at the limit while other threads finish, the number of threads
\* changes and new plans are made. The limit holds all the same: an item with a
\* limit is never cached by more threads.
THEOREM LimitsAreKept == Spec => []ThreadLimitKept
<1>1. Init => ThreadLimitKept
  <2> SUFFICES ASSUME Init
               PROVE  ThreadLimitKept
    OBVIOUS
  <2>1. \A i \in Item : HoldersOf(i) = {}
    BY DEF Init, HoldersOf
  <2>2. Cardinality({}) = 0 /\ \A i \in Item : ThreadLimit[i] \in Nat \cup {-1}
    BY FS_EmptySet, ItemAssumption
  <2>3. \A i \in Item : LimitHolds(i, HoldersOf(i))
    BY <2>1, <2>2 DEF LimitHolds
  <2>4. QED
    BY <2>3, LimitIsOfHolders
<1>2. PoolInv /\ ThreadLimitKept /\ [Next]_vars => ThreadLimitKept'
  <2> SUFFICES ASSUME PoolInv, ThreadLimitKept, [Next]_vars
               PROVE  ThreadLimitKept'
    OBVIOUS
  <2>1. CASE User
    BY <2>1, SlotLimit, RecacheLimit, OtherLimit DEF User
  <2>2. CASE MainThread
    BY <2>2, FillLimit, OtherLimit DEF MainThread
  <2>3. CASE updateTestProgress
    BY <2>3, OtherLimit
  <2>4. CASE \E t \in Thread : CachingThread(t)
    BY <2>4, WorkLimit, FinishedLimit DEF CachingThread
  <2>5. CASE \E s \in Slot : InteractiveThread(s)
    BY <2>5, SlotLimit
  <2>6. CASE UNCHANGED vars
    BY <2>6, UnchangedLimit DEF vars, poolVars
  <2>7. QED
    BY <2>1, <2>2, <2>3, <2>4, <2>5, <2>6 DEF Next
<1>3. QED
  BY <1>1, <1>2, InitPool, NextPool, PTL DEF Spec
-----------------------------------------------------------------------------

CallType == [op: {"schedule", "watch", "tag", "aboutToBeDeleted"}, item: Item \cup {None}]

\* The items in the tree; one of them is selected, or none.
PlaylistTypeOK ==
    /\ listed \subseteq {Order[k] : k \in DOMAIN Order}
    /\ selected \in listed \cup {None}
    /\ settings \in Settings
    /\ calls \in Seq(CallType)

\* An item that is going to be deleted is not selected, or is tagged just before.
DeletedIsTaggedFirst ==
    \A k \in DOMAIN calls : calls[k].op = "aboutToBeDeleted" =>
        /\ calls[k].item \in Item
        /\ \/ selected # calls[k].item
           \/ k # 1 /\ calls[k - 1].op = "tag" /\ calls[k - 1].item = calls[k].item

\* The cache is told to watch the selected item, and nothing else comes after that;
\* at most a new plan comes before.
WatchComesLast ==
    \A k \in DOMAIN calls : calls[k].op = "watch" =>
        /\ calls[k].item = selected /\ k = Len(calls)
        /\ k = 1 \/ (k = 2 /\ calls[1].op = "schedule")

\* Playback that waits is watched, or will be before the event loop is reached.
WaitInv ==
    playMode = "WaitingForCache" =>
        /\ selected # None
        /\ watching = selected \/ \E k \in DOMAIN calls : calls[k].op = "watch"

PlaylistInv == PlaylistTypeOK /\ DeletedIsTaggedFirst /\ WatchComesLast /\ WaitInv
-----------------------------------------------------------------------------
\* The items in the tree, as a list, are items of the playlist in the tree.
LEMMA ItemListLemma ==
    ASSUME NEW inTree, inTree \subseteq {Order[k] : k \in DOMAIN Order}
    PROVE  /\ ItemList(inTree) \in Seq(inTree)
           /\ \A i \in inTree : \E p \in DOMAIN ItemList(inTree) : ItemList(inTree)[p] = i
<1> DEFINE K == {k \in DOMAIN Order : Order[k] \in inTree}
<1>1. Order \in Seq(Item)
  BY ItemAssumption
<1>2. {Order[k] : k \in K \cap DOMAIN Order} = inTree
  OBVIOUS
<1>3. ItemList(inTree) = Part(Order, K)
  BY DEF ItemList, Those
<1> HIDE DEF K
<1>4. /\ Part(Order, K) \in Seq({Order[k] : k \in K \cap DOMAIN Order})
      /\ \A k \in K \cap DOMAIN Order :
           \E n \in DOMAIN Part(Order, K) : Part(Order, K)[n] = Order[k]
  BY <1>1, PartLemma
<1>5. QED
  BY <1>2, <1>3, <1>4

\* The list of calls without the first one.
LEMMA TailOfCalls ==
    ASSUME PlaylistTypeOK, calls # <<>>
    PROVE  /\ Len(calls) \in Nat /\ Len(calls) > 0 /\ DOMAIN calls = 1 .. Len(calls)
           /\ Head(calls) = calls[1]
           /\ Tail(calls) \in Seq(CallType) /\ Len(Tail(calls)) = Len(calls) - 1
           /\ DOMAIN Tail(calls) = 1 .. Len(calls) - 1
           /\ \A k \in 1 .. Len(calls) - 1 : Tail(calls)[k] = calls[k + 1]
<1>1. calls \in Seq(CallType)
  BY DEF PlaylistTypeOK
<1>2. Len(calls) \in Nat /\ DOMAIN calls = 1 .. Len(calls) /\ Len(calls) > 0
  BY <1>1
<1>3. Tail(calls) \in Seq(CallType) /\ Len(Tail(calls)) = Len(calls) - 1
  BY <1>1
<1>4. Head(calls) = calls[1]
  BY <1>1
<1>5. \A k \in 1 .. Len(calls) - 1 : Tail(calls)[k] = calls[k + 1]
  BY <1>1, <1>2
<1>6. QED
  BY <1>2, <1>3, <1>4, <1>5

\* A plan is what is called for in the end of most operations.
LEMMA ScheduleCall ==
    /\ Schedule \in Seq(CallType) /\ Len(Schedule) = 1 /\ DOMAIN Schedule = {1}
    /\ Schedule[1].op = "schedule"
<1>1. Call("schedule", None) \in CallType /\ Call("schedule", None).op = "schedule"
  BY DEF Call, CallType
<1>2. QED
  BY <1>1 DEF Schedule

LEMMA PlanLast ==
    ASSUME NEW rest \in Seq(CallType)
    PROVE  /\ rest \o Schedule \in Seq(CallType)
           /\ Len(rest \o Schedule) = Len(rest) + 1
           /\ \A k \in 1 .. Len(rest) + 1 :
                (rest \o Schedule)[k] = IF k <= Len(rest) THEN rest[k] ELSE Schedule[1]
<1>1. Schedule \in Seq(CallType) /\ Len(Schedule) = 1
  BY ScheduleCall
<1>2. /\ rest \o Schedule \in Seq(CallType)
      /\ Len(rest \o Schedule) = Len(rest) + Len(Schedule)
      /\ \A k \in 1 .. Len(rest) + Len(Schedule) :
           (rest \o Schedule)[k] = IF k <= Len(rest) THEN rest[k]
                                    ELSE Schedule[k - Len(rest)]
  BY <1>1, ConcatProperties
<1>3. QED
  BY <1>1, <1>2

LEMMA PlanFirst ==
    ASSUME NEW rest \in Seq(CallType)
    PROVE  /\ Schedule \o rest \in Seq(CallType)
           /\ Len(Schedule \o rest) = 1 + Len(rest)
           /\ \A k \in 1 .. 1 + Len(rest) :
                (Schedule \o rest)[k] = IF k <= 1 THEN Schedule[k] ELSE rest[k - 1]
<1>1. Schedule \in Seq(CallType) /\ Len(Schedule) = 1
  BY ScheduleCall
<1>2. /\ Schedule \o rest \in Seq(CallType)
      /\ Len(Schedule \o rest) = Len(Schedule) + Len(rest)
      /\ \A k \in 1 .. Len(Schedule) + Len(rest) :
           (Schedule \o rest)[k] = IF k <= Len(Schedule) THEN Schedule[k]
                                    ELSE rest[k - Len(Schedule)]
  BY <1>1, ConcatProperties
<1>3. QED
  BY <1>1, <1>2

\* A call is made, and it was not that of tagging the selected item.
LEMMA CallMade ==
    ASSUME PlaylistInv, calls # <<>>, calls' = Tail(calls), selected' = selected,
           Head(calls).op = "tag" => Head(calls).item # selected
    PROVE  /\ calls' \in Seq(CallType) /\ DeletedIsTaggedFirst' /\ WatchComesLast'
           /\ Head(calls).op # "watch" =>
                ((\E k \in DOMAIN calls : calls[k].op = "watch") =>
                    \E k \in DOMAIN calls' : calls'[k].op = "watch")
<1>1. /\ Len(calls) \in Nat /\ Len(calls) > 0 /\ DOMAIN calls = 1 .. Len(calls)
      /\ Head(calls) = calls[1]
      /\ calls' \in Seq(CallType) /\ Len(calls') = Len(calls) - 1
      /\ DOMAIN calls' = 1 .. Len(calls) - 1
      /\ \A k \in 1 .. Len(calls) - 1 : calls'[k] = calls[k + 1]
  BY TailOfCalls DEF PlaylistInv
<1>2. DeletedIsTaggedFirst'
  <2> SUFFICES ASSUME NEW k \in DOMAIN calls', calls'[k].op = "aboutToBeDeleted"
               PROVE  /\ calls'[k].item \in Item
                      /\ \/ selected # calls'[k].item
                         \/ k # 1 /\ calls'[k - 1].op = "tag"
                                  /\ calls'[k - 1].item = calls'[k].item
    BY DEF DeletedIsTaggedFirst
  <2>1. k + 1 \in DOMAIN calls /\ calls'[k] = calls[k + 1] /\ k + 1 # 1 /\ (k + 1) - 1 = k
    BY <1>1
  <2>2. /\ calls[k + 1].item \in Item
        /\ \/ selected # calls[k + 1].item
           \/ calls[k].op = "tag" /\ calls[k].item = calls[k + 1].item
    BY <2>1 DEF PlaylistInv, DeletedIsTaggedFirst
  <2>3. k # 1 => calls'[k - 1] = calls[k]
    BY <1>1
  <2>4. QED
    BY <1>1, <2>1, <2>2, <2>3
<1>3. WatchComesLast'
  <2> SUFFICES ASSUME NEW k \in DOMAIN calls', calls'[k].op = "watch"
               PROVE  /\ calls'[k].item = selected /\ k = Len(calls')
                      /\ k = 1 \/ (k = 2 /\ calls'[1].op = "schedule")
    BY DEF WatchComesLast
  <2>1. k + 1 \in DOMAIN calls /\ calls'[k] = calls[k + 1] /\ k \in Nat
    BY <1>1
  <2>2. /\ calls[k + 1].item = selected /\ k + 1 = Len(calls)
        /\ k + 1 = 1 \/ (k + 1 = 2 /\ calls[1].op = "schedule")
    BY <2>1 DEF PlaylistInv, WatchComesLast
  <2>3. QED
    BY <1>1, <2>1, <2>2
<1>4. ASSUME Head(calls).op # "watch", NEW k \in DOMAIN calls, calls[k].op = "watch"
      PROVE  \E m \in DOMAIN calls' : calls'[m].op = "watch"
  <2>1. k - 1 \in DOMAIN calls' /\ calls'[k - 1] = calls[k]
    BY <1>1, <1>4
  <2>2. QED
    BY <1>4, <2>1
<1>5. QED
  BY <1>1, <1>2, <1>3, <1>4

\* In the event loop no call is left; an operation leaves none or a plan.
LEMMA CallsOfOperation ==
    ASSUME PlaylistInv, calls = <<>>, calls' = <<>> \/ calls' = Schedule,
           listed' = listed, selected' \in listed \cup {None}, settings' \in Settings,
           \/ playMode' # "WaitingForCache"
           \/ UNCHANGED <<playMode, selected, watching>>
    PROVE  PlaylistInv'
<1>1. calls' \in Seq(CallType) /\ \A k \in DOMAIN calls' : calls'[k].op = "schedule"
  <2>1. CASE calls' = <<>>
    BY <2>1
  <2>2. CASE calls' = Schedule
    <3>1. \A k \in DOMAIN calls' : k = 1
      BY <2>2, ScheduleCall
    <3>2. QED
      BY <2>2, <3>1, ScheduleCall
  <2>3. QED
    BY <2>1, <2>2
<1>2. PlaylistTypeOK'
  BY <1>1 DEF PlaylistInv, PlaylistTypeOK
<1>3. DeletedIsTaggedFirst' /\ WatchComesLast'
  BY <1>1 DEF DeletedIsTaggedFirst, WatchComesLast
<1>4. WaitInv'
  BY DEF PlaylistInv, WaitInv
<1>5. QED
  BY <1>2, <1>3, <1>4 DEF PlaylistInv

\* A step that does not touch any of this.
LEMMA PlaylistUnchanged ==
    ASSUME PlaylistInv, UNCHANGED <<listed, selected, settings, calls, playMode, watching>>
    PROVE  PlaylistInv'
BY DEF PlaylistInv, PlaylistTypeOK, DeletedIsTaggedFirst, WatchComesLast, WaitInv
-----------------------------------------------------------------------------
\* The calls the main thread makes.
LEMMA SchedulePlaylist ==
    ASSUME PlaylistInv, scheduleCachingListUpdate
    PROVE  PlaylistInv'
<1>1. /\ calls # <<>> /\ Head(calls).op = "schedule" /\ calls' = Tail(calls)
      /\ UNCHANGED <<listed, selected, settings, playMode, watching>>
  BY DEF scheduleCachingListUpdate, Calling, playlistVars, listVars
<1>2. /\ calls' \in Seq(CallType) /\ DeletedIsTaggedFirst' /\ WatchComesLast'
      /\ (\E k \in DOMAIN calls : calls[k].op = "watch") =>
           \E k \in DOMAIN calls' : calls'[k].op = "watch"
  BY <1>1, CallMade
<1>3. QED
  BY <1>1, <1>2 DEF PlaylistInv, PlaylistTypeOK, WaitInv

LEMMA WatchPlaylist ==
    ASSUME PlaylistInv, watchItemForCachingFinished
    PROVE  PlaylistInv'
<1>1. /\ calls # <<>> /\ Head(calls).op = "watch" /\ calls' = Tail(calls)
      /\ UNCHANGED <<listed, selected, settings>>
      /\ \/ playMode' = ModeAfterWait(TRUE)
         \/ playMode' = playMode /\ watching' = Head(calls).item
  BY DEF watchItemForCachingFinished, Calling
<1>2. calls' \in Seq(CallType) /\ DeletedIsTaggedFirst' /\ WatchComesLast'
  BY <1>1, CallMade
<1>3. Head(calls).item = selected
  BY <1>1, TailOfCalls DEF PlaylistInv, WatchComesLast
<1>4. ModeAfterWait(TRUE) # "WaitingForCache"
  BY DEF ModeAfterWait
<1>5. WaitInv'
  BY <1>1, <1>3, <1>4 DEF PlaylistInv, WaitInv
<1>6. QED
  BY <1>1, <1>2, <1>5 DEF PlaylistInv, PlaylistTypeOK

LEMMA TagPlaylist ==
    ASSUME PlaylistInv, TagItem
    PROVE  PlaylistInv'
<1>1. /\ calls # <<>> /\ Head(calls).op = "tag" /\ UNCHANGED <<listed, settings>>
  BY DEF TagItem, Calling
<1>2. CASE Head(calls).item # selected
  <2>1. calls' = Tail(calls) /\ UNCHANGED <<selected, playMode, watching>>
    BY <1>2 DEF TagItem
  <2>2. /\ calls' \in Seq(CallType) /\ DeletedIsTaggedFirst' /\ WatchComesLast'
        /\ (\E k \in DOMAIN calls : calls[k].op = "watch") =>
             \E k \in DOMAIN calls' : calls'[k].op = "watch"
    BY <1>1, <1>2, <2>1, CallMade
  <2>3. QED
    BY <1>1, <2>1, <2>2 DEF PlaylistInv, PlaylistTypeOK, WaitInv
<1>3. CASE Head(calls).item = selected
  <2> DEFINE rest == Tail(calls)
  <2>1. /\ selected' = None /\ playMode' = "Stopped" /\ calls' = Schedule \o rest
    BY <1>3 DEF TagItem, PausePlayback
  <2>2. /\ Len(calls) \in Nat /\ Len(calls) > 0 /\ DOMAIN calls = 1 .. Len(calls)
        /\ calls[1].op = "tag"
        /\ rest \in Seq(CallType) /\ Len(rest) = Len(calls) - 1
        /\ \A k \in 1 .. Len(calls) - 1 : rest[k] = calls[k + 1]
    BY <1>1, TailOfCalls DEF PlaylistInv
  <2> HIDE DEF rest
  <2>3. /\ calls' \in Seq(CallType) /\ Len(calls') = Len(calls)
        /\ DOMAIN calls' = 1 .. Len(calls)
        /\ calls'[1].op = "schedule"
        /\ \A k \in 2 .. Len(calls) : calls'[k] = calls[k]
    <3>1. /\ calls' \in Seq(CallType) /\ Len(calls') = 1 + Len(rest)
          /\ \A k \in 1 .. 1 + Len(rest) :
               calls'[k] = IF k <= 1 THEN Schedule[k] ELSE rest[k - 1]
      <4>1. rest \in Seq(CallType)
        BY <2>2
      <4>2. QED
        BY <2>1, <4>1, PlanFirst
    <3>2. DOMAIN calls' = 1 .. Len(calls) /\ Len(calls') = Len(calls)
      BY <2>2, <3>1
    <3>3. calls'[1] = Schedule[1]
      BY <2>2, <3>1
    <3>4. ASSUME NEW k \in 2 .. Len(calls)
          PROVE  calls'[k] = calls[k]
      <4>1. calls'[k] = rest[k - 1]
        BY <2>2, <3>1
      <4>2. rest[k - 1] = calls[k]
        BY <2>2
      <4>3. QED
        BY <4>1, <4>2
    <3>5. QED
      BY <3>1, <3>2, <3>3, <3>4, ScheduleCall
  <2>4. \A k \in DOMAIN calls' : calls'[k].op # "schedule" => k \in DOMAIN calls /\ calls'[k] = calls[k]
    BY <2>2, <2>3
  <2>5. DeletedIsTaggedFirst'
    BY <2>1, <2>4, ItemAssumption DEF PlaylistInv, DeletedIsTaggedFirst
  <2>6. WatchComesLast'
    BY <2>2, <2>4 DEF PlaylistInv, WatchComesLast
  <2>7. QED
    BY <1>1, <2>1, <2>3, <2>5, <2>6 DEF PlaylistInv, PlaylistTypeOK, WaitInv
<1>4. QED
  BY <1>2, <1>3

LEMMA DeletePlaylist ==
    ASSUME PlaylistInv, itemAboutToBeDeleted
    PROVE  /\ PlaylistInv' /\ Head(calls).item \in Item
           /\ selected # Head(calls).item
<1>1. /\ calls # <<>> /\ Head(calls).op = "aboutToBeDeleted" /\ calls' = Tail(calls)
      /\ listed' = listed \ {Head(calls).item}
      /\ UNCHANGED <<selected, settings, playMode, watching>>
  BY DEF itemAboutToBeDeleted, Calling
<1>2. Head(calls).item \in Item /\ selected # Head(calls).item
  BY <1>1, TailOfCalls DEF PlaylistInv, DeletedIsTaggedFirst
<1>3. /\ calls' \in Seq(CallType) /\ DeletedIsTaggedFirst' /\ WatchComesLast'
      /\ (\E k \in DOMAIN calls : calls[k].op = "watch") =>
           \E k \in DOMAIN calls' : calls'[k].op = "watch"
  BY <1>1, CallMade
<1>4. QED
  BY <1>1, <1>2, <1>3 DEF PlaylistInv, PlaylistTypeOK, WaitInv
-----------------------------------------------------------------------------
\* What the user does. In deletePlaylistItems every item is tagged, and deleted
\* in the next call.
LEMMA DeleteCalls ==
    ASSUME NEW items \in Seq(Item),
           NEW f, f = [k \in 1 .. 2 * Len(items) |->
                         Call(IF k % 2 = 1 THEN "tag" ELSE "aboutToBeDeleted",
                              items[(k + 1) \div 2])]
    PROVE  /\ f \in Seq(CallType)
           /\ \A k \in DOMAIN f : /\ f[k].op \in {"tag", "aboutToBeDeleted"}
                                 /\ f[k].item \in Item
           /\ \A k \in DOMAIN f : f[k].op = "aboutToBeDeleted" =>
                /\ k # 1 /\ k - 1 \in DOMAIN f
                /\ f[k - 1].op = "tag" /\ f[k - 1].item = f[k].item
<1>1. PICK n \in Nat : n = Len(items)
  OBVIOUS
<1>2. f = [k \in 1 .. 2 * n |-> Call(IF k % 2 = 1 THEN "tag" ELSE "aboutToBeDeleted",
                                      items[(k + 1) \div 2])]
  BY <1>1
<1>3. ASSUME NEW k \in 1 .. 2 * n
      PROVE  /\ (k + 1) \div 2 \in 1 .. n
             /\ k % 2 # 1 => k # 1 /\ (k - 1) % 2 = 1 /\ ((k - 1) + 1) \div 2 = (k + 1) \div 2
  <2> DEFINE m == (k + 1) \div 2
  <2>1. k \in Int /\ 1 <= k /\ k <= 2 * n
    OBVIOUS
  <2>2. m \in Int /\ (k = 2 * m \/ k = 2 * m - 1)
    BY <2>1, SMT
  <2>3. m \in 1 .. n
    <3> HIDE DEF m
    <3>1. QED
      BY <2>1, <2>2
  <2>4. k % 2 # 1 => k # 1 /\ (k - 1) % 2 = 1 /\ ((k - 1) + 1) \div 2 = (k + 1) \div 2
    BY <2>1, SMT
  <2>5. QED
    BY <2>3, <2>4
<1>4. ASSUME NEW k \in 1 .. 2 * n
      PROVE  /\ f[k].op = (IF k % 2 = 1 THEN "tag" ELSE "aboutToBeDeleted")
             /\ f[k].item = items[(k + 1) \div 2] /\ f[k].item \in Item
             /\ f[k] \in CallType
  <2>1. items[(k + 1) \div 2] \in Item
    BY <1>1, <1>3
  <2>2. f[k] = [op |-> IF k % 2 = 1 THEN "tag" ELSE "aboutToBeDeleted",
                item |-> items[(k + 1) \div 2]]
    BY <1>2 DEF Call
  <2>3. QED
    BY <2>1, <2>2 DEF CallType
<1>5. DOMAIN f = 1 .. 2 * n /\ f \in [1 .. 2 * n -> CallType]
  BY <1>2, <1>4
<1>6. f \in Seq(CallType)
  BY <1>1, <1>5
<1>7. ASSUME NEW k \in DOMAIN f, f[k].op = "aboutToBeDeleted"
      PROVE  /\ k # 1 /\ k - 1 \in DOMAIN f
             /\ f[k - 1].op = "tag" /\ f[k - 1].item = f[k].item
  <2>1. k \in 1 .. 2 * n /\ k % 2 # 1
    BY <1>4, <1>5, <1>7
  <2>2. k # 1 /\ k - 1 \in 1 .. 2 * n /\ (k - 1) % 2 = 1
        /\ ((k - 1) + 1) \div 2 = (k + 1) \div 2
    BY <1>3, <2>1
  <2>3. QED
    BY <1>4, <1>5, <2>1, <2>2
<1>8. QED
  BY <1>4, <1>5, <1>6, <1>7

LEMMA DeleteItemsPlaylist ==
    ASSUME PlaylistInv, NEW all \in BOOLEAN, deletePlaylistItems(all)
    PROVE  /\ PlaylistInv' /\ \A k \in DOMAIN calls' : calls'[k].op # "watch"
           /\ \A k \in DOMAIN calls' : calls'[k].op = "tag" => calls'[k].item \in Item
<1> DEFINE inTree == IF all THEN listed ELSE {selected} \cap listed
           items == ItemList(inTree)
           f == [k \in 1 .. 2 * Len(items) |->
                   Call(IF k % 2 = 1 THEN "tag" ELSE "aboutToBeDeleted",
                        items[(k + 1) \div 2])]
<1>1. /\ calls = <<>> /\ calls' = f \o Schedule
      /\ UNCHANGED <<listed, selected, settings, playMode, watching>>
  BY DEF deletePlaylistItems, UserOp, InEventLoop, playlistVars, listVars
<1>2. items \in Seq(Item)
  <2>1. inTree \subseteq {Order[k] : k \in DOMAIN Order} /\ inTree \subseteq Item
    <3>1. inTree \subseteq listed
      OBVIOUS
    <3>2. Order \in Seq(Item)
      BY ItemAssumption
    <3>3. \A k \in DOMAIN Order : Order[k] \in Item
      BY <3>2
    <3>4. QED
      BY <3>1, <3>3 DEF PlaylistInv, PlaylistTypeOK
  <2> HIDE DEF inTree
  <2>2. items \in Seq(inTree)
    BY <2>1, ItemListLemma
  <2>3. QED
    BY <2>1, <2>2, SeqMonotonic
<1> HIDE DEF items
<1>3. /\ f \in Seq(CallType)
      /\ \A k \in DOMAIN f : /\ f[k].op \in {"tag", "aboutToBeDeleted"}
                            /\ f[k].item \in Item
      /\ \A k \in DOMAIN f : f[k].op = "aboutToBeDeleted" =>
           /\ k # 1 /\ k - 1 \in DOMAIN f
           /\ f[k - 1].op = "tag" /\ f[k - 1].item = f[k].item
  BY <1>2, DeleteCalls
<1> HIDE DEF f
<1>4. PICK n \in Nat : n = Len(f) /\ DOMAIN f = 1 .. n
  BY <1>3
<1>5. /\ calls' \in Seq(CallType) /\ DOMAIN calls' = 1 .. n + 1
      /\ \A k \in 1 .. n : calls'[k] = f[k]
      /\ calls'[n + 1].op = "schedule"
  <2>1. /\ f \o Schedule \in Seq(CallType) /\ Len(f \o Schedule) = Len(f) + 1
        /\ \A k \in 1 .. Len(f) + 1 :
             (f \o Schedule)[k] = IF k <= Len(f) THEN f[k] ELSE Schedule[1]
    <3>1. f \in Seq(CallType)
      BY <1>3
    <3>2. QED
      BY <3>1, PlanLast
  <2>2. Schedule[1].op = "schedule"
    BY ScheduleCall
  <2>3. QED
    BY <1>1, <1>4, <2>1, <2>2
<1>6. DeletedIsTaggedFirst'
  <2>1. ASSUME NEW k \in DOMAIN calls', calls'[k].op = "aboutToBeDeleted"
        PROVE  /\ calls'[k].item \in Item
               /\ k # 1 /\ calls'[k - 1].op = "tag" /\ calls'[k - 1].item = calls'[k].item
    <3>1. k \in 1 .. n /\ f[k].op = "aboutToBeDeleted"
      BY <1>5, <2>1
    <3>2. k - 1 \in 1 .. n
      BY <1>3, <1>4, <3>1
    <3>3. QED
      BY <1>3, <1>4, <1>5, <3>1, <3>2
  <2>2. QED
    BY <2>1 DEF DeletedIsTaggedFirst
<1>7. \A k \in DOMAIN calls' : calls'[k].op # "watch"
  BY <1>3, <1>4, <1>5
<1>8. PlaylistInv'
  BY <1>1, <1>5, <1>6, <1>7 DEF PlaylistInv, PlaylistTypeOK, WatchComesLast, WaitInv
<1>9. \A k \in DOMAIN calls' : calls'[k].op = "tag" => calls'[k].item \in Item
  BY <1>3, <1>4, <1>5
<1>10. QED
  BY <1>7, <1>8, <1>9

\* goToNextItem selects an item of the playlist and waits for it, or stops.
LEMMA NextItemPlaylist ==
    ASSUME PlaylistInv, GoToNextItem
    PROVE  /\ PlaylistInv' /\ (calls' # <<>> => calls'[1].op = "schedule")
           /\ \A k \in DOMAIN calls' : calls'[k].op \in {"schedule", "watch"}
<1> DEFINE items == ItemList(listed)
           pos == CHOOSE p \in DOMAIN items : items[p] = selected
           wait == settings.enabled /\ settings.wait
           Selects(i) == /\ selected' = i
                         /\ playMode' = IF wait THEN "WaitingForCache" ELSE "Running"
                         /\ calls' = Schedule \o (IF wait THEN <<Call("watch", i)>> ELSE <<>>)
                         /\ UNCHANGED watching
<1>1. calls = <<>> /\ selected # None /\ UNCHANGED <<listed, settings>>
  BY DEF GoToNextItem, UserOp, InEventLoop
<1>2. \/ pos < Len(items) /\ Selects(items[pos + 1])
      \/ pos = Len(items) /\ Selects(items[1])
      \/ playMode' = "Stopped" /\ UNCHANGED <<selected, calls>>
  BY DEF GoToNextItem
<1>3. items \in Seq(listed) /\ \E p \in DOMAIN items : items[p] = selected
  BY <1>1, ItemListLemma DEF PlaylistInv, PlaylistTypeOK
<1> HIDE DEF items
<1>4. pos \in 1 .. Len(items) /\ Len(items) \in Nat
  BY <1>3
<1> HIDE DEF pos
<1>5. ASSUME NEW i \in listed, Selects(i)
      PROVE  /\ PlaylistInv' /\ calls'[1].op = "schedule"
             /\ \A k \in DOMAIN calls' : calls'[k].op \in {"schedule", "watch"}
  <2>1. i \in Item /\ i # None
    BY ItemAssumption DEF PlaylistInv, PlaylistTypeOK
  <2>2. CASE ~wait
    <3>1. calls' = Schedule
      <4>1. calls' = Schedule \o <<>>
        BY <1>5, <2>2
      <4>2. Schedule \in Seq(CallType)
        BY ScheduleCall
      <4>3. Schedule \o <<>> = Schedule
        BY <4>2, ConcatEmptySeq
      <4>4. QED
        BY <4>1, <4>3
    <3>2. QED
      BY <1>1, <1>5, <2>2, <3>1, ScheduleCall, CallsOfOperation DEF PlaylistInv, PlaylistTypeOK
  <2>3. CASE wait
    <3> DEFINE watch == <<Call("watch", i)>>
    <3>1. watch \in Seq(CallType) /\ Len(watch) = 1 /\ watch[1].op = "watch"
          /\ watch[1].item = i
      BY <2>1 DEF Call, CallType
    <3>2. calls' = Schedule \o watch
      BY <1>5, <2>3
    <3> HIDE DEF watch
    <3>3. /\ calls' \in Seq(CallType) /\ Len(calls') = 2 /\ DOMAIN calls' = 1 .. 2
          /\ calls'[1] = Schedule[1] /\ calls'[2] = watch[1]
      BY <3>1, <3>2, PlanFirst
    <3>4. /\ calls'[1].op = "schedule" /\ calls'[2].op = "watch" /\ calls'[2].item = i
          /\ \A k \in DOMAIN calls' : k = 1 \/ k = 2
      BY <3>1, <3>3, ScheduleCall
    <3>5. DeletedIsTaggedFirst'
      BY <3>4 DEF DeletedIsTaggedFirst
    <3>6. WatchComesLast'
      BY <1>5, <3>3, <3>4 DEF WatchComesLast
    <3>7. WaitInv'
      BY <1>5, <2>1, <3>3, <3>4 DEF WaitInv
    <3>8. PlaylistTypeOK'
      BY <1>1, <1>5, <3>3 DEF PlaylistInv, PlaylistTypeOK
    <3>9. QED
      BY <3>4, <3>5, <3>6, <3>7, <3>8 DEF PlaylistInv
  <2>4. QED
    BY <2>2, <2>3
<1> HIDE DEF Selects
<1>6. CASE pos < Len(items) /\ Selects(items[pos + 1])
  <2>1. items[pos + 1] \in listed
    BY <1>3, <1>4, <1>6
  <2>2. QED
    BY <1>5, <1>6, <2>1
<1>7. CASE pos = Len(items) /\ Selects(items[1])
  <2>1. items[1] \in listed
    BY <1>3, <1>4
  <2>2. QED
    BY <1>5, <1>7, <2>1
<1>8. CASE playMode' = "Stopped" /\ UNCHANGED <<selected, calls>>
  BY <1>1, <1>8, CallsOfOperation DEF PlaylistInv, PlaylistTypeOK
<1>9. QED
  BY <1>2, <1>6, <1>7, <1>8

\* The operations of the user that leave no call, or that of a plan.
LEMMA UserPlaylist ==
    ASSUME PlaylistInv,
           \/ \E i \in Item : SelectItem(i)
           \/ \E i \in Item, clear \in BOOLEAN : itemNeedsRecache(i, clear)
           \/ \E s \in Settings : updateSettings(s)
           \/ StopPlayback \/ testConversionSpeed
    PROVE  PlaylistInv'
<1>1. selected \in listed \cup {None} /\ settings \in Settings
  BY DEF PlaylistInv, PlaylistTypeOK
<1>2. ASSUME NEW i \in Item, SelectItem(i)
      PROVE  PlaylistInv'
  <2>1. /\ calls = <<>> /\ calls' = Schedule /\ selected' \in listed
        /\ playMode' = "Stopped" /\ UNCHANGED <<listed, settings>>
    BY <1>2 DEF SelectItem, UserOp, InEventLoop, PausePlayback
  <2>2. QED
    BY <1>1, <2>1, CallsOfOperation
<1>3. ASSUME NEW i \in Item, NEW clear \in BOOLEAN, itemNeedsRecache(i, clear)
      PROVE  PlaylistInv'
  <2>1. /\ calls = <<>> /\ (calls' = <<>> \/ calls' = Schedule)
        /\ UNCHANGED <<listed, selected, settings, playMode, watching>>
    BY <1>3 DEF itemNeedsRecache, UserOp, InEventLoop, playlistVars
  <2>2. QED
    BY <1>1, <2>1, CallsOfOperation
<1>4. ASSUME NEW s \in Settings, updateSettings(s)
      PROVE  PlaylistInv'
  <2>1. /\ calls = <<>> /\ calls' = Schedule /\ settings' = s
        /\ UNCHANGED <<listed, selected, playMode, watching>>
    BY <1>4 DEF updateSettings, UserOp, InEventLoop, listVars
  <2>2. QED
    BY <1>1, <2>1, CallsOfOperation
<1>5. CASE StopPlayback
  <2>1. /\ calls = <<>> /\ calls' = <<>> /\ playMode' = "Stopped"
        /\ UNCHANGED <<listed, selected, settings>>
    BY <1>5 DEF StopPlayback, UserOp, InEventLoop, PausePlayback
  <2>2. QED
    BY <1>1, <2>1, CallsOfOperation
<1>6. CASE testConversionSpeed
  <2>1. /\ calls = <<>> /\ calls' = <<>> /\ playMode' = "Stopped"
        /\ UNCHANGED <<listed, selected, settings>>
    BY <1>6 DEF testConversionSpeed, UserOp, InEventLoop, PausePlayback
  <2>2. QED
    BY <1>1, <2>1, CallsOfOperation
<1>7. QED
  BY <1>2, <1>3, <1>4, <1>5, <1>6

\* Playback that waits tells the cache what to watch.
LEMMA StartPlaylist ==
    ASSUME PlaylistInv, StartPlayback
    PROVE  PlaylistInv'
<1> DEFINE wait  == settings.enabled /\ settings.wait
           watch == <<Call("watch", selected)>>
<1>1. /\ calls = <<>> /\ selected # None
      /\ playMode' = IF wait THEN "WaitingForCache" ELSE "Running"
      /\ calls' = IF wait THEN watch ELSE <<>>
      /\ UNCHANGED <<listed, selected, settings>>
  BY DEF StartPlayback, UserOp, InEventLoop
<1>2. selected \in listed /\ selected \in Item \cup {None} /\ settings \in Settings
  <2>1. Order \in Seq(Item)
    BY ItemAssumption
  <2>2. \A k \in DOMAIN Order : Order[k] \in Item
    BY <2>1
  <2>3. QED
    BY <1>1, <2>2 DEF PlaylistInv, PlaylistTypeOK
<1>3. CASE ~wait
  BY <1>1, <1>2, <1>3, CallsOfOperation
<1>4. CASE wait
  <2>1. watch \in Seq(CallType) /\ Len(watch) = 1 /\ DOMAIN watch = {1}
        /\ watch[1].op = "watch" /\ watch[1].item = selected
    BY <1>2 DEF Call, CallType
  <2> HIDE DEF watch
  <2>2. DeletedIsTaggedFirst' /\ WatchComesLast'
    BY <1>1, <1>4, <2>1 DEF DeletedIsTaggedFirst, WatchComesLast
  <2>3. WaitInv' /\ PlaylistTypeOK'
    BY <1>1, <1>4, <2>1 DEF PlaylistInv, PlaylistTypeOK, WaitInv
  <2>4. QED
    BY <2>2, <2>3 DEF PlaylistInv
<1>5. QED
  BY <1>3, <1>4

\* When the last job of the watched item is gone playback does not wait any more.
LEMMA FinishedPlaylist ==
    ASSUME PlaylistInv, NEW t \in Thread, threadCachingFinished(t)
    PROVE  PlaylistInv'
<1>1. /\ calls = <<>> /\ calls' = calls /\ UNCHANGED <<listed, selected, settings>>
      /\ \/ playMode' = ModeAfterWait(TRUE)
         \/ playMode' = ModeAfterWait(FALSE) /\ watching' = watching
  BY DEF threadCachingFinished, InEventLoop
<1>2. ModeAfterWait(TRUE) # "WaitingForCache" /\ ModeAfterWait(FALSE) = playMode
  BY DEF ModeAfterWait
<1>3. QED
  BY <1>1, <1>2, CallsOfOperation DEF PlaylistInv, PlaylistTypeOK

\* Everything else leaves the playlist and the calls alone.
LEMMA OtherPlaylist ==
    ASSUME PlaylistInv,
           \/ \E i \in Item, s \in Slot : \E f \in Frame \cup {NoFrame} : loadFrame(i, f, s)
           \/ CancelTest \/ updateTestProgress \/ FillDone
           \/ \E t \in Thread : \/ FillThread(t) \/ StartWorkerThread(t)
                                \/ processCacheJobInternal(t) \/ TestCachingFinished(t)
           \/ \E s \in Slot : InteractiveThread(s)
    PROVE  PlaylistInv'
<1>1. CASE \E i \in Item, s \in Slot : \E f \in Frame \cup {NoFrame} : loadFrame(i, f, s)
  BY <1>1, PlaylistUnchanged DEF loadFrame, playlistVars, listVars
<1>2. CASE CancelTest
  BY <1>2, PlaylistUnchanged DEF CancelTest, playlistVars, listVars
<1>3. CASE updateTestProgress
  BY <1>3, PlaylistUnchanged DEF updateTestProgress, playlistVars, listVars
<1>4. CASE FillDone
  BY <1>4, PlaylistUnchanged DEF FillDone, playlistVars, listVars
<1>5. CASE \E t \in Thread : FillThread(t)
  BY <1>5, PlaylistUnchanged DEF FillThread, playlistVars, listVars
<1>6. CASE \E t \in Thread : StartWorkerThread(t)
  BY <1>6, PlaylistUnchanged DEF StartWorkerThread, playlistVars, listVars
<1>7. CASE \E t \in Thread : processCacheJobInternal(t)
  BY <1>7, PlaylistUnchanged DEF processCacheJobInternal, playlistVars, listVars
<1>8. CASE \E t \in Thread : TestCachingFinished(t)
  BY <1>8, PlaylistUnchanged DEF TestCachingFinished, playlistVars, listVars
<1>9. CASE \E s \in Slot : InteractiveThread(s)
  BY <1>9, PlaylistUnchanged DEF InteractiveThread, processLoadingJobInternal,
     interactiveLoaderFinished, playlistVars, listVars
<1>10. QED
  BY <1>1, <1>2, <1>3, <1>4, <1>5, <1>6, <1>7, <1>8, <1>9

LEMMA InitPlaylist == Init => PlaylistInv
<1> SUFFICES ASSUME Init
             PROVE  PlaylistInv
  OBVIOUS
<1>1. /\ listed = {Order[k] : k \in DOMAIN Order} /\ selected \in listed
      /\ settings \in Settings /\ calls = Schedule /\ playMode = "Stopped"
  BY PoolAssumption DEF Init
<1>2. calls \in Seq(CallType) /\ \A k \in DOMAIN calls : calls[k].op = "schedule"
  BY <1>1, ScheduleCall
<1>3. QED
  BY <1>1, <1>2 DEF PlaylistInv, PlaylistTypeOK, DeletedIsTaggedFirst, WatchComesLast, WaitInv

LEMMA NextPlaylist == PlaylistInv /\ [Next]_vars => PlaylistInv'
<1> SUFFICES ASSUME PlaylistInv, [Next]_vars
             PROVE  PlaylistInv'
  OBVIOUS
<1>1. CASE User
  BY <1>1, UserPlaylist, StartPlaylist, NextItemPlaylist, DeleteItemsPlaylist, OtherPlaylist
     DEF User
<1>2. CASE MainThread
  BY <1>2, SchedulePlaylist, WatchPlaylist, TagPlaylist, DeletePlaylist, OtherPlaylist
     DEF MainThread
<1>3. CASE updateTestProgress
  BY <1>3, OtherPlaylist
<1>4. CASE \E t \in Thread : CachingThread(t)
  BY <1>4, FinishedPlaylist, OtherPlaylist DEF CachingThread
<1>5. CASE \E s \in Slot : InteractiveThread(s)
  BY <1>5, OtherPlaylist
<1>6. CASE UNCHANGED vars
  BY <1>6, PlaylistUnchanged DEF vars, playlistVars, listVars
<1>7. QED
  BY <1>1, <1>2, <1>3, <1>4, <1>5, <1>6 DEF Next

\* Whenever the event loop is reached while playback waits for the cache, the
\* cache watches the selected item, and there is one: whatever was selected,
\* deleted, changed or cached meanwhile.
THEOREM WaitingPlaybackIsWatched == Spec => []WaitIsWatched
<1>1. PlaylistInv => WaitIsWatched
  BY DEF PlaylistInv, WaitInv, WaitIsWatched, InEventLoop
<1>2. QED
  BY <1>1, InitPlaylist, NextPlaylist, PTL DEF Spec
-----------------------------------------------------------------------------
(* The items the caching threads have to do with, for any constants but    *)
(* one: the conversion test is left out (Untested). No thread of the pool  *)
(* holds an item that was deleted, and neither do the queues when a job is *)
(* taken from them.                                                        *)

\* The queues hold items of the playlist only.
JobOf(items) == [item: items, first: Int, last: Int]
Fresh == queue \in Seq(JobOf(listed)) /\ deq \in Seq(listed \X Int)

CacheTypeOK == cached \in [Item -> SUBSET Frame]

\* An item that was deleted, or that is going to be, is not in the playlist.
DeletedIsNotListed ==
    /\ itemsToDelete \subseteq Item /\ destroyed \subseteq Item
    /\ (itemsToDelete \cup destroyed) \cap listed = {}

WorkerItemIsAlive ==
    \A t \in Thread : worker[t].item \in (Item \cup {None}) \ destroyed

\* If caching is disabled the threads that are left are working, and each of them
\* is removed when it has finished.
DisabledThreadsLeave ==
    /\ grow \in Nat /\ deleteNr \in Nat
    /\ ~settings.enabled =>
         /\ grow = 0 /\ (filling => left = {})
         /\ threads = WorkingIn(worker) /\ Cardinality(threads) <= deleteNr

\* Whenever a job may be taken from the queues they are fresh. The main thread
\* makes no call between startCaching and the state it leads to; a call to watch
\* an item comes after a plan.
QueueIsListed ==
    /\ workersState = "Running" \/ (filling /\ (left # {} \/ started)) => Fresh
    /\ filling /\ calls # <<>> => workersState = "Idle"
    /\ calls # <<>> /\ Head(calls).op = "watch" /\ settings.enabled /\ workersState = "Idle"
         => Fresh

Untested == testItem = None /\ dialog = "none" /\ workersState # "IntReqStop"

ItemInv ==
    /\ CacheTypeOK
    /\ DeletedIsNotListed
    /\ WorkerItemIsAlive
    /\ DisabledThreadsLeave
    /\ QueueIsListed
    /\ Untested

\* All that is needed of a state.
AllInv == PoolInv /\ PlaylistInv /\ ItemInv
-----------------------------------------------------------------------------
\* A part of a list of jobs is a list of jobs.
LEMMA PartOfJobs ==
    ASSUME NEW E, NEW list \in Seq(E), NEW K
    PROVE  Part(list, K) \in Seq(E)
<1> DEFINE X == {list[k] : k \in K \cap DOMAIN list}
<1>1. Part(list, K) \in Seq(X)
  BY PartLemma
<1>2. X \subseteq E
  BY ElementOfSeq
<1> HIDE DEF X
<1>3. QED
  BY <1>1, <1>2, SeqMonotonic

LEMMA JobsTaken ==
    ASSUME NEW E, NEW list \in Seq(E), NEW K, NEW k \in DOMAIN list, NEW rest \in Seq(E)
    PROVE  Part(SubSeq(list, 1, k - 1), K) \o rest \o SubSeq(list, k + 1, Len(list)) \in Seq(E)
<1>1. Len(list) \in Nat /\ k \in 1 .. Len(list)
  OBVIOUS
<1>2. SubSeq(list, 1, k - 1) \in Seq(E) /\ SubSeq(list, k + 1, Len(list)) \in Seq(E)
  <2>1. /\ \A i \in 1 .. k - 1 : i \in 1 .. Len(list)
        /\ \A i \in k + 1 .. Len(list) : i \in 1 .. Len(list)
    BY <1>1
  <2>2. QED
    BY <1>1, <2>1, SubSeqProperties
<1>3. Part(SubSeq(list, 1, k - 1), K) \in Seq(E)
  BY <1>2, PartOfJobs
<1>4. QED
  BY <1>2, <1>3, ConcatProperties

\* A thread gets a frame of one of some items.
GivesJob(t, w, items) ==
    \E i \in items, f \in Int : worker' = [w EXCEPT ![t] = Busy(i, f, FALSE)]

\* A job is taken from queues of some items: they stay queues of these items, and
\* the thread gets one of the items or nothing.
LEMMA JobIsTaken ==
    ASSUME NEW items, queue \in Seq(JobOf(items)), deq \in Seq(items \X Int),
           NEW c \in [Item -> SUBSET Frame],
           NEW t, NEW w, NEW watch, NEW play, PushJob(t, w, c, watch, play)
    PROVE  /\ queue' \in Seq(JobOf(items)) /\ deq' \in Seq(items \X Int) /\ CacheTypeOK'
           /\ worker' = w \/ GivesJob(t, w, items)
<1> DEFINE J == JobOf(items)
<1>1. queue \in Seq(J) /\ deq \in Seq(items \X Int)
  OBVIOUS
<1>2. ASSUME NEW j \in J
      PROVE  j.item \in items /\ j.first \in Int /\ [j EXCEPT !.first = @ + 1] \in J
  <2>1. j.item \in items /\ j.first \in Int
    BY DEF JobOf
  <2>2. j.first + 1 \in Int
    BY <2>1
  <2>3. [j EXCEPT !.first = @ + 1] \in J
    BY <2>2 DEF JobOf
  <2>4. QED
    BY <2>1, <2>3
<1>3. CASE UNCHANGED queueVars /\ worker' = w /\ cached' = c
  BY <1>1, <1>3 DEF CacheTypeOK, queueVars
<1>4. CASE queue' = WithoutUncachable(queue) /\ worker' = w /\ cached' = c /\ deq' = deq
  <2>1. WithoutUncachable(queue) \in Seq(J)
    <3> HIDE DEF J
    <3>1. QED
      BY <1>1, PartOfJobs DEF WithoutUncachable
  <2>2. QED
    BY <1>1, <1>4, <2>1 DEF CacheTypeOK
<1>5. ASSUME NEW k \in DOMAIN queue,
             LET job  == queue[k]
                 rest == IF job.first = job.last THEN <<>>
                         ELSE <<[job EXCEPT !.first = @ + 1]>>
             IN  queue' = WithoutUncachable(SubSeq(queue, 1, k - 1))
                          \o rest \o SubSeq(queue, k + 1, Len(queue)),
             NEW n \in 0 .. Len(deq), deq' = SubSeq(deq, n + 1, Len(deq)),
             cached' = [i \in Item |-> c[i] \
                             {deq[m][2] : m \in {x \in 1 .. n : deq[x][1] = i}}],
             worker' = w \/ worker' = [w EXCEPT ![t] = Busy(queue[k].item, queue[k].first, FALSE)]
      PROVE  /\ queue' \in Seq(J) /\ deq' \in Seq(items \X Int) /\ CacheTypeOK'
             /\ worker' = w \/ GivesJob(t, w, items)
  <2> DEFINE job == queue[k]
             rest == IF job.first = job.last THEN <<>> ELSE <<[job EXCEPT !.first = @ + 1]>>
  <2>1. job \in J
    BY <1>1
  <2>2. rest \in Seq(J) /\ job.item \in items /\ job.first \in Int
    BY <1>2, <2>1
  <2>3. queue' \in Seq(J)
    <3> HIDE DEF J, rest
    <3>1. DEFINE K == {m \in DOMAIN SubSeq(queue, 1, k - 1) :
                         SubSeq(queue, 1, k - 1)[m].item \in Cachable}
    <3>2. queue' = Part(SubSeq(queue, 1, k - 1), K) \o rest \o SubSeq(queue, k + 1, Len(queue))
      BY <1>5 DEF WithoutUncachable, rest
    <3> HIDE DEF K
    <3>3. QED
      BY <1>1, <2>2, <3>2, JobsTaken
  <2>4. deq' \in Seq(items \X Int)
    <3> DEFINE E == items \X Int
    <3> HIDE DEF E
    <3>1. deq \in Seq(E)
      BY <1>1 DEF E
    <3>2. SubSeq(deq, n + 1, Len(deq)) \in Seq(E)
      <4>1. Len(deq) \in Nat
        BY <3>1
      <4>2. \A i \in n + 1 .. Len(deq) : i \in 1 .. Len(deq)
        BY <4>1
      <4>3. QED
        BY <3>1, <4>1, <4>2, SubSeqProperties
    <3>3. QED
      BY <1>5, <3>2 DEF E
  <2>5. CacheTypeOK'
    BY <1>5 DEF CacheTypeOK
  <2>6. worker' = w \/ GivesJob(t, w, items)
    BY <1>5, <2>2 DEF GivesJob
  <2>7. QED
    BY <2>3, <2>4, <2>5, <2>6
<1>6. QED
  BY <1>3, <1>4, <1>5 DEF PushJob

LEMMA JobIsListed ==
    ASSUME Fresh, listed \subseteq Item, listed' = listed,
           NEW c \in [Item -> SUBSET Frame],
           NEW t, NEW w, NEW watch, NEW play, PushJob(t, w, c, watch, play)
    PROVE  /\ Fresh' /\ CacheTypeOK'
           /\ worker' = w \/ \E x : x.item \in listed /\ worker' = [w EXCEPT ![t] = x]
<1>1. /\ queue' \in Seq(JobOf(listed)) /\ deq' \in Seq(listed \X Int) /\ CacheTypeOK'
      /\ worker' = w \/ GivesJob(t, w, listed)
  BY JobIsTaken DEF Fresh
<1>2. Fresh' /\ CacheTypeOK'
  BY <1>1 DEF Fresh
<1>3. ASSUME NEW i \in listed, NEW f \in Int, worker' = [w EXCEPT ![t] = Busy(i, f, FALSE)]
      PROVE  \E x : x.item \in listed /\ worker' = [w EXCEPT ![t] = x]
  <2>1. Busy(i, f, FALSE).item \in listed
    BY DEF Busy
  <2>2. QED
    BY <1>3, <2>1
<1>4. QED
  BY <1>1, <1>2, <1>3 DEF GivesJob

\* What the types of the playlist say of single items.
LEMMA ListedItems ==
    ASSUME PlaylistInv
    PROVE  listed \subseteq Item /\ selected \in Item \cup {None}
<1>1. \A k \in DOMAIN Order : Order[k] \in Item
  <2>1. Order \in Seq(Item)
    BY ItemAssumption
  <2>2. QED
    BY <2>1
<1>2. QED
  BY <1>1 DEF PlaylistInv, PlaylistTypeOK

\* There are only so many items, and frames.
LEMMA ItemsAreFinite == IsFiniteSet(Item) /\ IsFiniteSet(Frame)
<1>1. PICK N \in Nat : Order \in [1 .. N -> Item]
  <2>1. Order \in Seq(Item)
    BY ItemAssumption
  <2>2. Len(Order) \in Nat /\ Order \in [1 .. Len(Order) -> Item]
    BY <2>1, LenProperties
  <2>3. QED
    BY <2>2
<1>2. Order \in Surjection(1 .. N, Item)
  BY <1>1, ItemAssumption DEF Surjection
<1>3. IsFiniteSet(Item)
  BY <1>2, FS_Interval, FS_Surjection
<1> DEFINE ranges == {FrameRange(i) : i \in Item}
           g == [i \in Item |-> FrameRange(i)]
<1>4. g \in Surjection(Item, ranges)
  BY DEF Surjection
<1> HIDE DEF g
<1>5. IsFiniteSet(ranges)
  BY <1>3, <1>4, FS_Surjection
<1>6. \A R \in ranges : IsFiniteSet(R)
  BY ItemAssumption, FS_Interval DEF FrameRange
<1>7. QED
  BY <1>3, <1>5, <1>6, FS_UNION DEF Frame

\* The memory of the frames in the caches is a number.
LEMMA LevelIsNumber ==
    ASSUME NEW items \in Seq(Item), NEW held \in [Item -> SUBSET Frame]
    PROVE  LevelOf(items, held) \in Nat
<1> DEFINE value == [i \in Item |-> SpaceOf(i, NrCached(held, i))]
<1>1. ASSUME NEW i \in Item
      PROVE  value[i] \in Nat
  <2>1. Cardinality(held[i]) \in Nat
    <3>1. held[i] \in SUBSET Frame
      OBVIOUS
    <3>2. QED
      BY <3>1, ItemsAreFinite, FS_Subset, FS_CardinalityType
  <2>2. FrameSize[i] \in Nat
    BY ItemAssumption
  <2>3. QED
    BY <2>1, <2>2 DEF SpaceOf, NrCached
<1>2. Valued(items, value)
  <2> HIDE DEF value
  <2>1. QED
    BY <1>1 DEF Valued
<1>3. Total(items, value) \in Nat
  BY <1>2, TotalType
<1>4. QED
  BY <1>3 DEF LevelOf

\* What the planner promises, of the plan that updateCacheQueue makes.
LEMMA PlanIsSound ==
    ASSUME PlaylistInv, NEW c \in [Item -> SUBSET Frame], NEW play \in BOOLEAN,
           UpdateCacheQueue(c, selected, play), listed' = listed,
           settings.enabled, listed # {}
    PROVE  /\ Fresh' /\ CacheTypeOK'
           /\ level' = LevelOf(ItemList(listed), cached') /\ level' <= settings.max
           /\ \A k \in DOMAIN deq' : deq'[k][2] \in cached'[deq'[k][1]]
           /\ \A k, m \in DOMAIN deq' : deq'[k] = deq'[m] => k = m
<1>1. listed \subseteq Item /\ selected \in listed \cup {None} /\ settings \in Settings
  BY ListedItems DEF PlaylistInv, PlaylistTypeOK
<1> DEFINE in == [listed |-> listed, cachable |-> Cachable, sel |-> selected,
                  play |-> play, max |-> settings.max, cached |-> c]
<1>2. Cachable \in SUBSET CachableItem
  BY DEF Cachable
<1>3. settings.max \in {s.max : s \in Settings}
  BY <1>1
<1>4. in \in PlanInput
  <2> DEFINE M == {s.max : s \in Settings}
             L == (SUBSET Item) \ {{}}
             C == [Item -> SUBSET Frame]
  <2>1. listed \in L /\ selected \in Item \cup {None} /\ settings.max \in M /\ c \in C
    BY <1>1, <1>3
  <2> HIDE DEF M, L, C
  <2>2. in \in [listed: L, cachable: SUBSET CachableItem, sel: Item \cup {None},
               play: BOOLEAN, max: M, cached: C]
    BY <1>2, <2>1
  <2>3. in.sel \in in.listed \cup {None}
    BY <1>1
  <2> HIDE DEF in
  <2>4. QED
    BY <2>2, <2>3 DEF PlanInput, PlanInputs, M, L, C
<1>5. SoundPlan(in, Plan(in))
  BY <1>4, PlannerAssumption
<1>6. /\ queue' = Plan(in).queue /\ deq' = Plan(in).deq /\ cached' = Plan(in).cached
      /\ level' = Plan(in).level
  BY DEF UpdateCacheQueue, MakePlan
<1>7. in.listed = listed /\ in.max = settings.max
  OBVIOUS
<1> HIDE DEF in
<1>8. QED
  BY <1>5, <1>6, <1>7 DEF SoundPlan, CacheTypeOK, Fresh, JobOf

\* A new plan is fresh; if caching is disabled the old queues stay.
LEMMA PlanIsFresh ==
    ASSUME PlaylistInv, NEW c \in [Item -> SUBSET Frame], NEW play \in BOOLEAN,
           UpdateCacheQueue(c, selected, play), listed' = listed
    PROVE  /\ CacheTypeOK' /\ (Fresh => Fresh') /\ (level \in Int => level' \in Int)
           /\ settings.enabled => Fresh'
           /\ ~settings.enabled => UNCHANGED <<queue, deq>>
<1>1. CASE ~settings.enabled
  BY <1>1 DEF UpdateCacheQueue, CacheTypeOK, Fresh, queueVars
<1>2. CASE settings.enabled /\ listed = {}
  BY <1>2 DEF UpdateCacheQueue, CacheTypeOK, Fresh
<1>3. CASE settings.enabled /\ listed # {}
  <2>1. /\ Fresh' /\ CacheTypeOK' /\ level' = LevelOf(ItemList(listed), cached')
    BY <1>3, PlanIsSound
  <2>2. ItemList(listed) \in Seq(Item)
    <3>1. listed \subseteq {Order[k] : k \in DOMAIN Order} /\ listed \subseteq Item
      BY ListedItems DEF PlaylistInv, PlaylistTypeOK
    <3>2. QED
      BY <3>1, ItemListLemma, SeqMonotonic
  <2>3. level' \in Int
    BY <2>1, <2>2, LevelIsNumber DEF CacheTypeOK
  <2>4. QED
    BY <1>3, <2>1, <2>3
<1>4. QED
  BY <1>1, <1>2, <1>3

\* After a call that is no plan the next one is not that of watching an item.
LEMMA NoWatchNext ==
    ASSUME PlaylistInv, calls # <<>>, Head(calls).op # "schedule"
    PROVE  Tail(calls) # <<>> => Head(Tail(calls)).op # "watch"
<1>1. /\ Len(calls) \in Nat /\ DOMAIN calls = 1 .. Len(calls) /\ Head(calls) = calls[1]
      /\ Tail(calls) \in Seq(CallType) /\ Len(Tail(calls)) = Len(calls) - 1
      /\ \A k \in 1 .. Len(calls) - 1 : Tail(calls)[k] = calls[k + 1]
  BY TailOfCalls DEF PlaylistInv
<1>2. SUFFICES ASSUME Tail(calls) # <<>>, Head(Tail(calls)).op = "watch"
               PROVE  FALSE
  OBVIOUS
<1>3. 2 \in DOMAIN calls /\ Head(Tail(calls)) = calls[2]
  <2> DEFINE rest == Tail(calls)
  <2>1. rest \in Seq(CallType) /\ rest # <<>> /\ Len(rest) = Len(calls) - 1
        /\ \A k \in 1 .. Len(calls) - 1 : rest[k] = calls[k + 1]
    BY <1>1, <1>2
  <2> HIDE DEF rest
  <2>2. Len(rest) # 0 /\ Head(rest) = rest[1]
    BY <2>1
  <2>3. 1 \in 1 .. Len(calls) - 1 /\ 2 \in DOMAIN calls
    BY <1>1, <2>1, <2>2
  <2>4. rest[1] = calls[2]
    BY <2>1, <2>3
  <2>5. QED
    BY <2>2, <2>3, <2>4 DEF rest
<1>4. calls[1].op = "schedule"
  BY <1>2, <1>3 DEF PlaylistInv, WatchComesLast
<1>5. QED
  BY <1>1, <1>4

\* In the idle pool no thread holds an item; outside of the pool none ever does.
LEMMA HeldByWorking ==
    ASSUME PoolInv
    PROVE  /\ \A t \in Thread : worker[t].item # None => t \in WorkingIn(worker)
           /\ workersState = "Idle" /\ ~filling => WorkingIn(worker) = {}
BY DEF PoolInv, HoldingIsWorking, OutsiderIsIdle, WorkingIn, IdleIsQuiet, PoolTypeOK
-----------------------------------------------------------------------------
\* Ways in which steps keep the parts of the invariant.
LEMMA AliveKept ==
    ASSUME ItemInv, listed \subseteq Item,
           UNCHANGED <<listed, destroyed, itemsToDelete>>,
           \A t \in Thread : worker'[t].item \in listed \cup {None, worker[t].item}
    PROVE  DeletedIsNotListed' /\ WorkerItemIsAlive'
<1>1. None \notin Item
  BY ItemAssumption
<1>2. QED
  BY <1>1 DEF ItemInv, DeletedIsNotListed, WorkerItemIsAlive

LEMMA ThreadsKept ==
    ASSUME ItemInv, UNCHANGED <<settings, threads, deleteNr, grow>>,
           ~settings.enabled => (filling' => left' = {}) /\ WorkingIn(worker') = WorkingIn(worker)
    PROVE  DisabledThreadsLeave'
BY DEF ItemInv, DisabledThreadsLeave, WorkingIn

LEMMA QueueKept ==
    ASSUME ItemInv, Fresh => Fresh',
           UNCHANGED <<workersState, filling, left, started, calls, settings>>
    PROVE  QueueIsListed'
BY DEF ItemInv, QueueIsListed

\* In the event loop an operation leaves the queues as fresh as they were, and the
\* state as it was or interrupted; the next call, if any, is not that of watching.
LEMMA QueueOfOperation ==
    ASSUME ItemInv, Fresh => Fresh', ~filling, UNCHANGED <<filling, left, started>>,
           workersState' = workersState \/ workersState' = "IntReqRestart",
           calls' # <<>> => calls'[1].op # "watch"
    PROVE  QueueIsListed'
<1>1. calls' # <<>> => Head(calls').op # "watch"
  OBVIOUS
<1>2. QED
  BY <1>1 DEF ItemInv, QueueIsListed

LEMMA ItemsUnchanged ==
    ASSUME ItemInv, UNCHANGED <<listed, destroyed, settings, queueVars, cached, poolVars,
                                worker, itemsToDelete, testItem, dialog, calls, grow, fillVars>>
    PROVE  ItemInv'
BY DEF ItemInv, CacheTypeOK, DeletedIsNotListed, WorkerItemIsAlive, DisabledThreadsLeave,
       QueueIsListed, Untested, Fresh, WorkingIn, queueVars, poolVars, fillVars
-----------------------------------------------------------------------------
\* The main thread gives jobs to the threads of the pool.
LEMMA PushIsListed ==
    ASSUME AllInv, Fresh, listed' = listed, NEW t \in Thread,
           Push(t, worker, cached, watching, playing)
    PROVE  /\ Fresh' /\ CacheTypeOK'
           /\ \A u \in Thread : worker'[u].item \in listed \cup {None, worker[u].item}
<1>1. /\ PushJob(t, worker, cached, watching, playing)
      /\ cached \in [Item -> SUBSET Frame]
      /\ worker = [u \in Thread \cup Slot |-> worker[u]]
  BY DEF Push, testMode, AllInv, ItemInv, Untested, CacheTypeOK, PoolInv, PoolTypeOK
<1>2. listed \subseteq Item
  BY ListedItems DEF AllInv
<1>3. /\ Fresh' /\ CacheTypeOK'
      /\ worker' = worker \/ \E x : x.item \in listed /\ worker' = [worker EXCEPT ![t] = x]
  BY <1>1, <1>2, JobIsListed
<1>4. QED
  BY <1>1, <1>3

LEMMA FillItems ==
    ASSUME AllInv, NEW t \in Thread, FillThread(t)
    PROVE  ItemInv'
<1>1. /\ filling /\ t \in left /\ t \in threads /\ left' = left \ {t}
      /\ Push(t, worker, cached, watching, playing)
      /\ UNCHANGED <<listed, destroyed, itemsToDelete, settings, workersState, threads,
                     deleteNr, filling, calls, grow, testItem, dialog>>
  BY DEF FillThread, AllInv, PoolInv, PoolTypeOK, playlistVars, poolVars, listVars
<1>2. settings.enabled /\ Fresh
  BY <1>1 DEF AllInv, ItemInv, DisabledThreadsLeave, QueueIsListed
<1>3. listed \subseteq Item
  BY ListedItems DEF AllInv
<1>4. /\ Fresh' /\ CacheTypeOK'
      /\ \A u \in Thread : worker'[u].item \in listed \cup {None, worker[u].item}
  BY <1>1, <1>2, PushIsListed
<1>5. DeletedIsNotListed' /\ WorkerItemIsAlive'
  BY <1>1, <1>3, <1>4, AliveKept DEF AllInv
<1>6. DisabledThreadsLeave' /\ QueueIsListed' /\ Untested'
  BY <1>1, <1>2, <1>4 DEF AllInv, ItemInv, DisabledThreadsLeave, QueueIsListed, Untested
<1>7. QED
  BY <1>4, <1>5, <1>6 DEF ItemInv

LEMMA FillDoneItems ==
    ASSUME AllInv, FillDone
    PROVE  ItemInv'
<1>1. /\ filling /\ left = {} /\ ~filling' /\ left' = {} /\ ~started'
      /\ workersState' = IF started THEN "Running" ELSE "Idle"
      /\ UNCHANGED <<listed, destroyed, itemsToDelete, settings, queue, deq, cached, threads,
                     deleteNr, worker, calls, grow, testItem, dialog>>
  BY DEF FillDone, playlistVars, queueVars, cacheVars, listVars, testVars
<1>2. started => Fresh
  BY <1>1 DEF AllInv, ItemInv, QueueIsListed
<1>3. QueueIsListed'
  BY <1>1, <1>2 DEF AllInv, ItemInv, QueueIsListed, Fresh
<1>4. QED
  BY <1>1, <1>3 DEF AllInv, ItemInv, CacheTypeOK, DeletedIsNotListed, WorkerItemIsAlive,
     DisabledThreadsLeave, Untested, WorkingIn

LEMMA StartWorkerItems ==
    ASSUME AllInv, NEW t \in Thread, StartWorkerThread(t)
    PROVE  ItemInv'
<1>1. /\ ~filling /\ grow > 0 /\ grow' = grow - 1
      /\ IF workersState = "Running"
           THEN Push(t, worker, cached, watching, playing)
           ELSE UNCHANGED <<worker, queueVars, cached, testLoop>>
      /\ UNCHANGED <<listed, destroyed, itemsToDelete, settings, workersState,
                     deleteNr, filling, left, started, calls, testItem, dialog>>
  BY DEF StartWorkerThread, playlistVars, fillVars, listVars
<1>2. /\ CacheTypeOK /\ settings.enabled /\ grow' \in Nat
      /\ workersState = "Running" => Fresh
  BY <1>1 DEF AllInv, ItemInv, DisabledThreadsLeave, QueueIsListed
<1>3. listed \subseteq Item
  BY ListedItems DEF AllInv
<1>4. /\ (Fresh => Fresh') /\ CacheTypeOK'
      /\ \A u \in Thread : worker'[u].item \in listed \cup {None, worker[u].item}
  <2>1. CASE workersState = "Running"
    BY <1>1, <1>2, <2>1, PushIsListed
  <2>2. CASE workersState # "Running"
    BY <1>1, <1>2, <2>2 DEF Fresh, CacheTypeOK, queueVars
  <2>3. QED
    BY <2>1, <2>2
<1>5. DeletedIsNotListed' /\ WorkerItemIsAlive'
  BY <1>1, <1>3, <1>4, AliveKept DEF AllInv
<1>6. DisabledThreadsLeave' /\ Untested'
  BY <1>1, <1>2 DEF AllInv, ItemInv, DisabledThreadsLeave, Untested
<1>7. QueueIsListed'
  BY <1>1, <1>4, QueueKept DEF AllInv
<1>8. QED
  BY <1>4, <1>5, <1>6, <1>7 DEF ItemInv
-----------------------------------------------------------------------------
\* The calls of the main thread.
LEMMA ScheduleItems ==
    ASSUME AllInv, scheduleCachingListUpdate
    PROVE  ItemInv'
<1>1. /\ ~filling /\ listed \subseteq Item
      /\ UNCHANGED <<listed, destroyed, itemsToDelete, settings, threads, deleteNr, worker,
                     grow, testItem, dialog>>
  BY ListedItems DEF scheduleCachingListUpdate, Calling, AllInv, playlistVars, listVars
<1>2. DeletedIsNotListed' /\ WorkerItemIsAlive'
  BY <1>1, AliveKept DEF AllInv
<1>3. workersState # "IntReqStop"
  BY DEF AllInv, ItemInv, Untested
<1>4. CASE /\ workersState' = "IntReqRestart"
           /\ UNCHANGED <<queueVars, cached, fillVars>>
  BY <1>1, <1>2, <1>4, ThreadsKept DEF AllInv, ItemInv, CacheTypeOK, QueueIsListed, Untested,
     fillVars
<1>5. CASE /\ workersState = "Idle" /\ settings.enabled /\ workersState' = workersState
           /\ UpdateCacheQueue(cached, selected, playing) /\ StartCaching
  <2>1. CacheTypeOK' /\ Fresh'
    BY <1>1, <1>5, PlanIsFresh DEF AllInv, ItemInv, CacheTypeOK, playing
  <2>2. QED
    BY <1>1, <1>2, <1>5, <2>1 DEF AllInv, ItemInv, DisabledThreadsLeave, QueueIsListed, Untested
<1>6. CASE /\ workersState = "Idle" /\ ~settings.enabled
           /\ UNCHANGED <<workersState, queueVars, cached, fillVars>>
  BY <1>1, <1>2, <1>6, ThreadsKept DEF AllInv, ItemInv, CacheTypeOK, QueueIsListed, Untested,
     fillVars
<1>7. QED
  BY <1>3, <1>4, <1>5, <1>6 DEF scheduleCachingListUpdate

LEMMA WatchItems ==
    ASSUME AllInv, watchItemForCachingFinished
    PROVE  ItemInv'
<1>1. /\ ~filling /\ listed \subseteq Item /\ calls # <<>> /\ Head(calls).op = "watch"
      /\ calls' = Tail(calls)
      /\ UNCHANGED <<listed, destroyed, itemsToDelete, settings, queue, deq, cached,
                     workersState, threads, deleteNr, worker, grow, testItem, dialog>>
  BY ListedItems DEF watchItemForCachingFinished, Calling, AllInv, queueVars, cacheVars,
     poolVars, testVars
<1>2. DeletedIsNotListed' /\ WorkerItemIsAlive' /\ CacheTypeOK' /\ Untested'
  BY <1>1, AliveKept DEF AllInv, ItemInv, CacheTypeOK, Untested
<1>3. calls' # <<>> => Head(calls').op # "watch"
  BY <1>1, NoWatchNext DEF AllInv
<1>4. Fresh' <=> Fresh
  BY <1>1 DEF Fresh
<1>5. CASE UNCHANGED fillVars
  BY <1>1, <1>2, <1>3, <1>4, <1>5, ThreadsKept DEF AllInv, ItemInv, QueueIsListed, fillVars
<1>6. CASE workersState = "Idle" /\ StartCaching
  <2>1. /\ filling' = TRUE /\ left' = threads /\ started' = FALSE
        /\ WorkingIn(worker) = {}
    BY <1>1, <1>6, HeldByWorking DEF AllInv, StartCaching
  <2>2. ~settings.enabled => left' = {}
    BY <2>1 DEF AllInv, ItemInv, DisabledThreadsLeave
  <2>3. settings.enabled => Fresh
    BY <1>1, <1>6 DEF AllInv, ItemInv, QueueIsListed
  <2>4. DisabledThreadsLeave'
    BY <1>1, <2>2, ThreadsKept DEF AllInv
  <2>5. QueueIsListed'
    BY <1>1, <1>3, <1>4, <1>6, <2>1, <2>2, <2>3 DEF QueueIsListed
  <2>6. QED
    BY <1>2, <2>4, <2>5 DEF ItemInv
<1>7. QED
  BY <1>5, <1>6 DEF watchItemForCachingFinished

LEMMA TagItems ==
    ASSUME AllInv, TagItem
    PROVE  ItemInv'
<1>1. /\ ~filling /\ listed \subseteq Item /\ calls # <<>> /\ Head(calls).op = "tag"
      /\ calls' = Schedule \o Tail(calls) \/ calls' = Tail(calls)
      /\ UNCHANGED <<listed, destroyed, itemsToDelete, settings, queue, deq, cached,
                     workersState, threads, deleteNr, worker, grow, filling, left, started,
                     testItem, dialog>>
  BY ListedItems DEF TagItem, Calling, AllInv, queueVars, cacheVars, poolVars, testVars, fillVars
<1>2. /\ DeletedIsNotListed' /\ WorkerItemIsAlive' /\ CacheTypeOK' /\ Untested'
      /\ DisabledThreadsLeave'
  BY <1>1, AliveKept, ThreadsKept DEF AllInv, ItemInv, CacheTypeOK, Untested
<1>3. calls' # <<>> => Head(calls').op # "watch"
  <2>1. CASE calls' = Tail(calls)
    BY <1>1, <2>1, NoWatchNext DEF AllInv
  <2>2. CASE calls' = Schedule \o Tail(calls)
    <3> DEFINE rest == Tail(calls)
    <3>1. rest \in Seq(CallType) /\ calls' = Schedule \o rest
      BY <1>1, <2>2, TailOfCalls DEF AllInv, PlaylistInv
    <3> HIDE DEF rest
    <3>2. calls' \in Seq(CallType) /\ Len(calls') = 1 + Len(rest) /\ calls'[1] = Schedule[1]
      <4>1. Len(rest) \in Nat
        BY <3>1
      <4>2. QED
        BY <3>1, <4>1, PlanFirst
    <3>3. Head(calls') = Schedule[1]
      BY <3>2
    <3>4. QED
      BY <3>3, ScheduleCall
  <2>3. QED
    BY <1>1, <2>1, <2>2
<1>4. QueueIsListed'
  BY <1>1, <1>3 DEF AllInv, ItemInv, QueueIsListed, Fresh
<1>5. QED
  BY <1>2, <1>4 DEF ItemInv

\* An item is deleted at once only if no thread holds it: the threads are asked
\* unless they are idle, and then they hold none.
LEMMA DeleteItems ==
    ASSUME AllInv, itemAboutToBeDeleted
    PROVE  ItemInv'
<1> DEFINE i == Head(calls).item
<1>1. /\ ~filling /\ listed \subseteq Item /\ calls # <<>>
      /\ Head(calls).op = "aboutToBeDeleted"
      /\ calls' = Tail(calls) /\ listed' = listed \ {i} /\ i \in Item
      /\ workersState' = IF workersState # "Idle" THEN "IntReqRestart" ELSE "Idle"
      /\ UNCHANGED <<settings, queue, deq, cached, threads, deleteNr, worker, grow,
                     filling, left, started, testItem, dialog>>
  BY ListedItems, DeletePlaylist DEF itemAboutToBeDeleted, Calling, AllInv, queueVars, cacheVars,
     testVars, fillVars
<1>2. \/ itemsToDelete' = itemsToDelete \cup {i} /\ destroyed' = destroyed
      \/ /\ destroyed' = destroyed \cup {i} /\ itemsToDelete' = itemsToDelete
         /\ workersState = "Idle" \/ CachedBy(i, worker) = {}
  BY DEF itemAboutToBeDeleted
<1> HIDE DEF i
<1>3. DeletedIsNotListed'
  BY <1>1, <1>2 DEF AllInv, ItemInv, DeletedIsNotListed
<1>4. WorkerItemIsAlive'
  <2>1. CASE destroyed' = destroyed
    BY <1>1, <2>1 DEF AllInv, ItemInv, WorkerItemIsAlive
  <2>2. CASE /\ destroyed' = destroyed \cup {i}
             /\ workersState = "Idle" \/ CachedBy(i, worker) = {}
    <3>1. i # None
      BY <1>1, ItemAssumption
    <3>2. \A t \in Thread : worker[t].item # i
      BY <1>1, <2>2, <3>1, HeldByWorking DEF AllInv, CachedBy, WorkingIn
    <3>3. QED
      BY <1>1, <2>2, <3>2 DEF AllInv, ItemInv, WorkerItemIsAlive
  <2>3. QED
    BY <1>2, <2>1, <2>2
<1>5. calls' # <<>> => Head(calls').op # "watch"
  BY <1>1, NoWatchNext DEF AllInv
<1>6. QueueIsListed'
  BY <1>1, <1>5 DEF AllInv, ItemInv, QueueIsListed
<1>7. CacheTypeOK' /\ Untested' /\ DisabledThreadsLeave'
  BY <1>1, ThreadsKept DEF AllInv, ItemInv, CacheTypeOK, Untested
<1>8. QED
  BY <1>3, <1>4, <1>6, <1>7 DEF ItemInv
-----------------------------------------------------------------------------
\* The signals of the workers. Items that no thread holds any more are deleted.
LEMMA GoneItems ==
    ASSUME ItemInv, listed \subseteq Item, listed' = listed,
           NEW gone \in SUBSET itemsToDelete,
           destroyed' = destroyed \cup gone, itemsToDelete' = itemsToDelete \ gone,
           \A t \in Thread : \/ worker'[t].item \in listed \cup {None}
                             \/ worker'[t].item = worker[t].item /\ worker[t].item \notin gone
    PROVE  DeletedIsNotListed' /\ WorkerItemIsAlive'
<1>1. None \notin Item
  BY ItemAssumption
<1>2. QED
  BY <1>1 DEF ItemInv, DeletedIsNotListed, WorkerItemIsAlive

LEMMA WorkItems ==
    ASSUME AllInv, NEW t \in Thread, processCacheJobInternal(t)
    PROVE  ItemInv'
<1>1. /\ t \in threads /\ worker[t].item # None /\ listed \subseteq Item
      /\ worker' = [worker EXCEPT ![t] = PostedWorker]
      /\ UNCHANGED <<listed, destroyed, itemsToDelete, settings, queue, deq, workersState,
                     threads, deleteNr, calls, grow, filling, left, started, testItem, dialog>>
  BY ListedItems DEF processCacheJobInternal, AllInv, playlistVars, queueVars, poolVars,
     listVars, testVars, fillVars
<1>2. PostedWorker.working = TRUE /\ PostedWorker.item = None
  BY DEF PostedWorker, IdleWorker
<1>3. worker'[t] = PostedWorker /\ \A u \in Thread \ {t} : worker'[u] = worker[u]
  BY <1>1 DEF AllInv, PoolInv, PoolTypeOK
<1>4. WorkingIn(worker') = WorkingIn(worker)
  <2>1. threads \subseteq Thread /\ worker[t].working = TRUE
    BY <1>1 DEF AllInv, PoolInv, PoolTypeOK, HoldingIsWorking
  <2>2. \A u \in threads : worker'[u].working <=> worker[u].working
    BY <1>2, <1>3, <2>1
  <2>3. QED
    BY <2>2 DEF WorkingIn
<1>5. CacheTypeOK'
  <2>1. \A i \in Item : FrameRange(i) \subseteq Frame
    BY DEF Frame
  <2>2. worker[t].item \in Item
    BY <1>1 DEF AllInv, ItemInv, WorkerItemIsAlive
  <2>3. \/ cached' = cached
        \/ \E f \in Frame : cached' = [cached EXCEPT ![worker[t].item] = @ \cup {f}]
    BY <2>1, <2>2 DEF processCacheJobInternal
  <2>4. QED
    BY <2>2, <2>3 DEF AllInv, ItemInv, CacheTypeOK
<1>6. DeletedIsNotListed' /\ WorkerItemIsAlive'
  BY <1>1, <1>2, <1>3, AliveKept DEF AllInv
<1>7. DisabledThreadsLeave'
  BY <1>1, <1>4, ThreadsKept DEF AllInv, ItemInv, DisabledThreadsLeave
<1>8. QueueIsListed' /\ Untested'
  BY <1>1, QueueKept DEF AllInv, ItemInv, Untested, Fresh
<1>9. QED
  BY <1>5, <1>6, <1>7, <1>8 DEF ItemInv

\* The interactive threads have workers of their own.
LEMMA SlotItems ==
    ASSUME AllInv, NEW s \in Slot,
           InteractiveThread(s) \/ \E i \in Item, f \in Frame \cup {NoFrame} : loadFrame(i, f, s)
    PROVE  ItemInv'
<1>1. /\ listed \subseteq Item
      /\ UNCHANGED <<listed, settings, queue, deq, cached, workersState, threads, deleteNr,
                     calls, grow, filling, left, started, testItem, dialog>>
  BY ListedItems DEF InteractiveThread, processLoadingJobInternal, interactiveLoaderFinished,
     loadFrame, AllInv, playlistVars, queueVars, cacheVars, poolVars, testVars, fillVars
<1>2. worker' = worker \/ \E x : worker' = [worker EXCEPT ![s] = x]
  BY DEF InteractiveThread, processLoadingJobInternal, interactiveLoaderFinished, loadFrame
<1>3. \A t \in Thread : worker'[t] = worker[t]
  BY <1>2, PoolAssumption DEF AllInv, PoolInv, PoolTypeOK
<1>4. WorkingIn(worker') = WorkingIn(worker)
  BY <1>3 DEF AllInv, PoolInv, PoolTypeOK, WorkingIn
<1>5. DeletedIsNotListed' /\ WorkerItemIsAlive'
  <2>1. CASE UNCHANGED <<destroyed, itemsToDelete>>
    BY <1>1, <1>3, <2>1, AliveKept DEF AllInv
  <2>2. CASE interactiveLoaderFinished(s)
    <3> DEFINE gone == Deletable(worker)
    <3>1. /\ destroyed' = destroyed \cup gone /\ itemsToDelete' = itemsToDelete \ gone
      BY <2>2 DEF interactiveLoaderFinished
    <3>2. gone \in SUBSET itemsToDelete /\ \A i \in gone : CachedBy(i, worker) = {}
      BY DEF Deletable
    <3> HIDE DEF gone
    <3>3. ASSUME NEW t \in Thread, worker[t].item \in gone
          PROVE  FALSE
      <4>1. worker[t].item # None
        BY <3>2, <3>3, ItemAssumption DEF AllInv, ItemInv, DeletedIsNotListed
      <4>2. t \in threads
        BY <4>1, HeldByWorking DEF AllInv, WorkingIn
      <4>3. QED
        BY <3>2, <3>3, <4>2 DEF CachedBy
    <3>4. QED
      BY <1>1, <1>3, <3>1, <3>2, <3>3, GoneItems DEF AllInv
  <2>3. QED
    BY <2>1, <2>2 DEF InteractiveThread, processLoadingJobInternal, loadFrame, playlistVars,
       listVars
<1>6. DisabledThreadsLeave'
  BY <1>1, <1>4, ThreadsKept DEF AllInv, ItemInv, DisabledThreadsLeave
<1>7. QueueIsListed' /\ Untested' /\ CacheTypeOK'
  BY <1>1, QueueKept DEF AllInv, ItemInv, Untested, Fresh, CacheTypeOK
<1>8. QED
  BY <1>5, <1>6, <1>7 DEF ItemInv

\* A thread that leaves the pool after caching was disabled.
LEMMA LeavingThread ==
    ASSUME ItemInv, PoolInv, ~settings.enabled, NEW t \in threads,
           NEW w, w = [worker EXCEPT ![t] = IdleWorker]
    PROVE  /\ deleteNr > 0 /\ \A u \in threads \ {t} : w[u].working
           /\ Cardinality(threads \ {t}) <= deleteNr - 1
<1>1. IsFiniteSet(threads)
  BY PoolAssumption, FS_Subset DEF PoolInv, PoolTypeOK
<1>2. threads = WorkingIn(worker) /\ Cardinality(threads) <= deleteNr /\ deleteNr \in Nat
  BY DEF ItemInv, DisabledThreadsLeave
<1>3. Cardinality(threads) \in Nat /\ Cardinality(threads) # 0
  BY <1>1, FS_CardinalityType, FS_EmptySet
<1>4. Cardinality(threads \ {t}) = Cardinality(threads) - 1
  BY <1>1, FS_RemoveElement
<1>5. \A u \in threads \ {t} : w[u] = worker[u]
  BY DEF PoolInv, PoolTypeOK
<1>6. QED
  BY <1>2, <1>3, <1>4, <1>5 DEF WorkingIn

LEMMA FinishedItems ==
    ASSUME AllInv, NEW t \in Thread, threadCachingFinished(t)
    PROVE  ItemInv'
<1> DEFINE w == [worker EXCEPT ![t] = IdleWorker]
           gone == Deletable(w)
           c == [i \in Item |-> IF i \in Clearable(w) THEN {} ELSE cached[i]]
<1>1. /\ ~filling /\ calls = <<>> /\ t \in threads /\ listed \subseteq Item
      /\ destroyed' = destroyed \cup gone /\ itemsToDelete' = itemsToDelete \ gone
      /\ UNCHANGED <<listed, selected, settings, calls, grow, testItem, dialog>>
  BY ListedItems DEF threadCachingFinished, InEventLoop, AllInv, testVars
<1>2. \/ deleteNr > 0 /\ threads' = threads \ {t} /\ deleteNr' = deleteNr - 1
      \/ deleteNr = 0 /\ UNCHANGED <<threads, deleteNr>>
  BY DEF threadCachingFinished
<1>3. grow \in Nat /\ deleteNr \in Nat /\ cached \in [Item -> SUBSET Frame]
      /\ workersState # "IntReqStop"
  BY DEF AllInv, ItemInv, DisabledThreadsLeave, CacheTypeOK, Untested
<1>4. c \in [Item -> SUBSET Frame]
  BY <1>3
<1>5. /\ w[t] = IdleWorker /\ \A u \in Thread \ {t} : w[u] = worker[u]
      /\ IdleWorker.item = None
      /\ w = [u \in Thread \cup Slot |-> w[u]] /\ threads \subseteq Thread
  BY DEF AllInv, PoolInv, PoolTypeOK, IdleWorker
<1>6. ASSUME NEW u \in Thread
      PROVE  w[u].item = None \/ (w[u].item = worker[u].item /\ worker[u].item \notin gone)
  <2>1. \A i \in gone : CachedBy(i, w) = {}
    BY DEF Deletable
  <2> HIDE DEF gone, w
  <2>2. ASSUME u # t, worker[u].item # None, worker[u].item \in gone
        PROVE  FALSE
    <3>1. u \in threads
      BY <2>2, HeldByWorking DEF AllInv, WorkingIn
    <3>2. QED
      BY <1>5, <2>1, <2>2, <3>1 DEF CachedBy
  <2>3. QED
    BY <1>5, <2>2
<1>7. gone \in SUBSET itemsToDelete
  BY DEF Deletable
<1>8. ~settings.enabled =>
        /\ deleteNr > 0 /\ \A u \in threads \ {t} : w[u].working
        /\ Cardinality(threads \ {t}) <= deleteNr - 1
  BY <1>1, LeavingThread DEF AllInv
<1>9. CASE workersState = "Running" /\ deleteNr = 0
  <2>1. PICK watch, play : PushJob(t, w, c, watch, play)
    <3>1. PushJob(t, w, c, watching', playMode' # "Stopped")
      BY <1>9 DEF threadCachingFinished
    <3> HIDE DEF w, c
    <3>2. QED
      BY <3>1
  <2>2. /\ UNCHANGED <<threads, deleteNr, filling, left, started>>
        /\ workersState' \in {"Idle", "Running"}
    BY <1>9, <1>2 DEF threadCachingFinished, fillVars
  <2>3. Fresh
    BY <1>9 DEF AllInv, ItemInv, QueueIsListed
  <2> HIDE DEF w, c, gone
  <2>4. /\ Fresh' /\ CacheTypeOK'
        /\ worker' = w \/ \E x : x.item \in listed /\ worker' = [w EXCEPT ![t] = x]
    BY <1>1, <1>4, <2>1, <2>3, JobIsListed
  <2>5. \A u \in Thread : worker'[u] = w[u] \/ worker'[u].item \in listed
    BY <1>5, <2>4
  <2>6. \A u \in Thread : \/ worker'[u].item \in listed \cup {None}
                          \/ worker'[u].item = worker[u].item /\ worker[u].item \notin gone
    BY <1>6, <2>5
  <2>7. DeletedIsNotListed' /\ WorkerItemIsAlive'
    BY <1>1, <1>7, <2>6, GoneItems DEF AllInv
  <2>8. DisabledThreadsLeave' /\ QueueIsListed' /\ Untested'
    BY <1>1, <1>3, <1>8, <1>9, <2>2, <2>4 DEF AllInv, ItemInv, DisabledThreadsLeave,
       QueueIsListed, Untested
  <2>9. QED
    BY <2>4, <2>7, <2>8 DEF ItemInv
<1>10. CASE workersState # "Running" \/ deleteNr > 0
  <2>1. worker' = w
    BY <1>10 DEF threadCachingFinished
  <2>2. DeletedIsNotListed' /\ WorkerItemIsAlive'
    <3> HIDE DEF w, c, gone
    <3>1. \A u \in Thread : \/ worker'[u].item \in listed \cup {None}
                            \/ worker'[u].item = worker[u].item /\ worker[u].item \notin gone
      BY <1>6, <2>1
    <3>2. QED
      BY <1>1, <1>7, <3>1, GoneItems DEF AllInv
  <2>3. ASSUME ~settings.enabled
        PROVE  /\ threads' = threads \ {t} /\ threads' = WorkingIn(worker)'
               /\ Cardinality(threads') <= deleteNr'
    <3>1. threads' = threads \ {t} /\ deleteNr' = deleteNr - 1
      BY <1>2, <1>8, <2>3
    <3>2. \A u \in threads' : worker'[u].working
      BY <1>8, <2>1, <2>3, <3>1
    <3>3. QED
      BY <1>8, <2>3, <3>1, <3>2 DEF WorkingIn
  <2>4. grow' \in Nat /\ deleteNr' \in Nat
    BY <1>1, <1>2, <1>3
  <2>5. CASE Restarts(w)
    <3>1. PICK play \in BOOLEAN : UpdateCacheQueue(c, selected, play)
      <4>1. UpdateCacheQueue(c, selected, playMode' # "Stopped")
        BY <1>10, <2>5 DEF threadCachingFinished
      <4> HIDE DEF w, c
      <4>2. QED
        BY <4>1
    <3>2. /\ filling' = TRUE /\ left' = threads' /\ started' = FALSE
          /\ workersState' = "IntReqRestart" /\ WorkingIn(w) = {}
      BY <1>10, <2>5 DEF threadCachingFinished, Restarts
    <3> HIDE DEF w, c, gone
    <3>3. CacheTypeOK' /\ (settings.enabled => Fresh')
      BY <1>1, <1>4, <3>1, PlanIsFresh DEF AllInv
    <3>4. ~settings.enabled => left' = {}
      BY <1>8, <2>3, <3>2 DEF WorkingIn
    <3>5. DisabledThreadsLeave'
      BY <1>1, <2>3, <2>4, <3>4 DEF AllInv, ItemInv, DisabledThreadsLeave
    <3>6. QueueIsListed' /\ Untested'
      BY <1>1, <3>2, <3>3, <3>4 DEF AllInv, ItemInv, QueueIsListed, Untested
    <3>7. QED
      BY <2>2, <3>3, <3>5, <3>6 DEF ItemInv
  <2>6. CASE ~Restarts(w)
    <3>1. /\ cached' = c /\ UNCHANGED queueVars /\ UNCHANGED fillVars
          /\ workersState' = IF WorkingIn(w) = {} THEN "Idle" ELSE workersState
      <4>1. \/ Restarts(w)
            \/ /\ ~Restarts(w) /\ cached' = c
               /\ workersState' = IF WorkingIn(w) = {} THEN "Idle" ELSE workersState
               /\ UNCHANGED queueVars /\ UNCHANGED fillVars
        <5>1. ~(workersState = "Running" /\ deleteNr = 0)
          BY <1>10
        <5>2. QED
          BY <5>1, Zenon DEF threadCachingFinished
      <4> HIDE DEF w, c
      <4>2. QED
        BY <2>6, <4>1
    <3> HIDE DEF w, c, gone
    <3>2. /\ UNCHANGED <<queue, deq, filling, left, started>>
          /\ workersState' = workersState \/ workersState' = "Idle"
      BY <3>1 DEF queueVars, fillVars
    <3>3. CacheTypeOK' /\ (Fresh <=> Fresh')
      BY <1>1, <1>4, <3>1, <3>2 DEF CacheTypeOK, Fresh
    <3>4. DisabledThreadsLeave'
      BY <1>1, <2>3, <2>4, <3>2 DEF AllInv, ItemInv, DisabledThreadsLeave
    <3>5. QueueIsListed' /\ Untested'
      BY <1>1, <1>3, <3>2, <3>3 DEF AllInv, ItemInv, QueueIsListed, Untested
    <3>6. QED
      BY <2>2, <3>3, <3>4, <3>5 DEF ItemInv
  <2>7. QED
    BY <2>5, <2>6
<1>11. QED
  BY <1>3, <1>9, <1>10
-----------------------------------------------------------------------------
\* What the user does. Most operations only leave calls to be made, or none.
LEMMA OperationItems ==
    ASSUME ItemInv, ~filling, calls' # <<>> => calls'[1].op # "watch",
           UNCHANGED <<listed, destroyed, settings, queue, deq, cached, workersState, threads,
                       deleteNr, worker, itemsToDelete, testItem, dialog, grow, filling, left,
                       started>>
    PROVE  ItemInv'
<1>1. QueueIsListed'
  BY QueueOfOperation DEF Fresh
<1>2. QED
  BY <1>1 DEF ItemInv, CacheTypeOK, DeletedIsNotListed, WorkerItemIsAlive,
     DisabledThreadsLeave, Untested, WorkingIn

LEMMA NoCall ==
    ASSUME calls' = <<>> \/ calls' = Schedule
    PROVE  calls' # <<>> => calls'[1].op # "watch"
BY ScheduleCall

LEMMA UserItems ==
    ASSUME AllInv,
           \/ \E i \in Item : SelectItem(i)
           \/ \E all \in BOOLEAN : deletePlaylistItems(all)
           \/ StopPlayback \/ GoToNextItem
    PROVE  ItemInv'
<1>1. CASE \E i \in Item : SelectItem(i)
  <2>1. ~filling /\ (calls' # <<>> => calls'[1].op # "watch")
    BY <1>1, NoCall DEF SelectItem, UserOp, InEventLoop
  <2>2. QED
    BY <1>1, <2>1, OperationItems DEF AllInv, SelectItem, queueVars, cacheVars, poolVars,
       testVars, fillVars
<1>2. CASE \E all \in BOOLEAN : deletePlaylistItems(all)
  <2>1. \A k \in DOMAIN calls' : calls'[k].op # "watch"
    BY <1>2, DeleteItemsPlaylist DEF AllInv
  <2>2. calls' \in Seq(CallType)
    BY <1>2, DeleteItemsPlaylist DEF AllInv, PlaylistInv, PlaylistTypeOK
  <2>3. calls' # <<>> => 1 \in DOMAIN calls'
    BY <2>2
  <2>4. ~filling
    BY <1>2 DEF deletePlaylistItems, UserOp, InEventLoop
  <2>5. QED
    BY <1>2, <2>1, <2>3, <2>4, OperationItems DEF AllInv, deletePlaylistItems, playlistVars,
       queueVars, cacheVars, poolVars, listVars, testVars, fillVars
<1>3. CASE StopPlayback
  <2>1. ~filling /\ (calls' # <<>> => calls'[1].op # "watch")
    BY <1>3, NoCall DEF StopPlayback, UserOp, InEventLoop
  <2>2. QED
    BY <1>3, <2>1, OperationItems DEF AllInv, StopPlayback, queueVars, cacheVars, poolVars,
       testVars, fillVars
<1>4. CASE GoToNextItem
  <2>1. ~filling /\ (calls' # <<>> => calls'[1].op # "watch")
    BY <1>4, NextItemPlaylist DEF AllInv, GoToNextItem, UserOp, InEventLoop
  <2>2. QED
    BY <1>4, <2>1, OperationItems DEF AllInv, GoToNextItem, queueVars, cacheVars, poolVars,
       testVars, fillVars
<1>5. QED
  BY <1>1, <1>2, <1>3, <1>4

LEMMA StartItems ==
    ASSUME AllInv, StartPlayback
    PROVE  ItemInv'
<1>1. /\ ~filling /\ listed \subseteq Item
      /\ UpdateCacheQueue(cached, selected, FALSE)
      /\ calls' = <<>> \/ settings.enabled
      /\ UNCHANGED <<listed, destroyed, settings, workersState, threads, deleteNr, worker,
                     itemsToDelete, testItem, dialog, grow, filling, left, started>>
  BY ListedItems DEF AllInv, StartPlayback, UserOp, InEventLoop, poolVars, listVars, testVars,
     fillVars
<1>2. CacheTypeOK' /\ (Fresh => Fresh') /\ (settings.enabled => Fresh')
  BY <1>1, PlanIsFresh DEF AllInv, ItemInv, CacheTypeOK
<1>3. QueueIsListed'
  BY <1>1, <1>2 DEF AllInv, ItemInv, QueueIsListed
<1>4. QED
  BY <1>1, <1>2, <1>3, AliveKept, ThreadsKept DEF AllInv, ItemInv, Untested

LEMMA RecacheItems ==
    ASSUME AllInv, NEW i \in Item, NEW clear \in BOOLEAN, itemNeedsRecache(i, clear)
    PROVE  ItemInv'
<1>1. /\ ~filling /\ listed \subseteq Item /\ calls = <<>> /\ (calls' = <<>> \/ calls' = Schedule)
      /\ workersState' = workersState \/ workersState' = "IntReqRestart"
      /\ UNCHANGED <<listed, destroyed, settings, queue, deq, threads, deleteNr, itemsToDelete,
                     testItem, dialog, grow, filling, left, started>>
  BY ListedItems DEF AllInv, itemNeedsRecache, UserOp, InEventLoop, playlistVars, queueVars,
     testVars, fillVars
<1>2. \A t \in Thread : /\ worker'[t].item = worker[t].item
                        /\ worker'[t].working = worker[t].working
  <2>1. DOMAIN worker = Thread \cup Slot
    BY DEF AllInv, PoolInv, PoolTypeOK
  <2>2. \/ worker' = worker
        \/ worker' = [t \in DOMAIN worker |->
                        IF worker[t].item = i /\ t \in threads
                          THEN Outdate(worker[t]) ELSE worker[t]]
    BY DEF itemNeedsRecache
  <2>3. \A t \in Thread : worker'[t] = worker[t] \/ worker'[t] = Outdate(worker[t])
    BY <2>1, <2>2
  <2>4. \A t \in Thread : /\ Outdate(worker[t]).item = worker[t].item
                          /\ Outdate(worker[t]).working = worker[t].working
    BY DEF Outdate
  <2>5. QED
    BY <2>3, <2>4
<1>3. WorkingIn(worker') = WorkingIn(worker)
  BY <1>2 DEF WorkingIn, AllInv, PoolInv, PoolTypeOK
<1>4. CacheTypeOK'
  BY DEF itemNeedsRecache, AllInv, ItemInv, CacheTypeOK
<1>5. DeletedIsNotListed' /\ WorkerItemIsAlive'
  BY <1>1, <1>2, AliveKept DEF AllInv
<1>6. QueueIsListed'
  BY <1>1, NoCall, QueueOfOperation DEF AllInv, Fresh
<1>7. DisabledThreadsLeave' /\ Untested'
  BY <1>1, <1>3, ThreadsKept DEF AllInv, ItemInv, Untested
<1>8. QED
  BY <1>4, <1>5, <1>6, <1>7 DEF ItemInv

\* Threads are created, or removed: the idle ones at once, the others when they
\* have finished.
LEMMA SettingsItems ==
    ASSUME AllInv, NEW s \in Settings, updateSettings(s)
    PROVE  ItemInv'
<1> DEFINE surplus == Cardinality(threads) - targetNrThreads(s)
           idle == threads \ WorkingIn(worker)
<1>1. /\ ~filling /\ listed \subseteq Item /\ (calls' = <<>> \/ calls' = Schedule)
      /\ settings' = s /\ grow' = IF surplus < 0 THEN -surplus ELSE 0
      /\ UNCHANGED <<listed, destroyed, queue, deq, cached, workersState, worker, itemsToDelete,
                     testItem, dialog, filling, left, started>>
  BY ListedItems DEF AllInv, updateSettings, UserOp, InEventLoop, queueVars, cacheVars,
     listVars, testVars, fillVars
<1>2. \/ surplus <= 0 /\ UNCHANGED <<threads, deleteNr>>
      \/ /\ surplus > 0 /\ deleteNr' = deleteNr
         /\ \E R \in SUBSET idle : Cardinality(R) = surplus /\ threads' = threads \ R
      \/ /\ surplus > 0 /\ threads' = threads \ idle
         /\ deleteNr' = surplus - Cardinality(idle) /\ surplus > Cardinality(idle)
  BY DEF updateSettings
<1>3. /\ IsFiniteSet(threads) /\ IsFiniteSet(idle)
      /\ Cardinality(threads) \in Nat /\ Cardinality(idle) \in Nat
      /\ Cardinality(WorkingIn(worker)) \in Nat
      /\ Cardinality(WorkingIn(worker)) = Cardinality(threads) - Cardinality(idle)
  <2>1. IsFiniteSet(threads)
    BY PoolAssumption, FS_Subset DEF AllInv, PoolInv, PoolTypeOK
  <2>2. WorkingIn(worker) = threads \ idle /\ threads \cap idle = idle
    BY DEF WorkingIn
  <2> HIDE DEF idle
  <2>3. IsFiniteSet(idle)
    BY <2>1, <2>2, FS_Subset
  <2>4. IsFiniteSet(WorkingIn(worker))
        /\ Cardinality(WorkingIn(worker)) = Cardinality(threads) - Cardinality(idle)
    BY <2>1, <2>2, FS_Difference
  <2>5. QED
    BY <2>1, <2>3, <2>4, FS_CardinalityType
<1>4. targetNrThreads(s) \in Nat /\ (~s.enabled => targetNrThreads(s) = 0)
  BY PoolAssumption DEF targetNrThreads
<1>5. grow \in Nat /\ deleteNr \in Nat
  BY DEF AllInv, ItemInv, DisabledThreadsLeave
<1>6. grow' \in Nat /\ deleteNr' \in Nat
  BY <1>1, <1>2, <1>3, <1>4, <1>5
<1>7. ASSUME ~s.enabled
      PROVE  grow' = 0 /\ threads' = WorkingIn(worker)' /\ Cardinality(threads') <= deleteNr'
  <2>1. surplus = Cardinality(threads)
    BY <1>3, <1>4, <1>7
  <2>2. grow' = 0
    BY <1>1, <1>3, <2>1
  <2>3. CASE surplus <= 0 /\ UNCHANGED <<threads, deleteNr>>
    <3>1. threads = {}
      BY <1>3, <2>1, <2>3, FS_EmptySet
    <3>2. QED
      BY <1>5, <2>2, <2>3, <3>1, FS_EmptySet DEF WorkingIn
  <2>4. ASSUME NEW R \in SUBSET idle, Cardinality(R) = surplus, threads' = threads \ R,
               deleteNr' = deleteNr
        PROVE  threads' = WorkingIn(worker)' /\ Cardinality(threads') <= deleteNr'
    <3>1. R \in SUBSET threads
      BY <2>4
    <3>2. threads = R
      BY <1>3, <2>1, <2>4, <3>1, FS_Subset
    <3>3. threads' = {}
      BY <2>4, <3>2
    <3>4. QED
      BY <1>5, <2>4, <3>3, FS_EmptySet DEF WorkingIn
  <2>5. CASE threads' = threads \ idle /\ deleteNr' = surplus - Cardinality(idle)
    <3>1. threads' = WorkingIn(worker) /\ WorkingIn(worker)' = threads'
      BY <1>1, <2>5 DEF WorkingIn
    <3>2. Cardinality(threads') = Cardinality(threads) - Cardinality(idle)
      BY <1>3, <3>1
    <3> HIDE DEF surplus, idle
    <3>3. Cardinality(threads') = deleteNr'
      BY <2>1, <2>5, <3>2
    <3>4. Cardinality(threads') <= deleteNr'
      BY <1>6, <3>3
    <3>5. QED
      BY <2>2, <3>1, <3>4
  <2>6. QED
    BY <1>2, <2>2, <2>3, <2>4, <2>5
<1>8. DisabledThreadsLeave'
  BY <1>1, <1>6, <1>7 DEF DisabledThreadsLeave
<1>9. DeletedIsNotListed' /\ WorkerItemIsAlive'
  BY <1>1, AliveKept DEF AllInv
<1>10. QueueIsListed'
  BY <1>1, NoCall, QueueOfOperation DEF AllInv, Fresh
<1>11. QED
  BY <1>1, <1>8, <1>9, <1>10 DEF AllInv, ItemInv, CacheTypeOK, Untested

LEMMA InitItems == Init => ItemInv
<1> SUFFICES ASSUME Init
             PROVE  ItemInv
  OBVIOUS
<1>1. targetNrThreads(InitialSettings) \in Nat
      /\ (~InitialSettings.enabled => targetNrThreads(InitialSettings) = 0)
  BY PoolAssumption DEF targetNrThreads
<1>2. DisabledThreadsLeave
  BY <1>1, FS_EmptySet DEF Init, DisabledThreadsLeave, WorkingIn
<1>3. CacheTypeOK /\ DeletedIsNotListed /\ Untested
  BY DEF Init, CacheTypeOK, DeletedIsNotListed, Untested
<1>4. WorkerItemIsAlive
  BY DEF Init, WorkerItemIsAlive, IdleWorker
<1>5. QueueIsListed
  <2>1. Head(calls).op = "schedule"
    BY ScheduleCall DEF Init
  <2>2. QED
    BY <2>1 DEF Init, QueueIsListed
<1>6. QED
  BY <1>2, <1>3, <1>4, <1>5 DEF ItemInv

LEMMA NextItems ==
    ASSUME "test" \notin Ops, AllInv, [Next]_vars
    PROVE  ItemInv'
<1>1. CASE User
  <2>1. ~testConversionSpeed /\ ~CancelTest
    BY DEF testConversionSpeed, CancelTest, UserOp, AllInv, ItemInv, Untested
  <2>2. QED
    BY <1>1, <2>1, SlotItems, UserItems, RecacheItems, SettingsItems, StartItems DEF User
<1>2. CASE MainThread
  BY <1>2, FillItems, FillDoneItems, StartWorkerItems, ScheduleItems, WatchItems, TagItems,
     DeleteItems DEF MainThread
<1>3. CASE updateTestProgress
  BY <1>3 DEF updateTestProgress, AllInv, ItemInv, Untested
<1>4. CASE \E t \in Thread : CachingThread(t)
  <2>1. \A t \in Thread : ~TestCachingFinished(t)
    BY DEF TestCachingFinished, testMode, AllInv, ItemInv, Untested
  <2>2. QED
    BY <1>4, <2>1, WorkItems, FinishedItems DEF CachingThread
<1>5. CASE \E s \in Slot : InteractiveThread(s)
  BY <1>5, SlotItems
<1>6. CASE UNCHANGED vars
  BY <1>6, ItemsUnchanged DEF AllInv, vars, playlistVars, cacheVars, listVars, testVars
<1>7. QED
  BY <1>1, <1>2, <1>3, <1>4, <1>5, <1>6 DEF Next

LEMMA ItemsAreAlive == "test" \notin Ops => (Spec => []AllInv)
<1> SUFFICES ASSUME "test" \notin Ops
             PROVE  Spec => []AllInv
  OBVIOUS
<1>1. Init => AllInv
  BY InitPool, InitPlaylist, InitItems DEF AllInv
<1>2. AllInv /\ [Next]_vars => AllInv'
  BY NextPool, NextPlaylist, NextItems DEF AllInv
<1>3. QED
  BY <1>1, <1>2, PTL DEF Spec

\* As long as the conversion test is not used, no thread of the pool works on an
\* item that was deleted: itemAboutToBeDeleted, threadCachingFinished and
\* interactiveLoaderFinished delete an item only when no thread holds it, and none
\* can get it after it left the playlist.
THEOREM CachedItemsAreAlive == "test" \notin Ops => (Spec => []CachedItemIsAlive)
<1> SUFFICES ASSUME "test" \notin Ops
             PROVE  Spec => []CachedItemIsAlive
  OBVIOUS
<1>1. AllInv => CachedItemIsAlive
  BY DEF AllInv, ItemInv, PoolInv, PoolTypeOK, WorkerItemIsAlive, CachedItemIsAlive
<1>2. Spec => []AllInv
  BY ItemsAreAlive
<1>3. QED
  BY <1>1, <1>2, PTL

\* ... and no job, and no frame to be removed, of a deleted item is in the queues
\* when pushNextJobToCachingThread may look at them.
THEOREM QueuedItemsAreAlive == "test" \notin Ops => (Spec => []QueuedItemIsAlive)
<1> SUFFICES ASSUME "test" \notin Ops
             PROVE  Spec => []QueuedItemIsAlive
  OBVIOUS
<1>1. ASSUME AllInv
      PROVE  QueuedItemIsAlive
  <2>1. listed \cap destroyed = {}
    BY <1>1 DEF AllInv, ItemInv, DeletedIsNotListed
  <2>2. Fresh => \A k \in DOMAIN queue : queue[k].item \in listed
    <3> DEFINE J == JobOf(listed)
    <3>1. \A j \in J : j.item \in listed
      BY DEF JobOf
    <3> HIDE DEF J
    <3>2. ASSUME queue \in Seq(J), NEW k \in DOMAIN queue
          PROVE  queue[k] \in J
      BY <3>2
    <3>3. QED
      BY <3>1, <3>2 DEF Fresh, J
  <2>3. Fresh => \A k \in DOMAIN deq : deq[k][1] \in listed
    BY DEF Fresh
  <2>4. (filling /\ left # {}) \/ workersState = "Running" => Fresh
    BY <1>1 DEF AllInv, ItemInv, QueueIsListed
  <2>5. QED
    BY <2>1, <2>2, <2>3, <2>4 DEF QueuedItemIsAlive
<1>2. Spec => []AllInv
  BY ItemsAreAlive
<1>3. QED
  BY <1>1, <1>2, PTL
-----------------------------------------------------------------------------
(* The types of all variables.                                             *)

\* The item of a call to tag an item is one.
TaggedIsItem == \A k \in DOMAIN calls : calls[k].op = "tag" => calls[k].item \in Item

\* The item of the conversion test has more than one frame.
TestItemHasFrames ==
    testItem # None => testItem \in Item /\ FirstFrame[testItem] < LastFrame[testItem]

\* The types of what the other invariants do not speak of.
QueueTypeOK ==
    /\ queue \in Seq(JobOf(Item)) /\ deq \in Seq(Item \X Int) /\ level \in Int
    /\ cached \in [Item -> SUBSET Frame]

WorkerTypeOK ==
    /\ worker \in [Thread \cup Slot -> WorkerType]
    /\ slotQueue \in [Slot -> [item: Item \cup {None}, frame: Int]]

ListTypeOK ==
    /\ tagged \subseteq Item /\ destroyed \subseteq Item /\ outdated \subseteq Item
    /\ itemsToDelete \subseteq Item /\ itemsToClear \subseteq Item
    /\ watching \in Item \cup {None}

TestTypeOK ==
    /\ playMode \in {"Stopped", "Running", "WaitingForCache"}
    /\ testItem \in Item \cup {None} /\ testLoop \in Int
    /\ dialog \in {"none", "open", "cancelled"}
    /\ aborted \in {"no", "schedule", "dialog"}

CountTypeOK == deleteNr \in Nat /\ grow \in Nat /\ ops \in 0 .. MaxOps

DataTypeOK == QueueTypeOK /\ WorkerTypeOK /\ ListTypeOK /\ TestTypeOK /\ CountTypeOK

TypeInv ==
    PoolInv /\ PlaylistInv /\ DataTypeOK /\ TaggedIsItem /\ TestItemHasFrames

LEMMA TypesOfAll == TypeInv => TypeOK
<1> SUFFICES ASSUME TypeInv
             PROVE  TypeOK
  OBVIOUS
<1>1. listed \subseteq Item /\ selected \in Item \cup {None}
  BY ListedItems DEF TypeInv
<1>2. settings \in Settings /\ calls \in Seq(CallType)
  BY DEF TypeInv, PlaylistInv, PlaylistTypeOK
<1>3. /\ workersState \in {"Idle", "Running", "IntReqStop", "IntReqRestart"}
      /\ threads \subseteq Thread /\ left \subseteq Thread
      /\ filling \in BOOLEAN /\ started \in BOOLEAN
  BY DEF TypeInv, PoolInv, PoolTypeOK
<1>4. queue \in Seq(Job) /\ deq \in Seq(ItemFrame)
  BY DEF TypeInv, DataTypeOK, QueueTypeOK, JobOf, Job, ItemFrame
<1>5. calls \in Seq([op: {"schedule", "watch", "tag", "aboutToBeDeleted"},
                      item: Item \cup {None}])
  BY <1>2 DEF CallType
<1>6. QED
  BY <1>1, <1>2, <1>3, <1>4, <1>5 DEF TypeOK, TypeInv, DataTypeOK, QueueTypeOK, WorkerTypeOK,
     ListTypeOK, TestTypeOK, CountTypeOK

\* The memory that frames in the queue take is a number.
LEMMA DequeuedSpaceLemma ==
    ASSUME deq \in Seq(Item \X Int)
    PROVE  /\ \A n \in 0 .. Len(deq) : DequeuedSpace[n] \in Int
           /\ DequeuedSpace[0] = 0
           /\ \A n \in 1 .. Len(deq) :
                DequeuedSpace[n] = DequeuedSpace[n - 1] + FrameSize[deq[n][1]]
<1>1. PICK N \in Nat : N = Len(deq) /\ DOMAIN deq = 1 .. N
  BY LenProperties
<1> DEFINE Size(n) == FrameSize[deq[n][1]]
<1>2. \A n \in 1 .. N : Size(n) \in Int
  <2>1. \A n \in 1 .. N : deq[n][1] \in Item
    BY <1>1
  <2>2. QED
    BY <2>1, ItemAssumption
<1> DEFINE Step(f, n) == IF n = 0 THEN 0 ELSE f[n - 1] + Size(n)
           Fcn(n, f) == f = [m \in 0 .. n |-> Step(f, m)]
           Defined == {n \in 0 .. N : \E f : Fcn(n, f)}
<1> HIDE DEF Size
<1>3. 0 \in Defined
  <2>1. Fcn(0, [m \in 0 .. 0 |-> 0])
    OBVIOUS
  <2>2. \E f : Fcn(0, f)
    <3> HIDE DEF Fcn
    <3>1. QED
      BY <2>1
  <2>3. QED
    BY <2>2
<1>4. ASSUME NEW n \in 0 .. N, n # N, n \in Defined
      PROVE  n + 1 \in Defined
  <2>1. PICK f : Fcn(n, f)
    BY <1>4
  <2> DEFINE g == [m \in 0 .. n + 1 |-> IF m = n + 1 THEN Step(f, m) ELSE f[m]]
  <2>2. ASSUME NEW m \in 0 .. n + 1
        PROVE  g[m] = Step(g, m)
    <3>1. CASE m = n + 1
      <4>1. g[m - 1] = f[m - 1]
        BY <1>1, <3>1
      <4>2. g[m] = Step(f, m)
        BY <3>1
      <4>3. QED
        BY <4>1, <4>2
    <3>2. CASE m # n + 1
      <4>1. m \in 0 .. n /\ g[m] = f[m]
        BY <1>1, <3>2
      <4>2. f[m] = Step(f, m)
        BY <2>1, <4>1
      <4>3. m # 0 => g[m - 1] = f[m - 1]
        BY <1>1, <3>2
      <4>4. QED
        BY <4>1, <4>2, <4>3
    <3>3. QED
      BY <3>1, <3>2
  <2>3. Fcn(n + 1, g)
    BY <2>2
  <2> HIDE DEF g, Fcn
  <2>4. QED
    BY <1>1, <1>4, <2>3
<1>5. N \in Defined
  <2> HIDE DEF Defined
  <2>1. \A n \in 0 .. N : n \in Defined
    BY <1>1, <1>3, <1>4, Induction
  <2>2. QED
    BY <1>1, <2>1
<1> DEFINE h == CHOOSE f : Fcn(N, f)
<1>6. Fcn(N, h)
  BY <1>5
<1>7. DequeuedSpace = h
  BY <1>1 DEF DequeuedSpace, Size
<1> HIDE DEF h
<1>8. \A n \in 0 .. N : h[n] = Step(h, n)
  BY <1>6
<1> DEFINE Numbers == {n \in 0 .. N : h[n] \in Int}
<1>9. 0 \in Numbers
  BY <1>1, <1>8
<1>10. ASSUME NEW n \in 0 .. N, n # N, n \in Numbers
       PROVE  n + 1 \in Numbers
  <2>1. n + 1 \in 0 .. N /\ n + 1 # 0 /\ (n + 1) - 1 = n /\ n + 1 \in 1 .. N
    BY <1>1, <1>10
  <2>2. h[n + 1] = h[n] + Size(n + 1)
    BY <1>8, <2>1
  <2>3. QED
    BY <1>2, <1>10, <2>1, <2>2
<1>11. \A n \in 0 .. N : n \in Numbers
  <2> HIDE DEF Numbers
  <2>1. QED
    BY <1>1, <1>9, <1>10, Induction
<1>12. h[0] = 0 /\ \A n \in 1 .. N : h[n] = h[n - 1] + Size(n)
  BY <1>1, <1>8
<1>13. QED
  BY <1>1, <1>7, <1>11, <1>12 DEF Size

\* Values of a worker.
LEMMA WorkerValues ==
    /\ IdleWorker \in WorkerType /\ PostedWorker \in WorkerType
    /\ \A i \in Item \cup {None}, f \in Int, test \in BOOLEAN : Busy(i, f, test) \in WorkerType
    /\ \A w \in WorkerType : Outdate(w) \in WorkerType
<1>1. IdleWorker \in WorkerType
  BY DEF IdleWorker, WorkerType, NoFrame
<1>2. PostedWorker \in WorkerType
  BY <1>1 DEF PostedWorker, WorkerType
<1>3. QED
  BY <1>1, <1>2 DEF Busy, Outdate, WorkerType

\* The memory in use is a number after a job was taken as well.
LEMMA LevelLemma ==
    ASSUME QueueTypeOK, NEW c, NEW t, NEW w, NEW watch, NEW play, PushJob(t, w, c, watch, play)
    PROVE  level' \in Int
<1>1. \A n \in 0 .. Len(deq) : DequeuedSpace[n] \in Int
  BY DequeuedSpaceLemma DEF QueueTypeOK
<1>2. CASE level' = level
  BY <1>2 DEF QueueTypeOK
<1>3. ASSUME NEW k \in DOMAIN queue, NEW n \in 0 .. Len(deq),
             \/ level' = level - DequeuedSpace[n]
             \/ level' = level - DequeuedSpace[n] + FrameSize[queue[k].item]
      PROVE  level' \in Int
  <2> DEFINE J == JobOf(Item)
  <2>1. \A j \in J : j.item \in Item
    BY DEF JobOf
  <2>2. queue \in Seq(J)
    BY DEF QueueTypeOK
  <2> HIDE DEF J
  <2>3. queue[k] \in J
    BY <2>2
  <2>4. FrameSize[queue[k].item] \in Int
    BY <2>1, <2>3, ItemAssumption
  <2>5. DequeuedSpace[n] \in Int /\ level \in Int
    BY <1>1 DEF QueueTypeOK
  <2>6. QED
    BY <1>3, <2>4, <2>5
<1>4. level' = level \/ \E k \in DOMAIN queue, n \in 0 .. Len(deq) :
        \/ level' = level - DequeuedSpace[n]
        \/ level' = level - DequeuedSpace[n] + FrameSize[queue[k].item]
  <2>1. CASE UNCHANGED queueVars
    BY <2>1 DEF queueVars
  <2>2. CASE UNCHANGED <<deq, level>>
    BY <2>2
  <2>3. QED
    BY <2>1, <2>2 DEF PushJob
<1>5. QED
  BY <1>2, <1>3, <1>4

\* A job is given to a thread.
LEMMA JobTypes ==
    ASSUME QueueTypeOK, NEW c \in [Item -> SUBSET Frame], NEW t \in Thread,
           NEW w \in [Thread \cup Slot -> WorkerType], NEW watch, NEW play,
           PushJob(t, w, c, watch, play)
    PROVE  QueueTypeOK' /\ worker' \in [Thread \cup Slot -> WorkerType]
<1>1. /\ queue' \in Seq(JobOf(Item)) /\ deq' \in Seq(Item \X Int) /\ CacheTypeOK'
      /\ worker' = w \/ GivesJob(t, w, Item)
  BY JobIsTaken DEF QueueTypeOK
<1>2. level' \in Int
  BY LevelLemma
<1>3. worker' \in [Thread \cup Slot -> WorkerType]
  <2>1. ASSUME NEW i \in Item, NEW f \in Int, worker' = [w EXCEPT ![t] = Busy(i, f, FALSE)]
        PROVE  worker' \in [Thread \cup Slot -> WorkerType]
    <3>1. Busy(i, f, FALSE) \in WorkerType
      BY WorkerValues
    <3>2. QED
      BY <2>1, <3>1
  <2>2. QED
    BY <1>1, <2>1 DEF GivesJob
<1>4. QED
  BY <1>1, <1>2, <1>3 DEF QueueTypeOK, CacheTypeOK

LEMMA TestJobTypes ==
    ASSUME QueueTypeOK, TestItemHasFrames, testMode, testLoop \in Int, NEW t \in Thread,
           NEW w \in [Thread \cup Slot -> WorkerType], PushTestJob(t, w)
    PROVE  /\ QueueTypeOK' /\ worker' \in [Thread \cup Slot -> WorkerType]
           /\ testLoop' \in Int
<1> DEFINE first == FirstFrame[testItem]
           frame == first + ((TestLoops - testLoop) % (LastFrame[testItem] - first))
<1>1. frame \in Int
  <2>1. testItem \in Item /\ first < LastFrame[testItem]
    BY DEF TestItemHasFrames, testMode
  <2>2. first \in Int /\ LastFrame[testItem] \in Int
    BY <2>1, ItemAssumption
  <2>3. TestLoops - testLoop \in Int
    BY PoolAssumption
  <2> DEFINE x == TestLoops - testLoop
             y == LastFrame[testItem] - first
  <2>4. x \in Int /\ y \in Nat \ {0}
    BY <2>1, <2>2, <2>3
  <2> HIDE DEF x, y
  <2>5. x % y \in Int
    BY <2>4
  <2>6. QED
    BY <2>2, <2>5 DEF x, y
<1>2. worker' = [w EXCEPT ![t] = Busy(testItem, frame, TRUE)] /\ testLoop' = testLoop - 1
      /\ UNCHANGED <<queueVars, cached>>
  BY DEF PushTestJob
<1> HIDE DEF frame
<1>3. Busy(testItem, frame, TRUE) \in WorkerType
  BY <1>1, WorkerValues DEF TestItemHasFrames, testMode
<1>4. worker' \in [Thread \cup Slot -> WorkerType]
  BY <1>2, <1>3
<1>5. QueueTypeOK'
  BY <1>2 DEF QueueTypeOK, queueVars
<1>6. testLoop' \in Int
  BY <1>2
<1>7. QED
  BY <1>4, <1>5, <1>6

LEMMA PushTypes ==
    ASSUME TypeInv, NEW t \in Thread, Push(t, worker, cached, watching, playing)
    PROVE  /\ QueueTypeOK' /\ worker' \in [Thread \cup Slot -> WorkerType]
           /\ testLoop' \in Int
<1>1. /\ QueueTypeOK /\ TestItemHasFrames /\ testLoop \in Int
      /\ worker \in [Thread \cup Slot -> WorkerType] /\ cached \in [Item -> SUBSET Frame]
  BY DEF TypeInv, DataTypeOK, QueueTypeOK, WorkerTypeOK, TestTypeOK
<1>2. CASE testMode
  BY <1>1, <1>2, TestJobTypes DEF Push
<1>3. CASE ~testMode
  <2>1. PushJob(t, worker, cached, watching, playing) /\ testLoop' = testLoop
    BY <1>3 DEF Push
  <2>2. QED
    BY <1>1, <2>1, JobTypes
<1>4. QED
  BY <1>2, <1>3

\* A new plan is made.
LEMMA PlanTypes ==
    ASSUME TypeInv, NEW c \in [Item -> SUBSET Frame], NEW play \in BOOLEAN,
           UpdateCacheQueue(c, selected, play), listed' = listed
    PROVE  QueueTypeOK'
<1>1. /\ CacheTypeOK' /\ level' \in Int
      /\ settings.enabled => Fresh'
      /\ ~settings.enabled => UNCHANGED <<queue, deq>>
  BY PlanIsFresh DEF TypeInv, DataTypeOK, QueueTypeOK
<1>2. listed \subseteq Item
  BY ListedItems DEF TypeInv
<1>3. queue' \in Seq(JobOf(Item)) /\ deq' \in Seq(Item \X Int)
  <2>1. CASE settings.enabled
    <3>1. queue' \in Seq(JobOf(listed)) /\ deq' \in Seq(listed \X Int)
      BY <1>1, <2>1 DEF Fresh
    <3>2. JobOf(listed) \subseteq JobOf(Item)
      BY <1>2 DEF JobOf
    <3>3. listed \X Int \subseteq Item \X Int
      BY <1>2
    <3>4. queue' \in Seq(JobOf(Item))
      BY <3>1, <3>2, SeqMonotonic
    <3>5. deq' \in Seq(Item \X Int)
      BY <3>1, <3>3, SeqMonotonic
    <3>6. QED
      BY <3>4, <3>5
  <2>2. CASE ~settings.enabled
    BY <1>1, <2>2 DEF TypeInv, DataTypeOK, QueueTypeOK
  <2>3. QED
    BY <2>1, <2>2
<1>4. QED
  BY <1>1, <1>3 DEF QueueTypeOK, CacheTypeOK
-----------------------------------------------------------------------------
\* The steps of the main thread.
LEMMA FillTypes ==
    ASSUME TypeInv, FillDone \/ \E t \in Thread : FillThread(t) \/ StartWorkerThread(t)
    PROVE  DataTypeOK' /\ TestItemHasFrames'
<1>1. DataTypeOK /\ TestItemHasFrames
  BY DEF TypeInv
<1>2. CASE FillDone
  BY <1>1, <1>2 DEF FillDone, DataTypeOK, QueueTypeOK, WorkerTypeOK, ListTypeOK, TestTypeOK,
     CountTypeOK, TestItemHasFrames, playlistVars, queueVars, cacheVars, listVars, testVars
<1>3. ASSUME NEW t \in Thread, FillThread(t) \/ StartWorkerThread(t)
      PROVE  DataTypeOK' /\ TestItemHasFrames'
  <2>1. /\ QueueTypeOK' /\ worker' \in [Thread \cup Slot -> WorkerType] /\ testLoop' \in Int
        /\ grow' \in Nat
    <3>1. CASE Push(t, worker, cached, watching, playing) /\ grow' \in Nat
      BY <3>1, PushTypes
    <3>2. CASE UNCHANGED <<worker, queueVars, cached, testLoop>> /\ grow' \in Nat
      BY <1>1, <3>2 DEF DataTypeOK, QueueTypeOK, WorkerTypeOK, TestTypeOK, queueVars
    <3>3. grow' \in Nat
      BY <1>1, <1>3 DEF FillThread, StartWorkerThread, DataTypeOK, CountTypeOK
    <3>4. QED
      BY <1>3, <3>1, <3>2, <3>3 DEF FillThread, StartWorkerThread
  <2>2. UNCHANGED <<tagged, destroyed, playMode, outdated, deleteNr, slotQueue, itemsToDelete,
                    itemsToClear, watching, testItem, dialog, aborted, ops>>
    BY <1>3 DEF FillThread, StartWorkerThread, playlistVars, poolVars, listVars
  <2>3. QED
    BY <1>1, <2>1, <2>2 DEF DataTypeOK, WorkerTypeOK, ListTypeOK, TestTypeOK, CountTypeOK,
       TestItemHasFrames
<1>4. QED
  BY <1>2, <1>3

LEMMA ScheduleTypes ==
    ASSUME TypeInv, scheduleCachingListUpdate
    PROVE  DataTypeOK' /\ TestItemHasFrames'
<1>1. /\ DataTypeOK /\ TestItemHasFrames
      /\ UNCHANGED <<listed, tagged, destroyed, playMode, outdated, deleteNr, worker, slotQueue,
                     itemsToDelete, itemsToClear, watching, testItem, testLoop, dialog, grow, ops>>
  BY DEF TypeInv, scheduleCachingListUpdate, playlistVars, listVars
<1>2. aborted' \in {"no", "schedule", "dialog"}
  BY <1>1 DEF scheduleCachingListUpdate, DataTypeOK, TestTypeOK
<1>3. QueueTypeOK'
  <2>1. CASE UNCHANGED <<queueVars, cached>>
    BY <1>1, <2>1 DEF DataTypeOK, QueueTypeOK, queueVars
  <2>2. CASE UpdateCacheQueue(cached, selected, playing)
    <3>1. cached \in [Item -> SUBSET Frame] /\ playing \in BOOLEAN
      BY <1>1 DEF DataTypeOK, QueueTypeOK, playing
    <3>2. QED
      BY <1>1, <2>2, <3>1, PlanTypes
  <2>3. QED
    BY <2>1, <2>2 DEF scheduleCachingListUpdate
<1>4. QED
  BY <1>1, <1>2, <1>3 DEF DataTypeOK, WorkerTypeOK, ListTypeOK, TestTypeOK, CountTypeOK,
     TestItemHasFrames

LEMMA WatchTypes ==
    ASSUME TypeInv, watchItemForCachingFinished
    PROVE  DataTypeOK' /\ TestItemHasFrames'
<1>1. /\ DataTypeOK /\ TestItemHasFrames /\ calls # <<>>
      /\ UNCHANGED <<tagged, destroyed, queueVars, cacheVars, poolVars, worker, slotQueue,
                     itemsToDelete, itemsToClear, testVars, grow, ops>>
  BY DEF TypeInv, watchItemForCachingFinished, Calling
<1>2. Head(calls) \in CallType
  <2>1. Head(calls) = calls[1] /\ 1 \in DOMAIN calls /\ calls \in Seq(CallType)
    BY <1>1, TailOfCalls DEF TypeInv, PlaylistInv, PlaylistTypeOK
  <2>2. QED
    BY <2>1
<1>3. /\ watching' \in {None, Head(calls).item}
      /\ playMode' \in {playMode, ModeAfterWait(TRUE)}
  BY DEF watchItemForCachingFinished
<1>4. watching' \in Item \cup {None}
  BY <1>2, <1>3 DEF CallType
<1>5. playMode' \in {"Stopped", "Running", "WaitingForCache"}
  BY <1>1, <1>3 DEF ModeAfterWait, DataTypeOK, TestTypeOK
<1>6. QED
  BY <1>1, <1>4, <1>5 DEF DataTypeOK, QueueTypeOK, WorkerTypeOK, ListTypeOK, TestTypeOK,
     CountTypeOK, TestItemHasFrames, queueVars, cacheVars, poolVars, testVars

LEMMA DeletionTypes ==
    ASSUME TypeInv, TagItem \/ itemAboutToBeDeleted
    PROVE  DataTypeOK' /\ TestItemHasFrames'
<1> DEFINE i == Head(calls).item
<1>1. DataTypeOK /\ TestItemHasFrames
  BY DEF TypeInv
<1>2. CASE TagItem
  <2>1. i \in Item
    <3>1. calls # <<>> /\ Head(calls).op = "tag"
      BY <1>2 DEF TagItem, Calling
    <3>2. Head(calls) = calls[1] /\ 1 \in DOMAIN calls
      BY <3>1, TailOfCalls DEF TypeInv, PlaylistInv
    <3>3. QED
      BY <3>1, <3>2 DEF TypeInv, TaggedIsItem
  <2>2. /\ tagged' = tagged \cup {i}
        /\ playMode' \in {playMode, "Stopped"} /\ watching' \in {watching, None}
        /\ UNCHANGED <<destroyed, queueVars, cacheVars, poolVars, worker, slotQueue,
                       itemsToDelete, itemsToClear, testVars, grow, ops>>
    BY <1>2 DEF TagItem, PausePlayback
  <2> HIDE DEF i
  <2>3. QED
    BY <1>1, <2>1, <2>2 DEF DataTypeOK, QueueTypeOK, WorkerTypeOK, ListTypeOK, TestTypeOK,
       CountTypeOK, TestItemHasFrames, queueVars, cacheVars, poolVars, testVars
<1>3. CASE itemAboutToBeDeleted
  <2>1. i \in Item
    BY <1>3, DeletePlaylist DEF TypeInv
  <2>2. /\ itemsToDelete' \in {itemsToDelete, itemsToDelete \cup {i}}
        /\ destroyed' \in {destroyed, destroyed \cup {i}}
        /\ \/ slotQueue' = slotQueue
           \/ slotQueue' = [s \in Slot |-> IF slotQueue[s].item = i THEN NoRequest ELSE slotQueue[s]]
        /\ UNCHANGED <<tagged, playMode, queueVars, cacheVars, deleteNr, worker,
                       itemsToClear, watching, testVars, grow, ops>>
    BY <1>3 DEF itemAboutToBeDeleted
  <2>3. slotQueue' \in [Slot -> [item: Item \cup {None}, frame: Int]]
    BY <1>1, <2>2 DEF DataTypeOK, WorkerTypeOK, NoRequest, NoFrame
  <2> HIDE DEF i
  <2>4. QED
    BY <1>1, <2>1, <2>2, <2>3 DEF DataTypeOK, QueueTypeOK, WorkerTypeOK, ListTypeOK, TestTypeOK,
       CountTypeOK, TestItemHasFrames, queueVars, cacheVars, testVars
<1>4. QED
  BY <1>2, <1>3
-----------------------------------------------------------------------------
\* The steps of the threads.
LEMMA WorkTypes ==
    ASSUME TypeInv, NEW t \in Thread, processCacheJobInternal(t)
    PROVE  DataTypeOK' /\ TestItemHasFrames'
<1> DEFINE w == worker[t]
<1>1. DataTypeOK /\ TestItemHasFrames
  BY DEF TypeInv
<1>2. /\ w.item # None
      /\ \/ cached' = cached
         \/ /\ cached' = [cached EXCEPT ![w.item] = @ \cup {w.frame}]
            /\ w.frame \in FrameRange(w.item)
      /\ outdated' \in {outdated, outdated \cup {w.item}}
      /\ worker' = [worker EXCEPT ![t] = PostedWorker]
      /\ UNCHANGED <<playlistVars, queueVars, poolVars, slotQueue, listVars, testVars, grow, ops>>
  BY DEF processCacheJobInternal
<1>3. w.item \in Item
  BY <1>1, <1>2 DEF DataTypeOK, WorkerTypeOK, WorkerType
<1>4. cached' \in [Item -> SUBSET Frame]
  <2>1. CASE cached' = cached
    BY <1>1, <2>1 DEF DataTypeOK, QueueTypeOK
  <2>2. CASE cached' = [cached EXCEPT ![w.item] = @ \cup {w.frame}] /\ w.frame \in FrameRange(w.item)
    <3>1. w.frame \in Frame
      BY <1>3, <2>2 DEF Frame
    <3> HIDE DEF w
    <3>2. QED
      BY <1>1, <1>3, <2>2, <3>1 DEF DataTypeOK, QueueTypeOK
  <2>3. QED
    BY <1>2, <2>1, <2>2
<1>5. worker' \in [Thread \cup Slot -> WorkerType]
  BY <1>1, <1>2, WorkerValues DEF DataTypeOK, WorkerTypeOK
<1> HIDE DEF w
<1>6. QED
  BY <1>1, <1>2, <1>3, <1>4, <1>5 DEF DataTypeOK, QueueTypeOK, WorkerTypeOK, ListTypeOK,
     TestTypeOK, CountTypeOK, TestItemHasFrames, playlistVars, queueVars, poolVars, listVars,
     testVars

LEMMA SlotTypes ==
    ASSUME TypeInv, NEW s \in Slot, InteractiveThread(s)
    PROVE  DataTypeOK' /\ TestItemHasFrames'
<1>1. DataTypeOK /\ TestItemHasFrames
  BY DEF TypeInv
<1>2. CASE processLoadingJobInternal(s)
  <2>1. worker' \in [Thread \cup Slot -> WorkerType]
    BY <1>1, <1>2, WorkerValues DEF processLoadingJobInternal, DataTypeOK, WorkerTypeOK
  <2>2. QED
    BY <1>1, <1>2, <2>1 DEF processLoadingJobInternal, DataTypeOK, QueueTypeOK, WorkerTypeOK,
       ListTypeOK, TestTypeOK, CountTypeOK, TestItemHasFrames, playlistVars, queueVars,
       cacheVars, poolVars, listVars, testVars
<1>3. CASE interactiveLoaderFinished(s)
  <2> DEFINE gone == Deletable(worker)
             next == IF slotQueue[s].item \in gone THEN NoRequest ELSE slotQueue[s]
             start == Loadable(next)
  <2>1. /\ destroyed' = destroyed \cup gone /\ itemsToDelete' = itemsToDelete \ gone
        /\ worker' = [worker EXCEPT ![s] =
                        IF start THEN Busy(next.item, next.frame, FALSE) ELSE IdleWorker]
        /\ slotQueue' = [slotQueue EXCEPT ![s] = IF start THEN NoRequest ELSE next]
        /\ UNCHANGED <<tagged, playMode, queueVars, cacheVars, poolVars, itemsToClear, watching,
                       testVars, grow, ops>>
    BY <1>3 DEF interactiveLoaderFinished
  <2>2. gone \subseteq itemsToDelete
    BY DEF Deletable
  <2> HIDE DEF gone
  <2>3. NoRequest \in [item: Item \cup {None}, frame: Int]
    BY DEF NoRequest, NoFrame
  <2>4. next \in [item: Item \cup {None}, frame: Int]
    BY <1>1, <2>3 DEF DataTypeOK, WorkerTypeOK
  <2> HIDE DEF next, start
  <2>5. worker' \in [Thread \cup Slot -> WorkerType]
    BY <1>1, <2>1, <2>4, WorkerValues DEF DataTypeOK, WorkerTypeOK
  <2>6. slotQueue' \in [Slot -> [item: Item \cup {None}, frame: Int]]
    BY <1>1, <2>1, <2>3, <2>4 DEF DataTypeOK, WorkerTypeOK
  <2>7. QED
    BY <1>1, <2>1, <2>2, <2>5, <2>6 DEF DataTypeOK, QueueTypeOK, WorkerTypeOK, ListTypeOK,
       TestTypeOK, CountTypeOK, TestItemHasFrames, queueVars, cacheVars, poolVars, testVars
<1>4. QED
  BY <1>2, <1>3 DEF InteractiveThread

LEMMA TestFinishedTypes ==
    ASSUME TypeInv, NEW t \in Thread, TestCachingFinished(t)
    PROVE  DataTypeOK' /\ TestItemHasFrames'
<1> DEFINE w == [worker EXCEPT ![t] = IdleWorker]
<1>1. DataTypeOK /\ TestItemHasFrames /\ w \in [Thread \cup Slot -> WorkerType] /\ testMode
  BY WorkerValues DEF TypeInv, DataTypeOK, WorkerTypeOK, TestCachingFinished
<1>2. UNCHANGED <<playlistVars, outdated, poolVars, slotQueue, listVars, aborted, grow, ops>>
  BY DEF TestCachingFinished
<1>3. \/ worker' = w /\ UNCHANGED <<queueVars, cached, testItem, testLoop, dialog>>
      \/ worker' = w /\ testFinished /\ UNCHANGED testLoop
      \/ PushTestJob(t, w) /\ UNCHANGED <<testItem, dialog>>
  BY DEF TestCachingFinished
<1> HIDE DEF w
<1>4. /\ QueueTypeOK' /\ worker' \in [Thread \cup Slot -> WorkerType] /\ testLoop' \in Int
      /\ testItem' \in {testItem, None} /\ dialog' \in {dialog, "none"}
  <2>1. CASE worker' = w /\ UNCHANGED <<queueVars, cached, testItem, testLoop, dialog>>
    BY <1>1, <2>1 DEF DataTypeOK, QueueTypeOK, TestTypeOK, queueVars
  <2>2. CASE worker' = w /\ testFinished /\ UNCHANGED testLoop
    <3>1. /\ UpdateCacheQueue(cached, selected, playing) /\ listed' = listed
          /\ testItem' = None /\ dialog' = "none"
      BY <1>2, <2>2 DEF testFinished, playlistVars
    <3>2. cached \in [Item -> SUBSET Frame] /\ playing \in BOOLEAN
      BY <1>1 DEF DataTypeOK, QueueTypeOK, playing
    <3>3. QueueTypeOK'
      BY <3>1, <3>2, PlanTypes
    <3>4. QED
      BY <1>1, <2>2, <3>1, <3>3 DEF DataTypeOK, TestTypeOK
  <2>3. CASE PushTestJob(t, w) /\ UNCHANGED <<testItem, dialog>>
    <3>1. QueueTypeOK /\ testLoop \in Int
      BY <1>1 DEF DataTypeOK, TestTypeOK
    <3>2. QED
      BY <1>1, <2>3, <3>1, TestJobTypes
  <2>4. QED
    BY <1>3, <2>1, <2>2, <2>3
<1>5. QED
  BY <1>1, <1>2, <1>4 DEF DataTypeOK, WorkerTypeOK, ListTypeOK, TestTypeOK, CountTypeOK,
     TestItemHasFrames, playlistVars, poolVars, listVars

LEMMA FinishedTypes ==
    ASSUME TypeInv, NEW t \in Thread, threadCachingFinished(t)
    PROVE  DataTypeOK' /\ TestItemHasFrames'
<1> DEFINE w == [worker EXCEPT ![t] = IdleWorker]
           gone == Deletable(w)
           clear == Clearable(w)
           c == [i \in Item |-> IF i \in clear THEN {} ELSE cached[i]]
           over == watching # None /\ ~Queued(watching)
           play == playMode' # "Stopped"
<1>1. /\ DataTypeOK /\ TestItemHasFrames /\ w \in [Thread \cup Slot -> WorkerType]
      /\ c \in [Item -> SUBSET Frame] /\ play \in BOOLEAN
  BY WorkerValues DEF TypeInv, DataTypeOK, WorkerTypeOK, QueueTypeOK
<1>2. /\ destroyed' = destroyed \cup gone /\ itemsToDelete' = itemsToDelete \ gone
      /\ slotQueue' = [s \in Slot |-> IF slotQueue[s].item \in gone
                                        THEN NoRequest ELSE slotQueue[s]]
      /\ itemsToClear' = itemsToClear \ clear /\ outdated' = outdated \ clear
      /\ playMode' = ModeAfterWait(over) /\ watching' \in {None, watching}
      /\ (deleteNr > 0 /\ deleteNr' = deleteNr - 1) \/ deleteNr' = deleteNr
      /\ UNCHANGED <<listed, selected, tagged, settings, testVars, grow, ops>>
  BY DEF threadCachingFinished
<1>3. \/ PushJob(t, w, c, watching', play)
      \/ worker' = w /\ UpdateCacheQueue(c, selected, play)
      \/ worker' = w /\ cached' = c /\ UNCHANGED queueVars
  BY DEF threadCachingFinished
<1>4. gone \subseteq itemsToDelete /\ clear \subseteq itemsToClear
  BY DEF Deletable, Clearable
<1>5. playMode' \in {"Stopped", "Running", "WaitingForCache"}
  BY <1>1, <1>2 DEF ModeAfterWait, DataTypeOK, TestTypeOK
<1> HIDE DEF w, gone, clear, c, over, play
<1>6. QueueTypeOK' /\ worker' \in [Thread \cup Slot -> WorkerType]
  <2>1. QueueTypeOK
    BY <1>1 DEF DataTypeOK
  <2>2. CASE PushJob(t, w, c, watching', play)
    BY <1>1, <2>1, <2>2, JobTypes
  <2>3. CASE worker' = w /\ UpdateCacheQueue(c, selected, play)
    BY <1>1, <1>2, <2>3, PlanTypes
  <2>4. CASE worker' = w /\ cached' = c /\ UNCHANGED queueVars
    BY <1>1, <2>1, <2>4 DEF QueueTypeOK, queueVars
  <2>5. QED
    BY <1>3, <2>2, <2>3, <2>4
<1>7. slotQueue' \in [Slot -> [item: Item \cup {None}, frame: Int]]
  BY <1>1, <1>2 DEF DataTypeOK, WorkerTypeOK, NoRequest, NoFrame
<1>8. deleteNr' \in Nat
  BY <1>1, <1>2 DEF DataTypeOK, CountTypeOK
<1>9. QED
  BY <1>1, <1>2, <1>4, <1>5, <1>6, <1>7, <1>8 DEF DataTypeOK, WorkerTypeOK, ListTypeOK,
     TestTypeOK, CountTypeOK, TestItemHasFrames, testVars
-----------------------------------------------------------------------------
\* What the user does.
LEMMA LoadTypes ==
    ASSUME TypeInv, NEW i \in Item, NEW s \in Slot, NEW f \in Frame \cup {NoFrame},
           loadFrame(i, f, s)
    PROVE  DataTypeOK' /\ TestItemHasFrames'
<1>1. DataTypeOK /\ TestItemHasFrames
  BY DEF TypeInv
<1>2. f \in Int
  BY ItemAssumption DEF Frame, FrameRange, NoFrame
<1>3. /\ \/ worker' = worker /\ slotQueue' = [slotQueue EXCEPT ![s] = [item |-> i, frame |-> f]]
         \/ worker' = [worker EXCEPT ![s] = Busy(i, f, FALSE)] /\ slotQueue' = slotQueue
      /\ UNCHANGED <<playlistVars, queueVars, cacheVars, poolVars, listVars, testVars, grow>>
      /\ ops < MaxOps /\ ops' = ops + 1
  BY DEF loadFrame, UserOp
<1>4. Busy(i, f, FALSE) \in WorkerType
  BY <1>2, WorkerValues
<1>5. WorkerTypeOK'
  <2>1. [item |-> i, frame |-> f] \in [item: Item \cup {None}, frame: Int]
    BY <1>2
  <2>2. slotQueue' \in [Slot -> [item: Item \cup {None}, frame: Int]]
    BY <1>1, <1>3, <2>1 DEF DataTypeOK, WorkerTypeOK
  <2>3. worker' \in [Thread \cup Slot -> WorkerType]
    BY <1>1, <1>3, <1>4 DEF DataTypeOK, WorkerTypeOK
  <2>4. QED
    BY <2>2, <2>3 DEF WorkerTypeOK
<1>6. CountTypeOK'
  BY <1>1, <1>3, PoolAssumption DEF DataTypeOK, CountTypeOK, poolVars
<1>7. QED
  BY <1>1, <1>3, <1>5, <1>6 DEF DataTypeOK, QueueTypeOK, ListTypeOK, TestTypeOK,
     TestItemHasFrames, playlistVars, queueVars, cacheVars, poolVars, listVars, testVars

LEMMA RecacheTypes ==
    ASSUME TypeInv, NEW i \in Item, NEW clear \in BOOLEAN, itemNeedsRecache(i, clear)
    PROVE  DataTypeOK' /\ TestItemHasFrames'
<1>1. DataTypeOK /\ TestItemHasFrames
  BY DEF TypeInv
<1>2. /\ \/ worker' = worker
         \/ worker' = [t \in DOMAIN worker |-> IF worker[t].item = i /\ t \in threads
                                                 THEN Outdate(worker[t]) ELSE worker[t]]
      /\ cached' = cached \/ cached' = [cached EXCEPT ![i] = {}]
      /\ outdated' \in {outdated, outdated \cup {i}, outdated \ {i}}
      /\ itemsToClear' \in {itemsToClear, itemsToClear \cup {i}}
      /\ UNCHANGED <<playlistVars, queueVars, deleteNr, slotQueue, itemsToDelete, watching,
                     testVars, grow>>
      /\ ops < MaxOps /\ ops' = ops + 1
  BY DEF itemNeedsRecache, UserOp
<1>3. worker' \in [Thread \cup Slot -> WorkerType]
  BY <1>1, <1>2, WorkerValues DEF DataTypeOK, WorkerTypeOK
<1>4. cached' \in [Item -> SUBSET Frame]
  BY <1>1, <1>2 DEF DataTypeOK, QueueTypeOK
<1>5. CountTypeOK'
  BY <1>1, <1>2, PoolAssumption DEF DataTypeOK, CountTypeOK
<1>6. ListTypeOK'
  BY <1>1, <1>2 DEF DataTypeOK, ListTypeOK, playlistVars
<1>7. QED
  BY <1>1, <1>2, <1>3, <1>4, <1>5, <1>6 DEF DataTypeOK, QueueTypeOK, WorkerTypeOK, TestTypeOK,
     TestItemHasFrames, playlistVars, queueVars, testVars

LEMMA SettingsTypes ==
    ASSUME TypeInv, NEW s \in Settings, updateSettings(s)
    PROVE  DataTypeOK' /\ TestItemHasFrames'
<1> DEFINE surplus == Cardinality(threads) - targetNrThreads(s)
           idle == threads \ WorkingIn(worker)
<1>1. DataTypeOK /\ TestItemHasFrames
  BY DEF TypeInv
<1>2. /\ grow' = IF surplus < 0 THEN -surplus ELSE 0
      /\ \/ deleteNr' = deleteNr
         \/ surplus > Cardinality(idle) /\ deleteNr' = surplus - Cardinality(idle)
      /\ UNCHANGED <<tagged, destroyed, playMode, queueVars, cacheVars, worker, slotQueue,
                     listVars, testVars>>
      /\ ops < MaxOps /\ ops' = ops + 1
  BY DEF updateSettings, UserOp
<1>3. surplus \in Int /\ Cardinality(idle) \in Nat
  <2>1. IsFiniteSet(threads)
    BY PoolAssumption, FS_Subset DEF TypeInv, PoolInv, PoolTypeOK
  <2>2. IsFiniteSet(idle)
    BY <2>1, FS_Subset
  <2>3. Cardinality(threads) \in Nat /\ Cardinality(idle) \in Nat
    BY <2>1, <2>2, FS_CardinalityType
  <2>4. targetNrThreads(s) \in Int
    BY PoolAssumption DEF targetNrThreads
  <2>5. QED
    BY <2>3, <2>4
<1> HIDE DEF surplus, idle
<1>4. CountTypeOK'
  BY <1>1, <1>2, <1>3, PoolAssumption DEF DataTypeOK, CountTypeOK
<1>5. QED
  BY <1>1, <1>2, <1>4 DEF DataTypeOK, QueueTypeOK, WorkerTypeOK, ListTypeOK, TestTypeOK,
     TestItemHasFrames, queueVars, cacheVars, listVars, testVars

LEMMA PlayTypes ==
    ASSUME TypeInv, StartPlayback
    PROVE  DataTypeOK' /\ TestItemHasFrames'
<1>1. DataTypeOK /\ TestItemHasFrames
  BY DEF TypeInv
<1>2. /\ UpdateCacheQueue(cached, selected, FALSE)
      /\ playMode' \in {"WaitingForCache", "Running"}
      /\ UNCHANGED <<listed, tagged, destroyed, outdated, poolVars, worker, slotQueue, listVars,
                     testVars, grow>>
      /\ ops < MaxOps /\ ops' = ops + 1
  BY DEF StartPlayback, UserOp
<1>3. QueueTypeOK'
  <2>1. cached \in [Item -> SUBSET Frame]
    BY <1>1 DEF DataTypeOK, QueueTypeOK
  <2>2. QED
    BY <1>2, <2>1, PlanTypes
<1>4. CountTypeOK'
  BY <1>1, <1>2, PoolAssumption DEF DataTypeOK, CountTypeOK, poolVars
<1>5. QED
  BY <1>1, <1>2, <1>3, <1>4 DEF DataTypeOK, WorkerTypeOK, ListTypeOK, TestTypeOK,
     TestItemHasFrames, listVars, testVars

\* The conversion test is of an item with more than one frame.
LEMMA TestTypes ==
    ASSUME TypeInv, testConversionSpeed
    PROVE  DataTypeOK' /\ TestItemHasFrames'
<1>1. DataTypeOK /\ TestItemHasFrames
  BY DEF TypeInv
<1>2. /\ selected \in CachableItem /\ FirstFrame[selected] < LastFrame[selected]
      /\ testItem' = selected /\ playMode' = "Stopped" /\ watching' \in {None, watching}
      /\ dialog' \in {dialog, "open"} /\ testLoop' \in {testLoop, TestLoops}
      /\ aborted' \in {aborted, "dialog"}
      /\ UNCHANGED <<tagged, destroyed, queueVars, cacheVars, deleteNr, worker, slotQueue,
                     itemsToDelete, itemsToClear, grow>>
      /\ ops < MaxOps /\ ops' = ops + 1
  BY DEF testConversionSpeed, UserOp, PausePlayback
<1>3. selected \in Item
  BY <1>2, ItemAssumption
<1>4. CountTypeOK'
  BY <1>1, <1>2, PoolAssumption DEF DataTypeOK, CountTypeOK
<1>5. TestTypeOK' /\ TestItemHasFrames'
  BY <1>1, <1>2, <1>3, PoolAssumption DEF DataTypeOK, TestTypeOK, TestItemHasFrames
<1>6. QED
  BY <1>1, <1>2, <1>4, <1>5 DEF DataTypeOK, QueueTypeOK, WorkerTypeOK, ListTypeOK, queueVars,
     cacheVars

\* The operations that change nothing of this, or only how playback goes on.
LEMMA OtherTypes ==
    ASSUME TypeInv,
           \/ \E i \in Item : SelectItem(i)
           \/ \E all \in BOOLEAN : deletePlaylistItems(all)
           \/ StopPlayback \/ GoToNextItem \/ CancelTest \/ updateTestProgress
           \/ UNCHANGED vars
    PROVE  DataTypeOK' /\ TestItemHasFrames'
<1>1. DataTypeOK /\ TestItemHasFrames
  BY DEF TypeInv
<1>2. /\ UNCHANGED <<tagged, destroyed, queueVars, cacheVars, deleteNr, worker, slotQueue,
                     itemsToDelete, itemsToClear, testItem, testLoop, aborted, grow>>
      /\ playMode' \in {playMode, "Stopped", "Running", "WaitingForCache"}
      /\ watching' \in {watching, None} /\ dialog' \in {dialog, "cancelled"}
      /\ ops' = ops \/ (ops < MaxOps /\ ops' = ops + 1)
  <2>1. CASE \E i \in Item : SelectItem(i)
    BY <2>1 DEF SelectItem, PausePlayback, UserOp, poolVars, testVars
  <2>2. CASE \E all \in BOOLEAN : deletePlaylistItems(all)
    BY <2>2 DEF deletePlaylistItems, UserOp, playlistVars, poolVars, listVars, testVars
  <2>3. CASE StopPlayback
    BY <2>3 DEF StopPlayback, PausePlayback, UserOp, poolVars, testVars
  <2>4. CASE GoToNextItem
    BY <2>4 DEF GoToNextItem, UserOp, poolVars, testVars
  <2>5. CASE CancelTest
    BY <2>5 DEF CancelTest, UserOp, playlistVars, poolVars, listVars
  <2>6. CASE updateTestProgress
    BY <2>6 DEF updateTestProgress, playlistVars, listVars, testVars
  <2>7. CASE UNCHANGED vars
    BY <2>7 DEF vars, playlistVars, poolVars, listVars, testVars
  <2>8. QED
    BY <2>1, <2>2, <2>3, <2>4, <2>5, <2>6, <2>7
<1>3. CountTypeOK'
  BY <1>1, <1>2, PoolAssumption DEF DataTypeOK, CountTypeOK
<1>4. QED
  BY <1>1, <1>2, <1>3 DEF DataTypeOK, QueueTypeOK, WorkerTypeOK, ListTypeOK, TestTypeOK,
     TestItemHasFrames, queueVars, cacheVars
-----------------------------------------------------------------------------
\* Only items are tagged: deletePlaylistItems is the only one to ask for it.
LEMMA TaggedNext ==
    ASSUME TypeInv, [Next]_vars
    PROVE  TaggedIsItem'
<1>1. TaggedIsItem /\ PlaylistInv
  BY DEF TypeInv
<1>2. CASE calls' = calls
  BY <1>1, <1>2 DEF TaggedIsItem
<1>3. CASE calls' = Schedule \/ calls' = <<>>
  BY <1>3, ScheduleCall DEF TaggedIsItem
<1>4. ASSUME calls # <<>>, calls' = Tail(calls) \/ calls' = Schedule \o Tail(calls)
      PROVE  TaggedIsItem'
  <2> DEFINE rest == Tail(calls)
  <2>1. PICK n \in Nat : /\ n = Len(calls) /\ DOMAIN calls = 1 .. n
                         /\ rest \in Seq(CallType) /\ Len(rest) = n - 1 /\ DOMAIN rest = 1 .. n - 1
                         /\ \A k \in 1 .. n - 1 : rest[k] = calls[k + 1]
    BY <1>1, <1>4, TailOfCalls DEF PlaylistInv
  <2> HIDE DEF rest
  <2>2. \A k \in 1 .. n - 1 : rest[k].op = "tag" => rest[k].item \in Item
    BY <1>1, <2>1 DEF TaggedIsItem
  <2>3. CASE calls' = rest
    BY <2>1, <2>2, <2>3 DEF TaggedIsItem
  <2>4. CASE calls' = Schedule \o rest
    <3>1. /\ calls' \in Seq(CallType) /\ Len(calls') = 1 + Len(rest)
          /\ \A k \in 1 .. 1 + Len(rest) :
               calls'[k] = IF k <= 1 THEN Schedule[k] ELSE rest[k - 1]
      <4>1. rest \in Seq(CallType)
        BY <2>1
      <4>2. QED
        BY <2>4, <4>1, PlanFirst
    <3>2. DOMAIN calls' = 1 .. n
      BY <2>1, <3>1
    <3>3. ASSUME NEW k \in 1 .. n, calls'[k].op = "tag"
          PROVE  calls'[k].item \in Item
      <4>1. k # 1
        BY <2>1, <3>1, <3>3, ScheduleCall
      <4>2. calls'[k] = rest[k - 1] /\ k - 1 \in 1 .. n - 1
        BY <2>1, <3>1, <4>1
      <4>3. QED
        BY <2>2, <3>3, <4>2
    <3>4. QED
      BY <3>2, <3>3 DEF TaggedIsItem
  <2>5. QED
    BY <1>4, <2>3, <2>4 DEF rest
<1>5. CASE User
  <2>1. CASE \E all \in BOOLEAN : deletePlaylistItems(all)
    BY <1>1, <2>1, DeleteItemsPlaylist DEF TaggedIsItem
  <2>2. CASE GoToNextItem
    <3>1. \A k \in DOMAIN calls' : calls'[k].op # "tag"
      BY <1>1, <2>2, NextItemPlaylist
    <3>2. QED
      BY <3>1 DEF TaggedIsItem
  <2>3. CASE StartPlayback
    <3>1. calls' = <<Call("watch", selected)>> \/ calls' = <<>>
      BY <2>3 DEF StartPlayback
    <3>2. QED
      BY <3>1 DEF TaggedIsItem, Call
  <2>4. CASE \/ \E i \in Item, s \in Slot : \E f \in Frame \cup {NoFrame} : loadFrame(i, f, s)
             \/ \E i \in Item : SelectItem(i)
             \/ \E i \in Item, clear \in BOOLEAN : itemNeedsRecache(i, clear)
             \/ \E s \in Settings : updateSettings(s)
             \/ StopPlayback \/ testConversionSpeed \/ CancelTest
    BY <1>2, <1>3, <2>4 DEF loadFrame, SelectItem, itemNeedsRecache, updateSettings,
       StopPlayback, testConversionSpeed, CancelTest
  <2>5. QED
    BY <1>5, <2>1, <2>2, <2>3, <2>4 DEF User
<1>6. CASE MainThread
  BY <1>2, <1>4, <1>6 DEF MainThread, FillThread, StartWorkerThread, FillDone,
     scheduleCachingListUpdate, watchItemForCachingFinished, TagItem, itemAboutToBeDeleted, Calling
<1>7. CASE \/ updateTestProgress \/ UNCHANGED vars
           \/ \E t \in Thread : CachingThread(t)
           \/ \E s \in Slot : InteractiveThread(s)
  BY <1>2, <1>7 DEF updateTestProgress, CachingThread, InteractiveThread, processCacheJobInternal,
     threadCachingFinished, TestCachingFinished, processLoadingJobInternal,
     interactiveLoaderFinished, vars
<1>8. QED
  BY <1>5, <1>6, <1>7 DEF Next

LEMMA InitTypes == Init => TypeInv
<1> SUFFICES ASSUME Init
             PROVE  TypeInv
  OBVIOUS
<1>1. PoolInv /\ PlaylistInv
  BY InitPool, InitPlaylist
<1>2. QueueTypeOK
  BY DEF Init, QueueTypeOK
<1>3. WorkerTypeOK
  BY WorkerValues DEF Init, WorkerTypeOK, NoRequest, NoFrame
<1>4. ListTypeOK /\ TestTypeOK /\ TestItemHasFrames
  BY DEF Init, ListTypeOK, TestTypeOK, TestItemHasFrames
<1>5. CountTypeOK
  BY PoolAssumption DEF Init, CountTypeOK, targetNrThreads
<1>6. TaggedIsItem
  BY ScheduleCall DEF Init, TaggedIsItem
<1>7. QED
  BY <1>1, <1>2, <1>3, <1>4, <1>5, <1>6 DEF TypeInv, DataTypeOK

LEMMA NextTypes == TypeInv /\ [Next]_vars => TypeInv'
<1> SUFFICES ASSUME TypeInv, [Next]_vars
             PROVE  TypeInv'
  OBVIOUS
<1>1. PoolInv' /\ PlaylistInv' /\ TaggedIsItem'
  BY NextPool, NextPlaylist, TaggedNext DEF TypeInv
<1>2. DataTypeOK' /\ TestItemHasFrames'
  <2>1. CASE User
    BY <2>1, LoadTypes, RecacheTypes, SettingsTypes, PlayTypes, TestTypes, OtherTypes DEF User
  <2>2. CASE MainThread
    BY <2>2, FillTypes, ScheduleTypes, WatchTypes, DeletionTypes DEF MainThread
  <2>3. CASE updateTestProgress \/ UNCHANGED vars
    BY <2>3, OtherTypes
  <2>4. CASE \E t \in Thread : CachingThread(t)
    BY <2>4, WorkTypes, FinishedTypes, TestFinishedTypes DEF CachingThread
  <2>5. CASE \E s \in Slot : InteractiveThread(s)
    BY <2>5, SlotTypes
  <2>6. QED
    BY <2>1, <2>2, <2>3, <2>4, <2>5 DEF Next
<1>3. QED
  BY <1>1, <1>2 DEF TypeInv

\* Whatever the user, the threads and the planner do, with the conversion test as
\* well: every variable of the cache keeps its type. In particular the memory in
\* use stays a number, and the frame that the test computes modulo the length of
\* its item exists (VideoCache::pushNextJobToCachingThread).
THEOREM CacheTypes == Spec => []TypeOK
<1>1. Spec => []TypeInv
  BY InitTypes, NextTypes, PTL DEF Spec
<1>2. QED
  BY <1>1, TypesOfAll, PTL
-----------------------------------------------------------------------------
(* The memory the caches take. Added to it is what the threads of the pool *)
(* will put into them: it is accounted for from the moment on when a       *)
(* thread gets a frame to cache.                                           *)

\* The threads of T that cache an item, by the workers w.
HeldBy(w, T) == [i \in Item |-> {u \in T : w[u].item = i /\ ~w[u].test}]

\* What the frames in the caches, and those on their way to them, take.
UsedBy(c, H) == [i \in Item |-> SpaceOf(i, Cardinality(c[i]) + Cardinality(H[i]))]
Used(c, H) == Total(ItemList(listed), UsedBy(c, H))

\* The frames that may be removed are cached, and no frame is removed twice.
Removable(c) ==
    /\ \A k \in DOMAIN deq : deq[k][2] \in c[deq[k][1]]
    /\ \A k, m \in DOMAIN deq : deq[k] = deq[m] => k = m

\* The caches without the first n frames that may be removed.
Without(c, n) ==
    [i \in Item |-> c[i] \ {deq[m][2] : m \in {x \in 1 .. n : deq[x][1] = i}}]

Accounted(c, H) ==
    /\ level \in Int
    /\ Used(c, H) <= level
    /\ level <= settings.max

\* While jobs may be taken from the queues.
JobsAreTaken == workersState = "Running" \/ (filling /\ (left # {} \/ started))

\* An item is only cleared while the threads are stopped.
ClearsWhileStopping ==
    /\ itemsToClear \subseteq Item
    /\ itemsToClear # {} => workersState = "IntReqRestart" /\ ~filling

\* Nothing is played.
NeverPlays ==
    /\ playMode = "Stopped"
    /\ \A k \in DOMAIN calls : calls[k].op # "watch"

MemoryInv ==
    /\ Accounted(cached, HeldBy(worker, threads))
    /\ JobsAreTaken => Removable(cached)
    /\ ClearsWhileStopping
    /\ NeverPlays
-----------------------------------------------------------------------------
Caches == [Item -> SUBSET Frame]
Holders == [Item -> SUBSET Thread]

\* More frames take more memory.
LEMMA SpaceLemma ==
    ASSUME NEW i \in Item, NEW m \in Nat
    PROVE  /\ SpaceOf(i, m) \in Nat /\ SpaceOf(i, m + 1) = SpaceOf(i, m) + FrameSize[i]
           /\ \A n \in Nat : m <= n => SpaceOf(i, m) <= SpaceOf(i, n)
<1>1. PICK s \in Nat : s = FrameSize[i]
  BY ItemAssumption
<1>2. m * s \in Nat /\ (m + 1) * s = m * s + s
  BY <1>1
<1>3. ASSUME NEW n \in Nat, m <= n
      PROVE  m * s <= n * s
  <2>1. PICK d \in Nat : n = m + d
    <3>1. n - m \in Nat /\ n = m + (n - m)
      BY <1>3
    <3>2. QED
      BY <3>1
  <2>2. (m + d) * s = m * s + d * s /\ d * s \in Nat
    BY <1>1
  <2>3. QED
    BY <1>2, <2>1, <2>2
<1>4. QED
  BY <1>1, <1>2, <1>3 DEF SpaceOf

\* The items in the tree, as a list: each of them is there once.
LEMMA ListOfItems ==
    ASSUME PlaylistInv
    PROVE  /\ ItemList(listed) \in Seq(Item)
           /\ \A i \in listed : \E p \in DOMAIN ItemList(listed) : ItemList(listed)[p] = i
           /\ \A p, q \in DOMAIN ItemList(listed) :
                ItemList(listed)[p] = ItemList(listed)[q] => p = q
<1>1. listed \subseteq {Order[k] : k \in DOMAIN Order} /\ listed \subseteq Item
  BY ListedItems DEF PlaylistInv, PlaylistTypeOK
<1>2. /\ ItemList(listed) \in Seq(listed)
      /\ \A i \in listed : \E p \in DOMAIN ItemList(listed) : ItemList(listed)[p] = i
  BY <1>1, ItemListLemma
<1>3. ItemList(listed) \in Seq(Item)
  BY <1>1, <1>2, SeqMonotonic
<1> DEFINE K == {k \in DOMAIN Order : Order[k] \in listed}
<1>4. ItemList(listed) = Part(Order, K)
  BY DEF ItemList, Those
<1>5. Order \in Seq(Item) /\ \A k, m \in DOMAIN Order : Order[k] = Order[m] => k = m
  BY ItemAssumption
<1> HIDE DEF K
<1>6. \A p, q \in DOMAIN Part(Order, K) : Part(Order, K)[p] = Part(Order, K)[q] => p = q
  BY <1>5, PartIsInjective
<1>7. QED
  BY <1>2, <1>3, <1>4, <1>6

\* The frames of an item, and the threads that cache it, can be counted.
LEMMA CachesAreFinite ==
    ASSUME NEW c \in Caches, NEW H \in Holders, NEW i \in Item
    PROVE  /\ IsFiniteSet(c[i]) /\ IsFiniteSet(H[i])
           /\ Cardinality(c[i]) \in Nat /\ Cardinality(H[i]) \in Nat
           /\ UsedBy(c, H)[i] = SpaceOf(i, Cardinality(c[i]) + Cardinality(H[i]))
           /\ UsedBy(c, H)[i] \in Nat
<1>1. c[i] \in SUBSET Frame /\ H[i] \in SUBSET Thread
  BY DEF Caches, Holders
<1>2. IsFiniteSet(c[i]) /\ IsFiniteSet(H[i])
  BY <1>1, ItemsAreFinite, PoolAssumption, FS_Subset
<1>3. Cardinality(c[i]) \in Nat /\ Cardinality(H[i]) \in Nat
  BY <1>2, FS_CardinalityType
<1>4. Cardinality(c[i]) + Cardinality(H[i]) \in Nat
  BY <1>3
<1>5. UsedBy(c, H)[i] = SpaceOf(i, Cardinality(c[i]) + Cardinality(H[i]))
  BY DEF UsedBy
<1>6. SpaceOf(i, Cardinality(c[i]) + Cardinality(H[i])) \in Nat
  BY <1>4, SpaceLemma
<1>7. QED
  BY <1>2, <1>3, <1>5, <1>6

\* The memory in use is a number.
LEMMA UsedIsNumber ==
    ASSUME NEW items \in Seq(Item), NEW c \in Caches, NEW H \in Holders
    PROVE  Valued(items, UsedBy(c, H)) /\ Total(items, UsedBy(c, H)) \in Nat
<1>1. Valued(items, UsedBy(c, H))
  BY CachesAreFinite DEF Valued
<1>2. QED
  BY <1>1, TotalType

\* No more frames, and threads that cache, of any item take no more memory.
LEMMA NoMoreUsed ==
    ASSUME PlaylistInv, NEW c \in Caches, NEW H \in Holders, NEW d \in Caches, NEW G \in Holders,
           \A i \in Item : Cardinality(d[i]) + Cardinality(G[i])
                             <= Cardinality(c[i]) + Cardinality(H[i])
    PROVE  Used(d, G) <= Used(c, H)
<1> DEFINE items == ItemList(listed)
<1>1. items \in Seq(Item)
  BY ListOfItems
<1> HIDE DEF items
<1>2. Valued(items, UsedBy(c, H)) /\ Valued(items, UsedBy(d, G))
  BY <1>1, UsedIsNumber
<1>3. ASSUME NEW i \in Item
      PROVE  UsedBy(d, G)[i] <= UsedBy(c, H)[i]
  <2>1. /\ Cardinality(c[i]) + Cardinality(H[i]) \in Nat
        /\ Cardinality(d[i]) + Cardinality(G[i]) \in Nat
    BY CachesAreFinite
  <2>2. SpaceOf(i, Cardinality(d[i]) + Cardinality(G[i]))
          <= SpaceOf(i, Cardinality(c[i]) + Cardinality(H[i]))
    BY <2>1, SpaceLemma
  <2>3. QED
    BY <2>2, CachesAreFinite
<1>4. \A n \in DOMAIN items : UsedBy(d, G)[items[n]] <= UsedBy(c, H)[items[n]]
  BY <1>1, <1>3
<1>5. Total(items, UsedBy(d, G)) <= Total(items, UsedBy(c, H))
  BY <1>1, <1>2, <1>4, TotalOrdered
<1>6. QED
  BY <1>5 DEF Used, items

\* Subsets are no more.
LEMMA FewerUsed ==
    ASSUME PlaylistInv, NEW c \in Caches, NEW H \in Holders, NEW d \in Caches, NEW G \in Holders,
           \A i \in Item : d[i] \subseteq c[i] /\ G[i] \subseteq H[i]
    PROVE  Used(d, G) <= Used(c, H)
<1>1. ASSUME NEW i \in Item
      PROVE  Cardinality(d[i]) + Cardinality(G[i]) <= Cardinality(c[i]) + Cardinality(H[i])
  <2>1. Cardinality(d[i]) <= Cardinality(c[i]) /\ Cardinality(G[i]) <= Cardinality(H[i])
    BY CachesAreFinite, FS_Subset
  <2>2. /\ Cardinality(d[i]) \in Nat /\ Cardinality(c[i]) \in Nat
        /\ Cardinality(G[i]) \in Nat /\ Cardinality(H[i]) \in Nat
    BY CachesAreFinite
  <2>3. QED
    BY <2>1, <2>2
<1>2. QED
  BY <1>1, NoMoreUsed

\* What one item takes more, or less, is taken more or less in all.
LEMMA UsedOfItem ==
    ASSUME PlaylistInv, NEW c \in Caches, NEW H \in Holders, NEW d \in Caches, NEW G \in Holders,
           NEW j \in listed, NEW k \in Int,
           UsedBy(d, G)[j] <= UsedBy(c, H)[j] + k,
           \A i \in Item \ {j} : Cardinality(d[i]) + Cardinality(G[i])
                                   <= Cardinality(c[i]) + Cardinality(H[i])
    PROVE  Used(d, G) <= Used(c, H) + k
<1> DEFINE items == ItemList(listed)
<1>1. items \in Seq(Item) /\ \A p, q \in DOMAIN items : items[p] = items[q] => p = q
  BY ListOfItems
<1>2. PICK p : p \in DOMAIN items /\ items[p] = j
  BY ListOfItems
<1> HIDE DEF items
<1> DEFINE old == UsedBy(c, H)  new == UsedBy(d, G)
<1>3. Valued(items, old) /\ Valued(items, new)
  BY <1>1, UsedIsNumber
<1>4. ASSUME NEW i \in Item, i # j
      PROVE  new[i] <= old[i]
  <2>1. /\ Cardinality(c[i]) + Cardinality(H[i]) \in Nat
        /\ Cardinality(d[i]) + Cardinality(G[i]) \in Nat
    BY CachesAreFinite
  <2>2. Cardinality(d[i]) + Cardinality(G[i]) <= Cardinality(c[i]) + Cardinality(H[i])
    BY <1>4
  <2>3. SpaceOf(i, Cardinality(d[i]) + Cardinality(G[i]))
          <= SpaceOf(i, Cardinality(c[i]) + Cardinality(H[i]))
    BY <2>1, <2>2, SpaceLemma
  <2>4. QED
    BY <2>3, CachesAreFinite
<1>5. new[j] <= old[j] + k
  OBVIOUS
<1>6. \A n \in DOMAIN items : items[n] \in Item /\ old[items[n]] \in Nat
  BY <1>1, CachesAreFinite
<1> HIDE DEF old, new
<1>7. \A n \in DOMAIN items :
        new[items[n]] <= old[items[n]] + (IF n = p THEN k ELSE 0)
  <2> SUFFICES ASSUME NEW n \in DOMAIN items
               PROVE  new[items[n]] <= old[items[n]] + (IF n = p THEN k ELSE 0)
    OBVIOUS
  <2>1. CASE n = p
    BY <1>2, <1>5, <2>1
  <2>2. CASE n # p
    <3>1. items[n] # j /\ items[n] \in Item /\ old[items[n]] \in Nat
      BY <1>1, <1>2, <1>6, <2>2
    <3>2. new[items[n]] <= old[items[n]] /\ old[items[n]] + 0 = old[items[n]]
      BY <1>4, <3>1
    <3>3. QED
      BY <2>2, <3>2
  <2>3. QED
    BY <2>1, <2>2
<1>8. Total(items, new) <= Total(items, old) + k
  BY ONLY <1>1, <1>2, <1>3, <1>7, k \in Int, TotalGrows
<1>9. QED
  BY <1>8 DEF Used, items, old, new

\* A frame more is in a cache, or on its way to it.
LEMMA OneMoreUsed ==
    ASSUME PlaylistInv, NEW c \in Caches, NEW H \in Holders, NEW G \in Holders,
           NEW j \in listed, NEW t,
           \A i \in Item : G[i] \subseteq H[i] \cup (IF i = j THEN {t} ELSE {})
    PROVE  Used(c, G) <= Used(c, H) + FrameSize[j]
<1>1. j \in Item
  BY ListedItems
<1>2. ASSUME NEW i \in Item
      PROVE  /\ Cardinality(G[i]) <= Cardinality(H[i]) + (IF i = j THEN 1 ELSE 0)
             /\ Cardinality(G[i]) \in Nat /\ Cardinality(H[i]) \in Nat
             /\ Cardinality(c[i]) \in Nat
  <2>1. /\ IsFiniteSet(G[i]) /\ IsFiniteSet(H[i])
        /\ Cardinality(G[i]) \in Nat /\ Cardinality(H[i]) \in Nat
        /\ Cardinality(c[i]) \in Nat
    BY CachesAreFinite
  <2>2. CASE i # j
    <3>1. G[i] \in SUBSET H[i]
      BY <2>2
    <3>2. QED
      BY <2>1, <2>2, <3>1, FS_Subset
  <2>3. CASE i = j
    <3>1. G[i] \in SUBSET (H[i] \cup {t})
      BY <2>3
    <3>2. /\ IsFiniteSet(H[i] \cup {t})
          /\ Cardinality(H[i] \cup {t})
               = IF t \in H[i] THEN Cardinality(H[i]) ELSE Cardinality(H[i]) + 1
      BY <2>1, FS_AddElement
    <3>3. Cardinality(G[i]) <= Cardinality(H[i] \cup {t})
      BY <3>1, <3>2, FS_Subset
    <3>4. QED
      BY <2>1, <2>3, <3>2, <3>3
  <2>4. QED
    BY <2>1, <2>2, <2>3
<1>3. \A i \in Item \ {j} : Cardinality(c[i]) + Cardinality(G[i])
                              <= Cardinality(c[i]) + Cardinality(H[i])
  BY <1>2
<1>4. UsedBy(c, G)[j] <= UsedBy(c, H)[j] + FrameSize[j]
  <2>1. PICK m \in Nat, n \in Nat : /\ m = Cardinality(c[j]) + Cardinality(G[j])
                                    /\ n = Cardinality(c[j]) + Cardinality(H[j])
    BY <1>1, <1>2
  <2>2. m <= n + 1
    BY <1>1, <1>2, <2>1
  <2>3. SpaceOf(j, m) <= SpaceOf(j, n + 1) /\ SpaceOf(j, n + 1) = SpaceOf(j, n) + FrameSize[j]
    BY <1>1, <2>2, SpaceLemma
  <2>4. UsedBy(c, G)[j] = SpaceOf(j, m) /\ UsedBy(c, H)[j] = SpaceOf(j, n)
    BY <1>1, <2>1, CachesAreFinite
  <2>5. QED
    BY <2>3, <2>4
<1>5. FrameSize[j] \in Int
  BY <1>1, ItemAssumption
<1>6. QED
  BY <1>3, <1>4, <1>5, UsedOfItem

\* A frame is removed from a cache.
LEMMA OneLessUsed ==
    ASSUME PlaylistInv, NEW c \in Caches, NEW H \in Holders, NEW d \in Caches,
           NEW j \in listed, NEW f, f \in c[j], d[j] = c[j] \ {f},
           \A i \in Item \ {j} : d[i] = c[i]
    PROVE  Used(d, H) <= Used(c, H) - FrameSize[j]
<1>1. j \in Item
  BY ListedItems
<1>2. Cardinality(d[j]) = Cardinality(c[j]) - 1
  <2>1. IsFiniteSet(c[j])
    BY <1>1, CachesAreFinite
  <2>2. QED
    BY <2>1, FS_RemoveElement
<1>3. PICK m \in Nat : /\ m = Cardinality(d[j]) + Cardinality(H[j])
                       /\ m + 1 = Cardinality(c[j]) + Cardinality(H[j])
  <2>1. Cardinality(d[j]) \in Nat /\ Cardinality(c[j]) \in Nat /\ Cardinality(H[j]) \in Nat
    BY <1>1, CachesAreFinite
  <2>2. QED
    BY <1>2, <2>1
<1>4. PICK s \in Nat : s = FrameSize[j]
  BY <1>1, ItemAssumption
<1>5. UsedBy(d, H)[j] <= UsedBy(c, H)[j] + (0 - s)
  <2>1. UsedBy(d, H)[j] = SpaceOf(j, m) /\ UsedBy(c, H)[j] = SpaceOf(j, m + 1)
    <3>1. /\ UsedBy(d, H)[j] = SpaceOf(j, Cardinality(d[j]) + Cardinality(H[j]))
          /\ UsedBy(c, H)[j] = SpaceOf(j, Cardinality(c[j]) + Cardinality(H[j]))
      BY <1>1 DEF UsedBy
    <3>2. QED
      BY <1>3, <3>1
  <2>2. SpaceOf(j, m) \in Nat /\ SpaceOf(j, m + 1) = SpaceOf(j, m) + s
    BY <1>1, <1>4, SpaceLemma
  <2>3. QED
    BY <1>4, <2>1, <2>2
<1>6. \A i \in Item \ {j} : Cardinality(d[i]) + Cardinality(H[i])
                              <= Cardinality(c[i]) + Cardinality(H[i])
  BY CachesAreFinite
<1>7. Used(d, H) <= Used(c, H) + (0 - s)
  BY <1>5, <1>6, UsedOfItem
<1>8. Used(c, H) \in Nat /\ Used(d, H) \in Nat
  BY ListOfItems, UsedIsNumber DEF Used
<1>9. QED
  BY <1>4, <1>7, <1>8

\* The frames that are removed take as much memory as the queue says.
LEMMA RemovedSpace ==
    ASSUME PlaylistInv, NEW c \in Caches, NEW H \in Holders,
           deq \in Seq(listed \X Int), Removable(c)
    PROVE  \A n \in 0 .. Len(deq) : /\ Without(c, n) \in Caches
                                    /\ DequeuedSpace[n] \in Nat
                                    /\ Used(Without(c, n), H) <= Used(c, H) - DequeuedSpace[n]
<1>1. PICK N \in Nat : N = Len(deq) /\ DOMAIN deq = 1 .. N
  BY LenProperties
<1>2. \A n \in 1 .. N : deq[n][1] \in listed /\ deq[n] = <<deq[n][1], deq[n][2]>>
  BY <1>1
<1>3. listed \subseteq Item
  BY ListedItems
<1>4. /\ DequeuedSpace[0] = 0
      /\ \A n \in 1 .. N : DequeuedSpace[n] = DequeuedSpace[n - 1] + FrameSize[deq[n][1]]
  <2>1. deq \in Seq(Item \X Int)
    <3>1. listed \X Int \subseteq Item \X Int
      BY <1>3
    <3>2. QED
      BY <3>1, SeqMonotonic
  <2>2. QED
    BY <1>1, <2>1, DequeuedSpaceLemma
<1>5. \A n \in 0 .. N : Without(c, n) \in Caches
  BY DEF Without, Caches
<1> DEFINE Good(n) == /\ DequeuedSpace[n] \in Nat
                      /\ Used(Without(c, n), H) <= Used(c, H) - DequeuedSpace[n]
           S == {n \in 0 .. N : Good(n)}
<1>6. Used(c, H) \in Nat /\ \A n \in 0 .. N : Used(Without(c, n), H) \in Nat
  BY <1>5, ListOfItems, UsedIsNumber DEF Used
<1>7. 0 \in S
  <2>1. Without(c, 0) = c
    <3>1. \A i \in Item : {deq[m][2] : m \in {x \in 1 .. 0 : deq[x][1] = i}} = {}
      OBVIOUS
    <3>2. c = [i \in Item |-> c[i]]
      BY DEF Caches
    <3>3. QED
      BY <3>1, <3>2 DEF Without
  <2>2. QED
    BY <1>1, <1>4, <1>6, <2>1
<1>8. ASSUME NEW n \in 0 .. N, n # N, n \in S
      PROVE  n + 1 \in S
  <2>1. n + 1 \in 1 .. N /\ n + 1 \in 0 .. N /\ (n + 1) - 1 = n
    <3> HIDE DEF S
    <3>1. QED
      BY <1>1, <1>8
  <2>2. Good(n)
    BY <1>8
  <2>3. PICK j, f : j = deq[n + 1][1] /\ f = deq[n + 1][2] /\ j \in listed
    BY <1>2, <2>1
  <2>4. f \in Without(c, n)[j]
    <3>1. f \in c[j]
      BY <1>1, <2>1, <2>3 DEF Removable
    <3>2. ASSUME NEW m \in 1 .. n, deq[m][1] = j, deq[m][2] = f
          PROVE  FALSE
      <4>1. m \in 1 .. N /\ m # n + 1
        BY <1>1, <2>1
      <4>2. deq[m] = deq[n + 1]
        BY <1>2, <2>1, <2>3, <3>2, <4>1
      <4>3. QED
        BY <1>1, <2>1, <4>1, <4>2 DEF Removable
    <3>3. QED
      BY <1>3, <2>3, <3>1, <3>2 DEF Without
  <2>5. /\ Without(c, n + 1)[j] = Without(c, n)[j] \ {f}
        /\ \A i \in Item \ {j} : Without(c, n + 1)[i] = Without(c, n)[i]
    <3>1. 1 .. n + 1 = (1 .. n) \cup {n + 1}
      BY <1>1
    <3>2. \A i \in Item : {deq[m][2] : m \in {x \in 1 .. n + 1 : deq[x][1] = i}}
             = {deq[m][2] : m \in {x \in 1 .. n : deq[x][1] = i}}
                 \cup (IF i = j THEN {f} ELSE {})
      BY <2>3, <3>1
    <3>3. QED
      BY <1>3, <2>3, <3>2 DEF Without
  <2>6. Used(Without(c, n + 1), H) <= Used(Without(c, n), H) - FrameSize[j]
    BY <1>5, <2>1, <2>3, <2>4, <2>5, OneLessUsed
  <2>7. PICK s \in Nat : s = FrameSize[j]
    BY <1>3, <2>3, ItemAssumption
  <2>8. DequeuedSpace[n + 1] = DequeuedSpace[n] + s
    BY <1>4, <2>1, <2>3, <2>7
  <2>9. /\ Used(c, H) \in Nat /\ Used(Without(c, n), H) \in Nat
        /\ Used(Without(c, n + 1), H) \in Nat
    BY <1>6, <2>1
  <2>10. DequeuedSpace[n + 1] \in Nat
    <3>1. PICK d \in Nat : d = DequeuedSpace[n]
      BY <2>2
    <3>2. d + s \in Nat
      OBVIOUS
    <3>3. QED
      BY <2>8, <3>1, <3>2
  <2>11. Used(Without(c, n + 1), H) <= Used(Without(c, n), H) - s
    BY <2>6, <2>7
  <2>12. Used(Without(c, n + 1), H) <= Used(c, H) - DequeuedSpace[n + 1]
    BY <2>2, <2>7, <2>8, <2>9, <2>11
  <2>13. Good(n + 1)
    BY <2>10, <2>12
  <2>14. QED
    BY <2>1, <2>13
<1>9. \A n \in 0 .. N : n \in S
  <2> HIDE DEF S
  <2>1. QED
    BY <1>1, <1>7, <1>8, Induction
<1>10. QED
  BY <1>1, <1>5, <1>9

\* What is left of the frames that may be removed is still cached.
LEMMA RestIsRemovable ==
    ASSUME PlaylistInv, NEW c \in Caches, deq \in Seq(listed \X Int), Removable(c),
           NEW n \in 0 .. Len(deq),
           deq' = SubSeq(deq, n + 1, Len(deq)), cached' = Without(c, n)
    PROVE  Removable(cached)'
<1>1. PICK N \in Nat : N = Len(deq) /\ DOMAIN deq = 1 .. N /\ n \in 0 .. N /\ n \in Nat
  BY LenProperties
<1>2. \A k \in 1 .. N : deq[k][1] \in listed /\ deq[k] = <<deq[k][1], deq[k][2]>>
  BY <1>1
<1>3. listed \subseteq Item
  BY ListedItems
<1>4. DOMAIN deq' = 1 .. N - n /\ \A k \in 1 .. N - n : deq'[k] = deq[k + n]
  <2> DEFINE E == listed \X Int
  <2>1. deq \in Seq(E) /\ \A k \in n + 1 .. N : k \in 1 .. N
    BY <1>1
  <2> HIDE DEF E
  <2>2. SubSeq(deq, n + 1, N) \in Seq(E)
    BY <1>1, <2>1, SubSeqProperties
  <2>3. Len(SubSeq(deq, n + 1, N)) = N - n
    BY <1>1, <2>1, SubSeqProperties
  <2>4. \A k \in 1 .. N - n : SubSeq(deq, n + 1, N)[k] = deq[n + 1 + k - 1]
    BY <1>1, <2>1, SubSeqProperties
  <2>5. DOMAIN SubSeq(deq, n + 1, N) = 1 .. N - n
    BY <2>2, <2>3, LenProperties
  <2>6. \A k \in 1 .. N - n : n + 1 + k - 1 = k + n
    BY <1>1
  <2>7. QED
    BY <1>1, <2>4, <2>5, <2>6
<1>5. \A k \in 1 .. N - n : k + n \in 1 .. N /\ k + n \notin 1 .. n
  BY <1>1
<1>6. ASSUME NEW k \in 1 .. N - n
      PROVE  deq'[k][2] \in cached'[deq'[k][1]]
  <2>1. PICK j, f : j = deq[k + n][1] /\ f = deq[k + n][2] /\ j \in listed
    BY <1>2, <1>5
  <2>2. f \in c[j]
    BY <1>1, <1>5, <2>1 DEF Removable
  <2>3. ASSUME NEW m \in 1 .. n, deq[m][1] = j, deq[m][2] = f
        PROVE  FALSE
    <3>1. m \in 1 .. N /\ m # k + n
      BY <1>1, <1>5
    <3>2. deq[m] = deq[k + n]
      BY <1>2, <1>5, <2>1, <2>3, <3>1
    <3>3. QED
      BY <1>1, <1>5, <3>1, <3>2 DEF Removable
  <2>4. f \in Without(c, n)[j]
    BY <1>3, <2>1, <2>2, <2>3 DEF Without
  <2>5. QED
    BY <1>4, <2>1, <2>4
<1>7. ASSUME NEW k \in 1 .. N - n, NEW m \in 1 .. N - n, deq'[k] = deq'[m]
      PROVE  k = m
  <2>1. deq[k + n] = deq[m + n]
    BY <1>4, <1>7
  <2>2. k + n = m + n
    BY <1>1, <1>5, <2>1 DEF Removable
  <2>3. QED
    BY <1>1, <2>2
<1>8. QED
  BY <1>4, <1>6, <1>7 DEF Removable

\* A thread gets a job: frames are removed until its frame has space, or the frame
\* is dropped.
LEMMA JobIsAccounted ==
    ASSUME PlaylistInv, Fresh, NEW c \in Caches, NEW w, w = [u \in Thread \cup Slot |-> w[u]],
           NEW T \in SUBSET Thread, NEW t,
           Accounted(c, HeldBy(w, T)), Removable(c),
           NEW watch, NEW play, PushJob(t, w, c, watch, play)
    PROVE  /\ level' \in Int /\ level' <= settings.max
           /\ cached' \in Caches /\ HeldBy(worker', T) \in Holders
           /\ Used(cached', HeldBy(worker', T)) <= level'
           /\ Removable(cached)'
<1> DEFINE H == HeldBy(w, T)
<1>1. H \in Holders /\ HeldBy(worker', T) \in Holders
  BY DEF HeldBy, Holders
<1>2. /\ level \in Int /\ Used(c, H) <= level /\ level <= settings.max
      /\ settings.max \in Nat
  BY PoolAssumption DEF Accounted, PlaylistInv, PlaylistTypeOK
<1>3. CASE UNCHANGED <<deq, level>> /\ worker' = w /\ cached' = c
  BY <1>1, <1>2, <1>3 DEF Removable
<1>4. ASSUME NEW k \in DOMAIN queue, NEW n \in 0 .. Len(deq),
             LET size == FrameSize[queue[k].item]
                 Space(m) == level - DequeuedSpace[m] + size
             IN  /\ n = Len(deq) \/ Space(n) < settings.max
                 /\ deq' = SubSeq(deq, n + 1, Len(deq))
                 /\ cached' = Without(c, n)
                 /\ IF n = Len(deq) /\ Overflows(Space(n))
                      THEN level' = level - DequeuedSpace[n] /\ worker' = w
                      ELSE /\ level' = Space(n)
                           /\ worker' = [w EXCEPT ![t] = Busy(queue[k].item, queue[k].first, FALSE)]
      PROVE  /\ level' \in Int /\ level' <= settings.max
             /\ cached' \in Caches /\ HeldBy(worker', T) \in Holders
             /\ Used(cached', HeldBy(worker', T)) <= level'
             /\ Removable(cached)'
  <2>1. deq \in Seq(listed \X Int)
    BY DEF Fresh
  <2>2. PICK j \in listed : j = queue[k].item
    <3> DEFINE J == JobOf(listed)
    <3>1. \A x \in J : x.item \in listed
      BY DEF JobOf
    <3>2. queue \in Seq(J)
      BY DEF Fresh
    <3> HIDE DEF J
    <3>3. queue[k] \in J
      BY <3>2
    <3>4. QED
      BY <3>1, <3>3
  <2>3. PICK s \in Nat : s = FrameSize[j]
    BY <2>2, ListedItems, ItemAssumption
  <2>4. Removable(cached)'
    BY <1>4, <2>1, RestIsRemovable
  <2>5. /\ Without(c, n) \in Caches /\ DequeuedSpace[n] \in Nat
        /\ Used(Without(c, n), H) <= Used(c, H) - DequeuedSpace[n]
    BY <1>1, <2>1, RemovedSpace
  <2>6. PICK d \in Nat : d = DequeuedSpace[n]
    BY <2>5
  <2>7. cached' = Without(c, n)
    BY <1>4
  <2>8. Used(c, H) \in Nat /\ Used(cached', H) \in Nat /\ Used(cached', HeldBy(worker', T)) \in Nat
    BY <1>1, <2>5, <2>7, ListOfItems, UsedIsNumber DEF Used
  <2>9. Used(cached', H) <= level - d
    BY <1>2, <2>5, <2>6, <2>7, <2>8
  <2>10. CASE level' = level - d /\ worker' = w
    <3>1. level' \in Int /\ level' <= settings.max
      BY <1>2, <2>6, <2>10
    <3>2. Used(cached', HeldBy(worker', T)) <= level'
      BY <2>9, <2>10
    <3>3. QED
      BY <1>1, <2>4, <2>5, <2>7, <3>1, <3>2
  <2>11. ASSUME ~(n = Len(deq) /\ Overflows(level - d + s)), level' = level - d + s,
                worker' = [w EXCEPT ![t] = Busy(j, queue[k].first, FALSE)]
         PROVE  /\ level' \in Int /\ level' <= settings.max
                /\ cached' \in Caches /\ HeldBy(worker', T) \in Holders
                /\ Used(cached', HeldBy(worker', T)) <= level'
                /\ Removable(cached)'
    <3>1. n = Len(deq) \/ level - d + s < settings.max
      BY <1>4, <2>2, <2>3, <2>6
    <3>2. level' \in Int /\ level' <= settings.max
      BY <1>2, <2>11, <3>1 DEF Overflows
    <3>3. \A i \in Item : HeldBy(worker', T)[i] \subseteq H[i] \cup (IF i = j THEN {t} ELSE {})
      BY <2>11 DEF HeldBy, Busy
    <3> HIDE DEF H
    <3>4. Used(cached', HeldBy(worker', T)) <= Used(cached', H) + s
      <4> DEFINE G == HeldBy(worker', T)  e == cached'
      <4>1. /\ e \in Caches /\ H \in Holders /\ G \in Holders
            /\ \A i \in Item : G[i] \subseteq H[i] \cup (IF i = j THEN {t} ELSE {})
        BY <1>1, <2>5, <2>7, <3>3
      <4> HIDE DEF G, e
      <4>2. Used(e, G) <= Used(e, H) + FrameSize[j]
        BY <2>2, <4>1, OneMoreUsed
      <4>3. QED
        BY <2>3, <4>2 DEF G, e
    <3>5. Used(cached', HeldBy(worker', T)) <= level'
      BY <1>2, <2>8, <2>9, <2>11, <3>4
    <3>6. QED
      BY <1>1, <2>4, <2>5, <2>7, <3>2, <3>5
  <2>12. QED
    BY <1>4, <2>2, <2>3, <2>6, <2>10, <2>11
<1>5. QED
  BY <1>3, <1>4 DEF PushJob, Without, queueVars

\* The frames in the caches take no more than is accounted for: just as much if
\* no thread caches a frame.
LEMMA LevelIsUsed ==
    ASSUME PlaylistInv, NEW c \in Caches, NEW H \in Holders
    PROVE  /\ LevelOf(ItemList(listed), c) <= Used(c, H)
           /\ (\A i \in Item : H[i] = {}) => Used(c, H) = LevelOf(ItemList(listed), c)
<1> DEFINE none == [i \in Item |-> {}]
<1>1. none \in Holders /\ \A i \in Item : none[i] = {}
  BY DEF Holders
<1> HIDE DEF none
<1>2. ASSUME NEW G \in Holders, \A i \in Item : G[i] = {}
      PROVE  Used(c, G) = LevelOf(ItemList(listed), c)
  <2>1. ASSUME NEW i \in Item
        PROVE  SpaceOf(i, Cardinality(c[i]) + Cardinality(G[i])) = SpaceOf(i, NrCached(c, i))
    <3>1. Cardinality(G[i]) = 0
      BY <1>2, FS_EmptySet
    <3>2. Cardinality(c[i]) \in Nat
      BY CachesAreFinite
    <3>3. Cardinality(c[i]) + Cardinality(G[i]) = Cardinality(c[i])
      BY <3>1, <3>2
    <3>4. QED
      BY <3>3 DEF NrCached
  <2>2. UsedBy(c, G) = [i \in Item |-> SpaceOf(i, NrCached(c, i))]
    BY <2>1 DEF UsedBy
  <2>3. QED
    BY <2>2 DEF Used, LevelOf
<1>3. Used(c, none) <= Used(c, H)
  BY <1>1, FewerUsed
<1>4. QED
  BY <1>1, <1>2, <1>3

\* A new plan is made when no thread caches a frame.
LEMMA PlanIsAccounted ==
    ASSUME PlaylistInv, NEW c \in Caches, NEW H \in Holders, Accounted(c, H),
           NEW play \in BOOLEAN, UpdateCacheQueue(c, selected, play),
           UNCHANGED <<listed, settings>>,
           NEW G \in Holders, \A i \in Item : G[i] = {}
    PROVE  /\ level' \in Int /\ level' <= settings.max
           /\ cached' \in Caches /\ Used(cached', G) <= level'
           /\ settings.enabled => Removable(cached)'
<1>1. CASE level' = level /\ cached' = c /\ (settings.enabled => deq' = <<>>)
  <2>1. Used(c, G) <= Used(c, H)
    BY FewerUsed
  <2>2. Used(c, G) \in Nat /\ Used(c, H) \in Nat
    BY ListOfItems, UsedIsNumber DEF Used
  <2>3. Used(c, G) <= level
    BY <2>1, <2>2 DEF Accounted
  <2>4. QED
    BY <1>1, <2>3 DEF Accounted, Removable
<1>2. CASE settings.enabled /\ listed # {}
  <2>1. c \in [Item -> SUBSET Frame]
    BY DEF Caches
  <2>2. /\ CacheTypeOK' /\ level' = LevelOf(ItemList(listed), cached') /\ level' <= settings.max
        /\ \A k \in DOMAIN deq' : deq'[k][2] \in cached'[deq'[k][1]]
        /\ \A k, m \in DOMAIN deq' : deq'[k] = deq'[m] => k = m
    BY <1>2, <2>1, PlanIsSound
  <2>3. cached' \in Caches /\ Removable(cached)'
    BY <2>2 DEF CacheTypeOK, Caches, Removable
  <2>4. Used(cached', G) = level' /\ level' \in Nat
    <3> DEFINE e == cached'
    <3>1. e \in Caches /\ level' = LevelOf(ItemList(listed), e)
      BY <2>2, <2>3
    <3> HIDE DEF e
    <3>2. Used(e, G) = level' /\ Used(e, G) \in Nat
      BY <3>1, LevelIsUsed, ListOfItems, UsedIsNumber DEF Used
    <3>3. QED
      BY <3>2 DEF e
  <2>5. QED
    BY <2>2, <2>3, <2>4
<1>3. QED
  BY <1>1, <1>2 DEF UpdateCacheQueue, queueVars
-----------------------------------------------------------------------------
\* The threads of the pool and the items they cache.
LEMMA HoldersAreHeld ==
    ASSUME AllInv
    PROVE  /\ cached \in Caches /\ HeldBy(worker, threads) \in Holders
           /\ \A i \in Item : HeldBy(worker, threads)[i] = HoldersOf(i)
           /\ settings.max \in Nat /\ Used(cached, HeldBy(worker, threads)) \in Nat
<1>1. cached \in Caches
  BY DEF AllInv, ItemInv, CacheTypeOK, Caches
<1>2. threads \in SUBSET Thread
  BY DEF AllInv, PoolInv, PoolTypeOK
<1>3. HeldBy(worker, threads) \in Holders
  BY <1>2 DEF HeldBy, Holders
<1>4. Used(cached, HeldBy(worker, threads)) \in Nat
  BY <1>1, <1>3, ListOfItems, UsedIsNumber DEF AllInv, Used
<1>5. QED
  BY <1>1, <1>3, <1>4, PoolAssumption DEF AllInv, PlaylistInv, PlaylistTypeOK, HeldBy, HoldersOf

\* Nothing is added.
LEMMA FewerAccounted ==
    ASSUME AllInv, Accounted(cached, HeldBy(worker, threads)),
           UNCHANGED <<listed, level>>, settings'.max = settings.max,
           cached' \in Caches, \A i \in Item : cached'[i] \subseteq cached[i],
           threads' \subseteq Thread, FewerHolders
    PROVE  Accounted(cached, HeldBy(worker, threads))'
<1> DEFINE c == cached  H == HeldBy(worker, threads)
           d == cached'  G == HeldBy(worker', threads')
<1>1. /\ c \in Caches /\ H \in Holders /\ d \in Caches /\ G \in Holders /\ settings.max \in Nat
  BY HoldersAreHeld DEF HeldBy, Holders
<1>2. \A i \in Item : d[i] \subseteq c[i] /\ G[i] \subseteq H[i]
  BY DEF FewerHolders, HeldBy, HoldersOf
<1>3. level \in Int /\ Used(c, H) <= level /\ level <= settings.max
  BY DEF Accounted
<1> HIDE DEF c, d, G, H
<1>4. Used(d, G) <= Used(c, H) /\ Used(d, G) \in Nat /\ Used(c, H) \in Nat
  BY <1>1, <1>2, FewerUsed, ListOfItems, UsedIsNumber DEF AllInv, Used
<1>5. Used(d, G) <= level
  BY <1>3, <1>4
<1>6. QED
  BY <1>3, <1>5 DEF Accounted, Used, d, G

\* In the loop of startCaching, or while caching runs, a thread gets a job.
LEMMA PushIsAccounted ==
    ASSUME AllInv, MemoryInv, JobsAreTaken, NEW t \in Thread,
           Push(t, worker, cached, watching, playing),
           UNCHANGED <<listed, settings>>, threads' \subseteq threads \cup {t},
           threads' \subseteq threads \/ t \notin threads
    PROVE  Accounted(cached, HeldBy(worker, threads))' /\ Removable(cached)'
<1>1. PICK T \in SUBSET Thread : T = threads'
  BY DEF AllInv, PoolInv, PoolTypeOK
<1>2. /\ PushJob(t, worker, cached, watching, playing)
      /\ worker = [u \in Thread \cup Slot |-> worker[u]]
  BY DEF Push, testMode, AllInv, ItemInv, Untested, PoolInv, PoolTypeOK
<1>3. PlaylistInv /\ Fresh /\ Removable(cached)
  BY DEF AllInv, ItemInv, QueueIsListed, JobsAreTaken, MemoryInv
<1>4. \A i \in Item : HeldBy(worker, T)[i] \subseteq HeldBy(worker, threads)[i]
  <2>1. t \notin threads => worker[t].item = None
    BY DEF AllInv, PoolInv, OutsiderIsIdle, HoldingIsWorking
  <2>2. QED
    BY <1>1, <2>1, ItemAssumption DEF HeldBy
<1>5. Accounted(cached, HeldBy(worker, T))
  <2>1. /\ cached \in Caches /\ HeldBy(worker, threads) \in Holders
        /\ HeldBy(worker, T) \in Holders
    BY HoldersAreHeld DEF HeldBy, Holders
  <2>2. /\ Used(cached, HeldBy(worker, T)) <= Used(cached, HeldBy(worker, threads))
        /\ Used(cached, HeldBy(worker, T)) \in Nat
        /\ Used(cached, HeldBy(worker, threads)) \in Nat
    BY <1>3, <1>4, <2>1, FewerUsed, ListOfItems, UsedIsNumber DEF Used
  <2>3. QED
    BY <2>2 DEF MemoryInv, Accounted
<1>6. /\ level' \in Int /\ level' <= settings.max
      /\ Used(cached', HeldBy(worker', T)) <= level'
      /\ Removable(cached)'
  BY <1>2, <1>3, <1>5, HoldersAreHeld, JobIsAccounted
<1>7. QED
  BY <1>1, <1>6 DEF Accounted, Used
-----------------------------------------------------------------------------
\* A call is made: the others are none of watching an item.
LEMMA StillNoWatch ==
    ASSUME PlaylistInv, NeverPlays, playMode' = "Stopped",
           calls' \in {calls, <<>>, Schedule}
             \/ (calls # <<>> /\ calls' \in {Tail(calls), Schedule \o Tail(calls)})
    PROVE  NeverPlays'
<1>1. CASE calls' \in {calls, <<>>, Schedule}
  BY <1>1, ScheduleCall DEF NeverPlays
<1>2. CASE calls # <<>> /\ calls' \in {Tail(calls), Schedule \o Tail(calls)}
  <2> DEFINE rest == Tail(calls)
  <2>1. PICK n \in Nat : n = Len(calls) - 1
    BY <1>2, TailOfCalls
  <2>2. /\ rest \in Seq(CallType) /\ Len(rest) = n /\ DOMAIN rest = 1 .. n
        /\ \A k \in 1 .. n : rest[k].op # "watch"
    <3>1. /\ DOMAIN calls = 1 .. Len(calls) /\ Len(calls) \in Nat
          /\ rest \in Seq(CallType) /\ Len(rest) = n /\ DOMAIN rest = 1 .. n
          /\ \A k \in 1 .. n : rest[k] = calls[k + 1]
      BY <1>2, <2>1, TailOfCalls DEF PlaylistInv
    <3>2. \A k \in 1 .. n : k + 1 \in DOMAIN calls
      BY <2>1, <3>1
    <3>3. QED
      BY <3>1, <3>2 DEF NeverPlays
  <2> HIDE DEF rest
  <2>3. CASE calls' = rest
    BY <2>2, <2>3 DEF NeverPlays
  <2>4. CASE calls' = Schedule \o rest
    <3>1. /\ calls' \in Seq(CallType) /\ Len(calls') = 1 + n
          /\ \A k \in 1 .. 1 + n : calls'[k] = IF k <= 1 THEN Schedule[k] ELSE rest[k - 1]
      BY <2>2, <2>4, PlanFirst
    <3>2. DOMAIN calls' = 1 .. 1 + n
      BY <3>1, LenProperties
    <3>3. ASSUME NEW k \in 1 .. 1 + n
          PROVE  calls'[k].op # "watch"
      <4>1. CASE k <= 1
        <5>1. k = 1 /\ calls'[k] = Schedule[1]
          BY <3>1, <4>1
        <5>2. QED
          BY <5>1, ScheduleCall
      <4>2. CASE ~(k <= 1)
        <5>1. k - 1 \in 1 .. n /\ calls'[k] = rest[k - 1]
          BY <2>1, <3>1, <4>2
        <5>2. QED
          BY <2>2, <5>1
      <4>3. QED
        BY <4>1, <4>2
    <3>4. QED
      BY <3>2, <3>3 DEF NeverPlays
  <2>5. QED
    BY <1>2, <2>3, <2>4 DEF rest
<1>3. QED
  BY <1>1, <1>2

\* Steps that touch neither the caches nor the threads.
LEMMA MemoryUnchanged ==
    ASSUME AllInv, MemoryInv, NeverPlays',
           UNCHANGED <<listed, settings, deq, level, cached, threads, worker, itemsToClear>>,
           JobsAreTaken' => JobsAreTaken,
           itemsToClear # {} => workersState' = "IntReqRestart" /\ ~filling'
    PROVE  MemoryInv'
BY DEF MemoryInv, Accounted, Used, Removable, ClearsWhileStopping

\* Steps that only take frames out of the caches, or threads from their items.
LEMMA MemoryKept ==
    ASSUME AllInv, MemoryInv, NeverPlays',
           UNCHANGED <<listed, deq, level>>, settings'.max = settings.max,
           cached' \in Caches, \A i \in Item : cached'[i] \subseteq cached[i],
           threads' \subseteq Thread, FewerHolders,
           JobsAreTaken' => JobsAreTaken /\ cached' = cached,
           ClearsWhileStopping'
    PROVE  MemoryInv'
<1>1. Accounted(cached, HeldBy(worker, threads))'
  BY FewerAccounted DEF MemoryInv
<1>2. JobsAreTaken' => Removable(cached)'
  BY DEF MemoryInv, Removable
<1>3. QED
  BY <1>1, <1>2 DEF MemoryInv

LEMMA FillMemory ==
    ASSUME AllInv, MemoryInv, NEW t \in Thread, FillThread(t)
    PROVE  MemoryInv'
<1>1. /\ filling /\ t \in left /\ filling' /\ threads' = threads
      /\ Push(t, worker, cached, watching, playing)
      /\ UNCHANGED <<listed, settings, itemsToClear, playMode, calls>>
  BY DEF FillThread, playlistVars, poolVars, listVars
<1>2. JobsAreTaken
  BY <1>1 DEF JobsAreTaken
<1>3. Accounted(cached, HeldBy(worker, threads))' /\ Removable(cached)'
  BY <1>1, <1>2, PushIsAccounted
<1>4. ClearsWhileStopping' /\ NeverPlays'
  BY <1>1 DEF MemoryInv, ClearsWhileStopping, NeverPlays
<1>5. QED
  BY <1>3, <1>4 DEF MemoryInv

LEMMA FillDoneMemory ==
    ASSUME AllInv, MemoryInv, FillDone
    PROVE  MemoryInv'
<1>1. /\ filling /\ ~filling' /\ workersState' = IF started THEN "Running" ELSE "Idle"
      /\ UNCHANGED <<listed, settings, deq, level, cached, threads, worker, itemsToClear,
                     playMode, calls>>
  BY DEF FillDone, playlistVars, queueVars, cacheVars, listVars
<1>2. itemsToClear = {} /\ NeverPlays'
  BY <1>1 DEF MemoryInv, ClearsWhileStopping, NeverPlays
<1>3. JobsAreTaken' => JobsAreTaken
  BY <1>1 DEF JobsAreTaken
<1>4. QED
  BY <1>1, <1>2, <1>3, MemoryUnchanged

LEMMA StartWorkerMemory ==
    ASSUME AllInv, MemoryInv, NEW t \in Thread, StartWorkerThread(t)
    PROVE  MemoryInv'
<1>1. /\ ~filling /\ threads' = threads \cup {t} /\ t \notin threads
      /\ UNCHANGED <<listed, settings, itemsToClear, playMode, calls, workersState, filling,
                     left, started>>
  BY DEF StartWorkerThread, playlistVars, listVars, fillVars
<1>2. ClearsWhileStopping' /\ NeverPlays' /\ (JobsAreTaken' <=> workersState = "Running")
      /\ (JobsAreTaken <=> workersState = "Running")
  BY <1>1 DEF MemoryInv, ClearsWhileStopping, NeverPlays, JobsAreTaken
<1>3. CASE workersState = "Running"
  <2>1. Push(t, worker, cached, watching, playing)
    BY <1>3 DEF StartWorkerThread
  <2>2. Accounted(cached, HeldBy(worker, threads))' /\ Removable(cached)'
    BY <1>1, <1>2, <1>3, <2>1, PushIsAccounted
  <2>3. QED
    BY <1>2, <2>2 DEF MemoryInv
<1>4. CASE workersState # "Running"
  <2>1. UNCHANGED <<worker, cached, level>>
    BY <1>4 DEF StartWorkerThread, queueVars
  <2>2. Freed(worker) /\ worker' = worker /\ threads' \subseteq Thread
    BY <1>1, <2>1 DEF AllInv, PoolInv, PoolTypeOK, Freed
  <2>3. FewerHolders
    BY <2>2, FreedHolders DEF AllInv
  <2>4. Accounted(cached, HeldBy(worker, threads))'
    BY <1>1, <2>1, <2>2, <2>3, HoldersAreHeld, FewerAccounted DEF MemoryInv
  <2>5. QED
    BY <1>2, <1>4, <2>4 DEF MemoryInv
<1>5. QED
  BY <1>3, <1>4

\* A plan is made when the threads are idle.
LEMMA ScheduleMemory ==
    ASSUME AllInv, MemoryInv, scheduleCachingListUpdate
    PROVE  MemoryInv'
<1>1. /\ ~filling /\ calls # <<>> /\ calls' = Tail(calls)
      /\ UNCHANGED <<listed, settings, threads, worker, itemsToClear, playMode>>
  BY DEF scheduleCachingListUpdate, Calling, playlistVars, listVars
<1>2. NeverPlays'
  BY <1>1, StillNoWatch DEF AllInv, MemoryInv, NeverPlays
<1>3. workersState # "IntReqStop"
  BY DEF AllInv, ItemInv, Untested
<1>4. CASE /\ UNCHANGED <<queueVars, cached, fillVars>>
           /\ workersState' = "IntReqRestart" \/ (workersState' = "Idle" /\ workersState = "Idle")
  <2>1. /\ UNCHANGED <<deq, level, filling, left, started>> /\ ~JobsAreTaken'
        /\ itemsToClear # {} => workersState' = "IntReqRestart" /\ ~filling'
    BY <1>1, <1>4 DEF queueVars, fillVars, JobsAreTaken, MemoryInv, ClearsWhileStopping
  <2>2. QED
    BY <1>1, <1>2, <1>4, <2>1, MemoryUnchanged
<1>5. CASE /\ workersState = "Idle" /\ settings.enabled
           /\ UpdateCacheQueue(cached, selected, playing)
  <2> DEFINE H == HeldBy(worker, threads)
  <2>1. cached \in Caches /\ H \in Holders /\ Accounted(cached, H) /\ playing \in BOOLEAN
    BY HoldersAreHeld DEF MemoryInv, playing
  <2>2. \A i \in Item : H[i] = {}
    <3>1. WorkingIn(worker) = {}
      BY <1>1, <1>5, HeldByWorking DEF AllInv
    <3>2. threads \subseteq Thread
      BY DEF AllInv, PoolInv, PoolTypeOK
    <3>3. QED
      BY <3>1, <3>2, HolderWorks, ItemAssumption DEF AllInv, HeldBy
  <2>3. H' = H
    BY <1>1 DEF HeldBy
  <2> HIDE DEF H
  <2>4. /\ level' \in Int /\ level' <= settings.max
        /\ cached' \in Caches /\ Used(cached', H) <= level' /\ Removable(cached)'
    BY <1>1, <1>5, <2>1, <2>2, PlanIsAccounted DEF AllInv
  <2>5. Accounted(cached, H)'
    BY <1>1, <2>3, <2>4 DEF Accounted, Used
  <2>6. ClearsWhileStopping'
    BY <1>1, <1>5 DEF MemoryInv, ClearsWhileStopping
  <2>7. QED
    BY <1>2, <2>4, <2>5, <2>6 DEF MemoryInv, H
<1>6. \/ /\ UNCHANGED <<queueVars, cached, fillVars>>
         /\ workersState' = "IntReqRestart" \/ (workersState' = "Idle" /\ workersState = "Idle")
      \/ /\ workersState = "Idle" /\ settings.enabled
         /\ UpdateCacheQueue(cached, selected, playing)
  BY <1>3, Zenon DEF scheduleCachingListUpdate
<1>7. QED
  BY <1>4, <1>5, <1>6

LEMMA TagMemory ==
    ASSUME AllInv, MemoryInv, TagItem
    PROVE  MemoryInv'
<1>1. /\ calls # <<>> /\ calls' \in {Tail(calls), Schedule \o Tail(calls)}
      /\ UNCHANGED <<listed, settings, deq, level, cached, threads, worker, itemsToClear,
                     workersState, filling, left, started>>
      /\ playMode' = "Stopped"
  BY DEF TagItem, Calling, queueVars, cacheVars, poolVars, fillVars, PausePlayback, MemoryInv,
     NeverPlays
<1>2. NeverPlays'
  BY <1>1, StillNoWatch DEF AllInv, MemoryInv
<1>3. /\ JobsAreTaken' => JobsAreTaken
      /\ itemsToClear # {} => workersState' = "IntReqRestart" /\ ~filling'
  BY <1>1 DEF JobsAreTaken, MemoryInv, ClearsWhileStopping
<1>4. QED
  BY <1>1, <1>2, <1>3, MemoryUnchanged

\* What an item that leaves the playlist takes does not count any more.
LEMMA DeleteMemory ==
    ASSUME AllInv, MemoryInv, itemAboutToBeDeleted
    PROVE  MemoryInv'
<1>1. /\ ~filling /\ calls # <<>> /\ calls' = Tail(calls)
      /\ listed' = listed \ {Head(calls).item}
      /\ workersState' = IF workersState # "Idle" THEN "IntReqRestart" ELSE "Idle"
      /\ UNCHANGED <<settings, deq, level, cached, threads, worker, itemsToClear, playMode,
                     filling, left, started>>
  BY DEF itemAboutToBeDeleted, Calling, queueVars, cacheVars, fillVars
<1>2. NeverPlays'
  BY <1>1, StillNoWatch DEF AllInv, MemoryInv, NeverPlays
<1>3. ClearsWhileStopping' /\ ~JobsAreTaken'
  BY <1>1 DEF MemoryInv, ClearsWhileStopping, JobsAreTaken
<1>4. Accounted(cached, HeldBy(worker, threads))'
  <2> DEFINE value == UsedBy(cached, HeldBy(worker, threads))
             K == {k \in DOMAIN Order : Order[k] \in listed'}
             L == {k \in DOMAIN Order : Order[k] \in listed}
  <2>1. Order \in Seq(Item) /\ K \subseteq L
    BY <1>1, ItemAssumption
  <2>2. \A i \in Item : value[i] \in Nat
    BY HoldersAreHeld, CachesAreFinite
  <2>3. /\ Used(cached, HeldBy(worker, threads)) = Total(Part(Order, L), value)
        /\ Used(cached, HeldBy(worker, threads))' = Total(Part(Order, K), value)
    BY <1>1 DEF Used, ItemList, Those, UsedBy, HeldBy
  <2> HIDE DEF value, K, L
  <2>4. Total(Part(Order, K), value) <= Total(Part(Order, L), value)
    <3>1. \A k \in L \cap DOMAIN Order : value[Order[k]] \in Nat
      BY <2>1, <2>2
    <3>2. QED
      BY <2>1, <3>1, TotalOfPart
  <2>5. Total(Part(Order, L), value) \in Nat /\ Total(Part(Order, K), value) \in Nat
    <3>1. Part(Order, L) \in Seq(Item) /\ Part(Order, K) \in Seq(Item)
      BY <2>1, PartOfJobs
    <3>2. Valued(Part(Order, L), value) /\ Valued(Part(Order, K), value)
      BY <2>2, <3>1 DEF Valued
    <3>3. QED
      BY <3>1, <3>2, TotalType
  <2>6. QED
    BY <1>1, <2>3, <2>4, <2>5 DEF MemoryInv, Accounted
<1>5. QED
  BY <1>2, <1>3, <1>4 DEF MemoryInv
-----------------------------------------------------------------------------
\* A frame gets from a worker into the cache.
LEMMA WorkMemory ==
    ASSUME AllInv, MemoryInv, NEW t \in Thread, processCacheJobInternal(t)
    PROVE  MemoryInv'
<1> DEFINE j == worker[t].item
           H == HeldBy(worker, threads)
           G == HeldBy(worker', threads')
<1>1. /\ t \in threads /\ j # None /\ worker' = [worker EXCEPT ![t] = PostedWorker]
      /\ UNCHANGED <<listed, settings, deq, level, threads, itemsToClear, playMode, calls,
                     workersState, filling, left, started>>
      /\ \/ cached' = cached
         \/ /\ ~worker[t].test
            /\ cached' = [cached EXCEPT ![j] = @ \cup {worker[t].frame}]
  BY DEF processCacheJobInternal, playlistVars, queueVars, poolVars, listVars, fillVars
<1>2. j \in Item
  BY <1>1 DEF AllInv, ItemInv, WorkerItemIsAlive
<1>3. cached \in Caches /\ cached' \in Caches /\ H \in Holders /\ G \in Holders
  <2>1. cached' \in Caches
    BY WorkItems DEF ItemInv, CacheTypeOK, Caches
  <2>2. threads' \subseteq Thread
    BY <1>1 DEF AllInv, PoolInv, PoolTypeOK
  <2>3. QED
    BY <2>1, <2>2, HoldersAreHeld DEF HeldBy, Holders
<1>4. \A i \in Item : G[i] = H[i] \ {t}
  <2>1. PostedWorker.item = None
    BY DEF PostedWorker, IdleWorker
  <2>2. \A u \in threads : worker'[u] = IF u = t THEN PostedWorker ELSE worker[u]
    BY <1>1 DEF AllInv, PoolInv, PoolTypeOK
  <2>3. QED
    BY <1>1, <2>1, <2>2, ItemAssumption DEF HeldBy
<1>5. ~worker[t].test => t \in H[j]
  BY <1>1, <1>2 DEF HeldBy
<1> DEFINE c == cached  d == cached'  f == worker[t].frame
<1>6. /\ c \in Caches /\ d \in Caches
      /\ d = c \/ (t \in H[j] /\ d = [c EXCEPT ![j] = @ \cup {f}])
  BY <1>1, <1>3, <1>5
<1> HIDE DEF H, G, c, d, f, j
<1>7. ASSUME NEW i \in Item
      PROVE  Cardinality(d[i]) + Cardinality(G[i]) <= Cardinality(c[i]) + Cardinality(H[i])
  <2>1. /\ IsFiniteSet(c[i]) /\ IsFiniteSet(H[i])
        /\ Cardinality(c[i]) \in Nat /\ Cardinality(H[i]) \in Nat
        /\ Cardinality(d[i]) \in Nat /\ Cardinality(G[i]) \in Nat
    BY <1>3, <1>6, CachesAreFinite
  <2>2. Cardinality(G[i]) = IF t \in H[i] THEN Cardinality(H[i]) - 1 ELSE Cardinality(H[i])
    BY <1>4, <2>1, FS_RemoveElement
  <2>3. CASE d[i] = c[i]
    BY <2>1, <2>2, <2>3
  <2>4. CASE i = j /\ t \in H[i] /\ d[i] = c[i] \cup {f}
    <3>1. Cardinality(c[i] \cup {f}) <= Cardinality(c[i]) + 1
      <4>1. Cardinality(c[i] \cup {f}) = IF f \in c[i] THEN Cardinality(c[i])
                                         ELSE Cardinality(c[i]) + 1
        BY <2>1, FS_AddElement
      <4>2. QED
        BY <2>1, <4>1
    <3>2. QED
      BY <2>1, <2>2, <2>4, <3>1
  <2>5. QED
    BY <1>6, <2>3, <2>4 DEF Caches
<1>8. Used(d, G) <= Used(c, H) /\ Used(d, G) \in Nat /\ Used(c, H) \in Nat
  BY <1>3, <1>6, <1>7, NoMoreUsed, ListOfItems, UsedIsNumber DEF AllInv, Used
<1>9. Accounted(cached, HeldBy(worker, threads))'
  <2>1. level \in Int /\ Used(c, H) <= level /\ level <= settings.max
    BY DEF MemoryInv, Accounted, c, H
  <2>2. Used(d, G) <= level
    BY <1>8, <2>1
  <2>3. QED
    BY <1>1, <2>1, <2>2 DEF Accounted, Used, d, G
<1>10. JobsAreTaken' => Removable(cached)'
  <2>1. JobsAreTaken' => Removable(cached)
    BY <1>1 DEF JobsAreTaken, MemoryInv
  <2>2. \A i \in Item : cached[i] \subseteq cached'[i]
    BY <1>1, <1>3, HoldersAreHeld DEF Caches
  <2>3. JobsAreTaken => deq \in Seq(listed \X Int) /\ listed \subseteq Item
    BY ListedItems DEF AllInv, ItemInv, QueueIsListed, JobsAreTaken, Fresh
  <2>4. JobsAreTaken => \A k \in DOMAIN deq : deq[k][1] \in Item
    BY <2>3
  <2>5. JobsAreTaken' => JobsAreTaken
    BY <1>1 DEF JobsAreTaken
  <2>6. QED
    BY <1>1, <2>1, <2>2, <2>4, <2>5 DEF Removable
<1>11. ClearsWhileStopping' /\ NeverPlays'
  BY <1>1 DEF MemoryInv, ClearsWhileStopping, NeverPlays
<1>12. QED
  BY <1>9, <1>10, <1>11 DEF MemoryInv

\* The interactive threads do not cache.
LEMMA SlotMemory ==
    ASSUME AllInv, MemoryInv, NEW s \in Slot,
           InteractiveThread(s) \/ \E i \in Item, f \in Frame \cup {NoFrame} : loadFrame(i, f, s)
    PROVE  MemoryInv'
<1>1. UNCHANGED <<listed, settings, deq, level, cached, workersState, threads, itemsToClear,
                  playMode, calls, filling, left, started>>
  BY DEF InteractiveThread, processLoadingJobInternal, interactiveLoaderFinished, loadFrame,
     playlistVars, queueVars, cacheVars, poolVars, listVars, fillVars
<1>2. worker' = worker \/ \E x : worker' = [worker EXCEPT ![s] = x]
  BY DEF InteractiveThread, processLoadingJobInternal, interactiveLoaderFinished, loadFrame
<1>3. \A t \in Thread : worker'[t] = worker[t]
  BY <1>2, PoolAssumption DEF AllInv, PoolInv, PoolTypeOK
<1>4. threads' \subseteq Thread /\ FewerHolders
  BY <1>1, <1>3 DEF AllInv, PoolInv, PoolTypeOK, FewerHolders, HoldersOf
<1>5. /\ NeverPlays' /\ ClearsWhileStopping' /\ (JobsAreTaken' => JobsAreTaken)
  BY <1>1 DEF MemoryInv, NeverPlays, ClearsWhileStopping, JobsAreTaken
<1>6. QED
  BY <1>1, <1>4, <1>5, HoldersAreHeld, MemoryKept

\* The signal of a thread: what is due is cleared, and the thread gets another job,
\* or a new plan is made after the last one.
LEMMA FinishedMemory ==
    ASSUME AllInv, MemoryInv, NEW t \in Thread, threadCachingFinished(t)
    PROVE  MemoryInv'
<1> DEFINE w == [worker EXCEPT ![t] = IdleWorker]
           c == [i \in Item |-> IF i \in Clearable(w) THEN {} ELSE cached[i]]
           H == HeldBy(worker, threads)
<1>1. /\ ~filling /\ t \in threads /\ itemsToClear' = itemsToClear \ Clearable(w)
      /\ playMode' = "Stopped" /\ calls' = calls
      /\ UNCHANGED <<listed, selected, settings>>
      /\ threads' = threads \/ (deleteNr > 0 /\ threads' = threads \ {t})
      /\ deleteNr = 0 => threads' = threads
  BY DEF threadCachingFinished, InEventLoop, ModeAfterWait, MemoryInv, NeverPlays
<1>2. /\ Freed(w) /\ threads \subseteq Thread /\ threads' \subseteq Thread
      /\ w = [u \in Thread \cup Slot |-> w[u]] /\ w[t].item = None
      /\ \A u \in Thread \ {t} : w[u] = worker[u]
  BY <1>1 DEF Freed, AllInv, PoolInv, PoolTypeOK, IdleWorker
<1>3. /\ cached \in Caches /\ H \in Holders /\ c \in Caches
      /\ \A i \in Item : c[i] \subseteq cached[i]
      /\ itemsToClear = {} => c = cached
  <2>1. cached \in Caches /\ H \in Holders
    BY HoldersAreHeld
  <2>2. itemsToClear = {} => Clearable(w) = {}
    BY DEF Clearable
  <2> HIDE DEF w
  <2>3. QED
    BY <2>1, <2>2 DEF Caches
<1>4. NeverPlays'
  BY <1>1 DEF MemoryInv, NeverPlays
<1>5. workersState = "Running" => itemsToClear = {}
  BY DEF MemoryInv, ClearsWhileStopping
<1>6. Clearable(w) \subseteq itemsToClear /\ itemsToClear \subseteq Item
  BY DEF Clearable, MemoryInv, ClearsWhileStopping
<1>7. CASE workersState = "Running" /\ deleteNr = 0
  <2>1. PICK watch, play : PushJob(t, w, c, watch, play)
    <3>1. PushJob(t, w, c, watching', playMode' # "Stopped")
      BY <1>7 DEF threadCachingFinished
    <3> HIDE DEF w, c
    <3>2. QED
      BY <3>1
  <2> HIDE DEF w, c
  <2>2. Fresh /\ Removable(cached) /\ c = cached /\ itemsToClear' = {} /\ threads' = threads
    <3>1. Fresh /\ Removable(cached)
      BY <1>7 DEF AllInv, ItemInv, QueueIsListed, MemoryInv, JobsAreTaken
    <3>2. itemsToClear = {} /\ threads' = threads
      BY <1>1, <1>5, <1>7
    <3>3. c = cached /\ itemsToClear' = {}
      BY <1>1, <1>3, <3>2
    <3>4. QED
      BY <3>1, <3>2, <3>3
  <2>3. Accounted(c, HeldBy(w, threads))
    <3>1. \A i \in Item : HeldBy(w, threads)[i] \subseteq H[i]
      <4>1. \A u \in threads : w[u] = worker[u] \/ w[u].item = None
        BY <1>2
      <4>2. ASSUME NEW i \in Item, NEW u \in HeldBy(w, threads)[i]
            PROVE  u \in H[i]
        <5>1. u \in threads /\ w[u].item = i /\ ~w[u].test
          BY <4>2 DEF HeldBy
        <5>2. w[u] = worker[u]
          BY <4>1, <5>1, ItemAssumption
        <5>3. QED
          BY <5>1, <5>2 DEF HeldBy
      <4> HIDE DEF H
      <4>3. QED
        BY <4>2
    <3>2. HeldBy(w, threads) \in Holders
      BY <1>2 DEF HeldBy, Holders
    <3> HIDE DEF H
    <3>3. /\ Used(c, HeldBy(w, threads)) <= Used(c, H)
          /\ Used(c, HeldBy(w, threads)) \in Nat /\ Used(c, H) \in Nat
      BY <1>3, <3>1, <3>2, FewerUsed, ListOfItems, UsedIsNumber DEF AllInv, Used
    <3>4. level \in Int /\ Used(c, H) <= level /\ level <= settings.max
      BY <2>2 DEF MemoryInv, Accounted, H
    <3>5. QED
      BY <3>3, <3>4 DEF Accounted
  <2>4. PICK T \in SUBSET Thread : T = threads
    BY <1>2
  <2>5. /\ level' \in Int /\ level' <= settings.max
        /\ Used(cached', HeldBy(worker', T)) <= level' /\ Removable(cached)'
    BY <1>2, <1>3, <2>1, <2>2, <2>3, <2>4, JobIsAccounted DEF AllInv
  <2>6. Accounted(cached, HeldBy(worker, threads))'
    BY <1>1, <2>2, <2>4, <2>5 DEF Accounted, Used
  <2>7. ClearsWhileStopping'
    BY <2>2 DEF ClearsWhileStopping
  <2>8. QED
    BY <1>4, <2>5, <2>6, <2>7 DEF MemoryInv
<1>8. CASE ~(workersState = "Running" /\ deleteNr = 0)
  <2>1. /\ worker' = w
        /\ \/ /\ Restarts(w)
              /\ UpdateCacheQueue(c, selected, playMode' # "Stopped")
              /\ filling' = TRUE /\ left' = threads' /\ started' = FALSE
              /\ UNCHANGED workersState
           \/ /\ ~Restarts(w)
              /\ cached' = c
              /\ workersState' = IF WorkingIn(w) = {} THEN "Idle" ELSE workersState
              /\ UNCHANGED queueVars
              /\ UNCHANGED fillVars
    BY <1>8, Zenon DEF threadCachingFinished
  <2>2. CASE ~Restarts(w)
    <3>1. /\ cached' = c /\ UNCHANGED <<deq, level, filling, left, started>>
          /\ workersState' = IF WorkingIn(w) = {} THEN "Idle" ELSE workersState
      BY <2>1, <2>2 DEF queueVars, fillVars
    <3>2. FewerHolders
      BY <1>2, <2>1, FreedHolders DEF AllInv
    <3> HIDE DEF w, c
    <3>3. JobsAreTaken' => JobsAreTaken /\ cached' = cached
      BY <1>1, <1>3, <1>5, <3>1 DEF JobsAreTaken
    <3>4. ClearsWhileStopping'
      BY <1>1, <1>6, <2>2, <3>1 DEF MemoryInv, ClearsWhileStopping, Restarts
    <3>5. QED
      BY <1>1, <1>2, <1>3, <1>4, <3>1, <3>2, <3>3, <3>4, MemoryKept
  <2>3. CASE Restarts(w)
    <3> DEFINE G == HeldBy(w, threads')
    <3>1. PICK play \in BOOLEAN : UpdateCacheQueue(c, selected, play)
      <4> HIDE DEF w, c
      <4>1. QED
        BY <2>1, <2>3
    <3>2. /\ filling' = TRUE /\ left' = threads' /\ started' = FALSE
          /\ workersState' = "IntReqRestart" /\ WorkingIn(w) = {}
      BY <2>1, <2>3 DEF Restarts
    <3>3. \A u \in threads : w[u].item = None
      BY <1>2, <3>2 DEF AllInv, PoolInv, HoldingIsWorking, WorkingIn
    <3>4. G \in Holders /\ \A i \in Item : G[i] = {}
      BY <1>1, <1>2, <3>3, ItemAssumption DEF HeldBy, Holders
    <3>5. Clearable(w) = itemsToClear
      BY <1>6, <3>3, ItemAssumption DEF Clearable, CachedBy
    <3> HIDE DEF w, c, G, H
    <3>6. Accounted(c, H)
      <4>1. Used(c, H) <= Used(cached, H) /\ Used(c, H) \in Nat /\ Used(cached, H) \in Nat
        BY <1>3, FewerUsed, ListOfItems, UsedIsNumber DEF AllInv, Used
      <4>2. level \in Int /\ Used(cached, H) <= level /\ level <= settings.max
        BY DEF MemoryInv, Accounted, H
      <4>3. QED
        BY <4>1, <4>2 DEF Accounted
    <3>7. PICK K : K = G
      OBVIOUS
    <3>8. /\ level' \in Int /\ level' <= settings.max
          /\ Used(cached', K) <= level' /\ (settings.enabled => Removable(cached)')
      BY <1>1, <1>3, <3>1, <3>4, <3>6, <3>7, PlanIsAccounted DEF AllInv
    <3>9. Accounted(cached, HeldBy(worker, threads))'
      <4>1. HeldBy(worker', threads') = K
        BY <2>1, <3>7 DEF G
      <4>2. QED
        BY <1>1, <3>8, <4>1 DEF Accounted, Used
    <3>10. JobsAreTaken' => settings.enabled
      <4>1. DisabledThreadsLeave'
        BY FinishedItems DEF ItemInv
      <4>2. QED
        BY <1>1, <3>2, <4>1 DEF DisabledThreadsLeave, JobsAreTaken, AllInv
    <3>11. ClearsWhileStopping'
      BY <1>1, <3>5 DEF ClearsWhileStopping
    <3>12. QED
      BY <1>4, <3>8, <3>9, <3>10, <3>11 DEF MemoryInv
  <2>4. QED
    BY <2>2, <2>3
<1>9. QED
  BY <1>7, <1>8

\* An item that changes is taken out of the cache, now or when the threads stopped.
LEMMA RecacheMemory ==
    ASSUME AllInv, MemoryInv, NEW i \in Item, NEW clear \in BOOLEAN, itemNeedsRecache(i, clear)
    PROVE  MemoryInv'
<1>1. /\ ~filling /\ UNCHANGED <<listed, settings, deq, level, threads, playMode, filling, left,
                                 started>>
      /\ calls' = calls \/ calls' = Schedule
  BY DEF itemNeedsRecache, UserOp, InEventLoop, playlistVars, queueVars, fillVars
<1>2. NeverPlays'
  BY <1>1, StillNoWatch DEF AllInv, MemoryInv, NeverPlays
<1>3. CASE UNCHANGED <<worker, cached, itemsToClear, workersState>>
  <2>1. /\ JobsAreTaken' => JobsAreTaken
        /\ itemsToClear # {} => workersState' = "IntReqRestart" /\ ~filling'
    BY <1>1, <1>3 DEF JobsAreTaken, MemoryInv, ClearsWhileStopping
  <2>2. QED
    BY <1>1, <1>2, <1>3, <2>1, MemoryUnchanged
<1>4. ASSUME worker' = [t \in DOMAIN worker |->
                          IF worker[t].item = i /\ t \in threads
                            THEN Outdate(worker[t]) ELSE worker[t]],
             \/ /\ workersState # "Idle"
                /\ itemsToClear' = itemsToClear \cup {i} /\ UNCHANGED cached
             \/ cached' = [cached EXCEPT ![i] = {}] /\ UNCHANGED itemsToClear,
             IF workersState # "Idle" THEN workersState' = "IntReqRestart"
                                      ELSE UNCHANGED workersState
      PROVE  MemoryInv'
  <2>1. threads' \subseteq Thread /\ FewerHolders
    <3>1. DOMAIN worker = Thread \cup Slot /\ threads \subseteq Thread
      BY DEF AllInv, PoolInv, PoolTypeOK
    <3>2. \A t \in threads : worker'[t] = worker[t] \/ worker'[t] = Outdate(worker[t])
      BY <1>4, <3>1
    <3>3. \A t : /\ Outdate(worker[t]).item = worker[t].item
                 /\ Outdate(worker[t]).test = worker[t].test
      BY DEF Outdate
    <3>4. QED
      BY <1>1, <3>1, <3>2, <3>3 DEF FewerHolders, HoldersOf
  <2>2. cached' \in Caches /\ \A k \in Item : cached'[k] \subseteq cached[k]
    BY <1>4, HoldersAreHeld DEF Caches
  <2>3. ~JobsAreTaken' /\ ClearsWhileStopping'
    BY <1>1, <1>4 DEF JobsAreTaken, MemoryInv, ClearsWhileStopping
  <2>4. QED
    BY <1>1, <1>2, <2>1, <2>2, <2>3, MemoryKept
<1>5. QED
  BY <1>3, <1>4, Zenon DEF itemNeedsRecache

\* All settings grant the same memory; threads are taken out.
LEMMA SettingsMemory ==
    ASSUME AllInv, MemoryInv, \A r, s \in Settings : r.max = s.max,
           NEW s \in Settings, updateSettings(s)
    PROVE  MemoryInv'
<1>1. /\ UNCHANGED <<listed, deq, level, cached, worker, itemsToClear, playMode, workersState,
                     filling, left, started>>
      /\ settings' = s /\ threads' \subseteq threads /\ calls' = Schedule
  BY DEF updateSettings, queueVars, cacheVars, listVars, fillVars
<1>2. NeverPlays'
  BY <1>1, StillNoWatch DEF AllInv, MemoryInv, NeverPlays
<1>3. settings'.max = settings.max
  BY <1>1 DEF AllInv, PlaylistInv, PlaylistTypeOK
<1>4. threads' \subseteq Thread /\ FewerHolders
  BY <1>1 DEF AllInv, PoolInv, PoolTypeOK, FewerHolders, HoldersOf
<1>5. /\ JobsAreTaken' => JobsAreTaken /\ cached' = cached
      /\ ClearsWhileStopping'
  BY <1>1 DEF JobsAreTaken, MemoryInv, ClearsWhileStopping
<1>6. QED
  BY <1>1, <1>2, <1>3, <1>4, <1>5, HoldersAreHeld, MemoryKept

\* Nothing is played: the other operations of the user ask for a plan or for items
\* to be deleted.
LEMMA UserMemory ==
    ASSUME AllInv, MemoryInv,
           (\E i \in Item : SelectItem(i)) \/ \E all \in BOOLEAN : deletePlaylistItems(all)
    PROVE  MemoryInv'
<1>1. UNCHANGED <<listed, settings, deq, level, cached, threads, worker, itemsToClear,
                  workersState, filling, left, started>>
  BY DEF SelectItem, deletePlaylistItems, playlistVars, queueVars, cacheVars, poolVars, listVars,
     fillVars
<1>2. NeverPlays'
  <2>1. CASE \E i \in Item : SelectItem(i)
    <3>1. playMode' = "Stopped" /\ calls' = Schedule
      BY <2>1 DEF SelectItem, PausePlayback
    <3>2. QED
      BY <3>1, StillNoWatch DEF AllInv, MemoryInv
  <2>2. CASE \E all \in BOOLEAN : deletePlaylistItems(all)
    <3>1. playMode' = playMode
      BY <2>2 DEF deletePlaylistItems, playlistVars
    <3>2. \A k \in DOMAIN calls' : calls'[k].op # "watch"
      BY <2>2, DeleteItemsPlaylist DEF AllInv
    <3>3. QED
      BY <3>1, <3>2 DEF MemoryInv, NeverPlays
  <2>3. QED
    BY <2>1, <2>2
<1>3. /\ JobsAreTaken' => JobsAreTaken
      /\ itemsToClear # {} => workersState' = "IntReqRestart" /\ ~filling'
  BY <1>1 DEF JobsAreTaken, MemoryInv, ClearsWhileStopping
<1>4. QED
  BY <1>1, <1>2, <1>3, MemoryUnchanged

\* Nothing is cached in the beginning.
LEMMA InitMemory == Init => MemoryInv
<1> SUFFICES ASSUME Init
             PROVE  MemoryInv
  OBVIOUS
<1>1. PlaylistInv /\ cached \in Caches
  BY InitPlaylist DEF Init, Caches
<1>2. /\ HeldBy(worker, threads) \in Holders
      /\ \A i \in Item : cached[i] = {} /\ HeldBy(worker, threads)[i] = {}
  BY DEF Init, HeldBy, Holders
<1> DEFINE H == HeldBy(worker, threads)
<1>3. Used(cached, H) = 0
  <2>1. ItemList(listed) \in Seq(Item)
    BY <1>1, ListOfItems
  <2>2. ASSUME NEW k \in Item
        PROVE  UsedBy(cached, H)[k] = 0
    <3>1. UsedBy(cached, H)[k] = SpaceOf(k, Cardinality(cached[k]) + Cardinality(H[k]))
      BY DEF UsedBy
    <3>2. Cardinality(cached[k]) = 0 /\ Cardinality(H[k]) = 0
      BY <1>2, FS_EmptySet
    <3>3. FrameSize[k] \in Nat
      BY ItemAssumption
    <3>4. QED
      BY <3>1, <3>2, <3>3 DEF SpaceOf
  <2> HIDE DEF H
  <2>3. \A n \in DOMAIN ItemList(listed) : UsedBy(cached, H)[ItemList(listed)[n]] = 0
    BY <2>1, <2>2
  <2>4. QED
    BY <2>1, <2>3, TotalZero DEF Used
<1>4. Accounted(cached, H)
  <2>1. settings.max \in Nat /\ level = 0
    BY PoolAssumption DEF Init
  <2>2. QED
    BY <1>3, <2>1 DEF Accounted
<1>5. ~JobsAreTaken /\ ClearsWhileStopping
  BY DEF Init, JobsAreTaken, ClearsWhileStopping
<1>6. NeverPlays
  BY ScheduleCall DEF Init, NeverPlays
<1>7. QED
  BY <1>4, <1>5, <1>6 DEF MemoryInv

\* As long as nothing is played, and no conversion is tested.
LEMMA NextMemory ==
    ASSUME "test" \notin Ops, "play" \notin Ops, \A r, s \in Settings : r.max = s.max,
           AllInv, MemoryInv, [Next]_vars
    PROVE  MemoryInv'
<1>1. CASE User
  <2>1. ~testConversionSpeed /\ ~CancelTest
    BY DEF testConversionSpeed, CancelTest, UserOp, AllInv, ItemInv, Untested
  <2>2. ~StartPlayback /\ ~StopPlayback /\ ~GoToNextItem
    BY DEF StartPlayback, StopPlayback, GoToNextItem, UserOp, MemoryInv, NeverPlays
  <2>3. QED
    BY <1>1, <2>1, <2>2, SlotMemory, UserMemory, RecacheMemory, SettingsMemory DEF User
<1>2. CASE MainThread
  <2>1. ~watchItemForCachingFinished
    <3>1. calls # <<>> => 1 \in DOMAIN calls /\ Head(calls) = calls[1]
      BY DEF AllInv, PlaylistInv, PlaylistTypeOK
    <3>2. QED
      BY <3>1 DEF watchItemForCachingFinished, Calling, MemoryInv, NeverPlays
  <2>2. QED
    BY <1>2, <2>1, FillMemory, FillDoneMemory, StartWorkerMemory, ScheduleMemory, TagMemory,
       DeleteMemory DEF MainThread
<1>3. CASE updateTestProgress
  BY <1>3 DEF updateTestProgress, AllInv, ItemInv, Untested
<1>4. CASE \E t \in Thread : CachingThread(t)
  <2>1. \A t \in Thread : ~TestCachingFinished(t)
    BY DEF TestCachingFinished, testMode, AllInv, ItemInv, Untested
  <2>2. QED
    BY <1>4, <2>1, WorkMemory, FinishedMemory DEF CachingThread
<1>5. CASE \E s \in Slot : InteractiveThread(s)
  BY <1>5, SlotMemory
<1>6. CASE UNCHANGED vars
  <2>1. UNCHANGED <<listed, settings, deq, level, cached, threads, worker, itemsToClear,
                    playMode, calls, workersState, filling, left, started>>
    BY <1>6 DEF vars, playlistVars, queueVars, cacheVars, poolVars, listVars, fillVars
  <2>2. NeverPlays' /\ (JobsAreTaken' <=> JobsAreTaken)
    BY <2>1 DEF MemoryInv, NeverPlays, JobsAreTaken
  <2>3. itemsToClear # {} => workersState' = "IntReqRestart" /\ ~filling'
    BY <2>1 DEF MemoryInv, ClearsWhileStopping
  <2>4. QED
    BY <2>1, <2>2, <2>3, MemoryUnchanged
<1>7. QED
  BY <1>1, <1>2, <1>3, <1>4, <1>5, <1>6 DEF Next

\* The frames in the caches of the playlist never take more memory than the setting
\* allows, however frames are cached, removed and cleared, and items selected,
\* changed and deleted: pushNextJobToCachingThread accounts for a frame when a
\* thread gets it, and a new plan is made, from the frames there are, only after the
\* last thread finished. That is not so when playback starts: the plan of
\* signalPlaybackStarting forgets the frames the threads are at. And the limit can
\* be lowered below what is cached, so all settings have the same one here.
THEOREM MemoryIsBounded ==
    "test" \notin Ops /\ "play" \notin Ops /\ (\A r, s \in Settings : r.max = s.max)
      => (Spec => []MemoryBounded)
<1> SUFFICES ASSUME "test" \notin Ops, "play" \notin Ops, \A r, s \in Settings : r.max = s.max
             PROVE  Spec => []MemoryBounded
  OBVIOUS
<1>1. ASSUME AllInv, MemoryInv
      PROVE  MemoryBounded
  <2> DEFINE H == HeldBy(worker, threads)
  <2>1. /\ cached \in Caches /\ H \in Holders /\ settings.max \in Nat
        /\ Used(cached, H) \in Nat
    BY <1>1, HoldersAreHeld
  <2>2. level \in Int /\ Used(cached, H) <= level /\ level <= settings.max
    BY <1>1 DEF MemoryInv, Accounted
  <2> HIDE DEF H
  <2>3. /\ LevelOf(ItemList(listed), cached) <= Used(cached, H)
        /\ LevelOf(ItemList(listed), cached) \in Nat
    <3>1. LevelOf(ItemList(listed), cached) \in Nat
      BY <1>1, <2>1, ListOfItems, LevelIsNumber DEF AllInv, Caches
    <3>2. QED
      BY <1>1, <2>1, <3>1, LevelIsUsed DEF AllInv
  <2>4. QED
    BY <2>1, <2>2, <2>3 DEF MemoryBounded
<1>2. Spec => []AllInv
  BY ItemsAreAlive
<1>3. Init => MemoryInv
  BY InitMemory
<1>4. AllInv /\ MemoryInv /\ [Next]_vars => MemoryInv'
  BY NextMemory
<1>5. QED
  BY <1>1, <1>2, <1>3, <1>4, PTL DEF Spec
=============================================================================
