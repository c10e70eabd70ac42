--------------------------- MODULE ShutdownProofs ---------------------------
(***************************************************************************)
(* What holds of Shutdown for any number of reactors, clients and          *)
(* signals and any first value of active_reactors.                         *)
(*                                                                         *)
(* start() looks only at the counter.  That nobody is in a loop when it    *)
(* returns follows because the counter is exact (CountsActive), because a  *)
(* reactor that an exception has thrown out is in no loop (FailedLeft),    *)
(* and because a reactor that had begun before SIGINT cannot begin again   *)
(* (BegunBeforeExit).                                                      *)
(***************************************************************************)
EXTENDS Shutdown, FiniteSetTheorems, TLAPS

Outside == {"unwind", "free", "join", "done"}

FailedLeft == \A r \in failed : reactor[r] \in Outside

BegunBeforeExit ==
    /\ \A r \in Reactors : reactor[r] = "new" =>
                             r = MainReactor /\ main \in {"launch", "killed"}
    /\ main = "launch" => reactor[MainReactor] = "new"
    /\ exited => main \notin {"launch", "install", "killed"}
    /\ main \in {"drain", "sleep", "close", "join", "gone"} => exited
    /\ exited /\ ~early => \A r \in Reactors : reactor[r] # "pooled"

IInv == TypeOK /\ CountsActive /\ FailedLeft /\ BegunBeforeExit /\ LeftBeforeReturn

Counted == InLoop \cup failed

-----------------------------------------------------------------------------
(* The number of reactors that are counted is a natural number, at most    *)
(* the number of all reactors, and 0 only if there are none.               *)
LEMMA CountedFinite ==
    ASSUME TypeOK
    PROVE  /\ IsFiniteSet(Counted)
           /\ Cardinality(Counted) \in 0..Cardinality(Reactors)
           /\ Cardinality(Counted) = 0 <=> Counted = {}
<1>1. Counted \subseteq Reactors
  BY DEF TypeOK, Counted, InLoop
<1>2. IsFiniteSet(Reactors)
  BY ShutdownAssumption DEF ShutdownAssumption
<1>3. IsFiniteSet(Counted) /\ Cardinality(Counted) <= Cardinality(Reactors)
  BY <1>1, <1>2, FS_Subset
<1>4. Cardinality(Counted) \in Nat /\ Cardinality(Reactors) \in Nat
  BY <1>2, <1>3, FS_CardinalityType
<1>5. Cardinality(Counted) = 0 <=> Counted = {}
  BY <1>3, FS_EmptySet
<1> QED
  BY <1>3, <1>4, <1>5

(* The initial states satisfy the invariant: nobody has begun.             *)
LEMMA InitIInv == Init => IInv
<1> SUFFICES ASSUME Init PROVE IInv
  OBVIOUS
<1> USE ShutdownAssumption DEF ShutdownAssumption
<1>1. InLoop = {} /\ failed = {}
  BY DEF Init, InLoop
<1>2. Cardinality(InLoop \cup failed) = 0 /\ Cardinality(Reactors) \in Nat
  BY <1>1, FS_EmptySet, FS_CardinalityType
<1>3. residue \in Int
  BY DEF Init
<1>4. active - residue \in 0..Cardinality(Reactors)
  BY <1>2, <1>3 DEF Init
<1>5. reactor \in [Reactors -> ReactorState] /\ status \in [Clients -> CallState]
  BY DEF Init, ReactorState, CallState
<1>6. signals \in 0..MaxSignals /\ failed \subseteq Reactors /\ residue \in Residues
  BY DEF Init
<1>7. main \in MainState /\ exited \in BOOLEAN /\ open \in BOOLEAN /\ early \in BOOLEAN
  BY DEF Init, MainState
<1>8. TypeOK
  BY <1>4, <1>5, <1>6, <1>7 DEF TypeOK
<1>9. CountsActive
  BY <1>2, <1>3 DEF Init, CountsActive
<1>10. FailedLeft /\ BegunBeforeExit /\ LeftBeforeReturn
  BY DEF Init, FailedLeft, BegunBeforeExit, LeftBeforeReturn
<1> QED
  BY <1>8, <1>9, <1>10 DEF IInv

(***************************************************************************)
(* A step that lets no reactor in or out of its loop, and throws none out, *)
(* leaves the counter exact.                                               *)
(***************************************************************************)
LEMMA CountsUnchanged ==
    ASSUME IInv, InLoop' = InLoop, UNCHANGED <<active, failed, residue>>
    PROVE  CountsActive' /\ active' - residue' \in 0..Cardinality(Reactors)
BY DEF IInv, TypeOK, CountsActive

(* A counter that is not positive and started at 0 or above counts nobody. *)
LEMMA NobodyCounted ==
    ASSUME IInv, ~(active > 0), residue >= 0
    PROVE  InLoop = {}
<1>1. active = residue + Cardinality(Counted) /\ residue \in Int
  BY ShutdownAssumption DEF ShutdownAssumption, IInv, TypeOK, CountsActive, Counted
<1>2. Cardinality(Counted) \in Nat /\ (Cardinality(Counted) = 0 <=> Counted = {})
  BY CountedFinite DEF IInv
<1>3. Cardinality(Counted) = 0
  BY <1>1, <1>2
<1> QED
  BY <1>2, <1>3 DEF Counted

-----------------------------------------------------------------------------
(* The thread of start(). *)

(* Every step of the thread of start() keeps the invariant: it returns     *)
(* only when the counter is not positive.                                  *)
LEMMA MainIInv ==
    ASSUME IInv, MainThread
    PROVE  IInv'
<1> USE DEF IInv, MainStep, history
<1>1. CASE Launch
  <2>1. reactor' \in [Reactors -> ReactorState]
    BY <1>1 DEF Launch, TypeOK, ReactorState
  <2>2. InLoop' = InLoop
    BY <1>1, ShutdownAssumption
    DEF Launch, InLoop, TypeOK, BegunBeforeExit, ShutdownAssumption
  <2>3. CountsActive' /\ active' - residue' \in 0..Cardinality(Reactors)
    BY <1>1, <2>2, CountsUnchanged DEF Launch
  <2>4. TypeOK'
    BY <1>1, <2>1, <2>3 DEF Launch, TypeOK, MainState
  <2>5. FailedLeft'
    BY <1>1, ShutdownAssumption
    DEF Launch, TypeOK, FailedLeft, BegunBeforeExit, Outside, ShutdownAssumption
  <2>6. BegunBeforeExit'
    BY <1>1 DEF Launch, TypeOK, BegunBeforeExit
  <2>7. LeftBeforeReturn'
    BY <1>1 DEF Launch, LeftBeforeReturn
  <2> QED
    BY <2>3, <2>4, <2>5, <2>6, <2>7
<1>2. CASE ~Launch
  <2>1. UNCHANGED <<exited, signals, reactor, active, status, failed, residue, early>>
    BY <1>2 DEF MainThread, Install, Check, Pause, Drain, Wake, Close, JoinPool
  <2>2. InLoop' = InLoop
    BY <2>1 DEF InLoop
  <2>3. CountsActive' /\ active' - residue' \in 0..Cardinality(Reactors)
    BY <2>1, <2>2, CountsUnchanged
  <2>4. main' \in MainState /\ open' \in BOOLEAN
    BY <1>2 DEF MainThread, Install, Check, Pause, Drain, Wake, Close, JoinPool,
       MainState, TypeOK
  <2>5. TypeOK'
    BY <2>1, <2>3, <2>4 DEF TypeOK
  <2>6. FailedLeft'
    BY <2>1 DEF FailedLeft
  <2>7. BegunBeforeExit'
    BY <1>2, <2>1
    DEF MainThread, Install, Check, Pause, Drain, Wake, Close, JoinPool, BegunBeforeExit
  <2>8. LeftBeforeReturn'
    <3>1. CASE Drain
      BY <3>1, <2>1, <2>2, NobodyCounted DEF Drain, LeftBeforeReturn
    <3>2. CASE ~Drain
      BY <3>2, <1>2, <2>1, <2>2
      DEF MainThread, Install, Check, Pause, Wake, Close, JoinPool, LeftBeforeReturn
    <3> QED
      BY <3>1, <3>2
  <2> QED
    BY <2>3, <2>5, <2>6, <2>7, <2>8
<1> QED
  BY <1>1, <1>2

(* A signal keeps the invariant: the one that sets exited records whether  *)
(* some reactor has yet to begin.                                          *)
LEMMA InterruptIInv ==
    ASSUME IInv, Interrupt
    PROVE  IInv'
<1> USE DEF IInv
<1>1. UNCHANGED <<reactor, active, open, status, failed, residue>>
  BY DEF Interrupt
<1>2. InLoop' = InLoop
  BY <1>1 DEF InLoop
<1>3. CountsActive' /\ active' - residue' \in 0..Cardinality(Reactors)
  BY <1>1, <1>2, CountsUnchanged
<1>4. main' \in MainState /\ exited' \in BOOLEAN /\ early' \in BOOLEAN
  BY DEF Interrupt, MainState, TypeOK
<1>5. signals' \in 0..MaxSignals
  BY ShutdownAssumption DEF Interrupt, TypeOK, ShutdownAssumption
<1>6. TypeOK'
  BY <1>1, <1>3, <1>4, <1>5 DEF TypeOK
<1>7. FailedLeft'
  BY <1>1 DEF FailedLeft
<1>8. BegunBeforeExit'
  <2>1. CASE exited' = exited /\ early' = early
    BY <1>1, <2>1 DEF Interrupt, BegunBeforeExit, Alive, Ended
  <2>2. CASE ~exited /\ exited' /\ early' = (\E r \in Reactors : reactor[r] = "pooled")
    BY <1>1, <2>2 DEF Interrupt, BegunBeforeExit, Alive, Ended
  <2> QED
    BY <2>1, <2>2 DEF Interrupt
<1>9. LeftBeforeReturn'
  BY <1>1, <1>2 DEF Interrupt, LeftBeforeReturn, BegunBeforeExit, Alive, Ended
<1> QED
  BY <1>3, <1>6, <1>7, <1>8, <1>9

-----------------------------------------------------------------------------
(* The reactors, the clients and the workers. *)

(* The step of a reactor changes the place of that reactor only, and it    *)
(* was neither new nor, unless it begins, pooled.                          *)
LEMMA ReactorStepPlace ==
    ASSUME IInv, NEW r \in Reactors, NEW from, NEW to \in ReactorState,
           ReactorStep(r, from, to), from # "new", to \notin {"new", "pooled"}
    PROVE  /\ reactor[r] = from /\ reactor'[r] = to
           /\ reactor' \in [Reactors -> ReactorState]
           /\ \A s \in Reactors : s # r => reactor'[s] = reactor[s]
           /\ InLoop \ {r} = InLoop' \ {r}
           /\ r \in InLoop <=> from \in {"poll", "handle", "quiet", "leave"}
           /\ r \in InLoop' <=> to \in {"poll", "handle", "quiet", "leave"}
           /\ main = "launch" => reactor'[MainReactor] = "new"
<1>1. /\ reactor[r] = from /\ reactor'[r] = to
      /\ reactor' \in [Reactors -> ReactorState]
      /\ \A s \in Reactors : s # r => reactor'[s] = reactor[s]
  BY DEF ReactorStep, IInv, TypeOK
<1>2. /\ InLoop \ {r} = InLoop' \ {r}
      /\ r \in InLoop <=> from \in {"poll", "handle", "quiet", "leave"}
      /\ r \in InLoop' <=> to \in {"poll", "handle", "quiet", "leave"}
  BY <1>1 DEF InLoop
<1>3. main = "launch" => reactor'[MainReactor] = "new"
  BY <1>1, ShutdownAssumption DEF IInv, BegunBeforeExit, ShutdownAssumption
<1> QED
  BY <1>1, <1>2, <1>3

(***************************************************************************)
(* A step that leaves the counter and the thread of start() alone, lets    *)
(* nobody into a loop or out of one, and makes nobody new or pooled, keeps *)
(* the invariant.                                                          *)
(***************************************************************************)
LEMMA WithinIInv ==
    ASSUME IInv, InLoop' = InLoop,
           reactor' \in [Reactors -> ReactorState],
           status' \in [Clients -> CallState],
           UNCHANGED <<main, exited, signals, active, open, failed, residue, early>>,
           main = "launch" => reactor'[MainReactor] = "new",
           \A s \in Reactors : reactor'[s] \in {"new", "pooled"} => reactor'[s] = reactor[s],
           \A s \in failed : reactor'[s] \in Outside
    PROVE  IInv'
<1> USE DEF IInv
<1>1. CountsActive' /\ active' - residue' \in 0..Cardinality(Reactors)
  BY CountsUnchanged
<1>2. TypeOK'
  BY <1>1 DEF TypeOK
<1>3. FailedLeft'
  BY DEF FailedLeft
<1>4. BegunBeforeExit'
  BY DEF BegunBeforeExit
<1>5. LeftBeforeReturn'
  BY DEF LeftBeforeReturn
<1> QED
  BY <1>1, <1>2, <1>3, <1>4, <1>5

(* A reactor that steps from one place in its loop to another, or from one *)
(* after it to another, keeps the invariant.                               *)
LEMMA StepIInv ==
    ASSUME IInv, NEW r \in Reactors, NEW from, NEW to, ReactorStep(r, from, to),
           \/ from \in {"poll", "handle", "quiet"} /\ to \in {"poll", "handle", "quiet", "leave"}
           \/ from \in Outside /\ to \in Outside,
           status' \in [Clients -> CallState],
           UNCHANGED <<main, exited, signals, active, open, failed, residue, early>>
    PROVE  IInv'
<1>1. to \in ReactorState /\ to \notin {"new", "pooled"} /\ from # "new"
  BY DEF ReactorState, Outside
<1>2. /\ reactor[r] = from /\ reactor'[r] = to
      /\ reactor' \in [Reactors -> ReactorState]
      /\ \A s \in Reactors : s # r => reactor'[s] = reactor[s]
      /\ InLoop \ {r} = InLoop' \ {r}
      /\ r \in InLoop <=> from \in {"poll", "handle", "quiet", "leave"}
      /\ r \in InLoop' <=> to \in {"poll", "handle", "quiet", "leave"}
      /\ main = "launch" => reactor'[MainReactor] = "new"
  BY <1>1, ReactorStepPlace
<1>3. InLoop' = InLoop
  BY <1>2 DEF Outside
<1>4. \A s \in Reactors : reactor'[s] \in {"new", "pooled"} => reactor'[s] = reactor[s]
  BY <1>1, <1>2
<1>5. \A s \in failed : reactor'[s] \in Outside
  BY <1>2 DEF IInv, TypeOK, FailedLeft, Outside
<1> QED
  BY <1>2, <1>3, <1>4, <1>5, WithinIInv

(* A reactor that begins is counted: it was in no loop and has not failed. *)
LEMMA BeginIInv ==
    ASSUME IInv, NEW r \in Reactors, Begin(r)
    PROVE  IInv'
<1> USE DEF IInv
<1>1. ReactorStep(r, "pooled", "poll") /\ active' = active + 1
      /\ UNCHANGED <<main, exited, signals, open, status, failed, residue, early>>
  BY DEF Begin, history
<1>2. /\ reactor[r] = "pooled" /\ reactor'[r] = "poll"
      /\ reactor' \in [Reactors -> ReactorState]
      /\ \A s \in Reactors : s # r => reactor'[s] = reactor[s]
      /\ InLoop \ {r} = InLoop' \ {r} /\ r \notin InLoop /\ r \in InLoop'
      /\ main = "launch" => reactor'[MainReactor] = "new"
  BY <1>1, ReactorStepPlace DEF ReactorState
<1>3. r \notin Counted /\ Counted' = Counted \cup {r}
  BY <1>1, <1>2 DEF Counted, FailedLeft, Outside
<1>4. Cardinality(Counted') = Cardinality(Counted) + 1 /\ IsFiniteSet(Counted')
  BY <1>3, CountedFinite, FS_AddElement
<1>5. Cardinality(Counted) \in Nat /\ residue \in Int /\ Cardinality(Reactors) \in Nat
  BY CountedFinite, ShutdownAssumption, FS_CardinalityType DEF TypeOK, ShutdownAssumption
<1>6. CountsActive'
  BY <1>1, <1>4, <1>5 DEF CountsActive, Counted
<1>7. Cardinality(Counted') <= Cardinality(Reactors)
  <2>1. Counted' \subseteq Reactors
    BY <1>1 DEF Counted, InLoop, TypeOK
  <2> QED
    BY <2>1, ShutdownAssumption, FS_Subset DEF ShutdownAssumption
<1>8. active' - residue' \in 0..Cardinality(Reactors)
  BY <1>1, <1>4, <1>5, <1>6, <1>7 DEF CountsActive, Counted
<1>9. TypeOK'
  BY <1>1, <1>2, <1>8 DEF TypeOK
<1>10. FailedLeft'
  BY <1>1, <1>2 DEF FailedLeft, TypeOK, Outside
<1>11. BegunBeforeExit'
  BY <1>1, <1>2 DEF BegunBeforeExit
<1>12. LeftBeforeReturn'
  BY <1>1, <1>2 DEF LeftBeforeReturn, BegunBeforeExit
<1> QED
  BY <1>6, <1>9, <1>10, <1>11, <1>12

(* A reactor that leaves its loop is counted no more: it has not failed.   *)
LEMMA LeaveIInv ==
    ASSUME IInv, NEW r \in Reactors, Leave(r)
    PROVE  IInv'
<1> USE DEF IInv
<1> DEFINE to == IF r = MainReactor THEN "done" ELSE "unwind"
<1>1. ReactorStep(r, "leave", to) /\ active' = active - 1
      /\ UNCHANGED <<main, exited, signals, open, status, failed, residue, early>>
  BY DEF Leave, history
<1>2. to \in Outside /\ to \in ReactorState /\ to \notin {"new", "pooled"}
      /\ to \notin {"poll", "handle", "quiet", "leave"}
  BY DEF Outside, ReactorState
<1> HIDE DEF to
<1>3. /\ reactor[r] = "leave" /\ reactor'[r] = to
      /\ reactor' \in [Reactors -> ReactorState]
      /\ \A s \in Reactors : s # r => reactor'[s] = reactor[s]
      /\ InLoop \ {r} = InLoop' \ {r} /\ r \in InLoop /\ r \notin InLoop'
      /\ main = "launch" => reactor'[MainReactor] = "new"
  BY <1>1, <1>2, ReactorStepPlace
<1>4. r \in Counted /\ Counted' = Counted \ {r}
  BY <1>1, <1>3 DEF Counted, FailedLeft, Outside
<1>5. Cardinality(Counted') = Cardinality(Counted) - 1
  BY <1>4, CountedFinite, FS_RemoveElement
<1>6. /\ Cardinality(Counted) \in 0..Cardinality(Reactors)
      /\ Cardinality(Counted) # 0
      /\ residue \in Int /\ Cardinality(Reactors) \in Nat
  BY <1>4, CountedFinite, ShutdownAssumption, FS_CardinalityType
  DEF TypeOK, ShutdownAssumption
<1>7. CountsActive'
  BY <1>1, <1>5, <1>6 DEF CountsActive, Counted
<1>8. active' - residue' \in 0..Cardinality(Reactors)
  BY <1>1, <1>5, <1>6, <1>7 DEF CountsActive, Counted
<1>9. TypeOK'
  BY <1>1, <1>3, <1>8 DEF TypeOK
<1>10. FailedLeft'
  BY <1>1, <1>3 DEF FailedLeft, TypeOK, Outside
<1>11. BegunBeforeExit'
  BY <1>1, <1>2, <1>3 DEF BegunBeforeExit
<1>12. LeftBeforeReturn'
  BY <1>1, <1>3 DEF LeftBeforeReturn
<1> QED
  BY <1>7, <1>9, <1>10, <1>11, <1>12

(* A reactor that is thrown out of its loop remains counted.               *)
LEMMA ThrownIInv ==
    ASSUME IInv, NEW r \in Reactors, NEW to \in Outside,
           ReactorStep(r, "handle", to), failed' = failed \cup {r},
           status' \in [Clients -> CallState],
           UNCHANGED <<main, exited, signals, active, open, residue, early>>
    PROVE  IInv'
<1> USE DEF IInv
<1>1. to \in ReactorState /\ to \notin {"new", "pooled"}
      /\ to \notin {"poll", "handle", "quiet", "leave"}
  BY DEF Outside, ReactorState
<1>2. /\ reactor[r] = "handle" /\ reactor'[r] = to
      /\ reactor' \in [Reactors -> ReactorState]
      /\ \A s \in Reactors : s # r => reactor'[s] = reactor[s]
      /\ InLoop \ {r} = InLoop' \ {r} /\ r \in InLoop
      /\ main = "launch" => reactor'[MainReactor] = "new"
  BY <1>1, ReactorStepPlace
<1>3. (InLoop \cup failed)' = InLoop \cup failed
  BY <1>2
<1>4. CountsActive' /\ active' - residue' \in 0..Cardinality(Reactors)
  BY <1>3 DEF CountsActive, TypeOK
<1>5. TypeOK'
  BY <1>2, <1>4 DEF TypeOK
<1>6. FailedLeft'
  BY <1>2 DEF FailedLeft, TypeOK
<1>7. BegunBeforeExit'
  BY <1>1, <1>2 DEF BegunBeforeExit
<1>8. LeftBeforeReturn'
  BY <1>2 DEF LeftBeforeReturn
<1> QED
  BY <1>4, <1>5, <1>6, <1>7, <1>8

(* A client that comes further has come as far as a client may come.       *)
LEMMA ProgressType ==
    ASSUME TypeOK, NEW c \in Clients, NEW from, NEW to \in CallState,
           Progress(c, from, to)
    PROVE  status' \in [Clients -> CallState]
BY DEF TypeOK, Progress

-----------------------------------------------------------------------------
(* Every step of a reactor keeps the invariant.                            *)
LEMMA ReactorIInv ==
    ASSUME IInv, NEW r \in Reactors, Reactor(r)
    PROVE  IInv'
<1>1. CASE Begin(r)
  BY <1>1, BeginIInv
<1>2. CASE Leave(r)
  BY <1>2, LeaveIInv
<1>3. CASE Poll(r)
  <2>1. status' \in [Clients -> CallState]
    BY <1>3 DEF Poll, IInv, TypeOK
  <2> QED
    BY <1>3, <2>1, StepIInv DEF Poll, history
<1>4. CASE Quiet(r)
  <2>1. status' \in [Clients -> CallState]
    BY <1>4 DEF Quiet, IInv, TypeOK
  <2>2. CASE exited
    BY <1>4, <2>1, <2>2, StepIInv DEF Quiet, history
  <2>3. CASE ~exited
    BY <1>4, <2>1, <2>3, StepIInv DEF Quiet, history
  <2> QED
    BY <2>2, <2>3
<1>5. CASE Unwind(r)
  <2>1. status' \in [Clients -> CallState]
    BY <1>5 DEF Unwind, IInv, TypeOK
  <2> QED
    BY <1>5, <2>1, StepIInv DEF Unwind, history, Outside
<1>6. CASE FreeLanes(r)
  <2>1. status' \in [Clients -> CallState]
    BY <1>6 DEF FreeLanes, IInv, TypeOK, CallState
  <2> QED
    BY <1>6, <2>1, StepIInv DEF FreeLanes, history, Outside
<1>7. CASE JoinWorkers(r)
  <2>1. status' \in [Clients -> CallState]
    BY <1>7 DEF JoinWorkers, IInv, TypeOK
  <2> QED
    BY <1>7, <2>1, StepIInv DEF JoinWorkers, history, Outside
<1> QED
  BY <1>1, <1>2, <1>3, <1>4, <1>5, <1>6, <1>7 DEF Reactor

(* Every step that takes a client further keeps the invariant.             *)
LEMMA ClientIInv ==
    ASSUME IInv, NEW c \in Clients,
           Handle(c) \/ Request(c) \/ Execute(c) \/ Store(c)
    PROVE  IInv'
<1>1. /\ Home[c] \in Reactors /\ MainReactor \in Reactors /\ TypeOK
      /\ {"new", "connecting", "connected", "arrived", "queued", "running",
          "stored", "ended", "dropped", "undefined"} \subseteq CallState
  BY ShutdownAssumption DEF ShutdownAssumption, IInv, CallState
<1>2. CASE Accept(c)
  <2>1. status' \in [Clients -> CallState]
    BY <1>1, <1>2, ProgressType DEF Accept
  <2> QED
    BY <1>1, <1>2, <2>1, StepIInv DEF Accept, history
<1>3. CASE Read(c)
  <2>1. status' \in [Clients -> CallState]
    BY <1>1, <1>3, ProgressType DEF Read
  <2> QED
    BY <1>1, <1>3, <2>1, StepIInv DEF Read, history
<1>4. CASE Respond(c)
  <2>1. status' \in [Clients -> CallState]
    BY <1>1, <1>4, ProgressType DEF Respond
  <2> QED
    BY <1>1, <1>4, <2>1, StepIInv DEF Respond, history
<1>5. CASE ReadFails(c)
  <2>1. status' \in [Clients -> CallState]
    BY <1>1, <1>5, ProgressType DEF ReadFails
  <2> QED
    BY <1>1, <1>5, <2>1, ThrownIInv DEF ReadFails, Outside
<1>6. CASE Release(c)
  <2>1. status' \in [Clients -> CallState]
    BY <1>1, <1>6, ProgressType DEF Release
  <2> QED
    BY <1>1, <1>6, <2>1, StepIInv DEF Release, history
<1>7. CASE Request(c) \/ Execute(c) \/ Store(c)
  <2>1. status' \in [Clients -> CallState]
    BY <1>1, <1>7, ProgressType DEF Request, Connect, Send, HangUp, Execute, Store
  <2>2. UNCHANGED <<main, exited, signals, reactor, active, open, failed, residue, early>>
    BY <1>7 DEF Request, Connect, Send, HangUp, Execute, Store, history
  <2>3. InLoop' = InLoop
    BY <2>2 DEF InLoop
  <2>4. /\ reactor' \in [Reactors -> ReactorState]
        /\ main = "launch" => reactor'[MainReactor] = "new"
        /\ \A s \in failed : reactor'[s] \in Outside
    BY <2>2 DEF IInv, TypeOK, BegunBeforeExit, FailedLeft
  <2> QED
    BY <2>1, <2>2, <2>3, <2>4, WithinIInv
<1> QED
  BY <1>2, <1>3, <1>4, <1>5, <1>6, <1>7 DEF Handle

(* Every step of the specification keeps the invariant.                    *)
LEMMA NextIInv ==
    ASSUME IInv, [Next]_vars
    PROVE  IInv'
<1>1. CASE MainThread
  BY <1>1, MainIInv
<1>2. CASE Interrupt
  BY <1>2, InterruptIInv
<1>3. CASE AcceptFails
  <2>1. MainReactor \in Reactors /\ status' \in [Clients -> CallState]
    BY <1>3, ShutdownAssumption DEF AcceptFails, ShutdownAssumption, IInv, TypeOK
  <2> QED
    BY <1>3, <2>1, ThrownIInv DEF AcceptFails, Outside
<1>4. CASE \E r \in Reactors : Reactor(r)
  BY <1>4, ReactorIInv
<1>5. CASE \E c \in Clients :
             Handle(c) \/ Request(c) \/ Execute(c) \/ Store(c)
  BY <1>5, ClientIInv
<1>6. CASE UNCHANGED vars
  BY <1>6 DEF vars, IInv, TypeOK, CountsActive, InLoop, FailedLeft, BegunBeforeExit,
     LeftBeforeReturn
<1> QED
  BY <1>1, <1>2, <1>3, <1>4, <1>5, <1>6 DEF Next

-----------------------------------------------------------------------------
(***************************************************************************)
(* The invariant holds in every reachable state.                           *)
(***************************************************************************)
THEOREM Invariance == Spec => []IInv
<1>1. Init => IInv
  BY InitIInv
<1>2. IInv /\ [Next]_vars => IInv'
  BY NextIInv
<1> QED
  BY <1>1, <1>2, PTL DEF Spec

(* The variables have their types, and the counter stays in range.         *)
THEOREM TypeCorrect == Spec => []TypeOK
<1>1. IInv => TypeOK
  BY DEF IInv
<1> QED
  BY <1>1, Invariance, PTL

(* active_reactors is exact: the reactors in their loops, and those that   *)
(* an exception has thrown out.                                            *)
THEOREM CountsActiveCorrect == Spec => []CountsActive
<1>1. IInv => CountsActive
  BY DEF IInv
<1> QED
  BY <1>1, Invariance, PTL

(* start() returns only after every reactor has left its loop, unless the  *)
(* signal came before a reactor had begun or the counter began below zero. *)
THEOREM LeftBeforeReturnCorrect == Spec => []LeftBeforeReturn
<1>1. IInv => LeftBeforeReturn
  BY DEF IInv
<1> QED
  BY <1>1, Invariance, PTL
=============================================================================
